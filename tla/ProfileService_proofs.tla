------------------------ MODULE ProfileService_proofs ------------------------
(***************************************************************************)
(* Proofs about ProfileService, for any bounds.                            *)
(*                                                                         *)
(* As long as nobody has removed the lock of a process at work, the one    *)
(* who is inside is alone.  So the candidate is the text he wrote, the     *)
(* live text is the one he compared unless an editor slipped in, and what  *)
(* he says of his own text is true.  The rest is what each stage of a      *)
(* mutation knows of its own record, and what the inbox knows of it.       *)
(***************************************************************************)
EXTENDS ProfileService, TLAPS

Texts == [ver : Nat, n : Nat]
Before == {"look", "inspect", "clean", "lock", "locked", "read"}
Stages == {"idle", "look", "inspect", "clean", "lock", "drop"} \cup Inside
Ops == [pc : Stages, kind : {"none", "publish", "adopt", "rollback"}, exp : Texts, text : Texts,
        item : Nat, res : {"none", "ok", "refused", "thrown"}]
Locks == [owner : Procs \cup {"none"}, written : BOOLEAN, old : BOOLEAN]

-----------------------------------------------------------------------------
(* The inductive invariant. *)

Types ==
    /\ live \in Inodes /\ guard \in Inodes \cup {None} /\ cand \in Inodes \cup {None} /\ cand # live
    /\ data \in [Inodes -> Texts] /\ lock \in Locks /\ draft \in Texts /\ archive \in Seq(Texts)
    /\ op \in [Procs -> Ops] /\ pending \in Nat /\ pushes \in Nat /\ texts \in Nat
    /\ installed \subseteq Texts /\ replaced \in Texts
    /\ robbed \in BOOLEAN /\ sneaked \in BOOLEAN /\ died \in BOOLEAN
    /\ settled \in BOOLEAN /\ overtaken \in BOOLEAN

Exclusive == ~robbed => \A p \in Procs : op[p].pc \in Inside => lock.owner = p

\* What a mutation's record holds at each stage.
Stage(o, n) ==
    /\ o.pc = "idle" => o = Idle
    /\ o.pc \in Before => o.text = NoText /\ o.res = "none"
    /\ o.pc \in {"pin", "write", "compare", "rename"} => o.res = "none" /\ o.text.n \in 1..n
    /\ o.pc = "record" => o.res = "ok"
    /\ o.kind = "adopt" \/ o.pc = "drop" => o.item # 0

\* What it knows of the files while it is alone.
Own(o) ==
    /\ o.res \in {"ok", "thrown"} <=> o.text \in installed
    /\ o.pc \in {"compare", "rename"} => cand # None /\ data[cand] = o.text
    /\ o.pc = "rename" => sneaked \/ Live = o.exp
    /\ o.pc \in {"unpin", "record"} /\ o.res = "ok" => sneaked \/ o.exp = replaced

\* What it knows of the inbox.
Asks(o) ==
    o.item # 0 /\ ~overtaken =>
       /\ o.item = pushes
       /\ ~robbed /\ (o.res = "ok" \/ o.pc = "drop") => settled

InstalledIsPast == ~robbed => \A t \in installed : t.n \in 1..texts
PendingIsNewest == pending # 0 => pending = pushes

Inv ==
    /\ Types /\ Exclusive
    /\ \A p \in Procs : Stage(op[p], texts) /\ Asks(op[p])
    /\ ~robbed => \A p \in Procs : op[p].pc \in Inside => Own(op[p])
    /\ InstalledIsPast /\ PendingIsNewest
    /\ DisplacedIsKept /\ NoSuggestionIsLost

-----------------------------------------------------------------------------
LEMMA Basics ==
    /\ NoText \in Texts /\ NoText.n = 0 /\ Idle \in Ops /\ NoLock \in Locks
    /\ None \notin Inodes /\ "none" \notin Procs
    /\ Idle.pc = "idle" /\ Idle.kind = "none" /\ Idle.item = 0 /\ Idle.text = NoText /\ Idle.res = "none"
    /\ NoLock.owner = "none"
<1>1. NoText \in Texts /\ NoText.n = 0
  BY DEF NoText, Texts
<1>2. Idle \in Ops
  BY <1>1 DEF Idle, Ops, Stages
<1> QED
  BY <1>1, <1>2 DEF Idle, NoLock, Locks, None, Inodes, Procs

\* Who is inside is alone.
LEMMA Alone ==
    ASSUME Inv, ~robbed, NEW p \in Procs, op[p].pc \in Inside
    PROVE  \A q \in Procs \ {p} : op[q].pc \notin Inside
BY DEF Inv, Exclusive

LEMMA KeptType ==
    ASSUME NEW d \in [Inodes -> Texts], NEW inUse
    PROVE  /\ Kept(d, inUse) \in [Inodes -> Texts]
           /\ \A i \in Inodes \cap inUse : Kept(d, inUse)[i] = d[i]
BY Basics DEF Kept

LEMMA InvInit == Init => Inv
<1> SUFFICES ASSUME Init PROVE Inv
  OBVIOUS
<1>1. \A p \in Procs : op[p] = Idle
  BY DEF Init
<1>2. Types
  <2>1. live \in Inodes /\ guard = None /\ cand = None /\ live # None
    BY Basics DEF Init, Inodes, None
  <2>2. data \in [Inodes -> Texts]
    BY Basics DEF Init, Texts
  <2>3. op \in [Procs -> Ops] /\ archive \in Seq(Texts) /\ lock \in Locks /\ draft \in Texts
    BY Basics DEF Init
  <2>4. pending \in Nat /\ pushes \in Nat /\ texts \in Nat /\ installed \subseteq Texts /\ replaced \in Texts
    BY Basics DEF Init
  <2>5. /\ robbed \in BOOLEAN /\ sneaked \in BOOLEAN /\ died \in BOOLEAN
        /\ settled \in BOOLEAN /\ overtaken \in BOOLEAN
    BY DEF Init
  <2> QED
    BY <2>1, <2>2, <2>3, <2>4, <2>5 DEF Types
<1>3. \A p \in Procs : op[p].pc \notin Inside /\ Stage(op[p], texts) /\ Asks(op[p])
  BY <1>1, Basics DEF Inside, Before, Stage, Asks
<1>4. InstalledIsPast /\ PendingIsNewest /\ DisplacedIsKept /\ NoSuggestionIsLost
  BY DEF Init, InstalledIsPast, PendingIsNewest, DisplacedIsKept, NoSuggestionIsLost
<1> QED
  BY <1>2, <1>3, <1>4 DEF Inv, Exclusive

-----------------------------------------------------------------------------
(* Steps that change no file but the lock. *)

\* A process goes on to record o; the lock, the draft and the count of texts may change.
Move(p, o) ==
    /\ op' = [op EXCEPT ![p] = o]
    /\ UNCHANGED <<live, guard, cand, data, archive, pending, pushes, installed, replaced,
                   sneaked, settled, overtaken>>
    /\ lock' \in Locks /\ draft' \in Texts /\ texts' \in Nat /\ texts' >= texts
    /\ robbed' \in BOOLEAN /\ (robbed => robbed') /\ died' \in BOOLEAN /\ (died => died')
    /\ ~robbed' => /\ o.pc \in Inside => lock'.owner = p
                   /\ \A q \in Procs \ {p} : op[q].pc \in Inside => lock'.owner = q
    /\ Stage(o, texts') /\ Asks(o)
    /\ ~robbed /\ o.pc \in Inside => Own(o)
    /\ ~died' /\ op[p].pc \in {"unpin", "record"} /\ op[p].res = "ok" =>
          o.pc \in {"unpin", "record"} /\ o.res = "ok" /\ o.exp = op[p].exp

LEMMA Moves == ASSUME Inv, NEW p \in Procs, NEW o \in Ops, Move(p, o) PROVE Inv'
<1> USE DEF Move
<1>1. op \in [Procs -> Ops] /\ texts \in Nat
  BY DEF Inv, Types
<1>2. op' \in [Procs -> Ops] /\ op'[p] = o /\ \A q \in Procs \ {p} : op'[q] = op[q]
  BY <1>1
<1>3. Types'
  BY <1>2 DEF Inv, Types
<1>4. Exclusive'
  BY <1>2 DEF Exclusive
<1>5. \A q \in Procs : Stage(op'[q], texts')
  <2> SUFFICES ASSUME NEW q \in Procs PROVE Stage(op'[q], texts')
    OBVIOUS
  <2>1. CASE q = p
    BY <1>2, <2>1 DEF Stage
  <2>2. CASE q # p
    <3>1. op'[q] = op[q] /\ op[q] \in Ops /\ Stage(op[q], texts)
      BY <1>1, <1>2, <2>2 DEF Inv
    <3>2. op[q].text.n \in 1..texts => op[q].text.n \in 1..texts'
      BY <1>1
    <3> QED
      BY <3>1, <3>2 DEF Stage
  <2> QED
    BY <2>1, <2>2
<1>6. \A q \in Procs : Asks(op[q])'
  BY <1>2 DEF Inv, Asks
<1>7. ~robbed' => \A q \in Procs : op'[q].pc \in Inside => Own(op[q])'
  <2> SUFFICES ASSUME ~robbed', NEW q \in Procs, op'[q].pc \in Inside PROVE Own(op[q])'
    OBVIOUS
  <2>1. CASE q = p
    <3>1. Own(o)
      BY <1>2, <2>1
    <3> QED
      BY <1>2, <2>1, <3>1 DEF Own, Live
  <2>2. CASE q # p
    <3>1. Own(op[q]) /\ op'[q] = op[q]
      BY <1>2, <2>2 DEF Inv
    <3> QED
      BY <3>1 DEF Own, Live
  <2> QED
    BY <2>1, <2>2
<1>8. InstalledIsPast' /\ PendingIsNewest' /\ NoSuggestionIsLost'
  <2>1. \A t \in installed : t.n \in 1..texts => t.n \in 1..texts'
    BY <1>1
  <2> QED
    BY <2>1 DEF Inv, InstalledIsPast, PendingIsNewest, NoSuggestionIsLost
<1>9. DisplacedIsKept'
  <2> SUFFICES ASSUME ~robbed', ~died', ~sneaked, replaced # NoText,
                      ~(archive # <<>> /\ archive[Len(archive)] = replaced)
               PROVE  \E q \in Procs : Said(q, "ok")' /\ op'[q].pc # "unlock" /\ op'[q].exp = replaced
    BY DEF DisplacedIsKept
  <2>1. PICK q \in Procs : Said(q, "ok") /\ op[q].pc # "unlock" /\ op[q].exp = replaced
    BY DEF Inv, DisplacedIsKept
  <2>2. op[q].pc \in {"unpin", "record"} /\ op[q].res = "ok"
    BY <2>1 DEF Said
  <2>3. op'[q].pc \in {"unpin", "record"} /\ op'[q].res = "ok" /\ op'[q].exp = replaced
    BY <1>2, <2>1, <2>2
  <2> QED
    BY <2>3 DEF Said
<1> QED
  BY <1>3, <1>4, <1>5, <1>6, <1>7, <1>8, <1>9 DEF Inv

\* What a step of p alone does to its record.
LEMMA Goes ==
    ASSUME Inv, NEW p \in Procs, NEW pc \in Stages, Step(p, pc)
    PROVE  \E o \in Ops : /\ op' = [op EXCEPT ![p] = o]
                          /\ o.pc = pc /\ o.kind = op[p].kind /\ o.exp = op[p].exp
                          /\ o.text = op[p].text /\ o.item = op[p].item /\ o.res = op[p].res
<1> DEFINE o == [op[p] EXCEPT !.pc = pc]
<1>1. op \in [Procs -> Ops] /\ op[p] \in Ops
  BY DEF Inv, Types
<1>2. o \in Ops
  BY <1>1 DEF Ops
<1>3. /\ o.pc = pc /\ o.kind = op[p].kind /\ o.exp = op[p].exp
      /\ o.text = op[p].text /\ o.item = op[p].item /\ o.res = op[p].res
  BY <1>1 DEF Ops
<1>4. op' = [op EXCEPT ![p] = o]
  BY DEF Step
<1> QED
  BY <1>2, <1>3, <1>4

LEMMA Reports ==
    ASSUME Inv, NEW p \in Procs, NEW pc \in Stages, NEW res \in {"none", "ok", "refused", "thrown"}, Result(p, pc, res)
    PROVE  \E o \in Ops : /\ op' = [op EXCEPT ![p] = o]
                          /\ o.pc = pc /\ o.kind = op[p].kind /\ o.exp = op[p].exp
                          /\ o.text = op[p].text /\ o.item = op[p].item /\ o.res = res
<1> DEFINE o == [op[p] EXCEPT !.pc = pc, !.res = res]
<1>1. op \in [Procs -> Ops] /\ op[p] \in Ops
  BY DEF Inv, Types
<1>2. o \in Ops
  BY <1>1 DEF Ops
<1>3. /\ o.pc = pc /\ o.kind = op[p].kind /\ o.exp = op[p].exp
      /\ o.text = op[p].text /\ o.item = op[p].item /\ o.res = res
  BY <1>1 DEF Ops
<1>4. op' = [op EXCEPT ![p] = o]
  BY DEF Result
<1> QED
  BY <1>2, <1>3, <1>4

\* A text that is not written yet is not installed.
LEMMA Unseen ==
    ASSUME Inv, ~robbed
    PROVE  NoText \notin installed /\ \A v \in Nat : [ver |-> v, n |-> texts + 1] \notin installed
BY Basics DEF Inv, Types, InstalledIsPast

LEMMA InvLook == ASSUME Inv, NEW p \in Procs, Look(p) PROVE Inv'
<1>1. PICK pc \in {"inspect", "lock"} : Step(p, pc)
  BY DEF Look
<1>2. PICK o \in Ops : /\ op' = [op EXCEPT ![p] = o]
                       /\ o.pc = pc /\ o.kind = op[p].kind /\ o.exp = op[p].exp
                       /\ o.text = op[p].text /\ o.item = op[p].item /\ o.res = op[p].res
  BY <1>1, Goes DEF Stages
<1>3. op[p].pc = "look" /\ Stage(op[p], texts) /\ Asks(op[p])
  BY DEF Look, Inv
<1>4. Stage(o, texts') /\ Asks(o) /\ o.pc \notin Inside
  BY <1>2, <1>3 DEF Stage, Asks, Before, Inside
<1>5. UNCHANGED <<names, lock, draft, archive, inbox, counts, history>> /\ Types /\ Exclusive
  BY DEF Look, Inv
<1>6. Move(p, o)
  BY <1>2, <1>3, <1>4, <1>5 DEF Move, names, inbox, counts, history, Types, Exclusive
<1> QED
  BY <1>6, Moves

LEMMA InvInspect == ASSUME Inv, NEW p \in Procs, Inspect(p) PROVE Inv'
<1>1. PICK pc \in {"clean", "lock"} : Step(p, pc)
  BY DEF Inspect
<1>2. PICK o \in Ops : /\ op' = [op EXCEPT ![p] = o]
                       /\ o.pc = pc /\ o.kind = op[p].kind /\ o.exp = op[p].exp
                       /\ o.text = op[p].text /\ o.item = op[p].item /\ o.res = op[p].res
  BY <1>1, Goes DEF Stages
<1>3. op[p].pc = "inspect" /\ Stage(op[p], texts) /\ Asks(op[p])
  BY DEF Inspect, Inv
<1>4. Stage(o, texts') /\ Asks(o) /\ o.pc \notin Inside
  BY <1>2, <1>3 DEF Stage, Asks, Before, Inside
<1>5. UNCHANGED <<names, lock, draft, archive, inbox, counts, history>> /\ Types /\ Exclusive
  BY DEF Inspect, Inv
<1>6. Move(p, o)
  BY <1>2, <1>3, <1>4, <1>5 DEF Move, names, inbox, counts, history, Types, Exclusive
<1> QED
  BY <1>6, Moves

LEMMA InvClean == ASSUME Inv, NEW p \in Procs, Clean(p) PROVE Inv'
<1>2. PICK o \in Ops : /\ op' = [op EXCEPT ![p] = o]
                       /\ o.pc = "lock" /\ o.kind = op[p].kind /\ o.exp = op[p].exp
                       /\ o.text = op[p].text /\ o.item = op[p].item /\ o.res = op[p].res
  BY Goes DEF Stages, Clean
<1>3. op[p].pc = "clean" /\ Stage(op[p], texts) /\ Asks(op[p])
  BY DEF Clean, Inv
<1>4. Stage(o, texts') /\ Asks(o) /\ o.pc \notin Inside
  BY <1>2, <1>3 DEF Stage, Asks, Before, Inside
<1>5. UNCHANGED <<names, draft, archive, inbox, counts, installed, replaced, sneaked, died, settled, overtaken>>
  BY DEF Clean
<1>6. Types /\ Exclusive
  BY DEF Inv
<1>7. /\ lock' \in Locks /\ robbed' \in BOOLEAN /\ (robbed => robbed')
      /\ ~robbed' => \A q \in Procs \ {p} : op[q].pc \notin Inside
  BY <1>6, Basics DEF Clean, Types, Exclusive
<1>8. Move(p, o)
  BY <1>2, <1>3, <1>4, <1>5, <1>6, <1>7 DEF Move, names, inbox, counts, Types
<1> QED
  BY <1>8, Moves

LEMMA InvLock == ASSUME Inv, NEW p \in Procs, Lock(p) PROVE Inv'
<1>1. /\ op[p].pc = "lock" /\ Stage(op[p], texts) /\ Asks(op[p]) /\ Types /\ Exclusive
      /\ UNCHANGED <<names, draft, archive, inbox, counts, history>>
  BY DEF Lock, Inv
<1>2. CASE op' = [op EXCEPT ![p] = Idle] /\ UNCHANGED lock
  <2>1. Stage(Idle, texts') /\ Asks(Idle) /\ Idle.pc \notin Inside
    BY Basics DEF Stage, Asks, Before, Inside
  <2>2. Move(p, Idle)
    BY <1>1, <1>2, <2>1 DEF Move, names, inbox, counts, history, Types, Exclusive
  <2> QED
    BY <2>2, Basics, Moves
<1>3. CASE /\ lock = NoLock /\ Step(p, "locked")
           /\ lock' = [owner |-> p, written |-> FALSE, old |-> FALSE]
  <2>1. PICK o \in Ops : /\ op' = [op EXCEPT ![p] = o]
                         /\ o.pc = "locked" /\ o.kind = op[p].kind /\ o.exp = op[p].exp
                         /\ o.text = op[p].text /\ o.item = op[p].item /\ o.res = op[p].res
    BY <1>3, Goes DEF Stages, Inside
  <2>2. Stage(o, texts') /\ Asks(o) /\ o.text = NoText /\ o.res = "none"
    BY <1>1, <2>1 DEF Stage, Asks, Before
  <2>3. ~robbed => Own(o)
    BY <2>1, <2>2, Unseen DEF Own
  <2>4. lock' \in Locks /\ lock'.owner = p
    BY <1>3 DEF Locks
  <2>5. ~robbed => \A q \in Procs : op[q].pc \notin Inside
    BY <1>1, <1>3, Basics DEF Exclusive
  <2>6. Move(p, o)
    BY <1>1, <2>1, <2>2, <2>3, <2>4, <2>5 DEF Move, names, inbox, counts, history, Types
  <2> QED
    BY <2>6, Moves
<1> QED
  BY <1>2, <1>3 DEF Lock

LEMMA InvWriteLock == ASSUME Inv, NEW p \in Procs, WriteLock(p) PROVE Inv'
<1>1. /\ op[p].pc = "locked" /\ Stage(op[p], texts) /\ Asks(op[p]) /\ Types /\ Exclusive
      /\ UNCHANGED <<names, draft, archive, inbox, counts, history>>
  BY DEF WriteLock, Inv
<1>2. PICK o \in Ops : /\ op' = [op EXCEPT ![p] = o]
                       /\ o.pc = "read" /\ o.kind = op[p].kind /\ o.exp = op[p].exp
                       /\ o.text = op[p].text /\ o.item = op[p].item /\ o.res = op[p].res
  BY Goes DEF Stages, Inside, WriteLock
<1>3. Stage(o, texts') /\ Asks(o) /\ o.text = NoText /\ o.res = "none"
  BY <1>1, <1>2 DEF Stage, Asks, Before
<1>4. ~robbed => Own(o)
  BY <1>2, <1>3, Unseen DEF Own
<1>5. lock' \in Locks /\ lock'.owner = lock.owner
  BY <1>1 DEF WriteLock, Locks, Types
<1>6. ~robbed => lock.owner = p
  BY <1>1 DEF Exclusive, Inside
<1>7. Move(p, o)
  BY <1>1, <1>2, <1>3, <1>4, <1>5, <1>6 DEF Move, names, inbox, counts, history, Types, Exclusive
<1> QED
  BY <1>7, Moves

LEMMA InvBegin ==
    ASSUME Inv, NEW p \in Procs, NEW kind \in {"publish", "adopt", "rollback"}, NEW exp \in {Live, draft},
           NEW item \in {0, pending}, kind = "adopt" => item # 0, Begin(p, kind, exp, item)
    PROVE  Inv'
<1> DEFINE o == [Idle EXCEPT !.pc = "look", !.kind = kind, !.exp = exp, !.item = item]
<1>1. /\ op[p].pc = "idle" /\ Types /\ Exclusive /\ PendingIsNewest
      /\ UNCHANGED <<names, lock, draft, archive, inbox, counts, history>>
      /\ op' = [op EXCEPT ![p] = o]
  BY DEF Begin, Working, Inv
<1>2. Live \in Texts /\ exp \in Texts
  BY <1>1 DEF Live, Types
<1>3. /\ o.pc = "look" /\ o.kind = kind /\ o.exp = exp /\ o.text = NoText /\ o.res = "none"
      /\ o.item = item
  BY DEF Idle
<1>4. o \in Ops
  BY <1>1, <1>2, Basics DEF Types, Ops, Idle, Stages
<1>5. Stage(o, texts') /\ Asks(o) /\ o.pc \notin Inside
  BY <1>1, <1>3 DEF Stage, Asks, Before, Inside, PendingIsNewest
<1>6. Move(p, o)
  <2> HIDE DEF o
  <2> QED
    BY <1>1, <1>3, <1>4, <1>5 DEF Move, names, inbox, counts, history, Types, Exclusive
<1> QED
  BY <1>4, <1>6, Moves

LEMMA InvRead == ASSUME Inv, NEW p \in Procs, Read(p) PROVE Inv'
<1>1. /\ op[p].pc = "read" /\ Stage(op[p], texts) /\ Asks(op[p]) /\ Types /\ Exclusive
      /\ UNCHANGED <<names, lock, draft, archive, inbox, crashes, history>>
  BY DEF Read, Inv
<1>2. op[p].text = NoText /\ op[p].res = "none" /\ (~robbed => lock.owner = p)
  BY <1>1 DEF Stage, Before, Exclusive, Inside
<1>3. CASE Result(p, "unlock", "refused") /\ UNCHANGED texts
  <2>1. PICK o \in Ops : /\ op' = [op EXCEPT ![p] = o]
                         /\ o.pc = "unlock" /\ o.kind = op[p].kind /\ o.exp = op[p].exp
                         /\ o.text = op[p].text /\ o.item = op[p].item /\ o.res = "refused"
    BY <1>3, Reports DEF Stages, Inside
  <2>2. Stage(o, texts') /\ Asks(o)
    BY <1>1, <1>2, <2>1 DEF Stage, Asks, Before
  <2>3. ~robbed => Own(o)
    BY <1>2, <2>1, Unseen DEF Own
  <2>4. Move(p, o)
    BY <1>1, <1>2, <1>3, <2>1, <2>2, <2>3 DEF Move, names, inbox, history, Types, Exclusive
  <2> QED
    BY <2>4, Moves
<1>4. CASE /\ texts' = texts + 1
           /\ op' = [op EXCEPT ![p] = [@ EXCEPT !.pc = "pin",
                        !.text = [ver |-> NextVersion(p), n |-> texts + 1]]]
  <2> DEFINE new == [ver |-> NextVersion(p), n |-> texts + 1]
             o == [op[p] EXCEPT !.pc = "pin", !.text = new]
  <2>1. NextVersion(p) \in Nat /\ new \in Texts /\ new.n = texts + 1
    BY <1>1 DEF NextVersion, Live, Types, Texts
  <2>2. op[p] \in Ops /\ op' = [op EXCEPT ![p] = o]
    BY <1>1, <1>4 DEF Types
  <2>3. /\ o.pc = "pin" /\ o.kind = op[p].kind /\ o.exp = op[p].exp
        /\ o.text = new /\ o.item = op[p].item /\ o.res = "none"
    BY <1>2, <2>2 DEF Ops
  <2>4. o \in Ops
    BY <2>1, <2>2 DEF Ops, Stages, Inside
  <2>5. ~robbed => new \notin installed
    BY <2>1, Unseen
  <2>6. Stage(o, texts') /\ Asks(o) /\ (~robbed => Own(o)) /\ texts' \in Nat /\ texts' >= texts
    <3>1. new.n \in 1..texts' /\ texts' \in Nat /\ texts' >= texts
      BY <1>1, <1>4, <2>1 DEF Types
    <3> HIDE DEF new, o
    <3> QED
      BY <1>1, <2>3, <2>5, <3>1 DEF Stage, Asks, Before, Own
  <2>7. Move(p, o)
    <3> HIDE DEF o
    <3> QED
      BY <1>1, <1>2, <2>2, <2>3, <2>6 DEF Move, names, inbox, history, Types, Exclusive
  <2> QED
    BY <2>4, <2>7, Moves
<1> QED
  BY <1>3, <1>4 DEF Read

LEMMA InvCompare == ASSUME Inv, NEW p \in Procs, Compare(p) PROVE Inv'
<1>1. /\ op[p].pc = "compare" /\ Stage(op[p], texts) /\ Asks(op[p]) /\ Types /\ Exclusive
      /\ (~robbed => Own(op[p])) /\ UNCHANGED <<names, lock, draft, archive, inbox, counts, history>>
  BY DEF Compare, Inv, Inside
<1>2. op[p].res = "none" /\ (~robbed => lock.owner = p)
  BY <1>1 DEF Stage, Exclusive, Inside
<1>3. CASE Unchanged(p) /\ Step(p, "rename")
  <2>1. PICK o \in Ops : /\ op' = [op EXCEPT ![p] = o]
                         /\ o.pc = "rename" /\ o.kind = op[p].kind /\ o.exp = op[p].exp
                         /\ o.text = op[p].text /\ o.item = op[p].item /\ o.res = op[p].res
    BY <1>3, Goes DEF Stages, Inside
  <2>2. Stage(o, texts') /\ Asks(o)
    BY <1>1, <1>2, <2>1 DEF Stage, Asks, Before, counts
  <2>3. ~robbed => Own(o)
    BY <1>1, <1>2, <1>3, <2>1 DEF Own, Unchanged
  <2>4. Move(p, o)
    BY <1>1, <1>2, <2>1, <2>2, <2>3 DEF Move, names, inbox, counts, history, Types, Exclusive
  <2> QED
    BY <2>4, Moves
<1>4. CASE Result(p, "unpin", "refused")
  <2>1. PICK o \in Ops : /\ op' = [op EXCEPT ![p] = o]
                         /\ o.pc = "unpin" /\ o.kind = op[p].kind /\ o.exp = op[p].exp
                         /\ o.text = op[p].text /\ o.item = op[p].item /\ o.res = "refused"
    BY <1>4, Reports DEF Stages, Inside
  <2>2. Stage(o, texts') /\ Asks(o)
    BY <1>1, <1>2, <2>1 DEF Stage, Asks, Before, counts
  <2>3. ~robbed => Own(o)
    BY <1>1, <1>2, <2>1 DEF Own
  <2>4. Move(p, o)
    BY <1>1, <1>2, <2>1, <2>2, <2>3 DEF Move, names, inbox, counts, history, Types, Exclusive
  <2> QED
    BY <2>4, Moves
<1> QED
  BY <1>3, <1>4 DEF Compare

LEMMA InvUnlock == ASSUME Inv, NEW p \in Procs, Unlock(p) PROVE Inv'
<1> DEFINE drop == [Idle EXCEPT !.pc = "drop", !.item = op[p].item]
           o == IF op[p].kind = "adopt" /\ op[p].res = "ok" THEN drop ELSE Idle
<1>1. /\ op[p].pc = "unlock" /\ Stage(op[p], texts) /\ Asks(op[p]) /\ Types /\ Exclusive
      /\ UNCHANGED <<names, draft, archive, inbox, counts, installed, replaced, sneaked, died, settled, overtaken>>
  BY DEF Unlock, Inv
<1>2. op' = [op EXCEPT ![p] = o]
  BY <1>1 DEF Unlock, Types
<1>3. /\ drop \in Ops /\ drop.pc = "drop" /\ drop.kind = "none" /\ drop.item = op[p].item
      /\ drop.res = "none"
  <2>1. op[p].item \in Nat
    BY <1>1 DEF Types, Ops
  <2> QED
    BY <2>1, Basics DEF Ops, Idle, Stages
<1>4. o \in Ops /\ Stage(o, texts') /\ Asks(o) /\ o.pc \notin Inside
  <2>1. CASE op[p].kind = "adopt" /\ op[p].res = "ok"
    <3>1. o = drop
      BY <2>1
    <3> HIDE DEF drop, o
    <3> QED
      BY <1>1, <1>3, <2>1, <3>1 DEF Stage, Asks, Before, Inside
  <2>2. CASE ~(op[p].kind = "adopt" /\ op[p].res = "ok")
    BY <2>2, Basics DEF Stage, Asks, Before, Inside
  <2> QED
    BY <2>1, <2>2
<1>5. /\ lock' \in Locks /\ robbed' \in BOOLEAN /\ (robbed => robbed')
      /\ ~robbed' => \A q \in Procs \ {p} : op[q].pc \notin Inside
  BY <1>1, Basics DEF Unlock, Types, Exclusive
<1>6. Move(p, o)
  <2> HIDE DEF o
  <2> QED
    BY <1>1, <1>2, <1>4, <1>5 DEF Move, names, inbox, counts, Types
<1> QED
  BY <1>4, <1>6, Moves

LEMMA InvCrash == ASSUME Inv, NEW p \in Procs, Crash(p) PROVE Inv'
<1>1. /\ op' = [op EXCEPT ![p] = Idle] /\ died' = (died \/ op[p].res = "ok") /\ Types /\ Exclusive
      /\ UNCHANGED <<names, lock, draft, archive, inbox, texts, installed, replaced, robbed, sneaked,
                     settled, overtaken>>
  BY DEF Crash, Inv
<1>2. Stage(Idle, texts') /\ Asks(Idle) /\ Idle.pc \notin Inside
  BY Basics DEF Stage, Asks, Before, Inside
<1>3. died' \in BOOLEAN /\ (died => died') /\ (op[p].res = "ok" => died')
  BY <1>1
<1>4. /\ lock' \in Locks /\ draft' \in Texts /\ texts' \in Nat /\ texts' >= texts
      /\ robbed' \in BOOLEAN /\ (robbed => robbed')
      /\ ~robbed' => \A q \in Procs \ {p} : op[q].pc \in Inside => lock'.owner = q
  BY <1>1 DEF Types, Exclusive
<1>5. Move(p, Idle)
  BY <1>1, <1>2, <1>3, <1>4 DEF Move, names, inbox
<1> QED
  BY <1>5, Basics, Moves

\* Time and the dashboard's draft.
LEMMA InvQuiet == ASSUME Inv, Age \/ SaveDraft PROVE Inv'
<1> DEFINE o == op["hub"]
<1>1. /\ Types /\ Exclusive /\ "hub" \in Procs /\ o \in Ops /\ Stage(o, texts) /\ Asks(o)
      /\ UNCHANGED <<names, archive, op, inbox, counts, history>>
  BY DEF Inv, Types, Age, SaveDraft, Procs
<1>2. ~robbed /\ o.pc \in Inside => Own(o)
  BY <1>1 DEF Inv
<1>3. lock' \in Locks /\ lock'.owner = lock.owner /\ draft' \in Texts
  <2>1. Live \in Texts
    BY <1>1 DEF Types, Live
  <2> QED
    BY <1>1, <2>1 DEF Types, Locks, Age, SaveDraft
<1>4. op' = [op EXCEPT !["hub"] = o]
  BY <1>1 DEF Types
<1>5. Move("hub", o)
  <2> HIDE DEF o
  <2>1. texts' = texts
    BY <1>1 DEF counts
  <2>2. /\ o.pc = op["hub"].pc /\ o.res = op["hub"].res /\ o.exp = op["hub"].exp
        /\ UNCHANGED <<live, guard, cand, data, archive, pending, pushes, installed, replaced,
                       sneaked, settled, overtaken>>
    BY <1>1 DEF o, names, inbox, history
  <2>3. /\ texts' \in Nat /\ texts' >= texts
        /\ robbed' \in BOOLEAN /\ (robbed => robbed') /\ died' \in BOOLEAN /\ (died => died')
    BY <1>1, <2>1 DEF Types, history
  <2>4. ~robbed' => \A q \in Procs : op[q].pc \in Inside => lock'.owner = q
    BY <1>1, <1>3 DEF Exclusive, history
  <2> QED
    BY <1>1, <1>2, <1>3, <1>4, <2>1, <2>2, <2>3, <2>4 DEF Move
<1> QED
  BY <1>1, <1>5, Moves

-----------------------------------------------------------------------------
(* Steps of the one inside on the guard and the candidate. *)

Work(p, o) ==
    /\ op[p].pc \in Inside /\ o.pc \in Inside /\ o.pc # "rename"
    /\ op' = [op EXCEPT ![p] = o]
    /\ UNCHANGED <<live, lock, draft, archive, inbox, counts, history>>
    /\ guard' \in Inodes \cup {None} /\ cand' \in Inodes \cup {None} /\ cand' # live
    /\ data' \in [Inodes -> Texts]
    /\ Stage(o, texts) /\ Asks(o)
    /\ ~robbed =>
          /\ o.res \in {"ok", "thrown"} <=> o.text \in installed
          /\ o.pc = "compare" => cand' # None /\ data'[cand'] = o.text
          /\ o.pc \in {"unpin", "record"} /\ o.res = "ok" => sneaked \/ o.exp = replaced
    /\ op[p].pc \in {"unpin", "record"} /\ op[p].res = "ok" =>
          o.pc \in {"unpin", "record"} /\ o.res = "ok" /\ o.exp = op[p].exp

LEMMA Works == ASSUME Inv, NEW p \in Procs, NEW o \in Ops, Work(p, o) PROVE Inv'
<1>1. /\ op \in [Procs -> Ops] /\ op' \in [Procs -> Ops]
      /\ op'[p] = o /\ \A q \in Procs \ {p} : op'[q] = op[q]
  BY DEF Work, Inv, Types
<1>2. UNCHANGED <<live, lock, draft, archive, pending, pushes, texts, installed, replaced,
                  robbed, sneaked, died, settled, overtaken>>
  BY DEF Work, inbox, counts, history
<1>3. Types'
  BY <1>1, <1>2 DEF Work, Inv, Types
<1>4. Exclusive' /\ InstalledIsPast' /\ PendingIsNewest' /\ NoSuggestionIsLost'
  BY <1>1, <1>2 DEF Work, Inv, Exclusive, InstalledIsPast, PendingIsNewest, NoSuggestionIsLost
<1>5. \A q \in Procs : Stage(op'[q], texts') /\ Asks(op[q])'
  <2> SUFFICES ASSUME NEW q \in Procs PROVE Stage(op'[q], texts') /\ Asks(op[q])'
    OBVIOUS
  <2>1. Stage(op'[q], texts') /\ Asks(op'[q])
    BY <1>1, <1>2 DEF Work, Inv
  <2> QED
    BY <1>2, <2>1 DEF Asks
<1>6. ~robbed' => \A q \in Procs : op'[q].pc \in Inside => Own(op[q])'
  <2> SUFFICES ASSUME ~robbed, NEW q \in Procs, op'[q].pc \in Inside PROVE Own(op[q])'
    BY <1>2
  <2>1. q = p
    BY <1>1, Alone DEF Work
  <2>2. op'[q] = o
    BY <1>1, <2>1
  <2> QED
    BY <1>2, <2>2 DEF Work, Own
<1>7. DisplacedIsKept'
  <2> SUFFICES ASSUME ~robbed', ~died', ~sneaked', replaced' # NoText,
                      ~(archive' # <<>> /\ archive'[Len(archive')] = replaced')
               PROVE  \E q \in Procs : Said(q, "ok")' /\ op'[q].pc # "unlock" /\ op'[q].exp = replaced'
    BY DEF DisplacedIsKept
  <2>1. PICK q \in Procs : Said(q, "ok") /\ op[q].pc # "unlock" /\ op[q].exp = replaced
    BY <1>2 DEF Inv, DisplacedIsKept
  <2>2. op[q].pc \in {"unpin", "record"} /\ op[q].res = "ok"
    BY <2>1 DEF Said
  <2>3. op'[q].pc \in {"unpin", "record"} /\ op'[q].res = "ok" /\ op'[q].exp = replaced'
    BY <1>1, <1>2, <2>1, <2>2 DEF Work
  <2> QED
    BY <2>3 DEF Said
<1> QED
  BY <1>3, <1>4, <1>5, <1>6, <1>7 DEF Inv

LEMMA InvPin == ASSUME Inv, NEW p \in Procs, Pin(p) PROVE Inv'
<1>1. /\ op[p].pc = "pin" /\ Stage(op[p], texts) /\ Asks(op[p]) /\ Types
      /\ (~robbed => Own(op[p]))
  BY DEF Pin, Inv, Inside
<1>2. PICK o \in Ops : /\ op' = [op EXCEPT ![p] = o]
                       /\ o.pc = "write" /\ o.kind = op[p].kind /\ o.exp = op[p].exp
                       /\ o.text = op[p].text /\ o.item = op[p].item /\ o.res = op[p].res
  BY Goes DEF Stages, Inside, Pin
<1>3. Stage(o, texts) /\ Asks(o)
  BY <1>1, <1>2 DEF Stage, Asks, Before
<1>4. /\ guard' \in Inodes \cup {None} /\ cand' \in Inodes \cup {None} /\ cand' # live
      /\ data' \in [Inodes -> Texts]
  BY <1>1, KeptType, Basics DEF Pin, Types
<1>5. Work(p, o)
  BY <1>1, <1>2, <1>3, <1>4 DEF Work, Own, Inside, Pin
<1> QED
  BY <1>5, Works

LEMMA InvWriteCandidate == ASSUME Inv, NEW p \in Procs, WriteCandidate(p) PROVE Inv'
<1>1. /\ op[p].pc = "write" /\ Stage(op[p], texts) /\ Asks(op[p]) /\ Types
      /\ (~robbed => Own(op[p]))
  BY DEF WriteCandidate, Inv, Inside
<1>2. PICK o \in Ops : /\ op' = [op EXCEPT ![p] = o]
                       /\ o.pc = "compare" /\ o.kind = op[p].kind /\ o.exp = op[p].exp
                       /\ o.text = op[p].text /\ o.item = op[p].item /\ o.res = op[p].res
  BY Goes DEF Stages, Inside, WriteCandidate
<1>3. Stage(o, texts) /\ Asks(o)
  BY <1>1, <1>2 DEF Stage, Asks, Before
<1>4. PICK i \in Inodes : /\ (IF cand # None THEN i = cand ELSE Fresh(i)) /\ cand' = i
                         /\ data' = [data EXCEPT ![i] = op[p].text]
  BY DEF WriteCandidate
<1>5. i # live /\ op[p].text \in Texts
  BY <1>1, <1>4 DEF Types, Fresh, Ops
<1>6. data' \in [Inodes -> Texts] /\ data'[i] = op[p].text
  BY <1>1, <1>4, <1>5 DEF Types
<1>7. guard' = guard /\ UNCHANGED <<live, lock, draft, archive, inbox, counts, history>>
  BY DEF WriteCandidate
<1>8. o.res = "none" /\ (~robbed => o.text \notin installed)
  BY <1>1, <1>2 DEF Stage, Own
<1>9. Work(p, o)
  BY <1>1, <1>2, <1>3, <1>4, <1>5, <1>6, <1>7, <1>8, Basics DEF Work, Inside, Types
<1> QED
  BY <1>9, Works

LEMMA InvUnpin == ASSUME Inv, NEW p \in Procs, Unpin(p) PROVE Inv'
<1>1. /\ op[p].pc = "unpin" /\ Stage(op[p], texts) /\ Asks(op[p]) /\ Types
      /\ (~robbed => Own(op[p])) /\ UNCHANGED <<live, lock, draft, archive, inbox, counts, history>>
  BY DEF Unpin, Inv, Inside
<1> DEFINE pc == IF op[p].res = "ok" THEN "record" ELSE "unlock"
<1>2. PICK o \in Ops : /\ op' = [op EXCEPT ![p] = o]
                       /\ o.pc = pc /\ o.kind = op[p].kind /\ o.exp = op[p].exp
                       /\ o.text = op[p].text /\ o.item = op[p].item /\ o.res = op[p].res
  <2>1. pc \in Stages /\ Step(p, pc)
    BY DEF Unpin, Stages, Inside
  <2> HIDE DEF pc
  <2> QED
    BY <2>1, Goes
<1>3. Stage(o, texts) /\ Asks(o)
  BY <1>1, <1>2 DEF Stage, Asks, Before
<1>4. /\ guard' \in Inodes \cup {None} /\ cand' \in Inodes \cup {None} /\ cand' # live
      /\ data' \in [Inodes -> Texts]
  BY <1>1, KeptType, Basics DEF Unpin, Types
<1>5. Work(p, o)
  BY <1>1, <1>2, <1>3, <1>4 DEF Work, Own, Inside
<1> QED
  BY <1>5, Works

-----------------------------------------------------------------------------
(* The rename, the archive, the inbox, the editor. *)

LEMMA InvDrop == ASSUME Inv, NEW p \in Procs, Drop(p) PROVE Inv'
<1>1. /\ op[p].pc = "drop" /\ Stage(op[p], texts) /\ Asks(op[p]) /\ Types
      /\ pending' = 0 /\ op' = [op EXCEPT ![p] = Idle]
  BY DEF Drop, Inv
<1>2. UNCHANGED <<live, guard, cand, data, lock, draft, archive, pushes, texts, installed, replaced,
                  robbed, sneaked, died, settled, overtaken>>
  BY DEF Drop, names, counts, history
<1>3. op' \in [Procs -> Ops] /\ op'[p] = Idle /\ \A q \in Procs \ {p} : op'[q] = op[q]
  BY <1>1, Basics DEF Types
<1>4. Types' /\ PendingIsNewest'
  BY <1>1, <1>2, <1>3 DEF Types, PendingIsNewest
<1>5. \A q \in Procs : /\ op'[q] = op[q] \/ op'[q] = Idle
                       /\ op'[q].pc \in Inside => op'[q] = op[q]
                       /\ op[q].pc \in Inside => op'[q] = op[q]
  BY <1>1, <1>3, Basics DEF Inside
<1>6. \A q \in Procs : Stage(op'[q], texts') /\ Asks(op[q])'
  <2>1. Stage(Idle, texts) /\ Asks(Idle)
    BY Basics DEF Stage, Asks, Before
  <2>2. \A q \in Procs : Stage(op'[q], texts) /\ Asks(op'[q])
    BY <1>5, <2>1 DEF Inv
  <2> QED
    BY <1>2, <2>2 DEF Asks
<1>7. Exclusive' /\ InstalledIsPast'
  BY <1>2, <1>5 DEF Inv, Exclusive, InstalledIsPast
<1>8. ~robbed' => \A q \in Procs : op'[q].pc \in Inside => Own(op[q])'
  <2> SUFFICES ASSUME ~robbed, NEW q \in Procs, op'[q].pc \in Inside PROVE Own(op[q])'
    BY <1>2
  <2>1. op'[q] = op[q] /\ Own(op[q])
    BY <1>5 DEF Inv
  <2> QED
    BY <1>2, <2>1 DEF Own, Live
<1>9. NoSuggestionIsLost'
  BY <1>1, <1>2 DEF Stage, Asks, NoSuggestionIsLost
<1>10. DisplacedIsKept'
  <2>1. \A q \in Procs : op[q].pc \in {"unpin", "record"} => op'[q] = op[q]
    BY <1>5 DEF Inside
  <2> QED
    BY <1>2, <2>1 DEF Inv, DisplacedIsKept, Said
<1> QED
  BY <1>4, <1>6, <1>7, <1>8, <1>9, <1>10 DEF Inv

LEMMA InvInbox == ASSUME Inv, Push \/ Reject PROVE Inv'
<1>1. UNCHANGED <<live, guard, cand, data, lock, draft, archive, op, texts, installed, replaced,
                  robbed, sneaked, died>>
  BY DEF Push, Reject, names, counts
<1>2. Types /\ \A q \in Procs : Stage(op[q], texts) /\ Asks(op[q])
  BY DEF Inv
<1>3. pending' \in Nat /\ pushes' \in Nat /\ settled' \in BOOLEAN /\ overtaken' \in BOOLEAN
  <2>1. pending' \in Nat /\ pushes' \in Nat
    BY <1>2 DEF Push, Reject, Types
  <2>2. settled' \in BOOLEAN
    BY DEF Push, Reject
  <2>3. overtaken' = (op["cli"].item # 0) \/ overtaken' = overtaken
    BY DEF Push, Reject
  <2>4. overtaken' \in BOOLEAN
    BY <1>2, <2>3 DEF Types
  <2> QED
    BY <2>1, <2>2, <2>4
<1>4. Types'
  BY <1>1, <1>2, <1>3 DEF Types
<1>5. PendingIsNewest' /\ NoSuggestionIsLost'
  BY DEF Inv, Push, Reject, PendingIsNewest, NoSuggestionIsLost
<1>6. \A q \in Procs : Asks(op[q])'
  <2>1. CASE Push
    <3>1. op["hub"].item = 0
      BY <1>2, <2>1, Basics DEF Push, Working, Stage, Procs
    <3>2. \A q \in Procs : op[q].item # 0 => overtaken'
      BY <2>1, <3>1 DEF Push, Procs
    <3> QED
      BY <1>1, <3>2 DEF Asks
  <2>2. CASE Reject
    BY <1>1, <1>2, <2>2 DEF Reject, Asks
  <2> QED
    BY <2>1, <2>2
<1>7. Exclusive' /\ InstalledIsPast' /\ DisplacedIsKept' /\ \A q \in Procs : Stage(op'[q], texts')
  <2>1. Exclusive' /\ InstalledIsPast' /\ \A q \in Procs : Stage(op'[q], texts')
    BY <1>1, <1>2 DEF Inv, Exclusive, InstalledIsPast
  <2>2. DisplacedIsKept'
    BY <1>1 DEF Inv, DisplacedIsKept, Said
  <2> QED
    BY <2>1, <2>2
<1>8. ~robbed' => \A q \in Procs : op'[q].pc \in Inside => Own(op[q])'
  <2> SUFFICES ASSUME ~robbed, NEW q \in Procs, op[q].pc \in Inside PROVE Own(op[q])'
    BY <1>1
  <2>1. Own(op[q])
    BY DEF Inv
  <2> QED
    BY <1>1, <2>1 DEF Own, Live
<1> QED
  BY <1>4, <1>5, <1>6, <1>7, <1>8 DEF Inv

\* A mutation is recorded, or the disk fails while it is.
Recording(p) == Record(p) \/ RecordFails(p)

LEMMA PrunedEndsAlike ==
    ASSUME NEW all \in Seq(Texts), Len(all) >= 1
    PROVE  /\ Pruned(all) \in Seq(Texts) /\ Pruned(all) # <<>>
           /\ Pruned(all)[Len(Pruned(all))] = all[Len(all)]
<1>1. CASE Len(all) > Keep
  <2> DEFINE from == Len(all) - Keep + 1
             cut == SubSeq(all, from, Len(all))
  <2>1. from \in Nat \ {0} /\ from <= Len(all) /\ Len(all) \in Nat
    BY <1>1, KeepAssumption
  <2>2. Pruned(all) = cut
    BY <1>1 DEF Pruned
  <2> HIDE DEF from
  <2>3. /\ cut \in Seq(Texts) /\ Len(cut) = Len(all) - from + 1
        /\ \A k \in 1..(Len(all) - from + 1) : cut[k] = all[from + k - 1]
    BY <2>1
  <2>4. /\ from + (Len(all) - from + 1) - 1 = Len(all)
        /\ Len(all) - from + 1 \in 1..(Len(all) - from + 1)
    BY <2>1
  <2> HIDE DEF cut
  <2>5. cut[Len(cut)] = all[Len(all)] /\ Len(cut) > 0
    BY <2>3, <2>4
  <2>6. cut # <<>>
    BY <2>5
  <2> QED
    BY <2>2, <2>3, <2>5, <2>6
<1>2. CASE ~(Len(all) > Keep)
  <2>1. Pruned(all) = all
    BY <1>2 DEF Pruned
  <2> QED
    BY <2>1
<1> QED
  BY <1>1, <1>2

LEMMA InvRecord == ASSUME Inv, NEW p \in Procs, Recording(p) PROVE Inv'
<1>1. /\ op[p].pc = "record" /\ op[p].res = "ok" /\ Stage(op[p], texts) /\ Asks(op[p]) /\ Types
      /\ (~robbed => Own(op[p]))
  BY DEF Recording, Record, RecordFails, Inv, Inside, Stage
<1>2. UNCHANGED <<live, guard, cand, data, lock, pending, pushes, texts, installed, replaced,
                  robbed, sneaked, settled, overtaken>>
      /\ died' \in BOOLEAN
  BY <1>1 DEF Recording, Record, RecordFails, names, inbox, counts, history, Types
<1>3. PICK o \in Ops : /\ op' = [op EXCEPT ![p] = o]
                       /\ o.pc = "unlock" /\ o.kind = op[p].kind /\ o.exp = op[p].exp
                       /\ o.text = op[p].text /\ o.item = op[p].item
                       /\ o.res = op[p].res \/ o.res = "thrown"
  <2>1. CASE Step(p, "unlock")
    BY <2>1, Goes DEF Stages, Inside
  <2>2. CASE Result(p, "unlock", "thrown")
    BY <2>2, Reports DEF Stages, Inside
  <2> QED
    BY <2>1, <2>2 DEF Recording, Record, RecordFails
<1>4. op' \in [Procs -> Ops] /\ op'[p] = o /\ \A q \in Procs \ {p} : op'[q] = op[q]
  BY <1>1, <1>3 DEF Types
<1>5. /\ archive' \in Seq(Texts)
      /\ died' \/ (archive' # <<>> /\ archive'[Len(archive')] = op[p].exp)
  <2>1. op[p].exp \in Texts /\ archive \in Seq(Texts)
    BY <1>1 DEF Types, Ops
  <2>2. CASE Record(p)
    <3> DEFINE all == Archived(op[p].exp)
    <3>1. all \in Seq(Texts) /\ Len(all) >= 1 /\ all[Len(all)] = op[p].exp
      BY <2>1 DEF Archived
    <3>2. archive' = Pruned(all)
      BY <2>2 DEF Record
    <3> HIDE DEF all
    <3> QED
      BY <3>1, <3>2, PrunedEndsAlike
  <2>3. CASE RecordFails(p)
    <3>1. Archived(op[p].exp) \in Seq(Texts)
      BY <2>1 DEF Archived
    <3> QED
      BY <2>1, <2>3, <3>1 DEF RecordFails
  <2> QED
    BY <2>2, <2>3 DEF Recording
<1>6. draft' \in Texts
  BY <1>1, Basics DEF Recording, Record, RecordFails, DraftDone, Types
<1>7. Types'
  BY <1>1, <1>2, <1>4, <1>5, <1>6 DEF Types
<1>8. Exclusive'
  BY <1>1, <1>2, <1>4 DEF Inv, Exclusive, Inside
<1>9. \A q \in Procs : Stage(op'[q], texts') /\ Asks(op[q])'
  <2>1. Stage(o, texts) /\ Asks(o)
    BY <1>1, <1>3 DEF Stage, Asks, Before
  <2>2. \A q \in Procs : Stage(op'[q], texts) /\ Asks(op'[q])
    BY <1>4, <2>1 DEF Inv
  <2> QED
    BY <1>2, <2>2 DEF Asks
<1>10. ~robbed' => \A q \in Procs : op'[q].pc \in Inside => Own(op[q])'
  <2> SUFFICES ASSUME ~robbed, NEW q \in Procs, op'[q].pc \in Inside PROVE Own(op[q])'
    BY <1>2
  <2>1. q = p
    BY <1>1, <1>4, Alone DEF Inside
  <2>2. op'[q] = o
    BY <1>4, <2>1
  <2> QED
    BY <1>1, <1>2, <1>3, <2>2 DEF Own
<1>11. InstalledIsPast' /\ PendingIsNewest' /\ NoSuggestionIsLost'
  BY <1>2 DEF Inv, InstalledIsPast, PendingIsNewest, NoSuggestionIsLost
<1>12. DisplacedIsKept'
  BY <1>1, <1>2, <1>5 DEF DisplacedIsKept, Own, Stage
<1> QED
  BY <1>7, <1>8, <1>9, <1>10, <1>11, <1>12 DEF Inv

LEMMA InvRename == ASSUME Inv, NEW p \in Procs, Rename(p) PROVE Inv'
<1>1. /\ op[p].pc = "rename" /\ Stage(op[p], texts) /\ Asks(op[p]) /\ Types /\ Exclusive
      /\ (~robbed => Own(op[p])) /\ op[p].res = "none"
  BY DEF Rename, Inv, Inside, Stage
<1>2. UNCHANGED <<guard, lock, draft, archive, pending, pushes, texts, robbed, sneaked, died, overtaken>>
  BY DEF Rename, names, inbox, counts
<1>3. CASE Result(p, "unpin", "refused") /\ UNCHANGED <<names, installed, replaced, settled>>
  <2>1. PICK o \in Ops : /\ op' = [op EXCEPT ![p] = o]
                         /\ o.pc = "unpin" /\ o.kind = op[p].kind /\ o.exp = op[p].exp
                         /\ o.text = op[p].text /\ o.item = op[p].item /\ o.res = "refused"
    BY <1>3, Reports DEF Stages, Inside
  <2>2. Stage(o, texts') /\ Asks(o) /\ (~robbed => Own(o))
    BY <1>1, <1>2, <2>1 DEF Stage, Asks, Before, Own
  <2>3. ~robbed => lock.owner = p
    BY <1>1 DEF Exclusive, Inside
  <2>4. Move(p, o)
    BY <1>1, <1>2, <1>3, <2>1, <2>2, <2>3 DEF Move, names, Types, Exclusive
  <2> QED
    BY <2>4, Moves
<1>4. CASE /\ cand # None /\ live' = cand /\ cand' = None /\ Result(p, "unpin", "ok")
           /\ data' = Kept(data, {cand, guard} \ {None})
           /\ installed' = installed \cup {data[cand]} /\ replaced' = Live
           /\ settled' = (settled \/ (op[p].item # 0 /\ op[p].item = pushes /\ data[cand] = op[p].text))
  <2>1. PICK o \in Ops : /\ op' = [op EXCEPT ![p] = o]
                         /\ o.pc = "unpin" /\ o.kind = op[p].kind /\ o.exp = op[p].exp
                         /\ o.text = op[p].text /\ o.item = op[p].item /\ o.res = "ok"
    BY <1>4, Reports DEF Stages, Inside
  <2>2. op' \in [Procs -> Ops] /\ op'[p] = o /\ \A q \in Procs \ {p} : op'[q] = op[q]
    BY <1>1, <2>1 DEF Types
  <2>3. cand \in Inodes /\ data[cand] \in Texts /\ Live \in Texts /\ data' \in [Inodes -> Texts]
    BY <1>1, <1>4, KeptType DEF Types, Live
  <2>4. settled' \in BOOLEAN /\ (settled => settled')
        /\ (op[p].item # 0 /\ op[p].item = pushes /\ data[cand] = op[p].text => settled')
    BY <1>1, <1>4 DEF Types
  <2>5. Types'
    BY <1>1, <1>2, <1>4, <2>2, <2>3, <2>4, Basics DEF Types
  <2>6. Exclusive'
    BY <1>1, <1>2, <2>2 DEF Exclusive, Inside
  <2>7. \A q \in Procs : Stage(op'[q], texts')
    <3>1. Stage(o, texts)
      BY <1>1, <2>1 DEF Stage, Before
    <3> QED
      BY <1>2, <2>2, <3>1 DEF Inv
  <2>8. \A q \in Procs : Asks(op[q])'
    <3> SUFFICES ASSUME NEW q \in Procs PROVE Asks(op[q])'
      OBVIOUS
    <3>1. CASE q = p
      <4>1. ~robbed => data[cand] = op[p].text
        BY <1>1 DEF Own
      <4> QED
        BY <1>1, <1>2, <2>1, <2>2, <2>4, <3>1, <4>1 DEF Asks
    <3>2. CASE q # p
      <4>1. op'[q] = op[q] /\ Asks(op[q])
        BY <2>2, <3>2 DEF Inv
      <4> QED
        BY <1>2, <2>4, <4>1 DEF Asks
    <3> QED
      BY <3>1, <3>2
  <2>9. ~robbed' => \A q \in Procs : op'[q].pc \in Inside => Own(op[q])'
    <3> SUFFICES ASSUME ~robbed, NEW q \in Procs, op'[q].pc \in Inside PROVE Own(op[q])'
      BY <1>2
    <3>1. q = p
      BY <1>1, <2>2, Alone DEF Inside
    <3>2. op'[q] = o
      BY <2>2, <3>1
    <3> QED
      BY <1>1, <1>2, <1>4, <2>1, <3>2 DEF Own
  <2>10. InstalledIsPast' /\ PendingIsNewest' /\ NoSuggestionIsLost'
    <3>1. ~robbed => data[cand].n \in 1..texts
      BY <1>1 DEF Own, Stage
    <3>2. InstalledIsPast'
      BY <1>2, <1>4, <3>1 DEF Inv, InstalledIsPast
    <3>3. PendingIsNewest' /\ NoSuggestionIsLost'
      BY <1>2, <2>4 DEF Inv, PendingIsNewest, NoSuggestionIsLost
    <3> QED
      BY <3>2, <3>3
  <2>11. DisplacedIsKept'
    <3> SUFFICES ASSUME ~robbed, ~sneaked
                 PROVE  Said(p, "ok")' /\ op'[p].pc # "unlock" /\ op'[p].exp = replaced'
      BY <1>2 DEF DisplacedIsKept
    <3>1. Live = op[p].exp
      BY <1>1 DEF Own
    <3> QED
      BY <1>4, <2>1, <2>2, <3>1 DEF Said
  <2> QED
    BY <2>5, <2>6, <2>7, <2>8, <2>9, <2>10, <2>11 DEF Inv
<1> QED
  BY <1>3, <1>4 DEF Rename

LEMMA InvEdit == ASSUME Inv, NEW bump \in 0..1, Edit(bump) PROVE Inv'
<1>1. /\ Types /\ texts' = texts + 1
      /\ UNCHANGED <<guard, cand, lock, draft, archive, op, pending, pushes, installed, replaced,
                     robbed, died, settled, overtaken>>
  BY DEF Edit, Inv, inbox
<1>2. texts' \in Nat /\ (\A t \in Texts : t.n \in 1..texts => t.n \in 1..texts')
  BY <1>1 DEF Types
<1>3. sneaked' \in BOOLEAN /\ (sneaked => sneaked') /\ (\A q \in Procs : op[q].pc = "rename" => sneaked')
  BY <1>1 DEF Edit, Types
<1> DEFINE text == [ver |-> Live.ver + bump, n |-> texts + 1]
<1>4. text \in Texts
  BY <1>1 DEF Types, Live, Texts
<1>5. /\ live' \in Inodes /\ data' \in [Inodes -> Texts] /\ cand # live'
      /\ (cand # None => data'[cand] = data[cand])
  <2>1. CASE data' = [data EXCEPT ![live] = text] /\ UNCHANGED live
    BY <1>1, <1>4, <2>1 DEF Types
  <2>2. CASE \E i \in Inodes : /\ Fresh(i) /\ live' = i
                              /\ data' = Kept([data EXCEPT ![i] = text], {i, guard, cand} \ {None})
    <3>1. PICK i \in Inodes : /\ i \notin {live, guard, cand} /\ live' = i
                             /\ data' = Kept([data EXCEPT ![i] = text], {i, guard, cand} \ {None})
      BY <2>2 DEF Fresh
    <3> DEFINE d == [data EXCEPT ![i] = text]
               inUse == {i, guard, cand} \ {None}
    <3>2. d \in [Inodes -> Texts] /\ (cand # None => cand \in Inodes \cap inUse /\ d[cand] = data[cand])
      BY <1>1, <1>4, <3>1 DEF Types
    <3>3. data' = Kept(d, inUse)
      BY <3>1
    <3> HIDE DEF d, inUse
    <3>4. /\ Kept(d, inUse) \in [Inodes -> Texts]
          /\ \A j \in Inodes \cap inUse : Kept(d, inUse)[j] = d[j]
      BY <3>2, KeptType
    <3>5. live' \in Inodes /\ data' \in [Inodes -> Texts] /\ cand # live'
      BY <1>1, <3>1, <3>3, <3>4
    <3>6. cand # None => data'[cand] = data[cand]
      BY <3>2, <3>3, <3>4
    <3> QED
      BY <3>5, <3>6
  <2> QED
    BY <2>1, <2>2 DEF Edit
<1>6. Types'
  BY <1>1, <1>2, <1>3, <1>5 DEF Types
<1>7. Exclusive' /\ PendingIsNewest' /\ NoSuggestionIsLost' /\ InstalledIsPast'
  <2>1. Exclusive' /\ PendingIsNewest' /\ NoSuggestionIsLost'
    BY <1>1 DEF Inv, Exclusive, PendingIsNewest, NoSuggestionIsLost
  <2>2. InstalledIsPast'
    BY <1>1, <1>2 DEF Inv, InstalledIsPast, Types
  <2> QED
    BY <2>1, <2>2
<1>8. \A q \in Procs : Stage(op'[q], texts') /\ Asks(op[q])'
  <2> SUFFICES ASSUME NEW q \in Procs PROVE Stage(op'[q], texts') /\ Asks(op[q])'
    OBVIOUS
  <2>1. Stage(op[q], texts) /\ Asks(op[q]) /\ op[q].text \in Texts
    BY <1>1 DEF Inv, Types, Ops
  <2>2. Stage(op[q], texts')
    BY <1>2, <2>1 DEF Stage
  <2> QED
    BY <1>1, <2>1, <2>2 DEF Asks
<1>9. ~robbed' => \A q \in Procs : op'[q].pc \in Inside => Own(op[q])'
  <2> SUFFICES ASSUME ~robbed, NEW q \in Procs, op[q].pc \in Inside PROVE Own(op[q])'
    BY <1>1
  <2>1. Own(op[q])
    BY DEF Inv
  <2> QED
    BY <1>1, <1>3, <1>5, <2>1 DEF Own
<1>10. DisplacedIsKept'
  BY <1>1, <1>3 DEF Inv, DisplacedIsKept, Said
<1> QED
  BY <1>6, <1>7, <1>8, <1>9, <1>10 DEF Inv

-----------------------------------------------------------------------------
LEMMA InvStutter == ASSUME Inv, UNCHANGED vars PROVE Inv'
BY DEF vars, names, inbox, counts, history, Inv, Types, Exclusive, Stage, Asks, Own, Live,
       InstalledIsPast, PendingIsNewest, DisplacedIsKept, NoSuggestionIsLost, Said

LEMMA InvStep == Inv /\ [Next]_vars => Inv'
<1> SUFFICES ASSUME Inv, [Next]_vars PROVE Inv'
  OBVIOUS
<1>1. CASE \E p \in Procs : Mutation(p) \/ Crash(p)
  BY <1>1, InvLook, InvInspect, InvClean, InvLock, InvWriteLock, InvRead, InvPin, InvWriteCandidate, InvCompare,
     InvRename, InvUnpin, InvRecord, InvUnlock, InvDrop, InvCrash DEF Mutation, Recording
<1>2. CASE PublishDraft \/ RollBack \/ AdoptAtHub \/ AdoptByCommand
  BY <1>2, InvBegin DEF PublishDraft, RollBack, AdoptAtHub, AdoptByCommand, Found, Procs
<1>3. CASE Age \/ SaveDraft \/ Push \/ Reject \/ \E bump \in 0..1 : Edit(bump)
  BY <1>3, InvQuiet, InvInbox, InvEdit
<1>4. CASE UNCHANGED vars
  BY <1>4, InvStutter
<1> QED
  BY <1>1, <1>2, <1>3, <1>4 DEF Next

\* What every step of a mutation knows of lock, files and inbox holds in every behaviour
\* (withMutation, conditionalReplace).
THEOREM MutationInvariant == Spec => []Inv
<1> QED
  BY InvInit, InvStep, PTL DEF Spec

\* A mutation that reports success has put its own text in place, and one that reports a
\* conflict has not, unless its lock was removed under it.
THEOREM TrueResults == Spec => []ResultIsTrue
<1>1. Inv => ResultIsTrue
  BY DEF Inv, ResultIsTrue, Said, Own, Inside
<1> QED
  BY <1>1, MutationInvariant, PTL

\* The profile that was displaced is the newest snapshot, with the exceptions it names.
THEOREM Displaced == Spec => []DisplacedIsKept
<1>1. Inv => DisplacedIsKept
  BY DEF Inv
<1> QED
  BY <1>1, MutationInvariant, PTL

\* The newest suggestion stays in the inbox until it is installed or rejected, with the
\* exceptions it names.
THEOREM Suggested == Spec => []NoSuggestionIsLost
<1>1. Inv => NoSuggestionIsLost
  BY DEF Inv
<1> QED
  BY <1>1, MutationInvariant, PTL

\* A rename displaces the text its caller expected, or an edit that came after the compare.
THEOREM Seen == Spec => EditsAreSeen
<1> DEFINE A == \A p \in Procs : op[p].pc = "rename" /\ op'[p].res = "ok"
                                   => Live = op[p].exp \/ sneaked \/ robbed
<1>1. Inv => A
  BY DEF Inv, Own, Inside
<1>2. Inv /\ [Next]_vars => [A]_vars
  BY <1>1
<1>3. Spec => [][A]_vars
  BY <1>2, MutationInvariant, PTL DEF Spec
<1> QED
  BY <1>3 DEF EditsAreSeen
=============================================================================
