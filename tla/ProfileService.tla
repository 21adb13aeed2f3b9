---------------------------- MODULE ProfileService ----------------------------
(***************************************************************************)
(* How the hub's profile.json is changed.                                  *)
(*                                                                         *)
(* Mutations (publish a draft, adopt a pushed item, roll back) come from   *)
(* the dashboard, process "hub", and from `cc-fleet adopt`, process "cli". *)
(* They exclude each other by a lock file, check that the profile is still *)
(* the one they started from, install the new text by a rename and archive *)
(* the old one.  A human with an editor takes part in none of this.  Each  *)
(* process is single-threaded and a mutation awaits nothing, so the steps  *)
(* below are those between which ANOTHER process can act.                  *)
(*                                                                         *)
(* live, guard, cand   what profile.json, profile.json.guard and           *)
(*            profile.json.candidate name: an inode, or None               *)
(* data       the text in each inode.  A text is its version and a number  *)
(*            no other text has, which stands for its SHA-256 revision     *)
(* lock       profile.lock.json: who made it; whether its content is there *)
(*            yet; whether it is more than a minute old                    *)
(* draft      the revision the dashboard's draft is based on, or NoText    *)
(* archive    profile-history, the newest Keep snapshots, oldest first     *)
(* op         what each process is doing                                   *)
(* pending    the newest suggestion a node has pushed, or 0 once it was    *)
(*            adopted or rejected; pushes counts them                      *)
(* installed, replaced   history: texts a rename put in place, and the one *)
(*            the last rename displaced                                    *)
(* robbed, sneaked, died   history: the lock of a process at work was      *)
(*            removed; an edit came after a final compare; a mutation that *)
(*            had installed its text was cut short, by a crash or the disk *)
(* settled, overtaken   history: the newest suggestion has been installed  *)
(*            or rejected; it arrived while an older one was being adopted *)
(*            by the command                                               *)
(***************************************************************************)
EXTENDS Naturals, Sequences

CONSTANTS Keep,       \* snapshots kept
          MaxTexts,   \* bound: texts ever written
          MaxPushes,  \* bound: suggestions
          MaxCrashes  \* bound: crashes, and failures of the disk after a rename

ASSUME KeepAssumption == Keep \in Nat \ {0} /\ MaxTexts \in Nat /\ MaxPushes \in Nat /\ MaxCrashes \in Nat

VARIABLES live, guard, cand, data, lock, draft, archive, op,
          pending, pushes, texts, crashes, installed, replaced, robbed, sneaked, died,
          settled, overtaken

names == <<live, guard, cand, data>>
counts == <<texts, crashes>>
history == <<installed, replaced, robbed, sneaked, died, settled, overtaken>>
inbox == <<pending, pushes>>
vars == <<names, lock, draft, archive, op, inbox, counts, history>>

Procs == {"hub", "cli"}
Inodes == 1..4
None == 0
NoText == [ver |-> 0, n |-> 0]
NoLock == [owner |-> "none", written |-> FALSE, old |-> FALSE]
Idle == [pc |-> "idle", kind |-> "none", exp |-> NoText, text |-> NoText, item |-> 0, res |-> "none"]

Live == data[live]
Working(p) == op[p].pc # "idle"

\* The steps of a mutation that holds the lock.
Inside == {"locked", "read", "pin", "write", "compare", "rename", "unpin", "record", "unlock"}

-----------------------------------------------------------------------------
Init ==
    /\ live = 1 /\ guard = None /\ cand = None
    /\ data = [i \in Inodes |-> IF i = 1 THEN [ver |-> 1, n |-> 1] ELSE NoText]
    /\ lock = NoLock
    /\ draft = NoText
    /\ archive = <<>>
    /\ op = [p \in Procs |-> Idle]
    /\ texts = 1 /\ crashes = 0
    /\ installed = {} /\ replaced = NoText
    /\ robbed = FALSE /\ sneaked = FALSE /\ died = FALSE
    /\ pending = 0 /\ pushes = 0 /\ settled = FALSE /\ overtaken = FALSE

\* p takes its next step.
Step(p, pc) == op' = [op EXCEPT ![p].pc = pc]

\* p goes to pc with the result it will report.
Result(p, pc, res) == op' = [op EXCEPT ![p] = [@ EXCEPT !.pc = pc, !.res = res]]

\* The inode a new file gets: the first that no name holds.
Fresh(i) ==
    /\ i \notin {live, guard, cand}
    /\ \A j \in 1..(i - 1) : j \in {live, guard, cand}

\* Inodes without a name are gone.
Kept(d, inUse) == [i \in Inodes |-> IF i \in inUse THEN d[i] ELSE NoText]

-----------------------------------------------------------------------------
(* The lock. *)

\* A mutation is asked for, against the revision its caller has in hand.
Begin(p, kind, exp, item) ==
    /\ ~Working(p)
    /\ texts < MaxTexts
    /\ op' = [op EXCEPT ![p] = [Idle EXCEPT !.pc = "look", !.kind = kind, !.exp = exp, !.item = item]]
    /\ UNCHANGED <<names, lock, draft, archive, inbox, counts, history>>

\* The dashboard publishes its draft, against the live revision it shows or the draft's.
PublishDraft == \E exp \in {Live, draft} : Begin("hub", "publish", exp, 0)

\* It publishes a snapshot anew.
RollBack == Begin("hub", "rollback", Live, 0)

\* What is pending now is adopted, by the dashboard or by `cc-fleet adopt`.
Found == pending # 0
AdoptAtHub == Found /\ Begin("hub", "adopt", Live, pending)
AdoptByCommand == Found /\ Begin("cli", "adopt", Live, pending)

\* cleanupStaleLock: is there a lock?
Look(p) ==
    /\ op[p].pc = "look"
    /\ Step(p, IF lock = NoLock THEN "lock" ELSE "inspect")
    /\ UNCHANGED <<names, lock, draft, archive, inbox, counts, history>>

\* Its content is read: one that is a minute old, that makes no sense or that is gone by
\* now is stale, and so is any lock that is there when it is removed.
Inspect(p) ==
    /\ op[p].pc = "inspect"
    /\ Step(p, IF lock = NoLock \/ lock.old \/ ~lock.written THEN "clean" ELSE "lock")
    /\ UNCHANGED <<names, lock, draft, archive, inbox, counts, history>>

Clean(p) ==
    /\ op[p].pc = "clean"
    /\ lock' = NoLock
    /\ robbed' = (robbed \/ \E q \in Procs \ {p} : lock.owner = q /\ op[q].pc \in Inside)
    /\ Step(p, "lock")
    /\ UNCHANGED <<names, draft, archive, inbox, counts, installed, replaced, sneaked, died, settled, overtaken>>

\* Variant: the lock is written whether or not there is one.
Lock_Anyway(p) ==
    /\ op[p].pc = "lock"
    /\ lock' = [owner |-> p, written |-> FALSE, old |-> FALSE]
    /\ Step(p, "locked")
    /\ UNCHANGED <<names, draft, archive, inbox, counts, history>>

\* The lock file is created, unless there is one.
Lock(p) ==
    /\ op[p].pc = "lock"
    /\ \/ lock # NoLock /\ op' = [op EXCEPT ![p] = Idle] /\ UNCHANGED lock
       \/ /\ lock = NoLock
          /\ lock' = [owner |-> p, written |-> FALSE, old |-> FALSE]
          /\ Step(p, "locked")
    /\ UNCHANGED <<names, draft, archive, inbox, counts, history>>

\* Its content follows, if the file is still there.
WriteLock(p) ==
    /\ op[p].pc = "locked"
    /\ lock' = IF lock.owner = p THEN [lock EXCEPT !.written = TRUE] ELSE lock
    /\ Step(p, "read")
    /\ UNCHANGED <<names, draft, archive, inbox, counts, history>>

\* Variant: a suggestion is done with also when it could not be adopted.
Unlock_dropAnyway(p) ==
    /\ op[p].pc = "unlock"
    /\ lock' = NoLock
    /\ op' = [op EXCEPT ![p] = IF @.kind = "adopt" THEN [Idle EXCEPT !.pc = "drop", !.item = op[p].item] ELSE Idle]
    /\ robbed' = (robbed \/ \E q \in Procs \ {p} : lock.owner = q /\ op[q].pc \in Inside)
    /\ UNCHANGED <<names, draft, archive, inbox, counts, installed, replaced, sneaked, died, settled, overtaken>>

\* The lock file is removed, whoever made it, and the caller gets its result; an adopted
\* suggestion is still to be taken out of the inbox.
Unlock(p) ==
    /\ op[p].pc = "unlock"
    /\ lock' = NoLock
    /\ op' = [op EXCEPT ![p] = IF @.kind = "adopt" /\ @.res = "ok"
                              THEN [Idle EXCEPT !.pc = "drop", !.item = op[p].item] ELSE Idle]
    /\ robbed' = (robbed \/ \E q \in Procs \ {p} : lock.owner = q /\ op[q].pc \in Inside)
    /\ UNCHANGED <<names, draft, archive, inbox, counts, installed, replaced, sneaked, died, settled, overtaken>>

\* A minute passes: the holder is dead, or the machine slept.
Age ==
    /\ lock # NoLock /\ ~lock.old
    /\ lock' = [lock EXCEPT !.old = TRUE]
    /\ UNCHANGED <<names, draft, archive, op, inbox, counts, history>>

-----------------------------------------------------------------------------
(* The mutation. *)

NextVersion(p) == Live.ver + 1

\* The live profile must be the expected one; a draft must be based on it; a roll back
\* needs a snapshot.  The new text gets the next version, whatever its source says.
Read(p) ==
    /\ op[p].pc = "read"
    /\ \/ /\ \/ Live # op[p].exp
             \/ op[p].kind = "publish" /\ draft # op[p].exp
             \/ op[p].kind = "rollback" /\ archive = <<>>
          /\ Result(p, "unlock", "refused")
          /\ UNCHANGED texts
       \/ /\ Live = op[p].exp
          /\ op[p].kind = "publish" => draft = op[p].exp
          /\ op[p].kind = "rollback" => archive # <<>>
          /\ texts' = texts + 1
          /\ op' = [op EXCEPT ![p] = [@ EXCEPT !.pc = "pin",
                       !.text = [ver |-> NextVersion(p), n |-> texts + 1]]]
    /\ UNCHANGED <<names, lock, draft, archive, inbox, crashes, history>>

\* What is left of an earlier candidate and guard goes; the guard pins the live inode.
Pin(p) ==
    /\ op[p].pc = "pin"
    /\ guard' = live /\ cand' = None
    /\ data' = Kept(data, {live})
    /\ Step(p, "write")
    /\ UNCHANGED <<live, lock, draft, archive, inbox, counts, history>>

WriteCandidate(p) ==
    /\ op[p].pc = "write"
    /\ \E i \in Inodes :
          /\ IF cand # None THEN i = cand ELSE Fresh(i)
          /\ cand' = i
          /\ data' = [data EXCEPT ![i] = op[p].text]
    /\ Step(p, "compare")
    /\ UNCHANGED <<live, guard, lock, draft, archive, inbox, counts, history>>

\* Variant: the bytes are compared, but not with the revision the caller expects.
Unchanged_SameFile(p) == guard = live

\* Same inode, same bytes: nobody saved since the profile was read.
Unchanged(p) == guard = live /\ Live = op[p].exp

Compare(p) ==
    /\ op[p].pc = "compare"
    /\ IF Unchanged(p) THEN Step(p, "rename") ELSE Result(p, "unpin", "refused")
    /\ UNCHANGED <<names, lock, draft, archive, inbox, counts, history>>

\* The candidate becomes the profile; without a candidate this throws.
Rename(p) ==
    /\ op[p].pc = "rename"
    /\ \/ /\ cand = None
          /\ Result(p, "unpin", "refused")
          /\ UNCHANGED <<names, installed, replaced, settled>>
       \/ /\ cand # None
          /\ live' = cand /\ cand' = None
          /\ data' = Kept(data, {cand, guard} \ {None})
          /\ installed' = installed \cup {data[cand]}
          /\ replaced' = Live
          /\ settled' = (settled \/ (op[p].item # 0 /\ op[p].item = pushes /\ data[cand] = op[p].text))
          /\ Result(p, "unpin", "ok")
          /\ UNCHANGED guard
    /\ UNCHANGED <<lock, draft, archive, inbox, counts, robbed, sneaked, died, overtaken>>

\* The names of the guard and the candidate are removed, whatever happened.
Unpin(p) ==
    /\ op[p].pc = "unpin"
    /\ guard' = None /\ cand' = None
    /\ data' = Kept(data, {live})
    /\ Step(p, IF op[p].res = "ok" THEN "record" ELSE "unlock")
    /\ UNCHANGED <<live, lock, draft, archive, inbox, counts, history>>

\* The archive with one more text, and what pruning leaves of it.
Archived(text) == Append(archive, text)
Pruned(all) == IF Len(all) > Keep THEN SubSeq(all, Len(all) - Keep + 1, Len(all)) ELSE all

\* A published draft is done with.
DraftDone(p) == draft' = IF op[p].kind = "publish" THEN NoText ELSE draft

\* Variant: what is archived is the profile that is live now.
Record_New(p) ==
    /\ op[p].pc = "record"
    /\ archive' = Pruned(Archived(Live))
    /\ DraftDone(p)
    /\ Step(p, "unlock")
    /\ UNCHANGED <<names, lock, inbox, counts, history>>

\* The text that was read is archived, a published draft is removed, and the archive is
\* cut back to the newest.
Record(p) ==
    /\ op[p].pc = "record"
    /\ archive' = Pruned(Archived(op[p].exp))
    /\ DraftDone(p)
    /\ Step(p, "unlock")
    /\ UNCHANGED <<names, lock, inbox, counts, history>>

\* The disk fails at one of these: the mutation throws although its text is the profile.
RecordFails(p) ==
    /\ op[p].pc = "record"
    /\ crashes < MaxCrashes /\ crashes' = crashes + 1
    /\ \/ UNCHANGED <<archive, draft>>
       \/ archive' = Archived(op[p].exp) /\ (UNCHANGED draft \/ DraftDone(p))
    /\ died' = TRUE
    /\ Result(p, "unlock", "thrown")
    /\ UNCHANGED <<names, lock, inbox, texts, installed, replaced, robbed, sneaked, settled, overtaken>>

-----------------------------------------------------------------------------
(* The inbox: one file per device and item, of which one is followed here. *)

\* A node's push is stored by the hub, in the place of an older one of the same item.
Push ==
    /\ ~Working("hub") /\ pushes < MaxPushes
    /\ pushes' = pushes + 1 /\ pending' = pushes'
    /\ settled' = FALSE /\ overtaken' = (op["cli"].item # 0)
    /\ UNCHANGED <<names, lock, draft, archive, op, counts, installed, replaced, robbed, sneaked, died>>

\* What is adopted is removed: the file of that name, whatever it holds by now.
Drop(p) ==
    /\ op[p].pc = "drop"
    /\ pending' = 0
    /\ op' = [op EXCEPT ![p] = Idle]
    /\ UNCHANGED <<names, lock, draft, archive, pushes, counts, history>>

\* The operator rejects it.
Reject ==
    /\ pending # 0 /\ pending' = 0
    /\ settled' = TRUE
    /\ UNCHANGED <<names, lock, draft, archive, op, pushes, counts, installed, replaced, robbed, sneaked, died, overtaken>>

-----------------------------------------------------------------------------
(* The dashboard's draft, the editor, the crash. *)

\* Only a draft of the current profile is saved.
SaveDraft ==
    /\ ~Working("hub")
    /\ draft' = Live
    /\ UNCHANGED <<names, lock, archive, op, inbox, counts, history>>

\* A human saves the profile, in place or by a rename, with the same version or the next.
Edit(bump) ==
    /\ texts < MaxTexts
    /\ texts' = texts + 1
    /\ LET text == [ver |-> Live.ver + bump, n |-> texts + 1]
       IN  \/ data' = [data EXCEPT ![live] = text] /\ UNCHANGED live
           \/ \E i \in Inodes :
                 /\ Fresh(i)
                 /\ live' = i
                 /\ data' = Kept([data EXCEPT ![i] = text], {i, guard, cand} \ {None})
    /\ sneaked' = (sneaked \/ \E p \in Procs : op[p].pc = "rename")
    /\ UNCHANGED <<guard, cand, lock, draft, archive, op, inbox, crashes, installed, replaced,
                   robbed, died, settled, overtaken>>

\* A process dies.  All its files stay as they are.
Crash(p) ==
    /\ Working(p)
    /\ crashes < MaxCrashes /\ crashes' = crashes + 1
    /\ op' = [op EXCEPT ![p] = Idle]
    /\ died' = (died \/ op[p].res = "ok")
    /\ UNCHANGED <<names, lock, draft, archive, inbox, texts, installed, replaced, robbed, sneaked,
                   settled, overtaken>>

-----------------------------------------------------------------------------
Mutation(p) ==
    \/ Look(p) \/ Inspect(p) \/ Clean(p) \/ Lock(p) \/ WriteLock(p) \/ Read(p) \/ Pin(p)
    \/ WriteCandidate(p) \/ Compare(p) \/ Rename(p) \/ Unpin(p)
    \/ Record(p) \/ RecordFails(p) \/ Unlock(p) \/ Drop(p)

Next ==
    \/ PublishDraft \/ RollBack \/ AdoptAtHub \/ AdoptByCommand
    \/ \E p \in Procs : Mutation(p) \/ Crash(p)
    \/ Age \/ SaveDraft \/ Push \/ Reject
    \/ \E bump \in 0..1 : Edit(bump)

Spec == Init /\ [][Next]_vars

-----------------------------------------------------------------------------
(* Properties *)

Said(p, res) == op[p].pc \in {"unpin", "record", "unlock"} /\ op[p].res = res

\* A mutation reports success exactly if its own text became the profile, and a
\* conflict only if it did not, unless its lock was removed under it.
ResultIsTrue ==
    ~robbed => \A p \in Procs : /\ Said(p, "ok") => op[p].text \in installed
                                /\ Said(p, "refused") => op[p].text \notin installed

\* The profile a mutation displaced is the newest snapshot once the mutation is over,
\* unless a process died or its disk failed in between, or an editor saved after the final
\* compare.
DisplacedIsKept ==
    ~robbed /\ ~died /\ ~sneaked /\ replaced # NoText =>
       \/ archive # <<>> /\ archive[Len(archive)] = replaced
       \/ \E p \in Procs : Said(p, "ok") /\ op[p].pc # "unlock" /\ op[p].exp = replaced

\* "A direct editor save is detected before replacement when it occurs before the final
\* compare": a rename displaces the text its caller expected, or an edit that slipped in
\* after that compare, or works without the lock.
EditsAreSeen ==
    [][\A p \in Procs : op[p].pc = "rename" /\ op'[p].res = "ok"
                          => Live = op[p].exp \/ sneaked \/ robbed]_vars

\* No suggestion gets lost: the newest is in the inbox until it has been installed or rejected,
\* whatever conflicts, crashes and races its adoption meets - unless it arrived while an older
\* one of the same name was being adopted by the command, which then removes it unseen
\* (cli/control.ts 356), or a lock was removed under its holder.
NoSuggestionIsLost ==
    pushes # 0 /\ ~overtaken /\ ~robbed => (pending = pushes \/ settled)

=============================================================================
