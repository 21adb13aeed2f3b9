-------------------------- MODULE Enrolment_proofs --------------------------
(***************************************************************************)
(* Proofs about Enrolment, for any set of machines and any bounds.         *)
(*                                                                         *)
(* TypeInv strengthens the type invariant until it is inductive; the five  *)
(* safety theorems each add conjuncts of their own to it.  The last two    *)
(* hold until two updates overlap, and say so (Apart): before that one     *)
(* process at most holds a copy of a file that it is going to write.       *)
(***************************************************************************)
EXTENDS Enrolment, HubStreams, TLAPS

Statuses == {"absent", "pending", "approved", "denied"}
Pcs == {"out", "asking", "waiting"}
NodeRecord == [pc : Pcs, attempt : 0..MaxAttempts, cred : Nat, fatal : BOOLEAN]
NodeState == {r \in NodeRecord : r.pc # "out" => r.attempt # 0}

\* What an operation works on: a request's code is a real one, a revoked token is
\* one that was issued, and only the hub starts, polls, enrolls and touches.
OpOK ==
    /\ \A p \in Procs :
          /\ op[p].kind \in OnRequests \cup {"admit", "enroll"} => op[p].code \in Codes
          /\ op[p].kind = "revoke" => op[p].tok # 0
    /\ op["cli"].kind \in {"idle", "approve", "deny", "revoke"}

\* Every record is of an issued credential, but for the one that is being enrolled.
Issued ==
    /\ \A d \in devices : d.tok \in DOMAIN minted
    /\ \A p \in Procs : \A d \in devCopy[p] :
          \/ d.tok \in DOMAIN minted
          \/ op[p].kind = "enroll" /\ d.tok = op[p].tok
    /\ op["hub"].kind = "enroll" => op["hub"].tok = Len(minted) + 1

\* A client that waits for an answer has asked for a code.
Asked == \A n \in Nodes : node[n].pc # "out" => node[n].attempt # 0

TypeInv == TypeOK /\ OpOK /\ Issued /\ Asked

\* What a process works with: the part of TypeInv that an operation changes.
WorkOK ==
    /\ requests \in [Codes -> Request]
    /\ devices \in SUBSET Device
    /\ op \in [Procs -> Op]
    /\ reqCopy \in [Procs -> [Codes -> Request]]
    /\ devCopy \in [Procs -> SUBSET Device]
    /\ overlap \in BOOLEAN
    /\ OpOK /\ Issued

-----------------------------------------------------------------------------
(* Records. *)

LEMMA StatusSet ==
    ASSUME NEW r \in Request, NEW s \in Statuses
    PROVE  [r EXCEPT !.status = s] \in Request
BY SMT DEF Request, Statuses

LEMMA PolledSet ==
    ASSUME NEW r \in Request, NEW b \in BOOLEAN
    PROVE  [r EXCEPT !.polled = TRUE, !.redeemed = b] \in Request
<1> DEFINE q == [r EXCEPT !.polled = TRUE]
<1>1. q \in Request
  BY Zenon DEF Request
<1>2. [q EXCEPT !.redeemed = b] \in Request
  <2> HIDE DEF q
  <2> QED
    BY <1>1, Zenon DEF Request
<1>3. [r EXCEPT !.polled = TRUE, !.redeemed = b] = [q EXCEPT !.redeemed = b]
  BY SMT
<1> QED
  BY <1>2, <1>3

LEMMA AbsentIsRequest == Absent \in Request /\ NoRequests \in [Codes -> Request]
BY SMT DEF Request, Absent, NoRequests

LEMMA KindSet ==
    ASSUME NEW o \in Op, NEW kind \in Kinds
    PROVE  [o EXCEPT !.kind = kind] \in Op
BY SMT DEF Op

LEMMA PcSet ==
    ASSUME NEW r \in NodeState, NEW s \in Pcs, s = "out" \/ r.attempt # 0
    PROVE  [r EXCEPT !.pc = s] \in NodeState
<1>1. [r EXCEPT !.pc = s] \in NodeRecord
  BY SMT DEF NodeState, NodeRecord, Pcs
<1> QED
  BY <1>1, SMT DEF NodeState, NodeRecord, Pcs

LEMMA AskingSet ==
    ASSUME NEW r \in NodeState, NEW k \in 1..MaxAttempts
    PROVE  [r EXCEPT !.attempt = k, !.pc = "asking"] \in NodeState
<1> DEFINE q == [r EXCEPT !.attempt = k]
<1>1. q \in NodeRecord /\ q.attempt = k
  BY BoundsAssumption, SMT DEF NodeState, NodeRecord
<1>2. [q EXCEPT !.pc = "asking"] \in NodeState
  <2> HIDE DEF q
  <2>1. q.attempt # 0
    BY <1>1, BoundsAssumption, SMT
  <2>2. q \in NodeState
    BY <1>1, <2>1 DEF NodeState
  <2> QED
    BY <2>1, <2>2, PcSet DEF Pcs
<1>3. [r EXCEPT !.attempt = k, !.pc = "asking"] = [q EXCEPT !.pc = "asking"]
  BY SMT
<1> QED
  BY <1>2, <1>3

LEMMA CredSet ==
    ASSUME NEW r \in NodeState, NEW t \in Nat
    PROVE  [r EXCEPT !.cred = t] \in NodeState
<1>1. [r EXCEPT !.cred = t] \in NodeRecord
  BY SMT DEF NodeState, NodeRecord
<1> QED
  BY <1>1, SMT DEF NodeState, NodeRecord

LEMMA FatalSet ==
    ASSUME NEW r \in NodeState, NEW b \in BOOLEAN
    PROVE  [r EXCEPT !.fatal = b] \in NodeState
<1>1. [r EXCEPT !.fatal = b] \in NodeRecord
  BY Zenon DEF NodeState, NodeRecord
<1> QED
  BY <1>1, SMT DEF NodeState, NodeRecord

LEMMA EnrolledSet ==
    ASSUME NEW r \in NodeState, NEW t \in Nat
    PROVE  [r EXCEPT !.pc = "out", !.cred = t, !.fatal = FALSE] \in NodeState
<1> DEFINE a == [r EXCEPT !.pc = "out"]
           b == [a EXCEPT !.cred = t]
<1>1. a \in NodeState
  BY PcSet DEF Pcs
<1>2. b \in NodeState
  <2> HIDE DEF a
  <2> QED
    BY <1>1, CredSet
<1>3. [b EXCEPT !.fatal = FALSE] \in NodeState
  <2> HIDE DEF b
  <2> QED
    BY <1>2, FatalSet
<1>4. [r EXCEPT !.pc = "out", !.cred = t, !.fatal = FALSE] = [b EXCEPT !.fatal = FALSE]
  BY SMT
<1> QED
  BY <1>3, <1>4

-----------------------------------------------------------------------------
(* The steps that operations are made of. *)

LEMMA AnswerType ==
    ASSUME node \in [Nodes -> NodeState], NEW c \in Codes, NEW reached, NEW otherwise,
           node[c[1]].pc # "out" => reached \in NodeState /\ otherwise \in NodeState,
           Answer(c, reached, otherwise)
    PROVE  node' \in [Nodes -> NodeState]
<1>1. PICK after \in {reached, otherwise} :
         node' = IF node[c[1]].pc # "out" /\ node[c[1]].attempt = c[2]
                 THEN [node EXCEPT ![c[1]] = after] ELSE node
  BY DEF Answer
<1> QED
  BY <1>1, c[1] \in Nodes DEF Codes

\* A process reads device-auth.json.
LEMMA RequestsRead ==
    ASSUME TypeInv, NEW p \in Procs, NEW kind \in OnRequests, NEW c \in Codes,
           NEW copy \in [Codes -> Request],
           p = "cli" => kind \in {"approve", "deny"},
           IsIdle(p), ReadRequests(p, kind, c, copy), minted' = minted
    PROVE  WorkOK'
BY SMT DEF TypeInv, TypeOK, WorkOK, OpOK, Issued, IsIdle, ReadRequests, Procs, Op,
           Kinds, OnRequests, OnDevices

\* A process reads devices.json.
LEMMA DevicesRead ==
    ASSUME TypeInv, NEW p \in Procs, NEW kind \in OnDevices, NEW c \in Codes \cup {NoCode},
           NEW t \in Nat \ {0}, NEW copy \in SUBSET Device,
           p = "cli" => kind = "revoke",
           kind = "enroll" => c \in Codes /\ t = Len(minted) + 1,
           \A d \in copy : d.tok \in DOMAIN minted \/ (kind = "enroll" /\ d.tok = t),
           ReadDevices(p, kind, c, t, copy), minted' = minted
    PROVE  WorkOK'
BY SMT DEF TypeInv, TypeOK, WorkOK, OpOK, Issued, ReadDevices, Procs, Op, Kinds,
           OnRequests, OnDevices

\* device-auth.json is replaced by a copy of it.
LEMMA RequestsReplaced ==
    ASSUME TypeInv, NEW p \in Procs, WriteRequests(p)
    PROVE  requests' \in [Codes -> Request] /\ reqCopy' \in [Procs -> [Codes -> Request]]
<1>1. PICK dead \in SUBSET expired :
         requests' = [c \in Codes |-> IF c \in dead THEN Absent ELSE reqCopy[p][c]]
  BY DEF WriteRequests
<1>2. reqCopy[p] \in [Codes -> Request]
  BY DEF TypeInv, TypeOK
<1>3. requests' \in [Codes -> Request]
  BY <1>1, <1>2, AbsentIsRequest
<1>4. reqCopy' \in [Procs -> [Codes -> Request]]
  BY AbsentIsRequest, SMT DEF TypeInv, TypeOK, WriteRequests
<1> QED
  BY <1>3, <1>4

\* A process is done with a file: it has written it, or it has died.
LEMMA Finished ==
    ASSUME TypeInv, NEW p \in Procs, Done(p), minted' = minted, overlap' = overlap,
           requests' \in [Codes -> Request],
           reqCopy' \in [Procs -> [Codes -> Request]],
           \/ devices' = devices
           \/ devices' = devCopy[p] /\ op[p].kind # "enroll",
           \/ devCopy' = devCopy /\ op[p].kind # "enroll"
           \/ devCopy' = [devCopy EXCEPT ![p] = {}]
    PROVE  WorkOK'
<1>1. Idle \in Op /\ Idle.kind = "idle"
  BY SMT DEF Idle, Op, Kinds
<1>2. op' \in [Procs -> Op] /\ op' = [op EXCEPT ![p] = Idle]
  BY <1>1, SMT DEF TypeInv, TypeOK, Done
<1>3. OpOK'
  BY <1>1, <1>2, SMT DEF TypeInv, TypeOK, OpOK, Procs, OnRequests
<1>4. devices' \in SUBSET Device /\ devCopy' \in [Procs -> SUBSET Device]
  <2>1. devCopy \in [Procs -> SUBSET Device] /\ devices \in SUBSET Device
    BY DEF TypeInv, TypeOK
  <2>2. {} \in SUBSET Device /\ devCopy[p] \in SUBSET Device
    BY <2>1
  <2> QED
    BY <2>1, <2>2
<1>5. Issued'
  BY <1>1, <1>2, SMT DEF TypeInv, TypeOK, Issued, Procs
<1> QED
  BY <1>2, <1>3, <1>4, <1>5 DEF WorkOK, TypeInv, TypeOK

-----------------------------------------------------------------------------
(* Types. *)

\* The part of the state that operations on the files leave alone.
RestOK ==
    /\ expired \in SUBSET Codes
    /\ node \in [Nodes -> NodeState]
    /\ minted \in Seq([code : Codes, id : DeviceIds])
    /\ approved \in SUBSET Codes
    /\ ejected \in SUBSET (Nat \ {0})
    /\ commands \in Nat

LEMMA TypeParts == TypeInv <=> WorkOK /\ RestOK
<1>1. TypeInv => WorkOK /\ RestOK
  <2> SUFFICES ASSUME TypeInv PROVE node \in [Nodes -> NodeState]
    BY DEF TypeInv, TypeOK, WorkOK, RestOK
  <2> QED
    BY DEF TypeInv, TypeOK, Asked, NodeState, NodeRecord, Pcs
<1>2. WorkOK /\ RestOK => TypeInv
  BY DEF TypeInv, TypeOK, Asked, WorkOK, RestOK, NodeState, NodeRecord, Pcs
<1> QED
  BY <1>1, <1>2

LEMMA TypeInit == Init => TypeInv
<1> SUFFICES ASSUME Init PROVE WorkOK /\ RestOK
  BY TypeParts
<1>1. Idle \in Op /\ Idle.kind = "idle"
  BY SMT DEF Idle, Op, Kinds
<1>2. WorkOK
  <2>1. /\ op \in [Procs -> Op] /\ reqCopy \in [Procs -> [Codes -> Request]]
        /\ devCopy \in [Procs -> SUBSET Device]
    BY <1>1, AbsentIsRequest DEF Init
  <2>2. OpOK /\ Issued
    BY <1>1, SMT DEF Init, OpOK, Issued, Procs, OnRequests
  <2> QED
    BY <2>1, <2>2, AbsentIsRequest DEF Init, WorkOK
<1>3. node \in [Nodes -> NodeState]
  <2>1. [pc |-> "out", attempt |-> 0, cred |-> 0, fatal |-> FALSE] \in NodeState
    BY BoundsAssumption, SMT DEF NodeState, NodeRecord, Pcs
  <2> QED
    BY <2>1 DEF Init
<1> QED
  BY <1>2, <1>3, SMT DEF Init, RestOK

LEMMA TypeStep == TypeInv /\ [Next]_vars => TypeInv'
<1> SUFFICES ASSUME TypeInv, [Next]_vars PROVE WorkOK' /\ RestOK'
  BY TypeParts, PTL
<1> USE TypeParts
<1>h. "hub" \in Procs
  BY DEF Procs
<1>1. ASSUME NEW n \in Nodes, StartRead(n) PROVE WorkOK' /\ RestOK'
  <2> DEFINE k == node[n].attempt + 1
             c == <<n, k>>
             copy == [requests EXCEPT ![c] = [Absent EXCEPT !.status = "pending"]]
  <2>1. node[n] \in NodeState /\ k \in 1..MaxAttempts
    BY <1>1, BoundsAssumption, SMT DEF StartRead, RestOK, NodeState, NodeRecord
  <2>2. c \in Codes /\ "start" \in OnRequests
    BY <2>1 DEF Codes, OnRequests
  <2>3. copy \in [Codes -> Request]
    BY <2>2, AbsentIsRequest, StatusSet, "pending" \in Statuses DEF Statuses, WorkOK
  <2>4. /\ IsIdle("hub") /\ ReadRequests("hub", "start", c, copy)
        /\ UNCHANGED <<expired, minted, approved, ejected, commands>>
    BY <1>1 DEF StartRead, history
  <2>5. WorkOK'
    BY <1>h, <2>2, <2>3, <2>4, RequestsRead
  <2>6. node' = [node EXCEPT ![n] = [node[n] EXCEPT !.attempt = k, !.pc = "asking"]]
    BY <1>1 DEF StartRead
  <2>7. node' \in [Nodes -> NodeState]
    BY <2>1, <2>6, AskingSet DEF RestOK
  <2> QED
    BY <2>4, <2>5, <2>7 DEF RestOK
<1>2. CASE StartWrite
  <2>1. op["hub"].code \in Codes /\ op["hub"].kind # "enroll" /\ WriteRequests("hub") /\ Done("hub")
    BY <1>h, <1>2 DEF StartWrite, WorkOK, OpOK, OnRequests
  <2>2. WorkOK'
    BY <1>h, <1>2, <2>1, RequestsReplaced, Finished DEF StartWrite, WriteRequests, history
  <2>3. /\ node[op["hub"].code[1]] \in NodeState
        /\ node[op["hub"].code[1]].pc # "out" => node[op["hub"].code[1]].attempt # 0
    BY <2>1 DEF RestOK, Codes, NodeState
  <2>4. node' \in [Nodes -> NodeState]
    BY <1>2, <2>1, <2>3, PcSet, AnswerType DEF StartWrite, Gone, Pcs, RestOK
  <2> QED
    BY <1>2, <2>2, <2>4 DEF StartWrite, RestOK, history
<1>3. ASSUME NEW p \in Procs, NEW c \in Codes, NEW kind \in {"approve", "deny"},
             DecideRead(p, c, kind)
      PROVE  WorkOK' /\ RestOK'
  <2> DEFINE s == IF kind = "approve" THEN "approved" ELSE "denied"
             copy == [requests EXCEPT ![c].status = s]
  <2>1. s \in Statuses /\ kind \in OnRequests
    BY DEF Statuses, OnRequests
  <2>2. copy \in [Codes -> Request]
    <3> HIDE DEF s
    <3> QED
      BY <2>1, StatusSet DEF WorkOK
  <2>3. IsIdle(p) /\ ReadRequests(p, kind, c, copy) /\ UNCHANGED <<expired, node, history>>
    BY <1>3 DEF DecideRead, Command
  <2>4. WorkOK'
    BY <2>1, <2>2, <2>3, RequestsRead DEF history
  <2>5. commands' \in Nat
    BY <1>3, SMT DEF DecideRead, Command, RestOK
  <2> QED
    BY <2>3, <2>4, <2>5 DEF RestOK, history
<1>4. ASSUME NEW p \in Procs, DecideWrite(p) PROVE WorkOK' /\ RestOK'
  <2>1. op[p].code \in Codes /\ op[p].kind # "enroll" /\ WriteRequests(p) /\ Done(p)
    BY <1>4 DEF DecideWrite, WorkOK, OpOK, OnRequests
  <2>2. WorkOK'
    BY <1>4, <2>1, RequestsReplaced, Finished DEF DecideWrite, WriteRequests
  <2> QED
    BY <1>4, <2>1, <2>2 DEF DecideWrite, RestOK
<1>5. ASSUME NEW n \in Nodes, PollRefused(n) PROVE WorkOK' /\ RestOK'
  <2> DEFINE c == <<n, node[n].attempt>>
  <2>1. PICK m \in {Gone(n), node[n]} :
           node' = IF node[n].pc # "out" /\ node[n].attempt = node[n].attempt
                   THEN [node EXCEPT ![n] = m] ELSE node
    BY <1>5 DEF PollRefused, Answer
  <2>2. m \in NodeState
    BY PcSet DEF RestOK, Gone, Pcs
  <2>3. node' \in [Nodes -> NodeState]
    BY <2>1, <2>2 DEF RestOK
  <2>4. UNCHANGED <<files, work, expired, history, commands>>
    BY <1>5 DEF PollRefused
  <2> QED
    BY <2>3, <2>4 DEF RestOK, WorkOK, files, work, history, OpOK, Issued
<1>6. ASSUME NEW n \in Nodes, NEW kind \in Kinds, PollRead(n, kind) PROVE WorkOK' /\ RestOK'
  <2> DEFINE c == <<n, node[n].attempt>>
             copy == [requests EXCEPT ![c] = [@ EXCEPT !.polled = TRUE,
                                                       !.redeemed = (kind = "pollRedeem")]]
  <2>1. /\ IsIdle("hub") /\ Pollable(c) /\ kind \in PollKinds(c)
        /\ ReadRequests("hub", kind, c, copy)
        /\ UNCHANGED <<expired, node, history, commands>>
    BY <1>6 DEF PollRead
  <2>2. c \in Codes
    <3>1. node[n] \in NodeState /\ node[n].pc = "waiting"
      BY <1>6 DEF PollRead, RestOK
    <3>2. node[n].attempt \in 1..MaxAttempts
      BY <3>1, BoundsAssumption, SMT DEF NodeState, NodeRecord
    <3> QED
      BY <3>2 DEF Codes
  <2>3. kind \in OnRequests
    BY <2>1 DEF PollKinds, OnRequests
  <2>4. copy \in [Codes -> Request]
    BY <2>2, PolledSet DEF WorkOK
  <2>5. WorkOK'
    BY <1>h, <2>1, <2>2, <2>3, <2>4, RequestsRead DEF history
  <2> QED
    BY <2>1, <2>5 DEF RestOK, history
<1>7. CASE PollWrite
  <2>1. op["hub"].code \in Codes /\ op["hub"].kind # "enroll" /\ WriteRequests("hub")
    BY <1>h, <1>7 DEF PollWrite, WorkOK, OpOK, OnRequests
  <2>2. UNCHANGED <<expired, history, overlap, commands>>
    BY <1>7 DEF PollWrite
  <2>3. CASE op["hub"].kind = "pollRedeem" /\ op' = [op EXCEPT !["hub"].kind = "admit"] /\ UNCHANGED node
    <3>1. op' \in [Procs -> Op]
      <4>0. "admit" \in Kinds
        BY DEF Kinds
      <4>1. [op["hub"] EXCEPT !.kind = "admit"] \in Op
        BY <1>h, <4>0, KindSet DEF WorkOK
      <4>2. op' = [op EXCEPT !["hub"] = [op["hub"] EXCEPT !.kind = "admit"]]
        BY <2>3
      <4> QED
        BY <4>1, <4>2 DEF WorkOK
    <3>2. OpOK'
      BY <2>1, <2>3, SMT DEF WorkOK, OpOK, Procs, OnRequests
    <3>3. Issued'
      BY <2>1, <2>2, <2>3, SMT DEF WorkOK, Issued, WriteRequests, history, Procs
    <3> QED
      BY <1>h, <2>1, <2>2, <2>3, <3>1, <3>2, <3>3, RequestsReplaced DEF WorkOK, RestOK, WriteRequests, history
  <2>4. CASE Done("hub") /\ node' \in [Nodes -> NodeState]
    BY <1>h, <2>1, <2>2, <2>4, RequestsReplaced, Finished DEF RestOK, WriteRequests, history
  <2>5. node[op["hub"].code[1]] \in NodeState
    BY <2>1 DEF RestOK, Codes
  <2>6. ASSUME Answer(op["hub"].code, Gone(op["hub"].code[1]), node[op["hub"].code[1]])
        PROVE  node' \in [Nodes -> NodeState]
    BY <2>1, <2>5, <2>6, PcSet, AnswerType DEF Gone, Pcs, RestOK
  <2> QED
    BY <1>7, <2>3, <2>4, <2>6 DEF PollWrite, RestOK
<1>8. CASE EnrollRead
  <2> DEFINE c == op["hub"].code
             t == Len(minted) + 1
  <2>1. PICK k \in 1..(Cardinality(devices) + 1) :
           ReadDevices("hub", "enroll", c, t,
             devices \cup {[id |-> Suffixed(HostOf[c[1]], k), tok |-> t, revoked |-> FALSE]})
    BY <1>8 DEF EnrollRead
  <2> DEFINE d == [id |-> Suffixed(HostOf[c[1]], k), tok |-> t, revoked |-> FALSE]
             copy == devices \cup {d}
  <2>2. c \in Codes /\ t \in Nat \ {0} /\ k \in Nat \ {0}
    BY <1>h, <1>8, SMT DEF EnrollRead, WorkOK, OpOK, RestOK
  <2>3. Suffixed(HostOf[c[1]], k) \in DeviceIds
    <3>1. HostOf[c[1]] \in HostNames
      BY <2>2 DEF HostNames, Codes
    <3> QED
      BY <2>2, <3>1, SMT DEF DeviceIds
  <2>4. d \in Device
    BY <2>2, <2>3 DEF Device
  <2>5. UNCHANGED <<expired, node, history, commands>>
    BY <1>8 DEF EnrollRead
  <2>6. copy \in SUBSET Device /\ "enroll" \in OnDevices
    BY <2>4 DEF WorkOK, OnDevices
  <2>7. \A e \in copy : e.tok \in DOMAIN minted \/ ("enroll" = "enroll" /\ e.tok = t)
    BY DEF WorkOK, Issued
  <2>8. ReadDevices("hub", "enroll", c, t, copy)
    BY <2>1
  <2>9. WorkOK'
    <3> HIDE DEF t, c, copy
    <3> QED
      BY <1>h, <2>2, <2>5, <2>6, <2>7, <2>8, DevicesRead DEF history, t
  <2> QED
    BY <2>5, <2>9 DEF RestOK, history
<1>9. CASE EnrollWrite
  <2> DEFINE c == op["hub"].code
             t == op["hub"].tok
             n == c[1]
  <2>1. PICK d \in devCopy["hub"] : minted' = Append(minted, [code |-> c, id |-> d.id])
    BY <1>9 DEF EnrollWrite
  <2>2. /\ WriteDevices("hub") /\ Done("hub") /\ op["hub"].kind = "enroll"
        /\ UNCHANGED <<expired, approved, ejected, overlap, commands>>
        /\ Answer(c, [node[n] EXCEPT !.pc = "out", !.cred = t, !.fatal = FALSE], node[n])
    BY <1>9 DEF EnrollWrite
  <2>3. c \in Codes /\ n \in Nodes /\ t \in Nat /\ d \in Device /\ d.id \in DeviceIds
    BY <1>h, <2>2 DEF WorkOK, OpOK, Codes, Op, Device
  <2>4. node' \in [Nodes -> NodeState]
    BY <2>2, <2>3, AnswerType, EnrolledSet DEF RestOK
  <2>5. [code |-> c, id |-> d.id] \in [code : Codes, id : DeviceIds]
    BY <2>3
  <2>6. /\ minted' \in Seq([code : Codes, id : DeviceIds])
        /\ DOMAIN minted' = DOMAIN minted \cup {Len(minted) + 1}
        /\ Len(minted') = Len(minted) + 1
    BY <2>1, <2>5, SMT DEF RestOK
  <2>7. RestOK'
    BY <2>2, <2>4, <2>6 DEF RestOK
  <2>8. Idle \in Op /\ Idle.kind = "idle"
    BY SMT DEF Idle, Op, Kinds
  <2>9. op' \in [Procs -> Op] /\ op' = [op EXCEPT !["hub"] = Idle]
    BY <2>2, <2>8 DEF Done, WorkOK
  <2>10. OpOK'
    BY <2>8, <2>9, SMT DEF WorkOK, OpOK, Procs, OnRequests
  <2>11. /\ devices' = devCopy["hub"] /\ devCopy' = [devCopy EXCEPT !["hub"] = {}]
         /\ UNCHANGED <<requests, reqCopy>>
    BY <2>2 DEF WriteDevices
  <2>12. devices' \in SUBSET Device /\ devCopy' \in [Procs -> SUBSET Device]
    BY <1>h, <2>11 DEF WorkOK
  <2>13. Issued'
    BY <2>2, <2>6, <2>8, <2>9, <2>11, SMT DEF WorkOK, Issued, OpOK, Procs
  <2> QED
    BY <2>2, <2>7, <2>9, <2>10, <2>11, <2>12, <2>13 DEF WorkOK
<1>10. ASSUME NEW c \in Codes, Expire(c) PROVE WorkOK' /\ RestOK'
  BY <1>10 DEF Expire, WorkOK, RestOK, OpOK, Issued, files, work, history
<1>11. ASSUME NEW n \in Nodes, GiveUp(n) PROVE WorkOK' /\ RestOK'
  <2>1. node' \in [Nodes -> NodeState]
    BY <1>11, PcSet DEF GiveUp, Gone, Pcs, RestOK
  <2> QED
    BY <1>11, <2>1 DEF GiveUp, WorkOK, RestOK, OpOK, Issued, files, work, history
<1>12. ASSUME NEW t, Verified(t) PROVE t \in DOMAIN minted /\ t \in Nat \ {0}
  BY <1>12, SMT DEF Verified, Active, WorkOK, RestOK, Issued, Device
<1>13. ASSUME NEW t, Verified(t), IsIdle("hub"), Touch(t), minted' = minted PROVE WorkOK'
  <2>1. "touch" \in OnDevices
    BY DEF OnDevices
  <2>2. \A d \in devices : d.tok \in DOMAIN minted
    BY DEF WorkOK, Issued
  <2> QED
    BY <1>h, <1>12, <1>13, <2>1, <2>2, DevicesRead DEF Touch, WorkOK
<1>14. CASE TouchWrite
  BY <1>h, <1>14, Finished DEF TouchWrite, WriteDevices, history, WorkOK, RestOK
<1>15. ASSUME NEW n \in Nodes, Served(n) PROVE WorkOK' /\ RestOK'
  BY <1>12, <1>13, <1>15 DEF Served, RestOK, history
<1>16. ASSUME NEW n \in Nodes, ConnectRefused(n) PROVE WorkOK' /\ RestOK'
  <2>1. node' \in [Nodes -> NodeState]
    BY <1>16, FatalSet DEF ConnectRefused, RestOK
  <2> QED
    BY <1>16, <2>1 DEF ConnectRefused, WorkOK, RestOK, OpOK, Issued, files, work, history
<1>19. ASSUME NEW p \in Procs, NEW d \in devices, RevokeRead(p, d) PROVE WorkOK' /\ RestOK'
  <2> DEFINE copy == (devices \ {d}) \cup {[d EXCEPT !.revoked = TRUE]}
  <2>1. d \in Device /\ d.tok \in DOMAIN minted
    BY DEF WorkOK, Issued
  <2>2. [d EXCEPT !.revoked = TRUE] \in Device /\ [d EXCEPT !.revoked = TRUE].tok = d.tok
    BY <2>1, Zenon DEF Device
  <2>3. copy \in SUBSET Device /\ \A e \in copy : e.tok \in DOMAIN minted
    BY <2>1, <2>2 DEF WorkOK, Issued
  <2>4. /\ ReadDevices(p, "revoke", NoCode, d.tok, copy)
        /\ UNCHANGED <<expired, node, history>>
    BY <1>19 DEF RevokeRead
  <2>5. d.tok \in Nat \ {0} /\ "revoke" \in OnDevices
    BY <2>1 DEF Device, OnDevices
  <2>6. WorkOK'
    <3> HIDE DEF copy
    <3> QED
      BY <2>3, <2>4, <2>5, DevicesRead DEF history
  <2>7. commands' \in Nat
    BY <1>19, SMT DEF RevokeRead, Command, RestOK
  <2> QED
    BY <2>4, <2>6, <2>7 DEF RestOK, history
<1>20. ASSUME NEW p \in Procs, RevokeWrite(p) PROVE WorkOK' /\ RestOK'
  <2>1. op[p].tok \in Nat \ {0}
    BY <1>20, SMT DEF RevokeWrite, WorkOK, OpOK, Op
  <2>2. WorkOK'
    BY <1>20, Finished DEF RevokeWrite, WriteDevices, WorkOK
  <2> QED
    BY <1>20, <2>1, <2>2 DEF RevokeWrite, RestOK
<1>21. ASSUME NEW p \in Procs, Crash(p) PROVE WorkOK' /\ RestOK'
  <2>1. reqCopy' \in [Procs -> [Codes -> Request]]
    BY <1>21, AbsentIsRequest DEF Crash, WorkOK
  <2>2. WorkOK'
    BY <1>21, <2>1, Finished DEF Crash, files, history, WorkOK
  <2>3. node' \in [Nodes -> NodeState]
    BY <1>21, PcSet DEF Crash, Gone, Pcs, RestOK
  <2> QED
    BY <1>21, <2>2, <2>3 DEF Crash, RestOK, history
<1>22. CASE UNCHANGED vars
  BY <1>22 DEF vars, WorkOK, RestOK, OpOK, Issued, files, work, history
<1>23. CASE HubWrite
  BY <1>h, <1>2, <1>4, <1>7, <1>8, <1>9, <1>14, <1>20, <1>23 DEF HubWrite
<1>24. CASE DecideWrite("cli") \/ RevokeWrite("cli")
  BY <1>4, <1>20, <1>24, "cli" \in Procs DEF Procs
<1>25. ASSUME NEW n \in Nodes,
              \/ StartRead(n) \/ PollRefused(n) \/ GiveUp(n)
              \/ Served(n) \/ ConnectRefused(n)
              \/ \E kind \in Kinds : PollRead(n, kind)
       PROVE  WorkOK' /\ RestOK'
  BY <1>1, <1>5, <1>6, <1>11, <1>15, <1>16, <1>25
<1>26. ASSUME NEW p \in Procs,
              \/ Crash(p)
              \/ \E c \in Codes, kind \in {"approve", "deny"} : DecideRead(p, c, kind)
              \/ \E d \in devices : RevokeRead(p, d)
       PROVE  WorkOK' /\ RestOK'
  BY <1>3, <1>19, <1>21, <1>26
<1> QED
  BY <1>10, <1>22, <1>23, <1>24, <1>25, <1>26 DEF Next

\* Every variable keeps its shape, in every behaviour.
THEOREM TypeCorrect == Spec => []TypeOK
<1>1. Spec => []TypeInv
  BY TypeInit, TypeStep, PTL DEF Spec
<1>2. TypeInv => TypeOK
  BY DEF TypeInv
<1> QED
  BY <1>1, <1>2, PTL
-----------------------------------------------------------------------------
(* No two active devices with one id. *)

\* A registry whose active devices all have their counterpart in one with unique ids.
LEMMA NarrowerUnique ==
    ASSUME NEW reg, NEW narrower, IdsUnique(reg), Active(narrower) \subseteq Active(reg)
    PROVE  IdsUnique(narrower)
BY DEF IdsUnique

LEMMA FreeIdUnique ==
    ASSUME NEW reg, NEW new, IdsUnique(reg), new.id \notin ActiveIds(reg)
    PROVE  IdsUnique(reg \cup {new})
BY DEF IdsUnique, Active, ActiveIds

LEMMA UniqueStep == TypeInv /\ ActiveIdsUnique /\ [Next]_vars => ActiveIdsUnique'
<1> SUFFICES ASSUME TypeInv, ActiveIdsUnique, [Next]_vars PROVE ActiveIdsUnique'
  OBVIOUS
<1>t. devices \in SUBSET Device /\ devCopy \in [Procs -> SUBSET Device] /\ "hub" \in Procs
  BY DEF TypeInv, TypeOK, Procs
<1>u. IdsUnique({})
  BY DEF IdsUnique, Active
<1>1. ASSUME UNCHANGED <<devices, devCopy>> PROVE ActiveIdsUnique'
  BY <1>1 DEF ActiveIdsUnique, IdsUnique, Active
<1>2. ASSUME NEW p \in Procs, NEW copy, IdsUnique(copy), devices' = devices,
             devCopy' = [devCopy EXCEPT ![p] = copy]
      PROVE  ActiveIdsUnique'
  BY <1>t, <1>2 DEF ActiveIdsUnique, IdsUnique, Active
<1>3. ASSUME NEW p \in Procs, WriteDevices(p) PROVE ActiveIdsUnique'
  <2>1. devices' = devCopy[p] /\ devCopy' = [devCopy EXCEPT ![p] = {}]
    BY <1>3 DEF WriteDevices
  <2> QED
    BY <1>t, <1>u, <2>1 DEF ActiveIdsUnique, IdsUnique, Active
<1>4. ASSUME NEW t, Touch(t) PROVE ActiveIdsUnique'
  BY <1>t, <1>2, <1>4 DEF Touch, ReadDevices, ActiveIdsUnique
<1>5. ASSUME NEW p \in Procs, WriteRequests(p) PROVE ActiveIdsUnique'
  BY <1>1, <1>5 DEF WriteRequests
<1>6. CASE HubWrite
  <2>1. CASE EnrollRead
    <3>1. PICK k \in 1..(Cardinality(devices) + 1) :
             /\ FirstFree(devices, HostOf[op["hub"].code[1]], k)
             /\ ReadDevices("hub", "enroll", op["hub"].code, Len(minted) + 1,
                  devices \cup {[id |-> Suffixed(HostOf[op["hub"].code[1]], k), tok |-> Len(minted) + 1,
                                 revoked |-> FALSE]})
      BY <2>1 DEF EnrollRead
    <3> DEFINE d == [id |-> Suffixed(HostOf[op["hub"].code[1]], k), tok |-> Len(minted) + 1,
                     revoked |-> FALSE]
    <3>2. d.id \notin ActiveIds(devices)
      BY <3>1 DEF FirstFree
    <3>3. /\ devices' = devices
          /\ devCopy' = [devCopy EXCEPT !["hub"] = devices \cup {d}]
      BY <3>1 DEF ReadDevices
    <3>4. IdsUnique(devices \cup {d})
      <4> HIDE DEF d
      <4> QED
        BY <3>2, FreeIdUnique DEF ActiveIdsUnique
    <3> HIDE DEF d
    <3> QED
      BY <1>t, <1>2, <3>3, <3>4
  <2> QED
    BY <1>t, <1>3, <1>5, <1>6, <2>1
       DEF HubWrite, StartWrite, PollWrite, EnrollWrite, TouchWrite, DecideWrite, RevokeWrite
<1>7. CASE DecideWrite("cli") \/ RevokeWrite("cli")
  BY <1>3, <1>5, <1>7, "cli" \in Procs DEF Procs, DecideWrite, RevokeWrite
<1>8. ASSUME NEW n \in Nodes,
             \/ StartRead(n) \/ PollRefused(n) \/ GiveUp(n)
             \/ Served(n) \/ ConnectRefused(n)
             \/ \E kind \in Kinds : PollRead(n, kind)
      PROVE  ActiveIdsUnique'
  BY <1>1, <1>4, <1>8 DEF StartRead, PollRefused, GiveUp, Served, ConnectRefused,
     PollRead, ReadRequests, files, work
<1>9. ASSUME NEW p \in Procs, NEW d \in devices, RevokeRead(p, d) PROVE ActiveIdsUnique'
  <2> DEFINE copy == (devices \ {d}) \cup {[d EXCEPT !.revoked = TRUE]}
  <2>1. devices' = devices /\ devCopy' = [devCopy EXCEPT ![p] = copy]
    BY <1>9 DEF RevokeRead, ReadDevices
  <2>2. [d EXCEPT !.revoked = TRUE].revoked
    BY <1>t, Zenon DEF Device
  <2>3. Active(copy) \subseteq Active(devices)
    BY <2>2 DEF Active
  <2>4. IdsUnique(copy)
    BY <2>3, NarrowerUnique DEF ActiveIdsUnique
  <2> HIDE DEF copy
  <2> QED
    BY <1>2, <2>1, <2>4
<1>10. ASSUME NEW p \in Procs, Crash(p) PROVE ActiveIdsUnique'
  BY <1>2, <1>10, <1>u DEF Crash, files
<1>11. ASSUME NEW p \in Procs, NEW c \in Codes, NEW kind \in {"approve", "deny"},
              DecideRead(p, c, kind)
       PROVE  ActiveIdsUnique'
  BY <1>1, <1>11 DEF DecideRead, ReadRequests
<1>12. ASSUME NEW c \in Codes, Expire(c) PROVE ActiveIdsUnique'
  BY <1>1, <1>12 DEF Expire, files, work
<1>14. CASE UNCHANGED vars
  BY <1>1, <1>14 DEF vars, files, work
<1> QED
  BY <1>6, <1>7, <1>8, <1>9, <1>10, <1>11, <1>12, <1>14 DEF Next

\* However enrolments and revocations of the two processes interleave, no id ever
\* stands for two active devices (enroll, revoke, touch).
THEOREM IdsNeverShared == Spec => []ActiveIdsUnique
<1>1. Init => ActiveIdsUnique
  BY DEF Init, ActiveIdsUnique, IdsUnique, Active
<1> QED
  BY <1>1, TypeInit, TypeStep, UniqueStep, PTL DEF Spec

-----------------------------------------------------------------------------
(* No credential without an approval. *)

\* Whatever is approved in the file, in a copy of it or by a poll, an operator
\* approved; but for the request that an operator is just approving.
Backed ==
    /\ \A c \in Codes : requests[c].status = "approved" => c \in approved
    /\ \A p \in Procs, c \in Codes : reqCopy[p][c].status = "approved" =>
          c \in approved \/ (op[p].kind = "approve" /\ op[p].code = c)
    /\ op["hub"].kind \in {"pollRedeem", "admit", "enroll"} => op["hub"].code \in approved

BackedInv == TypeInv /\ Backed /\ AdmittedWasApproved

LEMMA BackedStep == BackedInv /\ [Next]_vars => Backed' /\ AdmittedWasApproved'
<1> SUFFICES ASSUME BackedInv, [Next]_vars PROVE Backed' /\ AdmittedWasApproved'
  OBVIOUS
<1> USE DEF BackedInv
<1>t. /\ requests \in [Codes -> Request] /\ reqCopy \in [Procs -> [Codes -> Request]]
      /\ op \in [Procs -> Op] /\ minted \in Seq([code : Codes, id : DeviceIds])
      /\ "hub" \in Procs /\ "cli" \in Procs
  BY DEF TypeInv, TypeOK, Procs
<1>0. ASSUME UNCHANGED <<requests, reqCopy, op, minted, approved>>
      PROVE  Backed' /\ AdmittedWasApproved'
  BY <1>0 DEF Backed, AdmittedWasApproved
<1>1. ASSUME NEW p \in Procs, NEW kind, NEW c \in Codes, NEW copy \in [Codes -> Request],
             ReadRequests(p, kind, c, copy), UNCHANGED <<minted, approved>>,
             \A b \in Codes : copy[b].status = "approved" =>
                b \in approved \/ (kind = "approve" /\ b = c),
             p = "hub" /\ kind \in {"pollRedeem", "admit", "enroll"} => c \in approved
      PROVE  Backed' /\ AdmittedWasApproved'
  <2>1. /\ op' = [op EXCEPT ![p] = [kind |-> kind, code |-> c, tok |-> 0]]
        /\ reqCopy' = [reqCopy EXCEPT ![p] = copy] /\ UNCHANGED requests
    BY <1>1 DEF ReadRequests
  <2>2. Backed'
    BY <1>t, <1>1, <2>1, SMT DEF Backed
  <2> QED
    BY <1>1, <2>2 DEF AdmittedWasApproved
<1>2. ASSUME NEW p \in Procs, NEW kind, NEW c, NEW t, NEW copy,
             ReadDevices(p, kind, c, t, copy), UNCHANGED <<minted, approved>>,
             op[p].kind # "approve" \/ IsIdle(p), kind # "approve",
             p = "hub" /\ kind \in {"pollRedeem", "admit", "enroll"} => c \in approved
      PROVE  Backed' /\ AdmittedWasApproved'
  <2>1. /\ op' = [op EXCEPT ![p] = [kind |-> kind, code |-> c, tok |-> t]]
        /\ UNCHANGED <<requests, reqCopy>> /\ op[p].kind # "approve"
    BY <1>2 DEF ReadDevices, IsIdle
  <2>2. Backed'
    BY <1>t, <1>2, <2>1, SMT DEF Backed
  <2> QED
    BY <1>2, <2>2 DEF AdmittedWasApproved
\* What p wrote was backed, if p has now told so whatever it was to approve.
<1>3. ASSUME NEW p \in Procs, WriteRequests(p), UNCHANGED minted, approved \subseteq approved',
             op[p].kind = "approve" => op[p].code \in approved',
             \A q \in Procs \ {p} : op'[q] = op[q],
             p = "hub" /\ op'[p].kind \in {"pollRedeem", "admit", "enroll"}
               => op'[p].code \in approved
      PROVE  Backed' /\ AdmittedWasApproved'
  <2>1. PICK dead \in SUBSET expired :
           requests' = [c \in Codes |-> IF c \in dead THEN Absent ELSE reqCopy[p][c]]
    BY <1>3 DEF WriteRequests
  <2>2. reqCopy' = [reqCopy EXCEPT ![p] = NoRequests]
    BY <1>3 DEF WriteRequests
  <2>3. Absent.status # "approved" /\ \A c \in Codes : NoRequests[c].status # "approved"
    BY DEF Absent, NoRequests
  <2>4. \A c \in Codes : requests'[c].status = "approved" => c \in approved'
    BY <1>3, <2>1, <2>3 DEF Backed
  <2>5. \A q \in Procs, c \in Codes : reqCopy'[q][c].status = "approved" =>
           c \in approved' \/ (op'[q].kind = "approve" /\ op'[q].code = c)
    BY <1>t, <1>3, <2>2, <2>3 DEF Backed
  <2>6. op'["hub"].kind \in {"pollRedeem", "admit", "enroll"} => op'["hub"].code \in approved'
    BY <1>t, <1>3 DEF Backed
  <2> QED
    BY <1>3, <2>4, <2>5, <2>6 DEF Backed, AdmittedWasApproved
<1>4. ASSUME NEW p \in Procs, Done(p), op[p].kind # "approve" \/ reqCopy' = [reqCopy EXCEPT ![p] = NoRequests],
             reqCopy' = reqCopy \/ reqCopy' = [reqCopy EXCEPT ![p] = NoRequests],
             UNCHANGED <<requests, minted, approved>>
      PROVE  Backed' /\ AdmittedWasApproved'
  <2>1. \A c \in Codes : NoRequests[c].status # "approved"
    BY DEF Absent, NoRequests
  <2>2. op' = [op EXCEPT ![p] = Idle] /\ Idle.kind = "idle"
    BY <1>4 DEF Done, Idle
  <2>3. Backed'
    BY <1>t, <1>4, <2>1, <2>2 DEF Backed
  <2> QED
    BY <1>4, <2>3 DEF AdmittedWasApproved
<1>5. CASE StartWrite
  <2>1. WriteRequests("hub") /\ op' = [op EXCEPT !["hub"] = Idle] /\ Idle.kind = "idle"
    BY <1>5 DEF StartWrite, Done, Idle
  <2> QED
    BY <1>t, <1>3, <1>5, <2>1 DEF StartWrite, history
<1>6. CASE PollWrite
  <2>1. /\ WriteRequests("hub") /\ UNCHANGED history /\ op["hub"].kind # "approve"
        /\ \/ op' = [op EXCEPT !["hub"] = Idle]
           \/ op' = [op EXCEPT !["hub"].kind = "admit"] /\ op["hub"].code \in approved
    BY <1>6 DEF PollWrite, Done, Backed
  <2>2. Idle.kind = "idle"
    BY DEF Idle
  <2>3. op'["hub"].kind \in {"pollRedeem", "admit", "enroll"} => op'["hub"].code \in approved
    <3>1. CASE op' = [op EXCEPT !["hub"] = Idle]
      BY <1>t, <2>2, <3>1
    <3>2. CASE op' = [op EXCEPT !["hub"].kind = "admit"] /\ op["hub"].code \in approved
      <4>1. op'["hub"] = [op["hub"] EXCEPT !.kind = "admit"]
        BY <1>t, <3>2
      <4>2. [op["hub"] EXCEPT !.kind = "admit"].code = op["hub"].code
        BY <1>t, SMT DEF Op
      <4> QED
        BY <3>2, <4>1, <4>2
    <3> QED
      BY <2>1, <3>1, <3>2
  <2>4. \A q \in Procs \ {"hub"} : op'[q] = op[q]
    BY <1>t, <2>1
  <2> QED
    BY <1>t, <1>3, <2>1, <2>3, <2>4 DEF history
<1>7. CASE EnrollRead
  BY <1>t, <1>2, <1>7 DEF EnrollRead, Backed, history
<1>8. CASE EnrollWrite
  <2>1. /\ op["hub"].kind = "enroll" /\ op["hub"].code \in approved
        /\ op' = [op EXCEPT !["hub"] = Idle] /\ Idle.kind = "idle"
        /\ UNCHANGED <<requests, reqCopy, approved>>
    BY <1>8 DEF EnrollWrite, Done, Idle, WriteDevices, Backed
  <2>2. Backed'
    BY <1>t, <2>1 DEF Backed
  <2>3. PICK d \in devCopy["hub"] : minted' = Append(minted, [code |-> op["hub"].code, id |-> d.id])
    BY <1>8 DEF EnrollWrite
  <2>4. AdmittedWasApproved'
    <3> DEFINE e == [code |-> op["hub"].code, id |-> d.id]
    <3>1. op["hub"].code \in Codes
      BY <1>t, <2>1 DEF TypeInv, OpOK
    <3>2. d.id \in DeviceIds
      BY <1>t DEF TypeInv, TypeOK, Device
    <3>3. e \in [code : Codes, id : DeviceIds] /\ e.code \in approved
      BY <2>1, <3>1, <3>2
    <3> HIDE DEF e
    <3>4. /\ DOMAIN minted' = 1..(Len(minted) + 1) /\ DOMAIN minted = 1..Len(minted)
          /\ minted'[Len(minted) + 1] = e
          /\ \A t \in 1..Len(minted) : minted'[t] = minted[t]
      BY <1>t, <2>3, <3>3, SMT DEF e
    <3> QED
      BY <1>t, <2>1, <3>3, <3>4, SMT DEF AdmittedWasApproved
  <2> QED
    BY <2>2, <2>4
<1>9. CASE TouchWrite
  BY <1>t, <1>4, <1>9 DEF TouchWrite, WriteDevices, history
<1>10. ASSUME NEW p \in Procs, DecideWrite(p) PROVE Backed' /\ AdmittedWasApproved'
  <2>1. WriteRequests(p) /\ op' = [op EXCEPT ![p] = Idle] /\ Idle.kind = "idle" /\ UNCHANGED minted
    BY <1>10 DEF DecideWrite, Done, Idle
  <2>2. /\ approved \subseteq approved'
        /\ op[p].kind = "approve" => op[p].code \in approved'
    BY <1>10 DEF DecideWrite
  <2> QED
    BY <1>t, <1>3, <2>1, <2>2
<1>11. ASSUME NEW p \in Procs, RevokeWrite(p) PROVE Backed' /\ AdmittedWasApproved'
  BY <1>4, <1>11 DEF RevokeWrite, WriteDevices
<1>12. ASSUME NEW n \in Nodes, StartRead(n) PROVE Backed' /\ AdmittedWasApproved'
  <2> DEFINE c == <<n, node[n].attempt + 1>>
             copy == [requests EXCEPT ![c] = [Absent EXCEPT !.status = "pending"]]
  <2>1. /\ [Absent EXCEPT !.status = "pending"] \in Request
        /\ [Absent EXCEPT !.status = "pending"].status = "pending"
    <3>1. [Absent EXCEPT !.status = "pending"] \in Request
      BY AbsentIsRequest, StatusSet, "pending" \in Statuses DEF Statuses
    <3>2. [Absent EXCEPT !.status = "pending"].status = "pending"
      BY SMT DEF Absent
    <3> QED
      BY <3>1, <3>2
  <2>2. c \in Codes
    BY <1>12, BoundsAssumption, SMT DEF StartRead, TypeInv, TypeOK, Codes
  <2>3. copy \in [Codes -> Request] /\ \A b \in Codes : copy[b].status = "approved" => b \in approved
    BY <1>t, <2>1, <2>2 DEF Backed
  <2>4. ReadRequests("hub", "start", c, copy) /\ UNCHANGED history
    BY <1>12 DEF StartRead
  <2> HIDE DEF copy, c
  <2> QED
    BY <1>t, <1>1, <2>2, <2>3, <2>4 DEF history
<1>13. ASSUME NEW p \in Procs, NEW c \in Codes, NEW kind \in {"approve", "deny"},
              DecideRead(p, c, kind)
       PROVE  Backed' /\ AdmittedWasApproved'
  <2> DEFINE s == IF kind = "approve" THEN "approved" ELSE "denied"
             copy == [requests EXCEPT ![c].status = s]
  <2>1. s \in Statuses /\ (kind # "approve" => s # "approved")
    BY DEF Statuses
  <2>2. [requests[c] EXCEPT !.status = s] \in Request /\ [requests[c] EXCEPT !.status = s].status = s
    <3> HIDE DEF s
    <3> QED
      BY <1>t, <2>1, StatusSet, SMT DEF Request
  <2>3. copy = [requests EXCEPT ![c] = [requests[c] EXCEPT !.status = s]]
    BY Zenon
  <2>4. /\ copy \in [Codes -> Request]
        /\ \A b \in Codes : copy[b].status = "approved" =>
              b \in approved \/ (kind = "approve" /\ b = c)
    <3> HIDE DEF s
    <3> QED
      BY <1>t, <2>1, <2>2, <2>3 DEF Backed
  <2>5. ReadRequests(p, kind, c, copy) /\ UNCHANGED history
    BY <1>13 DEF DecideRead
  <2> HIDE DEF copy
  <2> QED
    BY <1>t, <1>1, <2>4, <2>5 DEF history
<1>14. ASSUME NEW n \in Nodes, NEW kind \in Kinds, PollRead(n, kind)
       PROVE  Backed' /\ AdmittedWasApproved'
  <2> DEFINE c == <<n, node[n].attempt>>
             r == [requests[c] EXCEPT !.polled = TRUE, !.redeemed = (kind = "pollRedeem")]
             copy == [requests EXCEPT ![c] = r]
  <2>1. /\ Pollable(c) /\ kind \in PollKinds(c)
        /\ ReadRequests("hub", kind, c, copy) /\ UNCHANGED history
    BY <1>14 DEF PollRead
  <2>2. c \in Codes
    <3>1. node[n].attempt \in 1..MaxAttempts
      BY <1>14, BoundsAssumption, SMT DEF PollRead, TypeInv, TypeOK, Asked
    <3> QED
      BY <3>1 DEF Codes
  <2>3. r \in Request
    BY <1>t, <2>2, PolledSet
  <2>4. r.status = requests[c].status
    BY <1>t, <2>2, SMT DEF Request
  <2>5. copy \in [Codes -> Request] /\ \A b \in Codes : copy[b].status = "approved" => b \in approved
    <3> HIDE DEF c, r
    <3> QED
      BY <1>t, <2>2, <2>3, <2>4 DEF Backed
  <2>6. kind = "pollRedeem" => requests[c].status = "approved"
    BY <1>t, <2>1, <2>2 DEF PollKinds, Pollable, Request
  <2>7. kind \in {"pollRedeem", "admit", "enroll"} => c \in approved
    BY <2>1, <2>2, <2>6 DEF PollKinds, Backed
  <2> HIDE DEF copy, c
  <2> QED
    BY <1>t, <1>1, <2>1, <2>2, <2>5, <2>7 DEF history
<1>15. ASSUME NEW n \in Nodes, Served(n) PROVE Backed' /\ AdmittedWasApproved'
  BY <1>t, <1>2, <1>15 DEF Served, Touch, history
<1>16. ASSUME NEW n \in Nodes, PollRefused(n) \/ GiveUp(n) \/ ConnectRefused(n)
       PROVE  Backed' /\ AdmittedWasApproved'
  BY <1>0, <1>16 DEF PollRefused, GiveUp, ConnectRefused, files, work, history
<1>17. ASSUME NEW p \in Procs, NEW d \in devices, RevokeRead(p, d)
       PROVE  Backed' /\ AdmittedWasApproved'
  BY <1>2, <1>17 DEF RevokeRead, Command, history
<1>18. ASSUME NEW p \in Procs, Crash(p) PROVE Backed' /\ AdmittedWasApproved'
  BY <1>4, <1>18 DEF Crash, files, history
<1>19. ASSUME NEW c \in Codes, Expire(c) PROVE Backed' /\ AdmittedWasApproved'
  BY <1>0, <1>19 DEF Expire, files, work, history
<1>21. CASE UNCHANGED vars
  BY <1>0, <1>21 DEF vars, files, work, history
<1>22. CASE HubWrite
  BY <1>t, <1>5, <1>6, <1>7, <1>8, <1>9, <1>10, <1>11, <1>22 DEF HubWrite
<1> QED
  BY <1>t, <1>10, <1>11, <1>12, <1>13, <1>14, <1>15, <1>16, <1>17, <1>18, <1>19,
     <1>21, <1>22 DEF Next

\* Whatever is lost, overwritten or cut short by a crash, a credential is issued only
\* for a code that an operator approved (decide, poll, enroll).
THEOREM AdmissionNeedsApproval == Spec => []AdmittedWasApproved
<1>1. Init => Backed /\ AdmittedWasApproved
  BY SMT DEF Init, Backed, AdmittedWasApproved, NoRequests, Absent, Idle, Procs
<1>2. Spec => []BackedInv
  BY <1>1, TypeInit, TypeStep, BackedStep, PTL DEF Spec, BackedInv
<1>3. BackedInv => AdmittedWasApproved
  BY DEF BackedInv
<1> QED
  BY <1>2, <1>3, PTL

-----------------------------------------------------------------------------
(* The two processes apart: until two updates overlap, one at most holds a copy *)
(* of a file, so what it is about to write is the file with one change.         *)

\* At most one process is between the read and the write of such an operation.
Alone(kinds) == \A p, q \in Procs : op[p].kind \in kinds /\ op[q].kind \in kinds => p = q

Apart == overlap \/ (Alone(OnRequests) /\ Alone(OnDevices))

LEMMA ApartStep == TypeInv /\ Apart /\ [Next]_vars => Apart'
<1> SUFFICES ASSUME TypeInv, Apart, [Next]_vars PROVE Apart'
  OBVIOUS
<1>t. op \in [Procs -> Op] /\ "hub" \in Procs /\ "cli" \in Procs /\ overlap \in BOOLEAN
  BY DEF TypeInv, TypeOK, Procs
<1>i. Idle.kind = "idle" /\ "idle" \notin OnRequests \cup OnDevices
        /\ "admit" \notin OnRequests \cup OnDevices
        /\ \A kind \in OnRequests : kind \notin OnDevices
  BY DEF Idle, OnRequests, OnDevices
<1>0. ASSUME UNCHANGED <<op, overlap>> PROVE Apart'
  BY <1>0 DEF Apart, Alone
<1>1. ASSUME NEW p \in Procs, \A q \in Procs \ {p} : op'[q] = op[q], overlap' = overlap,
             op'[p].kind \notin OnRequests \cup OnDevices
      PROVE  Apart'
  BY <1>1 DEF Apart, Alone
<1>2. ASSUME NEW p \in Procs, Done(p), overlap' = overlap PROVE Apart'
  BY <1>t, <1>i, <1>1, <1>2 DEF Done
<1>3. ASSUME NEW p \in Procs, NEW kind \in OnRequests, NEW c, NEW copy,
             ReadRequests(p, kind, c, copy)
      PROVE  Apart'
  <2>1. /\ op'[p].kind = kind /\ kind \notin OnDevices
        /\ \A q \in Procs \ {p} : op'[q] = op[q]
        /\ overlap' = (overlap \/ \E q \in Procs \ {p} : op[q].kind \in OnRequests)
    BY <1>t, <1>i, <1>3 DEF ReadRequests
  <2> QED
    BY <2>1 DEF Apart, Alone
<1>4. ASSUME NEW p \in Procs, NEW kind \in OnDevices, NEW c, NEW t, NEW copy,
             ReadDevices(p, kind, c, t, copy)
      PROVE  Apart'
  <2>1. /\ op'[p].kind = kind /\ kind \notin OnRequests
        /\ \A q \in Procs \ {p} : op'[q] = op[q]
        /\ overlap' = (overlap \/ \E q \in Procs \ {p} : op[q].kind \in OnDevices)
    BY <1>t, <1>i, <1>4 DEF ReadDevices
  <2> QED
    BY <2>1 DEF Apart, Alone
<1>5. CASE PollWrite
  <2>1. CASE op' = [op EXCEPT !["hub"].kind = "admit"]
    BY <1>t, <1>i, <1>1, <1>5, <2>1, SMT DEF PollWrite, Op
  <2> QED
    BY <1>t, <1>2, <1>5, <2>1 DEF PollWrite
<1>6. CASE EnrollRead
  BY <1>t, <1>4, <1>6, "enroll" \in OnDevices DEF EnrollRead, OnDevices
<1>7. CASE HubWrite
  BY <1>t, <1>2, <1>5, <1>6, <1>7
     DEF HubWrite, StartWrite, EnrollWrite, TouchWrite, DecideWrite, RevokeWrite
<1>8. ASSUME NEW p \in Procs, DecideWrite(p) \/ RevokeWrite(p) \/ Crash(p) PROVE Apart'
  BY <1>2, <1>8 DEF DecideWrite, RevokeWrite, Crash
<1>9. ASSUME NEW n \in Nodes, StartRead(n) \/ \E kind \in Kinds : PollRead(n, kind) PROVE Apart'
  <2>1. "start" \in OnRequests
    BY DEF OnRequests
  <2>2. ASSUME NEW kind, PollRead(n, kind) PROVE kind \in OnRequests
    BY <2>2 DEF PollRead, PollKinds, OnRequests
  <2> QED
    BY <1>t, <1>3, <1>9, <2>1, <2>2 DEF StartRead, PollRead
<1>10. ASSUME NEW p \in Procs, NEW c \in Codes, NEW kind \in {"approve", "deny"},
              DecideRead(p, c, kind)
       PROVE  Apart'
  BY <1>3, <1>10, kind \in OnRequests DEF DecideRead, OnRequests
<1>11. ASSUME NEW p \in Procs, NEW d \in devices, RevokeRead(p, d) PROVE Apart'
  BY <1>4, <1>11, "revoke" \in OnDevices DEF RevokeRead, OnDevices
<1>12. ASSUME NEW n \in Nodes, Served(n) PROVE Apart'
  BY <1>t, <1>4, <1>12, "touch" \in OnDevices DEF Served, Touch, OnDevices
<1>13. ASSUME NEW n \in Nodes, PollRefused(n) \/ GiveUp(n) \/ ConnectRefused(n) PROVE Apart'
  BY <1>0, <1>13 DEF PollRefused, GiveUp, ConnectRefused, work
<1>14. ASSUME NEW c \in Codes, Expire(c) PROVE Apart'
  BY <1>0, <1>14 DEF Expire, work
<1>16. CASE UNCHANGED vars
  BY <1>0, <1>16 DEF vars, work
<1> QED
  BY <1>t, <1>7, <1>8, <1>9, <1>10, <1>11, <1>12, <1>13, <1>14, <1>16 DEF Next

LEMMA ApartInit == Init => Apart
BY DEF Init, Apart, Alone, Idle, OnRequests, OnDevices

-----------------------------------------------------------------------------
(* A code yields one credential. *)

\* A code of which nothing can be redeemed any more in this copy of the file.
Spent(file, c) == file[c].redeemed \/ file[c].status = "absent"

MintedFor(c) == \E t \in DOMAIN minted : minted[t].code = c

\* The hub has redeemed c and not enrolled its device yet.
InHand(c) == op["hub"].kind \in {"admit", "enroll"} /\ op["hub"].code = c

\* Why a code mints once: from the write that redeems it on, it is spent in the file and
\* in every copy of the file that a process may write back; a code in hand has minted
\* nothing yet; and only a code its machine has not asked for is ever added as a fresh one.
Redeemed ==
    /\ \A c \in Codes :
          MintedFor(c) \/ InHand(c) \/ (op["hub"].kind = "pollRedeem" /\ op["hub"].code = c)
            => c[2] <= node[c[1]].attempt
    /\ \/ overlap
       \/ /\ \A c \in Codes : MintedFor(c) \/ InHand(c) =>
                /\ Spent(requests, c)
                /\ \A p \in Procs : op[p].kind \in OnRequests => Spent(reqCopy[p], c)
          /\ op["hub"].kind \in {"pollRedeem", "admit", "enroll"} => ~MintedFor(op["hub"].code)
          /\ op["hub"].kind = "pollRedeem" => Spent(reqCopy["hub"], op["hub"].code)

OnceInv == TypeInv /\ Apart /\ Redeemed /\ CodeMintsOnce

LEMMA AnswerKeepsAttempt ==
    ASSUME TypeInv, NEW c \in Codes, NEW a, NEW b,
           a.attempt = node[c[1]].attempt, b.attempt = node[c[1]].attempt, Answer(c, a, b)
    PROVE  \A m \in Nodes : node'[m].attempt = node[m].attempt
<1>1. c[1] \in Nodes
  BY DEF Codes
<1>2. PICK after \in {a, b} :
         node' = IF node[c[1]].pc # "out" /\ node[c[1]].attempt = c[2]
                 THEN [node EXCEPT ![c[1]] = after] ELSE node
  BY DEF Answer
<1> QED
  BY <1>1, <1>2 DEF TypeInv, TypeOK

\* A machine never takes back that it asked for a code.
LEMMA AttemptsGrow ==
    ASSUME TypeInv, [Next]_vars
    PROVE  \A m \in Nodes : node'[m].attempt >= node[m].attempt
<1> USE DEF TypeInv, TypeOK
<1>t. /\ \A m \in Nodes : node[m].attempt \in Nat
      /\ "hub" \in Procs /\ "cli" \in Procs
  BY BoundsAssumption, SMT DEF Procs
<1>g. \A n \in Nodes : Gone(n).attempt = node[n].attempt
  BY SMT DEF Gone
<1>1. ASSUME \A m \in Nodes : node'[m].attempt = node[m].attempt
      PROVE  \A m \in Nodes : node'[m].attempt >= node[m].attempt
  BY <1>t, <1>1, SMT
<1>2. CASE StartWrite
  <2>1. op["hub"].code \in Codes /\ op["hub"].code[1] \in Nodes
    BY <1>t, <1>2 DEF StartWrite, OpOK, OnRequests, Codes
  <2>2. [node[op["hub"].code[1]] EXCEPT !.pc = "waiting"].attempt = node[op["hub"].code[1]].attempt
    BY <2>1, SMT
  <2> QED
    BY <1>g, <1>1, <1>2, <2>1, <2>2, AnswerKeepsAttempt DEF StartWrite
<1>3. CASE PollWrite
  <2>1. op["hub"].code \in Codes /\ op["hub"].code[1] \in Nodes
    BY <1>t, <1>3 DEF PollWrite, OpOK, OnRequests, Codes
  <2> QED
    BY <1>g, <1>1, <1>3, <2>1, AnswerKeepsAttempt DEF PollWrite
<1>4. CASE EnrollWrite
  <2>1. op["hub"].code \in Codes /\ op["hub"].code[1] \in Nodes
    BY <1>t, <1>4 DEF EnrollWrite, OpOK, OnRequests, Codes
  <2>2. [node[op["hub"].code[1]] EXCEPT !.pc = "out", !.cred = op["hub"].tok, !.fatal = FALSE].attempt
          = node[op["hub"].code[1]].attempt
    BY <2>1, SMT
  <2> QED
    BY <1>1, <1>4, <2>1, <2>2, AnswerKeepsAttempt DEF EnrollWrite
<1>5. ASSUME NEW n \in Nodes, StartRead(n) PROVE \A m \in Nodes : node'[m].attempt >= node[m].attempt
  <2> DEFINE r == [node[n] EXCEPT !.attempt = node[n].attempt + 1, !.pc = "asking"]
  <2>1. node' = [node EXCEPT ![n] = r]
    BY <1>5 DEF StartRead
  <2>2. r.attempt = node[n].attempt + 1
    BY SMT
  <2> HIDE DEF r
  <2> QED
    BY <1>t, <2>1, <2>2, SMT
<1>6. ASSUME NEW n \in Nodes, PollRefused(n) \/ GiveUp(n) \/ ConnectRefused(n)
      PROVE  \A m \in Nodes : node'[m].attempt = node[m].attempt
  <2>1. PICK r \in {node[n], Gone(n), [node[n] EXCEPT !.fatal = TRUE]} :
           node' = [node EXCEPT ![n] = r] \/ node' = node
    BY <1>6, Zenon DEF PollRefused, Answer, GiveUp, ConnectRefused
  <2>2. r.attempt = node[n].attempt
    BY <1>g, <2>1, SMT
  <2> QED
    BY <2>1, <2>2
<1>7. ASSUME NEW p \in Procs, Crash(p) PROVE \A m \in Nodes : node'[m].attempt = node[m].attempt
  BY <1>g, <1>7 DEF Crash
<1>8. CASE HubWrite
  BY <1>1, <1>2, <1>3, <1>4, <1>8
     DEF HubWrite, EnrollRead, TouchWrite, DecideWrite, RevokeWrite
<1>9. CASE node' = node
  BY <1>1, <1>9
<1> QED
  BY <1>t, <1>1, <1>5, <1>6, <1>7, <1>8, <1>9
     DEF Next, vars, DecideWrite, RevokeWrite, Served, PollRead, Expire, DecideRead,
         RevokeRead

LEMMA RedeemedStep == OnceInv /\ [Next]_vars => Redeemed' /\ CodeMintsOnce'
<1> SUFFICES ASSUME OnceInv, [Next]_vars PROVE Redeemed' /\ CodeMintsOnce'
  OBVIOUS
<1> USE DEF OnceInv
<1>t. /\ requests \in [Codes -> Request] /\ reqCopy \in [Procs -> [Codes -> Request]]
      /\ op \in [Procs -> Op] /\ minted \in Seq([code : Codes, id : DeviceIds])
      /\ \A m \in Nodes : node[m].attempt \in Nat
      /\ \A c \in Codes : c[1] \in Nodes /\ c[2] \in Nat
      /\ "hub" \in Procs /\ "cli" \in Procs
  BY BoundsAssumption, SMT DEF TypeInv, TypeOK, Procs, Codes
<1>g. \A m \in Nodes : node'[m].attempt \in Nat /\ node'[m].attempt >= node[m].attempt
  <2>1. TypeInv'
    BY TypeStep
  <2> QED
    BY <2>1, BoundsAssumption, AttemptsGrow, SMT DEF TypeInv, TypeOK
<1>i. Idle.kind = "idle" /\ \A c \in Codes : Spent(NoRequests, c)
  BY DEF Idle, Spent, NoRequests, Absent
\* Codes already asked for stay so.
<1>a. ASSUME NEW c \in Codes, c[2] <= node[c[1]].attempt PROVE c[2] <= node'[c[1]].attempt
  BY <1>t, <1>g, <1>a, SMT
<1>0. ASSUME UNCHANGED <<requests, reqCopy, op, minted, overlap>>
      PROVE  Redeemed' /\ CodeMintsOnce'
  <2>1. \A c \in Codes : (MintedFor(c)' <=> MintedFor(c)) /\ (InHand(c)' <=> InHand(c))
    BY <1>0 DEF MintedFor, InHand
  <2>2. Redeemed'
    BY <1>0, <1>a, <2>1 DEF Redeemed, Spent, MintedFor
  <2> QED
    BY <1>0, <2>2 DEF CodeMintsOnce
\* p reads the requests.
<1>1. ASSUME NEW p \in Procs, IsIdle(p), NEW kind \in OnRequests, NEW c \in Codes,
             NEW copy \in [Codes -> Request], ReadRequests(p, kind, c, copy), UNCHANGED minted,
             \A b \in Codes : MintedFor(b) /\ Spent(requests, b) => Spent(copy, b),
             \A b \in Codes : InHand(b) /\ Spent(requests, b) => Spent(copy, b),
             p = "hub" /\ kind = "pollRedeem" =>
                /\ Spent(copy, c) /\ c[2] <= node[c[1]].attempt
                /\ ~Spent(requests, c)
      PROVE  Redeemed' /\ CodeMintsOnce'
  <2>1. /\ op'[p].kind = kind /\ op'[p].code = c /\ reqCopy'[p] = copy
        /\ \A q \in Procs \ {p} : op'[q] = op[q] /\ reqCopy'[q] = reqCopy[q]
        /\ overlap => overlap'
        /\ requests' = requests
    BY <1>t, <1>1 DEF ReadRequests
  <2>2. kind \notin {"admit", "enroll"}
    BY DEF OnRequests
  <2>3. \A b \in Codes : (MintedFor(b)' <=> MintedFor(b)) /\ (InHand(b)' => InHand(b))
    BY <1>t, <1>1, <2>1, <2>2 DEF MintedFor, InHand
  <2>4. Redeemed'
    <3>1. \A b \in Codes :
            MintedFor(b)' \/ InHand(b)' \/ (op'["hub"].kind = "pollRedeem" /\ op'["hub"].code = b)
              => b[2] <= node'[b[1]].attempt
      BY <1>t, <1>a, <1>1, <2>1, <2>3 DEF Redeemed
    <3>2. ASSUME ~overlap
          PROVE  \A b \in Codes : MintedFor(b)' \/ InHand(b)' =>
                    /\ Spent(requests', b)
                    /\ \A q \in Procs : op'[q].kind \in OnRequests => Spent(reqCopy'[q], b)
      BY <1>1, <2>1, <2>3, <3>2 DEF Redeemed, Spent
    <3>3. ASSUME ~overlap
          PROVE  (op["hub"].kind \in {"pollRedeem", "admit", "enroll"} => ~MintedFor(op["hub"].code))'
      <4>1. CASE p = "hub"
        BY <1>t, <1>1, <2>1, <2>2, <2>3, <3>3, <4>1 DEF Redeemed
      <4>2. CASE p # "hub"
        <5>1. op'["hub"] = op["hub"]
          BY <1>t, <2>1, <4>2
        <5> QED
          BY <1>1, <5>1, <3>3 DEF Redeemed, MintedFor
      <4> QED
        BY <4>1, <4>2
    <3>4. ASSUME ~overlap
          PROVE  op'["hub"].kind = "pollRedeem" => Spent(reqCopy'["hub"], op'["hub"].code)
      BY <1>t, <1>1, <2>1, <3>4 DEF Redeemed
    <3> QED
      BY <2>1, <3>1, <3>2, <3>3, <3>4 DEF Redeemed, Spent
  <2> QED
    BY <1>1, <2>1, <2>4 DEF CodeMintsOnce
\* p replaces the request file.
<1>2. ASSUME NEW p \in Procs, op[p].kind \in OnRequests, WriteRequests(p), UNCHANGED <<minted, overlap>>,
             \A q \in Procs \ {p} : op'[q] = op[q],
             \/ op'[p].kind = "idle"
             \/ /\ p = "hub" /\ op["hub"].kind = "pollRedeem"
                /\ op'["hub"].kind = "admit" /\ op'["hub"].code = op["hub"].code
      PROVE  Redeemed' /\ CodeMintsOnce'
  <2>1. PICK dead \in SUBSET expired :
           requests' = [c \in Codes |-> IF c \in dead THEN Absent ELSE reqCopy[p][c]]
    BY <1>2 DEF WriteRequests
  <2>2. \A c \in Codes : Spent(reqCopy[p], c) => Spent(requests', c)
    BY <2>1 DEF Spent, Absent
  <2>3. /\ \A q \in Procs \ {p} : reqCopy'[q] = reqCopy[q]
        /\ "idle" \notin OnRequests /\ "admit" \notin OnRequests
    BY <1>t, <1>2 DEF WriteRequests, OnRequests
  <2>4. \A c \in Codes : MintedFor(c)' <=> MintedFor(c)
    BY <1>2 DEF MintedFor
  <2>5. \A c \in Codes : InHand(c)' =>
           InHand(c) \/ (p = "hub" /\ op["hub"].kind = "pollRedeem" /\ op["hub"].code = c)
    BY <1>t, <1>2 DEF InHand
  <2>6. \A c \in Codes :
          MintedFor(c)' \/ InHand(c)' \/ (op'["hub"].kind = "pollRedeem" /\ op'["hub"].code = c)
            => c[2] <= node'[c[1]].attempt
    BY <1>t, <1>a, <1>2, <2>4, <2>5 DEF Redeemed
  <2>7. ASSUME ~overlap, NEW c \in Codes, MintedFor(c)' \/ InHand(c)'
        PROVE  /\ Spent(requests', c)
               /\ \A q \in Procs : op'[q].kind \in OnRequests => Spent(reqCopy'[q], c)
    <3>1. \A q \in Procs : op'[q].kind \notin OnRequests
      BY <1>2, <2>3, <2>7 DEF Apart, Alone
    <3>2. Spent(reqCopy[p], c)
      BY <1>t, <1>2, <2>4, <2>5, <2>7 DEF Redeemed
    <3> QED
      BY <2>2, <3>1, <3>2
  <2>8. ASSUME ~overlap
        PROVE  (op["hub"].kind \in {"pollRedeem", "admit", "enroll"} => ~MintedFor(op["hub"].code))'
    <3>1. CASE op'["hub"] = op["hub"]
      BY <1>2, <2>8, <3>1 DEF Redeemed, MintedFor
    <3>2. CASE p = "hub"
      BY <1>2, <2>8, <3>2 DEF Redeemed, MintedFor
    <3> QED
      BY <1>t, <1>2, <3>1, <3>2
  <2>9. ASSUME ~overlap
        PROVE  op'["hub"].kind = "pollRedeem" => Spent(reqCopy'["hub"], op'["hub"].code)
    BY <1>t, <1>2, <2>3, <2>9 DEF Redeemed
  <2>10. Redeemed'
    BY <1>2, <2>6, <2>7, <2>8, <2>9 DEF Redeemed, Spent
  <2> QED
    BY <1>2, <2>10 DEF CodeMintsOnce
\* p gives up its copy, or is done with the other file.
<1>3. ASSUME NEW p \in Procs, Done(p), UNCHANGED <<requests, minted, overlap>>,
             reqCopy' = reqCopy \/ reqCopy' = [reqCopy EXCEPT ![p] = NoRequests]
      PROVE  Redeemed' /\ CodeMintsOnce'
  <2>1. /\ op'[p].kind = "idle" /\ "idle" \notin OnRequests
        /\ \A q \in Procs \ {p} : op'[q] = op[q] /\ reqCopy'[q] = reqCopy[q]
    BY <1>t, <1>i, <1>3 DEF Done, OnRequests
  <2>2. \A c \in Codes : (MintedFor(c)' <=> MintedFor(c)) /\ (InHand(c)' => InHand(c))
    BY <1>t, <1>3, <2>1 DEF MintedFor, InHand
  <2>3. \A c \in Codes :
          MintedFor(c)' \/ InHand(c)' \/ (op'["hub"].kind = "pollRedeem" /\ op'["hub"].code = c)
            => c[2] <= node'[c[1]].attempt
    BY <1>t, <1>a, <2>1, <2>2 DEF Redeemed
  <2>4. ASSUME ~overlap, NEW c \in Codes, MintedFor(c)' \/ InHand(c)'
        PROVE  /\ Spent(requests', c)
               /\ \A q \in Procs : op'[q].kind \in OnRequests => Spent(reqCopy'[q], c)
    BY <1>3, <2>1, <2>2, <2>4 DEF Redeemed, Spent
  <2>5. ASSUME ~overlap
        PROVE  (op["hub"].kind \in {"pollRedeem", "admit", "enroll"} => ~MintedFor(op["hub"].code))'
    <3>1. CASE op'["hub"] = op["hub"]
      BY <1>3, <2>5, <3>1 DEF Redeemed, MintedFor
    <3> QED
      BY <1>t, <2>1, <3>1
  <2>6. ASSUME ~overlap
        PROVE  op'["hub"].kind = "pollRedeem" => Spent(reqCopy'["hub"], op'["hub"].code)
    BY <1>t, <2>1, <2>6 DEF Redeemed
  <2>7. Redeemed'
    BY <1>3, <2>3, <2>4, <2>5, <2>6 DEF Redeemed, Spent
  <2> QED
    BY <1>3, <2>7 DEF CodeMintsOnce
\* p reads the devices: as an operation of its own, or to enroll the code in hand.
<1>4. ASSUME NEW p \in Procs, NEW kind \in OnDevices, NEW c, NEW t, NEW copy,
             ReadDevices(p, kind, c, t, copy), UNCHANGED minted,
             \/ kind # "enroll"
             \/ p = "hub" /\ op["hub"].kind = "admit" /\ op["hub"].code = c
      PROVE  Redeemed' /\ CodeMintsOnce'
  <2>1. /\ op'[p].kind = kind /\ op'[p].code = c
        /\ \A q \in Procs \ {p} : op'[q] = op[q]
        /\ overlap => overlap'
        /\ UNCHANGED <<requests, reqCopy>>
        /\ kind \notin OnRequests /\ kind \notin {"pollRedeem", "admit"}
    BY <1>t, <1>4 DEF ReadDevices, OnRequests, OnDevices
  <2>2. \A b \in Codes : (MintedFor(b)' <=> MintedFor(b)) /\ (InHand(b)' => InHand(b))
    BY <1>t, <1>4, <2>1 DEF MintedFor, InHand
  <2>3. \A b \in Codes :
          MintedFor(b)' \/ InHand(b)' \/ (op'["hub"].kind = "pollRedeem" /\ op'["hub"].code = b)
            => b[2] <= node'[b[1]].attempt
    BY <1>t, <1>a, <2>1, <2>2 DEF Redeemed
  <2>4. ASSUME ~overlap, NEW b \in Codes, MintedFor(b)' \/ InHand(b)'
        PROVE  /\ Spent(requests', b)
               /\ \A q \in Procs : op'[q].kind \in OnRequests => Spent(reqCopy'[q], b)
    BY <2>1, <2>2, <2>4 DEF Redeemed, Spent
  <2>5. ASSUME ~overlap
        PROVE  (op["hub"].kind \in {"pollRedeem", "admit", "enroll"} => ~MintedFor(op["hub"].code))'
    <3>1. CASE op'["hub"] = op["hub"]
      BY <1>4, <2>5, <3>1 DEF Redeemed, MintedFor
    <3>2. CASE p = "hub"
      BY <1>4, <2>1, <2>5, <3>2 DEF Redeemed, MintedFor
    <3> QED
      BY <1>t, <2>1, <3>1, <3>2
  <2>6. ASSUME ~overlap
        PROVE  op'["hub"].kind = "pollRedeem" => Spent(reqCopy'["hub"], op'["hub"].code)
    BY <1>t, <2>1, <2>6 DEF Redeemed
  <2>7. Redeemed'
    BY <2>1, <2>3, <2>4, <2>5, <2>6 DEF Redeemed, Spent
  <2> QED
    BY <1>4, <2>1, <2>7 DEF CodeMintsOnce
<1>5. CASE EnrollWrite
  <2> DEFINE c == op["hub"].code
  <2>1. /\ op["hub"].kind = "enroll" /\ c \in Codes /\ op'["hub"].kind = "idle"
        /\ \A q \in Procs \ {"hub"} : op'[q] = op[q]
        /\ UNCHANGED <<requests, reqCopy, overlap>>
    BY <1>t, <1>i, <1>5 DEF EnrollWrite, Done, WriteDevices, TypeInv, OpOK
  <2>2. PICK d \in devCopy["hub"] : minted' = Append(minted, [code |-> c, id |-> d.id])
    BY <1>5 DEF EnrollWrite
  <2>3. /\ DOMAIN minted' = DOMAIN minted \cup {Len(minted) + 1}
        /\ Len(minted) + 1 \notin DOMAIN minted
        /\ minted'[Len(minted) + 1].code = c
        /\ \A t \in DOMAIN minted : minted'[t] = minted[t]
    <3> DEFINE e == [code |-> c, id |-> d.id]
    <3>1. e \in [code : Codes, id : DeviceIds] /\ e.code = c
      <4>1. d.id \in DeviceIds
        BY <1>t DEF TypeInv, TypeOK, Device
      <4> QED
        BY <2>1, <4>1
    <3> HIDE DEF e
    <3> QED
      BY <1>t, <2>2, <3>1, SMT DEF e
  <2> HIDE DEF c
  <2>4. \A b \in Codes : (MintedFor(b)' => MintedFor(b) \/ InHand(b)) /\ ~InHand(b)'
    BY <2>1, <2>3 DEF MintedFor, InHand, c
  <2>5. \A b \in Codes :
          MintedFor(b)' \/ InHand(b)' \/ (op'["hub"].kind = "pollRedeem" /\ op'["hub"].code = b)
            => b[2] <= node'[b[1]].attempt
    BY <1>t, <1>a, <2>1, <2>4 DEF Redeemed
  <2>6. ASSUME ~overlap, NEW b \in Codes, MintedFor(b)' \/ InHand(b)'
        PROVE  /\ Spent(requests', b)
               /\ \A q \in Procs : op'[q].kind \in OnRequests => Spent(reqCopy'[q], b)
    BY <2>1, <2>4, <2>6, "idle" \notin OnRequests DEF Redeemed, Spent, OnRequests
  <2>7. Redeemed'
    BY <2>1, <2>5, <2>6 DEF Redeemed, Spent
  <2>8. CodeMintsOnce'
    <3>1. overlap \/ ~MintedFor(c)
      BY <2>1 DEF Redeemed, c
    <3> QED
      BY <2>1, <2>3, <3>1 DEF CodeMintsOnce, MintedFor
  <2> QED
    BY <2>7, <2>8
<1>6. CASE StartWrite
  BY <1>t, <1>i, <1>2, <1>6 DEF StartWrite, Done, OnRequests, history
<1>7. CASE PollWrite
  <2>1. op["hub"].kind \in OnRequests /\ WriteRequests("hub") /\ UNCHANGED <<minted, overlap>>
    BY <1>7 DEF PollWrite, OnRequests, history
  <2>2. CASE Done("hub")
    BY <1>t, <1>i, <1>2, <2>1, <2>2 DEF Done
  <2>3. CASE op["hub"].kind = "pollRedeem" /\ op' = [op EXCEPT !["hub"].kind = "admit"]
    <3>1. /\ op'["hub"].kind = "admit" /\ op'["hub"].code = op["hub"].code
          /\ \A q \in Procs \ {"hub"} : op'[q] = op[q]
      BY <1>t, <2>3, SMT DEF Op
    <3> QED
      BY <1>t, <1>2, <2>1, <2>3, <3>1
  <2> QED
    BY <1>7, <2>2, <2>3 DEF PollWrite
<1>8. CASE EnrollRead
  BY <1>t, <1>4, <1>8, "enroll" \in OnDevices DEF EnrollRead, OnDevices, history
<1>9. ASSUME NEW p \in Procs, DecideWrite(p) PROVE Redeemed' /\ CodeMintsOnce'
  <2>1. op[p].kind \in OnRequests
    BY <1>9 DEF DecideWrite, OnRequests
  <2> QED
    BY <1>t, <1>i, <1>2, <1>9, <2>1 DEF DecideWrite, Done
<1>10. ASSUME NEW p \in Procs, RevokeWrite(p) \/ Crash(p) PROVE Redeemed' /\ CodeMintsOnce'
  BY <1>3, <1>10 DEF RevokeWrite, Crash, WriteDevices, files, history
<1>11. CASE TouchWrite
  BY <1>t, <1>3, <1>11 DEF TouchWrite, WriteDevices, history
<1>12. ASSUME NEW n \in Nodes, StartRead(n) PROVE Redeemed' /\ CodeMintsOnce'
  <2> DEFINE c == <<n, node[n].attempt + 1>>
             r == [Absent EXCEPT !.status = "pending"]
             copy == [requests EXCEPT ![c] = r]
  <2>1. c \in Codes /\ "start" \in OnRequests /\ c[1] = n /\ c[2] > node[n].attempt
    BY <1>t, <1>12, BoundsAssumption, SMT DEF StartRead, TypeInv, TypeOK, Codes, OnRequests
  <2>2. r \in Request
    BY AbsentIsRequest, StatusSet, "pending" \in Statuses DEF Statuses
  <2>3. /\ copy \in [Codes -> Request]
        /\ \A b \in Codes : b # c /\ Spent(requests, b) => Spent(copy, b)
    <3> HIDE DEF c, r
    <3> QED
      BY <1>t, <2>1, <2>2 DEF Spent
  <2>4. ~MintedFor(c) /\ ~InHand(c)
    <3>1. ~(c[2] <= node[c[1]].attempt)
      BY <1>t, <2>1, SMT
    <3> QED
      BY <2>1, <3>1 DEF Redeemed
  <2>5. IsIdle("hub") /\ ReadRequests("hub", "start", c, copy) /\ UNCHANGED minted
    BY <1>12 DEF StartRead, history
  <2> HIDE DEF c, copy
  <2> QED
    BY <1>t, <1>1, <2>1, <2>3, <2>4, <2>5
<1>13. ASSUME NEW p \in Procs, NEW c \in Codes, NEW kind \in {"approve", "deny"},
              DecideRead(p, c, kind)
       PROVE  Redeemed' /\ CodeMintsOnce'
  <2> DEFINE s == IF kind = "approve" THEN "approved" ELSE "denied"
             r == [requests[c] EXCEPT !.status = s]
             copy == [requests EXCEPT ![c] = r]
  <2>1. r \in Request /\ (requests[c].redeemed => r.redeemed)
    <3>1. s \in Statuses
      BY DEF Statuses
    <3> HIDE DEF s
    <3> QED
      BY <1>t, <3>1, StatusSet, SMT DEF Request
  <2>2. requests[c].status # "absent"
    BY <1>13 DEF DecideRead, Live
  <2>3. /\ copy \in [Codes -> Request]
        /\ \A b \in Codes : Spent(requests, b) => Spent(copy, b)
    <3> HIDE DEF r
    <3> QED
      BY <1>t, <2>1, <2>2 DEF Spent
  <2>4. IsIdle(p) /\ ReadRequests(p, kind, c, copy) /\ UNCHANGED minted
    BY <1>13 DEF DecideRead, Command, history
  <2>5. kind \in OnRequests /\ kind # "pollRedeem"
    BY DEF OnRequests
  <2> HIDE DEF copy
  <2> QED
    BY <1>1, <2>3, <2>4, <2>5
<1>14. ASSUME NEW n \in Nodes, NEW kind \in Kinds, PollRead(n, kind)
       PROVE  Redeemed' /\ CodeMintsOnce'
  <2> DEFINE c == <<n, node[n].attempt>>
             r == [requests[c] EXCEPT !.polled = TRUE, !.redeemed = (kind = "pollRedeem")]
             copy == [requests EXCEPT ![c] = r]
  <2>1. /\ Pollable(c) /\ kind \in PollKinds(c) /\ IsIdle("hub")
        /\ ReadRequests("hub", kind, c, copy) /\ UNCHANGED minted
    BY <1>14 DEF PollRead, history
  <2>2. c \in Codes /\ c[2] <= node[c[1]].attempt
    <3>1. node[n].attempt \in 1..MaxAttempts
      BY <1>14, BoundsAssumption, SMT DEF PollRead, TypeInv, TypeOK, Asked
    <3> QED
      BY <3>1, BoundsAssumption, SMT DEF Codes
  <2>3. r \in Request
    BY <1>t, <2>2, PolledSet
  <2>4. kind = "pollRedeem" => r.redeemed
    <3> DEFINE q == [requests[c] EXCEPT !.polled = TRUE]
    <3>1. q \in Request
      BY <1>t, <2>2, Zenon DEF Request
    <3>2. r = [q EXCEPT !.redeemed = (kind = "pollRedeem")]
      BY SMT
    <3> HIDE DEF q, r
    <3> QED
      BY <3>1, <3>2, Zenon DEF Request
  <2>5. ~Spent(requests, c) /\ kind \in OnRequests
    BY <2>1 DEF Pollable, Spent, PollKinds, OnRequests
  <2>6. /\ copy \in [Codes -> Request]
        /\ \A b \in Codes : Spent(requests, b) => Spent(copy, b)
        /\ kind = "pollRedeem" => Spent(copy, c)
    <3> HIDE DEF c, r
    <3> QED
      BY <1>t, <2>2, <2>3, <2>4, <2>5 DEF Spent
  <2> HIDE DEF copy, c
  <2> QED
    BY <1>t, <1>1, <2>1, <2>2, <2>5, <2>6
<1>15. ASSUME NEW n \in Nodes, Served(n) PROVE Redeemed' /\ CodeMintsOnce'
  BY <1>t, <1>4, <1>15, "touch" \in OnDevices DEF Served, Touch, OnDevices, history
<1>16. ASSUME NEW n \in Nodes, PollRefused(n) \/ GiveUp(n) \/ ConnectRefused(n)
       PROVE  Redeemed' /\ CodeMintsOnce'
  BY <1>0, <1>16 DEF PollRefused, GiveUp, ConnectRefused, files, work, history
<1>17. ASSUME NEW p \in Procs, NEW d \in devices, RevokeRead(p, d) PROVE Redeemed' /\ CodeMintsOnce'
  BY <1>4, <1>17, "revoke" \in OnDevices DEF RevokeRead, OnDevices, history
<1>18. ASSUME NEW c \in Codes, Expire(c) PROVE Redeemed' /\ CodeMintsOnce'
  BY <1>0, <1>18 DEF Expire, files, work, history
<1>20. CASE UNCHANGED vars
  BY <1>0, <1>20 DEF vars, files, work, history
<1>21. CASE HubWrite
  BY <1>t, <1>5, <1>6, <1>7, <1>8, <1>9, <1>10, <1>11, <1>21 DEF HubWrite
<1> QED
  BY <1>t, <1>9, <1>10, <1>12, <1>13, <1>14, <1>15, <1>16, <1>17, <1>18, <1>20,
     <1>21 DEF Next

\* "Approval is consumed exactly once": unless two updates of one file have overlapped, a
\* code yields one credential at most, whatever is lost, resent or cut short (poll, enroll).
THEOREM ApprovalIsSpent == Spec => []CodeMintsOnce
<1>1. Init => Redeemed /\ CodeMintsOnce
  <2> SUFFICES ASSUME Init PROVE Redeemed /\ CodeMintsOnce
    OBVIOUS
  <2>1. op["hub"].kind = "idle" /\ DOMAIN minted = {}
    BY SMT DEF Init, Idle, Procs
  <2>2. \A c : ~MintedFor(c) /\ ~InHand(c)
    BY <2>1 DEF MintedFor, InHand
  <2> QED
    BY <2>1, <2>2 DEF Redeemed, CodeMintsOnce
<1>2. Spec => []OnceInv
  <2>1. Init => OnceInv
    BY <1>1, TypeInit, ApartInit DEF OnceInv
  <2>2. OnceInv /\ [Next]_vars => OnceInv'
    BY TypeStep, ApartStep, RedeemedStep DEF OnceInv
  <2> QED
    BY <2>1, <2>2, PTL DEF Spec
<1>3. OnceInv => CodeMintsOnce
  BY DEF OnceInv
<1> QED
  BY <1>2, <1>3, PTL

-----------------------------------------------------------------------------
(* A credential works until it is revoked. *)

\* The credentials a registry lets in.
Tokens(reg) == {d.tok : d \in Active(reg)}

\* A registry has one record of a credential.
OneRecordEach(reg) == \A d, e \in reg : d.tok = e.tok => d = e

\* What p is about to let in, of what the registry lets in now.
LetIn(p) ==
    CASE op[p].kind = "touch"  -> Tokens(devices)
      [] op[p].kind = "enroll" -> Tokens(devices) \cup {op[p].tok}
      [] op[p].kind = "revoke" -> Tokens(devices) \ {op[p].tok}
      [] OTHER -> {}

\* Why a revocation stays: apart from what is being enrolled or revoked, the registry and
\* every copy of it that a process may write back let in the very credentials that were
\* issued and not ejected.
Kept ==
    /\ ejected \subseteq DOMAIN minted
    /\ \A p \in Procs : op[p].kind = "revoke" => op[p].tok \in DOMAIN minted
    /\ OneRecordEach(devices) /\ \A p \in Procs : OneRecordEach(devCopy[p])
    /\ \/ overlap
       \/ /\ Tokens(devices) = DOMAIN minted \ ejected
          /\ \A p \in Procs : op[p].kind \in OnDevices => Tokens(devCopy[p]) = LetIn(p)

KeptInv == TypeInv /\ Apart /\ Kept

LEMMA TokensIn ==
    ASSUME NEW reg, NEW t
    PROVE  t \in Tokens(reg) <=> \E d \in reg : ~d.revoked /\ d.tok = t
BY DEF Tokens, Active

\* Enrolling lets one more in.
LEMMA EnrollAdds ==
    ASSUME NEW reg, NEW d, ~d.revoked
    PROVE  Tokens(reg \cup {d}) = Tokens(reg) \cup {d.tok}
BY DEF Tokens, Active

\* Revoking shuts one out, and leaves a record of it.
LEMMA RevokeShutsOut ==
    ASSUME NEW reg, OneRecordEach(reg), NEW d \in reg, NEW r, r.revoked, r.tok = d.tok
    PROVE  /\ Tokens((reg \ {d}) \cup {r}) = Tokens(reg) \ {d.tok}
           /\ OneRecordEach((reg \ {d}) \cup {r})
BY DEF Tokens, Active, OneRecordEach

LEMMA KeptStep == KeptInv /\ [Next]_vars => Kept'
<1> SUFFICES ASSUME KeptInv, [Next]_vars PROVE Kept'
  OBVIOUS
<1> USE DEF KeptInv
<1>t. /\ devices \in SUBSET Device /\ devCopy \in [Procs -> SUBSET Device]
      /\ op \in [Procs -> Op] /\ minted \in Seq([code : Codes, id : DeviceIds])
      /\ "hub" \in Procs /\ "cli" \in Procs
  BY DEF TypeInv, TypeOK, Procs
<1>i. Idle.kind = "idle" /\ "idle" \notin OnDevices /\ OneRecordEach({})
  BY DEF Idle, OnDevices, OneRecordEach
<1>k. OnDevices = {"enroll", "revoke", "touch"}
  BY DEF OnDevices
<1>0. ASSUME UNCHANGED <<devices, devCopy, op, minted, ejected, overlap>> PROVE Kept'
  BY <1>0 DEF Kept, LetIn
\* p's operation is one on the other file, before and after, or it gives up its copy.
<1>1. ASSUME NEW p \in Procs, UNCHANGED <<devices, minted, ejected>>, overlap => overlap',
             \A q \in Procs \ {p} : op'[q] = op[q] /\ devCopy'[q] = devCopy[q],
             op'[p].kind \notin OnDevices, OneRecordEach(devCopy'[p])
      PROVE  Kept'
  <2>1. \A q \in Procs \ {p} : LetIn(q)' = LetIn(q)
    BY <1>1 DEF LetIn
  <2>2. \A q \in Procs : OneRecordEach(devCopy'[q])
    BY <1>1 DEF Kept
  <2>3. \A q \in Procs : op'[q].kind = "revoke" => op'[q].tok \in DOMAIN minted
    BY <1>1, <1>k DEF Kept
  <2>4. ASSUME ~overlap
        PROVE  \A q \in Procs : op'[q].kind \in OnDevices => Tokens(devCopy'[q]) = LetIn(q)'
    BY <1>1, <2>1, <2>4 DEF Kept
  <2> QED
    BY <1>1, <2>2, <2>3, <2>4 DEF Kept, Tokens, Active, OneRecordEach
\* p reads the devices.
<1>2. ASSUME NEW p \in Procs, NEW kind \in OnDevices, NEW c, NEW t, NEW copy,
             ReadDevices(p, kind, c, t, copy), UNCHANGED <<minted, ejected>>,
             OneRecordEach(copy), kind = "revoke" => t \in DOMAIN minted,
             Tokens(copy) = CASE kind = "touch"  -> Tokens(devices)
                              [] kind = "enroll" -> Tokens(devices) \cup {t}
                              [] kind = "revoke" -> Tokens(devices) \ {t}
      PROVE  Kept'
  <2>1. /\ op'[p].kind = kind /\ op'[p].tok = t /\ devCopy'[p] = copy
        /\ \A q \in Procs \ {p} : op'[q] = op[q] /\ devCopy'[q] = devCopy[q]
        /\ overlap => overlap'
        /\ devices' = devices
    BY <1>t, <1>2 DEF ReadDevices
  <2>2. \A q \in Procs \ {p} : LetIn(q)' = LetIn(q)
    BY <2>1 DEF LetIn
  <2>3. \A q \in Procs : OneRecordEach(devCopy'[q])
    BY <1>2, <2>1 DEF Kept
  <2>4. \A q \in Procs : op'[q].kind = "revoke" => op'[q].tok \in DOMAIN minted
    BY <1>2, <2>1 DEF Kept
  <2>5. Tokens(copy) = LetIn(p)'
    <3>1. CASE kind = "touch"
      BY <1>2, <2>1, <3>1 DEF LetIn
    <3>2. CASE kind = "enroll"
      BY <1>2, <2>1, <3>2 DEF LetIn
    <3>3. CASE kind = "revoke"
      BY <1>2, <2>1, <3>3 DEF LetIn
    <3> QED
      BY <1>2, <1>k, <3>1, <3>2, <3>3
  <2>6. ASSUME ~overlap
        PROVE  \A q \in Procs : op'[q].kind \in OnDevices => Tokens(devCopy'[q]) = LetIn(q)'
    BY <2>1, <2>2, <2>5, <2>6 DEF Kept
  <2> QED
    BY <1>2, <2>1, <2>3, <2>4, <2>6 DEF Kept, Tokens, Active, OneRecordEach
\* p replaces the devices; what it promised is what is told of it now.
<1>3. ASSUME NEW p \in Procs, op[p].kind \in OnDevices, WriteDevices(p), Done(p), UNCHANGED overlap,
             DOMAIN minted \subseteq DOMAIN minted', ejected' \subseteq DOMAIN minted',
             overlap \/ LetIn(p) = DOMAIN minted' \ ejected'
      PROVE  Kept'
  <2>1. /\ devices' = devCopy[p] /\ devCopy'[p] = {} /\ op'[p].kind = "idle"
        /\ \A q \in Procs \ {p} : op'[q] = op[q] /\ devCopy'[q] = devCopy[q]
    BY <1>t, <1>i, <1>3 DEF WriteDevices, Done
  <2>2. OneRecordEach(devices') /\ \A q \in Procs : OneRecordEach(devCopy'[q])
    BY <1>i, <2>1 DEF Kept
  <2>3. \A q \in Procs : op'[q].kind = "revoke" => op'[q].tok \in DOMAIN minted'
    BY <1>3, <2>1 DEF Kept
  <2>4. ASSUME ~overlap
        PROVE  /\ Tokens(devices') = DOMAIN minted' \ ejected'
               /\ \A q \in Procs : op'[q].kind \notin OnDevices
    <3>1. Tokens(devCopy[p]) = LetIn(p)
      BY <1>3, <2>4 DEF Kept
    <3>2. \A q \in Procs : op'[q].kind \notin OnDevices
      BY <1>3, <1>i, <2>1, <2>4 DEF Apart, Alone
    <3> QED
      BY <1>3, <2>1, <2>4, <3>1, <3>2
  <2> QED
    BY <1>3, <2>2, <2>3, <2>4 DEF Kept, Tokens, Active, OneRecordEach
<1>4. CASE EnrollRead
  <2> DEFINE c == op["hub"].code
             t == Len(minted) + 1
  <2>1. PICK k \in 1..(Cardinality(devices) + 1) :
           ReadDevices("hub", "enroll", c, t,
             devices \cup {[id |-> Suffixed(HostOf[c[1]], k), tok |-> t, revoked |-> FALSE]})
    BY <1>4 DEF EnrollRead
  <2> DEFINE d == [id |-> Suffixed(HostOf[c[1]], k), tok |-> t, revoked |-> FALSE]
             copy == devices \cup {d}
  <2>2. d.tok = t /\ ~d.revoked /\ UNCHANGED <<minted, ejected>>
    BY <1>4 DEF EnrollRead, history
  <2>3. \A e \in devices : e.tok # t
    <3>1. t \notin DOMAIN minted
      BY <1>t, SMT
    <3> HIDE DEF t
    <3> QED
      BY <3>1 DEF TypeInv, Issued
  <2> HIDE DEF d
  <2>4. OneRecordEach(copy)
    BY <2>2, <2>3 DEF OneRecordEach, Kept
  <2>5. Tokens(copy) = Tokens(devices) \cup {t}
    BY <2>2, EnrollAdds
  <2>6. ReadDevices("hub", "enroll", c, t, copy)
    BY <2>1 DEF d
  <2> HIDE DEF copy, t, c
  <2> QED
    BY <1>t, <1>k, <1>2, <2>2, <2>4, <2>5, <2>6
<1>5. CASE EnrollWrite
  <2> DEFINE c == op["hub"].code
  <2>1. /\ op["hub"].kind = "enroll" /\ c \in Codes /\ op["hub"].tok = Len(minted) + 1
        /\ WriteDevices("hub") /\ Done("hub") /\ UNCHANGED <<overlap, ejected>>
    BY <1>t, <1>5 DEF EnrollWrite, TypeInv, OpOK, Issued
  <2>2. PICK d \in devCopy["hub"] : minted' = Append(minted, [code |-> c, id |-> d.id])
    BY <1>5 DEF EnrollWrite
  <2>3. DOMAIN minted' = DOMAIN minted \cup {op["hub"].tok} /\ op["hub"].tok \notin DOMAIN minted
    <3> DEFINE e == [code |-> c, id |-> d.id]
    <3>1. e \in [code : Codes, id : DeviceIds]
      <4>1. d.id \in DeviceIds
        BY <1>t DEF TypeInv, TypeOK, Device
      <4> QED
        BY <2>1, <4>1
    <3> HIDE DEF e
    <3> QED
      BY <1>t, <2>1, <2>2, <3>1, SMT DEF e
  <2>4. LetIn("hub") = Tokens(devices) \cup {op["hub"].tok}
    BY <2>1 DEF LetIn
  <2>5. overlap \/ LetIn("hub") = DOMAIN minted' \ ejected'
    BY <2>1, <2>3, <2>4 DEF Kept
  <2>6. ejected' \subseteq DOMAIN minted'
    BY <2>1, <2>3 DEF Kept
  <2> QED
    BY <1>t, <1>k, <1>3, <2>1, <2>3, <2>5, <2>6
<1>6. CASE TouchWrite
  <2>1. /\ op["hub"].kind = "touch" /\ WriteDevices("hub") /\ Done("hub")
        /\ UNCHANGED <<overlap, minted, ejected>>
    BY <1>6 DEF TouchWrite, history
  <2>2. overlap \/ LetIn("hub") = DOMAIN minted' \ ejected'
    BY <2>1 DEF Kept, LetIn
  <2> QED
    BY <1>t, <1>k, <1>3, <2>1, <2>2 DEF Kept
<1>7. ASSUME NEW p \in Procs, RevokeWrite(p) PROVE Kept'
  <2>1. /\ op[p].kind = "revoke" /\ WriteDevices(p) /\ Done(p)
        /\ UNCHANGED <<overlap, minted>> /\ ejected' = ejected \cup {op[p].tok}
    BY <1>7 DEF RevokeWrite
  <2>2. overlap \/ LetIn(p) = DOMAIN minted' \ ejected'
    BY <2>1 DEF Kept, LetIn
  <2> QED
    BY <1>k, <1>3, <2>1, <2>2 DEF Kept
<1>8. ASSUME NEW p \in Procs, Crash(p) PROVE Kept'
  <2>1. op'[p].kind = "idle" /\ \A q \in Procs \ {p} : op'[q] = op[q]
    BY <1>t, <1>i, <1>8 DEF Crash, Done
  <2>2. devCopy'[p] = {} /\ \A q \in Procs \ {p} : devCopy'[q] = devCopy[q]
    BY <1>t, <1>8 DEF Crash
  <2> QED
    BY <1>i, <1>1, <1>8, <2>1, <2>2 DEF Crash, files, history
\* The operations on the other file.
<1>9. ASSUME NEW p \in Procs, WriteRequests(p), UNCHANGED <<minted, ejected, overlap>>,
             \A q \in Procs \ {p} : op'[q] = op[q], op'[p].kind \notin OnDevices
      PROVE  Kept'
  BY <1>1, <1>9 DEF WriteRequests, Kept
<1>10. ASSUME NEW p \in Procs, NEW kind \in OnRequests, NEW c, NEW copy,
              ReadRequests(p, kind, c, copy), UNCHANGED <<minted, ejected>>
       PROVE  Kept'
  <2>1. /\ op'[p].kind = kind /\ kind \notin OnDevices
        /\ \A q \in Procs \ {p} : op'[q] = op[q]
        /\ overlap => overlap'
        /\ UNCHANGED <<devices, devCopy>>
    BY <1>t, <1>10 DEF ReadRequests, OnRequests, OnDevices
  <2> QED
    BY <1>1, <1>10, <2>1 DEF Kept
<1>11. CASE StartWrite
  BY <1>t, <1>i, <1>9, <1>11 DEF StartWrite, Done, history
<1>12. CASE PollWrite
  <2>1. CASE op' = [op EXCEPT !["hub"].kind = "admit"]
    <3>1. op'["hub"].kind = "admit" /\ \A q \in Procs \ {"hub"} : op'[q] = op[q]
      BY <1>t, <2>1, SMT DEF Op
    <3> QED
      BY <1>t, <1>k, <1>9, <1>12, <3>1 DEF PollWrite, history
  <2>2. CASE Done("hub")
    BY <1>t, <1>i, <1>9, <1>12, <2>2 DEF PollWrite, Done, history
  <2> QED
    BY <1>12, <2>1, <2>2 DEF PollWrite
<1>13. ASSUME NEW p \in Procs, DecideWrite(p) PROVE Kept'
  BY <1>t, <1>i, <1>9, <1>13 DEF DecideWrite, Done
<1>14. ASSUME NEW n \in Nodes, StartRead(n) \/ \E kind \in Kinds : PollRead(n, kind) PROVE Kept'
  <2>1. "start" \in OnRequests
    BY DEF OnRequests
  <2>2. ASSUME NEW kind, PollRead(n, kind) PROVE kind \in OnRequests
    BY <2>2 DEF PollRead, PollKinds, OnRequests
  <2> QED
    BY <1>t, <1>10, <1>14, <2>1, <2>2 DEF StartRead, PollRead, history
<1>15. ASSUME NEW p \in Procs, NEW c \in Codes, NEW kind \in {"approve", "deny"},
              DecideRead(p, c, kind)
       PROVE  Kept'
  BY <1>10, <1>15, kind \in OnRequests DEF DecideRead, OnRequests, history
<1>16. ASSUME NEW n \in Nodes, Served(n) PROVE Kept'
  BY <1>t, <1>k, <1>2, <1>16 DEF Served, Touch, Kept, history
<1>17. ASSUME NEW n \in Nodes, PollRefused(n) \/ GiveUp(n) \/ ConnectRefused(n) PROVE Kept'
  BY <1>0, <1>17 DEF PollRefused, GiveUp, ConnectRefused, files, work, history
<1>18. ASSUME NEW p \in Procs, NEW d \in devices, RevokeRead(p, d) PROVE Kept'
  <2> DEFINE r == [d EXCEPT !.revoked = TRUE]
             copy == (devices \ {d}) \cup {r}
  <2>1. d \in Device /\ d.tok \in DOMAIN minted
    BY <1>t DEF TypeInv, Issued
  <2>2. r.revoked /\ r.tok = d.tok
    BY <2>1, Zenon DEF Device
  <2>3. ReadDevices(p, "revoke", NoCode, d.tok, copy) /\ UNCHANGED <<minted, ejected>>
    BY <1>18 DEF RevokeRead, history
  <2> HIDE DEF r
  <2>4. Tokens(copy) = Tokens(devices) \ {d.tok} /\ OneRecordEach(copy)
    BY <2>2, RevokeShutsOut DEF Kept
  <2> HIDE DEF copy
  <2> QED
    BY <1>k, <1>2, <2>1, <2>3, <2>4
<1>19. ASSUME NEW c \in Codes, Expire(c) PROVE Kept'
  BY <1>0, <1>19 DEF Expire, files, work, history
<1>21. CASE UNCHANGED vars
  BY <1>0, <1>21 DEF vars, files, work, history
<1>22. CASE HubWrite
  BY <1>t, <1>4, <1>5, <1>6, <1>7, <1>11, <1>12, <1>13, <1>22 DEF HubWrite
<1> QED
  BY <1>t, <1>7, <1>8, <1>13, <1>14, <1>15, <1>16, <1>17, <1>18, <1>19, <1>21,
     <1>22 DEF Next

\* Unless two updates of one file have overlapped, a credential is let in exactly until an
\* operator revokes it: no revocation touches another device and nothing brings a revoked
\* one back, a crash in the middle of an operation included (enroll, touch, revoke, verify).
THEOREM RevokedForGood == Spec => []WorksUntilRevoked
<1>1. Init => Kept
  <2> SUFFICES ASSUME Init PROVE Kept
    OBVIOUS
  <2>1. \A p \in Procs : op[p].kind = "idle" /\ devCopy[p] = {}
    BY DEF Init, Idle
  <2>2. DOMAIN minted = {} /\ ejected = {} /\ devices = {}
    BY SMT DEF Init
  <2> QED
    BY <2>1, <2>2 DEF Kept, OneRecordEach, Tokens, Active, OnDevices
<1>2. Spec => []KeptInv
  <2>1. Init => KeptInv
    BY <1>1, TypeInit, ApartInit DEF KeptInv
  <2>2. KeptInv /\ [Next]_vars => KeptInv'
    BY TypeStep, ApartStep, KeptStep DEF KeptInv
  <2> QED
    BY <2>1, <2>2, PTL DEF Spec
<1>3. KeptInv => WorksUntilRevoked
  BY TokensIn DEF KeptInv, Kept, WorksUntilRevoked, Verified, Tokens
<1> QED
  BY <1>2, <1>3, PTL

-----------------------------------------------------------------------------
(* HubStreams: the two registries and the streams that are served. *)

Peer == [cred : Creds, socket : {"up", "down", "ended"}, closed : BOOLEAN,
         accepted : BOOLEAN, told : Nat]

\* What is registered is a stream.
Known == /\ \A i \in Ids : peers[i] \in {0} \cup Opened
         /\ fleet \subseteq Opened

HubInv == HubTypeOK /\ Known /\ Registered /\ EveryoneIsTold

\* A step that opens nothing and closes the served streams of S keeps the registries in order.
LEMMA Closing ==
    ASSUME HubInv, NEW S, S \subseteq Opened,
           stream' \in Seq(Peer), DOMAIN stream' = DOMAIN stream,
           \A s \in Opened : /\ stream'[s].cred = stream[s].cred
                             /\ stream'[s].accepted = stream[s].accepted
                             /\ Serving(s) => (stream'[s].closed <=> s \in S)
                             /\ stream[s].closed => stream'[s].closed
                             /\ ~stream[s].accepted => (stream'[s].closed <=> stream[s].closed),
           Close(S)
    PROVE  Registered' /\ Known' /\ peers' \in [Ids -> Nat] /\ fleet' \in SUBSET Nat
<1>t. /\ stream \in Seq(Peer) /\ peers \in [Ids -> Nat] /\ fleet \in SUBSET Nat
  BY DEF HubInv, HubTypeOK, Peer
<1> DEFINE gone == {s \in S : Serving(s)}
<1>1. /\ peers' = [i \in Ids |-> IF peers[i] \in gone THEN 0 ELSE peers[i]]
      /\ fleet' = fleet \ gone
  BY DEF Close
<1>2. peers' \in [Ids -> Nat] /\ fleet' \in SUBSET Nat /\ Known'
  BY <1>t, <1>1 DEF HubInv, Known, Opened
<1>3. \A s \in Opened : /\ IdOn(s)' = IdOn(s)
                        /\ Serving(s)' <=> (Serving(s) /\ s \notin S)
  BY <1>t DEF IdOn, Serving, Opened, Peer
<1>4. \A s \in Opened : IdOn(s) \in Ids
  <2> TAKE s \in Opened
  <2>1. stream[s] \in Peer
    BY <1>t DEF Opened
  <2>2. stream[s].cred \in Creds
    BY <2>1 DEF Peer
  <2> QED
    BY <2>2 DEF IdOn, Ids
<1>5. Opened' = Opened
  BY DEF Opened
<1>6. \A s \in Opened' : Serving(s)' =>
         /\ peers'[IdOn(s)'] = s /\ s \in fleet'
         /\ \A u \in Opened' : u > s => IdOn(u)' # IdOn(s)'
  BY <1>1, <1>3, <1>4, <1>5 DEF HubInv, Registered
<1>7. \A s \in fleet' : s \in Opened' /\ Serving(s)'
  BY <1>1, <1>3, <1>5 DEF HubInv, Registered
<1>8. ASSUME NEW i \in Ids, peers'[i] # 0
      PROVE  ~stream'[peers'[i]].closed /\ IdOf[stream'[peers'[i]].cred] = i
  <2>1. peers'[i] = peers[i] /\ peers[i] # 0 /\ peers[i] \notin gone /\ peers[i] \in Opened
    BY <1>1, <1>8 DEF HubInv, Known
  <2>2. ~stream[peers[i]].closed /\ IdOn(peers[i]) = i
    BY <2>1 DEF HubInv, Registered
  <2> DEFINE r == peers[i]
  <2>3. stream[r] \in Peer
    BY <1>t, <2>1 DEF Opened
  <2>4. ~stream'[r].closed
    <3>1. CASE Serving(r)
      BY <2>1, <3>1
    <3>2. CASE ~Serving(r)
      BY <2>1, <2>2, <2>3, <3>2 DEF Serving, Peer
    <3> QED
      BY <3>1, <3>2
  <2> QED
    BY <2>1, <2>2, <2>4 DEF IdOn
<1>9. Registered'
  BY <1>6, <1>7, <1>8 DEF Registered, IdOn
<1> QED
  BY <1>2, <1>9

LEMMA ShutIs ==
    ASSUME stream \in Seq(Peer), NEW S, S \subseteq Opened
    PROVE  /\ Shut(S) \in Seq(Peer) /\ DOMAIN Shut(S) = Opened /\ Len(Shut(S)) = Len(stream)
           /\ \A s \in Opened : Shut(S)[s] = [stream[s] EXCEPT !.closed = @ \/ s \in S]
<1>1. \A s \in Opened : stream[s] \in Peer
  BY DEF Opened
<1>2. \A s \in Opened : [stream[s] EXCEPT !.closed = @ \/ s \in S] \in Peer
  <2> TAKE s \in Opened
  <2>1. stream[s] \in Peer
    BY <1>1
  <2>2. (stream[s].closed \/ s \in S) \in BOOLEAN
    OBVIOUS
  <2> QED
    BY <2>1, <2>2 DEF Peer
<1>3. Opened = 1..Len(stream) /\ Len(stream) \in Nat
  BY DEF Opened
<1>4. Shut(S) \in [1..Len(stream) -> Peer]
  BY <1>2, <1>3 DEF Shut
<1> QED
  BY <1>3, <1>4 DEF Shut

LEMMA HubStep == HubInv /\ [HubNext]_hubVars => HubInv'
<1> SUFFICES ASSUME HubInv, [HubNext]_hubVars PROVE HubInv'
  OBVIOUS
<1>t. /\ stream \in Seq(Peer) /\ peers \in [Ids -> Nat] /\ fleet \in SUBSET Nat
      /\ issued \in SUBSET Creds /\ active \in SUBSET issued /\ published \in Nat
  BY DEF HubInv, HubTypeOK, Peer
<1>o. /\ Opened = 1..Len(stream) /\ Len(stream) \in Nat
      /\ \A s \in Opened : stream[s] \in Peer
  BY <1>t DEF Opened
<1>1. ASSUME UNCHANGED <<registries, published>>, issued' \in SUBSET Creds, active' \in SUBSET issued'
      PROVE  HubInv'
  BY <1>1 DEF HubInv, HubTypeOK, Known, Registered, EveryoneIsTold, registries, Serving, IdOn,
              Opened
<1>2. ASSUME NEW c \in Creds, Issue(c) \/ Revoke(c) PROVE HubInv'
  BY <1>t, <1>1, <1>2 DEF Issue, Revoke
<1>3. CASE UNCHANGED hubVars
  BY <1>t, <1>1, <1>3 DEF hubVars, credentials
<1>4. ASSUME NEW S, S \subseteq Opened, \A s \in S : Serving(s),
             stream' = Shut(S), Close(S), UNCHANGED <<credentials, published>>
      PROVE  HubInv'
  <2>1. /\ stream' \in Seq(Peer) /\ DOMAIN stream' = DOMAIN stream
        /\ \A s \in Opened : stream'[s] = [stream[s] EXCEPT !.closed = @ \/ s \in S]
    BY <1>t, <1>4, ShutIs DEF Opened
  <2>2. \A s \in Opened : /\ stream'[s].cred = stream[s].cred
                          /\ stream'[s].accepted = stream[s].accepted
                          /\ stream'[s].told = stream[s].told
                          /\ stream'[s].closed = (stream[s].closed \/ s \in S)
    <3> TAKE s \in Opened
    <3>1. stream[s] \in Peer /\ stream'[s] = [stream[s] EXCEPT !.closed = @ \/ s \in S]
      BY <1>o, <2>1
    <3> QED
      BY <3>1 DEF Peer
  <2>3. Registered' /\ Known' /\ peers' \in [Ids -> Nat] /\ fleet' \in SUBSET Nat
    BY <1>o, <1>4, <2>1, <2>2, Closing DEF Serving, Peer
  <2>4. EveryoneIsTold'
    BY <1>o, <1>4, <2>1, <2>2 DEF HubInv, EveryoneIsTold, Serving, Opened, Peer
  <2> QED
    BY <1>t, <1>4, <2>1, <2>3, <2>4 DEF HubInv, HubTypeOK, credentials, Peer
<1>5. ASSUME NEW s \in Opened, KeepAlive(s) \/ RevokeCheck(s) PROVE HubInv'
  BY <1>4, <1>5 DEF KeepAlive, RevokeCheck
<1>6. ASSUME NEW s \in Opened, Break(s) PROVE HubInv'
  <2>1. stream' = [stream EXCEPT ![s].socket = "down"]
    BY <1>6 DEF Break
  <2>2. [stream[s] EXCEPT !.socket = "down"] \in Peer
    BY <1>o DEF Peer
  <2>3. stream' \in Seq(Peer) /\ DOMAIN stream' = DOMAIN stream
    BY <1>t, <1>o, <2>1, <2>2
  <2>4. \A r \in Opened : /\ stream'[r].cred = stream[r].cred
                          /\ stream'[r].accepted = stream[r].accepted
                          /\ stream'[r].told = stream[r].told
                          /\ stream'[r].closed = stream[r].closed
    BY <1>o, <2>1 DEF Peer
  <2>5. \A r \in Opened : (Serving(r)' <=> Serving(r)) /\ IdOn(r)' = IdOn(r)
    BY <2>4 DEF Serving, IdOn
  <2>6. Opened' = Opened /\ UNCHANGED <<peers, fleet, published, issued, active>>
    BY <1>6, <2>3 DEF Break, Opened, credentials
  <2>7. Known' /\ EveryoneIsTold'
    BY <2>4, <2>5, <2>6 DEF HubInv, Known, EveryoneIsTold
  <2>8. Registered'
    BY <2>4, <2>5, <2>6 DEF HubInv, Registered, Known
  <2> QED
    BY <1>t, <2>3, <2>6, <2>7, <2>8 DEF HubInv, HubTypeOK, Peer
<1>7. ASSUME NEW s \in Opened, RequestEnds(s) PROVE HubInv'
  <2> DEFINE S == {s} \cap {r \in Opened : Serving(r)}
  <2>1. /\ Shut(S) \in Seq(Peer) /\ DOMAIN Shut(S) = Opened /\ Len(Shut(S)) = Len(stream)
        /\ \A r \in Opened : Shut(S)[r] = [stream[r] EXCEPT !.closed = @ \/ r \in S]
    BY <1>t, ShutIs
  <2>2. stream' = [Shut(S) EXCEPT ![s].socket = "ended"]
    BY <1>7 DEF RequestEnds
  <2>3. [Shut(S)[s] EXCEPT !.socket = "ended"] \in Peer
    <3>1. Shut(S)[s] \in Peer
      BY <2>1
    <3> HIDE DEF S
    <3> QED
      BY <3>1 DEF Peer
  <2>4. stream' \in Seq(Peer) /\ DOMAIN stream' = DOMAIN stream
    <3> HIDE DEF S
    <3> QED
      BY <1>o, <2>1, <2>2, <2>3 DEF Opened
  <2>5. \A r \in Opened : /\ stream'[r].cred = stream[r].cred
                          /\ stream'[r].accepted = stream[r].accepted
                          /\ stream'[r].told = stream[r].told
                          /\ stream'[r].closed = (stream[r].closed \/ r \in S)
    <3> HIDE DEF S
    <3>1. \A r \in Opened : stream'[r] = IF r = s THEN [Shut(S)[r] EXCEPT !.socket = "ended"]
                                                 ELSE Shut(S)[r]
      BY <2>1, <2>2
    <3> TAKE r \in Opened
    <3>2. stream[r] \in Peer /\ Shut(S)[r] = [stream[r] EXCEPT !.closed = @ \/ r \in S]
      BY <1>o, <2>1
    <3>3. /\ Shut(S)[r].cred = stream[r].cred /\ Shut(S)[r].accepted = stream[r].accepted
          /\ Shut(S)[r].told = stream[r].told /\ Shut(S)[r].closed = (stream[r].closed \/ r \in S)
          /\ Shut(S)[r] \in Peer
      BY <2>1, <3>2 DEF Peer
    <3> QED
      BY <3>1, <3>3 DEF Peer
  <2>6. Close(S)
    <3>1. {r \in S : Serving(r)} = {r \in {s} : Serving(r)}
      OBVIOUS
    <3> QED
      BY <1>7, <3>1 DEF RequestEnds, Close
  <2>7. Registered' /\ Known' /\ peers' \in [Ids -> Nat] /\ fleet' \in SUBSET Nat
    <3>1. \A r \in Opened : Serving(r) => (stream'[r].closed <=> r \in S)
      BY <1>o, <2>5 DEF Serving, Peer
    <3>2. \A r \in Opened : /\ stream[r].closed => stream'[r].closed
                            /\ ~stream[r].accepted => (stream'[r].closed <=> stream[r].closed)
      BY <1>o, <2>5 DEF Serving, Peer
    <3>3. S \subseteq Opened
      OBVIOUS
    <3> HIDE DEF S
    <3> QED
      BY <2>4, <2>5, <2>6, <3>1, <3>2, <3>3, Closing
  <2>8. UNCHANGED <<published, issued, active>> /\ Opened' = Opened
    BY <1>7, <2>4 DEF RequestEnds, credentials, Opened
  <2>9. EveryoneIsTold'
    <3> HIDE DEF S
    <3> QED
      BY <1>o, <2>5, <2>8 DEF HubInv, EveryoneIsTold, Serving, Peer
  <2> QED
    BY <1>t, <2>4, <2>7, <2>8, <2>9 DEF HubInv, HubTypeOK, Peer
<1>8. CASE Publish
  <2>1. PICK dead \in SUBSET {r \in fleet : stream[r].socket # "up"} :
           /\ stream' = [s \in Opened |-> IF s \in fleet \ dead
                                          THEN [stream[s] EXCEPT !.told = published']
                                          ELSE Shut(dead)[s]]
           /\ Close(dead)
    BY <1>8 DEF Publish
  <2>2. published' = published + 1 /\ published' \in Nat /\ UNCHANGED <<issued, active>>
    BY <1>t, <1>8 DEF Publish, credentials
  <2>3. dead \subseteq Opened /\ \A s \in dead : Serving(s)
    BY <2>1 DEF HubInv, Registered
  <2>4. \A s \in Opened : Shut(dead)[s] = [stream[s] EXCEPT !.closed = @ \/ s \in dead]
    BY <1>t, <2>3, ShutIs
  <2>5. \A s \in Opened : stream'[s] \in Peer
    <3> TAKE s \in Opened
    <3>1. CASE s \in fleet \ dead
      <4>1. stream'[s] = [stream[s] EXCEPT !.told = published']
        BY <2>1, <3>1
      <4> QED
        BY <1>o, <2>2, <4>1 DEF Peer
    <3>2. CASE ~(s \in fleet \ dead)
      BY <1>t, <2>1, <2>3, <3>2, ShutIs
    <3> QED
      BY <3>1, <3>2
  <2>6. stream' \in Seq(Peer) /\ DOMAIN stream' = DOMAIN stream
    <3>1. stream' \in [1..Len(stream) -> Peer]
      BY <1>o, <2>1, <2>5
    <3> QED
      BY <1>o, <3>1 DEF Opened
  <2>7. \A s \in Opened : /\ stream'[s].cred = stream[s].cred
                          /\ stream'[s].accepted = stream[s].accepted
                          /\ stream'[s].closed = (stream[s].closed \/ s \in dead)
                          /\ s \in fleet \ dead => stream'[s].told = published'
    <3> TAKE s \in Opened
    <3>0. stream[s] \in Peer
      BY <1>o
    <3>1. CASE s \in fleet \ dead
      <4>1. stream'[s] = [stream[s] EXCEPT !.told = published']
        BY <2>1, <3>1
      <4> QED
        BY <3>0, <3>1, <4>1 DEF Peer
    <3>2. CASE ~(s \in fleet \ dead)
      <4>1. stream'[s] = [stream[s] EXCEPT !.closed = @ \/ s \in dead]
        BY <2>1, <2>4, <3>2
      <4> QED
        BY <3>0, <3>2, <4>1 DEF Peer
    <3> QED
      BY <3>1, <3>2
  <2>8. Registered' /\ Known' /\ peers' \in [Ids -> Nat] /\ fleet' \in SUBSET Nat
    BY <1>o, <2>1, <2>3, <2>6, <2>7, Closing DEF Serving, Peer
  <2>9. EveryoneIsTold'
    BY <1>o, <2>6, <2>7 DEF HubInv, Registered, EveryoneIsTold, Serving, Opened, Peer
  <2> QED
    BY <1>t, <2>2, <2>6, <2>8, <2>9 DEF HubInv, HubTypeOK, Peer
<1>9. CASE HubRestart
  <2>1. stream' = [s \in Opened |-> [stream[s] EXCEPT !.closed = TRUE, !.socket = "ended"]]
    BY <1>9 DEF HubRestart
  <2>2. \A s \in Opened : stream'[s] \in Peer /\ stream'[s].closed
    BY <1>o, <2>1 DEF Peer
  <2>3. stream' \in Seq(Peer) /\ Opened' = Opened
    <3>1. stream' \in [1..Len(stream) -> Peer]
      BY <1>o, <2>1, <2>2
    <3> QED
      BY <1>o, <3>1 DEF Opened
  <2>4. peers' = [i \in Ids |-> 0] /\ fleet' = {} /\ UNCHANGED <<published, issued, active>>
    BY <1>9 DEF HubRestart, credentials
  <2>5. \A s \in Opened' : ~Serving(s)'
    BY <2>2, <2>3 DEF Serving
  <2> QED
    BY <1>t, <2>3, <2>4, <2>5
       DEF HubInv, HubTypeOK, Known, Registered, EveryoneIsTold, Peer
<1>10. ASSUME NEW c \in Creds, OpenStream(c) PROVE HubInv'
  <2> DEFINE i == IdOf[c]
             s == Len(stream) + 1
             older == {peers[i]} \ {0}
  <2>1. PICK how \in {"served", "orphan", "broken"} :
           /\ stream' = Append(Shut(older),
                               [cred |-> c, socket |-> IF how = "served" THEN "up" ELSE "down",
                                closed |-> how = "broken", accepted |-> how # "orphan",
                                told |-> IF how = "served" THEN published ELSE 0])
           /\ peers' = [peers EXCEPT ![i] = IF how = "broken" THEN 0 ELSE s]
           /\ fleet' = (fleet \ older) \cup (IF how = "served" THEN {s} ELSE {})
    BY <1>10 DEF OpenStream
  <2> DEFINE p == [cred |-> c, socket |-> IF how = "served" THEN "up" ELSE "down",
                   closed |-> how = "broken", accepted |-> how # "orphan",
                   told |-> IF how = "served" THEN published ELSE 0]
  <2>2. i \in Ids /\ older \subseteq Opened /\ UNCHANGED <<published, issued, active>>
    BY <1>10 DEF OpenStream, Ids, HubInv, Known, credentials
  <2>3. /\ p \in Peer /\ p.cred = c /\ p.closed = (how = "broken") /\ p.accepted = (how # "orphan")
        /\ how = "served" => p.told = published
    BY <1>t DEF Peer
  <2>4. /\ Shut(older) \in Seq(Peer) /\ Len(Shut(older)) = Len(stream)
        /\ \A r \in Opened : Shut(older)[r] = [stream[r] EXCEPT !.closed = @ \/ r \in older]
    BY <1>t, <2>2, ShutIs
  <2> HIDE DEF p
  <2>5. stream' = Append(Shut(older), p)
    BY <2>1 DEF p
  <2>6. /\ stream' \in Seq(Peer) /\ Opened' = Opened \cup {s} /\ s \notin Opened
        /\ stream'[s] = p /\ \A r \in Opened : stream'[r] = Shut(older)[r]
        /\ \A r \in Opened : s > r /\ r # 0
    <3> HIDE DEF older
    <3> QED
      BY <1>o, <2>3, <2>4, <2>5 DEF Opened
  <2>7. \A r \in Opened : /\ stream'[r].cred = stream[r].cred
                          /\ stream'[r].accepted = stream[r].accepted
                          /\ stream'[r].told = stream[r].told
                          /\ stream'[r].closed = (stream[r].closed \/ r \in older)
    <3> TAKE r \in Opened
    <3>1. stream[r] \in Peer /\ stream'[r] = [stream[r] EXCEPT !.closed = @ \/ r \in older]
      BY <1>o, <2>4, <2>6
    <3> HIDE DEF older
    <3> QED
      BY <3>1 DEF Peer
  <2>8. \A r \in Opened : /\ IdOn(r)' = IdOn(r) /\ IdOn(r) \in Ids
                          /\ Serving(r)' <=> (Serving(r) /\ r \notin older)
    <3> TAKE r \in Opened
    <3>1. stream[r] \in Peer
      BY <1>o
    <3>2. stream[r].cred \in Creds
      BY <3>1 DEF Peer
    <3> HIDE DEF older
    <3> QED
      BY <2>7, <3>1, <3>2 DEF IdOn, Serving, Ids, Peer
  <2>9. \A r \in Opened : Serving(r)' => IdOn(r) # i /\ peers[IdOn(r)] = r /\ r \in fleet
    BY <2>8, <2>6 DEF HubInv, Registered
  <2>10. IdOf[stream'[s].cred] = i /\ stream'[s].told = p.told
         /\ (stream'[s].accepted /\ ~stream'[s].closed <=> how = "served")
    BY <2>3, <2>6
  <2>11. s # 0 /\ s \in Nat
    BY <1>o
  <2> HIDE DEF s, i, older
  <2>12. peers' \in [Ids -> Nat] /\ fleet' \in SUBSET Nat /\ Known'
    BY <1>t, <2>1, <2>2, <2>6, <2>11 DEF HubInv, Known
  <2>13. EveryoneIsTold'
    BY <2>2, <2>3, <2>6, <2>7, <2>8, <2>10 DEF HubInv, EveryoneIsTold, Serving
  <2>14. \A r \in Opened' : Serving(r)' =>
            /\ peers'[IdOn(r)'] = r /\ r \in fleet'
            /\ \A u \in Opened' : u > r => IdOn(u)' # IdOn(r)'
    <3>1. \A r \in Opened : Serving(r)' =>
             /\ peers'[IdOn(r)'] = r /\ r \in fleet'
             /\ \A u \in Opened' : u > r => IdOn(u)' # IdOn(r)'
      <4> SUFFICES ASSUME NEW r \in Opened, Serving(r)'
                   PROVE  /\ peers'[IdOn(r)'] = r /\ r \in fleet'
                          /\ \A u \in Opened' : u > r => IdOn(u)' # IdOn(r)'
        OBVIOUS
      <4>1. peers'[IdOn(r)'] = r /\ r \in fleet'
        BY <1>t, <2>1, <2>8, <2>9
      <4>2. \A u \in Opened' : u > r => IdOn(u)' # IdOn(r)'
        <5> SUFFICES ASSUME NEW u \in Opened', u > r PROVE IdOn(u)' # IdOn(r)'
          OBVIOUS
        <5>1. CASE u \in Opened
          BY <2>8, <5>1 DEF HubInv, Registered
        <5>2. CASE u = s
          BY <2>8, <2>9, <2>10, <5>2 DEF IdOn
        <5> QED
          BY <2>6, <5>1, <5>2
      <4> QED
        BY <4>1, <4>2
    <3>2. \A r \in {s} : Serving(r)' =>
             /\ peers'[IdOn(r)'] = r /\ r \in fleet'
             /\ \A u \in Opened' : u > r => IdOn(u)' # IdOn(r)'
      <4>1. \A u \in Opened' : ~(u > s)
        BY <1>o, <2>6, <2>11
      <4> QED
        BY <1>t, <2>1, <2>2, <2>10, <4>1 DEF Serving, IdOn
    <3> QED
      BY <2>6, <3>1, <3>2
  <2>15. \A r \in fleet' : r \in Opened' /\ Serving(r)'
    <3> SUFFICES ASSUME NEW r \in fleet' PROVE r \in Opened' /\ Serving(r)'
      OBVIOUS
    <3>1. CASE r \in fleet \ older
      BY <2>6, <2>8, <3>1 DEF HubInv, Registered
    <3>2. CASE r = s /\ how = "served"
      BY <2>6, <2>10, <3>2 DEF Serving
    <3> QED
      BY <2>1, <3>1, <3>2
  <2>16. \A j \in Ids : peers'[j] # 0 =>
            ~stream'[peers'[j]].closed /\ IdOf[stream'[peers'[j]].cred] = j
    <3> SUFFICES ASSUME NEW j \in Ids, peers'[j] # 0
                 PROVE  ~stream'[peers'[j]].closed /\ IdOf[stream'[peers'[j]].cred] = j
      OBVIOUS
    <3>1. CASE j = i
      BY <1>t, <2>1, <2>3, <2>6, <2>10, <3>1
    <3>2. CASE j # i
      <4>1. peers'[j] = peers[j] /\ peers[j] \in Opened
        BY <1>t, <2>1, <3>2 DEF HubInv, Known
      <4>2. IdOn(peers[j]) = j /\ ~stream[peers[j]].closed
        BY <4>1 DEF HubInv, Registered
      <4>3. peers[j] \notin older
        <5>1. peers[i] # 0 => IdOn(peers[i]) = i
          BY <2>2 DEF HubInv, Registered
        <5> QED
          BY <3>2, <4>2, <5>1 DEF older
      <4> QED
        BY <2>7, <4>1, <4>2, <4>3 DEF IdOn
    <3> QED
      BY <3>1, <3>2
  <2>17. Registered'
    BY <2>14, <2>15, <2>16 DEF Registered, IdOn
  <2> QED
    BY <1>t, <2>2, <2>6, <2>12, <2>13, <2>17 DEF HubInv, HubTypeOK, Peer
<1> QED
  BY <1>2, <1>3, <1>5, <1>6, <1>7, <1>8, <1>9, <1>10 DEF HubNext

LEMMA HubInitial == HubInit => HubInv
<1> SUFFICES ASSUME HubInit PROVE HubInv
  OBVIOUS
<1>1. stream = <<>> /\ Opened = {}
  BY DEF HubInit, Opened
<1> QED
  BY <1>1 DEF HubInit, HubInv, HubTypeOK, Known, Registered, EveryoneIsTold

\* "Newest wins": whatever late close, failed write or check an older stream still has to
\* come, the one served is the last one opened, and both registries name it; and it misses no
\* publication, whichever writes fail (GET /control/events, HttpPeer.close, Hub.publish).
THEOREM NewestWins == HubSpec => []NewestIsServed
<1>1. HubInv => NewestIsServed
  BY DEF HubInv, NewestIsServed
<1> QED
  BY <1>1, HubInitial, HubStep, PTL DEF HubSpec

=============================================================================
