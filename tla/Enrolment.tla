----------------------------- MODULE Enrolment -----------------------------
(***************************************************************************)
(* How a machine is let into the fleet and how it is put out again.        *)
(*                                                                         *)
(* Two operating-system processes work on the same two JSON files of the   *)
(* hub's data directory: "hub" serves the nodes (and the dashboard), "cli" *)
(* is `cc-fleet approve | deny | revoke`.  Every operation on a file reads *)
(* all of it, changes its copy and writes all of it back; nothing locks    *)
(* the file in between.  A process is single-threaded, so between the read *)
(* and the write of one operation only the OTHER process can act.  An      *)
(* operation is therefore two actions: a read, which computes the copy to  *)
(* write, and a write, which installs it and answers.                      *)
(*                                                                         *)
(* requests   device-auth.json: one record per device code                 *)
(* devices    devices.json: one record per credential ever issued          *)
(* expired    device codes past their fifteen minutes                      *)
(* op         what each process is between the read and the write of       *)
(* reqCopy, devCopy   the contents it is about to write                    *)
(* node       the `cc-fleet join` client of each machine                   *)
(*                                                                         *)
(* The rest is history: minted (token -> code and id it was issued for),   *)
(* approved and ejected (what an operator was told had been done), overlap *)
(* (two updates of one file have overlapped), commands (cc-fleet runs).    *)
(***************************************************************************)
EXTENDS Naturals, Sequences, FiniteSets

CONSTANTS Nodes,        \* machines that run `cc-fleet join`
          HostOf,       \* the sanitised hostname each of them reports
          Suffixed(_, _),  \* Suffixed(h, k): h itself for k = 1, otherwise "h-k"
          NoCode,       \* in place of a device code, for operations without one
          MaxAttempts,  \* bound: joins per machine
          MaxTokens,    \* bound: credentials issued
          MaxCommands   \* bound: runs of cc-fleet approve, deny or revoke

ASSUME BoundsAssumption == /\ MaxAttempts \in Nat \ {0}
                           /\ MaxTokens \in Nat
                           /\ MaxCommands \in Nat

VARIABLES requests, devices, expired, op, reqCopy, devCopy, overlap, node,
          minted, approved, ejected, commands

files == <<requests, devices>>
work == <<op, reqCopy, devCopy, overlap>>
history == <<minted, approved, ejected>>
vars == <<files, work, expired, node, history, commands>>

Procs == {"hub", "cli"}
Codes == Nodes \X (1..MaxAttempts)      \* <<n, k>>: the code of n's k-th join

ASSUME NoCodeAssumption == NoCode \notin Codes

-----------------------------------------------------------------------------
(* The records of the two files. *)

Absent == [status |-> "absent", polled |-> FALSE, redeemed |-> FALSE]
Request == [status : {"absent", "pending", "approved", "denied"},
            polled : BOOLEAN, redeemed : BOOLEAN]

HostNames == {HostOf[n] : n \in Nodes}
DeviceIds == {Suffixed(h, k) : h \in HostNames, k \in Nat \ {0}}
Device == [id : DeviceIds, tok : Nat \ {0}, revoked : BOOLEAN]

Active(reg) == {d \in reg : ~d.revoked}
ActiveIds(reg) == {d.id : d \in Active(reg)}

\* Variant: the suffix counts the devices of the same hostname.
FirstFree_Counts(reg, h, k) ==
    k = 1 + Cardinality({d \in Active(reg) : HostOf[minted[d.tok].code[1]] = h})

\* The first of h, h-2, h-3 ... that no active device of the registry holds.
FirstFree(reg, h, k) ==
    /\ Suffixed(h, k) \notin ActiveIds(reg)
    /\ \A j \in 1..(k - 1) : Suffixed(h, j) \in ActiveIds(reg)

Live(c) == requests[c].status = "pending" /\ c \notin expired

-----------------------------------------------------------------------------
(* What a process is doing between its read and its write. *)

Kinds == {"idle", "start", "approve", "deny", "pollWait", "pollDenied",
          "pollRedeem", "admit", "enroll", "revoke", "touch"}
OnRequests == {"start", "approve", "deny", "pollWait", "pollDenied", "pollRedeem"}
OnDevices == {"enroll", "revoke", "touch"}
Op == [kind : Kinds, code : Codes \cup {NoCode}, tok : Nat]

Idle == [kind |-> "idle", code |-> NoCode, tok |-> 0]
NoRequests == [c \in Codes |-> Absent]

IsIdle(p) == op[p].kind = "idle"

\* p has read the request file and will write `copy` in its place.
ReadRequests(p, kind, c, copy) ==
    /\ op' = [op EXCEPT ![p] = [kind |-> kind, code |-> c, tok |-> 0]]
    /\ reqCopy' = [reqCopy EXCEPT ![p] = copy]
    /\ overlap' = (overlap \/ \E q \in Procs \ {p} : op[q].kind \in OnRequests)
    /\ UNCHANGED <<requests, devices, devCopy>>

\* p has read the device registry and will write `copy` in its place.
ReadDevices(p, kind, c, t, copy) ==
    /\ op' = [op EXCEPT ![p] = [kind |-> kind, code |-> c, tok |-> t]]
    /\ devCopy' = [devCopy EXCEPT ![p] = copy]
    /\ overlap' = (overlap \/ \E q \in Procs \ {p} : op[q].kind \in OnDevices)
    /\ UNCHANGED <<requests, devices, reqCopy>>

\* A write of device-auth.json drops the requests that expired long ago.
WriteRequests(p) ==
    /\ \E dead \in SUBSET expired :
         requests' = [c \in Codes |-> IF c \in dead THEN Absent ELSE reqCopy[p][c]]
    /\ reqCopy' = [reqCopy EXCEPT ![p] = NoRequests]
    /\ UNCHANGED <<devices, devCopy>>

\* Variant: a record is added beside the one it should replace.
WriteDevices_Merge(p) ==
    /\ devices' = devices \cup devCopy[p]
    /\ devCopy' = [devCopy EXCEPT ![p] = {}]
    /\ UNCHANGED <<requests, reqCopy>>

WriteDevices(p) ==
    /\ devices' = devCopy[p]
    /\ devCopy' = [devCopy EXCEPT ![p] = {}]
    /\ UNCHANGED <<requests, reqCopy>>

Done(p) == op' = [op EXCEPT ![p] = Idle]

-----------------------------------------------------------------------------
Init ==
    /\ requests = NoRequests
    /\ devices = {}
    /\ expired = {}
    /\ op = [p \in Procs |-> Idle]
    /\ reqCopy = [p \in Procs |-> NoRequests]
    /\ devCopy = [p \in Procs |-> {}]
    /\ node = [n \in Nodes |-> [pc |-> "out", attempt |-> 0, cred |-> 0, fatal |-> FALSE]]
    /\ minted = <<>>
    /\ approved = {}
    /\ ejected = {}
    /\ overlap = FALSE
    /\ commands = 0

Gone(n) == [node[n] EXCEPT !.pc = "out"]

\* The hub's answer to code c reaches the client that waits for it, or the
\* connection breaks first and the client is left as `otherwise`.
Answer(c, reached, otherwise) ==
    LET n == c[1]
        waits == node[n].pc # "out" /\ node[n].attempt = c[2]
    IN  \E after \in {reached, otherwise} :
          node' = IF waits THEN [node EXCEPT ![n] = after] ELSE node

\* p runs an operator's command; the dashboard's buttons are the hub's own.
Command(p) ==
    /\ IsIdle(p)
    /\ p = "cli" => commands < MaxCommands      \* bound
    /\ commands' = IF p = "cli" THEN commands + 1 ELSE commands

-----------------------------------------------------------------------------
(* The device code: asked for by a node, decided by an operator. *)

\* POST /control/device/code: the hub adds a pending request for a new code.
StartRead(n) ==
    /\ IsIdle("hub") /\ node[n].pc = "out" /\ node[n].attempt < MaxAttempts
    /\ LET c == <<n, node[n].attempt + 1>>
       IN  /\ node' = [node EXCEPT ![n] = [@ EXCEPT !.attempt = c[2], !.pc = "asking"]]
           /\ ReadRequests("hub", "start", c,
                 [requests EXCEPT ![c] = [Absent EXCEPT !.status = "pending"]])
    /\ UNCHANGED <<expired, history, commands>>

StartWrite ==
    /\ op["hub"].kind = "start"
    /\ WriteRequests("hub") /\ Done("hub")
    /\ LET c == op["hub"].code
       IN  Answer(c, [node[c[1]] EXCEPT !.pc = "waiting"], Gone(c[1]))
    /\ UNCHANGED <<expired, history, overlap, commands>>

\* `cc-fleet approve | deny`, or the dashboard's buttons.
DecideRead(p, c, kind) ==
    /\ Command(p) /\ Live(c)
    /\ ReadRequests(p, kind, c,
         [requests EXCEPT ![c].status = IF kind = "approve" THEN "approved" ELSE "denied"])
    /\ UNCHANGED <<expired, node, history>>

DecideWrite(p) ==
    /\ op[p].kind \in {"approve", "deny"}
    /\ WriteRequests(p) /\ Done(p)
    /\ approved' = IF op[p].kind = "approve" THEN approved \cup {op[p].code} ELSE approved
    /\ UNCHANGED <<expired, node, minted, ejected, overlap, commands>>

-----------------------------------------------------------------------------
(* POST /control/device/token: the node polls until the code is decided. *)

\* Variant: a spent code is not told from a fresh one.
Pollable_Spent(c) == requests[c].status # "absent" /\ c \notin expired

Pollable(c) == requests[c].status # "absent" /\ c \notin expired /\ ~requests[c].redeemed

\* Unknown, expired and spent codes are refused without touching the file.
PollRefused(n) ==
    LET c == <<n, node[n].attempt>>
    IN  /\ IsIdle("hub") /\ node[n].pc = "waiting" /\ ~Pollable(c)
        /\ Answer(c, Gone(n), node[n])
        /\ UNCHANGED <<files, work, expired, history, commands>>

\* Variant: whatever is not denied is taken to be approved.
PollKinds_NotDenied(c) ==
    {IF requests[c].status = "denied" THEN "pollDenied" ELSE "pollRedeem"}

\* What the poll of a live, unspent code answers: after an earlier poll it may
\* come too early ("slow_down"), which decides nothing.
PollKinds(c) ==
    (IF requests[c].polled THEN {"pollWait"} ELSE {})
    \cup {CASE requests[c].status = "denied"  -> "pollDenied"
            [] requests[c].status = "pending" -> "pollWait"
            [] OTHER                          -> "pollRedeem"}

PollRead(n, kind) ==
    LET c == <<n, node[n].attempt>>
    IN  /\ IsIdle("hub") /\ node[n].pc = "waiting" /\ Pollable(c)
        /\ kind \in PollKinds(c)
        /\ kind = "pollRedeem" => Len(minted) < MaxTokens      \* bound
        /\ ReadRequests("hub", kind, c,
             [requests EXCEPT ![c] = [@ EXCEPT !.polled = TRUE,
                                                !.redeemed = (kind = "pollRedeem")]])
        /\ UNCHANGED <<expired, node, history, commands>>

\* A redeemed code is not answered yet: its device is enrolled first.
PollWrite ==
    LET c == op["hub"].code
    IN  /\ \/ /\ op["hub"].kind = "pollRedeem"
              /\ op' = [op EXCEPT !["hub"].kind = "admit"]
              /\ UNCHANGED node
           \/ /\ op["hub"].kind = "pollDenied"
              /\ Done("hub")
              /\ Answer(c, Gone(c[1]), node[c[1]])
           \/ /\ op["hub"].kind = "pollWait"
              /\ Done("hub")
              /\ UNCHANGED node
        /\ WriteRequests("hub")
        /\ UNCHANGED <<expired, history, overlap, commands>>

EnrollRead ==
    LET c == op["hub"].code
        h == HostOf[c[1]]
        t == Len(minted) + 1
    IN  /\ op["hub"].kind = "admit"
        /\ \E k \in 1..(Cardinality(devices) + 1) :
              /\ FirstFree(devices, h, k)
              /\ ReadDevices("hub", "enroll", c, t,
                   devices \cup {[id |-> Suffixed(h, k), tok |-> t, revoked |-> FALSE]})
        /\ UNCHANGED <<expired, node, history, commands>>

EnrollWrite ==
    LET c == op["hub"].code
        t == op["hub"].tok
        n == c[1]
    IN  /\ op["hub"].kind = "enroll"
        /\ \E d \in devCopy["hub"] :
              d.tok = t /\ minted' = Append(minted, [code |-> c, id |-> d.id])
        /\ WriteDevices("hub") /\ Done("hub")
        /\ Answer(c, [node[n] EXCEPT !.pc = "out", !.cred = t, !.fatal = FALSE], node[n])
        /\ UNCHANGED <<expired, approved, ejected, overlap, commands>>

Expire(c) ==
    /\ c \notin expired /\ c[2] <= node[c[1]].attempt
    /\ expired' = expired \cup {c}
    /\ UNCHANGED <<files, work, node, history, commands>>

\* The client's own clock says so before it polls again.
GiveUp(n) ==
    /\ node[n].pc = "waiting" /\ <<n, node[n].attempt>> \in expired
    /\ node' = [node EXCEPT ![n] = Gone(n)]
    /\ UNCHANGED <<files, work, expired, history, commands>>

-----------------------------------------------------------------------------
(* The credential: presented on every request, revoked by an operator. *)

Verified(t) == \E d \in Active(devices) : d.tok = t

\* devices.touch: read the registry, move one lastSeenAt, write it all back.
Touch(t) == ReadDevices("hub", "touch", NoCode, t, devices)

TouchWrite ==
    /\ op["hub"].kind = "touch"
    /\ WriteDevices("hub") /\ Done("hub")
    /\ UNCHANGED <<expired, node, history, overlap, commands>>

\* GET /control/events and POST /control/msg with a credential that works: the device
\* is touched.  What becomes of its stream is the matter of HubStreams.
Served(n) ==
    LET t == node[n].cred
    IN  /\ IsIdle("hub") /\ t # 0 /\ Verified(t)
        /\ Touch(t)
        /\ UNCHANGED <<expired, node, history, commands>>

\* 401 is final for the node's agent: it never presents this credential again.
ConnectRefused(n) ==
    LET t == node[n].cred
    IN  /\ IsIdle("hub") /\ t # 0 /\ ~node[n].fatal
        /\ ~Verified(t)
        /\ node' = [node EXCEPT ![n].fatal = TRUE]
        /\ UNCHANGED <<files, work, expired, history, commands>>

\* `cc-fleet revoke <id>`, or the dashboard's button.
RevokeRead(p, d) ==
    /\ Command(p) /\ d \in Active(devices)
    /\ ReadDevices(p, "revoke", NoCode, d.tok,
         (devices \ {d}) \cup {[d EXCEPT !.revoked = TRUE]})
    /\ UNCHANGED <<expired, node, history>>

RevokeWrite(p) ==
    /\ op[p].kind = "revoke"
    /\ WriteDevices(p) /\ Done(p)
    /\ ejected' = ejected \cup {op[p].tok}
    /\ UNCHANGED <<expired, node, minted, approved, overlap, commands>>

-----------------------------------------------------------------------------
\* A process dies between two steps.  The files stay as they were; the
\* unanswered requests are gone with the hub.
Crash(p) ==
    /\ ~IsIdle(p)
    /\ Done(p)
    /\ reqCopy' = [reqCopy EXCEPT ![p] = NoRequests]
    /\ devCopy' = [devCopy EXCEPT ![p] = {}]
    /\ \/ p = "cli" /\ UNCHANGED node
       \/ /\ p = "hub"
          /\ node' = [n \in Nodes |-> IF node[n].pc = "asking" THEN Gone(n) ELSE node[n]]
    /\ UNCHANGED <<files, expired, history, overlap, commands>>

HubWrite == StartWrite \/ PollWrite \/ EnrollRead \/ EnrollWrite \/ TouchWrite
              \/ DecideWrite("hub") \/ RevokeWrite("hub")

Next ==
    \/ HubWrite
    \/ DecideWrite("cli") \/ RevokeWrite("cli")
    \/ \E n \in Nodes : \/ StartRead(n) \/ PollRefused(n) \/ GiveUp(n)
                        \/ Served(n) \/ ConnectRefused(n)
                        \/ \E kind \in Kinds : PollRead(n, kind)
    \/ \E c \in Codes : Expire(c)
    \/ \E p \in Procs : \/ Crash(p)
                        \/ \E c \in Codes, kind \in {"approve", "deny"} : DecideRead(p, c, kind)
                        \/ \E d \in devices : RevokeRead(p, d)

Spec == Init /\ [][Next]_vars

-----------------------------------------------------------------------------
(* Properties *)

\* Every variable keeps its shape.
TypeOK ==
    /\ requests \in [Codes -> Request]
    /\ devices \in SUBSET Device
    /\ expired \in SUBSET Codes
    /\ op \in [Procs -> Op]
    /\ reqCopy \in [Procs -> [Codes -> Request]]
    /\ devCopy \in [Procs -> SUBSET Device]
    /\ overlap \in BOOLEAN
    /\ node \in [Nodes -> [pc : {"out", "asking", "waiting"}, attempt : 0..MaxAttempts,
                           cred : Nat, fatal : BOOLEAN]]
    /\ minted \in Seq([code : Codes, id : DeviceIds])
    /\ approved \in SUBSET Codes
    /\ ejected \in SUBSET (Nat \ {0})
    /\ commands \in Nat

IdsUnique(reg) == \A d, e \in Active(reg) : d.id = e.id => d = e

\* However the two processes interleave, no two active devices share an id: not
\* in devices.json, nor in what a process is about to write there (enroll).
ActiveIdsUnique == IdsUnique(devices) /\ \A p \in Procs : IdsUnique(devCopy[p])

\* No credential is ever issued for a code that no operator approved, whatever is
\* lost, overwritten, resent or cut short by a crash (poll, decide).
AdmittedWasApproved == \A t \in DOMAIN minted : minted[t].code \in approved

\* "Approval is consumed exactly once": unless two updates of a file have
\* overlapped, a code yields one credential at most, even when the answer that
\* carried it was lost or the hub died between redeeming and enrolling.
CodeMintsOnce ==
    overlap \/ \A t, u \in DOMAIN minted : minted[t].code = minted[u].code => t = u

\* Unless two updates have overlapped, a credential works exactly until an
\* operator revokes it: revoking one device leaves the others alone, and nothing
\* brings a revoked one back (enroll, touch, revoke, verify).
WorksUntilRevoked == overlap \/ \A t \in DOMAIN minted : Verified(t) <=> t \notin ejected

=============================================================================
