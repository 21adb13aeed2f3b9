---- MODULE MCEnrolment ----
(* Machines of one hostname, so that ids collide, and one whose hostname is what the second of *)
(* the others is called; and the streams of devices whose credentials come and go.             *)
EXTENDS Enrolment, HubStreams, TLC
CONSTANTS Namesakes, Third
MCHostOf == [n \in Nodes |-> IF n = Third THEN "laptop-2" ELSE "laptop"]
MCSuffixed(h, k) == IF k = 1 THEN h ELSE h \o "-" \o ToString(k)
MCIdOf == [c \in Creds |-> IF c = "desktop" THEN "desktop" ELSE "laptop"]
Symmetry == Permutations(Namesakes)

(* The registry and the streams meet only in which credentials work, and there a stream may    *)
(* meet any: each is explored while the other rests.                                           *)
HubTogether == Init /\ HubInit
HubMoves == HubInit /\ Next /\ UNCHANGED hubVars
StreamsMove == Init /\ HubNext /\ UNCHANGED vars
MCSpec == HubTogether /\ [][HubMoves \/ StreamsMove]_<<vars, hubVars>>

(* Commands against two machines, or three machines without commands. *)
Bounded == commands = 0 \/ (node[Third].attempt = 0 /\ Len(minted) <= 2)
====
