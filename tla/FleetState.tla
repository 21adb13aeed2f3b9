----------------------------- MODULE FleetState -----------------------------
(***************************************************************************)
(* What the control plane promises, without hub, streams or messages.      *)
(*                                                                         *)
(* Profiles are served one after the other.  What a node holds only ever   *)
(* changes to what a served profile wants for that very node, never to an  *)
(* older profile than the one it holds; a profile that does not assign the *)
(* node leaves the node alone.  There are two exceptions.  Files that the  *)
(* node cannot delete stay beside what is wanted; and a disk that fails    *)
(* half-way leaves a mixture, and only a profile no older than the last    *)
(* one of the node takes it out of that.                                   *)
(***************************************************************************)
EXTENDS Naturals, Sequences

CONSTANTS Devices, Unassigned, Refused, Untouched, Mixed, Surplus

VARIABLES served,   \* sequence of [v, want]: the profiles served so far
          held      \* [Devices -> [v, state]]: what each node holds, and since which version

FleetInit ==
    /\ served = <<>>
    /\ held = [d \in Devices |-> [v |-> 0, state |-> Untouched]]

Serve ==
    /\ Len(served') = Len(served) + 1
    /\ SubSeq(served', 1, Len(served)) = served
    /\ UNCHANGED held

\* d takes over the i-th served profile, perhaps with a surplus of its old files.
TakeOver(d, i) ==
    /\ served[i].v >= held[d].v
    /\ served[i].want[d] \notin {Unassigned, Refused}
    /\ \E s \in {served[i].want[d], Surplus} :
          held' = [held EXCEPT ![d] = [v |-> served[i].v, state |-> s]]
    /\ UNCHANGED served

Spoil(d) ==
    /\ held' = [held EXCEPT ![d].state = Mixed]
    /\ UNCHANGED served

FleetNext ==
    \/ Serve
    \/ \E d \in Devices : Spoil(d) \/ \E i \in DOMAIN served : TakeOver(d, i)

FleetSpec == FleetInit /\ [][FleetNext]_<<served, held>>

=============================================================================
