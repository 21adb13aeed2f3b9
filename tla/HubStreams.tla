----------------------------- MODULE HubStreams -----------------------------
(***************************************************************************)
(* The open streams of the nodes as the hub keeps them.                    *)
(*                                                                         *)
(* The hub has two registries of its streams: the HTTP layer's map from a  *)
(* device id to the peer that reports of this device are handed to, and    *)
(* the set of peers every publication goes to.  A stream ends in many      *)
(* ways, each noticed at another time: its node goes away and the request  *)
(* closes (at once, or when the connection times out), a write to the dead *)
(* socket throws, a newer stream of the same id takes its place, its       *)
(* device is revoked.  Several of these happen to one stream, in any       *)
(* order: the request of a superseded stream closes when its successor has *)
(* long been registered.                                                   *)
(*                                                                         *)
(* stream     every stream opened so far: the credential it presented; how *)
(*            its socket is; closed and accepted, whether the peer was     *)
(*            closed and ever handed to the hub; told, the last            *)
(*            publication written to it                                    *)
(* peers      the stream registered for each device id, 0 if none          *)
(* fleet      the streams that publications go to (Hub.peers)              *)
(* issued, active   the credentials issued, and those not revoked          *)
(* published  the number of the last publication                           *)
(***************************************************************************)
EXTENDS Naturals, Sequences, FiniteSets

CONSTANTS Creds,             \* credentials that are issued sooner or later
          IdOf,              \* the device id of each; a revoked one's id is free again
          MaxStreams,        \* bound: streams opened
          MaxPublications    \* bound: publications

ASSUME HubStreamsAssumption == MaxStreams \in Nat /\ MaxPublications \in Nat

VARIABLES stream, peers, fleet, issued, active, published

registries == <<stream, peers, fleet>>
credentials == <<issued, active>>
hubVars == <<registries, credentials, published>>

Ids == {IdOf[c] : c \in Creds}
Opened == DOMAIN stream
IdOn(s) == IdOf[stream[s].cred]
Working(i) == \E c \in active : IdOf[c] = i

\* A stream that was handed to the hub and is not closed: its timers run.
Serving(s) == stream[s].accepted /\ ~stream[s].closed

HubInit ==
    /\ stream = <<>>
    /\ peers = [i \in Ids |-> 0]
    /\ fleet = {}
    /\ issued = {} /\ active = {}
    /\ published = 0

-----------------------------------------------------------------------------
Issue(c) ==
    /\ c \notin issued /\ ~Working(IdOf[c])
    /\ issued' = issued \cup {c} /\ active' = active \cup {c}
    /\ UNCHANGED <<registries, published>>

Revoke(c) ==
    /\ c \in active
    /\ active' = active \ {c}
    /\ UNCHANGED <<registries, issued, published>>

Shut(S) == [s \in Opened |-> [stream[s] EXCEPT !.closed = @ \/ s \in S]]

\* Variant: whoever closes, and however often, takes the device out of the map.
Close_ById(S) ==
    /\ peers' = [i \in Ids |-> IF \E s \in S : IdOn(s) = i THEN 0 ELSE peers[i]]
    /\ fleet' = fleet \ S

\* HttpPeer.close of the streams in S.  The first time, the two handlers of the peer
\* run: it leaves the map if it is still what is registered there, and the hub's set.
Close(S) ==
    LET gone == {s \in S : Serving(s)}
    IN  /\ peers' = [i \in Ids |-> IF peers[i] \in gone THEN 0 ELSE peers[i]]
        /\ fleet' = fleet \ gone

\* GET /control/events.  The older stream of the device is closed, the new one is
\* registered, the device is touched, the handlers are set, the hub accepts the peer
\* and writes the current state to it.  The touch may throw ("orphan": registered, but
\* without handlers and never accepted), and so may the first write ("broken").
OpenStream(c) ==
    LET i == IdOf[c]
        s == Len(stream) + 1
        older == {peers[i]} \ {0}
    IN  /\ c \in active
        /\ s <= MaxStreams                       \* bound
        /\ \E how \in {"served", "orphan", "broken"} :
             /\ stream' = Append(Shut(older),
                                 [cred |-> c, socket |-> IF how = "served" THEN "up" ELSE "down",
                                  closed |-> how = "broken", accepted |-> how # "orphan",
                                  told |-> IF how = "served" THEN published ELSE 0])
             /\ peers' = [peers EXCEPT ![i] = IF how = "broken" THEN 0 ELSE s]
             /\ fleet' = (fleet \ older) \cup (IF how = "served" THEN {s} ELSE {})
        /\ UNCHANGED <<credentials, published>>

\* The node's end goes away; the hub does not know yet.
Break(s) ==
    /\ stream[s].socket = "up"
    /\ stream' = [stream EXCEPT ![s].socket = "down"]
    /\ UNCHANGED <<peers, fleet, credentials, published>>

\* The request's close event: its node went away, or the hub closed the peer, perhaps
\* long ago, and ended the response with it.
RequestEnds(s) ==
    /\ stream[s].socket = "down" \/ (stream[s].socket = "up" /\ stream[s].closed)
    /\ stream' = [Shut({s} \cap {r \in Opened : Serving(r)}) EXCEPT ![s].socket = "ended"]
    /\ Close({s})
    /\ UNCHANGED <<credentials, published>>

\* The keep-alive's write to a dead socket throws.
KeepAlive(s) ==
    /\ Serving(s) /\ stream[s].socket # "up"
    /\ stream' = Shut({s}) /\ Close({s})
    /\ UNCHANGED <<credentials, published>>

\* The two-second check: does the device id of the stream still work?
RevokeCheck(s) ==
    /\ Serving(s) /\ ~Working(IdOn(s))
    /\ stream' = Shut({s}) /\ Close({s})
    /\ UNCHANGED <<credentials, published>>

\* Hub.publish: to every stream of the fleet; a write to a dead socket may throw, which
\* closes that stream while the others are still to be told.
Publish ==
    /\ published < MaxPublications               \* bound
    /\ published' = published + 1
    /\ \E dead \in SUBSET {r \in fleet : stream[r].socket # "up"} :
         /\ stream' = [s \in Opened |-> IF s \in fleet \ dead
                                        THEN [stream[s] EXCEPT !.told = published']
                                        ELSE Shut(dead)[s]]
         /\ Close(dead)
    /\ UNCHANGED credentials

\* The hub's process ends, and another one starts without any stream.
HubRestart ==
    /\ stream' = [s \in Opened |-> [stream[s] EXCEPT !.closed = TRUE, !.socket = "ended"]]
    /\ peers' = [i \in Ids |-> 0] /\ fleet' = {}
    /\ UNCHANGED <<credentials, published>>

HubNext ==
    \/ \E c \in Creds : Issue(c) \/ Revoke(c) \/ OpenStream(c)
    \/ \E s \in Opened : Break(s) \/ RequestEnds(s) \/ KeepAlive(s) \/ RevokeCheck(s)
    \/ Publish \/ HubRestart

HubSpec == HubInit /\ [][HubNext]_hubVars

-----------------------------------------------------------------------------
(* Properties *)

\* Every variable keeps its shape.
HubTypeOK ==
    /\ stream \in Seq([cred : Creds, socket : {"up", "down", "ended"}, closed : BOOLEAN,
                       accepted : BOOLEAN, told : Nat])
    /\ peers \in [Ids -> Nat]
    /\ fleet \in SUBSET Nat
    /\ issued \in SUBSET Creds /\ active \in SUBSET issued
    /\ published \in Nat

\* Both registries are in order: a stream that is served is the last one opened for its
\* device, is the one its reports are handed to, and gets the publications; and neither
\* registry keeps a closed stream.
Registered ==
    /\ \A s \in Opened : Serving(s) =>
          /\ peers[IdOn(s)] = s /\ s \in fleet
          /\ \A t \in Opened : t > s => IdOn(t) # IdOn(s)
    /\ \A s \in fleet : s \in Opened /\ Serving(s)
    /\ \A i \in Ids : peers[i] # 0 => ~stream[peers[i]].closed /\ IdOn(peers[i]) = i

\* Every served stream has been written the last publication, on connecting or since.
EveryoneIsTold == \A s \in Opened : Serving(s) => stream[s].told = published

\* "Newest wins", and nothing that happens to an older stream afterwards changes that (GET
\* /control/events, "don't evict a newer connection", Hub.accept); and whoever is served has
\* the last publication: "one dead peer must not abort the broadcast and starve the rest".
NewestIsServed == Registered /\ EveryoneIsTold

=============================================================================
