----------------------------- MODULE FleetSync -----------------------------
(***************************************************************************)
(* From an edit of profile.json on the hub to the stores of the nodes.     *)
(*                                                                         *)
(* The hub watches the directory of the file, reloads it after a debounce, *)
(* keeps the last profile that parsed and pushes to every open stream what *)
(* that profile wants for the device.  A node applies the frames of its    *)
(* stream one by one, reports with requests of their own, which may be     *)
(* lost or overtake each other, and opens a new stream when the old one    *)
(* ends.  Streams break, the hub crashes and restarts, files are saved     *)
(* half-written, devices are revoked.                                      *)
(*                                                                         *)
(* file      profile.json: its version and what it wants for each device   *)
(* hub       "down", "loaded" (not watching yet) or "up"                   *)
(* loaded    the last profile that parsed (ProfileStore.current)           *)
(* watching, timer   the directory watch and the debounce timer            *)
(* peer      the hub has a stream to the node it writes to                 *)
(* link, wire   the node has a stream it reads, and the frames on it       *)
(* held, status, version   what ~/.agents/fleet of a node holds, and what  *)
(*           its agent says of the last frame                              *)
(* reports   reports under way; lastApplied   the last one that arrived    *)
(* enrolled, fatal   the credential of the node works; its agent gave up   *)
(* served    history: the profiles the hub has loaded                      *)
(* missed    history: an edit fell between load and watch                  *)
(***************************************************************************)
EXTENDS Naturals, Sequences, FiniteSets

CONSTANTS Devices,
          Unassigned, Refused,  \* what a profile may want: nothing said; a state
                                \* that the validation of the agent refuses
          Untouched, Mixed,     \* what a node may hold: its own files; a half-done apply;
          Surplus,              \* all that is wanted, and files that could not be deleted
          Wants,                \* the functions from Devices a profile may be
          Corrupt,              \* contents that do not parse
          MaxEdits, MaxTroubles \* bounds: edits; breaks, crashes and disk failures

ASSUME WantsAssumption == \A w \in Wants : DOMAIN w = Devices
ASSUME SyncBoundsAssumption == MaxEdits \in Nat \ {0} /\ MaxTroubles \in Nat

VARIABLES file, hub, loaded, watching, timer, peer, link, wire, held, status,
          reports, lastApplied, enrolled, fatal, served, missed, troubles

hubVars == <<hub, loaded, watching, timer, served>>
linkVars == <<peer, link, wire>>
nodeVars == <<held, status>>
reportVars == <<reports, lastApplied>>
accessVars == <<enrolled, fatal>>
vars == <<file, hubVars, linkVars, nodeVars, reportVars, accessVars, missed, troubles>>

Trouble == troubles < MaxTroubles /\ troubles' = troubles + 1

-----------------------------------------------------------------------------
Nothing == [v |-> 0, want |-> Corrupt]      \* of a hub that never loaded a profile

Init ==
    /\ \E w \in Wants \cup {Corrupt} : file = [v |-> 1, want |-> w]
    /\ hub = "down" /\ loaded = Nothing /\ watching = FALSE /\ timer = FALSE
    /\ peer = [d \in Devices |-> FALSE]
    /\ link = [d \in Devices |-> FALSE]
    /\ wire = [d \in Devices |-> <<>>]
    /\ held = [d \in Devices |-> [v |-> 0, state |-> Untouched]]
    /\ status = [d \in Devices |-> "connecting"]
    /\ reports = {}
    /\ lastApplied = [d \in Devices |-> [v |-> 0, ok |-> FALSE]]
    /\ enrolled = [d \in Devices |-> TRUE]
    /\ fatal = [d \in Devices |-> FALSE]
    /\ served = <<>>
    /\ missed = FALSE
    /\ troubles = 0

\* What the hub says to d under a profile: silence if none was ever loaded.  Client settings,
\* which ride along while the tunnel is up, are no part of the state (see ClientConfig).
FrameFor(profile, d) ==
    IF profile = Nothing THEN <<>> ELSE <<[v |-> profile.v, want |-> profile.want[d]]>>

\* Every open stream gets its frame; on a stream the node no longer reads it is lost.
PushAll(profile) ==
    wire' = [d \in Devices |-> IF peer[d] /\ link[d]
                               THEN wire[d] \o FrameFor(profile, d) ELSE wire[d]]

\* ProfileStore.load: a file that does not parse leaves the last good profile.
Load ==
    IF file.want = Corrupt
    THEN UNCHANGED <<loaded, served>>
    ELSE /\ loaded' = file
         /\ served' = IF file = loaded THEN served ELSE Append(served, file)

-----------------------------------------------------------------------------
(* The hub's profile. *)

\* Variant: the file is watched, not its directory; the first rename ends that.
Edit_Deaf(w) ==
    /\ file.v < MaxEdits
    /\ file' = [v |-> file.v + 1, want |-> w]
    /\ timer' = (timer \/ (hub = "up" /\ watching /\ file.v = 1))
    /\ missed' = (missed \/ hub = "loaded")
    /\ UNCHANGED <<hub, loaded, watching, served, linkVars, nodeVars, reportVars,
                   accessVars, troubles>>

\* Somebody saves profile.json, perhaps half-written.  The watch sees it.
Edit(w) ==
    /\ file.v < MaxEdits
    /\ file' = [v |-> file.v + 1, want |-> w]
    /\ timer' = (timer \/ (hub = "up" /\ watching))
    /\ missed' = (missed \/ hub = "loaded")
    /\ UNCHANGED <<hub, loaded, watching, served, linkVars, nodeVars, reportVars,
                   accessVars, troubles>>

\* startControlHub: load, then watch.
HubLoad ==
    /\ hub = "down"
    /\ hub' = "loaded"
    /\ Load
    /\ missed' = FALSE
    /\ UNCHANGED <<file, watching, timer, linkVars, nodeVars, reportVars, accessVars, troubles>>

HubWatch ==
    /\ hub = "loaded"
    /\ hub' = "up" /\ watching' = TRUE
    /\ UNCHANGED <<file, loaded, timer, served, linkVars, nodeVars, reportVars, accessVars,
                   missed, troubles>>

\* The watch reports an error and is dropped; nobody sets it up again.
WatchError ==
    /\ hub = "up" /\ watching /\ Trouble
    /\ watching' = FALSE
    /\ UNCHANGED <<file, hub, loaded, timer, served, linkVars, nodeVars, reportVars,
                   accessVars, missed>>

\* The debounce timer fires: reload, and publish only new contents that parse.
Reload ==
    /\ timer
    /\ timer' = FALSE /\ missed' = FALSE
    /\ Load
    /\ IF file.want # Corrupt /\ file # loaded THEN PushAll(file) ELSE UNCHANGED wire
    /\ UNCHANGED <<file, hub, watching, peer, link, nodeVars, reportVars, accessVars,
                   troubles>>

\* hub.publish for another reason: the tunnel came online, the key was rotated.
Republish ==
    /\ hub = "up" /\ Trouble
    /\ PushAll(loaded)
    /\ UNCHANGED <<file, hubVars, peer, link, nodeVars, reportVars, accessVars, missed>>

HubCrash ==
    /\ hub # "down" /\ Trouble
    /\ hub' = "down" /\ loaded' = Nothing /\ watching' = FALSE /\ timer' = FALSE
    /\ peer' = [d \in Devices |-> FALSE]
    /\ lastApplied' = [d \in Devices |-> [v |-> 0, ok |-> FALSE]]
    /\ UNCHANGED <<file, served, link, wire, nodeVars, reports, accessVars, missed>>

-----------------------------------------------------------------------------
(* Streams. *)

\* GET /control/events: a fresh stream that starts with the current state.
Connect(d) ==
    /\ hub = "up" /\ ~link[d] /\ ~fatal[d] /\ enrolled[d]
    /\ link' = [link EXCEPT ![d] = TRUE]
    /\ peer' = [peer EXCEPT ![d] = TRUE]
    /\ wire' = [wire EXCEPT ![d] = FrameFor(loaded, d)]
    /\ UNCHANGED <<file, hubVars, nodeVars, reportVars, accessVars, missed, troubles>>

\* 401 ends the agent's loop for good.
ConnectRefused(d) ==
    /\ hub = "up" /\ ~link[d] /\ ~fatal[d] /\ ~enrolled[d]
    /\ fatal' = [fatal EXCEPT ![d] = TRUE]
    /\ UNCHANGED <<file, hubVars, linkVars, nodeVars, reportVars, enrolled, missed, troubles>>

\* The node's side of the stream fails: what was on it is lost, and the hub may
\* go on writing to a socket nobody reads.
Break(d) ==
    /\ link[d] /\ Trouble
    /\ link' = [link EXCEPT ![d] = FALSE]
    /\ wire' = [wire EXCEPT ![d] = <<>>]
    /\ peer' \in {peer, [peer EXCEPT ![d] = FALSE]}
    /\ UNCHANGED <<file, hubVars, nodeVars, reportVars, accessVars, missed>>

\* The hub ends the stream: a newer one with the same id (`cc-fleet push`) has
\* taken its place, or a write failed.
Supersede(d) ==
    /\ peer[d] /\ Trouble
    /\ peer' = [peer EXCEPT ![d] = FALSE]
    /\ UNCHANGED <<file, hubVars, link, wire, nodeVars, reportVars, accessVars, missed>>

\* The node has read the last frame of a stream the hub has ended.
EndOfStream(d) ==
    /\ link[d] /\ ~peer[d] /\ wire[d] = <<>>
    /\ link' = [link EXCEPT ![d] = FALSE]
    /\ UNCHANGED <<file, hubVars, peer, wire, nodeVars, reportVars, accessVars, missed, troubles>>

Revoke(d) ==
    /\ enrolled[d]
    /\ enrolled' = [enrolled EXCEPT ![d] = FALSE]
    /\ UNCHANGED <<file, hubVars, linkVars, nodeVars, reportVars, fatal, missed, troubles>>

\* Variant: a stream is checked only once its node no longer reads it.
RevokeCheck_Late(d) ==
    /\ peer[d] /\ ~enrolled[d] /\ ~link[d]
    /\ peer' = [peer EXCEPT ![d] = FALSE]
    /\ UNCHANGED <<file, hubVars, link, wire, nodeVars, reportVars, accessVars, missed, troubles>>

\* The two-second check of every open stream.
RevokeCheck(d) ==
    /\ peer[d] /\ ~enrolled[d]
    /\ peer' = [peer EXCEPT ![d] = FALSE]
    /\ UNCHANGED <<file, hubVars, link, wire, nodeVars, reportVars, accessVars, missed, troubles>>

-----------------------------------------------------------------------------
(* The agent. *)

\* Variant: an apply that failed is reported like one that did not.
Report_Blind(d, v, ok) == reports' = reports \cup {[d |-> d, v |-> v, ok |-> TRUE]}

Report(d, v, ok) == reports' = reports \cup {[d |-> d, v |-> v, ok |-> ok]}

\* Variant: not managed is taken for managed with nothing.
Applicable_Bystander(frame) == frame.want # Refused

\* What a frame wants applied: neither `unassigned` nor a state that is refused.
Applicable(frame) == frame.want \notin {Unassigned, Refused}

\* d then holds one of the states, as of version v.
Holds(d, v, states) == held' \in {[held EXCEPT ![d] = [v |-> v, state |-> s]] : s \in states}

\* One frame, handled to its end before the next: `unassigned` changes nothing; a
\* state that does not validate is refused before the store is touched.
Receive(d) ==
    /\ link[d] /\ wire[d] # <<>>
    /\ wire' = [wire EXCEPT ![d] = Tail(@)]
    /\ LET frame == Head(wire[d])
       IN  \/ /\ frame.want = Unassigned
              /\ status' = [status EXCEPT ![d] = "unassigned"]
              /\ UNCHANGED <<held, reports, troubles>>
           \/ /\ frame.want = Refused
              /\ status' = [status EXCEPT ![d] = "error"]
              /\ Report(d, frame.v, FALSE)
              /\ UNCHANGED <<held, troubles>>
           \/ /\ Applicable(frame)
              /\ status' = [status EXCEPT ![d] = "applied"]
              /\ \/ Holds(d, frame.v, {frame.want}) /\ UNCHANGED troubles
                 \/ Holds(d, frame.v, {Surplus}) /\ Trouble   \* a deletion fails: a warning
              /\ Report(d, frame.v, TRUE)
           \/ /\ Applicable(frame) /\ Trouble  \* the disk fails
              /\ status' = [status EXCEPT ![d] = "error"]
              /\ \/ Holds(d, held[d].v, {held[d].state, Mixed})   \* early or half-way
                 \/ Holds(d, frame.v, {frame.want, Surplus})      \* in the projection
              /\ Report(d, frame.v, FALSE)
    /\ UNCHANGED <<file, hubVars, peer, link, lastApplied, accessVars, missed>>

\* POST /control/msg: accepted from an enrolled device with an open stream; any
\* other report is answered with an error, and no report is ever sent twice.
Deliver(r) ==
    /\ reports' = reports \ {r}
    /\ lastApplied' = IF hub = "up" /\ peer[r.d] /\ enrolled[r.d]
                      THEN [lastApplied EXCEPT ![r.d] = [v |-> r.v, ok |-> r.ok]]
                      ELSE lastApplied
    /\ UNCHANGED <<file, hubVars, linkVars, nodeVars, accessVars, missed, troubles>>

-----------------------------------------------------------------------------
Next ==
    \/ \E w \in Wants \cup {Corrupt} : Edit(w)
    \/ HubLoad \/ HubWatch \/ WatchError \/ Reload \/ Republish \/ HubCrash
    \/ \E d \in Devices : \/ Connect(d) \/ ConnectRefused(d) \/ Break(d) \/ Supersede(d)
                          \/ EndOfStream(d) \/ Revoke(d) \/ RevokeCheck(d) \/ Receive(d)
    \/ \E r \in reports : Deliver(r)

\* The hub is restarted when it dies and runs its timers; a node keeps reading and
\* reconnecting.  Edits, revocations and troubles need never happen.
Fairness ==
    /\ WF_vars(HubLoad) /\ WF_vars(HubWatch) /\ WF_vars(Reload)
    /\ \A d \in Devices : /\ WF_vars(Connect(d)) /\ WF_vars(ConnectRefused(d))
                          /\ WF_vars(EndOfStream(d)) /\ WF_vars(Receive(d))
                          /\ WF_vars(RevokeCheck(d))

Spec == Init /\ [][Next]_vars /\ Fairness

-----------------------------------------------------------------------------
(* Properties *)

Profile == [v : 1..MaxEdits, want : Wants]
States == UNION {{w[d] : d \in Devices} : w \in Wants}

\* Every variable keeps its shape; above all, the hub serves only what parsed.
TypeOK ==
    /\ file \in [v : 1..MaxEdits, want : Wants \cup {Corrupt}]
    /\ hub \in {"down", "loaded", "up"}
    /\ loaded \in Profile \cup {Nothing}
    /\ watching \in BOOLEAN /\ timer \in BOOLEAN /\ missed \in BOOLEAN
    /\ peer \in [Devices -> BOOLEAN] /\ link \in [Devices -> BOOLEAN]
    /\ wire \in [Devices -> Seq([v : 1..MaxEdits, want : States])]
    /\ held \in [Devices -> [v : 0..MaxEdits, state : States \cup {Untouched, Mixed, Surplus}]]
    /\ status \in [Devices -> {"connecting", "unassigned", "error", "applied"}]
    /\ reports \in SUBSET [d : Devices, v : 1..MaxEdits, ok : BOOLEAN]
    /\ lastApplied \in [Devices -> [v : 0..MaxEdits, ok : BOOLEAN]]
    /\ enrolled \in [Devices -> BOOLEAN] /\ fatal \in [Devices -> BOOLEAN]
    /\ served \in Seq(Profile)
    /\ troubles \in 0..MaxTroubles

\* What runs between hub and node implements the promise of FleetState.
Fleet == INSTANCE FleetState WITH served <- served, held <- held, Devices <- Devices, Unassigned <- Unassigned,
                 Refused <- Refused, Untouched <- Untouched, Mixed <- Mixed, Surplus <- Surplus
ImplementsFleet == Fleet!FleetSpec

\* The hub never believes a node holds a newer profile than it does, however its
\* reports are lost or overtake each other (report, onNodeMessage).
HubNeverAhead == \A d \in Devices : lastApplied[d].ok => lastApplied[d].v <= held[d].v

\* Whatever is edited, breaks or crashes, in the end the hub serves the file, unless it
\* does not parse, the watch is gone, or the last edit fell between load and watch; and
\* every node with a working credential holds what the hub serves for it, but for files that
\* it could not delete, unless it failed and says so, or is not to be touched.
Synced ==
    /\ hub = "up"
    /\ file.want = Corrupt \/ ~watching \/ missed \/ loaded = file
    /\ \A d \in Devices :
          \/ ~enrolled[d] \/ loaded = Nothing
          \/ /\ link[d] /\ peer[d]
             /\ \/ status[d] = "error"
                \/ loaded.want[d] = Unassigned
                \/ held[d].v = loaded.v /\ held[d].state \in {loaded.want[d], Surplus}
Convergence == <>[]Synced

\* "Revocation must reach an OPEN connection": a revoked node loses its stream and its
\* agent stops for good instead of retrying (revokeCheck, emitFatal).
RevokedNodeStops == \A d \in Devices : ~enrolled[d] ~> fatal[d] /\ ~peer[d]

=============================================================================
