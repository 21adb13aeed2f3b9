-------------------------- MODULE FleetSync_proofs --------------------------
(***************************************************************************)
(* Proofs about FleetSync, for any devices, profiles and bounds.           *)
(*                                                                         *)
(* Both results rest on the order of versions: what is held is no newer    *)
(* than any frame under way, frames are under way in the order in which    *)
(* their profiles were served, and the profile the hub serves is its       *)
(* newest.  No crash disturbs that, because the file only moves on.        *)
(***************************************************************************)
EXTENDS FleetSync, TLAPS

Frames == [v : 1..MaxEdits, want : States]

-----------------------------------------------------------------------------
(* The inductive invariant. *)

\* What a profile says to d.
Told(profile, d) == [v |-> profile.v, want |-> profile.want[d]]

ServedIsPast == \A j \in DOMAIN served : served[j].v <= file.v

\* The profile the hub serves is one it has served, and no older than any of them.
LoadedIsNewest ==
    loaded # Nothing => /\ loaded.v <= file.v
                        /\ \E j \in DOMAIN served : served[j] = loaded
                        /\ \A j \in DOMAIN served : served[j].v <= loaded.v

FramesWereServed ==
    \A d \in Devices : \A i \in DOMAIN wire[d] :
       \E j \in DOMAIN served : wire[d][i] = Told(served[j], d)

FramesInOrder ==
    \A d \in Devices : \A i, k \in DOMAIN wire[d] : i <= k => wire[d][i].v <= wire[d][k].v

HeldWasServed ==
    \A d \in Devices : held[d].v = 0 \/ \E j \in DOMAIN served : served[j].v = held[d].v

HeldBehindFrames == \A d \in Devices : \A i \in DOMAIN wire[d] : held[d].v <= wire[d][i].v

ReportsAreTrue == \A r \in reports : r.ok => r.v <= held[r.d].v

Order ==
    /\ ServedIsPast /\ LoadedIsNewest
    /\ FramesWereServed /\ FramesInOrder
    /\ HeldWasServed /\ HeldBehindFrames
    /\ ReportsAreTrue /\ HubNeverAhead

SyncInv == TypeOK /\ Order

-----------------------------------------------------------------------------
(* Types. *)

LEMMA ProfileFacts ==
    ASSUME NEW p \in Profile, NEW d \in Devices
    PROVE  /\ p # Nothing /\ p.v \in 1..MaxEdits
           /\ p.want[d] \in States /\ Told(p, d) \in Frames
<1>1. p.v \in 1..MaxEdits /\ p.want \in Wants
  BY DEF Profile
<1>2. p # Nothing
  BY <1>1, SyncBoundsAssumption DEF Nothing
<1>3. p.want[d] \in States
  <2>1. p.want[d] \in {p.want[e] : e \in Devices}
    OBVIOUS
  <2> QED
    BY <1>1, <2>1 DEF States
<1> QED
  BY <1>1, <1>2, <1>3 DEF Told, Frames

LEMMA FrameType ==
    ASSUME NEW p \in Profile \cup {Nothing}, NEW d \in Devices
    PROVE  /\ FrameFor(p, d) \in Seq(Frames)
           /\ FrameFor(p, d) = IF p = Nothing THEN <<>> ELSE <<Told(p, d)>>
BY ProfileFacts DEF FrameFor, Told

LEMMA TypeInit == Init => TypeOK
<1> SUFFICES ASSUME Init PROVE TypeOK
  OBVIOUS
<1>1. file \in [v : 1..MaxEdits, want : Wants \cup {Corrupt}]
  BY SyncBoundsAssumption DEF Init
<1>2. served \in Seq(Profile) /\ wire \in [Devices -> Seq(Frames)]
  BY DEF Init
<1>3. held \in [Devices -> [v : 0..MaxEdits, state : States \cup {Untouched, Mixed, Surplus}]]
  BY SyncBoundsAssumption DEF Init
<1>4. lastApplied \in [Devices -> [v : 0..MaxEdits, ok : BOOLEAN]]
  BY SyncBoundsAssumption DEF Init
<1>5. troubles \in 0..MaxTroubles
  BY SyncBoundsAssumption DEF Init
<1> QED
  BY <1>1, <1>2, <1>3, <1>4, <1>5 DEF Init, TypeOK, Frames

\* Loading serves the file as a new profile, or changes nothing.
LEMMA LoadStep ==
    ASSUME TypeOK, Load
    PROVE  /\ loaded' \in Profile \cup {Nothing} /\ served' \in Seq(Profile)
           /\ \/ loaded' = loaded /\ served' = served
              \/ file \in Profile /\ loaded' = file /\ served' = Append(served, file)
<1>1. file \in [v : 1..MaxEdits, want : Wants \cup {Corrupt}] /\ served \in Seq(Profile)
      /\ loaded \in Profile \cup {Nothing}
  BY DEF TypeOK
<1>2. CASE file.want = Corrupt
  BY <1>1, <1>2 DEF Load
<1>3. CASE file.want # Corrupt
  <2>1. file \in Profile
    BY <1>1, <1>3 DEF Profile
  <2> QED
    BY <1>1, <1>3, <2>1 DEF Load
<1> QED
  BY <1>2, <1>3

\* A push lengthens some streams by what the profile says.
LEMMA PushStep ==
    ASSUME TypeOK, NEW p \in Profile \cup {Nothing}, PushAll(p)
    PROVE  /\ wire' \in [Devices -> Seq(Frames)]
           /\ \A d \in Devices : \/ wire'[d] = wire[d]
                                 \/ p \in Profile /\ wire'[d] = Append(wire[d], Told(p, d))
<1>1. \A d \in Devices : /\ wire'[d] \in Seq(Frames)
                         /\ \/ wire'[d] = wire[d]
                            \/ p \in Profile /\ wire'[d] = Append(wire[d], Told(p, d))
  <2> SUFFICES ASSUME NEW d \in Devices
               PROVE  /\ wire'[d] \in Seq(Frames)
                      /\ \/ wire'[d] = wire[d]
                         \/ p \in Profile /\ wire'[d] = Append(wire[d], Told(p, d))
    OBVIOUS
  <2>1. wire[d] \in Seq(Frames)
    BY DEF TypeOK, Frames
  <2>2. wire'[d] = wire[d] \/ wire'[d] = wire[d] \o FrameFor(p, d)
    BY DEF PushAll
  <2>3. CASE p = Nothing
    <3>1. FrameFor(p, d) = <<>>
      BY <2>3, FrameType
    <3> QED
      BY <2>1, <2>2, <3>1
  <2>4. CASE p # Nothing
    <3>1. p \in Profile /\ FrameFor(p, d) = <<Told(p, d)>> /\ Told(p, d) \in Frames
      BY <2>4, FrameType, ProfileFacts
    <3> DEFINE told == Told(p, d)
    <3> HIDE DEF told
    <3>2. wire[d] \o <<told>> = Append(wire[d], told) /\ Append(wire[d], told) \in Seq(Frames)
      BY <2>1, <3>1 DEF told
    <3>3. wire'[d] = wire[d] \/ wire'[d] = Append(wire[d], told)
      BY <2>2, <3>1, <3>2, Zenon DEF told
    <3>4. wire'[d] \in Seq(Frames)
      BY <2>1, <3>2, <3>3
    <3> QED
      BY <3>1, <3>3, <3>4, Zenon DEF told
  <2> QED
    BY <2>3, <2>4
<1>2. wire' = [d \in Devices |-> wire'[d]]
  BY DEF PushAll
<1> QED
  BY <1>1, <1>2

\* A frame that is received is one of the kind, and the rest of the stream is a stream.
LEMMA HeadStep ==
    ASSUME TypeOK, NEW d \in Devices, wire[d] # <<>>
    PROVE  /\ wire[d] \in Seq(Frames) /\ Len(wire[d]) \in Nat \ {0}
           /\ Head(wire[d]) = wire[d][1] /\ Head(wire[d]) \in Frames
           /\ Tail(wire[d]) \in Seq(Frames) /\ Len(Tail(wire[d])) = Len(wire[d]) - 1
           /\ \A i \in DOMAIN Tail(wire[d]) : i + 1 \in DOMAIN wire[d] /\ Tail(wire[d])[i] = wire[d][i + 1]
<1>1. wire[d] \in Seq(Frames)
  BY DEF TypeOK, Frames
<1> QED
  BY <1>1

\* What a node holds after a frame: what it held, perhaps spoilt, or what the frame wants, perhaps
\* with a surplus.  A success is reported of the latter only.
LEMMA ReceiveHolds ==
    ASSUME NEW d \in Devices, Receive(d)
    PROVE  LET frame == Head(wire[d])
               said(ok) == reports' = reports \cup {[d |-> d, v |-> frame.v, ok |-> ok]}
               holds(v, s) == held' = [held EXCEPT ![d] = [v |-> v, state |-> s]]
           IN  \/ held' = held /\ (reports' = reports \/ said(FALSE))
               \/ (holds(held[d].v, held[d].state) \/ holds(held[d].v, Mixed)) /\ said(FALSE)
               \/ /\ Applicable(frame) /\ (holds(frame.v, frame.want) \/ holds(frame.v, Surplus))
                  /\ said(TRUE) \/ said(FALSE)
BY DEF Receive, Report, Holds

LEMMA ReceiveType ==
    ASSUME TypeOK, NEW d \in Devices, Receive(d)
    PROVE  TypeOK'
<1> DEFINE frame == Head(wire[d])
<1>1. wire' = [wire EXCEPT ![d] = Tail(@)] /\ wire[d] # <<>>
  BY DEF Receive
<1>2. frame \in Frames /\ frame.v \in 1..MaxEdits /\ frame.v \in 0..MaxEdits /\ frame.want \in States
  BY <1>1, HeadStep DEF Frames
<1>3. wire' \in [Devices -> Seq(Frames)]
  <2>1. Tail(wire[d]) \in Seq(Frames) /\ wire \in [Devices -> Seq(Frames)]
    BY <1>1, HeadStep DEF TypeOK, Frames
  <2> QED
    BY <1>1, <2>1
<1>4. /\ file' = file /\ hub' = hub /\ loaded' = loaded /\ watching' = watching /\ timer' = timer
      /\ served' = served /\ peer' = peer /\ link' = link /\ lastApplied' = lastApplied
      /\ enrolled' = enrolled /\ fatal' = fatal /\ missed' = missed
  BY DEF Receive, hubVars, accessVars
<1>5. status' \in [Devices -> {"connecting", "unassigned", "error", "applied"}]
  <2>1. \E s \in {"unassigned", "error", "applied"} : status' = [status EXCEPT ![d] = s]
    BY DEF Receive
  <2> QED
    BY <2>1 DEF TypeOK
<1>6. reports' \in SUBSET [d : Devices, v : 1..MaxEdits, ok : BOOLEAN]
  <2>1. reports' = reports \/ \E ok \in BOOLEAN : reports' = reports \cup {[d |-> d, v |-> frame.v, ok |-> ok]}
    BY DEF Receive, Report
  <2> QED
    BY <1>2, <2>1 DEF TypeOK
<1>7. held' \in [Devices -> [v : 0..MaxEdits, state : States \cup {Untouched, Mixed, Surplus}]]
  <2>1. held \in [Devices -> [v : 0..MaxEdits, state : States \cup {Untouched, Mixed, Surplus}]]
    BY DEF TypeOK
  <2>2. held[d].state \in States \cup {Untouched, Mixed, Surplus} /\ held[d].v \in 0..MaxEdits
    BY <2>1
  <2>3. CASE held' = held
    BY <2>1, <2>3
  <2>4. CASE \E v \in {held[d].v, frame.v} : \E s \in {held[d].state, Mixed, frame.want, Surplus} :
                held' = [held EXCEPT ![d] = [v |-> v, state |-> s]]
    <3>1. PICK v \in 0..MaxEdits, s \in States \cup {Untouched, Mixed, Surplus} :
             held' = [held EXCEPT ![d] = [v |-> v, state |-> s]]
      BY <1>2, <2>2, <2>4
    <3> QED
      BY <2>1, <3>1
  <2> QED
    BY <2>3, <2>4, ReceiveHolds
<1>8. troubles' \in 0..MaxTroubles
  <2>1. troubles' = troubles \/ (troubles < MaxTroubles /\ troubles' = troubles + 1)
    BY DEF Receive, Trouble
  <2> QED
    BY <2>1, SyncBoundsAssumption DEF TypeOK
<1> QED
  BY <1>3, <1>4, <1>5, <1>6, <1>7, <1>8 DEF TypeOK, Frames

LEMMA TypeStep == TypeOK /\ [Next]_vars => TypeOK'
<1> SUFFICES ASSUME TypeOK, [Next]_vars PROVE TypeOK'
  OBVIOUS
<1> DEFINE Tr == troubles' = troubles \/ (troubles < MaxTroubles /\ troubles' = troubles + 1)
<1>t. Tr => troubles' \in 0..MaxTroubles
  BY SyncBoundsAssumption DEF TypeOK
<1> HIDE DEF Tr
<1> USE DEF hubVars, linkVars, nodeVars, reportVars, accessVars
<1>1. ASSUME NEW w \in Wants \cup {Corrupt}, Edit(w) PROVE TypeOK'
  <2>1. file' \in [v : 1..MaxEdits, want : Wants \cup {Corrupt}]
    BY <1>1, SyncBoundsAssumption DEF Edit, TypeOK
  <2> QED
    BY <1>1, <2>1 DEF Edit, TypeOK
<1>2. CASE HubLoad
  BY <1>2, LoadStep DEF HubLoad, TypeOK
<1>3. CASE HubWatch
  BY <1>3 DEF HubWatch, TypeOK
<1>4. CASE WatchError
  BY <1>4, <1>t DEF WatchError, TypeOK, Trouble, Tr
<1>5. CASE Reload
  <2>1. wire' \in [Devices -> Seq(Frames)]
    <3>1. CASE UNCHANGED wire
      BY <3>1 DEF TypeOK, Frames
    <3>2. CASE file.want # Corrupt /\ PushAll(file)
      <4>1. file \in Profile
        BY <3>2 DEF TypeOK, Profile
      <4> QED
        BY <3>2, <4>1, PushStep
    <3> QED
      BY <1>5, <3>1, <3>2 DEF Reload
  <2> QED
    BY <1>5, <2>1, LoadStep DEF Reload, TypeOK, Frames
<1>6. CASE Republish
  <2>1. wire' \in [Devices -> Seq(Frames)]
    BY <1>6, PushStep DEF Republish, TypeOK
  <2> QED
    BY <1>6, <1>t, <2>1 DEF Republish, TypeOK, Trouble, Tr, Frames
<1>7. CASE HubCrash
  <2>1. lastApplied' \in [Devices -> [v : 0..MaxEdits, ok : BOOLEAN]]
    BY <1>7, SyncBoundsAssumption DEF HubCrash
  <2> QED
    BY <1>7, <1>t, <2>1 DEF HubCrash, TypeOK, Trouble, Tr
<1>8. ASSUME NEW d \in Devices, Connect(d) PROVE TypeOK'
  <2>1. FrameFor(loaded, d) \in Seq(Frames)
    BY FrameType DEF TypeOK
  <2>2. wire' \in [Devices -> Seq(Frames)]
    BY <1>8, <2>1 DEF Connect, TypeOK, Frames
  <2> QED
    BY <1>8, <2>2 DEF Connect, TypeOK, Frames
<1>9. ASSUME NEW d \in Devices, ConnectRefused(d) PROVE TypeOK'
  BY <1>9 DEF ConnectRefused, TypeOK
<1>10. ASSUME NEW d \in Devices, Break(d) PROVE TypeOK'
  <2>1. wire' \in [Devices -> Seq(Frames)]
    <3>1. wire' = [wire EXCEPT ![d] = <<>>]
      BY <1>10, Zenon DEF Break
    <3>2. wire \in [Devices -> Seq(Frames)]
      BY DEF TypeOK, Frames
    <3>3. <<>> \in Seq(Frames)
      OBVIOUS
    <3> QED
      BY <3>1, <3>2, <3>3
  <2>2. peer' \in [Devices -> BOOLEAN]
    BY <1>10 DEF Break, TypeOK
  <2>3. link' \in [Devices -> BOOLEAN] /\ troubles' \in 0..MaxTroubles
    <3>1. link' = [link EXCEPT ![d] = FALSE] /\ Trouble
      BY <1>10, Zenon DEF Break
    <3>2. link' \in [Devices -> BOOLEAN]
      BY <3>1 DEF TypeOK
    <3> QED
      BY <3>1, <3>2, <1>t DEF Trouble, Tr
  <2>4. /\ UNCHANGED <<file, hub, loaded, watching, timer, served, held, status, reports>>
        /\ UNCHANGED <<lastApplied, enrolled, fatal, missed>>
    BY <1>10 DEF Break
  <2> QED
    BY <2>1, <2>2, <2>3, <2>4 DEF TypeOK, Frames
<1>11. ASSUME NEW d \in Devices, Supersede(d) PROVE TypeOK'
  BY <1>11, <1>t DEF Supersede, TypeOK, Trouble, Tr
<1>12. ASSUME NEW d \in Devices, EndOfStream(d) PROVE TypeOK'
  BY <1>12 DEF EndOfStream, TypeOK
<1>13. ASSUME NEW d \in Devices, Revoke(d) PROVE TypeOK'
  BY <1>13 DEF Revoke, TypeOK
<1>14. ASSUME NEW d \in Devices, RevokeCheck(d) PROVE TypeOK'
  BY <1>14 DEF RevokeCheck, TypeOK
<1>15. ASSUME NEW d \in Devices, Receive(d) PROVE TypeOK'
  BY <1>15, ReceiveType
<1>16. ASSUME NEW r \in reports, Deliver(r) PROVE TypeOK'
  <2>1. r \in [d : Devices, v : 1..MaxEdits, ok : BOOLEAN]
    BY DEF TypeOK
  <2>2. lastApplied' \in [Devices -> [v : 0..MaxEdits, ok : BOOLEAN]]
    BY <1>16, <2>1 DEF Deliver, TypeOK
  <2> QED
    BY <1>16, <2>2 DEF Deliver, TypeOK
<1>17. CASE UNCHANGED vars
  BY <1>17 DEF vars, TypeOK
<1> QED
  BY <1>1, <1>2, <1>3, <1>4, <1>5, <1>6, <1>7, <1>8, <1>9, <1>10, <1>11, <1>12, <1>13, <1>14,
     <1>15, <1>16, <1>17 DEF Next

-----------------------------------------------------------------------------
(* The order of versions. *)

LEMMA OrderInit == Init => Order
<1> SUFFICES ASSUME Init PROVE Order
  OBVIOUS
<1>1. DOMAIN served = {} /\ loaded = Nothing /\ reports = {}
  BY DEF Init
<1>2. \A d \in Devices : DOMAIN wire[d] = {} /\ held[d].v = 0 /\ lastApplied[d].ok = FALSE
  BY DEF Init
<1> QED
  BY <1>1, <1>2 DEF Order, ServedIsPast, LoadedIsNewest, FramesWereServed, FramesInOrder,
                    HeldWasServed, HeldBehindFrames, ReportsAreTrue, HubNeverAhead

LEMMA VersionFacts ==
    ASSUME TypeOK
    PROVE  /\ file.v \in Nat
           /\ served \in Seq(Profile) /\ Len(served) \in Nat
           /\ \A j \in DOMAIN served : served[j] \in Profile /\ served[j].v \in Nat
           /\ \A d \in Devices : held[d].v \in Nat /\ wire[d] \in Seq(Frames)
           /\ \A d \in Devices : \A i \in DOMAIN wire[d] :
                 wire[d][i] \in Frames /\ wire[d][i].v \in Nat
<1>1. file.v \in Nat
  BY DEF TypeOK
<1>2. served \in Seq(Profile)
  BY DEF TypeOK
<1>3. \A j \in DOMAIN served : served[j] \in Profile
  BY <1>2
<1>4. \A q \in Profile : q.v \in Nat
  BY DEF Profile
<1>5. \A d \in Devices : held[d].v \in Nat /\ wire[d] \in Seq(Frames)
  <2>1. \A d \in Devices : held[d].v \in Nat
    BY DEF TypeOK
  <2>2. wire \in [Devices -> Seq(Frames)]
    BY DEF TypeOK, Frames
  <2> QED
    BY <2>1, <2>2
<1>6. \A d \in Devices : \A i \in DOMAIN wire[d] : wire[d][i] \in Frames
  BY <1>5
<1>7. \A q \in Frames : q.v \in Nat
  BY DEF Frames
<1> QED
  BY <1>1, <1>2, <1>3, <1>4, <1>5, <1>6, <1>7

\* A new version of the file, and whatever else is not the fleet's state, disturbs nothing.
LEMMA OrderOfFile ==
    ASSUME TypeOK, TypeOK', Order, file'.v >= file.v,
           UNCHANGED <<loaded, served, wire, held, reports, lastApplied>>
    PROVE  Order'
<1>1. file.v \in Nat /\ file'.v \in Nat
  BY DEF TypeOK
<1>2. \A j \in DOMAIN served : served[j].v \in Nat
  BY VersionFacts
<1>3. ServedIsPast'
  BY <1>1, <1>2 DEF Order, ServedIsPast
<1>4. LoadedIsNewest'
  <2>1. loaded # Nothing => loaded.v \in Nat
    BY DEF TypeOK, Profile
  <2> QED
    BY <1>1, <2>1 DEF Order, LoadedIsNewest
<1>5. (FramesWereServed /\ FramesInOrder /\ HeldWasServed)'
  BY DEF Order, FramesWereServed, FramesInOrder, HeldWasServed
<1>6. (HeldBehindFrames /\ ReportsAreTrue /\ HubNeverAhead)'
  BY DEF Order, HeldBehindFrames, ReportsAreTrue, HubNeverAhead
<1> QED
  BY <1>3, <1>4, <1>5, <1>6 DEF Order

\* What is loaded is the newest profile of all, and none that was served is forgotten.
LEMMA OrderOfLoad ==
    ASSUME TypeOK, Order, Load, file' = file, held' = held
    PROVE  /\ ServedIsPast' /\ LoadedIsNewest' /\ HeldWasServed'
           /\ \A j \in DOMAIN served : j \in DOMAIN served' /\ served'[j] = served[j]
<1>1. served \in Seq(Profile) /\ \A j \in DOMAIN served : served[j].v \in Nat
  BY VersionFacts
<1>2. CASE loaded' = loaded /\ served' = served
  BY <1>2 DEF Order, ServedIsPast, LoadedIsNewest, HeldWasServed
<1>3. CASE file \in Profile /\ loaded' = file /\ served' = Append(served, file)
  <2>1. file.v \in Nat
    BY <1>3 DEF Profile
  <2>2. /\ Len(served) + 1 \in DOMAIN served' /\ served'[Len(served) + 1] = file
        /\ \A j \in DOMAIN served : j \in DOMAIN served' /\ served'[j] = served[j]
        /\ \A j \in DOMAIN served' : j \in DOMAIN served \/ j = Len(served) + 1
    BY <1>1, <1>3
  <2>3. \A j \in DOMAIN served' : served'[j].v <= file.v
    BY <2>1, <2>2 DEF Order, ServedIsPast
  <2>4. ServedIsPast' /\ LoadedIsNewest'
    BY <1>3, <2>1, <2>2, <2>3 DEF ServedIsPast, LoadedIsNewest
  <2>5. HeldWasServed'
    <3> SUFFICES ASSUME NEW d \in Devices, held[d].v # 0
                 PROVE  \E j \in DOMAIN served' : served'[j].v = held[d].v
      BY DEF HeldWasServed
    <3>1. PICK j \in DOMAIN served : served[j].v = held[d].v
      BY DEF Order, HeldWasServed
    <3> QED
      BY <2>2, <3>1
  <2> QED
    BY <2>2, <2>4, <2>5
<1> QED
  BY <1>2, <1>3, LoadStep

\* Streams may be lost, begun or lengthened by the newest profile.
LEMMA OrderOfStreams ==
    ASSUME TypeOK, Order, held' = held,
           \A j \in DOMAIN served : j \in DOMAIN served' /\ served'[j] = served[j],
           NEW p \in Profile \cup {Nothing},
           p # Nothing => /\ \E j \in DOMAIN served' : served'[j] = p
                          /\ \A j \in DOMAIN served : served[j].v <= p.v,
           \A d \in Devices : \/ wire'[d] = wire[d] \/ wire'[d] = <<>>
                              \/ /\ p \in Profile
                                 /\ wire'[d] \in {Append(wire[d], Told(p, d)), <<Told(p, d)>>}
    PROVE  (FramesWereServed /\ FramesInOrder /\ HeldBehindFrames)'
<1> SUFFICES ASSUME NEW d \in Devices
             PROVE  /\ \A i \in DOMAIN wire'[d] :
                          /\ \E j \in DOMAIN served' : wire'[d][i] = Told(served'[j], d)
                          /\ held[d].v <= wire'[d][i].v
                    /\ \A i, k \in DOMAIN wire'[d] : i <= k => wire'[d][i].v <= wire'[d][k].v
  BY DEF FramesWereServed, FramesInOrder, HeldBehindFrames
<1>1. wire[d] \in Seq(Frames) /\ held[d].v \in Nat /\ \A i \in DOMAIN wire[d] : wire[d][i].v \in Nat
  BY VersionFacts
<1>2. \A i \in DOMAIN wire[d] :
         /\ wire[d][i].v \in Nat /\ held[d].v <= wire[d][i].v
         /\ \E j \in DOMAIN served : wire[d][i] = Told(served[j], d)
         /\ \E j \in DOMAIN served' : wire[d][i] = Told(served'[j], d)
  <2> SUFFICES ASSUME NEW i \in DOMAIN wire[d]
               PROVE  /\ wire[d][i].v \in Nat /\ held[d].v <= wire[d][i].v
                      /\ \E j \in DOMAIN served : wire[d][i] = Told(served[j], d)
                      /\ \E j \in DOMAIN served' : wire[d][i] = Told(served'[j], d)
    OBVIOUS
  <2>1. PICK j \in DOMAIN served : wire[d][i] = Told(served[j], d)
    BY Zenon DEF Order, FramesWereServed
  <2>2. wire[d][i] = Told(served'[j], d) /\ j \in DOMAIN served'
    BY <2>1
  <2>3. held[d].v <= wire[d][i].v
    BY DEF Order, HeldBehindFrames
  <2> QED
    BY <1>1, <2>1, <2>2, <2>3
<1>3. \A i, k \in DOMAIN wire[d] : i <= k => wire[d][i].v <= wire[d][k].v
  BY DEF Order, FramesInOrder
<1>4. CASE wire'[d] = wire[d]
  BY <1>2, <1>3, <1>4
<1>5. CASE wire'[d] = <<>>
  BY <1>5
<1>6. CASE p \in Profile /\ wire'[d] \in {Append(wire[d], Told(p, d)), <<Told(p, d)>>}
  <2> DEFINE f == Told(p, d)
  <2>1. f.v = p.v /\ p.v \in Nat /\ p # Nothing
    BY <1>6, ProfileFacts DEF Told
  <2>2. \E j \in DOMAIN served' : f = Told(served'[j], d)
    BY <2>1, Zenon
  <2>3. \A i \in DOMAIN wire[d] : wire[d][i].v <= f.v
    <3> SUFFICES ASSUME NEW i \in DOMAIN wire[d] PROVE wire[d][i].v <= f.v
      OBVIOUS
    <3>1. PICK j \in DOMAIN served : wire[d][i] = Told(served[j], d)
      BY <1>2
    <3>2. wire[d][i].v = served[j].v
      BY <3>1 DEF Told
    <3> QED
      BY <2>1, <3>2
  <2>4. held[d].v <= f.v
    <3>1. CASE held[d].v = 0
      BY <2>1, <3>1
    <3>2. CASE held[d].v # 0
      BY <2>1, <3>2 DEF Order, HeldWasServed
    <3> QED
      BY <3>1, <3>2
  <2> HIDE DEF f
  <2>5. CASE wire'[d] = <<f>>
    <3>1. DOMAIN wire'[d] = {1} /\ wire'[d][1] = f
      BY <2>5
    <3> QED
      BY <2>1, <2>2, <2>4, <3>1
  <2>6. CASE wire'[d] = Append(wire[d], f)
    <3>1. /\ \A i \in DOMAIN wire'[d] : i \in DOMAIN wire[d] \/ i = Len(wire[d]) + 1
          /\ \A i \in DOMAIN wire[d] : i \in 1..Len(wire[d]) /\ wire'[d][i] = wire[d][i]
          /\ Len(wire[d]) \in Nat /\ wire'[d][Len(wire[d]) + 1] = f
      BY <1>1, <2>6
    <3>2. ASSUME NEW i \in DOMAIN wire'[d]
          PROVE  /\ \E j \in DOMAIN served' : wire'[d][i] = Told(served'[j], d)
                 /\ held[d].v <= wire'[d][i].v
      BY <1>2, <2>2, <2>4, <3>1
    <3>3. ASSUME NEW i \in DOMAIN wire'[d], NEW k \in DOMAIN wire'[d], i <= k
          PROVE  wire'[d][i].v <= wire'[d][k].v
      <4>1. CASE k \in DOMAIN wire[d]
        <5>1. i \in DOMAIN wire[d]
          BY <3>1, <3>3, <4>1
        <5> QED
          BY <1>3, <3>1, <3>3, <4>1, <5>1
      <4>2. CASE k = Len(wire[d]) + 1
        BY <2>1, <2>3, <3>1, <4>2
      <4> QED
        BY <3>1, <4>1, <4>2
    <3> QED
      BY <3>2, <3>3
  <2> QED
    BY <1>6, <2>5, <2>6 DEF f
<1> QED
  BY <1>4, <1>5, <1>6

\* A node takes the next frame: no other frame is older than that.
LEMMA OrderOfReceive ==
    ASSUME TypeOK, TypeOK', Order, NEW d \in Devices, Receive(d)
    PROVE  Order'
<1> DEFINE frame == Head(wire[d])
<1>0. /\ UNCHANGED <<file, loaded, served, lastApplied>>
      /\ wire' = [wire EXCEPT ![d] = Tail(@)] /\ wire[d] # <<>>
  BY DEF Receive, hubVars
<1>1. /\ wire[d] \in Seq(Frames) /\ frame = wire[d][1] /\ 1 \in DOMAIN wire[d] /\ frame.v \in Nat
      /\ wire'[d] = Tail(wire[d])
      /\ \A i \in DOMAIN wire'[d] : i \in Nat /\ i + 1 \in DOMAIN wire[d] /\ wire'[d][i] = wire[d][i + 1]
  <2>1. wire'[d] = Tail(wire[d])
    BY <1>0 DEF TypeOK
  <2>2. /\ wire[d] \in Seq(Frames) /\ frame = wire[d][1] /\ frame \in Frames /\ Tail(wire[d]) \in Seq(Frames)
        /\ \A i \in DOMAIN Tail(wire[d]) : i + 1 \in DOMAIN wire[d] /\ Tail(wire[d])[i] = wire[d][i + 1]
    BY <1>0, HeadStep
  <2>3. frame.v \in Nat
    BY <2>2 DEF Frames
  <2>4. 1 \in DOMAIN wire[d]
    BY <1>0, <2>2
  <2> QED
    BY <2>1, <2>2, <2>3, <2>4
<1>2. \A e \in Devices \ {d} : wire'[e] = wire[e] /\ held'[e] = held[e]
  <2>1. \A e \in Devices \ {d} : wire'[e] = wire[e]
    BY <1>0 DEF TypeOK
  <2>2. \/ held' = held
        \/ \E v \in {held[d].v, frame.v} : \E s \in {held[d].state, Mixed, frame.want, Surplus} :
              held' = [held EXCEPT ![d] = [v |-> v, state |-> s]]
    BY ReceiveHolds
  <2>3. \A e \in Devices \ {d} : held'[e] = held[e]
    BY <2>2 DEF TypeOK
  <2> QED
    BY <2>1, <2>3
\* What d holds has the version it had, or the frame's; a success is reported of the latter.
<1>3. \/ held'[d].v = held[d].v /\ \A r \in reports' : r \in reports \/ ~r.ok
      \/ held'[d].v = frame.v /\ \A r \in reports' : r \in reports \/ (r.d = d /\ r.v = frame.v)
  <2> DEFINE NewReport(ok) == [d |-> d, v |-> frame.v, ok |-> ok]
  <2>1. \/ held' = held /\ (reports' = reports \/ reports' = reports \cup {NewReport(FALSE)})
        \/ /\ \E s \in {held[d].state, Mixed} : held' = [held EXCEPT ![d] = [v |-> held[d].v, state |-> s]]
           /\ reports' = reports \cup {NewReport(FALSE)}
        \/ /\ \E s \in {frame.want, Surplus} : held' = [held EXCEPT ![d] = [v |-> frame.v, state |-> s]]
           /\ reports' = reports \cup {NewReport(TRUE)} \/ reports' = reports \cup {NewReport(FALSE)}
    BY ReceiveHolds
  <2>2. \A r \in {NewReport(FALSE)} : ~r.ok
    OBVIOUS
  <2>3. \A r \in {NewReport(FALSE), NewReport(TRUE)} : r.d = d /\ r.v = frame.v
    OBVIOUS
  <2>4. held \in [Devices -> [v : 0..MaxEdits, state : States \cup {Untouched, Mixed, Surplus}]]
    BY DEF TypeOK
  <2>5. ASSUME NEW v, NEW s, held' = [held EXCEPT ![d] = [v |-> v, state |-> s]] PROVE held'[d].v = v
    BY <2>4, <2>5
  <2> HIDE DEF NewReport, frame
  <2>7. CASE held'[d].v = held[d].v /\ (reports' = reports \/ reports' = reports \cup {NewReport(FALSE)})
    BY <2>2, <2>7
  <2>8. CASE /\ held'[d].v = frame.v
             /\ reports' = reports \cup {NewReport(TRUE)} \/ reports' = reports \cup {NewReport(FALSE)}
    BY <2>3, <2>8
  <2> QED
    BY <2>1, <2>5, <2>7, <2>8, Zenon
<1> HIDE DEF frame
<1>4. held[d].v <= frame.v /\ \E j \in DOMAIN served : served[j].v = frame.v
  <2>1. held[d].v <= frame.v
    BY <1>1 DEF Order, HeldBehindFrames
  <2>2. \E j \in DOMAIN served : frame = Told(served[j], d)
    BY <1>1 DEF Order, FramesWereServed
  <2> QED
    BY <2>1, <2>2 DEF Told
<1>5. \A e \in Devices : held[e].v <= held'[e].v /\ held[e].v \in Nat /\ held'[e].v \in Nat
  <2>1. \A e \in Devices : held[e].v \in Nat
    BY VersionFacts
  <2> QED
    BY <1>1, <1>2, <1>3, <1>4, <2>1
<1>6. ServedIsPast' /\ LoadedIsNewest'
  BY <1>0 DEF Order, ServedIsPast, LoadedIsNewest
<1>7. FramesWereServed' /\ FramesInOrder'
  <2> SUFFICES ASSUME NEW e \in Devices
               PROVE  /\ \A i \in DOMAIN wire'[e] : \E j \in DOMAIN served : wire'[e][i] = Told(served[j], e)
                      /\ \A i, k \in DOMAIN wire'[e] : i <= k => wire'[e][i].v <= wire'[e][k].v
    BY <1>0 DEF FramesWereServed, FramesInOrder
  <2>1. CASE e = d
    <3>1. \A i \in DOMAIN wire[d] : \E j \in DOMAIN served : wire[d][i] = Told(served[j], d)
      BY DEF Order, FramesWereServed
    <3>2. ASSUME NEW i \in DOMAIN wire'[d], NEW k \in DOMAIN wire'[d], i <= k
          PROVE  wire'[d][i].v <= wire'[d][k].v
      <4>1. i + 1 <= k + 1 /\ i + 1 \in DOMAIN wire[d] /\ k + 1 \in DOMAIN wire[d]
        BY <1>1, <3>2
      <4>2. wire[d][i + 1].v <= wire[d][k + 1].v
        BY <4>1 DEF Order, FramesInOrder
      <4> QED
        BY <1>1, <4>2
    <3> QED
      BY <1>1, <2>1, <3>1, <3>2
  <2>2. CASE e # d
    BY <1>2, <2>2 DEF Order, FramesWereServed, FramesInOrder
  <2> QED
    BY <2>1, <2>2
<1>8. HeldWasServed'
  <2> SUFFICES ASSUME NEW e \in Devices
               PROVE  held'[e].v = 0 \/ \E j \in DOMAIN served : served[j].v = held'[e].v
    BY <1>0 DEF HeldWasServed
  <2>1. held[e].v = 0 \/ \E j \in DOMAIN served : served[j].v = held[e].v
    BY DEF Order, HeldWasServed
  <2> QED
    BY <1>2, <1>3, <1>4, <2>1
<1>9. HeldBehindFrames'
  <2> SUFFICES ASSUME NEW e \in Devices, NEW i \in DOMAIN wire'[e]
               PROVE  held'[e].v <= wire'[e][i].v
    BY DEF HeldBehindFrames
  <2>1. CASE e = d
    <3>1. held[d].v <= wire[d][i + 1].v
      BY <1>1, <2>1 DEF Order, HeldBehindFrames
    <3>2. 1 <= i + 1 /\ i + 1 \in DOMAIN wire[d]
      <4>1. i \in DOMAIN wire'[d]
        BY <2>1
      <4>2. i \in Nat /\ i + 1 \in DOMAIN wire[d]
        BY <1>1, <4>1, Zenon
      <4> QED
        BY <4>2
    <3>3. frame.v <= wire[d][i + 1].v
      BY <1>1, <3>2 DEF Order, FramesInOrder
    <3> QED
      BY <1>1, <1>3, <2>1, <3>1, <3>3
  <2>2. CASE e # d
    BY <1>2, <2>2 DEF Order, HeldBehindFrames
  <2> QED
    BY <2>1, <2>2
<1>10. ReportsAreTrue'
  <2> SUFFICES ASSUME NEW r \in reports', r.ok PROVE r.v <= held'[r.d].v
    BY DEF ReportsAreTrue
  <2>1. r.v \in Nat /\ r.d \in Devices
    <3>1. reports' \subseteq [d : Devices, v : 1..MaxEdits, ok : BOOLEAN]
      BY DEF TypeOK
    <3>2. r \in [d : Devices, v : 1..MaxEdits, ok : BOOLEAN]
      BY <3>1
    <3> QED
      BY <3>2
  <2>2. CASE r \in reports
    <3>1. r.v <= held[r.d].v
      BY <2>2 DEF Order, ReportsAreTrue
    <3> QED
      BY <1>5, <2>1, <3>1
  <2>3. CASE r \notin reports
    BY <1>1, <1>3, <2>3
  <2> QED
    BY <2>2, <2>3
<1>11. HubNeverAhead'
  <2> SUFFICES ASSUME NEW e \in Devices, lastApplied[e].ok PROVE lastApplied[e].v <= held'[e].v
    BY <1>0 DEF HubNeverAhead
  <2>1. lastApplied[e].v \in Nat
    BY DEF TypeOK
  <2>2. lastApplied[e].v <= held[e].v
    BY DEF Order, HubNeverAhead
  <2> QED
    BY <1>5, <2>1, <2>2
<1> QED
  BY <1>6, <1>7, <1>8, <1>9, <1>10, <1>11 DEF Order

LEMMA OrderStep == TypeOK /\ TypeOK' /\ Order /\ [Next]_vars => Order'
<1> SUFFICES ASSUME TypeOK, TypeOK', Order, [Next]_vars PROVE Order'
  OBVIOUS
<1> USE DEF hubVars, linkVars, nodeVars, reportVars, accessVars
\* What a push or a new stream says comes from the newest profile, if from any.
<1>a. loaded # Nothing => /\ \E j \in DOMAIN served : served[j] = loaded
                          /\ \A j \in DOMAIN served : served[j].v <= loaded.v
  BY DEF Order, LoadedIsNewest
<1>b. loaded \in Profile \cup {Nothing}
  BY DEF TypeOK
<1>1. ASSUME NEW w \in Wants \cup {Corrupt}, Edit(w) PROVE Order'
  <2>1. file'.v >= file.v
    BY <1>1, VersionFacts DEF Edit
  <2> QED
    BY <1>1, <2>1, OrderOfFile DEF Edit
<1>2. CASE HubLoad
  <2>1. Load /\ UNCHANGED <<file, wire, held, reports, lastApplied>>
    BY <1>2 DEF HubLoad
  <2>2. /\ ServedIsPast' /\ LoadedIsNewest' /\ HeldWasServed'
        /\ \A j \in DOMAIN served : j \in DOMAIN served' /\ served'[j] = served[j]
    BY <2>1, OrderOfLoad
  <2>3. (FramesWereServed /\ FramesInOrder /\ HeldBehindFrames)'
    BY <2>1, <2>2, OrderOfStreams
  <2> QED
    BY <2>1, <2>2, <2>3 DEF Order, ReportsAreTrue, HubNeverAhead
<1>3. CASE Reload
  <2>1. Load /\ UNCHANGED <<file, held, reports, lastApplied>>
    BY <1>3 DEF Reload
  <2>2. /\ ServedIsPast' /\ LoadedIsNewest' /\ HeldWasServed'
        /\ \A j \in DOMAIN served : j \in DOMAIN served' /\ served'[j] = served[j]
    BY <2>1, OrderOfLoad
  <2>3. (FramesWereServed /\ FramesInOrder /\ HeldBehindFrames)'
    <3>1. CASE file.want # Corrupt /\ file # loaded /\ PushAll(file)
      <4>1. file \in Profile
        BY <3>1 DEF TypeOK, Profile
      <4>2. \A d \in Devices : wire'[d] = wire[d] \/ wire'[d] = Append(wire[d], Told(file, d))
        BY <3>1, <4>1, PushStep
      <4>3. loaded' = file /\ file # Nothing
        BY <2>1, <3>1 DEF Load, Nothing
      <4>4. /\ \E j \in DOMAIN served' : served'[j] = file
            /\ \A j \in DOMAIN served : served[j].v <= file.v
        BY <2>2, <4>3 DEF LoadedIsNewest, Order, ServedIsPast
      <4> QED
        BY <2>1, <2>2, <4>1, <4>2, <4>4, OrderOfStreams
    <3>2. CASE UNCHANGED wire
      BY <2>1, <2>2, <3>2, OrderOfStreams
    <3> QED
      BY <1>3, <3>1, <3>2 DEF Reload
  <2> QED
    BY <2>1, <2>2, <2>3 DEF Order, ReportsAreTrue, HubNeverAhead
<1>4. CASE Republish
  <2>1. PushAll(loaded) /\ UNCHANGED <<file, loaded, served, held, reports, lastApplied>>
    BY <1>4 DEF Republish
  <2>2. \A d \in Devices : \/ wire'[d] = wire[d]
                           \/ loaded \in Profile /\ wire'[d] = Append(wire[d], Told(loaded, d))
    BY <1>b, <2>1, PushStep
  <2>3. (FramesWereServed /\ FramesInOrder /\ HeldBehindFrames)'
    BY <1>a, <1>b, <2>1, <2>2, OrderOfStreams
  <2> QED
    BY <2>1, <2>3 DEF Order, ReportsAreTrue, HubNeverAhead, ServedIsPast, LoadedIsNewest, HeldWasServed
<1>5. ASSUME NEW e \in Devices, Connect(e) PROVE Order'
  <2>1. /\ UNCHANGED <<file, loaded, served, held, reports, lastApplied>>
        /\ wire' = [wire EXCEPT ![e] = FrameFor(loaded, e)]
    BY <1>5 DEF Connect
  <2>2. ASSUME NEW d \in Devices
        PROVE  \/ wire'[d] = wire[d] \/ wire'[d] = <<>>
               \/ loaded \in Profile /\ wire'[d] = <<Told(loaded, d)>>
    <3>1. wire'[d] = wire[d] \/ wire'[d] = FrameFor(loaded, d)
      BY <2>1 DEF TypeOK
    <3> QED
      BY <1>b, <3>1, FrameType
  <2>3. (FramesWereServed /\ FramesInOrder /\ HeldBehindFrames)'
    BY <1>a, <1>b, <2>1, <2>2, OrderOfStreams
  <2> QED
    BY <2>1, <2>3 DEF Order, ReportsAreTrue, HubNeverAhead, ServedIsPast, LoadedIsNewest, HeldWasServed
<1>6. ASSUME NEW e \in Devices, Break(e) PROVE Order'
  <2>1. /\ UNCHANGED <<file, loaded, served, held, reports, lastApplied>>
        /\ wire' = [wire EXCEPT ![e] = <<>>]
    BY <1>6 DEF Break
  <2>2. \A d \in Devices : wire'[d] = wire[d] \/ wire'[d] = <<>>
    BY <2>1 DEF TypeOK
  <2>3. (FramesWereServed /\ FramesInOrder /\ HeldBehindFrames)'
    BY <1>a, <1>b, <2>1, <2>2, OrderOfStreams
  <2> QED
    BY <2>1, <2>3 DEF Order, ReportsAreTrue, HubNeverAhead, ServedIsPast, LoadedIsNewest, HeldWasServed
<1>7. CASE HubCrash
  <2>1. /\ UNCHANGED <<file, served, wire, held, reports>> /\ loaded' = Nothing
        /\ \A d \in Devices : lastApplied'[d].ok = FALSE
    BY <1>7 DEF HubCrash
  <2>2. ServedIsPast' /\ LoadedIsNewest' /\ HeldWasServed' /\ ReportsAreTrue' /\ HubNeverAhead'
    BY <2>1 DEF Order, ServedIsPast, LoadedIsNewest, HeldWasServed, ReportsAreTrue, HubNeverAhead
  <2>3. (FramesWereServed /\ FramesInOrder /\ HeldBehindFrames)'
    BY <2>1 DEF Order, FramesWereServed, FramesInOrder, HeldBehindFrames
  <2> QED
    BY <2>2, <2>3 DEF Order
<1>8. ASSUME NEW d \in Devices, Receive(d) PROVE Order'
  BY <1>8, OrderOfReceive
<1>9. ASSUME NEW r \in reports, Deliver(r) PROVE Order'
  <2>1. /\ UNCHANGED <<file, loaded, served, wire, held>> /\ reports' = reports \ {r}
        /\ \/ lastApplied' = lastApplied
           \/ lastApplied' = [lastApplied EXCEPT ![r.d] = [v |-> r.v, ok |-> r.ok]]
    BY <1>9 DEF Deliver
  <2>2. r.ok => r.v <= held[r.d].v
    BY DEF Order, ReportsAreTrue
  <2>3. ReportsAreTrue'
    BY <2>1 DEF Order, ReportsAreTrue
  <2>4. HubNeverAhead'
    <3> SUFFICES ASSUME NEW d \in Devices, lastApplied'[d].ok PROVE lastApplied'[d].v <= held[d].v
      BY <2>1 DEF HubNeverAhead
    <3>1. lastApplied'[d] = lastApplied[d] \/ (d = r.d /\ lastApplied'[d] = [v |-> r.v, ok |-> r.ok])
      BY <2>1 DEF TypeOK
    <3>2. CASE lastApplied'[d] = lastApplied[d]
      BY <3>2 DEF Order, HubNeverAhead
    <3>3. CASE d = r.d /\ lastApplied'[d] = [v |-> r.v, ok |-> r.ok]
      BY <2>2, <3>3
    <3> QED
      BY <3>1, <3>2, <3>3
  <2>5. (ServedIsPast /\ LoadedIsNewest /\ HeldWasServed)'
    BY <2>1 DEF Order, ServedIsPast, LoadedIsNewest, HeldWasServed
  <2>6. (FramesWereServed /\ FramesInOrder /\ HeldBehindFrames)'
    BY <2>1 DEF Order, FramesWereServed, FramesInOrder, HeldBehindFrames
  <2> QED
    BY <2>3, <2>4, <2>5, <2>6 DEF Order
<1>10. CASE UNCHANGED <<file, loaded, served, wire, held, reports, lastApplied>>
  <2>1. file'.v >= file.v
    BY <1>10, VersionFacts
  <2> QED
    BY <1>10, <2>1, OrderOfFile
<1>11. ASSUME NEW d \in Devices, \/ ConnectRefused(d) \/ Supersede(d) \/ EndOfStream(d)
                                 \/ Revoke(d) \/ RevokeCheck(d)
       PROVE  Order'
  BY <1>10, <1>11 DEF ConnectRefused, Supersede, EndOfStream, Revoke, RevokeCheck
<1>12. CASE HubWatch \/ WatchError \/ UNCHANGED vars
  BY <1>10, <1>12 DEF HubWatch, WatchError, vars
<1> QED
  BY <1>1, <1>2, <1>3, <1>4, <1>5, <1>6, <1>7, <1>8, <1>9, <1>11, <1>12 DEF Next

-----------------------------------------------------------------------------
(* The results. *)

\* In every reachable state every variable keeps its shape, and the order of versions holds.
THEOREM SyncInvariant == Spec => []SyncInv
<1>1. Init => SyncInv
  BY TypeInit, OrderInit DEF SyncInv
<1>2. SyncInv /\ [Next]_vars => SyncInv'
  BY TypeStep, OrderStep DEF SyncInv
<1> QED
  BY <1>1, <1>2, PTL DEF Spec

\* However reports are lost or overtake each other, and whatever crashes, the hub never
\* believes that a node holds a newer profile than it does.
THEOREM NeverAhead == Spec => []HubNeverAhead
<1>1. SyncInv => HubNeverAhead
  BY DEF SyncInv, Order
<1> QED
  BY <1>1, SyncInvariant, PTL

LEMMA PromiseInit == Init => Fleet!FleetInit
BY DEF Init, Fleet!FleetInit

\* Every step of hub, streams and agents is a step of the promise, or invisible to it.
LEMMA PromiseStep ==
    SyncInv /\ [Next]_vars => [Fleet!FleetNext]_<<served, held>>
<1> SUFFICES ASSUME TypeOK, Order, [Next]_vars, ~UNCHANGED <<served, held>>
             PROVE  Fleet!FleetNext
  BY DEF SyncInv
<1> USE DEF hubVars, linkVars, nodeVars, reportVars, accessVars
<1>1. ASSUME Load, held' = held PROVE Fleet!FleetNext
  <2>1. served' = Append(served, file) /\ served \in Seq(Profile) /\ file \in Profile
    BY <1>1, LoadStep, VersionFacts
  <2>2. Len(served') = Len(served) + 1 /\ SubSeq(served', 1, Len(served)) = served
    BY <2>1
  <2>3. Fleet!Serve
    BY <1>1, <2>2 DEF Fleet!Serve
  <2> QED
    BY <2>3 DEF Fleet!FleetNext
<1>2. ASSUME NEW d \in Devices, Receive(d) PROVE Fleet!FleetNext
  <2> DEFINE frame == Head(wire[d])
  <2>1. frame = wire[d][1] /\ 1 \in DOMAIN wire[d] /\ served' = served
    <3>1. wire[d] # <<>> /\ served' = served
      BY <1>2 DEF Receive
    <3>2. wire[d] \in Seq(Frames) /\ Len(wire[d]) \in Nat \ {0} /\ frame = wire[d][1]
      BY <3>1, HeadStep
    <3> QED
      BY <3>1, <3>2
  <2>2. held[d].v <= frame.v
    BY <2>1 DEF Order, HeldBehindFrames
  <2>3. PICK i \in DOMAIN served : frame = Told(served[i], d)
    BY <2>1 DEF Order, FramesWereServed
  <2>4. frame.v = served[i].v /\ frame.want = served[i].want[d]
    BY <2>3 DEF Told
  <2>5. CASE /\ Applicable(frame)
             /\ \E s \in {frame.want, Surplus} : held' = [held EXCEPT ![d] = [v |-> frame.v, state |-> s]]
    <3>1. served[i].v >= held[d].v
      BY <2>2, <2>4, VersionFacts
    <3>2. Fleet!TakeOver(d, i)
      BY <2>1, <2>4, <2>5, <3>1 DEF Fleet!TakeOver, Applicable
    <3> QED
      BY <3>2 DEF Fleet!FleetNext
  <2>6. CASE \E s \in {held[d].state, Mixed} : held' = [held EXCEPT ![d] = [v |-> held[d].v, state |-> s]]
    <3>1. held \in [Devices -> [v : 0..MaxEdits, state : States \cup {Untouched, Mixed, Surplus}]]
      BY DEF TypeOK
    <3>2. CASE held' = [held EXCEPT ![d] = [v |-> held[d].v, state |-> held[d].state]]
      <4>1. held' = held
        BY <3>1, <3>2
      <4> QED
        BY <2>1, <4>1
    <3>3. CASE held' = [held EXCEPT ![d] = [v |-> held[d].v, state |-> Mixed]]
      <4>1. held' = [held EXCEPT ![d].state = Mixed]
        BY <3>1, <3>3
      <4>2. Fleet!Spoil(d)
        BY <2>1, <4>1 DEF Fleet!Spoil
      <4> QED
        BY <4>2 DEF Fleet!FleetNext
    <3> QED
      BY <2>6, <3>2, <3>3
  <2>7. CASE held' = held
    BY <2>1, <2>7
  <2>8. CASE Applicable(frame) /\ held' = [held EXCEPT ![d] = [v |-> frame.v, state |-> frame.want]]
    BY <2>5, <2>8
  <2>9. CASE Applicable(frame) /\ held' = [held EXCEPT ![d] = [v |-> frame.v, state |-> Surplus]]
    BY <2>5, <2>9
  <2>10. CASE \/ held' = [held EXCEPT ![d] = [v |-> held[d].v, state |-> held[d].state]]
              \/ held' = [held EXCEPT ![d] = [v |-> held[d].v, state |-> Mixed]]
    BY <2>6, <2>10
  <2> HIDE DEF frame
  <2> QED
    BY <1>2, <2>7, <2>8, <2>9, <2>10, ReceiveHolds, Zenon DEF frame
<1>3. \/ Load /\ held' = held
      \/ \E d \in Devices : Receive(d)
      \/ UNCHANGED <<served, held>>
  BY DEF Next, vars, Edit, HubLoad, HubWatch, WatchError, Reload, Republish, HubCrash, Connect,
         ConnectRefused, Break, Supersede, EndOfStream, Revoke, RevokeCheck, Deliver
<1> QED
  BY <1>1, <1>2, <1>3

\* What runs between hub and nodes implements the promise of FleetState: what a node holds
\* only ever changes to what a served profile wants for it, never to an older one.
THEOREM Implements == Spec => ImplementsFleet
<1>1. Spec => Init /\ [][Next]_vars
  BY PTL DEF Spec
<1> QED
  BY <1>1, SyncInvariant, PromiseInit, PromiseStep, PTL DEF ImplementsFleet, Fleet!FleetSpec
=============================================================================
