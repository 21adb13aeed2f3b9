--------------------------- MODULE Worker_proofs ---------------------------
(***************************************************************************)
(* Proofs about the LLM worker: the monitor that keeps it running          *)
(* (WorkerMonitor), the models it serves (Routing), one request to it      *)
(* (Messages), and a conversation through it (Conversation).  The four     *)
(* share no variable; each part below is about one of them, for any values *)
(* of its constants.                                                       *)
(*                                                                         *)
(* The monitor: a stopped one has no respawn pending, which every step     *)
(* that stops or schedules keeps.                                          *)
(*                                                                         *)
(* Routing: nothing changes the file without either announcing a restart   *)
(* (puts, tui) or being excused (stale), and a worker reads the file       *)
(* exactly once, between its fork and its first answer; so the property is *)
(* inductive as soon as the state has its types.  That the list is routed  *)
(* is a fact about matching: an id shares all its words with one id of the *)
(* list, so no other is as close.                                          *)
(*                                                                         *)
(* A request: the blocks the client has put together are the blocks the    *)
(* worker believes in (Fits): as many as it has numbered, and open are     *)
(* exactly those whose index it holds.  Every event is then one the client *)
(* can place.  Of the conversation, only the turn whose tools are running  *)
(* may lack results, and its calls are of tools that do run.               *)
(*                                                                         *)
(* A conversation: what is looked for in it (texts, images, calls, results,*)
(* messages of the wire) is a function of one message, put one behind      *)
(* another (Flat), so what a message adds is found behind what was there   *)
(* (FlatJoin), and a translation keeps what it keeps of every message      *)
(* (ChatIs, ItemsIs).  The books agree (Book): what is found in the        *)
(* client's messages is what was said, less what was said beside results.  *)
(* And the calls are in order (Order): every call is followed by its       *)
(* results, except those of the last message while the tools run.          *)
(***************************************************************************)
EXTENDS WorkerMonitor, Routing, Messages, Conversation, FiniteSetTheorems, SequenceTheorems,
        WellFoundedInduction, NaturalsInduction, TLAPS

-----------------------------------------------------------------------------
(* The monitor.                                                              *)

\* Nothing is scheduled while the monitor is stopped.
StoppedSchedulesNothing == stopped => timer = "none"

MonitorInv == TypeOK /\ StoppedSchedulesNothing

LEMMA ProcessFacts ==
    /\ Free \in Process /\ Forked \in Process /\ Free.life = "free" /\ Forked.life = "up"
    /\ None \notin Slots /\ 1 \in Slots
<1>1. Free \in Process /\ Free.life = "free"
  BY DEF Free, Process
<1>2. Forked \in Process /\ Forked.life = "up"
  BY <1>1 DEF Forked, Process, Free
<1>3. None \notin Slots /\ 1 \in Slots
  BY MonitorAssumption DEF None, Slots
<1> QED
  BY <1>1, <1>2, <1>3

PortIsUp == port # None => port \in Slots /\ slot[port].life = "up"

LEMMA TypeFacts ==
    TypeOK <=> /\ slot \in [Slots -> Process] /\ PortIsUp
               /\ child \in Slots \cup {None} /\ timer \in {"none", "backoff", "cooldown"}
               /\ stopped \in BOOLEAN /\ restartPending \in BOOLEAN
               /\ state \in {"starting", "ready", "crashed", "unhealthy"}
               /\ crashes \in 0..MaxCrashes /\ spawned \in 0..1
               /\ starts \in 0..MaxStarts /\ restarts \in 0..MaxRestarts
               /\ stops \in 0..MaxStops /\ deaths \in 0..MaxDeaths
<1>1. port \in {i \in Slots : slot[i].life = "up"} \cup {None} <=> PortIsUp
  BY DEF PortIsUp
<1> QED
  BY <1>1 DEF TypeOK

LEMMA TypeFactsNext ==
    ASSUME slot' \in [Slots -> Process], PortIsUp',
           child' \in Slots \cup {None}, timer' \in {"none", "backoff", "cooldown"},
           stopped' \in BOOLEAN, restartPending' \in BOOLEAN,
           state' \in {"starting", "ready", "crashed", "unhealthy"},
           crashes' \in 0..MaxCrashes, spawned' \in 0..1,
           starts' \in 0..MaxStarts, restarts' \in 0..MaxRestarts,
           stops' \in 0..MaxStops, deaths' \in 0..MaxDeaths
    PROVE  TypeOK'
<1>1. port' \in {i \in Slots : slot'[i].life = "up"} \cup {None}
  BY DEF PortIsUp
<1> QED
  BY <1>1 DEF TypeOK

LEMMA InvInit == MonitorInit => MonitorInv
<1> SUFFICES ASSUME MonitorInit PROVE MonitorInv
  OBVIOUS
<1>1. slot \in [Slots -> Process]
  BY ProcessFacts DEF MonitorInit
<1>2. crashes \in 0..MaxCrashes /\ spawned \in 0..1 /\ starts \in 0..MaxStarts /\ restarts \in 0..MaxRestarts
      /\ stops \in 0..MaxStops /\ deaths \in 0..MaxDeaths
  BY MonitorAssumption DEF MonitorInit
<1> QED
  BY <1>1, <1>2, ProcessFacts, TypeFacts DEF MonitorInit, MonitorInv, StoppedSchedulesNothing, PortIsUp

\* One process changes: what is forked is up, what dies gives up the port.
LEMMA SlotStep ==
    ASSUME TypeOK, NEW i \in Slots, NEW q \in Process, slot' = [slot EXCEPT ![i] = q],
           port' = port, q.life = "up" \/ slot[i].life # "up"
    PROVE  slot' \in [Slots -> Process] /\ PortIsUp'
<1>1. slot \in [Slots -> Process] /\ PortIsUp
  BY TypeFacts
<1>2. slot' \in [Slots -> Process] /\ slot'[i] = q /\ \A j \in Slots \ {i} : slot'[j] = slot[j]
  BY <1>1
<1> QED
  BY <1>1, <1>2 DEF PortIsUp

\* A fork takes a free place, in which no process has the port.
LEMMA SpawnFacts ==
    ASSUME TypeOK, NEW rest \in [Slots -> Process], Spawn(rest),
           \A j \in Slots : slot[j].life = "up" => rest[j].life = "up", port' = port
    PROVE  /\ slot' \in [Slots -> Process] /\ PortIsUp'
           /\ child' \in Slots /\ state' = "starting" /\ spawned' \in 0..1
<1>1. PortIsUp /\ spawned \in 0..1
  BY TypeFacts
<1>2. PICK i \in Slots : /\ rest[i] = Free /\ slot' = [rest EXCEPT ![i] = Forked]
                         /\ child' = i /\ state' = "starting" /\ spawned' = 1 - spawned
  BY DEF Spawn
<1>3. slot' \in [Slots -> Process] /\ \A j \in Slots : rest[j].life = "up" => slot'[j].life = "up"
  BY <1>2, ProcessFacts
<1>4. spawned' \in 0..1
  BY <1>1, <1>2
<1> QED
  BY <1>1, <1>2, <1>3, <1>4 DEF PortIsUp

\* A process ends, and the port with it.
LEMMA ExitsStep ==
    ASSUME MonitorInv, NEW i \in Slots, Exits(i),
           starts' \in 0..MaxStarts, restarts' \in 0..MaxRestarts, stops' \in 0..MaxStops, deaths' \in 0..MaxDeaths
    PROVE  MonitorInv' /\ spawned' = spawned
<1> DEFINE q == [slot[i] EXCEPT !.life = "exited"]
<1>1. TypeOK /\ slot \in [Slots -> Process] /\ PortIsUp
  BY TypeFacts DEF MonitorInv
<1>2. q \in Process
  BY <1>1 DEF Process
<1>3. slot' = [slot EXCEPT ![i] = q] /\ port' = IF port = i THEN None ELSE port
  BY <1>1 DEF Exits
<1> HIDE DEF q
<1>4. slot' \in [Slots -> Process] /\ \A j \in Slots \ {i} : slot'[j] = slot[j]
  BY <1>1, <1>2, <1>3
<1>5. PortIsUp'
  BY <1>1, <1>3, <1>4 DEF PortIsUp, None
<1> QED
  BY <1>1, <1>4, <1>5, TypeFacts, TypeFactsNext DEF Exits, flags, MonitorInv, StoppedSchedulesNothing

LEMMA ProcessStep ==
    ASSUME MonitorInv, NEW i \in Slots,
           Listen(i) \/ SendsReady(i) \/ ListenFails(i) \/ DiesOfKill(i) \/ Dies(i) \/ Ready(i) \/ Disconnect(i)
    PROVE  MonitorInv' /\ spawned' = spawned
<1>1. TypeOK /\ slot \in [Slots -> Process] /\ PortIsUp
  BY TypeFacts DEF MonitorInv
<1>2. CASE Listen(i)
  <2> DEFINE q == [slot[i] EXCEPT !.ready = "awaited"]
  <2>1. q \in Process /\ q.life = slot[i].life /\ slot[i].life = "up"
    BY <1>1, <1>2 DEF Process, Listen
  <2>2. slot' = [slot EXCEPT ![i] = q] /\ port' = i
    BY <1>1, <1>2 DEF Listen
  <2> HIDE DEF q
  <2>3. slot' \in [Slots -> Process] /\ PortIsUp'
    BY <1>1, <2>1, <2>2 DEF PortIsUp
  <2> QED
    BY <1>1, <1>2, <2>3, TypeFacts, TypeFactsNext
       DEF Listen, flags, bounded, MonitorInv, StoppedSchedulesNothing
<1>3. CASE ListenFails(i) \/ DiesOfKill(i)
  BY <1>1, <1>3, TypeFacts, ExitsStep DEF ListenFails, DiesOfKill, bounded
<1>4. CASE Dies(i)
  <2>1. deaths' \in 0..MaxDeaths
    BY <1>1, <1>4, TypeFacts, MonitorAssumption DEF Dies
  <2> QED
    BY <1>1, <1>4, <2>1, TypeFacts, ExitsStep DEF Dies
<1>5. CASE Ready(i)
  <2> DEFINE q == [slot[i] EXCEPT !.ready = "none"]
  <2>1. q \in Process /\ q.life = slot[i].life
    BY <1>1 DEF Process
  <2>2. slot' = [slot EXCEPT ![i] = q] /\ port' = port
    BY <1>1, <1>5 DEF Ready
  <2> HIDE DEF q
  <2>3. slot' \in [Slots -> Process] /\ PortIsUp'
    BY <1>1, <2>1, <2>2, SlotStep
  <2>4. crashes' \in 0..MaxCrashes
    BY <1>5, MonitorAssumption DEF Ready
  <2> QED
    BY <1>1, <1>5, <2>3, <2>4, TypeFacts, TypeFactsNext
       DEF Ready, flags, bounded, MonitorInv, StoppedSchedulesNothing
<1>6. CASE Disconnect(i)
  <2> DEFINE q == [slot[i] EXCEPT !.connected = FALSE]
  <2>1. q \in Process /\ q.life = slot[i].life
    BY <1>1 DEF Process
  <2>2. slot' = [slot EXCEPT ![i] = q] /\ port' = port
    BY <1>1, <1>6 DEF Disconnect
  <2> HIDE DEF q
  <2>3. slot' \in [Slots -> Process] /\ PortIsUp'
    BY <1>1, <2>1, <2>2, SlotStep
  <2> QED
    BY <1>1, <1>6, <2>3, TypeFacts, TypeFactsNext
       DEF Disconnect, flags, bounded, MonitorInv, StoppedSchedulesNothing
<1>7. CASE SendsReady(i)
  <2> DEFINE q == [slot[i] EXCEPT !.ready = "sent"]
  <2>1. q \in Process /\ q.life = slot[i].life
    BY <1>1 DEF Process
  <2>2. slot' = [slot EXCEPT ![i] = q] /\ port' = port
    BY <1>1, <1>7 DEF SendsReady
  <2> HIDE DEF q
  <2>3. slot' \in [Slots -> Process] /\ PortIsUp'
    BY <1>1, <2>1, <2>2, SlotStep
  <2> QED
    BY <1>1, <1>7, <2>3, TypeFacts, TypeFactsNext
       DEF SendsReady, flags, bounded, MonitorInv, StoppedSchedulesNothing
<1> QED
  BY <1>2, <1>3, <1>4, <1>5, <1>6, <1>7

\* The exit of a process of a stopped monitor is only noted.
LEMMA ExitStep ==
    ASSUME MonitorInv, NEW i \in Slots, Exit(i)
    PROVE  MonitorInv' /\ (stopped => spawned' = spawned)
<1> DEFINE rest == [slot EXCEPT ![i] = Free]
<1>1. TypeOK /\ slot \in [Slots -> Process] /\ PortIsUp /\ slot[i].life = "exited"
  BY TypeFacts DEF MonitorInv, Exit
<1>2. rest \in [Slots -> Process] /\ \A j \in Slots : slot[j].life = "up" => rest[j].life = "up"
  BY <1>1, ProcessFacts
<1>3. /\ UNCHANGED <<port, stopped, starts, restarts, stops, deaths>>
      /\ ExitOfStopped(i) \/ Crashed(i) \/ Replaced(i)
  BY DEF Exit, bounded
<1>4. ASSUME slot' = rest PROVE slot' \in [Slots -> Process] /\ PortIsUp'
  BY <1>1, <1>3, <1>4, ProcessFacts, SlotStep
<1>5. CASE ExitOfStopped(i)
  BY <1>1, <1>3, <1>4, <1>5, TypeFacts, TypeFactsNext DEF ExitOfStopped, MonitorInv, StoppedSchedulesNothing
<1>6. CASE Crashed(i)
  <2>1. crashes' \in 0..MaxCrashes /\ timer' \in {"none", "backoff", "cooldown"}
        /\ state' \in {"starting", "ready", "crashed", "unhealthy"}
    BY <1>1, <1>6, TypeFacts, MonitorAssumption DEF Crashed, OnCrash
  <2> QED
    BY <1>1, <1>3, <1>4, <1>6, <2>1, TypeFacts, TypeFactsNext DEF Crashed, OnCrash, MonitorInv, StoppedSchedulesNothing
<1>7. CASE Replaced(i)
  <2>1. Spawn(rest) /\ ~stopped /\ restartPending' = FALSE /\ UNCHANGED <<timer, crashes>>
    BY <1>7 DEF Replaced
  <2> HIDE DEF rest
  <2>2. /\ slot' \in [Slots -> Process] /\ PortIsUp'
        /\ child' \in Slots /\ state' = "starting" /\ spawned' \in 0..1
    BY <1>1, <1>2, <1>3, <2>1, SpawnFacts
  <2> QED
    BY <1>1, <1>3, <2>1, <2>2, TypeFacts, TypeFactsNext DEF MonitorInv, StoppedSchedulesNothing
<1> QED
  BY <1>3, <1>5, <1>6, <1>7

LEMMA KillFacts ==
    ASSUME TypeOK, NEW i \in Slots, NEW how \in {"crash", "restart"}, port' = port,
           slot' = Kill(i) \/ slot' = [Kill(i) EXCEPT ![i].onExit = how]
    PROVE  slot' \in [Slots -> Process] /\ PortIsUp'
<1>1. slot \in [Slots -> Process] /\ slot[i] \in Process
  BY TypeFacts
<1> DEFINE k == IF slot[i].life = "up" THEN [slot[i] EXCEPT !.killed = TRUE] ELSE slot[i]
           r == [k EXCEPT !.onExit = how]
<1>2. k \in Process /\ k.life = slot[i].life
  BY <1>1 DEF Process
<1>3. Kill(i) = [slot EXCEPT ![i] = k]
  BY <1>1 DEF Kill
<1> HIDE DEF k
<1>4. r \in Process /\ r.life = slot[i].life
  BY <1>2 DEF Process
<1>5. [Kill(i) EXCEPT ![i].onExit = how] = [slot EXCEPT ![i] = r]
  BY <1>1, <1>2, <1>3
<1> HIDE DEF r
<1> QED
  BY <1>1, <1>2, <1>3, <1>4, <1>5, SlotStep

LEMMA CommandStep ==
    ASSUME MonitorInv, Start \/ Restart \/ Stop \/ Respawn
    PROVE  MonitorInv' /\ (stopped /\ stopped' /\ spawned' # spawned => starts' # starts)
<1>1. TypeOK /\ slot \in [Slots -> Process]
  BY TypeFacts DEF MonitorInv
<1>2. CASE Start
  <2>1. starts' \in 0..MaxStarts /\ starts' # starts
    BY <1>1, <1>2, TypeFacts, MonitorAssumption DEF Start
  <2>2. Spawn(slot) /\ UNCHANGED <<port, timer, stopped, restartPending, crashes, restarts, stops, deaths>>
    BY <1>2 DEF Start, flags
  <2>3. /\ slot' \in [Slots -> Process] /\ PortIsUp'
        /\ child' \in Slots /\ state' = "starting" /\ spawned' \in 0..1
    BY <1>1, <2>2, SpawnFacts
  <2> QED
    BY <1>1, <2>1, <2>2, <2>3, TypeFacts, TypeFactsNext DEF MonitorInv, StoppedSchedulesNothing
<1>3. CASE Restart
  <2>1. restarts' \in 0..MaxRestarts /\ crashes' \in 0..MaxCrashes
    BY <1>1, <1>3, TypeFacts, MonitorAssumption DEF Restart
  <2>2. stopped' = FALSE /\ timer' = "none" /\ UNCHANGED <<port, starts, stops, deaths>>
    BY <1>3 DEF Restart
  <2>3. /\ slot' \in [Slots -> Process] /\ PortIsUp' /\ child' \in Slots \cup {None}
        /\ state' \in {"starting", "ready", "crashed", "unhealthy"} /\ spawned' \in 0..1
        /\ restartPending' \in BOOLEAN
    <3>1. CASE restartPending /\ UNCHANGED <<slot, child, state, spawned, restartPending>>
      BY <1>1, <2>2, <3>1, TypeFacts DEF PortIsUp
    <3>2. CASE /\ ~restartPending /\ Waits /\ restartPending' = TRUE /\ child' = None
               /\ slot' = [Kill(child) EXCEPT ![child].onExit = "restart"]
               /\ UNCHANGED <<state, spawned>>
      <4>1. child \in Slots
        BY <1>1, <3>2, TypeFacts DEF Waits
      <4> QED
        BY <1>1, <2>2, <3>2, <4>1, TypeFacts, KillFacts
    <3>3. CASE ~restartPending /\ Spawn(slot) /\ UNCHANGED restartPending
      BY <1>1, <2>2, <3>3, TypeFacts, SpawnFacts
    <3> QED
      BY <1>3, <3>1, <3>2, <3>3 DEF Restart
  <2> QED
    BY <1>1, <2>1, <2>2, <2>3, TypeFacts, TypeFactsNext DEF MonitorInv, StoppedSchedulesNothing
<1>4. CASE Stop
  <2>1. stops' \in 0..MaxStops
    BY <1>1, <1>4, TypeFacts, MonitorAssumption DEF Stop
  <2>2. slot' \in [Slots -> Process] /\ PortIsUp'
    <3>1. CASE child = None
      BY <1>1, <1>4, <3>1, TypeFacts DEF Stop, PortIsUp
    <3>2. CASE child # None
      BY <1>1, <1>4, <3>2, TypeFacts, KillFacts DEF Stop
    <3> QED
      BY <3>1, <3>2
  <2> QED
    BY <1>1, <1>4, <2>1, <2>2, TypeFacts, TypeFactsNext DEF Stop, MonitorInv, StoppedSchedulesNothing
<1>5. CASE Respawn
  <2>1. Spawn(slot) /\ timer # "none" /\ timer' = "none"
        /\ UNCHANGED <<port, stopped, restartPending, starts, restarts, stops, deaths>>
    BY <1>5 DEF Respawn, flags, bounded
  <2>2. crashes' \in 0..MaxCrashes
    BY <1>1, <1>5, TypeFacts, MonitorAssumption DEF Respawn
  <2>3. /\ slot' \in [Slots -> Process] /\ PortIsUp'
        /\ child' \in Slots /\ state' = "starting" /\ spawned' \in 0..1
    BY <1>1, <2>1, SpawnFacts
  <2> QED
    BY <1>1, <2>1, <2>2, <2>3, TypeFacts, TypeFactsNext DEF MonitorInv, StoppedSchedulesNothing
<1> QED
  BY <1>2, <1>3, <1>4, <1>5

LEMMA InvStep ==
    MonitorInv /\ [MonitorNext]_monitorVars =>
       MonitorInv' /\ (stopped /\ stopped' /\ spawned' # spawned => starts' # starts)
<1> SUFFICES ASSUME MonitorInv, [MonitorNext]_monitorVars
             PROVE  MonitorInv' /\ (stopped /\ stopped' /\ spawned' # spawned => starts' # starts)
  OBVIOUS
<1>1. CASE UNCHANGED monitorVars
  <2>1. TypeOK'
    BY <1>1, TypeFacts, TypeFactsNext DEF MonitorInv, monitorVars, flags, bounded, PortIsUp
  <2> QED
    BY <1>1, <2>1 DEF MonitorInv, StoppedSchedulesNothing, monitorVars, flags
<1>2. CASE MonitorNext
  BY <1>2, ProcessStep, ExitStep, CommandStep DEF MonitorNext
<1> QED
  BY <1>1, <1>2

-----------------------------------------------------------------------------
(* The results. *)

\* In every reachable state every variable keeps its shape, the process that has the port is up,
\* and a stopped monitor has no respawn pending.
THEOREM MonitorInvariant == MonitorSpec => []MonitorInv
BY InvInit, InvStep, PTL DEF MonitorSpec

\* A stopped monitor forks nothing of its own accord, whatever was pending or under restart when
\* it was stopped.
THEOREM Quiet == MonitorSpec => StopIsQuiet
<1>1. MonitorInv /\ [MonitorNext]_monitorVars => [stopped /\ stopped' /\ spawned' # spawned => starts' # starts]_monitorVars
  BY InvStep
<1> QED
  BY <1>1, MonitorInvariant, PTL DEF MonitorSpec, StopIsQuiet

-----------------------------------------------------------------------------
(* Which map is served.                                                      *)

Files == [ok : BOOLEAN, on : BOOLEAN, user : Entries]
Workers == [life : {"forked", "loading", "serving"}, map : [on : BOOLEAN, user : Entries],
            list : Lists \cup {Fallback, <<>>}, live : BOOLEAN]

MapTypes ==
    /\ file \in Files /\ worker \in Workers
    /\ worker.live => worker.list \in Lists
    /\ puts \in Nat /\ tui \in BOOLEAN /\ stale \in BOOLEAN

MapInv == MapTypes /\ SavedIsServed

-----------------------------------------------------------------------------
LEMMA Entry ==
    /\ NoEntries \in Entries /\ Maps \subseteq [on : BOOLEAN, user : Entries]
    /\ JustForked \in Workers /\ JustForked.life = "forked" /\ ~JustForked.live
<1>1. NoEntries \in Entries
  BY DEF NoEntries, Entries
<1> QED
  BY <1>1 DEF Maps, JustForked, Workers

\* What a worker reads has the shape of a map, whatever became of the file.
LEMMA ConfigType == ASSUME file \in Files PROVE Config \in [on : BOOLEAN, user : Entries]
BY Entry DEF Config, Files

\* A saved map leaves the file in shape.
LEMMA SaveType == ASSUME NEW map \in [on : BOOLEAN, user : Entries], Save(map) PROVE file' \in Files
BY DEF Save, Files

\* What the operations of the store make has the shape of a map.
LEMMA MadeType ==
    ASSUME file \in Files
    PROVE  /\ \A on \in BOOLEAN : Enabled(on) \in [on : BOOLEAN, user : Entries]
           /\ \A a \in Aliases, e \in Backends \cup {Nothing, Disabled} :
                 Upserted(a, e) \in [on : BOOLEAN, user : Entries]
           /\ \A a \in Aliases : Removed(a) \in [on : BOOLEAN, user : Entries]
           /\ Emptied \in [on : BOOLEAN, user : Entries]
BY Entry DEF Files, Entries, Enabled, Upserted, Removed, Emptied

LEMMA MapInit == RoutingInit => MapInv
<1> SUFFICES ASSUME RoutingInit PROVE MapInv
  OBVIOUS
<1>1. file \in Files /\ worker \in Workers /\ worker.life = "forked" /\ ~worker.live
  BY Entry DEF RoutingInit, Files
<1> QED
  BY <1>1 DEF RoutingInit, MapInv, MapTypes, SavedIsServed

LEMMA MapStep == MapInv /\ [RoutingNext]_routingVars => MapInv'
<1> SUFFICES ASSUME MapInv, [RoutingNext]_routingVars PROVE MapInv'
  OBVIOUS
<1> USE DEF MapInv, MapTypes
<1>1. CASE Boot
  <2>1. Config' = Config /\ Config \in [on : BOOLEAN, user : Entries]
    BY <1>1, ConfigType DEF Boot, Config
  <2>2. /\ worker' \in Workers /\ worker'.map = Config
        /\ worker'.live = worker.live /\ worker'.list = worker.list
    BY <1>1, <2>1 DEF Boot, Workers
  <2> QED
    BY <1>1, <2>1, <2>2 DEF Boot, SavedIsServed
<1>2. CASE Discovered
  <2>1. Config' = Config /\ worker.life = "loading"
    BY <1>2 DEF Discovered, Config
  <2>2. /\ worker' \in Workers /\ worker'.map = worker.map
        /\ worker'.live => worker'.list \in Lists
    <3>1. PICK l \in Lists \cup {Fallback, <<>>} :
                worker' = [worker EXCEPT !.life = "serving", !.list = l, !.live = l \in Lists]
      BY <1>2 DEF Discovered
    <3> DEFINE live == l \in Lists
    <3>2. /\ live \in BOOLEAN /\ (live => l \in Lists)
          /\ worker' = [worker EXCEPT !.life = "serving", !.list = l, !.live = live]
      BY <3>1
    <3> HIDE DEF live
    <3> QED
      BY <3>2 DEF Workers
  <2> QED
    BY <1>2, <2>1, <2>2 DEF Discovered, SavedIsServed
<1>3. CASE DiesAndIsForked
  <2>1. worker' \in Workers /\ worker'.life = "forked" /\ ~worker'.live /\ UNCHANGED <<file, puts, tui>> /\ stale' \in BOOLEAN
    BY <1>3, Entry DEF DiesAndIsForked
  <2> QED
    BY <2>1 DEF SavedIsServed
<1>4. CASE Put
  <2>1. PICK map \in [on : BOOLEAN, user : Entries] : Save(map)
    BY <1>4, Entry, MadeType DEF Put, Replace
  <2>2. file' \in Files
    BY <2>1, SaveType
  <2> QED
    BY <1>4, <2>2 DEF Put, SavedIsServed
<1>5. CASE PutRestarts
  <2>1. worker' \in Workers /\ worker'.life = "forked" /\ ~worker'.live /\ UNCHANGED <<file, tui>> /\ stale' \in BOOLEAN
    BY <1>5, Entry DEF PutRestarts, Restarted
  <2>2. puts' \in Nat
    BY <1>5 DEF PutRestarts
  <2> QED
    BY <2>1, <2>2 DEF SavedIsServed
<1>6. CASE Command
  <2>1. PICK map \in [on : BOOLEAN, user : Entries] : Save(map)
    BY <1>6, MadeType DEF Command, Change
  <2>2. file' \in Files
    BY <2>1, SaveType
  <2> QED
    BY <1>6, <2>2 DEF Command, SavedIsServed
<1>7. CASE CommandRestarts
  <2>1. UNCHANGED <<file, puts>> /\ tui' \in BOOLEAN
    BY <1>7 DEF CommandRestarts
  <2>2. CASE Restarted /\ stale' = FALSE
    <3>1. worker' \in Workers /\ worker'.life = "forked" /\ ~worker'.live /\ stale' \in BOOLEAN
      BY <2>2, Entry DEF Restarted
    <3> QED
      BY <2>1, <3>1 DEF SavedIsServed
  <2>3. CASE UNCHANGED worker /\ stale' = TRUE
    <3>1. /\ worker' \in Workers /\ (worker'.live => worker'.list \in Lists)
          /\ stale' \in BOOLEAN /\ stale'
      BY <2>3
    <3> QED
      BY <2>1, <3>1 DEF SavedIsServed
  <2> QED
    BY <1>7, <2>2, <2>3 DEF CommandRestarts
<1>8. CASE HandEdit
  <2>1. file' \in Files
    <3>1. CASE file' = [ok |-> FALSE, on |-> FALSE, user |-> NoEntries]
      BY <3>1, Entry DEF Files
    <3>2. CASE \E map \in Maps : Save(map)
      BY <3>2, Entry, SaveType
    <3> QED
      BY <1>8, <3>1, <3>2 DEF HandEdit
  <2> QED
    BY <1>8, <2>1 DEF HandEdit, SavedIsServed
<1>9. CASE UNCHANGED routingVars
  BY <1>9 DEF routingVars, SavedIsServed, Config
<1> QED
  BY <1>1, <1>2, <1>3, <1>4, <1>5, <1>6, <1>7, <1>8, <1>9 DEF RoutingNext

\* The types, and the property below, hold in every behaviour of the worker and the map's file.
THEOREM RoutingInvariant == RoutingSpec => []MapInv
<1> QED
  BY MapInit, MapStep, PTL DEF RoutingSpec

\* Once no restart is under way, the worker serves the map that was saved last, unless the file
\* was edited by hand or the terminal's restart failed (api.ts PUT /claude-map, cli runClaudeMap).
THEOREM Served == RoutingSpec => []SavedIsServed
<1>1. MapInv => SavedIsServed
  BY DEF MapInv
<1> QED
  BY <1>1, RoutingInvariant, PTL

-----------------------------------------------------------------------------
(* Matching ids: the list's own spelling of an id is the closest one.        *)

LEMMA LeastOf ==
    ASSUME NEW S, S \subseteq Nat, S # {}
    PROVE  \E i \in S : \A j \in S : i <= j
<1>1. PICK i \in S : \A j \in S : ~(<<j, i>> \in OpToRel(<, Nat))
  BY NatLessThanWellFounded, WFMin
<1>2. \A j \in S : ~(j < i)
  BY <1>1 DEF OpToRel
<1> QED
  BY <1>2

\* Two ids share no more words than they have, and as many only if they have the same.
LEMMA Overlap ==
    ASSUME NEW a \in Ids, NEW b \in Ids
    PROVE  /\ Common(a, b) \in Nat /\ All(a, b) \in Nat \ {0} /\ Common(a, b) <= All(a, b)
           /\ Common(a, b) = All(a, b) <=> Tokens[a] = Tokens[b]
<1> DEFINE both == Tokens[a] \cap Tokens[b]
           any == Tokens[a] \cup Tokens[b]
<1>1. IsFiniteSet(Tokens[a]) /\ IsFiniteSet(Tokens[b]) /\ Tokens[a] # {}
  BY TokensAssumption
<1>2. IsFiniteSet(any)
  BY <1>1, FS_Union
<1>3. both \in SUBSET any /\ any # {}
  BY <1>1
<1>4. /\ Cardinality(any) \in Nat /\ Cardinality(both) \in Nat
      /\ Cardinality(both) <= Cardinality(any)
      /\ Cardinality(any) = Cardinality(both) => any = both
      /\ Cardinality(any) # 0
  <2> HIDE DEF any, both
  <2> QED
    BY <1>2, <1>3, FS_Subset, FS_CardinalityType, FS_EmptySet
<1>5. any = both <=> Tokens[a] = Tokens[b]
  OBVIOUS
<1>6. Cardinality(any) = Cardinality(both) <=> Tokens[a] = Tokens[b]
  BY <1>4, <1>5
<1> QED
  BY <1>4, <1>6 DEF Common, All

\* Of ratios x/y and n/n the first is not less only if x reaches y.
LEMMA Ratio ==
    ASSUME NEW x \in Nat, NEW y \in Nat, NEW n \in Nat \ {0}
    PROVE  (n * y <= x * n) <=> y <= x
<1>1. x * n = n * x
  OBVIOUS
<1>2. ASSUME y <= x PROVE n * y <= n * x
  BY <1>2
<1>3. ASSUME x < y PROVE n * x < n * y
  BY <1>3
<1> QED
  BY <1>1, <1>2, <1>3

\* An id is matched with the one id of the list that has its words.
LEMMA MatchIsExact ==
    ASSUME NEW id \in Ids, NEW list \in Seq(Ids), ~Twins(list),
           NEW m \in In(list), Tokens[m] = Tokens[id]
    PROVE  BestMatch(id, list) = m
<1>1. \A b \in In(list) : b \in Ids /\ (Tokens[b] = Tokens[id] => b = m)
  BY DEF Twins, In
<1>2. CASE id \in In(list)
  BY <1>1, <1>2 DEF BestMatch
<1>3. CASE id \notin In(list)
  <2> DEFINE close == Closest(id, list)
  <2>1. PICK i \in DOMAIN list : list[i] = m
    BY DEF In
  <2>2. \A j \in DOMAIN list : list[j] \in Ids /\ list[j] \in In(list)
    BY DEF In
  <2>3. /\ Common(id, list[i]) = All(id, list[i]) /\ All(id, list[i]) \in Nat \ {0}
        /\ \A j \in DOMAIN list : /\ Common(id, list[j]) \in Nat /\ All(id, list[j]) \in Nat \ {0}
                                  /\ Common(id, list[j]) <= All(id, list[j])
    BY <2>1, <2>2, Overlap
  <2>4. i \in close
    <3>1. \A j \in DOMAIN list :
             Common(id, list[j]) * All(id, list[i]) <= Common(id, list[i]) * All(id, list[j])
      <4> SUFFICES ASSUME NEW j \in DOMAIN list
                   PROVE  Common(id, list[j]) * All(id, list[i]) <= All(id, list[i]) * All(id, list[j])
        BY <2>3
      <4> DEFINE x == Common(id, list[j])
                 y == All(id, list[j])
                 n == All(id, list[i])
      <4>1. x \in Nat /\ y \in Nat /\ n \in Nat \ {0} /\ x <= y
        BY <2>3
      <4> HIDE DEF x, y, n
      <4>2. n * x <= y * n
        BY <4>1, Ratio
      <4>3. x * n = n * x /\ n * y = y * n
        BY <4>1
      <4> QED
        BY <4>2, <4>3 DEF x, y, n
    <3>2. 5 * Common(id, list[i]) >= 3 * All(id, list[i])
      BY <2>3
    <3> QED
      BY <2>1, <3>1, <3>2 DEF Closest
  <2>5. \A k \in close : list[k] = m
    <3> SUFFICES ASSUME NEW k \in close PROVE list[k] = m
      OBVIOUS
    <3>1. /\ k \in DOMAIN list
          /\ Common(id, list[i]) * All(id, list[k]) <= Common(id, list[k]) * All(id, list[i])
      BY <2>1 DEF Closest
    <3>2. All(id, list[k]) <= Common(id, list[k])
      <4> DEFINE x == Common(id, list[k])
                 y == All(id, list[k])
                 n == All(id, list[i])
      <4>1. x \in Nat /\ y \in Nat /\ n \in Nat \ {0} /\ n * y <= x * n
        BY <2>3, <3>1
      <4> HIDE DEF x, y, n
      <4>2. y <= x
        BY <4>1, Ratio
      <4> QED
        BY <4>2 DEF x, y
    <3>3. Common(id, list[k]) = All(id, list[k])
      BY <2>3, <3>1, <3>2
    <3>4. Tokens[id] = Tokens[list[k]]
      BY <2>2, <3>1, <3>3, Overlap
    <3> QED
      BY <1>1, <2>2, <3>1, <3>4
  <2>6. close \subseteq Nat
    BY DEF Closest
  <2>7. BestMatch(id, list) = list[CHOOSE k \in close : \A j \in close : k <= j]
    BY <1>3, <2>4 DEF BestMatch
  <2> HIDE DEF close
  <2>8. \E k \in close : \A j \in close : k <= j
    BY <2>4, <2>6, LeastOf
  <2> QED
    BY <2>5, <2>7, <2>8
<1> QED
  BY <1>2, <1>3

\* What a worker with a live list lists can be asked for.
LEMMA ListIsRouted == MapTypes => ListedIsRouted
<1> SUFFICES ASSUME MapTypes, worker.live, ~Twins(worker.list),
                    NEW e \in Listed(worker), e.id \notin Dotted(worker)
             PROVE  LET m == Resolve(worker, e.id)
                    IN  /\ m \in In(worker.list)
                        /\ e.large => e.id \in Claude
                        /\ e.id \in Claude /\ Window[m] # "unknown" /\ OneM(worker) # {} =>
                              (e.large <=> Window[m] = "large")
  BY DEF ListedIsRouted
<1> DEFINE list == worker.list
<1>t. list \in Seq(Ids) /\ list # <<>>
  BY RoutingAssumption DEF MapTypes
<1>1. Models(worker) = In(list) /\ In(list) \subseteq Ids
  BY <1>t DEF Models, In
<1>2. CASE e \in {Mapped(worker, a) : a \in Available(worker)}
  <2>1. PICK a \in Available(worker) : e = Mapped(worker, a)
    BY <1>2
  <2>2. e.id = Dashed[a] /\ e.large = (IF Window[Effective(worker, a)] = "unknown"
                                        THEN Dashed[a] \in Known1M
                                        ELSE Window[Effective(worker, a)] = "large")
    BY <2>1 DEF Mapped
  <2>3. Dashed[a] = a
    BY <2>1, <2>2 DEF Dotted
  <2>4. Resolve(worker, e.id) = Effective(worker, a) /\ Effective(worker, a) \in In(list)
    BY <2>1, <2>2, <2>3 DEF Resolve, Available
  <2>5. a \in Claude
    BY <2>1, RoutingAssumption DEF Available
  <2> QED
    BY <2>2, <2>3, <2>4, <2>5
<1>3. CASE e \notin {Mapped(worker, a) : a \in Available(worker)}
  <2>1. PICK m \in In(list) : e = Real(worker, m)
    BY <1>1, <1>3 DEF Listed
  <2>2. e.id = Dashed[m] /\ e.large = (m \in Claude /\ Is1M(worker, Dashed[m])) /\ e.id \notin Available(worker)
    BY <1>3, <2>1 DEF Listed, Real
  <2>3. m \in Ids /\ Dashed[m] \in Ids /\ Tokens[Dashed[m]] = Tokens[m] /\ (m \in Claude <=> Dashed[m] \in Claude)
    BY <1>1, TokensAssumption, RoutingAssumption
  <2>4. Resolve(worker, e.id) = m
    BY <1>t, <2>2, <2>3, MatchIsExact DEF Resolve
  <2>5. ASSUME OneM(worker) # {}, e.id \in Claude PROVE e.large <=> Window[m] = "large"
    <3>1. e.large <=> Dashed[m] \in OneM(worker)
      BY <2>2, <2>3, <2>5 DEF Is1M
    <3>2. Dashed[m] \in OneM(worker) <=> \E n \in In(list) : Window[n] = "large" /\ Dashed[n] = Dashed[m]
      BY DEF OneM
    <3>3. \A n \in In(list) : Dashed[n] = Dashed[m] => n = m
      <4> SUFFICES ASSUME NEW n \in In(list), Dashed[n] = Dashed[m] PROVE n = m
        OBVIOUS
      <4>1. Tokens[n] = Tokens[m]
        BY <1>1, <2>3, TokensAssumption
      <4> QED
        BY <4>1 DEF Twins
    <3> QED
      BY <3>1, <3>2, <3>3
  <2> QED
    BY <2>2, <2>3, <2>4, <2>5
<1> QED
  BY <1>2, <1>3

\* What is listed from a live list resolves to a model that Copilot has, Claude ids with that model's
\* badge and others with none, for all ids, aliases and lists - except dotted aliases, twins and windows
\* nobody tells
\* (router.ts listAnthropicModels and resolveModel, fuzzy.ts).
THEOREM ListedResolves == RoutingSpec => []ListedIsRouted
<1>1. MapInv => ListedIsRouted
  BY ListIsRouted DEF MapInv
<1> QED
  BY <1>1, RoutingInvariant, PTL

-----------------------------------------------------------------------------
(* One request: the client's blocks.                                         *)

Block == [kind : {"thinking", "text"} \cup (Names \ Gateway), open : BOOLEAN]
Stops == {"none", "max_tokens", "end_turn", "tool_use"} \cup Failures
Messaged == [blocks : Seq(Block), stop : Stops, bad : {FALSE}]
CallRecord == [id : Native \cup {Extracted}, name : Names]

\* The client's blocks are in order, and the open ones are those the worker has open.
Holds(c, i, kind) == i = NoBlock \/ (i \in Nat /\ HasOpen(c, i) /\ c.blocks[i + 1].kind = kind)
Fits(c, think, txt) ==
    /\ c \in Messaged
    /\ Holds(c, think, "thinking") /\ Holds(c, txt, "text")
    /\ \A i \in Still(c) : i = think + 1 \/ i = txt + 1

\* d is c with an open block of this kind more; d is c with block i closed.
AfterOpening(c, d, kind) ==
    LET n == Len(c.blocks)
    IN  /\ d \in Messaged
        /\ n \in Nat /\ DOMAIN c.blocks = 1..n /\ DOMAIN d.blocks = 1..(n + 1)
        /\ \A i \in 1..n : d.blocks[i] = c.blocks[i]
        /\ d.blocks[n + 1] = [kind |-> kind, open |-> TRUE]
AfterClosing(c, d, i) ==
    /\ d \in Messaged
    /\ DOMAIN d.blocks = DOMAIN c.blocks /\ Len(d.blocks) = Len(c.blocks)
    /\ \A j \in DOMAIN c.blocks : d.blocks[j].kind = c.blocks[j].kind
    /\ \A j \in DOMAIN c.blocks \ {i + 1} : d.blocks[j] = c.blocks[j]
    /\ ~d.blocks[i + 1].open

LEMMA MessagedFacts ==
    ASSUME NEW c \in Messaged
    PROVE  c.blocks \in Seq(Block) /\ Len(c.blocks) \in Nat /\ DOMAIN c.blocks = 1..Len(c.blocks) /\ c.bad = FALSE
<1>1. c.blocks \in Seq(Block) /\ c.bad = FALSE
  BY DEF Messaged
<1> QED
  BY <1>1

\* A block that starts at the next index is the last of the message, and open.
LEMMA Opened ==
    ASSUME NEW c \in Messaged, NEW kind \in {"thinking", "text"}
    PROVE  AfterOpening(c, Opens(c, Len(c.blocks), kind), kind)
<1> DEFINE n == Len(c.blocks)  d == Opens(c, n, kind)  b == [kind |-> kind, open |-> TRUE]
<1>1. c.blocks \in Seq(Block) /\ c.bad = FALSE /\ c.stop \in Stops
  BY DEF Messaged
<1>2. b \in Block
  BY DEF Block
<1> HIDE DEF b
<1> DEFINE bad == c.bad \/ n # Len(c.blocks)
<1>3. bad = FALSE
  BY <1>1, Zenon
<1>4. d = [c EXCEPT !.blocks = Append(@, b), !.bad = bad]
  BY Zenon DEF Opens, b
<1> HIDE DEF bad, d
<1>5. d = [blocks |-> Append(c.blocks, b), stop |-> c.stop, bad |-> FALSE]
  BY <1>3, <1>4 DEF Messaged
<1>6. d.blocks = Append(c.blocks, b) /\ d \in Messaged
  BY <1>1, <1>2, <1>5 DEF Messaged
<1>7. n \in Nat /\ DOMAIN c.blocks = 1..n /\ DOMAIN d.blocks = 1..(n + 1)
  BY <1>1, <1>6
<1>8. d.blocks[n + 1] = b /\ \A i \in 1..n : d.blocks[i] = c.blocks[i]
  BY <1>1, <1>6, <1>7
<1> QED
  BY <1>6, <1>7, <1>8 DEF b, d, AfterOpening

\* Closing an open block changes nothing else of the message.
LEMMA Closed ==
    ASSUME NEW c \in Messaged, NEW i \in Nat, HasOpen(c, i)
    PROVE  AfterClosing(c, Closes(c, i), i)
<1> DEFINE d == Closes(c, i)  b == [c.blocks[i + 1] EXCEPT !.open = FALSE]
<1>1. c.blocks \in Seq(Block) /\ i + 1 \in DOMAIN c.blocks
  BY DEF Messaged, HasOpen
<1>2. c.blocks[i + 1] \in Block
  BY <1>1
<1>3. b \in Block /\ b.kind = c.blocks[i + 1].kind /\ ~b.open
  BY <1>2 DEF Block
<1>4. d = [c EXCEPT !.blocks[i + 1].open = FALSE]
  BY DEF Closes
<1> DEFINE bs == [c.blocks EXCEPT ![i + 1] = b]
<1>5. d = [c EXCEPT !.blocks = bs]
  BY <1>4
<1> HIDE DEF b, d
<1>6. /\ bs \in Seq(Block) /\ DOMAIN bs = DOMAIN c.blocks /\ Len(bs) = Len(c.blocks)
      /\ bs[i + 1] = b /\ \A j \in DOMAIN c.blocks \ {i + 1} : bs[j] = c.blocks[j]
  BY <1>1, <1>3
<1> HIDE DEF bs
<1>7. d \in Messaged /\ d.blocks = bs
  BY <1>5, <1>6 DEF Messaged
<1> QED
  BY <1>1, <1>3, <1>6, <1>7 DEF d, AfterClosing

\* A piece of an open block of its kind is one the client can place.
LEMMA DeltaSame ==
    ASSUME NEW c \in Messaged, NEW i \in Nat, NEW kind, HasOpen(c, i), c.blocks[i + 1].kind = kind
    PROVE  Delta(c, i, kind) = c
<1> DEFINE bad == c.bad \/ ~HasOpen(c, i) \/ c.blocks[i + 1].kind # kind
<1>1. c.bad = FALSE
  BY DEF Messaged
<1>2. bad = FALSE
  BY <1>1, Zenon
<1>3. Delta(c, i, kind) = [c EXCEPT !.bad = bad]
  BY Zenon DEF Delta
<1> HIDE DEF bad
<1> QED
  BY <1>1, <1>2, <1>3 DEF Messaged

\* A message may end when none of its blocks is open.
LEMMA Ended ==
    ASSUME NEW c \in Messaged, NEW reason \in Stops, Still(c) = {}
    PROVE  Ends(c, reason) \in Messaged /\ Still(Ends(c, reason)) = {}
<1> DEFINE bad == c.bad \/ Still(c) # {}
<1>1. c.bad = FALSE
  BY DEF Messaged
<1>2. bad = FALSE
  BY <1>1, Zenon
<1>3. Ends(c, reason) = [c EXCEPT !.stop = reason, !.bad = bad]
  BY Zenon DEF Ends
<1> HIDE DEF bad
<1> QED
  BY <1>1, <1>2, <1>3 DEF Messaged, Still

-----------------------------------------------------------------------------
(* What the worker does to the client's blocks keeps them in step with its own. *)

\* The blocks the worker has open are open for the client, and they are two different ones.
LEMMA FitsFacts ==
    ASSUME NEW c, NEW think, NEW txt, Fits(c, think, txt)
    PROVE  /\ c \in Messaged /\ Len(c.blocks) \in Nat /\ DOMAIN c.blocks = 1..Len(c.blocks)
           /\ think \in Int /\ txt \in Int
           /\ think # NoBlock => /\ think \in Nat /\ HasOpen(c, think) /\ c.blocks[think + 1].kind = "thinking"
           /\ txt # NoBlock => /\ txt \in Nat /\ HasOpen(c, txt) /\ c.blocks[txt + 1].kind = "text"
           /\ think # NoBlock => think # txt
<1>1. c \in Messaged
  BY DEF Fits
<1>2. Len(c.blocks) \in Nat /\ DOMAIN c.blocks = 1..Len(c.blocks)
  BY <1>1, MessagedFacts
<1> QED
  BY <1>1, <1>2 DEF Fits, Holds, NoBlock

LEMMA OpenThinking ==
    ASSUME NEW c, NEW d, NEW txt, Fits(c, NoBlock, txt), AfterOpening(c, d, "thinking")
    PROVE  Fits(d, Len(c.blocks), txt)
<1>1. Holds(d, Len(c.blocks), "thinking")
  BY DEF AfterOpening, Holds, HasOpen
<1>2. Holds(d, txt, "text")
  BY DEF Fits, AfterOpening, Holds, HasOpen
<1>3. ASSUME NEW i \in Still(d) PROVE i = Len(c.blocks) + 1 \/ i = txt + 1
  BY DEF Fits, AfterOpening, NoBlock, Still
<1> QED
  BY <1>1, <1>2, <1>3 DEF Fits, AfterOpening

LEMMA OpenText ==
    ASSUME NEW c, NEW d, NEW think, Fits(c, think, NoBlock), AfterOpening(c, d, "text")
    PROVE  Fits(d, think, Len(c.blocks))
<1>1. Holds(d, Len(c.blocks), "text")
  BY DEF AfterOpening, Holds, HasOpen
<1>2. Holds(d, think, "thinking")
  BY DEF Fits, AfterOpening, Holds, HasOpen
<1>3. ASSUME NEW i \in Still(d) PROVE i = Len(c.blocks) + 1 \/ i = think + 1
  BY DEF Fits, AfterOpening, NoBlock, Still
<1> QED
  BY <1>1, <1>2, <1>3 DEF Fits, AfterOpening

LEMMA ThinkingClosed ==
    ASSUME NEW c, NEW d, NEW think, NEW txt, Fits(c, think, txt), think # NoBlock, AfterClosing(c, d, think)
    PROVE  Fits(d, NoBlock, txt)
<1>1. Holds(d, txt, "text")
  BY FitsFacts DEF AfterClosing, Holds, HasOpen
<1>2. ASSUME NEW i \in Still(d) PROVE i = txt + 1
  BY DEF Fits, AfterClosing, Still
<1> QED
  BY <1>1, <1>2 DEF Fits, Holds, AfterClosing

LEMMA TextClosed ==
    ASSUME NEW c, NEW d, NEW txt, Fits(c, NoBlock, txt), txt # NoBlock, AfterClosing(c, d, txt)
    PROVE  Fits(d, NoBlock, NoBlock)
<1>2. Still(d) = {}
  BY FitsFacts DEF Fits, AfterClosing, Still, NoBlock
<1> QED
  BY <1>2 DEF Fits, Holds, AfterClosing

\* With nothing open, no block of a message is.
LEMMA NothingOpen == ASSUME NEW c, Fits(c, NoBlock, NoBlock) PROVE c \in Messaged /\ Still(c) = {}
<1>1. c \in Messaged
  BY DEF Fits
<1>2. DOMAIN c.blocks = 1..Len(c.blocks) /\ Len(c.blocks) \in Nat
  BY <1>1, MessagedFacts
<1> QED
  BY <1>1, <1>2 DEF Fits, Still, NoBlock

\* At the end of a turn what is open is closed, whichever blocks that are.
LEMMA TurnClosed ==
    ASSUME NEW c, NEW think, NEW txt, Fits(c, think, txt)
    PROVE  /\ Fits(CloseTurn(c, think, txt), NoBlock, NoBlock)
           /\ Len(CloseTurn(c, think, txt).blocks) = Len(c.blocks)
<1> DEFINE d == IF think = NoBlock THEN c ELSE Closes(c, think)
<1>1. Fits(d, NoBlock, txt) /\ Len(d.blocks) = Len(c.blocks)
  <2>1. CASE think = NoBlock
    BY <2>1
  <2>2. CASE think # NoBlock
    <3>1. AfterClosing(c, Closes(c, think), think)
      BY <2>2, FitsFacts, Closed
    <3> QED
      BY <2>2, <3>1, ThinkingClosed DEF AfterClosing
  <2> QED
    BY <2>1, <2>2
<1> HIDE DEF d
<1>2. CASE txt = NoBlock
  BY <1>1, <1>2 DEF CloseTurn, d
<1>3. CASE txt # NoBlock
  <2>1. AfterClosing(d, Closes(d, txt), txt)
    BY <1>1, <1>3, FitsFacts, Closed
  <2>2. CloseTurn(c, think, txt) = Closes(d, txt)
    BY <1>3 DEF CloseTurn, d
  <2> QED
    BY <1>1, <1>3, <2>1, <2>2, TextClosed DEF AfterClosing
<1> QED
  BY <1>2, <1>3

\* Before text or a call, open reasoning is closed.
LEMMA ReasoningClosed ==
    ASSUME NEW c, Fits(c, thinking, text)
    PROVE  /\ Fits(CloseThinking(c), NoBlock, text)
           /\ Len(CloseThinking(c).blocks) = Len(c.blocks)
<1>1. CASE thinking = NoBlock
  BY <1>1 DEF CloseThinking
<1>2. CASE thinking # NoBlock
  <2>1. AfterClosing(c, Closes(c, thinking), thinking)
    BY <1>2, FitsFacts, Closed
  <2> QED
    BY <1>2, <2>1, ThinkingClosed DEF AfterClosing, CloseThinking
<1> QED
  BY <1>1, <1>2

-----------------------------------------------------------------------------
(* The inductive invariant. *)

AnyCall == [id : Native \cup {Extracted} \cup Names, name : Names]
Turns == [calls : SUBSET AnyCall, results : SUBSET AnyCall]
RequestTypes ==
    /\ mode \in {"stream", "whole"} /\ pc \in {"open", "reading", "running", "done"}
    /\ got \in Messaged
    /\ buffered \in Seq(AnyCall)
    /\ convo \in Seq(Turns)

\* As long as the request is answered the client sees the blocks that the worker believes in.
InStep == /\ pc # "done" => Fits(got, thinking, text) /\ next = Len(got.blocks)
          /\ mode = "whole" \/ pc = "running" => thinking = NoBlock /\ text = NoBlock

Sequential(c) == \A i, j \in Still(c) : i = j

\* Only the calls of the turn whose tools are running wait for results, and only tools that do run.
Answering ==
    \A i \in DOMAIN convo :
       \/ mixed
       \/ IF pc = "running" /\ i = Len(convo) THEN \A b \in convo[i].calls : b.name \in Gateway
                                              ELSE convo[i].calls = convo[i].results

RequestInv == RequestTypes /\ InStep /\ (late \/ Sequential(got)) /\ Answering

\* Without reasoning or without text open, one block at most is.
LEMMA AtOnce ==
    ASSUME NEW c, NEW think, NEW txt, Fits(c, think, txt), think = NoBlock \/ txt = NoBlock
    PROVE  Sequential(c)
<1>1. DOMAIN c.blocks = 1..Len(c.blocks) /\ Len(c.blocks) \in Nat
  BY FitsFacts
<1>2. CASE think = NoBlock
  BY <1>1, <1>2 DEF Fits, Sequential, NoBlock, Still
<1>3. CASE txt = NoBlock
  BY <1>1, <1>3 DEF Fits, Sequential, NoBlock, Still
<1> QED
  BY <1>2, <1>3

\* A request that is over keeps what the client has.
LEMMA Over ==
    ASSUME RequestInv, pc' = "done", got' \in Messaged, late' \/ Sequential(got'),
           UNCHANGED <<mode, thinking, text, convo, mixed>>,
           pc = "running" => mixed,
           buffered' \in Seq(AnyCall)
    PROVE  RequestInv'
<1>1. RequestTypes'
  BY DEF RequestInv, RequestTypes, AnyCall
<1>2. InStep'
  BY DEF RequestInv, InStep
<1>3. Answering'
  BY DEF RequestInv, Answering
<1> QED
  BY <1>1, <1>2, <1>3 DEF RequestInv, Sequential, Still

\* After a chunk that leaves the client in step, the request goes on so or is cut off with
\* all blocks closed.
LEMMA ChunkKeeps ==
    ASSUME RequestInv, mode = "stream", pc = "reading",
           NEW c, NEW calls \in Seq(AnyCall), NEW trip, AfterChunk(c, calls, trip),
           Fits(c, thinking', text'), next' = Len(c.blocks), late' \/ Sequential(c)
    PROVE  RequestInv'
<1>0. /\ mode' = mode /\ convo' = convo /\ mixed' = mixed
      /\ \/ trip \/ expired
         \/ got' = c /\ buffered' = calls /\ pc' = pc
      /\ trip \/ expired => CutOff(c)
  BY DEF AfterChunk
<1>1. CASE trip \/ expired
  <2> DEFINE d == CloseTurn(c, thinking', text')
  <2>1. Fits(d, NoBlock, NoBlock)
    BY TurnClosed
  <2>2. d \in Messaged /\ Still(d) = {}
    BY <2>1, NothingOpen
  <2>3. pc' = "done" /\ got' = Ends(d, "max_tokens") /\ buffered' = << >>
    BY <1>0, <1>1 DEF CutOff
  <2> HIDE DEF d
  <2>4. Ends(d, "max_tokens") \in Messaged /\ Still(Ends(d, "max_tokens")) = {}
    BY <2>2, Ended DEF Stops
  <2>5. got' \in Messaged /\ Still(got') = {}
    BY <2>3, <2>4, Zenon
  <2>6. RequestTypes'
    BY <1>0, <2>3, <2>5 DEF RequestInv, RequestTypes
  <2>7. InStep'
    BY <1>0, <2>3 DEF InStep
  <2>8. Answering'
    BY <1>0, <2>3 DEF RequestInv, Answering
  <2> QED
    BY <2>5, <2>6, <2>7, <2>8 DEF RequestInv, Sequential, Still
<1>2. CASE ~(trip \/ expired)
  <2>1. got' = c /\ buffered' = calls /\ pc' = pc
    BY <1>0, <1>2
  <2>2. c \in Messaged
    BY DEF Fits
  <2>3. RequestTypes'
    BY <1>0, <2>1, <2>2 DEF RequestInv, RequestTypes
  <2>4. InStep'
    BY <1>0, <2>1 DEF InStep, Fits, Holds, HasOpen, Still
  <2>5. Answering'
    BY <1>0, <2>1 DEF RequestInv, Answering
  <2> QED
    BY <2>1, <2>3, <2>4, <2>5 DEF RequestInv, Sequential, Still
<1> QED
  BY <1>1, <1>2

LEMMA ThinkStep == ASSUME RequestInv, ThinkChunk PROVE RequestInv'
<1>1. /\ mode = "stream" /\ pc = "reading" /\ text' = text /\ finish' = finish
      /\ (text # NoBlock => late') /\ (late => late')
      /\ Fits(got, thinking, text) /\ next = Len(got.blocks) /\ buffered \in Seq(AnyCall)
      /\ late \/ Sequential(got)
  BY DEF ThinkChunk, RequestInv, InStep, RequestTypes
<1>2. CASE thinking = NoBlock
  <2> DEFINE d == Opens(got, next, "thinking")
  <2>1. thinking' = next /\ next' = next + 1 /\ AfterChunk(d, buffered, FALSE)
    BY <1>2 DEF ThinkChunk
  <2>2. AfterOpening(got, d, "thinking")
    BY <1>1, FitsFacts, Opened
  <2>3. Fits(d, next, text)
    BY <1>1, <1>2, <2>2, OpenThinking
  <2>4. next' = Len(d.blocks)
    BY <1>1, <2>1, <2>2, MessagedFacts DEF AfterOpening
  <2>5. late' \/ Sequential(d)
    BY <1>1, <2>3, AtOnce
  <2> HIDE DEF d
  <2> QED
    BY <1>1, <2>1, <2>3, <2>4, <2>5, ChunkKeeps
<1>3. CASE thinking # NoBlock
  <2>1. thinking' = thinking /\ next' = next /\ AfterChunk(Delta(got, thinking, "thinking"), buffered, FALSE)
    BY <1>3 DEF ThinkChunk
  <2>2. Delta(got, thinking, "thinking") = got
    BY <1>1, <1>3, FitsFacts, DeltaSame
  <2> QED
    BY <1>1, <2>1, <2>2, ChunkKeeps
<1> QED
  BY <1>2, <1>3

LEMMA TextStep == ASSUME RequestInv, TextChunk PROVE RequestInv'
<1> DEFINE c == CloseThinking(got)
<1>1. /\ mode = "stream" /\ pc = "reading" /\ thinking' = NoBlock /\ finish' = finish /\ late' = late
      /\ Fits(got, thinking, text) /\ next = Len(got.blocks) /\ buffered \in Seq(AnyCall)
  BY DEF TextChunk, RequestInv, InStep, RequestTypes
<1>2. Fits(c, NoBlock, text) /\ next = Len(c.blocks)
  BY <1>1, ReasoningClosed
<1>3. CASE text = NoBlock
  <2> DEFINE d == Opens(c, next, "text")
  <2>1. text' = next /\ next' = next + 1 /\ AfterChunk(d, buffered, Tripped)
    BY <1>3 DEF TextChunk
  <2> HIDE DEF c
  <2>2. AfterOpening(c, d, "text")
    BY <1>2, FitsFacts, Opened
  <2>3. Fits(d, NoBlock, next)
    BY <1>2, <1>3, <2>2, OpenText
  <2>4. next' = Len(d.blocks)
    BY <1>2, <2>1, <2>2, MessagedFacts DEF AfterOpening
  <2> HIDE DEF d
  <2>5. Sequential(d)
    BY <2>3, AtOnce
  <2> QED
    BY <1>1, <2>1, <2>3, <2>4, <2>5, ChunkKeeps
<1>4. CASE text # NoBlock
  <2>1. text' = text /\ next' = next /\ AfterChunk(Delta(c, text, "text"), buffered, Tripped)
    BY <1>4 DEF TextChunk
  <2> HIDE DEF c
  <2>2. Delta(c, text, "text") = c
    BY <1>2, <1>4, FitsFacts, DeltaSame
  <2>3. Sequential(c)
    BY <1>2, AtOnce
  <2> QED
    BY <1>1, <1>2, <2>1, <2>2, <2>3, ChunkKeeps
<1> QED
  BY <1>3, <1>4

LEMMA CallStep == ASSUME RequestInv, CallChunk PROVE RequestInv'
<1> DEFINE c == CloseThinking(got)
<1>1. /\ mode = "stream" /\ pc = "reading" /\ text' = text /\ next' = next /\ late' = late
      /\ Fits(got, thinking, text) /\ next = Len(got.blocks) /\ buffered \in Seq(AnyCall)
  BY DEF CallChunk, RequestInv, InStep, RequestTypes
<1>2. Fits(c, NoBlock, text) /\ next = Len(c.blocks) /\ Sequential(c)
  BY <1>1, ReasoningClosed, AtOnce
<1>3. PICK index \in Native \cup {Extracted}, name \in Names :
         LET known == \E b \in ToSet(buffered) : b.id = index
             calls == IF known THEN buffered ELSE Append(buffered, Call(index, name))
         IN  /\ index = Extracted => ~known
             /\ thinking' = NoBlock
             /\ finish' = IF index = Extracted /\ finish = "stop" THEN "tool_use" ELSE finish
             /\ AfterChunk(c, calls, FALSE)
  BY Zenon DEF CallChunk
<1> DEFINE calls == IF \E b \in ToSet(buffered) : b.id = index THEN buffered ELSE Append(buffered, Call(index, name))
<1>4. thinking' = NoBlock /\ AfterChunk(c, calls, FALSE)
  BY <1>3, Zenon
<1>5. calls \in Seq(AnyCall)
  <2>1. Call(index, name) \in AnyCall
    BY DEF Call, AnyCall
  <2> QED
    BY <1>1, <2>1
<1> HIDE DEF c, calls
<1> QED
  BY <1>1, <1>2, <1>4, <1>5, ChunkKeeps

-----------------------------------------------------------------------------
(* The other steps. *)

\* What happens beside the chunks leaves the client and the turn's blocks alone.
LEMMA Aside ==
    ASSUME RequestInv,
           UNCHANGED <<mode, got, next, text, thinking, buffered, convo, late, mixed>>,
           pc' = pc \/ (pc = "open" /\ pc' = "reading")
    PROVE  RequestInv'
<1>1. RequestTypes'
  BY DEF RequestInv, RequestTypes, AnyCall
<1>2. InStep'
  BY DEF RequestInv, InStep, Fits, Holds, HasOpen, Still
<1>3. Answering'
  BY DEF RequestInv, Answering
<1> QED
  BY <1>1, <1>2, <1>3 DEF RequestInv, Sequential, Still

\* An error ends the message where it is.
LEMMA Failing == ASSUME RequestInv, pc # "running", NEW why \in Failures, Fail(why) PROVE RequestInv'
<1>1. got' = [got EXCEPT !.stop = why] /\ pc' = "done" /\ UNCHANGED <<mode, turn, convo, history>>
  BY DEF Fail
<1>2. got \in Messaged
  BY DEF RequestInv, RequestTypes
<1>3. got' \in Messaged /\ got'.blocks = got.blocks
  BY <1>1, <1>2 DEF Messaged, Stops
<1>4. late' \/ Sequential(got')
  BY <1>1, <1>3 DEF RequestInv, Sequential, Still, history
<1>5. buffered' \in Seq(AnyCall)
  BY <1>1 DEF RequestInv, RequestTypes, turn
<1> QED
  BY <1>1, <1>3, <1>4, <1>5, Over DEF turn, history

LEMMA AsideSteps ==
    ASSUME RequestInv, OpenStream \/ OtherEndpoint \/ TooLarge \/ Refused \/ Breaks \/ Reason \/ Tick \/ SilentFrame
    PROVE  RequestInv'
<1>1. CASE OpenStream
  BY <1>1, Aside DEF OpenStream, turn, history
<1>2. CASE OtherEndpoint
  BY <1>2, Aside DEF OtherEndpoint, turn, history
<1>3. CASE TooLarge
  BY <1>3, Aside, Failing DEF TooLarge, Failures, turn, history
<1>4. CASE Refused
  BY <1>4, Failing DEF Refused
<1>5. CASE Breaks
  BY <1>5, Failing DEF Breaks, Failures
<1>6. CASE Reason
  BY <1>6, Aside DEF Reason, turn, history
<1>7. CASE Tick
  BY <1>7, Aside DEF Tick, turn, history
<1>8. CASE SilentFrame
  BY <1>8, Aside DEF SilentFrame, turn
<1> QED
  BY <1>1, <1>2, <1>3, <1>4, <1>5, <1>6, <1>7, <1>8

\* The turn ends with nothing open: gateway calls are run, or calls of the client forwarded.
LEMMA TurnEnds == ASSUME RequestInv, EndOfTurn PROVE RequestInv'
<1> DEFINE c == CloseTurn(got, thinking, text)
           blocks == [i \in 1..Len(buffered) |-> [kind |-> buffered[i].name, open |-> FALSE]]
<1>1. /\ mode = "stream" /\ pc = "reading" /\ text' = NoBlock /\ thinking' = NoBlock /\ buffered' = << >>
      /\ mode' = mode /\ mixed' = mixed /\ late' = late
  BY DEF EndOfTurn, history
<1>2. /\ Fits(got, thinking, text) /\ next = Len(got.blocks) /\ buffered \in Seq(AnyCall)
      /\ convo \in Seq(Turns)
  BY <1>1 DEF RequestInv, RequestTypes, InStep
<1>3. Fits(c, NoBlock, NoBlock) /\ Len(c.blocks) = next
  BY <1>2, TurnClosed
<1>4. c \in Messaged /\ Still(c) = {}
  BY <1>3, NothingOpen
<1>5. CASE Asked(buffered) # {}
  <2>1. /\ pc' = "running" /\ got' = c /\ next' = next
        /\ convo' = Append(convo, [calls |-> Asked(buffered), results |-> {}])
    BY <1>5 DEF EndOfTurn
  <2> HIDE DEF c
  <2>2. Asked(buffered) \subseteq AnyCall /\ \A b \in Asked(buffered) : b.name \in Gateway
    BY <1>2 DEF Asked, ToSet
  <2>3. RequestTypes'
    <3>1. [calls |-> Asked(buffered), results |-> {}] \in Turns
      BY <2>2 DEF Turns
    <3> QED
      BY <1>1, <1>2, <1>4, <2>1, <3>1 DEF RequestInv, RequestTypes
  <2>4. InStep'
    BY <1>1, <1>3, <2>1 DEF InStep, Fits, Holds, HasOpen, Still
  <2>5. Answering'
    <3> SUFFICES ASSUME NEW i \in DOMAIN convo', ~mixed
                 PROVE  IF pc' = "running" /\ i = Len(convo') THEN \A b \in convo'[i].calls : b.name \in Gateway
                                                              ELSE convo'[i].calls = convo'[i].results
      BY <1>1 DEF Answering
    <3>1. CASE i = Len(convo) + 1
      BY <1>2, <2>1, <2>2, <3>1
    <3>2. CASE i # Len(convo) + 1
      <4>1. i \in DOMAIN convo /\ convo'[i] = convo[i] /\ i # Len(convo')
        BY <1>2, <2>1, <3>2
      <4> QED
        BY <1>1, <4>1 DEF RequestInv, Answering
    <3> QED
      BY <3>1, <3>2
  <2>6. Sequential(got)'
    BY <1>4, <2>1 DEF Sequential, Still
  <2> QED
    BY <2>3, <2>4, <2>5, <2>6 DEF RequestInv
<1>6. CASE Asked(buffered) = {}
  <2> DEFINE bad == c.bad \/ next # Len(c.blocks)
             bs == c.blocks \o blocks
             e == [c EXCEPT !.blocks = @ \o blocks, !.bad = @ \/ next # Len(c.blocks)]
  <2>1. pc' = "done" /\ got' = Ends(e, StopOf(buffered, finish)) /\ convo' = convo
    BY <1>6, Zenon DEF EndOfTurn
  <2> HIDE DEF c
  <2>2. c.blocks \in Seq(Block) /\ c.bad = FALSE /\ c.stop \in Stops
    BY <1>4, MessagedFacts DEF Messaged
  <2>3. bad = FALSE
    BY <1>3, <2>2, Zenon
  <2>4. blocks \in Seq(Block) /\ \A i \in 1..Len(blocks) : ~blocks[i].open
    <3>1. \A i \in 1..Len(buffered) : buffered[i].name \in Names \ Gateway
      <4> SUFFICES ASSUME NEW i \in 1..Len(buffered) PROVE buffered[i].name \in Names \ Gateway
        OBVIOUS
      <4>1. buffered[i] \in AnyCall
        BY <1>2
      <4>2. buffered[i].name \notin Gateway
        BY <1>2, <1>6 DEF Asked, ToSet
      <4> QED
        BY <4>1, <4>2 DEF AnyCall
    <3>2. \A i \in 1..Len(buffered) : [kind |-> buffered[i].name, open |-> FALSE] \in Block
      BY <3>1 DEF Block
    <3>3. Len(buffered) \in Nat
      BY <1>2
    <3> QED
      BY <3>2, <3>3
  <2> HIDE DEF blocks
  <2>5. bs \in Seq(Block) /\ \A i \in DOMAIN bs : ~bs[i].open
    <3>1. DOMAIN bs = 1..(Len(c.blocks) + Len(blocks)) /\ DOMAIN c.blocks = 1..Len(c.blocks)
      BY <2>2, <2>4
    <3>2. \A i \in 1..Len(c.blocks) : ~c.blocks[i].open
      BY <1>4, <3>1 DEF Still
    <3> QED
      BY <2>2, <2>4, <3>1, <3>2
  <2>6. e = [c EXCEPT !.blocks = bs, !.bad = bad]
    BY Zenon
  <2> HIDE DEF e, bs, bad
  <2>7. e \in Messaged /\ e.blocks = bs
    BY <1>4, <2>2, <2>3, <2>5, <2>6 DEF Messaged
  <2>8. Still(e) = {}
    BY <2>5, <2>7 DEF Still
  <2>9. StopOf(buffered, finish) \in Stops
    BY DEF StopOf, StopReason, Stops
  <2>10. Ends(e, StopOf(buffered, finish)) \in Messaged /\ Still(Ends(e, StopOf(buffered, finish))) = {}
    BY <2>7, <2>8, <2>9, Ended
  <2>11. got' \in Messaged /\ Still(got') = {}
    BY <2>1, <2>10, Zenon
  <2>12. RequestTypes'
    BY <1>1, <1>2, <2>1, <2>11 DEF RequestInv, RequestTypes
  <2>13. InStep'
    BY <1>1, <2>1 DEF InStep
  <2>14. Answering'
    BY <1>1, <2>1 DEF RequestInv, Answering
  <2> QED
    BY <2>11, <2>12, <2>13, <2>14 DEF RequestInv, Sequential, Still
<1> QED
  BY <1>5, <1>6

\* Every call of the turn that was run has its result when Copilot is asked again.
LEMMA ToolsReturn == ASSUME RequestInv, NextTurn PROVE RequestInv'
<1>1. /\ pc = "running" /\ mode' = mode /\ mixed' = mixed /\ late' = late
      /\ next' = next /\ text' = text /\ thinking' = thinking /\ buffered' = buffered
      /\ convo' = [convo EXCEPT ![Len(convo)] = Answered(@)]
  BY DEF NextTurn, turn, history
<1>2. /\ Fits(got, NoBlock, NoBlock) /\ thinking = NoBlock /\ text = NoBlock /\ next = Len(got.blocks)
      /\ convo \in Seq(Turns)
  BY <1>1 DEF RequestInv, RequestTypes, InStep
<1>3. got \in Messaged /\ Still(got) = {}
  BY <1>2, NothingOpen
<1>4. /\ pc' \in {"done", "open"} /\ got' \in Messaged /\ Still(got') = {}
      /\ pc' # "done" => got' = got
  <2>1. CASE mode = "stream" /\ iter' = MaxIters
    <3>1. pc' = "done" /\ got' = Ends(got, "end_turn")
      BY <2>1 DEF NextTurn
    <3>2. Ends(got, "end_turn") \in Messaged /\ Still(Ends(got, "end_turn")) = {}
      BY <1>3, Ended DEF Stops
    <3>3. got' \in Messaged /\ Still(got') = {}
      BY <3>1, <3>2, Zenon
    <3> QED
      BY <3>1, <3>3
  <2>2. CASE ~(mode = "stream" /\ iter' = MaxIters)
    <3>1. pc' = "open" /\ got' = got
      BY <2>2 DEF NextTurn
    <3> QED
      BY <1>3, <3>1
  <2> QED
    BY <2>1, <2>2
<1>5. /\ \A i \in DOMAIN convo : convo'[i] = IF i = Len(convo) THEN Answered(convo[i]) ELSE convo[i]
      /\ DOMAIN convo' = DOMAIN convo
  BY <1>1, <1>2
<1>6. RequestTypes'
  <2>1. ASSUME NEW i \in DOMAIN convo PROVE Answered(convo[i]) \in Turns
    <3>1. convo[i] \in Turns
      BY <1>2
    <3> QED
      BY <3>1 DEF Answered, Turns
  <2>2. convo' \in Seq(Turns)
    <3>1. convo' = [i \in DOMAIN convo |-> convo'[i]]
      BY <1>1
    <3>2. \A i \in DOMAIN convo : convo'[i] \in Turns
      BY <1>2, <1>5, <2>1
    <3>3. Len(convo) \in Nat /\ DOMAIN convo = 1..Len(convo)
      BY <1>2
    <3> QED
      BY <3>1, <3>2, <3>3
  <2> QED
    BY <1>1, <1>4, <2>2 DEF RequestInv, RequestTypes
<1>7. InStep'
  BY <1>1, <1>2, <1>4 DEF InStep, Fits, Holds, HasOpen, Still
<1>8. Answering'
  <2> SUFFICES ASSUME NEW i \in DOMAIN convo, ~mixed PROVE convo'[i].calls = convo'[i].results
    BY <1>1, <1>4, <1>5 DEF Answering
  <2>1. CASE i = Len(convo)
    <3>1. \A b \in convo[i].calls : b.name \in Gateway
      BY <1>1, <2>1 DEF RequestInv, Answering
    <3>2. convo'[i] = [convo[i] EXCEPT !.results = {b \in convo[i].calls : b.name \in Gateway}]
      BY <1>5, <2>1 DEF Answered
    <3>3. convo[i] \in Turns
      BY <1>2
    <3> QED
      BY <3>1, <3>2, <3>3 DEF Turns
  <2>2. CASE i # Len(convo)
    BY <1>5, <2>2 DEF RequestInv, Answering
  <2> QED
    BY <2>1, <2>2
<1> QED
  BY <1>4, <1>6, <1>7, <1>8 DEF RequestInv, Sequential, Still

\* The blocks of a whole response are closed, and none is a call of the gateway.
LEMMA Blocked ==
    ASSUME NEW names \in SUBSET (Names \ Gateway), NEW withText \in BOOLEAN
    PROVE  /\ Blocks(names, withText) \in Seq(Block)
           /\ \A i \in DOMAIN Blocks(names, withText) : ~Blocks(names, withText)[i].open
<1> DEFINE b == [kind |-> "edit", open |-> FALSE]
           S == {[kind |-> n, open |-> FALSE] : n \in names}
           first == [i \in 1..(IF withText THEN 1 ELSE 0) |-> [kind |-> "text", open |-> FALSE]]
           shut == {x \in Block : ~x.open}
<1>1. b \in shut /\ [kind |-> "text", open |-> FALSE] \in shut
  BY DEF Block, Names, Gateway
<1>2. S = {} \/ S = {b}
  BY DEF Names, Gateway
<1> HIDE DEF b, S, shut
<1>3. SetToSeq(S) \in Seq(shut)
  <2>1. \E f \in [1..Cardinality(S) -> S] : IsInjective(f)
    <3>1. CASE S = {}
      <4>1. Cardinality(S) = 0
        BY <3>1, FS_EmptySet
      <4>2. [i \in 1..0 |-> b] \in [1..Cardinality(S) -> S] /\ IsInjective([i \in 1..0 |-> b])
        BY <4>1 DEF IsInjective
      <4> QED
        BY <4>2
    <3>2. CASE S = {b}
      <4>1. Cardinality(S) = 1
        BY <3>2, FS_Singleton
      <4>2. [i \in 1..1 |-> b] \in [1..Cardinality(S) -> S] /\ IsInjective([i \in 1..1 |-> b])
        BY <3>2, <4>1 DEF IsInjective
      <4> QED
        BY <4>2
    <3> QED
      BY <1>2, <3>1, <3>2
  <2>2. SetToSeq(S) \in [1..Cardinality(S) -> S]
    BY <2>1 DEF SetToSeq
  <2>3. Cardinality(S) \in Nat /\ S \subseteq shut
    BY <1>1, <1>2, FS_EmptySet, FS_Singleton
  <2> QED
    BY <2>2, <2>3
<1>4. first \in Seq(shut)
  BY <1>1
<1> HIDE DEF first
<1>5. Blocks(names, withText) = first \o SetToSeq(S)
  BY DEF Blocks, first, S
<1>6. Blocks(names, withText) \in Seq(shut)
  BY <1>3, <1>4, <1>5
<1> HIDE DEF shut
<1>7. shut \subseteq Block /\ \A x \in shut : ~x.open
  BY DEF shut
<1> QED
  BY <1>6, <1>7

LEMMA WholeStep == ASSUME RequestInv, Whole PROVE RequestInv'
<1>1. /\ mode = "whole" /\ pc = "open" /\ mode' = mode /\ late' = late /\ next' = next
      /\ text' = text /\ thinking' = thinking /\ buffered' = buffered
      /\ text = NoBlock /\ thinking = NoBlock
  BY DEF Whole, turn, RequestInv, InStep
<1>2. got \in Messaged /\ buffered \in Seq(AnyCall) /\ convo \in Seq(Turns)
  BY DEF RequestInv, RequestTypes
<1>3. PICK r \in Replies :
          IF r.names \cap Gateway # {} /\ iter < MaxIters
          THEN /\ pc' = "running"
               /\ convo' = Append(convo, [calls |-> Calls(r), results |-> {}])
               /\ mixed' = (mixed \/ ~(r.names \subseteq Gateway))
               /\ UNCHANGED got
          ELSE /\ pc' = "done"
               /\ got' = [got EXCEPT !.blocks = Blocks(r.names \ Gateway, r.text),
                                     !.stop = StopReason(r.finish)]
               /\ UNCHANGED <<convo, mixed>>
  BY Zenon DEF Whole
<1>4. r.names \subseteq Names /\ r.text \in BOOLEAN
  BY DEF Replies
<1>5. CASE r.names \cap Gateway # {} /\ iter < MaxIters
  <2>1. /\ pc' = "running" /\ got' = got /\ convo' = Append(convo, [calls |-> Calls(r), results |-> {}])
        /\ mixed => mixed'
        /\ ~(r.names \subseteq Gateway) => mixed'
    BY <1>3, <1>5, Zenon
  <2>2. [calls |-> Calls(r), results |-> {}] \in Turns
    BY <1>4 DEF Turns, Calls, Call, AnyCall
  <2>3. RequestTypes'
    BY <1>1, <1>2, <2>1, <2>2 DEF RequestInv, RequestTypes
  <2>4. InStep'
    BY <1>1, <2>1 DEF RequestInv, InStep, Fits, Holds, HasOpen, Still
  <2>5. Answering'
    <3> SUFFICES ASSUME NEW i \in DOMAIN convo', ~mixed'
                 PROVE  IF pc' = "running" /\ i = Len(convo') THEN \A b \in convo'[i].calls : b.name \in Gateway
                                                              ELSE convo'[i].calls = convo'[i].results
      BY DEF Answering
    <3>1. CASE i = Len(convo) + 1
      <4>1. \A b \in Calls(r) : b.name \in Gateway
        BY <2>1 DEF Calls, Call
      <4> QED
        BY <1>2, <2>1, <3>1, <4>1
    <3>2. CASE i # Len(convo) + 1
      <4>1. i \in DOMAIN convo /\ convo'[i] = convo[i] /\ i # Len(convo') /\ ~mixed
        BY <1>2, <2>1, <3>2
      <4> QED
        BY <1>1, <4>1 DEF RequestInv, Answering
    <3> QED
      BY <3>1, <3>2
  <2> QED
    BY <1>1, <2>1, <2>3, <2>4, <2>5 DEF RequestInv, Sequential, Still
<1>6. CASE ~(r.names \cap Gateway # {} /\ iter < MaxIters)
  <2> DEFINE bs == Blocks(r.names \ Gateway, r.text)
  <2>1. /\ pc' = "done" /\ convo' = convo /\ (mixed => mixed')
        /\ got' = [got EXCEPT !.blocks = bs, !.stop = StopReason(r.finish)]
    BY <1>3, <1>6, Zenon
  <2>2. bs \in Seq(Block) /\ \A i \in DOMAIN bs : ~bs[i].open
    BY <1>4, Blocked
  <2>3. StopReason(r.finish) \in Stops
    BY DEF StopReason, Stops
  <2> HIDE DEF bs
  <2>4. got' \in Messaged /\ got'.blocks = bs
    BY <1>2, <2>1, <2>2, <2>3 DEF Messaged
  <2>5. Sequential(got)'
    BY <2>2, <2>4 DEF Sequential, Still
  <2>6. RequestTypes'
    BY <1>1, <1>2, <2>1, <2>4 DEF RequestInv, RequestTypes
  <2>7. InStep'
    BY <1>1, <2>1 DEF InStep
  <2>8. Answering'
    BY <1>1, <2>1 DEF RequestInv, Answering
  <2> QED
    BY <2>5, <2>6, <2>7, <2>8 DEF RequestInv
<1> QED
  BY <1>5, <1>6

LEMMA RequestInit == ASSUME MessagesInit PROVE RequestInv
<1>1. /\ mode \in {"stream", "whole"} /\ pc = "open" /\ next = 0 /\ text = NoBlock /\ thinking = NoBlock
      /\ buffered = << >> /\ convo = << >>
      /\ got = [blocks |-> << >>, stop |-> "none", bad |-> FALSE]
  BY Zenon DEF MessagesInit
<1>2. got \in Messaged /\ got.blocks = << >>
  BY <1>1 DEF Messaged, Stops
<1>3. Still(got) = {}
  BY <1>2 DEF Still
<1>4. RequestTypes
  BY <1>1, <1>2 DEF RequestTypes
<1>5. Fits(got, NoBlock, NoBlock)
  BY <1>2, <1>3 DEF Fits, Holds
<1>6. InStep
  BY <1>1, <1>2, <1>5 DEF InStep
<1>7. Answering
  BY <1>1 DEF Answering
<1> QED
  BY <1>3, <1>4, <1>6, <1>7 DEF RequestInv, Sequential

LEMMA RequestStep == ASSUME RequestInv, [MessagesNext]_messagesVars PROVE RequestInv'
<1>1. CASE MessagesNext
  BY <1>1, ThinkStep, TextStep, CallStep, TurnEnds, ToolsReturn, WholeStep, AsideSteps DEF MessagesNext, Reply, Chunk
<1>2. CASE UNCHANGED messagesVars
  BY <1>2, Aside DEF messagesVars, turn, history
<1> QED
  BY <1>1, <1>2

LEMMA RequestAlways == MessagesSpec => []RequestInv
<1>1. MessagesInit => RequestInv
  BY RequestInit
<1>2. RequestInv /\ [MessagesNext]_messagesVars => RequestInv'
  BY RequestStep
<1> QED
  BY <1>1, <1>2, PTL DEF MessagesSpec

\* The events of a stream make up a message, whatever Copilot sends in whatever order and however
\* the request ends (anthropic-server.ts 130-141, 176-251).
THEOREM MessagesFit == MessagesSpec => []WellFormed
<1>1. RequestInv => WellFormed
  <2> SUFFICES ASSUME RequestInv PROVE WellFormed
    OBVIOUS
  <2>1. ~got.bad
    BY DEF RequestInv, RequestTypes, Messaged
  <2>2. ASSUME Sequential(got) PROVE Cardinality(Still(got)) <= 1
    <3>1. CASE Still(got) = {}
      BY <3>1, FS_EmptySet
    <3>2. CASE Still(got) # {}
      <4>1. PICK i \in Still(got) : TRUE
        BY <3>2
      <4>2. Still(got) = {i}
        BY <2>2, <4>1 DEF Sequential
      <4> QED
        BY <4>2, FS_Singleton
    <3> QED
      BY <3>1, <3>2
  <2> QED
    BY <2>1, <2>2 DEF RequestInv, WellFormed
<1> QED
  BY <1>1, RequestAlways, PTL

\* A call of a gateway tool never reaches the client (anthropic-server.ts 187-193, 249-251).
THEOREM NoGatewayCalls == MessagesSpec => []GatewayToolsStayHere
<1>1. RequestInv => GatewayToolsStayHere
  <2> SUFFICES ASSUME RequestInv, NEW i \in DOMAIN got.blocks PROVE got.blocks[i].kind \notin Gateway
    BY DEF GatewayToolsStayHere
  <2>1. got.blocks \in Seq(Block)
    BY MessagedFacts DEF RequestInv, RequestTypes
  <2>2. got.blocks[i] \in Block
    BY <2>1
  <2> QED
    BY <2>2 DEF Block, Gateway
<1> QED
  BY <1>1, RequestAlways, PTL

\* What is sent to Copilot next has a result for every call it contains, unless a whole response
\* asked for tools of both sides (anthropic-server.ts 187-243).
THEOREM AllAnswered == MessagesSpec => []CallsAreAnswered
<1>1. RequestInv => CallsAreAnswered
  BY DEF RequestInv, Answering, CallsAreAnswered
<1> QED
  BY <1>1, RequestAlways, PTL

-----------------------------------------------------------------------------
(* The conversation.  Sequences put one behind another. *)

\* FlattenSeq is a recursive function: f is what it is of the first n sequences.
Flattens(ss, n, f) == f = [i \in 1..n |-> IF i = 1 THEN ss[i] ELSE f[i - 1] \o ss[i]]

LEMMA FlattenIs ==
    ASSUME NEW ss, Len(ss) # 0
    PROVE  FlattenSeq(ss) = (CHOOSE f : Flattens(ss, Len(ss), f))[Len(ss)]
  BY Zenon DEF FlattenSeq, Flattens

\* There is such a function,
LEMMA FlattenExists ==
    ASSUME NEW ss
    PROVE  \A n \in Nat : \E f : Flattens(ss, n, f)
<1> DEFINE Bad == {n \in Nat : ~\E f : Flattens(ss, n, f)}
<1> SUFFICES ASSUME Bad # {} PROVE FALSE
  OBVIOUS
<1>1. PICK n \in Bad : \A m \in Bad : n <= m
  <2>1. Bad \in SUBSET Nat
    OBVIOUS
  <2> HIDE DEF Bad
  <2> QED BY LeastOf, <2>1
<1>2. n # 0
  <2>1. Flattens(ss, 0, [i \in 1..0 |-> 0])
    BY DEF Flattens
  <2> QED BY <2>1
<1>3. n - 1 \in Nat /\ n - 1 \notin Bad
  BY <1>1, <1>2
<1>4. PICK f : Flattens(ss, n - 1, f)
  BY <1>3
<1> DEFINE g == [i \in 1..n |-> IF i = n THEN (IF n = 1 THEN ss[n] ELSE f[n - 1] \o ss[n]) ELSE f[i]]
<1>5. Flattens(ss, n, g)
  <2>1. \A i \in 1..n : g[i] = IF i = 1 THEN ss[i] ELSE g[i - 1] \o ss[i]
    <3> SUFFICES ASSUME NEW i \in 1..n
                 PROVE  g[i] = IF i = 1 THEN ss[i] ELSE g[i - 1] \o ss[i]
      OBVIOUS
    <3>1. CASE i = n
      BY <3>1, <1>3
    <3>2. CASE i # n
      <4>1. i \in 1..(n-1)
        BY <3>2, <1>3
      <4>2. f[i] = IF i = 1 THEN ss[i] ELSE f[i - 1] \o ss[i]
        BY <1>4, <4>1 DEF Flattens
      <4> QED BY <4>1, <4>2, <3>2
    <3> QED BY <3>1, <3>2
  <2>2. g = [i \in 1..n |-> g[i]]
    OBVIOUS
  <2> HIDE DEF g
  <2>3. g = [i \in 1..n |-> IF i = 1 THEN ss[i] ELSE g[i - 1] \o ss[i]]
    BY <2>1, <2>2
  <2> QED BY <2>3 DEF Flattens
<1> QED BY <1>1, <1>5

\* and only one, so that it is the same for a sequence that goes on.
LEMMA FlattenUnique ==
    ASSUME NEW ss, NEW tt, NEW m \in Nat, NEW n \in Nat, m <= n, NEW f, NEW g,
           Flattens(ss, m, f), Flattens(tt, n, g), \A i \in 1..m : ss[i] = tt[i]
    PROVE  \A i \in 1..m : f[i] = g[i]
<1> DEFINE Bad == {i \in 1..m : f[i] # g[i]}
<1> SUFFICES ASSUME Bad # {} PROVE FALSE
  OBVIOUS
<1>1. PICK i \in Bad : \A j \in Bad : i <= j
  <2>1. Bad \in SUBSET Nat
    OBVIOUS
  <2> HIDE DEF Bad
  <2> QED BY LeastOf, <2>1
<1>2. /\ f[i] = IF i = 1 THEN ss[i] ELSE f[i - 1] \o ss[i]
      /\ g[i] = IF i = 1 THEN tt[i] ELSE g[i - 1] \o tt[i]
  <2>1. i \in 1..m /\ i \in 1..n
    OBVIOUS
  <2> QED BY <2>1 DEF Flattens
<1>3. i # 1
  BY <1>2
<1>4. i - 1 \in 1..m /\ i - 1 \notin Bad
  BY <1>1, <1>3
<1> QED BY <1>2, <1>4

LEMMA FlattenValue ==
    ASSUME NEW ss, NEW n \in Nat, n # 0, Len(ss) = n, NEW g, Flattens(ss, n, g)
    PROVE  FlattenSeq(ss) = g[n]
<1> DEFINE f == CHOOSE f : Flattens(ss, n, f)
<1>1. FlattenSeq(ss) = f[n]
  BY FlattenIs
<1>2. Flattens(ss, n, f)
  BY Zenon
<1> HIDE DEF f
<1>3. n <= n /\ n \in 1..n
  OBVIOUS
<1>4. \A i \in 1..n : f[i] = g[i]
  BY <1>2, <1>3, FlattenUnique
<1> QED BY <1>1, <1>3, <1>4

\* What all of it is built from: nothing, and one sequence more.
LEMMA FlattenEmpty ==
    FlattenSeq(<< >>) = << >>
  BY DEF FlattenSeq

LEMMA FlattenNext ==
    ASSUME NEW ss, NEW tt, NEW n \in Nat, NEW m \in Nat, m = n + 1, n # 0,
           Len(ss) = n, Len(tt) = m, \A i \in 1..n : ss[i] = tt[i]
    PROVE  FlattenSeq(tt) = FlattenSeq(ss) \o tt[m]
<1>1. PICK g : Flattens(tt, m, g)
  BY FlattenExists, Zenon
<1>2. PICK f : Flattens(ss, n, f)
  BY FlattenExists, Zenon
<1>3. n <= m /\ n \in 1..n /\ m \in 1..m /\ m # 1 /\ m - 1 = n /\ m # 0
  OBVIOUS
<1>4. FlattenSeq(tt) = g[m] /\ FlattenSeq(ss) = f[n]
  BY FlattenValue, <1>1, <1>2, <1>3
<1>5. g[m] = IF m = 1 THEN tt[m] ELSE g[m - 1] \o tt[m]
  BY <1>1, <1>3 DEF Flattens
<1>6. \A i \in 1..n : f[i] = g[i]
  BY FlattenUnique, <1>1, <1>2, <1>3, SMTT(40)
<1> QED BY <1>3, <1>4, <1>5, <1>6, Zenon

LEMMA FlattenOne ==
    ASSUME NEW s
    PROVE  FlattenSeq(<<s>>) = s
<1>1. PICK g : Flattens(<<s>>, 1, g)
  <2>1. 1 \in Nat
    OBVIOUS
  <2> QED BY <2>1, FlattenExists, Zenon
<1>2. g[1] = <<s>>[1]
  BY <1>1 DEF Flattens
<1>3. Len(<<s>>) = 1 /\ <<s>>[1] = s /\ 1 \in Nat /\ 1 # 0
  OBVIOUS
<1>4. FlattenSeq(<<s>>) = g[1]
  BY FlattenValue, <1>1, <1>3
<1> QED BY <1>2, <1>3, <1>4

LEMMA FlattenAppend ==
    ASSUME NEW S, NEW ss \in Seq(Seq(S)), NEW s \in Seq(S)
    PROVE  FlattenSeq(Append(ss, s)) = FlattenSeq(ss) \o s
<1> DEFINE tt == Append(ss, s)
<1>1. PICK n \in Nat : n = Len(ss)
  OBVIOUS
<1>2. PICK m \in Nat : m = n + 1
  OBVIOUS
<1>3. Len(tt) = m /\ tt[m] = s /\ \A i \in 1..n : ss[i] = tt[i]
  BY <1>1, <1>2
<1>7. CASE n = 0
  <2>1. ss = << >> /\ tt = <<s>>
    BY <1>7, <1>1
  <2>2. << >> \o s = s
    OBVIOUS
  <2> QED BY <2>1, <2>2, FlattenEmpty, FlattenOne, Zenon
<1>8. CASE n # 0
  <2> HIDE DEF tt
  <2>1. FlattenSeq(tt) = FlattenSeq(ss) \o tt[m]
    BY <1>1, <1>2, <1>3, <1>8, FlattenNext, Zenon
  <2> QED BY <2>1, <1>3, Zenon DEF tt
<1> QED BY <1>7, <1>8

\* By what all sequences are built from: a set of them that holds nothing, and with a sequence
\* all that are one longer, holds all.
LEMMA ByAppending ==
    ASSUME NEW S, NEW P \in SUBSET Seq(S), << >> \in P,
           \A s \in P : \A e \in S : Append(s, e) \in P
    PROVE  Seq(S) \subseteq P
<1> DEFINE Bad == {n \in Nat : \E s \in Seq(S) : s \notin P /\ Len(s) = n}
<1> SUFFICES ASSUME Bad # {} PROVE FALSE
  <2>1. \A s \in Seq(S) : Len(s) \in Nat
    OBVIOUS
  <2> QED BY <2>1
<1>1. PICK n \in Bad : \A m \in Bad : n <= m
  <2>1. Bad \in SUBSET Nat
    OBVIOUS
  <2> HIDE DEF Bad
  <2> QED BY LeastOf, <2>1
<1>2. PICK s \in Seq(S) : s \notin P /\ Len(s) = n
  OBVIOUS
<1>3. s # << >>
  BY <1>2
<1>4. PICK t \in Seq(S), e \in S : s = Append(t, e)
  BY <1>3, SequenceEmptyOrAppend
<1>5. Len(t) \in Nat /\ Len(t) + 1 = n
  BY <1>2, <1>4
<1>6. t \in P
  BY <1>1, <1>5
<1> QED BY <1>2, <1>4, <1>6

LEMMA FlattenType ==
    ASSUME NEW S, NEW ss \in Seq(Seq(S))
    PROVE  FlattenSeq(ss) \in Seq(S)
<1> DEFINE P == {tt \in Seq(Seq(S)) : FlattenSeq(tt) \in Seq(S)}
<1>1. << >> \in P
  <2>1. << >> \in Seq(Seq(S)) /\ << >> \in Seq(S)
    OBVIOUS
  <2> QED BY <2>1, FlattenEmpty
<1>2. \A tt \in P : \A s \in Seq(S) : Append(tt, s) \in P
  <2> SUFFICES ASSUME NEW tt \in P, NEW s \in Seq(S) PROVE Append(tt, s) \in P
    OBVIOUS
  <2>1. FlattenSeq(Append(tt, s)) = FlattenSeq(tt) \o s
    BY FlattenAppend
  <2>2. Append(tt, s) \in Seq(Seq(S)) /\ FlattenSeq(tt) \o s \in Seq(S)
    OBVIOUS
  <2> QED BY <2>1, <2>2
<1>3. Seq(Seq(S)) \subseteq P
  <2> HIDE DEF P
  <2>1. P \in SUBSET Seq(Seq(S))
    BY DEF P
  <2> QED BY <1>1, <1>2, <2>1, ByAppending
<1> QED BY <1>3

LEMMA FlattenConcat ==
    ASSUME NEW S, NEW ss \in Seq(Seq(S)), NEW tt \in Seq(Seq(S))
    PROVE  FlattenSeq(ss \o tt) = FlattenSeq(ss) \o FlattenSeq(tt)
<1> DEFINE P == {uu \in Seq(Seq(S)) : FlattenSeq(ss \o uu) = FlattenSeq(ss) \o FlattenSeq(uu)}
<1>1. << >> \in P
  <2>1. ss \o << >> = ss /\ FlattenSeq(ss) \o << >> = FlattenSeq(ss)
    BY FlattenType
  <2>2. << >> \in Seq(Seq(S))
    OBVIOUS
  <2> QED BY <2>1, <2>2, FlattenEmpty
<1>2. \A uu \in P : \A s \in Seq(S) : Append(uu, s) \in P
  <2> SUFFICES ASSUME NEW uu \in P, NEW s \in Seq(S) PROVE Append(uu, s) \in P
    OBVIOUS
  <2>1. ss \o Append(uu, s) = Append(ss \o uu, s) /\ ss \o uu \in Seq(Seq(S)) /\ Append(uu, s) \in Seq(Seq(S))
    BY SMTT(40)
  <2>2. FlattenSeq(Append(ss \o uu, s)) = (FlattenSeq(ss) \o FlattenSeq(uu)) \o s
    BY <2>1, FlattenAppend
  <2>3. /\ FlattenSeq(Append(uu, s)) = FlattenSeq(uu) \o s
        /\ FlattenSeq(ss) \in Seq(S) /\ FlattenSeq(uu) \in Seq(S)
    BY FlattenAppend, FlattenType
  <2>4. \A a, b \in Seq(S) : (a \o b) \o s = a \o (b \o s)
    <3> HIDE DEF P
    <3> QED BY ConcatAssociative, SMTT(40)
  <2> QED BY <2>1, <2>2, <2>3, <2>4
<1>3. Seq(Seq(S)) \subseteq P
  <2> HIDE DEF P
  <2>1. P \in SUBSET Seq(Seq(S))
    BY DEF P
  <2> QED BY <1>1, <1>2, <2>1, ByAppending
<1> QED BY <1>3

\* Where each sequence is one thing, they are those things.
LEMMA FlattenSingles ==
    ASSUME NEW S, NEW s \in Seq(S)
    PROVE  FlattenSeq([i \in DOMAIN s |-> <<s[i]>>]) = s
<1> DEFINE P == {t \in Seq(S) : FlattenSeq([i \in DOMAIN t |-> <<t[i]>>]) = t}
<1>1. << >> \in P
  <2>1. [i \in DOMAIN << >> |-> <<(<< >>)[i]>>] = << >>
    OBVIOUS
  <2> QED BY <2>1, FlattenEmpty
<1>2. \A t \in P : \A e \in S : Append(t, e) \in P
  <2> SUFFICES ASSUME NEW t \in P, NEW e \in S PROVE Append(t, e) \in P
    OBVIOUS
  <2> DEFINE u == Append(t, e)  each(s_) == [i \in DOMAIN s_ |-> <<s_[i]>>]
  <2>0. DOMAIN t = 1..Len(t) /\ DOMAIN u = 1..(Len(t) + 1) /\ u \in Seq(S)
    OBVIOUS
  <2>1. each(t) \in Seq(Seq(S)) /\ <<e>> \in Seq(S)
    BY <2>0
  <2>2. each(u) = Append(each(t), <<e>>)
    <3>1. each(u) \in Seq(Seq(S)) /\ Append(each(t), <<e>>) \in Seq(Seq(S)) /\ Len(each(u)) = Len(t) + 1
      BY <2>0, <2>1
    <3>2. \A i \in 1..Len(each(u)) : each(u)[i] = Append(each(t), <<e>>)[i]
      BY <3>1, <2>0
    <3> QED BY <3>1, <3>2, SeqEqual
  <2>3. FlattenSeq(each(u)) = t \o <<e>>
    BY <2>1, <2>2, FlattenAppend
  <2>4. u \in Seq(S) /\ u = t \o <<e>>
    OBVIOUS
  <2> QED BY <2>3, <2>4
<1>3. Seq(S) \subseteq P
  <2> HIDE DEF P
  <2>1. P \in SUBSET Seq(S)
    BY DEF P
  <2> QED BY <1>1, <1>2, <2>1, ByAppending
<1> QED BY <1>3

-----------------------------------------------------------------------------
(* What a function makes of every element, put one behind another.           *)

Flat(f, s) == FlattenSeq([i \in DOMAIN s |-> f[s[i]]])

Into(f, S, T) == f \in [S -> Seq(T)]

LEMMA FlatArg ==
    ASSUME NEW S, NEW T, NEW f, Into(f, S, T), NEW s \in Seq(S)
    PROVE  /\ [i \in DOMAIN s |-> f[s[i]]] \in Seq(Seq(T))
           /\ Len([i \in DOMAIN s |-> f[s[i]]]) = Len(s)
<1>1. DOMAIN s = 1..Len(s) /\ Len(s) \in Nat /\ \A i \in 1..Len(s) : s[i] \in S
  OBVIOUS
<1> QED BY <1>1 DEF Into

LEMMA FlatType ==
    ASSUME NEW S, NEW T, NEW f, Into(f, S, T), NEW s \in Seq(S)
    PROVE  Flat(f, s) \in Seq(T)
<1> DEFINE m == [i \in DOMAIN s |-> f[s[i]]]
<1>1. m \in Seq(Seq(T))
  BY FlatArg
<1>2. Flat(f, s) = FlattenSeq(m)
  BY DEF Flat
<1> HIDE DEF m
<1> QED BY <1>1, <1>2, FlattenType

LEMMA FlatEmpty ==
    ASSUME NEW f
    PROVE  Flat(f, << >>) = << >>
<1>1. [i \in DOMAIN << >> |-> f[<< >>[i]]] = << >>
  OBVIOUS
<1> QED BY <1>1, FlattenEmpty DEF Flat

LEMMA FlatOne ==
    ASSUME NEW f, NEW x
    PROVE  Flat(f, <<x>>) = f[x]
<1>1. [i \in DOMAIN <<x>> |-> f[<<x>>[i]]] = <<f[x]>>
  OBVIOUS
<1> QED BY <1>1, FlattenOne DEF Flat

LEMMA FlatJoin ==
    ASSUME NEW S, NEW T, NEW f, Into(f, S, T), NEW s \in Seq(S), NEW t \in Seq(S)
    PROVE  Flat(f, s \o t) = Flat(f, s) \o Flat(f, t)
<1> DEFINE M(r) == [i \in DOMAIN r |-> f[r[i]]]
<1>1. M(s) \in Seq(Seq(T)) /\ M(t) \in Seq(Seq(T)) /\ s \o t \in Seq(S)
  BY FlatArg
<1>2. M(s \o t) = M(s) \o M(t)
  <2>1. DOMAIN s = 1..Len(s) /\ DOMAIN t = 1..Len(t) /\ DOMAIN (s \o t) = 1..(Len(s) + Len(t))
        /\ Len(s) \in Nat /\ Len(t) \in Nat
    OBVIOUS
  <2>2. Len(M(s)) = Len(s) /\ Len(M(t)) = Len(t)
    BY FlatArg
  <2>3. DOMAIN (M(s) \o M(t)) = 1..(Len(s) + Len(t))
    BY <1>1, <2>2, <2>1
  <2>4. \A i \in 1..(Len(s) + Len(t)) : M(s \o t)[i] = (M(s) \o M(t))[i]
    <3> SUFFICES ASSUME NEW i \in 1..(Len(s) + Len(t)) PROVE M(s \o t)[i] = (M(s) \o M(t))[i]
      OBVIOUS
    <3>1. CASE i <= Len(s)
      <4>1. (s \o t)[i] = s[i] /\ (M(s) \o M(t))[i] = M(s)[i] /\ i \in DOMAIN s
        BY <1>1, <2>1, <2>2, <3>1
      <4> QED BY <4>1, <2>1
    <3>2. CASE i > Len(s)
      <4>1. (s \o t)[i] = t[i - Len(s)] /\ (M(s) \o M(t))[i] = M(t)[i - Len(s)] /\ i - Len(s) \in DOMAIN t
        BY <1>1, <2>1, <2>2, <3>2
      <4> QED BY <4>1, <2>1
    <3> QED BY <3>1, <3>2, <2>1
  <2>5. M(s) \o M(t) \in Seq(Seq(T)) /\ M(s \o t) \in Seq(Seq(T))
    BY <1>1, FlatArg
  <2>6. Len(M(s \o t)) = Len(s) + Len(t) /\ Len(M(s) \o M(t)) = Len(s) + Len(t)
    BY <1>1, <2>2, <2>1, FlatArg
  <2> HIDE DEF M
  <2> QED BY <2>4, <2>5, <2>6, SeqEqual
<1>3. FlattenSeq(M(s \o t)) = FlattenSeq(M(s)) \o FlattenSeq(M(t))
  BY <1>1, <1>2, FlattenConcat
<1> QED BY <1>3 DEF Flat

LEMMA FlatAppend ==
    ASSUME NEW S, NEW T, NEW f, Into(f, S, T), NEW s \in Seq(S), NEW e \in S
    PROVE  Flat(f, Append(s, e)) = Flat(f, s) \o f[e]
<1>1. Append(s, e) = s \o <<e>> /\ <<e>> \in Seq(S)
  OBVIOUS
<1>2. Flat(f, s \o <<e>>) = Flat(f, s) \o Flat(f, <<e>>)
  <2> DEFINE t == <<e>>
  <2>1. t \in Seq(S)
    BY <1>1
  <2> HIDE DEF t
  <2>2. Flat(f, s \o t) = Flat(f, s) \o Flat(f, t)
    BY <2>1, FlatJoin
  <2> QED BY <2>2 DEF t
<1>3. Flat(f, <<e>>) = f[e]
  BY FlatOne
<1> QED BY <1>1, <1>2, <1>3

LEMMA FlatSame ==
    ASSUME NEW S, NEW R, NEW T, NEW f, Into(f, S, T), NEW g, Into(g, R, T), NEW s \in Seq(S), NEW t \in Seq(R),
           Len(s) = Len(t), \A i \in 1..Len(s) : f[s[i]] = g[t[i]]
    PROVE  Flat(f, s) = Flat(g, t)
<1>1. [i \in DOMAIN s |-> f[s[i]]] = [i \in DOMAIN t |-> g[t[i]]]
  OBVIOUS
<1> QED BY <1>1 DEF Flat

LEMMA FlatFlat ==
    ASSUME NEW S, NEW T, NEW U, NEW f, Into(f, S, T), NEW g, Into(g, T, U), NEW h, Into(h, S, U),
           \A x \in S : h[x] = Flat(g, f[x]), NEW s \in Seq(S)
    PROVE  Flat(g, Flat(f, s)) = Flat(h, s)
<1> DEFINE P == {r \in Seq(S) : Flat(g, Flat(f, r)) = Flat(h, r)}
<1>1. << >> \in P
  BY FlatEmpty
<1>2. ASSUME NEW r \in P, NEW e \in S PROVE Append(r, e) \in P
  <2>1. r \in Seq(S) /\ Append(r, e) \in Seq(S) /\ Flat(g, Flat(f, r)) = Flat(h, r)
    OBVIOUS
  <2>2. Flat(f, Append(r, e)) = Flat(f, r) \o f[e]
    BY <2>1, FlatAppend
  <2>5. Flat(h, Append(r, e)) = Flat(h, r) \o h[e]
    BY <2>1, FlatAppend
  <2>3. Flat(f, r) \in Seq(T) /\ f[e] \in Seq(T)
    BY <2>1, FlatType DEF Into
  <2>4. Flat(g, Flat(f, r) \o f[e]) = Flat(g, Flat(f, r)) \o Flat(g, f[e])
    <3> HIDE DEF P
    <3> DEFINE a == Flat(f, r)  b == f[e]
    <3>1. a \in Seq(T) /\ b \in Seq(T)
      BY <2>3
    <3> HIDE DEF a, b
    <3>2. Flat(g, a \o b) = Flat(g, a) \o Flat(g, b)
      BY <3>1, FlatJoin
    <3> QED BY <3>2 DEF a, b
  <2>6. h[e] = Flat(g, f[e])
    OBVIOUS
  <2> QED BY <2>1, <2>2, <2>4, <2>5, <2>6
<1>3. Seq(S) \subseteq P
  <2> HIDE DEF P
  <2>1. P \in SUBSET Seq(S)
    BY DEF P
  <2> QED BY <1>1, <1>2, <2>1, ByAppending
<1> QED BY <1>3

LEMMA FlatNone ==
    ASSUME NEW S, NEW f, NEW s \in Seq(S), \A i \in 1..Len(s) : f[s[i]] = << >>
    PROVE  Flat(f, s) = << >>
<1> DEFINE P == {r \in Seq(S) : (\A i \in 1..Len(r) : f[r[i]] = << >>) => Flat(f, r) = << >>}
           g == [x \in {y \in S : f[y] = << >>} |-> << >>]
<1>1. Into(g, {y \in S : f[y] = << >>}, S)
  BY DEF Into
<1>2. s \in Seq({y \in S : f[y] = << >>})
  OBVIOUS
<1>3. [i \in DOMAIN s |-> f[s[i]]] = [i \in DOMAIN s |-> g[s[i]]]
  BY <1>2
<1>4. Flat(f, s) = Flat(g, s)
  BY <1>3 DEF Flat
<1>5. ASSUME NEW E, NEW k, Into(k, E, S), \A x \in E : k[x] = << >> PROVE \A r \in Seq(E) : Flat(k, r) = << >>
  <2> DEFINE Q == {r \in Seq(E) : Flat(k, r) = << >>}
  <2>1. << >> \in Q
    BY FlatEmpty
  <2>2. ASSUME NEW r \in Q, NEW e \in E PROVE Append(r, e) \in Q
    <3>1. r \in Seq(E) /\ Append(r, e) \in Seq(E)
      OBVIOUS
    <3>2. Flat(k, Append(r, e)) = Flat(k, r) \o k[e]
      BY <3>1, <1>5, FlatAppend
    <3>3. Flat(k, r) = << >> /\ k[e] = << >>
      BY <1>5
    <3> QED BY <3>1, <3>2, <3>3
  <2>3. Seq(E) \subseteq Q
    <3> HIDE DEF Q
    <3>1. Q \in SUBSET Seq(E)
      BY DEF Q
    <3> QED BY <2>1, <2>2, <3>1, ByAppending
  <2> QED BY <2>3
<1>6. \A r \in Seq({y \in S : f[y] = << >>}) : Flat(g, r) = << >>
  BY <1>1, <1>5
<1> QED BY <1>2, <1>4, <1>6

LEMMA FlatSingles ==
    ASSUME NEW T, NEW f, NEW s, NEW h \in Seq(T), DOMAIN s = 1..Len(h), \A i \in 1..Len(h) : f[s[i]] = <<h[i]>>
    PROVE  Flat(f, s) = h
<1>1. [i \in DOMAIN s |-> f[s[i]]] = [i \in DOMAIN h |-> <<h[i]>>]
  OBVIOUS
<1> QED BY <1>1, FlattenSingles DEF Flat

LEMMA RangeJoin ==
    ASSUME NEW T, NEW s \in Seq(T), NEW t \in Seq(T)
    PROVE  Range(s \o t) = Range(s) \cup Range(t)
<1>1. DOMAIN s = 1..Len(s) /\ DOMAIN t = 1..Len(t) /\ DOMAIN (s \o t) = 1..(Len(s) + Len(t)) /\ Len(s) \in Nat /\ Len(t) \in Nat
  OBVIOUS
<1>2. \A i \in DOMAIN s : (s \o t)[i] = s[i] /\ i \in DOMAIN (s \o t)
  BY <1>1
<1>3. \A i \in DOMAIN t : (s \o t)[Len(s) + i] = t[i] /\ Len(s) + i \in DOMAIN (s \o t)
  BY <1>1
<1>4. \A i \in DOMAIN (s \o t) : (s \o t)[i] \in Range(s) \cup Range(t)
  <2> SUFFICES ASSUME NEW i \in DOMAIN (s \o t) PROVE (s \o t)[i] \in Range(s) \cup Range(t)
    OBVIOUS
  <2>1. CASE i <= Len(s)
    BY <2>1, <1>1 DEF Range
  <2>2. CASE i > Len(s)
    <3>1. (s \o t)[i] = t[i - Len(s)] /\ i - Len(s) \in DOMAIN t
      BY <2>2, <1>1
    <3> QED BY <3>1 DEF Range
  <2> QED BY <2>1, <2>2, <1>1
<1>5. \A x \in Range(s) : x \in Range(s \o t)
  BY <1>2 DEF Range
<1>6. \A x \in Range(t) : x \in Range(s \o t)
  BY <1>3 DEF Range
<1>7. \A x \in Range(s \o t) : x \in Range(s) \cup Range(t)
  <2> SUFFICES ASSUME NEW x \in Range(s \o t) PROVE x \in Range(s) \cup Range(t)
    OBVIOUS
  <2>1. PICK i \in DOMAIN (s \o t) : x = (s \o t)[i]
    BY DEF Range
  <2> QED BY <2>1, <1>4
<1> QED BY <1>5, <1>6, <1>7

LEMMA FlatRange ==
    ASSUME NEW S, NEW T, NEW f, Into(f, S, T), NEW s \in Seq(S)
    PROVE  Range(Flat(f, s)) = UNION {Range(f[x]) : x \in Range(s)}
<1> DEFINE P == {r \in Seq(S) : Range(Flat(f, r)) = UNION {Range(f[x]) : x \in Range(r)}}
<1>1. << >> \in P
  <2>1. Range(<< >>) = {}
    BY DEF Range
  <2> QED BY <2>1, FlatEmpty
<1>2. ASSUME NEW r \in P, NEW e \in S PROVE Append(r, e) \in P
  <2>0. r \in Seq(S)
    OBVIOUS
  <2>1. Append(r, e) = r \o <<e>> /\ <<e>> \in Seq(S) /\ r \in Seq(S) /\ Append(r, e) \in Seq(S)
    OBVIOUS
  <2>2. Flat(f, Append(r, e)) = Flat(f, r) \o f[e]
    BY <2>0, FlatAppend
  <2>3. Flat(f, r) \in Seq(T) /\ f[e] \in Seq(T)
    BY <2>1, FlatType DEF Into
  <2>4. Range(Flat(f, r) \o f[e]) = Range(Flat(f, r)) \cup Range(f[e])
    BY <2>3, RangeJoin
  <2>5. Range(<<e>>) = {e}
    BY DEF Range
  <2>10. Range(r \o <<e>>) = Range(r) \cup Range(<<e>>)
    BY <2>1, RangeJoin, ZenonT(60)
  <2>6. Range(r \o <<e>>) = Range(r) \cup {e}
    BY <2>10, <2>5
  <2>7. UNION {Range(f[x]) : x \in Range(r) \cup {e}} = (UNION {Range(f[x]) : x \in Range(r)}) \cup Range(f[e])
    OBVIOUS
  <2>8. Range(Flat(f, r)) = UNION {Range(f[x]) : x \in Range(r)}
    OBVIOUS
  <2>9. Range(Flat(f, Append(r, e))) = UNION {Range(f[x]) : x \in Range(Append(r, e))}
    BY <2>1, <2>2, <2>4, <2>6, <2>7, <2>8
  <2> QED BY <2>1, <2>9
<1>3. Seq(S) \subseteq P
  <2> HIDE DEF P
  <2>1. P \in SUBSET Seq(S)
    BY DEF P
  <2> QED BY <1>1, <1>2, <2>1, ByAppending
<1> QED BY <1>3

-----------------------------------------------------------------------------
(* Blocks of a message. *)

TextSet == [kind : {"text"}, ids : Seq(Nat)]
ImageSet == [kind : {"image"}, id : Nat]
ThinkSet == [kind : {"thinking"}, id : Nat, opaque : BOOLEAN]
UseSet == [kind : {"tool_use"}, id : Nat, custom : BOOLEAN]
ResultSet == [kind : {"tool_result"}, id : Nat, images : BOOLEAN]
Pieces == TextSet \cup ImageSet \cup ThinkSet \cup UseSet \cup ResultSet

LEMMA BlockIs ==
    ASSUME NEW b \in Pieces
    PROVE  /\ b.kind \in {"text", "image", "thinking", "tool_use", "tool_result"}
           /\ b.kind = "text" <=> b \in TextSet
           /\ b.kind = "image" <=> b \in ImageSet
           /\ b.kind = "thinking" <=> b \in ThinkSet
           /\ b.kind = "tool_use" <=> b \in UseSet
           /\ b.kind = "tool_result" <=> b \in ResultSet
BY DEF Pieces, TextSet, ImageSet, ThinkSet, UseSet, ResultSet

\* What a message is looked through for: its blocks of a kind, and its texts.
OfKind(kind) == [b \in Pieces |-> IF b.kind = kind THEN <<b>> ELSE << >>]
TextFn == [b \in Pieces |-> IF b.kind = "text" THEN b.ids ELSE << >>]
ImageFn == [b \in Pieces |-> IF b.kind = "image" THEN <<b.id>> ELSE << >>]
KindSet(kind) == {b \in Pieces : b.kind = kind}

LEMMA FnTypes ==
    /\ \A kind : Into(OfKind(kind), Pieces, Pieces)
    /\ \A kind : Into(OfKind(kind), Pieces, KindSet(kind))
    /\ Into(TextFn, Pieces, Nat) /\ Into(ImageFn, Pieces, Nat)
<1>1. \A kind : Into(OfKind(kind), Pieces, Pieces)
  BY DEF Into, OfKind
<1>2. \A kind : Into(OfKind(kind), Pieces, KindSet(kind))
  <2> SUFFICES ASSUME NEW kind PROVE Into(OfKind(kind), Pieces, KindSet(kind))
    OBVIOUS
  <2>1. \A b \in Pieces : b.kind = kind => b \in KindSet(kind)
    BY DEF KindSet
  <2> QED BY <2>1 DEF Into, OfKind
<1>3. \A b \in Pieces : b.kind = "text" => b.ids \in Seq(Nat)
  BY BlockIs DEF TextSet
<1>4. \A b \in Pieces : b.kind = "image" => b.id \in Nat
  BY BlockIs DEF ImageSet
<1>5. Into(TextFn, Pieces, Nat)
  BY <1>3 DEF Into, TextFn
<1>6. Into(ImageFn, Pieces, Nat)
  BY <1>4 DEF Into, ImageFn
<1> QED BY <1>1, <1>2, <1>5, <1>6

LEMMA OnlyIs ==
    ASSUME NEW c \in Seq(Pieces), NEW kind
    PROVE  /\ Only(c, kind) = Flat(OfKind(kind), c)
           /\ Only(c, kind) \in Seq(Pieces) /\ Only(c, kind) \in Seq(KindSet(kind))
<1>1. Only(c, kind) = FlattenSeq([i \in DOMAIN c |-> IF c[i].kind = kind THEN <<c[i]>> ELSE << >>])
  BY DEF Only, Select, Concat, Each
<1>2. \A i \in DOMAIN c : c[i] \in Pieces
  OBVIOUS
<1>3. [i \in DOMAIN c |-> IF c[i].kind = kind THEN <<c[i]>> ELSE << >>] = [i \in DOMAIN c |-> OfKind(kind)[c[i]]]
  BY <1>2 DEF OfKind
<1>4. Only(c, kind) = Flat(OfKind(kind), c)
  BY <1>1, <1>3 DEF Flat
<1>5. Flat(OfKind(kind), c) \in Seq(Pieces) /\ Flat(OfKind(kind), c) \in Seq(KindSet(kind))
  BY FnTypes, FlatType
<1> QED BY <1>4, <1>5

LEMMA NoneOf ==
    ASSUME NEW c \in Seq(Pieces), NEW kind, ~Has(c, kind)
    PROVE  /\ Flat(OfKind(kind), c) = << >>
           /\ kind = "text" => Flat(TextFn, c) = << >>
           /\ kind = "image" => Flat(ImageFn, c) = << >>
<1>1. \A i \in 1..Len(c) : c[i] \in Pieces /\ c[i].kind # kind
  BY DEF Has, Range
<1>2. \A i \in 1..Len(c) : OfKind(kind)[c[i]] = << >>
  BY <1>1 DEF OfKind
<1>3. kind = "text" => \A i \in 1..Len(c) : TextFn[c[i]] = << >>
  BY <1>1 DEF TextFn
<1>4. kind = "image" => \A i \in 1..Len(c) : ImageFn[c[i]] = << >>
  BY <1>1 DEF ImageFn
<1> QED BY <1>2, <1>3, <1>4, FlatNone

\* Looking through the blocks of one kind, for that kind or for another.
LEMMA WithinKind ==
    ASSUME NEW c \in Seq(Pieces), NEW kind, NEW other
    PROVE  /\ kind # other => Flat(OfKind(other), Flat(OfKind(kind), c)) = << >>
           /\ Flat(OfKind(kind), Flat(OfKind(kind), c)) = Flat(OfKind(kind), c)
           /\ Flat(TextFn, Flat(OfKind(kind), c)) = IF kind = "text" THEN Flat(TextFn, c) ELSE << >>
           /\ Flat(ImageFn, Flat(OfKind(kind), c)) = IF kind = "image" THEN Flat(ImageFn, c) ELSE << >>
<1> DEFINE o == Flat(OfKind(kind), c)
<1>1. o \in Seq(Pieces) /\ o \in Seq(KindSet(kind))
  BY OnlyIs
<1>2. \A i \in 1..Len(o) : o[i] \in Pieces /\ o[i].kind = kind
  <2> HIDE DEF o
  <2> QED BY <1>1 DEF KindSet
<1>3. Flat(OfKind(kind), o) = o
  <2> HIDE DEF o
  <2>1. \A i \in 1..Len(o) : OfKind(kind)[o[i]] = <<o[i]>>
    BY <1>2 DEF OfKind
  <2>2. DOMAIN o = 1..Len(o)
    BY <1>1
  <2> QED BY <1>1, <2>1, <2>2, FlatSingles
<1>4. ASSUME kind # other PROVE Flat(OfKind(other), o) = << >>
  <2> HIDE DEF o
  <2>1. \A i \in 1..Len(o) : OfKind(other)[o[i]] = << >>
    BY <1>2, <1>4 DEF OfKind
  <2> QED BY <1>1, <2>1, FlatNone
<1>5. ASSUME kind # "text" PROVE Flat(TextFn, o) = << >>
  <2> HIDE DEF o
  <2>1. \A i \in 1..Len(o) : TextFn[o[i]] = << >>
    BY <1>2, <1>5 DEF TextFn
  <2> QED BY <1>1, <2>1, FlatNone
<1>6. ASSUME kind # "image" PROVE Flat(ImageFn, o) = << >>
  <2> HIDE DEF o
  <2>1. \A i \in 1..Len(o) : ImageFn[o[i]] = << >>
    BY <1>2, <1>6 DEF ImageFn
  <2> QED BY <1>1, <2>1, FlatNone
<1>7. ASSUME kind = "text" PROVE Flat(TextFn, o) = Flat(TextFn, c)
  <2>1. \A b \in Pieces : TextFn[b] = Flat(TextFn, OfKind(kind)[b])
    <3> SUFFICES ASSUME NEW b \in Pieces PROVE TextFn[b] = Flat(TextFn, OfKind(kind)[b])
      OBVIOUS
    <3>1. CASE b.kind = "text"
      <4>1. OfKind(kind)[b] = <<b>>
        BY <3>1, <1>7 DEF OfKind
      <4> QED BY <4>1, FlatOne
    <3>2. CASE b.kind # "text"
      <4>1. OfKind(kind)[b] = << >> /\ TextFn[b] = << >>
        BY <3>2, <1>7 DEF OfKind, TextFn
      <4> QED BY <4>1, FlatEmpty
    <3> QED BY <3>1, <3>2
  <2>2. Into(OfKind(kind), Pieces, Pieces) /\ Into(TextFn, Pieces, Nat) /\ TextFn \in [Pieces -> Seq(Nat)]
    BY FnTypes DEF Into
  <2> QED BY <2>1, <2>2, FlatFlat
<1>8. ASSUME kind = "image" PROVE Flat(ImageFn, o) = Flat(ImageFn, c)
  <2>1. \A b \in Pieces : ImageFn[b] = Flat(ImageFn, OfKind(kind)[b])
    <3> SUFFICES ASSUME NEW b \in Pieces PROVE ImageFn[b] = Flat(ImageFn, OfKind(kind)[b])
      OBVIOUS
    <3>1. CASE b.kind = "image"
      <4>1. OfKind(kind)[b] = <<b>>
        BY <3>1, <1>8 DEF OfKind
      <4> QED BY <4>1, FlatOne
    <3>2. CASE b.kind # "image"
      <4>1. OfKind(kind)[b] = << >> /\ ImageFn[b] = << >>
        BY <3>2, <1>8 DEF OfKind, ImageFn
      <4> QED BY <4>1, FlatEmpty
    <3> QED BY <3>1, <3>2
  <2>2. Into(OfKind(kind), Pieces, Pieces) /\ Into(ImageFn, Pieces, Nat)
    BY FnTypes
  <2> QED BY <2>1, <2>2, FlatFlat
<1> QED BY <1>3, <1>4, <1>5, <1>6, <1>7, <1>8

LEMMA TextIdsIs ==
    ASSUME NEW c \in Seq(Pieces)
    PROVE  TextIds(c) = Flat(TextFn, c) /\ TextIds(c) \in Seq(Nat)
<1> DEFINE o == Only(c, "text")
<1>1. o = Flat(OfKind("text"), c) /\ o \in Seq(KindSet("text"))
  BY OnlyIs
<1>2. TextIds(c) = FlattenSeq([i \in DOMAIN o |-> o[i].ids])
  BY DEF TextIds, Concat, Each
<1>3. [i \in DOMAIN o |-> o[i].ids] = [i \in DOMAIN o |-> TextFn[o[i]]]
  <2> HIDE DEF o
  <2>1. \A i \in DOMAIN o : o[i] \in Pieces /\ o[i].kind = "text"
    BY <1>1 DEF KindSet
  <2> QED BY <2>1 DEF TextFn
<1>4. TextIds(c) = Flat(TextFn, o)
  BY <1>2, <1>3 DEF Flat
<1>5. Flat(TextFn, o) = Flat(TextFn, c)
  BY <1>1, WithinKind
<1>6. Flat(TextFn, c) \in Seq(Nat)
  BY FnTypes, FlatType
<1> QED BY <1>4, <1>5, <1>6

LEMMA IdsIs ==
    ASSUME NEW c \in Seq(Pieces)
    PROVE  IdsOf(Only(c, "image")) = Flat(ImageFn, c) /\ Flat(ImageFn, c) \in Seq(Nat)
<1> DEFINE o == Only(c, "image")
<1>1. o = Flat(OfKind("image"), c) /\ o \in Seq(KindSet("image"))
  BY OnlyIs
<1>2. IdsOf(o) = [i \in DOMAIN o |-> o[i].id]
  BY DEF IdsOf, Each
<1>3. Flat(ImageFn, o) = Flat(ImageFn, c)
  BY <1>1, WithinKind
<1>4. \A i \in DOMAIN o : o[i] \in Pieces /\ o[i].kind = "image" /\ o[i].id \in Nat
  <2> HIDE DEF o
  <2>1. \A i \in DOMAIN o : o[i] \in Pieces /\ o[i].kind = "image"
    BY <1>1 DEF KindSet
  <2> QED BY <2>1, BlockIs DEF ImageSet
<1>5. IdsOf(o) \in Seq(Nat) /\ DOMAIN o = 1..Len(IdsOf(o)) /\ \A i \in 1..Len(IdsOf(o)) : ImageFn[o[i]] = <<IdsOf(o)[i]>>
  <2> HIDE DEF o
  <2>1. DOMAIN o = 1..Len(o) /\ Len(o) \in Nat
    BY <1>1
  <2>2. IdsOf(o) \in Seq(Nat) /\ Len(IdsOf(o)) = Len(o)
    BY <1>2, <1>4, <2>1
  <2> QED BY <1>2, <1>4, <2>1, <2>2 DEF ImageFn
<1>6. Flat(ImageFn, o) = IdsOf(o)
  <2> HIDE DEF o
  <2> QED BY <1>5, FlatSingles
<1> QED BY <1>3, <1>5, <1>6

LEMMA OnlyRange ==
    ASSUME NEW c \in Seq(Pieces), NEW kind
    PROVE  Range(Only(c, kind)) = {b \in Range(c) : b.kind = kind}
<1>1. Only(c, kind) = Flat(OfKind(kind), c)
  BY OnlyIs
<1>2. Range(Flat(OfKind(kind), c)) = UNION {Range(OfKind(kind)[b]) : b \in Range(c)}
  BY FnTypes, FlatRange
<1>3. Range(c) \subseteq Pieces
  BY DEF Range
<1>4. \A b \in Pieces : Range(OfKind(kind)[b]) = IF b.kind = kind THEN {b} ELSE {}
  BY DEF OfKind, Range
<1>5. \A b \in Range(c) : Range(OfKind(kind)[b]) = IF b.kind = kind THEN {b} ELSE {}
  BY <1>3, <1>4
<1>6. UNION {Range(OfKind(kind)[b]) : b \in Range(c)} = {b \in Range(c) : b.kind = kind}
  <2>1. \A x : x \in UNION {Range(OfKind(kind)[b]) : b \in Range(c)}
               <=> \E b \in Range(c) : x \in Range(OfKind(kind)[b])
    OBVIOUS
  <2>2. \A x : (\E b \in Range(c) : x \in Range(OfKind(kind)[b])) <=> x \in Range(c) /\ x.kind = kind
    BY <1>5
  <2> QED BY <2>1, <2>2
<1> QED BY <1>1, <1>2, <1>6

LEMMA BlocksJoin ==
    ASSUME NEW s \in Seq(Pieces), NEW t \in Seq(Pieces)
    PROVE  /\ Flat(TextFn, s \o t) = Flat(TextFn, s) \o Flat(TextFn, t)
           /\ Flat(ImageFn, s \o t) = Flat(ImageFn, s) \o Flat(ImageFn, t)
           /\ \A kind : Flat(OfKind(kind), s \o t) = Flat(OfKind(kind), s) \o Flat(OfKind(kind), t)
<1>1. Into(TextFn, Pieces, Nat)
  BY FnTypes
<1>2. Into(ImageFn, Pieces, Nat)
  BY FnTypes
<1>3. Flat(TextFn, s \o t) = Flat(TextFn, s) \o Flat(TextFn, t)
  BY <1>1, FlatJoin
<1>4. Flat(ImageFn, s \o t) = Flat(ImageFn, s) \o Flat(ImageFn, t)
  BY <1>2, FlatJoin
<1>5. ASSUME NEW kind PROVE Flat(OfKind(kind), s \o t) = Flat(OfKind(kind), s) \o Flat(OfKind(kind), t)
  <2> DEFINE f == OfKind(kind)
  <2>1. Into(f, Pieces, Pieces)
    BY FnTypes
  <2> HIDE DEF f
  <2>2. Flat(f, s \o t) = Flat(f, s) \o Flat(f, t)
    BY <2>1, FlatJoin
  <2> QED BY <2>2 DEF f
<1> QED BY <1>3, <1>4, <1>5

LEMMA JoinedIs ==
    ASSUME NEW c \in Seq(Pieces)
    PROVE  /\ Joined(c) \in Seq(Pieces)
           /\ Flat(TextFn, Joined(c)) = TextIds(c)
           /\ Flat(ImageFn, Joined(c)) = << >>
           /\ \A kind : kind # "text" => Flat(OfKind(kind), Joined(c)) = << >>
           /\ \A b \in Range(Joined(c)) : b.kind = "text"
           /\ Has(Joined(c), "text") <=> Has(c, "text")
<1> DEFINE t == Text(TextIds(c))
<1>1. TextIds(c) \in Seq(Nat) /\ TextIds(c) = Flat(TextFn, c)
  BY TextIdsIs
<1>2. t \in Pieces /\ t.kind = "text" /\ t.ids = TextIds(c)
  BY <1>1 DEF Text, Pieces, TextSet
<1>3. TextFn[t] = TextIds(c) /\ ImageFn[t] = << >> /\ \A kind : kind # "text" => OfKind(kind)[t] = << >>
  BY <1>2 DEF TextFn, ImageFn, OfKind
<1>4. CASE Has(c, "text")
  <2>1. Joined(c) = <<t>>
    BY <1>4 DEF Joined
  <2> HIDE DEF t
  <2>2. Range(<<t>>) = {t}
    BY DEF Range
  <2>3. <<t>> \in Seq(Pieces)
    BY <1>2
  <2>4. \A kind : kind # "text" => Flat(OfKind(kind), <<t>>) = << >>
    BY <1>3, FlatOne
  <2>5. Flat(TextFn, <<t>>) = TextIds(c) /\ Flat(ImageFn, <<t>>) = << >>
    BY <1>3, FlatOne
  <2>6. Has(<<t>>, "text")
    BY <2>2, <1>2 DEF Has
  <2> QED BY <2>1, <2>2, <2>3, <2>4, <2>5, <2>6, <1>2, <1>4
<1>5. CASE ~Has(c, "text")
  <2>1. Joined(c) = << >> /\ Range(<< >>) = {}
    BY <1>5 DEF Joined, Range
  <2>2. TextIds(c) = << >>
    BY <1>1, <1>5, NoneOf
  <2> QED BY <2>1, <2>2, <1>5, FlatEmpty DEF Has
<1> QED BY <1>4, <1>5

\* The content that a chat message has once it is canonical, and that of an answer in the OpenAI dialects.
Sorted(c) == Joined(c) \o Only(c, "image") \o Only(c, "tool_use")

LEMMA SpokenIs ==
    ASSUME NEW c \in Seq(Pieces)
    PROVE  /\ Spoken(c) \in Seq(Pieces)
           /\ Flat(TextFn, Spoken(c)) = TextIds(c)
           /\ Flat(ImageFn, Spoken(c)) = << >>
           /\ Flat(OfKind("tool_use"), Spoken(c)) = Only(c, "tool_use")
           /\ \A b \in Range(Spoken(c)) : b.kind \in {"text", "tool_use"}
<1> DEFINE j == Joined(c)  u == Only(c, "tool_use")
<1>1. u = Flat(OfKind("tool_use"), c)
  BY OnlyIs
<1>14. j \in Seq(Pieces)
  BY JoinedIs
<1>15. u \in Seq(Pieces)
  BY OnlyIs
<1>2. Into(TextFn, Pieces, Nat) /\ Into(ImageFn, Pieces, Nat) /\ Into(OfKind("tool_use"), Pieces, Pieces)
  BY FnTypes
<1>3. Flat(TextFn, u) = << >> /\ Flat(ImageFn, u) = << >> /\ Flat(OfKind("tool_use"), u) = u
  BY <1>1, WithinKind
<1>4. Flat(TextFn, j) = TextIds(c) /\ Flat(ImageFn, j) = << >> /\ Flat(OfKind("tool_use"), j) = << >>
  BY JoinedIs
<1>5. \A b \in Range(j) : b.kind = "text"
  BY JoinedIs
<1>6. \A b \in Range(u) : b.kind = "tool_use"
  <2>1. Range(u) = {b \in Range(c) : b.kind = "tool_use"}
    BY OnlyRange
  <2> QED BY <2>1
<1>7. TextIds(c) \in Seq(Nat)
  BY TextIdsIs
<1>8. Spoken(c) = j \o u
  BY DEF Spoken
<1>16. u = Only(c, "tool_use")
  OBVIOUS
<1> HIDE DEF j, u
<1>9. j \o u \in Seq(Pieces)
  BY <1>14, <1>15
<1>17. Range(j \o u) = Range(j) \cup Range(u)
  BY <1>14, <1>15, RangeJoin
<1>10. Flat(TextFn, j \o u) = Flat(TextFn, j) \o Flat(TextFn, u)
  BY <1>14, <1>15, BlocksJoin
<1>11. Flat(ImageFn, j \o u) = Flat(ImageFn, j) \o Flat(ImageFn, u)
  BY <1>14, <1>15, BlocksJoin
<1>12. Flat(OfKind("tool_use"), j \o u) = Flat(OfKind("tool_use"), j) \o Flat(OfKind("tool_use"), u)
  BY <1>14, <1>15, BlocksJoin
<1>13. Flat(OfKind("tool_use"), j \o u) = u
  BY <1>12, <1>3, <1>4, <1>15
<1>18. Flat(TextFn, j \o u) = TextIds(c)
  BY <1>10, <1>3, <1>4, <1>7
<1>19. Flat(ImageFn, j \o u) = << >>
  BY <1>11, <1>3, <1>4
<1>20. \A b \in Range(j \o u) : b.kind \in {"text", "tool_use"}
  BY <1>5, <1>6, <1>17
<1> QED BY <1>8, <1>9, <1>13, <1>16, <1>18, <1>19, <1>20

LEMMA SortedIs ==
    ASSUME NEW c \in Seq(Pieces)
    PROVE  /\ Sorted(c) \in Seq(Pieces)
           /\ TextIds(Sorted(c)) = TextIds(c)
           /\ IdsOf(Only(Sorted(c), "image")) = IdsOf(Only(c, "image"))
           /\ Only(Sorted(c), "tool_use") = Only(c, "tool_use")
           /\ \A b \in Range(Sorted(c)) : b.kind \in {"text", "image", "tool_use"}
           /\ Has(Sorted(c), "text") <=> Has(c, "text")
           /\ Has(Sorted(c), "image") <=> Has(c, "image")
<1> DEFINE j == Joined(c)  i == Only(c, "image")  u == Only(c, "tool_use")
<1>1. i = Flat(OfKind("image"), c) /\ u = Flat(OfKind("tool_use"), c)
  BY OnlyIs
<1>26. j \in Seq(Pieces)
  BY JoinedIs
<1>27. i \in Seq(Pieces)
  BY OnlyIs
<1>28. u \in Seq(Pieces)
  BY OnlyIs
<1>2. Into(TextFn, Pieces, Nat) /\ Into(ImageFn, Pieces, Nat) /\ Into(OfKind("tool_use"), Pieces, Pieces)
  BY FnTypes
<1>3. Flat(TextFn, u) = << >> /\ Flat(ImageFn, u) = << >> /\ Flat(OfKind("tool_use"), u) = u
  BY <1>1, WithinKind
<1>4. Flat(TextFn, j) = TextIds(c) /\ Flat(ImageFn, j) = << >> /\ Flat(OfKind("tool_use"), j) = << >>
  BY JoinedIs
<1>5. Flat(TextFn, i) = << >> /\ Flat(ImageFn, i) = Flat(ImageFn, c) /\ Flat(OfKind("tool_use"), i) = << >>
  BY <1>1, WithinKind
<1>6. (\A b \in Range(j) : b.kind = "text") /\ (Has(j, "text") <=> Has(c, "text"))
  BY JoinedIs
<1>7. Range(i) = {b \in Range(c) : b.kind = "image"} /\ Range(u) = {b \in Range(c) : b.kind = "tool_use"}
  BY OnlyRange
<1>8. TextIds(c) \in Seq(Nat) /\ Flat(ImageFn, c) \in Seq(Nat) /\ IdsOf(Only(c, "image")) = Flat(ImageFn, c)
  BY TextIdsIs, IdsIs
<1>9. Sorted(c) = (j \o i) \o u
  BY DEF Sorted
<1>29. u = Only(c, "tool_use")
  OBVIOUS
<1> HIDE DEF j, i, u
<1>10. j \o i \in Seq(Pieces)
  BY <1>26, <1>27
<1>30. (j \o i) \o u \in Seq(Pieces)
  BY <1>10, <1>28
<1>31. Range(j \o i) = Range(j) \cup Range(i)
  BY <1>26, <1>27, RangeJoin
<1>32. Range((j \o i) \o u) = Range(j \o i) \cup Range(u)
  BY <1>10, <1>28, RangeJoin, ZenonT(60)
<1>11. Range((j \o i) \o u) = Range(j) \cup Range(i) \cup Range(u)
  BY <1>31, <1>32
<1>13. Flat(TextFn, (j \o i) \o u) = (Flat(TextFn, j) \o Flat(TextFn, i)) \o Flat(TextFn, u)
  BY <1>26, <1>27, <1>10, <1>28, BlocksJoin, ZenonT(60)
<1>14. Flat(ImageFn, (j \o i) \o u) = (Flat(ImageFn, j) \o Flat(ImageFn, i)) \o Flat(ImageFn, u)
  BY <1>26, <1>27, <1>10, <1>28, BlocksJoin, ZenonT(60)
<1>15. Flat(OfKind("tool_use"), (j \o i) \o u) = (Flat(OfKind("tool_use"), j) \o Flat(OfKind("tool_use"), i)) \o Flat(OfKind("tool_use"), u)
  <2>1. Flat(OfKind("tool_use"), j \o i) = Flat(OfKind("tool_use"), j) \o Flat(OfKind("tool_use"), i)
    BY <1>26, <1>27, BlocksJoin
  <2>2. Flat(OfKind("tool_use"), (j \o i) \o u) = Flat(OfKind("tool_use"), j \o i) \o Flat(OfKind("tool_use"), u)
    BY <1>10, <1>28, BlocksJoin
  <2> QED BY <2>1, <2>2
<1>16. Flat(TextFn, Sorted(c)) = TextIds(c)
  BY <1>13, <1>9, <1>3, <1>4, <1>5, <1>8
<1>17. Flat(ImageFn, Sorted(c)) = Flat(ImageFn, c)
  BY <1>14, <1>9, <1>3, <1>4, <1>5, <1>8
<1>18. Flat(OfKind("tool_use"), Sorted(c)) = u
  BY <1>15, <1>9, <1>3, <1>4, <1>5, <1>28
<1>19. Sorted(c) \in Seq(Pieces)
  BY <1>9, <1>30
<1>20. TextIds(Sorted(c)) = TextIds(c) /\ IdsOf(Only(Sorted(c), "image")) = IdsOf(Only(c, "image"))
  BY <1>16, <1>17, <1>19, <1>8, TextIdsIs, IdsIs
<1>21. Only(Sorted(c), "tool_use") = Only(c, "tool_use")
  BY <1>18, <1>19, <1>29, OnlyIs
<1>22. Range(Sorted(c)) = Range(j) \cup Range(i) \cup Range(u)
  BY <1>9, <1>11
<1>23. Has(Sorted(c), "text") <=> Has(c, "text")
  BY <1>22, <1>6, <1>7 DEF Has
<1>24. Has(Sorted(c), "image") <=> Has(c, "image")
  BY <1>22, <1>6, <1>7 DEF Has
<1>25. \A b \in Range(Sorted(c)) : b.kind \in {"text", "image", "tool_use"}
  BY <1>22, <1>6, <1>7
<1> QED BY <1>19, <1>20, <1>21, <1>23, <1>24, <1>25

-----------------------------------------------------------------------------
(* Messages as a client of this dialect has them, and on the wire.           *)

Roles == {"system", "developer", "user", "assistant", "tool"}
MessageSet == [role : Roles, content : Seq(Pieces)]
Formed(m) ==
    /\ m \in MessageSet
    /\ dialect = "responses" => m.content # << >>
    /\ dialect # "messages" \/ Has(m.content, "tool_result") => ~Has(m.content, "thinking")
    /\ IF Has(m.content, "tool_result")
       THEN IF dialect = "messages" THEN m.role = "user" ELSE m.role = "tool" /\ Len(m.content) = 1
       ELSE m.role # "tool"
FormedSet == {m \in MessageSet : Formed(m)}
Wired == [role : Roles, text : Seq(Nat), images : Seq(Nat), thought : Seq(Nat), calls : Seq(UseSet),
          of : Seq(Nat), shown : BOOLEAN]
RoleOf(m) == IF dialect = "messages" THEN m.role ELSE KnownRole(m.role)

\* What becomes of it on its way to Copilot.
LEMMA FromClientIs ==
    ASSUME dialect \in {"messages", "chat", "responses"}, NEW m \in FormedSet
    PROVE  LET c == m.content  n == FromClient(m) IN
           /\ n.content \in Seq(Pieces)
           /\ Has(n.content, "tool_result") <=> Has(c, "tool_result")
           /\ Has(c, "tool_result") => n.content = c /\ n.role = "tool"
           /\ ~Has(c, "tool_result") =>
                 /\ n.role = RoleOf(m) /\ n.role \in Roles \ {"tool"}
                 /\ TextIds(n.content) = TextIds(c)
                 /\ IdsOf(Only(n.content, "image")) = IdsOf(Only(c, "image"))
                 /\ Only(n.content, "tool_use") = Only(c, "tool_use")
                 /\ Has(n.content, "text") <=> Has(c, "text")
                 /\ Has(n.content, "image") <=> Has(c, "image")
                 /\ Thought(n.content) = Thought(c)
<1> DEFINE c == m.content  n == FromClient(m)
<1>1. m \in MessageSet /\ Formed(m) /\ c \in Seq(Pieces) /\ m.role \in Roles
  BY DEF FormedSet, Formed, MessageSet
<1>2. CASE dialect = "messages"
  <2>1. n = Message(IF Has(c, "tool_result") THEN "tool" ELSE m.role, c)
    BY <1>2 DEF FromClient, FromAnthropic
  <2>2. n.content = c /\ n.role = IF Has(c, "tool_result") THEN "tool" ELSE m.role
    BY <2>1 DEF Message
  <2>3. ~Has(c, "tool_result") => m.role # "tool"
    BY <1>1 DEF Formed
  <2> HIDE DEF n, c
  <2> QED BY <1>1, <1>2, <2>2, <2>3 DEF RoleOf, n, c
<1>3. CASE dialect = "chat"
  <2>1. CASE Has(c, "tool_result")
    <3>1. m.role = "tool"
      BY <1>1, <1>3, <2>1 DEF Formed
    <3>2. n = m
      BY <1>3, <3>1 DEF FromClient, FromChat
    <3> QED BY <3>1, <3>2, <2>1, <1>1
  <2>2. CASE ~Has(c, "tool_result")
    <3>1. m.role # "tool" /\ ~Has(c, "thinking")
      BY <1>1, <1>3, <2>2 DEF Formed
    <3>2. n = Message(KnownRole(m.role), Sorted(c))
      BY <1>3, <3>1 DEF FromClient, FromChat, Sorted
    <3>3. n.content = Sorted(c) /\ n.role = KnownRole(m.role)
      BY <3>2 DEF Message
    <3>4. KnownRole(m.role) \in Roles \ {"tool"} /\ RoleOf(m) = KnownRole(m.role)
      BY <1>1, <1>3, <3>1 DEF Roles, KnownRole, RoleOf
    <3>5. /\ Sorted(c) \in Seq(Pieces)
          /\ TextIds(Sorted(c)) = TextIds(c)
          /\ IdsOf(Only(Sorted(c), "image")) = IdsOf(Only(c, "image"))
          /\ Only(Sorted(c), "tool_use") = Only(c, "tool_use")
          /\ \A b \in Range(Sorted(c)) : b.kind \in {"text", "image", "tool_use"}
          /\ Has(Sorted(c), "text") <=> Has(c, "text")
          /\ Has(Sorted(c), "image") <=> Has(c, "image")
      BY <1>1, SortedIs
    <3>6. ~Has(Sorted(c), "tool_result") /\ ~Has(Sorted(c), "thinking")
      BY <3>5 DEF Has
    <3>7. Thoughts(c) = {} /\ Thoughts(Sorted(c)) = {}
      BY <3>1, <3>6 DEF Thoughts, Has, Range
    <3>8. Thought(c) = << >> /\ Thought(Sorted(c)) = << >>
      BY <3>7 DEF Thought
    <3> HIDE DEF n, c
    <3> QED BY <2>2, <3>3, <3>4, <3>5, <3>6, <3>8 DEF n, c
  <2> QED BY <2>1, <2>2
<1>4. CASE dialect = "responses"
  <2>1. Len(c) \in Nat /\ Len(c) # 0 /\ DOMAIN c = 1..Len(c)
    BY <1>1, <1>4 DEF Formed
  <2>2. CASE Has(c, "tool_result")
    <3>1. m.role = "tool" /\ Len(c) = 1
      BY <1>1, <1>4, <2>2 DEF Formed
    <3>2. c[1].kind = "tool_result"
      <4>1. PICK k \in DOMAIN c : c[k].kind = "tool_result"
        BY <2>2 DEF Has, Range
      <4> QED BY <4>1, <3>1, <2>1
    <3>3. n = Message("tool", c)
      BY <1>4, <3>2 DEF FromClient, FromResponses
    <3>4. n.content = c /\ n.role = "tool"
      BY <3>3 DEF Message
    <3> QED BY <3>4, <2>2, <1>1
  <2>3. CASE ~Has(c, "tool_result")
    <3>1. m.role # "tool" /\ c[1].kind # "tool_result"
      BY <1>1, <1>4, <2>3, <2>1 DEF Formed, Has, Range
    <3>2. n = Message(KnownRole(m.role), c)
      BY <1>4, <3>1 DEF FromClient, FromResponses
    <3>3. n.content = c /\ n.role = KnownRole(m.role)
      BY <3>2 DEF Message
    <3>4. KnownRole(m.role) \in Roles \ {"tool"} /\ RoleOf(m) = KnownRole(m.role)
      BY <1>1, <1>4, <3>1 DEF Roles, KnownRole, RoleOf
    <3> HIDE DEF n, c
    <3> QED BY <2>3, <3>3, <3>4, <1>1 DEF n, c
  <2> QED BY <2>2, <2>3
<1> QED BY <1>2, <1>3, <1>4

-----------------------------------------------------------------------------
(* The thought of a message that is sent. *)

LEMMA ThoughtIs ==
    ASSUME NEW c \in Seq(Pieces)
    PROVE  LET signed == {i \in Thoughts(c) : c[i].opaque} IN
           /\ Thoughts(c) = {} => Thought(c) = << >>
           /\ Thoughts(c) # {} =>
                 \E i \in Thoughts(c) : /\ Thought(c) = <<c[i].id>> /\ c[i].id \in Nat
                                        /\ signed # {} => i \in signed /\ \A j \in signed : j <= i
<1> DEFINE T == Thoughts(c)
           signed == {i \in T : c[i].opaque}
<1>1. DOMAIN c = 1..Len(c) /\ Len(c) \in Nat /\ \A i \in 1..Len(c) : c[i] \in Pieces
  OBVIOUS
<1>2. T \subseteq 1..Len(c) /\ \A i \in T : c[i] \in Pieces /\ c[i].kind = "thinking"
  BY <1>1 DEF Thoughts
<1>3. \A i \in T : c[i].id \in Nat
  BY <1>2, BlockIs DEF ThinkSet
<1>4. CASE T = {}
  BY <1>4 DEF Thought
<1>5. CASE T # {} /\ signed = {}
  <2>1. Thought(c) = <<c[Min(T)].id>>
    BY <1>5 DEF Thought
  <2>2. Min(T) \in T
    <3>1. T \in SUBSET Nat
      BY <1>2
    <3>2. PICK x \in T : \A y \in T : x <= y
      BY <1>5, <3>1, LeastOf
    <3> HIDE DEF T
    <3> QED BY <3>2 DEF Min
  <2> HIDE DEF T, signed
  <2> QED BY <2>1, <2>2, <1>3, <1>5 DEF T, signed
<1>6. CASE T # {} /\ signed # {}
  <2>1. Thought(c) = <<c[Max(signed)].id>>
    BY <1>6 DEF Thought
  <2>2. Max(signed) \in signed /\ \A j \in signed : j <= Max(signed)
    <3> DEFINE D == {Len(c) - i : i \in signed}
    <3>1. D \in SUBSET Nat /\ D # {}
      BY <1>1, <1>2, <1>6
    <3>2. PICK x \in D : \A y \in D : x <= y
      <4> HIDE DEF D
      <4> QED BY <3>1, LeastOf
    <3>3. PICK i \in signed : x = Len(c) - i
      BY <3>2
    <3>4. \A j \in signed : i \in Int /\ j \in Int /\ i >= j
      <4> SUFFICES ASSUME NEW j \in signed PROVE i \in Int /\ j \in Int /\ i >= j
        OBVIOUS
      <4>1. Len(c) - j \in D
        OBVIOUS
      <4>2. i \in 1..Len(c) /\ j \in 1..Len(c)
        BY <1>2
      <4>3. Len(c) - i <= Len(c) - j
        BY <4>1, <3>2, <3>3
      <4> HIDE DEF D, signed, T
      <4> QED BY <4>2, <4>3, <1>1
    <3>5. Max(signed) \in signed /\ \A j \in signed : Max(signed) >= j
      <4> HIDE DEF signed
      <4> QED BY <3>4 DEF Max
    <3>6. \A j \in signed : j \in Int
      BY <3>4
    <3> HIDE DEF signed
    <3> QED BY <3>5, <3>6
  <2>3. Max(signed) \in T
    BY <2>2
  <2>4. c[Max(signed)].id \in Nat
    BY <2>3, <1>3
  <2> HIDE DEF T, signed
  <2> QED BY <2>1, <2>2, <2>3, <2>4, <1>6 DEF T, signed
<1> QED BY <1>4, <1>5, <1>6

-----------------------------------------------------------------------------
(* What a message says: to both ends of the worker. *)

TextOf == [m \in FormedSet |-> IF Has(m.content, "tool_result") THEN << >> ELSE TextIds(m.content)]
ImageOf == [m \in FormedSet |-> IF Has(m.content, "tool_result") THEN << >> ELSE IdsOf(Only(m.content, "image"))]
UseOf == [m \in FormedSet |-> IF Has(m.content, "tool_result") THEN << >> ELSE Only(m.content, "tool_use")]
ResOf == [m \in FormedSet |-> Only(m.content, "tool_result")]
ChatOf == [m \in FormedSet |-> ToChat(FromClient(m))]
ItemsOf == [m \in FormedSet |-> ToItems(FromClient(m))]

WText == [w \in Wired |-> w.text]
WImages == [w \in Wired |-> w.images]
WCalls == [w \in Wired |-> w.calls]
WOf == [w \in Wired |-> w.of]
AsFunction == [b \in UseSet |-> <<ToolUse(b.id, FALSE)>>]
IdOf == [b \in ResultSet |-> <<b.id>>]

Fills(q, s, T) == q \in [DOMAIN s -> T]

LEMMA FillSeq ==
    ASSUME NEW S, NEW T, NEW s \in Seq(S), NEW q, Fills(q, s, T)
    PROVE  q \in Seq(T) /\ Len(q) = Len(s)
<1>1. Len(s) \in Nat /\ DOMAIN s = 1..Len(s)
  OBVIOUS
<1>2. q = [i \in 1..Len(s) |-> q[i]] /\ \A i \in 1..Len(s) : q[i] \in T
  BY <1>1 DEF Fills
<1> DEFINE p == [i \in 1..Len(s) |-> q[i]]
<1>3. p \in Seq(T) /\ Len(p) = Len(s)
  BY <1>1, <1>2
<1> QED BY <1>2, <1>3

LEMMA OneSeq ==
    ASSUME NEW T, NEW t \in T
    PROVE  <<t>> \in Seq(T)
OBVIOUS

LEMMA BlankIs ==
    ASSUME NEW r \in Roles
    PROVE  LET w == Blank(r) IN
           /\ w \in Wired /\ w.role = r /\ w.text = << >> /\ w.images = << >> /\ w.thought = << >>
           /\ w.calls = << >> /\ w.of = << >> /\ w.shown = FALSE
<1>1. /\ Blank(r).role = r /\ Blank(r).text = << >> /\ Blank(r).images = << >> /\ Blank(r).thought = << >>
      /\ Blank(r).calls = << >> /\ Blank(r).of = << >> /\ Blank(r).shown = FALSE
  BY DEF Blank
<1>2. Blank(r) \in Wired
  <2> DEFINE e == << >>  f == FALSE
  <2>1. e \in Seq(Nat) /\ e \in Seq(UseSet) /\ f \in BOOLEAN
    OBVIOUS
  <2>2. Blank(r) = [role |-> r, text |-> e, images |-> e, thought |-> e, calls |-> e, of |-> e, shown |-> f]
    BY Zenon DEF Blank
  <2> HIDE DEF e, f
  <2> QED BY <2>1, <2>2 DEF Wired
<1> QED BY <1>1, <1>2

\* A message on the wire for a result, for a call, and for what is said.
LEMMA WireResult ==
    ASSUME NEW o \in Seq(Nat), NEW s \in BOOLEAN
    PROVE  LET w == [Blank("tool") EXCEPT !.of = o, !.shown = s] IN
           w \in Wired /\ w.role = "tool" /\ w.text = << >> /\ w.images = << >> /\ w.thought = << >> /\ w.calls = << >> /\ w.of = o
<1> DEFINE B == Blank("tool")
<1>1. "tool" \in Roles
  BY DEF Roles
<1>2. /\ B \in Wired /\ B.role = "tool" /\ B.text = << >> /\ B.images = << >> /\ B.thought = << >>
      /\ B.calls = << >> /\ B.of = << >> /\ B.shown = FALSE
  BY <1>1, BlankIs
<1> HIDE DEF B
<1>3. LET w == [B EXCEPT !.of = o, !.shown = s] IN
      w \in Wired /\ w.role = "tool" /\ w.text = << >> /\ w.images = << >> /\ w.thought = << >> /\ w.calls = << >> /\ w.of = o
  BY <1>2 DEF Wired
<1> QED BY <1>3, Zenon DEF B

LEMMA WireOutput ==
    ASSUME NEW o \in Seq(Nat)
    PROVE  LET w == [Blank("tool") EXCEPT !.of = o] IN
           w \in Wired /\ w.role = "tool" /\ w.text = << >> /\ w.images = << >> /\ w.calls = << >> /\ w.of = o
<1> DEFINE B == Blank("tool")
<1>1. "tool" \in Roles
  BY DEF Roles
<1>2. /\ B \in Wired /\ B.role = "tool" /\ B.text = << >> /\ B.images = << >> /\ B.thought = << >>
      /\ B.calls = << >> /\ B.of = << >> /\ B.shown = FALSE
  BY <1>1, BlankIs
<1> HIDE DEF B
<1>3. LET w == [B EXCEPT !.of = o] IN
      w \in Wired /\ w.role = "tool" /\ w.text = << >> /\ w.images = << >> /\ w.calls = << >> /\ w.of = o
  BY <1>2 DEF Wired
<1> QED BY <1>3, Zenon DEF B

LEMMA WireCall ==
    ASSUME NEW c \in Seq(UseSet)
    PROVE  LET w == [Blank("assistant") EXCEPT !.calls = c] IN
           w \in Wired /\ w.text = << >> /\ w.images = << >> /\ w.calls = c /\ w.of = << >>
<1> DEFINE B == Blank("assistant")
<1>1. "assistant" \in Roles
  BY DEF Roles
<1>2. /\ B \in Wired /\ B.role = "assistant" /\ B.text = << >> /\ B.images = << >> /\ B.thought = << >>
      /\ B.calls = << >> /\ B.of = << >> /\ B.shown = FALSE
  BY <1>1, BlankIs
<1> HIDE DEF B
<1>3. LET w == [B EXCEPT !.calls = c] IN
      w \in Wired /\ w.text = << >> /\ w.images = << >> /\ w.calls = c /\ w.of = << >>
  BY <1>2 DEF Wired
<1> QED BY <1>3, Zenon DEF B

Shows(r, t, i) == [Blank(r) EXCEPT !.text = t, !.images = i]

LEMMA WireText ==
    ASSUME NEW r \in Roles, NEW t \in Seq(Nat), NEW i \in Seq(Nat)
    PROVE  LET w == Shows(r, t, i) IN
           w \in Wired /\ w.text = t /\ w.images = i /\ w.calls = << >> /\ w.of = << >>
<1> DEFINE B == Blank(r)
<1>1. r \in Roles
  BY DEF Roles
<1>2. /\ B \in Wired /\ B.role = r /\ B.text = << >> /\ B.images = << >> /\ B.thought = << >>
      /\ B.calls = << >> /\ B.of = << >> /\ B.shown = FALSE
  BY <1>1, BlankIs
<1> HIDE DEF B
<1>3. LET w == [B EXCEPT !.text = t, !.images = i] IN
      w \in Wired /\ w.text = t /\ w.images = i /\ w.calls = << >> /\ w.of = << >>
  BY <1>2 DEF Wired
<1> QED BY <1>3, Zenon DEF B, Shows

Says(r, t, i, c, h) == [Blank(r) EXCEPT !.text = t, !.images = i, !.calls = c, !.thought = h]

LEMMA WireSays ==
    ASSUME NEW r \in Roles, NEW t \in Seq(Nat), NEW i \in Seq(Nat), NEW h \in Seq(Nat), NEW c \in Seq(UseSet)
    PROVE  LET w == Says(r, t, i, c, h) IN
           w \in Wired /\ w.role = r /\ w.text = t /\ w.images = i /\ w.thought = h /\ w.calls = c /\ w.of = << >>
<1> DEFINE B == Blank(r)
<1>1. r \in Roles
  BY DEF Roles
<1>2. /\ B \in Wired /\ B.role = r /\ B.text = << >> /\ B.images = << >> /\ B.thought = << >>
      /\ B.calls = << >> /\ B.of = << >> /\ B.shown = FALSE
  BY <1>1, BlankIs
<1> HIDE DEF B
<1>3. LET w == [B EXCEPT !.text = t, !.images = i, !.calls = c, !.thought = h] IN
      w \in Wired /\ w.role = r /\ w.text = t /\ w.images = i /\ w.thought = h /\ w.calls = c /\ w.of = << >>
  BY <1>2 DEF Wired
<1> QED BY <1>3, Zenon DEF B, Says

LEMMA WireTypes ==
    /\ Into(WText, Wired, Nat) /\ Into(WImages, Wired, Nat) /\ Into(WCalls, Wired, UseSet) /\ Into(WOf, Wired, Nat)
    /\ Into(AsFunction, UseSet, UseSet) /\ Into(IdOf, ResultSet, Nat)
<1>1. Into(WText, Wired, Nat) /\ Into(WImages, Wired, Nat) /\ Into(WCalls, Wired, UseSet) /\ Into(WOf, Wired, Nat)
  BY DEF Into, WText, WImages, WCalls, WOf, Wired
<1>2. \A b \in UseSet : ToolUse(b.id, FALSE) \in UseSet
  BY DEF UseSet, ToolUse
<1>3. Into(AsFunction, UseSet, UseSet)
  <2>1. ASSUME NEW b \in UseSet PROVE <<ToolUse(b.id, FALSE)>> \in Seq(UseSet)
    <3> DEFINE t == ToolUse(b.id, FALSE)
    <3>1. t \in UseSet
      BY <1>2
    <3> HIDE DEF t
    <3>2. <<t>> \in Seq(UseSet)
      BY <3>1
    <3> QED BY <3>2 DEF t
  <2> QED BY <2>1 DEF Into, AsFunction
<1>4. Into(IdOf, ResultSet, Nat)
  BY DEF Into, IdOf, ResultSet
<1> QED BY <1>1, <1>3, <1>4

LEMMA KindSets == KindSet("tool_use") = UseSet /\ KindSet("tool_result") = ResultSet
<1>1. UseSet \subseteq Pieces /\ ResultSet \subseteq Pieces
  BY DEF Pieces
<1> QED BY <1>1, BlockIs DEF KindSet

LEMMA MessageTypes ==
    /\ Into(TextOf, FormedSet, Nat) /\ Into(ImageOf, FormedSet, Nat)
    /\ Into(UseOf, FormedSet, UseSet) /\ Into(ResOf, FormedSet, ResultSet)
<1>1. \A m \in FormedSet : m.content \in Seq(Pieces)
  BY DEF FormedSet, MessageSet
<1>2. \A m \in FormedSet : TextIds(m.content) \in Seq(Nat)
  BY <1>1, TextIdsIs
<1>3. \A m \in FormedSet : IdsOf(Only(m.content, "image")) \in Seq(Nat)
  BY <1>1, IdsIs
<1>4. \A m \in FormedSet : Only(m.content, "tool_use") \in Seq(UseSet)
  BY <1>1, OnlyIs, KindSets
<1>5. \A m \in FormedSet : Only(m.content, "tool_result") \in Seq(ResultSet)
  BY <1>1, OnlyIs, KindSets
<1>6. Into(TextOf, FormedSet, Nat)
  BY <1>2 DEF Into, TextOf
<1>7. Into(ImageOf, FormedSet, Nat)
  BY <1>3 DEF Into, ImageOf
<1>8. Into(UseOf, FormedSet, UseSet)
  BY <1>4 DEF Into, UseOf
<1>9. Into(ResOf, FormedSet, ResultSet)
  BY <1>5 DEF Into, ResOf
<1> QED BY <1>6, <1>7, <1>8, <1>9

\* The messages that the results of a message become on the wire.
LEMMA ResultsIs ==
    ASSUME NEW s \in Seq(ResultSet), NEW q \in Seq(Wired), Len(q) = Len(s),
           \A i \in 1..Len(s) : /\ q[i].text = << >> /\ q[i].images = << >> /\ q[i].calls = << >>
                                /\ q[i].of = <<s[i].id>>
    PROVE  /\ Flat(WText, q) = << >> /\ Flat(WImages, q) = << >> /\ Flat(WCalls, q) = << >>
           /\ Flat(WOf, q) = Flat(IdOf, s)
<1>0. \A i \in 1..Len(q) : q[i] \in Wired
  OBVIOUS
<1>1. \A i \in 1..Len(q) : WText[q[i]] = << >> /\ WImages[q[i]] = << >> /\ WCalls[q[i]] = << >>
  BY <1>0 DEF WText, WImages, WCalls
<1>2. Flat(WText, q) = << >> /\ Flat(WImages, q) = << >> /\ Flat(WCalls, q) = << >>
  BY <1>1, FlatNone
<1>3. \A i \in 1..Len(q) : s[i] \in ResultSet
  OBVIOUS
<1>4. \A i \in 1..Len(q) : WOf[q[i]] = IdOf[s[i]]
  BY <1>0, <1>3 DEF WOf, IdOf
<1>5. Into(WOf, Wired, Nat)
  BY WireTypes
<1>6. Into(IdOf, ResultSet, Nat)
  BY WireTypes
<1>7. Flat(WOf, q) = Flat(IdOf, s)
  BY <1>4, <1>5, <1>6, FlatSame
<1> QED BY <1>2, <1>7

\* On /chat: each result, or else the message.
LEMMA ChatIs ==
    ASSUME dialect \in {"messages", "chat", "responses"}, NEW m \in FormedSet
    PROVE  /\ ChatOf[m] \in Seq(Wired)
           /\ Flat(WText, ChatOf[m]) = TextOf[m]
           /\ Flat(WImages, ChatOf[m]) = ImageOf[m]
           /\ Flat(WCalls, ChatOf[m]) = Flat(AsFunction, UseOf[m])
           /\ Flat(WOf, ChatOf[m]) = Flat(IdOf, ResOf[m])
           /\ Has(m.content, "tool_result") =>
                 /\ Len(ChatOf[m]) = Len(ResOf[m])
                 /\ \A i \in 1..Len(ResOf[m]) :
                       ChatOf[m][i] = [Blank("tool") EXCEPT !.of = <<ResOf[m][i].id>>, !.shown = ResOf[m][i].images]
           /\ ~Has(m.content, "tool_result") =>
                 \E w \in Wired : /\ ChatOf[m] = <<w>> /\ w.of = << >> /\ w.role # "tool" /\ w.role = RoleOf(m)
                                  /\ w.calls = Flat(AsFunction, UseOf[m])
                                  /\ w.thought = Thought(m.content)
<1> DEFINE c == m.content  n == FromClient(m)
<1>1. m \in MessageSet /\ Formed(m) /\ c \in Seq(Pieces)
  BY DEF FormedSet, Formed, MessageSet
<1>2. ChatOf[m] = ToChat(n)
  BY DEF ChatOf
<1>3. /\ n.content \in Seq(Pieces)
      /\ Has(n.content, "tool_result") <=> Has(c, "tool_result")
      /\ Has(c, "tool_result") => n.content = c /\ n.role = "tool"
      /\ ~Has(c, "tool_result") =>
            /\ n.role = RoleOf(m) /\ n.role \in Roles \ {"tool"}
            /\ TextIds(n.content) = TextIds(c)
            /\ IdsOf(Only(n.content, "image")) = IdsOf(Only(c, "image"))
            /\ Only(n.content, "tool_use") = Only(c, "tool_use")
            /\ Has(n.content, "text") <=> Has(c, "text")
            /\ Has(n.content, "image") <=> Has(c, "image")
            /\ Thought(n.content) = Thought(c)
  BY FromClientIs
<1> DEFINE s == Only(c, "tool_result")  u == Only(c, "tool_use")
<1>4. s \in Seq(ResultSet) /\ u \in Seq(UseSet)
  BY <1>1, OnlyIs, KindSets
<1>5. ResOf[m] = s
  BY DEF ResOf
<1>6. CASE Has(c, "tool_result")
  <2> DEFINE q == [i \in DOMAIN s |-> [Blank("tool") EXCEPT !.of = <<s[i].id>>, !.shown = s[i].images]]
  <2>1. ChatOf[m] = q
    BY <1>2, <1>3, <1>6 DEF ToChat, Each, Results
  <2>2. TextOf[m] = << >> /\ ImageOf[m] = << >> /\ UseOf[m] = << >>
    BY <1>6 DEF TextOf, ImageOf, UseOf
  <2> HIDE DEF s
  <2>3. DOMAIN s = 1..Len(s) /\ Len(s) \in Nat /\ \A i \in 1..Len(s) : s[i] \in ResultSet
    BY <1>4
  <2>4. \A i \in DOMAIN s : s[i].id \in Nat /\ s[i].images \in BOOLEAN
    BY <2>3 DEF ResultSet
  <2>5. ASSUME NEW i \in DOMAIN s PROVE [Blank("tool") EXCEPT !.of = <<s[i].id>>, !.shown = s[i].images] \in Wired
    <3> DEFINE o == <<s[i].id>>  b == s[i].images
    <3>1. o \in Seq(Nat)
      BY <2>4, OneSeq
    <3>2. b \in BOOLEAN
      BY <2>4
    <3>3. "tool" \in Roles /\ << >> \in Seq(Nat) /\ << >> \in Seq(UseSet)
      BY DEF Roles
    <3> HIDE DEF o, b
    <3>4. [Blank("tool") EXCEPT !.of = o, !.shown = b] \in Wired
      BY <3>1, <3>2, WireResult, Zenon
    <3> QED BY <3>4 DEF o, b
  <2>6. q \in Seq(Wired) /\ Len(q) = Len(s)
    <3>1. \A i \in 1..Len(s) : q[i] \in Wired
      BY <2>3, <2>5
    <3>2. Fills(q, s, Wired)
      BY <2>3, <3>1 DEF Fills
    <3>3. s \in Seq(ResultSet)
      BY <1>4
    <3> HIDE DEF q
    <3> QED BY <3>2, <3>3, FillSeq
  <2>7. \A i \in 1..Len(s) : /\ q[i].text = << >> /\ q[i].images = << >> /\ q[i].calls = << >>
                             /\ q[i].of = <<s[i].id>>
    BY <2>3 DEF Blank
  <2>9. \A i \in 1..Len(s) : q[i] = [Blank("tool") EXCEPT !.of = <<s[i].id>>, !.shown = s[i].images]
    BY <2>3
  <2> HIDE DEF q
  <2>8. /\ Flat(WText, q) = << >> /\ Flat(WImages, q) = << >> /\ Flat(WCalls, q) = << >>
        /\ Flat(WOf, q) = Flat(IdOf, s)
    BY <1>4, <2>6, <2>7, ResultsIs
  <2>10. Flat(AsFunction, << >>) = << >>
    BY FlatEmpty
  <2> HIDE DEF c, n
  <2> QED BY <1>5, <1>6, <2>1, <2>2, <2>6, <2>8, <2>9, <2>10 DEF c
<1>7. CASE ~Has(c, "tool_result")
  <2> DEFINE k == [i \in DOMAIN u |-> ToolUse(u[i].id, FALSE)]
             w == [Blank(n.role) EXCEPT !.text = TextIds(c), !.images = IdsOf(Only(c, "image")),
                                        !.calls = k, !.thought = Thought(c)]
  <2>1. ChatOf[m] = <<w>>
    BY <1>2, <1>3, <1>7 DEF ToChat, Each
  <2>2. TextOf[m] = TextIds(c) /\ ImageOf[m] = IdsOf(Only(c, "image")) /\ UseOf[m] = u
    BY <1>7 DEF TextOf, ImageOf, UseOf
  <2>3. TextIds(c) \in Seq(Nat) /\ IdsOf(Only(c, "image")) \in Seq(Nat)
    BY <1>1, TextIdsIs, IdsIs
  <2>4. Thought(c) \in Seq(Nat)
    <3> HIDE DEF c
    <3>1. CASE Thoughts(c) = {}
      <4>1. c \in Seq(Pieces)
        BY <1>1
      <4>2. Thought(c) = << >>
        BY <3>1, <4>1, ThoughtIs
      <4> QED BY <4>2
    <3>2. CASE Thoughts(c) # {}
      <4>1. PICK i : Thought(c) = <<c[i].id>> /\ c[i].id \in Nat
        BY <3>2, <1>1, ThoughtIs
      <4> QED BY <4>1
    <3> QED BY <3>1, <3>2
  <2>5. k = Flat(AsFunction, u) /\ k \in Seq(UseSet)
    <3> HIDE DEF u
    <3>1. DOMAIN u = 1..Len(u) /\ Len(u) \in Nat /\ \A i \in 1..Len(u) : u[i] \in UseSet
      BY <1>4
    <3>2. \A i \in 1..Len(u) : ToolUse(u[i].id, FALSE) \in UseSet
      BY <3>1 DEF UseSet, ToolUse
    <3>3. k \in Seq(UseSet) /\ Len(k) = Len(u)
      <4>1. \A i \in 1..Len(u) : k[i] \in UseSet
        BY <3>1, <3>2
      <4>2. Fills(k, u, UseSet)
        BY <3>1, <4>1 DEF Fills
      <4>3. u \in Seq(UseSet)
        BY <1>4
      <4> HIDE DEF k
      <4> QED BY <4>2, <4>3, FillSeq
    <3>4. \A i \in 1..Len(k) : AsFunction[u[i]] = <<k[i]>>
      BY <3>1, <3>3 DEF AsFunction
    <3> HIDE DEF k
    <3>5. Flat(AsFunction, u) = k
      BY <3>1, <3>3, <3>4, FlatSingles
    <3> QED BY <3>3, <3>5
  <2>6. s = << >>
    <3>1. s = Flat(OfKind("tool_result"), c)
      BY <1>1, OnlyIs
    <3> QED BY <3>1, <1>1, <1>7, NoneOf
  <2> HIDE DEF k
  <2>7. n.role \in Roles
    BY <1>3, <1>7
  <2>8. /\ w \in Wired /\ w.text = TextIds(c) /\ w.images = IdsOf(Only(c, "image")) /\ w.calls = k /\ w.of = << >>
        /\ w.thought = Thought(c) /\ w.role = n.role
    <3> DEFINE t == TextIds(c)  i == IdsOf(Only(c, "image"))  h == Thought(c)  r == n.role
    <3>1. t \in Seq(Nat) /\ i \in Seq(Nat) /\ h \in Seq(Nat) /\ k \in Seq(UseSet) /\ r \in Roles
      BY <2>3, <2>4, <2>5, <2>7
    <3>2. w = Says(r, t, i, k, h)
      BY Zenon DEF Says
    <3> HIDE DEF w, r, t, i, h
    <3>3. LET x == Says(r, t, i, k, h) IN
          /\ x \in Wired /\ x.role = r /\ x.text = t /\ x.images = i /\ x.thought = h
          /\ x.calls = k /\ x.of = << >>
      BY <3>1, WireSays
    <3> QED BY <3>2, <3>3, Zenon DEF r, t, i, h
  <2> HIDE DEF w
  <2>9. WText[w] = w.text /\ WImages[w] = w.images /\ WCalls[w] = w.calls /\ WOf[w] = w.of
    BY <2>8 DEF WText, WImages, WCalls, WOf
  <2>10. Flat(WText, <<w>>) = w.text /\ Flat(WImages, <<w>>) = w.images /\ Flat(WCalls, <<w>>) = w.calls
         /\ Flat(WOf, <<w>>) = w.of
    BY <2>9, FlatOne
  <2>11. Flat(IdOf, << >>) = << >>
    BY FlatEmpty
  <2>12. <<w>> \in Seq(Wired)
    BY <2>8
  <2>13. n.role # "tool" /\ n.role = RoleOf(m)
    BY <1>3, <1>7
  <2> HIDE DEF n, u, s
  <2>14. w.calls = Flat(AsFunction, UseOf[m])
    BY <2>2, <2>5, <2>8
  <2>15. Flat(WText, ChatOf[m]) = TextOf[m] /\ Flat(WImages, ChatOf[m]) = ImageOf[m]
    BY <2>1, <2>2, <2>8, <2>10
  <2>16. Flat(WCalls, ChatOf[m]) = Flat(AsFunction, UseOf[m])
    BY <2>1, <2>10, <2>14
  <2>17. Flat(WOf, ChatOf[m]) = Flat(IdOf, ResOf[m])
    BY <2>1, <2>10, <2>8, <2>6, <2>11, <1>5
  <2>18. ChatOf[m] \in Seq(Wired)
    BY <2>1, <2>12
  <2> QED BY <1>7, <2>1, <2>8, <2>13, <2>14, <2>15, <2>16, <2>17, <2>18
<1> QED BY <1>6, <1>7

\* On /responses: each result, or else the calls and then the text with the images.
LEMMA ItemsIs ==
    ASSUME dialect \in {"messages", "chat", "responses"}, NEW m \in FormedSet
    PROVE  /\ ItemsOf[m] \in Seq(Wired)
           /\ Flat(WText, ItemsOf[m]) = TextOf[m]
           /\ Flat(WImages, ItemsOf[m]) = ImageOf[m]
           /\ Flat(WCalls, ItemsOf[m]) = UseOf[m]
           /\ Flat(WOf, ItemsOf[m]) = Flat(IdOf, ResOf[m])
<1> DEFINE c == m.content  n == FromClient(m)
<1>1. m \in MessageSet /\ Formed(m)
  BY DEF FormedSet, Formed
<1>0. c \in Seq(Pieces)
  BY <1>1 DEF MessageSet
<1>2. ItemsOf[m] = ToItems(n)
  BY DEF ItemsOf
<1>3. /\ n.content \in Seq(Pieces)
      /\ Has(n.content, "tool_result") <=> Has(c, "tool_result")
      /\ Has(c, "tool_result") => n.content = c /\ n.role = "tool"
      /\ ~Has(c, "tool_result") =>
            /\ n.role = RoleOf(m) /\ n.role \in Roles \ {"tool"}
            /\ TextIds(n.content) = TextIds(c)
            /\ IdsOf(Only(n.content, "image")) = IdsOf(Only(c, "image"))
            /\ Only(n.content, "tool_use") = Only(c, "tool_use")
            /\ Has(n.content, "text") <=> Has(c, "text")
            /\ Has(n.content, "image") <=> Has(c, "image")
            /\ Thought(n.content) = Thought(c)
  BY FromClientIs
<1> DEFINE s == Only(c, "tool_result")  u == Only(c, "tool_use")
<1>4. s \in Seq(ResultSet)
  BY <1>0, OnlyIs, KindSets
<1>14. u \in Seq(UseSet)
  BY <1>0, OnlyIs, KindSets
<1>5. ResOf[m] = s
  BY DEF ResOf
<1>6. CASE Has(c, "tool_result")
  <2> DEFINE q == [i \in DOMAIN s |-> [Blank("tool") EXCEPT !.of = <<s[i].id>>]]
  <2>1. ItemsOf[m] = q
    BY <1>2, <1>3, <1>6 DEF ToItems, Each, Results
  <2>2. TextOf[m] = << >> /\ ImageOf[m] = << >> /\ UseOf[m] = << >>
    BY <1>6 DEF TextOf, ImageOf, UseOf
  <2> HIDE DEF s
  <2>3. DOMAIN s = 1..Len(s) /\ Len(s) \in Nat /\ \A i \in 1..Len(s) : s[i] \in ResultSet
    BY <1>4
  <2>4. \A i \in DOMAIN s : s[i].id \in Nat
    BY <2>3 DEF ResultSet
  <2>5. ASSUME NEW i \in DOMAIN s PROVE [Blank("tool") EXCEPT !.of = <<s[i].id>>] \in Wired
    <3> DEFINE o == <<s[i].id>>
    <3>1. o \in Seq(Nat)
      BY <2>4, OneSeq
    <3> HIDE DEF o
    <3>2. [Blank("tool") EXCEPT !.of = o] \in Wired
      BY <3>1, WireOutput, Zenon
    <3> QED BY <3>2 DEF o
  <2>6. q \in Seq(Wired) /\ Len(q) = Len(s)
    <3>1. \A i \in 1..Len(s) : q[i] \in Wired
      BY <2>3, <2>5
    <3>2. Fills(q, s, Wired)
      BY <2>3, <3>1 DEF Fills
    <3> HIDE DEF q
    <3> QED BY <3>2, <1>4, FillSeq
  <2>7. \A i \in 1..Len(s) : /\ q[i].text = << >> /\ q[i].images = << >> /\ q[i].calls = << >>
                             /\ q[i].of = <<s[i].id>>
    BY <2>3 DEF Blank
  <2> HIDE DEF q
  <2>8. /\ Flat(WText, q) = << >> /\ Flat(WImages, q) = << >> /\ Flat(WCalls, q) = << >>
        /\ Flat(WOf, q) = Flat(IdOf, s)
    BY <1>4, <2>6, <2>7, ResultsIs
  <2> HIDE DEF c, n
  <2> QED BY <1>5, <1>6, <2>1, <2>2, <2>6, <2>8
<1>7. CASE ~Has(c, "tool_result")
  <2> DEFINE k == [i \in DOMAIN u |-> [Blank("assistant") EXCEPT !.calls = <<u[i]>>]]
             w == [Blank(n.role) EXCEPT !.text = TextIds(c), !.images = IdsOf(Only(c, "image"))]
             e == IF Has(c, "text") \/ Has(c, "image") THEN <<w>> ELSE << >>
  <2>1. ItemsOf[m] = k \o e
    BY <1>2, <1>3, <1>7 DEF ToItems, Each
  <2>2. TextOf[m] = TextIds(c) /\ ImageOf[m] = IdsOf(Only(c, "image")) /\ UseOf[m] = u
    BY <1>7 DEF TextOf, ImageOf, UseOf
  <2>3. TextIds(c) \in Seq(Nat) /\ IdsOf(Only(c, "image")) \in Seq(Nat)
    BY <1>0, TextIdsIs, IdsIs
  <2>4. s = << >>
    <3>1. s = Flat(OfKind("tool_result"), c)
      BY <1>0, OnlyIs
    <3> QED BY <3>1, <1>0, <1>7, NoneOf
  <2>5. n.role \in Roles
    BY <1>3, <1>7
  <2>6. /\ k \in Seq(Wired) /\ Len(k) = Len(u)
        /\ \A i \in 1..Len(u) : k[i].text = << >> /\ k[i].images = << >> /\ k[i].of = << >> /\ k[i].calls = <<u[i]>>
    <3> HIDE DEF u
    <3>1. DOMAIN u = 1..Len(u) /\ Len(u) \in Nat /\ \A i \in 1..Len(u) : u[i] \in UseSet
      BY <1>14
    <3>2. ASSUME NEW i \in DOMAIN u PROVE [Blank("assistant") EXCEPT !.calls = <<u[i]>>] \in Wired
      <4> DEFINE o == <<u[i]>>
      <4>1. o \in Seq(UseSet)
        BY <3>1, OneSeq
      <4> HIDE DEF o
      <4>2. [Blank("assistant") EXCEPT !.calls = o] \in Wired
        BY <4>1, WireCall, Zenon
      <4> QED BY <4>2 DEF o
    <3>3. Fills(k, u, Wired)
      BY <3>1, <3>2 DEF Fills
    <3>4. \A i \in 1..Len(u) : k[i].text = << >> /\ k[i].images = << >> /\ k[i].of = << >> /\ k[i].calls = <<u[i]>>
      BY <3>1 DEF Blank
    <3> HIDE DEF k
    <3> QED BY <3>3, <3>4, <1>14, FillSeq
  <2> HIDE DEF k
  <2>7. /\ w \in Wired /\ w.text = TextIds(c) /\ w.images = IdsOf(Only(c, "image")) /\ w.calls = << >> /\ w.of = << >>
    <3> DEFINE t == TextIds(c)  i == IdsOf(Only(c, "image"))  r == n.role
    <3>1. t \in Seq(Nat) /\ i \in Seq(Nat) /\ r \in Roles
      BY <2>3, <2>5
    <3>2. w = Shows(r, t, i)
      BY Zenon DEF Shows
    <3> HIDE DEF w, r, t, i
    <3>3. LET x == Shows(r, t, i) IN
          x \in Wired /\ x.text = t /\ x.images = i /\ x.calls = << >> /\ x.of = << >>
      BY <3>1, WireText
    <3> QED BY <3>2, <3>3, Zenon DEF r, t, i
  <2>8. \A i \in 1..Len(k) : WText[k[i]] = << >> /\ WImages[k[i]] = << >> /\ WOf[k[i]] = << >>
    BY <2>6 DEF WText, WImages, WOf
  <2>9. Flat(WText, k) = << >> /\ Flat(WImages, k) = << >> /\ Flat(WOf, k) = << >>
    BY <2>6, <2>8, FlatNone
  <2>10. Flat(WCalls, k) = u
    <3> HIDE DEF u
    <3>1. \A i \in 1..Len(u) : WCalls[k[i]] = <<u[i]>>
      BY <2>6 DEF WCalls
    <3>2. DOMAIN k = 1..Len(u)
      BY <2>6
    <3> QED BY <3>1, <3>2, <1>14, FlatSingles
  <2> HIDE DEF w
  <2>11. e \in Seq(Wired)
    BY <2>7
  <2>12. Flat(WText, e) = TextIds(c) /\ Flat(WImages, e) = IdsOf(Only(c, "image")) /\ Flat(WCalls, e) = << >> /\ Flat(WOf, e) = << >>
    <3>1. CASE Has(c, "text") \/ Has(c, "image")
      <4>1. e = <<w>>
        BY <3>1
      <4>2. WText[w] = w.text /\ WImages[w] = w.images /\ WCalls[w] = w.calls /\ WOf[w] = w.of
        BY <2>7 DEF WText, WImages, WCalls, WOf
      <4>3. Flat(WText, <<w>>) = w.text /\ Flat(WImages, <<w>>) = w.images /\ Flat(WCalls, <<w>>) = w.calls
            /\ Flat(WOf, <<w>>) = w.of
        BY <4>2, FlatOne
      <4> QED BY <4>1, <4>3, <2>7
    <3>2. CASE ~(Has(c, "text") \/ Has(c, "image"))
      <4>1. e = << >>
        BY <3>2
      <4>2. TextIds(c) = << >>
        <5>1. TextIds(c) = Flat(TextFn, c)
          BY <1>0, TextIdsIs
        <5> QED BY <5>1, <3>2, <1>0, NoneOf
      <4>3. IdsOf(Only(c, "image")) = << >>
        <5>1. IdsOf(Only(c, "image")) = Flat(ImageFn, c)
          BY <1>0, IdsIs
        <5> QED BY <5>1, <3>2, <1>0, NoneOf
      <4> QED BY <4>1, <4>2, <4>3, FlatEmpty
    <3> QED BY <3>1, <3>2
  <2> HIDE DEF e
  <2>13. k \in Seq(Wired)
    BY <2>6
  <2>14. Flat(WText, k \o e) = Flat(WText, k) \o Flat(WText, e)
    BY <2>11, <2>13, WireTypes, FlatJoin, SMTT(40)
  <2>15. Flat(WImages, k \o e) = Flat(WImages, k) \o Flat(WImages, e)
    BY <2>11, <2>13, WireTypes, FlatJoin, SMTT(40)
  <2>16. Flat(WCalls, k \o e) = Flat(WCalls, k) \o Flat(WCalls, e)
    BY <2>11, <2>13, WireTypes, FlatJoin, SMTT(40)
  <2>17. Flat(WOf, k \o e) = Flat(WOf, k) \o Flat(WOf, e)
    BY <2>11, <2>13, WireTypes, FlatJoin, SMTT(40)
  <2>18. k \o e \in Seq(Wired)
    BY <2>11, <2>13
  <2>19. Flat(IdOf, ResOf[m]) = << >>
    BY <1>5, <2>4, FlatEmpty
  <2> HIDE DEF n, u, s, c
  <2>20. Flat(WText, k \o e) = TextOf[m]
    BY <2>14, <2>9, <2>12, <2>3, <2>2
  <2>21. Flat(WImages, k \o e) = ImageOf[m]
    BY <2>15, <2>9, <2>12, <2>3, <2>2
  <2>22. Flat(WCalls, k \o e) = UseOf[m]
    BY <2>16, <2>10, <2>12, <1>14, <2>2
  <2>23. Flat(WOf, k \o e) = Flat(IdOf, ResOf[m])
    BY <2>17, <2>9, <2>12, <2>19
  <2> QED BY <2>1, <2>18, <2>20, <2>21, <2>22, <2>23
<1> QED BY <1>6, <1>7

-----------------------------------------------------------------------------
(* What the body of a request says. *)

OfOf == [m \in FormedSet |-> Flat(IdOf, ResOf[m])]
PlainOf == [m \in FormedSet |-> Flat(AsFunction, UseOf[m])]

LEMMA MoreTypes ==
    ASSUME dialect \in {"messages", "chat", "responses"}
    PROVE  /\ Into(OfOf, FormedSet, Nat) /\ Into(PlainOf, FormedSet, UseSet)
           /\ Into(ChatOf, FormedSet, Wired) /\ Into(ItemsOf, FormedSet, Wired)
<1>1. \A m \in FormedSet : ResOf[m] \in Seq(ResultSet)
  BY MessageTypes DEF Into
<1>2. \A m \in FormedSet : UseOf[m] \in Seq(UseSet)
  BY MessageTypes DEF Into
<1>3. \A m \in FormedSet : Flat(IdOf, ResOf[m]) \in Seq(Nat)
  BY <1>1, WireTypes, FlatType
<1>4. \A m \in FormedSet : Flat(AsFunction, UseOf[m]) \in Seq(UseSet)
  BY <1>2, WireTypes, FlatType
<1>5. Into(OfOf, FormedSet, Nat)
  BY <1>3 DEF Into, OfOf
<1>6. Into(PlainOf, FormedSet, UseSet)
  BY <1>4 DEF Into, PlainOf
<1>7. \A m \in FormedSet : ToChat(FromClient(m)) \in Seq(Wired)
  BY ChatIs DEF ChatOf
<1>8. \A m \in FormedSet : ToItems(FromClient(m)) \in Seq(Wired)
  BY ItemsIs DEF ItemsOf
<1>9. Into(ChatOf, FormedSet, Wired)
  BY <1>7 DEF Into, ChatOf
<1>10. Into(ItemsOf, FormedSet, Wired)
  BY <1>8 DEF Into, ItemsOf
<1> QED BY <1>5, <1>6, <1>9, <1>10

\* The same, of the messages of a conversation and of what they become.
LEMMA SaysTheSame ==
    ASSUME dialect \in {"messages", "chat", "responses"}, NEW cv \in Seq(FormedSet)
    PROVE  /\ Flat(ChatOf, cv) \in Seq(Wired) /\ Flat(ItemsOf, cv) \in Seq(Wired)
           /\ Flat(WText, Flat(ChatOf, cv)) = Flat(TextOf, cv)
           /\ Flat(WImages, Flat(ChatOf, cv)) = Flat(ImageOf, cv)
           /\ Flat(WCalls, Flat(ChatOf, cv)) = Flat(AsFunction, Flat(UseOf, cv))
           /\ Flat(WOf, Flat(ChatOf, cv)) = Flat(IdOf, Flat(ResOf, cv))
           /\ Flat(WText, Flat(ItemsOf, cv)) = Flat(TextOf, cv)
           /\ Flat(WImages, Flat(ItemsOf, cv)) = Flat(ImageOf, cv)
           /\ Flat(WCalls, Flat(ItemsOf, cv)) = Flat(UseOf, cv)
           /\ Flat(WOf, Flat(ItemsOf, cv)) = Flat(IdOf, Flat(ResOf, cv))
<1>1. Into(ChatOf, FormedSet, Wired)
  BY MoreTypes
<1>2. Into(ItemsOf, FormedSet, Wired)
  BY MoreTypes
<1>3. Into(WText, Wired, Nat)
  BY WireTypes
<1>4. Into(WImages, Wired, Nat)
  BY WireTypes
<1>5. Into(WCalls, Wired, UseSet)
  BY WireTypes
<1>6. Into(WOf, Wired, Nat)
  BY WireTypes
<1>7. Into(TextOf, FormedSet, Nat)
  BY MessageTypes
<1>8. Into(ImageOf, FormedSet, Nat)
  BY MessageTypes
<1>9. Into(UseOf, FormedSet, UseSet)
  BY MessageTypes
<1>10. Into(ResOf, FormedSet, ResultSet)
  BY MessageTypes
<1>11. Into(OfOf, FormedSet, Nat)
  BY MoreTypes
<1>12. Into(PlainOf, FormedSet, UseSet)
  BY MoreTypes
<1>13. Into(AsFunction, UseSet, UseSet)
  BY WireTypes
<1>14. Into(IdOf, ResultSet, Nat)
  BY WireTypes
<1>15. \A m \in FormedSet : OfOf[m] = Flat(IdOf, ResOf[m])
  BY DEF OfOf
<1>16. \A m \in FormedSet : PlainOf[m] = Flat(AsFunction, UseOf[m])
  BY DEF PlainOf
<1>17. Flat(IdOf, Flat(ResOf, cv)) = Flat(OfOf, cv)
  BY <1>10, <1>11, <1>14, <1>15, FlatFlat
<1>18. Flat(AsFunction, Flat(UseOf, cv)) = Flat(PlainOf, cv)
  BY <1>9, <1>12, <1>13, <1>16, FlatFlat
<1>19. \A m \in FormedSet : TextOf[m] = Flat(WText, ChatOf[m])
  BY ChatIs
<1>20. \A m \in FormedSet : ImageOf[m] = Flat(WImages, ChatOf[m])
  BY ChatIs
<1>21. \A m \in FormedSet : PlainOf[m] = Flat(WCalls, ChatOf[m])
  BY ChatIs, <1>16
<1>22. \A m \in FormedSet : OfOf[m] = Flat(WOf, ChatOf[m])
  BY ChatIs, <1>15
<1>23. \A m \in FormedSet : TextOf[m] = Flat(WText, ItemsOf[m])
  BY ItemsIs
<1>24. \A m \in FormedSet : ImageOf[m] = Flat(WImages, ItemsOf[m])
  BY ItemsIs
<1>25. \A m \in FormedSet : UseOf[m] = Flat(WCalls, ItemsOf[m])
  BY ItemsIs
<1>26. \A m \in FormedSet : OfOf[m] = Flat(WOf, ItemsOf[m])
  BY ItemsIs, <1>15
<1>27. Flat(WText, Flat(ChatOf, cv)) = Flat(TextOf, cv)
  BY <1>1, <1>3, <1>7, <1>19, FlatFlat
<1>28. Flat(WImages, Flat(ChatOf, cv)) = Flat(ImageOf, cv)
  BY <1>1, <1>4, <1>8, <1>20, FlatFlat
<1>29. Flat(WCalls, Flat(ChatOf, cv)) = Flat(PlainOf, cv)
  BY <1>1, <1>5, <1>12, <1>21, FlatFlat
<1>30. Flat(WOf, Flat(ChatOf, cv)) = Flat(OfOf, cv)
  BY <1>1, <1>6, <1>11, <1>22, FlatFlat
<1>31. Flat(WText, Flat(ItemsOf, cv)) = Flat(TextOf, cv)
  BY <1>2, <1>3, <1>7, <1>23, FlatFlat
<1>32. Flat(WImages, Flat(ItemsOf, cv)) = Flat(ImageOf, cv)
  BY <1>2, <1>4, <1>8, <1>24, FlatFlat
<1>33. Flat(WCalls, Flat(ItemsOf, cv)) = Flat(UseOf, cv)
  BY <1>2, <1>5, <1>9, <1>25, FlatFlat
<1>34. Flat(WOf, Flat(ItemsOf, cv)) = Flat(OfOf, cv)
  BY <1>2, <1>6, <1>11, <1>26, FlatFlat
<1>35. Flat(ChatOf, cv) \in Seq(Wired)
  BY <1>1, FlatType
<1>36. Flat(ItemsOf, cv) \in Seq(Wired)
  BY <1>2, FlatType
<1> QED BY <1>17, <1>18, <1>27, <1>28, <1>29, <1>30, <1>31, <1>32, <1>33, <1>34, <1>35, <1>36

LEMMA ChatBodyIs ==
    ASSUME conv \in Seq(FormedSet)
    PROVE  Concat(Canonical, ToChat) = Flat(ChatOf, conv)
<1>1. DOMAIN Canonical = DOMAIN conv /\ \A i \in DOMAIN conv : Canonical[i] = FromClient(conv[i])
  BY DEF Canonical, Each
<1>2. Concat(Canonical, ToChat) = FlattenSeq([i \in DOMAIN Canonical |-> ToChat(Canonical[i])])
  BY DEF Concat, Each
<1>3. \A i \in DOMAIN conv : conv[i] \in FormedSet
  OBVIOUS
<1>4. [i \in DOMAIN Canonical |-> ToChat(Canonical[i])] = [i \in DOMAIN conv |-> ChatOf[conv[i]]]
  BY <1>1, <1>3 DEF ChatOf
<1> QED BY <1>2, <1>4 DEF Flat

\* Only the first message may be the system's, and it says one thing.
FirstOnly(cv) ==
    \A i \in DOMAIN cv : cv[i].role = "system" => i = 1 /\ cv[i].content = <<Text(<<1>>)>>

\* The messages that do not go into the instructions.
CanonSet == {FromClient(m) : m \in FormedSet}
KeepOf == [m \in FormedSet |-> IF FromClient(m).role # "system" THEN <<FromClient(m)>> ELSE << >>]
DropOf == [m \in FormedSet |-> IF FromClient(m).role = "system" THEN <<FromClient(m)>> ELSE << >>]
ItemsFn == [n \in CanonSet |-> ToItems(n)]
OthersOf == [m \in FormedSet |-> IF FromClient(m).role # "system" THEN ItemsOf[m] ELSE << >>]

LEMMA RoleIs ==
    ASSUME dialect \in {"messages", "chat", "responses"}, NEW m \in FormedSet
    PROVE  FromClient(m).role = "system" <=> m.role = "system" /\ ~Has(m.content, "tool_result")
<1>1. m \in MessageSet /\ Formed(m) /\ m.role \in Roles
  BY DEF FormedSet, Formed, MessageSet
<1>2. CASE Has(m.content, "tool_result")
  <2>1. FromClient(m).role = "tool"
    BY <1>2, FromClientIs
  <2> QED BY <2>1, <1>2
<1>3. CASE ~Has(m.content, "tool_result")
  <2>1. FromClient(m).role = RoleOf(m)
    BY <1>3, FromClientIs
  <2>2. RoleOf(m) = "system" <=> m.role = "system"
    BY <1>1 DEF RoleOf, KnownRole, Roles
  <2> QED BY <2>1, <2>2, <1>3
<1> QED BY <1>2, <1>3

LEMMA OthersIs ==
    ASSUME dialect \in {"messages", "chat", "responses"}, conv \in Seq(FormedSet)
    PROVE  /\ Select(Canonical, LAMBDA m : m.role = "system") = Flat(DropOf, conv)
           /\ Concat(Select(Canonical, LAMBDA m : m.role # "system"), ToItems) = Flat(OthersOf, conv)
           /\ Into(OthersOf, FormedSet, Wired)
<1>1. DOMAIN Canonical = DOMAIN conv /\ \A i \in DOMAIN conv : Canonical[i] = FromClient(conv[i])
  BY DEF Canonical, Each
<1>2. \A i \in DOMAIN conv : conv[i] \in FormedSet
  OBVIOUS
<1>3. Select(Canonical, LAMBDA m : m.role = "system") = Flat(DropOf, conv)
  <2>1. Select(Canonical, LAMBDA m : m.role = "system")
          = FlattenSeq([i \in DOMAIN Canonical |-> IF Canonical[i].role = "system" THEN <<Canonical[i]>> ELSE << >>])
    BY DEF Select, Concat, Each
  <2>2. [i \in DOMAIN Canonical |-> IF Canonical[i].role = "system" THEN <<Canonical[i]>> ELSE << >>]
          = [i \in DOMAIN conv |-> DropOf[conv[i]]]
    BY <1>1, <1>2 DEF DropOf
  <2> QED BY <2>1, <2>2 DEF Flat
<1>4. Select(Canonical, LAMBDA m : m.role # "system") = Flat(KeepOf, conv)
  <2>1. Select(Canonical, LAMBDA m : m.role # "system")
          = FlattenSeq([i \in DOMAIN Canonical |-> IF Canonical[i].role # "system" THEN <<Canonical[i]>> ELSE << >>])
    BY DEF Select, Concat, Each
  <2>2. [i \in DOMAIN Canonical |-> IF Canonical[i].role # "system" THEN <<Canonical[i]>> ELSE << >>]
          = [i \in DOMAIN conv |-> KeepOf[conv[i]]]
    BY <1>1, <1>2 DEF KeepOf
  <2> QED BY <2>1, <2>2 DEF Flat
<1>5. Into(KeepOf, FormedSet, CanonSet)
  <2>1. ASSUME NEW m \in FormedSet PROVE (IF FromClient(m).role # "system" THEN <<FromClient(m)>> ELSE << >>) \in Seq(CanonSet)
    <3> DEFINE n == FromClient(m)
    <3>1. n \in CanonSet
      BY DEF CanonSet
    <3> HIDE DEF n
    <3>2. <<n>> \in Seq(CanonSet) /\ << >> \in Seq(CanonSet)
      BY <3>1
    <3> QED BY <3>2 DEF n
  <2> QED BY <2>1 DEF Into, KeepOf
<1>6. Into(ItemsFn, CanonSet, Wired)
  <2>1. ASSUME NEW n \in CanonSet PROVE ToItems(n) \in Seq(Wired)
    <3>1. PICK m \in FormedSet : n = FromClient(m)
      BY DEF CanonSet
    <3>2. ItemsOf[m] \in Seq(Wired) /\ ItemsOf[m] = ToItems(FromClient(m))
      BY ItemsIs DEF ItemsOf
    <3> QED BY <3>1, <3>2
  <2> QED BY <2>1 DEF Into, ItemsFn
<1>7. Into(OthersOf, FormedSet, Wired)
  <2>1. \A m \in FormedSet : ItemsOf[m] \in Seq(Wired)
    BY ItemsIs
  <2> QED BY <2>1 DEF Into, OthersOf
<1>8. \A m \in FormedSet : OthersOf[m] = Flat(ItemsFn, KeepOf[m])
  <2> SUFFICES ASSUME NEW m \in FormedSet PROVE OthersOf[m] = Flat(ItemsFn, KeepOf[m])
    OBVIOUS
  <2> DEFINE n == FromClient(m)
  <2>1. n \in CanonSet /\ ItemsOf[m] = ToItems(n)
    BY DEF CanonSet, ItemsOf
  <2>2. ItemsFn[n] = ItemsOf[m]
    BY <2>1 DEF ItemsFn
  <2>3. Flat(ItemsFn, <<n>>) = ItemsFn[n] /\ Flat(ItemsFn, << >>) = << >>
    BY FlatOne, FlatEmpty
  <2> QED BY <2>2, <2>3 DEF OthersOf, KeepOf
<1>9. Flat(ItemsFn, Flat(KeepOf, conv)) = Flat(OthersOf, conv)
  BY <1>5, <1>6, <1>7, <1>8, FlatFlat
<1>10. Flat(KeepOf, conv) \in Seq(CanonSet)
  BY <1>5, FlatType
<1>11. Concat(Flat(KeepOf, conv), ToItems) = Flat(ItemsFn, Flat(KeepOf, conv))
  <2> DEFINE s == Flat(KeepOf, conv)
  <2>1. Concat(s, ToItems) = FlattenSeq([i \in DOMAIN s |-> ToItems(s[i])])
    BY DEF Concat, Each
  <2>2. \A i \in DOMAIN s : s[i] \in CanonSet
    <3> HIDE DEF s
    <3> QED BY <1>10 DEF s
  <2>3. [i \in DOMAIN s |-> ToItems(s[i])] = [i \in DOMAIN s |-> ItemsFn[s[i]]]
    <3> HIDE DEF s
    <3> QED BY <2>2 DEF ItemsFn
  <2> QED BY <2>1, <2>3 DEF Flat
<1> QED BY <1>3, <1>4, <1>7, <1>9, <1>11

\* The instructions in front are what the system said: so the body says what the conversation says.
LEMMA ResponsesBodyIs ==
    ASSUME dialect \in {"messages", "chat", "responses"}, conv \in Seq(FormedSet), FirstOnly(conv)
    PROVE  LET body == ToResponses(Canonical) IN
           /\ body \in Seq(Wired)
           /\ Flat(WText, body) = Flat(TextOf, conv)
           /\ Flat(WImages, body) = Flat(ImageOf, conv)
           /\ Flat(WCalls, body) = Flat(UseOf, conv)
           /\ Flat(WOf, body) = Flat(IdOf, Flat(ResOf, conv))
<1> DEFINE body == ToResponses(Canonical)
           drop == Flat(DropOf, conv)
<1>1. body = (IF drop = << >> THEN << >>
              ELSE <<[Blank("system") EXCEPT !.text = Concat(drop, LAMBDA m : TextIds(m.content))]>>)
             \o Flat(OthersOf, conv)
  BY OthersIs DEF ToResponses
<1>2. \A i \in DOMAIN conv : conv[i] \in FormedSet
  OBVIOUS
<1>3. CASE \A i \in DOMAIN conv : conv[i].role # "system"
  <2>1. \A i \in DOMAIN conv : FromClient(conv[i]).role # "system"
    BY <1>2, <1>3, RoleIs
  <2>2. drop = << >>
    <3>1. \A i \in 1..Len(conv) : DropOf[conv[i]] = << >>
      BY <1>2, <2>1 DEF DropOf
    <3> QED BY <3>1, FlatNone
  <2>3. Flat(OthersOf, conv) = Flat(ItemsOf, conv)
    <3>1. \A i \in 1..Len(conv) : OthersOf[conv[i]] = ItemsOf[conv[i]]
      BY <1>2, <2>1 DEF OthersOf
    <3>2. Into(OthersOf, FormedSet, Wired)
      BY OthersIs
    <3>3. Into(ItemsOf, FormedSet, Wired)
      BY MoreTypes
    <3> QED BY <3>1, <3>2, <3>3, FlatSame
  <2>4. Flat(ItemsOf, conv) \in Seq(Wired)
    BY SaysTheSame
  <2>5. body = Flat(ItemsOf, conv)
    <3> HIDE DEF body, drop
    <3> QED BY <1>1, <2>2, <2>3, <2>4
  <2> HIDE DEF body
  <2> QED BY <2>5, SaysTheSame DEF body
<1>4. CASE ~\A i \in DOMAIN conv : conv[i].role # "system"
  <2>1. 1 \in DOMAIN conv /\ conv[1].role = "system" /\ conv[1].content = <<Text(<<1>>)>>
    BY <1>4 DEF FirstOnly
  <2> DEFINE m == conv[1]  rest == Tail(conv)  f == <<m>>
  <2>2. m \in FormedSet /\ rest \in Seq(FormedSet) /\ conv = f \o rest /\ f \in Seq(FormedSet)
        /\ \A i \in 1..Len(rest) : i + 1 \in DOMAIN conv /\ rest[i] = conv[i + 1]
    BY <2>1
  <2>3. \A i \in 1..Len(rest) : rest[i] \in FormedSet /\ rest[i].role # "system"
    BY <2>2 DEF FirstOnly
  <2>4. ~Has(m.content, "tool_result") /\ ~Has(m.content, "tool_use") /\ ~Has(m.content, "image")
    BY <2>1 DEF Has, Range, Text
  <2> DEFINE n == FromClient(m)
  <2>5. n.role = "system"
    BY <2>1, <2>2, <2>4, RoleIs
  <2>6. m.content \in Seq(Pieces)
    BY <2>2 DEF FormedSet, MessageSet
  <2>7. TextIds(n.content) = TextIds(m.content) /\ TextIds(m.content) \in Seq(Nat)
    BY <2>2, <2>4, <2>6, FromClientIs, TextIdsIs
  <2>8. TextOf[m] = TextIds(m.content) /\ ImageOf[m] = << >> /\ UseOf[m] = << >> /\ ResOf[m] = << >>
    <3>1. IdsOf(Only(m.content, "image")) = Flat(ImageFn, m.content)
      BY <2>6, IdsIs
    <3>2. Flat(ImageFn, m.content) = << >>
      BY <2>4, <2>6, NoneOf
    <3>3. Only(m.content, "tool_use") = Flat(OfKind("tool_use"), m.content)
          /\ Only(m.content, "tool_result") = Flat(OfKind("tool_result"), m.content)
      BY <2>6, OnlyIs
    <3>4. Flat(OfKind("tool_use"), m.content) = << >> /\ Flat(OfKind("tool_result"), m.content) = << >>
      BY <2>4, <2>6, NoneOf
    <3> HIDE DEF m
    <3> QED BY <3>1, <3>2, <3>3, <3>4, <2>2, <2>4 DEF TextOf, ImageOf, UseOf, ResOf
  <2> HIDE DEF m, rest
  <2>9. \A i \in 1..Len(rest) : FromClient(rest[i]).role # "system"
    BY <2>3, RoleIs
  <2>10. Into(DropOf, FormedSet, CanonSet)
    <3>1. ASSUME NEW x \in FormedSet PROVE (IF FromClient(x).role = "system" THEN <<FromClient(x)>> ELSE << >>) \in Seq(CanonSet)
      <4> DEFINE y == FromClient(x)
      <4>1. y \in CanonSet
        BY DEF CanonSet
      <4> HIDE DEF y
      <4>2. <<y>> \in Seq(CanonSet) /\ << >> \in Seq(CanonSet)
        BY <4>1
      <4> QED BY <4>2 DEF y
    <3> QED BY <3>1 DEF Into, DropOf
  <2>11. drop = <<n>>
    <3>1. \A i \in 1..Len(rest) : DropOf[rest[i]] = << >>
      BY <2>3, <2>9 DEF DropOf
    <3>2. Flat(DropOf, rest) = << >>
      BY <3>1, <2>2, FlatNone
    <3>3. DropOf[m] = <<n>>
      BY <2>2, <2>5 DEF DropOf
    <3>4. Flat(DropOf, f) = <<n>>
      BY <3>3, FlatOne
    <3>5. f \in Seq(FormedSet)
      BY <2>2
    <3>6. rest \in Seq(FormedSet)
      BY <2>2
    <3> HIDE DEF f
    <3>7. Flat(DropOf, f \o rest) = Flat(DropOf, f) \o Flat(DropOf, rest)
      BY <3>5, <3>6, <2>10, FlatJoin
    <3> HIDE DEF n
    <3> QED BY <3>7, <3>2, <3>4, <2>2
  <2> DEFINE t == TextIds(m.content)
             w == [Blank("system") EXCEPT !.text = t]
             g == <<w>>
  <2>12. Concat(drop, LAMBDA x : TextIds(x.content)) = t
    <3>1. Concat(<<n>>, LAMBDA x : TextIds(x.content)) = FlattenSeq([i \in DOMAIN <<n>> |-> TextIds(<<n>>[i].content)])
      BY DEF Concat, Each
    <3>2. [i \in DOMAIN <<n>> |-> TextIds(<<n>>[i].content)] = <<TextIds(n.content)>>
      OBVIOUS
    <3> QED BY <3>1, <3>2, <2>7, <2>11, FlattenOne
  <2>13. w \in Wired /\ w.text = t /\ w.images = << >> /\ w.calls = << >> /\ w.of = << >>
    <3> DEFINE B == Blank("system")
    <3>1. /\ B \in Wired /\ B.role = "system" /\ B.text = << >> /\ B.images = << >> /\ B.calls = << >> /\ B.of = << >>
      BY BlankIs DEF Roles
    <3>2. t \in Seq(Nat)
      BY <2>7
    <3> HIDE DEF B, t
    <3>3. LET x == [B EXCEPT !.text = t] IN
          x \in Wired /\ x.text = t /\ x.images = << >> /\ x.calls = << >> /\ x.of = << >>
      BY <3>1, <3>2 DEF Wired
    <3> QED BY <3>3, Zenon DEF B
  <2>14. Flat(OthersOf, conv) = Flat(ItemsOf, rest)
    <3>1. Into(OthersOf, FormedSet, Wired)
      BY OthersIs
    <3>2. Into(ItemsOf, FormedSet, Wired)
      BY MoreTypes
    <3>3. \A i \in 1..Len(rest) : OthersOf[rest[i]] = ItemsOf[rest[i]]
      BY <2>3, <2>9 DEF OthersOf
    <3>4. rest \in Seq(FormedSet)
      BY <2>2
    <3>5. Flat(OthersOf, rest) = Flat(ItemsOf, rest)
      BY <3>1, <3>2, <3>3, <3>4, FlatSame
    <3>6. OthersOf[m] = << >>
      BY <2>2, <2>5 DEF OthersOf
    <3>7. Flat(OthersOf, f) = << >>
      BY <3>6, FlatOne
    <3>8. Flat(ItemsOf, rest) \in Seq(Wired)
      BY <3>2, <3>4, FlatType
    <3>9. f \in Seq(FormedSet)
      BY <2>2
    <3> HIDE DEF f
    <3>10. Flat(OthersOf, f \o rest) = Flat(OthersOf, f) \o Flat(OthersOf, rest)
      BY <3>1, <3>4, <3>9, FlatJoin
    <3> QED BY <3>5, <3>7, <3>8, <3>10, <2>2
  <2> HIDE DEF t
  <2>15. body = g \o Flat(ItemsOf, rest)
    <3> HIDE DEF n, body
    <3>1. drop # << >>
      BY <2>11
    <3> HIDE DEF drop
    <3> QED BY <1>1, <2>12, <2>14, <3>1
  <2> HIDE DEF w
  <2>16. g \in Seq(Wired)
    BY <2>13
  <2>17. rest \in Seq(FormedSet)
    BY <2>2
  <2> DEFINE r == Flat(ItemsOf, rest)
  <2>18. r \in Seq(Wired) /\ Flat(WText, r) = Flat(TextOf, rest) /\ Flat(WImages, r) = Flat(ImageOf, rest)
         /\ Flat(WCalls, r) = Flat(UseOf, rest) /\ Flat(WOf, r) = Flat(IdOf, Flat(ResOf, rest))
    BY <2>17, SaysTheSame
  <2>19. Flat(WText, g) = TextOf[m] /\ Flat(WImages, g) = << >> /\ Flat(WCalls, g) = << >> /\ Flat(WOf, g) = << >>
    <3>1. WText[w] = w.text /\ WImages[w] = w.images /\ WCalls[w] = w.calls /\ WOf[w] = w.of
      BY <2>13 DEF WText, WImages, WCalls, WOf
    <3>2. Flat(WText, g) = WText[w] /\ Flat(WImages, g) = WImages[w] /\ Flat(WCalls, g) = WCalls[w] /\ Flat(WOf, g) = WOf[w]
      BY FlatOne
    <3> HIDE DEF g
    <3> QED BY <3>1, <3>2, <2>13, <2>8 DEF t
  <2> HIDE DEF g, r
  <2>30. r \in Seq(Wired)
    BY <2>18
  <2>20. Flat(WText, g \o r) = Flat(WText, g) \o Flat(WText, r)
    BY <2>16, <2>30, WireTypes, FlatJoin, SMTT(40)
  <2>21. Flat(WImages, g \o r) = Flat(WImages, g) \o Flat(WImages, r)
    BY <2>16, <2>30, WireTypes, FlatJoin, SMTT(40)
  <2>22. Flat(WCalls, g \o r) = Flat(WCalls, g) \o Flat(WCalls, r)
    BY <2>16, <2>30, WireTypes, FlatJoin, SMTT(40)
  <2>23. Flat(WOf, g \o r) = Flat(WOf, g) \o Flat(WOf, r)
    BY <2>16, <2>30, WireTypes, FlatJoin, SMTT(40)
  <2>24. f \in Seq(FormedSet)
    BY <2>2
  <2>25. Flat(TextOf, f) = TextOf[m] /\ Flat(ImageOf, f) = << >> /\ Flat(UseOf, f) = << >> /\ Flat(ResOf, f) = << >>
    BY <2>8, FlatOne
  <2> HIDE DEF f
  <2>26. Flat(TextOf, f \o rest) = Flat(TextOf, f) \o Flat(TextOf, rest)
    <3>1. Into(TextOf, FormedSet, Nat)
      BY MessageTypes
    <3> QED BY <3>1, <2>17, <2>24, FlatJoin
  <2>27. Flat(ImageOf, f \o rest) = Flat(ImageOf, f) \o Flat(ImageOf, rest)
    <3>1. Into(ImageOf, FormedSet, Nat)
      BY MessageTypes
    <3> QED BY <3>1, <2>17, <2>24, FlatJoin
  <2>28. Flat(UseOf, f \o rest) = Flat(UseOf, f) \o Flat(UseOf, rest)
    <3>1. Into(UseOf, FormedSet, UseSet)
      BY MessageTypes
    <3> QED BY <3>1, <2>17, <2>24, FlatJoin
  <2>29. Flat(ResOf, f \o rest) = Flat(ResOf, f) \o Flat(ResOf, rest)
    <3>1. Into(ResOf, FormedSet, ResultSet)
      BY MessageTypes
    <3> QED BY <3>1, <2>17, <2>24, FlatJoin
  <2>31. Flat(WText, body) = Flat(TextOf, conv)
    BY <2>15, <2>18, <2>19, <2>20, <2>25, <2>26, <2>2 DEF r
  <2>32. Flat(WImages, body) = Flat(ImageOf, conv)
    BY <2>15, <2>18, <2>19, <2>21, <2>25, <2>27, <2>2 DEF r
  <2>33. Flat(WCalls, body) = Flat(UseOf, conv)
    BY <2>15, <2>18, <2>19, <2>22, <2>25, <2>28, <2>2 DEF r
  <2>34. Flat(ResOf, f \o rest) = Flat(ResOf, rest)
    <3>1. Flat(ResOf, rest) \in Seq(ResultSet)
      BY <2>17, MessageTypes, FlatType
    <3> QED BY <3>1, <2>25, <2>29
  <2>35. Flat(WOf, body) = Flat(IdOf, Flat(ResOf, conv))
    <3>1. Flat(IdOf, Flat(ResOf, rest)) \in Seq(Nat)
      <4>1. Flat(ResOf, rest) \in Seq(ResultSet)
        BY <2>17, MessageTypes, FlatType
      <4> QED BY <4>1, WireTypes, FlatType
    <3> QED BY <3>1, <2>15, <2>18, <2>19, <2>23, <2>34, <2>2 DEF r
  <2>36. body \in Seq(Wired)
    <3>1. g \o r \in Seq(Wired)
      BY <2>16, <2>30
    <3> QED BY <3>1, <2>15 DEF r
  <2> QED BY <2>31, <2>32, <2>33, <2>35, <2>36
<1> QED BY <1>3, <1>4

-----------------------------------------------------------------------------
(* What was said. *)

SaidOK(sd) ==
    /\ sd \in Seq(Pieces)
    /\ \A i \in DOMAIN sd : /\ sd[i].kind = "text" => sd[i].ids = <<i>>
                            /\ sd[i].kind \in {"image", "thinking", "tool_use"} => sd[i].id = i
                            /\ sd[i].kind = "tool_result" => sd[i].id < i
    /\ \A b \in Range(sd), c \in Range(sd) :
          b.kind = "tool_result" /\ c.kind = "tool_result" /\ b.id = c.id => b = c

BesideOK(sd, bs) == \A i \in bs : i \in DOMAIN sd /\ sd[i].kind = "text"

\* The texts that are not beside results.
Spared(bs) == [b \in Pieces |-> IF b.kind = "text" /\ ~(\E i \in bs : b.ids = <<i>>) THEN b.ids ELSE << >>]

LEMMA SparedType ==
    ASSUME NEW bs
    PROVE  Into(Spared(bs), Pieces, Nat)
<1>1. \A b \in Pieces : b.kind = "text" => b.ids \in Seq(Nat)
  BY BlockIs DEF TextSet
<1> QED BY <1>1 DEF Into, Spared

\* The properties go through what was said by its numbers.
Idx == [i \in DOMAIN said |-> i]
AtOf(kind) == [i \in DOMAIN said |-> IF said[i].kind = kind /\ i \notin beside THEN <<i>> ELSE << >>]

LEMMA IdxIs ==
    ASSUME SaidOK(said)
    PROVE  /\ Idx \in Seq(DOMAIN said) /\ Len(Idx) = Len(said) /\ said \in Seq(Pieces)
           /\ DOMAIN said = 1..Len(said) /\ Len(said) \in Nat
           /\ \A i \in 1..Len(said) : Idx[i] = i /\ said[i] \in Pieces
BY DEF SaidOK, Idx

LEMMA AtIs ==
    ASSUME SaidOK(said), NEW kind
    PROVE  /\ Select(Idx, LAMBDA i : said[i].kind = kind /\ i \notin beside) = Flat(AtOf(kind), Idx)
           /\ Into(AtOf(kind), DOMAIN said, DOMAIN said)
           /\ Flat(AtOf(kind), Idx) \in Seq(DOMAIN said)
<1>1. Select(Idx, LAMBDA i : said[i].kind = kind /\ i \notin beside)
        = FlattenSeq([j \in DOMAIN Idx |-> IF said[Idx[j]].kind = kind /\ Idx[j] \notin beside THEN <<Idx[j]>> ELSE << >>])
  BY DEF Select, Concat, Each
<1>2. \A j \in DOMAIN Idx : Idx[j] = j /\ j \in DOMAIN said
  BY DEF Idx
<1>3. [j \in DOMAIN Idx |-> IF said[Idx[j]].kind = kind /\ Idx[j] \notin beside THEN <<Idx[j]>> ELSE << >>]
        = [j \in DOMAIN Idx |-> AtOf(kind)[Idx[j]]]
  BY <1>2 DEF AtOf
<1>4. Into(AtOf(kind), DOMAIN said, DOMAIN said)
  <2>1. ASSUME NEW i \in DOMAIN said PROVE (IF said[i].kind = kind /\ i \notin beside THEN <<i>> ELSE << >>) \in Seq(DOMAIN said)
    <3> DEFINE D == DOMAIN said
    <3>1. i \in D
      OBVIOUS
    <3> HIDE DEF D
    <3>2. <<i>> \in Seq(D) /\ << >> \in Seq(D)
      BY <3>1
    <3> QED BY <3>2 DEF D
  <2> QED BY <2>1 DEF Into, AtOf
<1>5. Idx \in Seq(DOMAIN said)
  BY IdxIs
<1>6. Flat(AtOf(kind), Idx) \in Seq(DOMAIN said)
  BY <1>4, <1>5, FlatType
<1> QED BY <1>1, <1>3, <1>4, <1>6 DEF Flat

LEMMA TextsIs ==
    ASSUME SaidOK(said)
    PROVE  Flat(AtOf("text"), Idx) = Flat(Spared(beside), said)
<1>1. \A i \in 1..Len(said) : AtOf("text")[Idx[i]] = Spared(beside)[said[i]]
  <2> SUFFICES ASSUME NEW i \in 1..Len(said) PROVE AtOf("text")[Idx[i]] = Spared(beside)[said[i]]
    OBVIOUS
  <2>1. Idx[i] = i /\ said[i] \in Pieces /\ i \in DOMAIN said
    BY IdxIs
  <2>2. CASE said[i].kind = "text"
    <3>1. said[i].ids = <<i>>
      BY <2>1, <2>2 DEF SaidOK
    <3>2. (\E j \in beside : said[i].ids = <<j>>) <=> i \in beside
      BY <3>1
    <3> QED BY <2>1, <2>2, <3>1, <3>2 DEF AtOf, Spared
  <2>3. CASE said[i].kind # "text"
    BY <2>1, <2>3 DEF AtOf, Spared
  <2> QED BY <2>2, <2>3
<1>2. Into(AtOf("text"), DOMAIN said, DOMAIN said) /\ DOMAIN said \subseteq Nat
  <2>1. Into(AtOf("text"), DOMAIN said, DOMAIN said)
    BY AtIs
  <2>2. DOMAIN said = 1..Len(said) /\ Len(said) \in Nat
    BY IdxIs
  <2>3. 1..Len(said) \subseteq Nat
    BY <2>2
  <2> QED BY <2>1, <2>2, <2>3
<1>3. Into(AtOf("text"), DOMAIN said, Nat)
  <2>1. Seq(DOMAIN said) \subseteq Seq(Nat)
    BY <1>2
  <2> QED BY <1>2, <2>1 DEF Into
<1>4. Into(Spared(beside), Pieces, Nat)
  BY SparedType
<1>5. Idx \in Seq(DOMAIN said)
  BY IdxIs
<1>6. said \in Seq(Pieces) /\ Len(Idx) = Len(said)
  BY IdxIs
<1> QED BY <1>1, <1>3, <1>4, <1>5, <1>6, FlatSame

LEMMA ImagesIs ==
    ASSUME SaidOK(said), BesideOK(said, beside)
    PROVE  Flat(AtOf("image"), Idx) = Flat(ImageFn, said)
<1>1. \A i \in 1..Len(said) : AtOf("image")[Idx[i]] = ImageFn[said[i]]
  <2> SUFFICES ASSUME NEW i \in 1..Len(said) PROVE AtOf("image")[Idx[i]] = ImageFn[said[i]]
    OBVIOUS
  <2>1. Idx[i] = i /\ said[i] \in Pieces /\ i \in DOMAIN said
    BY IdxIs
  <2>2. CASE said[i].kind = "image"
    <3>1. said[i].id = i /\ i \notin beside
      BY <2>1, <2>2 DEF SaidOK, BesideOK
    <3> QED BY <2>1, <2>2, <3>1 DEF AtOf, ImageFn
  <2>3. CASE said[i].kind # "image"
    BY <2>1, <2>3 DEF AtOf, ImageFn
  <2> QED BY <2>2, <2>3
<1>2. Into(AtOf("image"), DOMAIN said, DOMAIN said) /\ DOMAIN said \subseteq Nat
  <2>1. Into(AtOf("image"), DOMAIN said, DOMAIN said)
    BY AtIs
  <2>2. DOMAIN said = 1..Len(said) /\ Len(said) \in Nat
    BY IdxIs
  <2>3. 1..Len(said) \subseteq Nat
    BY <2>2
  <2> QED BY <2>1, <2>2, <2>3
<1>3. Into(AtOf("image"), DOMAIN said, Nat)
  <2>1. Seq(DOMAIN said) \subseteq Seq(Nat)
    BY <1>2
  <2> QED BY <1>2, <2>1 DEF Into
<1>4. Into(ImageFn, Pieces, Nat)
  BY FnTypes
<1>5. Idx \in Seq(DOMAIN said)
  BY IdxIs
<1>6. said \in Seq(Pieces) /\ Len(Idx) = Len(said)
  BY IdxIs
<1> QED BY <1>1, <1>3, <1>4, <1>5, <1>6, FlatSame

\* What is made of each block of a kind, when it is made of its number.
LEMMA EachIs ==
    ASSUME SaidOK(said), BesideOK(said, beside), NEW T, NEW kind, kind # "text",
           NEW G, Into(G, DOMAIN said, T), NEW K, Into(K, KindSet(kind), T),
           NEW h, h = [j \in DOMAIN Flat(AtOf(kind), Idx) |-> h[j]], \A j \in DOMAIN Flat(AtOf(kind), Idx) : h[j] \in T,
           \A j \in DOMAIN Flat(AtOf(kind), Idx) : G[Flat(AtOf(kind), Idx)[j]] = <<h[j]>>,
           \A i \in DOMAIN said : said[i].kind = kind => G[i] = K[said[i]]
    PROVE  h = Flat(K, Flat(OfKind(kind), said))
<1> DEFINE s == Flat(AtOf(kind), Idx)
<1>1. s \in Seq(DOMAIN said)
  BY AtIs
<1>2. h = Flat(G, s)
  <2> HIDE DEF s
  <2>1. DOMAIN s = 1..Len(s) /\ Len(s) \in Nat
    BY <1>1
  <2>2. h \in Seq(T) /\ Len(h) = Len(s)
    <3>1. Fills(h, s, T)
      BY DEF s, Fills
    <3> QED BY <3>1, <1>1, FillSeq
  <2>3. \A j \in 1..Len(h) : G[s[j]] = <<h[j]>>
    BY <2>1, <2>2 DEF s
  <2>4. DOMAIN s = 1..Len(h)
    BY <2>1, <2>2
  <2> QED BY <2>2, <2>3, <2>4, FlatSingles
<1> DEFINE H == [i \in DOMAIN said |-> IF said[i].kind = kind THEN G[i] ELSE << >>]
           L == [b \in Pieces |-> IF b.kind = kind THEN K[b] ELSE << >>]
<1>3. Into(H, DOMAIN said, T)
  BY DEF Into
<1>4. Into(L, Pieces, T)
  <2>1. \A b \in Pieces : b.kind = kind => b \in KindSet(kind)
    BY DEF KindSet
  <2> QED BY <2>1 DEF Into
<1>5. \A i \in DOMAIN said : H[i] = Flat(G, AtOf(kind)[i])
  <2> SUFFICES ASSUME NEW i \in DOMAIN said PROVE H[i] = Flat(G, AtOf(kind)[i])
    OBVIOUS
  <2>1. CASE said[i].kind = kind
    <3>1. i \notin beside
      BY <2>1 DEF BesideOK
    <3>2. AtOf(kind)[i] = <<i>> /\ H[i] = G[i]
      BY <2>1, <3>1 DEF AtOf
    <3> QED BY <3>2, FlatOne
  <2>2. CASE said[i].kind # kind
    <3>1. AtOf(kind)[i] = << >> /\ H[i] = << >>
      BY <2>2 DEF AtOf
    <3> QED BY <3>1, FlatEmpty
  <2> QED BY <2>1, <2>2
<1>6. Flat(G, s) = Flat(H, Idx)
  <2>1. Into(AtOf(kind), DOMAIN said, DOMAIN said)
    BY AtIs
  <2>2. Idx \in Seq(DOMAIN said)
    BY IdxIs
  <2> HIDE DEF H
  <2> QED BY <1>3, <1>5, <2>1, <2>2, FlatFlat
<1>7. \A b \in Pieces : L[b] = Flat(K, OfKind(kind)[b])
  <2> SUFFICES ASSUME NEW b \in Pieces PROVE L[b] = Flat(K, OfKind(kind)[b])
    OBVIOUS
  <2>1. CASE b.kind = kind
    <3>1. OfKind(kind)[b] = <<b>> /\ L[b] = K[b]
      BY <2>1 DEF OfKind
    <3> QED BY <3>1, FlatOne
  <2>2. CASE b.kind # kind
    <3>1. OfKind(kind)[b] = << >> /\ L[b] = << >>
      BY <2>2 DEF OfKind
    <3> QED BY <3>1, FlatEmpty
  <2> QED BY <2>1, <2>2
<1>8. Flat(K, Flat(OfKind(kind), said)) = Flat(L, said)
  <2>1. Into(OfKind(kind), Pieces, KindSet(kind))
    BY FnTypes
  <2>2. said \in Seq(Pieces)
    BY IdxIs
  <2> HIDE DEF L
  <2> QED BY <1>4, <1>7, <2>1, <2>2, FlatFlat
<1>9. Flat(H, Idx) = Flat(L, said)
  <2>1. \A i \in 1..Len(said) : H[Idx[i]] = L[said[i]]
    BY IdxIs
  <2>2. Idx \in Seq(DOMAIN said)
    BY IdxIs
  <2>3. said \in Seq(Pieces) /\ Len(Idx) = Len(said)
    BY IdxIs
  <2> HIDE DEF H, L
  <2> QED BY <1>3, <1>4, <2>1, <2>2, <2>3, FlatSame
<1> QED BY <1>2, <1>6, <1>8, <1>9

LEMMA AtKind ==
    ASSUME SaidOK(said), NEW kind, NEW j \in DOMAIN Flat(AtOf(kind), Idx)
    PROVE  /\ Flat(AtOf(kind), Idx)[j] \in DOMAIN said
           /\ said[Flat(AtOf(kind), Idx)[j]].kind = kind /\ said[Flat(AtOf(kind), Idx)[j]] \in Pieces
<1> DEFINE s == Flat(AtOf(kind), Idx)
<1>1. Into(AtOf(kind), DOMAIN said, DOMAIN said)
  BY AtIs
<1>2. Idx \in Seq(DOMAIN said)
  BY IdxIs
<1>3. Range(s) = UNION {Range(AtOf(kind)[x]) : x \in Range(Idx)}
  BY <1>1, <1>2, FlatRange
<1>4. s[j] \in Range(s)
  BY DEF Range
<1> HIDE DEF s
<1>5. PICK x \in Range(Idx) : s[j] \in Range(AtOf(kind)[x])
  BY <1>3, <1>4
<1>6. x \in DOMAIN said
  BY <1>5 DEF Range, Idx
<1>7. said[x].kind = kind /\ s[j] = x
  BY <1>5, <1>6 DEF AtOf, Range
<1>8. said[x] \in Pieces
  BY <1>6, IdxIs
<1> QED BY <1>6, <1>7, <1>8 DEF s

LEMMA ResultsSaid ==
    ASSUME SaidOK(said), BesideOK(said, beside)
    PROVE  Each(Flat(AtOf("tool_result"), Idx), LAMBDA i : said[i].id)
             = Flat(IdOf, Flat(OfKind("tool_result"), said))
<1> DEFINE k == "tool_result"
           s == Flat(AtOf(k), Idx)
           h == [j \in DOMAIN s |-> said[s[j]].id]
           G == [i \in DOMAIN said |-> IF said[i].kind = k THEN <<said[i].id>> ELSE << >>]
<1>1. Each(s, LAMBDA i : said[i].id) = h
  BY DEF Each
<1>2. \A i \in DOMAIN said : said[i].kind = k => said[i] \in ResultSet /\ said[i].id \in Nat
  <2>1. \A i \in DOMAIN said : said[i] \in Pieces
    BY IdxIs
  <2> QED BY <2>1, BlockIs DEF ResultSet
<1>3. Into(G, DOMAIN said, Nat)
  BY <1>2 DEF Into
<1>4. Into(IdOf, KindSet(k), Nat)
  BY WireTypes, KindSets
<1>5. \A j \in DOMAIN s : s[j] \in DOMAIN said /\ said[s[j]].kind = k
  BY AtKind
<1>6. \A j \in DOMAIN s : h[j] \in Nat
  BY <1>2, <1>5
<1>7. \A j \in DOMAIN s : G[s[j]] = <<h[j]>>
  BY <1>5
<1>8. \A i \in DOMAIN said : said[i].kind = k => G[i] = IdOf[said[i]]
  BY <1>2 DEF IdOf
<1>9. h = [j \in DOMAIN s |-> h[j]]
  OBVIOUS
<1> HIDE DEF G, h
<1>10. h = Flat(IdOf, Flat(OfKind(k), said))
  BY <1>3, <1>4, <1>6, <1>7, <1>8, <1>9, EachIs
<1> QED BY <1>1, <1>10 DEF h

LEMMA UsesSaid ==
    ASSUME SaidOK(said), BesideOK(said, beside)
    PROVE  LET uses == Each(Flat(AtOf("tool_use"), Idx),
                            LAMBDA i : ToolUse(i, said[i].custom /\ wire.to = "/responses"))
           IN  /\ wire.to = "/responses" => uses = Flat(OfKind("tool_use"), said)
               /\ wire.to # "/responses" => uses = Flat(AsFunction, Flat(OfKind("tool_use"), said))
<1> DEFINE k == "tool_use"
           s == Flat(AtOf(k), Idx)
           h == [j \in DOMAIN s |-> ToolUse(s[j], said[s[j]].custom /\ wire.to = "/responses")]
           u == Flat(OfKind(k), said)
<1>1. Each(s, LAMBDA i : ToolUse(i, said[i].custom /\ wire.to = "/responses")) = h
  BY DEF Each
<1>2. \A i \in DOMAIN said : said[i].kind = k => said[i] \in UseSet /\ said[i].id = i /\ i \in Nat
  <2>1. \A i \in DOMAIN said : said[i] \in Pieces /\ i \in Nat
    BY IdxIs
  <2>2. \A i \in DOMAIN said : said[i].kind = k => said[i].id = i
    BY DEF SaidOK
  <2> QED BY <2>1, <2>2, BlockIs
<1>3. \A i \in DOMAIN said : said[i].kind = k =>
          /\ ToolUse(i, said[i].custom /\ TRUE) = said[i]
          /\ ToolUse(i, said[i].custom /\ FALSE) = ToolUse(said[i].id, FALSE)
  BY <1>2 DEF UseSet, ToolUse
<1>4. \A j \in DOMAIN s : s[j] \in DOMAIN said /\ said[s[j]].kind = k
  BY AtKind
<1>5. CASE wire.to = "/responses"
  <2> DEFINE G == [i \in DOMAIN said |-> IF said[i].kind = k THEN <<said[i]>> ELSE << >>]
             K == [b \in UseSet |-> <<b>>]
  <2>1. \A j \in DOMAIN s : h[j] = said[s[j]]
    BY <1>3, <1>4, <1>5
  <2>2. \A j \in DOMAIN s : h[j] \in UseSet
    BY <2>1, <1>2, <1>4
  <2>3. \A j \in DOMAIN s : G[s[j]] = <<h[j]>>
    BY <2>1, <1>4
  <2>4. Into(G, DOMAIN said, UseSet)
    BY <1>2 DEF Into
  <2>5. Into(K, KindSet(k), UseSet)
    BY KindSets DEF Into
  <2>6. \A i \in DOMAIN said : said[i].kind = k => G[i] = K[said[i]]
    BY <1>2
  <2>7. h = [j \in DOMAIN s |-> h[j]]
    OBVIOUS
  <2>10. k # "text"
    OBVIOUS
  <2> HIDE DEF G, h, K, k
  <2>8. h = Flat(K, u)
    BY <2>2, <2>3, <2>4, <2>5, <2>6, <2>7, <2>10, EachIs
  <2>9. Flat(K, u) = u
    <3>1. u \in Seq(UseSet)
      <4>1. Into(OfKind(k), Pieces, KindSet(k))
        BY FnTypes
      <4>2. said \in Seq(Pieces)
        BY IdxIs
      <4>3. u \in Seq(KindSet(k))
        BY <4>1, <4>2, FlatType
      <4> QED BY <4>3, KindSets DEF k
    <3> HIDE DEF u
    <3>2. DOMAIN u = 1..Len(u) /\ \A i \in 1..Len(u) : K[u[i]] = <<u[i]>>
      BY <3>1 DEF K
    <3> QED BY <3>1, <3>2, FlatSingles
  <2> QED BY <1>1, <1>5, <2>8, <2>9 DEF k, h
<1>6. CASE wire.to # "/responses"
  <2> DEFINE G == [i \in DOMAIN said |-> IF said[i].kind = k THEN <<ToolUse(said[i].id, FALSE)>> ELSE << >>]
  <2>1. \A j \in DOMAIN s : h[j] = ToolUse(said[s[j]].id, FALSE)
    BY <1>3, <1>4, <1>6
  <2>11. \A b \in UseSet : ToolUse(b.id, FALSE) \in UseSet
    BY DEF UseSet, ToolUse
  <2>2. \A j \in DOMAIN s : h[j] \in UseSet
    BY <2>1, <2>11, <1>2, <1>4
  <2>3. \A j \in DOMAIN s : G[s[j]] = <<h[j]>>
    BY <2>1, <1>4
  <2>6. \A i \in DOMAIN said : said[i].kind = k => G[i] = AsFunction[said[i]]
    BY <1>2 DEF AsFunction
  <2>4. Into(G, DOMAIN said, UseSet)
    <3>1. \A b \in UseSet : AsFunction[b] \in Seq(UseSet)
      BY WireTypes DEF Into
    <3>2. \A i \in DOMAIN said : G[i] \in Seq(UseSet)
      <4> SUFFICES ASSUME NEW i \in DOMAIN said PROVE G[i] \in Seq(UseSet)
        OBVIOUS
      <4>1. CASE said[i].kind = k
        <5>1. G[i] = AsFunction[said[i]] /\ said[i] \in UseSet
          BY <4>1, <2>6, <1>2
        <5> QED BY <5>1, <3>1
      <4>2. CASE said[i].kind # k
        <5>1. G[i] = << >>
          BY <4>2
        <5> HIDE DEF G
        <5> QED BY <5>1
      <4> QED BY <4>1, <4>2
    <3> QED BY <3>2 DEF Into
  <2>5. Into(AsFunction, KindSet(k), UseSet)
    BY KindSets, WireTypes
  <2>7. h = [j \in DOMAIN s |-> h[j]]
    OBVIOUS
  <2>10. k # "text"
    OBVIOUS
  <2> HIDE DEF G, h, k
  <2>8. h = Flat(AsFunction, u)
    BY <2>2, <2>3, <2>4, <2>5, <2>6, <2>7, <2>10, EachIs
  <2> QED BY <1>1, <1>6, <2>8 DEF k, h
<1> QED BY <1>5, <1>6

\* Which message a message on the wire was.
LEMMA WhoseIs ==
    ASSUME dialect \in {"messages", "chat", "responses"}, NEW cv \in Seq(FormedSet), NEW w \in Range(Flat(ChatOf, cv))
    PROVE  \E p \in DOMAIN cv :
              LET m == cv[p] IN
              /\ m \in FormedSet
              /\ Has(m.content, "tool_result") =>
                    \E r \in Range(ResOf[m]) : w.of = <<r.id>> /\ w.shown = r.images /\ w.thought = << >>
              /\ ~Has(m.content, "tool_result") => w.of = << >> /\ w.thought = Thought(m.content)
<1>1. Into(ChatOf, FormedSet, Wired)
  BY MoreTypes
<1>2. Range(Flat(ChatOf, cv)) = UNION {Range(ChatOf[x]) : x \in Range(cv)}
  BY <1>1, FlatRange
<1>3. PICK x \in Range(cv) : w \in Range(ChatOf[x])
  BY <1>2
<1>4. PICK p \in DOMAIN cv : x = cv[p]
  BY <1>3 DEF Range
<1>5. x \in FormedSet
  BY <1>4
<1>6. CASE Has(x.content, "tool_result")
  <2>1. ChatOf[x] \in Seq(Wired) /\ Len(ChatOf[x]) = Len(ResOf[x])
        /\ \A i \in 1..Len(ResOf[x]) :
              ChatOf[x][i] = [Blank("tool") EXCEPT !.of = <<ResOf[x][i].id>>, !.shown = ResOf[x][i].images]
    BY <1>5, <1>6, ChatIs
  <2>2. PICK i \in DOMAIN ChatOf[x] : w = ChatOf[x][i]
    BY <1>3 DEF Range
  <2>3. ResOf[x] \in Seq(ResultSet)
    BY <1>5, MessageTypes DEF Into
  <2>4. i \in 1..Len(ResOf[x]) /\ i \in DOMAIN ResOf[x] /\ ResOf[x][i] \in Range(ResOf[x])
    <3>4. ChatOf[x] \in Seq(Wired)
      BY <1>5, ChatIs
    <3>1. DOMAIN ChatOf[x] = 1..Len(ChatOf[x])
      BY <3>4
    <3>2. DOMAIN ResOf[x] = 1..Len(ResOf[x])
      BY <2>3
    <3>3. i \in 1..Len(ResOf[x])
      BY <3>1, <2>1, <2>2
    <3> QED BY <3>2, <3>3 DEF Range
  <2> DEFINE r == ResOf[x][i]
  <2>5. w = [Blank("tool") EXCEPT !.of = <<r.id>>, !.shown = r.images]
    BY <2>1, <2>2, <2>4
  <2> HIDE DEF r
  <2>6. w.of = <<r.id>> /\ w.shown = r.images /\ w.thought = << >>
    BY <2>5 DEF Blank
  <2> QED BY <1>4, <1>5, <1>6, <2>4, <2>6 DEF r
<1>7. CASE ~Has(x.content, "tool_result")
  <2>1. PICK v \in Wired : ChatOf[x] = <<v>> /\ v.of = << >> /\ v.thought = Thought(x.content)
    BY <1>5, <1>7, ChatIs
  <2>2. w = v
    BY <2>1, <1>3 DEF Range
  <2> QED BY <1>4, <1>5, <1>7, <2>1, <2>2
<1> QED BY <1>6, <1>7

\* What is shown with a result on the wire is what the tool showed.
LEMMA ShownIs ==
    ASSUME dialect \in {"messages", "chat", "responses"}, NEW cv \in Seq(FormedSet), SaidOK(said),
           Flat(ResOf, cv) = Flat(OfKind("tool_result"), said),
           NEW w \in Range(Flat(ChatOf, cv)), w.of # << >>
    PROVE  w.shown = (\E b \in Range(said) : b = ToolResult(w.of[1], TRUE))
<1>1. PICK p \in DOMAIN cv :
          /\ cv[p] \in FormedSet
          /\ Has(cv[p].content, "tool_result") => \E r \in Range(ResOf[cv[p]]) : w.of = <<r.id>> /\ w.shown = r.images
          /\ ~Has(cv[p].content, "tool_result") => w.of = << >>
  BY WhoseIs
<1>2. PICK r \in Range(ResOf[cv[p]]) : w.of = <<r.id>> /\ w.shown = r.images
  BY <1>1
<1>3. Into(ResOf, FormedSet, ResultSet)
  BY MessageTypes
<1>4. Range(Flat(ResOf, cv)) = UNION {Range(ResOf[x]) : x \in Range(cv)}
  BY <1>3, FlatRange
<1>5. cv[p] \in Range(cv)
  BY DEF Range
<1>6. r \in Range(Flat(ResOf, cv))
  BY <1>2, <1>4, <1>5
<1>7. said \in Seq(Pieces)
  BY DEF SaidOK
<1>8. Range(Flat(OfKind("tool_result"), said)) = {b \in Range(said) : b.kind = "tool_result"}
  <2>1. Only(said, "tool_result") = Flat(OfKind("tool_result"), said)
    BY <1>7, OnlyIs
  <2>2. Range(Only(said, "tool_result")) = {b \in Range(said) : b.kind = "tool_result"}
    BY <1>7, OnlyRange
  <2> QED BY <2>1, <2>2
<1>9. r \in Range(said) /\ r.kind = "tool_result"
  BY <1>6, <1>8
<1>10. r \in ResultSet
  <2>1. r \in Pieces
    BY <1>7, <1>9 DEF Range
  <2> QED BY <2>1, <1>9, BlockIs
<1>11. r = ToolResult(r.id, r.images) /\ r.images \in BOOLEAN /\ w.of[1] = r.id
  BY <1>10, <1>2 DEF ResultSet, ToolResult
<1>12. ASSUME NEW b \in Range(said), b = ToolResult(r.id, TRUE) PROVE r.images = TRUE
  <2>1. b.kind = "tool_result" /\ b.id = r.id /\ b.images = TRUE
    BY <1>12 DEF ToolResult
  <2>2. b = r
    BY <2>1, <1>9 DEF SaidOK
  <2> QED BY <2>1, <2>2
<1>13. CASE r.images = TRUE
  <2>1. r = ToolResult(w.of[1], TRUE)
    BY <1>11, <1>13
  <2>2. (\E b \in Range(said) : b = ToolResult(w.of[1], TRUE)) = TRUE
    BY <2>1, <1>9
  <2> QED BY <1>2, <1>13, <2>2
<1>14. CASE r.images = FALSE
  <2>1. ~\E b \in Range(said) : b = ToolResult(w.of[1], TRUE)
    BY <1>11, <1>12, <1>14
  <2> QED BY <1>2, <1>14, <2>1
<1> QED BY <1>11, <1>13, <1>14

-----------------------------------------------------------------------------
(* Thoughts are in the order they were had. *)

Rising(c) == \A i \in Thoughts(c), j \in Thoughts(c) : i < j => c[i].id < c[j].id
Before(c, d) == \A i \in Thoughts(c), j \in Thoughts(d) : c[i].id < d[j].id
ThoughtsOK(cv, n) ==
    \A p \in DOMAIN cv : /\ Rising(cv[p].content)
                         /\ \A i \in Thoughts(cv[p].content) : cv[p].content[i].id <= n
                         /\ \A q \in DOMAIN cv : p < q => Before(cv[p].content, cv[q].content)

LEMMA OneThought ==
    ASSUME dialect \in {"messages", "chat", "responses"}, NEW cv \in Seq(FormedSet), NEW n, ThoughtsOK(cv, n),
           NEW m \in Range(cv), Has(m.content, "thinking")
    PROVE  LET thoughts == {b \in Range(m.content) : b.kind = "thinking"}
               signed == {t \in thoughts : t.opaque}
               sent == {t \in thoughts : <<t.id>> \in {w.thought : w \in Range(Flat(ChatOf, cv))}}
           IN  \E t \in thoughts : /\ sent = {t}
                                   /\ signed # {} => t \in signed
                                   /\ \A u \in signed : u.id <= t.id
<1> DEFINE c == m.content
           T == Thoughts(c)
           S == {i \in T : c[i].opaque}
           thoughts == {b \in Range(c) : b.kind = "thinking"}
           signed == {t \in thoughts : t.opaque}
           body == Flat(ChatOf, cv)
           sent == {t \in thoughts : <<t.id>> \in {w.thought : w \in Range(body)}}
<1>1. PICK p \in DOMAIN cv : m = cv[p]
  BY DEF Range
<1>2. m \in FormedSet /\ Formed(m)
  BY <1>1 DEF FormedSet
<1>3. c \in Seq(Pieces)
  BY <1>2 DEF FormedSet, MessageSet
<1>4. ~Has(c, "tool_result")
  BY <1>2 DEF Formed
<1>5. T # {}
  BY DEF Has, Thoughts, Range
<1>6. PICK i \in T : Thought(c) = <<c[i].id>> /\ c[i].id \in Nat /\ (S # {} => i \in S /\ \A j \in S : j <= i)
  BY <1>3, <1>5, ThoughtIs
<1>7. \A j \in T : j \in DOMAIN c /\ c[j] \in thoughts
  BY DEF Thoughts, Range
<1>8. \A t \in thoughts : \E j \in T : t = c[j]
  BY DEF Thoughts, Range
<1>9. \A j \in T : j \in Nat /\ c[j].id \in Nat
  <2>1. \A j \in T : j \in DOMAIN c /\ c[j].kind = "thinking"
    BY DEF Thoughts
  <2>2. DOMAIN c = 1..Len(c) /\ \A j \in DOMAIN c : c[j] \in Pieces
    BY <1>3
  <2>3. \A j \in T : j \in Nat
    BY <2>1, <2>2
  <2>4. \A j \in T : c[j] \in ThinkSet
    BY <2>1, <2>2, BlockIs
  <2> QED BY <2>3, <2>4 DEF ThinkSet
<1>10. Rising(c)
  BY <1>1 DEF ThoughtsOK
<1> DEFINE t == c[i]
<1>11. t \in sent
  <2>1. PICK w \in Wired : ChatOf[m] = <<w>> /\ w.thought = Thought(c)
    BY <1>2, <1>4, ChatIs
  <2>2. w \in Range(ChatOf[m])
    BY <2>1 DEF Range
  <2>3. Into(ChatOf, FormedSet, Wired)
    BY MoreTypes
  <2>4. Range(body) = UNION {Range(ChatOf[x]) : x \in Range(cv)}
    BY <2>3, FlatRange
  <2>5. w \in Range(body)
    BY <2>2, <2>4
  <2> HIDE DEF body
  <2> QED BY <2>1, <2>5, <1>6, <1>7
<1>12. \A u \in sent : u = t
  <2> SUFFICES ASSUME NEW u \in sent PROVE u = t
    OBVIOUS
  <2>1. PICK w \in Range(body) : <<u.id>> = w.thought
    OBVIOUS
  <2>2. PICK j \in T : u = c[j]
    BY <1>8
  <2>3. PICK q \in DOMAIN cv :
          /\ cv[q] \in FormedSet
          /\ Has(cv[q].content, "tool_result") => w.thought = << >>
          /\ ~Has(cv[q].content, "tool_result") => w.thought = Thought(cv[q].content)
    BY <2>1, WhoseIs
  <2> DEFINE d == cv[q].content
  <2>4. w.thought = Thought(d) /\ w.thought # << >>
    BY <2>1, <2>3
  <2>5. d \in Seq(Pieces)
    BY <2>3 DEF FormedSet, MessageSet
  <2>6. Thoughts(d) # {}
    <3> HIDE DEF d
    <3> QED BY <2>4, <2>5, ThoughtIs
  <2>7. PICK k \in Thoughts(d) : Thought(d) = <<d[k].id>> /\ d[k].id \in Nat
    <3> HIDE DEF d
    <3> QED BY <2>5, <2>6, ThoughtIs
  <2>8. c[j].id = d[k].id
    BY <2>1, <2>2, <2>4, <2>7
  <2>9. p = q
    <3>1. p \in Nat /\ q \in Nat
      OBVIOUS
    <3>2. ~(p < q)
      <4>1. p < q => Before(c, d)
        BY <1>1 DEF ThoughtsOK
      <4> HIDE DEF d, c, T
      <4>2. Before(c, d) => c[j].id < d[k].id
        BY <2>2, <2>7 DEF Before, T
      <4>3. c[j].id \in Nat
        BY <2>2, <1>9
      <4> QED BY <4>1, <4>2, <4>3, <2>8
    <3>3. ~(q < p)
      <4>1. q < p => Before(d, c)
        BY <1>1 DEF ThoughtsOK
      <4> HIDE DEF d, c, T
      <4>2. Before(d, c) => d[k].id < c[j].id
        BY <2>2, <2>7 DEF Before, T
      <4>3. c[j].id \in Nat
        BY <2>2, <1>9
      <4> QED BY <4>1, <4>2, <4>3, <2>8
    <3> QED BY <3>1, <3>2, <3>3
  <2>10. c[j].id = c[i].id
    BY <2>9, <2>4, <2>1, <2>2, <1>1, <1>6
  <2>11. ~(i < j) /\ ~(j < i)
    <3> HIDE DEF T, c
    <3>1. i < j => c[i].id < c[j].id
      BY <1>10, <2>2 DEF Rising, T
    <3>2. j < i => c[j].id < c[i].id
      BY <1>10, <2>2 DEF Rising, T
    <3> QED BY <3>1, <3>2, <2>10, <1>9, <2>2
  <2>12. i = j
    <3> HIDE DEF T, c
    <3> QED BY <2>11, <1>9, <2>2
  <2> QED BY <2>2, <2>12
<1>13. sent = {t}
  BY <1>11, <1>12
<1>14. signed # {} => t \in signed /\ \A u \in signed : u.id <= t.id
  <2> SUFFICES ASSUME NEW v \in signed PROVE t \in signed /\ \A u \in signed : u.id <= t.id
    OBVIOUS
  <2>1. \A u \in signed : \E j \in S : u = c[j]
    BY <1>8
  <2>2. i \in S /\ \A j \in S : j <= i
    BY <2>1, <1>6
  <2>3. t \in signed
    BY <2>2, <1>7
  <2>4. ASSUME NEW u \in signed PROVE u.id <= t.id
    <3>1. PICK j \in S : u = c[j]
      BY <2>1
    <3>2. j <= i /\ j \in T
      BY <2>2
    <3> HIDE DEF S, c, T
    <3>3. j < i => c[j].id < c[i].id
      BY <1>10, <3>2 DEF Rising, T
    <3>4. j = i \/ j < i
      BY <3>2, <1>9
    <3>5. c[j].id <= c[i].id
      BY <3>3, <3>4, <3>2, <1>9
    <3> QED BY <3>1, <3>5
  <2> QED BY <2>3, <2>4
<1>15. t \in thoughts
  BY <1>7
<1> HIDE DEF t, sent, signed, thoughts
<1>16. \E x \in thoughts : sent = {x} /\ (signed # {} => x \in signed) /\ \A u \in signed : u.id <= x.id
  BY <1>13, <1>14, <1>15
<1> QED BY <1>16 DEF sent, signed, thoughts, body, c

-----------------------------------------------------------------------------
(* An effort that the model has. *)

LEMMA ClampedIs ==
    ASSUME NEW effort \in Efforts \cup {NoEffort}, NEW supported \in SUBSET Efforts
    PROVE  \/ Clamped(effort, supported) = NoEffort
           \/ supported = {}
           \/ Clamped(effort, supported) \in supported
<1>1. CASE effort = NoEffort \/ supported = {} \/ effort \in supported
  BY <1>1 DEF Clamped
<1>2. CASE ~(effort = NoEffort \/ supported = {} \/ effort \in supported)
  <2> DEFINE Key(e) == 7 * Distance(e, effort) + e
             K == {Key(e) : e \in supported}
  <2>1. effort \in 0..5 /\ \A e \in supported : e \in 0..5
    BY <1>2 DEF Efforts
  <2>2. \A e \in supported : Distance(e, effort) \in Nat
    BY <2>1 DEF Distance
  <2>3. \A e \in supported : Key(e) \in Nat
    BY <2>1, <2>2
  <2>4. K \in SUBSET Nat /\ K # {}
    BY <2>3, <1>2
  <2>5. PICK x \in K : \A y \in K : x <= y
    <3> HIDE DEF K
    <3> QED BY <2>4, LeastOf
  <2>6. PICK e \in supported : x = Key(e)
    BY <2>5
  <2>7. \A f \in supported : \/ Distance(e, effort) < Distance(f, effort)
                             \/ (Distance(e, effort) = Distance(f, effort) /\ e <= f)
    <3> SUFFICES ASSUME NEW f \in supported
                 PROVE  \/ Distance(e, effort) < Distance(f, effort)
                        \/ (Distance(e, effort) = Distance(f, effort) /\ e <= f)
      OBVIOUS
    <3>1. Key(e) <= Key(f)
      BY <2>5, <2>6
    <3>2. e \in 0..5 /\ f \in 0..5 /\ Distance(e, effort) \in Nat /\ Distance(f, effort) \in Nat
      BY <2>1, <2>2
    <3> QED BY <3>1, <3>2
  <2>8. Clamped(effort, supported) = CHOOSE e1 \in supported : \A f \in supported :
            \/ Distance(e1, effort) < Distance(f, effort)
            \/ (Distance(e1, effort) = Distance(f, effort) /\ e1 <= f)
    BY <1>2, Zenon DEF Clamped
  <2> DEFINE Best(z) == \A f \in supported : \/ Distance(z, effort) < Distance(f, effort)
                                             \/ (Distance(z, effort) = Distance(f, effort) /\ z <= f)
  <2>9. Best(e)
    BY <2>7
  <2>10. Clamped(effort, supported) = CHOOSE z \in supported : Best(z)
    BY <2>8, Zenon
  <2> HIDE DEF Best
  <2>11. (CHOOSE z \in supported : Best(z)) \in supported
    BY <2>9
  <2> QED BY <2>10, <2>11
<1> QED BY <1>1, <1>2

LEMMA EffortIs ==
    ASSUME dialect \in {"messages", "chat", "responses"}, NEW wish \in Wishes
    PROVE  Effort(wish) \in Efforts \cup {NoEffort}
<1>1. wish.effort \in Efforts \cup {NoEffort} /\ wish.budget \in Int
  BY ConversationAssumption
<1>2. Budgeted(wish.budget) \in Efforts
  <2> DEFINE b == wish.budget
  <2>1. b \in Int
    BY <1>1
  <2> HIDE DEF b
  <2>2. Budgeted(b) \in {1, 2, 3, 5}
    <3>1. CASE b <= 2048
      BY <2>1, <3>1 DEF Budgeted
    <3>2. CASE b \in 2049..8192
      BY <2>1, <3>2 DEF Budgeted
    <3>3. CASE b \in 8193..20000
      BY <2>1, <3>3 DEF Budgeted
    <3>4. CASE b > 20000
      BY <2>1, <3>4 DEF Budgeted
    <3> QED BY <2>1, <3>1, <3>2, <3>3, <3>4
  <2> QED BY <2>2 DEF b, Efforts
<1> DEFINE asked == IF wish.effort = NoEffort /\ wish.budget # NoEffort THEN Budgeted(wish.budget) ELSE wish.effort
<1>3. asked \in Efforts \cup {NoEffort}
  BY <1>1, <1>2
<1>4. Effort(wish) \in {NoEffort, wish.effort, asked}
  BY DEF Effort
<1> HIDE DEF asked
<1> QED BY <1>1, <1>3, <1>4

LEMMA WireEffort ==
    ASSUME dialect \in {"messages", "chat", "responses"}, NEW model \in Catalog, NEW wish \in Wishes
    PROVE  LET e == Clamped(Effort(wish), model.efforts)
           IN  e = NoEffort \/ model.efforts = {} \/ e \in model.efforts
<1>1. model.efforts \in SUBSET Efforts
  BY ConversationAssumption
<1>2. Effort(wish) \in Efforts \cup {NoEffort}
  BY EffortIs
<1> QED BY <1>1, <1>2, ClampedIs

-----------------------------------------------------------------------------
(* The invariant. *)

TheSame(cv, sd, bs) ==
    /\ Flat(TextOf, cv) = Flat(Spared(bs), sd)
    /\ Flat(ImageOf, cv) = Flat(ImageFn, sd)
    /\ Flat(UseOf, cv) = Flat(OfKind("tool_use"), sd)
    /\ Flat(ResOf, cv) = Flat(OfKind("tool_result"), sd)

\* The calls that have no result yet.
Due(sd) == [b \in Pieces |-> IF b.kind = "tool_use" /\ ~(\E r \in Range(sd) : r.kind = "tool_result" /\ r.id = b.id)
                             THEN <<b>> ELSE << >>]
Owed(sd) == Flat(Due(sd), sd)

\* Calls and results: the messages of a body, and those that wait for the tools.
Settled(body) ==
    \A i \in DOMAIN body : /\ Followed(body, i)
                           /\ body[i].role = "tool" =>
                                 \E j \in 1..(i - 1) : body[i].of[1] \in {b.id : b \in Range(body[j].calls)}
Open(cv, sd) ==
    \E front \in Seq(FormedSet), final \in FormedSet :
        /\ cv = front \o <<final>>
        /\ ~Has(final.content, "tool_result") /\ UseOf[final] = Owed(sd)
        /\ Settled(Flat(ChatOf, front))

WireOK ==
    \E model \in Catalog, wish \in Wishes : wire \in {ChatBody(model, wish), ResponsesBody(model, wish)}

Book(cv, sd, bs) ==
    /\ cv \in Seq(FormedSet) /\ SaidOK(sd) /\ BesideOK(sd, bs)
    /\ TheSame(cv, sd, bs) /\ FirstOnly(cv) /\ ThoughtsOK(cv, Len(sd))
Order(who, cv, sd) == IF who = "tools" THEN Open(cv, sd) ELSE Settled(Flat(ChatOf, cv))

ConversationInv ==
    /\ dialect \in {"messages", "chat", "responses"}
    /\ offers \subseteq {"function", "custom", "web", "other"}
    /\ whose \in {"user", "tools", "ready", "sent"}
    /\ Book(conv, said, beside)
    /\ whose = "tools" <=> Owed(said) # << >>
    /\ ~Apart => Order(whose, conv, said)
    /\ whose = "sent" => WireOK

LEMMA RefusedIs == ConversationInv => NothingRefused
<1> SUFFICES ASSUME ConversationInv, whose = "sent" PROVE NothingRefused
  BY DEF NothingRefused, Sent
<1>8. dialect \in {"messages", "chat", "responses"}
  BY DEF ConversationInv
<1>1. WireOK /\ (~Apart => Settled(Flat(ChatOf, conv)))
  BY DEF ConversationInv, Order
<1>2. offers \subseteq {"function", "custom", "web", "other"} /\ conv \in Seq(FormedSet)
  BY DEF ConversationInv, Book
<1>3. PICK model \in Catalog, wish \in Wishes : wire \in {ChatBody(model, wish), ResponsesBody(model, wish)}
  BY <1>1 DEF WireOK
<1>4. /\ wire.tools \subseteq Offered /\ wire.model = model
      /\ wire.effort \in {NoEffort, Clamped(Effort(wish), model.efforts)}
      /\ wire.to = "/chat/completions" => /\ wire.body = Concat(Canonical, ToChat)
                                          /\ ~model.reasons => wire.effort = NoEffort
  <2>1. CASE wire = ChatBody(model, wish)
    <3>1. wire.tools = (IF dialect = "responses" THEN Offered \ {"web"} ELSE Offered) /\ wire.model = model
          /\ wire.effort = (IF model.reasons THEN Clamped(Effort(wish), model.efforts) ELSE NoEffort)
          /\ wire.body = Concat(Canonical, ToChat)
      BY <2>1, Zenon DEF ChatBody
    <3> QED BY <3>1
  <2>2. CASE wire = ResponsesBody(model, wish)
    <3>1. wire.tools = Offered /\ wire.model = model /\ wire.effort = Clamped(Effort(wish), model.efforts)
          /\ wire.to = "/responses"
      BY <2>2, Zenon DEF ResponsesBody
    <3> QED BY <3>1
  <2> QED BY <2>1, <2>2, <1>3
<1>5. wire.effort = NoEffort \/ wire.model.efforts = {} \/ wire.effort \in wire.model.efforts
  <2>1. LET e == Clamped(Effort(wish), model.efforts)
        IN  e = NoEffort \/ model.efforts = {} \/ e \in model.efforts
    BY <1>8, WireEffort
  <2> QED BY <2>1, <1>4
<1>6. wire.tools \subseteq {"function", "custom", "web"}
  BY <1>2, <1>4 DEF Offered
<1>7. ASSUME wire.to = "/chat/completions", ~Apart PROVE Settled(wire.body)
  BY <1>1, <1>2, <1>4, <1>7, ChatBodyIs
<1>9. wire.to = "/chat/completions" /\ ~wire.model.reasons => wire.effort = NoEffort
  BY <1>4
<1> QED BY <1>5, <1>6, <1>7, <1>9 DEF NothingRefused, Settled

LEMMA LostIs == ConversationInv => NothingIsLost
<1> SUFFICES ASSUME ConversationInv, whose = "sent" PROVE NothingIsLost
  BY DEF NothingIsLost, Sent
<1>1. WireOK /\ TheSame(conv, said, beside) /\ FirstOnly(conv) /\ ThoughtsOK(conv, Len(said))
  BY DEF ConversationInv, Book
<1>2. dialect \in {"messages", "chat", "responses"} /\ SaidOK(said) /\ BesideOK(said, beside)
  BY DEF ConversationInv, Book
<1>3. conv \in Seq(FormedSet)
  BY DEF ConversationInv, Book
<1>4. PICK model \in Catalog, wish \in Wishes : wire \in {ChatBody(model, wish), ResponsesBody(model, wish)}
  BY <1>1 DEF WireOK
<1> DEFINE body == wire.body
           Spoken1(kind) == Select([i \in DOMAIN said |-> i], LAMBDA i : said[i].kind = kind /\ i \notin beside)
<1>5. \/ wire.to = "/chat/completions" /\ body = Flat(ChatOf, conv)
      \/ wire.to = "/responses" /\ body = ToResponses(Canonical)
  <2>1. CASE wire = ChatBody(model, wish)
    <3>1. wire.body = Concat(Canonical, ToChat) /\ wire.to = "/chat/completions"
      BY <2>1, Zenon DEF ChatBody
    <3> QED BY <3>1, <1>3, ChatBodyIs
  <2>2. CASE wire = ResponsesBody(model, wish)
    BY <2>2, Zenon DEF ResponsesBody
  <2> QED BY <2>1, <2>2, <1>4
<1>6. /\ body \in Seq(Wired)
      /\ Flat(WText, body) = Flat(TextOf, conv)
      /\ Flat(WImages, body) = Flat(ImageOf, conv)
      /\ wire.to = "/responses" => Flat(WCalls, body) = Flat(UseOf, conv)
      /\ wire.to # "/responses" => Flat(WCalls, body) = Flat(AsFunction, Flat(UseOf, conv))
      /\ Flat(WOf, body) = Flat(IdOf, Flat(ResOf, conv))
  <2>1. CASE wire.to = "/chat/completions" /\ body = Flat(ChatOf, conv)
    <3> DEFINE b == Flat(ChatOf, conv)
    <3>1. /\ b \in Seq(Wired) /\ Flat(WText, b) = Flat(TextOf, conv) /\ Flat(WImages, b) = Flat(ImageOf, conv)
          /\ Flat(WCalls, b) = Flat(AsFunction, Flat(UseOf, conv)) /\ Flat(WOf, b) = Flat(IdOf, Flat(ResOf, conv))
      BY <1>2, <1>3, SaysTheSame
    <3>2. body = b
      BY <2>1
    <3> HIDE DEF b, body
    <3> QED BY <2>1, <3>1, <3>2
  <2>2. CASE wire.to = "/responses" /\ body = ToResponses(Canonical)
    <3> DEFINE b == ToResponses(Canonical)
    <3>1. /\ b \in Seq(Wired) /\ Flat(WText, b) = Flat(TextOf, conv) /\ Flat(WImages, b) = Flat(ImageOf, conv)
          /\ Flat(WCalls, b) = Flat(UseOf, conv) /\ Flat(WOf, b) = Flat(IdOf, Flat(ResOf, conv))
      BY <1>1, <1>2, <1>3, ResponsesBodyIs
    <3>2. body = b
      BY <2>2
    <3> HIDE DEF b, body
    <3> QED BY <2>2, <3>1, <3>2
  <2> QED BY <2>1, <2>2, <1>5
<1>7. /\ Concat(body, LAMBDA m : m.text) = Flat(WText, body)
      /\ Concat(body, LAMBDA m : m.images) = Flat(WImages, body)
      /\ Concat(body, LAMBDA m : m.calls) = Flat(WCalls, body)
      /\ Concat(body, LAMBDA m : m.of) = Flat(WOf, body)
  <2>1. \A i \in DOMAIN body : body[i] \in Wired
    <3>1. body \in Seq(Wired)
      BY <1>6
    <3> HIDE DEF body
    <3> QED BY <3>1
  <2> HIDE DEF body
  <2>2. [i \in DOMAIN body |-> body[i].text] = [i \in DOMAIN body |-> WText[body[i]]]
    BY <2>1 DEF WText
  <2>3. [i \in DOMAIN body |-> body[i].images] = [i \in DOMAIN body |-> WImages[body[i]]]
    BY <2>1 DEF WImages
  <2>4. [i \in DOMAIN body |-> body[i].calls] = [i \in DOMAIN body |-> WCalls[body[i]]]
    BY <2>1 DEF WCalls
  <2>5. [i \in DOMAIN body |-> body[i].of] = [i \in DOMAIN body |-> WOf[body[i]]]
    BY <2>1 DEF WOf
  <2> QED BY <2>2, <2>3, <2>4, <2>5 DEF Concat, Each, Flat
<1>8. \A kind : Spoken1(kind) = Flat(AtOf(kind), Idx)
  <2> SUFFICES ASSUME NEW kind PROVE Spoken1(kind) = Flat(AtOf(kind), Idx)
    OBVIOUS
  <2>1. Select(Idx, LAMBDA i : said[i].kind = kind /\ i \notin beside) = Flat(AtOf(kind), Idx)
    BY <1>2, AtIs
  <2> QED BY <2>1 DEF Idx
<1>9. Concat(body, LAMBDA m : m.text) = Spoken1("text")
  <2>1. Flat(AtOf("text"), Idx) = Flat(Spared(beside), said)
    BY <1>2, TextsIs
  <2>2. Spoken1("text") = Flat(AtOf("text"), Idx)
    BY <1>8
  <2>3. Flat(TextOf, conv) = Flat(Spared(beside), said)
    BY <1>1 DEF TheSame
  <2> HIDE DEF body, Spoken1
  <2> QED BY <2>1, <2>2, <2>3, <1>6, <1>7
<1>10. Concat(body, LAMBDA m : m.images) = Spoken1("image")
  <2>1. Flat(AtOf("image"), Idx) = Flat(ImageFn, said)
    BY <1>2, ImagesIs
  <2>2. Spoken1("image") = Flat(AtOf("image"), Idx)
    BY <1>8
  <2>3. Flat(ImageOf, conv) = Flat(ImageFn, said)
    BY <1>1 DEF TheSame
  <2> HIDE DEF body, Spoken1
  <2> QED BY <2>1, <2>2, <2>3, <1>6, <1>7
<1>11. Concat(body, LAMBDA m : m.calls)
         = Each(Spoken1("tool_use"), LAMBDA i : ToolUse(i, said[i].custom /\ wire.to = "/responses"))
  <2> DEFINE uses == Each(Flat(AtOf("tool_use"), Idx), LAMBDA i : ToolUse(i, said[i].custom /\ wire.to = "/responses"))
  <2>1. /\ wire.to = "/responses" => uses = Flat(OfKind("tool_use"), said)
        /\ wire.to # "/responses" => uses = Flat(AsFunction, Flat(OfKind("tool_use"), said))
    BY <1>2, UsesSaid
  <2>2. Spoken1("tool_use") = Flat(AtOf("tool_use"), Idx)
    BY <1>8
  <2>3. Flat(UseOf, conv) = Flat(OfKind("tool_use"), said)
    BY <1>1 DEF TheSame
  <2> HIDE DEF body, Spoken1
  <2>4. Each(Spoken1("tool_use"), LAMBDA i : ToolUse(i, said[i].custom /\ wire.to = "/responses")) = uses
    BY <2>2
  <2> HIDE DEF uses
  <2> QED BY <2>1, <2>3, <2>4, <1>6, <1>7
<1>12. Concat(body, LAMBDA m : m.of) = Each(Spoken1("tool_result"), LAMBDA i : said[i].id)
  <2>1. Each(Flat(AtOf("tool_result"), Idx), LAMBDA i : said[i].id) = Flat(IdOf, Flat(OfKind("tool_result"), said))
    BY <1>2, ResultsSaid
  <2>2. Spoken1("tool_result") = Flat(AtOf("tool_result"), Idx)
    BY <1>8
  <2>3. Flat(ResOf, conv) = Flat(OfKind("tool_result"), said)
    BY <1>1 DEF TheSame
  <2> HIDE DEF body, Spoken1
  <2>4. Each(Spoken1("tool_result"), LAMBDA i : said[i].id) = Each(Flat(AtOf("tool_result"), Idx), LAMBDA i : said[i].id)
    BY <2>2
  <2> QED BY <2>1, <2>3, <2>4, <1>6, <1>7
<1>13. ASSUME wire.to = "/chat/completions"
       PROVE  /\ \A m \in Range(body) : m.of # << >> =>
                     m.shown = (\E b \in Range(said) : b = ToolResult(m.of[1], TRUE))
              /\ \A m \in Range(conv) : Has(m.content, "thinking") =>
                     LET thoughts == {b \in Range(m.content) : b.kind = "thinking"}
                         signed == {t \in thoughts : t.opaque}
                         sent == {t \in thoughts : <<t.id>> \in {w.thought : w \in Range(body)}}
                     IN  \E t \in thoughts : /\ sent = {t}
                                             /\ signed # {} => t \in signed
                                             /\ \A u \in signed : u.id <= t.id
  <2>1. body = Flat(ChatOf, conv)
    BY <1>5, <1>13
  <2>2. Flat(ResOf, conv) = Flat(OfKind("tool_result"), said)
    BY <1>1 DEF TheSame
  <2>3. ThoughtsOK(conv, Len(said))
    BY <1>1
  <2>4. \A m \in Range(body) : m.of # << >> =>
            m.shown = (\E b \in Range(said) : b = ToolResult(m.of[1], TRUE))
    BY <1>2, <1>3, <2>1, <2>2, ShownIs
  <2>5. ASSUME NEW m \in Range(conv), Has(m.content, "thinking")
        PROVE  LET thoughts == {b \in Range(m.content) : b.kind = "thinking"}
                   signed == {t \in thoughts : t.opaque}
                   sent == {t \in thoughts : <<t.id>> \in {w.thought : w \in Range(Flat(ChatOf, conv))}}
               IN  \E t \in thoughts : /\ sent = {t}
                                       /\ signed # {} => t \in signed
                                       /\ \A u \in signed : u.id <= t.id
    BY <1>2, <1>3, <2>3, <2>5, OneThought
  <2> HIDE DEF body
  <2> QED BY <2>1, <2>4, <2>5
<1> HIDE DEF Spoken1, body
<1>14. /\ Concat(body, LAMBDA m : m.text) = Spoken1("text")
       /\ Concat(body, LAMBDA m : m.images) = Spoken1("image")
       /\ Concat(body, LAMBDA m : m.calls)
            = Each(Spoken1("tool_use"), LAMBDA i : ToolUse(i, said[i].custom /\ wire.to = "/responses"))
       /\ Concat(body, LAMBDA m : m.of) = Each(Spoken1("tool_result"), LAMBDA i : said[i].id)
  BY <1>9, <1>10, <1>11, <1>12
<1> QED BY <1>13, <1>14, Zenon DEF NothingIsLost, Spoken1, body

-----------------------------------------------------------------------------
(* How the book grows. *)

\* What may be said next: with its number, or the result of an earlier call.
Adds(sd, c) ==
    /\ c \in Seq(Pieces)
    /\ \A i \in DOMAIN c : /\ c[i].kind = "text" => c[i].ids = <<Len(sd) + i>>
                           /\ c[i].kind \in {"image", "thinking", "tool_use"} => c[i].id = Len(sd) + i
                           /\ c[i].kind = "tool_result" => c[i].id <= Len(sd)
    /\ \A b \in Range(c), r \in Range(sd) : b.kind = "tool_result" /\ r.kind = "tool_result" => b.id # r.id
    /\ \A b \in Range(c), d \in Range(c) :
          b.kind = "tool_result" /\ d.kind = "tool_result" /\ b.id = d.id => b = d

\* The texts from the k-th on are beside results.
More(bs, sd, c, k) == bs \cup {i \in DOMAIN (sd \o c) : i > Len(sd) + k}

LEMMA JoinedAt ==
    ASSUME NEW T, NEW s \in Seq(T), NEW t \in Seq(T)
    PROVE  /\ s \o t \in Seq(T) /\ Len(s \o t) = Len(s) + Len(t) /\ Len(s) \in Nat /\ Len(t) \in Nat
           /\ DOMAIN s = 1..Len(s) /\ DOMAIN t = 1..Len(t) /\ DOMAIN (s \o t) = 1..(Len(s) + Len(t))
           /\ \A i \in DOMAIN (s \o t) : IF i <= Len(s) THEN i \in DOMAIN s /\ (s \o t)[i] = s[i]
                                          ELSE i - Len(s) \in DOMAIN t /\ (s \o t)[i] = t[i - Len(s)]
OBVIOUS

LEMMA SaidGrows ==
    ASSUME NEW sd, SaidOK(sd), NEW c, Adds(sd, c)
    PROVE  SaidOK(sd \o c)
<1>1. sd \in Seq(Pieces) /\ c \in Seq(Pieces)
  BY DEF SaidOK, Adds
<1> DEFINE s == sd \o c
<1>2. s \in Seq(Pieces)
  BY <1>1
<1>3. ASSUME NEW i \in DOMAIN s
      PROVE  /\ s[i].kind = "text" => s[i].ids = <<i>>
             /\ s[i].kind \in {"image", "thinking", "tool_use"} => s[i].id = i
             /\ s[i].kind = "tool_result" => s[i].id < i
  <2>1. CASE i <= Len(sd)
    <3>1. i \in DOMAIN sd /\ s[i] = sd[i]
      BY <1>1, <1>3, <2>1, JoinedAt
    <3> HIDE DEF s
    <3> QED BY <3>1 DEF SaidOK
  <2>2. CASE ~(i <= Len(sd))
    <3> DEFINE j == i - Len(sd)
    <3>1. j \in DOMAIN c /\ s[i] = c[j] /\ Len(sd) \in Nat /\ i \in Nat
      BY <1>1, <1>3, <2>2, JoinedAt
    <3>2. Len(sd) + j = i
      BY <3>1, <1>1
    <3>3. c[j] \in Pieces
      BY <1>1, <3>1
    <3>4. c[j].kind = "tool_result" => c[j].id \in Nat
      BY <3>3, BlockIs DEF ResultSet
    <3> HIDE DEF s, j
    <3>5. /\ c[j].kind = "text" => c[j].ids = <<Len(sd) + j>>
          /\ c[j].kind \in {"image", "thinking", "tool_use"} => c[j].id = Len(sd) + j
          /\ c[j].kind = "tool_result" => c[j].id <= Len(sd)
      BY <3>1 DEF Adds
    <3>6. c[j].kind = "tool_result" => c[j].id < i
      BY <3>5, <3>4, <3>1, <2>2
    <3> QED BY <3>1, <3>2, <3>5, <3>6
  <2> QED BY <2>1, <2>2
<1>4. Range(s) = Range(sd) \cup Range(c)
  BY <1>1, RangeJoin
<1>5. ASSUME NEW b \in Range(s), NEW d \in Range(s), b.kind = "tool_result", d.kind = "tool_result", b.id = d.id
      PROVE  b = d
  <2> HIDE DEF s
  <2>1. CASE b \in Range(sd) /\ d \in Range(sd)
    BY <1>5, <2>1 DEF SaidOK
  <2>2. CASE b \in Range(c) /\ d \in Range(c)
    BY <1>5, <2>2 DEF Adds
  <2>3. ~(b \in Range(sd) /\ d \in Range(c)) /\ ~(b \in Range(c) /\ d \in Range(sd))
    BY <1>5 DEF Adds
  <2> QED BY <1>4, <1>5, <2>1, <2>2, <2>3
<1> QED BY <1>2, <1>3, <1>5 DEF SaidOK

LEMMA BesideGrows ==
    ASSUME NEW sd, SaidOK(sd), NEW bs, BesideOK(sd, bs), NEW c, Adds(sd, c), NEW k \in Nat,
           \A i \in DOMAIN c : i > k => c[i].kind = "text"
    PROVE  BesideOK(sd \o c, More(bs, sd, c, k))
<1>1. sd \in Seq(Pieces) /\ c \in Seq(Pieces)
  BY DEF SaidOK, Adds
<1> SUFFICES ASSUME NEW i \in More(bs, sd, c, k) PROVE i \in DOMAIN (sd \o c) /\ (sd \o c)[i].kind = "text"
  BY DEF BesideOK
<1>2. CASE i \in bs
  <2>1. i \in DOMAIN sd /\ sd[i].kind = "text"
    BY <1>2 DEF BesideOK
  <2>2. i \in DOMAIN (sd \o c) /\ i <= Len(sd)
    BY <2>1, <1>1
  <2> QED BY <1>1, <2>1, <2>2, JoinedAt
<1>3. CASE i \in DOMAIN (sd \o c) /\ i > Len(sd) + k
  <2>1. Len(sd) \in Nat /\ i \in Nat
    BY <1>1, <1>3
  <2>2. i - Len(sd) \in DOMAIN c /\ (sd \o c)[i] = c[i - Len(sd)]
    BY <1>1, <1>3, <2>1, JoinedAt
  <2> QED BY <1>3, <2>1, <2>2
<1> QED BY <1>2, <1>3 DEF More

LEMMA SparedGrows ==
    ASSUME NEW sd, SaidOK(sd), NEW bs, BesideOK(sd, bs), NEW c, Adds(sd, c), NEW k \in Nat
    PROVE  Flat(Spared(More(bs, sd, c, k)), sd \o c)
             = Flat(Spared(bs), sd) \o Flat(Spared(More(bs, sd, c, k)), c)
<1> DEFINE m == More(bs, sd, c, k)
<1>1. sd \in Seq(Pieces) /\ c \in Seq(Pieces)
  BY DEF SaidOK, Adds
<1>2. Into(Spared(m), Pieces, Nat) /\ Into(Spared(bs), Pieces, Nat)
  BY SparedType
<1>3. \A i \in 1..Len(sd) : Spared(m)[sd[i]] = Spared(bs)[sd[i]]
  <2> SUFFICES ASSUME NEW i \in 1..Len(sd) PROVE Spared(m)[sd[i]] = Spared(bs)[sd[i]]
    OBVIOUS
  <2>1. sd[i] \in Pieces /\ i \in DOMAIN sd
    BY <1>1
  <2>2. sd[i].kind = "text" => sd[i].ids = <<i>>
    BY <2>1 DEF SaidOK
  <2>3. \A j : j \in m => j \in bs \/ j > Len(sd) + k
    BY DEF More
  <2>4. \A j \in bs : j \in m
    BY DEF More
  <2>5. ~(i > Len(sd) + k)
    BY <1>1
  <2>6. \A j : <<i>> = <<j>> <=> i = j
    OBVIOUS
  <2>7. sd[i].kind = "text" => ((\E j \in m : sd[i].ids = <<j>>) <=> (\E j \in bs : sd[i].ids = <<j>>))
    <3> HIDE DEF m
    <3> QED BY <2>2, <2>3, <2>4, <2>5, <2>6
  <2> HIDE DEF m
  <2> QED BY <2>1, <2>7 DEF Spared
<1> HIDE DEF m
<1>4. Flat(Spared(m), sd) = Flat(Spared(bs), sd)
  BY <1>1, <1>2, <1>3, FlatSame
<1>5. Flat(Spared(m), sd \o c) = Flat(Spared(m), sd) \o Flat(Spared(m), c)
  BY <1>1, <1>2, FlatJoin
<1> QED BY <1>4, <1>5 DEF m

LEMMA MessagesJoin ==
    ASSUME NEW s \in Seq(FormedSet), NEW t \in Seq(FormedSet)
    PROVE  /\ Flat(TextOf, s \o t) = Flat(TextOf, s) \o Flat(TextOf, t)
           /\ Flat(ImageOf, s \o t) = Flat(ImageOf, s) \o Flat(ImageOf, t)
           /\ Flat(UseOf, s \o t) = Flat(UseOf, s) \o Flat(UseOf, t)
           /\ Flat(ResOf, s \o t) = Flat(ResOf, s) \o Flat(ResOf, t)
<1>1. Into(TextOf, FormedSet, Nat)
  BY MessageTypes
<1>2. Flat(TextOf, s \o t) = Flat(TextOf, s) \o Flat(TextOf, t)
  BY <1>1, FlatJoin
<1>3. Into(ImageOf, FormedSet, Nat)
  BY MessageTypes
<1>4. Flat(ImageOf, s \o t) = Flat(ImageOf, s) \o Flat(ImageOf, t)
  BY <1>3, FlatJoin
<1>5. Into(UseOf, FormedSet, UseSet)
  BY MessageTypes
<1>6. Flat(UseOf, s \o t) = Flat(UseOf, s) \o Flat(UseOf, t)
  BY <1>5, FlatJoin
<1>7. Into(ResOf, FormedSet, ResultSet)
  BY MessageTypes
<1>8. Flat(ResOf, s \o t) = Flat(ResOf, s) \o Flat(ResOf, t)
  BY <1>7, FlatJoin
<1> QED BY <1>2, <1>4, <1>6, <1>8

LEMMA SameGrows ==
    ASSUME NEW sd, SaidOK(sd), NEW bs, BesideOK(sd, bs), NEW c, Adds(sd, c), NEW k \in Nat,
           NEW cv \in Seq(FormedSet), NEW ms \in Seq(FormedSet), TheSame(cv, sd, bs),
           Flat(TextOf, ms) = Flat(Spared(More(bs, sd, c, k)), c),
           Flat(ImageOf, ms) = Flat(ImageFn, c),
           Flat(UseOf, ms) = Flat(OfKind("tool_use"), c),
           Flat(ResOf, ms) = Flat(OfKind("tool_result"), c)
    PROVE  TheSame(cv \o ms, sd \o c, More(bs, sd, c, k))
<1>1. sd \in Seq(Pieces) /\ c \in Seq(Pieces)
  BY DEF SaidOK, Adds
<1>2. /\ Flat(TextOf, cv \o ms) = Flat(TextOf, cv) \o Flat(TextOf, ms)
      /\ Flat(ImageOf, cv \o ms) = Flat(ImageOf, cv) \o Flat(ImageOf, ms)
      /\ Flat(UseOf, cv \o ms) = Flat(UseOf, cv) \o Flat(UseOf, ms)
      /\ Flat(ResOf, cv \o ms) = Flat(ResOf, cv) \o Flat(ResOf, ms)
  BY MessagesJoin
<1>7. Flat(Spared(More(bs, sd, c, k)), sd \o c) = Flat(Spared(bs), sd) \o Flat(Spared(More(bs, sd, c, k)), c)
  BY SparedGrows, SMTT(40)
<1>8. /\ Flat(ImageFn, sd \o c) = Flat(ImageFn, sd) \o Flat(ImageFn, c)
      /\ \A kind : Flat(OfKind(kind), sd \o c) = Flat(OfKind(kind), sd) \o Flat(OfKind(kind), c)
  BY <1>1, BlocksJoin
<1> QED BY <1>2, <1>7, <1>8 DEF TheSame

\* No message is the system's.
NoSystem(ms) == \A i \in DOMAIN ms : ms[i].role # "system"

LEMMA FirstGrows ==
    ASSUME NEW cv \in Seq(FormedSet), FirstOnly(cv), NEW ms \in Seq(FormedSet), NoSystem(ms)
    PROVE  FirstOnly(cv \o ms)
<1> SUFFICES ASSUME NEW i \in DOMAIN (cv \o ms), (cv \o ms)[i].role = "system"
             PROVE  i = 1 /\ (cv \o ms)[i].content = <<Text(<<1>>)>>
  BY DEF FirstOnly
<1>1. CASE i <= Len(cv)
  <2>1. i \in DOMAIN cv /\ (cv \o ms)[i] = cv[i]
    BY <1>1, JoinedAt
  <2> QED BY <2>1 DEF FirstOnly
<1>2. CASE ~(i <= Len(cv))
  <2>1. i - Len(cv) \in DOMAIN ms /\ (cv \o ms)[i] = ms[i - Len(cv)]
    BY <1>2, JoinedAt
  <2> QED BY <2>1 DEF NoSystem
<1> QED BY <1>1, <1>2

\* The thoughts of these messages are all later than the n-th thing said.
Later(ms, n) == \A q \in DOMAIN ms : \A i \in Thoughts(ms[q].content) : n < ms[q].content[i].id

LEMMA ThoughtIds ==
    ASSUME NEW m \in FormedSet, NEW i \in Thoughts(m.content)
    PROVE  m.content[i].id \in Nat
<1>1. m.content \in Seq(Pieces)
  BY DEF FormedSet, MessageSet
<1>2. m.content[i] \in Pieces /\ m.content[i].kind = "thinking"
  BY <1>1 DEF Thoughts
<1> QED BY <1>2, BlockIs DEF ThinkSet

LEMMA ThoughtsGrow ==
    ASSUME NEW cv \in Seq(FormedSet), NEW n \in Nat, ThoughtsOK(cv, n),
           NEW ms \in Seq(FormedSet), NEW k \in Nat, n <= k, ThoughtsOK(ms, k), Later(ms, n)
    PROVE  ThoughtsOK(cv \o ms, k)
<1> DEFINE s == cv \o ms
<1>1. \A p \in DOMAIN s : IF p <= Len(cv) THEN p \in DOMAIN cv /\ s[p] = cv[p]
                          ELSE p - Len(cv) \in DOMAIN ms /\ s[p] = ms[p - Len(cv)]
  BY JoinedAt
<1>2. Len(cv) \in Nat /\ DOMAIN s \subseteq Int
  OBVIOUS
<1>3. \A p \in DOMAIN cv : cv[p] \in FormedSet
  OBVIOUS
<1>4. \A p \in DOMAIN ms : ms[p] \in FormedSet
  OBVIOUS
<1> HIDE DEF s
<1>5. ASSUME NEW p \in DOMAIN s
      PROVE  Rising(s[p].content) /\ \A i \in Thoughts(s[p].content) : s[p].content[i].id <= k
  <2>1. CASE p <= Len(cv)
    <3>1. p \in DOMAIN cv /\ s[p] = cv[p]
      BY <1>1, <1>5, <2>1
    <3>2. Rising(cv[p].content) /\ \A i \in Thoughts(cv[p].content) : cv[p].content[i].id <= n
      BY <3>1 DEF ThoughtsOK
    <3>3. \A i \in Thoughts(cv[p].content) : cv[p].content[i].id \in Nat
      BY <1>3, <3>1, ThoughtIds
    <3> QED BY <3>1, <3>2, <3>3
  <2>2. CASE ~(p <= Len(cv))
    <3>1. p - Len(cv) \in DOMAIN ms /\ s[p] = ms[p - Len(cv)]
      BY <1>1, <1>5, <2>2
    <3> QED BY <3>1 DEF ThoughtsOK
  <2> QED BY <2>1, <2>2
<1>6. ASSUME NEW p \in DOMAIN s, NEW q \in DOMAIN s, p < q
      PROVE  Before(s[p].content, s[q].content)
  <2>1. CASE q <= Len(cv)
    <3>1. p \in DOMAIN cv /\ s[p] = cv[p] /\ q \in DOMAIN cv /\ s[q] = cv[q]
      BY <1>1, <1>2, <1>6, <2>1
    <3> QED BY <1>6, <3>1 DEF ThoughtsOK
  <2>2. CASE ~(q <= Len(cv)) /\ p <= Len(cv)
    <3>1. p \in DOMAIN cv /\ s[p] = cv[p] /\ q - Len(cv) \in DOMAIN ms /\ s[q] = ms[q - Len(cv)]
      BY <1>1, <1>6, <2>2
    <3>2. \A i \in Thoughts(cv[p].content) : cv[p].content[i].id <= n /\ cv[p].content[i].id \in Nat
      BY <1>3, <3>1, ThoughtIds DEF ThoughtsOK
    <3>3. \A j \in Thoughts(s[q].content) : n < s[q].content[j].id /\ s[q].content[j].id \in Nat
      BY <1>4, <3>1, ThoughtIds DEF Later
    <3> QED BY <3>1, <3>2, <3>3 DEF Before
  <2>3. CASE ~(p <= Len(cv))
    <3>1. p - Len(cv) \in DOMAIN ms /\ s[p] = ms[p - Len(cv)] /\ q - Len(cv) \in DOMAIN ms /\ s[q] = ms[q - Len(cv)]
          /\ p - Len(cv) < q - Len(cv)
      BY <1>1, <1>2, <1>6, <2>3
    <3> QED BY <3>1 DEF ThoughtsOK
  <2> QED BY <2>1, <2>2, <2>3
<1>7. ThoughtsOK(s, k)
  BY <1>5, <1>6 DEF ThoughtsOK
<1> QED BY <1>7 DEF s

LEMMA NoThoughts ==
    ASSUME NEW ms, NEW n, \A q \in DOMAIN ms : ~Has(ms[q].content, "thinking")
    PROVE  ThoughtsOK(ms, n) /\ Later(ms, n)
<1>1. \A q \in DOMAIN ms : Thoughts(ms[q].content) = {}
  BY DEF Has, Thoughts, Range
<1> QED BY <1>1 DEF ThoughtsOK, Later, Rising, Before

LEMMA BookGrows ==
    ASSUME NEW cv, NEW sd, NEW bs, Book(cv, sd, bs), NEW c, Adds(sd, c), NEW k \in Nat,
           \A i \in DOMAIN c : i > k => c[i].kind = "text",
           NEW ms \in Seq(FormedSet), FirstOnly(cv \o ms), ThoughtsOK(ms, Len(sd) + Len(c)), Later(ms, Len(sd)),
           Flat(TextOf, ms) = Flat(Spared(More(bs, sd, c, k)), c),
           Flat(ImageOf, ms) = Flat(ImageFn, c),
           Flat(UseOf, ms) = Flat(OfKind("tool_use"), c),
           Flat(ResOf, ms) = Flat(OfKind("tool_result"), c)
    PROVE  Book(cv \o ms, sd \o c, More(bs, sd, c, k))
<1>1. cv \in Seq(FormedSet)
  BY DEF Book
<1>2. SaidOK(sd) /\ BesideOK(sd, bs) /\ TheSame(cv, sd, bs) /\ FirstOnly(cv) /\ ThoughtsOK(cv, Len(sd))
  BY DEF Book
<1>3. sd \in Seq(Pieces) /\ c \in Seq(Pieces)
  BY <1>2 DEF SaidOK, Adds
<1>4. cv \o ms \in Seq(FormedSet)
  BY <1>1
<1>5. SaidOK(sd \o c)
  BY <1>2, SaidGrows
<1>6. BesideOK(sd \o c, More(bs, sd, c, k))
  BY <1>2, BesideGrows
<1>7. TheSame(cv \o ms, sd \o c, More(bs, sd, c, k))
  BY <1>1, <1>2, SameGrows
<1>9. ThoughtsOK(cv \o ms, Len(sd) + Len(c))
  <2>1. Len(sd) \in Nat /\ Len(sd) + Len(c) \in Nat /\ Len(sd) <= Len(sd) + Len(c)
    BY <1>3
  <2> QED BY <1>1, <1>2, <2>1, ThoughtsGrow
<1>10. Len(sd \o c) = Len(sd) + Len(c)
  BY <1>3
<1> QED BY <1>4, <1>5, <1>6, <1>7, <1>9, <1>10 DEF Book

-----------------------------------------------------------------------------
(* The calls that wait for a result. *)

IsAnswered(sd, b) == \E r \in Range(sd) : r.kind = "tool_result" /\ r.id = b.id

LEMMA DueIs ==
    ASSUME NEW sd
    PROVE  /\ Into(Due(sd), Pieces, Pieces) /\ Into(Due(sd), Pieces, UseSet)
           /\ \A b \in Pieces : Due(sd)[b] = IF b.kind = "tool_use" /\ ~IsAnswered(sd, b) THEN <<b>> ELSE << >>
<1>1. \A b \in Pieces : Due(sd)[b] = IF b.kind = "tool_use" /\ ~IsAnswered(sd, b) THEN <<b>> ELSE << >>
  BY DEF Due, IsAnswered
<1>2. Due(sd) = [b \in Pieces |-> Due(sd)[b]]
  BY DEF Due
<1>3. \A b \in Pieces : b.kind = "tool_use" => b \in UseSet
  BY BlockIs
<1>4. \A b \in Pieces : Due(sd)[b] \in Seq(Pieces) /\ Due(sd)[b] \in Seq(UseSet)
  <2> SUFFICES ASSUME NEW b \in Pieces PROVE Due(sd)[b] \in Seq(Pieces) /\ Due(sd)[b] \in Seq(UseSet)
    OBVIOUS
  <2>1. CASE b.kind = "tool_use" /\ ~IsAnswered(sd, b)
    <3>1. <<b>> \in Seq(Pieces) /\ <<b>> \in Seq(UseSet)
      BY <2>1, <1>3, OneSeq
    <3>2. Due(sd)[b] = <<b>>
      BY <1>1, <2>1
    <3> QED BY <3>1, <3>2
  <2>2. CASE ~(b.kind = "tool_use" /\ ~IsAnswered(sd, b))
    <3>1. Due(sd)[b] = << >>
      BY <1>1, <2>2
    <3> QED BY <3>1
  <2> QED BY <2>1, <2>2
<1>5. Due(sd) \in [Pieces -> Seq(Pieces)]
  BY <1>2, <1>4
<1>6. Due(sd) \in [Pieces -> Seq(UseSet)]
  BY <1>2, <1>4
<1> QED BY <1>1, <1>5, <1>6 DEF Into

LEMMA OwedIs ==
    ASSUME NEW sd \in Seq(Pieces)
    PROVE  /\ Owed(sd) \in Seq(UseSet)
           /\ Range(Owed(sd)) = {b \in Range(sd) : b.kind = "tool_use" /\ ~IsAnswered(sd, b)}
<1>1. Into(Due(sd), Pieces, Pieces)
  BY DueIs
<1>2. Into(Due(sd), Pieces, UseSet)
  BY DueIs
<1>3. Owed(sd) \in Seq(UseSet)
  BY <1>2, FlatType DEF Owed
<1>4. Range(Owed(sd)) = UNION {Range(Due(sd)[x]) : x \in Range(sd)}
  BY <1>1, FlatRange DEF Owed
<1>5. \A x \in Range(sd) : x \in Pieces
  BY DEF Range
<1>6. \A x \in Range(sd) : Range(Due(sd)[x]) = IF x.kind = "tool_use" /\ ~IsAnswered(sd, x) THEN {x} ELSE {}
  <2> SUFFICES ASSUME NEW x \in Range(sd)
               PROVE  Range(Due(sd)[x]) = IF x.kind = "tool_use" /\ ~IsAnswered(sd, x) THEN {x} ELSE {}
    OBVIOUS
  <2>1. Due(sd)[x] = IF x.kind = "tool_use" /\ ~IsAnswered(sd, x) THEN <<x>> ELSE << >>
    BY <1>5, DueIs
  <2>2. Range(<<x>>) = {x} /\ Range(<< >>) = {}
    BY DEF Range
  <2> QED BY <2>1, <2>2
<1>7. \A x : x \in UNION {Range(Due(sd)[y]) : y \in Range(sd)}
          <=> x \in {b \in Range(sd) : b.kind = "tool_use" /\ ~IsAnswered(sd, b)}
  BY <1>6
<1> QED BY <1>3, <1>4, <1>7

\* Nothing is answered: what waits, waits on, and the calls made now wait too.
LEMMA OwedGrows ==
    ASSUME NEW sd, SaidOK(sd), NEW c, Adds(sd, c), \A b \in Range(c) : b.kind # "tool_result"
    PROVE  Owed(sd \o c) = Owed(sd) \o Flat(OfKind("tool_use"), c)
<1>1. sd \in Seq(Pieces) /\ c \in Seq(Pieces)
  BY DEF SaidOK, Adds
<1> DEFINE s == sd \o c
<1>2. Range(s) = Range(sd) \cup Range(c)
  BY <1>1, RangeJoin
<1>3. \A b : IsAnswered(s, b) <=> IsAnswered(sd, b)
  <2> HIDE DEF s
  <2> QED BY <1>2 DEF IsAnswered
<1>4. Into(Due(s), Pieces, Pieces) /\ Into(Due(sd), Pieces, Pieces)
  BY DueIs
<1>5. Flat(Due(s), s) = Flat(Due(s), sd) \o Flat(Due(s), c)
  BY <1>1, <1>4, FlatJoin
<1>6. Flat(Due(s), sd) = Flat(Due(sd), sd)
  <2>1. \A i \in 1..Len(sd) : Due(s)[sd[i]] = Due(sd)[sd[i]]
    <3> SUFFICES ASSUME NEW i \in 1..Len(sd) PROVE Due(s)[sd[i]] = Due(sd)[sd[i]]
      OBVIOUS
    <3>1. sd[i] \in Pieces
      BY <1>1
    <3> HIDE DEF s
    <3>2. Due(s)[sd[i]] = IF sd[i].kind = "tool_use" /\ ~IsAnswered(s, sd[i]) THEN <<sd[i]>> ELSE << >>
      BY <3>1, DueIs
    <3>3. Due(sd)[sd[i]] = IF sd[i].kind = "tool_use" /\ ~IsAnswered(sd, sd[i]) THEN <<sd[i]>> ELSE << >>
      BY <3>1, DueIs
    <3>4. IsAnswered(s, sd[i]) <=> IsAnswered(sd, sd[i])
      BY <1>3
    <3> QED BY <3>2, <3>3, <3>4
  <2> HIDE DEF s
  <2> QED BY <1>1, <1>4, <2>1, FlatSame
<1>7. Flat(Due(s), c) = Flat(OfKind("tool_use"), c)
  <2> HIDE DEF s
  <2>1. \A i \in 1..Len(c) : Due(s)[c[i]] = OfKind("tool_use")[c[i]]
    <3> SUFFICES ASSUME NEW i \in 1..Len(c) PROVE Due(s)[c[i]] = OfKind("tool_use")[c[i]]
      OBVIOUS
    <3>1. c[i] \in Pieces /\ i \in DOMAIN c
      BY <1>1
    <3>2. ASSUME c[i].kind = "tool_use" PROVE ~IsAnswered(sd, c[i])
      <4>1. c[i].id = Len(sd) + i /\ Len(sd) \in Nat /\ i \in Nat /\ i > 0
        BY <1>1, <3>1, <3>2 DEF Adds
      <4>2. ASSUME NEW r \in Range(sd), r.kind = "tool_result" PROVE r.id <= Len(sd) /\ r.id \in Nat
        <5>1. PICK j \in DOMAIN sd : r = sd[j]
          BY <1>1 DEF Range
        <5>2. r \in Pieces /\ j \in Nat /\ j <= Len(sd)
          BY <1>1, <5>1
        <5>3. r.id < j
          BY <4>2, <5>1 DEF SaidOK
        <5>4. r.id \in Nat
          BY <4>2, <5>2, BlockIs DEF ResultSet
        <5> QED BY <5>2, <5>3, <5>4, <4>1
      <4> QED BY <4>1, <4>2 DEF IsAnswered
    <3>3. Due(s)[c[i]] = IF c[i].kind = "tool_use" /\ ~IsAnswered(s, c[i]) THEN <<c[i]>> ELSE << >>
      BY <3>1, DueIs
    <3> QED BY <1>3, <3>1, <3>2, <3>3 DEF OfKind
  <2>2. Into(OfKind("tool_use"), Pieces, Pieces)
    BY FnTypes
  <2> QED BY <1>1, <1>4, <2>1, <2>2, FlatSame
<1> QED BY <1>5, <1>6, <1>7 DEF Owed

\* All that waited is answered: nothing waits.
LEMMA OwedNoMore ==
    ASSUME NEW sd \in Seq(Pieces), NEW c \in Seq(Pieces), \A b \in Range(c) : b.kind # "tool_use",
           \A b \in Range(Owed(sd)) : IsAnswered(c, b)
    PROVE  Owed(sd \o c) = << >>
<1> DEFINE s == sd \o c
<1>1. s \in Seq(Pieces)
  OBVIOUS
<1>2. Range(s) = Range(sd) \cup Range(c)
  BY RangeJoin
<1> HIDE DEF s
<1>3. \A b \in Range(s) : b.kind = "tool_use" => IsAnswered(s, b)
  <2> SUFFICES ASSUME NEW b \in Range(s), b.kind = "tool_use" PROVE IsAnswered(s, b)
    OBVIOUS
  <2>1. b \in Range(sd)
    BY <1>2
  <2>2. CASE IsAnswered(sd, b)
    BY <1>2, <2>2 DEF IsAnswered
  <2>3. CASE ~IsAnswered(sd, b)
    <3>1. b \in Range(Owed(sd))
      BY <2>1, <2>3, OwedIs
    <3> QED BY <1>2, <3>1 DEF IsAnswered
  <2> QED BY <2>2, <2>3
<1>4. \A i \in 1..Len(s) : Due(s)[s[i]] = << >>
  <2> SUFFICES ASSUME NEW i \in 1..Len(s) PROVE Due(s)[s[i]] = << >>
    OBVIOUS
  <2>1. s[i] \in Pieces /\ s[i] \in Range(s)
    BY <1>1 DEF Range
  <2> QED BY <1>3, <2>1, DueIs
<1>5. Flat(Due(s), s) = << >>
  BY <1>1, <1>4, FlatNone
<1> QED BY <1>5 DEF Owed, s

LEMMA PendingIs ==
    ASSUME said \in Seq(Pieces)
    PROVE  Pending = Owed(said)
<1>1. Pending = FlattenSeq([i \in DOMAIN said |-> IF said[i].kind = "tool_use" /\ ~HasResult(said[i]) THEN <<said[i]>> ELSE << >>])
  BY DEF Pending, Select, Concat, Each
<1>2. \A i \in DOMAIN said : Due(said)[said[i]] = IF said[i].kind = "tool_use" /\ ~HasResult(said[i]) THEN <<said[i]>> ELSE << >>
  <2>1. \A i \in DOMAIN said : said[i] \in Pieces
    OBVIOUS
  <2> QED BY <2>1, DueIs DEF HasResult, IsAnswered
<1> QED BY <1>1, <1>2 DEF Owed, Flat

-----------------------------------------------------------------------------
(* Calls and their results, in a body. *)

CallIds(w) == {w.calls[j].id : j \in DOMAIN w.calls}

LEMMA FollowedIs ==
    ASSUME NEW body \in Seq(Wired), NEW i \in DOMAIN body
    PROVE  Followed(body, i) <=>
              LET n == Len(body[i].calls) IN
              /\ i + n <= Len(body)
              /\ \A j \in 1..n : body[i + j].role = "tool"
              /\ {body[i + j].of : j \in 1..n} = {<<c>> : c \in CallIds(body[i])}
<1> DEFINE calls == body[i].calls
           e == [j \in DOMAIN calls |-> calls[j].id]
<1>1. calls \in Seq(UseSet)
  <2>1. body[i] \in Wired
    OBVIOUS
  <2> QED BY <2>1 DEF Wired
<1>2. \A j \in DOMAIN calls : calls[j].id \in Nat
  <2> HIDE DEF calls
  <2>1. \A j \in DOMAIN calls : calls[j] \in UseSet
    BY <1>1
  <2> QED BY <2>1 DEF UseSet
<1>3. e \in Seq(Nat) /\ Len(e) = Len(calls) /\ DOMAIN e = DOMAIN calls
  <2> HIDE DEF calls
  <2> QED BY <1>1, <1>2
<1>4. Range(e) = CallIds(body[i])
  BY DEF Range, CallIds
<1>5. Each(body[i].calls, LAMBDA b : b.id) = e
  BY DEF Each
<1> HIDE DEF e, calls
<1>6. Followed(body, i) <=> /\ i + Len(e) <= Len(body)
                            /\ \A j \in 1..Len(e) : body[i + j].role = "tool"
                            /\ {body[i + j].of : j \in 1..Len(e)} = {<<c>> : c \in Range(e)}
  BY <1>5 DEF Followed
<1> QED BY <1>3, <1>4, <1>6 DEF calls

LEMMA CalledIs ==
    ASSUME NEW w \in Wired
    PROVE  {b.id : b \in Range(w.calls)} = CallIds(w)
BY DEF Range, CallIds

\* A call has its result right behind it, a result its call before it.
Paired(body, i) ==
    /\ LET n == Len(body[i].calls) IN
          /\ i + n <= Len(body)
          /\ \A j \in 1..n : body[i + j].role = "tool"
          /\ {body[i + j].of : j \in 1..n} = {<<c>> : c \in CallIds(body[i])}
    /\ body[i].role = "tool" => \E j \in 1..(i - 1) : body[i].of[1] \in CallIds(body[j])

LEMMA ClosedIs ==
    ASSUME NEW body \in Seq(Wired)
    PROVE  Settled(body) <=> \A i \in DOMAIN body : Paired(body, i)
<1>1. \A i \in DOMAIN body : body[i] \in Wired
  OBVIOUS
<1>2. \A i \in DOMAIN body : \A j \in 1..(i - 1) : j \in DOMAIN body
  OBVIOUS
<1>3. \A i \in DOMAIN body : (body[i].role = "tool" => \E j \in 1..(i - 1) : body[i].of[1] \in {b.id : b \in Range(body[j].calls)})
                         <=> (body[i].role = "tool" => \E j \in 1..(i - 1) : body[i].of[1] \in CallIds(body[j]))
  BY <1>1, <1>2, CalledIs
<1>4. \A i \in DOMAIN body : Followed(body, i) <=>
              LET n == Len(body[i].calls) IN
              /\ i + n <= Len(body)
              /\ \A j \in 1..n : body[i + j].role = "tool"
              /\ {body[i + j].of : j \in 1..n} = {<<c>> : c \in CallIds(body[i])}
  BY FollowedIs
<1> QED BY <1>3, <1>4 DEF Settled, Paired

LEMMA ClosedJoin ==
    ASSUME NEW s \in Seq(Wired), NEW t \in Seq(Wired), Settled(s), Settled(t)
    PROVE  Settled(s \o t)
<1> DEFINE b == s \o t
<1>1. b \in Seq(Wired)
  OBVIOUS
<1>2. /\ Len(b) = Len(s) + Len(t) /\ Len(s) \in Nat /\ Len(t) \in Nat
      /\ DOMAIN s = 1..Len(s) /\ DOMAIN t = 1..Len(t) /\ DOMAIN b = 1..(Len(s) + Len(t))
  OBVIOUS
<1>3. \A i \in DOMAIN s : b[i] = s[i]
  OBVIOUS
<1>4. \A i \in DOMAIN t : b[Len(s) + i] = t[i]
  OBVIOUS
<1>5. \A i \in DOMAIN s : Paired(s, i)
  BY ClosedIs
<1>6. \A i \in DOMAIN t : Paired(t, i)
  BY ClosedIs
<1>7. \A i \in DOMAIN b : Len(b[i].calls) \in Nat
  <2> HIDE DEF b
  <2>1. \A i \in DOMAIN b : b[i] \in Wired
    BY <1>1
  <2>2. \A i \in DOMAIN b : b[i].calls \in Seq(UseSet)
    BY <2>1 DEF Wired
  <2> QED BY <2>2
<1> HIDE DEF b
<1>8. ASSUME NEW i \in DOMAIN b, i <= Len(s) PROVE Paired(b, i)
  <2>1. i \in DOMAIN s /\ b[i] = s[i] /\ Paired(s, i)
    BY <1>2, <1>3, <1>5, <1>8
  <2> DEFINE n == Len(s[i].calls)
  <2>2. n \in Nat
    BY <1>7, <2>1
  <2>3. i + n <= Len(s)
    BY <2>1 DEF Paired
  <2>4. \A j \in 1..n : b[i + j] = s[i + j]
    BY <1>2, <1>3, <2>1, <2>2, <2>3
  <2>5. i + n <= Len(b) /\ \A j \in 1..n : b[i + j].role = "tool"
    <3>1. \A j \in 1..n : s[i + j].role = "tool"
      BY <2>1 DEF Paired
    <3> HIDE DEF n
    <3> QED BY <1>2, <2>1, <2>2, <2>3, <2>4, <3>1
  <2>6. {b[i + j].of : j \in 1..n} = {<<c>> : c \in CallIds(b[i])}
    <3>1. {s[i + j].of : j \in 1..n} = {<<c>> : c \in CallIds(s[i])}
      BY <2>1 DEF Paired
    <3> HIDE DEF n
    <3> QED BY <2>1, <2>4, <3>1
  <2>7. b[i].role = "tool" => \E j \in 1..(i - 1) : b[i].of[1] \in CallIds(b[j])
    <3>1. b[i].role = "tool" => \E j \in 1..(i - 1) : b[i].of[1] \in CallIds(s[j])
      BY <2>1 DEF Paired
    <3>2. \A j \in 1..(i - 1) : b[j] = s[j]
      BY <1>2, <1>3, <2>1
    <3> QED BY <3>1, <3>2
  <2> QED BY <2>1, <2>5, <2>6, <2>7 DEF Paired
<1>9. ASSUME NEW k \in DOMAIN t PROVE Paired(b, Len(s) + k)
  <2> DEFINE i == Len(s) + k
  <2>1. b[i] = t[k] /\ Paired(t, k) /\ i \in DOMAIN b
    BY <1>2, <1>4, <1>6
  <2> DEFINE n == Len(t[k].calls)
  <2>2. n \in Nat
    BY <1>7, <2>1
  <2>3. k + n <= Len(t)
    BY <2>1 DEF Paired
  <2>4. \A j \in 1..n : b[i + j] = t[k + j]
    <3> SUFFICES ASSUME NEW j \in 1..n PROVE b[i + j] = t[k + j]
      OBVIOUS
    <3>1. k + j \in DOMAIN t /\ i + j = Len(s) + (k + j)
      BY <1>2, <2>2, <2>3
    <3> QED BY <1>4, <3>1
  <2>5. i + n <= Len(b) /\ \A j \in 1..n : b[i + j].role = "tool"
    <3>1. \A j \in 1..n : t[k + j].role = "tool"
      BY <2>1 DEF Paired
    <3>2. i + n <= Len(b)
      BY <1>2, <2>2, <2>3
    <3> HIDE DEF n, i
    <3> QED BY <3>2, <2>4, <3>1
  <2>6. {b[i + j].of : j \in 1..n} = {<<c>> : c \in CallIds(b[i])}
    <3>1. {t[k + j].of : j \in 1..n} = {<<c>> : c \in CallIds(t[k])}
      BY <2>1 DEF Paired
    <3> HIDE DEF n, i
    <3> QED BY <2>1, <2>4, <3>1
  <2>7. b[i].role = "tool" => \E j \in 1..(i - 1) : b[i].of[1] \in CallIds(b[j])
    <3> SUFFICES ASSUME b[i].role = "tool" PROVE \E j \in 1..(i - 1) : b[i].of[1] \in CallIds(b[j])
      OBVIOUS
    <3>1. PICK j \in 1..(k - 1) : t[k].of[1] \in CallIds(t[j])
      BY <2>1 DEF Paired
    <3>2. j \in DOMAIN t /\ Len(s) + j \in 1..(i - 1)
      BY <1>2
    <3>3. b[Len(s) + j] = t[j]
      BY <1>4, <3>2
    <3> HIDE DEF i
    <3> QED BY <2>1, <3>1, <3>2, <3>3
  <2>8. Paired(b, i)
    <3> HIDE DEF i
    <3> QED BY <2>1, <2>5, <2>6, <2>7 DEF Paired
  <2> QED BY <2>8
<1>10. \A i \in DOMAIN b : Paired(b, i)
  <2> SUFFICES ASSUME NEW i \in DOMAIN b PROVE Paired(b, i)
    OBVIOUS
  <2>1. CASE i <= Len(s)
    BY <1>8, <2>1
  <2>2. CASE ~(i <= Len(s))
    <3>1. i - Len(s) \in DOMAIN t /\ Len(s) + (i - Len(s)) = i
      BY <1>2, <2>2
    <3> QED BY <1>9, <3>1
  <2> QED BY <2>1, <2>2
<1>11. Settled(b)
  BY <1>1, <1>10, ClosedIs
<1> QED BY <1>11 DEF b

LEMMA ClosedPlain ==
    ASSUME NEW s \in Seq(Wired), \A i \in DOMAIN s : s[i].calls = << >> /\ s[i].role # "tool"
    PROVE  Settled(s)
<1>1. ASSUME NEW i \in DOMAIN s PROVE Paired(s, i)
  <2>1. s[i].calls = << >> /\ s[i].role # "tool" /\ i \in 1..Len(s) /\ Len(s) \in Nat
    OBVIOUS
  <2>2. CallIds(s[i]) = {}
    BY <2>1 DEF CallIds
  <2>3. 1..Len(s[i].calls) = {}
    BY <2>1
  <2>4. i + Len(s[i].calls) <= Len(s)
    BY <2>1
  <2> QED BY <2>1, <2>2, <2>3, <2>4 DEF Paired
<1> QED BY <1>1, ClosedIs

\* A message with calls, and the results of all of them.
LEMMA ClosedTurn ==
    ASSUME NEW w \in Wired, w.role # "tool", NEW t \in Seq(Wired), Len(t) = Len(w.calls),
           \A i \in DOMAIN t : t[i].role = "tool" /\ t[i].calls = << >>,
           \A i \in DOMAIN t : \E c \in CallIds(w) : t[i].of = <<c>>,
           \A c \in CallIds(w) : \E i \in DOMAIN t : t[i].of = <<c>>
    PROVE  Settled(<<w>> \o t)
<1> DEFINE b == <<w>> \o t
<1>1. b \in Seq(Wired) /\ Len(b) = 1 + Len(t) /\ Len(t) \in Nat /\ DOMAIN b = 1..(1 + Len(t)) /\ DOMAIN t = 1..Len(t)
  OBVIOUS
<1>2. b[1] = w
  OBVIOUS
<1>3. \A j \in DOMAIN t : b[1 + j] = t[j]
  OBVIOUS
<1> HIDE DEF b
<1>4. Paired(b, 1)
  <2>1. {b[1 + j].of : j \in 1..Len(t)} = {<<c>> : c \in CallIds(w)}
    <3>1. \A j \in 1..Len(t) : b[1 + j].of = t[j].of /\ j \in DOMAIN t
      BY <1>1, <1>3
    <3>2. \A j \in 1..Len(t) : \E c \in CallIds(w) : b[1 + j].of = <<c>>
      BY <3>1
    <3>3. \A c \in CallIds(w) : \E j \in 1..Len(t) : b[1 + j].of = <<c>>
      BY <1>1, <3>1
    <3>4. {b[1 + j].of : j \in 1..Len(t)} \subseteq {<<c>> : c \in CallIds(w)}
      BY <3>2
    <3>5. {<<c>> : c \in CallIds(w)} \subseteq {b[1 + j].of : j \in 1..Len(t)}
      BY <3>3
    <3> QED BY <3>4, <3>5
  <2>2. \A j \in 1..Len(t) : b[1 + j].role = "tool"
    BY <1>1, <1>3
  <2> QED BY <1>1, <1>2, <2>1, <2>2 DEF Paired
<1>5. ASSUME NEW j \in DOMAIN t PROVE Paired(b, 1 + j)
  <2>1. b[1 + j].calls = << >> /\ b[1 + j].role = "tool"
    BY <1>3
  <2>2. CallIds(b[1 + j]) = {} /\ 1..Len(b[1 + j].calls) = {} /\ Len(b[1 + j].calls) = 0
    BY <2>1 DEF CallIds
  <2>3. (1 + j) + Len(b[1 + j].calls) <= Len(b)
    BY <1>1, <2>2
  <2>4. PICK c \in CallIds(w) : t[j].of = <<c>>
    OBVIOUS
  <2>5. b[1 + j].of[1] \in CallIds(b[1]) /\ 1 \in 1..((1 + j) - 1)
    BY <1>1, <1>2, <1>3, <2>4
  <2> QED BY <2>1, <2>2, <2>3, <2>5 DEF Paired
<1>6. \A i \in DOMAIN b : Paired(b, i)
  <2> SUFFICES ASSUME NEW i \in DOMAIN b PROVE Paired(b, i)
    OBVIOUS
  <2>1. CASE i = 1
    BY <1>4, <2>1
  <2>2. CASE i # 1
    <3>1. i - 1 \in DOMAIN t /\ 1 + (i - 1) = i
      BY <1>1, <2>2
    <3> QED BY <1>5, <3>1
  <2> QED BY <2>1, <2>2
<1>7. Settled(b)
  BY <1>1, <1>6, ClosedIs
<1> QED BY <1>7 DEF b

-----------------------------------------------------------------------------
(* Steps that leave the dialect as it is. *)

LEMMA Unmoved ==
    ASSUME dialect' = dialect
    PROVE  /\ FormedSet' = FormedSet
           /\ TextOf' = TextOf /\ ImageOf' = ImageOf /\ UseOf' = UseOf /\ ResOf' = ResOf /\ ChatOf' = ChatOf
<1>1. FormedSet' = FormedSet
  BY DEF FormedSet, Formed
<1>2. \A m : FromClient(m)' = FromClient(m)
  BY DEF FromClient, FromResponses, FromChat, FromAnthropic
<1>3. TextOf' = TextOf
  BY <1>1 DEF TextOf
<1>4. ImageOf' = ImageOf
  BY <1>1 DEF ImageOf
<1>5. UseOf' = UseOf
  BY <1>1 DEF UseOf
<1>6. ResOf' = ResOf
  BY <1>1 DEF ResOf
<1>7. ChatOf' = ChatOf
  BY <1>1, <1>2 DEF ChatOf
<1> QED BY <1>1, <1>3, <1>4, <1>5, <1>6, <1>7

LEMMA BodiesUnmoved ==
    ASSUME dialect' = dialect, offers' = offers, conv' = conv, NEW model, NEW wish
    PROVE  ChatBody(model, wish)' = ChatBody(model, wish) /\ ResponsesBody(model, wish)' = ResponsesBody(model, wish)
<1>1. Canonical' = Canonical
  BY DEF Canonical, Each, FromClient
<1>2. Offered' = Offered /\ Effort(wish)' = Effort(wish)
  BY DEF Offered, Effort
<1>3. ChatBody(model, wish)' = ChatBody(model, wish)
  BY <1>1, <1>2 DEF ChatBody
<1>4. ResponsesBody(model, wish)' = ResponsesBody(model, wish)
  BY <1>1, <1>2 DEF ResponsesBody
<1> QED BY <1>3, <1>4

LEMMA Kept ==
    ASSUME dialect' = dialect, offers' = offers, dialect \in {"messages", "chat", "responses"},
           offers \subseteq {"function", "custom", "web", "other"},
           whose' \in {"user", "tools", "ready", "sent"},
           Book(conv', said', beside'),
           whose' = "tools" <=> Owed(said') # << >>,
           ~Apart' => Order(whose', conv', said'),
           whose' = "sent" => WireOK'
    PROVE  ConversationInv'
<1>1. Book(conv, said, beside)'
  BY Unmoved DEF Book, TheSame
<1>2. Order(whose', conv', said') => Order(whose, conv, said)'
  BY Unmoved DEF Order, Open
<1>3. (whose = "tools" <=> Owed(said) # << >>)'
  OBVIOUS
<1> QED BY <1>1, <1>2, <1>3 DEF ConversationInv

LEMMA WireUnmoved ==
    ASSUME dialect' = dialect, offers' = offers, conv' = conv, wire' = wire, WireOK
    PROVE  WireOK'
<1>1. PICK model \in Catalog, wish \in Wishes : wire \in {ChatBody(model, wish), ResponsesBody(model, wish)}
  BY DEF WireOK
<1>2. wire' \in {ChatBody(model, wish)', ResponsesBody(model, wish)'}
  BY <1>1, BodiesUnmoved
<1>3. \E m \in Catalog, w \in Wishes : wire' \in {ChatBody(m, w)', ResponsesBody(m, w)'}
  BY <1>2
<1> QED BY <1>3 DEF WireOK

LEMMA StuttersKeep == ASSUME ConversationInv, UNCHANGED vars PROVE ConversationInv'
<1>1. /\ dialect' = dialect /\ offers' = offers /\ conv' = conv /\ whose' = whose /\ wire' = wire
      /\ said' = said /\ beside' = beside
  BY DEF vars
<1>2. Book(conv', said', beside') /\ (whose' = "tools" <=> Owed(said') # << >>)
  BY <1>1 DEF ConversationInv
<1>3. Apart' = Apart
  BY <1>1 DEF Apart
<1>4. ~Apart' => Order(whose', conv', said')
  BY <1>1, <1>3 DEF ConversationInv
<1>5. whose' = "sent" => WireOK'
  BY <1>1, WireUnmoved DEF ConversationInv
<1>6. /\ dialect \in {"messages", "chat", "responses"} /\ offers \subseteq {"function", "custom", "web", "other"}
      /\ whose' \in {"user", "tools", "ready", "sent"}
  BY <1>1 DEF ConversationInv
<1> QED BY <1>1, <1>2, <1>4, <1>5, <1>6, Kept

\* The conversation goes back and forth between the client and the worker.
LEMMA SendKeeps == ASSUME ConversationInv, Send PROVE ConversationInv'
<1>1. /\ dialect' = dialect /\ offers' = offers /\ conv' = conv /\ whose = "ready" /\ whose' = "sent"
      /\ said' = said /\ beside' = beside
      /\ \E model \in Catalog, wish \in Wishes :
            wire' = IF UsesResponses(model) THEN ResponsesBody(model, wish) ELSE ChatBody(model, wish)
  BY DEF Send
<1>2. Book(conv', said', beside') /\ (whose' = "tools" <=> Owed(said') # << >>)
  BY <1>1 DEF ConversationInv
<1>3. Apart' = Apart
  BY <1>1 DEF Apart
<1>4. ~Apart' => Order(whose', conv', said')
  BY <1>1, <1>3 DEF ConversationInv, Order
<1>5. WireOK'
  <2>1. PICK model \in Catalog, wish \in Wishes :
            wire' = IF UsesResponses(model) THEN ResponsesBody(model, wish) ELSE ChatBody(model, wish)
    BY <1>1
  <2>2. wire' \in {ChatBody(model, wish)', ResponsesBody(model, wish)'}
    BY <1>1, <2>1, BodiesUnmoved
  <2>3. \E m \in Catalog, w \in Wishes : wire' \in {ChatBody(m, w)', ResponsesBody(m, w)'}
    BY <2>2
  <2> QED BY <2>3 DEF WireOK
<1>6. /\ dialect \in {"messages", "chat", "responses"} /\ offers \subseteq {"function", "custom", "web", "other"}
      /\ whose' \in {"user", "tools", "ready", "sent"}
  BY <1>1 DEF ConversationInv
<1> QED BY <1>1, <1>2, <1>4, <1>5, <1>6, Kept

LEMMA RedirectedKeeps == ASSUME ConversationInv, Redirected PROVE ConversationInv'
<1>1. /\ dialect' = dialect /\ offers' = offers /\ conv' = conv /\ whose = "sent" /\ whose' = whose
      /\ said' = said /\ beside' = beside /\ wire.to = "/chat/completions"
      /\ wire' = ResponsesBody(wire.model, wire.wish)
  BY DEF Redirected
<1>2. Book(conv', said', beside') /\ (whose' = "tools" <=> Owed(said') # << >>)
  BY <1>1 DEF ConversationInv
<1>3. Apart' = Apart
  BY <1>1 DEF Apart
<1>4. ~Apart' => Order(whose', conv', said')
  BY <1>1, <1>3 DEF ConversationInv, Order
<1>5. WireOK'
  <2>1. PICK model \in Catalog, wish \in Wishes : wire \in {ChatBody(model, wish), ResponsesBody(model, wish)}
    BY <1>1 DEF ConversationInv, WireOK
  <2>2. wire.model = model /\ wire.wish = wish
    <3>1. ChatBody(model, wish).model = model /\ ChatBody(model, wish).wish = wish
      BY Zenon DEF ChatBody
    <3>2. ResponsesBody(model, wish).model = model /\ ResponsesBody(model, wish).wish = wish
      BY Zenon DEF ResponsesBody
    <3> QED BY <2>1, <3>1, <3>2
  <2>3. wire' \in {ChatBody(model, wish)', ResponsesBody(model, wish)'}
    BY <1>1, <2>2, BodiesUnmoved
  <2>4. \E m \in Catalog, w \in Wishes : wire' \in {ChatBody(m, w)', ResponsesBody(m, w)'}
    BY <2>3
  <2> QED BY <2>4 DEF WireOK
<1>6. /\ dialect \in {"messages", "chat", "responses"} /\ offers \subseteq {"function", "custom", "web", "other"}
      /\ whose' \in {"user", "tools", "ready", "sent"}
  BY <1>1 DEF ConversationInv
<1> QED BY <1>1, <1>2, <1>4, <1>5, <1>6, Kept

LEMMA FailsKeeps == ASSUME ConversationInv, Fails PROVE ConversationInv'
<1>1. /\ dialect' = dialect /\ offers' = offers /\ conv' = conv /\ whose = "sent" /\ whose' = "ready"
      /\ said' = said /\ beside' = beside
  BY DEF Fails
<1>2. Book(conv', said', beside') /\ (whose' = "tools" <=> Owed(said') # << >>)
  BY <1>1 DEF ConversationInv
<1>3. Apart' = Apart
  BY <1>1 DEF Apart
<1>4. ~Apart' => Order(whose', conv', said')
  BY <1>1, <1>3 DEF ConversationInv, Order
<1>6. /\ dialect \in {"messages", "chat", "responses"} /\ offers \subseteq {"function", "custom", "web", "other"}
      /\ whose' \in {"user", "tools", "ready", "sent"}
  BY <1>1 DEF ConversationInv
<1> QED BY <1>1, <1>2, <1>4, <1>6, Kept

-----------------------------------------------------------------------------
(* Nothing is said beside results. *)

LEMMA AllSpared ==
    ASSUME NEW sd, SaidOK(sd), NEW bs, BesideOK(sd, bs), NEW c, Adds(sd, c)
    PROVE  /\ More(bs, sd, c, Len(c)) = bs
           /\ Flat(Spared(bs), c) = Flat(TextFn, c)
<1>1. sd \in Seq(Pieces) /\ c \in Seq(Pieces)
  BY DEF SaidOK, Adds
<1>2. ~(\E i \in DOMAIN (sd \o c) : i > Len(sd) + Len(c))
  BY <1>1
<1>3. More(bs, sd, c, Len(c)) = bs
  BY <1>2 DEF More
<1>4. \A i \in 1..Len(c) : Spared(bs)[c[i]] = TextFn[c[i]]
  <2> SUFFICES ASSUME NEW i \in 1..Len(c) PROVE Spared(bs)[c[i]] = TextFn[c[i]]
    OBVIOUS
  <2>1. c[i] \in Pieces /\ i \in DOMAIN c /\ Len(sd) \in Nat /\ i > 0 /\ i \in Int
    BY <1>1
  <2>2. c[i].kind = "text" => c[i].ids = <<Len(sd) + i>>
    BY <2>1 DEF Adds
  <2>3. \A j \in bs : j \in DOMAIN sd
    BY DEF BesideOK
  <2>4. \A j \in bs : j # Len(sd) + i
    BY <1>1, <2>1, <2>3
  <2>5. \A j : <<Len(sd) + i>> = <<j>> <=> Len(sd) + i = j
    OBVIOUS
  <2>6. c[i].kind = "text" => ~(\E j \in bs : c[i].ids = <<j>>)
    BY <2>2, <2>4, <2>5
  <2> QED BY <2>1, <2>6 DEF Spared, TextFn
<1>5. Into(Spared(bs), Pieces, Nat) /\ Into(TextFn, Pieces, Nat)
  BY SparedType, FnTypes
<1>6. Flat(Spared(bs), c) = Flat(TextFn, c)
  BY <1>1, <1>4, <1>5, FlatSame
<1> QED BY <1>3, <1>6

LEMMA BookAdds ==
    ASSUME NEW cv, NEW sd, NEW bs, Book(cv, sd, bs), NEW c, Adds(sd, c),
           NEW ms \in Seq(FormedSet), FirstOnly(cv \o ms), ThoughtsOK(ms, Len(sd) + Len(c)), Later(ms, Len(sd)),
           Flat(TextOf, ms) = Flat(TextFn, c),
           Flat(ImageOf, ms) = Flat(ImageFn, c),
           Flat(UseOf, ms) = Flat(OfKind("tool_use"), c),
           Flat(ResOf, ms) = Flat(OfKind("tool_result"), c)
    PROVE  Book(cv \o ms, sd \o c, bs)
<1>1. SaidOK(sd) /\ BesideOK(sd, bs) /\ c \in Seq(Pieces)
  BY DEF Book, Adds
<1>2. More(bs, sd, c, Len(c)) = bs /\ Flat(Spared(bs), c) = Flat(TextFn, c)
  BY <1>1, AllSpared
<1>3. Len(c) \in Nat /\ \A i \in DOMAIN c : i > Len(c) => c[i].kind = "text"
  BY <1>1
<1>4. Flat(TextOf, ms) = Flat(Spared(More(bs, sd, c, Len(c))), c)
  BY <1>2
<1>5. Book(cv \o ms, sd \o c, More(bs, sd, c, Len(c)))
  BY <1>3, <1>4, BookGrows
<1> QED BY <1>2, <1>5

LEMMA OneThoughts ==
    ASSUME NEW sd \in Seq(Pieces), NEW c, Adds(sd, c), NEW m, m.content = c
    PROVE  ThoughtsOK(<<m>>, Len(sd) + Len(c)) /\ Later(<<m>>, Len(sd))
<1>1. c \in Seq(Pieces) /\ Len(sd) \in Nat /\ DOMAIN c = 1..Len(c) /\ Len(c) \in Nat
  BY DEF Adds
<1>2. \A i \in Thoughts(c) : c[i].id = Len(sd) + i /\ i \in DOMAIN c
  BY DEF Thoughts, Adds
<1>3. DOMAIN <<m>> = {1} /\ <<m>>[1] = m
  OBVIOUS
<1>4. Rising(c)
  BY <1>1, <1>2 DEF Rising
<1>5. \A i \in Thoughts(c) : c[i].id <= Len(sd) + Len(c) /\ Len(sd) < c[i].id
  BY <1>1, <1>2
<1> QED BY <1>3, <1>4, <1>5 DEF ThoughtsOK, Later

\* A message that says all that is said.
LEMMA WholeMessage ==
    ASSUME NEW cv, NEW sd, NEW bs, Book(cv, sd, bs), NEW c, Adds(sd, c), ~Has(c, "tool_result"),
           NEW m \in FormedSet, m.content = c, FirstOnly(cv \o <<m>>)
    PROVE  Book(cv \o <<m>>, sd \o c, bs)
<1>1. sd \in Seq(Pieces) /\ c \in Seq(Pieces)
  BY DEF Book, SaidOK, Adds
<1>2. TextIds(c) = Flat(TextFn, c) /\ IdsOf(Only(c, "image")) = Flat(ImageFn, c)
      /\ Only(c, "tool_use") = Flat(OfKind("tool_use"), c) /\ Only(c, "tool_result") = Flat(OfKind("tool_result"), c)
  BY <1>1, TextIdsIs, IdsIs, OnlyIs
<1>3. TextOf[m] = Flat(TextFn, c) /\ ImageOf[m] = Flat(ImageFn, c) /\ UseOf[m] = Flat(OfKind("tool_use"), c)
      /\ ResOf[m] = Flat(OfKind("tool_result"), c)
  BY <1>2 DEF TextOf, ImageOf, UseOf, ResOf
<1> DEFINE ms == <<m>>
<1>4. Flat(TextOf, ms) = TextOf[m] /\ Flat(ImageOf, ms) = ImageOf[m] /\ Flat(UseOf, ms) = UseOf[m]
      /\ Flat(ResOf, ms) = ResOf[m]
  BY FlatOne
<1>5. ThoughtsOK(ms, Len(sd) + Len(c)) /\ Later(ms, Len(sd))
  BY <1>1, OneThoughts
<1>6. ms \in Seq(FormedSet) /\ FirstOnly(cv \o ms)
  BY OneSeq
<1> HIDE DEF ms
<1>7. Book(cv \o ms, sd \o c, bs)
  BY <1>3, <1>4, <1>5, <1>6, BookAdds
<1> QED BY <1>7 DEF ms

-----------------------------------------------------------------------------
(* The order of calls and results. *)

LEMMA ApartGrows ==
    ASSUME conv \in Seq(FormedSet), NEW ms \in Seq(FormedSet), conv' = conv \o ms, dialect' = dialect, ~Apart'
    PROVE  /\ ~Apart
           /\ dialect = "responses" =>
                 \A i \in 1..(Len(ms) - 1) : ~(Has(ms[i].content, "tool_use") /\ ms[i + 1].role = "assistant")
<1>1. /\ Len(conv') = Len(conv) + Len(ms) /\ Len(conv) \in Nat /\ Len(ms) \in Nat
      /\ \A i \in 1..Len(conv) : conv'[i] = conv[i]
      /\ \A i \in 1..Len(ms) : conv'[Len(conv) + i] = ms[i]
  OBVIOUS
<1>2. dialect = "responses" =>
          \A i \in 1..(Len(conv') - 1) : ~(Has(conv'[i].content, "tool_use") /\ conv'[i + 1].role = "assistant")
  BY DEF Apart
<1>3. ~Apart
  <2> SUFFICES ASSUME dialect = "responses", NEW i \in 1..(Len(conv) - 1),
                      Has(conv[i].content, "tool_use"), conv[i + 1].role = "assistant"
               PROVE  FALSE
    BY DEF Apart
  <2>1. i \in 1..(Len(conv') - 1) /\ conv'[i] = conv[i] /\ conv'[i + 1] = conv[i + 1]
    BY <1>1
  <2> QED BY <1>2, <2>1
<1>4. ASSUME dialect = "responses", NEW i \in 1..(Len(ms) - 1), Has(ms[i].content, "tool_use"),
             ms[i + 1].role = "assistant"
      PROVE  FALSE
  <2> DEFINE j == Len(conv) + i
  <2>1. i \in 1..Len(ms) /\ i + 1 \in 1..Len(ms)
    BY <1>1
  <2>2. conv'[Len(conv) + i] = ms[i] /\ conv'[Len(conv) + (i + 1)] = ms[i + 1]
    BY <1>1, <2>1
  <2>3. j \in 1..(Len(conv') - 1) /\ conv'[j] = ms[i] /\ conv'[j + 1] = ms[i + 1]
    BY <1>1, <2>2
  <2> HIDE DEF j
  <2> QED BY <1>2, <1>4, <2>3
<1> QED BY <1>3, <1>4

LEMMA PlainMessages ==
    ASSUME dialect \in {"messages", "chat", "responses"}, NEW ms \in Seq(FormedSet),
           \A i \in DOMAIN ms : ~Has(ms[i].content, "tool_result") /\ UseOf[ms[i]] = << >>
    PROVE  Settled(Flat(ChatOf, ms))
<1> DEFINE b == Flat(ChatOf, ms)
<1>1. Into(ChatOf, FormedSet, Wired)
  BY MoreTypes
<1>2. b \in Seq(Wired)
  BY <1>1, FlatType
<1>3. Range(b) = UNION {Range(ChatOf[x]) : x \in Range(ms)}
  BY <1>1, FlatRange
<1> HIDE DEF b
<1>4. \A i \in DOMAIN b : b[i].calls = << >> /\ b[i].role # "tool"
  <2> SUFFICES ASSUME NEW i \in DOMAIN b PROVE b[i].calls = << >> /\ b[i].role # "tool"
    OBVIOUS
  <2>1. b[i] \in Range(b)
    BY DEF Range
  <2>2. PICK x \in Range(ms) : b[i] \in Range(ChatOf[x])
    BY <1>3, <2>1
  <2>3. PICK p \in DOMAIN ms : x = ms[p]
    BY DEF Range
  <2>4. x \in FormedSet /\ ~Has(x.content, "tool_result") /\ UseOf[x] = << >>
    BY <2>3
  <2>5. PICK w \in Wired : ChatOf[x] = <<w>> /\ w.role # "tool" /\ w.calls = Flat(AsFunction, UseOf[x])
    BY <2>4, ChatIs
  <2>6. w.calls = << >>
    BY <2>4, <2>5, FlatEmpty
  <2>7. b[i] = w
    BY <2>2, <2>5 DEF Range
  <2> QED BY <2>5, <2>6, <2>7
<1>5. Settled(b)
  BY <1>2, <1>4, ClosedPlain
<1> QED BY <1>5 DEF b

LEMMA ClosedGrows ==
    ASSUME dialect \in {"messages", "chat", "responses"}, NEW cv \in Seq(FormedSet), NEW ms \in Seq(FormedSet),
           Settled(Flat(ChatOf, cv)), Settled(Flat(ChatOf, ms))
    PROVE  Settled(Flat(ChatOf, cv \o ms))
<1>1. Into(ChatOf, FormedSet, Wired)
  BY MoreTypes
<1>2. Flat(ChatOf, cv) \in Seq(Wired)
  BY <1>1, FlatType
<1>3. Flat(ChatOf, ms) \in Seq(Wired)
  BY <1>1, FlatType
<1>4. Flat(ChatOf, cv \o ms) = Flat(ChatOf, cv) \o Flat(ChatOf, ms)
  BY <1>1, FlatJoin
<1> QED BY <1>2, <1>3, <1>4, ClosedJoin

LEMMA MessageIs ==
    ASSUME NEW role \in Roles \ {"tool"}, NEW c \in Seq(Pieces), c # << >> \/ dialect # "responses",
           ~Has(c, "tool_result"), dialect = "messages" \/ ~Has(c, "thinking")
    PROVE  LET m == Message(role, c) IN m \in FormedSet /\ m.content = c /\ m.role = role
<1> DEFINE m == Message(role, c)
<1>1. m \in MessageSet /\ m.content = c /\ m.role = role
  BY DEF Message, MessageSet
<1> HIDE DEF m
<1>2. Formed(m)
  BY <1>1 DEF Formed
<1>3. m \in FormedSet
  BY <1>1, <1>2 DEF FormedSet
<1> QED BY <1>1, <1>3 DEF m

\* Texts and images: what users and systems say.
LEMMA TextBlock == ASSUME NEW i \in Nat
                   PROVE  LET b == Text(<<i>>) IN b \in Pieces /\ b.kind = "text" /\ b.ids = <<i>>
<1>1. <<i>> \in Seq(Nat)
  OBVIOUS
<1> QED BY <1>1 DEF Text, Pieces, TextSet

LEMMA ImageBlock == ASSUME NEW i \in Nat
                    PROVE  LET b == Image(i) IN b \in Pieces /\ b.kind = "image" /\ b.id = i
BY DEF Image, Pieces, ImageSet

LEMMA TwoSeq == ASSUME NEW S, NEW a \in S, NEW b \in S PROVE <<a>> \o <<b>> = <<a, b>>
<1> DEFINE s == <<a>>  t == <<b>>  u == <<a, b>>
<1>1. s \in Seq(S) /\ Len(s) = 1 /\ s[1] = a /\ t \in Seq(S) /\ Len(t) = 1 /\ t[1] = b
  OBVIOUS
<1>2. u \in Seq(S) /\ Len(u) = 2 /\ u[1] = a /\ u[2] = b
  OBVIOUS
<1> HIDE DEF s, t, u
<1>3. s \o t \in Seq(S) /\ Len(s \o t) = 2 /\ (s \o t)[1] = a /\ (s \o t)[2] = b
  <2>6. s \in Seq(S) /\ t \in Seq(S)
    BY <1>1
  <2>7. s \o t \in Seq(S) /\ Len(s \o t) = Len(s) + Len(t) /\ DOMAIN (s \o t) = 1..(Len(s) + Len(t))
    BY <2>6, JoinedAt
  <2>1. s \o t \in Seq(S) /\ Len(s \o t) = 2 /\ DOMAIN (s \o t) = 1..2
    BY <1>1, <2>7
  <2>2. \A i \in DOMAIN (s \o t) : (s \o t)[i] = IF i <= Len(s) THEN s[i] ELSE t[i - Len(s)]
    BY <2>6, JoinedAt
  <2>3. 1 \in DOMAIN (s \o t) /\ 2 \in DOMAIN (s \o t)
    BY <2>1
  <2>4. (s \o t)[1] = s[1]
    BY <1>1, <2>2, <2>3
  <2>5. (s \o t)[2] = t[1]
    <3>1. ~(2 <= Len(s)) /\ 2 - Len(s) = 1
      BY <1>1
    <3> QED BY <3>1, <2>2, <2>3
  <2> QED BY <1>1, <2>1, <2>4, <2>5
<1>4. \A i \in 1..2 : (s \o t)[i] = u[i]
  BY <1>2, <1>3
<1>5. s \o t = u
  BY <1>2, <1>3, <1>4, SeqEqual
<1> QED BY <1>5 DEF s, t, u

LEMMA Written ==
    ASSUME NEW sd, NEW c \in Seq(Pieces), \A i \in DOMAIN c : c[i].kind \in {"text", "image"},
           \A i \in DOMAIN c : /\ c[i].kind = "text" => c[i].ids = <<Len(sd) + i>>
                               /\ c[i].kind = "image" => c[i].id = Len(sd) + i
    PROVE  /\ Adds(sd, c) /\ ~Has(c, "tool_result") /\ ~Has(c, "thinking")
           /\ Only(c, "tool_use") = << >> /\ Flat(OfKind("tool_use"), c) = << >>
           /\ \A b \in Range(c) : b.kind # "tool_result"
<1>1. \A b \in Range(c) : b.kind \in {"text", "image"}
  BY DEF Range
<1>2. ~Has(c, "tool_result") /\ ~Has(c, "thinking") /\ ~Has(c, "tool_use")
  BY <1>1 DEF Has
<1>3. Flat(OfKind("tool_use"), c) = << >> /\ Only(c, "tool_use") = << >>
  BY <1>2, NoneOf, OnlyIs
<1>4. \A i \in DOMAIN c : c[i].kind \notin {"thinking", "tool_use", "tool_result"}
  OBVIOUS
<1>5. \A i \in DOMAIN c : /\ c[i].kind = "text" => c[i].ids = <<Len(sd) + i>>
                          /\ c[i].kind \in {"image", "thinking", "tool_use"} => c[i].id = Len(sd) + i
                          /\ c[i].kind = "tool_result" => c[i].id <= Len(sd)
  BY <1>4
<1>6. Adds(sd, c)
  BY <1>1, <1>5 DEF Adds
<1> QED BY <1>1, <1>2, <1>3, <1>6

LEMMA EmptyBook == Book(<< >>, << >>, {}) /\ Owed(<< >>) = << >> /\ Settled(Flat(ChatOf, << >>))
<1>1. << >> \in Seq(FormedSet) /\ << >> \in Seq(Pieces) /\ << >> \in Seq(Wired) /\ DOMAIN << >> = {}
  OBVIOUS
<1>2. Range(<< >>) = {}
  BY DEF Range
<1>3. SaidOK(<< >>) /\ BesideOK(<< >>, {})
  BY <1>1, <1>2 DEF SaidOK, BesideOK
<1>4. TheSame(<< >>, << >>, {})
  BY FlatEmpty DEF TheSame
<1>5. FirstOnly(<< >>) /\ ThoughtsOK(<< >>, Len(<< >>))
  BY <1>1 DEF FirstOnly, ThoughtsOK
<1>6. Owed(<< >>) = << >>
  BY FlatEmpty DEF Owed
<1>7. Settled(<< >>)
  BY <1>1 DEF Settled
<1>8. Flat(ChatOf, << >>) = << >>
  BY FlatEmpty
<1> QED BY <1>1, <1>3, <1>4, <1>5, <1>6, <1>7, <1>8 DEF Book

\* A message with a text, and perhaps an image, is added.
LEMMA WrittenGrows ==
    ASSUME dialect \in {"messages", "chat", "responses"}, NEW cv, NEW sd, NEW bs, Book(cv, sd, bs),
           NEW c \in Seq(Pieces), c # << >>, \A i \in DOMAIN c : c[i].kind \in {"text", "image"},
           \A i \in DOMAIN c : /\ c[i].kind = "text" => c[i].ids = <<Len(sd) + i>>
                               /\ c[i].kind = "image" => c[i].id = Len(sd) + i,
           NEW role \in Roles \ {"tool"}, FirstOnly(cv \o <<Message(role, c)>>)
    PROVE  LET ms == <<Message(role, c)>> IN
           /\ Book(cv \o ms, sd \o c, bs)
           /\ Owed(sd \o c) = Owed(sd)
           /\ Settled(Flat(ChatOf, ms)) /\ ms \in Seq(FormedSet)
<1>1. sd \in Seq(Pieces) /\ SaidOK(sd) /\ cv \in Seq(FormedSet)
  BY DEF Book, SaidOK
<1>2. /\ Adds(sd, c) /\ ~Has(c, "tool_result") /\ ~Has(c, "thinking")
      /\ Only(c, "tool_use") = << >> /\ Flat(OfKind("tool_use"), c) = << >>
      /\ \A b \in Range(c) : b.kind # "tool_result"
  BY Written
<1> DEFINE m == Message(role, c)
<1>3. m \in FormedSet /\ m.content = c /\ m.role = role
  BY <1>2, MessageIs
<1>4. FirstOnly(cv \o <<m>>)
  OBVIOUS
<1> HIDE DEF m
<1>5. Book(cv \o <<m>>, sd \o c, bs)
  BY <1>2, <1>3, <1>4, WholeMessage
<1>6. Owed(sd \o c) = Owed(sd) \o Flat(OfKind("tool_use"), c)
  BY <1>1, <1>2, OwedGrows
<1>7. Owed(sd) \in Seq(UseSet)
  BY <1>1, OwedIs
<1>8. Owed(sd \o c) = Owed(sd)
  BY <1>2, <1>6, <1>7
<1>9. <<m>> \in Seq(FormedSet)
  BY <1>3, OneSeq
<1>10. UseOf[m] = << >>
  BY <1>2, <1>3 DEF UseOf
<1>11. \A i \in DOMAIN <<m>> : ~Has(<<m>>[i].content, "tool_result") /\ UseOf[<<m>>[i]] = << >>
  BY <1>2, <1>3, <1>10
<1>12. Settled(Flat(ChatOf, <<m>>))
  <2> DEFINE ms == <<m>>
  <2>1. ms \in Seq(FormedSet) /\ \A i \in DOMAIN ms : ~Has(ms[i].content, "tool_result") /\ UseOf[ms[i]] = << >>
    BY <1>9, <1>11
  <2> HIDE DEF ms
  <2>2. Settled(Flat(ChatOf, ms))
    BY <2>1, PlainMessages
  <2> QED BY <2>2 DEF ms
<1> QED BY <1>5, <1>8, <1>9, <1>12 DEF m

LEMMA ConversationBegins == ASSUME Init PROVE ConversationInv
<1>1. /\ dialect \in {"messages", "chat", "responses"} /\ offers \in SUBSET Tools
      /\ whose = "user" /\ beside = {}
  BY DEF Init
<1>2. PICK role \in {"none", "system", "developer"} :
          /\ conv = IF role = "none" THEN << >> ELSE <<Message(role, <<Text(<<1>>)>>)>>
          /\ said = IF role = "none" THEN << >> ELSE <<Text(<<1>>)>>
  BY DEF Init
<1>3. Tools \subseteq {"function", "custom", "web", "other"}
  BY <1>1 DEF Tools
<1>4. Book(conv, said, beside) /\ Owed(said) = << >> /\ Settled(Flat(ChatOf, conv))
  <2>1. CASE role = "none"
    <3>1. conv = << >> /\ said = << >>
      BY <1>2, <2>1
    <3> QED BY <1>1, <3>1, EmptyBook
  <2>2. CASE role # "none"
    <3> DEFINE t == Text(<<1>>)  c == <<t>>  m == Message(role, c)
    <3>1. t \in Pieces /\ t.kind = "text" /\ t.ids = <<1>>
      BY TextBlock
    <3>2. conv = <<m>> /\ said = c
      BY <1>2, <2>2
    <3>3. role \in Roles \ {"tool"}
      BY <2>2 DEF Roles
    <3>4. m.content = <<Text(<<1>>)>>
      BY DEF Message
    <3>11. <<Text(<<1>>)>> = c
      OBVIOUS
    <3> HIDE DEF t
    <3>5. c \in Seq(Pieces) /\ c # << >> /\ DOMAIN c = {1} /\ c[1] = t /\ Len(<< >>) = 0
      BY <3>1
    <3>6. \A i \in DOMAIN c : /\ c[i].kind \in {"text", "image"}
                              /\ c[i].kind = "text" => c[i].ids = <<Len(<< >>) + i>>
                              /\ c[i].kind = "image" => c[i].id = Len(<< >>) + i
      BY <3>1, <3>5
    <3> HIDE DEF c, m
    <3>7. << >> \o <<m>> = <<m>> /\ << >> \o c = c
      BY <3>5
    <3>8. FirstOnly(<<m>>)
      BY <3>4 DEF FirstOnly
    <3>9. FirstOnly(<< >> \o <<Message(role, c)>>)
      BY <3>7, <3>8 DEF m
    <3>10. /\ Book(<< >> \o <<m>>, << >> \o c, {}) /\ Owed(<< >> \o c) = Owed(<< >>) /\ Settled(Flat(ChatOf, <<m>>))
      BY <1>1, <3>3, <3>5, <3>6, <3>9, EmptyBook, WrittenGrows DEF m
    <3> QED BY <1>1, <3>2, <3>7, <3>10, EmptyBook
  <2> QED BY <2>1, <2>2
<1>5. Order(whose, conv, said)
  BY <1>1, <1>4 DEF Order
<1> QED BY <1>1, <1>3, <1>4, <1>5 DEF ConversationInv

LEMMA SayKeeps == ASSUME ConversationInv, Say PROVE ConversationInv'
<1>1. /\ whose = "user" /\ whose' = "ready" /\ dialect' = dialect /\ offers' = offers /\ beside' = beside
  BY DEF Say
<1>2. PICK shows \in BOOLEAN :
          LET content == <<Text(<<New(1)>>)>> \o IF shows THEN <<Image(New(2))>> ELSE << >>
          IN  conv' = Append(conv, Message("user", content)) /\ said' = said \o content
  BY DEF Say
<1>3. /\ dialect \in {"messages", "chat", "responses"} /\ offers \subseteq {"function", "custom", "web", "other"}
      /\ Book(conv, said, beside) /\ Owed(said) = << >> /\ (~Apart => Settled(Flat(ChatOf, conv)))
  BY <1>1 DEF ConversationInv, Order
<1>4. conv \in Seq(FormedSet) /\ said \in Seq(Pieces) /\ FirstOnly(conv)
  BY <1>3 DEF Book, SaidOK
<1> DEFINE t == Text(<<New(1)>>)  p == Image(New(2))
           c == <<t>> \o IF shows THEN <<p>> ELSE << >>
           m == Message("user", c)
<1>5. Len(said) \in Nat /\ New(1) = Len(said) + 1 /\ New(2) = Len(said) + 2 /\ New(1) \in Nat /\ New(2) \in Nat
  BY <1>4 DEF New
<1>6. t \in Pieces /\ t.kind = "text" /\ t.ids = <<Len(said) + 1>>
  BY <1>5, TextBlock
<1>7. p \in Pieces /\ p.kind = "image" /\ p.id = Len(said) + 2
  BY <1>5, ImageBlock
<1>8. conv' = Append(conv, m) /\ said' = said \o c
  BY <1>2
<1> HIDE DEF t, p
<1>9. /\ c \in Seq(Pieces) /\ c # << >>
      /\ \A i \in DOMAIN c : c[i].kind \in {"text", "image"}
      /\ \A i \in DOMAIN c : /\ c[i].kind = "text" => c[i].ids = <<Len(said) + i>>
                             /\ c[i].kind = "image" => c[i].id = Len(said) + i
  <2>1. CASE shows
    <3>4. c = <<t>> \o <<p>>
      BY <2>1
    <3>1. c = <<t, p>>
      BY <1>6, <1>7, <3>4, TwoSeq
    <3> HIDE DEF c
    <3>2. DOMAIN c = {1, 2} /\ c[1] = t /\ c[2] = p
      BY <3>1
    <3>3. c \in Seq(Pieces) /\ c # << >>
      BY <1>6, <1>7, <3>1
    <3> QED BY <1>6, <1>7, <3>2, <3>3
  <2>2. CASE ~shows
    <3>1. c = <<t>>
      BY <2>2
    <3>2. \A i \in DOMAIN c : i = 1 /\ c[i] = t
      BY <3>1
    <3> HIDE DEF c
    <3>3. c \in Seq(Pieces) /\ c # << >>
      BY <1>6, <3>1
    <3> QED BY <1>6, <3>2, <3>3
  <2> QED BY <2>1, <2>2
<1> HIDE DEF c
<1>10. "user" \in Roles \ {"tool"} /\ m.role = "user"
  BY DEF Roles, Message
<1>13. m \in FormedSet
  <2>1. ~Has(c, "tool_result") /\ ~Has(c, "thinking")
    BY <1>9, Written
  <2> QED BY <1>9, <1>10, <2>1, MessageIs
<1>11. FirstOnly(conv \o <<m>>)
  <2> HIDE DEF m
  <2> DEFINE ms == <<m>>
  <2>1. NoSystem(ms)
    BY <1>10 DEF NoSystem
  <2>2. ms \in Seq(FormedSet)
    BY <1>13
  <2> HIDE DEF ms
  <2>3. FirstOnly(conv \o ms)
    BY <1>4, <2>1, <2>2, FirstGrows
  <2> QED BY <2>3 DEF ms
<1>12. LET ms == <<Message("user", c)>> IN
       /\ Book(conv \o ms, said \o c, beside) /\ Owed(said \o c) = Owed(said)
       /\ Settled(Flat(ChatOf, ms)) /\ ms \in Seq(FormedSet)
  BY <1>3, <1>9, <1>10, <1>11, WrittenGrows
<1> DEFINE ms == <<m>>
<1>14. /\ Book(conv \o ms, said \o c, beside) /\ Owed(said \o c) = Owed(said)
       /\ Settled(Flat(ChatOf, ms)) /\ ms \in Seq(FormedSet)
  BY <1>12
<1>15. conv' = conv \o ms
  <2> HIDE DEF m
  <2> QED BY <1>4, <1>8, <1>13
<1> HIDE DEF ms, m
<1>16. Book(conv', said', beside') /\ Owed(said') = << >>
  BY <1>1, <1>3, <1>8, <1>14, <1>15
<1>17. ASSUME ~Apart' PROVE Order(whose', conv', said')
  <2>1. ~Apart
    BY <1>1, <1>4, <1>14, <1>15, <1>17, ApartGrows
  <2>2. Settled(Flat(ChatOf, conv \o ms))
    BY <1>3, <1>4, <1>14, <2>1, ClosedGrows
  <2> QED BY <1>1, <1>15, <2>2 DEF Order
<1>18. whose' = "ready"
  BY <1>1
<1> QED BY <1>1, <1>3, <1>16, <1>17, <1>18, Kept

\* One element only has something to say.
LEMMA FlatAlone ==
    ASSUME NEW S, NEW T, NEW f, Into(f, S, T), NEW s \in Seq(S), NEW i \in DOMAIN s,
           \A j \in DOMAIN s : j # i => f[s[j]] = << >>
    PROVE  Flat(f, s) = f[s[i]]
<1> DEFINE Alone(r, k) == \A j \in DOMAIN r : j # k => f[r[j]] = << >>
           P == {r \in Seq(S) : \A k \in DOMAIN r : Alone(r, k) => Flat(f, r) = f[r[k]]}
<1>1. << >> \in P
  OBVIOUS
<1>2. ASSUME NEW r \in P, NEW e \in S PROVE Append(r, e) \in P
  <2> DEFINE a == Append(r, e)
  <2>1. r \in Seq(S) /\ \A k \in DOMAIN r : Alone(r, k) => Flat(f, r) = f[r[k]]
    OBVIOUS
  <2>2. a \in Seq(S) /\ Len(a) = Len(r) + 1 /\ Len(r) \in Nat /\ DOMAIN a = 1..(Len(r) + 1) /\ DOMAIN r = 1..Len(r)
        /\ a[Len(r) + 1] = e /\ \A j \in DOMAIN r : a[j] = r[j]
    BY <2>1
  <2>3. Flat(f, a) = Flat(f, r) \o f[e]
    BY <2>1, FlatAppend
  <2>4. Flat(f, r) \in Seq(T)
    BY <2>1, FlatType
  <2>5. f[e] \in Seq(T)
    BY DEF Into
  <2> HIDE DEF a, P
  <2>6. ASSUME NEW k \in DOMAIN a, Alone(a, k) PROVE Flat(f, a) = f[a[k]]
    <3>1. CASE k = Len(r) + 1
      <4>1. \A j \in 1..Len(r) : f[r[j]] = << >>
        BY <2>2, <2>6, <3>1
      <4>2. Flat(f, r) = << >>
        BY <2>1, <4>1, FlatNone
      <4> QED BY <2>2, <2>3, <2>5, <3>1, <4>2
    <3>2. CASE k # Len(r) + 1
      <4>1. k \in DOMAIN r /\ Len(r) + 1 \in DOMAIN a
        BY <2>2, <3>2
      <4>2. f[e] = << >>
        BY <2>2, <2>6, <3>2, <4>1
      <4>3. Alone(r, k)
        BY <2>2, <2>6
      <4>4. Flat(f, r) = f[r[k]]
        BY <2>1, <4>1, <4>3
      <4>5. a[k] = r[k]
        BY <2>2, <4>1
      <4> QED BY <2>3, <2>4, <4>2, <4>4, <4>5
    <3> QED BY <3>1, <3>2
  <2>7. a \in P
    BY <2>2, <2>6 DEF P
  <2> QED BY <2>7 DEF a
<1>3. Seq(S) \subseteq P
  <2> HIDE DEF P
  <2>1. P \in SUBSET Seq(S)
    BY DEF P
  <2> QED BY <1>1, <1>2, <2>1, ByAppending
<1>4. Alone(s, i)
  OBVIOUS
<1>5. s \in P
  BY <1>3
<1> HIDE DEF Alone
<1> QED BY <1>4, <1>5

LEMMA SplitLast ==
    ASSUME NEW S, NEW s \in Seq(S), Len(s) # 0
    PROVE  \E front \in Seq(S) : /\ Len(front) = Len(s) - 1 /\ \A i \in 1..(Len(s) - 1) : front[i] = s[i]
                                 /\ s = front \o <<s[Len(s)]>> /\ s[Len(s)] \in S /\ Len(s) \in DOMAIN s
<1> DEFINE n == Len(s) - 1
           front == [i \in 1..n |-> s[i]]
           e == s[Len(s)]
           t == <<e>>
<1>1. n \in Nat /\ Len(s) = n + 1 /\ e \in S /\ Len(s) \in DOMAIN s
  OBVIOUS
<1>2. front \in Seq(S) /\ Len(front) = n /\ \A i \in 1..n : front[i] = s[i]
  BY <1>1
<1>3. t \in Seq(S) /\ Len(t) = 1 /\ t[1] = e
  BY <1>1
<1> HIDE DEF front, t, n, e
<1>10. e = s[Len(s)]
  BY DEF e
<1>8. front \in Seq(S) /\ t \in Seq(S)
  BY <1>2, <1>3
<1>9. front \o t \in Seq(S) /\ Len(front \o t) = Len(front) + Len(t) /\ DOMAIN (front \o t) = 1..(Len(front) + Len(t))
  BY <1>8, JoinedAt
<1>4. front \o t \in Seq(S) /\ Len(front \o t) = n + 1 /\ DOMAIN (front \o t) = 1..(n + 1)
  BY <1>1, <1>2, <1>3, <1>9
<1>5. \A i \in 1..(n + 1) : (front \o t)[i] = s[i]
  <2> SUFFICES ASSUME NEW i \in 1..(n + 1) PROVE (front \o t)[i] = s[i]
    OBVIOUS
  <2>1. i \in DOMAIN (front \o t)
    BY <1>4
  <2>2. CASE i <= Len(front)
    <3>1. (front \o t)[i] = front[i]
      BY <1>8, <2>1, <2>2, JoinedAt
    <3> QED BY <1>1, <1>2, <2>2, <3>1
  <2>3. CASE ~(i <= Len(front))
    <3>1. (front \o t)[i] = t[i - Len(front)]
      BY <1>8, <2>1, <2>3, JoinedAt
    <3>2. i - Len(front) = 1 /\ i = Len(s)
      BY <1>1, <1>2, <2>3
    <3> QED BY <1>3, <1>10, <3>1, <3>2
  <2> QED BY <2>2, <2>3
<1>6. front \o t = s
  BY <1>1, <1>4, <1>5, SeqEqual
<1>7. front \in Seq(S) /\ Len(front) = Len(s) - 1 /\ (\A i \in 1..(Len(s) - 1) : front[i] = s[i])
      /\ s = front \o <<s[Len(s)]>>
  BY <1>1, <1>2, <1>6, <1>10 DEF t, n
<1> QED BY <1>1, <1>7, <1>10

\* An answer: its calls, if any, are in its last message.
LEMMA AnswerOrder ==
    ASSUME dialect \in {"messages", "chat", "responses"}, NEW cv \in Seq(FormedSet), Settled(Flat(ChatOf, cv)),
           NEW sd, NEW ms \in Seq(FormedSet), \A i \in DOMAIN ms : ~Has(ms[i].content, "tool_result"),
           \A i \in 1..(Len(ms) - 1) : UseOf[ms[i]] = << >>, Flat(UseOf, ms) = Owed(sd)
    PROVE  IF Owed(sd) = << >> THEN Settled(Flat(ChatOf, cv \o ms)) ELSE Open(cv \o ms, sd)
<1>1. CASE Len(ms) = 0
  <2>1. ms = << >>
    BY <1>1
  <2>2. Owed(sd) = << >>
    BY <2>1, FlatEmpty
  <2>3. cv \o ms = cv
    BY <2>1
  <2> QED BY <2>2, <2>3
<1>2. CASE Len(ms) # 0
  <2>1. PICK front \in Seq(FormedSet) :
            /\ Len(front) = Len(ms) - 1 /\ \A i \in 1..(Len(ms) - 1) : front[i] = ms[i]
            /\ ms = front \o <<ms[Len(ms)]>> /\ ms[Len(ms)] \in FormedSet /\ Len(ms) \in DOMAIN ms
    BY <1>2, SplitLast
  <2> DEFINE final == ms[Len(ms)]
  <2>2. final \in FormedSet /\ ~Has(final.content, "tool_result") /\ Len(ms) \in DOMAIN ms
    BY <2>1
  <2>3. UseOf[final] = Owed(sd)
    <3>1. \A j \in DOMAIN ms : j # Len(ms) => j \in 1..(Len(ms) - 1)
      OBVIOUS
    <3>2. \A j \in DOMAIN ms : j # Len(ms) => UseOf[ms[j]] = << >>
      BY <3>1
    <3>3. Into(UseOf, FormedSet, UseSet)
      BY MessageTypes
    <3>4. Flat(UseOf, ms) = UseOf[final]
      BY <2>2, <3>2, <3>3, FlatAlone
    <3> QED BY <3>4
  <2>4. \A i \in DOMAIN front : ~Has(front[i].content, "tool_result") /\ UseOf[front[i]] = << >>
    <3>1. \A i \in DOMAIN front : i \in DOMAIN ms /\ i \in 1..(Len(ms) - 1)
      BY <2>1
    <3> QED BY <2>1, <3>1
  <2>5. Settled(Flat(ChatOf, front))
    BY <2>4, PlainMessages
  <2>6. Settled(Flat(ChatOf, cv \o front))
    BY <2>5, ClosedGrows
  <2>7. cv \o ms = (cv \o front) \o <<final>> /\ cv \o front \in Seq(FormedSet)
    <3> DEFINE t == <<final>>
    <3>1. t \in Seq(FormedSet) /\ ms = front \o t
      BY <2>1, <2>2
    <3> HIDE DEF t, final
    <3>2. cv \o (front \o t) = (cv \o front) \o t /\ cv \o front \in Seq(FormedSet)
      BY <3>1, SMTT(40)
    <3> QED BY <3>1, <3>2 DEF t
  <2> HIDE DEF final
  <2>8. CASE Owed(sd) = << >>
    <3> DEFINE t == <<final>>
    <3>1. t \in Seq(FormedSet) /\ \A i \in DOMAIN t : ~Has(t[i].content, "tool_result") /\ UseOf[t[i]] = << >>
      BY <2>2, <2>3, <2>8
    <3> HIDE DEF t
    <3>2. Settled(Flat(ChatOf, t))
      BY <3>1, PlainMessages
    <3>3. Settled(Flat(ChatOf, (cv \o front) \o t))
      BY <2>6, <2>7, <3>1, <3>2, ClosedGrows
    <3> QED BY <2>7, <2>8, <3>3 DEF t
  <2>9. CASE Owed(sd) # << >>
    <3>1. Open(cv \o ms, sd)
      BY <2>2, <2>3, <2>6, <2>7 DEF Open
    <3> QED BY <2>9, <3>1
  <2> QED BY <2>8, <2>9
<1> QED BY <1>1, <1>2

-----------------------------------------------------------------------------
(* An answer, as the client receives it. *)

\* What is spoken: texts and calls.
Speech(s) == s \in Seq(Pieces) /\ \A i \in DOMAIN s : s[i].kind \in {"text", "tool_use"}

\* Messages of the model that say what was spoken, and have no thoughts.
Utters(ms, c) ==
    /\ ms \in Seq(FormedSet)
    /\ \A i \in DOMAIN ms : /\ ms[i].role = "assistant" /\ ~Has(ms[i].content, "tool_result")
                            /\ ~Has(ms[i].content, "thinking")
    /\ Flat(TextOf, ms) = Flat(TextFn, c) /\ Flat(ImageOf, ms) = << >>
    /\ Flat(UseOf, ms) = Flat(OfKind("tool_use"), c) /\ Flat(ResOf, ms) = << >>

LEMMA SpeechHas ==
    ASSUME NEW s, Speech(s)
    PROVE  ~Has(s, "tool_result") /\ ~Has(s, "thinking") /\ ~Has(s, "image")
BY DEF Speech, Has, Range

LEMMA Uttered ==
    ASSUME NEW s, Speech(s), dialect # "responses" \/ s # << >>
    PROVE  LET m == Message("assistant", s) IN
           /\ m \in FormedSet /\ m.role = "assistant" /\ m.content = s
           /\ ~Has(s, "tool_result") /\ ~Has(s, "thinking")
           /\ TextOf[m] = Flat(TextFn, s) /\ ImageOf[m] = << >>
           /\ UseOf[m] = Flat(OfKind("tool_use"), s) /\ ResOf[m] = << >>
<1> DEFINE m == Message("assistant", s)
<1>1. s \in Seq(Pieces)
  BY DEF Speech
<1>2. ~Has(s, "tool_result") /\ ~Has(s, "thinking") /\ ~Has(s, "image")
  BY SpeechHas
<1>3. "assistant" \in Roles \ {"tool"}
  BY DEF Roles
<1>4. m \in FormedSet /\ m.content = s /\ m.role = "assistant"
  BY <1>1, <1>2, <1>3, MessageIs
<1> HIDE DEF m
<1>5. TextIds(s) = Flat(TextFn, s) /\ IdsOf(Only(s, "image")) = Flat(ImageFn, s)
      /\ Only(s, "tool_use") = Flat(OfKind("tool_use"), s) /\ Only(s, "tool_result") = Flat(OfKind("tool_result"), s)
  BY <1>1, TextIdsIs, IdsIs, OnlyIs
<1>6. Flat(ImageFn, s) = << >> /\ Flat(OfKind("tool_result"), s) = << >>
  BY <1>1, <1>2, NoneOf
<1>7. TextOf[m] = Flat(TextFn, s) /\ ImageOf[m] = << >> /\ UseOf[m] = Flat(OfKind("tool_use"), s) /\ ResOf[m] = << >>
  BY <1>2, <1>4, <1>5, <1>6 DEF TextOf, ImageOf, UseOf, ResOf
<1> QED BY <1>2, <1>4, <1>7 DEF m

LEMMA OneUtters ==
    ASSUME dialect # "responses", NEW s, Speech(s)
    PROVE  Utters(<<Message("assistant", s)>>, s)
<1> DEFINE m == Message("assistant", s)  ms == <<m>>
<1>1. /\ m \in FormedSet /\ m.role = "assistant" /\ m.content = s
      /\ ~Has(s, "tool_result") /\ ~Has(s, "thinking")
      /\ TextOf[m] = Flat(TextFn, s) /\ ImageOf[m] = << >>
      /\ UseOf[m] = Flat(OfKind("tool_use"), s) /\ ResOf[m] = << >>
  BY Uttered
<1> HIDE DEF m
<1>2. ms \in Seq(FormedSet) /\ DOMAIN ms = {1} /\ ms[1] = m
  BY <1>1
<1>3. Flat(TextOf, ms) = TextOf[m] /\ Flat(ImageOf, ms) = ImageOf[m] /\ Flat(UseOf, ms) = UseOf[m]
      /\ Flat(ResOf, ms) = ResOf[m]
  BY FlatOne
<1> HIDE DEF ms
<1>4. Utters(ms, s)
  BY <1>1, <1>2, <1>3 DEF Utters
<1> QED BY <1>4 DEF ms, m

LEMMA ItemsUtter ==
    ASSUME NEW s, Speech(s)
    PROVE  Utters(Items(s), s)
<1> DEFINE ms == Items(s)
           M(i) == Message("assistant", <<s[i]>>)
<1>1. s \in Seq(Pieces) /\ \A i \in DOMAIN s : s[i].kind \in {"text", "tool_use"}
  BY DEF Speech
<1>2. ms = [i \in DOMAIN s |-> M(i)]
  BY DEF Items, Each
<1>3. ASSUME NEW i \in DOMAIN s
      PROVE  /\ M(i) \in FormedSet /\ M(i).role = "assistant"
             /\ ~Has(M(i).content, "tool_result") /\ ~Has(M(i).content, "thinking")
             /\ TextOf[M(i)] = TextFn[s[i]] /\ ImageOf[M(i)] = << >>
             /\ UseOf[M(i)] = OfKind("tool_use")[s[i]] /\ ResOf[M(i)] = << >>
  <2> DEFINE c == <<s[i]>>
  <2>1. Speech(c)
    BY <1>1 DEF Speech
  <2>2. c # << >>
    OBVIOUS
  <2>3. Flat(TextFn, c) = TextFn[s[i]] /\ Flat(OfKind("tool_use"), c) = OfKind("tool_use")[s[i]]
    BY FlatOne
  <2> HIDE DEF c
  <2>4. LET m == Message("assistant", c) IN
           /\ m \in FormedSet /\ m.role = "assistant" /\ m.content = c
           /\ ~Has(c, "tool_result") /\ ~Has(c, "thinking")
           /\ TextOf[m] = Flat(TextFn, c) /\ ImageOf[m] = << >>
           /\ UseOf[m] = Flat(OfKind("tool_use"), c) /\ ResOf[m] = << >>
    BY <2>1, <2>2, Uttered
  <2>5. M(i) = Message("assistant", c)
    BY DEF c
  <2> HIDE DEF M
  <2> QED BY <2>3, <2>4, <2>5
<1> HIDE DEF M, ms
<1>4. ms \in Seq(FormedSet) /\ Len(ms) = Len(s) /\ DOMAIN ms = DOMAIN s /\ DOMAIN s = 1..Len(s)
      /\ \A i \in DOMAIN s : ms[i] = M(i)
  <2>1. \A i \in DOMAIN s : M(i) \in FormedSet
    BY <1>3
  <2>2. DOMAIN s = 1..Len(s) /\ Len(s) \in Nat
    BY <1>1
  <2>3. Fills(ms, s, FormedSet)
    BY <1>2, <2>1 DEF Fills
  <2>4. ms \in Seq(FormedSet) /\ Len(ms) = Len(s)
    BY <1>1, <2>3, FillSeq
  <2> QED BY <1>2, <2>2, <2>4
<1>5. Flat(TextOf, ms) = Flat(TextFn, s)
  <2>1. Into(TextOf, FormedSet, Nat)
    BY MessageTypes
  <2>2. Into(TextFn, Pieces, Nat)
    BY FnTypes
  <2>3. \A i \in 1..Len(ms) : TextOf[ms[i]] = TextFn[s[i]]
    BY <1>3, <1>4
  <2> QED BY <1>1, <1>4, <2>1, <2>2, <2>3, FlatSame
<1>6. Flat(UseOf, ms) = Flat(OfKind("tool_use"), s)
  <2>1. Into(UseOf, FormedSet, UseSet)
    BY MessageTypes
  <2>2. Into(OfKind("tool_use"), Pieces, UseSet)
    BY FnTypes, KindSets
  <2>3. \A i \in 1..Len(ms) : UseOf[ms[i]] = OfKind("tool_use")[s[i]]
    BY <1>3, <1>4
  <2> QED BY <1>1, <1>4, <2>1, <2>2, <2>3, FlatSame
<1>7. Flat(ImageOf, ms) = << >>
  BY <1>3, <1>4, FlatNone
<1>8. Flat(ResOf, ms) = << >>
  BY <1>3, <1>4, FlatNone
<1>9. \A i \in DOMAIN ms : /\ ms[i].role = "assistant" /\ ~Has(ms[i].content, "tool_result")
                           /\ ~Has(ms[i].content, "thinking")
  BY <1>3, <1>4
<1>10. Utters(ms, s)
  BY <1>4, <1>5, <1>6, <1>7, <1>8, <1>9 DEF Utters
<1> QED BY <1>10 DEF ms

\* The texts joined, then the calls.
LEMMA SpokenSays ==
    ASSUME NEW c \in Seq(Pieces)
    PROVE  LET s == Spoken(c) IN
           /\ Speech(s) /\ Flat(TextFn, s) = Flat(TextFn, c)
           /\ Flat(OfKind("tool_use"), s) = Flat(OfKind("tool_use"), c)
<1>1. /\ Spoken(c) \in Seq(Pieces)
      /\ Flat(TextFn, Spoken(c)) = TextIds(c)
      /\ Flat(OfKind("tool_use"), Spoken(c)) = Only(c, "tool_use")
      /\ \A b \in Range(Spoken(c)) : b.kind \in {"text", "tool_use"}
  BY SpokenIs
<1>2. TextIds(c) = Flat(TextFn, c) /\ Only(c, "tool_use") = Flat(OfKind("tool_use"), c)
  BY TextIdsIs, OnlyIs
<1>3. Speech(Spoken(c))
  BY <1>1 DEF Speech, Range
<1> QED BY <1>1, <1>2, <1>3

\* The items in the order they begin.
OpensOf(c) == [i \in DOMAIN c |-> Begun(c, i)]

LEMMA OpensIs ==
    ASSUME NEW c \in Seq(Pieces), NEW i \in DOMAIN c
    PROVE  LET first == c[i].kind = "text" /\ \A j \in 1..(i - 1) : c[j].kind # "text" IN
           /\ c[i].kind = "tool_use" => Begun(c, i) = <<c[i]>>
           /\ first => Begun(c, i) = <<Text(TextIds(c))>>
           /\ c[i].kind # "tool_use" /\ ~first => Begun(c, i) = << >>
           /\ Begun(c, i) \in Seq(KindSet("text") \cup KindSet("tool_use"))
<1> DEFINE first == c[i].kind = "text" /\ \A j \in 1..(i - 1) : c[j].kind # "text"
<1>1. c[i] \in Pieces
  OBVIOUS
<1>2. ASSUME c[i].kind = "tool_use" PROVE Begun(c, i) = <<c[i]>> /\ <<c[i]>> \in Seq(KindSet("text") \cup KindSet("tool_use"))
  <2>1. Begun(c, i) = <<c[i]>>
    BY <1>2, Zenon DEF Begun
  <2>2. c[i] \in KindSet("tool_use")
    BY <1>1, <1>2 DEF KindSet
  <2> QED BY <2>1, <2>2
<1>3. ASSUME first PROVE Begun(c, i) = <<Text(TextIds(c))>> /\ <<Text(TextIds(c))>> \in Seq(KindSet("text") \cup KindSet("tool_use"))
  <2>1. Has(c, "text")
    BY <1>3 DEF Has, Range
  <2>2. Joined(c) = <<Text(TextIds(c))>>
    BY <2>1 DEF Joined
  <2>3. c[i].kind # "tool_use"
    BY <1>3
  <2>4. Begun(c, i) = Joined(c)
    BY <1>3, <2>3 DEF Begun
  <2>5. TextIds(c) \in Seq(Nat)
    BY TextIdsIs
  <2>6. Text(TextIds(c)) \in KindSet("text")
    BY <2>5 DEF Text, KindSet, Pieces, TextSet
  <2> QED BY <2>2, <2>4, <2>6
<1>4. ASSUME c[i].kind # "tool_use", ~first PROVE Begun(c, i) = << >>
  BY <1>4 DEF Begun
<1> HIDE DEF first
<1>5. Begun(c, i) \in Seq(KindSet("text") \cup KindSet("tool_use"))
  <2>1. CASE c[i].kind = "tool_use"
    BY <1>2, <2>1
  <2>2. CASE first
    BY <1>3, <2>2
  <2>3. CASE c[i].kind # "tool_use" /\ ~first
    <3>1. Begun(c, i) = << >>
      BY <1>4, <2>3
    <3> QED BY <3>1
  <2> QED BY <2>1, <2>2, <2>3
<1> QED BY <1>2, <1>3, <1>4, <1>5 DEF first

LEMMA TextAndUse ==
    ASSUME NEW b
    PROVE  b \in KindSet("text") \cup KindSet("tool_use") <=> b \in Pieces /\ b.kind \in {"text", "tool_use"}
BY DEF KindSet

LEMMA StreamSays ==
    ASSUME NEW c \in Seq(Pieces)
    PROVE  LET s == FlattenSeq([i \in DOMAIN c |-> Begun(c, i)]) IN
           /\ Speech(s) /\ Flat(TextFn, s) = Flat(TextFn, c)
           /\ Flat(OfKind("tool_use"), s) = Flat(OfKind("tool_use"), c)
<1> DEFINE S == KindSet("text") \cup KindSet("tool_use")
           f == OpensOf(c)
           idx == [i \in DOMAIN c |-> i]
           s == FlattenSeq([i \in DOMAIN c |-> Begun(c, i)])
<1>1. /\ idx \in Seq(DOMAIN c) /\ Len(idx) = Len(c) /\ DOMAIN c = 1..Len(c) /\ Len(c) \in Nat
      /\ DOMAIN idx = DOMAIN c /\ \A i \in DOMAIN c : idx[i] = i /\ c[i] \in Pieces
  OBVIOUS
<1>2. Into(f, DOMAIN c, S)
  BY OpensIs DEF Into, OpensOf
<1>3. s = Flat(f, idx)
  <2>1. [i \in DOMAIN idx |-> f[idx[i]]] = [i \in DOMAIN c |-> Begun(c, i)]
    BY <1>1 DEF OpensOf
  <2> QED BY <2>1 DEF Flat
<1>4. \A i \in DOMAIN c : f[i] = Begun(c, i)
  BY DEF OpensOf
<1> HIDE DEF idx, f, s
<1>5. s \in Seq(S)
  BY <1>1, <1>2, <1>3, FlatType
<1>6. s \in Seq(Pieces) /\ Speech(s)
  <2>1. \A b \in S : b \in Pieces /\ b.kind \in {"text", "tool_use"}
    BY TextAndUse
  <2> HIDE DEF S
  <2>2. s \in Seq(Pieces)
    BY <1>5, <2>1
  <2>3. \A i \in DOMAIN s : s[i] \in S
    BY <1>5
  <2> QED BY <2>1, <2>2, <2>3 DEF Speech
<1>7. Into(f, DOMAIN c, Pieces)
  <2>1. \A i \in DOMAIN c : f[i] \in Seq(Pieces)
    <3>1. \A i \in DOMAIN c : f[i] \in Seq(S)
      BY <1>2 DEF Into
    <3>2. \A b \in S : b \in Pieces
      BY TextAndUse
    <3> HIDE DEF S
    <3> QED BY <3>1, <3>2
  <2>2. f = [i \in DOMAIN c |-> f[i]]
    BY DEF OpensOf, f
  <2> QED BY <2>1, <2>2 DEF Into
<1> DEFINE TextAt == [i \in DOMAIN c |-> Flat(TextFn, f[i])]
           UseAt == [i \in DOMAIN c |-> Flat(OfKind("tool_use"), f[i])]
<1>8. Into(TextFn, Pieces, Nat)
  BY FnTypes
<1>9. Into(OfKind("tool_use"), Pieces, Pieces)
  BY FnTypes
<1>10. \A i \in DOMAIN c : f[i] \in Seq(Pieces)
  BY <1>7 DEF Into
<1>11. Into(TextAt, DOMAIN c, Nat)
  <2>1. \A i \in DOMAIN c : Flat(TextFn, f[i]) \in Seq(Nat)
    BY <1>8, <1>10, FlatType
  <2> QED BY <2>1 DEF Into
<1>12. Into(UseAt, DOMAIN c, Pieces)
  <2>1. \A i \in DOMAIN c : Flat(OfKind("tool_use"), f[i]) \in Seq(Pieces)
    BY <1>9, <1>10, FlatType
  <2> QED BY <2>1 DEF Into
<1>13. Flat(TextFn, Flat(f, idx)) = Flat(TextAt, idx)
  <2>1. \A i \in DOMAIN c : TextAt[i] = Flat(TextFn, f[i])
    OBVIOUS
  <2> HIDE DEF TextAt
  <2> QED BY <1>1, <1>7, <1>8, <1>11, <2>1, FlatFlat
<1>14. Flat(OfKind("tool_use"), Flat(f, idx)) = Flat(UseAt, idx)
  <2>1. \A i \in DOMAIN c : UseAt[i] = Flat(OfKind("tool_use"), f[i])
    OBVIOUS
  <2>2. idx \in Seq(DOMAIN c)
    BY <1>1
  <2> DEFINE u == OfKind("tool_use")
  <2>3. Into(u, Pieces, Pieces) /\ \A i \in DOMAIN c : UseAt[i] = Flat(u, f[i])
    BY <1>9, <2>1
  <2> HIDE DEF UseAt, u
  <2>4. Flat(u, Flat(f, idx)) = Flat(UseAt, idx)
    BY <1>7, <1>12, <2>2, <2>3, FlatFlat
  <2> QED BY <2>4 DEF u
<1>15. \A i \in DOMAIN c :
          LET first == c[i].kind = "text" /\ \A j \in 1..(i - 1) : c[j].kind # "text" IN
          /\ TextAt[i] = IF first THEN TextIds(c) ELSE << >>
          /\ UseAt[i] = OfKind("tool_use")[c[i]]
  <2> SUFFICES ASSUME NEW i \in DOMAIN c
               PROVE  LET first == c[i].kind = "text" /\ \A j \in 1..(i - 1) : c[j].kind # "text" IN
                      /\ Flat(TextFn, f[i]) = IF first THEN TextIds(c) ELSE << >>
                      /\ Flat(OfKind("tool_use"), f[i]) = OfKind("tool_use")[c[i]]
    OBVIOUS
  <2> DEFINE first == c[i].kind = "text" /\ \A j \in 1..(i - 1) : c[j].kind # "text"
             t == Text(TextIds(c))
  <2>1. c[i] \in Pieces
    BY <1>1
  <2>2. /\ c[i].kind = "tool_use" => f[i] = <<c[i]>>
        /\ first => f[i] = <<t>>
        /\ c[i].kind # "tool_use" /\ ~first => f[i] = << >>
    BY <1>4, OpensIs
  <2>3. t \in Pieces /\ t.kind = "text" /\ t.ids = TextIds(c)
    <3>1. TextIds(c) \in Seq(Nat)
      BY TextIdsIs
    <3> QED BY <3>1 DEF Text, Pieces, TextSet
  <2>4. first => c[i].kind = "text"
    OBVIOUS
  <2> HIDE DEF first, t
  <2>5. CASE c[i].kind = "tool_use"
    <3>1. f[i] = <<c[i]>> /\ ~first
      BY <2>2, <2>4, <2>5
    <3>2. Flat(TextFn, <<c[i]>>) = TextFn[c[i]] /\ Flat(OfKind("tool_use"), <<c[i]>>) = OfKind("tool_use")[c[i]]
      BY FlatOne
    <3>3. TextFn[c[i]] = << >>
      BY <2>1, <2>5 DEF TextFn
    <3> QED BY <3>1, <3>2, <3>3 DEF first
  <2>6. CASE first
    <3>1. f[i] = <<t>> /\ c[i].kind = "text"
      BY <2>2, <2>4, <2>6
    <3>2. Flat(TextFn, <<t>>) = TextFn[t] /\ Flat(OfKind("tool_use"), <<t>>) = OfKind("tool_use")[t]
      BY FlatOne
    <3>3. TextFn[t] = TextIds(c) /\ OfKind("tool_use")[t] = << >>
      BY <2>3 DEF TextFn, OfKind
    <3>4. OfKind("tool_use")[c[i]] = << >>
      BY <2>1, <3>1 DEF OfKind
    <3> QED BY <2>6, <3>1, <3>2, <3>3, <3>4 DEF first
  <2>7. CASE c[i].kind # "tool_use" /\ ~first
    <3>1. f[i] = << >>
      BY <2>2, <2>7
    <3>2. OfKind("tool_use")[c[i]] = << >>
      BY <2>1, <2>7 DEF OfKind
    <3> QED BY <2>7, <3>1, <3>2, FlatEmpty DEF first
  <2> QED BY <2>5, <2>6, <2>7
<1> HIDE DEF TextAt, UseAt
<1>16. Flat(UseAt, idx) = Flat(OfKind("tool_use"), c)
  <2>1. \A i \in 1..Len(idx) : UseAt[idx[i]] = OfKind("tool_use")[c[i]]
    BY <1>1, <1>15
  <2> QED BY <1>1, <1>9, <1>12, <2>1, FlatSame, SMTT(40)
<1>17. Flat(TextAt, idx) = Flat(TextFn, c)
  <2>1. CASE ~Has(c, "text")
    <3>1. \A i \in DOMAIN c : c[i].kind # "text"
      BY <2>1 DEF Has, Range
    <3>2. \A i \in 1..Len(idx) : TextAt[idx[i]] = << >>
      BY <1>1, <1>15, <3>1
    <3>3. Flat(TextAt, idx) = << >>
      BY <1>1, <3>2, FlatNone
    <3>4. Flat(TextFn, c) = << >>
      BY <2>1, NoneOf
    <3> QED BY <3>3, <3>4
  <2>2. CASE Has(c, "text")
    <3> DEFINE Texts == {i \in DOMAIN c : c[i].kind = "text"}
    <3>1. Texts # {} /\ Texts \in SUBSET Nat
      BY <2>2, <1>1 DEF Has, Range
    <3>2. PICK k \in Texts : \A j \in Texts : k <= j
      <4> HIDE DEF Texts
      <4> QED BY <3>1, LeastOf
    <3>3. k \in DOMAIN c /\ c[k].kind = "text" /\ \A j \in 1..(k - 1) : c[j].kind # "text"
      <4>1. k \in DOMAIN c /\ c[k].kind = "text" /\ k \in Nat
        BY <1>1, <3>2
      <4>2. ASSUME NEW j \in 1..(k - 1), c[j].kind = "text" PROVE FALSE
        <5>1. j \in DOMAIN c /\ j < k
          BY <1>1, <4>1, SMTT(40)
        <5>2. j \in Texts
          BY <4>2, <5>1
        <5>3. k <= j
          BY <3>2, <5>2
        <5> QED BY <4>1, <5>1, <5>3
      <4> QED BY <4>1, <4>2
    <3>4. TextAt[k] = TextIds(c)
      BY <1>15, <3>3
    <3>5. \A j \in DOMAIN c : j # k => TextAt[j] = << >>
      <4> SUFFICES ASSUME NEW j \in DOMAIN c, j # k PROVE TextAt[j] = << >>
        OBVIOUS
      <4>1. c[j].kind = "text" => k \in 1..(j - 1)
        BY <1>1, <3>2, <3>3
      <4>2. ~(c[j].kind = "text" /\ \A l \in 1..(j - 1) : c[l].kind # "text")
        BY <3>3, <4>1
      <4> QED BY <1>15, <4>2
    <3>6. k \in DOMAIN idx /\ idx[k] = k /\ \A j \in DOMAIN idx : j # k => TextAt[idx[j]] = << >>
      BY <1>1, <3>3, <3>5
    <3>9. idx \in Seq(DOMAIN c)
      BY <1>1
    <3>7. Flat(TextAt, idx) = TextAt[idx[k]]
      <4> HIDE DEF Texts
      <4> QED BY <1>11, <3>6, <3>9, FlatAlone
    <3>8. TextIds(c) = Flat(TextFn, c)
      BY TextIdsIs
    <3> QED BY <3>4, <3>6, <3>7, <3>8
  <2> QED BY <2>1, <2>2
<1> QED BY <1>3, <1>6, <1>13, <1>14, <1>16, <1>17 DEF s

AllKinds == {"text", "signed", "unsigned", "function", "custom"}

LEMMA AnswerableIs == Answerable \subseteq AllKinds
BY DEF Answerable, AllKinds

LEMMA BlockMade ==
    ASSUME NEW kind \in AllKinds, NEW i \in Nat
    PROVE  LET b == Made(kind, i) IN
           /\ b \in Pieces /\ b.kind \in {"text", "thinking", "tool_use"}
           /\ b.kind = "text" => b.ids = <<i>>
           /\ b.kind \in {"thinking", "tool_use"} => b.id = i
<1> DEFINE b == Made(kind, i)
<1>1. CASE kind = "text"
  <2>1. b = Text(<<i>>)
    BY <1>1, Zenon DEF Made
  <2>2. b \in Pieces /\ b.kind = "text" /\ b.ids = <<i>>
    BY <2>1, TextBlock
  <2> QED BY <2>2
<1>2. CASE kind \in {"signed", "unsigned"}
  <2> DEFINE o == kind = "signed"
  <2>1. kind # "text"
    BY <1>2
  <2>2. b = Thinking(i, o)
    BY <1>2, <2>1, Zenon DEF Made
  <2>3. o \in BOOLEAN
    OBVIOUS
  <2> HIDE DEF o, b
  <2>4. b \in Pieces /\ b.kind = "thinking" /\ b.id = i
    BY <2>2, <2>3 DEF Thinking, Pieces, ThinkSet
  <2> QED BY <2>4 DEF b
<1>3. CASE kind \in {"function", "custom"}
  <2> DEFINE o == kind = "custom"
  <2>1. kind # "text" /\ kind \notin {"signed", "unsigned"}
    BY <1>3
  <2>2. b = ToolUse(i, o)
    BY <2>1, Zenon DEF Made
  <2>3. o \in BOOLEAN
    OBVIOUS
  <2> HIDE DEF o, b
  <2>4. b \in Pieces /\ b.kind = "tool_use" /\ b.id = i
    BY <2>2, <2>3 DEF ToolUse, Pieces, UseSet
  <2> QED BY <2>4 DEF b
<1> QED BY <1>1, <1>2, <1>3 DEF AllKinds

LEMMA ContentIs ==
    ASSUME NEW sd \in Seq(Pieces), NEW n \in Nat, NEW kinds \in [1..n -> AllKinds],
           NEW c, c = [i \in 1..n |-> Made(kinds[i], Len(sd) + i)]
    PROVE  /\ Adds(sd, c) /\ c \in Seq(Pieces)
           /\ ~Has(c, "tool_result") /\ ~Has(c, "image")
           /\ \A b \in Range(c) : b.kind # "tool_result"
<1>1. ASSUME NEW i \in 1..n
      PROVE  /\ c[i] \in Pieces /\ c[i].kind \in {"text", "thinking", "tool_use"}
             /\ c[i].kind = "text" => c[i].ids = <<Len(sd) + i>>
             /\ c[i].kind \in {"thinking", "tool_use"} => c[i].id = Len(sd) + i
  <2>1. kinds[i] \in AllKinds /\ Len(sd) + i \in Nat
    OBVIOUS
  <2>2. c[i] = Made(kinds[i], Len(sd) + i)
    OBVIOUS
  <2> QED BY <2>1, <2>2, BlockMade
<1>2. DOMAIN c = 1..n /\ c = [i \in 1..n |-> c[i]]
  OBVIOUS
<1>3. c \in Seq(Pieces)
  BY <1>1, <1>2
<1>4. \A b \in Range(c) : b.kind \in {"text", "thinking", "tool_use"}
  BY <1>1, <1>2 DEF Range
<1>5. \A i \in DOMAIN c : /\ c[i].kind = "text" => c[i].ids = <<Len(sd) + i>>
                          /\ c[i].kind \in {"image", "thinking", "tool_use"} => c[i].id = Len(sd) + i
                          /\ c[i].kind = "tool_result" => c[i].id <= Len(sd)
  BY <1>1, <1>2
<1>6. Adds(sd, c)
  BY <1>3, <1>4, <1>5 DEF Adds
<1> QED BY <1>3, <1>4, <1>6 DEF Has

\* The messages that an answer becomes.
LEMMA BookUtters ==
    ASSUME NEW cv, NEW sd, NEW bs, Book(cv, sd, bs), NEW c, Adds(sd, c), ~Has(c, "tool_result"), ~Has(c, "image"),
           NEW s, Flat(TextFn, s) = Flat(TextFn, c), Flat(OfKind("tool_use"), s) = Flat(OfKind("tool_use"), c),
           NEW ms, Utters(ms, s)
    PROVE  Book(cv \o ms, sd \o c, bs)
<1>1. ms \in Seq(FormedSet) /\ cv \in Seq(FormedSet) /\ FirstOnly(cv)
  BY DEF Utters, Book
<1>2. c \in Seq(Pieces)
  BY DEF Adds
<1>3. Flat(ImageFn, c) = << >> /\ Flat(OfKind("tool_result"), c) = << >>
  BY <1>2, NoneOf
<1>4. /\ Flat(TextOf, ms) = Flat(TextFn, c) /\ Flat(ImageOf, ms) = Flat(ImageFn, c)
      /\ Flat(UseOf, ms) = Flat(OfKind("tool_use"), c) /\ Flat(ResOf, ms) = Flat(OfKind("tool_result"), c)
  BY <1>3 DEF Utters
<1>5. \A i \in DOMAIN ms : ~Has(ms[i].content, "thinking")
  BY DEF Utters
<1>6. ThoughtsOK(ms, Len(sd) + Len(c)) /\ Later(ms, Len(sd))
  BY <1>5, NoThoughts
<1>7. NoSystem(ms)
  BY DEF NoSystem, Utters
<1>8. FirstOnly(cv \o ms)
  BY <1>1, <1>7, FirstGrows
<1> QED BY <1>1, <1>4, <1>6, <1>8, BookAdds

\* Thoughts keep their order when they are taken out of an answer.
LEMMA RisingAppend ==
    ASSUME NEW r \in Seq(Pieces), NEW e \in Pieces
    PROVE  Rising(Append(r, e)) <=> /\ Rising(r)
                                    /\ e.kind = "thinking" => \A i \in Thoughts(r) : r[i].id < e.id
<1> DEFINE a == Append(r, e)  n == Len(r) + 1
<1>1. /\ DOMAIN a = 1..n /\ DOMAIN r = 1..(n - 1) /\ n \in Nat \ {0}
      /\ a[n] = e /\ \A i \in 1..(n - 1) : a[i] = r[i]
  OBVIOUS
<1> HIDE DEF a, n
<1>2. Thoughts(a) = Thoughts(r) \cup (IF e.kind = "thinking" THEN {n} ELSE {})
  BY <1>1 DEF Thoughts
<1>3. Thoughts(r) \subseteq 1..(n - 1)
  BY <1>1 DEF Thoughts
<1>4. ASSUME Rising(a) PROVE Rising(r) /\ (e.kind = "thinking" => \A i \in Thoughts(r) : r[i].id < e.id)
  <2>1. \A i \in Thoughts(r), j \in Thoughts(r) : i < j => r[i].id < r[j].id
    BY <1>1, <1>2, <1>3, <1>4 DEF Rising
  <2>2. ASSUME e.kind = "thinking", NEW i \in Thoughts(r) PROVE r[i].id < e.id
    <3>1. i \in Thoughts(a) /\ n \in Thoughts(a) /\ i < n
      BY <1>1, <1>2, <1>3, <2>2
    <3> QED BY <1>1, <1>3, <1>4, <3>1 DEF Rising
  <2> QED BY <2>1, <2>2 DEF Rising
<1>5. ASSUME Rising(r), e.kind = "thinking" => \A i \in Thoughts(r) : r[i].id < e.id PROVE Rising(a)
  <2> SUFFICES ASSUME NEW i \in Thoughts(a), NEW j \in Thoughts(a), i < j PROVE a[i].id < a[j].id
    BY DEF Rising
  <2>1. i \in Thoughts(r)
    BY <1>1, <1>2, <1>3
  <2>2. CASE j \in Thoughts(r)
    BY <1>1, <1>3, <1>5, <2>1, <2>2 DEF Rising
  <2>3. CASE j = n /\ e.kind = "thinking"
    BY <1>1, <1>3, <1>5, <2>1, <2>3
  <2> QED BY <1>2, <2>2, <2>3
<1> QED BY <1>4, <1>5 DEF a

LEMMA RisingOnly ==
    ASSUME NEW c \in Seq(Pieces), Rising(c)
    PROVE  Rising(Only(c, "thinking"))
<1> DEFINE f == OfKind("thinking")
           P == {r \in Seq(Pieces) : Rising(r) => Rising(Flat(f, r))}
<1>1. << >> \in P
  <2>1. Flat(f, << >>) = << >> /\ << >> \in Seq(Pieces)
    BY FlatEmpty
  <2> QED BY <2>1, Zenon
<1>2. ASSUME NEW r \in P, NEW e \in Pieces PROVE Append(r, e) \in P
  <2>1. r \in Seq(Pieces) /\ (Rising(r) => Rising(Flat(f, r)))
    OBVIOUS
  <2>2. Append(r, e) \in Seq(Pieces)
    BY <2>1
  <2>3. ASSUME Rising(Append(r, e)) PROVE Rising(Flat(f, Append(r, e)))
    <3> DEFINE t == Flat(f, r)
    <3>1. Rising(t) /\ (e.kind = "thinking" => \A i \in Thoughts(r) : r[i].id < e.id)
      BY <2>1, <2>3, RisingAppend
    <3>2. Flat(f, Append(r, e)) = t \o f[e]
      BY <2>1, FnTypes, FlatAppend
    <3>3. t = Only(r, "thinking") /\ t \in Seq(Pieces)
      BY <2>1, OnlyIs
    <3>4. Range(t) = {b \in Range(r) : b.kind = "thinking"}
      BY <2>1, <3>3, OnlyRange
    <3>5. f[e] = IF e.kind = "thinking" THEN <<e>> ELSE << >>
      BY DEF OfKind
    <3> HIDE DEF f, t
    <3>6. CASE e.kind # "thinking"
      <4>1. t \o << >> = t
        BY <3>3
      <4> QED BY <3>1, <3>2, <3>5, <3>6, <4>1
    <3>7. CASE e.kind = "thinking"
      <4>1. t \o <<e>> = Append(t, e)
        BY <3>3
      <4>2. ASSUME NEW i \in Thoughts(t) PROVE t[i].id < e.id
        <5>1. t[i] \in Range(t)
          BY DEF Thoughts, Range
        <5>2. PICK j \in DOMAIN r : r[j] = t[i] /\ r[j].kind = "thinking"
          BY <3>4, <5>1 DEF Range
        <5> QED BY <3>1, <3>7, <5>2 DEF Thoughts
      <4>3. Rising(Append(t, e))
        BY <3>1, <3>3, <4>2, RisingAppend
      <4> QED BY <3>2, <3>5, <3>7, <4>1, <4>3
    <3> QED BY <3>6, <3>7
  <2> QED BY <2>2, <2>3
<1>3. Seq(Pieces) \subseteq P
  <2> HIDE DEF P
  <2>1. P \in SUBSET Seq(Pieces)
    BY DEF P
  <2> QED BY <1>1, <1>2, <2>1, ByAppending
<1>4. Rising(Flat(f, c))
  BY <1>3
<1> QED BY <1>4, OnlyIs

\* What Anthropic's stream makes of an answer.
LEMMA StreamedIs ==
    ASSUME NEW sd \in Seq(Pieces), NEW c, Adds(sd, c), ~Has(c, "tool_result"), ~Has(c, "image")
    PROVE  LET s == Only(c, "thinking") \o Spoken(c) IN
           /\ s \in Seq(Pieces) /\ ~Has(s, "tool_result")
           /\ Flat(TextFn, s) = Flat(TextFn, c) /\ Flat(ImageFn, s) = Flat(ImageFn, c)
           /\ Flat(OfKind("tool_use"), s) = Flat(OfKind("tool_use"), c)
           /\ Flat(OfKind("tool_result"), s) = Flat(OfKind("tool_result"), c)
           /\ Rising(s)
           /\ \A i \in Thoughts(s) : s[i].id <= Len(sd) + Len(c) /\ Len(sd) < s[i].id
<1> DEFINE t == Only(c, "thinking")
           p == Spoken(c)
           s == t \o p
<1>1. c \in Seq(Pieces) /\ DOMAIN c = 1..Len(c) /\ Len(c) \in Nat /\ Len(sd) \in Nat
  BY DEF Adds
<1>2. t = Flat(OfKind("thinking"), c) /\ t \in Seq(Pieces)
  BY <1>1, OnlyIs
<1>3. Range(t) = {b \in Range(c) : b.kind = "thinking"}
  BY <1>1, OnlyRange
<1>4. Speech(p) /\ Flat(TextFn, p) = Flat(TextFn, c) /\ Flat(OfKind("tool_use"), p) = Flat(OfKind("tool_use"), c)
  BY <1>1, SpokenSays
<1>5. p \in Seq(Pieces) /\ \A i \in DOMAIN p : p[i].kind \in {"text", "tool_use"}
  BY <1>4 DEF Speech
<1>6. ~Has(p, "tool_result") /\ ~Has(p, "image") /\ ~Has(p, "thinking")
  BY <1>4, SpeechHas
<1>7. /\ Flat(TextFn, t) = << >> /\ Flat(ImageFn, t) = << >>
      /\ Flat(OfKind("tool_use"), t) = << >> /\ Flat(OfKind("tool_result"), t) = << >>
  BY <1>1, <1>2, WithinKind
<1>8. Flat(ImageFn, p) = << >> /\ Flat(OfKind("tool_result"), p) = << >>
  BY <1>5, <1>6, NoneOf
<1>9. Flat(ImageFn, c) = << >> /\ Flat(OfKind("tool_result"), c) = << >>
  BY <1>1, NoneOf
<1>10. Flat(TextFn, c) \in Seq(Nat) /\ Flat(OfKind("tool_use"), c) \in Seq(Pieces)
  <2>1. Into(TextFn, Pieces, Nat) /\ Into(OfKind("tool_use"), Pieces, Pieces)
    BY FnTypes
  <2>2. Flat(TextFn, c) \in Seq(Nat)
    BY <1>1, <2>1, FlatType
  <2>3. Flat(OfKind("tool_use"), c) \in Seq(Pieces)
    BY <1>1, <2>1, FlatType
  <2> QED BY <2>2, <2>3
<1>11. \A i \in Thoughts(c) : c[i].id = Len(sd) + i /\ i \in DOMAIN c
  BY DEF Thoughts, Adds
<1>12. Rising(c)
  BY <1>1, <1>11 DEF Rising
<1>13. Rising(t)
  BY <1>1, <1>12, RisingOnly
<1>14. ASSUME NEW i \in Thoughts(t) PROVE t[i].id <= Len(sd) + Len(c) /\ Len(sd) < t[i].id
  <2>1. t[i] \in Range(t)
    BY DEF Thoughts, Range
  <2>2. PICK j \in DOMAIN c : c[j] = t[i] /\ c[j].kind = "thinking"
    BY <1>3, <2>1 DEF Range
  <2>3. j \in Thoughts(c)
    BY <2>2 DEF Thoughts
  <2> QED BY <1>1, <1>11, <2>2, <2>3
<1> HIDE DEF t, p
<1>15. /\ Flat(TextFn, s) = Flat(TextFn, t) \o Flat(TextFn, p)
       /\ Flat(ImageFn, s) = Flat(ImageFn, t) \o Flat(ImageFn, p)
       /\ Flat(OfKind("tool_use"), s) = Flat(OfKind("tool_use"), t) \o Flat(OfKind("tool_use"), p)
       /\ Flat(OfKind("tool_result"), s) = Flat(OfKind("tool_result"), t) \o Flat(OfKind("tool_result"), p)
  <2>1. /\ Into(TextFn, Pieces, Nat) /\ Into(ImageFn, Pieces, Nat)
        /\ Into(OfKind("tool_use"), Pieces, Pieces) /\ Into(OfKind("tool_result"), Pieces, Pieces)
    BY FnTypes
  <2>2. ASSUME NEW T, NEW f, Into(f, Pieces, T) PROVE Flat(f, s) = Flat(f, t) \o Flat(f, p)
    <3>1. t \in Seq(Pieces) /\ p \in Seq(Pieces)
      BY <1>2, <1>5
    <3>2. Flat(f, t \o p) = Flat(f, t) \o Flat(f, p)
      BY <2>2, <3>1, FlatJoin
    <3> QED BY <3>2
  <2> HIDE DEF s
  <2>3. Flat(TextFn, s) = Flat(TextFn, t) \o Flat(TextFn, p)
    BY <2>1, <2>2
  <2>4. Flat(ImageFn, s) = Flat(ImageFn, t) \o Flat(ImageFn, p)
    BY <2>1, <2>2
  <2>5. Flat(OfKind("tool_use"), s) = Flat(OfKind("tool_use"), t) \o Flat(OfKind("tool_use"), p)
    BY <2>1, <2>2
  <2>6. Flat(OfKind("tool_result"), s) = Flat(OfKind("tool_result"), t) \o Flat(OfKind("tool_result"), p)
    BY <2>1, <2>2
  <2> QED BY <2>3, <2>4, <2>5, <2>6
<1>16. /\ s \in Seq(Pieces) /\ DOMAIN t = 1..Len(t) /\ DOMAIN s = 1..(Len(t) + Len(p)) /\ Len(t) \in Nat /\ Len(p) \in Nat
       /\ \A i \in DOMAIN s : IF i <= Len(t) THEN i \in DOMAIN t /\ s[i] = t[i]
                                ELSE i - Len(t) \in DOMAIN p /\ s[i] = p[i - Len(t)]
  BY <1>2, <1>5, JoinedAt
<1> HIDE DEF s
<1>17. \A i \in DOMAIN s : s[i].kind = "thinking" => i \in DOMAIN t /\ s[i] = t[i]
  BY <1>5, <1>16
<1>18. \A i \in DOMAIN t : i \in DOMAIN s /\ s[i] = t[i] /\ i \in Nat
  BY <1>16
<1>19. Thoughts(s) = Thoughts(t) /\ \A i \in Thoughts(t) : s[i] = t[i]
  BY <1>17, <1>18 DEF Thoughts
<1>20. Rising(s) /\ \A i \in Thoughts(s) : s[i].id <= Len(sd) + Len(c) /\ Len(sd) < s[i].id
  BY <1>13, <1>14, <1>19 DEF Rising
<1>21. ~Has(s, "tool_result")
  <2>1. \A b \in Range(t) : b.kind = "thinking"
    BY <1>3
  <2>2. \A i \in DOMAIN t : t[i].kind = "thinking"
    BY <2>1 DEF Range
  <2> QED BY <1>5, <1>16, <2>2 DEF Has, Range
<1>22. /\ Flat(TextFn, s) = Flat(TextFn, c) /\ Flat(ImageFn, s) = << >>
       /\ Flat(OfKind("tool_use"), s) = Flat(OfKind("tool_use"), c) /\ Flat(OfKind("tool_result"), s) = << >>
  <2>1. << >> \o Flat(TextFn, c) = Flat(TextFn, c)
    BY <1>10
  <2>2. << >> \o Flat(OfKind("tool_use"), c) = Flat(OfKind("tool_use"), c)
    BY <1>10
  <2>3. << >> \o << >> = << >>
    OBVIOUS
  <2> QED BY <1>4, <1>7, <1>8, <1>15, <2>1, <2>2, <2>3
<1> QED BY <1>9, <1>16, <1>20, <1>21, <1>22 DEF s, t, p

\* A message that says what was said, with the thoughts in their order.
LEMMA SaysAll ==
    ASSUME NEW cv, NEW sd, NEW bs, Book(cv, sd, bs), NEW c, Adds(sd, c), ~Has(c, "tool_result"),
           NEW s \in Seq(Pieces), ~Has(s, "tool_result"), Rising(s),
           Flat(TextFn, s) = Flat(TextFn, c), Flat(ImageFn, s) = Flat(ImageFn, c),
           Flat(OfKind("tool_use"), s) = Flat(OfKind("tool_use"), c),
           Flat(OfKind("tool_result"), s) = Flat(OfKind("tool_result"), c),
           \A i \in Thoughts(s) : s[i].id <= Len(sd) + Len(c) /\ Len(sd) < s[i].id,
           NEW m \in FormedSet, m.content = s, FirstOnly(cv \o <<m>>)
    PROVE  Book(cv \o <<m>>, sd \o c, bs)
<1>1. TextIds(s) = Flat(TextFn, s) /\ IdsOf(Only(s, "image")) = Flat(ImageFn, s)
      /\ Only(s, "tool_use") = Flat(OfKind("tool_use"), s) /\ Only(s, "tool_result") = Flat(OfKind("tool_result"), s)
  BY TextIdsIs, IdsIs, OnlyIs
<1>2. TextOf[m] = Flat(TextFn, c) /\ ImageOf[m] = Flat(ImageFn, c) /\ UseOf[m] = Flat(OfKind("tool_use"), c)
      /\ ResOf[m] = Flat(OfKind("tool_result"), c)
  BY <1>1 DEF TextOf, ImageOf, UseOf, ResOf
<1> DEFINE ms == <<m>>
<1>3. Flat(TextOf, ms) = TextOf[m] /\ Flat(ImageOf, ms) = ImageOf[m] /\ Flat(UseOf, ms) = UseOf[m]
      /\ Flat(ResOf, ms) = ResOf[m]
  BY FlatOne
<1>4. DOMAIN ms = {1} /\ ms[1] = m
  OBVIOUS
<1>5. ms \in Seq(FormedSet) /\ FirstOnly(cv \o ms)
  BY OneSeq
<1> HIDE DEF ms
<1>6. ThoughtsOK(ms, Len(sd) + Len(c)) /\ Later(ms, Len(sd))
  BY <1>4 DEF ThoughtsOK, Later
<1>7. Book(cv \o ms, sd \o c, bs)
  BY <1>2, <1>3, <1>5, <1>6, BookAdds
<1> QED BY <1>7 DEF ms

\* Whatever the dialect, and streamed or not.
LEMMA ReceivedIs ==
    ASSUME dialect \in {"messages", "chat", "responses"}, NEW cv, NEW sd, NEW bs, Book(cv, sd, bs), NEW c, Adds(sd, c),
           ~Has(c, "tool_result"), ~Has(c, "image"), NEW streamed \in BOOLEAN
    PROVE  LET ms == Received(c, streamed) IN
           /\ ms \in Seq(FormedSet) /\ Book(cv \o ms, sd \o c, bs)
           /\ \A i \in DOMAIN ms : ms[i].role = "assistant" /\ ~Has(ms[i].content, "tool_result")
           /\ Flat(UseOf, ms) = Flat(OfKind("tool_use"), c)
           /\ dialect # "responses" => Len(ms) = 1
<1> DEFINE ms == Received(c, streamed)
           spoken == Spoken(c)
           heard == FlattenSeq([i \in DOMAIN c |-> Begun(c, i)])
<1>1. c \in Seq(Pieces) /\ cv \in Seq(FormedSet) /\ FirstOnly(cv)
  BY DEF Adds, Book
<1>2. Speech(spoken) /\ Flat(TextFn, spoken) = Flat(TextFn, c)
      /\ Flat(OfKind("tool_use"), spoken) = Flat(OfKind("tool_use"), c)
  BY <1>1, SpokenSays
<1>3. Speech(heard) /\ Flat(TextFn, heard) = Flat(TextFn, c)
      /\ Flat(OfKind("tool_use"), heard) = Flat(OfKind("tool_use"), c)
  BY <1>1, StreamSays
<1>4. CASE dialect = "messages"
  <2>1. sd \in Seq(Pieces)
    BY DEF Book, SaidOK
  <2> DEFINE s == IF streamed THEN Only(c, "thinking") \o Spoken(c) ELSE c
             m == Message("assistant", s)
  <2>2. Received(c, streamed) = <<m>>
    <3>1. CASE streamed
      BY <1>4, <3>1, Zenon DEF Received, ToAnthropicStream
    <3>2. CASE ~streamed
      BY <1>4, <3>2, Zenon DEF Received, ToAnthropic
    <3> QED BY <3>1, <3>2
  <2>3. /\ s \in Seq(Pieces) /\ ~Has(s, "tool_result")
        /\ Flat(TextFn, s) = Flat(TextFn, c) /\ Flat(ImageFn, s) = Flat(ImageFn, c)
        /\ Flat(OfKind("tool_use"), s) = Flat(OfKind("tool_use"), c)
        /\ Flat(OfKind("tool_result"), s) = Flat(OfKind("tool_result"), c)
        /\ Rising(s)
        /\ \A i \in Thoughts(s) : s[i].id <= Len(sd) + Len(c) /\ Len(sd) < s[i].id
    <3>1. CASE streamed
      BY <2>1, <3>1, StreamedIs
    <3>2. CASE ~streamed
      <4>1. s = c
        BY <3>2
      <4> HIDE DEF s
      <4>2. DOMAIN c = 1..Len(c) /\ Len(c) \in Nat /\ Len(sd) \in Nat
        BY <1>1, <2>1
      <4>3. \A i \in Thoughts(c) : c[i].id = Len(sd) + i /\ i \in DOMAIN c
        BY DEF Thoughts, Adds
      <4>4. Rising(c) /\ \A i \in Thoughts(c) : c[i].id <= Len(sd) + Len(c) /\ Len(sd) < c[i].id
        BY <4>2, <4>3 DEF Rising
      <4> QED BY <1>1, <4>1, <4>4
    <3> QED BY <3>1, <3>2
  <2> HIDE DEF s
  <2>4. "assistant" \in Roles \ {"tool"}
    BY DEF Roles
  <2>5. m \in FormedSet /\ m.content = s /\ m.role = "assistant"
    BY <1>4, <2>3, <2>4, MessageIs
  <2> HIDE DEF m
  <2>6. <<m>> \in Seq(FormedSet)
    BY <2>5, OneSeq
  <2>7. FirstOnly(cv \o <<m>>)
    <3> DEFINE t == <<m>>
    <3>1. t \in Seq(FormedSet) /\ NoSystem(t)
      BY <2>5 DEF NoSystem
    <3> HIDE DEF t
    <3>2. FirstOnly(cv \o t)
      BY <1>1, <3>1, FirstGrows
    <3> QED BY <3>2 DEF t
  <2>8. Book(cv \o <<m>>, sd \o c, bs)
    BY <2>3, <2>5, <2>7, SaysAll
  <2>9. Flat(UseOf, <<m>>) = UseOf[m]
    BY FlatOne
  <2>10. UseOf[m] = Flat(OfKind("tool_use"), c)
    BY <2>3, <2>5, OnlyIs DEF UseOf
  <2>11. \A i \in DOMAIN <<m>> : <<m>>[i].role = "assistant" /\ ~Has(<<m>>[i].content, "tool_result")
    BY <2>3, <2>5
  <2>12. Len(<<m>>) = 1
    OBVIOUS
  <2> QED BY <2>2, <2>6, <2>8, <2>9, <2>10, <2>11, <2>12
<1>5. ASSUME NEW s, NEW t, Utters(t, s), Flat(TextFn, s) = Flat(TextFn, c),
             Flat(OfKind("tool_use"), s) = Flat(OfKind("tool_use"), c)
      PROVE  /\ t \in Seq(FormedSet) /\ Book(cv \o t, sd \o c, bs)
             /\ \A i \in DOMAIN t : t[i].role = "assistant" /\ ~Has(t[i].content, "tool_result")
             /\ Flat(UseOf, t) = Flat(OfKind("tool_use"), c)
  <2>1. Book(cv \o t, sd \o c, bs)
    BY <1>5, BookUtters
  <2> QED BY <1>5, <2>1 DEF Utters
<1> HIDE DEF spoken, heard
<1>6. CASE dialect = "chat"
  <2> DEFINE t == <<Message("assistant", spoken)>>
  <2>1. Received(c, streamed) = t
    BY <1>6, Zenon DEF Received, ToOpenAI, spoken
  <2>2. Utters(t, spoken)
    BY <1>2, <1>6, OneUtters
  <2>3. Len(t) = 1
    OBVIOUS
  <2> HIDE DEF t
  <2> QED BY <1>2, <1>5, <2>1, <2>2, <2>3
<1>7. CASE dialect = "responses" /\ streamed
  <2>1. Received(c, streamed) = Items(heard)
    BY <1>7, Zenon DEF Received, ToResponsesStream, heard
  <2>2. Utters(Items(heard), heard)
    BY <1>3, ItemsUtter
  <2> QED BY <1>3, <1>5, <1>7, <2>1, <2>2
<1>8. CASE dialect = "responses" /\ ~streamed
  <2>1. Received(c, streamed) = Items(spoken)
    BY <1>8, Zenon DEF Received, ToResponsesOutput, spoken
  <2>2. Utters(Items(spoken), spoken)
    BY <1>2, ItemsUtter
  <2> QED BY <1>2, <1>5, <1>8, <2>1, <2>2
<1> QED BY <1>4, <1>6, <1>7, <1>8

LEMMA AnswerKeeps == ASSUME ConversationInv, Answer PROVE ConversationInv'
<1>1. whose = "sent" /\ dialect' = dialect /\ offers' = offers /\ beside' = beside
  BY DEF Answer
<1>2. PICK n \in 0..MaxPieces, streamed \in BOOLEAN : \E kinds \in [1..n -> Answerable] :
          LET content == [i \in 1..n |-> Made(kinds[i], New(i))]
          IN  /\ conv' = conv \o Received(content, streamed) /\ said' = said \o content
              /\ whose' = IF Has(content, "tool_use") THEN "tools" ELSE "user"
  BY DEF Answer
<1>3. PICK kinds \in [1..n -> Answerable] :
          LET content == [i \in 1..n |-> Made(kinds[i], New(i))]
          IN  /\ conv' = conv \o Received(content, streamed) /\ said' = said \o content
              /\ whose' = IF Has(content, "tool_use") THEN "tools" ELSE "user"
  BY <1>2
<1>4. /\ dialect \in {"messages", "chat", "responses"} /\ offers \subseteq {"function", "custom", "web", "other"}
      /\ Book(conv, said, beside) /\ Owed(said) = << >> /\ (~Apart => Settled(Flat(ChatOf, conv)))
  BY <1>1 DEF ConversationInv, Order
<1>5. conv \in Seq(FormedSet) /\ said \in Seq(Pieces) /\ SaidOK(said)
  BY <1>4 DEF Book, SaidOK
<1> DEFINE c == [i \in 1..n |-> Made(kinds[i], New(i))]
           ms == Received(c, streamed)
<1>6. conv' = conv \o ms /\ said' = said \o c /\ whose' = IF Has(c, "tool_use") THEN "tools" ELSE "user"
  BY <1>3
<1>7. n \in Nat
  BY ConversationAssumption
<1>8. kinds \in [1..n -> AllKinds]
  BY AnswerableIs
<1>9. c = [i \in 1..n |-> Made(kinds[i], Len(said) + i)]
  BY DEF New
<1> HIDE DEF c
<1>10. /\ Adds(said, c) /\ c \in Seq(Pieces) /\ ~Has(c, "tool_result") /\ ~Has(c, "image")
       /\ \A b \in Range(c) : b.kind # "tool_result"
  BY <1>5, <1>7, <1>8, <1>9, ContentIs
<1>11. /\ ms \in Seq(FormedSet) /\ Book(conv \o ms, said \o c, beside)
       /\ \A i \in DOMAIN ms : ms[i].role = "assistant" /\ ~Has(ms[i].content, "tool_result")
       /\ Flat(UseOf, ms) = Flat(OfKind("tool_use"), c)
       /\ dialect # "responses" => Len(ms) = 1
  BY <1>4, <1>10, ReceivedIs
<1> HIDE DEF ms
<1>12. Book(conv', said', beside')
  BY <1>1, <1>6, <1>11
<1>13. Owed(said') = Flat(OfKind("tool_use"), c)
  <2>1. Owed(said \o c) = Owed(said) \o Flat(OfKind("tool_use"), c)
    BY <1>5, <1>10, OwedGrows
  <2>2. Flat(OfKind("tool_use"), c) \in Seq(Pieces)
    BY <1>10, OnlyIs
  <2> QED BY <1>4, <1>6, <2>1, <2>2
<1>14. Owed(said') # << >> <=> Has(c, "tool_use")
  <2>1. CASE Has(c, "tool_use")
    <3>1. PICK b \in Range(c) : b.kind = "tool_use"
      BY <2>1 DEF Has
    <3>2. b \in Range(Only(c, "tool_use"))
      BY <1>10, <3>1, OnlyRange
    <3>3. Only(c, "tool_use") # << >>
      BY <3>2 DEF Range
    <3> QED BY <1>10, <1>13, <2>1, <3>3, OnlyIs
  <2>2. CASE ~Has(c, "tool_use")
    BY <1>10, <1>13, <2>2, NoneOf
  <2> QED BY <2>1, <2>2
<1>15. /\ whose' = "tools" <=> Owed(said') # << >>
       /\ whose' \in {"user", "tools"}
  BY <1>6, <1>14
<1>16. ASSUME ~Apart' PROVE Order(whose', conv', said')
  <2>1. /\ ~Apart
        /\ dialect = "responses" =>
              \A i \in 1..(Len(ms) - 1) : ~(Has(ms[i].content, "tool_use") /\ ms[i + 1].role = "assistant")
    BY <1>1, <1>5, <1>6, <1>11, <1>16, ApartGrows
  <2>2. \A i \in 1..(Len(ms) - 1) : UseOf[ms[i]] = << >>
    <3> SUFFICES ASSUME NEW i \in 1..(Len(ms) - 1) PROVE UseOf[ms[i]] = << >>
      OBVIOUS
    <3>1. dialect = "responses"
      BY <1>11
    <3>2. i \in DOMAIN ms /\ i + 1 \in DOMAIN ms
      BY <1>11
    <3>3. ~Has(ms[i].content, "tool_use")
      BY <1>11, <2>1, <3>1, <3>2
    <3>4. ms[i] \in FormedSet /\ ms[i].content \in Seq(Pieces)
      BY <1>11, <3>2 DEF FormedSet, MessageSet
    <3>5. Only(ms[i].content, "tool_use") = << >>
      BY <3>3, <3>4, NoneOf, OnlyIs
    <3> QED BY <3>4, <3>5 DEF UseOf
  <2>3. Flat(UseOf, ms) = Owed(said')
    BY <1>11, <1>13
  <2>4. Settled(Flat(ChatOf, conv)) /\ \A i \in DOMAIN ms : ~Has(ms[i].content, "tool_result")
    BY <1>4, <1>11, <2>1
  <2>5. IF Owed(said') = << >> THEN Settled(Flat(ChatOf, conv \o ms)) ELSE Open(conv \o ms, said')
    BY <1>4, <1>5, <1>11, <2>2, <2>3, <2>4, AnswerOrder
  <2> QED BY <1>6, <1>15, <2>5 DEF Order
<1>17. whose' # "sent" /\ whose' \in {"user", "tools", "ready", "sent"}
  BY <1>15
<1> QED BY <1>1, <1>4, <1>12, <1>15, <1>16, <1>17, Kept

-----------------------------------------------------------------------------
(* The results of the tools. *)

LEMMA ReverseIs ==
    ASSUME NEW S, NEW s \in Seq(S)
    PROVE  Reverse(s) \in Seq(S) /\ Len(Reverse(s)) = Len(s) /\ Range(Reverse(s)) = Range(s)
<1> DEFINE r == [i \in 1..Len(s) |-> s[(Len(s) - i) + 1]]
<1>1. Reverse(s) = r
  BY DEF Reverse
<1>2. Len(s) \in Nat /\ DOMAIN s = 1..Len(s) /\ DOMAIN r = 1..Len(s)
  OBVIOUS
<1>3. \A i \in 1..Len(s) : (Len(s) - i) + 1 \in 1..Len(s)
  BY <1>2
<1>4. \A i \in 1..Len(s) : r[i] = s[(Len(s) - i) + 1] /\ r[i] \in S
  BY <1>3
<1>5. r = [i \in 1..Len(s) |-> r[i]]
  OBVIOUS
<1> HIDE DEF r
<1>6. r \in Seq(S) /\ Len(r) = Len(s)
  BY <1>2, <1>4, <1>5
<1>7. \A x \in Range(r) : x \in Range(s)
  BY <1>2, <1>3, <1>4 DEF Range
<1>8. \A x \in Range(s) : x \in Range(r)
  <2> SUFFICES ASSUME NEW x \in Range(s) PROVE x \in Range(r)
    OBVIOUS
  <2>1. PICK i \in 1..Len(s) : x = s[i]
    BY <1>2 DEF Range
  <2> DEFINE j == (Len(s) - i) + 1
  <2>2. j \in 1..Len(s) /\ (Len(s) - j) + 1 = i
    BY <1>2, <2>1
  <2> HIDE DEF j
  <2>3. r[j] = s[(Len(s) - j) + 1]
    BY <1>4, <2>2
  <2>4. r[j] = x
    BY <2>1, <2>2, <2>3
  <2> QED BY <1>2, <2>2, <2>4 DEF Range
<1> QED BY <1>1, <1>6, <1>7, <1>8

ToolMessage(r) == [Blank("tool") EXCEPT !.of = <<r.id>>, !.shown = r.images]

LEMMA ToolMessageIs ==
    ASSUME NEW r \in ResultSet
    PROVE  LET w == ToolMessage(r) IN w \in Wired /\ w.role = "tool" /\ w.calls = << >> /\ w.of = <<r.id>>
<1>1. <<r.id>> \in Seq(Nat) /\ r.images \in BOOLEAN
  BY DEF ResultSet
<1> DEFINE o == <<r.id>>  s == r.images
<1>2. o \in Seq(Nat) /\ s \in BOOLEAN
  BY <1>1
<1>3. ToolMessage(r) = [Blank("tool") EXCEPT !.of = o, !.shown = s]
  BY DEF ToolMessage
<1> HIDE DEF o, s
<1>4. LET w == [Blank("tool") EXCEPT !.of = o, !.shown = s] IN
      w \in Wired /\ w.role = "tool" /\ w.calls = << >> /\ w.of = o
  BY <1>2, WireResult
<1>5. ToolMessage(r) \in Wired /\ ToolMessage(r).role = "tool" /\ ToolMessage(r).calls = << >> /\ ToolMessage(r).of = o
  BY <1>3, <1>4
<1> QED BY <1>5 DEF o

\* What results are, and what is said with them.
LEMMA ResultBlock ==
    ASSUME NEW b \in UseSet, NEW shown \in BOOLEAN
    PROVE  LET r == ToolResult(b.id, shown) IN
           r \in ResultSet /\ r \in Pieces /\ r.kind = "tool_result" /\ r.id = b.id /\ r.images = shown
<1>1. b.id \in Nat
  BY DEF UseSet
<1> QED BY <1>1 DEF ToolResult, ResultSet, Pieces

LEMMA ResultsOnly ==
    ASSUME NEW s \in Seq(ResultSet)
    PROVE  /\ s \in Seq(Pieces)
           /\ \A i \in DOMAIN s : s[i] \in Pieces /\ s[i] \in ResultSet /\ s[i].kind = "tool_result"
           /\ Flat(OfKind("tool_result"), s) = s
<1>1. \A r \in ResultSet : r \in Pieces /\ r.kind = "tool_result"
  BY DEF ResultSet, Pieces
<1>2. s \in Seq(Pieces)
  BY <1>1
<1>3. \A i \in DOMAIN s : s[i] \in ResultSet
  OBVIOUS
<1>4. DOMAIN s = 1..Len(s)
  OBVIOUS
<1>5. \A i \in 1..Len(s) : OfKind("tool_result")[s[i]] = <<s[i]>>
  BY <1>1, <1>3, <1>4 DEF OfKind
<1>6. Flat(OfKind("tool_result"), s) = s
  BY <1>4, <1>5, FlatSingles
<1> QED BY <1>1, <1>2, <1>3, <1>6

\* The messages that results come in: one, or one each.
ReturnedIn(results, words) ==
    IF dialect = "messages" THEN <<Message("user", results \o words)>>
    ELSE Each(results, LAMBDA r : Message("tool", <<r>>))

LEMMA ReturnedIs ==
    ASSUME dialect \in {"messages", "chat", "responses"}, NEW results \in Seq(ResultSet), results # << >>,
           NEW words \in Seq(TextSet), words # << >> => dialect = "messages"
    PROVE  LET ms == ReturnedIn(results, words)  c == results \o words IN
           /\ ms \in Seq(FormedSet) /\ NoSystem(ms)
           /\ \A i \in DOMAIN ms : ~Has(ms[i].content, "thinking")
           /\ Flat(TextOf, ms) = << >> /\ Flat(ImageOf, ms) = << >> /\ Flat(UseOf, ms) = << >>
           /\ Flat(ResOf, ms) = Flat(OfKind("tool_result"), c)
           /\ Flat(ChatOf, ms) = [i \in DOMAIN results |-> ToolMessage(results[i])]
<1> DEFINE c == results \o words
           h == [i \in DOMAIN results |-> ToolMessage(results[i])]
           ms == ReturnedIn(results, words)
<1>1. /\ results \in Seq(Pieces)
      /\ \A i \in DOMAIN results : results[i] \in Pieces /\ results[i] \in ResultSet /\ results[i].kind = "tool_result"
      /\ Flat(OfKind("tool_result"), results) = results
  BY ResultsOnly
<1>2. words \in Seq(Pieces) /\ \A i \in DOMAIN words : words[i].kind = "text"
  <2>1. \A b \in TextSet : b \in Pieces /\ b.kind = "text"
    BY DEF TextSet, Pieces
  <2> QED BY <2>1
<1>3. ~Has(words, "tool_result")
  BY <1>2 DEF Has, Range
<1>4. c \in Seq(Pieces)
  BY <1>1, <1>2
<1>5. Flat(OfKind("tool_result"), c) = results
  <2>1. Flat(OfKind("tool_result"), c) = Flat(OfKind("tool_result"), results) \o Flat(OfKind("tool_result"), words)
    BY <1>1, <1>2, BlocksJoin
  <2>2. Flat(OfKind("tool_result"), words) = << >>
    BY <1>2, <1>3, NoneOf
  <2> QED BY <1>1, <2>1, <2>2
<1>6. Range(c) = Range(results) \cup Range(words)
  BY <1>1, <1>2, RangeJoin
<1>7. /\ \A b \in Range(c) : b.kind \in {"tool_result", "text"}
      /\ Has(c, "tool_result")
  <2>1. \A b \in Range(results) : b.kind = "tool_result"
    BY <1>1 DEF Range
  <2>2. \A b \in Range(words) : b.kind = "text"
    BY <1>2 DEF Range
  <2>3. results[1] \in Range(results)
    BY DEF Range
  <2> HIDE DEF c
  <2> QED BY <1>6, <2>1, <2>2, <2>3 DEF Has
<1>8. h \in Seq(Wired) /\ Len(h) = Len(results) /\ DOMAIN results = 1..Len(results) /\ Len(results) \in Nat
      /\ \A i \in DOMAIN results : h[i] = ToolMessage(results[i])
  <2>1. \A i \in DOMAIN results : ToolMessage(results[i]) \in Wired
    BY <1>1, ToolMessageIs
  <2>2. Fills(h, results, Wired)
    BY <2>1 DEF Fills
  <2>3. \A i \in DOMAIN results : h[i] = ToolMessage(results[i])
    OBVIOUS
  <2> HIDE DEF h
  <2>4. h \in Seq(Wired) /\ Len(h) = Len(results)
    BY <2>2, FillSeq
  <2> QED BY <2>3, <2>4
<1>9. CASE dialect = "messages"
  <2> DEFINE m == Message("user", c)
  <2>1. ms = <<m>>
    BY <1>9 DEF ReturnedIn
  <2>2. m.content = c /\ m.role = "user" /\ m \in MessageSet
    BY <1>4 DEF Message, MessageSet, Roles
  <2>3. ~Has(c, "thinking")
    BY <1>7 DEF Has
  <2> HIDE DEF m, c
  <2>4. m \in FormedSet
    <3>1. Formed(m)
      BY <1>9, <1>7, <2>2, <2>3 DEF Formed
    <3> QED BY <2>2, <3>1 DEF FormedSet
  <2>5. TextOf[m] = << >> /\ ImageOf[m] = << >> /\ UseOf[m] = << >> /\ ResOf[m] = Only(c, "tool_result")
    BY <1>7, <2>2, <2>4 DEF TextOf, ImageOf, UseOf, ResOf
  <2>6. ResOf[m] = results
    BY <1>4, <1>5, <2>5, OnlyIs
  <2>7. ChatOf[m] = h
    <3>1. /\ ChatOf[m] \in Seq(Wired) /\ Len(ChatOf[m]) = Len(results)
          /\ \A i \in 1..Len(results) :
                ChatOf[m][i] = [Blank("tool") EXCEPT !.of = <<results[i].id>>, !.shown = results[i].images]
      BY <1>7, <2>2, <2>4, <2>6, ChatIs
    <3> HIDE DEF h
    <3>2. \A i \in 1..Len(results) : ChatOf[m][i] = h[i]
      BY <1>8, <3>1 DEF ToolMessage
    <3> DEFINE q == ChatOf[m]
    <3>3. q \in Seq(Wired) /\ Len(q) = Len(results) /\ \A i \in 1..Len(results) : q[i] = h[i]
      BY <3>1, <3>2
    <3> HIDE DEF q
    <3>4. h \in Seq(Wired) /\ Len(h) = Len(results)
      BY <1>8
    <3>5. q = h
      BY <3>3, <3>4, SeqEqual
    <3> QED BY <3>5 DEF q
  <2> HIDE DEF h, ms
  <2>8. Flat(TextOf, <<m>>) = TextOf[m] /\ Flat(ImageOf, <<m>>) = ImageOf[m] /\ Flat(UseOf, <<m>>) = UseOf[m]
        /\ Flat(ResOf, <<m>>) = ResOf[m] /\ Flat(ChatOf, <<m>>) = ChatOf[m]
    BY FlatOne
  <2>9. <<m>> \in Seq(FormedSet) /\ NoSystem(<<m>>)
    <3>1. <<m>> \in Seq(FormedSet)
      BY <2>4, OneSeq
    <3> QED BY <2>2, <3>1 DEF NoSystem
  <2>10. \A i \in DOMAIN <<m>> : ~Has(<<m>>[i].content, "thinking")
    BY <2>2, <2>3
  <2>11. /\ ms \in Seq(FormedSet) /\ NoSystem(ms)
         /\ \A i \in DOMAIN ms : ~Has(ms[i].content, "thinking")
         /\ Flat(TextOf, ms) = << >> /\ Flat(ImageOf, ms) = << >> /\ Flat(UseOf, ms) = << >>
         /\ Flat(ResOf, ms) = Flat(OfKind("tool_result"), c)
         /\ Flat(ChatOf, ms) = h
    BY <1>5, <2>1, <2>5, <2>6, <2>7, <2>8, <2>9, <2>10
  <2> QED BY <2>11 DEF c, h, ms
<1>10. CASE dialect # "messages"
  <2> DEFINE M(i) == Message("tool", <<results[i]>>)
  <2>1. ms = [i \in DOMAIN results |-> M(i)]
    BY <1>10 DEF ReturnedIn, Each
  <2>2. c = results
    <3>1. words = << >>
      BY <1>10
    <3> QED BY <1>1, <3>1
  <2>3. ASSUME NEW i \in DOMAIN results
        PROVE  /\ M(i) \in FormedSet /\ M(i).role = "tool" /\ ~Has(M(i).content, "thinking")
               /\ TextOf[M(i)] = << >> /\ ImageOf[M(i)] = << >> /\ UseOf[M(i)] = << >>
               /\ ResOf[M(i)] = OfKind("tool_result")[results[i]]
               /\ ChatOf[M(i)] = <<ToolMessage(results[i])>>
    <3> DEFINE d == <<results[i]>>  m == Message("tool", d)
    <3>1. d \in Seq(Pieces) /\ d[1] = results[i] /\ Len(d) = 1 /\ DOMAIN d = {1}
      BY <1>1
    <3>20. d # << >>
      OBVIOUS
    <3>2. Range(d) = {results[i]}
      BY DEF Range
    <3>3. Flat(OfKind("tool_result"), d) = OfKind("tool_result")[results[i]]
      BY FlatOne
    <3>4. OfKind("tool_result")[results[i]] = <<results[i]>>
      BY <1>1 DEF OfKind
    <3> HIDE DEF d
    <3>5. m.content = d /\ m.role = "tool" /\ m \in MessageSet
      BY <3>1 DEF Message, MessageSet, Roles
    <3>6. M(i) = m
      BY DEF d
    <3> HIDE DEF M, m
    <3>16. \A b : b \in Range(d) <=> b = results[i]
      BY <3>2
    <3>17. results[i].kind = "tool_result"
      BY <1>1
    <3>18. Has(d, "tool_result") /\ ~Has(d, "thinking")
      BY <3>16, <3>17 DEF Has
    <3>7. Has(d, "tool_result") /\ ~Has(d, "thinking") /\ d # << >>
      BY <3>20, <3>18
    <3>8. m \in FormedSet
      <4>1. Formed(m)
        BY <1>10, <3>1, <3>5, <3>7 DEF Formed
      <4> QED BY <3>5, <4>1 DEF FormedSet
    <3>9. TextOf[m] = << >> /\ ImageOf[m] = << >> /\ UseOf[m] = << >> /\ ResOf[m] = Only(d, "tool_result")
      BY <3>5, <3>7, <3>8 DEF TextOf, ImageOf, UseOf, ResOf
    <3>10. Only(d, "tool_result") = Flat(OfKind("tool_result"), d)
      BY <3>1, OnlyIs
    <3>11. ResOf[m] = <<results[i]>>
      BY <3>3, <3>4, <3>9, <3>10
    <3>12. /\ ChatOf[m] \in Seq(Wired) /\ Len(ChatOf[m]) = Len(ResOf[m])
           /\ \A j \in 1..Len(ResOf[m]) :
                 ChatOf[m][j] = [Blank("tool") EXCEPT !.of = <<ResOf[m][j].id>>, !.shown = ResOf[m][j].images]
      BY <3>5, <3>7, <3>8, ChatIs
    <3>13. Len(ResOf[m]) = 1 /\ ResOf[m][1] = results[i]
      BY <3>11
    <3>19. \A j \in 1..Len(ResOf[m]) : ChatOf[m][j] = ToolMessage(ResOf[m][j])
      BY <3>12 DEF ToolMessage
    <3>14. ChatOf[m][1] = ToolMessage(results[i])
      BY <3>13, <3>19
    <3>15. ChatOf[m] = <<ToolMessage(results[i])>>
      BY <3>12, <3>13, <3>14
    <3> QED BY <3>3, <3>5, <3>6, <3>7, <3>8, <3>9, <3>10, <3>15
  <2> HIDE DEF M, ms, h, c
  <2>4. ms \in Seq(FormedSet) /\ Len(ms) = Len(results) /\ DOMAIN ms = DOMAIN results
        /\ \A i \in DOMAIN results : ms[i] = M(i)
    <3>1. Fills(ms, results, FormedSet)
      BY <2>1, <2>3 DEF Fills
    <3>2. ms \in Seq(FormedSet) /\ Len(ms) = Len(results)
      BY <3>1, FillSeq
    <3> QED BY <2>1, <3>2
  <2>5. Flat(TextOf, ms) = << >>
    BY <1>8, <2>3, <2>4, FlatNone
  <2>6. Flat(ImageOf, ms) = << >>
    BY <1>8, <2>3, <2>4, FlatNone
  <2>7. Flat(UseOf, ms) = << >>
    BY <1>8, <2>3, <2>4, FlatNone
  <2>8. Flat(ResOf, ms) = Flat(OfKind("tool_result"), results)
    <3>1. [i \in DOMAIN ms |-> ResOf[ms[i]]] = [i \in DOMAIN results |-> OfKind("tool_result")[results[i]]]
      BY <2>3, <2>4
    <3> QED BY <3>1 DEF Flat
  <2>9. Flat(ChatOf, ms) = h
    <3>1. \A i \in 1..Len(h) : ChatOf[ms[i]] = <<h[i]>>
      BY <1>8, <2>3, <2>4
    <3>2. DOMAIN ms = 1..Len(h)
      BY <1>8, <2>4
    <3> QED BY <1>8, <3>1, <3>2, FlatSingles
  <2>10. NoSystem(ms) /\ \A i \in DOMAIN ms : ~Has(ms[i].content, "thinking")
    BY <2>3, <2>4 DEF NoSystem
  <2> QED BY <2>2, <2>4, <2>5, <2>6, <2>7, <2>8, <2>9, <2>10 DEF ms, h, c
<1> QED BY <1>9, <1>10

\* Results of all the calls that wait, in any order, and perhaps a word with them.
LEMMA ResultsAdd ==
    ASSUME NEW sd, SaidOK(sd), NEW bs, BesideOK(sd, bs), NEW calls \in Seq(UseSet), Range(calls) = Range(Owed(sd)),
           NEW shown \in BOOLEAN, NEW results, results = [i \in DOMAIN calls |-> ToolResult(calls[i].id, shown)],
           NEW words, words = << >> \/ words = <<Text(<<Len(sd) + Len(results) + 1>>)>>
    PROVE  LET c == results \o words  k == Len(results) IN
           /\ results \in Seq(ResultSet) /\ Len(results) = Len(calls) /\ words \in Seq(TextSet)
           /\ Adds(sd, c) /\ k \in Nat /\ (\A i \in DOMAIN c : i > k => c[i].kind = "text")
           /\ Owed(sd \o c) = << >>
           /\ Flat(Spared(More(bs, sd, c, k)), c) = << >>
           /\ Flat(ImageFn, c) = << >> /\ Flat(OfKind("tool_use"), c) = << >>
<1> DEFINE c == results \o words
           n == Len(results)
           w == Text(<<Len(sd) + Len(results) + 1>>)
<1>1. sd \in Seq(Pieces)
  BY DEF SaidOK
<1>2. /\ results \in Seq(ResultSet) /\ Len(results) = Len(calls) /\ DOMAIN results = 1..n /\ n \in Nat
      /\ DOMAIN calls = 1..n
  <2>1. \A i \in DOMAIN calls : calls[i] \in UseSet
    OBVIOUS
  <2>2. \A i \in DOMAIN calls : ToolResult(calls[i].id, shown) \in ResultSet
    BY <2>1, ResultBlock
  <2>3. Fills(results, calls, ResultSet)
    BY <2>2 DEF Fills
  <2>4. results \in Seq(ResultSet) /\ Len(results) = Len(calls)
    BY <2>3, FillSeq
  <2> QED BY <2>4
<1>3. \A i \in 1..n : /\ results[i] \in Pieces /\ results[i] \in ResultSet /\ results[i].kind = "tool_result"
                      /\ results[i].id = calls[i].id /\ results[i].images = shown
  <2> SUFFICES ASSUME NEW i \in 1..n
               PROVE  /\ results[i] \in Pieces /\ results[i] \in ResultSet /\ results[i].kind = "tool_result"
                      /\ results[i].id = calls[i].id /\ results[i].images = shown
    OBVIOUS
  <2>1. i \in DOMAIN calls /\ calls[i] \in UseSet
    BY <1>2
  <2>2. results[i] = ToolResult(calls[i].id, shown)
    BY <2>1
  <2> QED BY <2>1, <2>2, ResultBlock
<1>4. w \in Pieces /\ w \in TextSet /\ w.kind = "text" /\ w.ids = <<Len(sd) + n + 1>>
  <2> DEFINE j == Len(sd) + n + 1
  <2>1. j \in Nat
    BY <1>1, <1>2
  <2> HIDE DEF j
  <2>2. LET b == Text(<<j>>) IN b \in Pieces /\ b.kind = "text" /\ b.ids = <<j>>
    BY <2>1, TextBlock
  <2>3. Text(<<j>>) \in TextSet
    BY <2>1, <2>2, BlockIs
  <2> QED BY <2>2, <2>3 DEF j
<1>5. results \in Seq(Pieces)
  BY <1>2, ResultsOnly
<1>6. words \in Seq(TextSet) /\ words \in Seq(Pieces) /\ (words = << >> \/ words = <<w>>)
  <2> HIDE DEF w
  <2>1. words = << >> \/ words = <<w>>
    BY DEF w
  <2>2. CASE words = << >>
    BY <2>2
  <2>3. CASE words = <<w>>
    <3>1. <<w>> \in Seq(TextSet) /\ <<w>> \in Seq(Pieces)
      BY <1>4, OneSeq
    <3> QED BY <2>3, <3>1
  <2> QED BY <2>1, <2>2, <2>3
<1>7. c \in Seq(Pieces) /\ Len(c) = n + Len(words) /\ Len(words) \in Nat /\ DOMAIN c = 1..(n + Len(words))
  BY <1>5, <1>6, JoinedAt
<1>8. \A i \in DOMAIN c : \/ i \in 1..n /\ c[i] = results[i]
                          \/ i = n + 1 /\ c[i] = w
  <2> SUFFICES ASSUME NEW i \in DOMAIN c PROVE (i \in 1..n /\ c[i] = results[i]) \/ (i = n + 1 /\ c[i] = w)
    OBVIOUS
  <2>1. CASE i <= n
    <3>1. c[i] = results[i]
      BY <1>2, <1>5, <1>6, <2>1, JoinedAt
    <3>2. i \in 1..n
      BY <1>2, <1>7, <2>1
    <3> HIDE DEF w, c, n
    <3> QED BY <3>1, <3>2
  <2>2. CASE ~(i <= n)
    <3>1. i - n \in DOMAIN words /\ c[i] = words[i - n]
      BY <1>5, <1>6, <2>2, JoinedAt
    <3>2. i - n = 1 /\ words[1] = w
      <4> HIDE DEF w, c, n
      <4>1. words = <<w>>
        BY <1>6, <3>1
      <4>2. DOMAIN words = {1} /\ words[1] = w
        BY <4>1
      <4> QED BY <3>1, <4>2
    <3>3. i = n + 1
      BY <1>2, <1>7, <3>2
    <3> QED BY <3>1, <3>2, <3>3
  <2> QED BY <2>1, <2>2
<1>16. \A i \in 1..n : i \in DOMAIN c /\ c[i] = results[i]
  <2> SUFFICES ASSUME NEW i \in 1..n PROVE i \in DOMAIN c /\ c[i] = results[i]
    OBVIOUS
  <2>1. i \in DOMAIN c /\ i # n + 1
    BY <1>2, <1>7
  <2> QED BY <1>8, <2>1
<1> HIDE DEF c, w
\* Each result is of a call that waits.
<1>9. \A i \in 1..n : /\ results[i].id \in Nat /\ results[i].id <= Len(sd)
                      /\ \A r \in Range(sd) : r.kind = "tool_result" => r.id # results[i].id
  <2> SUFFICES ASSUME NEW i \in 1..n
               PROVE  /\ results[i].id \in Nat /\ results[i].id <= Len(sd)
                      /\ \A r \in Range(sd) : r.kind = "tool_result" => r.id # results[i].id
    OBVIOUS
  <2>1. calls[i] \in Range(calls)
    BY <1>2 DEF Range
  <2>2. calls[i] \in Range(sd) /\ calls[i].kind = "tool_use" /\ ~IsAnswered(sd, calls[i])
    BY <1>1, <2>1, OwedIs
  <2>3. PICK j \in DOMAIN sd : calls[i] = sd[j]
    BY <2>2 DEF Range
  <2>4. sd[j].id = j
    BY <2>2, <2>3 DEF SaidOK
  <2>5. results[i].id = j
    BY <1>3, <2>3, <2>4
  <2>6. j \in Nat /\ j <= Len(sd)
    BY <1>1
  <2>7. \A r \in Range(sd) : r.kind = "tool_result" => r.id # calls[i].id
    BY <2>2 DEF IsAnswered
  <2> QED BY <1>3, <2>5, <2>6, <2>7
<1> HIDE DEF n
<1>10. \A i \in DOMAIN c : /\ c[i].kind = "text" => c[i].ids = <<Len(sd) + i>>
                           /\ c[i].kind \in {"image", "thinking", "tool_use"} => c[i].id = Len(sd) + i
                           /\ c[i].kind = "tool_result" => c[i].id <= Len(sd)
  <2> SUFFICES ASSUME NEW i \in DOMAIN c
               PROVE  /\ c[i].kind = "text" => c[i].ids = <<Len(sd) + i>>
                      /\ c[i].kind \in {"image", "thinking", "tool_use"} => c[i].id = Len(sd) + i
                      /\ c[i].kind = "tool_result" => c[i].id <= Len(sd)
    OBVIOUS
  <2>1. CASE i \in 1..n /\ c[i] = results[i]
    <3>1. c[i].kind = "tool_result" /\ c[i].id <= Len(sd)
      BY <1>3, <1>9, <2>1
    <3> QED BY <3>1
  <2>2. CASE i = n + 1 /\ c[i] = w
    <3>1. Len(sd) + n + 1 = Len(sd) + i
      BY <1>1, <1>2, <2>2 DEF n
    <3>2. c[i].kind = "text" /\ c[i].ids = <<Len(sd) + i>>
      BY <1>4, <2>2, <3>1
    <3> QED BY <3>2
  <2> QED BY <1>8, <2>1, <2>2
<1>11. \A b \in Range(c) : \/ b.kind = "tool_result" /\ \E i \in 1..n : b = results[i]
                           \/ b.kind = "text"
  <2> SUFFICES ASSUME NEW b \in Range(c)
               PROVE  \/ b.kind = "tool_result" /\ \E i \in 1..n : b = results[i]
                      \/ b.kind = "text"
    OBVIOUS
  <2>1. PICK i \in DOMAIN c : b = c[i]
    BY DEF Range
  <2> QED BY <1>3, <1>4, <1>8, <2>1
<1>12. Adds(sd, c)
  <2>1. \A b \in Range(c), r \in Range(sd) : b.kind = "tool_result" /\ r.kind = "tool_result" => b.id # r.id
    <3> SUFFICES ASSUME NEW b \in Range(c), NEW r \in Range(sd), b.kind = "tool_result", r.kind = "tool_result"
                 PROVE  b.id # r.id
      OBVIOUS
    <3>1. PICK i \in 1..n : b = results[i]
      BY <1>11
    <3> QED BY <1>9, <3>1
  <2>2. \A b \in Range(c), d \in Range(c) :
            b.kind = "tool_result" /\ d.kind = "tool_result" /\ b.id = d.id => b = d
    <3> SUFFICES ASSUME NEW b \in Range(c), NEW d \in Range(c),
                        b.kind = "tool_result", d.kind = "tool_result", b.id = d.id
                 PROVE  b = d
      OBVIOUS
    <3>1. PICK i \in 1..n : b = results[i]
      BY <1>11
    <3>2. PICK j \in 1..n : d = results[j]
      BY <1>11
    <3>3. b = ToolResult(b.id, shown) /\ d = ToolResult(d.id, shown)
      <4>1. i \in DOMAIN calls /\ j \in DOMAIN calls
        BY <1>2 DEF n
      <4>2. results[i] = ToolResult(calls[i].id, shown) /\ results[j] = ToolResult(calls[j].id, shown)
        BY <4>1
      <4> QED BY <1>3, <3>1, <3>2, <4>2
    <3> QED BY <3>3
  <2> QED BY <1>7, <1>10, <2>1, <2>2 DEF Adds
<1>13. \A i \in DOMAIN c : i > n => c[i].kind = "text"
  <2>1. \A i \in 1..n : ~(i > n)
    BY <1>2 DEF n
  <2> QED BY <1>4, <1>8, <2>1
<1>14. Owed(sd \o c) = << >>
  <2>1. \A b \in Range(c) : b.kind # "tool_use"
    BY <1>11
  <2>2. \A b \in Range(Owed(sd)) : IsAnswered(c, b)
    <3> SUFFICES ASSUME NEW b \in Range(Owed(sd)) PROVE IsAnswered(c, b)
      OBVIOUS
    <3>1. PICK i \in DOMAIN calls : b = calls[i]
      <4>1. b \in Range(calls)
        OBVIOUS
      <4> QED BY <4>1 DEF Range
    <3>2. i \in 1..n
      BY <1>2 DEF n
    <3>3. results[i] \in Range(c)
      BY <1>16, <3>2 DEF Range
    <3> QED BY <1>3, <3>1, <3>2, <3>3 DEF IsAnswered
  <2> QED BY <1>1, <1>7, <2>1, <2>2, OwedNoMore
<1>15. /\ Flat(Spared(More(bs, sd, c, n)), c) = << >> /\ Flat(ImageFn, c) = << >>
       /\ Flat(OfKind("tool_use"), c) = << >>
  <2> DEFINE m == More(bs, sd, c, n)
  <2>1. \A i \in 1..Len(c) : Spared(m)[c[i]] = << >>
    <3> SUFFICES ASSUME NEW i \in 1..Len(c) PROVE Spared(m)[c[i]] = << >>
      OBVIOUS
    <3>1. i \in DOMAIN c /\ c[i] \in Pieces
      BY <1>7
    <3>2. CASE i \in 1..n /\ c[i] = results[i]
      <4>1. c[i].kind # "text"
        BY <1>3, <3>2
      <4> HIDE DEF m
      <4> QED BY <3>1, <4>1 DEF Spared
    <3>3. CASE i = n + 1 /\ c[i] = w
      <4>1. Len(sd) + n + 1 \in DOMAIN (sd \o c) /\ Len(sd) + n + 1 > Len(sd) + n
        <5>1. n \in Nat /\ Len(c) = n + Len(words) /\ n + 1 <= Len(c) /\ Len(sd) \in Nat
          BY <1>1, <1>2, <1>7, <3>3 DEF n
        <5>2. DOMAIN (sd \o c) = 1..(Len(sd) + Len(c))
          <6>1. sd \in Seq(Pieces) /\ c \in Seq(Pieces)
            BY <1>1, <1>7
          <6> QED BY <6>1, JoinedAt
        <5> QED BY <5>1, <5>2
      <4>2. Len(sd) + n + 1 \in m
        BY <4>1 DEF More
      <4> HIDE DEF m
      <4>3. \E j \in m : c[i].ids = <<j>>
        BY <1>4, <3>3, <4>2
      <4> QED BY <3>1, <4>3 DEF Spared
    <3> QED BY <1>8, <3>1, <3>2, <3>3
  <2> HIDE DEF m
  <2>2. Flat(Spared(m), c) = << >>
    BY <1>7, <2>1, FlatNone
  <2>3. ~Has(c, "image") /\ ~Has(c, "tool_use")
    BY <1>11 DEF Has
  <2>4. Flat(ImageFn, c) = << >> /\ Flat(OfKind("tool_use"), c) = << >>
    BY <1>7, <2>3, NoneOf
  <2> QED BY <2>2, <2>4 DEF m
<1> QED BY <1>2, <1>6, <1>12, <1>13, <1>14, <1>15 DEF c, n

-----------------------------------------------------------------------------
(* The results of a turn close it. *)

LEMMA AsFunctionIs ==
    ASSUME NEW u \in Seq(UseSet)
    PROVE  LET q == Flat(AsFunction, u) IN
           q \in Seq(UseSet) /\ Len(q) = Len(u) /\ \A i \in 1..Len(u) : q[i].id = u[i].id
<1> DEFINE h == [i \in DOMAIN u |-> ToolUse(u[i].id, FALSE)]
<1>1. DOMAIN u = 1..Len(u) /\ \A i \in DOMAIN u : u[i] \in UseSet
  OBVIOUS
<1>2. \A b \in UseSet : ToolUse(b.id, FALSE) \in UseSet /\ ToolUse(b.id, FALSE).id = b.id
  BY DEF ToolUse, UseSet
<1>3. Fills(h, u, UseSet)
  BY <1>1, <1>2 DEF Fills
<1>4. \A i \in DOMAIN u : h[i].id = u[i].id /\ AsFunction[u[i]] = <<h[i]>>
  BY <1>1, <1>2 DEF AsFunction
<1> HIDE DEF h
<1>5. h \in Seq(UseSet) /\ Len(h) = Len(u)
  BY <1>3, FillSeq
<1>6. \A i \in 1..Len(h) : AsFunction[u[i]] = <<h[i]>>
  BY <1>1, <1>4, <1>5
<1>7. Flat(AsFunction, u) = h
  BY <1>1, <1>5, <1>6, FlatSingles
<1> QED BY <1>1, <1>4, <1>5, <1>7

LEMMA AnsweredTurn ==
    ASSUME NEW w \in Wired, w.role # "tool", NEW u \in Seq(UseSet), w.calls = Flat(AsFunction, u),
           NEW calls \in Seq(UseSet), Len(calls) = Len(u), Range(calls) = Range(u),
           NEW results \in Seq(ResultSet), Len(results) = Len(calls), \A i \in 1..Len(calls) : results[i].id = calls[i].id
    PROVE  LET t == [i \in DOMAIN results |-> ToolMessage(results[i])] IN
           t \in Seq(Wired) /\ Settled(<<w>> \o t)
<1> DEFINE t == [i \in DOMAIN results |-> ToolMessage(results[i])]
           q == Flat(AsFunction, u)
<1>1. \A i \in DOMAIN results : results[i] \in ResultSet
  OBVIOUS
<1>2. Fills(t, results, Wired)
  BY <1>1, ToolMessageIs DEF Fills
<1>3. \A i \in DOMAIN results : t[i].role = "tool" /\ t[i].calls = << >> /\ t[i].of = <<results[i].id>>
  BY <1>1, ToolMessageIs
<1> HIDE DEF t
<1>4. t \in Seq(Wired) /\ Len(t) = Len(results)
  BY <1>2, FillSeq
<1>5. q \in Seq(UseSet) /\ Len(q) = Len(u) /\ \A i \in 1..Len(u) : q[i].id = u[i].id
  BY AsFunctionIs
<1>6. w.calls = q
  OBVIOUS
<1> HIDE DEF q
<1>7. /\ DOMAIN u = 1..Len(u) /\ DOMAIN calls = 1..Len(u) /\ DOMAIN results = 1..Len(u)
      /\ DOMAIN q = 1..Len(u) /\ DOMAIN t = 1..Len(u)
  BY <1>4, <1>5
<1>8. \A i \in 1..Len(u) : t[i].of = <<calls[i].id>>
  BY <1>3, <1>7
<1>9. \A i \in 1..Len(u) : q[i].id \in CallIds(w)
  BY <1>6, <1>7 DEF CallIds
<1>10. \A i \in DOMAIN t : \E c \in CallIds(w) : t[i].of = <<c>>
  <2> SUFFICES ASSUME NEW i \in 1..Len(u) PROVE \E c \in CallIds(w) : t[i].of = <<c>>
    BY <1>7
  <2>1. calls[i] \in Range(u)
    BY <1>7 DEF Range
  <2>2. PICK j \in 1..Len(u) : calls[i] = u[j]
    BY <1>7, <2>1 DEF Range
  <2>3. q[j].id = calls[i].id
    BY <1>5, <2>2
  <2> QED BY <1>8, <1>9, <2>3
<1>11. \A c \in CallIds(w) : \E i \in DOMAIN t : t[i].of = <<c>>
  <2> SUFFICES ASSUME NEW c \in CallIds(w) PROVE \E i \in 1..Len(u) : t[i].of = <<c>>
    BY <1>7
  <2>1. PICK j \in 1..Len(u) : c = q[j].id
    BY <1>6, <1>7 DEF CallIds
  <2>2. u[j] \in Range(calls)
    BY <1>7 DEF Range
  <2>3. PICK i \in 1..Len(u) : u[j] = calls[i]
    BY <1>7, <2>2 DEF Range
  <2>4. c = calls[i].id
    BY <1>5, <2>1, <2>3
  <2> QED BY <1>8, <2>4
<1>12. Len(t) = Len(w.calls) /\ \A i \in DOMAIN t : t[i].role = "tool" /\ t[i].calls = << >>
  BY <1>3, <1>4, <1>5, <1>6, <1>7
<1>13. Settled(<<w>> \o t)
  BY <1>4, <1>10, <1>11, <1>12, ClosedTurn
<1> QED BY <1>4, <1>13 DEF t

LEMMA ChatJoin ==
    ASSUME dialect \in {"messages", "chat", "responses"}, NEW s \in Seq(FormedSet), NEW t \in Seq(FormedSet)
    PROVE  Flat(ChatOf, s \o t) = Flat(ChatOf, s) \o Flat(ChatOf, t)
<1>1. Into(ChatOf, FormedSet, Wired)
  BY MoreTypes
<1> QED BY <1>1, FlatJoin

LEMMA ReturnOrder ==
    ASSUME dialect \in {"messages", "chat", "responses"}, NEW cv \in Seq(FormedSet), NEW sd \in Seq(Pieces), Open(cv, sd),
           NEW calls \in Seq(UseSet), Len(calls) = Len(Owed(sd)), Range(calls) = Range(Owed(sd)),
           NEW results \in Seq(ResultSet), Len(results) = Len(calls), \A i \in 1..Len(calls) : results[i].id = calls[i].id,
           NEW ms \in Seq(FormedSet), Flat(ChatOf, ms) = [i \in DOMAIN results |-> ToolMessage(results[i])]
    PROVE  Settled(Flat(ChatOf, cv \o ms))
<1>1. PICK front \in Seq(FormedSet), final \in FormedSet :
          /\ cv = front \o <<final>> /\ ~Has(final.content, "tool_result") /\ UseOf[final] = Owed(sd)
          /\ Settled(Flat(ChatOf, front))
  BY DEF Open
<1>2. Into(ChatOf, FormedSet, Wired)
  BY MoreTypes
<1>3. Owed(sd) \in Seq(UseSet)
  BY OwedIs
<1>4. PICK w \in Wired : ChatOf[final] = <<w>> /\ w.role # "tool" /\ w.calls = Flat(AsFunction, UseOf[final])
  BY <1>1, ChatIs
<1>5. w.calls = Flat(AsFunction, Owed(sd))
  BY <1>1, <1>4
<1> DEFINE t == Flat(ChatOf, ms)
           one == <<final>>
           f == Flat(ChatOf, front)
<1>6. t \in Seq(Wired) /\ Settled(<<w>> \o t)
  BY <1>3, <1>4, <1>5, AnsweredTurn
<1>7. Flat(ChatOf, one) = <<w>>
  <2>1. Flat(ChatOf, one) = ChatOf[final]
    BY FlatOne
  <2> QED BY <1>4, <2>1
<1>8. one \in Seq(FormedSet) /\ cv = front \o one
  BY <1>1, OneSeq
<1> DEFINE o == <<w>>
<1>9. o \in Seq(Wired)
  BY OneSeq
<1>10. Flat(ChatOf, one) = o /\ Settled(o \o t)
  BY <1>6, <1>7
<1> HIDE DEF one, o
<1>11. Flat(ChatOf, cv) = f \o o
  <2>1. Flat(ChatOf, front \o one) = Flat(ChatOf, front) \o Flat(ChatOf, one)
    BY <1>2, <1>8, FlatJoin
  <2> QED BY <1>8, <1>10, <2>1
<1>12. Flat(ChatOf, cv \o ms) = Flat(ChatOf, cv) \o t
  BY ChatJoin
<1>13. f \in Seq(Wired)
  BY <1>2, FlatType
<1>14. Settled(f)
  BY <1>1
<1> HIDE DEF f, t
<1>15. (f \o o) \o t = f \o (o \o t) /\ o \o t \in Seq(Wired)
  BY <1>6, <1>9, <1>13, SMTT(40)
<1>16. Settled(f \o (o \o t))
  BY <1>10, <1>13, <1>14, <1>15, ClosedJoin
<1> QED BY <1>11, <1>12, <1>15, <1>16

LEMMA ReturnKeeps == ASSUME ConversationInv, Return PROVE ConversationInv'
<1>1. whose = "tools" /\ whose' = "ready" /\ dialect' = dialect /\ offers' = offers
  BY DEF Return
<1>2. PICK backwards \in BOOLEAN, shown \in BOOLEAN, meanwhile \in BOOLEAN :
          LET calls == IF backwards THEN Reverse(Pending) ELSE Pending
              results == [i \in DOMAIN calls |-> ToolResult(calls[i].id, shown)]
              words == IF meanwhile THEN <<Text(<<New(Len(results) + 1)>>)>> ELSE << >>
          IN  /\ meanwhile => dialect = "messages"
              /\ said' = said \o results \o words
              /\ beside' = beside \cup {i \in DOMAIN said' : i > New(Len(results))}
              /\ conv' = conv \o ReturnedIn(results, words)
  BY ZenonT(60) DEF Return, Each, ReturnedIn
<1> DEFINE calls == IF backwards THEN Reverse(Pending) ELSE Pending
           results == [i \in DOMAIN calls |-> ToolResult(calls[i].id, shown)]
           words == IF meanwhile THEN <<Text(<<New(Len(results) + 1)>>)>> ELSE << >>
           c == results \o words
           ms == ReturnedIn(results, words)
           k == Len(results)
<1>3. /\ dialect \in {"messages", "chat", "responses"} /\ offers \subseteq {"function", "custom", "web", "other"}
      /\ Book(conv, said, beside) /\ Owed(said) # << >> /\ (~Apart => Open(conv, said))
  BY <1>1 DEF ConversationInv, Order
<1>4. /\ conv \in Seq(FormedSet) /\ said \in Seq(Pieces) /\ SaidOK(said) /\ BesideOK(said, beside)
      /\ FirstOnly(conv)
  BY <1>3 DEF Book, SaidOK
<1>5. Pending = Owed(said) /\ Owed(said) \in Seq(UseSet)
  BY <1>4, PendingIs, OwedIs
<1>6. calls \in Seq(UseSet) /\ Len(calls) = Len(Owed(said)) /\ Range(calls) = Range(Owed(said))
  BY <1>5, ReverseIs
<1>8. /\ meanwhile => dialect = "messages"
      /\ said' = (said \o results) \o words
      /\ beside' = beside \cup {i \in DOMAIN said' : i > New(Len(results))}
      /\ conv' = conv \o ms
  BY <1>2
<1> HIDE DEF calls
<1>9. \A i \in DOMAIN calls : results[i] = ToolResult(calls[i].id, shown)
  OBVIOUS
<1>10. results = [i \in DOMAIN calls |-> ToolResult(calls[i].id, shown)]
  OBVIOUS
<1> HIDE DEF results
<1>15. New(k) = Len(said) + k /\ New(Len(results) + 1) = Len(said) + Len(results) + 1
  <2>1. Len(calls) \in Nat /\ DOMAIN calls = 1..Len(calls)
    BY <1>6
  <2>2. Len(results) = Len(calls)
    BY <1>10, <2>1
  <2>3. Len(said) \in Nat
    BY <1>4
  <2> QED BY <2>1, <2>2, <2>3 DEF New
<1>11. words = << >> \/ words = <<Text(<<Len(said) + Len(results) + 1>>)>>
  BY <1>15
<1>12. words # << >> => dialect = "messages"
  BY <1>8
<1>13. /\ results \in Seq(ResultSet) /\ Len(results) = Len(calls) /\ words \in Seq(TextSet)
       /\ Adds(said, c) /\ k \in Nat /\ (\A i \in DOMAIN c : i > k => c[i].kind = "text")
       /\ Owed(said \o c) = << >>
       /\ Flat(Spared(More(beside, said, c, k)), c) = << >>
       /\ Flat(ImageFn, c) = << >> /\ Flat(OfKind("tool_use"), c) = << >>
  <2> HIDE DEF words
  <2> QED BY <1>4, <1>6, <1>10, <1>11, ResultsAdd, SMTT(40)
<1>14. results # << >>
  BY <1>3, <1>6, <1>13
<1>16. said' = (said \o results) \o words
  BY <1>8
<1> HIDE DEF words
<1>17. /\ ms \in Seq(FormedSet) /\ NoSystem(ms)
       /\ \A i \in DOMAIN ms : ~Has(ms[i].content, "thinking")
       /\ Flat(TextOf, ms) = << >> /\ Flat(ImageOf, ms) = << >> /\ Flat(UseOf, ms) = << >>
       /\ Flat(ResOf, ms) = Flat(OfKind("tool_result"), c)
       /\ Flat(ChatOf, ms) = [i \in DOMAIN results |-> ToolMessage(results[i])]
  BY <1>3, <1>12, <1>13, <1>14, ReturnedIs
<1>18. said' = said \o c
  <2>1. results \in Seq(Pieces)
    BY <1>13, ResultsOnly
  <2>2. \A b \in TextSet : b \in Pieces
    BY DEF TextSet, Pieces
  <2>3. words \in Seq(Pieces)
    BY <1>13, <2>2
  <2> QED BY <1>4, <1>16, <2>1, <2>3
<1> HIDE DEF c, ms
<1>19. beside' = More(beside, said, c, k)
  BY <1>8, <1>15, <1>18 DEF More
<1>20. FirstOnly(conv \o ms)
  BY <1>4, <1>17, FirstGrows
<1>21. ThoughtsOK(ms, Len(said) + Len(c)) /\ Later(ms, Len(said))
  BY <1>17, NoThoughts
<1> HIDE DEF k
<1>22. Book(conv \o ms, said \o c, More(beside, said, c, k))
  <2>1. /\ Flat(TextOf, ms) = Flat(Spared(More(beside, said, c, k)), c)
        /\ Flat(ImageOf, ms) = Flat(ImageFn, c)
        /\ Flat(UseOf, ms) = Flat(OfKind("tool_use"), c)
        /\ Flat(ResOf, ms) = Flat(OfKind("tool_result"), c)
    BY <1>13, <1>17
  <2> QED BY <1>3, <1>13, <1>17, <1>20, <1>21, <2>1, BookGrows
<1>23. Book(conv', said', beside')
  BY <1>8, <1>18, <1>19, <1>22
<1>24. Owed(said') = << >>
  BY <1>13, <1>18
<1>25. ASSUME ~Apart' PROVE Order(whose', conv', said')
  <2>1. ~Apart
    BY <1>1, <1>4, <1>8, <1>17, <1>25, ApartGrows
  <2>2. \A i \in 1..Len(calls) : results[i].id = calls[i].id
    <3> SUFFICES ASSUME NEW i \in 1..Len(calls) PROVE results[i].id = calls[i].id
      OBVIOUS
    <3>1. i \in DOMAIN calls
      BY <1>6
    <3>2. results[i] = ToolResult(calls[i].id, shown)
      BY <1>9, <3>1
    <3> QED BY <3>2 DEF ToolResult
  <2>3. Open(conv, said)
    BY <1>3, <2>1
  <2>4. Settled(Flat(ChatOf, conv \o ms))
    BY <1>3, <1>4, <1>6, <1>13, <1>17, <2>2, <2>3, ReturnOrder
  <2> QED BY <1>1, <1>8, <2>4 DEF Order
<1>26. whose' = "ready"
  BY <1>1
<1> QED BY <1>1, <1>3, <1>23, <1>24, <1>25, <1>26, Kept

-----------------------------------------------------------------------------
LEMMA StepsKeep == ASSUME ConversationInv, [Next]_vars PROVE ConversationInv'
<1>1. CASE Say
  BY <1>1, SayKeeps
<1>2. CASE Send
  BY <1>2, SendKeeps
<1>3. CASE Redirected
  BY <1>3, RedirectedKeeps
<1>4. CASE Fails
  BY <1>4, FailsKeeps
<1>5. CASE Answer
  BY <1>5, AnswerKeeps
<1>6. CASE Return
  BY <1>6, ReturnKeeps
<1>7. CASE UNCHANGED vars
  BY <1>7, StuttersKeep
<1> QED BY <1>1, <1>2, <1>3, <1>4, <1>5, <1>6, <1>7 DEF Next

\* The books agree and the calls are in order, whatever the client and the model say.
THEOREM ConversationInductive == Spec => []ConversationInv
<1>1. Init => ConversationInv
  BY ConversationBegins
<1>2. ConversationInv /\ [Next]_vars => ConversationInv'
  BY StepsKeep
<1> QED BY <1>1, <1>2, PTL DEF Spec

\* No request is sent that Copilot is known to refuse: calls have their results right behind them
\* (unless they are apart), results their calls, and the effort is one the model has.
THEOREM ConversationNothingRefused == Spec => []NothingRefused
<1>1. ConversationInv => NothingRefused
  BY RefusedIs
<1> QED BY <1>1, ConversationInductive, PTL

\* All that was said is in every request, once and in its order, whichever way it is translated:
\* less what was said beside results, and one thought of each answer.
THEOREM ConversationNothingIsLost == Spec => []NothingIsLost
<1>1. ConversationInv => NothingIsLost
  BY LostIs
<1> QED BY <1>1, ConversationInductive, PTL
=============================================================================
