---------------------------- MODULE WorkerMonitor ----------------------------
(***************************************************************************)
(* The supervisor's watch over the worker process that serves port 7991.   *)
(*                                                                         *)
(* The monitor forks the worker, respawns it after a backoff when it dies, *)
(* after a longer cooldown when it died too often, and obeys restart, stop *)
(* and start.  It is told of everything by callbacks: what a dead process  *)
(* wrote to its IPC channel, the end of that channel, and last its exit    *)
(* arrive one by one, and commands are served in between.                  *)
(*                                                                         *)
(* slot      the processes forked so far whose exit was not yet handled    *)
(* port      the process that listens on the port, or None                 *)
(* child     the process the monitor holds as its own, or None             *)
(* timer     the pending respawn: "none", "backoff" or "cooldown"          *)
(* stopped, restartPending, state   fields of the monitor                  *)
(* crashes   crashes in the controller's window                            *)
(* spawned   history: how many processes were forked, modulo 2             *)
(* starts, restarts, stops, deaths   what has happened of the bounded events *)
(***************************************************************************)
EXTENDS Naturals, FiniteSets

CONSTANTS Room,          \* bound: processes at a time
          MaxCrashes,    \* crashes in the window that mark the worker unhealthy
          MaxStarts, MaxRestarts, MaxStops, MaxDeaths  \* bounds: commands; deaths out of the blue

ASSUME MonitorAssumption == /\ Room \in Nat \ {0} /\ MaxCrashes \in Nat \ {0}
                            /\ MaxStarts \in Nat /\ MaxRestarts \in Nat
                            /\ MaxStops \in Nat /\ MaxDeaths \in Nat

Slots == 1..Room
None == 0

VARIABLES slot, port, child, timer, stopped, restartPending, state, crashes, spawned,
          starts, restarts, stops, deaths

bounded == <<starts, restarts, stops, deaths>>
flags == <<stopped, restartPending>>
monitorVars == <<slot, port, child, timer, flags, state, crashes, spawned, bounded>>

-----------------------------------------------------------------------------
Free == [life |-> "free", killed |-> FALSE, connected |-> FALSE, ready |-> "none",
         onExit |-> "crash"]
Forked == [Free EXCEPT !.life = "up", !.connected = TRUE]

MonitorInit ==     \* the supervisor has just called start()
    /\ slot = [i \in Slots |-> IF i = 1 THEN Forked ELSE Free]
    /\ child = 1
    /\ port = None
    /\ timer = "none"
    /\ stopped = FALSE /\ restartPending = FALSE
    /\ state = "starting"
    /\ crashes = 0
    /\ spawned = 1
    /\ starts = 0 /\ restarts = 0 /\ stops = 0 /\ deaths = 0

\* fork: a new process, which the monitor takes as its child.  `rest` is what the
\* same step does to the other processes.
Spawn(rest) ==
    \E i \in Slots :
       /\ rest[i] = Free /\ \A j \in 1..(i - 1) : rest[j] # Free
       /\ slot' = [rest EXCEPT ![i] = Forked]
       /\ child' = i
       /\ state' = "starting"
       /\ spawned' = 1 - spawned

\* SIGTERM, if the process is still there to get it.
Kill(i) == IF slot[i].life = "up" THEN [slot EXCEPT ![i].killed = TRUE] ELSE slot

-----------------------------------------------------------------------------
(* The worker process. *)

\* app.listen succeeds.
Listen(i) ==
    /\ slot[i].life = "up" /\ port = None
    /\ port' = i
    /\ slot' = [slot EXCEPT ![i].ready = "awaited"]
    /\ UNCHANGED <<child, timer, flags, state, crashes, spawned, bounded>>

\* "ready" is sent once the models are known, or known not to be had.
SendsReady(i) ==
    /\ slot[i].life = "up" /\ slot[i].ready = "awaited"
    /\ slot' = [slot EXCEPT ![i].ready = "sent"]
    /\ UNCHANGED <<port, child, timer, flags, state, crashes, spawned, bounded>>

Exits(i) ==
    /\ slot' = [slot EXCEPT ![i].life = "exited"]
    /\ port' = IF port = i THEN None ELSE port
    /\ UNCHANGED <<child, timer, flags, state, crashes, spawned>>

\* EADDRINUSE: an uncaught exception, exit code 1.
ListenFails(i) ==
    /\ slot[i].life = "up" /\ port \notin {None, i}
    /\ Exits(i) /\ UNCHANGED bounded

\* SIGTERM arrives.
DiesOfKill(i) ==
    /\ slot[i].life = "up" /\ slot[i].killed
    /\ Exits(i) /\ UNCHANGED bounded

\* Out of memory, an uncaught exception, somebody else's kill.
Dies(i) ==
    /\ slot[i].life = "up"
    /\ deaths < MaxDeaths /\ deaths' = deaths + 1
    /\ Exits(i) /\ UNCHANGED <<starts, restarts, stops>>

-----------------------------------------------------------------------------
(* What the monitor is told of a process: its messages, then the end of its
   channel, then its exit. *)

Ready(i) ==
    /\ slot[i].ready = "sent" /\ slot[i].connected
    /\ slot' = [slot EXCEPT ![i].ready = "none"]
    /\ crashes' = 0
    /\ state' = "ready"
    /\ UNCHANGED <<port, child, timer, flags, spawned, bounded>>

Disconnect(i) ==
    /\ slot[i].life = "exited" /\ slot[i].connected /\ slot[i].ready # "sent"
    /\ slot' = [slot EXCEPT ![i].connected = FALSE]
    /\ UNCHANGED <<port, child, timer, flags, state, crashes, spawned, bounded>>

\* The crashes in the window with the new one: older ones are forgotten.
OnCrash == 1..(crashes + 1)

\* Variant: a worker that died too often is given up.
Crashed_GiveUp(i) ==
    /\ ~stopped
    /\ \E recent \in OnCrash :
          IF recent >= MaxCrashes
          THEN crashes' = MaxCrashes /\ state' = "unhealthy" /\ UNCHANGED timer
          ELSE crashes' = recent /\ state' = "crashed" /\ timer' = "backoff"
    /\ slot' = [slot EXCEPT ![i] = Free]
    /\ UNCHANGED <<child, restartPending, spawned>>

\* The exit handler every child starts with: a respawn after a pause or, too often
\* crashed, after the cooldown; it replaces a pending one.
Crashed(i) ==
    /\ ~stopped
    /\ \E recent \in OnCrash :
          IF recent >= MaxCrashes
          THEN crashes' = MaxCrashes /\ state' = "unhealthy" /\ timer' = "cooldown"
          ELSE crashes' = recent /\ state' = "crashed" /\ timer' = "backoff"
    /\ slot' = [slot EXCEPT ![i] = Free]
    /\ UNCHANGED <<child, restartPending, spawned>>

\* Variant: the replacement is spawned whether or not the monitor was stopped.
Replaced_Always(i) ==
    /\ restartPending' = FALSE
    /\ Spawn([slot EXCEPT ![i] = Free])
    /\ UNCHANGED <<timer, crashes>>

\* The exit handler a manual restart leaves on the child it replaces.
Replaced(i) ==
    /\ ~stopped
    /\ restartPending' = FALSE
    /\ Spawn([slot EXCEPT ![i] = Free])
    /\ UNCHANGED <<timer, crashes>>

ExitOfStopped(i) ==
    /\ stopped
    /\ restartPending' = IF slot[i].onExit = "restart" THEN FALSE ELSE restartPending
    /\ slot' = [slot EXCEPT ![i] = Free]
    /\ UNCHANGED <<child, timer, state, crashes, spawned>>

Exit(i) ==
    /\ slot[i].life = "exited" /\ ~slot[i].connected
    /\ \/ ExitOfStopped(i)
       \/ slot[i].onExit = "crash" /\ Crashed(i)
       \/ slot[i].onExit = "restart" /\ Replaced(i)
    /\ UNCHANGED <<port, stopped, bounded>>

\* The backoff or the cooldown is over.
Respawn ==
    /\ timer # "none"
    /\ timer' = "none"
    /\ crashes' = IF timer = "cooldown" THEN 0 ELSE crashes
    /\ Spawn(slot)
    /\ UNCHANGED <<port, flags, bounded>>

-----------------------------------------------------------------------------
(* Commands. *)

\* POST /api/start
Start ==
    /\ starts < MaxStarts /\ starts' = starts + 1
    /\ Spawn(slot)
    /\ UNCHANGED <<port, timer, flags, crashes, restarts, stops, deaths>>

\* Variant: any child the monitor still knows is waited for.
Waits_Any == child # None

\* A child whose channel is open is taken to be alive: its exit will be seen.
Waits == child # None /\ slot[child].connected

\* POST /api/restart: wait for the exit of the old worker, or spawn at once.
Restart ==
    /\ restarts < MaxRestarts /\ restarts' = restarts + 1
    /\ crashes' = 0 /\ stopped' = FALSE /\ timer' = "none"
    /\ \/ /\ restartPending
          /\ UNCHANGED <<slot, child, state, spawned, restartPending>>
       \/ /\ ~restartPending /\ Waits
          /\ restartPending' = TRUE /\ child' = None
          /\ slot' = [Kill(child) EXCEPT ![child].onExit = "restart"]
          /\ UNCHANGED <<state, spawned>>
       \/ /\ ~restartPending /\ ~Waits
          /\ Spawn(slot)
          /\ UNCHANGED restartPending
    /\ UNCHANGED <<port, starts, stops, deaths>>

\* POST /api/stop
Stop ==
    /\ stops < MaxStops /\ stops' = stops + 1
    /\ stopped' = TRUE /\ timer' = "none"
    /\ slot' = IF child = None THEN slot ELSE Kill(child)
    /\ UNCHANGED <<port, child, restartPending, state, crashes, spawned, starts, restarts, deaths>>

-----------------------------------------------------------------------------
MonitorNext ==
    \/ \E i \in Slots : \/ Listen(i) \/ SendsReady(i) \/ ListenFails(i) \/ DiesOfKill(i)
                        \/ Dies(i) \/ Ready(i) \/ Disconnect(i) \/ Exit(i)
    \/ Respawn
    \/ Start \/ Restart \/ Stop

\* Processes run, callbacks are called and timers fire; nobody has to give commands.
MonitorFairness ==
    /\ \A i \in Slots : /\ WF_monitorVars(Listen(i)) /\ WF_monitorVars(SendsReady(i))
                        /\ WF_monitorVars(ListenFails(i))
                        /\ WF_monitorVars(DiesOfKill(i)) /\ WF_monitorVars(Ready(i))
                        /\ WF_monitorVars(Disconnect(i)) /\ WF_monitorVars(Exit(i))
    /\ WF_monitorVars(Respawn)

MonitorSpec == MonitorInit /\ [][MonitorNext]_monitorVars /\ MonitorFairness

-----------------------------------------------------------------------------
(* Properties *)

Process == [life : {"free", "up", "exited"}, killed : BOOLEAN, connected : BOOLEAN,
            ready : {"none", "awaited", "sent"}, onExit : {"crash", "restart"}]

\* Every variable keeps its shape, and only a process that is up has the port.
TypeOK ==
    /\ slot \in [Slots -> Process]
    /\ port \in {i \in Slots : slot[i].life = "up"} \cup {None}
    /\ child \in Slots \cup {None}
    /\ timer \in {"none", "backoff", "cooldown"}
    /\ stopped \in BOOLEAN /\ restartPending \in BOOLEAN
    /\ state \in {"starting", "ready", "crashed", "unhealthy"}
    /\ crashes \in 0..MaxCrashes
    /\ spawned \in 0..1
    /\ starts \in 0..MaxStarts /\ restarts \in 0..MaxRestarts
    /\ stops \in 0..MaxStops /\ deaths \in 0..MaxDeaths

\* A stopped monitor forks nothing of its own accord: neither a pending backoff nor
\* the exit of a worker under restart outlives stop() (scheduleRespawn, stop).
StopIsQuiet == [][stopped /\ stopped' /\ spawned' # spawned => starts' # starts]_monitorVars

\* No restart waits for an exit that was already handled, "which would wedge the
\* daemon with no worker" (restartManually).
RestartResolves == restartPending ~> ~restartPending

\* Self-healing: unless it is stopped, in the end a worker serves the port, whatever
\* crashed, was restarted or was taken for dead before (onCrash, the cooldown).
ServesAgain == <>[](stopped \/ port # None)

=============================================================================
