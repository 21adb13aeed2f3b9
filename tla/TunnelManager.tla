---------------------------- MODULE TunnelManager ----------------------------
(***************************************************************************)
(* The hub's public address: one devtunnel, kept hosted while the operator *)
(* wants it.                                                               *)
(*                                                                         *)
(* Enabling starts a provisioning run, a chain of devtunnel commands with  *)
(* an await between each two; disable, delete, stop, a dying host process  *)
(* and its output all come in between.  The run looks after every await    *)
(* whether it is still wanted: its generation must be the manager's.       *)
(*                                                                         *)
(* enabled, tunnelId   tunnel.json                                         *)
(* state      the status the dashboard shows                               *)
(* procs      the `devtunnel host` processes, this manager's and those of  *)
(*            the managers it replaced (the hub role reloaded)             *)
(* host       the one this manager holds as its own, or NoProc             *)
(* timer      a retry is scheduled                                         *)
(* run        the provisioning in flight (startPromise), fresh as long as  *)
(*            its generation is the manager's                              *)
(* removing   `devtunnel delete` commands under way                        *)
(* intendedStop, stopped   fields of the manager                           *)
(* wish, undone, crossed   history: what the operator last asked for; that *)
(*            a host was heard that is no longer held or wanted, or a      *)
(*            deletion failed; that an enable met a run that was not fresh *)
(*                                                                         *)
(* Every await of a provisioning is a step of its own, as with a command   *)
(* executor that really waits (TunnelCli takes one, cli.ts 45).  The one   *)
(* cc-fleet ships with is spawnSync (cli.ts 17-20): there no command of    *)
(* the dashboard comes between two awaits, `crossed` stays FALSE, and the  *)
(* behaviours are some of these.                                           *)
(***************************************************************************)
EXTENDS Naturals, FiniteSets

CONSTANTS Tunnels,    \* tunnel ids
          NoTunnel,
          Room        \* bound: host processes whose output is not yet drained

ASSUME TunnelAssumption == NoTunnel \notin Tunnels /\ Room \in Nat \ {0}

Hosts == 1..Room
NoProc == 0

VARIABLES enabled, tunnelId, state, procs, host, timer, run, removing,
          intendedStop, stopped, wish, undone, crossed

file == <<enabled, tunnelId>>
tunnelHistory == <<wish, undone, crossed>>
tunnelVars == <<file, state, procs, host, timer, run, removing, intendedStop, stopped, tunnelHistory>>

-----------------------------------------------------------------------------
NoRun == [pc |-> "none", fresh |-> FALSE, create |-> FALSE, tid |-> NoTunnel]
Free == [life |-> "free", killed |-> FALSE, mine |-> FALSE, tid |-> NoTunnel]

NewRun(create) == [pc |-> "available", fresh |-> TRUE, create |-> create, tid |-> NoTunnel]

\* What startOnce makes of `run`: a second call joins the run in flight.
StartOnce(create) ==
    IF host # NoProc \/ run # NoRun THEN run ELSE NewRun(create)

Active == run.fresh /\ ~stopped /\ enabled

\* A generation ends: the run in flight is not fresh any more.
Stale == [run EXCEPT !.fresh = FALSE]

\* The manager is built from tunnel.json, and its start() is called.
TunnelInit ==
    /\ enabled \in BOOLEAN
    /\ tunnelId \in Tunnels \cup {NoTunnel}
    /\ state = IF enabled THEN "connecting" ELSE "disabled"
    /\ run = IF enabled THEN NewRun(FALSE) ELSE NoRun
    /\ procs = [i \in Hosts |-> Free]
    /\ host = NoProc
    /\ timer = FALSE
    /\ removing = {}
    /\ intendedStop = FALSE /\ stopped = FALSE
    /\ wish = enabled /\ undone = FALSE /\ crossed = FALSE

-----------------------------------------------------------------------------
(* The provisioning run: what follows each answer of the devtunnel command. *)

RunEnds(s) ==
    /\ run' = NoRun
    /\ state' = IF Active THEN s ELSE state
    /\ UNCHANGED <<file, procs, host, intendedStop>>

Continue(pc, tid, s) ==
    /\ Active
    /\ run' = [run EXCEPT !.pc = pc, !.tid = tid]
    /\ state' = s
    /\ UNCHANGED <<procs, host, intendedStop>>

Background == UNCHANGED <<timer, removing, stopped, tunnelHistory>>

Abandoned == ~Active /\ RunEnds(state)

Available ==
    /\ run.pc = "available"
    /\ \/ RunEnds("cli-missing")
       \/ Abandoned
       \/ Continue("user", NoTunnel, state) /\ UNCHANGED file
    /\ Background

User ==
    /\ run.pc = "user"
    /\ \/ RunEnds("failed")
       \/ RunEnds("signed-out")
       \/ tunnelId = NoTunnel /\ ~run.create /\ RunEnds("failed")
       \/ tunnelId = NoTunnel /\ run.create /\ Continue("create", NoTunnel, "provisioning")
                                            /\ UNCHANGED file
       \/ tunnelId # NoTunnel /\ Continue("port", tunnelId, "provisioning")
                              /\ UNCHANGED file
    /\ Background

\* A new tunnel is written down as soon as it exists.
Create ==
    /\ run.pc = "create"
    /\ \/ RunEnds("failed")
       \/ Abandoned
       \/ \E t \in Tunnels :
             /\ \A i \in Hosts : procs[i].tid # t
             /\ Continue("port", t, "provisioning")
             /\ enabled' = TRUE /\ tunnelId' = t
    /\ Background

EnsurePort ==
    /\ run.pc = "port"
    /\ \/ RunEnds("failed")
       \/ Abandoned
       \/ Continue("show", run.tid, state) /\ UNCHANGED file
    /\ Background

\* `devtunnel host`: a new process, which the manager holds as its own.
SpawnHost ==
    /\ Active
    /\ run' = NoRun
    /\ host = NoProc
    /\ \E i \in Hosts :
          /\ procs[i] = Free /\ \A j \in 1..(i - 1) : procs[j] # Free
          /\ procs' = [procs EXCEPT ![i] = [life |-> "up", killed |-> FALSE, mine |-> TRUE,
                                            tid |-> run.tid]]
          /\ host' = i
    /\ intendedStop' = FALSE
    /\ state' = "connecting"

\* The public URL, when it is known, is saved with the rest of the run's record.
Show ==
    /\ run.pc = "show"
    /\ \/ Abandoned
       \/ SpawnHost /\ UNCHANGED file
       \/ SpawnHost /\ enabled' = TRUE /\ tunnelId' = run.tid
    /\ Background

-----------------------------------------------------------------------------
(* The host process: what it prints, its end, the retry. *)

\* The line with the public URL: it is saved, and the tunnel is online.  Lines come
\* until the output is drained, which may be after a kill and after the exit.
Line(i) ==
    /\ procs[i].life \in {"up", "exited"}
    /\ enabled' = TRUE /\ tunnelId' = procs[i].tid
    /\ state' = IF procs[i].mine THEN "online" ELSE state
    /\ undone' = (undone \/ host # i \/ ~enabled)
    /\ UNCHANGED <<procs, host, timer, run, removing, intendedStop, stopped, wish, crossed>>

\* Variant: an unexpected exit is shown, but nothing is scheduled.
Exited_NoRetry(i) ==
    IF host # i
    THEN UNCHANGED <<host, state, timer>>
    ELSE /\ host' = NoProc
         /\ IF intendedStop \/ stopped \/ ~enabled
            THEN UNCHANGED <<state, timer>>
            ELSE state' = "backoff" /\ UNCHANGED timer

\* Variant: the end of any host process is taken for the end of the current one.
Exited_Anyone(i) ==
    IF host = NoProc
    THEN UNCHANGED <<host, state, timer>>
    ELSE /\ host' = NoProc
         /\ IF intendedStop \/ stopped \/ ~enabled
            THEN UNCHANGED <<state, timer>>
            ELSE state' = "backoff" /\ timer' = TRUE

\* The exit handler: only the current host's end, and only an unexpected one, is
\* answered with a retry.
Exited(i) ==
    IF host # i
    THEN UNCHANGED <<host, state, timer>>
    ELSE /\ host' = NoProc
         /\ IF intendedStop \/ stopped \/ ~enabled
            THEN UNCHANGED <<state, timer>>
            ELSE state' = "backoff" /\ timer' = TRUE

\* The process of a replaced manager exits unnoticed: that manager is stopped.
Exit(i) ==
    /\ procs[i].life = "up"
    /\ procs' = [procs EXCEPT ![i].life = "exited"]
    /\ IF procs[i].mine THEN Exited(i) ELSE UNCHANGED <<host, state, timer>>
    /\ UNCHANGED <<file, run, removing, intendedStop, stopped, tunnelHistory>>

Drained(i) ==
    /\ procs[i].life = "exited"
    /\ procs' = [procs EXCEPT ![i] = Free]
    /\ UNCHANGED <<file, state, host, timer, run, removing, intendedStop, stopped, tunnelHistory>>

Retry ==
    /\ timer
    /\ timer' = FALSE
    /\ run' = IF ~stopped /\ enabled THEN StartOnce(FALSE) ELSE run
    /\ UNCHANGED <<file, state, procs, host, removing, intendedStop, stopped, tunnelHistory>>

-----------------------------------------------------------------------------
(* Commands. *)

StopHosting ==
    /\ intendedStop' = TRUE
    /\ timer' = FALSE
    /\ host' = NoProc
    /\ procs' = IF host = NoProc THEN procs ELSE [procs EXCEPT ![host].killed = TRUE]

\* POST /api/fleet/tunnel/enable
Enable ==
    /\ ~stopped
    /\ enabled' = TRUE
    /\ run' = StartOnce(TRUE)
    /\ wish' = TRUE
    /\ crossed' = (crossed \/ (run # NoRun /\ ~run.fresh))
    /\ UNCHANGED <<tunnelId, state, procs, host, timer, removing, intendedStop, stopped, undone>>

\* POST /api/fleet/tunnel/disable
Disable ==
    /\ ~stopped
    /\ enabled' = FALSE
    /\ run' = Stale
    /\ StopHosting
    /\ state' = "disabled"
    /\ wish' = FALSE
    /\ UNCHANGED <<tunnelId, removing, stopped, undone, crossed>>

\* POST /api/fleet/tunnel/delete, up to the await of `devtunnel delete`.
Delete ==
    /\ ~stopped
    /\ <<tunnelId, TRUE>> \notin removing       \* bound: one at a time of each id
    /\ run' = Stale
    /\ StopHosting
    /\ wish' = FALSE
    /\ \/ /\ tunnelId # NoTunnel
          /\ removing' = removing \cup {<<tunnelId, TRUE>>}
          /\ UNCHANGED <<file, state>>
       \/ /\ tunnelId = NoTunnel
          /\ enabled' = FALSE /\ state' = "disabled"
          /\ UNCHANGED <<tunnelId, removing>>
    /\ UNCHANGED <<stopped, undone, crossed>>

\* The rest of deleteTunnel; r[2] tells whether it is still this manager's.
Removed(r) ==
    /\ removing' = removing \ {r}
    /\ enabled' = FALSE /\ tunnelId' = NoTunnel
    /\ state' = IF r[2] THEN "disabled" ELSE state
    /\ wish' = FALSE
    /\ UNCHANGED <<procs, host, timer, run, intendedStop, stopped, undone, crossed>>

\* `devtunnel delete` failed: the caller is told, and nothing is written.
NotRemoved(r) ==
    /\ removing' = removing \ {r}
    /\ undone' = (undone \/ enabled)
    /\ UNCHANGED <<file, state, procs, host, timer, run, intendedStop, stopped, wish, crossed>>

\* POST /api/fleet/tunnel/interrupt
Interrupt ==
    /\ ~stopped /\ host # NoProc
    /\ procs' = [procs EXCEPT ![host].killed = TRUE]
    /\ UNCHANGED <<file, state, host, timer, run, removing, intendedStop, stopped, tunnelHistory>>

\* The hub role is switched off.
Stop ==
    /\ ~stopped
    /\ stopped' = TRUE
    /\ run' = Stale
    /\ StopHosting
    /\ UNCHANGED <<file, state, removing, tunnelHistory>>

\* The hub role is switched on again: a new manager, built from tunnel.json.  What the
\* old one waits for or listens to is not this manager's; its run can do nothing more.
Rebuild ==
    /\ stopped
    /\ stopped' = FALSE /\ intendedStop' = FALSE /\ timer' = FALSE /\ host' = NoProc
    /\ state' = IF enabled THEN "connecting" ELSE "disabled"
    /\ run' = IF enabled THEN NewRun(FALSE) ELSE NoRun
    /\ procs' = [i \in Hosts |-> [procs[i] EXCEPT !.mine = FALSE]]
    /\ removing' = {<<r[1], FALSE>> : r \in removing}
    /\ UNCHANGED <<file, tunnelHistory>>

-----------------------------------------------------------------------------
Provision == Available \/ User \/ Create \/ EnsurePort \/ Show

TunnelNext ==
    \/ Provision \/ Retry
    \/ \E i \in Hosts : Line(i) \/ Exit(i) \/ Drained(i)
    \/ Enable \/ Disable \/ Delete \/ Interrupt \/ Stop \/ Rebuild
    \/ \E r \in removing : Removed(r) \/ NotRemoved(r)

\* devtunnel commands answer, timers fire, killed processes end and their output does.
Fairness ==
    /\ WF_tunnelVars(Provision)
    /\ WF_tunnelVars(Retry)
    /\ \A i \in Hosts : WF_tunnelVars(procs[i].killed /\ Exit(i)) /\ WF_tunnelVars(Drained(i))

TunnelSpec == TunnelInit /\ [][TunnelNext]_tunnelVars /\ Fairness

-----------------------------------------------------------------------------
(* Properties *)

States == {"disabled", "cli-missing", "signed-out", "provisioning", "connecting",
           "online", "backoff", "failed"}
Ids == Tunnels \cup {NoTunnel}

\* Every variable keeps its shape, and the manager's host is a process of its own.
TunnelTypeOK ==
    /\ enabled \in BOOLEAN /\ tunnelId \in Ids
    /\ state \in States
    /\ procs \in [Hosts -> [life : {"free", "up", "exited"}, killed : BOOLEAN,
                             mine : BOOLEAN, tid : Ids]]
    /\ host \in {i \in Hosts : procs[i].mine /\ procs[i].life = "up"} \cup {NoProc}
    /\ timer \in BOOLEAN
    /\ run \in [pc : {"none", "available", "user", "create", "port", "show"},
                fresh : BOOLEAN, create : BOOLEAN, tid : Ids]
    /\ removing \in SUBSET (Tunnels \X BOOLEAN)
    /\ intendedStop \in BOOLEAN /\ stopped \in BOOLEAN
    /\ wish \in BOOLEAN /\ undone \in BOOLEAN /\ crossed \in BOOLEAN

\* "The tunnel host process is single-instance": a host that nobody killed is the one
\* the manager holds, so that none is left behind by disable, delete, stop or a reload;
\* and a stopped manager has neither a host nor a retry to come (stop).
SingleHost ==
    /\ \A i \in Hosts : procs[i].life = "up" /\ ~procs[i].killed => host = i
    /\ stopped => host = NoProc /\ ~timer

\* Once enabled, the tunnel is hosted or the dashboard says why not, unless it is
\* disabled again, or enabling met a run that was cancelled and not yet over, or
\* words of an old host were taken for the current one's.
EnableTakes ==
    wish ~> \/ host # NoProc \/ ~wish \/ stopped \/ crossed \/ undone
            \/ state \in {"failed", "signed-out", "cli-missing"}

=============================================================================
