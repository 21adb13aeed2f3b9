---------------------------- MODULE FleetRuntime ----------------------------
(***************************************************************************)
(* The supervisors of one machine, the roles they run, and the commands    *)
(* that start them and tell them to reload.                                *)
(*                                                                         *)
(* `cc-fleet hub` and `join` write what they want into a file, make sure a *)
(* supervisor answers (probing, spawning one, probing again) and post a    *)
(* reload to it.  The terminal runs a supervisor in its own process if     *)
(* none answers.  Which supervisor there is decides the admin port.        *)
(*                                                                         *)
(* hubEnabled  runtime.json: this machine is to be a hub                  *)
(* creds     fleet-node.json: the credential of the last join, or 0        *)
(* minted, refused  credentials handed out, and those the hub refuses now  *)
(* admin, gateway  who is bound to the supervisor's port and the gateway's *)
(* sup       per process: its life, its fleet runtime, whether a load of   *)
(*           the roles is in flight, its hub, its node's credential and    *)
(*           status, and refusals not yet handled: of this channel (mine)  *)
(*           and of channels replaced meanwhile (old)                      *)
(* cmd       per command: where it is, and the process it waits for        *)
(* edited, coalesced  history: runtime.json was changed since the command   *)
(*           wrote it; its reload was answered by a load begun before       *)
(* turns     changes of runtime.json so far                                *)
(***************************************************************************)
EXTENDS Naturals, FiniteSets

CONSTANTS Daemons,    \* processes the commands may spawn
          Tui,        \* the process of the terminal
          NoOne, Other,  \* nobody; a program that is not of ours
          MaxTurns,   \* bound: changes of runtime.json
          MaxCreds    \* bound: credentials

ASSUME RuntimeAssumption == /\ Tui \notin Daemons /\ {NoOne, Other} \cap (Daemons \cup {Tui}) = {}
                            /\ NoOne # Other /\ MaxTurns \in Nat /\ MaxCreds \in Nat \ {0}

Procs == Daemons \cup {Tui}
Commands == {"hub", "off", "join"}
Wants(c) == c = "hub"            \* what a command wrote into runtime.json

VARIABLES hubEnabled, creds, minted, refused, admin, gateway, sup, cmd, edited, coalesced, turns

credentials == <<creds, minted, refused>>
history == <<edited, coalesced, turns>>
vars == <<hubEnabled, credentials, admin, gateway, sup, cmd, history>>

Off == [life |-> "off", fleet |-> "none", loading |-> FALSE, hub |-> FALSE,
        node |-> 0, status |-> "disabled", mine |-> FALSE, old |-> FALSE]
Idle == [pc |-> "idle", of |-> NoOne]

Init ==
    /\ hubEnabled \in BOOLEAN
    /\ creds \in {0, 1} /\ minted = creds /\ refused = {}
    /\ admin = NoOne /\ gateway = NoOne
    /\ sup = [p \in Procs |-> Off]
    /\ cmd = [c \in Commands |-> Idle]
    /\ edited = [c \in Commands |-> FALSE] /\ coalesced = [c \in Commands |-> FALSE]
    /\ turns = 0

-----------------------------------------------------------------------------
(* The runtime.                                                              *)

\* reloadNode: the old channel is closed, and one for the credential in the file opened.
ReloadNode(s) ==
    [s EXCEPT !.node = creds, !.status = IF creds = 0 THEN "disabled" ELSE "connecting",
              !.old = @ \/ s.mine, !.mine = FALSE]

\* loadRoles up to its first await: the hub role is started, or the rest done at once.
LoadRoles(s) ==
    IF hubEnabled /\ ~s.hub THEN [s EXCEPT !.loading = TRUE]
    ELSE ReloadNode([s EXCEPT !.hub = s.hub /\ hubEnabled, !.fleet = "ready"])
Released(p, s) == IF gateway = p /\ ~s.hub THEN NoOne ELSE gateway

\* A daemon that lost the port: the error is the next thing that it is told of, before any event
\* of its runtime.
Stays(p) == sup[p].life # "losing"

\* The commands whose reload was waiting for p, and what becomes of them.
Answered(p, how) ==
    [c \in Commands |-> IF cmd[c] = [pc |-> "waiting", of |-> p] THEN [pc |-> how, of |-> p] ELSE cmd[c]]

\* The gateway listens: the hub is there, and the node follows.
GatewayListens(p) ==
    /\ sup[p].loading /\ Stays(p) /\ gateway = NoOne
    /\ gateway' = p
    /\ sup' = [sup EXCEPT ![p] = ReloadNode([@ EXCEPT !.loading = FALSE, !.hub = TRUE, !.fleet = "ready"])]
    /\ cmd' = Answered(p, "done")
    /\ UNCHANGED <<hubEnabled, credentials, admin, history>>

\* The port is taken: nothing of the load is done, also not the node's part.  A runtime that was
\* still starting never gets ready.
GatewayTaken(p) ==
    /\ sup[p].loading /\ Stays(p) /\ gateway # NoOne
    /\ sup' = [sup EXCEPT ![p].loading = FALSE,
                          ![p].fleet = IF @ = "ready" THEN "ready" ELSE "failed"]
    /\ cmd' = Answered(p, "failed")
    /\ UNCHANGED <<hubEnabled, credentials, admin, gateway, history>>

-----------------------------------------------------------------------------
(* Supervisors come and go.                                                  *)

\* The port is asked for and the runtime started; that the port was taken is learnt afterwards.
\* The loser of two daemons dies of it (Dies), but had its runtime started; the terminal's
\* backstop survives it and goes on without a port.
Boots(p, life) ==
    /\ sup[p].life = "spawned"
    /\ admin' = IF admin = NoOne THEN p ELSE admin
    /\ sup' = [sup EXCEPT ![p] = LoadRoles([@ EXCEPT !.life = life])]
    /\ UNCHANGED <<hubEnabled, credentials, gateway, cmd, history>>
Boot_survives(p) ==       \* every process lives through the error
    Boots(p, IF admin = NoOne THEN "up" ELSE "headless")
Boot(p) == Boots(p, IF admin = NoOne THEN "up" ELSE IF p = Tui THEN "headless" ELSE "losing")

\* The terminal finds nobody there.
TuiStarts ==
    /\ sup[Tui] = Off /\ admin = NoOne
    /\ sup' = [sup EXCEPT ![Tui].life = "spawned"]
    /\ UNCHANGED <<hubEnabled, credentials, admin, gateway, cmd, history>>

\* A process ends, by crash or by quitting, and with it its ports and the requests it was serving.
Dies(p) ==
    /\ sup[p].life # "off"
    /\ sup' = [sup EXCEPT ![p] = Off]
    /\ admin' = IF admin = p THEN NoOne ELSE admin
    /\ gateway' = IF gateway = p THEN NoOne ELSE gateway
    /\ cmd' = [c \in Commands |->
                  IF cmd[c].of # p THEN cmd[c]
                  ELSE [pc |-> IF cmd[c].pc = "waiting" THEN "failed" ELSE cmd[c].pc, of |-> NoOne]]
    /\ UNCHANGED <<hubEnabled, credentials, history>>

\* Another program takes the gateway's port, or gives it up.
OtherProgram ==
    /\ \/ gateway = NoOne /\ gateway' = Other
       \/ gateway = Other /\ gateway' = NoOne
    /\ UNCHANGED <<hubEnabled, credentials, admin, sup, cmd, history>>

-----------------------------------------------------------------------------
(* The commands.                                                             *)

To(c, pc, p) == cmd' = [cmd EXCEPT ![c] = [pc |-> pc, of |-> p]]

\* setHubEnabled, or - there is no command for it - the operator's own edit of the file.
Ask(c) ==
    /\ c \in {"hub", "off"} /\ cmd[c].pc = "idle" /\ turns < MaxTurns
    /\ hubEnabled' = Wants(c)
    /\ turns' = turns + 1
    /\ edited' = [d \in Commands |-> d # c]
    /\ To(c, "probe", NoOne)
    /\ UNCHANGED <<credentials, admin, gateway, sup, coalesced>>

\* `join` has enrolled: a new credential.
Enrolled ==
    /\ cmd["join"].pc = "idle" /\ minted < MaxCreds
    /\ minted' = minted + 1 /\ creds' = minted'
    /\ To("join", "probe", NoOne)
    /\ UNCHANGED <<hubEnabled, refused, admin, gateway, sup, history>>

Probe(c) ==
    /\ cmd[c].pc = "probe"
    /\ \/ /\ admin # NoOne
          /\ To(c, "reload", NoOne)
          /\ UNCHANGED sup
       \/ /\ admin = NoOne
          /\ To(c, "wait", NoOne)
          /\ \E p \in Daemons : sup[p] = Off /\ sup' = [sup EXCEPT ![p].life = "spawned"]
    /\ UNCHANGED <<hubEnabled, credentials, admin, gateway, history>>

\* Probed again until it answers, or given up after six seconds.
Wait(c) ==
    /\ cmd[c].pc = "wait"
    /\ \/ admin # NoOne /\ To(c, "reload", NoOne)
       \/ admin = NoOne /\ To(c, "failed", NoOne)
    /\ UNCHANGED <<hubEnabled, credentials, admin, gateway, sup, history>>

\* The reload of the roles.  While a load is in flight the answer is the answer to that load.
Reload_unawaited(c) ==       \* answered before the roles are loaded
    /\ c # "join" /\ cmd[c].pc = "reload"
    /\ UNCHANGED <<hubEnabled, credentials, admin, edited, turns>>
    /\ IF admin = NoOne \/ sup[admin].fleet # "ready"
       THEN To(c, "failed", admin) /\ UNCHANGED <<sup, gateway, coalesced>>
       ELSE LET p == admin
                s == IF sup[p].loading THEN sup[p] ELSE LoadRoles(sup[p])
            IN  /\ sup' = [sup EXCEPT ![p] = s]
                /\ gateway' = Released(p, s)
                /\ coalesced' = [coalesced EXCEPT ![c] = sup[p].loading]
                /\ To(c, "done", p)
Reload(c) ==
    /\ c # "join" /\ cmd[c].pc = "reload"
    /\ UNCHANGED <<hubEnabled, credentials, admin, edited, turns>>
    /\ IF admin = NoOne \/ sup[admin].fleet # "ready"
       THEN To(c, "failed", admin) /\ UNCHANGED <<sup, gateway, coalesced>>
       ELSE LET p == admin
                s == IF sup[p].loading THEN sup[p] ELSE LoadRoles(sup[p])
            IN  /\ sup' = [sup EXCEPT ![p] = s]
                /\ gateway' = Released(p, s)
                /\ coalesced' = [coalesced EXCEPT ![c] = sup[p].loading]
                /\ To(c, IF s.loading THEN "waiting" ELSE "done", p)

\* The reload of the node happens at once.
NodeReload ==
    /\ cmd["join"].pc = "reload"
    /\ IF admin = NoOne \/ sup[admin].fleet # "ready"
       THEN To("join", "failed", admin) /\ UNCHANGED sup
       ELSE To("join", "done", admin) /\ sup' = [sup EXCEPT ![admin] = ReloadNode(@)]
    /\ UNCHANGED <<hubEnabled, credentials, admin, gateway, history>>

\* A command that has ended can be given again.
Again(c) ==
    /\ cmd[c].pc \in {"done", "failed"}
    /\ cmd' = [cmd EXCEPT ![c] = Idle]
    /\ coalesced' = [coalesced EXCEPT ![c] = FALSE]
    /\ UNCHANGED <<hubEnabled, credentials, admin, gateway, sup, edited, turns>>

-----------------------------------------------------------------------------
(* The node's link.                                                          *)

Linked(p) == sup[p].status \in {"connecting", "running"}

\* The hub's state arrives and is applied.
Running(p) ==
    /\ sup[p].status = "connecting" /\ Stays(p) /\ sup[p].node \notin refused
    /\ sup' = [sup EXCEPT ![p].status = "running"]
    /\ UNCHANGED <<hubEnabled, credentials, admin, gateway, cmd, history>>
\* The link breaks, or a report is not delivered.
LinkError(p) ==
    /\ sup[p].status = "running"
    /\ sup' = [sup EXCEPT ![p].status = "connecting"]
    /\ UNCHANGED <<hubEnabled, credentials, admin, gateway, cmd, history>>

\* The hub revokes a credential; the next connection is answered with 401, which is handled later.
Revoke(k) ==
    /\ k \notin refused
    /\ refused' = refused \cup {k}
    /\ UNCHANGED <<hubEnabled, creds, minted, admin, gateway, sup, cmd, history>>
Refused(p) ==
    /\ Linked(p) /\ Stays(p) /\ sup[p].node \in refused /\ ~sup[p].mine
    /\ sup' = [sup EXCEPT ![p].mine = TRUE, ![p].status = "connecting"]
    /\ UNCHANGED <<hubEnabled, credentials, admin, gateway, cmd, history>>

\* onFatal: the agent stops for good, if it is still that channel's.
Fatal_unguarded(p) ==        \* whichever channel's it is
    /\ sup[p].mine \/ sup[p].old
    /\ sup' = [sup EXCEPT ![p].mine = FALSE, ![p].old = FALSE, ![p].status = "auth-failed"]
    /\ UNCHANGED <<hubEnabled, credentials, admin, gateway, cmd, history>>
Fatal(p) ==
    /\ \/ sup[p].mine /\ sup' = [sup EXCEPT ![p].mine = FALSE, ![p].status = "auth-failed"]
       \/ sup[p].old /\ sup' = [sup EXCEPT ![p].old = FALSE]
    /\ UNCHANGED <<hubEnabled, credentials, admin, gateway, cmd, history>>

\* `leave` removes the credential; nothing is told to the supervisor.
Leave ==
    /\ creds # 0
    /\ creds' = 0
    /\ UNCHANGED <<hubEnabled, minted, refused, admin, gateway, sup, cmd, history>>

Supervisor(p) == GatewayListens(p) \/ GatewayTaken(p) \/ Boot(p) \/ Fatal(p)
Command(c) == Probe(c) \/ Wait(c) \/ Reload(c)
Next ==
    \/ \E p \in Procs : Supervisor(p) \/ Running(p) \/ LinkError(p) \/ Refused(p) \/ Dies(p)
    \/ \E c \in Commands : Command(c) \/ Ask(c) \/ Again(c)
    \/ NodeReload \/ Enrolled \/ Leave \/ TuiStarts \/ OtherProgram
    \/ \E k \in 1..minted : Revoke(k)

Spec == Init /\ [][Next]_vars

-----------------------------------------------------------------------------
(* Properties. *)

TypeOK ==
    /\ hubEnabled \in BOOLEAN /\ creds \in 0..MaxCreds /\ minted \in 0..MaxCreds /\ refused \subseteq 1..minted
    /\ admin \in Procs \cup {NoOne} /\ gateway \in Procs \cup {NoOne, Other}
    /\ sup \in [Procs -> [life : {"off", "spawned", "up", "headless", "losing"}, fleet : {"none", "ready", "failed"},
                          loading : BOOLEAN, hub : BOOLEAN, node : 0..MaxCreds,
                          status : {"disabled", "connecting", "running", "auth-failed"},
                          mine : BOOLEAN, old : BOOLEAN]]
    /\ cmd \in [Commands -> [pc : {"idle", "probe", "wait", "reload", "waiting", "done", "failed"},
                             of : Procs \cup {NoOne}]]
    /\ edited \in [Commands -> BOOLEAN] /\ coalesced \in [Commands -> BOOLEAN] /\ turns \in 0..MaxTurns

\* A command that reports success has what it asked for: the hub runs, or runs no more, in the
\* supervisor that answered, for as long as that lives and nobody changes runtime.json - except a
\* reload that was answered by a load begun before the change (fleet-runtime.ts 104).
ReloadTakes ==
    \A c \in {"hub", "off"} :
       cmd[c].pc = "done" /\ ~edited[c] /\ ~coalesced[c] /\ cmd[c].of # NoOne
          => sup[cmd[c].of].hub = Wants(c)

\* However commands and terminals race to start supervisors, the machine has one agent and one hub:
\* two agents would write the same files - except a daemon that lost the port and is about to die
\* of it, and a terminal that lost it and was kept alive by its backstop (cli/index.ts 69), which
\* runs an agent of its own.
OneOfEach ==
    /\ \A p, q \in Procs : Linked(p) /\ Stays(p) /\ Linked(q) /\ Stays(q)
                             => p = q \/ sup[Tui].life = "headless"
    /\ \A p \in Procs : sup[p].hub => gateway = p

\* The status tells the truth about the credential: "auth-failed" means that the hub refuses the
\* credential the node has, never that a replaced channel was refused (fleet-runtime.ts 184).
RefusalIsOfThisNode == \A p \in Procs : sup[p].status = "auth-failed" => sup[p].node \in refused
=============================================================================
