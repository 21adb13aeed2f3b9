-------------------------- MODULE Supervisor_proofs --------------------------
(***************************************************************************)
(* Proofs about what the supervisors run: the hub's public address         *)
(* (TunnelManager), for any tunnels and any number of host processes, and  *)
(* the roles (FleetRuntime), for any number of daemons, commands in any    *)
(* order and any number of credentials.  The two share no variable.        *)
(*                                                                         *)
(* The tunnel: that there is one host at most is inductive once the types  *)
(* say that the host is a process of this manager's that is up: the exit   *)
(* of any other process is not taken for the host's.                       *)
(*                                                                         *)
(* The roles: that there is one agent rests on who may run one at all: the *)
(* process bound to the admin port, or a terminal that has lost it.  That  *)
(* a refusal is this node's rests on where a refusal may wait: one that is *)
(* not yet handled is of the credential the node still has.  That a reload *)
(* takes effect rests on the file still saying what the command wrote when *)
(* its request is handled, and on roles being left alone after (Told).     *)
(***************************************************************************)
EXTENDS TunnelManager, FleetRuntime, TLAPS

-----------------------------------------------------------------------------
(* The tunnel. *)

ProcSet == [life : {"free", "up", "exited"}, killed : BOOLEAN, mine : BOOLEAN, tid : Ids]
RunSet == [pc : {"none", "available", "user", "create", "port", "show"},
           fresh : BOOLEAN, create : BOOLEAN, tid : Ids]

\* The host is a process that is up, and started by this manager.
HostIsMine == host # NoProc => host \in Hosts /\ procs[host].mine /\ procs[host].life = "up"

TunnelInv == TunnelTypeOK /\ SingleHost

-----------------------------------------------------------------------------
LEMMA TunnelTypeFacts ==
    TunnelTypeOK <=> /\ enabled \in BOOLEAN /\ tunnelId \in Ids /\ state \in States
               /\ procs \in [Hosts -> ProcSet]
               /\ HostIsMine
               /\ timer \in BOOLEAN /\ run \in RunSet
               /\ removing \in SUBSET (Tunnels \X BOOLEAN)
               /\ intendedStop \in BOOLEAN /\ stopped \in BOOLEAN
               /\ wish \in BOOLEAN /\ undone \in BOOLEAN /\ crossed \in BOOLEAN
<1>1. host \in {i \in Hosts : procs[i].mine /\ procs[i].life = "up"} \cup {NoProc} <=> HostIsMine
  BY DEF HostIsMine
<1> QED
  BY <1>1 DEF TunnelTypeOK, ProcSet, RunSet

LEMMA TunnelTypeFactsNext ==
    ASSUME enabled' \in BOOLEAN, tunnelId' \in Ids, state' \in States,
           procs' \in [Hosts -> ProcSet], HostIsMine', timer' \in BOOLEAN, run' \in RunSet,
           removing' \in SUBSET (Tunnels \X BOOLEAN),
           intendedStop' \in BOOLEAN, stopped' \in BOOLEAN,
           wish' \in BOOLEAN, undone' \in BOOLEAN, crossed' \in BOOLEAN
    PROVE  TunnelTypeOK'
<1>1. host' \in {i \in Hosts : procs'[i].mine /\ procs'[i].life = "up"} \cup {NoProc}
  BY DEF HostIsMine
<1> QED
  BY <1>1 DEF TunnelTypeOK, ProcSet, RunSet

LEMMA Constants ==
    /\ NoTunnel \in Ids /\ Tunnels \subseteq Ids
    /\ NoProc \notin Hosts /\ Free \in ProcSet /\ Free.life = "free"
    /\ NoRun \in RunSet /\ \A c \in BOOLEAN : NewRun(c) \in RunSet
<1>1. NoTunnel \in Ids /\ Tunnels \subseteq Ids
  BY DEF Ids
<1>2. NoProc \notin Hosts
  BY TunnelAssumption DEF Hosts, NoProc
<1> QED
  BY <1>1, <1>2 DEF Free, ProcSet, NoRun, NewRun, RunSet

LEMMA RunFacts ==
    ASSUME TunnelTypeOK
    PROVE  /\ Stale \in RunSet /\ \A c \in BOOLEAN : StartOnce(c) \in RunSet
<1>1. run \in RunSet
  BY TunnelTypeFacts
<1> QED
  BY <1>1, Constants DEF Stale, StartOnce, RunSet

LEMMA TunnelInvInit == TunnelInit => TunnelInv
<1> SUFFICES ASSUME TunnelInit PROVE TunnelInv
  OBVIOUS
<1>1. procs \in [Hosts -> ProcSet] /\ \A i \in Hosts : procs[i].life = "free"
  BY Constants DEF TunnelInit
<1>2. host = NoProc /\ ~stopped /\ state \in States /\ run \in RunSet /\ tunnelId \in Ids
  BY Constants DEF TunnelInit, States, Ids
<1>3. TunnelTypeOK
  BY <1>1, <1>2, TunnelTypeFacts DEF TunnelInit, HostIsMine
<1>4. SingleHost
  BY <1>1, <1>2 DEF SingleHost
<1> QED
  BY <1>3, <1>4 DEF TunnelInv

-----------------------------------------------------------------------------
(* The provisioning run. *)

\* A run that ends or goes on starts no process.
LEMMA NoSpawn ==
    ASSUME TunnelInv, UNCHANGED <<procs, host, intendedStop, timer, removing, stopped, wish, undone, crossed>>,
           enabled' \in BOOLEAN, tunnelId' \in Ids, state' \in States, run' \in RunSet
    PROVE  TunnelInv'
<1>1. TunnelTypeOK'
  BY TunnelTypeFacts, TunnelTypeFactsNext DEF TunnelInv, HostIsMine
<1> QED
  BY <1>1 DEF TunnelInv, SingleHost

LEMMA EndStep ==
    ASSUME TunnelInv, NEW s \in States, RunEnds(s), Background
    PROVE  TunnelInv'
<1>1. TunnelTypeOK /\ state' \in States /\ run' \in RunSet
  BY TunnelTypeFacts, Constants DEF TunnelInv, RunEnds
<1> QED
  BY <1>1, TunnelTypeFacts, NoSpawn DEF RunEnds, Background, file, tunnelHistory

LEMMA ContinueStep ==
    ASSUME TunnelInv, NEW pc \in {"user", "create", "port", "show"}, NEW t \in Ids, NEW s \in States,
           Continue(pc, t, s), Background, enabled' \in BOOLEAN, tunnelId' \in Ids
    PROVE  TunnelInv'
<1>1. run \in RunSet
  BY TunnelTypeFacts DEF TunnelInv
<1>2. run' \in RunSet /\ state' \in States
  BY <1>1 DEF Continue, RunSet
<1> QED
  BY <1>2, NoSpawn DEF Continue, Background, tunnelHistory

\* A host is only started when the manager has none.
LEMMA HostSpawnStep ==
    ASSUME TunnelInv, SpawnHost, Background, enabled' \in BOOLEAN, tunnelId' \in Ids
    PROVE  TunnelInv'
<1>1. TunnelTypeOK /\ procs \in [Hosts -> ProcSet] /\ run \in RunSet
  BY TunnelTypeFacts DEF TunnelInv
<1>2. /\ host = NoProc /\ ~stopped /\ run' = NoRun /\ intendedStop' = FALSE /\ state' = "connecting"
      /\ UNCHANGED <<timer, removing, stopped, wish, undone, crossed>>
  BY DEF SpawnHost, Active, Background, tunnelHistory
<1> DEFINE New == [life |-> "up", killed |-> FALSE, mine |-> TRUE, tid |-> run.tid]
<1>3. New \in ProcSet /\ New.mine /\ New.life = "up"
  BY <1>1 DEF ProcSet, RunSet
<1>4. PICK i \in Hosts : procs' = [procs EXCEPT ![i] = New] /\ host' = i
  BY DEF SpawnHost
<1> HIDE DEF New
<1>5. procs' \in [Hosts -> ProcSet] /\ procs'[i] = New /\ \A j \in Hosts \ {i} : procs'[j] = procs[j]
  BY <1>1, <1>3, <1>4
<1>6. TunnelTypeOK'
  <2>1. HostIsMine'
    BY <1>3, <1>4, <1>5 DEF HostIsMine
  <2>2. run' \in RunSet /\ state' \in States
    BY <1>2, Constants DEF States
  <2> QED
    BY <1>1, <1>2, <1>5, <2>1, <2>2, TunnelTypeFacts, TunnelTypeFactsNext
<1>7. SingleHost'
  <2>1. ASSUME NEW j \in Hosts, procs'[j].life = "up", ~procs'[j].killed PROVE host' = j
    <3>1. CASE j = i
      BY <1>4, <3>1
    <3>2. CASE j # i
      BY <1>2, <1>5, <2>1, <3>2, Constants DEF TunnelInv, SingleHost
    <3> QED
      BY <3>1, <3>2
  <2> QED
    BY <1>2, <2>1 DEF SingleHost
<1> QED
  BY <1>6, <1>7 DEF TunnelInv

LEMMA ProvisionStep == TunnelInv /\ Provision => TunnelInv'
<1> SUFFICES ASSUME TunnelInv, Provision PROVE TunnelInv'
  OBVIOUS
<1>0. TunnelTypeOK /\ state \in States /\ run.tid \in Ids /\ tunnelId \in Ids /\ enabled \in BOOLEAN
  BY TunnelTypeFacts DEF TunnelInv, RunSet
<1>1. {"cli-missing", "failed", "signed-out", "provisioning"} \subseteq States
  BY DEF States
<1>2. ASSUME Available PROVE TunnelInv'
  BY <1>0, <1>1, <1>2, EndStep, ContinueStep, Constants DEF Available, Abandoned, file
<1>3. ASSUME User PROVE TunnelInv'
  BY <1>0, <1>1, <1>3, EndStep, ContinueStep, Constants DEF User, file
<1>4. ASSUME Create PROVE TunnelInv'
  <2>1. CASE \E t \in Tunnels : Continue("port", t, "provisioning") /\ enabled' = TRUE /\ tunnelId' = t
    BY <1>1, <1>4, <2>1, ContinueStep, Constants DEF Create
  <2>2. CASE RunEnds("failed") \/ Abandoned
    BY <1>0, <1>1, <1>4, <2>2, EndStep DEF Create, Abandoned
  <2> QED
    BY <1>4, <2>1, <2>2 DEF Create
<1>5. ASSUME EnsurePort PROVE TunnelInv'
  BY <1>0, <1>1, <1>5, EndStep, ContinueStep DEF EnsurePort, Abandoned, file
<1>6. ASSUME Show PROVE TunnelInv'
  BY <1>0, <1>6, EndStep, HostSpawnStep DEF Show, Abandoned, file
<1> QED
  BY <1>2, <1>3, <1>4, <1>5, <1>6 DEF Provision

-----------------------------------------------------------------------------
(* Processes and commands. *)

\* One process changes, and gets no livelier.
LEMMA ProcStep ==
    ASSUME TunnelTypeOK, SingleHost, NEW i \in Hosts, NEW q \in ProcSet, procs' = [procs EXCEPT ![i] = q],
           q.life = "up" => procs[i].life = "up" /\ (procs[i].killed => q.killed)
    PROVE  /\ procs' \in [Hosts -> ProcSet] /\ procs'[i] = q
           /\ \A j \in Hosts \ {i} : procs'[j] = procs[j]
           /\ \A j \in Hosts : procs'[j].life = "up" /\ ~procs'[j].killed => host = j
<1>1. procs \in [Hosts -> ProcSet]
  BY TunnelTypeFacts
<1>2. procs' \in [Hosts -> ProcSet] /\ procs'[i] = q /\ \A j \in Hosts \ {i} : procs'[j] = procs[j]
  BY <1>1
<1>3. q.killed \in BOOLEAN /\ procs[i].killed \in BOOLEAN
  BY <1>1 DEF ProcSet
<1> QED
  BY <1>2, <1>3 DEF SingleHost

LEMMA LineStep ==
    ASSUME TunnelInv, NEW i \in Hosts, Line(i)
    PROVE  TunnelInv'
<1>1. TunnelTypeOK /\ procs[i].tid \in Ids /\ undone' \in BOOLEAN
  BY TunnelTypeFacts DEF TunnelInv, ProcSet, Line
<1>2. enabled' \in BOOLEAN /\ tunnelId' \in Ids /\ state' \in States
  BY <1>1, TunnelTypeFacts DEF Line, States
<1>3. TunnelTypeOK'
  BY <1>1, <1>2, TunnelTypeFacts, TunnelTypeFactsNext DEF Line, HostIsMine
<1> QED
  BY <1>3 DEF Line, TunnelInv, SingleHost

LEMMA ExitStep ==
    ASSUME TunnelInv, NEW i \in Hosts, Exit(i)
    PROVE  TunnelInv'
<1> DEFINE q == [procs[i] EXCEPT !.life = "exited"]
<1>1. TunnelTypeOK /\ SingleHost /\ HostIsMine /\ procs \in [Hosts -> ProcSet]
  BY TunnelTypeFacts DEF TunnelInv
<1>2. q \in ProcSet /\ q.life = "exited"
  BY <1>1 DEF ProcSet
<1>3. procs' = [procs EXCEPT ![i] = q]
  BY <1>1 DEF Exit
<1> HIDE DEF q
<1>4. /\ procs' \in [Hosts -> ProcSet] /\ procs'[i] = q
      /\ \A j \in Hosts \ {i} : procs'[j] = procs[j]
      /\ \A j \in Hosts : procs'[j].life = "up" /\ ~procs'[j].killed => host = j
  BY <1>1, <1>2, <1>3, ProcStep
<1>5. /\ UNCHANGED <<enabled, tunnelId, run, removing, intendedStop, stopped, wish, undone, crossed>>
      /\ \/ host # i /\ host' = host /\ timer' = timer /\ state' = state
         \/ /\ host = i /\ host' = NoProc
            /\ \/ timer' = timer /\ state' = state
               \/ timer' = TRUE /\ ~stopped /\ state' = "backoff"
  BY <1>1 DEF Exit, Exited, HostIsMine, file, tunnelHistory, NoProc
<1>6. HostIsMine'
  BY <1>1, <1>4, <1>5 DEF HostIsMine
<1>7. state' \in States /\ timer' \in BOOLEAN
  BY <1>1, <1>5, TunnelTypeFacts DEF States
<1>8. TunnelTypeOK'
  BY <1>1, <1>4, <1>5, <1>6, <1>7, TunnelTypeFacts, TunnelTypeFactsNext
<1>9. SingleHost'
  BY <1>1, <1>2, <1>4, <1>5 DEF SingleHost
<1> QED
  BY <1>8, <1>9 DEF TunnelInv

LEMMA DrainedStep ==
    ASSUME TunnelInv, NEW i \in Hosts, Drained(i)
    PROVE  TunnelInv'
<1>1. TunnelTypeOK /\ SingleHost /\ HostIsMine /\ procs[i].life = "exited"
  BY TunnelTypeFacts DEF TunnelInv, Drained
<1>2. /\ procs' = [procs EXCEPT ![i] = Free]
      /\ UNCHANGED <<enabled, tunnelId, state, host, timer, run, removing, intendedStop, stopped, wish, undone, crossed>>
  BY DEF Drained, file, tunnelHistory
<1>3. /\ procs' \in [Hosts -> ProcSet] /\ \A j \in Hosts \ {i} : procs'[j] = procs[j]
      /\ \A j \in Hosts : procs'[j].life = "up" /\ ~procs'[j].killed => host = j
  BY <1>1, <1>2, Constants, ProcStep
<1>4. HostIsMine'
  BY <1>1, <1>2, <1>3 DEF HostIsMine
<1> QED
  BY <1>1, <1>2, <1>3, <1>4, TunnelTypeFacts, TunnelTypeFactsNext DEF TunnelInv, SingleHost

\* Letting go of the host kills it.
LEMMA StopFacts ==
    ASSUME TunnelInv, StopHosting
    PROVE  /\ procs' \in [Hosts -> ProcSet] /\ host' = NoProc /\ timer' = FALSE /\ intendedStop' = TRUE
           /\ \A j \in Hosts : procs'[j].life = "up" => procs'[j].killed
<1>1. TunnelTypeOK /\ SingleHost /\ HostIsMine /\ procs \in [Hosts -> ProcSet]
  BY TunnelTypeFacts DEF TunnelInv
<1>2. CASE host = NoProc
  BY <1>1, <1>2, Constants DEF StopHosting, SingleHost
<1>3. CASE host # NoProc
  <2> DEFINE q == [procs[host] EXCEPT !.killed = TRUE]
  <2>1. host \in Hosts /\ procs[host].life = "up"
    BY <1>1, <1>3 DEF HostIsMine
  <2>2. q \in ProcSet /\ q.life = "up" /\ q.killed
    BY <1>1, <2>1 DEF ProcSet
  <2>3. procs' = [procs EXCEPT ![host] = q]
    BY <1>1, <1>3 DEF StopHosting
  <2> HIDE DEF q
  <2>4. /\ procs' \in [Hosts -> ProcSet] /\ procs'[host] = q
        /\ \A j \in Hosts \ {host} : procs'[j] = procs[j]
        /\ \A j \in Hosts : procs'[j].life = "up" /\ ~procs'[j].killed => host = j
    BY <1>1, <2>1, <2>2, <2>3, ProcStep
  <2> QED
    BY <2>2, <2>4 DEF StopHosting
<1> QED
  BY <1>2, <1>3

LEMMA StoppingStep ==
    ASSUME TunnelInv, StopHosting, run' = Stale, enabled' \in BOOLEAN, tunnelId' \in Ids, state' \in States,
           removing' \in SUBSET (Tunnels \X BOOLEAN), stopped' \in BOOLEAN,
           wish' \in BOOLEAN, undone' \in BOOLEAN, crossed' \in BOOLEAN
    PROVE  TunnelInv'
<1>1. run' \in RunSet
  BY RunFacts DEF TunnelInv
<1>2. HostIsMine'
  BY StopFacts DEF HostIsMine
<1>3. TunnelTypeOK'
  BY <1>1, <1>2, StopFacts, TunnelTypeFactsNext
<1>4. SingleHost'
  BY StopFacts DEF SingleHost
<1> QED
  BY <1>3, <1>4 DEF TunnelInv

LEMMA TunnelCommandStep ==
    ASSUME TunnelInv, Disable \/ Delete \/ Stop
    PROVE  TunnelInv'
<1>1. TunnelTypeOK /\ "disabled" \in States
  BY DEF TunnelInv, States
<1>2. CASE Disable
  BY <1>1, <1>2, TunnelTypeFacts, StoppingStep DEF Disable
<1>3. CASE Delete
  <2>1. tunnelId \in Ids /\ removing \in SUBSET (Tunnels \X BOOLEAN)
    BY <1>1, TunnelTypeFacts
  <2>2. removing' \in SUBSET (Tunnels \X BOOLEAN) /\ enabled' \in BOOLEAN /\ tunnelId' \in Ids /\ state' \in States
    <3>1. CASE tunnelId # NoTunnel /\ removing' = removing \cup {<<tunnelId, TRUE>>} /\ UNCHANGED <<file, state>>
      <4>1. <<tunnelId, TRUE>> \in Tunnels \X BOOLEAN
        BY <2>1, <3>1 DEF Ids
      <4> QED
        BY <1>1, <2>1, <3>1, <4>1, TunnelTypeFacts DEF file
    <3>2. CASE enabled' = FALSE /\ state' = "disabled" /\ UNCHANGED <<tunnelId, removing>>
      BY <1>1, <2>1, <3>2
    <3> QED
      BY <1>3, <3>1, <3>2 DEF Delete
  <2> QED
    BY <1>1, <1>3, <2>2, TunnelTypeFacts, StoppingStep DEF Delete
<1>4. CASE Stop
  BY <1>1, <1>4, TunnelTypeFacts, StoppingStep DEF Stop, file, tunnelHistory
<1> QED
  BY <1>2, <1>3, <1>4

LEMMA InterruptStep ==
    ASSUME TunnelInv, Interrupt
    PROVE  TunnelInv'
<1> DEFINE q == [procs[host] EXCEPT !.killed = TRUE]
<1>1. TunnelTypeOK /\ SingleHost /\ HostIsMine /\ procs \in [Hosts -> ProcSet]
  BY TunnelTypeFacts DEF TunnelInv
<1>2. host \in Hosts /\ procs[host].life = "up" /\ procs[host].mine
  BY <1>1 DEF HostIsMine, Interrupt
<1>3. q \in ProcSet /\ q.life = "up" /\ q.killed /\ q.mine
  BY <1>1, <1>2 DEF ProcSet
<1>4. /\ procs' = [procs EXCEPT ![host] = q]
      /\ UNCHANGED <<enabled, tunnelId, state, host, timer, run, removing, intendedStop, stopped, wish, undone, crossed>>
  BY <1>1 DEF Interrupt, file, tunnelHistory
<1> HIDE DEF q
<1>5. /\ procs' \in [Hosts -> ProcSet] /\ procs'[host] = q
      /\ \A j \in Hosts : procs'[j].life = "up" /\ ~procs'[j].killed => host = j
  BY <1>1, <1>2, <1>3, <1>4, ProcStep
<1>6. HostIsMine'
  BY <1>2, <1>3, <1>4, <1>5 DEF HostIsMine
<1> QED
  BY <1>1, <1>4, <1>5, <1>6, TunnelTypeFacts, TunnelTypeFactsNext DEF TunnelInv, SingleHost

\* The processes of the manager before were killed when it was stopped.
LEMMA RebuildStep ==
    ASSUME TunnelInv, Rebuild
    PROVE  TunnelInv'
<1>1. TunnelTypeOK /\ procs \in [Hosts -> ProcSet] /\ removing \in SUBSET (Tunnels \X BOOLEAN) /\ enabled \in BOOLEAN
      /\ stopped /\ host = NoProc
  BY TunnelTypeFacts DEF TunnelInv, SingleHost, Rebuild
<1>2. /\ UNCHANGED <<enabled, tunnelId, wish, undone, crossed>>
      /\ stopped' = FALSE /\ intendedStop' = FALSE /\ timer' = FALSE /\ host' = NoProc
      /\ procs' = [i \in Hosts |-> [procs[i] EXCEPT !.mine = FALSE]]
      /\ removing' = {<<r[1], FALSE>> : r \in removing}
  BY DEF Rebuild, file, tunnelHistory
<1>3. ASSUME NEW i \in Hosts
      PROVE  /\ procs'[i] \in ProcSet /\ procs'[i].life = procs[i].life
             /\ procs'[i].killed = procs[i].killed
  BY <1>1, <1>2 DEF ProcSet
<1>4. procs' \in [Hosts -> ProcSet]
  <2>1. procs' = [i \in Hosts |-> procs'[i]]
    BY <1>2
  <2> QED
    BY <1>3, <2>1
<1>5. removing' \in SUBSET (Tunnels \X BOOLEAN)
  <2> SUFFICES ASSUME NEW x \in removing' PROVE x \in Tunnels \X BOOLEAN
    OBVIOUS
  <2>1. PICK r \in removing : x = <<r[1], FALSE>>
    BY <1>2
  <2>2. r \in Tunnels \X BOOLEAN
    BY <1>1
  <2>3. r[1] \in Tunnels
    BY <2>2
  <2> QED
    BY <2>1, <2>3
<1>6. state' \in States /\ run' \in RunSet
  BY Constants DEF Rebuild, States
<1>7. TunnelTypeOK'
  BY <1>1, <1>2, <1>4, <1>5, <1>6, TunnelTypeFacts, TunnelTypeFactsNext DEF HostIsMine
<1>8. SingleHost'
  BY <1>1, <1>2, <1>3, Constants DEF TunnelInv, SingleHost
<1> QED
  BY <1>7, <1>8 DEF TunnelInv

LEMMA TunnelInvStep == TunnelInv /\ [TunnelNext]_tunnelVars => TunnelInv'
<1> SUFFICES ASSUME TunnelInv, [TunnelNext]_tunnelVars PROVE TunnelInv'
  OBVIOUS
<1>0. TunnelTypeOK /\ "disabled" \in States
  BY DEF TunnelInv, States
<1>1. CASE Provision
  BY <1>1, ProvisionStep
<1>2. CASE Retry
  <2>1. run' \in RunSet
    BY <1>0, <1>2, RunFacts, TunnelTypeFacts DEF Retry
  <2>2. TunnelTypeOK'
    BY <1>0, <1>2, <2>1, TunnelTypeFacts, TunnelTypeFactsNext DEF Retry, HostIsMine, file, tunnelHistory
  <2> QED
    BY <1>2, <2>2 DEF Retry, TunnelInv, SingleHost
<1>3. ASSUME NEW i \in Hosts, Line(i) \/ Exit(i) \/ Drained(i) PROVE TunnelInv'
  BY <1>3, LineStep, ExitStep, DrainedStep
<1>4. CASE Enable
  <2>1. run' \in RunSet /\ crossed' \in BOOLEAN
    BY <1>0, <1>4, RunFacts, TunnelTypeFacts DEF Enable, RunSet
  <2>2. TunnelTypeOK'
    BY <1>0, <1>4, <2>1, TunnelTypeFacts, TunnelTypeFactsNext DEF Enable, HostIsMine
  <2> QED
    BY <1>4, <2>2 DEF Enable, TunnelInv, SingleHost
<1>5. CASE Disable \/ Delete \/ Stop
  BY <1>5, TunnelCommandStep
<1>6. CASE Interrupt
  BY <1>6, InterruptStep
<1>7. CASE Rebuild
  BY <1>7, RebuildStep
<1>8. ASSUME NEW r \in removing, Removed(r) \/ NotRemoved(r) PROVE TunnelInv'
  <2>1. /\ UNCHANGED <<procs, host, timer, run, intendedStop, stopped, crossed>>
        /\ removing' = removing \ {r}
    BY <1>8 DEF Removed, NotRemoved
  <2>2. /\ enabled' \in BOOLEAN /\ tunnelId' \in Ids /\ state' \in States
        /\ wish' \in BOOLEAN /\ undone' \in BOOLEAN
    BY <1>0, <1>8, TunnelTypeFacts, Constants DEF Removed, NotRemoved, file
  <2>3. removing' \in SUBSET (Tunnels \X BOOLEAN)
    BY <1>0, <2>1, TunnelTypeFacts
  <2>4. TunnelTypeOK'
    BY <1>0, <2>1, <2>2, <2>3, TunnelTypeFacts, TunnelTypeFactsNext DEF HostIsMine
  <2> QED
    BY <2>1, <2>4 DEF TunnelInv, SingleHost
<1>9. CASE UNCHANGED tunnelVars
  <2>1. TunnelTypeOK'
    BY <1>0, <1>9, TunnelTypeFacts, TunnelTypeFactsNext DEF tunnelVars, file, tunnelHistory, HostIsMine
  <2> QED
    BY <1>9, <2>1 DEF tunnelVars, TunnelInv, SingleHost
<1> QED
  BY <1>1, <1>2, <1>3, <1>4, <1>5, <1>6, <1>7, <1>8, <1>9 DEF TunnelNext

-----------------------------------------------------------------------------
(* The results. *)

\* In every reachable state every variable keeps its shape, and the host the manager holds is a
\* process of its own that is up.
THEOREM TunnelTypes == TunnelSpec => []TunnelTypeOK
<1>1. TunnelInv => TunnelTypeOK
  BY DEF TunnelInv
<1> QED
  BY <1>1, TunnelInvInit, TunnelInvStep, PTL DEF TunnelSpec

\* Whatever disable, delete, stop, reloads, exits and provisioning runs meet each other, there is
\* one host that nobody killed at most, and a stopped manager has none.
THEOREM OneHost == TunnelSpec => []SingleHost
<1>1. TunnelInv => SingleHost
  BY DEF TunnelInv
<1> QED
  BY <1>1, TunnelInvInit, TunnelInvStep, PTL DEF TunnelSpec

-----------------------------------------------------------------------------
(* The roles. *)

Sups == [life : {"off", "spawned", "up", "headless", "losing"}, fleet : {"none", "ready", "failed"},
         loading : BOOLEAN, hub : BOOLEAN, node : 0..MaxCreds,
         status : {"disabled", "connecting", "running", "auth-failed"},
         mine : BOOLEAN, old : BOOLEAN]
Cmds == [pc : {"idle", "probe", "wait", "reload", "waiting", "done", "failed"}, of : Procs \cup {NoOne}]

-----------------------------------------------------------------------------
(* The inductive invariant. *)

Alive(s) == s.life \in {"up", "headless", "losing"}

\* The process on the admin port is the one that is up; only a terminal lives without it.
PortIsUp == \A p \in Procs : /\ sup[p].life = "up" <=> admin = p
                             /\ sup[p].life = "headless" => p = Tui

\* A process that has not booted runs nothing.
OnlyAliveRuns == \A p \in Procs : ~Alive(sup[p]) => /\ sup[p].status = "disabled"
                                                    /\ ~sup[p].loading /\ ~sup[p].hub /\ ~sup[p].mine

HubHasGateway == \A p \in Procs : sup[p].hub => gateway = p

RefusalsAreMine ==
    \A p \in Procs : sup[p].mine \/ sup[p].status = "auth-failed" => sup[p].node \in refused

RuntimeInv == TypeOK /\ PortIsUp /\ OnlyAliveRuns /\ HubHasGateway /\ RefusalsAreMine

-----------------------------------------------------------------------------
(* The roles of one process. *)

LEMMA OffFacts ==
    /\ Off \in Sups /\ Off.life = "off" /\ Off.status = "disabled"
    /\ ~Off.loading /\ ~Off.hub /\ ~Off.mine
BY RuntimeAssumption DEF Off, Sups

LEMMA ReloadNodeFacts ==
    ASSUME NEW s \in Sups, creds \in 0..MaxCreds
    PROVE  LET n == ReloadNode(s)
           IN  /\ n \in Sups /\ n.life = s.life /\ n.loading = s.loading /\ n.hub = s.hub
               /\ ~n.mine /\ n.status # "auth-failed"
BY DEF ReloadNode, Sups

LEMMA LoadRolesFacts ==
    ASSUME NEW s \in Sups, creds \in 0..MaxCreds, hubEnabled \in BOOLEAN
    PROVE  LET n == LoadRoles(s)
           IN  /\ n \in Sups /\ n.life = s.life /\ (n.hub => s.hub)
               /\ \/ n.mine = s.mine /\ n.status = s.status /\ n.node = s.node
                  \/ ~n.mine /\ n.status # "auth-failed"
<1>1. CASE hubEnabled /\ ~s.hub
  BY <1>1 DEF LoadRoles, Sups
<1>2. CASE ~(hubEnabled /\ ~s.hub)
  <2> DEFINE r == [s EXCEPT !.hub = s.hub /\ hubEnabled, !.fleet = "ready"]
  <2>1. r \in Sups /\ r.life = s.life /\ (r.hub => s.hub)
    BY DEF Sups
  <2>2. LoadRoles(s) = ReloadNode(r)
    BY <1>2, Zenon DEF LoadRoles
  <2> HIDE DEF r
  <2> QED
    BY <2>1, <2>2, ReloadNodeFacts
<1> QED
  BY <1>1, <1>2

LEMMA TypeFacts ==
    TypeOK <=> /\ hubEnabled \in BOOLEAN /\ creds \in 0..MaxCreds /\ minted \in 0..MaxCreds
               /\ refused \subseteq 1..minted
               /\ admin \in Procs \cup {NoOne} /\ gateway \in Procs \cup {NoOne, Other}
               /\ sup \in [Procs -> Sups] /\ cmd \in [Commands -> Cmds]
               /\ edited \in [Commands -> BOOLEAN] /\ coalesced \in [Commands -> BOOLEAN]
               /\ turns \in 0..MaxTurns
BY DEF TypeOK, Sups, Cmds

LEMMA Names == Tui \in Procs /\ NoOne \notin Procs /\ Other \notin Procs /\ NoOne # Other
BY RuntimeAssumption DEF Procs

LEMMA InvInit == Init => RuntimeInv
<1> SUFFICES ASSUME Init PROVE RuntimeInv
  OBVIOUS
<1>1. sup \in [Procs -> Sups] /\ \A p \in Procs : sup[p] = Off
  BY OffFacts DEF Init
<1>2. TypeOK
  <2>1. creds \in 0..MaxCreds /\ minted \in 0..MaxCreds /\ refused \subseteq 1..minted /\ turns \in 0..MaxTurns
    BY RuntimeAssumption DEF Init
  <2>2. cmd \in [Commands -> Cmds]
    BY DEF Init, Idle, Cmds
  <2> QED
    BY <1>1, <2>1, <2>2, TypeFacts DEF Init
<1>3. PortIsUp /\ OnlyAliveRuns /\ HubHasGateway /\ RefusalsAreMine
  BY <1>1, OffFacts, Names DEF Init, PortIsUp, OnlyAliveRuns, HubHasGateway, RefusalsAreMine, Alive
<1> QED
  BY <1>2, <1>3 DEF RuntimeInv

-----------------------------------------------------------------------------
(* What one process does leaves the others as they are. *)

LEMMA OneChanges ==
    ASSUME RuntimeInv, NEW p \in Procs, NEW s \in Sups, sup' = [sup EXCEPT ![p] = s],
           admin' \in Procs \cup {NoOne}, gateway' \in Procs \cup {NoOne, Other},
           refused \subseteq refused',
           s.life = "up" <=> admin' = p,
           s.life = "headless" => p = Tui,
           ~Alive(s) => s.status = "disabled" /\ ~s.loading /\ ~s.hub /\ ~s.mine,
           s.hub => gateway' = p,
           s.mine \/ s.status = "auth-failed" => s.node \in refused',
           \A q \in Procs \ {p} : (admin' = q <=> admin = q) /\ (gateway = q => gateway' = q)
    PROVE  /\ sup' \in [Procs -> Sups]
           /\ (PortIsUp /\ OnlyAliveRuns /\ HubHasGateway /\ RefusalsAreMine)'
<1>1. sup \in [Procs -> Sups] /\ PortIsUp /\ OnlyAliveRuns /\ HubHasGateway /\ RefusalsAreMine
  BY TypeFacts DEF RuntimeInv
<1>2. sup' \in [Procs -> Sups] /\ sup'[p] = s /\ \A q \in Procs \ {p} : sup'[q] = sup[q]
  BY <1>1
<1>3. PortIsUp'
  BY <1>1, <1>2 DEF PortIsUp
<1>4. OnlyAliveRuns'
  BY <1>1, <1>2 DEF OnlyAliveRuns, Alive
<1>5. HubHasGateway'
  BY <1>1, <1>2 DEF HubHasGateway
<1>6. RefusalsAreMine'
  BY <1>1, <1>2 DEF RefusalsAreMine
<1> QED
  BY <1>2, <1>3, <1>4, <1>5, <1>6

\* A step that changes no process, and releases no port of theirs.
LEMMA NoneChanges ==
    ASSUME RuntimeInv, sup' = sup, admin' = admin, refused \subseteq refused',
           \A q \in Procs : gateway = q => gateway' = q
    PROVE  (PortIsUp /\ OnlyAliveRuns /\ HubHasGateway /\ RefusalsAreMine)'
BY DEF RuntimeInv, PortIsUp, OnlyAliveRuns, HubHasGateway, RefusalsAreMine

LEMMA AnsweredType ==
    ASSUME TypeOK, NEW p \in Procs, NEW how \in {"done", "failed"}
    PROVE  Answered(p, how) \in [Commands -> Cmds]
BY DEF TypeOK, Answered, Cmds

LEMMA ToType ==
    ASSUME TypeOK, NEW c \in Commands, NEW pc \in {"idle", "probe", "wait", "reload", "waiting", "done", "failed"},
           NEW p \in Procs \cup {NoOne}, To(c, pc, p)
    PROVE  cmd' \in [Commands -> Cmds]
BY DEF TypeOK, To, Cmds

-----------------------------------------------------------------------------
(* The steps. *)

Others == (PortIsUp /\ OnlyAliveRuns /\ HubHasGateway /\ RefusalsAreMine)'
ProcsKept == sup' \in [Procs -> Sups] /\ Others

LEMMA InvOfParts ==
    ASSUME hubEnabled' \in BOOLEAN, creds' \in 0..MaxCreds, minted' \in 0..MaxCreds, refused' \subseteq 1..minted',
           admin' \in Procs \cup {NoOne}, gateway' \in Procs \cup {NoOne, Other},
           cmd' \in [Commands -> Cmds],
           edited' \in [Commands -> BOOLEAN], coalesced' \in [Commands -> BOOLEAN], turns' \in 0..MaxTurns,
           ProcsKept
    PROVE  RuntimeInv'
<1>1. sup' \in [Procs -> Sups]
  BY DEF ProcsKept
<1>2. TypeOK'
  BY <1>1 DEF TypeOK, Sups, Cmds
<1> QED
  BY <1>2 DEF RuntimeInv, ProcsKept, Others

LEMMA ListenStep ==
    ASSUME RuntimeInv, NEW p \in Procs, GatewayListens(p)
    PROVE  RuntimeInv'
<1> DEFINE r == [sup[p] EXCEPT !.loading = FALSE, !.hub = TRUE, !.fleet = "ready"]
<1>1. sup[p] \in Sups /\ creds \in 0..MaxCreds /\ TypeOK
  BY TypeFacts DEF RuntimeInv
<1>2. r \in Sups /\ r.life = sup[p].life
  BY <1>1 DEF Sups
<1>3. sup' = [sup EXCEPT ![p] = ReloadNode(r)]
  BY TypeFacts DEF GatewayListens, RuntimeInv
<1>4. Alive(sup[p]) /\ (sup[p].life = "up" <=> admin = p) /\ (sup[p].life = "headless" => p = Tui)
  BY DEF RuntimeInv, OnlyAliveRuns, PortIsUp, GatewayListens
<1>5. UNCHANGED <<hubEnabled, creds, minted, refused, admin, edited, coalesced, turns>>
      /\ gateway = NoOne /\ gateway' = p /\ cmd' = Answered(p, "done")
  BY DEF GatewayListens, credentials, history
<1>6. cmd' \in [Commands -> Cmds]
  BY <1>1, <1>5, AnsweredType
<1> HIDE DEF r
<1>7. LET n == ReloadNode(r)
      IN n \in Sups /\ n.life = sup[p].life /\ ~n.mine /\ n.status # "auth-failed"
  BY <1>1, <1>2, ReloadNodeFacts
<1>8. ProcsKept
  <2>1. admin' \in Procs \cup {NoOne} /\ gateway' \in Procs \cup {NoOne, Other}
    BY <1>1, <1>5, TypeFacts
  <2> QED
    BY <1>3, <1>4, <1>5, <1>7, <2>1, Names, OneChanges DEF Alive, ProcsKept, Others
<1> QED
  BY <1>1, <1>5, <1>6, <1>8, TypeFacts, InvOfParts

LEMMA TakenStep ==
    ASSUME RuntimeInv, NEW p \in Procs, GatewayTaken(p)
    PROVE  RuntimeInv'
<1> DEFINE n == [sup[p] EXCEPT !.loading = FALSE, !.fleet = IF @ = "ready" THEN "ready" ELSE "failed"]
<1>1. sup[p] \in Sups /\ TypeOK
  BY TypeFacts DEF RuntimeInv
<1>2. n \in Sups /\ n.life = sup[p].life /\ n.status = sup[p].status /\ n.hub = sup[p].hub
      /\ n.mine = sup[p].mine /\ n.node = sup[p].node /\ ~n.loading
  BY <1>1 DEF Sups
<1>3. sup' = [sup EXCEPT ![p] = n]
  BY TypeFacts DEF GatewayTaken, RuntimeInv
<1>4. UNCHANGED <<hubEnabled, creds, minted, refused, admin, gateway, edited, coalesced, turns>>
      /\ cmd' = Answered(p, "failed")
  BY DEF GatewayTaken, credentials, history
<1>5. cmd' \in [Commands -> Cmds]
  BY <1>1, <1>4, AnsweredType
<1> HIDE DEF n
<1>6. admin' \in Procs \cup {NoOne} /\ gateway' \in Procs \cup {NoOne, Other}
  BY <1>1, <1>4, TypeFacts
<1>7. ProcsKept
  BY <1>2, <1>3, <1>4, <1>6, OneChanges
     DEF ProcsKept, Others, RuntimeInv, PortIsUp, OnlyAliveRuns, HubHasGateway, RefusalsAreMine, Alive
<1> QED
  BY <1>1, <1>4, <1>5, <1>6, <1>7, TypeFacts, InvOfParts

LEMMA BootStep ==
    ASSUME RuntimeInv, NEW p \in Procs, Boot(p)
    PROVE  RuntimeInv'
<1>1. sup[p] \in Sups /\ TypeOK /\ creds \in 0..MaxCreds /\ hubEnabled \in BOOLEAN
      /\ sup \in [Procs -> Sups] /\ admin \in Procs \cup {NoOne}
  BY TypeFacts DEF RuntimeInv
<1>2. UNCHANGED <<hubEnabled, creds, minted, refused, gateway, cmd, edited, coalesced, turns>>
      /\ sup[p].life = "spawned" /\ admin' = IF admin = NoOne THEN p ELSE admin
  BY DEF Boot, Boots, credentials, history
<1>3. admin # p /\ ~sup[p].hub /\ ~sup[p].mine /\ sup[p].status = "disabled"
  BY <1>2 DEF RuntimeInv, PortIsUp, OnlyAliveRuns, Alive
<1>4. gateway' \in Procs \cup {NoOne, Other} /\ admin' \in Procs \cup {NoOne}
  BY <1>1, <1>2, TypeFacts
<1>5. ProcsKept
  <2>1. ASSUME NEW life \in {"up", "headless", "losing"}, life = "up" <=> admin = NoOne, life = "headless" => p = Tui,
               sup' = [sup EXCEPT ![p] = LoadRoles([sup[p] EXCEPT !.life = life])]
        PROVE  ProcsKept
    <3> DEFINE s == [sup[p] EXCEPT !.life = life]
    <3>1. s \in Sups /\ s.life = life /\ s.hub = sup[p].hub /\ s.mine = sup[p].mine /\ s.status = sup[p].status
      BY <1>1 DEF Sups
    <3> DEFINE n == LoadRoles(s)
    <3>2. sup' = [sup EXCEPT ![p] = n]
      BY <2>1
    <3> HIDE DEF s
    <3>3. n \in Sups /\ n.life = life /\ ~n.hub /\ ~n.mine /\ n.status # "auth-failed"
      BY <1>1, <1>3, <3>1, LoadRolesFacts
    <3> HIDE DEF n
    <3>4. n.life = "up" <=> admin' = p
      BY <1>2, <1>3, <2>1, <3>3
    <3>5. \A q \in Procs \ {p} : (admin' = q <=> admin = q) /\ (gateway = q => gateway' = q)
      BY <1>2, Names
    <3>6. Alive(n) /\ (n.life = "headless" => p = Tui)
      BY <2>1, <3>3 DEF Alive
    <3> QED
      BY <1>2, <1>4, <3>2, <3>3, <3>4, <3>5, <3>6, OneChanges DEF ProcsKept, Others
  <2>2. CASE admin = NoOne
    <3>1. sup' = [sup EXCEPT ![p] = LoadRoles([sup[p] EXCEPT !.life = "up"])]
      BY <1>1, <2>2 DEF Boot, Boots
    <3> QED
      BY <2>1, <2>2, <3>1
  <2>3. CASE admin # NoOne /\ p = Tui
    <3>1. sup' = [sup EXCEPT ![p] = LoadRoles([sup[p] EXCEPT !.life = "headless"])]
      BY <1>1, <2>3 DEF Boot, Boots
    <3> QED
      BY <2>1, <2>3, <3>1
  <2>4. CASE admin # NoOne /\ p # Tui
    <3>1. sup' = [sup EXCEPT ![p] = LoadRoles([sup[p] EXCEPT !.life = "losing"])]
      BY <1>1, <2>4 DEF Boot, Boots
    <3> QED
      BY <2>1, <2>4, <3>1
  <2> QED
    BY <2>2, <2>3, <2>4
<1> QED
  BY <1>1, <1>2, <1>4, <1>5, TypeFacts, InvOfParts

\* Steps of one process that change only its status and its refusals.
LEMMA StatusStep ==
    ASSUME RuntimeInv, NEW p \in Procs, NEW s \in Sups, sup' = [sup EXCEPT ![p] = s],
           s.life = sup[p].life, s.loading = sup[p].loading, s.hub = sup[p].hub, s.node = sup[p].node,
           s.status # sup[p].status \/ s.mine => Alive(sup[p]),
           s.mine => sup[p].mine \/ sup[p].node \in refused,
           s.status = "auth-failed" => sup[p].status = "auth-failed" \/ sup[p].mine,
           UNCHANGED <<hubEnabled, credentials, admin, gateway, cmd, history>>
    PROVE  RuntimeInv'
<1>1. UNCHANGED <<hubEnabled, creds, minted, refused, admin, gateway, cmd, edited, coalesced, turns>>
  BY DEF credentials, history
<1>2. TypeOK /\ admin' \in Procs \cup {NoOne} /\ gateway' \in Procs \cup {NoOne, Other}
  BY <1>1, TypeFacts DEF RuntimeInv
<1>3. s.mine \/ s.status = "auth-failed" => s.node \in refused
  BY DEF RuntimeInv, RefusalsAreMine
<1>4. ProcsKept
  BY <1>1, <1>2, <1>3, OneChanges
     DEF ProcsKept, Others, RuntimeInv, PortIsUp, OnlyAliveRuns, HubHasGateway, Alive
<1> QED
  BY <1>1, <1>2, <1>4, TypeFacts, InvOfParts

LEMMA LinkStep ==
    ASSUME RuntimeInv, NEW p \in Procs, Running(p) \/ LinkError(p) \/ Refused(p) \/ Fatal(p)
    PROVE  RuntimeInv'
<1>1. sup \in [Procs -> Sups] /\ sup[p] \in Sups
  BY TypeFacts DEF RuntimeInv
<1>2. sup[p].status # "disabled" \/ sup[p].mine => Alive(sup[p])
  BY DEF RuntimeInv, OnlyAliveRuns
<1>3. CASE Running(p)
  <2> DEFINE s == [sup[p] EXCEPT !.status = "running"]
  <2>1. s \in Sups /\ s.life = sup[p].life /\ s.loading = sup[p].loading /\ s.hub = sup[p].hub
        /\ s.node = sup[p].node /\ s.mine = sup[p].mine /\ s.status = "running"
    BY <1>1 DEF Sups
  <2>2. sup' = [sup EXCEPT ![p] = s] /\ UNCHANGED <<hubEnabled, credentials, admin, gateway, cmd, history>>
        /\ sup[p].status = "connecting"
    BY <1>1, <1>3 DEF Running
  <2> HIDE DEF s
  <2> QED
    BY <1>2, <2>1, <2>2, StatusStep
<1>4. CASE LinkError(p)
  <2> DEFINE s == [sup[p] EXCEPT !.status = "connecting"]
  <2>1. s \in Sups /\ s.life = sup[p].life /\ s.loading = sup[p].loading /\ s.hub = sup[p].hub
        /\ s.node = sup[p].node /\ s.mine = sup[p].mine /\ s.status = "connecting"
    BY <1>1 DEF Sups
  <2>2. sup' = [sup EXCEPT ![p] = s] /\ UNCHANGED <<hubEnabled, credentials, admin, gateway, cmd, history>>
        /\ sup[p].status = "running"
    BY <1>1, <1>4 DEF LinkError
  <2> HIDE DEF s
  <2> QED
    BY <1>2, <2>1, <2>2, StatusStep
<1>5. CASE Refused(p)
  <2> DEFINE s == [sup[p] EXCEPT !.mine = TRUE, !.status = "connecting"]
  <2>1. s \in Sups /\ s.life = sup[p].life /\ s.loading = sup[p].loading /\ s.hub = sup[p].hub
        /\ s.node = sup[p].node /\ s.status = "connecting"
    BY <1>1 DEF Sups
  <2>2. sup' = [sup EXCEPT ![p] = s] /\ UNCHANGED <<hubEnabled, credentials, admin, gateway, cmd, history>>
        /\ sup[p].status # "disabled" /\ sup[p].node \in refused
    BY <1>1, <1>5 DEF Refused, Linked
  <2> HIDE DEF s
  <2> QED
    BY <1>2, <2>1, <2>2, StatusStep
<1>6. CASE Fatal(p)
  <2> DEFINE s == [sup[p] EXCEPT !.mine = FALSE, !.status = "auth-failed"]
             o == [sup[p] EXCEPT !.old = FALSE]
  <2>1. s \in Sups /\ s.life = sup[p].life /\ s.loading = sup[p].loading /\ s.hub = sup[p].hub
        /\ s.node = sup[p].node /\ ~s.mine /\ s.status = "auth-failed"
    BY <1>1 DEF Sups
  <2>2. o \in Sups /\ o.life = sup[p].life /\ o.loading = sup[p].loading /\ o.hub = sup[p].hub
        /\ o.node = sup[p].node /\ o.mine = sup[p].mine /\ o.status = sup[p].status
    BY <1>1 DEF Sups
  <2>3. UNCHANGED <<hubEnabled, credentials, admin, gateway, cmd, history>>
        /\ \/ sup[p].mine /\ sup' = [sup EXCEPT ![p] = s]
           \/ sup' = [sup EXCEPT ![p] = o]
    BY <1>1, <1>6 DEF Fatal
  <2> HIDE DEF s, o
  <2>4. CASE sup[p].mine /\ sup' = [sup EXCEPT ![p] = s]
    BY <1>2, <2>1, <2>3, <2>4, StatusStep
  <2>5. CASE sup' = [sup EXCEPT ![p] = o]
    BY <1>2, <2>2, <2>3, <2>5, StatusStep
  <2> QED
    BY <2>3, <2>4, <2>5
<1> QED
  BY <1>3, <1>4, <1>5, <1>6

LEMMA SpawnStep ==
    ASSUME RuntimeInv, NEW p \in Procs, sup[p] = Off, sup' = [sup EXCEPT ![p].life = "spawned"],
           UNCHANGED <<hubEnabled, credentials, admin, gateway, history>>, cmd' \in [Commands -> Cmds]
    PROVE  RuntimeInv'
<1> DEFINE s == [Off EXCEPT !.life = "spawned"]
<1>1. s \in Sups /\ s.life = "spawned" /\ s.status = "disabled" /\ ~s.loading /\ ~s.hub /\ ~s.mine
  BY OffFacts DEF Sups
<1>2. sup' = [sup EXCEPT ![p] = s]
  BY TypeFacts DEF RuntimeInv
<1>3. UNCHANGED <<hubEnabled, creds, minted, refused, admin, gateway, edited, coalesced, turns>>
  BY DEF credentials, history
<1>4. TypeOK /\ admin' \in Procs \cup {NoOne} /\ gateway' \in Procs \cup {NoOne, Other}
  BY <1>3, TypeFacts DEF RuntimeInv
<1>5. admin' # p
  BY <1>3, OffFacts DEF RuntimeInv, PortIsUp
<1> HIDE DEF s
<1>6. ProcsKept
  BY <1>1, <1>2, <1>3, <1>4, <1>5, OneChanges DEF ProcsKept, Others, Alive
<1> QED
  BY <1>3, <1>4, <1>6, TypeFacts, InvOfParts

LEMMA DiesStep ==
    ASSUME RuntimeInv, NEW p \in Procs, Dies(p)
    PROVE  RuntimeInv'
<1>1. /\ UNCHANGED <<hubEnabled, creds, minted, refused, edited, coalesced, turns>>
      /\ sup' = [sup EXCEPT ![p] = Off]
      /\ admin' = IF admin = p THEN NoOne ELSE admin
      /\ gateway' = IF gateway = p THEN NoOne ELSE gateway
  BY DEF Dies, credentials, history
<1>2. TypeOK /\ admin' \in Procs \cup {NoOne} /\ gateway' \in Procs \cup {NoOne, Other}
  BY <1>1, TypeFacts DEF RuntimeInv
<1>3. cmd' \in [Commands -> Cmds]
  <2>1. cmd \in [Commands -> Cmds]
    BY <1>2, TypeFacts
  <2>2. ASSUME NEW c \in Commands
        PROVE  [pc |-> IF cmd[c].pc = "waiting" THEN "failed" ELSE cmd[c].pc, of |-> NoOne] \in Cmds
    BY <2>1 DEF Cmds
  <2> QED
    BY <2>1, <2>2 DEF Dies
<1>4. admin' # p /\ \A q \in Procs \ {p} : (admin' = q <=> admin = q) /\ (gateway = q => gateway' = q)
  BY <1>1, Names
<1>5. ProcsKept
  BY <1>1, <1>2, <1>4, OffFacts, OneChanges DEF ProcsKept, Others, Alive
<1> QED
  BY <1>1, <1>2, <1>3, <1>5, TypeFacts, InvOfParts

\* Commands, and whatever else touches no process.
LEMMA QuietStep ==
    ASSUME RuntimeInv, UNCHANGED <<admin, sup>>, gateway' \in Procs \cup {NoOne, Other},
           \A q \in Procs : gateway = q => gateway' = q,
           hubEnabled' \in BOOLEAN, creds' \in 0..MaxCreds, minted' \in 0..MaxCreds,
           refused \subseteq refused', refused' \subseteq 1..minted', cmd' \in [Commands -> Cmds],
           edited' \in [Commands -> BOOLEAN], coalesced' \in [Commands -> BOOLEAN], turns' \in 0..MaxTurns
    PROVE  RuntimeInv'
<1>1. TypeOK /\ sup' \in [Procs -> Sups] /\ admin' \in Procs \cup {NoOne}
  BY TypeFacts DEF RuntimeInv
<1>2. ProcsKept
  BY <1>1, NoneChanges DEF ProcsKept, Others
<1> QED
  BY <1>1, <1>2, InvOfParts

LEMMA AdminRuns == RuntimeInv /\ admin # NoOne => admin \in Procs /\ Alive(sup[admin]) /\ sup[admin] \in Sups
BY TypeFacts DEF RuntimeInv, PortIsUp, Alive

\* A reload loads the roles, or takes the load in flight for its own.
LEMMA ReloadStep ==
    ASSUME RuntimeInv, NEW c \in Commands, Reload(c)
    PROVE  RuntimeInv'
<1>1. TypeOK /\ sup \in [Procs -> Sups] /\ creds \in 0..MaxCreds /\ hubEnabled \in BOOLEAN
      /\ coalesced \in [Commands -> BOOLEAN]
  BY TypeFacts DEF RuntimeInv
<1>2. UNCHANGED <<hubEnabled, creds, minted, refused, admin, edited, turns>>
  BY DEF Reload, credentials
<1>3. CASE To(c, "failed", admin) /\ UNCHANGED <<sup, gateway, coalesced>>
  <2>1. cmd' \in [Commands -> Cmds]
    BY <1>1, <1>3, ToType, TypeFacts
  <2> QED
    BY <1>1, <1>2, <1>3, <2>1, TypeFacts, QuietStep
<1>4. CASE ~(admin = NoOne \/ sup[admin].fleet # "ready")
  <2> DEFINE s == IF sup[admin].loading THEN sup[admin] ELSE LoadRoles(sup[admin])
  <2>1. /\ sup' = [sup EXCEPT ![admin] = s] /\ gateway' = Released(admin, s)
        /\ coalesced' = [coalesced EXCEPT ![c] = sup[admin].loading]
        /\ To(c, IF s.loading THEN "waiting" ELSE "done", admin)
    BY <1>4 DEF Reload
  <2>2. admin \in Procs /\ Alive(sup[admin]) /\ sup[admin] \in Sups /\ sup[admin].life = "up"
    BY <1>4, AdminRuns DEF RuntimeInv, PortIsUp
  <2>3. /\ s \in Sups /\ s.life = sup[admin].life /\ (s.hub => sup[admin].hub)
        /\ \/ s.mine = sup[admin].mine /\ s.status = sup[admin].status /\ s.node = sup[admin].node
           \/ ~s.mine /\ s.status # "auth-failed"
    BY <1>1, <2>2, LoadRolesFacts
  <2> HIDE DEF s
  <2>4. coalesced' \in [Commands -> BOOLEAN]
    <3>1. sup[admin].loading \in BOOLEAN
      BY <2>2 DEF Sups
    <3> QED
      BY <1>1, <2>1, <3>1
  <2>5. cmd' \in [Commands -> Cmds]
    BY <1>1, <2>1, <2>2, ToType
  <2>6. /\ gateway' \in Procs \cup {NoOne, Other} /\ (s.hub => gateway' = admin)
        /\ \A q \in Procs \ {admin} : gateway = q => gateway' = q
    <3>1. gateway \in Procs \cup {NoOne, Other}
      BY <1>1, TypeFacts
    <3>2. s.hub => gateway = admin
      BY <2>2, <2>3 DEF RuntimeInv, HubHasGateway
    <3> QED
      BY <2>1, <3>1, <3>2 DEF Released
  <2>7. s.mine \/ s.status = "auth-failed" => s.node \in refused'
    BY <1>2, <2>2, <2>3 DEF RuntimeInv, RefusalsAreMine
  <2>8. Alive(s) /\ s.life = "up" /\ admin' = admin /\ admin' \in Procs \cup {NoOne}
    BY <1>2, <2>2, <2>3 DEF Alive
  <2>9. ProcsKept
    BY <1>2, <2>1, <2>2, <2>3, <2>6, <2>7, <2>8, OneChanges DEF ProcsKept, Others
  <2> QED
    BY <1>1, <1>2, <2>4, <2>5, <2>6, <2>8, <2>9, TypeFacts, InvOfParts
<1> QED
  BY <1>3, <1>4 DEF Reload

LEMMA NodeReloadStep ==
    ASSUME RuntimeInv, NodeReload
    PROVE  RuntimeInv'
<1>1. TypeOK /\ creds \in 0..MaxCreds /\ admin \in Procs \cup {NoOne}
      /\ gateway \in Procs \cup {NoOne, Other} /\ sup \in [Procs -> Sups]
  BY TypeFacts DEF RuntimeInv
<1>2. UNCHANGED <<hubEnabled, creds, minted, refused, admin, gateway, edited, coalesced, turns>>
  BY DEF NodeReload, credentials, history
<1>3. cmd' \in [Commands -> Cmds]
  BY <1>1, ToType DEF NodeReload, Commands
<1>4. CASE UNCHANGED sup
  BY <1>1, <1>2, <1>3, <1>4, TypeFacts, QuietStep
<1>5. CASE admin # NoOne /\ sup' = [sup EXCEPT ![admin] = ReloadNode(@)]
  <2> DEFINE n == ReloadNode(sup[admin])
  <2>1. admin \in Procs /\ Alive(sup[admin]) /\ sup[admin] \in Sups /\ sup[admin].life = "up"
    BY <1>5, AdminRuns DEF RuntimeInv, PortIsUp
  <2>2. /\ n \in Sups /\ n.life = sup[admin].life /\ n.loading = sup[admin].loading
        /\ n.hub = sup[admin].hub /\ ~n.mine /\ n.status # "auth-failed"
    BY <1>1, <2>1, ReloadNodeFacts
  <2>3. sup' = [sup EXCEPT ![admin] = n]
    BY <1>1, <1>5, <2>1
  <2> HIDE DEF n
  <2>4. Alive(n) /\ (n.hub => gateway = admin)
    BY <2>1, <2>2 DEF Alive, RuntimeInv, HubHasGateway
  <2>5. ProcsKept
    BY <1>1, <1>2, <2>1, <2>2, <2>3, <2>4, OneChanges DEF ProcsKept, Others
  <2> QED
    BY <1>1, <1>2, <1>3, <2>5, TypeFacts, InvOfParts
<1> QED
  BY <1>4, <1>5 DEF NodeReload

LEMMA CommandStep ==
    ASSUME RuntimeInv, NEW c \in Commands, Ask(c) \/ Again(c) \/ Wait(c) \/ Probe(c)
    PROVE  RuntimeInv'
<1>1. TypeOK
  BY DEF RuntimeInv
<1>2. CASE Ask(c)
  <2>1. cmd' \in [Commands -> Cmds]
    BY <1>1, <1>2, ToType DEF Ask
  <2>2. turns' \in 0..MaxTurns
    BY <1>1, <1>2, TypeFacts, RuntimeAssumption DEF Ask
  <2>3. hubEnabled' \in BOOLEAN /\ edited' \in [Commands -> BOOLEAN]
    BY <1>2 DEF Ask, Wants
  <2>4. UNCHANGED <<creds, minted, refused, admin, gateway, sup, coalesced>>
    BY <1>2 DEF Ask, credentials
  <2> QED
    BY <1>1, <2>1, <2>2, <2>3, <2>4, TypeFacts, QuietStep
<1>3. CASE Again(c)
  <2>1. cmd' \in [Commands -> Cmds] /\ coalesced' \in [Commands -> BOOLEAN]
    BY <1>1, <1>3, TypeFacts DEF Again, Idle, Cmds
  <2>2. UNCHANGED <<hubEnabled, creds, minted, refused, admin, gateway, sup, edited, turns>>
    BY <1>3 DEF Again, credentials
  <2> QED
    BY <1>1, <2>1, <2>2, TypeFacts, QuietStep
<1>4. CASE Wait(c)
  <2>1. cmd' \in [Commands -> Cmds]
    BY <1>1, <1>4, ToType DEF Wait
  <2>2. UNCHANGED <<hubEnabled, creds, minted, refused, admin, gateway, sup, edited, coalesced, turns>>
    BY <1>4 DEF Wait, credentials, history
  <2> QED
    BY <1>1, <2>1, <2>2, TypeFacts, QuietStep
<1>5. CASE Probe(c)
  <2>1. cmd' \in [Commands -> Cmds]
    BY <1>1, <1>5, ToType DEF Probe
  <2>2. UNCHANGED <<hubEnabled, credentials, admin, gateway, history>>
    BY <1>5 DEF Probe
  <2>3. CASE UNCHANGED sup
    BY <1>1, <2>1, <2>2, <2>3, TypeFacts, QuietStep DEF credentials, history
  <2>4. CASE \E p \in Daemons : sup[p] = Off /\ sup' = [sup EXCEPT ![p].life = "spawned"]
    BY <2>1, <2>2, <2>4, SpawnStep DEF Procs
  <2> QED
    BY <1>5, <2>3, <2>4 DEF Probe
<1> QED
  BY <1>2, <1>3, <1>4, <1>5

LEMMA OtherSteps ==
    ASSUME RuntimeInv,
           Enrolled \/ Leave \/ TuiStarts \/ OtherProgram \/ (\E k \in 1..minted : Revoke(k)) \/ UNCHANGED vars
    PROVE  RuntimeInv'
<1>1. TypeOK
  BY DEF RuntimeInv
<1>2. CASE Enrolled
  <2>1. cmd' \in [Commands -> Cmds]
    BY <1>1, <1>2, ToType DEF Enrolled, Commands
  <2>2. /\ minted' = minted + 1 /\ minted < MaxCreds /\ creds' = minted'
        /\ UNCHANGED <<hubEnabled, refused, admin, gateway, sup, edited, coalesced, turns>>
    BY <1>2 DEF Enrolled, history
  <2>3. creds' \in 0..MaxCreds /\ minted' \in 0..MaxCreds /\ refused' \subseteq 1..minted'
    BY <1>1, <2>2, TypeFacts, RuntimeAssumption
  <2> QED
    BY <1>1, <2>1, <2>2, <2>3, TypeFacts, QuietStep
<1>3. CASE Leave
  <2>1. creds' = 0 /\ UNCHANGED <<hubEnabled, minted, refused, admin, gateway, sup, cmd, edited, coalesced, turns>>
    BY <1>3 DEF Leave, history
  <2>2. creds' \in 0..MaxCreds
    BY <2>1, RuntimeAssumption
  <2> QED
    BY <1>1, <2>1, <2>2, TypeFacts, QuietStep
<1>4. CASE TuiStarts
  <2>1. cmd' \in [Commands -> Cmds]
    BY <1>1, <1>4, TypeFacts DEF TuiStarts
  <2> QED
    BY <1>4, <2>1, Names, SpawnStep DEF TuiStarts
<1>5. CASE OtherProgram
  <2>1. UNCHANGED <<hubEnabled, creds, minted, refused, admin, sup, cmd, edited, coalesced, turns>>
        /\ gateway' \in {NoOne, Other} /\ gateway \in {NoOne, Other}
    BY <1>5 DEF OtherProgram, credentials, history
  <2> QED
    BY <1>1, <2>1, Names, TypeFacts, QuietStep
<1>6. ASSUME NEW k \in 1..minted, Revoke(k) PROVE RuntimeInv'
  <2>1. refused' = refused \cup {k}
        /\ UNCHANGED <<hubEnabled, creds, minted, admin, gateway, sup, cmd, edited, coalesced, turns>>
    BY <1>6 DEF Revoke, history
  <2> QED
    BY <1>1, <2>1, TypeFacts, QuietStep
<1>7. CASE UNCHANGED vars
  <2>1. UNCHANGED <<hubEnabled, creds, minted, refused, admin, gateway, sup, cmd, edited, coalesced, turns>>
    BY <1>7 DEF vars, credentials, history
  <2> QED
    BY <1>1, <2>1, TypeFacts, QuietStep
<1> QED
  BY <1>2, <1>3, <1>4, <1>5, <1>6, <1>7

LEMMA InvStep == RuntimeInv /\ [Next]_vars => RuntimeInv'
<1> SUFFICES ASSUME RuntimeInv, [Next]_vars PROVE RuntimeInv'
  OBVIOUS
<1>1. ASSUME NEW p \in Procs, \/ Supervisor(p) \/ Running(p) \/ LinkError(p) \/ Refused(p) \/ Dies(p)
      PROVE  RuntimeInv'
  BY <1>1, ListenStep, TakenStep, BootStep, LinkStep, DiesStep DEF Supervisor
<1>2. ASSUME NEW c \in Commands, Command(c) \/ Ask(c) \/ Again(c) PROVE RuntimeInv'
  BY <1>2, CommandStep, ReloadStep DEF Command
<1>3. CASE NodeReload
  BY <1>3, NodeReloadStep
<1>4. CASE \/ Enrolled \/ Leave \/ TuiStarts \/ OtherProgram
           \/ (\E k \in 1..minted : Revoke(k)) \/ UNCHANGED vars
  BY <1>4, OtherSteps
<1> QED
  BY <1>1, <1>2, <1>3, <1>4 DEF Next

-----------------------------------------------------------------------------
(* The results. *)

\* In every reachable state every variable keeps its shape, and only the process on the admin
\* port, or one that lost it, runs anything.
THEOREM RuntimeInvariant == Spec => []RuntimeInv
BY InvInit, InvStep, PTL DEF Spec

\* One agent and one hub per machine, however commands and terminals race.
THEOREM OneAgentOneHub == Spec => []OneOfEach
<1>1. RuntimeInv => OneOfEach
  <2> SUFFICES ASSUME RuntimeInv PROVE OneOfEach
    OBVIOUS
  <2>1. ASSUME NEW p \in Procs, NEW q \in Procs, Linked(p), Stays(p), Linked(q), Stays(q), p # q
        PROVE  sup[Tui].life = "headless"
    <3>1. Alive(sup[p]) /\ Alive(sup[q])
      BY <2>1 DEF RuntimeInv, OnlyAliveRuns, Linked
    <3>2. sup[p].life = "headless" \/ sup[q].life = "headless"
      BY <2>1, <3>1 DEF RuntimeInv, PortIsUp, Alive, Stays
    <3> QED
      BY <3>2 DEF RuntimeInv, PortIsUp
  <2> QED
    BY <2>1 DEF OneOfEach, RuntimeInv, HubHasGateway
<1> QED
  BY <1>1, RuntimeInvariant, PTL

\* "auth-failed" is only ever said of a credential that the hub refuses.
THEOREM RefusalIsTrue == Spec => []RefusalIsOfThisNode
<1>1. RuntimeInv => RefusalIsOfThisNode
  BY DEF RuntimeInv, RefusalsAreMine, RefusalIsOfThisNode
<1> QED
  BY <1>1, RuntimeInvariant, PTL

-----------------------------------------------------------------------------
(* A reported success holds.                                                 *)
(*                                                                           *)
(* ReloadTakes is not inductive.  A command that is done may be undone by    *)
(* the reload of the other one only if that finds another wish in            *)
(* runtime.json, so what a command wrote must be known to be there still     *)
(* (Wished); a command that waits may be answered only by a hub that         *)
(* starts, so it must be one that wants it; and "off" may report success     *)
(* only of a process that is not about to start its hub (Answers).           *)

Askers == {"hub", "off"}

NamesUp == \A c \in Commands : cmd[c].of # NoOne => sup[cmd[c].of].life = "up"
Wished == \A c \in Askers : cmd[c].pc # "idle" /\ ~edited[c] => hubEnabled = Wants(c)

HasIt(s, c) == s.hub = Wants(c) /\ (~Wants(c) => ~s.loading)
Answers ==
    \A c \in Askers : ~edited[c] /\ ~coalesced[c] =>
        /\ cmd[c].pc = "waiting" => Wants(c)
        /\ cmd[c].pc = "done" /\ cmd[c].of # NoOne => HasIt(sup[cmd[c].of], c)

Told == NamesUp /\ Wished /\ Answers

\* A step leaves the roles of a running process alone.
UpKept == \A p \in Procs : sup[p].life = "up" =>
              sup'[p].life = "up" /\ sup'[p].hub = sup[p].hub /\ sup'[p].loading = sup[p].loading

LEMMA ToldInit == Init => Told
BY DEF Init, Told, NamesUp, Wished, Answers, Idle, Askers, Commands

LEMMA LoadRolesExactly ==
    ASSUME NEW s \in Sups, creds \in 0..MaxCreds, hubEnabled \in BOOLEAN
    PROVE  LET n == LoadRoles(s)
           IN  IF hubEnabled /\ ~s.hub THEN n.loading /\ n.hub = s.hub
               ELSE n.loading = s.loading /\ n.hub = (s.hub /\ hubEnabled)
<1>1. CASE hubEnabled /\ ~s.hub
  BY <1>1 DEF LoadRoles, Sups
<1>2. CASE ~(hubEnabled /\ ~s.hub)
  <2> DEFINE r == [s EXCEPT !.hub = s.hub /\ hubEnabled, !.fleet = "ready"]
  <2>1. r \in Sups /\ r.loading = s.loading /\ r.hub = (s.hub /\ hubEnabled)
    BY DEF Sups
  <2>2. LoadRoles(s) = ReloadNode(r)
    BY <1>2, Zenon DEF LoadRoles
  <2> HIDE DEF r
  <2> QED
    BY <1>2, <2>1, <2>2, ReloadNodeFacts
<1> QED
  BY <1>1, <1>2

LEMMA CmdFacts ==
    ASSUME RuntimeInv
    PROVE  /\ cmd \in [Commands -> Cmds] /\ sup \in [Procs -> Sups] /\ NoOne \notin Procs
           /\ \A c \in Commands : cmd[c].of \in Procs \cup {NoOne}
           /\ Askers \subseteq Commands /\ "join" \notin Askers
BY TypeFacts, Names DEF RuntimeInv, Cmds, Askers, Commands

\* Nothing happens to what was asked and answered.
LEMMA SameTold ==
    ASSUME RuntimeInv, Told, UpKept, UNCHANGED <<hubEnabled, cmd, edited, coalesced>>
    PROVE  Told'
BY CmdFacts DEF Told, NamesUp, Wished, Answers, HasIt, UpKept, Wants

\* One command goes on, and is not answered yet.
LEMMA OneTold ==
    ASSUME RuntimeInv, Told, UpKept, NEW c \in Commands, NEW r \in Cmds,
           UNCHANGED <<hubEnabled, edited>>, cmd' = [cmd EXCEPT ![c] = r],
           \A d \in Commands \ {c} : coalesced'[d] = coalesced[d],
           r.of # NoOne => r.of \in Procs /\ sup[r.of].life = "up",
           c \in Askers => /\ r.pc \notin {"waiting", "done"}
                           /\ r.pc # "idle" => cmd[c].pc # "idle"
    PROVE  Told'
<1>1. cmd'[c] = r /\ \A d \in Commands \ {c} : cmd'[d] = cmd[d]
  BY CmdFacts
<1>2. NamesUp'
  BY <1>1, CmdFacts DEF Told, NamesUp, UpKept
<1>3. Wished'
  BY <1>1, CmdFacts DEF Told, Wished, Wants
<1>4. Answers'
  <2> SUFFICES ASSUME NEW d \in Askers, ~edited'[d], ~coalesced'[d]
               PROVE  /\ cmd'[d].pc = "waiting" => Wants(d)
                      /\ cmd'[d].pc = "done" /\ cmd'[d].of # NoOne => HasIt(sup'[cmd'[d].of], d)
    BY Zenon DEF Answers, HasIt, Wants
  <2>1. CASE d = c
    BY <1>1, <2>1
  <2>2. CASE d # c
    BY <1>1, <2>2, CmdFacts DEF Told, NamesUp, Answers, HasIt, UpKept
  <2> QED
    BY <2>1, <2>2
<1> QED
  BY <1>2, <1>3, <1>4 DEF Told

-----------------------------------------------------------------------------
(* The steps, once more.                                                     *)

LEMMA AnsweredTold ==
    ASSUME RuntimeInv, Told, NEW p \in Procs, NEW how \in {"done", "failed"}, cmd' = Answered(p, how),
           UNCHANGED <<hubEnabled, edited, coalesced>>, sup[p].loading,
           sup' \in [Procs -> Sups], \A q \in Procs \ {p} : sup'[q] = sup[q],
           sup'[p].life = sup[p].life, ~sup'[p].loading,
           sup'[p].hub = IF how = "done" THEN TRUE ELSE sup[p].hub
    PROVE  Told'
<1>1. \A c \in Commands : /\ cmd'[c].of = cmd[c].of
                          /\ cmd'[c].pc = IF cmd[c] = [pc |-> "waiting", of |-> p] THEN how ELSE cmd[c].pc
  BY CmdFacts DEF Answered
<1>2. NamesUp'
  BY <1>1, CmdFacts DEF Told, NamesUp
<1>3. Wished'
  BY <1>1, CmdFacts DEF Told, Wished, Wants
<1>4. Answers'
  <2> SUFFICES ASSUME NEW c \in Askers, ~edited[c], ~coalesced[c]
               PROVE  /\ cmd'[c].pc = "waiting" => Wants(c)
                      /\ cmd'[c].pc = "done" /\ cmd'[c].of # NoOne => HasIt(sup'[cmd'[c].of], c)
    BY Zenon DEF Answers, HasIt, Wants
  <2>1. cmd'[c].pc = "waiting" => Wants(c)
    BY <1>1, CmdFacts DEF Told, Answers
  <2>2. ASSUME cmd'[c].pc = "done", cmd'[c].of # NoOne PROVE HasIt(sup'[cmd'[c].of], c)
    <3>1. CASE cmd[c].of # p
      BY <1>1, <2>2, <3>1, CmdFacts DEF Told, Answers, HasIt
    <3>2. CASE cmd[c].of = p /\ cmd[c].pc = "done"
      BY <1>1, <2>2, <3>2, CmdFacts DEF Told, Answers, HasIt
    <3>3. CASE cmd[c] = [pc |-> "waiting", of |-> p]
      <4>1. Wants(c)
        BY <3>3 DEF Told, Answers
      <4>2. how = "done" /\ cmd'[c].of = p
        BY <1>1, <2>2, <3>3, CmdFacts
      <4> QED
        BY <4>1, <4>2, Zenon DEF HasIt, Wants
    <3> QED
      BY <1>1, <2>2, <3>1, <3>2, <3>3, CmdFacts
  <2> QED
    BY <2>1, <2>2
<1> QED
  BY <1>2, <1>3, <1>4 DEF Told

LEMMA LoadTold ==
    ASSUME RuntimeInv, Told, NEW p \in Procs, GatewayListens(p) \/ GatewayTaken(p)
    PROVE  Told'
<1>1. sup \in [Procs -> Sups] /\ sup[p] \in Sups /\ creds \in 0..MaxCreds
  BY TypeFacts DEF RuntimeInv
<1>2. UNCHANGED <<hubEnabled, edited, coalesced>> /\ sup[p].loading
  BY DEF GatewayListens, GatewayTaken, history
<1>3. CASE GatewayListens(p)
  <2> DEFINE r == [sup[p] EXCEPT !.loading = FALSE, !.hub = TRUE, !.fleet = "ready"]
  <2>1. r \in Sups /\ r.life = sup[p].life /\ ~r.loading /\ r.hub
    BY <1>1 DEF Sups
  <2>2. sup' = [sup EXCEPT ![p] = ReloadNode(r)] /\ cmd' = Answered(p, "done")
    BY <1>1, <1>3 DEF GatewayListens
  <2> HIDE DEF r
  <2>3. LET n == ReloadNode(r) IN n \in Sups /\ n.life = sup[p].life /\ n.hub /\ ~n.loading
    BY <1>1, <2>1, ReloadNodeFacts
  <2> QED
    BY <1>1, <1>2, <2>2, <2>3, AnsweredTold
<1>4. CASE GatewayTaken(p)
  <2> DEFINE n == [sup[p] EXCEPT !.loading = FALSE, !.fleet = IF @ = "ready" THEN "ready" ELSE "failed"]
  <2>1. n \in Sups /\ n.life = sup[p].life /\ n.hub = sup[p].hub /\ ~n.loading
    BY <1>1 DEF Sups
  <2>2. sup' = [sup EXCEPT ![p] = n] /\ cmd' = Answered(p, "failed")
    BY <1>1, <1>4 DEF GatewayTaken
  <2> HIDE DEF n
  <2> QED
    BY <1>1, <1>2, <2>1, <2>2, AnsweredTold
<1> QED
  BY <1>3, <1>4

\* What a process does that has not booted, or to its node's link.
LEMMA ProcessTold ==
    ASSUME RuntimeInv, Told, NEW p \in Procs,
           Boot(p) \/ Running(p) \/ LinkError(p) \/ Refused(p) \/ Fatal(p)
    PROVE  Told'
<1>1. sup \in [Procs -> Sups] /\ sup[p] \in Sups
  BY TypeFacts DEF RuntimeInv
<1>2. UNCHANGED <<hubEnabled, cmd, edited, coalesced>>
  BY DEF Boot, Boots, Running, LinkError, Refused, Fatal, history
<1>3. CASE Boot(p)
  <2>1. sup[p].life = "spawned" /\ \A q \in Procs \ {p} : sup'[q] = sup[q]
    BY <1>1, <1>3 DEF Boot, Boots
  <2> QED
    BY <1>2, <2>1, SameTold DEF UpKept
<1>4. CASE Running(p) \/ LinkError(p) \/ Refused(p) \/ Fatal(p)
  <2>1. \A q \in Procs : sup'[q].life = sup[q].life /\ sup'[q].hub = sup[q].hub /\ sup'[q].loading = sup[q].loading
    BY <1>1, <1>4 DEF Running, LinkError, Refused, Fatal, Sups
  <2> QED
    BY <1>2, <2>1, SameTold DEF UpKept
<1> QED
  BY <1>3, <1>4

LEMMA DiesTold ==
    ASSUME RuntimeInv, Told, NEW p \in Procs, Dies(p)
    PROVE  Told'
<1>1. UNCHANGED <<hubEnabled, edited, coalesced>> /\ \A q \in Procs \ {p} : sup'[q] = sup[q]
  BY CmdFacts DEF Dies, history
<1>2. \A c \in Commands :
         IF cmd[c].of # p THEN cmd'[c] = cmd[c]
         ELSE /\ cmd'[c].of = NoOne /\ cmd'[c].pc # "waiting"
              /\ (cmd[c].pc = "idle" => cmd'[c].pc = "idle")
  BY CmdFacts DEF Dies
<1>3. NamesUp'
  BY <1>1, <1>2, CmdFacts DEF Told, NamesUp
<1>4. Wished'
  BY <1>1, <1>2, CmdFacts DEF Told, Wished, Wants
<1>5. Answers'
  <2> SUFFICES ASSUME NEW c \in Askers, ~edited[c], ~coalesced[c]
               PROVE  /\ cmd'[c].pc = "waiting" => Wants(c)
                      /\ cmd'[c].pc = "done" /\ cmd'[c].of # NoOne => HasIt(sup'[cmd'[c].of], c)
    BY <1>1, Zenon DEF Answers, HasIt, Wants
  <2> QED
    BY <1>1, <1>2, CmdFacts DEF Told, Answers, HasIt
<1> QED
  BY <1>3, <1>4, <1>5 DEF Told

LEMMA AskTold ==
    ASSUME RuntimeInv, Told, NEW c \in Commands, Ask(c)
    PROVE  Told'
<1>1. /\ c \in Askers /\ hubEnabled' = Wants(c) /\ UNCHANGED sup
      /\ cmd' = [cmd EXCEPT ![c] = [pc |-> "probe", of |-> NoOne]]
      /\ \A d \in Commands : edited'[d] = (d # c)
  BY DEF Ask, To, Askers
<1>2. cmd'[c].pc = "probe" /\ cmd'[c].of = NoOne /\ \A d \in Commands \ {c} : cmd'[d] = cmd[d]
  BY <1>1, CmdFacts
<1>3. NamesUp'
  BY <1>1, <1>2 DEF Told, NamesUp
<1>4. Wished'
  BY <1>1, <1>2, CmdFacts DEF Wished, Wants
<1>5. Answers'
  BY <1>1, <1>2, CmdFacts DEF Answers
<1> QED
  BY <1>3, <1>4, <1>5 DEF Told

LEMMA CommandTold ==
    ASSUME RuntimeInv, Told, NEW c \in Commands, Again(c) \/ Wait(c) \/ Probe(c)
    PROVE  Told'
<1>1. UNCHANGED <<hubEnabled, edited>>
  BY DEF Again, Wait, Probe, history
<1>2. \A d \in Commands \ {c} : coalesced'[d] = coalesced[d]
  <2>1. coalesced \in [Commands -> BOOLEAN]
    BY TypeFacts DEF RuntimeInv
  <2> QED
    BY <2>1 DEF Again, Wait, Probe, history
<1>3. UpKept
  BY OffFacts, CmdFacts DEF Again, Wait, Probe, UpKept, Procs
<1>4. CASE Again(c)
  BY <1>1, <1>2, <1>3, <1>4, OneTold DEF Again, Idle, Cmds
<1>5. ASSUME NEW pc \in {"reload", "wait", "failed"}, To(c, pc, NoOne), cmd[c].pc # "idle" PROVE Told'
  <2> DEFINE r == [pc |-> pc, of |-> NoOne]
  <2>1. r \in Cmds /\ r.pc = pc /\ r.of = NoOne /\ cmd' = [cmd EXCEPT ![c] = r]
    BY <1>5 DEF Cmds, To
  <2> HIDE DEF r
  <2> QED
    BY <1>1, <1>2, <1>3, <1>5, <2>1, OneTold
<1> QED
  BY <1>4, <1>5 DEF Wait, Probe

\* The reload of one command finds the wish of the other one unchanged, or is excused by it.
LEMMA ReloadTold ==
    ASSUME RuntimeInv, Told, NEW c \in Commands, Reload(c)
    PROVE  Told'
<1>1. c \in Askers /\ cmd[c].pc = "reload" /\ UNCHANGED <<hubEnabled, admin, edited>>
  BY DEF Reload, Askers, Commands
<1>2. /\ creds \in 0..MaxCreds /\ hubEnabled \in BOOLEAN /\ coalesced \in [Commands -> BOOLEAN]
      /\ admin \in Procs \cup {NoOne} /\ edited \in [Commands -> BOOLEAN]
  BY TypeFacts DEF RuntimeInv
<1>3. CASE To(c, "failed", admin) /\ UNCHANGED <<sup, gateway, coalesced>>
  <2> DEFINE r == [pc |-> "failed", of |-> admin]
  <2>1. r \in Cmds /\ r.pc = "failed" /\ r.of = admin /\ cmd' = [cmd EXCEPT ![c] = r]
    BY <1>2, <1>3 DEF Cmds, To
  <2>2. admin # NoOne => admin \in Procs /\ sup[admin].life = "up"
    BY <1>2 DEF RuntimeInv, PortIsUp
  <2> HIDE DEF r
  <2> QED
    BY <1>1, <1>3, <2>1, <2>2, OneTold DEF UpKept
<1>4. CASE ~(admin = NoOne \/ sup[admin].fleet # "ready")
  <2> DEFINE s == IF sup[admin].loading THEN sup[admin] ELSE LoadRoles(sup[admin])
             r == [pc |-> IF s.loading THEN "waiting" ELSE "done", of |-> admin]
  <2>1. /\ sup' = [sup EXCEPT ![admin] = s] /\ cmd' = [cmd EXCEPT ![c] = r]
        /\ coalesced' = [coalesced EXCEPT ![c] = sup[admin].loading]
    BY <1>4 DEF Reload, To
  <2>2. admin \in Procs /\ sup[admin] \in Sups /\ sup[admin].life = "up"
    BY <1>4, AdminRuns DEF RuntimeInv, PortIsUp
  <2>3. s.life = "up"
    BY <1>2, <2>2, LoadRolesFacts
  <2>4. IF sup[admin].loading THEN s = sup[admin]
        ELSE IF hubEnabled /\ ~sup[admin].hub THEN s.loading /\ s.hub = sup[admin].hub
        ELSE s.loading = sup[admin].loading /\ s.hub = (sup[admin].hub /\ hubEnabled)
    BY <1>2, <2>2, LoadRolesExactly
  <2>5. r.of = admin /\ r.pc = IF s.loading THEN "waiting" ELSE "done"
    OBVIOUS
  <2> HIDE DEF s, r
  <2>6. /\ sup'[admin] = s /\ \A q \in Procs \ {admin} : sup'[q] = sup[q]
        /\ cmd'[c] = r /\ \A d \in Commands \ {c} : cmd'[d] = cmd[d]
        /\ coalesced'[c] = sup[admin].loading /\ \A d \in Commands \ {c} : coalesced'[d] = coalesced[d]
    BY <1>2, <2>1, <2>2, CmdFacts
  <2>7. NamesUp'
    BY <2>2, <2>3, <2>5, <2>6, CmdFacts DEF Told, NamesUp
  <2>8. Wished'
    BY <1>1, <2>6, CmdFacts DEF Told, Wished, Wants
  <2>9. Answers'
    <3> SUFFICES ASSUME NEW d \in Askers, ~edited[d], ~coalesced'[d]
                 PROVE  /\ cmd'[d].pc = "waiting" => Wants(d)
                        /\ cmd'[d].pc = "done" /\ cmd'[d].of # NoOne => HasIt(sup'[cmd'[d].of], d)
      BY <1>1, Zenon DEF Answers, HasIt, Wants
    <3>1. cmd[d].pc # "idle" => hubEnabled = Wants(d)
      BY DEF Told, Wished
    <3>2. CASE d = c
      <4>1. hubEnabled = Wants(c) /\ ~sup[admin].loading
        BY <1>1, <2>6, <3>1, <3>2
      <4>2. sup[admin].hub \in BOOLEAN /\ sup[admin].loading \in BOOLEAN
        BY <2>2 DEF Sups
      <4>3. s.loading => Wants(c)
        BY <2>4, <4>1
      <4>4. ~s.loading => s.hub = Wants(c)
        BY <1>2, <2>4, <4>1, <4>2
      <4> QED
        BY <2>2, <2>5, <2>6, <3>2, <4>3, <4>4 DEF HasIt
    <3>3. CASE d # c /\ cmd[d].of # admin
      BY <2>6, <3>3, CmdFacts DEF Told, Answers
    <3>4. CASE d # c /\ cmd[d].of = admin
      <4>1. cmd'[d] = cmd[d] /\ ~coalesced[d]
        BY <2>6, <3>4, CmdFacts
      <4>2. (cmd[d].pc = "waiting" => Wants(d)) /\ (cmd[d].pc = "done" => HasIt(sup[admin], d))
        BY <2>2, <3>4, <4>1, CmdFacts DEF Told, Answers
      <4>3. sup[admin].hub \in BOOLEAN /\ sup[admin].loading \in BOOLEAN
        BY <2>2 DEF Sups
      <4>4. ASSUME cmd[d].pc = "done" PROVE HasIt(s, d)
        BY <1>2, <2>4, <3>1, <4>2, <4>3, <4>4 DEF HasIt
      <4> QED
        BY <2>6, <3>4, <4>1, <4>2, <4>4
    <3> QED
      BY <3>2, <3>3, <3>4
  <2> QED
    BY <2>7, <2>8, <2>9 DEF Told
<1> QED
  BY <1>3, <1>4 DEF Reload

LEMMA OtherTold ==
    ASSUME RuntimeInv, Told,
           \/ NodeReload \/ Enrolled \/ Leave \/ TuiStarts \/ OtherProgram
           \/ (\E k \in 1..minted : Revoke(k)) \/ UNCHANGED vars
    PROVE  Told'
<1>1. UNCHANGED <<hubEnabled, edited, coalesced>>
  BY DEF NodeReload, Enrolled, Leave, TuiStarts, OtherProgram, Revoke, vars, history
<1>2. creds \in 0..MaxCreds /\ admin \in Procs \cup {NoOne}
  BY TypeFacts DEF RuntimeInv
<1>3. CASE NodeReload
  <2>1. UpKept
    <3>1. \A p \in Procs : LET n == ReloadNode(sup[p])
                           IN  n.life = sup[p].life /\ n.hub = sup[p].hub /\ n.loading = sup[p].loading
      BY <1>2, CmdFacts, ReloadNodeFacts
    <3> QED
      BY <1>2, <1>3, <3>1, CmdFacts DEF NodeReload, UpKept
  <2>2. "join" \in Commands /\ cmd["join"].pc = "reload"
    BY <1>3 DEF NodeReload, Commands
  <2>3. admin # NoOne => admin \in Procs /\ sup[admin].life = "up"
    BY <1>2 DEF RuntimeInv, PortIsUp
  <2>4. ASSUME NEW pc \in {"failed", "done"}, To("join", pc, admin) PROVE Told'
    <3> DEFINE r == [pc |-> pc, of |-> admin]
    <3>1. r \in Cmds /\ r.of = admin /\ cmd' = [cmd EXCEPT !["join"] = r]
      BY <1>2, <2>4 DEF Cmds, To
    <3> HIDE DEF r
    <3> QED
      BY <1>1, <2>1, <2>2, <2>3, <3>1, CmdFacts, OneTold
  <2> QED
    BY <1>3, <2>4 DEF NodeReload
<1>4. CASE Enrolled
  <2> DEFINE r == [pc |-> "probe", of |-> NoOne]
  <2>1. /\ r \in Cmds /\ r.of = NoOne /\ cmd' = [cmd EXCEPT !["join"] = r] /\ "join" \in Commands
        /\ UNCHANGED sup
    BY <1>4 DEF Enrolled, To, Cmds, Commands
  <2> HIDE DEF r
  <2> QED
    BY <1>1, <2>1, CmdFacts, OneTold DEF UpKept
<1>5. CASE \/ Leave \/ TuiStarts \/ OtherProgram
           \/ (\E k \in 1..minted : Revoke(k)) \/ UNCHANGED vars
  <2>1. UNCHANGED cmd
    BY <1>5 DEF Leave, TuiStarts, OtherProgram, Revoke, vars
  <2>2. UpKept
    BY <1>5, CmdFacts, OffFacts, Names DEF Leave, TuiStarts, OtherProgram, Revoke, vars, UpKept
  <2> QED
    BY <1>1, <2>1, <2>2, SameTold
<1> QED
  BY <1>3, <1>4, <1>5

LEMMA ToldStep == RuntimeInv /\ Told /\ [Next]_vars => Told'
<1> SUFFICES ASSUME RuntimeInv, Told, [Next]_vars PROVE Told'
  OBVIOUS
<1>1. ASSUME NEW p \in Procs, \/ Supervisor(p) \/ Running(p) \/ LinkError(p) \/ Refused(p) \/ Dies(p)
      PROVE  Told'
  BY <1>1, LoadTold, ProcessTold, DiesTold DEF Supervisor
<1>2. ASSUME NEW c \in Commands, Command(c) \/ Ask(c) \/ Again(c) PROVE Told'
  BY <1>2, AskTold, CommandTold, ReloadTold DEF Command
<1>3. CASE \/ NodeReload \/ Enrolled \/ Leave \/ TuiStarts \/ OtherProgram
           \/ (\E k \in 1..minted : Revoke(k)) \/ UNCHANGED vars
  BY <1>3, OtherTold
<1> QED
  BY <1>1, <1>2, <1>3 DEF Next

\* A command that reports success has what it asked for, for as long as the process that answered
\* lives and nobody changes runtime.json.
THEOREM ReloadsTake == Spec => []ReloadTakes
<1>1. Told => ReloadTakes
  BY DEF Told, Answers, HasIt, Askers, ReloadTakes
<1>2. Spec => []Told
  BY ToldInit, ToldStep, RuntimeInvariant, PTL DEF Spec
<1> QED
  BY <1>1, <1>2, PTL
=============================================================================
