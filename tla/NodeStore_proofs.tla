-------------------------- MODULE NodeStore_proofs --------------------------
(***************************************************************************)
(* Proofs about NodeStore, for any skills, servers, contents and bounds.   *)
(*                                                                         *)
(* The type invariant is inductive as it stands.  That a user's server is  *)
(* never removed needs to know, in every phase, which servers the agent    *)
(* may touch: that is Claims.  What is destroyed was saved, because        *)
(* nothing takes the newest snapshot's place before the phases that        *)
(* destroy (SavedInv).  What was applied is there, phase by phase (Exact). *)
(***************************************************************************)
EXTENDS NodeStore, TLAPS

Halves == [Items -> Contents \ {Own}]

-----------------------------------------------------------------------------
(* Contents and snapshots. *)

LEMMA ContentsFacts ==
    /\ Versions \cup {None} \subseteq Contents \ {Own}
    /\ Torn \in Contents \ {Own} /\ Own \in Contents /\ None \in Contents
    /\ None # Own /\ None # Torn /\ Own # Torn
BY StoreAssumption, Zenon DEF Contents

LEMMA StatesAreHalves == States \subseteq Halves
BY ContentsFacts DEF States, Halves

LEMMA ItemFacts == Skills \subseteq Items /\ Servers \subseteq Items /\ Rule \in Items
BY DEF Items

LEMMA MergedType ==
    ASSUME fleet \in Halves, local \in [Items -> Contents], NEW i \in Items
    PROVE  Merged(i) \in Contents
BY DEF Merged, Halves

LEMMA ArchiveType ==
    ASSUME NEW b \in Snapshots, backups \in Seq(Snapshots)
    PROVE  Archive(b) \in Seq(Snapshots)
BY DEF Archive

LEMMA PruneType ==
    ASSUME NEW bs \in Seq(Snapshots)
    PROVE  Prune(bs) \in Seq(Snapshots) /\ Len(Prune(bs)) <= Keep
<1>1. Keep \in Nat
  BY StoreAssumption
<1>2. CASE Len(bs) < Keep
  <2>1. Prune(bs) = SubSeq(bs, 1, Len(bs))
    BY <1>2 DEF Prune
  <2> QED
    BY <1>1, <1>2, <2>1
<1>3. CASE ~(Len(bs) < Keep)
  <2>1. Prune(bs) = SubSeq(bs, 1, Keep)
    BY <1>3 DEF Prune
  <2> QED
    BY <1>1, <1>3, <2>1
<1> QED
  BY <1>2, <1>3

\* Whatever part of a change was made, each item has its old content, the new one or half of it.
LEMMA PartlyType ==
    ASSUME NEW D, NEW C, Torn \in C,
           NEW before \in [D -> C], NEW after \in [D -> C], NEW torn,
           NEW f \in Partly(before, after, torn)
    PROVE  f \in [D -> C]
<1> DEFINE Outcome(done, half) == [i \in DOMAIN before |-> IF i \in done THEN after[i]
                                                ELSE IF i \in half THEN Torn ELSE before[i]]
<1>1. PICK done \in SUBSET {i \in DOMAIN before : before[i] # after[i]} :
         f \in {Outcome(done, half) : half \in {{}} \cup {{i} : i \in torn}}
  BY Zenon DEF Partly
<1>2. PICK half : f = Outcome(done, half)
  BY Zenon, <1>1
<1> QED
  BY <1>1, <1>2

-----------------------------------------------------------------------------
(* Types. *)

LEMMA TypeInit == Init => TypeOK
<1> SUFFICES ASSUME Init PROVE TypeOK
  OBVIOUS
<1>1. Empty \in States /\ Empty \in Halves
  BY ContentsFacts, StatesAreHalves DEF Empty, States
<1>2. local \in [Items -> Contents] /\ skills \in [Skills -> Contents]
  BY ContentsFacts DEF Init, Empty, Contents
<1>3. manifest \in [files : SUBSET (Skills \cup {Rule}), servers : SUBSET Servers]
  BY DEF Init, NoManifest
<1>4. backups \in Seq(Snapshots)
  BY DEF Init
<1>5. edits \in 0..MaxEdits /\ troubles \in 0..MaxTroubles
  BY StoreAssumption DEF Init
<1>6. servers \in [Servers -> {None, Own} \cup {Ours(c) : c \in Versions \cup {Own}}]
  BY DEF Init
<1>7. fleet \in Halves /\ want \in Halves
  BY <1>1 DEF Init
<1> QED
  BY <1>2, <1>3, <1>4, <1>5, <1>6, <1>7 DEF Init, TypeOK, Halves

\* The end of the handler leaves nothing behind.
LEMMA EndType ==
    End => /\ pc' = "idle" /\ want' \in Halves /\ refused' \in BOOLEAN
           /\ todo' \in SUBSET Servers /\ managed' \in SUBSET Servers
           /\ warned' \in BOOLEAN /\ saved' \in BOOLEAN /\ touched' \in BOOLEAN
BY ContentsFacts DEF End, Empty, Halves

LEMMA MigratePartlyType ==
    ASSUME TypeOK, MigratePartly
    PROVE  /\ agents' \in BOOLEAN
           /\ skills' \in [Skills -> Contents] /\ local' \in [Items -> Contents]
<1>0. PICK moved \in SUBSET Unclaimed(want) :
         \E half \in {{}} \cup {{s} : s \in Unclaimed(want) \ moved}, copied \in BOOLEAN :
            /\ skills' = [s \in Skills |-> IF s \in moved THEN None ELSE skills[s]]
            /\ local' = [i \in Items |->
                            IF i \in moved \/ (copied /\ i \in half) THEN skills[i]
                            ELSE IF i \in half THEN Torn ELSE local[i]]
            /\ agents' = (agents \/ moved \cup half # {})
  BY Zenon DEF MigratePartly
<1>1. PICK half \in {{}} \cup {{s} : s \in Unclaimed(want) \ moved}, copied \in BOOLEAN :
         /\ skills' = [s \in Skills |-> IF s \in moved THEN None ELSE skills[s]]
         /\ local' = [i \in Items |->
                         IF i \in moved \/ (copied /\ i \in half) THEN skills[i]
                         ELSE IF i \in half THEN Torn ELSE local[i]]
         /\ agents' = (agents \/ moved \cup half # {})
  BY Zenon, <1>0
<1>2. moved \subseteq Skills /\ half \subseteq Skills
  BY <1>0, <1>1 DEF Unclaimed
<1>3. agents' \in BOOLEAN
  BY <1>1
<1> QED
  BY <1>1, <1>2, <1>3, ContentsFacts DEF TypeOK

LEMMA InterruptType == TypeOK /\ Interrupt => TypeOK'
<1> SUFFICES ASSUME TypeOK, Interrupt PROVE TypeOK'
  OBVIOUS
<1>1. /\ pc' = "idle" /\ want' \in Halves /\ refused' \in BOOLEAN
      /\ todo' \in SUBSET Servers /\ managed' \in SUBSET Servers
      /\ warned' \in BOOLEAN /\ saved' \in BOOLEAN /\ touched' \in BOOLEAN
  BY EndType DEF Interrupt
<1>2. /\ taken' \in SUBSET Servers /\ edits' \in 0..MaxEdits /\ troubles' \in 0..MaxTroubles
      /\ forgotten' \in BOOLEAN
  BY StoreAssumption DEF Interrupt, TypeOK
<1> USE <1>1, <1>2
<1>3. CASE pc = "migrate" /\ MigratePartly /\ UNCHANGED <<fleet, md, servers, manifest, backups>>
  BY <1>3, MigratePartlyType DEF TypeOK, Halves
<1>4. CASE pc = "snapshot" /\ UNCHANGED <<store, tool, manifest>>
           /\ \E f \in Partly(Empty, fleet, {}) :
                 backups' = Archive([fleet |-> f, skills |-> NoSkills, md |-> None])
  <2>1. PICK f \in Partly(Empty, fleet, {}) :
               backups' = Archive([fleet |-> f, skills |-> NoSkills, md |-> None])
    BY <1>4
  <2>2. f \in Halves
    <3>1. Empty \in Halves /\ fleet \in Halves
      BY ContentsFacts DEF Empty, TypeOK, Halves
    <3> QED
      BY <3>1, <2>1, ContentsFacts, PartlyType DEF Halves
  <2>3. [fleet |-> f, skills |-> NoSkills, md |-> None] \in Snapshots
    BY <2>2, ContentsFacts DEF Snapshots, NoSkills, Halves
  <2>4. backups' \in Seq(Snapshots)
    BY <2>1, <2>3, ArchiveType DEF TypeOK
  <2> QED
    BY <1>4, <2>4 DEF TypeOK, store, tool, Halves
<1>5. CASE pc = "takeover" /\ UNCHANGED <<agents, local, tool, manifest, backups>>
           /\ fleet' \in Partly(fleet, want, {i \in Items : want[i] \notin {None, fleet[i]}})
  <2>1. fleet \in Halves /\ want \in Halves
    BY DEF TypeOK, Halves
  <2>2. fleet' \in Halves
    BY <1>5, <2>1, ContentsFacts, PartlyType DEF Halves
  <2> QED
    BY <1>5, <2>2 DEF TypeOK, tool, Halves
<1>6. CASE pc = "project" /\ UNCHANGED <<store, md, servers, manifest, backups>>
           /\ skills' \in Partly(skills, [s \in Skills |-> Merged(s)],
                                 {s \in Skills : Merged(s) \notin {None, skills[s]}})
  <2>1. [s \in Skills |-> Merged(s)] \in [Skills -> Contents]
    BY MergedType, ItemFacts DEF TypeOK, Halves
  <2>2. skills' \in [Skills -> Contents]
    BY <1>6, <2>1, ContentsFacts, PartlyType DEF TypeOK
  <2> QED
    BY <1>6, <2>2 DEF TypeOK, store, Halves
<1>7. CASE pc = "rules" /\ UNCHANGED <<store, skills, servers, manifest, backups>>
           /\ md' \in {md} \cup (IF HasRules THEN {Torn} ELSE {})
  BY <1>7 DEF TypeOK, store, Halves
<1>8. CASE pc = "manifest" /\ manifest' \in {manifest, NoManifest}
           /\ UNCHANGED <<store, tool, backups>>
  BY <1>8 DEF TypeOK, store, tool, NoManifest, Halves
<1>9. CASE pc = "servers" /\ UNCHANGED <<store, tool, manifest, backups>>
  BY <1>9 DEF TypeOK, store, tool, Halves
<1> QED
  BY <1>3, <1>4, <1>5, <1>6, <1>7, <1>8, <1>9 DEF Interrupt

LEMMA TypeStep == TypeOK /\ [Next]_vars => TypeOK'
<1> SUFFICES ASSUME TypeOK, [Next]_vars PROVE TypeOK'
  OBVIOUS
<1>0. fleet \in Halves /\ want \in Halves /\ local \in [Items -> Contents]
  BY DEF TypeOK, Halves
<1>1. ASSUME NEW w \in States, NEW bad \in BOOLEAN, Frame(w, bad) PROVE TypeOK'
  <2>1. w \in Halves
    BY StatesAreHalves
  <2>2. pc' \in {"migrate", "project", "snapshot"}
    BY <1>1 DEF Frame, AfterValidation
  <2> QED
    BY <1>1, <2>1, <2>2
       DEF Frame, TypeOK, Halves, store, tool, sync, history, bounded
<1>2. CASE Migrate
  <2>1. local' \in [Items -> Contents] /\ skills' \in [Skills -> Contents]
    BY <1>2, ContentsFacts DEF Migrate, Unclaimed, TypeOK
  <2>2. CASE refused
    <3>1. /\ pc' = "idle" /\ want' \in Halves /\ refused' \in BOOLEAN
          /\ todo' \in SUBSET Servers /\ managed' \in SUBSET Servers
          /\ warned' \in BOOLEAN /\ saved' \in BOOLEAN /\ touched' \in BOOLEAN
      BY <1>2, <2>2, EndType DEF Migrate
    <3> QED
      BY <1>2, <2>1, <3>1 DEF Migrate, TypeOK, Halves, history, bounded
  <2>3. CASE ~refused
    <3>1. pc' \in {"project", "snapshot"} /\ UNCHANGED memory
      BY <1>2, <2>3 DEF Migrate, AfterValidation
    <3> QED
      BY <1>2, <2>1, <3>1 DEF Migrate, TypeOK, memory, frame, sync, history, bounded
  <2> QED
    BY <2>2, <2>3
<1>3. CASE Snapshot
  <2>1. Copied \in Snapshots
    BY DEF Copied, Snapshots, TypeOK
  <2>2. backups' \in Seq(Snapshots) /\ Len(backups') <= Keep
    BY <1>3, <2>1, ArchiveType, PruneType DEF Snapshot, TypeOK
  <2> QED
    BY <1>3, <2>2 DEF Snapshot, TypeOK, store, tool, frame, sync, history, bounded
<1>4. CASE Takeover
  <2>1. PICK stuck \in SUBSET Surplus :
           /\ stuck = {} \/ troubles < MaxTroubles
           /\ troubles' = IF stuck = {} THEN troubles ELSE troubles + 1
           /\ fleet' = [i \in Items |-> IF i \in stuck THEN fleet[i] ELSE want[i]]
           /\ warned' = (stuck # {})
    BY <1>4 DEF Takeover
  <2>2. fleet' \in Halves
    BY <1>0, <2>1 DEF Halves
  <2>3. troubles' \in 0..MaxTroubles /\ warned' \in BOOLEAN
    BY <2>1, StoreAssumption DEF TypeOK
  <2> QED
    BY <1>4, <2>2, <2>3 DEF Takeover, TypeOK, Halves, tool, frame, sync, history
<1>5. CASE ProjectSkills
  <2>1. skills' \in [Skills -> Contents]
    BY <1>0, <1>5, MergedType, ItemFacts DEF ProjectSkills
  <2> QED
    BY <1>5, <2>1 DEF ProjectSkills, TypeOK, store, memory, frame, sync, history, bounded
<1>6. CASE ProjectRules
  <2>1. md' \in {None, Own, Torn} \cup Texts
    BY <1>0, <1>6, ItemFacts DEF ProjectRules, Generated, Texts, Halves, TypeOK
  <2>2. todo' \in SUBSET Servers
    BY <1>6 DEF ProjectRules, WantedServers, TypeOK
  <2>3. warned' \in BOOLEAN
    BY <1>6 DEF ProjectRules
  <2> QED
    BY <1>6, <2>1, <2>2, <2>3 DEF ProjectRules, TypeOK, store, frame, history, bounded
<1>7. CASE WithoutCli
  <2>1. managed' \in SUBSET Servers /\ warned' \in BOOLEAN
    BY <1>7 DEF WithoutCli, StillManaged, TypeOK
  <2> QED
    BY <1>7, <2>1 DEF WithoutCli, TypeOK, store, tool, frame, history, bounded
<1>8. ASSUME NEW m \in Servers, RemoveServer(m) PROVE TypeOK'
  <2>1. servers' \in [Servers -> {None, Own} \cup {Ours(c) : c \in Versions \cup {Own}}]
    BY <1>8 DEF RemoveServer, TypeOK
  <2>2. warned' \in BOOLEAN /\ forgotten' \in BOOLEAN /\ todo' \in SUBSET Servers
    BY <1>8 DEF RemoveServer, TypeOK
  <2>3. troubles' = troubles \/ (troubles' = troubles + 1 /\ troubles < MaxTroubles)
    BY <1>8 DEF RemoveServer
  <2>4. troubles' \in 0..MaxTroubles
    BY <2>3, StoreAssumption DEF TypeOK
  <2> QED
    BY <1>8, <2>1, <2>2, <2>4 DEF RemoveServer, TypeOK, store, frame
<1>9. ASSUME NEW m \in Servers, AddServer(m) PROVE TypeOK'
  <2>1. Ours(Merged(m)) \in {Ours(c) : c \in Versions \cup {Own}}
    <3>1. Merged(m) \in Contents /\ Merged(m) \notin {None, Torn}
      BY <1>0, <1>9, MergedType, ItemFacts DEF AddServer, WantedServers
    <3> QED
      BY <3>1 DEF Contents
  <2>2. servers' \in [Servers -> {None, Own} \cup {Ours(c) : c \in Versions \cup {Own}}]
    BY <1>9, <2>1 DEF AddServer, TypeOK
  <2>3. todo' \in SUBSET Servers /\ managed' \in SUBSET Servers
    BY <1>9 DEF AddServer, TypeOK
  <2>4. warned' \in BOOLEAN /\ forgotten' \in BOOLEAN
    BY <1>9 DEF AddServer, TypeOK
  <2>5. troubles' = troubles \/ (troubles' = troubles + 1 /\ troubles < MaxTroubles)
    BY <1>9 DEF AddServer
  <2>6. troubles' \in 0..MaxTroubles
    BY <2>5, StoreAssumption DEF TypeOK
  <2> QED
    BY <1>9, <2>2, <2>3, <2>4, <2>6 DEF AddServer, TypeOK, store, frame
<1>10. CASE ServersDone
  BY <1>10 DEF ServersDone, TypeOK, store, tool, memory, frame, sync, history, bounded
<1>11. CASE WriteManifest
  <2>1. manifest' \in [files : SUBSET (Skills \cup {Rule}), servers : SUBSET Servers]
    BY <1>11 DEF WriteManifest, TypeOK
  <2> QED
    BY <1>11, <2>1 DEF WriteManifest, TypeOK, store, tool, memory, frame, sync, history, bounded
<1>12. CASE Report
  BY <1>12, EndType DEF Report, TypeOK, Halves, store, tool, history, bounded
<1>13. CASE Restore
  <2>1. PICK k \in DOMAIN backups :
             \/ /\ fleet' = backups[k].fleet /\ want' = backups[k].fleet /\ pc' = "project"
                /\ troubles' = troubles
             \/ /\ troubles < MaxTroubles /\ troubles' = troubles + 1
                /\ \/ fleet' \in Partly(fleet, Empty, {})
                   \/ fleet' \in Partly(Empty, backups[k].fleet, {i \in Items : backups[k].fleet[i] # None})
                /\ want' = want /\ pc' = pc
    BY <1>13 DEF Restore
  <2>2. backups[k] \in Snapshots
    BY <2>1 DEF TypeOK
  <2>3. backups[k].fleet \in Halves /\ Empty \in Halves /\ fleet \in Halves /\ want \in Halves
    BY <2>2, ContentsFacts DEF Snapshots, Halves, TypeOK, Empty
  <2>4. fleet' \in Halves /\ want' \in Halves
    BY <2>1, <2>3, ContentsFacts, PartlyType DEF Halves
  <2>5. troubles' \in 0..MaxTroubles
    BY <2>1, StoreAssumption DEF TypeOK
  <2>6. pc' \in {pc, "project"} /\ (pc' = "takeover" => pc = "takeover")
    BY <2>1
  <2> QED
    BY <1>13, <2>4, <2>5, <2>6 DEF Restore, TypeOK, tool, sync, history, Halves
<1>14. ASSUME NEW i \in Items, EditLocal(i) PROVE TypeOK'
  <2>1. local' \in [Items -> Contents] /\ edits' \in 0..MaxEdits
    BY <1>14, ContentsFacts, StoreAssumption DEF EditLocal, UserActs, TypeOK
  <2> QED
    BY <1>14, <2>1 DEF EditLocal, TypeOK, tool, memory, frame, sync, history
<1>15. CASE EditTool
  <2>1. /\ skills' \in [Skills -> Contents] /\ md' \in {None, Own, Torn} \cup Texts
        /\ edits' \in 0..MaxEdits
    BY <1>15, ContentsFacts, StoreAssumption DEF EditTool, UserActs, TypeOK
  <2> QED
    BY <1>15, <2>1 DEF EditTool, TypeOK, store, memory, frame, sync, history
<1>16. ASSUME NEW m \in Servers, EditServer(m) PROVE TypeOK'
  <2>1. /\ servers' \in [Servers -> {None, Own} \cup {Ours(c) : c \in Versions \cup {Own}}]
        /\ taken' \in SUBSET Servers
    BY <1>16 DEF EditServer, TypeOK
  <2>2. edits' \in 0..MaxEdits /\ touched' \in BOOLEAN
    BY <1>16, StoreAssumption DEF EditServer, UserActs, TypeOK
  <2> QED
    BY <1>16, <2>1, <2>2 DEF EditServer, TypeOK, store, frame, sync
<1>17. CASE UNCHANGED vars
  BY <1>17 DEF TypeOK, vars, store, tool, memory, frame, sync, history, bounded
<1> QED
  BY <1>1, <1>2, <1>3, <1>4, <1>5, <1>6, <1>7, <1>8, <1>9, <1>10, <1>11, <1>12, <1>13,
     <1>14, <1>15, <1>16, <1>17, InterruptType DEF Next, Handle

\* Whatever is cut short, restored or edited, every variable keeps its shape and no more
\* than Keep snapshots remain (pruneBackups, syncMcpServers, writeManifest).
THEOREM StoreTypeCorrect == Spec => []TypeOK
BY TypeInit, TypeStep, PTL DEF Spec

-----------------------------------------------------------------------------
(* The servers of the user. *)

\* What the agent may still touch is wanted or was added by it, and of what it
\* added only what the user put back under the same name is the user's.
Claims ==
    /\ todo \subseteq WantedServers \cup manifest.servers
    /\ pc # "servers" => todo = {}
    /\ \A m \in manifest.servers \cup managed : servers[m] = Own => m \in taken

\* What one step takes from the user.
TakesOnlyTaken == \A m \in Servers : servers[m] = Own /\ servers'[m] # Own => m \in taken

LEMMA ClaimsInit == Init => Claims
BY DEF Init, Claims, NoManifest

\* A step that leaves the servers alone keeps Claims if it adds nothing to what is ours
\* and either the work list is empty or what is wanted stays.
LEMMA ServersAlone ==
    ASSUME TypeOK, Claims, servers' = servers, taken' = taken,
           manifest'.servers \cup managed' \subseteq manifest.servers \cup managed,
           pc' # "servers", todo' = {}
    PROVE  Claims' /\ TakesOnlyTaken
BY DEF Claims, TakesOnlyTaken

LEMMA OursIsNotTheirs ==
    ASSUME TypeOK, NEW m \in WantedServers
    PROVE  Ours(Merged(m)) # Own
<1>1. Merged(m) \in Contents /\ Merged(m) \notin {None, Torn}
  BY MergedType, ItemFacts DEF WantedServers, TypeOK, Halves
<1> QED
  BY <1>1, StoreAssumption DEF Contents, Ours

LEMMA ClaimsStep == TypeOK /\ Claims /\ [Next]_vars => Claims' /\ TakesOnlyTaken
<1> SUFFICES ASSUME TypeOK, Claims, [Next]_vars PROVE Claims' /\ TakesOnlyTaken
  OBVIOUS
<1>1. ASSUME NEW w \in States, NEW bad \in BOOLEAN, Frame(w, bad) PROVE Claims' /\ TakesOnlyTaken
  BY <1>1, ServersAlone DEF Frame, AfterValidation, Claims, tool, sync, history
<1>2. CASE Migrate
  <2>1. pc' # "servers" /\ todo' = {} /\ managed' \subseteq managed
    BY <1>2 DEF Migrate, AfterValidation, End, memory, sync, Claims
  <2> QED
    BY <1>2, <2>1, ServersAlone DEF Migrate, history
<1>3. CASE Snapshot
  BY <1>3, ServersAlone DEF Snapshot, tool, sync, history, Claims
<1>4. CASE Takeover
  BY <1>4, ServersAlone DEF Takeover, tool, sync, history, Claims
<1>5. CASE ProjectSkills
  BY <1>5, ServersAlone DEF ProjectSkills, memory, sync, history, Claims
<1>6. CASE ProjectRules
  BY <1>6 DEF ProjectRules, store, history, Claims, TakesOnlyTaken, WantedServers, Merged
<1>7. CASE WithoutCli
  BY <1>7, ServersAlone DEF WithoutCli, StillManaged, tool, history
<1>8. ASSUME NEW m \in Servers, RemoveServer(m) PROVE Claims' /\ TakesOnlyTaken
  <2>1. m \in manifest.servers
    BY <1>8 DEF RemoveServer, Claims
  <2>2. servers' \in {servers, [servers EXCEPT ![m] = None]}
    BY <1>8 DEF RemoveServer
  <2>3. WantedServers' = WantedServers
    BY <1>8 DEF RemoveServer, store, WantedServers, Merged
  <2>4. \A n \in Servers : servers'[n] = Own => servers[n] = Own
    BY <2>2, ContentsFacts DEF TypeOK
  <2>5. Claims'
    BY <1>8, <2>3, <2>4 DEF RemoveServer, Claims, TypeOK
  <2>6. TakesOnlyTaken
    BY <2>1, <2>2 DEF TakesOnlyTaken, Claims, TypeOK
  <2> QED
    BY <2>5, <2>6
<1>9. ASSUME NEW m \in Servers, AddServer(m) PROVE Claims' /\ TakesOnlyTaken
  <2> DEFINE cleared == IF Replaces(m) THEN None ELSE servers[m]
  <2>1. m \in WantedServers
    BY <1>9 DEF AddServer
  <2>2. WantedServers' = WantedServers
    BY <1>9 DEF AddServer, store, WantedServers, Merged
  <2>3. \/ cleared = None /\ servers' = [servers EXCEPT ![m] = Ours(Merged(m))]
           /\ managed' \in {managed, managed \cup {m}}
        \/ servers' \in {servers, [servers EXCEPT ![m] = cleared]} /\ managed' = managed
    BY <1>9 DEF AddServer
  <2>4. \A n \in Servers : servers'[n] = Own => servers[n] = Own /\ (n = m => managed' = managed)
    BY <2>1, <2>3, OursIsNotTheirs, ContentsFacts DEF TypeOK
  <2>5. Claims'
    BY <1>9, <2>2, <2>3, <2>4 DEF AddServer, Claims, TypeOK
  <2>6. TakesOnlyTaken
    BY <2>3, ContentsFacts DEF TakesOnlyTaken, Claims, Replaces, TypeOK
  <2> QED
    BY <2>5, <2>6
<1>10. CASE ServersDone
  BY <1>10, ServersAlone DEF ServersDone, tool, memory, sync, history
<1>11. CASE WriteManifest
  BY <1>11, ServersAlone DEF WriteManifest, tool, memory, sync, history, Claims
<1>12. CASE Report
  BY <1>12, ServersAlone DEF Report, End, tool, history
<1>13. CASE Restore
  BY <1>13, ServersAlone DEF Restore, tool, sync, history, Claims
<1>14. ASSUME NEW i \in Items, EditLocal(i) PROVE Claims' /\ TakesOnlyTaken
  BY <1>14, ServersAlone DEF EditLocal, tool, memory, sync, history, Claims
<1>15. CASE EditTool
  BY <1>15, ServersAlone DEF EditTool, memory, sync, history, Claims
<1>16. ASSUME NEW m \in Servers, EditServer(m) PROVE Claims' /\ TakesOnlyTaken
  <2>1. WantedServers' = WantedServers
    BY <1>16 DEF EditServer, store, WantedServers, Merged
  <2>2. \A n \in manifest.servers \cup managed : servers'[n] = Own => n \in taken'
    BY <1>16, ContentsFacts DEF EditServer, Claims, TypeOK
  <2>3. Claims'
    BY <1>16, <2>1, <2>2 DEF EditServer, Claims, sync
  <2>4. TakesOnlyTaken
    BY <1>16, ContentsFacts DEF EditServer, TakesOnlyTaken, TypeOK
  <2> QED
    BY <2>3, <2>4
<1>17. CASE Interrupt
  <2>1. pc' = "idle" /\ todo' = {} /\ managed' = {} /\ taken' = taken
    BY <1>17 DEF Interrupt, End
  <2>2. servers' = servers /\ manifest' \in {manifest, NoManifest}
    BY <1>17 DEF Interrupt, tool
  <2> QED
    BY <2>1, <2>2, ServersAlone DEF NoManifest
<1>18. CASE UNCHANGED vars
  BY <1>18 DEF vars, store, tool, memory, sync, history, Claims, TakesOnlyTaken, WantedServers, Merged
<1> QED
  BY <1>1, <1>2, <1>3, <1>4, <1>5, <1>6, <1>7, <1>8, <1>9, <1>10, <1>11, <1>12, <1>13,
     <1>14, <1>15, <1>16, <1>17, <1>18 DEF Next, Handle

\* "An MCP server the user configured by hand is not ours to delete": whatever fails, is cut
\* short or restored, the agent removes a server of the user's only under a name that the
\* user took over from it (syncMcpServers, writeManifest).
THEOREM UserServersAreSafe == Spec => UserServersKept
<1>1. TypeOK /\ Claims /\ [Next]_vars => [TakesOnlyTaken]_vars
  BY ClaimsStep
<1> QED
  BY <1>1, TypeInit, TypeStep, ClaimsInit, ClaimsStep, PTL
     DEF Spec, UserServersKept, TakesOnlyTaken

-----------------------------------------------------------------------------
(* The local half. *)

\* There is nothing to replace where the migration runs: no ~/.agents, so no local half.
LocalInv == /\ pc = "migrate" => ~agents
            /\ ~agents => \A i \in Items : local[i] = None

KeepsLocal == pc # "idle" => \A i \in Items : local[i] # None => local'[i] = local[i]

LEMMA LocalInit == Init => LocalInv
BY DEF Init, LocalInv, Empty

LEMMA LocalStep == TypeOK /\ LocalInv /\ [Next]_vars => LocalInv' /\ KeepsLocal
<1> SUFFICES ASSUME TypeOK, LocalInv, [Next]_vars PROVE LocalInv' /\ KeepsLocal
  OBVIOUS
<1>1. ASSUME UNCHANGED <<agents, local>>, pc' # "migrate" \/ pc' = pc \/ ~agents
      PROVE  LocalInv' /\ KeepsLocal
  BY <1>1 DEF LocalInv, KeepsLocal
<1>2. ASSUME NEW w \in States, NEW bad \in BOOLEAN, Frame(w, bad) PROVE LocalInv' /\ KeepsLocal
  BY <1>1, <1>2 DEF Frame, Migrates, AfterValidation, store
<1>3. CASE Migrate
  <2>1. pc = "migrate" /\ agents' /\ pc' # "migrate"
    BY <1>3 DEF Migrate, AfterValidation, End
  <2> QED
    BY <2>1 DEF LocalInv, KeepsLocal
<1>4. CASE Snapshot \/ Takeover \/ ProjectSkills \/ ProjectRules \/ WithoutCli
           \/ ServersDone \/ WriteManifest \/ Report \/ Restore \/ EditTool
  <2>1. UNCHANGED <<agents, local>>
    BY <1>4 DEF Snapshot, Takeover, ProjectSkills, ProjectRules, WithoutCli,
                ServersDone, WriteManifest, Report, Restore, EditTool, store
  <2>2. pc' # "migrate" \/ pc' = pc
    BY <1>4 DEF Snapshot, Takeover, ProjectSkills, ProjectRules, WithoutCli,
                ServersDone, WriteManifest, Report, End, Restore, EditTool
  <2> QED
    BY <1>1, <2>1, <2>2
<1>5. ASSUME NEW m \in Servers, RemoveServer(m) \/ AddServer(m) \/ EditServer(m)
      PROVE  LocalInv' /\ KeepsLocal
  <2>1. UNCHANGED <<agents, local, pc>>
    BY <1>5 DEF RemoveServer, AddServer, EditServer, store
  <2> QED
    BY <1>1, <2>1
<1>6. ASSUME NEW i \in Items, EditLocal(i) PROVE LocalInv' /\ KeepsLocal
  <2>1. pc = "idle" /\ pc' = pc /\ agents' = TRUE
    BY <1>6 DEF EditLocal
  <2> QED
    BY <2>1 DEF LocalInv, KeepsLocal
<1>7. CASE Interrupt
  <2>1. pc' = "idle"
    BY <1>7 DEF Interrupt, End
  <2>2. CASE UNCHANGED <<agents, local>>
    BY <1>1, <2>1, <2>2
  <2>3. CASE pc = "migrate" /\ MigratePartly
    <3>1. ~agents' => local' = local
      <4>1. PICK moved \in SUBSET Unclaimed(want) :
               \E half \in {{}} \cup {{s} : s \in Unclaimed(want) \ moved}, copied \in BOOLEAN :
                  /\ skills' = [s \in Skills |-> IF s \in moved THEN None ELSE skills[s]]
                  /\ local' = [i \in Items |->
                                  IF i \in moved \/ (copied /\ i \in half) THEN skills[i]
                                  ELSE IF i \in half THEN Torn ELSE local[i]]
                  /\ agents' = (agents \/ moved \cup half # {})
        BY <2>3, Zenon DEF MigratePartly
      <4>2. PICK half \in {{}} \cup {{s} : s \in Unclaimed(want) \ moved}, copied \in BOOLEAN :
               /\ skills' = [s \in Skills |-> IF s \in moved THEN None ELSE skills[s]]
               /\ local' = [i \in Items |->
                               IF i \in moved \/ (copied /\ i \in half) THEN skills[i]
                               ELSE IF i \in half THEN Torn ELSE local[i]]
               /\ agents' = (agents \/ moved \cup half # {})
        BY <4>1, Zenon
      <4> QED
        BY <4>2 DEF TypeOK
    <3> QED
      BY <2>1, <2>3, <3>1 DEF LocalInv, KeepsLocal
  <2> QED
    BY <1>7, <2>2, <2>3 DEF Interrupt, store
<1>8. CASE UNCHANGED vars
  BY <1>1, <1>8 DEF vars, store
<1> QED
  BY <1>2, <1>3, <1>4, <1>5, <1>6, <1>7, <1>8 DEF Next, Handle

\* Nothing in ~/.agents/local is replaced or removed while a frame is handled, whatever the
\* frame says and wherever it is cut short (migrateLegacyLayout).
THEOREM LocalHalfIsTheirs == Spec => LocalIsTheirs
<1>1. TypeOK /\ LocalInv /\ [Next]_vars => [KeepsLocal]_vars
  BY LocalStep
<1> QED
  BY <1>1, TypeInit, TypeStep, LocalInit, LocalStep, PTL DEF Spec, LocalIsTheirs, KeepsLocal

-----------------------------------------------------------------------------
(* What is destroyed.                                                        *)
(*                                                                           *)
(* From the snapshot to the phase that replaces a thing of the user's, the   *)
(* newest snapshot has it: nothing takes its place, and pruning spares it.   *)

SavedInv ==
    saved =>
       /\ pc \in {"takeover", "project", "rules", "servers", "manifest", "report"}
       /\ pc \in {"takeover", "project"} => \A s \in Skills : skills[s] = Own => Saved(s)
       /\ pc \in {"takeover", "project", "rules"} => (md = Own => Saved(Rule))

\* The first of what is kept is what was archived, unless there was nothing to archive.
LEMMA NewestIsKept ==
    ASSUME TypeOK, NEW b \in Snapshots, b # [fleet |-> Empty, skills |-> NoSkills, md |-> None]
    PROVE  LET bs == Prune(Archive(b)) IN bs # <<>> /\ bs[1] = b
<1> DEFINE bs == Archive(b)
<1>1. bs \in Seq(Snapshots) /\ Len(bs) >= 1 /\ bs[1] = b
  BY DEF Archive, TypeOK
<1>2. Keep \in Nat \ {0}
  BY StoreAssumption
<1> HIDE DEF bs
<1>3. PICK n \in 1..Len(bs) : Prune(bs) = SubSeq(bs, 1, n)
  <2>1. CASE Len(bs) < Keep
    BY <1>1, <2>1 DEF Prune
  <2>2. CASE ~(Len(bs) < Keep)
    BY <1>1, <1>2, <2>2 DEF Prune
  <2> QED
    BY <2>1, <2>2
<1>4. Len(SubSeq(bs, 1, n)) = n /\ SubSeq(bs, 1, n)[1] = b
  BY <1>1
<1> QED
  BY <1>3, <1>4 DEF bs

LEMMA SavedInit == Init => SavedInv
BY DEF Init, SavedInv

LEMMA SnapshotSaves ==
    ASSUME TypeOK, Snapshot
    PROVE  SavedInv'
<1>1. backups' = Prune(Archive(Copied)) /\ UNCHANGED <<skills, md>> /\ pc' = "takeover"
  BY DEF Snapshot, tool
<1>2. Copied \in Snapshots /\ Copied.skills = skills /\ Copied.md = md
  BY DEF Copied, Snapshots, TypeOK
<1>3. ASSUME NEW s \in Skills, skills[s] = Own PROVE backups' # <<>> /\ backups'[1] = Copied
  <2>1. skills # NoSkills
    BY <1>3, ContentsFacts DEF NoSkills
  <2>2. Copied # [fleet |-> Empty, skills |-> NoSkills, md |-> None]
    BY <1>2, <2>1
  <2> QED
    BY <1>1, <1>2, <2>2, NewestIsKept
<1>4. ASSUME md = Own PROVE backups' # <<>> /\ backups'[1] = Copied
  <2>1. Copied # [fleet |-> Empty, skills |-> NoSkills, md |-> None]
    BY <1>2, <1>4, ContentsFacts
  <2> QED
    BY <1>1, <1>2, <2>1, NewestIsKept
<1>5. \A s \in Skills : skills[s] = Own =>
         backups' # <<>> /\ (IF s = Rule THEN backups'[1].md ELSE backups'[1].skills[s]) = Own
  BY <1>2, <1>3, StoreAssumption
<1> QED
  BY <1>1, <1>2, <1>4, <1>5 DEF SavedInv, Saved

LEMMA SavedStep == TypeOK /\ SavedInv /\ [Next]_vars => SavedInv' /\ (saved => DestroysOnlySaved)
<1> SUFFICES ASSUME TypeOK, SavedInv, [Next]_vars PROVE SavedInv' /\ (saved => DestroysOnlySaved)
  OBVIOUS
\* A step that begins or ends outside, and one that leaves what the user has alone.
<1>1. ASSUME ~saved, ~saved' PROVE SavedInv' /\ (saved => DestroysOnlySaved)
  BY <1>1 DEF SavedInv
<1>2. ASSUME UNCHANGED <<skills, md, backups, saved>>, pc \notin {"idle", "migrate", "snapshot"},
             \/ pc' = pc
             \/ pc = "takeover" /\ pc' = "project"
             \/ pc' \in {"servers", "manifest", "report"}
      PROVE  SavedInv' /\ (saved => DestroysOnlySaved)
  BY <1>2 DEF SavedInv, Saved, DestroysOnlySaved, Foreign
<1>3. saved => pc \notin {"idle", "migrate", "snapshot"}
  BY DEF SavedInv
<1>4. ASSUME NEW w \in States, NEW bad \in BOOLEAN, Frame(w, bad)
      PROVE  SavedInv' /\ (saved => DestroysOnlySaved)
  BY <1>1, <1>3, <1>4 DEF Frame
<1>5. CASE Migrate
  <2>1. ~saved /\ ~saved'
    BY <1>3, <1>5 DEF Migrate, End, memory
  <2> QED
    BY <1>1, <2>1
<1>6. CASE Snapshot
  BY <1>3, <1>6, SnapshotSaves DEF Snapshot
<1>7. CASE Takeover
  BY <1>2, <1>7 DEF Takeover, tool
<1>8. CASE ProjectSkills
  <2>1. pc = "project" /\ pc' = "rules" /\ UNCHANGED <<md, backups, saved>>
    BY <1>8 DEF ProjectSkills, memory
  <2> QED
    BY <2>1 DEF SavedInv, Saved, DestroysOnlySaved, Foreign
<1>9. CASE ProjectRules
  <2>1. pc = "rules" /\ pc' = "servers" /\ UNCHANGED <<skills, backups, saved>>
    BY <1>9 DEF ProjectRules
  <2> QED
    BY <2>1 DEF SavedInv, Saved, DestroysOnlySaved, Foreign
<1>10. CASE WithoutCli \/ ServersDone
  BY <1>2, <1>10 DEF WithoutCli, ServersDone, tool, memory
<1>11. ASSUME NEW m \in Servers, RemoveServer(m) \/ AddServer(m)
       PROVE  SavedInv' /\ (saved => DestroysOnlySaved)
  <2>1. UNCHANGED <<skills, md, backups, saved, pc>> /\ pc = "servers"
    BY <1>11 DEF RemoveServer, AddServer
  <2> QED
    BY <1>2, <2>1
<1>12. CASE WriteManifest
  BY <1>2, <1>12 DEF WriteManifest, tool, memory
<1>13. CASE Report
  <2>1. UNCHANGED <<skills, md>> /\ ~saved'
    BY <1>13 DEF Report, End, tool
  <2> QED
    BY <2>1 DEF SavedInv, DestroysOnlySaved, Foreign
<1>14. CASE Restore \/ EditTool
  <2>1. pc = "idle" /\ UNCHANGED saved
    BY <1>14 DEF Restore, EditTool, memory
  <2> QED
    BY <1>1, <1>3, <2>1
<1>15. ASSUME NEW i \in Items, EditLocal(i) PROVE SavedInv' /\ (saved => DestroysOnlySaved)
  <2>1. pc = "idle" /\ UNCHANGED saved
    BY <1>15 DEF EditLocal, memory
  <2> QED
    BY <1>1, <1>3, <2>1
<1>16. ASSUME NEW m \in Servers, EditServer(m) PROVE SavedInv' /\ (saved => DestroysOnlySaved)
  <2>1. UNCHANGED <<skills, md, backups, saved, pc>>
    BY <1>16 DEF EditServer
  <2> QED
    BY <1>1, <1>2, <1>3, <2>1
<1>17. CASE Interrupt
  <2>1. ~saved'
    BY <1>17 DEF Interrupt, End
  <2>2. SavedInv'
    BY <2>1 DEF SavedInv
  <2>3. CASE UNCHANGED tool
    BY <2>2, <2>3 DEF DestroysOnlySaved, Foreign, tool
  <2>4. CASE pc = "migrate"
    BY <1>3, <2>2, <2>4
  <2>5. CASE pc = "project" /\ UNCHANGED md
    BY <2>2, <2>5 DEF SavedInv, DestroysOnlySaved, Foreign
  <2>6. CASE pc = "rules" /\ UNCHANGED skills
    BY <2>2, <2>6 DEF SavedInv, DestroysOnlySaved, Foreign
  <2> QED
    BY <1>17, <2>3, <2>4, <2>5, <2>6 DEF Interrupt, tool
<1>18. CASE UNCHANGED vars
  <2>1. UNCHANGED <<skills, md, backups, saved, pc>>
    BY <1>18 DEF vars, tool, memory
  <2> QED
    BY <1>1, <1>2, <1>3, <2>1
<1> QED
  BY <1>4, <1>5, <1>6, <1>7, <1>8, <1>9, <1>10, <1>11, <1>12, <1>13, <1>14, <1>15, <1>16,
     <1>17, <1>18 DEF Next, Handle

\* In a frame that changes the fleet half, what the user had in the tool's directory is
\* destroyed only when the newest snapshot has it, wherever the frame is cut short (snapshot,
\* pruneBackups, project).
THEOREM DestroyedIsSaved == Spec => DestroyedWasSaved
<1>1. TypeOK /\ SavedInv /\ [Next]_vars => [saved => DestroysOnlySaved]_vars
  BY SavedStep
<1> QED
  BY <1>1, TypeInit, TypeStep, SavedInit, SavedStep, PTL DEF Spec, DestroyedWasSaved

-----------------------------------------------------------------------------
(* What is reported as applied.                                              *)
(*                                                                           *)
(* Phase by phase, what has been done so far is there (the first four), and  *)
(* between frames as within them nothing of ours is unlisted: each server    *)
(* and the CLAUDE.md we wrote is in the manifest, or in what will be it      *)
(* (the last two).                                                           *)

FromRules == {"rules", "servers", "manifest", "report"}
FromServers == {"servers", "manifest", "report"}

FleetIsWant == pc \in {"project"} \cup FromRules /\ ~warned => fleet = want
SkillsAreMerged == pc \in FromRules => \A s \in Skills : skills[s] = Merged(s)
RulesAreThere == pc \in FromServers => /\ HasRules => md = Generated(fleet[Rule], local[Rule])
                                       /\ forgotten \/ HasRules \/ md \in {None, Own}
ServersAreThere == pc \in FromServers =>
                      warned \/ touched \/ \A m \in WantedServers \ todo : servers[m] = Ours(Merged(m))

RulesAreListed == \/ forgotten \/ md \in {None, Own} \/ Rule \in manifest.files
                  \/ pc \in {"servers", "manifest"} /\ HasRules
Listed(m) == CASE pc = "servers"  -> m \in managed \/ m \in manifest.servers \cap todo
               [] pc = "manifest" -> m \in managed
               [] OTHER           -> m \in manifest.servers
ServersAreListed == forgotten \/ \A m \in Servers : servers[m] \in {None, Own} \/ Listed(m)

Exact == /\ FleetIsWant /\ SkillsAreMerged /\ RulesAreThere /\ ServersAreThere
         /\ RulesAreListed /\ ServersAreListed

LEMMA ExactInit == Init => Exact
BY DEF Init, Exact, FleetIsWant, SkillsAreMerged, RulesAreThere, ServersAreThere, RulesAreListed,
       ServersAreListed, FromRules, FromServers

\* What is wanted where is read off the store alone.
LEMMA SameStore ==
    ASSUME UNCHANGED <<fleet, local>>
    PROVE  /\ \A i \in Items : Merged(i)' = Merged(i)
           /\ WantedServers' = WantedServers /\ HasRules' = HasRules
BY DEF Merged, WantedServers, HasRules

\* Outside the phases that write, what is listed stays listed.
LEMMA ExactOutside ==
    ASSUME Exact, pc' \notin FromRules,
           pc' = "project" /\ ~warned' => fleet' = want',
           \/ forgotten'
           \/ /\ pc \notin {"servers", "manifest"} /\ (forgotten => forgotten')
              /\ servers' = servers /\ manifest' = manifest
              /\ md' \in {md, None, Own}
    PROVE  Exact'
<1>1. FleetIsWant' /\ SkillsAreMerged' /\ RulesAreThere' /\ ServersAreThere'
  BY DEF FleetIsWant, SkillsAreMerged, RulesAreThere, ServersAreThere, FromRules, FromServers
<1>2. RulesAreListed'
  BY DEF Exact, RulesAreListed, FromRules
<1>3. ServersAreListed'
  BY DEF Exact, ServersAreListed, Listed, FromRules
<1> QED
  BY <1>1, <1>2, <1>3 DEF Exact

\* A step within the phases that write which only goes on to the next one.
LEMMA ExactOn ==
    ASSUME TypeOK, Exact, UNCHANGED <<store, want, skills, md, warned, touched, servers, forgotten>>,
           \/ pc = "servers" /\ pc' = "manifest" /\ todo = {} /\ manifest' = manifest /\ managed' = managed
           \/ pc' = pc /\ UNCHANGED <<todo, managed, manifest>>
    PROVE  Exact'
<1>1. \A i \in Items : Merged(i)' = Merged(i)
  BY SameStore DEF store
<1>2. WantedServers' = WantedServers /\ HasRules' = HasRules
  BY SameStore DEF store
<1>3. FleetIsWant' /\ SkillsAreMerged'
  BY <1>1, ItemFacts DEF Exact, FleetIsWant, SkillsAreMerged, FromRules, store
<1>4. RulesAreThere' /\ RulesAreListed'
  BY <1>2 DEF Exact, RulesAreThere, RulesAreListed, FromServers, store, Generated
<1>5. ServersAreThere'
  <2> SUFFICES ASSUME pc' \in FromServers, ~warned, ~touched, NEW m \in WantedServers \ todo'
               PROVE  servers[m] = Ours(Merged(m))
    BY <1>1, <1>2, ItemFacts DEF ServersAreThere, Ours, WantedServers
  <2> QED
    BY DEF Exact, ServersAreThere, FromServers
<1>6. ServersAreListed'
  BY DEF Exact, ServersAreListed, Listed
<1> QED
  BY <1>3, <1>4, <1>5, <1>6 DEF Exact

LEMMA SkillsExact == TypeOK /\ Exact /\ ProjectSkills => Exact'
<1> SUFFICES ASSUME TypeOK, Exact, ProjectSkills PROVE Exact'
  OBVIOUS
<1>1. /\ pc = "project" /\ pc' = "rules" /\ skills' = [s \in Skills |-> Merged(s)]
      /\ UNCHANGED <<fleet, local, want, warned, md, servers, manifest, forgotten>>
  BY DEF ProjectSkills, store, memory, frame, history
<1>2. FleetIsWant'
  BY <1>1 DEF Exact, FleetIsWant, FromRules
<1>3. SkillsAreMerged'
  BY <1>1, SameStore, ItemFacts DEF SkillsAreMerged
<1>4. RulesAreThere' /\ ServersAreThere'
  BY <1>1 DEF RulesAreThere, ServersAreThere, FromServers
<1>5. RulesAreListed' /\ ServersAreListed'
  BY <1>1 DEF Exact, RulesAreListed, ServersAreListed, Listed
<1> QED
  BY <1>2, <1>3, <1>4, <1>5 DEF Exact

LEMMA RulesExact == TypeOK /\ Exact /\ ProjectRules => Exact'
<1> SUFFICES ASSUME TypeOK, Exact, ProjectRules PROVE Exact'
  OBVIOUS
<1>1. /\ pc = "rules" /\ pc' = "servers" /\ todo' = WantedServers \cup manifest.servers
      /\ md' = IF HasRules THEN Generated(fleet[Rule], local[Rule])
               ELSE IF Rule \in manifest.files THEN None ELSE md
      /\ warned => warned'
      /\ UNCHANGED <<fleet, local, want, skills, servers, manifest, forgotten>>
  BY DEF ProjectRules, store, frame, history
<1>2. /\ \A i \in Items : Merged(i)' = Merged(i)
      /\ WantedServers' = WantedServers /\ HasRules' = HasRules
  BY <1>1, SameStore
<1>3. FleetIsWant' /\ SkillsAreMerged'
  BY <1>1, <1>2, ItemFacts DEF Exact, FleetIsWant, SkillsAreMerged, FromRules
<1>4. RulesAreThere' /\ RulesAreListed'
  BY <1>1, <1>2 DEF Exact, RulesAreThere, RulesAreListed, Generated
<1>5. ServersAreThere'
  BY <1>1, <1>2 DEF ServersAreThere
<1>6. ServersAreListed'
  BY <1>1 DEF Exact, ServersAreListed, Listed
<1> QED
  BY <1>3, <1>4, <1>5, <1>6 DEF Exact

\* While the servers are seen to, only they and the work list change.
LEMMA ServersPhase ==
    ASSUME Exact, pc = "servers", pc' \in {"servers", "manifest"}, warned => warned', forgotten => forgotten',
           UNCHANGED <<store, want, skills, md, manifest>>
    PROVE  /\ FleetIsWant' /\ SkillsAreMerged' /\ RulesAreThere' /\ RulesAreListed'
           /\ WantedServers' = WantedServers /\ \A i \in Items : Merged(i)' = Merged(i)
<1>1. /\ \A i \in Items : Merged(i)' = Merged(i)
      /\ WantedServers' = WantedServers /\ HasRules' = HasRules
  BY SameStore DEF store
<1>2. FleetIsWant' /\ SkillsAreMerged'
  BY <1>1, ItemFacts DEF Exact, FleetIsWant, SkillsAreMerged, FromRules, store
<1>3. RulesAreThere' /\ RulesAreListed'
  BY <1>1 DEF Exact, RulesAreThere, RulesAreListed, FromServers, store, Generated
<1> QED
  BY <1>1, <1>2, <1>3

LEMMA CliExact == TypeOK /\ Claims /\ Exact /\ WithoutCli => Exact'
<1> SUFFICES ASSUME TypeOK, Claims, Exact, WithoutCli PROVE Exact'
  OBVIOUS
<1>1. /\ pc = "servers" /\ pc' = "manifest" /\ todo' = {} /\ managed = {}
      /\ managed' = manifest.servers /\ warned' = (warned \/ WantedServers # {})
      /\ UNCHANGED <<store, want, skills, md, manifest, servers, touched, forgotten>>
  BY DEF WithoutCli, StillManaged, tool, frame, history
<1>2. /\ FleetIsWant' /\ SkillsAreMerged' /\ RulesAreThere' /\ RulesAreListed'
      /\ WantedServers' = WantedServers
  BY <1>1, ServersPhase
<1>3. ServersAreThere'
  BY <1>1, <1>2 DEF ServersAreThere
<1>4. ServersAreListed'
  BY <1>1 DEF Exact, ServersAreListed, Listed
<1> QED
  BY <1>2, <1>3, <1>4 DEF Exact

LEMMA RemoveExact ==
    ASSUME TypeOK, Claims, Exact, NEW m \in Servers, RemoveServer(m)
    PROVE  Exact'
<1>1. /\ pc = "servers" /\ pc' = "servers" /\ todo' = todo \ {m} /\ m \notin WantedServers
      /\ warned => warned'
      /\ UNCHANGED <<store, want, skills, md, manifest, managed, touched>>
  BY DEF RemoveServer, frame
<1>2. /\ \A n \in Servers \ {m} : servers'[n] = servers[n]
      /\ \/ forgotten'
         \/ servers'[m] = None /\ forgotten' = forgotten
  <2>1. servers \in [Servers -> {None, Own} \cup {Ours(c) : c \in Versions \cup {Own}}]
    BY DEF TypeOK
  <2>2. \/ servers' = [servers EXCEPT ![m] = None] /\ forgotten' = forgotten
        \/ servers[m] = None /\ servers' = servers /\ forgotten' = forgotten
        \/ forgotten' /\ servers' \in {servers, [servers EXCEPT ![m] = None]}
    BY Zenon DEF RemoveServer
  <2> QED
    BY <2>1, <2>2
<1>3. /\ FleetIsWant' /\ SkillsAreMerged' /\ RulesAreThere' /\ RulesAreListed'
      /\ WantedServers' = WantedServers /\ \A i \in Items : Merged(i)' = Merged(i)
  BY <1>1, <1>2, ServersPhase
<1>4. ServersAreThere'
  <2> SUFFICES ASSUME ~warned, ~touched, NEW n \in WantedServers \ todo'
               PROVE  servers'[n] = Ours(Merged(n))
    BY <1>1, <1>3, ItemFacts DEF ServersAreThere, Ours, WantedServers
  <2> QED
    BY <1>1, <1>2 DEF Exact, ServersAreThere, FromServers, WantedServers
<1>5. ServersAreListed'
  BY <1>1, <1>2 DEF Exact, ServersAreListed, Listed
<1> QED
  BY <1>3, <1>4, <1>5 DEF Exact

LEMMA AddExact ==
    ASSUME TypeOK, Claims, Exact, NEW m \in Servers, AddServer(m)
    PROVE  Exact'
<1>1. /\ pc = "servers" /\ pc' = "servers" /\ todo' = todo \ {m}
      /\ UNCHANGED <<store, want, skills, md, manifest, touched>>
  BY DEF AddServer, frame
<1>2. /\ \A n \in Servers \ {m} : servers'[n] = servers[n]
      /\ \/ /\ servers'[m] = Ours(Merged(m)) /\ managed' = managed \cup {m}
            /\ UNCHANGED <<warned, forgotten>>
         \/ /\ m \notin manifest.servers /\ servers' = servers /\ warned'
            /\ UNCHANGED <<managed, forgotten>>
         \/ /\ (forgotten \/ servers'[m] \notin {None, Own} => forgotten') /\ warned'
            /\ UNCHANGED managed
  <2> DEFINE cleared == IF Replaces(m) THEN None ELSE servers[m]
  <2>1. \/ /\ servers' = [servers EXCEPT ![m] = Ours(Merged(m))] /\ managed' = managed \cup {m}
           /\ UNCHANGED <<warned, forgotten>>
        \/ /\ cleared # None /\ servers' = servers /\ warned'
           /\ UNCHANGED <<managed, forgotten>>
        \/ /\ \/ servers' \in {servers, [servers EXCEPT ![m] = cleared]}
              \/ servers' = [servers EXCEPT ![m] = Ours(Merged(m))]
           /\ (forgotten \/ servers'[m] \notin {None, Own} => forgotten') /\ warned'
           /\ UNCHANGED managed
    BY DEF AddServer
  <2>2. servers \in [Servers -> {None, Own} \cup {Ours(c) : c \in Versions \cup {Own}}]
    BY DEF TypeOK
  <2>3. cleared # None => m \notin manifest.servers
    BY DEF Replaces
  <2> HIDE DEF cleared
  <2> QED
    BY <2>1, <2>2, <2>3
<1>3. (warned => warned') /\ (forgotten => forgotten')
  BY <1>2
<1>4. /\ FleetIsWant' /\ SkillsAreMerged' /\ RulesAreThere' /\ RulesAreListed'
      /\ WantedServers' = WantedServers /\ \A i \in Items : Merged(i)' = Merged(i)
  BY <1>1, <1>3, ServersPhase
<1>5. ServersAreThere'
  <2> SUFFICES ASSUME ~warned', ~touched, NEW n \in WantedServers \ todo'
               PROVE  servers'[n] = Ours(Merged(n))
    BY <1>1, <1>4, ItemFacts DEF ServersAreThere, Ours, WantedServers
  <2> QED
    BY <1>1, <1>2, <1>3 DEF Exact, ServersAreThere, FromServers, WantedServers
<1>6. ServersAreListed'
  <2> SUFFICES ASSUME ~forgotten', NEW n \in Servers
               PROVE  servers'[n] \in {None, Own} \/ n \in managed' \/ n \in manifest.servers \cap todo'
    BY <1>1 DEF ServersAreListed, Listed
  <2>1. servers[n] \in {None, Own} \/ n \in managed \/ n \in manifest.servers \cap todo
    BY <1>1, <1>3 DEF Exact, ServersAreListed, Listed
  <2> QED
    BY <1>1, <1>2, <2>1
<1> QED
  BY <1>4, <1>5, <1>6 DEF Exact

LEMMA ManifestExact == TypeOK /\ Exact /\ WriteManifest => Exact'
<1> SUFFICES ASSUME TypeOK, Exact, WriteManifest PROVE Exact'
  OBVIOUS
<1>1. /\ pc = "manifest" /\ pc' = "report" /\ manifest'.servers = managed
      /\ HasRules => Rule \in manifest'.files
      /\ UNCHANGED <<fleet, local, want, skills, md, servers, todo, warned, touched, forgotten>>
  BY DEF WriteManifest, store, tool, memory, frame, sync, history
<1>2. /\ \A i \in Items : Merged(i)' = Merged(i)
      /\ WantedServers' = WantedServers /\ HasRules' = HasRules
  BY <1>1, SameStore
<1>3. FleetIsWant' /\ SkillsAreMerged'
  BY <1>1, <1>2, ItemFacts DEF Exact, FleetIsWant, SkillsAreMerged, FromRules
<1>4. RulesAreThere' /\ RulesAreListed'
  BY <1>1, <1>2 DEF Exact, RulesAreThere, RulesAreListed, FromServers, Generated
<1>5. ServersAreThere'
  <2> SUFFICES ASSUME ~warned, ~touched, NEW n \in WantedServers \ todo
               PROVE  servers[n] = Ours(Merged(n))
    BY <1>1, <1>2, ItemFacts DEF ServersAreThere, Ours, WantedServers
  <2> QED
    BY <1>1 DEF Exact, ServersAreThere, FromServers
<1>6. ServersAreListed'
  BY <1>1 DEF Exact, ServersAreListed, Listed
<1> QED
  BY <1>3, <1>4, <1>5, <1>6 DEF Exact

\* What the user does to a server in the meantime is not held against the agent.
LEMMA EditExact ==
    ASSUME TypeOK, Exact, NEW m \in Servers, EditServer(m)
    PROVE  Exact'
<1>1. /\ touched' = (pc # "idle") /\ servers'[m] \in {None, Own}
      /\ \A n \in Servers \ {m} : servers'[n] = servers[n]
      /\ UNCHANGED <<fleet, local, want, skills, md, manifest, todo, managed, warned, forgotten, pc>>
  BY DEF EditServer, store, frame, sync, TypeOK
<1>2. /\ \A i \in Items : Merged(i)' = Merged(i)
      /\ WantedServers' = WantedServers /\ HasRules' = HasRules
  BY <1>1, SameStore
<1>3. FleetIsWant' /\ SkillsAreMerged'
  BY <1>1, <1>2, ItemFacts DEF Exact, FleetIsWant, SkillsAreMerged, FromRules
<1>4. RulesAreThere' /\ RulesAreListed'
  BY <1>1, <1>2 DEF Exact, RulesAreThere, RulesAreListed, FromServers, Generated
<1>5. ServersAreThere'
  BY <1>1 DEF ServersAreThere, FromServers
<1>6. ServersAreListed'
  BY <1>1 DEF Exact, ServersAreListed, Listed
<1> QED
  BY <1>3, <1>4, <1>5, <1>6 DEF Exact

\* The steps that write nothing of ours, or end the handler.
LEMMA OutsideExact ==
    ASSUME TypeOK, Exact,
           \/ \E w \in States, bad \in BOOLEAN : Frame(w, bad)
           \/ \E i \in Items : EditLocal(i)
           \/ Migrate \/ Snapshot \/ Takeover \/ Report \/ Restore \/ EditTool
    PROVE  Exact'
<1>1. pc \notin {"servers", "manifest"} /\ pc' \notin FromRules
  BY DEF Frame, EditLocal, Migrate, Snapshot, Takeover, Report, Restore, EditTool, AfterValidation, End,
         FromRules
<1>2. UNCHANGED <<forgotten, servers, manifest>>
  BY DEF Frame, EditLocal, Migrate, Snapshot, Takeover, Report, Restore, EditTool, history, tool
<1>3. md' \in {md, None, Own}
  BY DEF Frame, EditLocal, Migrate, Snapshot, Takeover, Report, Restore, EditTool, tool
<1>4. ASSUME pc' = "project", ~warned' PROVE fleet' = want'
  <2>1. ASSUME NEW w \in States, NEW bad \in BOOLEAN, Frame(w, bad) PROVE fleet' = want'
    BY <1>4, <2>1 DEF Frame, AfterValidation, store
  <2>2. CASE Migrate
    BY <1>4, <2>2 DEF Migrate, AfterValidation, End, memory, frame
  <2>3. CASE Takeover
    <3>1. fleet' = [i \in Items |-> want[i]] /\ want' = want
      BY <1>4, <2>3 DEF Takeover, frame
    <3> QED
      BY <3>1 DEF TypeOK
  <2>4. CASE Restore
    BY <1>4, <2>4 DEF Restore
  <2>5. ASSUME NEW i \in Items, EditLocal(i) PROVE fleet' = want'
    BY <1>4, <2>5 DEF EditLocal
  <2> QED
    BY <1>4, <2>1, <2>2, <2>3, <2>4, <2>5 DEF Snapshot, Report, End, EditTool
<1> QED
  BY <1>1, <1>2, <1>3, <1>4, ExactOutside

LEMMA InterruptExact == Exact /\ Interrupt => Exact'
<1> SUFFICES ASSUME Exact, Interrupt PROVE Exact'
  OBVIOUS
<1>1. pc' = "idle" /\ forgotten' = (forgotten \/ pc \in {"rules", "servers", "manifest"})
  BY DEF Interrupt, End
<1>2. CASE pc \in {"rules", "servers", "manifest"}
  BY <1>1, <1>2, ExactOutside DEF FromRules
<1>3. CASE pc \notin {"rules", "servers", "manifest"}
  <2>1. UNCHANGED <<md, servers, manifest>>
    BY <1>3 DEF Interrupt, tool
  <2>2. forgotten => forgotten'
    BY <1>1
  <2> QED
    BY <1>1, <1>3, <2>1, <2>2, ExactOutside DEF FromRules
<1> QED
  BY <1>2, <1>3

LEMMA ExactStep == TypeOK /\ Claims /\ Exact /\ [Next]_vars => Exact'
<1> SUFFICES ASSUME TypeOK, Claims, Exact, [Next]_vars PROVE Exact'
  OBVIOUS
<1>1. CASE ServersDone
  BY <1>1, ExactOn DEF ServersDone, tool, memory, frame, sync, history
<1>2. CASE UNCHANGED vars
  BY <1>2, ExactOn DEF vars, tool, memory, frame, sync, history
<1>3. ASSUME NEW m \in Servers, RemoveServer(m) \/ AddServer(m) \/ EditServer(m) PROVE Exact'
  BY <1>3, RemoveExact, AddExact, EditExact
<1>4. CASE ProjectSkills \/ ProjectRules \/ WithoutCli \/ WriteManifest \/ Interrupt
  BY <1>4, SkillsExact, RulesExact, CliExact, ManifestExact, InterruptExact
<1>5. CASE \/ \E w \in States, bad \in BOOLEAN : Frame(w, bad)
           \/ \E i \in Items : EditLocal(i)
           \/ Migrate \/ Snapshot \/ Takeover \/ Report \/ Restore \/ EditTool
  BY <1>5, OutsideExact
<1> QED
  BY <1>1, <1>2, <1>3, <1>4, <1>5 DEF Next, Handle

\* What is reported as applied is there, and what is not wanted is gone or still listed for
\* removal, whatever earlier frames were cut short or refused (applyFleet, project).
THEOREM AppliedMeansThere == Spec => []AppliedIsExact
<1>1. TypeOK /\ Claims /\ Exact => AppliedIsExact
  <2> SUFFICES ASSUME TypeOK, Claims, Exact, Applied PROVE AppliedIsExact
    BY DEF AppliedIsExact
  <2>1. pc = "report" /\ ~warned /\ ~touched /\ todo = {}
    BY DEF Applied, Claims
  <2>2. fleet = want /\ \A s \in Skills : skills[s] = Merged(s)
    BY <2>1 DEF Exact, FleetIsWant, SkillsAreMerged, FromRules
  <2>3. \A m \in WantedServers : servers[m] = Ours(Merged(m))
    BY <2>1 DEF Exact, ServersAreThere, FromServers
  <2>4. /\ HasRules => md = Generated(fleet[Rule], local[Rule])
        /\ forgotten \/ HasRules \/ md \in {None, Own}
    BY <2>1 DEF Exact, RulesAreThere, FromServers
  <2>5. forgotten \/ \A m \in Servers : servers[m] \in {None, Own} \/ m \in manifest.servers
    BY <2>1 DEF Exact, ServersAreListed, Listed
  <2> QED
    BY <2>2, <2>3, <2>4, <2>5 DEF AppliedIsExact
<1>2. Spec => [](TypeOK /\ Claims)
  BY TypeInit, TypeStep, ClaimsInit, ClaimsStep, PTL DEF Spec
<1> QED
  BY <1>1, <1>2, ExactInit, ExactStep, PTL DEF Spec

=============================================================================
