------------------------------ MODULE NodeStore ------------------------------
(***************************************************************************)
(* What one frame from the hub does to a node's disk.                      *)
(*                                                                         *)
(* The agent takes over ~/.agents/fleet, merges it with ~/.agents/local    *)
(* and projects both into Claude Code: skills as files, rules as the file  *)
(* CLAUDE.md, MCP servers through the `claude` command.  All of it happens *)
(* in the handler of the frame, phase by phase; the process may die, or a  *)
(* call fail, within any phase.  A skill stands for one of its files: the  *)
(* code deletes, writes and compares files one by one.                     *)
(*                                                                         *)
(* agents     ~/.agents exists                                             *)
(* fleet, local   its two halves                                           *)
(* skills, md, servers   ~/.claude/skills, ~/.claude/CLAUDE.md, and the    *)
(*            servers in Claude Code's own configuration                   *)
(* manifest   projected.json: files written, servers added                 *)
(* backups    the newest Keep snapshots, newest first                      *)
(* pc         the phase of the handler                                     *)
(* want, refused, todo, managed, warned   what it holds: the frame, the    *)
(*            servers not yet seen to and those known to be ours, and      *)
(*            whether there is anything to complain of                     *)
(* saved, touched   history within a frame: a snapshot was taken; the user *)
(*            changed the servers meanwhile                                *)
(* forgotten, taken   history: what was written may be missing from the    *)
(*            manifest; servers the user added under a name of ours        *)
(***************************************************************************)
EXTENDS Naturals, Sequences

CONSTANTS Skills, Rule, Servers,
          Versions,           \* contents the hub may want for an item
          None, Own, Torn,    \* no content; the user's; half-written
          Keep,               \* snapshots kept
          MaxEdits, MaxTroubles  \* bounds: the user's changes; crashes and failed calls

Items == Skills \cup {Rule} \cup Servers

ASSUME StoreAssumption == /\ Keep \in Nat \ {0} /\ MaxEdits \in Nat /\ MaxTroubles \in Nat
                          /\ Rule \notin Skills \cup Servers /\ Skills \cap Servers = {}
                          /\ {None, Own, Torn} \cap Versions = {}
                          /\ Own # None /\ Own # Torn /\ None # Torn
                          /\ \A c \in Versions \cup {Own} : <<c>> # Own   \* a server of ours is not theirs

VARIABLES agents, fleet, local, skills, md, servers, manifest, backups,
          pc, want, refused, todo, managed, warned, saved, touched,
          forgotten, taken, edits, troubles

store == <<agents, fleet, local>>
tool == <<skills, md, servers>>
frame == <<want, refused>>
sync == <<todo, managed>>
memory == <<frame, sync, warned, saved, touched>>
history == <<forgotten, taken>>
bounded == <<edits, troubles>>
vars == <<store, tool, manifest, backups, pc, memory, history, bounded>>

-----------------------------------------------------------------------------
States == [Items -> Versions \cup {None}]
Empty == [i \in Items |-> None]
NoSkills == [s \in Skills |-> None]
NoManifest == [files |-> {}, servers |-> {}]

\* CLAUDE.md as cc-fleet writes it: the fleet's rules, then the local ones.
Generated(f, l) == <<f, l>>
\* A server as cc-fleet adds it.
Ours(content) == <<content>>

\* A machine that may have been a node before there was ~/.agents, or never one.
Init ==
    /\ agents = FALSE /\ fleet = Empty /\ local = Empty
    /\ skills \in [Skills -> Versions \cup {None, Own}]
    /\ md \in {None, Own}
    /\ servers \in [Servers -> {None, Own}]
    /\ manifest = NoManifest /\ backups = <<>>
    /\ pc = "idle" /\ want = Empty /\ refused = FALSE
    /\ todo = {} /\ managed = {} /\ warned = FALSE /\ saved = FALSE /\ touched = FALSE
    /\ forgotten = FALSE /\ taken = {} /\ edits = 0 /\ troubles = 0

\* The handler ends, and what it held is gone.
End ==
    /\ pc' = "idle" /\ want' = Empty /\ refused' = FALSE
    /\ todo' = {} /\ managed' = {} /\ warned' = FALSE /\ saved' = FALSE /\ touched' = FALSE

-----------------------------------------------------------------------------
(* What is wanted where. *)

\* "Same id means the same thing in two versions": the local one wins.
Merged(i) == IF local[i] # None THEN local[i] ELSE fleet[i]

\* A server's configuration that does not parse is skipped.
WantedServers == {m \in Servers : Merged(m) \notin {None, Torn}}

HasRules == fleet[Rule] # None \/ local[Rule] # None

\* Skills of the old layout that the frame does not claim.
Unclaimed(w) == {s \in Skills : skills[s] # None /\ w[s] = None}

\* Variant: an unchanged store is taken for an unchanged machine.
AfterValidation_Lazy(w) == IF fleet = w THEN "report" ELSE "snapshot"

\* Where the handler goes with a frame it does not refuse.
AfterValidation(w) == IF fleet = w THEN "project" ELSE "snapshot"

\* Variant: the migration runs at every frame.
Migrates_Always == TRUE

Migrates == ~agents

\* A frame arrives.  One with an id that is refused has no effect but the migration.
Frame(w, bad) ==
    /\ pc = "idle" /\ (bad => Migrates)
    /\ want' = w /\ refused' = bad
    /\ pc' = IF Migrates THEN "migrate" ELSE AfterValidation(w)
    /\ UNCHANGED <<store, tool, manifest, backups, sync, warned, saved, touched, history, bounded>>

\* migrateLegacyLayout: move what the frame does not claim into the local half.
Migrate ==
    /\ pc = "migrate"
    /\ agents' = TRUE
    /\ local' = [i \in Items |-> IF i \in Unclaimed(want) THEN skills[i] ELSE local[i]]
    /\ skills' = [s \in Skills |-> IF s \in Unclaimed(want) THEN None ELSE skills[s]]
    /\ IF refused THEN End ELSE pc' = AfterValidation(want) /\ UNCHANGED memory
    /\ UNCHANGED <<fleet, md, servers, manifest, backups, history, bounded>>

-----------------------------------------------------------------------------
(* Snapshot and takeover of the fleet half. *)

\* A snapshot of nothing is none.
Archive(b) ==
    IF b = [fleet |-> Empty, skills |-> NoSkills, md |-> None] THEN backups ELSE <<b>> \o backups

Prune(bs) == SubSeq(bs, 1, IF Len(bs) < Keep THEN Len(bs) ELSE Keep)

\* Variant: only the store is copied, not what the projection is about to change.
Copied_StoreOnly == [fleet |-> fleet, skills |-> NoSkills, md |-> None]

Copied == [fleet |-> fleet, skills |-> skills, md |-> md]

Snapshot ==
    /\ pc = "snapshot"
    /\ backups' = Prune(Archive(Copied))
    /\ saved' = TRUE /\ pc' = "takeover"
    /\ UNCHANGED <<store, tool, manifest, frame, sync, warned, touched, history, bounded>>

Surplus == {i \in Items : fleet[i] # None /\ want[i] = None}

\* Delete, then write.  A file that cannot be deleted is only complained of.
Takeover ==
    /\ pc = "takeover"
    /\ \E stuck \in SUBSET Surplus :
          /\ stuck = {} \/ troubles < MaxTroubles
          /\ troubles' = IF stuck = {} THEN troubles ELSE troubles + 1
          /\ fleet' = [i \in Items |-> IF i \in stuck THEN fleet[i] ELSE want[i]]
          /\ warned' = (stuck # {})
    /\ pc' = "project"
    /\ UNCHANGED <<agents, local, tool, manifest, backups, frame, sync, saved, touched,
                   history, edits>>

-----------------------------------------------------------------------------
(* Projection. *)

\* Full takeover of ~/.claude/skills.
ProjectSkills ==
    /\ pc = "project"
    /\ skills' = [s \in Skills |-> Merged(s)]
    /\ pc' = "rules"
    /\ UNCHANGED <<store, md, servers, manifest, backups, memory, history, bounded>>

\* CLAUDE.md is generated; without rules it goes, if the manifest says it is ours.
\* Then the servers to see to are worked out.
ProjectRules ==
    /\ pc = "rules"
    /\ md' = IF HasRules THEN Generated(fleet[Rule], local[Rule])
             ELSE IF Rule \in manifest.files THEN None ELSE md
    /\ pc' = "servers"
    /\ todo' = WantedServers \cup manifest.servers
    /\ warned' = (warned \/ \E m \in Servers : Torn \in {fleet[m], local[m]})
    /\ UNCHANGED <<store, skills, servers, manifest, backups, frame, managed, saved, touched,
                   history, bounded>>

\* What the report of a missing command leaves under management.
StillManaged == manifest.servers

\* The `claude` command is missing: nothing changes, and if a server is wanted, a complaint.
WithoutCli ==
    /\ pc = "servers" /\ todo = WantedServers \cup manifest.servers /\ managed = {}
    /\ todo' = {} /\ managed' = StillManaged
    /\ warned' = (warned \/ WantedServers # {})
    /\ pc' = "manifest"
    /\ UNCHANGED <<store, tool, manifest, backups, frame, saved, touched, history, bounded>>

\* `claude mcp remove` of a server that is no longer wanted.  One that fails may have done
\* it all the same: it is killed after a minute.
RemoveServer(m) ==
    /\ pc = "servers" /\ m \in todo \ WantedServers
    /\ todo' = todo \ {m}
    /\ \/ /\ servers[m] # None
          /\ servers' = [servers EXCEPT ![m] = None]
          /\ UNCHANGED <<warned, forgotten, troubles>>
       \/ /\ servers[m] = None
          /\ warned' = TRUE
          /\ UNCHANGED <<servers, forgotten, troubles>>
       \/ /\ servers[m] # None /\ troubles < MaxTroubles      \* the command fails
          /\ troubles' = troubles + 1
          /\ forgotten' = TRUE /\ warned' = TRUE
          /\ servers' \in {servers, [servers EXCEPT ![m] = None]}
    /\ UNCHANGED <<store, skills, md, manifest, backups, pc, frame, managed, saved, touched,
                   taken, edits>>

\* Variant: a server is replaced whoever configured it.
Replaces_All(m) == TRUE

Replaces(m) == m \in manifest.servers

\* Remove what we added, then `claude mcp add-json`, which refuses a name that is taken.
\* Either command may fail, before or after it had its effect; the first one's failure is
\* ignored, and what the second did without saying so is not managed.
AddServer(m) ==
    /\ pc = "servers" /\ todo \subseteq WantedServers /\ m \in todo
    /\ todo' = todo \ {m}
    /\ LET cleared == IF Replaces(m) THEN None ELSE servers[m]
           added   == [servers EXCEPT ![m] = Ours(Merged(m))]
       IN  \/ /\ cleared = None
              /\ servers' = added
              /\ managed' = managed \cup {m}
              /\ UNCHANGED <<warned, forgotten, troubles>>
           \/ /\ cleared # None
              /\ warned' = TRUE
              /\ UNCHANGED <<servers, managed, forgotten, troubles>>
           \/ /\ troubles < MaxTroubles /\ troubles' = troubles + 1   \* a command fails
              /\ servers' \in {servers, [servers EXCEPT ![m] = cleared]}
                              \cup (IF cleared = None THEN {added} ELSE {})
              /\ forgotten' = (forgotten \/ servers'[m] \notin {None, Own})
              /\ warned' = TRUE
              /\ UNCHANGED managed
    /\ UNCHANGED <<store, skills, md, manifest, backups, pc, frame, saved, touched, taken, edits>>

ServersDone ==
    /\ pc = "servers" /\ todo = {}
    /\ pc' = "manifest"
    /\ UNCHANGED <<store, tool, manifest, backups, memory, history, bounded>>

WriteManifest ==
    /\ pc = "manifest"
    /\ manifest' = [files |-> {s \in Skills : Merged(s) # None}
                                \cup (IF HasRules THEN {Rule} ELSE {}),
                    servers |-> managed]
    /\ pc' = "report"
    /\ UNCHANGED <<store, tool, backups, memory, history, bounded>>

\* "Applied", with the complaints if there were any.
Report ==
    /\ pc = "report" /\ End
    /\ UNCHANGED <<store, tool, manifest, backups, history, bounded>>

-----------------------------------------------------------------------------
(* What goes wrong, and what the user does. *)

\* Some of a set of files were dealt with, and one may be half-written.
Partly(before, after, torn) ==
    UNION {{[i \in DOMAIN before |-> IF i \in done THEN after[i]
                                     ELSE IF i \in half THEN Torn ELSE before[i]] :
                half \in {{}} \cup {{i} : i \in torn}} :
           done \in SUBSET {i \in DOMAIN before : before[i] # after[i]}}

\* Skill by skill: copied, deleted here.  One may be half-copied, or copied and not deleted.
MigratePartly ==
    \E moved \in SUBSET Unclaimed(want) :
    \E half \in {{}} \cup {{s} : s \in Unclaimed(want) \ moved}, copied \in BOOLEAN :
       /\ skills' = [s \in Skills |-> IF s \in moved THEN None ELSE skills[s]]
       /\ local' = [i \in Items |->
                       IF i \in moved \/ (copied /\ i \in half) THEN skills[i]
                       ELSE IF i \in half THEN Torn ELSE local[i]]
       /\ agents' = (agents \/ moved \cup half # {})

\* The process dies, or a call fails and the handler ends with an error.
Interrupt ==
    /\ pc \notin {"idle", "report"} /\ troubles < MaxTroubles /\ troubles' = troubles + 1
    /\ End
    /\ forgotten' = (forgotten \/ pc \in {"rules", "servers", "manifest"})
    /\ \/ /\ pc = "migrate" /\ MigratePartly
          /\ UNCHANGED <<fleet, md, servers, manifest, backups>>
       \/ /\ pc = "snapshot"
          /\ \E f \in Partly(Empty, fleet, {}) :
                backups' = Archive([fleet |-> f, skills |-> NoSkills, md |-> None])
          /\ UNCHANGED <<store, tool, manifest>>
       \/ /\ pc = "takeover"
          /\ fleet' \in Partly(fleet, want, {i \in Items : want[i] \notin {None, fleet[i]}})
          /\ UNCHANGED <<agents, local, tool, manifest, backups>>
       \/ /\ pc = "project"
          /\ skills' \in Partly(skills, [s \in Skills |-> Merged(s)],
                                {s \in Skills : Merged(s) \notin {None, skills[s]}})
          /\ UNCHANGED <<store, md, servers, manifest, backups>>
       \/ /\ pc = "rules"
          /\ md' \in {md} \cup (IF HasRules THEN {Torn} ELSE {})
          /\ UNCHANGED <<store, skills, servers, manifest, backups>>
       \/ /\ pc = "manifest"
          /\ manifest' \in {manifest, NoManifest}
          /\ UNCHANGED <<store, tool, backups>>
       \/ /\ pc = "servers"
          /\ UNCHANGED <<store, tool, manifest, backups>>
    /\ UNCHANGED <<taken, edits>>

\* `cc-fleet restore`: the fleet half is removed and copied back from the newest snapshot
\* that has one, then projected.  It may be cut short while it is removed or copied.
Restore ==
    /\ pc = "idle"
    /\ \E k \in DOMAIN backups :
          LET copy == backups[k].fleet
          IN  /\ copy # Empty /\ \A j \in 1..k - 1 : backups[j].fleet = Empty
              /\ \/ /\ fleet' = copy /\ want' = copy
                    /\ pc' = "project"
                    /\ UNCHANGED troubles
                 \/ /\ troubles < MaxTroubles /\ troubles' = troubles + 1
                    /\ fleet' \in Partly(fleet, Empty, {})
                                  \cup Partly(Empty, copy, {i \in Items : copy[i] # None})
                    /\ UNCHANGED <<want, pc>>
    /\ UNCHANGED <<agents, local, tool, manifest, backups, refused, sync, warned, saved,
                   touched, history, edits>>

UserActs == edits < MaxEdits /\ edits' = edits + 1

\* The user writes or removes something of the local half.
EditLocal(i) ==
    /\ pc = "idle" /\ UserActs
    /\ local' = [local EXCEPT ![i] = IF @ = Own THEN None ELSE Own]
    /\ agents' = TRUE
    /\ UNCHANGED <<fleet, tool, manifest, backups, pc, memory, history, troubles>>

\* The user puts a skill, or a CLAUDE.md, where Claude Code reads it.
EditTool ==
    /\ pc = "idle" /\ UserActs
    /\ \/ \E s \in Skills : skills' = [skills EXCEPT ![s] = Own] /\ UNCHANGED md
       \/ md' = Own /\ UNCHANGED skills
    /\ UNCHANGED <<store, servers, manifest, backups, pc, memory, history, troubles>>

\* The user runs `claude mcp add` or `remove`, at any time: ours take seconds.
EditServer(m) ==
    /\ UserActs /\ touched' = (pc # "idle")
    /\ \/ /\ servers[m] = None
          /\ servers' = [servers EXCEPT ![m] = Own]
          /\ taken' = IF m \in manifest.servers \cup managed THEN taken \cup {m} ELSE taken
       \/ /\ servers[m] \notin {None, Own}
          /\ servers' = [servers EXCEPT ![m] = None]
          /\ UNCHANGED taken
    /\ UNCHANGED <<store, skills, md, manifest, backups, pc, frame, sync, warned, saved,
                   forgotten, troubles>>

-----------------------------------------------------------------------------
Handle ==
    \/ Migrate \/ Snapshot \/ Takeover \/ ProjectSkills \/ ProjectRules
    \/ WithoutCli \/ ServersDone \/ WriteManifest \/ Report
    \/ \E m \in Servers : RemoveServer(m) \/ AddServer(m)

Next ==
    \/ \E w \in States, bad \in BOOLEAN : Frame(w, bad)
    \/ Handle \/ Interrupt \/ Restore
    \/ \E i \in Items : EditLocal(i)
    \/ EditTool \/ \E m \in Servers : EditServer(m)

Spec == Init /\ [][Next]_vars

-----------------------------------------------------------------------------
(* Properties *)

Contents == Versions \cup {None, Own, Torn}
Texts == Contents \X Contents
Snapshots == [fleet : [Items -> Contents \ {Own}], skills : [Skills -> Contents],
              md : {None, Own, Torn} \cup Texts]

\* Every variable keeps its shape, and no more than Keep snapshots are kept.
TypeOK ==
    /\ agents \in BOOLEAN
    /\ fleet \in [Items -> Contents \ {Own}] /\ local \in [Items -> Contents]
    /\ skills \in [Skills -> Contents]
    /\ md \in {None, Own, Torn} \cup Texts
    /\ servers \in [Servers -> {None, Own} \cup {Ours(c) : c \in Versions \cup {Own}}]
    /\ manifest \in [files : SUBSET (Skills \cup {Rule}), servers : SUBSET Servers]
    /\ backups \in Seq(Snapshots) /\ (pc = "takeover" => Len(backups) <= Keep)
    /\ pc \in {"idle", "migrate", "snapshot", "takeover", "project", "rules", "servers",
               "manifest", "report"}
    /\ want \in [Items -> Contents \ {Own}] /\ refused \in BOOLEAN
    /\ todo \in SUBSET Servers /\ managed \in SUBSET Servers
    /\ warned \in BOOLEAN /\ saved \in BOOLEAN /\ touched \in BOOLEAN /\ forgotten \in BOOLEAN
    /\ taken \in SUBSET Servers
    /\ edits \in 0..MaxEdits /\ troubles \in 0..MaxTroubles

\* What the agent reports as applied, with nothing to complain of.
Applied == pc = "report" /\ ~warned /\ ~touched

\* What is reported as applied is there: the fleet half is what the frame wants and the
\* tool has the merge of both halves, whatever was cut short before (applyFleet, project).
\* And what is not wanted is gone, "what makes removal safe": no CLAUDE.md of an earlier
\* frame, and no server but one the manifest lists, so that a later frame removes it;
\* unless a frame was cut short or a command failed (writeManifest, syncMcpServers).
AppliedIsExact ==
    Applied =>
       /\ fleet = want
       /\ \A s \in Skills : skills[s] = Merged(s)
       /\ HasRules => md = Generated(fleet[Rule], local[Rule])
       /\ \A m \in WantedServers : servers[m] = Ours(Merged(m))
       /\ forgotten \/ HasRules \/ md \in {None, Own}
       /\ forgotten \/ \A m \in Servers \ WantedServers :
                          servers[m] \in {None, Own} \/ m \in manifest.servers

\* "cc-fleet never deletes or rewrites anything under" the local half: not even the
\* migration, which writes there, replaces what is there.
LocalIsTheirs == [][pc # "idle" => \A i \in Items : local[i] # None => local'[i] = local[i]]_vars

\* Not in place of ours: nothing cc-fleet projected there.
Foreign(s) == skills[s] = Own /\ s \notin manifest.files

Saved(i) == backups # <<>> /\ (IF i = Rule THEN backups[1].md ELSE backups[1].skills[i]) = Own

\* What the user had put in the tool's directory is destroyed only when the newest
\* snapshot or the local half has it.
DestroysOnlySaved ==
    /\ \A s \in Skills : Foreign(s) /\ skills'[s] # Own => local'[s] = Own \/ Saved(s)
    /\ md = Own /\ md' # Own => Saved(Rule)

\* "A complete copy of every tree cc-fleet is about to mutate", when the frame changed the
\* fleet half (snapshot, project).
DestroyedWasSaved == [][saved => DestroysOnlySaved]_vars

\* "A server the user configured by hand is not ours to delete", unless he gave it a name
\* that cc-fleet believes to have added (syncMcpServers).
UserServersKept ==
    [][\A m \in Servers : servers[m] = Own /\ servers'[m] # Own => m \in taken]_vars

==============================================================================
