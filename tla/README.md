# cc-fleet in TLA+

cc-fleet keeps the agent configuration of many machines in step. One machine, the **hub**, owns a
profile (skills, rules, MCP servers, client settings). The others, the **nodes**, enrol with the hub,
hold a stream of server-sent events open to it, and replace what they hold by what the hub wants for
them. Beside that each machine's **supervisor** keeps an LLM proxy worker running, which gives Claude
Code and Codex the models of GitHub Copilot, and on the hub a public devtunnel.
This directory holds TLA+ modules of the parts of that system that run concurrently, must survive
failures, or translate what others depend on; TLC configurations that check them; and proofs that TLAPS
checks. Paths below are relative to `src/src` unless they begin with `src/`.

    tlc -workers 2 -config enrolment.cfg MCEnrolment.tla      # one run
    tlapm Enrolment_proofs.tla                                # the proofs of one module

## The system

| Component | Code | State | Operations | What is hard about it |
|---|---|---|---|---|
| Enrolment | `control/hub/devices.ts`, `device-auth.ts`, `json-store.ts`, `control/agent/enroll-client.ts` | `devices.json`, `device-auth.json`; the joining client | start, approve, deny, poll, enroll, verify, touch, revoke | two processes read and write whole files with no lock; answers are lost; codes expire; crashes between two files |
| Hub transport | `control/transport/http-hub.ts`, `control/hub/hub.ts` | two registries of open streams | token endpoint, stream, keep-alive, publication, message, revocation poll | a stream ends in several ways, each noticed at another time; its late end must not harm its successor; the revocation comes from another process |
| Node transport | `control/transport/http-agent.ts` | stream, backoff | connect, read, reconnect, send | half-dead streams; reports overtake each other; terminal 401 and 403 |
| Hub and profile | `control/hub/hub.ts`, `index.ts`, `profile-store.ts`, `control/proto/index.ts` | last good profile, peers, reports | load, watch, reload, publish, accept; what a profile wants for a device | half-written profiles; an edit between load and watch; restart; overlapping groups and overrides |
| Profile service, adoption queue | `control/hub/profile-service.ts`, `pending.ts`, `cli/control.ts` | `profile.json`, its lock, draft, history; `pending.json` | publish, adopt, reject, roll back, save a draft | lock files, stale locks, an editor that takes no lock, crashes, a newer push |
| Node agent and store | `control/agent/*.ts` | `~/.agents`, projection into Claude Code, manifest, backups | migrate, apply, project, synchronise MCP | failure between any two file operations |
| Client configuration | `control/agent/client-config.ts`, `tui/setup/` | `settings.json`, `config.toml`, the copies of both | snapshot, configure, restore, `leave`, setup, reset | four writers; snapshot once; crashes in between |
| Worker monitor | `supervisor/monitor.ts`, `worker/index.ts` | child, pending respawn, restart window | spawn, crash, respawn, restart, stop, start | callbacks of dead processes; one port for old and new worker |
| Tunnel manager | `tunnel/manager.ts` | `tunnel.json`, host process, retry, generation | provision, enable, disable, delete, interrupt, stop | an await between any two commands; late output |
| Fleet runtime, daemon | `supervisor/fleet-runtime.ts`, `supervisor/index.ts`, `daemon/lifecycle.ts` | roles, hub, node agent, the two ports | load roles, reload, spawn a supervisor | reloads that coalesce; two supervisors at once; late refusals |
| Worker: one request | `worker/anthropic-server.ts`, `worker/openai-server.ts`, `core/stream-guard.ts`, `context-edit.ts` | per request | stream, run tools, retry, end | any order of chunks; loops with a bound; deadlines |
| Worker: streams and calls in text | `core/tool-xml.ts`, `responses-inbound.ts`, `providers/copilot/responses-upstream.ts` | what is held back; open items | cut, recover, close | input cut at any position |
| Worker: translation | `core/*-inbound.ts`, `reasoning.ts`, `providers/copilot/adapter.ts` | none | three dialects to two endpoints and back | a conversation goes through it anew every turn |
| Worker: routing | `worker/router.ts`, `core/claude-model-map.ts`, `fuzzy.ts`, `model-canonical.ts`, `shared/claude-map-store.ts` | the map's file, what the worker read | list, resolve, change the map | a file read once by a process that is restarted later |
| Tokens, other providers | `providers/` | cached tokens | fetch, refresh | refreshes race |
| UI, CLI, configuration | `tui/`, `cli/`, `shared/` | small JSON files | print, parse | little; what it does to shared files is modelled with the owner of the file |

They meet in four ways. *Files*: the hub process and short-lived `cc-fleet` commands change the same
registries and the same profile; the agent, the terminal and the user the same client files. *HTTP*: a
node polls for its credential, then reads one stream and posts reports; a client sends its whole conversation
with every request. *Callbacks*: the supervisor learns of its children by messages, output and exits.
*Calls*: a tunnel that comes online makes the hub publish again, since clients get its URL; a saved map restarts the worker.

## The modules

Every module opens with a comment that says which code each variable stands for, and
`PROJECT.json` (`map`) names the lines behind every definition.

**`Enrolment`** - the two registry files and everything that changes them. A process is
single-threaded and these operations are synchronous, so between the read and the write of one only
the other process can act: each operation is a `...Read` that computes the copy to write and a
`...Write` that installs it and answers. `Answer` loses a response or delivers it; `Crash` ends a
process between the two. Ids are a hostname and a number; a token is the index of its credential in
`minted`, so that a hash never collides. Ids are what concatenation makes of them (`Suffixed`), so a machine may have the name
that another's second id would have.

**`HubStreams`** - the hub's streams, from their opening to their last event. The HTTP layer's map of peers and the hub's set of peers are
separate; so are the ways in which a stream ends: a write that throws in the middle of a broadcast, the keep-alive, the revocation poll, a newer
stream of its id, and the close of its request, which may come when its successor has long been registered.

**`FleetSync`** - from a save of `profile.json` to the store of a node: load, watch, debounced reload,
publication, streams that break, end or are replaced, frames, reports with requests of their own,
revocation, hub crashes. A profile is its position in the history of edits (not the `version` field a
human writes, which proves nothing) and what it wants for each device. What applying does to
the disk is one step that succeeds, succeeds but for files that could not be deleted (which the agent reports as applied, with a
warning), fails without effect, or fails leaving a mixture, or with the store taken over and the projection not. The client
settings that a frame carries while the tunnel is on line are the subject of `ClientConfig`.

**`Profiles`** - what a profile says of a device, as operators: groups in their order, spellings of a device's name,
additions, removals and overrides. `MCFleetSync` computes with it what its profiles want, so the states
on the wire are those of `desiredStateFor` and an edit of a group, an assignment or an override is an edit there.

**`FleetState`** - the abstract specification of `FleetSync`: profiles are served in some order, and a
node only ever takes over what a served profile wants for it, never an older one than it holds.
`FleetSync` implements it with `served` and `held` as they are (`ImplementsFleet`).

**`WorkerMonitor`** - the monitor, the processes it forked, and the port they contend for. What a
process does and what the monitor is told of it are separate actions: listening, the `ready` message,
the end of the IPC channel and the exit event; `ready` is sent some time after listening, once the models are discovered. They are told in that order, which is what Node does
on Linux: messages are read from the pipe, its end is seen there, and the exit is reported last.

**`TunnelManager`** - provisioning, hosting, retrying, and the commands that come in between. `run` is
`startPromise` together with the generation it was started under; old managers' hosts, which
a reload of the hub role leaves behind, remain in `procs`. Host output outlives the host until `Drained`. Commands may come at every await,
as with any command executor that waits; the one that ships is `spawnSync` (`tunnel/cli.ts` 17 to 20), whose behaviours are the ones in which none does.

**`ProfileService`** - three kinds of mutation in two processes, step by step, and the inbox whose
suggestions they install. Inodes are explicit because the code compares them. A text is a version and a number
of its own, which stands for its SHA-256. The grain is that of what the other process or an editor can tell
apart: a lock is found, read and removed in three steps; removing the two leftovers and linking the guard is one step, so are the reads and the `stat`s
of the compare. After the rename,
archiving may fail and the mutation throw (`RecordFails`). The inbox holds the newest push of a device, which is all that its adopters look at.

**`NodeStore`** - what one frame does to a node's disk: migration of the old layout, snapshot, takeover
of the fleet half, projection of both halves, MCP servers one by one, manifest, report. Each is a
phase, and `Interrupt` cuts any of them with some of its files dealt with and one half-written. A `claude` command that fails, or is
killed by its time limit, may have taken effect all the same.
The handler is synchronous and its file phases take milliseconds, so the user edits files between frames; the `claude`
commands take seconds, so `EditServer` comes at any time. `cc-fleet restore` is taken to run between frames too, and may be cut
while it removes the store or copies the backup.
`FleetSync` is the same node seen from the hub, with all of this as one step of `Receive`.

**`ClientConfig`** - `settings.json` (whose endpoint it names, and the user's rest), `config.toml` line by
line, since it is edited line by line, and the copies `leave` restores. Every copy and every
write of `applyManagedClients` is a step; a crash falls between any two, and `leave`, the terminal's commands and the user act there too.
`leave` has steps of its own (`leaving`): the first file, the second, the credential; it may be cut at each, within a write too. What reads a file and
at once writes it back is one step, in whichever process: a write of another process between the two would be lost, and the model leaves that out.
The agent and the terminal write `config.toml` by one operator, `Rewrite`, and differ in what they drop.

**`FleetRuntime`** - the supervisors of a machine, the two ports they bind, the role files, and the
commands that write them, find or spawn a supervisor and post a reload. A load is split at its await (the
gateway's `listen`); a refusal is handled later than it comes, perhaps after its channel was replaced. That the admin port
is taken is learnt after the runtime was started: a daemon that lost it (`losing`) has its roles loaded when it dies.

**`Routing`** - the map's file, the worker that read it at its start and Copilot's list once, and the
changes whose restart is still to come. An id is a name with its tokens and its dashed spelling, which is what the
code compares; similarity is compared as a fraction. Only Claude's own ids are shown with the badge of a large window.

**`Messages`** - one `/v1/messages` request, event by event, with the client that puts the events together. Copilot
sends any chunk at any time, and frames of which the adapter makes no chunk (`SilentFrame`). Text is two short pieces, equal or not; what is limited is a number of pieces.

**`ToolXml`**, **`OpenAIStreams`** - the extractor of calls from text as rounds of its loop over atoms that the code
never looks into, and a request to an OpenAI endpoint that feeds it Copilot's text cut anywhere, beside native calls. The
client puts the events together, so what is compared is what it ends up with.

**`Conversation`** - whole conversations, translated anew for every request. A thing said is its number, so
that losing, doubling and reordering are visible; the client keeps its dialect's form, and the model may change every turn. A
streamed answer has the form that the encoder of its dialect gives it: Anthropic's has a turn's text in one block, and its calls last.

**`..._proofs`** - the theorems of the next section but one. **`MC...`** - instances for TLC.

## The runs

| Run | Instance | Shows |
|---|---|---|
| `enrolment` | 2 machines of one hostname, 2 credentials, 1 command; or those and a machine with the name of the second's id, 3 credentials; 2 devices, one issued again, 3 streams, 2 publications | `ActiveIdsUnique`, `AdmittedWasApproved`, `NewestIsServed` always; `CodeMintsOnce`, `WorksUntilRevoked` where no two updates of a file overlapped |
| `fleet_sync` | 1 device, 3 edits, 2 troubles | `ImplementsFleet`, `HubNeverAhead`, `Convergence`, `RevokedNodeStops` |
| `worker_monitor` | 3 processes, 2 crashes, 2 restarts, 1 stop, 1 start, 1 death | `StopIsQuiet`, `RestartResolves`, `ServesAgain` |
| `tunnel` | 1 tunnel, 2 hosts at a time, commands without bound | `SingleHost`, `EnableTakes` |
| `profile_service` | 3 texts, 1 snapshot kept, 2 pushes, 1 crash | `ResultIsTrue`, `DisplacedIsKept`, `EditsAreSeen`, `NoSuggestionIsLost` |
| `node_store` | 1 skill, 1 rule, 1 server, 1 version, 1 snapshot kept, 1 edit, 1 trouble | `AppliedIsExact`, `LocalIsTheirs`, `DestroyedWasSaved`, `UserServersKept` |
| `client_config` | 1 note, 2 edits or setups; frames, crashes and stays without bound | `OriginalsAreSafe`, `LeftIsLeft`, `CodexIsValid`, `UserContentSurvives` |
| `fleet_runtime` | 1 daemon and the terminal, 2 changes of the role, 2 credentials | `ReloadTakes`, `OneOfEach`, `RefusalIsOfThisNode` |
| `routing` | 9 ids, 2 aliases, 3 backends, 5 lists, 2 changes under way | `SavedIsServed`, `ListedIsRouted` |
| `messages` | 2 rounds, 1 screenshot, 2 blocks of text and reasoning | `WellFormed`, `GatewayToolsStayHere`, `CallsAreAnswered`, `EveryRequestEnds` |
| `openai_streams` | 8 lexemes, up to 3 in a text, every cut, 1 native call | `CutsDoNotMatter`, `NothingSwallowed`, `ItemsAreComplete` |
| `conversation` | 4 models, 4 wishes, 3 blocks to an answer, 6 things said | `NothingRefused`, `NothingIsLost` |

All of them hold. What the code does not keep of what a comment, a test or a document of the repository says is
listed in `PROJECT.json` (`findings`), with the sentence quoted and the trace, and the property concerned says
what holds apart from it: by a condition it names, or by a history variable.

**History variables.** None of them is read by a guard. `overlap` (two updates of one registry
file overlapped), `robbed`, `sneaked`, `died`, `overtaken` and `settled` (a lock removed under its holder, an edit after the final
compare, a crash, or a disk that failed, within a mutation, a push while an older one was adopted, a suggestion installed or rejected), `undone` and
`crossed` (an old host's line was heard or a deletion failed, an enable met a cancelled run, which takes an executor that waits), `missed` (an edit between load and watch), `saved`,
`forgotten` and `taken` (this frame took a snapshot, a frame or a command ended before the manifest knew of it, the user reused
a name of ours), `mixed` and `late` (a whole response asked for tools of both sides, reasoning after text), `early`, `loose` and `short` (a chunk
ended behind the word invoke, arguments came before their call, Copilot was not heard out), `quiet` (the last frame gave no chunk), `copied`, `touched` and
`relapsed` (the files when they were copied, the fleet has written one, a leave while the agent ran), `edited` and `coalesced`
(the role changed since, the reload was answered by an older load), `stale` (the map changed and no restart follows), `said` and `beside`
(all that was said, and what was said in one message with results).

**Bounds, and why they suffice.** Two machines of one hostname are the smallest instance in which ids
collide and in which a touch by one can overlap a revocation of another; two credentials are enough
for a second one from the same code; one command at a time is what an operator runs. One device in
`fleet_sync`: nodes share nothing but the profile, and what the hub keeps is kept per device. Three streams
are two of one device and one of its successor or of another device; a stream meets credentials that come and go at any time, so
the run explores the registry and the streams each while the other rests. Three
edits give an older, a current and a newer profile; two troubles give a break during the recovery from
another. Room for three processes lets a third worker be forked beside an old one and its successor.
`tunnel` has no bound on commands: its states are finite, and `Room` bounds only undrained hosts; it
allows one pending deletion of each id. In `profile_service` three texts are the first profile,
a mutation and a competitor or an edit, and two pushes an older and a newer one.
No property says anything of what follows once a lock was removed under its holder, so its constraint explores no further there.
In `node_store` skills, rules and servers follow
different rules and do not touch one another, so one of each is enough, and an id is claimed by a frame or not;
one trouble gives every place at which a frame can be cut, followed by complete ones. In `client_config` two edits are
a leftover and a setup, or a setup and a repair, around any number of frames and stays. In `fleet_runtime` two
changes of the role and two credentials are one that is overtaken and one that overtakes; the terminal is the second supervisor.
The lists of `routing` have an alias's target or lack it, with a dotted id, two ids of the same tokens, and large, small and untold windows.
In `messages` a request ends by itself within two rounds, or meets each limit: rounds, repeats, length, size, time. Three lexemes make an opening, a
body and a closing tag, in either form and inside a wrapper's tags, and every cut is one between two atoms. Six things said are
two parallel calls, their results in either order, and a turn after them.
`MaxCrashes` (`maxRestarts`), `Keep`, `MaxIters`, `MaxRepeats` and `MaxChars` stand for limits of the code, smaller than there.

**Deadlock** is not checked: every one of these programs may rightly have nothing to do, when the bounds
are used up, when nobody gives a command, or when a request is over.

**Fairness.** Weak fairness only, of what the event loop or the operating system must do: reload
timers, reads of a stream, reconnecting, the revocation poll (`FleetSync`); children that run, their
`ready`, messages and exits, respawn timers (`WorkerMonitor`); answers of the devtunnel CLI, retry timers,
the end of killed processes (`TunnelManager`); time, Copilot sending more (frames that give a chunk, or none) or ending, an answer to each request, and tools, which have
time limits of their own (`Messages`). That Copilot ever stops, or ever sends a frame that gives a chunk, is not assumed. Edits, commands, crashes and lost messages are never fair.
`Deliver` of a report is not fair, since one may be lost. The other modules claim no liveness.

**Mutants.** Each property has a variant of one definition, next to it in the module and named
`<definition>_<what is wrong>`, under which TLC finds the property violated.

## The proofs

Eight modules hold proofs, each for any value of its module's constants. What is assumed are only the named
assumptions of the modules, which TLC evaluates: bounds are natural numbers, and markers differ from what they
mark (`BoundsAssumption`, `NoCodeAssumption`, `WantsAssumption`, `SyncBoundsAssumption`, `StoreAssumption`,
`MonitorAssumption`, `TunnelAssumption`, `KeepAssumption`, `RuntimeAssumption`, `RoutingAssumption`); the words of an id are
finitely many, at least one, and the same however its parts are joined (`TokensAssumption`: `core/fuzzy.ts` 9 splits at both
signs); texts are made of the atoms of `ToolXml` (`StreamsAssumption`); efforts are levels the code knows, or none
(`ConversationAssumption`: `core/reasoning.ts` 13 and 23 to 25 leave no other). The proofs about `Messages` and `ClientConfig` assume
nothing of the constants. `Worker_proofs` holds the proofs of four components that run in the worker's process or beside it,
`Supervisor_proofs` those of the supervisor's tunnel and roles; the specifications that share a module have names of their own.

| Module | Theorem | Statement |
|---|---|---|
| `Enrolment_proofs` | `TypeCorrect` | `Spec => []TypeOK` |
| | `IdsNeverShared` | `Spec => []ActiveIdsUnique` |
| | `AdmissionNeedsApproval` | `Spec => []AdmittedWasApproved` |
| | `NewestWins` | `HubSpec => []NewestIsServed` |
| | `ApprovalIsSpent` | `Spec => []CodeMintsOnce` |
| | `RevokedForGood` | `Spec => []WorksUntilRevoked` |
| `FleetSync_proofs` | `SyncInvariant` | `Spec => []SyncInv` |
| | `NeverAhead` | `Spec => []HubNeverAhead` |
| | `Implements` | `Spec => ImplementsFleet` |
| `Worker_proofs` | `MonitorInvariant` | `MonitorSpec => []MonitorInv` |
| | `Quiet` | `MonitorSpec => StopIsQuiet` |
| | `RoutingInvariant` | `RoutingSpec => []MapInv` |
| | `Served` | `RoutingSpec => []SavedIsServed` |
| | `ListedResolves` | `RoutingSpec => []ListedIsRouted` |
| | `MessagesFit` | `MessagesSpec => []WellFormed` |
| | `NoGatewayCalls` | `MessagesSpec => []GatewayToolsStayHere` |
| | `AllAnswered` | `MessagesSpec => []CallsAreAnswered` |
| | `ConversationInductive` | `Spec => []ConversationInv` |
| | `ConversationNothingRefused` | `Spec => []NothingRefused` |
| | `ConversationNothingIsLost` | `Spec => []NothingIsLost` |
| `Supervisor_proofs` | `TunnelTypes` | `TunnelSpec => []TunnelTypeOK` |
| | `OneHost` | `TunnelSpec => []SingleHost` |
| | `RuntimeInvariant` | `Spec => []RuntimeInv` |
| | `OneAgentOneHub` | `Spec => []OneOfEach` |
| | `RefusalIsTrue` | `Spec => []RefusalIsOfThisNode` |
| | `ReloadsTake` | `Spec => []ReloadTakes` |
| `ProfileService_proofs` | `MutationInvariant` | `Spec => []Inv` |
| | `TrueResults` | `Spec => []ResultIsTrue` |
| | `Displaced` | `Spec => []DisplacedIsKept` |
| | `Suggested` | `Spec => []NoSuggestionIsLost` |
| | `Seen` | `Spec => EditsAreSeen` |
| `NodeStore_proofs` | `StoreTypeCorrect` | `Spec => []TypeOK` |
| | `UserServersAreSafe` | `Spec => UserServersKept` |
| | `LocalHalfIsTheirs` | `Spec => LocalIsTheirs` |
| | `DestroyedIsSaved` | `Spec => DestroyedWasSaved` |
| | `AppliedMeansThere` | `Spec => []AppliedIsExact` |
| `ClientConfig_proofs` | `OriginalsSafe` | `Spec => []OriginalsAreSafe` |
| | `LeftForGood` | `Spec => []LeftIsLeft` |
| | `UserContentKept` | `Spec => UserContentSurvives` |
| | `CodexStaysValid` | `Spec => []CodexIsValid` |
| `Translation_proofs` | `CutsJoin` | where a text is cut makes no difference to the extractor |
| | `StreamsInductive` | `StreamsSpec => []StreamsInv` |
| | `ItemsComplete` | `StreamsSpec => []ItemsAreComplete` |
| | `TextArrives` | `StreamsSpec => []NothingSwallowed` |
| | `CutsMakeNoDifference` | `StreamsSpec => []CutsDoNotMatter` |

**Enrolment.** `TypeOK` is not inductive: a write uses what its read left in `op` (`OpOK`: each kind of
operation works on a code of a registered machine where it needs one), a credential is issued
by appending to `minted` with the id the copy holds (`Issued`), and a code being polled is one
that was asked for (`Asked`). `TypeInv` is the four together; one lemma per kind of step
(reading either file, writing either file, finishing) carries most of the cases. `ActiveIdsUnique` speaks of the
file and of both copies about to be written, and is inductive with `TypeInv`: a copy is made from the file by adding
a device under a free id or by revoking one, and a write makes the file equal to a copy. That is why a lost update,
which does bring a revoked device back, cannot make two devices share an id: the copy as a whole was once consistent.
A credential is issued by an enrolment, which follows a poll's write, which follows a read
that found the request approved; `Backed` says so of every stage.
The last two properties except overlapping updates, so `Apart` comes first: until two overlap, one process at most is between the read
and the write of a file. A code then mints once because from the write that redeems it on it is spent in the file *and in every copy that
may be written back* (`Redeemed`); and a revocation stays because the registry, and every copy of it, lets in exactly the credentials
issued and not ejected, but for the one being enrolled or revoked (`Kept`).

**HubStreams.** The two parts of `NewestIsServed` (`Registered`, `EveryoneIsTold`) are inductive together with the types and `Known` (both registries name streams that
were opened, of ids that were issued). Most steps close a set of streams and take exactly those out of both registries (`Closing`):
the close of a superseded stream finds another number under its id and leaves it, and a stream that is closed for a newer one is closed
before that one is registered.

**FleetSync.** `SyncInv` is the types and an order of versions along the whole way: what is loaded is the last profile
served, and no newer than the file; frames on a stream are served profiles, in order, and no older than what the
node holds when a stream is new; what a node holds was served; reports under way and the hub's record of them name what
the node held. The refinement is then one lemma per action: it appends to `served` in order, or gives one node
what a served profile wants for it, or is a stutter.

**WorkerMonitor.** `TypeOK` fails to be inductive in one place only: the respawn timer. `MonitorInv` adds that a stopped
monitor has none, which every action that stops or schedules keeps, so what forks while it is stopped is `start`.

**TunnelManager.** `SingleHost` is inductive with `TunnelTypeOK`, because the manager's record of its host is kept where hosts are
spawned, killed, or found to have exited; the generation check after each await keeps a stale run from spawning one.

**ProfileService.** Everything is said of an unrobbed lock, since nothing is true of a robbed one. Then `Exclusive`: one process is
inside its mutation, and owns the lock. `Stage` says what each step of it knows (which text is live, what was pinned, what was
displaced), `Own` that its text is nobody else's, and the last part which suggestion it works on. The four properties follow from these together.

**NodeStore.** `TypeOK` is inductive here. `PartlyType` covers every interrupted change of files, whichever part was made.
One step is harmless for the user's servers only if the agent knows what it may touch, so `Claims` says of every phase:
what is left to see to is wanted or was listed by the manifest; there is no such list outside the phase
that works on it; and a server that is listed, or about to be, is the user's only if he took its name over.
Adding keeps it because the command refuses a name in use, failing because what failed is not recorded.
That the local half stays the user's needs only that the migration runs where there is none (`LocalInv`). That what is destroyed was
saved: from the snapshot to the phase that destroys, nothing takes the newest snapshot's place and pruning spares it (`SavedInv`).
`AppliedIsExact` speaks of the end of a frame; `Exact` says of each phase how far the store, the skills, the rules and the servers
have got by then, and what the two lists of the manifest hold meanwhile.

**FleetRuntime.** `RuntimeInv` is the types and four facts: whoever has the admin port is up; only a process that is up, or a
terminal that lives on without the port, runs a load, a hub or a node; a hub has the gateway's port; a refusal not yet
handled as this channel's is of the credential the node has. Uniqueness follows from there being one port. `ReloadTakes` needs the
whole way of a command to be told (`Told`): while nobody else changed the file it says what the command wrote, the supervisor that
answers is one that is up, and from the handling of the request to the answer nothing changes that supervisor's roles.

**Routing.** `SavedIsServed` is inductive with the types of the file and the worker: every change of the file raises a restart
to come, and a worker that boots reads the file as it is then. That what is listed is routed is a fact about matching: an id has all of
its words in common with one id of the list, the share of common words is at most one, and is one only of equal sets of words; so where
no two ids of the list have the same words, the closest is the one that was meant, at every spelling. The badge is shown of Claude's ids
alone, and for the same window on both sides.

**Messages.** The client numbers blocks as they are opened, the worker keeps the index of the one it believes open; `Fits` says
that the two agree, block by block, in every state of the loop, through text, thinking and calls in any order and over rounds. Each event
is then one the client can place. `Answering` says which turn may lack results: the one whose tools are running. `WellFormed` of two
blocks open at once is excepted only where reasoning follows text (`late`), which `Sequential` carries.

**ClientConfig.** Most of the proof is about one operator, `Rewrite`, which both writers of `config.toml` use: lines are selected, and
two new ones put before and behind. The selected lines are in their order (`Placed`, `NthGrows`), so the header that rules a kept line
still does if it is kept too; and it is, because a writer drops a table with its header or leaves it (`Spares`). So a rewrite
keeps each line in its table (`Stays`), and adds but its own four (`Comes`, `Ends`). `UserContentSurvives` is the former, for whatever the
writers do not drop. `CodexIsValid` is inductive for the file and the backup together: what clashes with the new lines has been dropped,
whether it stood at the top or in a table, and where an earlier writer had put it. `OriginalsAreSafe` needs to
know which steps of the agent come before meta.json and which after (`SafeInv`), and that others bring in nothing of the fleet
(`OthersAreClean`); `LeftIsLeft` that a machine outside the fleet, or on its way out with its agent down, has no agent, and what is put back
already bears no trace of the fleet, which is what the backup bears none of either (`LeftInv`).

**ToolXml, OpenAIStreams.** A round of the extractor's loop either takes a complete block away, and would do the same whatever
text followed, or it does not, and then may as well wait for that text (`RoundPlus`); the first needs that the first opening tag, and the
first closing tag behind it, stay the first when text is added, the second that what is let through can never become an opening tag, which
is what holding back a tail is for. Every block is longer than nothing, so a text as long as the buffer has rounds
enough (`DrainPlus`), and a text may be cut anywhere (`CutsJoin`), but behind a bare `<invoke` whose word goes on (`Early`). Then, of a
request: the worker's record and the client's items agree after every chunk (`Sound`): each index names the item it opened, and what was
accumulated for it is what was sent, or there were loose arguments. Recovered calls are numbered from 100 in the order of their items
(`Numbered`). What was sent, with what the extractor makes of what it holds and of the text to come, is what it makes of the whole
(`Parted`); at the end nothing is to come. `ItemsAreComplete` follows from `Sound` and the loop that closes the items, `CutsDoNotMatter`
from all three, and `NothingSwallowed` from what `Parted` says of a text in which no call was found yet.
None of these facts needs the library's inductions: a set of sequences that has the empty one and is closed under `Append` has
all (`ByAppending`), and of a recursive function the least argument at which it fails is a contradiction (`LeastOf`).

**Conversation.** The two properties speak of the body of one request, which is made anew of the whole conversation. What they look for
in it (texts, images, calls, results, messages of the wire) is what a function finds in one message, put one behind another (`Flat`),
so it can be said message by message: each translation keeps what it is to keep of every message (`ChatIs`, `ItemsIs`), hence of all
(`ChatBodyIs`, `ResponsesBodyIs`), though the instructions go in front, for what the system says is said first (`FirstOnly`). What remains
is about the client's messages only, and is inductive: they say what was said, less what stands beside results (`TheSame`); ids are the places
of things in `said` (`SaidOK`), thoughts in their order (`ThoughtsOK`); and while the tools run, the conversation ends in one message
whose calls are the ones without a result, otherwise every call is followed by its results (`Order`), unless one is apart. An answer keeps `Order`
because its calls are in its last message, in each of the four forms the client receives it in (`ReceivedIs`); the results close it whatever their
order, because they are of the same calls (`AnsweredTurn`).

Liveness and `ENABLED` are beyond the prover and stay with TLC: `Convergence`, `RevokedNodeStops`, `RestartResolves`, `ServesAgain`,
`EnableTakes`, `EveryRequestEnds`. `Profiles` is evaluated by the run `fleet_sync` and has no property of its own. Every safety property that a
run checks is proved.

## What is not modelled

The wording of messages, diffs, URLs and user names; the rate limiter and the HTTP body limits; the legacy
authorization code path; the login at the devtunnel service; the refresh of Copilot's tokens, and the WebIQ provider; the tools the gateway runs,
beyond their calls and results; usage counts; all presentation. `PROJECT.json` gives the reason for each component, and lists under `hazards`
what is hard to test in them, with a note where no property covers it.

The registry files are written in one step. The code writes a temporary file and renames it, but both
processes use the same temporary name: a hazard that the model leaves out. `stop()` of the fleet runtime during an
awaited start is left out too: the processes that have one exit right after it. In `ClientConfig` a file is read and written back in one
step, so an edit that falls between a process's read and its write, and is lost there, is not seen.

## Plan

Done: 1 `Enrolment` and `HubStreams`, their proofs; 2 `FleetState`, `FleetSync`, the refinement proved; 3 `WorkerMonitor`; 4 `TunnelManager`;
5 `ProfileService` with the adoption queue; 6 `NodeStore`; 7 `Profiles`; 8 `ClientConfig`; 9 `FleetRuntime`; 10 `Routing`;
11 `Messages`, `ToolXml`, `OpenAIStreams`; 12 `Conversation`; 13 proofs of every safety property
of 1 to 6 and 8 to 12.

Left, in this order:

14. The split write of `json-store.ts` under its shared temporary name, within `Enrolment`.
15. The token cache (`providers/copilot/token.ts`) with refreshes that race, and the rate limiter's window.
16. A composition of `ClientConfig` with `TunnelManager`: client settings that follow the tunnel going on and off line.
