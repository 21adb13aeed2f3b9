---------------------------- MODULE ClientConfig ----------------------------
(***************************************************************************)
(* The configuration files of Claude Code and Codex on one machine, and    *)
(* everybody who rewrites them: the node agent on behalf of the hub, the   *)
(* setup and reset commands of the terminal, `leave`, and the user.        *)
(*                                                                         *)
(* claude    ~/.claude/settings.json: whose endpoint it names, and  *)
(*           the rest, which is the user's                                 *)
(* codex     ~/.codex/config.toml, line by line                            *)
(* backup    the copies of both files taken before the first managed       *)
(*           write, and whether meta.json says they are complete           *)
(* creds     the node's credential file exists                             *)
(* desired   the clients the hub wants to configure: none while the tunnel *)
(*           is offline or no defaults are set                             *)
(* agent     the agent of the supervisor: "down", "idle", or at a step of  *)
(*           applying `job`                                                *)
(* leaving   the step of a running `leave`, or "no"                        *)
(* copied    history: what the files were when they were copied            *)
(* touched, relapsed  history: the fleet has written a file; a `leave` ran *)
(*           while the agent did                                           *)
(***************************************************************************)
EXTENDS Integers, Sequences, FiniteSets, SequencesExt

CONSTANTS Notes,      \* pieces of settings.json that are the user's
          MaxEdits    \* bound: edits by the user, and setups and resets

ASSUME ConfigAssumption == MaxEdits \in Nat

Clients == {"claude", "codex"}
Providers == {"cc-fleet", "copilot-reverse"}     \* the fleet's, and the local proxy's
Managed == {"model", "model_provider"}           \* the top-level keys that are rewritten

VARIABLES claude, codex, backup, creds, desired, agent, job, leaving, edits, copied, touched, relapsed

files == <<claude, codex>>
history == <<copied, touched, relapsed>>
vars == <<files, backup, creds, desired, agent, job, leaving, edits, history>>

-----------------------------------------------------------------------------
(* settings.json: only the entries of `env` that are ours are replaced.  A   *)
(* file that cannot be parsed counts as empty.                               *)

NoClaude == [state |-> "absent", owner |-> "none", notes |-> {}]
MergeEnv(f, who) ==
    [state |-> "ok", owner |-> who, notes |-> IF f.state = "ok" THEN f.notes ELSE {}]

\* resetClaude removes the entries, whoever wrote them; it leaves a broken file alone.
ResetEnv(f) == IF f.state = "ok" THEN [f EXCEPT !.owner = "none"] ELSE f

-----------------------------------------------------------------------------
(* config.toml: a sequence of keys and table headers.                        *)

Key(name, by) == [kind |-> "key", name |-> name, by |-> by]
Header(name) == [kind |-> "table", name |-> name, by |-> name]
TableOf(s, i) ==
    LET above == {j \in 1..i : s[j].kind = "table"}
    IN  IF above = {} THEN "top" ELSE s[CHOOSE j \in above : \A k \in above : k <= j].name
Nth(keep, n) == CHOOSE i \in keep : Cardinality({j \in keep : j < i}) = n - 1
Lines(s, keep) == [n \in 1..Cardinality(keep) |-> s[Nth(keep, n)]]
Top(s) == {i \in DOMAIN s : TableOf(s, i) = "top"}
Of(s, names) == {i \in DOMAIN s : s[i].kind = "key" /\ s[i].name \in names}

Ours(who) ==
    <<<<Key("model", who), Key("model_provider", who)>>, <<Header(who), Key("base_url", who)>>>>

\* Both writers put their keys in front of what stays at the top, and their table at the end.
Rewrite(s, drop, who) ==
    Ours(who)[1] \o Lines(s, Top(s) \ drop) \o Lines(s, DOMAIN s \ (Top(s) \cup drop)) \o Ours(who)[2]
Within(s, tables) == {i \in DOMAIN s : TableOf(s, i) \in tables}

\* The agent's applyCodex drops both providers' tables, and managed keys at the top only.
FleetToml_keepsTables(s) ==       \* only the keys replaced
    Rewrite(s, Top(s) \cap Of(s, Managed), "cc-fleet")
FleetToml_anywhere(s) ==          \* keys replaced in the user's tables too
    Rewrite(s, Within(s, Providers) \cup Of(s, Managed), "cc-fleet")
FleetToml(s) == Rewrite(s, Within(s, Providers) \cup (Top(s) \cap Of(s, Managed)), "cc-fleet")

\* The terminal's applyCodexToml drops its own table, and managed keys wherever they are.
LocalToml(s) == Rewrite(s, Within(s, {"copilot-reverse"}) \cup Of(s, Managed), "copilot-reverse")

NoCodex == [state |-> "absent", lines |-> << >>]
Toml(lines) == [state |-> "ok", lines |-> lines]

-----------------------------------------------------------------------------
UserTable == <<Header("user"), Key("model", "user")>>      \* a table of the user's with a model
\* An earlier release appended its keys at the end, where they belong to the user's last table.
Misplaced == <<Key("approval", "user"), Header("user"), Key("model", "copilot-reverse"),
               Key("model_provider", "copilot-reverse"), Header("copilot-reverse"), Key("base_url", "copilot-reverse")>>

Init ==
    /\ claude \in {NoClaude, [NoClaude EXCEPT !.state = "broken"],
                   [NoClaude EXCEPT !.state = "ok", !.owner = "user", !.notes = Notes]}
    /\ codex \in {NoCodex, Toml(<<Key("model", "user"), Key("approval", "user")>> \o UserTable), Toml(Misplaced)}
    /\ backup = [meta |-> "none", claude |-> NoClaude, codex |-> NoCodex]
    /\ creds = FALSE
    /\ desired = {}
    /\ agent = "down"
    /\ job = {}
    /\ leaving = "no"
    /\ edits = 0
    /\ copied = <<NoClaude, NoCodex>> /\ touched = FALSE /\ relapsed = FALSE

\* `join` writes the credential, brings the supervisor up and has it reload the node.
Join ==
    /\ ~creds /\ agent \in {"down", "idle"}
    /\ creds' = TRUE
    /\ agent' = "idle"
    /\ UNCHANGED <<files, backup, desired, job, leaving, edits, history>>

\* The supervisor starts; it has an agent if there is a credential.
Start ==
    /\ creds /\ agent = "down"
    /\ agent' = "idle"
    /\ relapsed' = (relapsed \/ leaving # "no")
    /\ UNCHANGED <<files, backup, creds, desired, job, leaving, edits, copied, touched>>

\* The hub: defaults are chosen, the tunnel comes and goes.
HubChanges ==
    /\ desired' \in SUBSET Clients \ {desired}
    /\ UNCHANGED <<files, backup, creds, agent, job, leaving, edits, history>>

-----------------------------------------------------------------------------
(* The agent: applyManagedClients.                                           *)

\* A state arrives (the hub sends it again on every connect).  Without clients nothing is done.
Receive_again ==       \* a fresh copy each time
    /\ agent = "idle" /\ desired # {}
    /\ job' = desired
    /\ agent' = "copy"
    /\ UNCHANGED <<files, backup, creds, desired, leaving, edits, history>>
Receive ==
    /\ agent = "idle" /\ desired # {}
    /\ job' = desired
    /\ agent' = IF backup.meta = "none" THEN "copy" ELSE "claude"
    /\ UNCHANGED <<files, backup, creds, desired, leaving, edits, history>>

\* snapshotOnce: both files are copied, then meta.json is written.  If that fails neither client
\* is touched.
Copy ==
    /\ agent = "copy"
    /\ \/ /\ backup' = [backup EXCEPT !.claude = claude, !.codex = codex]
          /\ copied' = files
          /\ agent' = "meta"
          /\ UNCHANGED job
       \/ /\ agent' = "idle" /\ job' = {}
          /\ UNCHANGED <<backup, copied>>
    /\ UNCHANGED <<files, creds, desired, leaving, edits, touched, relapsed>>
WriteMeta ==
    /\ agent = "meta"
    /\ backup' = [backup EXCEPT !.meta = "whole"]
    /\ agent' = "claude"
    /\ UNCHANGED <<files, creds, desired, job, leaving, edits, history>>

\* Each client for itself: skipped if not asked for, and a failure does not stop the other.  A
\* file is read and written in one synchronous call, here one step: what another process writes
\* in the microseconds between is overwritten.
FleetClaude ==
    /\ agent = "claude"
    /\ agent' = "codex"
    /\ \/ UNCHANGED <<claude, touched>>                              \* skipped, or failed
       \/ /\ "claude" \in job
          /\ claude' = MergeEnv(claude, "fleet")
          /\ touched' = TRUE
    /\ UNCHANGED <<codex, backup, creds, desired, job, leaving, edits, copied, relapsed>>
FleetCodex ==
    /\ agent = "codex"
    /\ agent' = "idle" /\ job' = {}
    /\ \/ UNCHANGED <<codex, touched>>
       \/ /\ "codex" \in job
          /\ codex' = Toml(FleetToml(codex.lines))
          /\ touched' = TRUE
    /\ UNCHANGED <<claude, backup, creds, desired, leaving, edits, copied, relapsed>>

\* The supervisor stops or crashes, in the latter case in the middle of a write.
Crash ==
    /\ agent # "down"
    /\ agent' = "down" /\ job' = {}
    /\ \/ UNCHANGED <<files, backup, touched>>
       \/ agent = "meta" /\ backup' = [backup EXCEPT !.meta = "torn"] /\ UNCHANGED <<files, touched>>
       \/ /\ agent = "claude" /\ "claude" \in job
          /\ claude' = [NoClaude EXCEPT !.state = "broken"]
          /\ touched' = TRUE
          /\ UNCHANGED <<codex, backup>>
       \/ /\ agent = "codex" /\ "codex" \in job
          /\ codex' = [state |-> "torn", lines |-> SubSeq(FleetToml(codex.lines), 1, 2)]
          /\ touched' = TRUE
          /\ UNCHANGED <<claude, backup>>
    /\ UNCHANGED <<creds, desired, leaving, edits, copied, relapsed>>

-----------------------------------------------------------------------------
(* Other processes.                                                          *)

\* `leave` puts the files back one after the other, removing one that was not there, and then
\* forgets the credential.  Without a readable meta.json it fails and the credential stays.  The
\* agent is not told.
Leave ==
    /\ leaving = "no" /\ creds /\ backup.meta = "whole"
    /\ leaving' = "claude"
    /\ relapsed' = (agent # "down")
    /\ UNCHANGED <<files, backup, creds, desired, agent, job, edits, copied, touched>>
LeaveClaude ==
    /\ leaving = "claude"
    /\ claude' = backup.claude
    /\ leaving' = "codex"
    /\ UNCHANGED <<codex, backup, creds, desired, agent, job, edits, history>>
LeaveCodex_keeps ==       \* the second file forgotten
    /\ leaving = "codex"
    /\ leaving' = "creds"
    /\ UNCHANGED <<files, backup, creds, desired, agent, job, edits, history>>
LeaveCodex ==
    /\ leaving = "codex"
    /\ codex' = backup.codex
    /\ leaving' = "creds"
    /\ UNCHANGED <<claude, backup, creds, desired, agent, job, edits, history>>
LeaveCreds ==
    /\ leaving = "creds"
    /\ creds' = FALSE
    /\ leaving' = "no"
    /\ UNCHANGED <<files, backup, desired, agent, job, edits, history>>

\* It fails or dies on the way, perhaps in the middle of a write; the credential stays.
LeaveCut ==
    /\ leaving # "no"
    /\ leaving' = "no"
    /\ \/ UNCHANGED files
       \/ /\ leaving = "claude" /\ backup.claude.state # "absent"
          /\ claude' = [NoClaude EXCEPT !.state = "broken"]
          /\ UNCHANGED codex
       \/ /\ leaving = "codex" /\ backup.codex.state # "absent"
          /\ codex' = [NoCodex EXCEPT !.state = "torn"]
          /\ UNCHANGED claude
    /\ UNCHANGED <<backup, creds, desired, agent, job, edits, history>>
Leaves == Leave \/ LeaveClaude \/ LeaveCodex \/ LeaveCreds \/ LeaveCut

Edit == edits < MaxEdits /\ edits' = edits + 1

LocalClaude ==
    /\ Edit
    /\ claude' = MergeEnv(claude, "local")
    /\ UNCHANGED <<codex, backup, creds, desired, agent, job, leaving, history>>
LocalCodex ==
    /\ Edit
    /\ codex' = Toml(LocalToml(codex.lines))
    /\ UNCHANGED <<claude, backup, creds, desired, agent, job, leaving, history>>
\* /reset-codex edits an .env file, not this one, and so changes nothing here.
ResetClaude ==
    /\ Edit
    /\ claude' = ResetEnv(claude)
    /\ UNCHANGED <<codex, backup, creds, desired, agent, job, leaving, history>>

Typed(lines) == [codex EXCEPT !.state = IF @ = "torn" THEN "torn" ELSE "ok", !.lines = lines]

\* The user writes settings of their own, repairing what is broken, or a key at the top, or a table.
UserEdits ==
    /\ Edit
    /\ \/ /\ \E n \in Notes : claude' = [claude EXCEPT !.state = "ok", !.notes = @ \cup {n}]
          /\ UNCHANGED codex
       \/ /\ "approval" \notin {codex.lines[i].name : i \in DOMAIN codex.lines}
          /\ codex' = Typed(<<Key("approval", "user")>> \o codex.lines)
          /\ UNCHANGED claude
       \/ /\ "user" \notin {codex.lines[i].name : i \in DOMAIN codex.lines}
          /\ codex' = Typed(codex.lines \o UserTable)
          /\ UNCHANGED claude
    /\ UNCHANGED <<backup, creds, desired, agent, job, leaving, history>>

Agent == Receive \/ Copy \/ WriteMeta \/ FleetClaude \/ FleetCodex
Local == LocalClaude \/ LocalCodex \/ ResetClaude
Next == Join \/ Start \/ HubChanges \/ Agent \/ Crash \/ Leaves \/ Local \/ UserEdits

Spec == Init /\ [][Next]_vars

-----------------------------------------------------------------------------
(* Properties. *)

Names(s, table) == {s[i].name : i \in {j \in DOMAIN s : s[j].kind = "key" /\ TableOf(s, j) = table}}
Tables == Providers \cup {"top", "user"}
FleetIn(f, s) == f.owner = "fleet" \/ \E i \in DOMAIN s : s[i].by = "cc-fleet"

\* Before the fleet first writes either file the originals of both are safe: the copies that `leave`
\* will put back were taken completely, whatever crashed in between, and are never replaced by what
\* the fleet has written itself (client-config.ts 22-32; restore puts back "the exact" files).
OriginalsAreSafe ==
    /\ touched => backup.meta # "none"
    /\ backup.meta # "none" => /\ <<backup.claude, backup.codex>> = copied
                               /\ ~FleetIn(backup.claude, backup.codex.lines)

\* A machine that has left the fleet carries nothing of the fleet any more, and stays so until it
\* joins again - if its agent was not running at the time (control.ts 384-392 does not stop it) -
\* however the user's and the terminal's writes fall between the steps of leaving, and however
\* often it was cut short before.
LeftIsLeft == ~creds /\ ~relapsed /\ touched => ~FleetIn(claude, codex.lines)

\* Rewriting keeps what is the user's, entry by entry and table by table - except all of a
\* settings.json that does not parse (apply.ts 37 says "non-destructive"), and, by the terminal's
\* setup, the managed names within the user's own tables (codex-toml.ts 32: "preserved verbatim").
UserContentSurvives ==
    [][/\ FleetClaude \/ Local => claude.notes \subseteq claude'.notes
       /\ FleetCodex => \A i \in DOMAIN codex.lines :
             /\ TableOf(codex.lines, i) \notin Providers
             /\ TableOf(codex.lines, i) = "top" => codex.lines[i].name \notin Managed
             => \E j \in DOMAIN codex'.lines : /\ codex'.lines[j] = codex.lines[i]
                                               /\ TableOf(codex'.lines, j) = TableOf(codex.lines, i)
       /\ LocalCodex => \A t \in {"top", "user"} :
             Names(codex.lines, t) \ Managed \subseteq Names(codex'.lines, t)]_vars

\* However the writers alternate, and whatever an earlier release left behind, config.toml is valid:
\* no table and no key of a table twice, and the chosen provider is one the file defines.
CodexIsValid ==
    LET s == codex.lines
        dup(i, j) == i # j /\ s[i].kind = s[j].kind /\ s[i].name = s[j].name
    IN  /\ \A i, j \in DOMAIN s :
              dup(i, j) => s[i].kind = "key" /\ TableOf(s, i) # TableOf(s, j)
        /\ codex.state = "ok" => \A i \in Top(s) \cap Of(s, {"model_provider"}) :
              \E j \in DOMAIN s : s[j] = Header(s[i].by)
=============================================================================
