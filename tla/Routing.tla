------------------------------ MODULE Routing ------------------------------
(***************************************************************************)
(* Which upstream model a request reaches.                                 *)
(*                                                                         *)
(* The worker reads the Claude map once, when it starts, and asks Copilot  *)
(* once for the models of the account; from both it lists models to        *)
(* clients and resolves the ids they ask for.  The dashboard and the       *)
(* terminal change the map's file and then have the worker restarted, in   *)
(* two steps.                                                              *)
(*                                                                         *)
(* file      claude-map.json: whether it parses, whether the map is on,    *)
(*           and the user's entry of each alias                            *)
(* worker    its life, and what it has read: the map, the list of ids, and *)
(*           whether that list is Copilot's or the fallback                *)
(* puts      changes of the dashboard whose restart is still to come       *)
(* tui       the terminal has saved a change and is about to restart       *)
(* stale     history: the file was changed and no restart follows - by     *)
(*           hand, or because the terminal's restart failed                *)
(***************************************************************************)
EXTENDS Naturals, FiniteSets, Sequences

CONSTANTS Ids,           \* model ids, of Copilot and of clients
          Tokens,        \* the words and numbers of an id, dates left out
          Claude,        \* those that begin with "claude-"
          Dashed,        \* the spelling of an id that Claude Code knows: of others, their own
          Window,        \* the context window Copilot tells of a model
          Known1M,       \* ids taken for large while Copilot has told nothing
          Aliases, Backends, Builtin,    \* the map: names, targets, recommended pairs
          Lists, Fallback,   \* what Copilot may list; the list if it cannot be asked
          Nothing, Disabled,
          MaxPuts        \* bound: changes of the dashboard under way

ASSUME RoutingAssumption ==
    /\ Aliases \cup Known1M \subseteq Claude /\ Backends \cup Claude \subseteq Ids
    /\ Dashed \in [Ids -> Ids] /\ \A id \in Ids : IF id \in Claude THEN Dashed[id] \in Claude ELSE Dashed[id] = id
    /\ Window \in [Ids -> {"large", "small", "unknown"}]
    /\ Builtin \in [Aliases -> Backends \cup {Nothing}]
    /\ {Nothing, Disabled} \cap Ids = {} /\ Fallback \notin Lists /\ <<>> \notin Lists
    /\ Lists \subseteq Seq(Ids)

\* An id has a word, and the same words whether dots or dashes part them (fuzzy.ts 9).
ASSUME TokensAssumption ==
    \A id \in Ids : Tokens[id] # {} /\ IsFiniteSet(Tokens[id]) /\ Tokens[Dashed[id]] = Tokens[id]

VARIABLES file, worker, puts, tui, stale

routingVars == <<file, worker, puts, tui, stale>>

Entries == [Aliases -> Backends \cup {Nothing, Disabled}]
NoEntries == [a \in Aliases |-> Nothing]
Maps == [on : BOOLEAN, user : {u \in Entries : \A a \in Aliases : u[a] # a}]

\* readClaudeMapConfig: a file that does not parse turns the map off.
Config == IF file.ok THEN [on |-> file.on, user |-> file.user] ELSE [on |-> FALSE, user |-> NoEntries]

In(list) == {list[i] : i \in DOMAIN list}
JustForked == [life |-> "forked", map |-> [on |-> FALSE, user |-> NoEntries], list |-> <<>>, live |-> FALSE]

RoutingInit ==
    /\ file \in [ok : {TRUE}, on : BOOLEAN, user : {NoEntries}]    \* absent: prefs.json says on or off
    /\ worker = JustForked
    /\ puts = 0 /\ tui = FALSE /\ stale = FALSE

-----------------------------------------------------------------------------
(* The router of a worker w.                                                 *)

\* effectiveClaudeMappings: the user's entry, or else the recommended one.
Effective(w, a) == IF w.map.user[a] = Nothing THEN Builtin[a] ELSE w.map.user[a]

\* The aliases that are routed: those whose target Copilot itself has listed, by exactly that id.
Available(w) == {a \in Aliases : w.map.on /\ w.live /\ Effective(w, a) \in In(w.list)}

\* Jaccard's similarity of two ids: common tokens over all tokens.
Common(a, b) == Cardinality(Tokens[a] \cap Tokens[b])
All(a, b) == Cardinality(Tokens[a] \cup Tokens[b])
Closest(id, list) ==
    {i \in DOMAIN list :
        /\ \A j \in DOMAIN list : Common(id, list[j]) * All(id, list[i]) <= Common(id, list[i]) * All(id, list[j])
        /\ 5 * Common(id, list[i]) >= 3 * All(id, list[i])}
BestMatch(id, list) ==
    IF id \in In(list) THEN id
    ELSE LET close == Closest(id, list)
         IN  IF close = {} THEN id ELSE list[CHOOSE i \in close : \A j \in close : i <= j]

\* An alias goes to its target as it is written, any other id to the closest one.
Resolve_closestFirst(w, id) ==       \* the alias only if no real model is close
    IF BestMatch(id, w.list) \in In(w.list) THEN BestMatch(id, w.list)
    ELSE IF id \in Available(w) THEN Effective(w, id) ELSE id
Resolve(w, id) == IF id \in Available(w) THEN Effective(w, id) ELSE BestMatch(id, w.list)

\* is1M: by what Copilot told of its models, or by the known ids if it told of no large one.
OneM(w) == {Dashed[m] : m \in {n \in In(w.list) : w.live /\ Window[n] = "large"}}
Is1M(w, d) == d \in (IF OneM(w) # {} THEN OneM(w) ELSE Known1M)

\* listAnthropicModels: the real models, of which only Claude's get a badge, and the aliases, each
\* in the place of a model of that name.
Models(w) == In(IF w.list = <<>> THEN Fallback ELSE w.list)
Mapped(w, a) ==
    [id |-> Dashed[a], large |-> IF Window[Effective(w, a)] = "unknown" THEN Dashed[a] \in Known1M
                                 ELSE Window[Effective(w, a)] = "large"]
Real(w, m) == [id |-> Dashed[m], large |-> m \in Claude /\ Is1M(w, Dashed[m])]
Listed(w) ==
    {r \in {Real(w, m) : m \in Models(w)} : r.id \notin Available(w)}
       \cup {Mapped(w, a) : a \in Available(w)}

-----------------------------------------------------------------------------
(* The worker.                                                               *)

\* Another process takes the worker's place.
Restarted_unlessLoading ==         \* one that is still starting is left alone
    worker' = IF worker.life = "loading" THEN worker ELSE JustForked
Restarted == worker' = JustForked

\* The module is loaded: the map is read, and Copilot is being asked.
Boot ==
    /\ worker.life = "forked"
    /\ worker' = [worker EXCEPT !.life = "loading", !.map = Config]
    /\ UNCHANGED <<file, puts, tui, stale>>

\* The answer: Copilot's list, or the fallback, or no token to ask with.
Discovered ==
    /\ worker.life = "loading"
    /\ \E l \in Lists \cup {Fallback, <<>>} :
          worker' = [worker EXCEPT !.life = "serving", !.list = l, !.live = l \in Lists]
    /\ UNCHANGED <<file, puts, tui, stale>>

\* It dies, and the monitor forks another.
DiesAndIsForked ==
    /\ worker.life # "forked"
    /\ worker' = JustForked /\ stale' = FALSE
    /\ UNCHANGED <<file, puts, tui>>

-----------------------------------------------------------------------------
(* Changes of the map.  A file that does not parse is never written over.    *)

Save(map) == file' = [ok |-> TRUE, on |-> map.on, user |-> map.user]

\* What each operation of the store makes of what it holds.
Enabled(on) == [on |-> on, user |-> file.user]
Upserted(a, e) == [on |-> file.on, user |-> [file.user EXCEPT ![a] = e]]
Removed(a) == Upserted(a, Nothing)
Emptied == [on |-> file.on, user |-> NoEntries]
Replace == \E map \in Maps : Save(map)

\* PUT and reset: the file is replaced; the restart waits for the new status to be put together.
Put ==
    /\ file.ok /\ puts < MaxPuts
    /\ Replace \/ Save(Emptied)
    /\ puts' = puts + 1
    /\ UNCHANGED <<worker, tui, stale>>
PutRestarts ==
    /\ puts > 0 /\ puts' = puts - 1
    /\ Restarted /\ stale' = FALSE
    /\ UNCHANGED <<file, tui>>

\* /claude-map on, off, set, disable, remove, reset.  What changes nothing is not restarted for.
Change(map) == map # Config /\ Save(map)
Command ==
    /\ file.ok /\ ~tui
    /\ \/ \E on \in BOOLEAN : Change(Enabled(on))
       \/ \E a \in Aliases : \/ \E e \in (Backends \cup {Disabled}) \ {a} : Change(Upserted(a, e))
                             \/ Change(Removed(a))
       \/ Change(Emptied)
    /\ tui' = TRUE
    /\ UNCHANGED <<worker, puts, stale>>
CommandRestarts ==
    /\ tui /\ tui' = FALSE
    /\ \/ Restarted /\ stale' = FALSE
       \/ UNCHANGED worker /\ stale' = TRUE       \* the supervisor did not answer
    /\ UNCHANGED <<file, puts>>

\* Somebody damages the file, or repairs it.
HandEdit ==
    /\ \/ file.ok /\ file' = [ok |-> FALSE, on |-> FALSE, user |-> NoEntries]
       \/ ~file.ok /\ \E map \in Maps : Save(map)
    /\ stale' = TRUE
    /\ UNCHANGED <<worker, puts, tui>>

RoutingNext ==
    \/ Boot \/ Discovered \/ DiesAndIsForked
    \/ Put \/ PutRestarts \/ Command \/ CommandRestarts \/ HandEdit

RoutingSpec == RoutingInit /\ [][RoutingNext]_routingVars

-----------------------------------------------------------------------------
(* Properties. *)

\* "Every successful management mutation restarts the Worker so the next process sees the new
\* snapshot": once no restart is under way, the worker serves the map that was saved last,
\* whoever saved when - unless the file was edited by hand or the terminal's restart failed.
SavedIsServed ==
    puts = 0 /\ ~tui /\ ~stale /\ worker.life # "forked" => worker.map = Config

\* Two ids with the same tokens: 4.5 and 5.4 (fuzzy.ts compares sets).
Twins(list) == \E a, b \in In(list) : a # b /\ Tokens[a] = Tokens[b]
\* Aliases with a dot are listed with a dash, and looked up with the dot.
Dotted(w) == {Dashed[a] : a \in {b \in Available(w) : Dashed[b] # b}}

\* What is listed from a live list can be asked for: it resolves to a model Copilot has, and a Claude
\* id, which may be an alias of another model, has the 1M badge iff that model is large - except an
\* alias with a dot, twins, and windows not told, or while Copilot tells of no large model at all.
ListedIsRouted ==
    worker.live /\ ~Twins(worker.list) =>
       \A e \in Listed(worker) :
          e.id \notin Dotted(worker) =>
             LET m == Resolve(worker, e.id)
             IN  /\ m \in In(worker.list)
                 /\ e.large => e.id \in Claude
                 /\ e.id \in Claude /\ Window[m] # "unknown" /\ OneM(worker) # {} =>
                       (e.large <=> Window[m] = "large")
=============================================================================
