------------------------------ MODULE Messages ------------------------------
(***************************************************************************)
(* One request to /anthropic/v1/messages, streamed or whole.               *)
(*                                                                         *)
(* The worker opens a stream to Copilot, turns its chunks into the blocks  *)
(* of an Anthropic message, runs the calls of gateway tools itself, feeds  *)
(* their results back and opens the next stream, a bounded number of       *)
(* times.  Text is forwarded as it comes; calls are held until the turn is *)
(* over, when it is known whose they are.  Copilot may send anything in    *)
(* any order, refuse, fail, break off, or never stop.                      *)
(*                                                                         *)
(* mode      "stream" or "whole" (the request's `stream` field)            *)
(* pc        "open": about to ask Copilot; "reading" its stream; "running" *)
(*           the gateway's tools; "done"                                   *)
(* iter      gateway rounds so far                                         *)
(* next      the next free block index; text, thinking: the indices of the *)
(*           turn's open blocks, or NoBlock                                *)
(* buffered  the calls of this turn, in order                              *)
(* finish    what the adapter will report as the reason of the turn's end  *)
(* route     the Copilot endpoint of this turn, "chat" or "responses"      *)
(* shots     the sizes of the screenshots in the conversation, oldest first *)
(* retried   the turn was already opened again after a 413                 *)
(* last, repeats, chars   the runaway guard, which spans the request       *)
(* expired   the request's deadline has passed                             *)
(* convo     the turns added to the conversation: the calls the assistant  *)
(*           message carries and the calls the tool message answers        *)
(* got       what the client has put together from the events it read:     *)
(*           the blocks, the stop reason, and whether an event did not fit *)
(* mixed, late, quiet   history: a whole response asked for tools of both  *)
(*           sides; reasoning came after text; the last frame was silent   *)
(* beat      flips with every frame, so that an endless stream is a        *)
(*           behaviour and not a standstill                                *)
(***************************************************************************)
EXTENDS Integers, Sequences, FiniteSets, SequencesExt

CONSTANTS MaxIters,     \* MAX_TOOL_ITERS
          MaxRepeats,   \* RunawayGuard.maxRepeats
          MaxChars,     \* RunawayGuard.maxOutputChars
          Budget,       \* bytes of screenshots the gateway has room for
          Sizes,        \* sizes of screenshots
          MaxShots,     \* bound: screenshots in the conversation
          Native,       \* indices Copilot gives the calls of a turn
          MaxBlocks     \* bound: blocks of reasoning and text in one request

ASSUME MessagesAssumption == /\ MaxIters \in Nat \ {0} /\ MaxRepeats \in Nat /\ MaxChars \in Nat
                             /\ Budget \in Nat /\ Sizes \subseteq Nat \ {0} /\ MaxShots \in Nat
                             /\ MaxBlocks \in Nat /\ Native \subseteq 0..99

NoBlock == -1
Gateway == {"web_search"}           \* run by the worker
Names == Gateway \cup {"edit"}      \* and a tool of the client
Extracted == 100                    \* where the adapter starts numbering calls found in text
Deltas == {"code", "more"}          \* two short pieces of text
Failures == {"authentication_error", "invalid_request_error", "api_error"}

VARIABLES mode, pc, iter, next, text, thinking, buffered, finish, route, shots, retried,
          last, repeats, chars, expired, convo, got, mixed, late, quiet, beat

turn == <<text, thinking, buffered, finish>>
guard == <<last, repeats, chars>>
history == <<mixed, late, quiet>>
messagesVars == <<mode, pc, iter, next, turn, route, shots, retried, guard, expired, convo, got, history, beat>>

-----------------------------------------------------------------------------
(* The client: it appends a block when one starts and looks blocks up by index. *)

Opens(c, i, kind) ==
    [c EXCEPT !.blocks = Append(@, [kind |-> kind, open |-> TRUE]),
              !.bad = @ \/ i # Len(c.blocks)]
HasOpen(c, i) == i + 1 \in DOMAIN c.blocks /\ c.blocks[i + 1].open
Delta(c, i, kind) == [c EXCEPT !.bad = @ \/ ~HasOpen(c, i) \/ c.blocks[i + 1].kind # kind]
Closes(c, i) ==
    IF HasOpen(c, i) THEN [c EXCEPT !.blocks[i + 1].open = FALSE] ELSE [c EXCEPT !.bad = TRUE]
Still(c) == {i \in DOMAIN c.blocks : c.blocks[i].open}
Ends(c, reason) == [c EXCEPT !.stop = reason, !.bad = @ \/ Still(c) # {}]

-----------------------------------------------------------------------------
(* What is sent to Copilot: screenshots are cleared oldest first until they fit. *)

Total(s) == FoldLeft(LAMBDA a, b : a + b, 0, s)
ClearOldest(s, budget) ==
    LET fits == {k \in 0..Len(s) : Total(SubSeq(s, k + 1, Len(s))) <= budget}
        cleared == CHOOSE k \in fits : \A j \in fits : k <= j
    IN  SubSeq(s, cleared + 1, Len(s))

MessagesInit ==
    /\ mode \in {"stream", "whole"}
    /\ pc = "open"
    /\ iter = 0 /\ next = 0
    /\ text = NoBlock /\ thinking = NoBlock /\ buffered = << >> /\ finish = "stop"
    /\ route = "chat"
    /\ \E n \in 0..MaxShots : \E s \in [1..n -> Sizes] : shots = ClearOldest(s, Budget)
    /\ retried = FALSE
    /\ last = "" /\ repeats = 0 /\ chars = 0
    /\ expired = FALSE
    /\ convo = << >>
    /\ got = [blocks |-> << >>, stop |-> "none", bad |-> FALSE]
    /\ mixed = FALSE /\ late = FALSE /\ quiet = FALSE
    /\ beat = FALSE

\* The answer that ends the request: an error status, or an error event once the stream is open.
Fail(why) ==
    /\ pc' = "done"
    /\ got' = [got EXCEPT !.stop = why]
    /\ UNCHANGED <<mode, iter, next, turn, route, shots, retried, guard, expired, convo, history, beat>>

\* Copilot takes the request, on the endpoint the model is known to speak.
OpenStream ==
    /\ mode = "stream" /\ pc = "open"
    /\ pc' = "reading"
    /\ UNCHANGED <<mode, iter, next, turn, route, shots, retried, guard, expired, convo, got, history, beat>>

\* 400 on /chat with a hint, for a model known to speak /responses: asked again there.
OtherEndpoint ==
    /\ pc = "open" /\ route = "chat"
    /\ route' = "responses"
    /\ UNCHANGED <<mode, pc, iter, next, turn, shots, retried, guard, expired, convo, got, history, beat>>

\* 413 before the first chunk: every screenshot goes, and the turn is opened once more.  Of
\* whole responses only the first of the request is tried again.
Retries == ~retried /\ (mode = "whole" => iter = 0)
TooLarge ==
    /\ pc = "open"
    /\ IF Retries
       THEN /\ shots' = ClearOldest(shots, 0)
            /\ retried' = TRUE
            /\ route' = "chat"
            /\ UNCHANGED <<mode, pc, iter, next, turn, guard, expired, convo, got, history, beat>>
       ELSE Fail("invalid_request_error")

\* Any other refusal, or no token, or no network.
Refused == pc = "open" /\ \E why \in Failures : Fail(why)
\* The stream breaks off with an error.
Breaks == pc = "reading" /\ Fail("api_error")

-----------------------------------------------------------------------------
(* The chunks of a streamed turn. *)

\* The end of a turn for the client: reasoning is closed first, then text.
CloseThinking(c) == IF thinking = NoBlock THEN c ELSE Closes(c, thinking)
CloseTurn(c, think, txt) ==
    LET c1 == IF think = NoBlock THEN c ELSE Closes(c, think)
    IN  IF txt = NoBlock THEN c1 ELSE Closes(c1, txt)

\* A turn that runs away ends the request as if the token limit was reached: calls are dropped.
CutOff(c) ==
    /\ pc' = "done"
    /\ got' = Ends(CloseTurn(c, thinking', text'), "max_tokens")
    /\ buffered' = << >>

\* What follows a chunk: the deadline is looked at after each of them.
AfterChunk_noDeadline(c, calls, trip) ==
    /\ beat' = ~beat /\ quiet' = FALSE
    /\ IF trip
       THEN CutOff(c)
       ELSE /\ got' = c
            /\ buffered' = calls
            /\ UNCHANGED pc
    /\ UNCHANGED <<mode, iter, route, shots, retried, expired, convo, mixed>>
AfterChunk(c, calls, trip) ==
    /\ beat' = ~beat /\ quiet' = FALSE
    /\ IF trip \/ expired
       THEN CutOff(c)
       ELSE /\ got' = c
            /\ buffered' = calls
            /\ UNCHANGED pc
    /\ UNCHANGED <<mode, iter, route, shots, retried, expired, convo, mixed>>

\* Reasoning, which the stream of /responses never yields.
ThinkChunk ==
    /\ mode = "stream" /\ pc = "reading" /\ route = "chat"
    /\ UNCHANGED <<text, finish, guard>>
    /\ IF thinking = NoBlock
       THEN /\ next < MaxBlocks
            /\ thinking' = next /\ next' = next + 1
            /\ AfterChunk(Opens(got, next, "thinking"), buffered, FALSE)
       ELSE /\ UNCHANGED <<thinking, next>>
            /\ AfterChunk(Delta(got, thinking, "thinking"), buffered, FALSE)
    /\ late' = (late \/ text # NoBlock)

\* RunawayGuard.push
Push(d) ==
    /\ chars' = chars + 1
    /\ repeats' = IF d = last THEN repeats + 1 ELSE 1
    /\ last' = d
Tripped == repeats' > MaxRepeats \/ chars' > MaxChars

TextChunk_keepsThinking ==       \* an open reasoning block left open
    /\ mode = "stream" /\ pc = "reading"
    /\ \E d \in Deltas : Push(d)
    /\ UNCHANGED thinking
    /\ IF text = NoBlock
       THEN /\ text' = next /\ next' = next + 1
            /\ AfterChunk(Opens(got, next, "text"), buffered, Tripped)
       ELSE /\ UNCHANGED <<text, next>>
            /\ AfterChunk(Delta(got, text, "text"), buffered, Tripped)
    /\ UNCHANGED <<finish, late>>
TextChunk ==
    /\ mode = "stream" /\ pc = "reading"
    /\ \E d \in Deltas : Push(d)
    /\ LET c == CloseThinking(got)
       IN  /\ thinking' = NoBlock
           /\ IF text = NoBlock
              THEN /\ text' = next /\ next' = next + 1
                   /\ AfterChunk(Opens(c, next, "text"), buffered, Tripped)
              ELSE /\ UNCHANGED <<text, next>>
                   /\ AfterChunk(Delta(c, text, "text"), buffered, Tripped)
    /\ UNCHANGED <<finish, late>>

\* A call: one of Copilot's, which may repeat its index, or one the adapter has found in the
\* text and numbers from 100.  Pieces of arguments change nothing the client can see yet.
Call(index, name) ==
    [id |-> index, name |-> name]
CallChunk ==
    /\ mode = "stream" /\ pc = "reading"
    /\ UNCHANGED <<text, next, guard, late>>
    /\ \E index \in Native \cup {Extracted}, name \in Names :
          LET known == \E b \in ToSet(buffered) : b.id = index
              calls == IF known THEN buffered ELSE Append(buffered, Call(index, name))
          IN  /\ index = Extracted => ~known
              /\ thinking' = NoBlock
              /\ finish' = IF index = Extracted /\ finish = "stop" THEN "tool_use" ELSE finish
              /\ AfterChunk(CloseThinking(got), calls, FALSE)

\* A frame of which the adapter makes no chunk, so that neither the guard nor the deadline is
\* looked at: text held back behind an opening tag, reasoning on /responses, no choice or delta.
SilentFrame ==
    /\ mode = "stream" /\ pc = "reading"
    /\ beat' = ~beat /\ quiet' = TRUE
    /\ UNCHANGED <<mode, pc, iter, next, turn, route, shots, retried, guard, expired, convo, got, mixed, late>>

\* Copilot names the reason.  A failure in the stream of /responses is a reason like another.
Reason ==
    /\ mode = "stream" /\ pc = "reading"
    /\ finish' \in {"stop", "length", "tool_use"} \cup (IF route = "responses" THEN {"error"} ELSE {})
    /\ UNCHANGED <<mode, pc, iter, next, text, thinking, buffered, route, shots, retried, guard,
                   expired, convo, got, history, beat>>

StopReason(f) == CASE f = "tool_use" -> "tool_use" [] f = "length" -> "max_tokens" [] OTHER -> "end_turn"

\* A turn that forwards calls says so, whatever Copilot gave as the reason.
StopOf(calls, f) == IF calls # << >> THEN "tool_use" ELSE StopReason(f)

\* The calls the worker answers itself.
Asked_alone(calls) ==        \* only if no call of the client came with them
    IF \A b \in ToSet(calls) : b.name \in Gateway THEN ToSet(calls) ELSE {}
Asked_withOthers(calls) ==   \* the calls of the client that came with them put into the message too
    IF \E b \in ToSet(calls) : b.name \in Gateway THEN ToSet(calls) ELSE {}
Asked(calls) == {b \in ToSet(calls) : b.name \in Gateway}

\* The stream of the turn ends, with [DONE] or without.  Gateway calls are run and the others
\* dropped; calls of the client alone are forwarded, each in a block of its own.
EndOfTurn ==
    /\ mode = "stream" /\ pc = "reading"
    /\ LET c == CloseTurn(got, thinking, text)
           blocks == [i \in 1..Len(buffered) |-> [kind |-> buffered[i].name, open |-> FALSE]]
       IN  IF Asked(buffered) # {}
           THEN /\ pc' = "running"
                /\ got' = c
                /\ convo' = Append(convo, [calls |-> Asked(buffered), results |-> {}])
                /\ UNCHANGED next
           ELSE /\ pc' = "done"
                /\ got' = Ends([c EXCEPT !.blocks = @ \o blocks, !.bad = @ \/ next # Len(c.blocks)],
                               StopOf(buffered, finish))
                /\ next' = next + Len(buffered)
                /\ UNCHANGED convo
    /\ text' = NoBlock /\ thinking' = NoBlock /\ buffered' = << >> /\ finish' = "stop"
    /\ UNCHANGED <<mode, iter, route, shots, retried, guard, expired, history, beat>>

-----------------------------------------------------------------------------
(* Running the gateway's tools: a failure is a result like another. *)

Answered(t) == [t EXCEPT !.results = {b \in t.calls : b.name \in Gateway}]
NextTurn ==
    /\ pc = "running"
    /\ convo' = [convo EXCEPT ![Len(convo)] = Answered(@)]
    /\ iter' = iter + 1
    /\ retried' = (mode = "whole" /\ retried)
    /\ route' = "chat"
    /\ IF mode = "stream" /\ iter' = MaxIters
       THEN pc' = "done" /\ got' = Ends(got, "end_turn")
       ELSE pc' = "open" /\ UNCHANGED got
    /\ UNCHANGED <<mode, next, turn, shots, guard, expired, history, beat>>

\* Time: the deadline passes.
Tick ==
    /\ mode = "stream" /\ ~expired /\ pc # "done"
    /\ expired' = TRUE
    /\ UNCHANGED <<mode, pc, iter, next, turn, route, shots, retried, guard, convo, got, history, beat>>

-----------------------------------------------------------------------------
(* A whole response. *)

\* What Copilot says and the reason it gives need not agree.
Replies == [text : BOOLEAN, names : SUBSET Names, finish : {"stop", "length", "tool_use"}]
Calls(r) == {Call(n, n) : n \in r.names}
Blocks(names, withText) ==
    [i \in 1..(IF withText THEN 1 ELSE 0) |-> [kind |-> "text", open |-> FALSE]]
       \o SetToSeq({[kind |-> n, open |-> FALSE] : n \in names})

\* While gateway calls are pending and rounds are left, the response is fed back and asked
\* again; then what is left of the gateway's calls is cut out of the answer.
Whole ==
    /\ mode = "whole" /\ pc = "open"
    /\ \E r \in Replies :
          IF r.names \cap Gateway # {} /\ iter < MaxIters
          THEN /\ pc' = "running"
               /\ convo' = Append(convo, [calls |-> Calls(r), results |-> {}])
               /\ mixed' = (mixed \/ ~(r.names \subseteq Gateway))
               /\ UNCHANGED got
          ELSE /\ pc' = "done"
               /\ got' = [got EXCEPT !.blocks = Blocks(r.names \ Gateway, r.text),
                                     !.stop = StopReason(r.finish)]
               /\ UNCHANGED <<convo, mixed>>
    /\ UNCHANGED <<mode, iter, next, turn, route, shots, retried, guard, expired, late, quiet, beat>>

Chunk == ThinkChunk \/ TextChunk \/ CallChunk
Reply == OpenStream \/ Chunk \/ SilentFrame \/ EndOfTurn \/ NextTurn \/ Whole
MessagesNext == Reply \/ OtherEndpoint \/ TooLarge \/ Refused \/ Breaks \/ Reason \/ Tick

\* Copilot goes on sending frames, with a chunk in them or not, or the connection ends (fetch
\* gives up on a silent one); time passes; tools return (they have time limits of their own).
MessagesFairness ==
    /\ WF_messagesVars(Tick)
    /\ WF_messagesVars(Chunk \/ SilentFrame \/ EndOfTurn \/ Breaks)
    /\ WF_messagesVars(OpenStream \/ Whole \/ TooLarge \/ Refused)
    /\ WF_messagesVars(NextTurn)

MessagesSpec == MessagesInit /\ [][MessagesNext]_messagesVars /\ MessagesFairness

-----------------------------------------------------------------------------
(* Properties. *)

\* The events of a stream make up a message: indices count from 0 without gaps across all turns,
\* a piece belongs to an open block of its kind, each block is closed once and before the end,
\* and blocks do not interleave - unless Copilot reasons after it has begun to answer
\* (anthropic-server.ts 130-141: "blocks are sequential, never interleaved").
WellFormed == ~got.bad /\ (late \/ Cardinality(Still(got)) <= 1)

\* A call of a gateway tool never reaches the client, which cannot handle it: not when a call of
\* the client came in the same turn, and not when the rounds are used up (187-193, 249-251).
GatewayToolsStayHere == \A i \in DOMAIN got.blocks : got.blocks[i].kind \notin Gateway

\* What is sent to Copilot next has a result for every call it contains - except after a whole
\* response that asked for tools of both sides, whose other calls are sent back unanswered (243).
CallsAreAnswered ==
    pc = "open" => \A i \in DOMAIN convo : convo[i].calls = convo[i].results \/ mixed

\* Every request is answered, also when Copilot streams text, reasoning or calls for ever, with silent
\* frames between them, asks for one search after the other, or refuses everything (40-48, 174-176) -
\* unless from some time on it sends nothing but frames of which the adapter makes no chunk.
EveryRequestEnds == <>(pc = "done") \/ <>[](pc = "reading" /\ quiet)

=============================================================================
