--------------------------- MODULE OpenAIStreams ---------------------------
(***************************************************************************)
(* One streamed request to /openai/chat/completions or /openai/responses.  *)
(*                                                                         *)
(* Copilot's text arrives cut anywhere and goes through the extractor of   *)
(* tool calls; what comes out, and the calls Copilot sends as such, become *)
(* events of the endpoint.  The client puts the events together.           *)
(*                                                                         *)
(* endpoint  "chat" or "responses"                                         *)
(* speech, pos  what Copilot is going to say, and how much has arrived     *)
(* ext       the extractor: what it holds back, and whether as a block     *)
(* started   the native calls the adapter has announced                    *)
(* args      argsByIdx: fragments of each call's arguments, by its index   *)
(* sse       ResponsesSSE: the next output index, the index of the text    *)
(*           item, or NoItem, and all of its text, and the items of the    *)
(*           calls by their index                                          *)
(* found     calls recovered from the text so far; numbered from 100       *)
(* got       the client: the items by output index (for chat, in order of  *)
(*           appearance), what the last event said, whether an event did   *)
(*           not fit                                                       *)
(* early, loose, short   history: a chunk ended right behind the word      *)
(*           invoke, and more of the word followed; arguments came before  *)
(*           their call; Copilot did not finish, or was not heard out      *)
(***************************************************************************)
EXTENDS ToolXml

CONSTANTS Lexemes,    \* the pieces that texts are made of
          MaxLexemes, \* bound: of one text
          MaxArgs     \* bound: fragments of arguments

ASSUME StreamsAssumption == MaxLexemes \in Nat /\ MaxArgs \in Nat /\ Lexemes \subseteq Seq(Alphabet)

VARIABLES endpoint, speech, pos, ext, started, args, sse, found, got, early, loose, short

history == <<early, loose, short>>
streamVars == <<endpoint, speech, pos, ext, started, args, sse, found, got, history>>

NoItem == -1
Native == 0                  \* the index of Copilot's own call
Recovered100 == 100
Texts == UNION {{FlattenSeq(l) : l \in [1..n -> Lexemes]} : n \in 0..MaxLexemes}
Get(map, i) == IF i \in DOMAIN map THEN map[i] ELSE << >>
Put(map, i, value) == [j \in DOMAIN map \cup {i} |-> IF j = i THEN value ELSE map[j]]

-----------------------------------------------------------------------------
(* The client.  An item is a message or a call; `body` is what arrived of it *)
(* piece by piece, `final` what its end said it to be.                       *)

Item(kind, body) == [kind |-> kind, body |-> body, final |-> << >>, done |-> FALSE]
Fits(c, i) == i + 1 \in DOMAIN c.items /\ ~c.items[i + 1].done
Added(c, i, kind) ==
    [c EXCEPT !.items = Append(@, Item(kind, << >>)), !.bad = @ \/ i # Len(c.items)]
Piece(c, i, piece) ==
    IF Fits(c, i) THEN [c EXCEPT !.items[i + 1].body = @ \o piece] ELSE [c EXCEPT !.bad = TRUE]
Done(c, i, final) ==
    IF Fits(c, i) THEN [c EXCEPT !.items[i + 1] = [@ EXCEPT !.final = final, !.done = TRUE]]
    ELSE [c EXCEPT !.bad = TRUE]

StreamsInit ==
    /\ endpoint \in {"chat", "responses"}
    /\ speech \in Texts
    /\ pos = 0
    /\ ext = Idle
    /\ started = {}
    /\ args = << >>
    /\ sse = [next |-> 0, text |-> NoItem, all |-> << >>, calls |-> << >>]
    /\ found = 0
    /\ got = [items |-> << >>, end |-> "none", bad |-> FALSE]
    /\ early = FALSE /\ loose = FALSE /\ short = FALSE

Open == got.end = "none"

-----------------------------------------------------------------------------
(* What the worker keeps and sends.  x is [sse, args, got]; the operators    *)
(* below are the branches of the loop over chunks.                           *)

Kept == [sse |-> sse, args |-> args, got |-> got]

\* ResponsesSSE.text: the first piece opens the message item.
EmitText(x, piece) ==
    LET new == x.sse.text = NoItem
        i == IF new THEN x.sse.next ELSE x.sse.text
        c == IF new THEN Added(x.got, i, "message") ELSE x.got
    IN  [x EXCEPT !.sse.text = i, !.sse.next = IF new THEN @ + 1 ELSE @, !.sse.all = @ \o piece,
                  !.got = Piece(c, i, piece)]

\* ResponsesSSE.toolStart: an index is opened once.
EmitStart(x, index) ==
    IF index \in DOMAIN x.sse.calls THEN x
    ELSE [x EXCEPT !.sse.calls = Put(@, index, x.sse.next), !.sse.next = @ + 1,
                   !.got = Added(@, x.sse.next, "call")]

\* canonicalChunkToOpenAISSE: a fragment goes out with its index, and a client of /chat that
\* has not heard of the index opens a call for it.
ChatDelta(x, index, piece) ==
    LET y == EmitStart(x, index)
    IN  [y EXCEPT !.args = Put(@, index, Get(@, index) \o piece),
                  !.got = Piece(@, y.sse.calls[index], piece)]

\* /responses keeps fragments for the end in any case, and sends them on if the call is known.
Fragment(x, index, piece) ==
    IF index \in DOMAIN x.sse.calls THEN Piece(x.got, x.sse.calls[index], piece) ELSE x.got
EmitArgs_unkept(x, index, piece) ==
    IF endpoint = "chat" THEN ChatDelta(x, index, piece)
    ELSE [x EXCEPT !.got = Fragment(x, index, piece)]
EmitArgs(x, index, piece) ==
    IF endpoint = "chat" THEN ChatDelta(x, index, piece)
    ELSE [x EXCEPT !.args = Put(@, index, Get(@, index) \o piece), !.got = Fragment(x, index, piece)]

\* The adapter's toChunks: text as it is, a recovered call as a start and all of its arguments.
CallsOf(items) == FlattenSeq([i \in DOMAIN items |-> IF IsCall(items[i]) THEN <<items[i]>> ELSE << >>])
Chunk(kind, index, piece) == [kind |-> kind, index |-> index, piece |-> piece]
ToChunks(items, n) ==
    FlattenSeq([i \in DOMAIN items |->
        LET index == Recovered100 + n + Len(CallsOf(SubSeq(items, 1, i - 1)))
        IN  IF IsCall(items[i])
            THEN <<Chunk("start", index, << >>), Chunk("args", index, Tail(items[i]))>>
            ELSE <<Chunk("text", NoItem, items[i])>>])

\* The loop over chunks.
Emit(x, chunk) ==
    CASE chunk.kind = "text" -> EmitText(x, chunk.piece)
      [] chunk.kind = "start" -> EmitStart(x, chunk.index)
      [] chunk.kind = "args" -> EmitArgs(x, chunk.index, chunk.piece)
EmitAll(x, chunks) ==
    LET after[i \in 0..Len(chunks)] == IF i = 0 THEN x ELSE Emit(after[i - 1], chunks[i])
    IN  after[Len(chunks)]

\* ResponsesSSE.finish: the message and then the calls, in the order they were opened, are closed
\* with all of their content, and the response with them.
ArgsAtEnd(x, index) == Get(x.args, index)
Finished(x) ==
    LET close[n \in 0..x.sse.next] ==
            IF n = 0 THEN IF x.sse.text = NoItem THEN x.got ELSE Done(x.got, x.sse.text, x.sse.all)
            ELSE LET at == {index \in DOMAIN x.sse.calls : x.sse.calls[index] = n - 1}
                 IN  IF at = {} THEN close[n - 1]
                     ELSE Done(close[n - 1], n - 1, ArgsAtEnd(x, CHOOSE index \in at : TRUE))
    IN  [close[x.sse.next] EXCEPT !.end = "completed"]

\* The loop is left early: /responses is completed all the same, /chat just ends.
Cut(x) == IF endpoint = "responses" THEN Finished(x) ELSE [x.got EXCEPT !.end = "ended"]

\* After a chunk: the runaway guard trips or the deadline is past (`cut`), or the loop goes on.
After(x, cut) ==
    /\ sse' = x.sse /\ args' = x.args
    /\ IF cut
       THEN got' = Cut(x) /\ short' = TRUE
       ELSE got' = x.got /\ UNCHANGED short

-----------------------------------------------------------------------------
\* A piece of text arrives, of any length; the loop may be left after any chunk that comes of it.
Content ==
    /\ Open /\ pos < Len(speech)
    /\ \E n \in 1..(Len(speech) - pos) :
       \E e \in {Feed(ext, SubSeq(speech, pos + 1, pos + n))} :
       \E chunks \in {ToChunks(e.out, found)} :
            /\ pos' = pos + n
            /\ ext' = [e EXCEPT !.out = << >>]
            /\ found' = found + Len(CallsOf(e.out))
            /\ early' = (early \/ /\ e.capturing /\ e.buf \in Opening(Invoke)
                                  /\ pos + n < Len(speech) /\ speech[pos + n + 1] \in Words)
            /\ \/ After(EmitAll(Kept, chunks), FALSE)
               \/ \E k \in DOMAIN chunks : After(EmitAll(Kept, SubSeq(chunks, 1, k)), TRUE)
    /\ UNCHANGED <<endpoint, speech, started, loose>>

\* A call of Copilot's own: announced once it has a name.
NativeCall ==
    /\ Open /\ Native \notin started
    /\ started' = {Native}
    /\ \E cut \in BOOLEAN : After(EmitStart(Kept, Native), cut)
    /\ UNCHANGED <<endpoint, speech, pos, ext, found, early, loose>>

\* A fragment of its arguments.
NativeArgs ==
    /\ Open /\ Len(Get(args, Native)) < MaxArgs
    /\ loose' = (loose \/ Native \notin started)
    /\ \E cut \in BOOLEAN : After(EmitArgs(Kept, Native, <<"w">>), cut)
    /\ UNCHANGED <<endpoint, speech, pos, ext, started, found, early>>

\* Copilot's stream is over, at its end or before it: what the extractor still holds is text, one
\* chunk after which the loop may be left as after any other; then the response is completed.
Completes(x) ==
    /\ sse' = x.sse /\ args' = x.args
    /\ got' = IF endpoint = "responses" THEN Finished(x) ELSE [x.got EXCEPT !.end = "completed"]
    /\ short' = (short \/ pos < Len(speech))
EndOfStream ==
    /\ Open
    /\ \E chunks \in {ToChunks(Flush(ext).out, found)} :
         \/ Completes(EmitAll(Kept, chunks))
         \/ chunks # << >> /\ After(EmitAll(Kept, chunks), TRUE)
    /\ ext' = Idle
    /\ UNCHANGED <<endpoint, speech, pos, started, found, early, loose>>

\* It breaks off with an error: an error event, and the end.
Breaks ==
    /\ Open
    /\ got' = [got EXCEPT !.end = "error"]
    /\ UNCHANGED <<endpoint, speech, pos, ext, started, args, sse, found, history>>

StreamsNext == Content \/ NativeCall \/ NativeArgs \/ EndOfStream \/ Breaks

StreamsSpec == StreamsInit /\ [][StreamsNext]_streamVars

-----------------------------------------------------------------------------
(* Properties. *)

\* The text the client has, and the bodies of the calls it has.
MessageText(c) == FlattenSeq([i \in DOMAIN c.items |->
                                 IF c.items[i].kind = "message" THEN c.items[i].body ELSE << >>])
TextOf(items) == FlattenSeq([i \in DOMAIN items |-> IF IsCall(items[i]) THEN << >> ELSE items[i]])

\* However Copilot's text is cut, the client gets what it would have got of the whole text at
\* once, the same text and the same calls in the same order - except when a piece ends behind
\* "<invoke" and the word goes on in the next (tool-xml.ts 26-36 wants no dependence at all).
CutsDoNotMatter ==
    got.end = "completed" /\ ~short /\ ~early =>
        LET whole == Extract(speech)
            calls == [i \in 1..found |-> got.items[sse.calls[Recovered100 + i - 1] + 1].body]
        IN  /\ MessageText(got) = TextOf(whole)
            /\ calls = [i \in DOMAIN CallsOf(whole) |-> Tail(CallsOf(whole)[i])]

\* Nothing is swallowed: where no call was recovered, the client gets the text to the letter, also
\* unfinished and malformed blocks, and blocks without a name (95-97, 107-111).
NothingSwallowed ==
    got.end = "completed" /\ ~short /\ found = 0 => MessageText(got) = speech

\* A completed response is consistent: items have gapless indices, pieces belong to open items,
\* each is closed once, and its end repeats exactly the pieces that were sent - except arguments
\* that came before their call was announced, which only the end has.
ItemsAreComplete ==
    /\ ~got.bad
    /\ endpoint = "responses" /\ got.end = "completed" =>
          \A i \in DOMAIN got.items : /\ got.items[i].done
                                      /\ loose \/ got.items[i].final = got.items[i].body
=============================================================================
