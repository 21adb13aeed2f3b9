---------------------------- MODULE Conversation ----------------------------
(***************************************************************************)
(* A client's conversation with a model, through the worker.               *)
(*                                                                         *)
(* The client keeps the conversation in its own dialect and sends all of   *)
(* it with every request.  The worker translates it to canonical messages, *)
(* and those to the body of one of Copilot's two endpoints; the answer     *)
(* comes back the same way, and becomes part of the next request.          *)
(*                                                                         *)
(* What is said is known by its number: the i-th thing said has id i, a    *)
(* result has the id of its call.  A text that was joined from several has *)
(* all of their ids.                                                       *)
(*                                                                         *)
(* dialect   "messages" (Anthropic), "chat" or "responses"                 *)
(* offers    the client's tools: "function", "custom", "web" (search and   *)
(*           fetch, run by the gateway or by Copilot), "other" (a tool of  *)
(*           Anthropic's or OpenAI's own servers)                          *)
(* conv      the conversation as the client has it                         *)
(* whose     whose turn it is: the user's, the tools', the client's to     *)
(*           send ("ready"), or the model's ("sent")                       *)
(* wire      the request that is with Copilot                              *)
(* said      history: everything said, in the order it was said            *)
(* beside    history: what the user said in one message with results       *)
(***************************************************************************)
EXTENDS Integers, SequencesExt

CONSTANTS Catalog,    \* [endpoints, reasons, efforts] of each model, as discovered
          Wishes,     \* what clients ask of reasoning: [thinking, budget, effort]
          MaxPieces,  \* bound: pieces of one answer
          MaxSaid     \* bound: things said in all

NoEffort == -1
Efforts == 0..5       \* EFFORTS, by their place: from none to max

ASSUME ConversationAssumption ==
    /\ \A model \in Catalog : model.efforts \subseteq Efforts
    /\ \A wish \in Wishes : wish.effort \in Efforts \cup {NoEffort} /\ wish.budget \in Int
    /\ MaxPieces \in Nat /\ MaxSaid \in Nat

VARIABLES dialect, offers, conv, whose, wire, said, beside

vars == <<dialect, offers, conv, whose, wire, said, beside>>

-----------------------------------------------------------------------------
(* Blocks of a message, as the client has them and as the worker has them.   *)

Text(ids) == [kind |-> "text", ids |-> ids]
Image(id) == [kind |-> "image", id |-> id]
Thinking(id, opaque) == [kind |-> "thinking", id |-> id, opaque |-> opaque]
ToolUse(id, custom) == [kind |-> "tool_use", id |-> id, custom |-> custom]
ToolResult(id, images) == [kind |-> "tool_result", id |-> id, images |-> images]
Message(role, content) == [role |-> role, content |-> content]

Each(s, f(_)) == [i \in DOMAIN s |-> f(s[i])]
Concat(s, f(_)) == FlattenSeq(Each(s, f))
Select(s, test(_)) == Concat(s, LAMBDA e : IF test(e) THEN <<e>> ELSE << >>)
Only(content, kind) == Select(content, LAMBDA b : b.kind = kind)
Has(content, kind) == \E b \in Range(content) : b.kind = kind
TextIds(content) == Concat(Only(content, "text"), LAMBDA b : b.ids)
Joined(content) == IF Has(content, "text") THEN <<Text(TextIds(content))>> ELSE << >>

-----------------------------------------------------------------------------
(* From the client's dialect to canonical messages.                          *)

\* anthropicRequestToCanonical: a message with a result in it is a message of the tools.
FromAnthropic(m) == Message(IF Has(m.content, "tool_result") THEN "tool" ELSE m.role, m.content)

\* A role that is not known is the user's: "developer" is one.
KnownRole(role) == IF role \in {"system", "user", "assistant", "tool"} THEN role ELSE "user"

\* msgToCanonical: the texts joined, then the images, then the calls.
FromChat(m) ==
    IF m.role = "tool" THEN m
    ELSE Message(KnownRole(m.role), Joined(m.content) \o Only(m.content, "image")
                                                      \o Only(m.content, "tool_use"))

\* itemToMessage: every item is a message of its own.
FromResponses(item) == IF item.content[1].kind = "tool_result" THEN Message("tool", item.content)
                       ELSE Message(KnownRole(item.role), item.content)

FromClient(m) == CASE dialect = "messages" -> FromAnthropic(m)
                   [] dialect = "chat" -> FromChat(m)
                   [] dialect = "responses" -> FromResponses(m)
Canonical == Each(conv, FromClient)

\* mapTools, collectTools: a tool nobody would run is not offered.
Offered == offers \ {"other"}

\* resolveReasoning.
Budgeted(budget) == CASE budget <= 2048 -> 1 [] budget \in 2049..8192 -> 2
                      [] budget \in 8193..20000 -> 3 [] OTHER -> 5
Effort(wish) ==
    LET asked == IF wish.effort = NoEffort /\ wish.budget # NoEffort THEN Budgeted(wish.budget) ELSE wish.effort
    IN  CASE dialect = "responses" -> NoEffort
          [] dialect = "chat" -> wish.effort
          [] dialect = "messages" -> IF wish.thinking = "disabled" THEN NoEffort ELSE asked

\* clampEffort: the closest supported level, the first of two.
Distance(a, b) == IF a < b THEN b - a ELSE a - b
Clamped(effort, supported) ==
    IF effort = NoEffort \/ supported = {} \/ effort \in supported THEN effort
    ELSE CHOOSE e \in supported : \A f \in supported :
            \/ Distance(e, effort) < Distance(f, effort)
            \/ (Distance(e, effort) = Distance(f, effort) /\ e <= f)

-----------------------------------------------------------------------------
(* From canonical messages to Copilot.  A message on the wire has a role,    *)
(* the ids of its texts, images and thought, its calls, and the call it is   *)
(* the result of.                                                            *)

Blank(role) == [role |-> role, text |-> << >>, images |-> << >>, thought |-> << >>,
                calls |-> << >>, of |-> << >>, shown |-> FALSE]
IdsOf(content) == Each(content, LAMBDA b : b.id)

\* One thought a message: the last that is signed, or else the first.
Thoughts(content) == {i \in DOMAIN content : content[i].kind = "thinking"}
Thought_first(content) ==
    IF Thoughts(content) = {} THEN << >> ELSE <<content[Min(Thoughts(content))].id>>
Thought(content) ==
    LET signed == {i \in Thoughts(content) : content[i].opaque}
    IN  IF Thoughts(content) = {} THEN << >>
        ELSE <<content[IF signed # {} THEN Max(signed) ELSE Min(Thoughts(content))].id>>

\* toWireMessages: a message with results becomes one message for each of them, and no more.
Results_first(results) == SubSeq(results, 1, 1)
Results(results) == results
ToChat(m) ==
    IF Has(m.content, "tool_result")
    THEN Each(Results(Only(m.content, "tool_result")),
              LAMBDA r : [Blank("tool") EXCEPT !.of = <<r.id>>, !.shown = r.images])
    ELSE <<[Blank(m.role) EXCEPT
               !.text = TextIds(m.content),
               !.images = IdsOf(Only(m.content, "image")),
               !.calls = Each(Only(m.content, "tool_use"), LAMBDA b : ToolUse(b.id, FALSE)),
               !.thought = Thought(m.content)]>>

\* messageToItems: results, or else the calls one by one and then the text with the images.
\* Thoughts are not sent, and of the images of a result only that there were some.
ToItems(m) ==
    IF Has(m.content, "tool_result")
    THEN Each(Results(Only(m.content, "tool_result")), LAMBDA r : [Blank("tool") EXCEPT !.of = <<r.id>>])
    ELSE Each(Only(m.content, "tool_use"), LAMBDA b : [Blank("assistant") EXCEPT !.calls = <<b>>])
         \o IF Has(m.content, "text") \/ Has(m.content, "image")
            THEN <<[Blank(m.role) EXCEPT !.text = TextIds(m.content),
                                         !.images = IdsOf(Only(m.content, "image"))]>>
            ELSE << >>

\* canonicalToResponsesBody: what the system says becomes the instructions, in front.
ToResponses(messages) ==
    LET system == Select(messages, LAMBDA m : m.role = "system")
        others == Select(messages, LAMBDA m : m.role # "system")
    IN  (IF system = << >> THEN << >>
         ELSE <<[Blank("system") EXCEPT !.text = Concat(system, LAMBDA m : TextIds(m.content))]>>)
        \o Concat(others, ToItems)

\* buildBody, canonicalToResponsesBody: Copilot's own search exists on /responses only, and on
\* /chat every tool is a function.
ChatBody(model, wish) ==
    [to |-> "/chat/completions", model |-> model, wish |-> wish, body |-> Concat(Canonical, ToChat),
     tools |-> IF dialect = "responses" THEN Offered \ {"web"} ELSE Offered,
     effort |-> IF model.reasons THEN Clamped(Effort(wish), model.efforts) ELSE NoEffort]
ResponsesBody(model, wish) ==
    [to |-> "/responses", model |-> model, wish |-> wish, body |-> ToResponses(Canonical),
     tools |-> Offered, effort |-> Clamped(Effort(wish), model.efforts)]

-----------------------------------------------------------------------------
(* From Copilot's answer to the client's dialect.                            *)

\* What was said in one text, and the calls behind it.
Spoken(content) == Joined(content) \o Only(content, "tool_use")

\* handleMessages, whole: canonicalToAnthropicResponse keeps the order of the content.  Streamed:
\* one block for all the text of the turn, and the calls at its end; a thought behind the text
\* has a block behind it, which here is in front: no translation looks at where a thought stands.
ToAnthropic(content) == <<Message("assistant", content)>>
ToAnthropicStream(content) == <<Message("assistant", Only(content, "thinking") \o Spoken(content))>>

\* canonicalToOpenAIResponse joins the texts and has no place for thoughts.
ToOpenAI(content) == <<Message("assistant", Spoken(content))>>

\* canonicalToResponsesResponse: one item with all the text, then one for each call.
Items(blocks) == Each(blocks, LAMBDA b : Message("assistant", <<b>>))
ToResponsesOutput(content) == Items(Spoken(content))

\* ResponsesSSE: the items in the order they begin, the text in one.
Begun(content, i) ==
    CASE content[i].kind = "tool_use" -> <<content[i]>>
      [] content[i].kind = "text" /\ \A j \in 1..(i - 1) : content[j].kind # "text" -> Joined(content)
      [] OTHER -> << >>
ToResponsesStream(content) == Items(FlattenSeq([i \in DOMAIN content |-> Begun(content, i)]))

Received(content, streamed) ==
    CASE dialect = "messages" -> IF streamed THEN ToAnthropicStream(content) ELSE ToAnthropic(content)
      [] dialect = "chat" -> ToOpenAI(content)
      [] dialect = "responses" -> IF streamed THEN ToResponsesStream(content) ELSE ToResponsesOutput(content)

-----------------------------------------------------------------------------
NoWire == [to |-> "nowhere"]
New(n) == Len(said) + n

\* What a model may answer: on /responses it does not think aloud, and calls come as it made them.
Answerable == IF wire.to = "/responses"
         THEN {"text"} \cup (wire.tools \cap {"function", "custom"})
         ELSE {"signed", "unsigned", "text"}
              \cup (IF wire.tools \cap {"function", "custom"} # {} THEN {"function"} ELSE {})
Made(kind, id) == CASE kind = "text" -> Text(<<id>>)
                     [] kind \in {"signed", "unsigned"} -> Thinking(id, kind = "signed")
                     [] OTHER -> ToolUse(id, kind = "custom")

Tools == CASE dialect = "messages" -> {"function", "web", "other"}
           [] dialect = "chat" -> {"function"}
           [] dialect = "responses" -> {"function", "custom", "web", "other"}

\* The conversation begins with or without a word of the system; Codex says it as the developer.
Init ==
    /\ dialect \in {"messages", "chat", "responses"}
    /\ offers \in SUBSET Tools
    /\ \E role \in {"none", "system", "developer"} :
          /\ role = "developer" => dialect # "messages"
          /\ conv = IF role = "none" THEN << >> ELSE <<Message(role, <<Text(<<1>>)>>)>>
          /\ said = IF role = "none" THEN << >> ELSE <<Text(<<1>>)>>
    /\ whose = "user" /\ wire = NoWire /\ beside = {}

\* The user says something, and perhaps shows something.
Say ==
    /\ whose = "user"
    /\ \E shows \in BOOLEAN :
          LET content == <<Text(<<New(1)>>)>> \o IF shows THEN <<Image(New(2))>> ELSE << >>
          IN  /\ conv' = Append(conv, Message("user", content))
              /\ said' = said \o content
              /\ Len(said') <= MaxSaid
    /\ whose' = "ready"
    /\ UNCHANGED <<dialect, offers, wire, beside>>

\* The whole conversation is sent, to a model of the user's choice: to /responses only if the
\* model is known to be served there and nowhere else.
UsesResponses(model) == "/responses" \in model.endpoints /\ "/chat/completions" \notin model.endpoints
Send ==
    /\ whose = "ready"
    /\ \E model \in Catalog, wish \in Wishes :
          wire' = IF UsesResponses(model) THEN ResponsesBody(model, wish) ELSE ChatBody(model, wish)
    /\ whose' = "sent"
    /\ UNCHANGED <<dialect, offers, conv, said, beside>>

\* A refusal for the wrong endpoint is followed by a second attempt, if the model has the other.
Redirected ==
    /\ whose = "sent" /\ wire.to = "/chat/completions" /\ "/responses" \in wire.model.endpoints
    /\ wire' = ResponsesBody(wire.model, wire.wish)
    /\ UNCHANGED <<dialect, offers, conv, whose, said, beside>>

\* Any other refusal reaches the client, which may send once more.
Fails ==
    /\ whose = "sent"
    /\ wire' = NoWire /\ whose' = "ready"
    /\ UNCHANGED <<dialect, offers, conv, said, beside>>

\* Copilot answers, streaming or not.
Answer ==
    /\ whose = "sent"
    /\ \E n \in 0..MaxPieces, streamed \in BOOLEAN : \E kinds \in [1..n -> Answerable] :
          LET content == [i \in 1..n |-> Made(kinds[i], New(i))]
          IN  /\ Len(said) + n <= MaxSaid
              /\ conv' = conv \o Received(content, streamed)
              /\ said' = said \o content
              /\ whose' = IF Has(content, "tool_use") THEN "tools" ELSE "user"
    /\ wire' = NoWire
    /\ UNCHANGED <<dialect, offers, beside>>

\* The calls that have no result yet, in the order they were made.
HasResult(b) == \E r \in Range(said) : r.kind = "tool_result" /\ r.id = b.id
Pending == Select(said, LAMBDA b : b.kind = "tool_use" /\ ~HasResult(b))

\* The tools are done, in any order, and some show what they saw.  In Anthropic's dialect all
\* results are in one message, and what the user says meanwhile is in it too.
Return ==
    /\ whose = "tools"
    /\ \E backwards, shown, meanwhile \in BOOLEAN :
          LET calls == IF backwards THEN Reverse(Pending) ELSE Pending
              results == Each(calls, LAMBDA b : ToolResult(b.id, shown))
              words == IF meanwhile THEN <<Text(<<New(Len(results) + 1)>>)>> ELSE << >>
          IN  /\ meanwhile => dialect = "messages"
              /\ shown => dialect # "responses"
              /\ said' = said \o results \o words
              /\ Len(said') <= MaxSaid
              /\ beside' = beside \cup {i \in DOMAIN said' : i > New(Len(results))}
              /\ conv' = conv \o IF dialect = "messages" THEN <<Message("user", results \o words)>>
                                 ELSE Each(results, LAMBDA r : Message("tool", <<r>>))
    /\ whose' = "ready"
    /\ UNCHANGED <<dialect, offers, wire>>

Next == Say \/ Send \/ Redirected \/ Fails \/ Answer \/ Return

Spec == Init /\ [][Next]_vars

-----------------------------------------------------------------------------
(* Properties. *)

Sent == whose = "sent"

\* The messages behind the one at i are the results of its calls, each once.
Followed(body, i) ==
    LET calls == Each(body[i].calls, LAMBDA b : b.id)
        n == Len(calls)
    IN  /\ i + n <= Len(body)
        /\ \A j \in 1..n : body[i + j].role = "tool"
        /\ {body[i + j].of : j \in 1..n} = {<<c>> : c \in Range(calls)}

\* In the responses dialect every item of an answer is a message of its own, so a call that
\* something follows in its answer is apart from its result.
Apart == \E i \in 1..(Len(conv) - 1) : /\ dialect = "responses"
                                       /\ Has(conv[i].content, "tool_use")
                                       /\ conv[i + 1].role = "assistant"

\* Nothing is sent that Copilot is known to refuse: a call without its result right behind it, a
\* result without its call (adapter.ts 51-54), on /chat an effort to a model that does not reason
\* (adapter.ts 97-101), on either endpoint an effort that a model with known efforts does not
\* have (reasoning.ts 9-13), a tool without a name (responses-inbound.ts 88-93) - except that on
\* /chat a call that came through the responses dialect may be apart from its result.  Nothing
\* keeps an effort from a model without known efforts that is asked on /responses.
NothingRefused ==
    Sent =>
        /\ wire.to = "/chat/completions" /\ ~Apart =>
              \A i \in DOMAIN wire.body : /\ Followed(wire.body, i)
                                          /\ wire.body[i].role = "tool" =>
                                                \E j \in 1..(i - 1) : wire.body[i].of[1] \in
                                                    {b.id : b \in Range(wire.body[j].calls)}
        /\ wire.to = "/chat/completions" /\ ~wire.model.reasons => wire.effort = NoEffort
        /\ wire.effort = NoEffort \/ wire.model.efforts = {} \/ wire.effort \in wire.model.efforts
        /\ wire.tools \subseteq {"function", "custom", "web"}

\* What went through the worker once goes through it unchanged every time after: all that was
\* said is in the request, once and in its order, whatever model said it and hears it - except
\* what the user says beside results, which is dropped, and thoughts: on /chat each answer has
\* one, the last that was signed, and only Anthropic's dialect can keep them.
NothingIsLost ==
    Sent =>
        LET all(f(_)) == Concat(wire.body, f)
            spoken(kind) == Select([i \in DOMAIN said |-> i],
                                   LAMBDA i : said[i].kind = kind /\ i \notin beside)
        IN  /\ all(LAMBDA m : m.text) = spoken("text")
            /\ all(LAMBDA m : m.images) = spoken("image")
            /\ all(LAMBDA m : m.calls) = Each(spoken("tool_use"), LAMBDA i :
                    ToolUse(i, said[i].custom /\ wire.to = "/responses"))
            /\ all(LAMBDA m : m.of) = Each(spoken("tool_result"), LAMBDA i : said[i].id)
            /\ wire.to = "/chat/completions" =>
                  /\ \A m \in Range(wire.body) : m.of # << >> =>
                        m.shown = (\E b \in Range(said) : b = ToolResult(m.of[1], TRUE))
                  /\ \A m \in Range(conv) : Has(m.content, "thinking") =>
                        LET thoughts == {b \in Range(m.content) : b.kind = "thinking"}
                            signed == {t \in thoughts : t.opaque}
                            sent == {t \in thoughts : <<t.id>> \in {w.thought : w \in Range(wire.body)}}
                        IN  \E t \in thoughts : /\ sent = {t}
                                                /\ signed # {} => t \in signed
                                                /\ \A u \in signed : u.id <= t.id
=============================================================================
