------------------------------ MODULE ToolXml ------------------------------
(***************************************************************************)
(* The recovery of tool calls that a model wrote into its text             *)
(* (core/tool-xml.ts).  Text is a sequence of atoms, each a piece of text  *)
(* that the code never looks into: "<", "/", ">", ":" (the prefix antml:), *)
(* "f" (function_calls), "n" and "v" (the halves of invoke, so that it can *)
(* be cut in the middle), "a" (a name attribute, after a space), "w" (any  *)
(* other word) and " " (anything else).  Output is a sequence of items, a  *)
(* piece of text being <<atom>> and a recovered call its body after "call".*)
(***************************************************************************)
EXTENDS Integers, Sequences, FiniteSets, SequencesExt

Alphabet == {"<", "/", ">", ":", "f", "n", "v", "a", "w", " "}
Ns == <<":">>
Invoke == <<"n", "v">>
Wrapper == <<"f">>
Words == {"f", "n", "v", "w", ":"}        \* atoms that begin with a word character
Prefixed(tag) == {tag, Ns \o tag}         \* with the namespace or without
Opening(tag) == {<<"<">> \o t : t \in Prefixed(tag)}
Closing(tag) == {<<"<", "/">> \o t \o <<">">> : t \in Prefixed(tag)}

Atoms(s) == [i \in DOMAIN s |-> <<s[i]>>]
Call(body) == <<"call">> \o body
IsCall(item) == item[1] = "call"
At(s, i, t) == i + Len(t) - 1 <= Len(s) /\ SubSeq(s, i, i + Len(t) - 1) = t
From(s, i) == SubSeq(s, i, Len(s))
Least(S) == CHOOSE i \in S : \A j \in S : i <= j
Greatest(S) == CHOOSE i \in S : \A j \in S : j <= i

\* Where a block begins: <function_calls>, or <invoke before the end of the word or of the buffer.
WrapperAt(s, i) == \E t \in Opening(Wrapper) : At(s, i, t \o <<">">>)
InvokeAt(s, i) ==
    \E t \in Opening(Invoke) :
       At(s, i, t) /\ (i + Len(t) <= Len(s) => s[i + Len(t)] \notin Words)
Triggers(s) == {i \in DOMAIN s : WrapperAt(s, i) \/ InvokeAt(s, i)}

\* The longest tail that may become an opening tag, and is held back.
PrefixTokens_bare == {<<"<">> \o Invoke, <<"<">> \o Wrapper \o <<">">>}   \* the prefixed tags forgotten
PrefixTokens == Opening(Invoke) \cup {t \o <<">">> : t \in Opening(Wrapper)}
HeldBack(s) ==
    Greatest({0} \cup {k \in 1..Len(s) : \E t \in PrefixTokens :
                                 k < Len(t) /\ From(s, Len(s) - k + 1) = SubSeq(t, 1, k)})

\* The first closing tag: where it begins, and the index just past it (0 if there is none).
Close(s, tag) ==
    LET closes(i) == {t \in Closing(tag) : At(s, i, t)}
        begins == {i \in DOMAIN s : closes(i) # {}}
        i == Least(begins)
    IN  IF begins = {} THEN <<0, 0>> ELSE <<i, i + Len(CHOOSE t \in closes(i) : TRUE)>>

\* The calls of a block: each opening tag with a name, up to the next closing tag.
Starts(s) == {i \in DOMAIN s : \E t \in Opening(Invoke) : At(s, i, t \o <<"a", ">">>)}
ParseInvokes(s) ==
    LET calls[at \in 1..(Len(s) + 1)] ==      \* those that begin at `at` or behind it
            LET starts == {i \in Starts(s) : at <= i}
                i == Least(starts)
                b == i + (IF s[i + 1] = ":" THEN 6 ELSE 5)
                e == Close(From(s, b), Invoke)
            IN  IF starts = {} \/ e[2] = 0 THEN << >>
                ELSE <<Call(SubSeq(s, b, b + e[1] - 2))>> \o calls[b + e[2] - 1]
    IN  calls[1]

\* A block that yields no call is passed on as it is.
Recovered_swallow(block) == ParseInvokes(block)
Recovered(block) ==
    LET calls == ParseInvokes(block) IN IF calls = << >> THEN Atoms(block) ELSE calls

\* One round of the loop of feed(): x.buf is what is held, x.capturing whether it is a block,
\* x.out the output.  First what precedes a block goes out, and then the block, if it is complete.
Capture(x) ==
    LET triggers == Triggers(x.buf)
        i == Least(triggers)
        keep == Len(x.buf) - HeldBack(x.buf)
    IN  IF x.capturing THEN x
        ELSE IF triggers = {}
             THEN [x EXCEPT !.out = @ \o Atoms(SubSeq(x.buf, 1, keep)), !.buf = From(@, keep + 1)]
             ELSE [x EXCEPT !.out = @ \o Atoms(SubSeq(x.buf, 1, i - 1)), !.buf = From(@, i),
                            !.capturing = TRUE]
Release(x) ==
    LET e == Close(x.buf, IF WrapperAt(x.buf, 1) THEN Wrapper ELSE Invoke)[2]
    IN  IF ~x.capturing \/ e = 0 THEN x
        ELSE [buf |-> From(x.buf, e), capturing |-> FALSE,
              out |-> x.out \o Recovered(SubSeq(x.buf, 1, e - 1))]
Round(x) == Release(Capture(x))

\* Every round but the last takes a block away, so there are no more than this.
Drain(x) ==
    LET after[n \in 0..(Len(x.buf) + 1)] == IF n = 0 THEN x ELSE Round(after[n - 1])
    IN  after[Len(x.buf) + 1]

Idle == [buf |-> << >>, capturing |-> FALSE, out |-> << >>]
Feed(x, chunk) == Drain([buf |-> x.buf \o chunk, capturing |-> x.capturing, out |-> << >>])
Flush(x) == [Idle EXCEPT !.out = Atoms(x.buf)]

\* What a whole response is turned into: one feed, then the flush.
Extract(s) == LET x == Feed(Idle, s) IN x.out \o Flush(x).out

=============================================================================
