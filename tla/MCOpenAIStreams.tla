-------------------------- MODULE MCOpenAIStreams --------------------------
(* An instance of OpenAIStreams for TLC: tags in both forms, whole and broken. *)
EXTENDS OpenAIStreams

Tags == {<<"<", "n", "v", "a", ">">>,             \* <invoke name="...">
         <<"<", ":", "n", "v", "a", ">">>,        \* the same with its prefix
         <<"<", "/", "n", "v", ">">>,             \* </invoke>
         <<"<", "f", ">">>, <<"<", "/", "f", ">">>,
         <<"<", "n", "v">>,                       \* an invoke with no name
         <<"<", ":">>, <<"w">>}
=============================================================================
