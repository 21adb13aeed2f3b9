------------------------------ MODULE MCRouting ------------------------------
(* Ids of the kinds that matter: dotted and dashed spellings of one model, two numbers in either *)
(* order, GPT models with a large, a small and an untold window.                                 *)
EXTENDS Routing, TLC

MCTokens ==
    [id \in {"claude-opus-4.8", "claude-opus-4-8"} |-> {"claude", "opus", "4", "8"}]
    @@ [id \in {"claude-opus-4.5", "claude-opus-4-5", "claude-opus-5.4", "claude-opus-5-4"} |-> {"claude", "opus", "4", "5"}]
    @@ ("gpt-5.5" :> {"gpt", "5"}) @@ ("gpt-5.4" :> {"gpt", "5", "4"}) @@ ("gpt-4o" :> {"gpt", "4o"})
MCIds == DOMAIN MCTokens
MCClaude == {id \in MCIds : "claude" \in MCTokens[id]}
MCDashed ==
    [id \in MCIds |-> CASE id = "claude-opus-4.8" -> "claude-opus-4-8" [] id = "claude-opus-4.5" -> "claude-opus-4-5"
                        [] id = "claude-opus-5.4" -> "claude-opus-5-4" [] OTHER -> id]
MCWindow ==
    [id \in MCIds |-> CASE id \in {"gpt-5.5", "claude-opus-4.5"} -> "large" [] id = "gpt-4o" -> "unknown" [] OTHER -> "small"]
MCBuiltin == ("claude-opus-4-8" :> "gpt-5.5") @@ ("claude-opus-4.5" :> Nothing)
MCFallback == <<"gpt-4o", "claude-opus-4-8">>
MCLists == {<<"gpt-5.4">>, <<"gpt-5.5", "gpt-5.4", "gpt-4o">>, <<"claude-opus-4.8", "gpt-5.5", "gpt-5.4">>,
            <<"gpt-4o", "claude-opus-4.8", "claude-opus-4.5">>, <<"claude-opus-4.5", "claude-opus-5.4">>}
=============================================================================
