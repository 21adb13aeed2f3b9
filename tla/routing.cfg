SPECIFICATION RoutingSpec
CONSTANTS
    Ids <- MCIds
    Tokens <- MCTokens
    Dashed <- MCDashed
    Claude <- MCClaude
    Window <- MCWindow
    Known1M = {"claude-opus-4-8"}
    Aliases = {"claude-opus-4-8", "claude-opus-4.5"}
    Backends = {"gpt-5.5", "gpt-5.4", "gpt-4o"}
    Builtin <- MCBuiltin
    Lists <- MCLists
    Fallback <- MCFallback
    Nothing = nothing
    Disabled = disabled
    MaxPuts = 2
INVARIANTS SavedIsServed ListedIsRouted
CHECK_DEADLOCK FALSE
