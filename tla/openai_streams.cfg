SPECIFICATION StreamsSpec
CONSTANTS
    Lexemes <- Tags
    MaxLexemes = 3
    MaxArgs = 1
INVARIANTS CutsDoNotMatter NothingSwallowed ItemsAreComplete
CHECK_DEADLOCK FALSE
