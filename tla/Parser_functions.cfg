CONSTANTS
    Names = {f, g}
    Tokens <- FunctionTokens
    MaxTokens = 15
SPECIFICATION Spec
INVARIANTS NoScopeLeak FuncsAreDefined LookaheadConsumed
PROPERTIES Monotone
