CONSTANTS
    Names = {f, g}
    Tokens <- FunctionTokens
    MaxTokens = 12
SPECIFICATION Spec
INVARIANTS FailuresAreReported
