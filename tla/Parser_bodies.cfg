CONSTANTS
    Names = {f}
    Tokens <- BodyTokens
    MaxTokens = 12
SPECIFICATION Spec
INVARIANTS NullOnlyAfterError BracketsMatch
