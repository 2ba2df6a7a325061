CONSTANTS
    Names = {f, g}
    Tokens <- WholeVocabulary
    MaxTokens = 8
SPECIFICATION Spec
INVARIANTS TypeOK
PROPERTIES Termination
