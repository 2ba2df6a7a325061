CONSTANTS
    Letters = {"d", "o"}
    Digits = {"1"}
    Marks <- SomeMarks
    Keyword <- SomeKeyword
    MaxChars = 5
SPECIFICATION Spec
INVARIANTS TypeOK PositionsTrue
PROPERTIES ImplementsTokenStream LexReturns
