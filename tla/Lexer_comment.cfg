CONSTANTS
    Letters = {"d"}
    Digits = {"1"}
    Marks <- CommentMarks
    Keyword <- SomeKeyword
    MaxChars = 5
SPECIFICATION Spec
INVARIANTS CommentsEndWithLine
