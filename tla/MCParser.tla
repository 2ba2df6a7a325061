------------------------------ MODULE MCParser ------------------------------
(***************************************************************************)
(* Instances of Parser for TLC.  The whole vocabulary can be run only up   *)
(* to short files; each of the other alphabets leaves out what its runs do *)
(* not need and goes deep enough for whole programs.                       *)
(***************************************************************************)
EXTENDS Parser

WholeVocabulary == AllTokens

OfTypes(types) == {t \in AllTokens : t.type \in types}
Fits == {Literal("INTEGER", "fits")}
IntType == {TypeName("int")}

\* Several functions of two types with parameters, calling each other and
\* themselves.
FunctionTokens ==
    OfTypes({"FUNC", "SYMBOL", "PL", "PR", "COLON", "RETURN"})
    \cup IntType \cup {TypeName("float")} \cup Fits

\* Nested statements of one function, and expressions with parentheses,
\* operators and operands of two types.
BodyTokens ==
    OfTypes({"FUNC", "SYMBOL", "COLON", "BL", "BR", "IF", "ELSE", "DO", "WHILE",
             "BOOL", "ASSIGN", "NOT", "LOR", "PL", "PR"}) \cup IntType \cup Fits
=============================================================================
