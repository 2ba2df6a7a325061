------------------------------- MODULE Token -------------------------------
(***************************************************************************)
(* The vocabulary shared by the lexer, the parser and the code generator:  *)
(* token types (Lexer/Token.h), tokens, and the static types of            *)
(* expressions (TType in Parser/AST/AST.h).                                *)
(*                                                                         *)
(* A token is its type and as much of its lexeme as the parser looks at:   *)
(* the name of a SYMBOL, the spelling of a TYPE, and whether std::stoi /   *)
(* std::stof accept the digits of a literal ("fits") or throw ("huge").    *)
(* Line and column only reach messages and are left out.  `+` and `-` are  *)
(* one token type (ADD) and so are `*` and `/` (MUL), as in the lexer.     *)
(***************************************************************************)

CONSTANT Names          \* the identifiers a program may use

NULL == "NULL"          \* the C++ null pointer; also "no lexeme"
ABSENT == "ABSENT"      \* a key that a std::map does not hold

\* TType: every expression node carries one.
Types == {"INTEGER", "FLOAT", "BOOL"}
UNDEFINED == "UNDEFINED"
TType == Types \cup {UNDEFINED}

\* The token types whose lexeme the parser never reads.
PlainTypes == {"ERROR_TOKEN", "BOOL", "ADD", "MUL", "LAND", "LOR", "NOT",
               "ASSIGN", "CMP", "CMP_EQ", "FUNC", "IF", "ELSE", "DO", "WHILE",
               "RETURN", "IO_PRINT", "PL", "PR", "BL", "BR", "COMMA",
               "SEMICOLON", "COLON"}

Plain(type) == [type |-> type, lexeme |-> NULL]
Symbol(name) == [type |-> "SYMBOL", lexeme |-> name]
TypeName(spelling) == [type |-> "TYPE", lexeme |-> spelling]
Literal(type, range) == [type |-> type, lexeme |-> range]

EOF == Plain("EOF_TOKEN")

\* Every token the lexer can return before the end of the file.
AllTokens ==
    {Plain(type) : type \in PlainTypes}
        \cup {Symbol(name) : name \in Names}
        \cup {TypeName(spelling) : spelling \in {"int", "float", "bool"}}
        \cup {Literal(type, range) : type \in {"INTEGER", "FLOAT"},
                                     range \in {"fits", "huge"}}

\* Parser::fromString: the TType a type name denotes.
fromString(spelling) ==
    CASE spelling = "int"   -> "INTEGER"
      [] spelling = "float" -> "FLOAT"
      [] spelling = "bool"  -> "BOOL"
      [] OTHER              -> UNDEFINED
=============================================================================
