------------------------------- MODULE Lexer -------------------------------
(***************************************************************************)
(* Lexer/Lexer.cpp: the scanner, character by character, and its one token *)
(* of pushback.  An action is one call of fgetc() with what follows it; a  *)
(* character given back by ungetc() is only looked at.  `at` is the loop   *)
(* that lex() is in, "idle" outside of it.                                 *)
(*                                                                         *)
(* The file is chosen while it is read: past what was read before, fgetc() *)
(* yields any character or the end of the file.  A lexeme is the piece of  *)
(* the text between two places.  Blanks are " " and "\n": the others of    *)
(* isspace() are treated like " ".  The bytes are ASCII, which main() has  *)
(* looked at for a source file; 0xFF would be taken for EOF.               *)
(***************************************************************************)
EXTENDS Integers, Sequences, FiniteSets

CONSTANTS
    Letters, Digits,    \* the characters that isalpha(), isdigit() accept
    Marks,              \* the other characters the file may hold
    Keyword,            \* the type of each spelling that identifierOrKeyword()
                        \* tests for
    MaxChars            \* a bound on the length of the file

EOF == "EOF"

ASSUME CharsAssumption ==
    /\ Letters \cap Digits = {}
    /\ (Letters \cup Digits) \cap Marks = {}
    /\ EOF \notin Letters \cup Digits \cup Marks
    /\ "\n" \notin Letters \cup Digits

\* No character that the scanner has a branch for is one that isalpha() or
\* isdigit() accepts.
ASSUME PunctuationAssumption ==
    (Letters \cup Digits) \cap
        {" ", "#", ".", "(", ")", "{", "}", ",", ";", ":", "+", "-", "*", "/", "!", "=",
         "<", ">", "&", "|"} = {}

\* The types of tokens, and those that identifierOrKeyword() gives to spellings.
KeywordTypes == {"FUNC", "IF", "ELSE", "DO", "WHILE", "RETURN", "TYPE", "BOOL", "IO_PRINT"}
TokenType == KeywordTypes \cup
    {"EOF_TOKEN", "ERROR_TOKEN", "SYMBOL", "INTEGER", "FLOAT", "ADD", "MUL", "LAND", "LOR",
     "NOT", "ASSIGN", "CMP", "CMP_EQ", "PL", "PR", "BL", "BR", "COMMA", "SEMICOLON", "COLON"}

ASSUME KeywordAssumption == \A s \in DOMAIN Keyword : Keyword[s] \in KeywordTypes
ASSUME MaxCharsAssumption == MaxChars \in Nat

Chars == Letters \cup Digits \cup Marks
Alnum == Letters \cup Digits

VARIABLES
    text,       \* the characters read from the file so far
    ended,      \* fgetc() has met the end of the file
    pos,        \* how many of them are consumed
    line, col,  \* Lexer::line, Lexer::col
    saved,      \* Lexer::saved; a token of type EOF_TOKEN means none
    at,         \* the loop of lex() that reads the next character
    begin,      \* the place of the first character of the token
    type,       \* the local of number()
    given,      \* the token that lex() returned last
    tokens      \* history: the tokens scanned, with one EOF_TOKEN at most

file == <<text, ended, pos>>
position == <<line, col>>
scan == <<at, begin, type>>
client == <<saved, given, tokens>>
vars == <<file, position, scan, client>>

Token(kind, from, to, ln, cl) ==
    [type |-> kind, from |-> from, to |-> to, line |-> ln, col |-> cl]
NONE == Token("NONE", 0, 0, 0, 0)
Empty == saved.type = "EOF_TOKEN"
-----------------------------------------------------------------------------
(* The file                                                                *)

\* The next character of the file is c.
Upcoming(c) ==
    \/ /\ pos < Len(text)
       /\ c = text[pos + 1]
       /\ UNCHANGED <<text, ended>>
    \/ /\ pos = Len(text)
       /\ ~ended
       /\ Len(text) < MaxChars
       /\ c \in Chars
       /\ text' = Append(text, c)
       /\ UNCHANGED ended
    \/ /\ pos = Len(text)
       /\ c = EOF
       /\ ended' = TRUE
       /\ UNCHANGED text

fgetc(c) == Upcoming(c) /\ pos' = IF c = EOF THEN pos ELSE pos + 1

\* fgetc() and, for anything but EOF, ungetc().
look(c) == Upcoming(c) /\ UNCHANGED pos

Readable == Chars \cup {EOF}
-----------------------------------------------------------------------------
(* lex() returns                                                           *)

Return(token) ==
    /\ given' = token
    /\ tokens' = IF tokens # <<>> /\ tokens[Len(tokens)].type = "EOF_TOKEN"
                   THEN tokens ELSE Append(tokens, token)
    /\ at' = "idle"
    /\ UNCHANGED <<begin, type, saved>>

Goto(loop) == at' = loop /\ UNCHANGED <<begin, type, client>>

\* The pushed-back token.
lexSaved ==
    /\ at = "idle"
    /\ ~Empty
    /\ given' = saved
    /\ saved' = Token("EOF_TOKEN", 0, 0, 0, 0)
    /\ UNCHANGED <<file, position, scan, tokens>>

\* The parser gives back only the token it was given last, and only once.
unlex ==
    /\ at = "idle"
    /\ Empty
    /\ given # NONE
    /\ saved' = given
    /\ UNCHANGED <<file, position, scan, given, tokens>>
-----------------------------------------------------------------------------
(* Blanks and comments                                                     *)

\* lex() is about to look at the character c for the start of a token.
Start(c) ==
    /\ \/ at = "idle" /\ Empty
       \/ at = "start"
    /\ fgetc(c)

\* Mutant: columns are counted from 0.
whitespaceFromZero(c) ==
    IF c = "\n" THEN line' = line + 1 /\ col' = 0
                ELSE line' = line /\ col' = col + 1

\* Mutant: a new line goes on with the column of the one before.
whitespaceKeepsCol(c) ==
    IF c = "\n" THEN line' = line + 1 /\ col' = col
                ELSE line' = line /\ col' = col + 1

whitespace(c) ==
    IF c = "\n" THEN line' = line + 1 /\ col' = 1
                ELSE line' = line /\ col' = col + 1

Blanks == {" ", "\n"}

Blank ==
    /\ \E c \in Blanks : Start(c) /\ whitespace(c)
    /\ Goto("start")

Comment == Start("#") /\ Goto("comment") /\ UNCHANGED position

\* skipComment(): the first character is not looked at.
CommentFirst ==
    /\ at = "comment"
    /\ \E c \in Readable : fgetc(c)
    /\ Goto("comment.rest")
    /\ UNCHANGED position

\* Mutant: the loop stops only at the end of a line.
CommentRestToNewline ==
    /\ at = "comment.rest"
    /\ \E c \in Readable :
         /\ fgetc(c)
         /\ \/ c = "\n" /\ whitespace("\n") /\ Goto("start")
            \/ c # "\n" /\ Goto("comment.rest") /\ UNCHANGED position

\* The rest of the line, or of the file: a new line is counted for both.
CommentRest ==
    /\ at = "comment.rest"
    /\ \E c \in Readable :
         /\ fgetc(c)
         /\ \/ c \in {"\n", EOF} /\ whitespace("\n") /\ Goto("start")
            \/ c \notin {"\n", EOF} /\ Goto("comment.rest") /\ UNCHANGED position

EndOfFile ==
    /\ Start(EOF)
    /\ Return(Token("EOF_TOKEN", pos + 1, pos, line, col))
    /\ UNCHANGED position
-----------------------------------------------------------------------------
(* Names and numbers                                                       *)

\* The characters from the first one of the token to the last one consumed.
lexeme == SubSeq(text, begin, pos)

\* The token that ends at the last character consumed.
Ending(kind) == Token(kind, begin, pos, line, col - Len(lexeme))

\* The first character belongs to a longer token.
BeginToken ==
    /\ \E c \in Alnum :
         /\ Start(c)
         /\ at' = IF c \in Letters THEN "identifier" ELSE "number"
    /\ begin' = pos + 1
    /\ type' = "INTEGER"
    /\ col' = col + 1
    /\ UNCHANGED <<line, client>>

KeywordOrSymbol ==
    IF lexeme \in DOMAIN Keyword THEN Keyword[lexeme] ELSE "SYMBOL"

\* identifier() and identifierOrKeyword()
Identifier ==
    /\ at = "identifier"
    /\ \E c \in Readable :
         \/ c \in Alnum /\ fgetc(c) /\ col' = col + 1 /\ Goto("identifier")
         \/ c \notin Alnum /\ look(c) /\ Return(Ending(KeywordOrSymbol)) /\ UNCHANGED col
    /\ UNCHANGED line

\* number(): any number of dots.
Number ==
    /\ at = "number"
    /\ \E c \in Readable :
         \/ /\ c \in Digits \cup {"."}
            /\ fgetc(c)
            /\ col' = col + 1
            /\ type' = IF c = "." THEN "FLOAT" ELSE type
            /\ UNCHANGED <<at, begin, client>>
         \/ c \notin Digits \cup {"."} /\ look(c) /\ Return(Ending(type)) /\ UNCHANGED col
    /\ UNCHANGED line
-----------------------------------------------------------------------------
(* Marks                                                                   *)

\* The type of a mark by itself.
Alone(c) ==
    CASE c = "(" -> "PL"    [] c = ")" -> "PR"
      [] c = "{" -> "BL"    [] c = "}" -> "BR"
      [] c = "," -> "COMMA" [] c = ";" -> "SEMICOLON" [] c = ":" -> "COLON"
      [] c \in {"+", "-"} -> "ADD"
      [] c \in {"*", "/"} -> "MUL"
      [] c \in {"<", ">"} -> "CMP"
      [] c = "!" -> "NOT"   [] c = "=" -> "ASSIGN"
      [] OTHER -> "ERROR_TOKEN"

Doubled == {"&", "|"}
\* The marks that may be the first of two, with the second one.
Second(c) == IF c \in Doubled THEN c ELSE "="
Pairs == {"=", "!", "<", ">"} \cup Doubled
PairType(c) ==
    CASE c \in {"=", "!"} -> "CMP_EQ"
      [] c \in {"<", ">"} -> "CMP"
      [] c = "&"          -> "LAND"
      [] c = "|"          -> "LOR"

Singles == Marks \ (Pairs \cup Blanks \cup {"#"})

Mark ==
    /\ \E c \in Singles :
         Start(c) /\ Return(Token(Alone(c), pos + 1, pos + 1, line, col))
    /\ col' = col + 1
    /\ UNCHANGED line

BeginPair ==
    /\ \E c \in Pairs : Start(c)
    /\ at' = "pair"
    /\ begin' = pos + 1
    /\ UNCHANGED <<position, type, client>>

\* Mutant: the character after a single mark is not given back.
PairDrops ==
    /\ at = "pair"
    /\ LET first == text[begin]
       IN \E c \in Readable :
            /\ fgetc(c)
            /\ \/ /\ c = Second(first)
                  /\ col' = col + 2
                  /\ Return(Token(PairType(first), begin, begin + 1, line, col))
               \/ /\ c # Second(first)
                  /\ first \notin Doubled
                  /\ col' = col + 1
                  /\ Return(Token(Alone(first), begin, begin, line, col))
               \/ /\ c # Second(first)
                  /\ first \in Doubled
                  /\ col' = col + 2
                  /\ Return(Token("ERROR_TOKEN", begin, begin, line, col + 1))
    /\ UNCHANGED line

\* The second character is either the one expected or not part of the token.
\* For a lone & or | the column is counted twice, once before the token is
\* made.
Pair ==
    /\ at = "pair"
    /\ LET first == text[begin]
       IN \E c \in Readable :
            \/ /\ c = Second(first)
               /\ fgetc(c)
               /\ col' = col + 2
               /\ Return(Token(PairType(first), begin, begin + 1, line, col))
            \/ /\ c # Second(first)
               /\ first \notin Doubled
               /\ look(c)
               /\ col' = col + 1
               /\ Return(Token(Alone(first), begin, begin, line, col))
            \/ /\ c # Second(first)
               /\ first \in Doubled
               /\ look(c)
               /\ col' = col + 2
               /\ Return(Token("ERROR_TOKEN", begin, begin, line, col + 1))
    /\ UNCHANGED line
-----------------------------------------------------------------------------
Init ==
    /\ text = <<>>
    /\ ended = FALSE
    /\ pos = 0
    /\ line = 1
    /\ col = 1
    /\ saved = Token("EOF_TOKEN", 0, 0, 0, 0)
    /\ at = "idle"
    /\ begin = 0
    /\ type = "INTEGER"
    /\ given = NONE
    /\ tokens = <<>>

\* The calls that end a call of lex() or bring it closer to its end.
lex ==
    \/ Blank \/ Comment \/ CommentFirst \/ CommentRest \/ EndOfFile
    \/ BeginToken \/ Identifier \/ Number \/ Mark \/ BeginPair \/ Pair

Next == lexSaved \/ lex \/ unlex

\* Nothing blocks a call of lex(): the file is a regular one, in which
\* fgetc() always answers.
Spec == Init /\ [][Next]_vars /\ WF_vars(at # "idle" /\ lex)
-----------------------------------------------------------------------------
(* Properties                                                              *)

Tokens == [type : TokenType \cup {"NONE"}, from : Nat, to : Nat, line : Nat, col : Nat]

\* Every member holds a value of its C++ type, and places lie in the text.
TypeOK ==
    /\ text \in Seq(Chars)
    /\ ended \in BOOLEAN
    /\ pos \in 0..Len(text)
    /\ line \in Nat \ {0} /\ col \in Nat \ {0}
    /\ saved \in Tokens
    /\ at \in {"idle", "start", "comment", "comment.rest", "identifier",
               "number", "pair"}
    /\ begin \in 0..Len(text)
    /\ type \in {"INTEGER", "FLOAT"}
    /\ given \in Tokens
    /\ tokens \in Seq(Tokens)

\* The client gets the tokens of the text, each the longest possible, none
\* twice and none left out, except that one it gave back comes again; and the
\* end of the file only at its end.
Stream == INSTANCE TokenStream WITH back <- ~Empty
ImplementsTokenStream == Stream!Spec

Newlines(upto) == {i \in 1..upto : text[i] = "\n"}
LineOf(i) == 1 + Cardinality(Newlines(i - 1))
ColOf(i) == LET before == Newlines(i - 1)
            IN IF before = {} THEN i
               ELSE i - CHOOSE j \in before : \A k \in before : k <= j

\* A comment before i that may have taken a second line with it.
EmptyComment(i) == \E j \in 1..(i - 2) : text[j] = "#" /\ text[j + 1] = "\n"
\* A lone & or | on the line of token i, up to it.
Stray(i) ==
    \E j \in 1..i : /\ tokens[j].type = "ERROR_TOKEN"
                    /\ text[tokens[j].from] \in Doubled
                    /\ LineOf(tokens[j].from) = LineOf(tokens[i].from)

\* The line and column that a message gives for a token are where it starts,
\* whatever blanks, comments and tokens came before it.  Two things make
\* them wrong: the line count misses the second line of an empty comment, and
\* the column is one too far from a lone & or | on.
PositionsTrue ==
    \A i \in 1..Len(tokens) :
        LET t == tokens[i]
        IN t.type # "EOF_TOKEN" =>
             /\ EmptyComment(t.from) \/ t.line = LineOf(t.from)
             /\ Stray(i) \/ t.col = ColOf(t.from)

\* Each call of lex() comes back: every loop of it ends with the file.
LexReturns == at # "idle" ~> at = "idle"

\* The places between token i and the one before it.
Gap(i) == (IF i = 1 THEN 1 ELSE tokens[i - 1].to + 1)..(tokens[i].from - 1)

\* What LANGUAGE.md says of comments: what is skipped between two tokens is
\* blank or follows a # on its own line.
CommentsEndWithLine ==
    \A i \in 1..Len(tokens) : \A j \in Gap(i) :
        \/ text[j] \in Blanks
        \/ \E k \in 1..j : text[k] = "#" /\ \A l \in k..j : text[l] # "\n"
=============================================================================
