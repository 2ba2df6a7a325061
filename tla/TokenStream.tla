---------------------------- MODULE TokenStream ----------------------------
(***************************************************************************)
(* What a client of Lexer relies on: the text of the file is cut into      *)
(* tokens from front to back, each the longest that starts where the       *)
(* blanks and comments after the one before it end; the client gets them   *)
(* in that order, the last one again each time it gives it back, and       *)
(* nothing but the end of the file after the end of the file.              *)
(*                                                                         *)
(* The text is known as far as the file was read.  A token is its type,    *)
(* its place in the text, and the line and column that it reports.         *)
(***************************************************************************)
EXTENDS Integers, Sequences

CONSTANTS
    Letters, Digits,    \* the characters of names and numbers
    Marks,              \* all other characters of the file
    Keyword             \* a function from spellings to token types

VARIABLES
    text,       \* what is known of the file
    ended,      \* and whether that is all of it
    tokens,     \* the tokens found so far
    given,      \* the token the client was given last
    back        \* the client has given it back

Chars == Letters \cup Digits \cup Marks
Spaces == {" ", "\n"}
NONE == [type |-> "NONE", from |-> 0, to |-> 0, line |-> 0, col |-> 0]
Only(S, s) == \A i \in 1..Len(s) : s[i] \in S
-----------------------------------------------------------------------------
(* Spellings                                                               *)

Operators == {<< <<"(">>, "PL">>, << <<")">>, "PR">>, << <<"{">>, "BL">>,
              << <<"}">>, "BR">>, << <<",">>, "COMMA">>, << <<";">>, "SEMICOLON">>,
              << <<":">>, "COLON">>, << <<"+">>, "ADD">>, << <<"-">>, "ADD">>,
              << <<"*">>, "MUL">>, << <<"/">>, "MUL">>, << <<"!">>, "NOT">>,
              << <<"=">>, "ASSIGN">>, << <<"<">>, "CMP">>, << <<">">>, "CMP">>,
              << <<"=", "=">>, "CMP_EQ">>, << <<"!", "=">>, "CMP_EQ">>,
              << <<"<", "=">>, "CMP">>, << <<">", "=">>, "CMP">>,
              << <<"&", "&">>, "LAND">>, << <<"|", "|">>, "LOR">>}

\* The type of the token that is spelled s, if it is one.  A mark that is
\* none is a token of its own, ERROR_TOKEN.
TypeOf(s) ==
    CASE s[1] \in Letters /\ Only(Letters \cup Digits, s) ->
           IF s \in DOMAIN Keyword THEN Keyword[s] ELSE "SYMBOL"
      [] s[1] \in Digits /\ Only(Digits \cup {"."}, s) ->
           IF Only(Digits, s) THEN "INTEGER" ELSE "FLOAT"
      [] \E op \in Operators : op[1] = s -> (CHOOSE op \in Operators : op[1] = s)[2]
      [] Len(s) = 1 /\ s[1] \in Marks /\ s \notin {op[1] : op \in Operators} -> "ERROR_TOKEN"
      [] OTHER -> "NONE"

\* No token that starts with s and continues in this text is longer than s.
Longest(s, txt, end, to) ==
    IF to < Len(txt) THEN TypeOf(Append(s, txt[to + 1])) = "NONE"
                     ELSE end \/ \A c \in Chars : TypeOf(Append(s, c)) = "NONE"
-----------------------------------------------------------------------------
(* Blanks and comments                                                     *)

\* The comment that starts at i ends with its line; one that is empty takes
\* the next line too (Lexer.cpp:17 reads a character and does not look at it).
Comment(txt, i) ==
    LET newlines == {j \in (i + 2)..Len(txt) : txt[j] = "\n"}
    IN i..(IF newlines = {} THEN Len(txt)
                            ELSE CHOOSE j \in newlines : \A k \in newlines : j <= k)

\* From place i to place j there are only spaces and whole comments.
Skipped(txt, i, j) ==
    \E starts \in SUBSET {k \in i..j : txt[k] = "#"} :
        /\ \A k, l \in starts : k # l => Comment(txt, k) \cap Comment(txt, l) = {}
        /\ \A k \in starts : Comment(txt, k) \subseteq i..j
        /\ \A k \in i..j : \/ txt[k] \in Spaces
                           \/ \E l \in starts : k \in Comment(txt, l)
-----------------------------------------------------------------------------
LastOf(s) == s[Len(s)]
Reached == IF tokens = <<>> THEN 0 ELSE LastOf(tokens).to

Init ==
    /\ text = <<>>
    /\ ended = FALSE
    /\ tokens = <<>>
    /\ given = NONE
    /\ back = FALSE

\* More of the file is read.
Grows ==
    /\ Len(text') >= Len(text)
    /\ SubSeq(text', 1, Len(text)) = text
    /\ ended => ended' /\ text' = text

Read == Grows /\ UNCHANGED <<tokens, given, back>>

\* The token from one place to another is the next one.
IsNext(from, to, type) ==
    /\ Skipped(text', Reached + 1, from - 1)
    /\ \/ /\ type = "EOF_TOKEN"
          /\ ended'
          /\ from = Len(text') + 1
          /\ to = Len(text')
       \/ /\ type = TypeOf(SubSeq(text', from, to))
          /\ type # "NONE"
          /\ Longest(SubSeq(text', from, to), text', ended', to)

Scan ==
    /\ Grows
    /\ ~back
    /\ tokens' # tokens
    /\ tokens # <<>> => LastOf(tokens).type # "EOF_TOKEN"
    /\ LET token == LastOf(tokens')
       IN /\ tokens' = Append(tokens, token)
          /\ token.from \in (Reached + 1)..(Len(text') + 1)
          /\ token.to \in (token.from - 1)..Len(text')
          /\ token.from <= token.to \/ token.type = "EOF_TOKEN"
          /\ IsNext(token.from, token.to, token.type)
          /\ given' = token
    /\ UNCHANGED back

\* The token that was given back, or the end of the file once more.
Again ==
    /\ tokens # <<>>
    /\ back \/ LastOf(tokens).type = "EOF_TOKEN"
    /\ given' = LastOf(tokens)
    /\ back' = FALSE
    /\ UNCHANGED <<text, ended, tokens>>

GiveBack ==
    /\ given # NONE
    /\ given = LastOf(tokens)
    /\ back' = TRUE
    /\ UNCHANGED <<text, ended, tokens, given>>

Spec == Init /\ [][Read \/ Scan \/ Again \/ GiveBack]_<<text, ended, tokens, given, back>>
=============================================================================
