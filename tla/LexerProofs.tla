---------------------------- MODULE LexerProofs ----------------------------
(***************************************************************************)
(* The lexer for any character sets, keywords and files: its variables     *)
(* keep their types, and the line and column of a token are where it       *)
(* starts, up to the two exceptions that PositionsTrue names.  And it      *)
(* implements TokenStream.                                                 *)
(*                                                                         *)
(* Lines and columns are counted again from the text, by operators that    *)
(* take the text as an argument, so that what is known of a piece of the   *)
(* text carries over to the longer text after a step.                      *)
(*                                                                         *)
(* The token stream describes a token at once, the scanner finds it        *)
(* character by character.  So the second invariant says at each point of  *)
(* lex() what was passed since the last token (Passed: blanks, and         *)
(* comments that are over) and what was read of the next one; and the      *)
(* branches of the scanner are shown to be those of TypeOf.                *)
(***************************************************************************)
EXTENDS Lexer, FiniteSetTheorems, SequenceTheorems, TLAPS
-----------------------------------------------------------------------------
(* Lines and columns of a text                                             *)

NewlinesIn(t, n) == {k \in 1..n : t[k] = "\n"}
LineIn(t, i) == 1 + Cardinality(NewlinesIn(t, i - 1))
LastNewline(t, i) == CHOOSE j \in NewlinesIn(t, i - 1) : \A k \in NewlinesIn(t, i - 1) : k <= j
ColIn(t, i) == IF NewlinesIn(t, i - 1) = {} THEN i ELSE i - LastNewline(t, i)
EmptyIn(t, i) == \E j \in 1..(i - 2) : t[j] = "#" /\ t[j + 1] = "\n"

\* One of the first n tokens is a lone & or | on that line.
StraysIn(t, toks, n, ln) ==
    \E j \in 1..n : /\ toks[j].type = "ERROR_TOKEN"
                    /\ t[toks[j].from] \in Doubled
                    /\ LineIn(t, toks[j].from) = ln

\* Token j reports the place where it starts.
TrueIn(t, toks, j) ==
    LET from == toks[j].from
    IN /\ EmptyIn(t, from) \/ toks[j].line = LineIn(t, from)
       /\ StraysIn(t, toks, j, LineIn(t, from)) \/ toks[j].col = ColIn(t, from)

\* These are the operators of the property.
LEMMA SamePositions ==
    /\ \A i : LineOf(i) = LineIn(text, i)
    /\ \A i : ColOf(i) = ColIn(text, i)
    /\ \A i : EmptyComment(i) <=> EmptyIn(text, i)
    /\ \A i : Stray(i) <=> StraysIn(text, tokens, i, LineIn(text, tokens[i].from))
<1>1. \A i : Newlines(i - 1) = NewlinesIn(text, i - 1)
  BY DEF Newlines, NewlinesIn
<1>2. \A i : LineOf(i) = LineIn(text, i)
  BY <1>1 DEF LineOf, LineIn
<1>3. \A i : ColOf(i) = ColIn(text, i)
  <2> SUFFICES ASSUME NEW i PROVE ColOf(i) = ColIn(text, i)
    OBVIOUS
  <2>1. Newlines(i - 1) = NewlinesIn(text, i - 1)
    BY <1>1
  <2> HIDE <1>1
  <2>2. LastNewline(text, i)
          = CHOOSE j \in Newlines(i - 1) : \A k \in Newlines(i - 1) : k <= j
    BY <2>1, Zenon DEF LastNewline
  <2> QED BY <2>1, <2>2 DEF ColOf, ColIn
<1>4. \A i : EmptyComment(i) <=> EmptyIn(text, i)
  BY DEF EmptyComment, EmptyIn
<1>5. \A i : Stray(i) <=> StraysIn(text, tokens, i, LineIn(text, tokens[i].from))
  BY <1>2, Zenon DEF Stray, StraysIn
<1> QED BY <1>2, <1>3, <1>4, <1>5

\* Two texts with a common beginning agree on what is in it.
LEMMA CommonText ==
    ASSUME NEW t, NEW u, NEW n \in Nat, \A k \in 1..n : u[k] = t[k],
           NEW i \in 1..(n + 1)
    PROVE  /\ LineIn(u, i) = LineIn(t, i)
           /\ ColIn(u, i) = ColIn(t, i)
           /\ EmptyIn(u, i) <=> EmptyIn(t, i)
<1>1. NewlinesIn(u, i - 1) = NewlinesIn(t, i - 1)
  BY DEF NewlinesIn
<1>2. EmptyIn(u, i) <=> EmptyIn(t, i)
  <2>1. \A j \in 1..(i - 2) : j \in 1..n /\ j + 1 \in 1..n
    OBVIOUS
  <2> QED BY <2>1 DEF EmptyIn
<1>3. LastNewline(u, i) = LastNewline(t, i)
  BY <1>1, Zenon DEF LastNewline
<1> QED BY <1>1, <1>2, <1>3, Zenon DEF LineIn, ColIn

\* A set of places has a last one.
LEMMA LastPlace ==
    ASSUME NEW n \in Nat, NEW S \in SUBSET (1..n), S # {}
    PROVE  \E m \in S : \A k \in S : k <= m
<1> DEFINE T == {n - k : k \in S}
<1>1. T \subseteq Nat /\ T # {}
  <2>1. \A k \in S : n - k \in Nat
    OBVIOUS
  <2>2. PICK k \in S : TRUE
    OBVIOUS
  <2>3. n - k \in T
    OBVIOUS
  <2> QED BY <2>1, <2>3
<1>2. PICK d \in T : \A e \in T : ~(<<e, d>> \in OpToRel(<, Nat))
  BY <1>1, WFMin, NatLessThanWellFounded
<1>3. \A e \in T : ~(e < d)
  BY <1>1, <1>2 DEF OpToRel
<1>4. PICK m \in S : d = n - m
  OBVIOUS
<1>5. \A k \in S : n - k \in T
  OBVIOUS
<1>6. \A k \in S : ~(n - k < n - m)
  BY <1>3, <1>4, <1>5
<1> QED BY <1>6

\* The last newline before a place is one.
LEMMA LastNewlineIs ==
    ASSUME NEW t, NEW i \in Nat \ {0}, NewlinesIn(t, i - 1) # {}
    PROVE  /\ LastNewline(t, i) \in NewlinesIn(t, i - 1)
           /\ \A k \in NewlinesIn(t, i - 1) : k <= LastNewline(t, i)
<1>1. NewlinesIn(t, i - 1) \in SUBSET (1..(i - 1)) /\ i - 1 \in Nat
  BY DEF NewlinesIn
<1>2. \E m \in NewlinesIn(t, i - 1) : \A k \in NewlinesIn(t, i - 1) : k <= m
  BY <1>1, LastPlace
<1> QED BY <1>2 DEF LastNewline

\* Lines and columns are numbers from 1.
LEMMA PositionsAreNumbers ==
    ASSUME NEW t, NEW i \in Nat \ {0}
    PROVE  LineIn(t, i) \in Nat \ {0} /\ ColIn(t, i) \in Nat \ {0}
<1>1. NewlinesIn(t, i - 1) \subseteq 1..(i - 1) /\ IsFiniteSet(1..(i - 1))
  BY FS_Interval DEF NewlinesIn
<1>2. Cardinality(NewlinesIn(t, i - 1)) \in Nat
  BY <1>1, FS_Subset, FS_CardinalityType
<1>3. LineIn(t, i) \in Nat \ {0}
  BY <1>2 DEF LineIn
<1>4. ColIn(t, i) \in Nat \ {0}
  BY <1>1, LastNewlineIs DEF ColIn
<1> QED BY <1>3, <1>4

\* A newline ends the line.
LEMMA AfterNewline ==
    ASSUME NEW t, NEW n \in Nat \ {0}, t[n] = "\n"
    PROVE  LineIn(t, n + 1) = LineIn(t, n) + 1 /\ ColIn(t, n + 1) = 1
<1>1. NewlinesIn(t, n) = NewlinesIn(t, n - 1) \cup {n}
  BY DEF NewlinesIn
<1>2. IsFiniteSet(NewlinesIn(t, n - 1)) /\ n \notin NewlinesIn(t, n - 1)
  <2>1. NewlinesIn(t, n - 1) \subseteq 1..(n - 1) /\ IsFiniteSet(1..(n - 1))
    BY FS_Interval DEF NewlinesIn
  <2> QED BY <2>1, FS_Subset
<1>3. Cardinality(NewlinesIn(t, n)) = Cardinality(NewlinesIn(t, n - 1)) + 1
  BY <1>1, <1>2, FS_AddElement
<1>4. n + 1 \in Nat \ {0} /\ (n + 1) - 1 = n
  OBVIOUS
<1>5. Cardinality(NewlinesIn(t, n - 1)) \in Nat
  BY <1>2, FS_CardinalityType
<1>6. LineIn(t, n + 1) = LineIn(t, n) + 1
  BY <1>3, <1>4, <1>5 DEF LineIn
<1>7. LastNewline(t, n + 1) = n
  <2>1. NewlinesIn(t, (n + 1) - 1) # {} /\ n \in NewlinesIn(t, (n + 1) - 1)
    BY <1>1, <1>4
  <2>2. LastNewline(t, n + 1) \in NewlinesIn(t, (n + 1) - 1) /\ n <= LastNewline(t, n + 1)
    BY <1>4, <2>1, LastNewlineIs
  <2>3. NewlinesIn(t, (n + 1) - 1) \subseteq 1..n
    BY DEF NewlinesIn
  <2> QED BY <2>2, <2>3
<1> QED BY <1>1, <1>4, <1>6, <1>7 DEF ColIn

\* A piece of text on one line moves the column by its length.
LEMMA OneLine ==
    ASSUME NEW t, NEW b \in Nat \ {0}, NEW n \in Nat, b <= n + 1,
           \A k \in b..n : t[k] # "\n"
    PROVE  /\ LineIn(t, n + 1) = LineIn(t, b)
           /\ ColIn(t, n + 1) = ColIn(t, b) + (n + 1 - b)
<1>1. NewlinesIn(t, n) = NewlinesIn(t, b - 1) /\ (n + 1) - 1 = n
  BY DEF NewlinesIn
<1>2. LineIn(t, n + 1) = LineIn(t, b)
  BY <1>1 DEF LineIn
<1>3. CASE NewlinesIn(t, n) = {}
  BY <1>1, <1>2, <1>3 DEF ColIn
<1>4. CASE NewlinesIn(t, n) # {}
  <2>1. LastNewline(t, n + 1) = LastNewline(t, b)
    BY <1>1 DEF LastNewline
  <2>2. LastNewline(t, b) \in NewlinesIn(t, b - 1)
    BY <1>1, <1>4, LastNewlineIs
  <2>3. LastNewline(t, b) \in Nat
    BY <2>2 DEF NewlinesIn
  <2>4. ColIn(t, n + 1) = (n + 1) - LastNewline(t, b) /\ ColIn(t, b) = b - LastNewline(t, b)
    BY <1>1, <1>4, <2>1 DEF ColIn
  <2> QED BY <1>2, <2>3, <2>4
<1> QED BY <1>2, <1>3, <1>4
-----------------------------------------------------------------------------
(* The inductive invariant                                                 *)

Inner == {"identifier", "number", "pair"}
InComment == {"comment", "comment.rest"}

\* Where the scanner stands: in a token, in a comment, at the end.
PlacesOK ==
    /\ ended => pos = Len(text)
    /\ at \in Inner => /\ ~ended
                       /\ begin \in 1..pos
                       /\ \A k \in begin..pos : text[k] # "\n"
    /\ at = "pair" => begin = pos /\ text[pos] \in Pairs
    /\ at \in {"identifier", "number"} => col > pos - begin + 1
    /\ at = "comment" => pos > 0 /\ text[pos] = "#"
    /\ tokens # <<>> /\ tokens[Len(tokens)].type = "EOF_TOKEN" => ended

\* The line and column of the next character are known.
PositionOK ==
    /\ ended \/ EmptyIn(text, pos + 1) \/ line = LineIn(text, pos + 1)
    /\ \/ ended \/ at \in InComment
       \/ StraysIn(text, tokens, Len(tokens), LineIn(text, pos + 1))
       \/ col = ColIn(text, pos + 1) - IF at = "pair" THEN 1 ELSE 0

\* So are those of the tokens scanned.
TokensOK ==
    \A j \in 1..Len(tokens) :
        tokens[j].type # "EOF_TOKEN" => tokens[j].from \in 1..pos /\ TrueIn(text, tokens, j)

ScanInv == TypeOK /\ PlacesOK /\ PositionOK /\ TokensOK
-----------------------------------------------------------------------------
(* The file                                                                *)

\* The text grows at its end and the place in it moves forward.
Grown ==
    /\ text' \in Seq(Chars)
    /\ Len(text) <= Len(text')
    /\ pos' \in pos..Len(text')
    /\ \A k \in 1..Len(text) : text'[k] = text[k]

LEMMA ReadOne ==
    ASSUME TypeOK, PlacesOK, NEW c, Upcoming(c)
    PROVE  /\ text' \in Seq(Chars) /\ Len(text) <= Len(text')
           /\ \A k \in 1..Len(text) : text'[k] = text[k]
           /\ ended' \in BOOLEAN
           /\ c = EOF => ended' /\ text' = text /\ pos = Len(text)
           /\ c # EOF => /\ ~ended /\ ~ended' /\ c \in Chars
                         /\ pos + 1 \in 1..Len(text') /\ text'[pos + 1] = c
<1>1. text \in Seq(Chars) /\ pos \in 0..Len(text) /\ (ended => pos = Len(text))
      /\ ended \in BOOLEAN
  BY DEF TypeOK, PlacesOK
<1>2. EOF \notin Chars
  BY CharsAssumption DEF Chars
<1>3. CASE pos < Len(text) /\ c = text[pos + 1] /\ UNCHANGED <<text, ended>>
  <2>1. c \in Chars /\ pos + 1 \in 1..Len(text) /\ ~ended
    BY <1>1, <1>3
  <2> QED BY <1>1, <1>2, <1>3, <2>1
<1>4. CASE pos = Len(text) /\ ~ended /\ c \in Chars /\ text' = Append(text, c) /\ UNCHANGED ended
  BY <1>1, <1>2, <1>4
<1>5. CASE pos = Len(text) /\ c = EOF /\ ended' = TRUE /\ UNCHANGED text
  BY <1>1, <1>5
<1> QED BY <1>3, <1>4, <1>5 DEF Upcoming

\* fgetc() of a character, of the end of the file, and a look at either.
LEMMA FgetcReads ==
    ASSUME TypeOK, PlacesOK, NEW c, fgetc(c)
    PROVE  /\ Grown /\ ended' \in BOOLEAN
           /\ c = EOF => ended' /\ text' = text /\ pos' = pos /\ pos' = Len(text')
           /\ c # EOF => /\ ~ended /\ ~ended' /\ c \in Chars
                         /\ pos' = pos + 1 /\ text'[pos'] = c
<1>1. pos \in 0..Len(text) /\ text \in Seq(Chars)
  BY DEF TypeOK
<1>2. Upcoming(c) /\ pos' = IF c = EOF THEN pos ELSE pos + 1
  BY DEF fgetc
<1> QED BY <1>1, <1>2, ReadOne DEF Grown

LEMMA LookReads ==
    ASSUME TypeOK, PlacesOK, NEW c, look(c)
    PROVE  Grown /\ pos' = pos /\ ended' \in BOOLEAN /\ (ended' => pos' = Len(text'))
<1>1. pos \in 0..Len(text) /\ text \in Seq(Chars)
  BY DEF TypeOK
<1>2. Upcoming(c) /\ pos' = pos
  BY DEF look
<1> QED BY <1>1, <1>2, ReadOne DEF Grown

\* A lone & or | stays one.
LEMMA StraysStay ==
    ASSUME ScanInv, Grown, NEW j \in 0..Len(tokens), NEW ln,
           tokens' \in Seq(Tokens), Len(tokens) <= Len(tokens'),
           \A k \in 1..Len(tokens) : tokens'[k] = tokens[k],
           StraysIn(text, tokens, j, ln)
    PROVE  StraysIn(text', tokens', j, ln)
<1>1. /\ pos \in 0..Len(text) /\ text \in Seq(Chars) /\ tokens \in Seq(Tokens)
  BY DEF ScanInv, TypeOK
<1>2. PICK k \in 1..j : /\ tokens[k].type = "ERROR_TOKEN"
                        /\ text[tokens[k].from] \in Doubled
                        /\ LineIn(text, tokens[k].from) = ln
  BY DEF StraysIn
<1>3. k \in 1..Len(tokens) /\ tokens'[k] = tokens[k] /\ tokens[k].from \in 1..pos
  BY <1>1, <1>2 DEF ScanInv, TokensOK
<1> DEFINE from == tokens[k].from
<1>4. pos \in Nat /\ from \in 1..(pos + 1) /\ \A l \in 1..pos : text'[l] = text[l]
  BY <1>1, <1>3 DEF Grown
<1> HIDE DEF from
<1>5. LineIn(text', from) = LineIn(text, from)
  BY <1>4, CommonText
<1>6. text'[tokens[k].from] = text[tokens[k].from]
  BY <1>3, <1>4
<1> QED BY <1>2, <1>3, <1>5, <1>6 DEF StraysIn, from

\* What is known of the text before a place stays known.
LEMMA StillTrue ==
    ASSUME ScanInv, Grown, NEW j \in 1..Len(tokens), tokens[j].type # "EOF_TOKEN",
           tokens' \in Seq(Tokens), Len(tokens) <= Len(tokens'),
           \A k \in 1..Len(tokens) : tokens'[k] = tokens[k]
    PROVE  tokens'[j].from \in 1..pos' /\ TrueIn(text', tokens', j)
<1>1. /\ pos \in 0..Len(text) /\ tokens[j].from \in 1..pos /\ TrueIn(text, tokens, j)
      /\ text \in Seq(Chars) /\ tokens \in Seq(Tokens)
  BY DEF ScanInv, TypeOK, TokensOK
<1> DEFINE from == tokens[j].from
<1>2. from \in 1..(pos + 1) /\ \A k \in 1..pos : text'[k] = text[k]
  BY <1>1 DEF Grown
<1>3. /\ LineIn(text', from) = LineIn(text, from)
      /\ ColIn(text', from) = ColIn(text, from)
      /\ EmptyIn(text', from) <=> EmptyIn(text, from)
  BY <1>1, <1>2, CommonText
<1>4. StraysIn(text, tokens, j, LineIn(text, from))
        => StraysIn(text', tokens', j, LineIn(text', from))
  BY <1>3, StraysStay
<1> QED BY <1>1, <1>3, <1>4 DEF TrueIn, Grown

\* One more character of the text.
LEMMA Forward ==
    ASSUME NEW t, NEW u, NEW n \in Nat, NEW m, m = n + 1, \A k \in 1..n : u[k] = t[k]
    PROVE  /\ LineIn(u, m) = LineIn(t, m)
           /\ ColIn(u, m) = ColIn(t, m)
           /\ EmptyIn(u, m) <=> EmptyIn(t, m)
           /\ u[m] # "\n" => LineIn(u, m + 1) = LineIn(t, m) /\ ColIn(u, m + 1) = ColIn(t, m) + 1
           /\ u[m] = "\n" => LineIn(u, m + 1) = LineIn(t, m) + 1 /\ ColIn(u, m + 1) = 1
           /\ EmptyIn(t, m) => EmptyIn(u, m + 1)
<1>1. m \in 1..(n + 1) /\ m \in Nat \ {0} /\ m + 1 - m = 1 /\ m <= m + 1
  OBVIOUS
<1>2. /\ LineIn(u, m) = LineIn(t, m)
      /\ ColIn(u, m) = ColIn(t, m)
      /\ EmptyIn(u, m) <=> EmptyIn(t, m)
  BY <1>1, CommonText
<1>3. ASSUME u[m] # "\n"
      PROVE  LineIn(u, m + 1) = LineIn(u, m) /\ ColIn(u, m + 1) = ColIn(u, m) + 1
  <2>1. \A k \in m..m : u[k] # "\n"
    BY <1>1, <1>3
  <2>2. LineIn(u, m + 1) = LineIn(u, m) /\ ColIn(u, m + 1) = ColIn(u, m) + (m + 1 - m)
    BY <1>1, <2>1, OneLine
  <2> QED BY <1>1, <2>2
<1>4. ASSUME u[m] = "\n"
      PROVE  LineIn(u, m + 1) = LineIn(u, m) + 1 /\ ColIn(u, m + 1) = 1
  BY <1>1, <1>4, AfterNewline
<1>5. EmptyIn(u, m) => EmptyIn(u, m + 1)
  BY <1>1 DEF EmptyIn
<1> QED BY <1>2, <1>3, <1>4, <1>5
-----------------------------------------------------------------------------
(* What a token adds                                                       *)

\* lex() returns a token.
LEMMA Returns ==
    ASSUME TypeOK, NEW token \in Tokens, Return(token)
    PROVE  /\ tokens' \in Seq(Tokens) /\ given' = token /\ at' = "idle"
           /\ UNCHANGED <<begin, type, saved>>
           /\ Len(tokens) <= Len(tokens') /\ \A k \in 1..Len(tokens) : tokens'[k] = tokens[k]
           /\ \/ /\ tokens' = tokens /\ tokens # <<>>
                 /\ tokens[Len(tokens)].type = "EOF_TOKEN"
              \/ Len(tokens') = Len(tokens) + 1 /\ tokens'[Len(tokens')] = token
<1>1. tokens \in Seq(Tokens)
  BY DEF TypeOK
<1>2. tokens' = tokens \/ tokens' = Append(tokens, token)
  BY DEF Return
<1>3. tokens' = tokens => tokens # <<>> /\ tokens[Len(tokens)].type = "EOF_TOKEN"
  <2>1. Append(tokens, token) # tokens
    BY <1>1
  <2> QED BY <2>1 DEF Return
<1> QED BY <1>1, <1>2, <1>3 DEF Return

\* The tokens that were scanned before, when no token is added.
LEMMA SameTokens ==
    ASSUME ScanInv, Grown, tokens' = tokens
    PROVE  TokensOK'
<1>1. /\ tokens' \in Seq(Tokens) /\ Len(tokens) <= Len(tokens')
      /\ \A k \in 1..Len(tokens) : tokens'[k] = tokens[k]
  BY DEF ScanInv, TypeOK
<1>2. SUFFICES ASSUME NEW j \in 1..Len(tokens), tokens[j].type # "EOF_TOKEN"
               PROVE  tokens'[j].from \in 1..pos' /\ TrueIn(text', tokens', j)
  BY DEF TokensOK
<1> QED BY <1>1, <1>2, StillTrue, Zenon

\* A token that is added reports its place, if the position was known.
LEMMA OneMoreToken ==
    ASSUME ScanInv, Grown, NEW token \in Tokens, Return(token),
           \/ token.type = "EOF_TOKEN"
           \/ /\ token.from \in 1..pos'
              /\ \/ EmptyIn(text', token.from)
                 \/ token.line = LineIn(text', token.from)
              /\ \/ StraysIn(text, tokens, Len(tokens), LineIn(text', token.from))
                 \/ token.type = "ERROR_TOKEN" /\ text'[token.from] \in Doubled
                 \/ token.col = ColIn(text', token.from)
    PROVE  TokensOK'
<1>1. /\ tokens \in Seq(Tokens) /\ tokens' \in Seq(Tokens) /\ Len(tokens) <= Len(tokens')
      /\ \A k \in 1..Len(tokens) : tokens'[k] = tokens[k]
      /\ \/ tokens' = tokens
         \/ Len(tokens') = Len(tokens) + 1 /\ tokens'[Len(tokens')] = token
  BY Returns DEF ScanInv, TypeOK
<1>2. CASE tokens' = tokens
  BY <1>2, SameTokens
<1>3. CASE Len(tokens') = Len(tokens) + 1 /\ tokens'[Len(tokens')] = token
  <2> DEFINE n == Len(tokens')
  <2>0. n \in Nat \ {0} /\ Len(tokens) \in 0..Len(tokens) /\ Len(tokens) \in 1..n \cup {0}
    BY <1>1, <1>3
  <2>1. ASSUME token.type # "EOF_TOKEN"
        PROVE  token.from \in 1..pos' /\ TrueIn(text', tokens', n)
    <3>1. token.from \in 1..pos' /\ tokens'[n] = token
      BY <1>3, <2>1
    <3>2. EmptyIn(text', token.from) \/ token.line = LineIn(text', token.from)
      BY <2>1
    <3>3. CASE StraysIn(text, tokens, Len(tokens), LineIn(text', token.from))
      <4>1. StraysIn(text', tokens', Len(tokens), LineIn(text', token.from))
        BY <1>1, <2>0, <3>3, StraysStay
      <4>2. StraysIn(text', tokens', n, LineIn(text', token.from))
        BY <1>1, <1>3, <4>1 DEF StraysIn
      <4> QED BY <3>1, <3>2, <4>2 DEF TrueIn
    <3>4. CASE token.type = "ERROR_TOKEN" /\ text'[token.from] \in Doubled
      <4>1. StraysIn(text', tokens', n, LineIn(text', token.from))
        BY <2>0, <3>1, <3>4 DEF StraysIn
      <4> QED BY <3>1, <3>2, <4>1 DEF TrueIn
    <3>5. CASE token.col = ColIn(text', token.from)
      BY <3>1, <3>2, <3>5 DEF TrueIn
    <3> QED BY <2>1, <3>3, <3>4, <3>5
  <2>2. ASSUME NEW j \in 1..n, tokens'[j].type # "EOF_TOKEN"
        PROVE  tokens'[j].from \in 1..pos' /\ TrueIn(text', tokens', j)
    <3>1. CASE j = n
      BY <1>3, <2>1, <2>2, <3>1
    <3>2. CASE j \in 1..Len(tokens)
      BY <1>1, <2>2, <3>2, StillTrue
    <3> QED BY <1>1, <1>3, <3>1, <3>2
  <2> QED BY <2>2 DEF TokensOK
<1> QED BY <1>1, <1>2, <1>3

\* A character that is read and belongs to no token yet.
LEMMA PositionForward ==
    ASSUME ScanInv, NEW c, c # EOF, fgetc(c), tokens' = tokens
    PROVE  /\ c # "\n" =>
                /\ LineIn(text', pos' + 1) = LineIn(text, pos + 1)
                /\ ColIn(text', pos' + 1) = ColIn(text, pos + 1) + 1
                /\ StraysIn(text, tokens, Len(tokens), LineIn(text, pos + 1))
                     => StraysIn(text', tokens', Len(tokens'), LineIn(text', pos' + 1))
           /\ c = "\n" =>
                /\ LineIn(text', pos' + 1) = LineIn(text, pos + 1) + 1
                /\ ColIn(text', pos' + 1) = 1
           /\ EmptyIn(text, pos + 1) => EmptyIn(text', pos' + 1)
           /\ ColIn(text, pos + 1) \in Nat /\ LineIn(text, pos + 1) \in Nat
<1>1. /\ pos \in Nat /\ pos + 1 \in Nat \ {0} /\ text \in Seq(Chars) /\ tokens \in Seq(Tokens)
      /\ pos <= Len(text) /\ Len(tokens) \in 0..Len(tokens) /\ Len(tokens) <= Len(tokens)
  BY DEF ScanInv, TypeOK
<1>2. Grown /\ pos' = pos + 1 /\ text'[pos + 1] = c
  BY FgetcReads DEF ScanInv
<1>3. \A k \in 1..pos : text'[k] = text[k]
  BY <1>1, <1>2 DEF Grown
<1>4. /\ c # "\n" => /\ LineIn(text', pos' + 1) = LineIn(text, pos + 1)
                     /\ ColIn(text', pos' + 1) = ColIn(text, pos + 1) + 1
      /\ c = "\n" => /\ LineIn(text', pos' + 1) = LineIn(text, pos + 1) + 1
                     /\ ColIn(text', pos' + 1) = 1
      /\ EmptyIn(text, pos + 1) => EmptyIn(text', pos' + 1)
  <2> SUFFICES ASSUME NEW t, t = text, NEW u, u = text', NEW p \in Nat, p = pos, NEW n, n = p + 1
               PROVE  /\ c # "\n" => LineIn(u, n + 1) = LineIn(t, n) /\ ColIn(u, n + 1) = ColIn(t, n) + 1
                      /\ c = "\n" => LineIn(u, n + 1) = LineIn(t, n) + 1 /\ ColIn(u, n + 1) = 1
                      /\ EmptyIn(t, n) => EmptyIn(u, n + 1)
    BY <1>1, <1>2
  <2>1. (\A k \in 1..p : u[k] = t[k]) /\ u[n] = c
    BY <1>2, <1>3
  <2> QED BY <2>1, Forward
<1>5. ASSUME StraysIn(text, tokens, Len(tokens), LineIn(text, pos + 1))
      PROVE  StraysIn(text', tokens', Len(tokens'), LineIn(text, pos + 1))
  BY <1>1, <1>2, <1>5, StraysStay
<1> QED BY <1>1, <1>4, <1>5, PositionsAreNumbers
-----------------------------------------------------------------------------
(* The actions that return no token                                        *)

\* Blanks and the # are characters.
LEMMA Spellings == (\A c \in Blanks : c # EOF) /\ "#" # EOF
BY Zenon DEF Blanks, EOF

\* A blank is skipped.
LEMMA BlankKeeps == ASSUME ScanInv, Blank PROVE ScanInv'
<1> USE DEF Blank, Start, Goto, client, whitespace
<1>1. PICK c \in Blanks : Start(c) /\ whitespace(c)
  OBVIOUS
<1>2. c # EOF /\ fgetc(c) /\ at \in {"idle", "start"} /\ at' = "start" /\ tokens' = tokens
  BY <1>1, Spellings
<1>3. /\ Grown /\ ~ended /\ ~ended' /\ ended' \in BOOLEAN /\ pos' = pos + 1
  BY <1>2, FgetcReads DEF ScanInv
<1>4. TypeOK /\ PlacesOK /\ PositionOK
  BY DEF ScanInv
<1>9. line' \in Nat \ {0} /\ col' \in Nat \ {0}
  BY <1>1, <1>4 DEF TypeOK
<1>5. TypeOK'
  BY <1>2, <1>3, <1>4, <1>9 DEF TypeOK, Grown
<1>6. PlacesOK'
  BY <1>2, <1>3, <1>4 DEF PlacesOK, Inner
<1>7. PositionOK'
  BY <1>1, <1>2, <1>3, <1>4, PositionForward DEF PositionOK, InComment, TypeOK
<1>8. TokensOK'
  BY <1>2, <1>3, SameTokens
<1> QED BY <1>5, <1>6, <1>7, <1>8 DEF ScanInv

\* A comment begins.
LEMMA CommentKeeps == ASSUME ScanInv, Comment PROVE ScanInv'
<1> USE DEF Comment, Start, Goto, client, position
<1>2. "#" # EOF /\ "#" # "\n" /\ fgetc("#") /\ at' = "comment" /\ tokens' = tokens
  BY Spellings
<1>3. /\ Grown /\ ~ended /\ ~ended' /\ ended' \in BOOLEAN /\ pos' = pos + 1 /\ text'[pos'] = "#"
  BY <1>2, FgetcReads DEF ScanInv
<1>4. TypeOK /\ PlacesOK /\ PositionOK
  BY DEF ScanInv
<1>5. TypeOK'
  BY <1>3, <1>4 DEF TypeOK, Grown
<1>6. PlacesOK'
  BY <1>2, <1>3, <1>4 DEF PlacesOK, Inner, TypeOK
<1>7. PositionOK'
  BY <1>2, <1>3, <1>4, PositionForward DEF PositionOK, InComment, TypeOK
<1>8. TokensOK'
  BY <1>2, <1>3, SameTokens
<1> QED BY <1>5, <1>6, <1>7, <1>8 DEF ScanInv

\* Its first character, which may be the end of its line.
LEMMA CommentFirstKeeps == ASSUME ScanInv, CommentFirst PROVE ScanInv'
<1> USE DEF CommentFirst, Goto, client, position
<1>1. PICK c \in Readable : fgetc(c)
  OBVIOUS
<1>2. at = "comment" /\ at' = "comment.rest" /\ tokens' = tokens
  OBVIOUS
<1>3. Grown /\ ended' \in BOOLEAN /\ (ended' => pos' = Len(text'))
  BY <1>1, FgetcReads DEF ScanInv
<1>4. TypeOK /\ PlacesOK /\ PositionOK
  BY DEF ScanInv
<1>5. TypeOK'
  BY <1>3, <1>4 DEF TypeOK, Grown
<1>6. PlacesOK'
  BY <1>1, <1>2, <1>3, <1>4, FgetcReads DEF PlacesOK, Inner, ScanInv
<1>7. PositionOK'
  <2>1. CASE c = EOF
    BY <1>1, <1>4, <2>1, <1>2, FgetcReads DEF PositionOK, InComment
  <2>2. CASE c # EOF /\ c # "\n"
    BY <1>1, <1>2, <1>4, <2>2, PositionForward, FgetcReads DEF PositionOK, InComment
  <2>3. CASE c # EOF /\ c = "\n"
    <3>1. pos' = pos + 1 /\ text'[pos + 1] = "\n" /\ pos > 0 /\ text'[pos] = "#" /\ pos \in Nat
      BY <1>1, <1>2, <1>3, <1>4, <2>3, FgetcReads DEF PlacesOK, TypeOK, Grown
    <3>2. EmptyIn(text', pos' + 1)
      BY <3>1 DEF EmptyIn
    <3> QED BY <1>2, <3>2 DEF PositionOK, InComment
  <2> QED BY <2>1, <2>2, <2>3
<1>8. TokensOK'
  BY <1>2, <1>3, SameTokens
<1> QED BY <1>5, <1>6, <1>7, <1>8 DEF ScanInv

\* The rest of a comment.
LEMMA CommentRestKeeps == ASSUME ScanInv, CommentRest PROVE ScanInv'
<1> USE DEF CommentRest, Goto, client, position, whitespace
<1>1. PICK c \in Readable :
        /\ fgetc(c)
        /\ \/ c \in {"\n", EOF} /\ line' = line + 1 /\ col' = 1 /\ at' = "start"
           \/ c \notin {"\n", EOF} /\ at' = "comment.rest" /\ UNCHANGED <<line, col>>
  OBVIOUS
<1>2. at = "comment.rest" /\ UNCHANGED <<begin, type, saved, given, tokens>>
  OBVIOUS
<1>3. Grown /\ ended' \in BOOLEAN /\ (ended' => pos' = Len(text'))
  BY <1>1, FgetcReads DEF ScanInv
<1>4. TypeOK /\ PlacesOK /\ PositionOK
  BY DEF ScanInv
<1>5. TypeOK'
  <2>1. line' \in Nat \ {0} /\ col' \in Nat \ {0} /\ at' \in {"start", "comment.rest"}
    BY <1>1, <1>4 DEF TypeOK
  <2> QED BY <1>2, <1>3, <1>4, <2>1 DEF TypeOK, Grown
<1>6. PlacesOK'
  BY <1>1, <1>2, <1>3, <1>4, FgetcReads DEF PlacesOK, Inner, ScanInv
<1>7. PositionOK'
  <2>1. CASE c = EOF
    BY <1>1, <1>4, <2>1, <1>2, FgetcReads DEF PositionOK, InComment
  <2>2. CASE c # EOF /\ c # "\n"
    BY <1>1, <1>2, <1>4, <2>2, PositionForward, FgetcReads DEF PositionOK, InComment
  <2>3. CASE c # EOF /\ c = "\n"
    <3>1. /\ LineIn(text', pos' + 1) = LineIn(text, pos + 1) + 1
          /\ ColIn(text', pos' + 1) = 1
          /\ EmptyIn(text, pos + 1) => EmptyIn(text', pos' + 1)
          /\ line' = line + 1 /\ col' = 1 /\ at' = "start" /\ ~ended
      BY <1>1, <1>2, <2>3, PositionForward, FgetcReads DEF ScanInv
    <3> QED BY <1>4, <3>1 DEF PositionOK
  <2> QED BY <2>1, <2>2, <2>3
<1>8. TokensOK'
  BY <1>2, <1>3, SameTokens
<1> QED BY <1>5, <1>6, <1>7, <1>8 DEF ScanInv

\* The first character of a name, a number or a mark that may be two.
LEMMA TokenBegins ==
    ASSUME ScanInv, NEW c, c # EOF, c # "\n", Start(c), begin' = pos + 1, line' = line,
           saved' = saved, given' = given, tokens' = tokens, type' \in {"INTEGER", "FLOAT"},
           \/ at' \in {"identifier", "number"} /\ col' = col + 1
           \/ at' = "pair" /\ col' = col /\ c \in Pairs
    PROVE  ScanInv'
<1>1. fgetc(c) /\ at \in {"idle", "start"}
  BY DEF Start
<1>2. Grown /\ ended' \in BOOLEAN /\ ~ended /\ ~ended' /\ pos' = pos + 1 /\ text'[pos'] = c
  BY <1>1, FgetcReads DEF ScanInv
<1>3. TypeOK /\ PlacesOK /\ PositionOK
  BY DEF ScanInv
<1>4. TypeOK'
  <2>1. line' \in Nat \ {0} /\ col' \in Nat \ {0} /\ at' \in {"identifier", "number", "pair"}
    BY <1>3 DEF TypeOK
  <2> QED BY <1>2, <1>3, <2>1 DEF TypeOK, Grown
<1>5. PlacesOK'
  <2>1. begin' = pos' /\ pos' \in Nat \ {0} /\ \A k \in begin'..pos' : text'[k] # "\n"
    BY <1>2, <1>3 DEF TypeOK
  <2>2. at' \in {"identifier", "number"} => col' > pos' - begin' + 1
    BY <1>3, <2>1 DEF TypeOK
  <2> QED BY <1>2, <1>3, <2>1, <2>2 DEF PlacesOK, Inner
<1>6. PositionOK'
  <2>1. at \notin InComment /\ at # "pair" /\ at' \notin InComment
    BY <1>1 DEF InComment
  <2>2. /\ LineIn(text', pos' + 1) = LineIn(text, pos + 1)
        /\ ColIn(text', pos' + 1) = ColIn(text, pos + 1) + 1
        /\ StraysIn(text, tokens, Len(tokens), LineIn(text, pos + 1))
             => StraysIn(text', tokens', Len(tokens'), LineIn(text', pos' + 1))
        /\ EmptyIn(text, pos + 1) => EmptyIn(text', pos' + 1)
        /\ ColIn(text, pos + 1) \in Nat /\ col \in Nat
    BY <1>1, <1>3, PositionForward DEF TypeOK
  <2> QED BY <1>2, <1>3, <2>1, <2>2 DEF PositionOK
<1>7. TokensOK'
  BY <1>2, SameTokens
<1> QED BY <1>4, <1>5, <1>6, <1>7 DEF ScanInv

LEMMA BeginTokenKeeps == ASSUME ScanInv, BeginToken PROVE ScanInv'
<1>1. PICK c \in Alnum : Start(c) /\ at' = IF c \in Letters THEN "identifier" ELSE "number"
  BY DEF BeginToken
<1>2. c # EOF /\ c # "\n"
  BY CharsAssumption DEF Alnum
<1> QED BY <1>1, <1>2, TokenBegins DEF BeginToken, client

LEMMA BeginPairKeeps == ASSUME ScanInv, BeginPair PROVE ScanInv'
<1>1. PICK c \in Pairs : Start(c)
  BY DEF BeginPair
<1>2. c # EOF /\ c # "\n"
  BY DEF Pairs, Doubled, EOF
<1>3. type' \in {"INTEGER", "FLOAT"}
  BY DEF ScanInv, TypeOK, BeginPair
<1> QED BY <1>1, <1>2, <1>3, TokenBegins DEF BeginPair, client, position

\* One more character of a name or a number.
LEMMA TokenGoesOn ==
    ASSUME ScanInv, NEW c, c # EOF, c # "\n", fgetc(c), at \in {"identifier", "number"},
           col' = col + 1, type' \in {"INTEGER", "FLOAT"},
           UNCHANGED <<at, begin, line, saved, given, tokens>>
    PROVE  ScanInv'
<1>2. Grown /\ ended' \in BOOLEAN /\ ~ended /\ ~ended' /\ pos' = pos + 1 /\ text'[pos'] = c
  BY FgetcReads DEF ScanInv
<1>3. TypeOK /\ PlacesOK /\ PositionOK
  BY DEF ScanInv
<1>4. TypeOK'
  <2>1. line' \in Nat \ {0} /\ col' \in Nat \ {0}
    BY <1>3 DEF TypeOK
  <2> QED BY <1>2, <1>3, <2>1 DEF TypeOK, Grown
<1>5. PlacesOK'
  <2>1. /\ begin \in 1..pos' /\ begin \in 1..pos /\ pos \in 0..Len(text)
        /\ \A k \in begin..pos : text[k] # "\n" /\ text'[k] = text[k]
    BY <1>2, <1>3 DEF TypeOK, PlacesOK, Inner, Grown
  <2>2. \A k \in begin..pos' : text'[k] # "\n"
    BY <1>2, <2>1
  <2>3. col' > pos' - begin' + 1
    BY <1>2, <1>3, <2>1 DEF TypeOK, PlacesOK
  <2> QED BY <1>2, <1>3, <2>1, <2>2, <2>3 DEF PlacesOK, Inner
<1>6. PositionOK'
  <2>1. at \notin InComment /\ at # "pair" /\ at' \notin InComment
    BY DEF InComment
  <2>2. /\ LineIn(text', pos' + 1) = LineIn(text, pos + 1)
        /\ ColIn(text', pos' + 1) = ColIn(text, pos + 1) + 1
        /\ StraysIn(text, tokens, Len(tokens), LineIn(text, pos + 1))
             => StraysIn(text', tokens', Len(tokens'), LineIn(text', pos' + 1))
        /\ EmptyIn(text, pos + 1) => EmptyIn(text', pos' + 1)
        /\ ColIn(text, pos + 1) \in Nat /\ col \in Nat
    BY <1>3, PositionForward DEF TypeOK
  <2> QED BY <1>2, <1>3, <2>1, <2>2 DEF PositionOK
<1>7. TokensOK'
  BY <1>2, SameTokens
<1> QED BY <1>4, <1>5, <1>6, <1>7 DEF ScanInv
-----------------------------------------------------------------------------
(* The actions that return a token                                         *)

\* A token returned keeps the invariant if its position was known, and the
\* one after it is.
LEMMA TokenReturned ==
    ASSUME ScanInv, Grown, ended' \in BOOLEAN, ended' => pos' = Len(text'), ~ended,
           NEW token \in Tokens, token.type # "EOF_TOKEN", Return(token),
           line' = line, col' \in Nat \ {0}, token.from \in 1..pos',
           \/ EmptyIn(text', token.from)
           \/ token.line = LineIn(text', token.from),
           \/ StraysIn(text, tokens, Len(tokens), LineIn(text', token.from))
           \/ token.type = "ERROR_TOKEN" /\ text'[token.from] \in Doubled
           \/ token.col = ColIn(text', token.from),
           \/ EmptyIn(text', pos' + 1)
           \/ line = LineIn(text', pos' + 1),
           \/ StraysIn(text, tokens, Len(tokens), LineIn(text', pos' + 1))
           \/ /\ token.type = "ERROR_TOKEN" /\ text'[token.from] \in Doubled
              /\ LineIn(text', token.from) = LineIn(text', pos' + 1)
           \/ col' = ColIn(text', pos' + 1)
    PROVE  ScanInv'
<1>1. TypeOK /\ PlacesOK
  BY DEF ScanInv
<1>2. /\ tokens' \in Seq(Tokens) /\ given' = token /\ at' = "idle"
      /\ UNCHANGED <<begin, type, saved>>
      /\ Len(tokens) <= Len(tokens') /\ \A k \in 1..Len(tokens) : tokens'[k] = tokens[k]
      /\ Len(tokens') = Len(tokens) + 1 /\ tokens'[Len(tokens')] = token
  BY <1>1, Returns DEF PlacesOK
<1>3. tokens \in Seq(Tokens) /\ Len(tokens') \in Nat \ {0} /\ Len(tokens) \in 0..Len(tokens)
  BY <1>1, <1>2 DEF TypeOK
<1>4. TypeOK'
  <2>1. line' \in Nat \ {0}
    BY <1>1 DEF TypeOK
  <2> QED BY <1>1, <1>2, <2>1 DEF TypeOK, Grown
<1>5. PlacesOK'
  BY <1>2, <1>3 DEF PlacesOK, Inner
<1>6. PositionOK'
  <2>1. ASSUME StraysIn(text, tokens, Len(tokens), LineIn(text', pos' + 1))
        PROVE  StraysIn(text', tokens', Len(tokens'), LineIn(text', pos' + 1))
    <3>1. StraysIn(text', tokens', Len(tokens), LineIn(text', pos' + 1))
      BY <1>2, <1>3, <2>1, StraysStay
    <3> QED BY <1>2, <1>3, <3>1 DEF StraysIn
  <2>2. ASSUME token.type = "ERROR_TOKEN" /\ text'[token.from] \in Doubled,
               LineIn(text', token.from) = LineIn(text', pos' + 1)
        PROVE  StraysIn(text', tokens', Len(tokens'), LineIn(text', pos' + 1))
    BY <1>2, <1>3, <2>2 DEF StraysIn
  <2>3. /\ at' # "pair"
        /\ \/ StraysIn(text', tokens', Len(tokens'), LineIn(text', pos' + 1))
           \/ col' = ColIn(text', pos' + 1) - 0
    <3>1. ColIn(text', pos' + 1) \in Nat
      BY <1>4, PositionsAreNumbers DEF TypeOK
    <3> QED BY <1>2, <2>1, <2>2, <3>1
  <2> QED BY <2>3 DEF PositionOK
<1>7. TokensOK'
  BY OneMoreToken
<1> QED BY <1>4, <1>5, <1>6, <1>7 DEF ScanInv

\* Where the token under way begins, its line was known, and the column.
LEMMA TokenPlace ==
    ASSUME ScanInv, Grown, at \in Inner
    PROVE  /\ begin \in 1..pos /\ pos \in Nat /\ ~ended
           /\ EmptyIn(text', begin) \/ line = LineIn(text', begin)
           /\ \/ StraysIn(text, tokens, Len(tokens), LineIn(text', begin))
              \/ col = (ColIn(text', begin) + (pos + 1 - begin)) - IF at = "pair" THEN 1 ELSE 0
           /\ EmptyIn(text', pos + 1) \/ line = LineIn(text', pos + 1)
           /\ LineIn(text', begin) = LineIn(text', pos + 1)
           /\ ColIn(text', begin) \in Nat
           /\ ColIn(text', pos + 1) = ColIn(text', begin) + (pos + 1 - begin)
<1>1. /\ begin \in 1..pos /\ pos \in Nat /\ pos <= Len(text) /\ ~ended
      /\ \A k \in begin..pos : text[k] # "\n"
  BY DEF ScanInv, TypeOK, PlacesOK
<1>2. (\A k \in 1..pos : text'[k] = text[k]) /\ (\A k \in begin..pos : text'[k] # "\n")
  BY <1>1 DEF Grown, ScanInv, TypeOK
<1> SUFFICES ASSUME NEW t, t = text, NEW u, u = text', NEW b, b = begin, NEW p, p = pos
             PROVE  /\ EmptyIn(u, b) \/ line = LineIn(u, b)
                    /\ \/ StraysIn(t, tokens, Len(tokens), LineIn(u, b))
                       \/ col = (ColIn(u, b) + (p + 1 - b)) - IF at = "pair" THEN 1 ELSE 0
                    /\ EmptyIn(u, p + 1) \/ line = LineIn(u, p + 1)
                    /\ LineIn(u, b) = LineIn(u, p + 1)
                    /\ ColIn(u, b) \in Nat
                    /\ ColIn(u, p + 1) = ColIn(u, b) + (p + 1 - b)
  BY <1>1
<1>3. /\ p \in Nat /\ b \in Nat \ {0} /\ b <= p /\ b <= p + 1 /\ p + 1 \in 1..(p + 1)
      /\ (\A k \in 1..p : u[k] = t[k]) /\ (\A k \in b..p : u[k] # "\n")
  BY <1>1, <1>2
<1>4. LineIn(u, p + 1) = LineIn(t, p + 1) /\ ColIn(u, p + 1) = ColIn(t, p + 1)
      /\ (EmptyIn(u, p + 1) <=> EmptyIn(t, p + 1))
  BY <1>3, CommonText
<1>5. LineIn(u, p + 1) = LineIn(u, b) /\ ColIn(u, p + 1) = ColIn(u, b) + (p + 1 - b)
  BY <1>3, OneLine
<1>6. EmptyIn(u, p + 1) => EmptyIn(u, b)
  BY <1>3 DEF EmptyIn
<1>7. ColIn(u, b) \in Nat
  BY <1>3, PositionsAreNumbers
<1>8. /\ EmptyIn(t, p + 1) \/ line = LineIn(t, p + 1)
      /\ \/ StraysIn(t, tokens, Len(tokens), LineIn(t, p + 1))
         \/ col = ColIn(t, p + 1) - IF at = "pair" THEN 1 ELSE 0
  BY <1>1 DEF ScanInv, PositionOK, Inner, InComment
<1>9. EmptyIn(u, p + 1) \/ line = LineIn(u, p + 1)
  BY <1>4, <1>8, Zenon
<1>10. EmptyIn(u, b) \/ line = LineIn(u, b)
  BY <1>5, <1>6, <1>9, Zenon
<1>11. \/ StraysIn(t, tokens, Len(tokens), LineIn(u, b))
       \/ col = (ColIn(u, b) + (p + 1 - b)) - IF at = "pair" THEN 1 ELSE 0
  <2>1. LineIn(u, b) = LineIn(t, p + 1) /\ ColIn(u, b) + (p + 1 - b) = ColIn(t, p + 1)
    BY <1>4, <1>5, Zenon
  <2> DEFINE shift == IF at = "pair" THEN 1 ELSE 0
             here == ColIn(t, p + 1)
             there == ColIn(u, b) + (p + 1 - b)
  <2>2. \/ StraysIn(t, tokens, Len(tokens), LineIn(t, p + 1))
        \/ col = here - shift
    BY <1>8
  <2>3. here = there
    BY <2>1
  <2> HIDE DEF shift, here, there
  <2>4. \/ StraysIn(t, tokens, Len(tokens), LineIn(u, b))
        \/ col = there - shift
    BY <2>1, <2>2, <2>3, Zenon
  <2> QED BY <2>4 DEF shift, there
<1> QED BY <1>5, <1>7, <1>9, <1>10, <1>11, Zenon

\* A name or a number ends before the next character.
LEMMA LongTokenReturned ==
    ASSUME ScanInv, NEW c, look(c), at \in {"identifier", "number"}, NEW kind \in TokenType,
           kind # "EOF_TOKEN", Return(Ending(kind)), line' = line, col' = col
    PROVE  ScanInv'
<1>1. TypeOK /\ PlacesOK
  BY DEF ScanInv
<1>2. Grown /\ pos' = pos /\ ended' \in BOOLEAN /\ (ended' => pos' = Len(text'))
  BY <1>1, LookReads
<1>3. /\ begin \in 1..pos /\ pos \in Nat /\ ~ended
      /\ EmptyIn(text', begin) \/ line = LineIn(text', begin)
      /\ \/ StraysIn(text, tokens, Len(tokens), LineIn(text', begin))
         \/ col = (ColIn(text', begin) + (pos + 1 - begin)) - IF at = "pair" THEN 1 ELSE 0
      /\ EmptyIn(text', pos + 1) \/ line = LineIn(text', pos + 1)
      /\ LineIn(text', begin) = LineIn(text', pos + 1)
      /\ ColIn(text', begin) \in Nat
      /\ ColIn(text', pos + 1) = ColIn(text', begin) + (pos + 1 - begin)
  BY <1>2, TokenPlace DEF Inner
<1>4. Len(lexeme) = pos + 1 - begin
  BY <1>1, <1>3 DEF lexeme, TypeOK
<1>5. col > pos - begin + 1 /\ col \in Nat \ {0} /\ line \in Nat
  BY <1>1 DEF PlacesOK, TypeOK
<1> DEFINE token == Ending(kind)
<1>6. /\ token \in Tokens /\ token.type = kind /\ token.from = begin /\ token.line = line
      /\ token.col = col - (pos + 1 - begin)
  <2>1. col - (pos + 1 - begin) \in Nat
    BY <1>3, <1>5
  <2> QED BY <1>3, <1>4, <1>5, <2>1 DEF Ending, Token, Tokens
<1>7. \/ StraysIn(text, tokens, Len(tokens), LineIn(text', begin))
      \/ token.col = ColIn(text', begin) /\ col = ColIn(text', pos + 1)
  BY <1>3, <1>5, <1>6
<1> HIDE DEF token
<1>8. Return(token)
  BY DEF token
<1>9. token.type # "EOF_TOKEN" /\ token.from \in 1..pos' /\ col' \in Nat \ {0} /\ pos' + 1 = pos + 1
  BY <1>2, <1>3, <1>5, <1>6
<1>10. EmptyIn(text', token.from) \/ token.line = LineIn(text', token.from)
  BY <1>3, <1>6
<1>11. \/ StraysIn(text, tokens, Len(tokens), LineIn(text', token.from))
       \/ token.col = ColIn(text', token.from)
  BY <1>6, <1>7
<1>12. EmptyIn(text', pos' + 1) \/ line = LineIn(text', pos' + 1)
  BY <1>3, <1>9
<1>13. \/ StraysIn(text, tokens, Len(tokens), LineIn(text', pos' + 1))
       \/ col' = ColIn(text', pos' + 1)
  BY <1>3, <1>7, <1>9
<1> QED BY <1>2, <1>3, <1>6, <1>8, <1>9, <1>10, <1>11, <1>12, <1>13, TokenReturned

LEMMA IdentifierKeeps == ASSUME ScanInv, Identifier PROVE ScanInv'
<1>1. at = "identifier" /\ line' = line
  BY DEF Identifier
<1>2. \/ \E c \in Alnum : fgetc(c) /\ col' = col + 1 /\ Goto("identifier")
      \/ \E c : look(c) /\ Return(Ending(KeywordOrSymbol)) /\ UNCHANGED col
  BY DEF Identifier
<1>3. ASSUME NEW c \in Alnum, fgetc(c), col' = col + 1, Goto("identifier") PROVE ScanInv'
  <2>1. c # EOF /\ c # "\n"
    BY CharsAssumption DEF Alnum
  <2>2. type' \in {"INTEGER", "FLOAT"}
    BY <1>3 DEF Goto, ScanInv, TypeOK
  <2> QED BY <1>1, <1>3, <2>1, <2>2, TokenGoesOn DEF Goto, client
<1>4. ASSUME NEW c, look(c), Return(Ending(KeywordOrSymbol)), UNCHANGED col PROVE ScanInv'
  <2>1. KeywordOrSymbol \in TokenType /\ KeywordOrSymbol # "EOF_TOKEN"
    BY KeywordAssumption DEF KeywordOrSymbol, KeywordTypes, TokenType
  <2> QED BY <1>1, <1>4, <2>1, LongTokenReturned
<1> QED BY <1>2, <1>3, <1>4

\* A digit or a dot does not end a line or the file.
LEMMA NumberCharacters == \A c \in Digits \cup {"."} : c # EOF /\ c # "\n"
<1>1. \A c \in Digits : c # EOF /\ c # "\n"
  BY CharsAssumption
<1>2. "." # EOF /\ "." # "\n"
  BY Zenon DEF EOF
<1> QED BY <1>1, <1>2

LEMMA NumberKeeps == ASSUME ScanInv, Number PROVE ScanInv'
<1>1. at = "number" /\ line' = line
  BY DEF Number
<1>2. \/ \E c \in Digits \cup {"."} :
           /\ fgetc(c) /\ col' = col + 1 /\ type' = IF c = "." THEN "FLOAT" ELSE type
           /\ UNCHANGED <<at, begin, client>>
      \/ \E c : look(c) /\ Return(Ending(type)) /\ UNCHANGED col
  BY DEF Number
<1>3. type \in {"INTEGER", "FLOAT"}
  BY DEF ScanInv, TypeOK
<1>4. ASSUME NEW c \in Digits \cup {"."}, fgetc(c), col' = col + 1, type' \in {"FLOAT", type},
             UNCHANGED <<at, begin, client>>
      PROVE  ScanInv'
  BY <1>1, <1>3, <1>4, NumberCharacters, TokenGoesOn DEF client
<1>5. ASSUME NEW c, look(c), Return(Ending(type)), UNCHANGED col PROVE ScanInv'
  <2>1. type \in TokenType /\ type # "EOF_TOKEN"
    BY <1>3 DEF TokenType
  <2> QED BY <1>1, <1>5, <2>1, LongTokenReturned
<1> QED BY <1>2, <1>4, <1>5

\* The types that marks have.
LEMMA MarkTypes ==
    /\ \A c : Alone(c) \in TokenType \ {"EOF_TOKEN"}
    /\ \A c \in Pairs : PairType(c) \in TokenType \ {"EOF_TOKEN"}
<1>1. ASSUME NEW c PROVE Alone(c) \in TokenType \ {"EOF_TOKEN"}
  BY Zenon DEF Alone, TokenType
<1>2. ASSUME NEW c \in Pairs PROVE PairType(c) \in TokenType \ {"EOF_TOKEN"}
  BY Zenon DEF PairType, Pairs, Doubled, TokenType
<1> QED BY <1>1, <1>2

\* What is known where a token may start.
LEMMA StartPlace ==
    ASSUME ScanInv, NEW c, c # EOF, c # "\n", fgetc(c), at \in {"idle", "start"}
    PROVE  /\ Grown /\ ended' \in BOOLEAN /\ ~ended /\ ~ended' /\ pos' = pos + 1
           /\ pos \in Nat /\ text'[pos'] = c
           /\ EmptyIn(text', pos') \/ line = LineIn(text', pos')
           /\ \/ StraysIn(text, tokens, Len(tokens), LineIn(text', pos'))
              \/ col = ColIn(text', pos')
           /\ LineIn(text', pos' + 1) = LineIn(text', pos')
           /\ ColIn(text', pos' + 1) = ColIn(text', pos') + 1
           /\ EmptyIn(text', pos') => EmptyIn(text', pos' + 1)
<1>1. TypeOK /\ PlacesOK /\ PositionOK
  BY DEF ScanInv
<1>2. Grown /\ ended' \in BOOLEAN /\ ~ended /\ ~ended' /\ pos' = pos + 1 /\ text'[pos'] = c
  BY <1>1, FgetcReads
<1>3. pos \in Nat /\ \A k \in 1..pos : text'[k] = text[k]
  BY <1>1, <1>2 DEF TypeOK, Grown
<1>4. /\ EmptyIn(text, pos + 1) \/ line = LineIn(text, pos + 1)
      /\ \/ StraysIn(text, tokens, Len(tokens), LineIn(text, pos + 1))
         \/ col = ColIn(text, pos + 1) - 0
  BY <1>1, <1>2 DEF PositionOK, InComment
<1> SUFFICES ASSUME NEW t, t = text, NEW u, u = text', NEW p \in Nat, p = pos, NEW n, n = p + 1
             PROVE  /\ EmptyIn(u, n) \/ line = LineIn(u, n)
                    /\ StraysIn(t, tokens, Len(tokens), LineIn(u, n)) \/ col = ColIn(u, n)
                    /\ LineIn(u, n + 1) = LineIn(u, n)
                    /\ ColIn(u, n + 1) = ColIn(u, n) + 1
                    /\ EmptyIn(u, n) => EmptyIn(u, n + 1)
  BY <1>2, <1>3
<1>5. (\A k \in 1..p : u[k] = t[k]) /\ u[n] = c
  BY <1>2, <1>3
<1>6. /\ LineIn(u, n) = LineIn(t, n) /\ ColIn(u, n) = ColIn(t, n)
      /\ EmptyIn(u, n) <=> EmptyIn(t, n)
      /\ LineIn(u, n + 1) = LineIn(t, n) /\ ColIn(u, n + 1) = ColIn(t, n) + 1
      /\ EmptyIn(t, n) => EmptyIn(u, n + 1)
  BY <1>5, Forward
<1>7. ColIn(t, n) \in Nat
  <2>1. n \in Nat \ {0}
    OBVIOUS
  <2> QED BY <2>1, PositionsAreNumbers
<1> QED BY <1>4, <1>6, <1>7

\* A mark that is a token by itself.
LEMMA MarkKeeps == ASSUME ScanInv, Mark PROVE ScanInv'
<1>1. PICK c \in Singles : Start(c) /\ Return(Token(Alone(c), pos + 1, pos + 1, line, col))
  BY DEF Mark
<1>2. c # EOF /\ c # "\n"
  <2>1. c \in Marks /\ c \notin Blanks
    BY DEF Singles
  <2>2. "\n" \in Blanks
    BY Zenon DEF Blanks
  <2> QED BY <2>1, <2>2, CharsAssumption
<1>3. fgetc(c) /\ at \in {"idle", "start"} /\ line' = line /\ col' = col + 1
  BY <1>1 DEF Start, Mark
<1>4. /\ Grown /\ ended' \in BOOLEAN /\ ~ended /\ ~ended' /\ pos' = pos + 1 /\ pos \in Nat
      /\ EmptyIn(text', pos') \/ line = LineIn(text', pos')
      /\ StraysIn(text, tokens, Len(tokens), LineIn(text', pos')) \/ col = ColIn(text', pos')
      /\ LineIn(text', pos' + 1) = LineIn(text', pos')
      /\ ColIn(text', pos' + 1) = ColIn(text', pos') + 1
      /\ EmptyIn(text', pos') => EmptyIn(text', pos' + 1)
  BY <1>2, <1>3, StartPlace
<1> DEFINE token == Token(Alone(c), pos + 1, pos + 1, line, col)
<1>5. /\ token \in Tokens /\ token.type # "EOF_TOKEN" /\ token.from = pos'
      /\ token.line = line /\ token.col = col
  <2>1. line \in Nat /\ col \in Nat
    BY DEF ScanInv, TypeOK
  <2>2. Alone(c) \in TokenType \ {"EOF_TOKEN"}
    BY MarkTypes
  <2> HIDE DEF token
  <2>3. token = [type |-> Alone(c), from |-> pos + 1, to |-> pos + 1, line |-> line, col |-> col]
    BY Zenon DEF token, Token
  <2> QED BY <1>4, <2>1, <2>2, <2>3 DEF Tokens
<1>6. Return(token) /\ col' \in Nat \ {0} /\ token.from \in 1..pos' /\ col + 1 = col'
  BY <1>1, <1>3, <1>4, <1>5 DEF ScanInv, TypeOK
<1> HIDE DEF token
<1>7. EmptyIn(text', token.from) \/ token.line = LineIn(text', token.from)
  BY <1>4, <1>5
<1>8. /\ StraysIn(text, tokens, Len(tokens), LineIn(text', token.from))
           \/ token.col = ColIn(text', token.from)
      /\ EmptyIn(text', pos' + 1) \/ line = LineIn(text', pos' + 1)
      /\ StraysIn(text, tokens, Len(tokens), LineIn(text', pos' + 1))
           \/ col' = ColIn(text', pos' + 1)
  BY <1>3, <1>4, <1>5
<1> QED BY <1>3, <1>4, <1>5, <1>6, <1>7, <1>8, TokenReturned

\* The second character of a mark is neither a newline nor the end of the file.
LEMMA Seconds == \A c : Second(c) # EOF /\ Second(c) # "\n"
BY DEF Second, Doubled, EOF

\* Where the first of two marks stands, and what follows it.
LEMMA PairPlace ==
    ASSUME ScanInv, Grown, at = "pair"
    PROVE  /\ begin = pos /\ pos \in Nat \ {0} /\ ~ended
           /\ text[begin] \in Pairs /\ text'[begin] = text[begin]
           /\ EmptyIn(text', pos) \/ line = LineIn(text', pos)
           /\ StraysIn(text, tokens, Len(tokens), LineIn(text', pos)) \/ col = ColIn(text', pos)
           /\ EmptyIn(text', pos + 1) \/ line = LineIn(text', pos + 1)
           /\ LineIn(text', pos + 1) = LineIn(text', pos)
           /\ ColIn(text', pos + 1) = ColIn(text', pos) + 1
           /\ ColIn(text', pos) \in Nat
<1>1. /\ begin = pos /\ text[begin] \in Pairs /\ pos \in 1..Len(text) /\ col \in Nat
      /\ text'[begin] = text[begin]
  BY DEF ScanInv, TypeOK, PlacesOK, Inner, Grown
<1>2. /\ begin \in 1..pos /\ pos \in Nat /\ ~ended
      /\ EmptyIn(text', begin) \/ line = LineIn(text', begin)
      /\ \/ StraysIn(text, tokens, Len(tokens), LineIn(text', begin))
         \/ col = (ColIn(text', begin) + (pos + 1 - begin)) - IF at = "pair" THEN 1 ELSE 0
      /\ EmptyIn(text', pos + 1) \/ line = LineIn(text', pos + 1)
      /\ LineIn(text', begin) = LineIn(text', pos + 1)
      /\ ColIn(text', begin) \in Nat
      /\ ColIn(text', pos + 1) = ColIn(text', begin) + (pos + 1 - begin)
  BY TokenPlace DEF Inner
<1> QED BY <1>1, <1>2

\* A mark, or two, become a token.
LEMMA PairKeeps == ASSUME ScanInv, Pair PROVE ScanInv'
<1> DEFINE first == text[begin]
<1>1. at = "pair" /\ line' = line
  BY DEF Pair
<1>2. \/ /\ fgetc(Second(first)) /\ col' = col + 2
         /\ Return(Token(PairType(first), begin, begin + 1, line, col))
      \/ \E c : /\ look(c) /\ col' = col + 1
                /\ Return(Token(Alone(first), begin, begin, line, col))
      \/ \E c : /\ look(c) /\ col' = col + 2 /\ first \in Doubled
                /\ Return(Token("ERROR_TOKEN", begin, begin, line, col + 1))
  BY Zenon DEF Pair
<1>3. TypeOK /\ PlacesOK /\ line \in Nat /\ col \in Nat \ {0} /\ col + 1 \in Nat
  BY DEF ScanInv, TypeOK
<1>4. ASSUME fgetc(Second(first)), col' = col + 2,
             Return(Token(PairType(first), begin, begin + 1, line, col))
      PROVE  ScanInv'
  <2>1. /\ Grown /\ ended' \in BOOLEAN /\ ~ended' /\ pos' = pos + 1
        /\ text'[pos'] = Second(first) /\ Second(first) # "\n"
    <3>1. Second(first) # EOF /\ Second(first) # "\n"
      BY Seconds
    <3> QED BY <1>3, <1>4, <3>1, FgetcReads
  <2>2. /\ begin = pos /\ pos \in Nat \ {0} /\ ~ended /\ first \in Pairs
        /\ EmptyIn(text', pos) \/ line = LineIn(text', pos)
        /\ StraysIn(text, tokens, Len(tokens), LineIn(text', pos)) \/ col = ColIn(text', pos)
        /\ EmptyIn(text', pos + 1) \/ line = LineIn(text', pos + 1)
        /\ LineIn(text', pos + 1) = LineIn(text', pos)
        /\ ColIn(text', pos + 1) = ColIn(text', pos) + 1
        /\ ColIn(text', pos) \in Nat
    BY <1>1, <2>1, PairPlace
  <2>3. /\ LineIn(text', pos' + 1) = LineIn(text', pos + 1)
        /\ ColIn(text', pos' + 1) = ColIn(text', pos + 1) + 1
        /\ EmptyIn(text', pos + 1) => EmptyIn(text', pos' + 1)
    <3>1. \A k \in 1..pos : text'[k] = text[k]
      BY <1>3, <2>1 DEF Grown, TypeOK
    <3>2. pos \in Nat /\ pos' = pos + 1 /\ text'[pos'] # "\n"
      BY <2>1, <2>2
    <3> SUFFICES ASSUME NEW t, t = text, NEW u, u = text', NEW p \in Nat, p = pos, NEW n, n = p + 1
                 PROVE  /\ LineIn(u, n + 1) = LineIn(u, n)
                        /\ ColIn(u, n + 1) = ColIn(u, n) + 1
                        /\ EmptyIn(u, n) => EmptyIn(u, n + 1)
      BY <3>2
    <3>3. (\A k \in 1..p : u[k] = t[k]) /\ u[n] # "\n"
      BY <3>1, <3>2
    <3> QED BY <3>3, Forward
  <2> DEFINE token == Token(PairType(first), begin, begin + 1, line, col)
  <2>4. /\ token \in Tokens /\ token.type # "EOF_TOKEN" /\ token.from = pos
        /\ token.line = line /\ token.col = col
    <3>1. PairType(first) \in TokenType \ {"EOF_TOKEN"}
      BY <2>2, MarkTypes
    <3> HIDE DEF first
    <3>2. token = [type |-> PairType(first), from |-> begin, to |-> begin + 1,
                   line |-> line, col |-> col]
      BY Zenon DEF Token
    <3> HIDE DEF token
    <3> QED BY <1>3, <2>2, <3>1, <3>2 DEF Tokens
  <2>5. Return(token)
    BY <1>4
  <2> HIDE DEF token, first
  <2>6. token.from \in 1..pos' /\ col' \in Nat \ {0} /\ (ended' => pos' = Len(text'))
    BY <1>3, <1>4, <2>1, <2>2, <2>4
  <2>7. EmptyIn(text', token.from) \/ token.line = LineIn(text', token.from)
    BY <2>2, <2>4
  <2>8. \/ StraysIn(text, tokens, Len(tokens), LineIn(text', token.from))
        \/ token.col = ColIn(text', token.from)
    BY <2>2, <2>4
  <2>9. EmptyIn(text', pos' + 1) \/ line = LineIn(text', pos' + 1)
    BY <2>2, <2>3
  <2>10. \/ StraysIn(text, tokens, Len(tokens), LineIn(text', pos' + 1))
         \/ col' = ColIn(text', pos' + 1)
    BY <1>4, <2>2, <2>3
  <2> QED BY <1>1, <2>1, <2>2, <2>4, <2>5, <2>6, <2>7, <2>8, <2>9, <2>10, TokenReturned
<1>5. ASSUME NEW c, look(c), NEW kind \in TokenType, kind # "EOF_TOKEN", NEW ahead \in {0, 1},
             col' = col + 1 + ahead, Return(Token(kind, begin, begin, line, col + ahead)),
             ahead = 1 => kind = "ERROR_TOKEN" /\ first \in Doubled
      PROVE  ScanInv'
  <2>1. Grown /\ pos' = pos /\ ended' \in BOOLEAN /\ (ended' => pos' = Len(text'))
    BY <1>3, <1>5, LookReads
  <2>2. /\ begin = pos /\ pos \in Nat \ {0} /\ ~ended /\ text'[begin] = first
        /\ EmptyIn(text', pos) \/ line = LineIn(text', pos)
        /\ StraysIn(text, tokens, Len(tokens), LineIn(text', pos)) \/ col = ColIn(text', pos)
        /\ EmptyIn(text', pos + 1) \/ line = LineIn(text', pos + 1)
        /\ LineIn(text', pos + 1) = LineIn(text', pos)
        /\ ColIn(text', pos + 1) = ColIn(text', pos) + 1
        /\ ColIn(text', pos) \in Nat
    BY <1>1, <2>1, PairPlace
  <2> DEFINE token == Token(kind, begin, begin, line, col + ahead)
  <2>4. /\ token \in Tokens /\ token.type = kind /\ token.from = pos
        /\ token.line = line /\ token.col = col + ahead
    <3>1. token = [type |-> kind, from |-> begin, to |-> begin, line |-> line, col |-> col + ahead]
      BY Zenon DEF Token
    <3>2. col + ahead \in Nat
      BY <1>3
    <3> HIDE DEF token
    <3> QED BY <1>3, <2>2, <3>1, <3>2 DEF Tokens
  <2>5. Return(token)
    BY <1>5
  <2> HIDE DEF token, first
  <2>6. token.from \in 1..pos' /\ col' \in Nat \ {0} /\ token.type # "EOF_TOKEN"
    BY <1>3, <1>5, <2>1, <2>2, <2>4
  <2>7. EmptyIn(text', token.from) \/ token.line = LineIn(text', token.from)
    BY <2>2, <2>4
  <2>8. \/ StraysIn(text, tokens, Len(tokens), LineIn(text', token.from))
        \/ token.type = "ERROR_TOKEN" /\ text'[token.from] \in Doubled
        \/ token.col = ColIn(text', token.from)
    BY <1>3, <1>5, <2>2, <2>4
  <2>9. EmptyIn(text', pos' + 1) \/ line = LineIn(text', pos' + 1)
    BY <2>1, <2>2
  <2>10. \/ StraysIn(text, tokens, Len(tokens), LineIn(text', pos' + 1))
         \/ /\ token.type = "ERROR_TOKEN" /\ text'[token.from] \in Doubled
            /\ LineIn(text', token.from) = LineIn(text', pos' + 1)
         \/ col' = ColIn(text', pos' + 1)
    BY <1>3, <1>5, <2>1, <2>2, <2>4
  <2> QED BY <1>1, <2>1, <2>2, <2>4, <2>5, <2>6, <2>7, <2>8, <2>9, <2>10, TokenReturned
<1>6. ASSUME NEW c, look(c), col' = col + 1,
             Return(Token(Alone(first), begin, begin, line, col))
      PROVE  ScanInv'
  <2>1. Alone(first) \in TokenType \ {"EOF_TOKEN"}
    BY MarkTypes
  <2>2. col = col + 0 /\ col' = col + 1 + 0
    BY <1>3, <1>6
  <2>3. Return(Token(Alone(first), begin, begin, line, col + 0))
    BY <1>6, <2>2
  <2> HIDE DEF first
  <2> QED BY <1>5, <1>6, <2>1, <2>2, <2>3
<1>7. ASSUME NEW c, look(c), col' = col + 2, first \in Doubled,
             Return(Token("ERROR_TOKEN", begin, begin, line, col + 1))
      PROVE  ScanInv'
  <2>1. "ERROR_TOKEN" \in TokenType /\ col' = col + 1 + 1
    BY <1>3, <1>7 DEF TokenType
  <2> QED BY <1>5, <1>7, <2>1
<1> QED BY <1>2, <1>4, <1>6, <1>7

\* The end of the file: positions are not looked at any more.
LEMMA EndOfFileKeeps == ASSUME ScanInv, EndOfFile PROVE ScanInv'
<1> DEFINE token == Token("EOF_TOKEN", pos + 1, pos, line, col)
<1>1. fgetc(EOF) /\ Return(token) /\ UNCHANGED position
  BY DEF EndOfFile, Start
<1>2. TypeOK /\ PlacesOK
  BY DEF ScanInv
<1>3. Grown /\ ended' /\ ended' \in BOOLEAN /\ pos' = Len(text')
  BY <1>1, <1>2, FgetcReads
<1>4. token \in Tokens /\ token.type = "EOF_TOKEN"
  <2>1. line \in Nat /\ col \in Nat /\ pos \in Nat /\ pos + 1 \in Nat
    BY <1>2 DEF TypeOK
  <2> QED BY <2>1 DEF Token, Tokens, TokenType
<1> HIDE DEF token
<1>5. /\ tokens' \in Seq(Tokens) /\ given' = token /\ at' = "idle"
      /\ UNCHANGED <<begin, type, saved>>
  BY <1>1, <1>2, <1>4, Returns
<1>6. TypeOK'
  BY <1>1, <1>2, <1>3, <1>4, <1>5 DEF TypeOK, Grown, position
<1>7. PlacesOK'
  BY <1>3, <1>5 DEF PlacesOK, Inner
<1>8. PositionOK'
  BY <1>3 DEF PositionOK
<1>9. TokensOK'
  BY <1>1, <1>3, <1>4, OneMoreToken
<1> QED BY <1>6, <1>7, <1>8, <1>9 DEF ScanInv
-----------------------------------------------------------------------------
(* The theorems                                                            *)

\* What is given back, and given again, is a token scanned before.
LEMMA PushbackKeeps == ASSUME ScanInv, lexSaved \/ unlex PROVE ScanInv'
<1>1. /\ UNCHANGED <<text, ended, pos, line, col, at, begin, type, tokens>>
      /\ saved' \in Tokens /\ given' \in Tokens
  <2>1. Token("EOF_TOKEN", 0, 0, 0, 0) \in Tokens
    BY DEF Token, Tokens, TokenType
  <2>2. saved \in Tokens /\ given \in Tokens
    BY DEF ScanInv, TypeOK
  <2>3. CASE lexSaved
    BY <2>1, <2>2, <2>3 DEF lexSaved, file, position, scan
  <2>4. CASE unlex
    BY <2>2, <2>4 DEF unlex, file, position, scan
  <2> QED BY <2>3, <2>4
<1>2. TypeOK'
  BY <1>1 DEF ScanInv, TypeOK
<1> QED BY <1>1, <1>2, Zenon DEF ScanInv, PlacesOK, PositionOK, TokensOK

LEMMA ScanStart == Init => ScanInv
<1> SUFFICES ASSUME Init PROVE ScanInv
  OBVIOUS
<1>1. NewlinesIn(text, 0) = {} /\ IsFiniteSet({}) /\ Cardinality({}) = 0
  BY FS_EmptySet DEF NewlinesIn
<1>2. LineIn(text, pos + 1) = 1 /\ ColIn(text, pos + 1) = 1
  BY <1>1 DEF LineIn, ColIn, Init
<1>3. TypeOK
  <2>1. Token("EOF_TOKEN", 0, 0, 0, 0) \in Tokens /\ NONE \in Tokens
    BY DEF Token, NONE, Tokens, TokenType
  <2>2. text = <<>> /\ tokens = <<>> /\ saved = Token("EOF_TOKEN", 0, 0, 0, 0) /\ given = NONE
    BY DEF Init
  <2>3. text \in Seq(Chars) /\ tokens \in Seq(Tokens) /\ Len(text) = 0
    BY <2>2
  <2>4. ended = FALSE /\ pos = 0 /\ line = 1 /\ col = 1 /\ at = "idle" /\ begin = 0
        /\ type = "INTEGER"
    BY DEF Init
  <2>5. pos \in 0..Len(text) /\ begin \in 0..Len(text) /\ line \in Nat \ {0} /\ col \in Nat \ {0}
    BY <2>3, <2>4
  <2> HIDE DEF Token, NONE
  <2>6. saved \in Tokens /\ given \in Tokens
    BY <2>1, <2>2, Zenon
  <2>7. ended \in BOOLEAN /\ type \in {"INTEGER", "FLOAT"}
    BY <2>4
  <2>8. at \in {"idle", "start", "comment", "comment.rest", "identifier", "number", "pair"}
    BY <2>4
  <2> QED BY <2>3, <2>5, <2>6, <2>7, <2>8, Zenon DEF TypeOK
<1>4. PlacesOK /\ TokensOK
  BY DEF Init, PlacesOK, Inner, TokensOK
<1>5. PositionOK
  BY <1>2 DEF Init, PositionOK
<1> QED BY <1>3, <1>4, <1>5 DEF ScanInv

LEMMA ScanNext == ASSUME ScanInv, [Next]_vars PROVE ScanInv'
<1>1. CASE lexSaved \/ unlex
  BY <1>1, PushbackKeeps
<1>2. CASE lex
  BY <1>2, BlankKeeps, CommentKeeps, CommentFirstKeeps, CommentRestKeeps, EndOfFileKeeps,
     BeginTokenKeeps, IdentifierKeeps, NumberKeeps, MarkKeeps, BeginPairKeeps, PairKeeps, Zenon
     DEF lex
<1>3. CASE UNCHANGED vars
  BY <1>3, Zenon DEF vars, file, position, scan, client, ScanInv, TypeOK, PlacesOK,
     PositionOK, TokensOK
<1> QED BY <1>1, <1>2, <1>3 DEF Next

\* The invariant that the others follow from.
THEOREM ScanInvariance == Spec => []ScanInv
BY ScanStart, ScanNext, PTL DEF Spec

\* The members of a Lexer hold values of their types, and its places lie in
\* the text, whatever the file.
THEOREM TypesAreKept == Spec => []TypeOK
<1>1. ScanInv => TypeOK
  BY DEF ScanInv
<1> QED BY <1>1, ScanInvariance, PTL

\* A token of any file carries the line and the column where it starts,
\* unless the line was lost in an empty comment before it or the column was
\* counted twice for a lone & or | on its line.
THEOREM TokensKnowTheirPlace == Spec => []PositionsTrue
<1>1. ScanInv => PositionsTrue
  <2> SUFFICES ASSUME ScanInv, NEW i \in 1..Len(tokens), tokens[i].type # "EOF_TOKEN"
               PROVE  /\ EmptyComment(tokens[i].from) \/ tokens[i].line = LineOf(tokens[i].from)
                      /\ Stray(i) \/ tokens[i].col = ColOf(tokens[i].from)
    BY DEF PositionsTrue
  <2>1. TrueIn(text, tokens, i)
    BY DEF ScanInv, TokensOK
  <2> QED BY <2>1, SamePositions, Zenon DEF TrueIn
<1> QED BY <1>1, ScanInvariance, PTL
-----------------------------------------------------------------------------
(* Spellings                                                               *)

\* The marks that are operators by themselves.
Simple == {"(", ")", "{", "}", ",", ";", ":", "+", "-", "*", "/", "!", "=", "<", ">"}

LEMMA SimpleTypes ==
    /\ \A c \in Simple : Alone(c) # "ERROR_TOKEN"
    /\ \A c : Alone(c) # "ERROR_TOKEN" => c \in Simple
BY DEF Simple, Alone

\* An operator is one mark or a pair.
LEMMA OperatorsAre ==
    Stream!Operators = {<< <<c>>, Alone(c)>> : c \in Simple}
                       \cup {<< <<c, Second(c)>>, PairType(c)>> : c \in Pairs}
<1>1. {<< <<c>>, Alone(c)>> : c \in Simple} =
        {<< <<"(">>, "PL">>, << <<")">>, "PR">>, << <<"{">>, "BL">>, << <<"}">>, "BR">>,
         << <<",">>, "COMMA">>, << <<";">>, "SEMICOLON">>, << <<":">>, "COLON">>,
         << <<"+">>, "ADD">>, << <<"-">>, "ADD">>, << <<"*">>, "MUL">>, << <<"/">>, "MUL">>,
         << <<"!">>, "NOT">>, << <<"=">>, "ASSIGN">>, << <<"<">>, "CMP">>, << <<">">>, "CMP">>}
  <2>1. /\ Alone("(") = "PL" /\ Alone(")") = "PR" /\ Alone("{") = "BL" /\ Alone("}") = "BR"
        /\ Alone(",") = "COMMA" /\ Alone(";") = "SEMICOLON" /\ Alone(":") = "COLON"
        /\ Alone("+") = "ADD" /\ Alone("-") = "ADD" /\ Alone("*") = "MUL" /\ Alone("/") = "MUL"
        /\ Alone("!") = "NOT" /\ Alone("=") = "ASSIGN" /\ Alone("<") = "CMP" /\ Alone(">") = "CMP"
    BY DEF Alone
  <2> QED BY <2>1, ZenonT(30) DEF Simple
<1>2. {<< <<c, Second(c)>>, PairType(c)>> : c \in Pairs} =
        {<< <<"=", "=">>, "CMP_EQ">>, << <<"!", "=">>, "CMP_EQ">>, << <<"<", "=">>, "CMP">>,
         << <<">", "=">>, "CMP">>, << <<"&", "&">>, "LAND">>, << <<"|", "|">>, "LOR">>}
  <2>1. /\ Second("=") = "=" /\ Second("!") = "=" /\ Second("<") = "=" /\ Second(">") = "="
        /\ Second("&") = "&" /\ Second("|") = "|"
        /\ PairType("=") = "CMP_EQ" /\ PairType("!") = "CMP_EQ" /\ PairType("<") = "CMP"
        /\ PairType(">") = "CMP" /\ PairType("&") = "LAND" /\ PairType("|") = "LOR"
    BY DEF Second, Doubled, PairType
  <2>2. Pairs = {"=", "!", "<", ">", "&", "|"}
    BY DEF Pairs, Doubled
  <2> QED BY <2>1, <2>2, Zenon
<1> QED BY <1>1, <1>2, Zenon DEF Stream!Operators

LEMMA OperatorSpellings ==
    \A op \in Stream!Operators :
        \/ \E c \in Simple : op = << <<c>>, Alone(c)>>
        \/ \E c \in Pairs : op = << <<c, Second(c)>>, PairType(c)>>
BY OperatorsAre, Zenon

\* Those marks are no letters or digits.
LEMMA OperatorsAreMarks == \A c \in Simple \cup Pairs : c \notin Alnum
BY PunctuationAssumption DEF Simple, Pairs, Doubled, Alnum

\* The type of a spelling that begins with no letter or digit.
LEMMA OperatorType ==
    ASSUME NEW s, s[1] \notin Alnum, NEW kind,
           \E op \in Stream!Operators : op[1] = s,
           \A op \in Stream!Operators : op[1] = s => op[2] = kind
    PROVE  Stream!TypeOf(s) = kind
<1> DEFINE op == CHOOSE op \in Stream!Operators : op[1] = s
<1>1. op \in Stream!Operators /\ op[1] = s
  OBVIOUS
<1>2. s[1] \notin Letters /\ s[1] \notin Digits
  BY DEF Alnum
<1>3. Stream!TypeOf(s) = op[2]
  BY <1>2 DEF Stream!TypeOf
<1> QED BY <1>1, <1>3

LEMMA NoOperator ==
    ASSUME NEW s, s[1] \notin Alnum, Len(s) # 1, \A op \in Stream!Operators : op[1] # s
    PROVE  Stream!TypeOf(s) = "NONE"
BY DEF Stream!TypeOf, Alnum

LEMMA MarkType ==
    ASSUME NEW c \in Marks
    PROVE  Stream!TypeOf(<<c>>) = Alone(c)
<1> DEFINE s == <<c>>
<1>1. s[1] = c /\ Len(s) = 1 /\ c \notin Alnum
  BY CharsAssumption DEF Alnum
<1>2. \A op \in Stream!Operators : op[1] = s => c \in Simple /\ op[2] = Alone(c)
  <2> SUFFICES ASSUME NEW op \in Stream!Operators, op[1] = s
               PROVE  c \in Simple /\ op[2] = Alone(c)
    OBVIOUS
  <2>1. CASE \E d \in Simple : op = << <<d>>, Alone(d)>>
    <3>1. PICK d \in Simple : op = << <<d>>, Alone(d)>>
      BY <2>1
    <3>2. s = <<d>> /\ op[2] = Alone(d)
      BY <3>1
    <3>3. d = c
      BY <3>2
    <3> QED BY <3>2, <3>3
  <2>2. CASE \E d \in Pairs : op = << <<d, Second(d)>>, PairType(d)>>
    <3>1. PICK d \in Pairs : op = << <<d, Second(d)>>, PairType(d)>>
      BY <2>2
    <3>2. s = <<d, Second(d)>>
      BY <3>1
    <3> QED BY <1>1, <3>2
  <2> QED BY <2>1, <2>2, OperatorSpellings
<1>3. CASE c \in Simple
  <2>1. << s, Alone(c)>> \in Stream!Operators /\ << s, Alone(c)>>[1] = s
    BY <1>3, OperatorsAre
  <2>2. \E op \in Stream!Operators : op[1] = s
    BY <2>1
  <2> HIDE DEF s
  <2>3. Stream!TypeOf(s) = Alone(c)
    BY <1>1, <1>2, <2>2, OperatorType
  <2> QED BY <2>3 DEF s
<1>4. CASE c \notin Simple
  <2>1. Alone(c) = "ERROR_TOKEN"
    BY <1>4, SimpleTypes
  <2>2. \A op \in Stream!Operators : op[1] # s
    BY <1>2, <1>4
  <2> HIDE DEF s
  <2>3. Stream!TypeOf(s) = "ERROR_TOKEN"
    BY <1>1, <2>2 DEF Stream!TypeOf, Alnum
  <2> QED BY <2>1, <2>3 DEF s
<1> QED BY <1>3, <1>4, Zenon

LEMMA PairIs ==
    ASSUME NEW c \in Pairs
    PROVE  Stream!TypeOf(<<c, Second(c)>>) = PairType(c)
<1> DEFINE s == <<c, Second(c)>>
<1>1. s[1] = c /\ Len(s) = 2 /\ c \notin Alnum
  BY OperatorsAreMarks
<1>2. \A op \in Stream!Operators : op[1] = s => op[2] = PairType(c)
  <2> SUFFICES ASSUME NEW op \in Stream!Operators, op[1] = s
               PROVE  op[2] = PairType(c)
    OBVIOUS
  <2>1. CASE \E d \in Simple : op = << <<d>>, Alone(d)>>
    <3>1. PICK d \in Simple : op = << <<d>>, Alone(d)>>
      BY <2>1
    <3>2. s = <<d>>
      BY <3>1
    <3> QED BY <1>1, <3>2
  <2>2. CASE \E d \in Pairs : op = << <<d, Second(d)>>, PairType(d)>>
    <3>1. PICK d \in Pairs : op = << <<d, Second(d)>>, PairType(d)>>
      BY <2>2
    <3>2. s = <<d, Second(d)>> /\ op[2] = PairType(d)
      BY <3>1
    <3>3. d = c
      BY <3>2
    <3> QED BY <3>2, <3>3
  <2> QED BY <2>1, <2>2, OperatorSpellings
<1>3. << s, PairType(c)>> \in Stream!Operators /\ << s, PairType(c)>>[1] = s
  BY OperatorsAre
<1>4. \E op \in Stream!Operators : op[1] = s
  BY <1>3
<1> HIDE DEF s
<1>5. Stream!TypeOf(s) = PairType(c)
  BY <1>1, <1>2, <1>4, OperatorType
<1> QED BY <1>5 DEF s

\* No token begins with a mark, but the pairs and the mark by itself.
LEMMA MarksEnd ==
    ASSUME NEW S, NEW s \in Seq(S), s[1] \notin Alnum,
           \/ Len(s) = 2 /\ (s[1] \in Pairs => s[2] # Second(s[1]))
           \/ Len(s) > 2
    PROVE  Stream!TypeOf(s) = "NONE"
<1>1. ASSUME NEW op \in Stream!Operators, op[1] = s PROVE FALSE
  <2>1. CASE \E d \in Simple : op = << <<d>>, Alone(d)>>
    <3>1. PICK d \in Simple : op = << <<d>>, Alone(d)>>
      BY <2>1
    <3>2. s = <<d>>
      BY <1>1, <3>1
    <3> QED BY <3>2
  <2>2. CASE \E d \in Pairs : op = << <<d, Second(d)>>, PairType(d)>>
    <3>1. PICK d \in Pairs : op = << <<d, Second(d)>>, PairType(d)>>
      BY <2>2
    <3>2. s = <<d, Second(d)>>
      BY <1>1, <3>1
    <3> QED BY <3>2
  <2> QED BY <2>1, <2>2, OperatorSpellings
<1> QED BY <1>1, NoOperator

\* Names and numbers.
LEMMA NoOperatorInAlnum ==
    ASSUME NEW op \in Stream!Operators
    PROVE  op[1][1] \notin Alnum
<1>1. CASE \E d \in Simple : op = << <<d>>, Alone(d)>>
  <2>1. PICK d \in Simple : op = << <<d>>, Alone(d)>>
    BY <1>1
  <2>2. op[1][1] = d
    BY <2>1
  <2> QED BY <2>2, OperatorsAreMarks
<1>2. CASE \E d \in Pairs : op = << <<d, Second(d)>>, PairType(d)>>
  <2>1. PICK d \in Pairs : op = << <<d, Second(d)>>, PairType(d)>>
    BY <1>2
  <2>2. op[1][1] = d
    BY <2>1
  <2> QED BY <2>2, OperatorsAreMarks
<1> QED BY <1>1, <1>2, OperatorSpellings

LEMMA NameType ==
    ASSUME NEW s, s[1] \in Letters
    PROVE  Stream!TypeOf(s) =
             IF Stream!Only(Alnum, s) THEN IF s \in DOMAIN Keyword THEN Keyword[s] ELSE "SYMBOL"
                                      ELSE "NONE"
<1>1. \A op \in Stream!Operators : op[1] # s
  BY NoOperatorInAlnum DEF Alnum
<1>2. s[1] \notin Digits /\ s[1] \notin Marks
  BY CharsAssumption
<1> QED BY <1>1, <1>2 DEF Stream!TypeOf, Alnum

LEMMA NumberType ==
    ASSUME NEW s, s[1] \in Digits
    PROVE  Stream!TypeOf(s) =
             IF Stream!Only(Digits \cup {"."}, s)
               THEN IF Stream!Only(Digits, s) THEN "INTEGER" ELSE "FLOAT"
               ELSE "NONE"
<1>1. \A op \in Stream!Operators : op[1] # s
  BY NoOperatorInAlnum DEF Alnum
<1>2. s[1] \notin Letters /\ s[1] \notin Marks
  BY CharsAssumption
<1> QED BY <1>1, <1>2 DEF Stream!TypeOf

\* A name or a number cannot go on with another character.
LEMMA OneTooMany ==
    ASSUME NEW S, NEW s \in Seq(S), s # <<>>, NEW c,
           \/ s[1] \in Letters /\ c \notin Alnum
           \/ s[1] \in Digits /\ c \notin Digits \cup {"."}
    PROVE  Stream!TypeOf(Append(s, c)) = "NONE"
<1> DEFINE t == Append(s, c)
<1>1. t[1] = s[1] /\ Len(t) \in Nat /\ Len(t) \in 1..Len(t) /\ t[Len(t)] = c
  OBVIOUS
<1> HIDE DEF t
<1>2. CASE s[1] \in Letters /\ c \notin Alnum
  <2>1. ~Stream!Only(Alnum, t)
    BY <1>1, <1>2 DEF Stream!Only
  <2> QED BY <1>1, <1>2, <2>1, NameType DEF t
<1>3. CASE s[1] \in Digits /\ c \notin Digits \cup {"."}
  <2>1. ~Stream!Only(Digits \cup {"."}, t)
    BY <1>1, <1>3 DEF Stream!Only
  <2> QED BY <1>1, <1>3, <2>1, NumberType DEF t
<1> QED BY <1>2, <1>3
-----------------------------------------------------------------------------
(* Blanks and comments                                                     *)

\* One text is the beginning of another.
Begins(t, u) ==
    /\ t \in Seq(Chars) /\ u \in Seq(Chars) /\ Len(t) <= Len(u)
    /\ \A k \in 1..Len(t) : u[k] = t[k]

\* The least of a set of places.
LEMMA FirstPlace ==
    ASSUME NEW n \in Nat, NEW S \in SUBSET (1..n), S # {}
    PROVE  \E m \in S : \A k \in S : m <= k
<1> DEFINE T == {k \in 1..n : n + 1 - k \in S}
<1>1. PICK x \in S : TRUE
  OBVIOUS
<1>2. x \in 1..n /\ n + 1 - x \in 1..n /\ n + 1 - (n + 1 - x) = x
  BY <1>1
<1>3. T # {} /\ T \in SUBSET (1..n)
  BY <1>1, <1>2
<1>4. PICK m \in T : \A k \in T : k <= m
  <2> HIDE DEF T
  <2> QED BY <1>3, LastPlace
<1>5. n + 1 - m \in S /\ m \in 1..n
  BY <1>3, <1>4
<1>6. ASSUME NEW k \in S PROVE n + 1 - m <= k
  <2>1. k \in 1..n /\ n + 1 - k \in 1..n /\ n + 1 - (n + 1 - k) = k
    OBVIOUS
  <2>2. n + 1 - k <= m
    BY <1>4, <2>1
  <2> QED BY <1>5, <2>1, <2>2
<1> QED BY <1>5, <1>6

\* A comment goes to the first new line that it looks at.
LEMMA CommentEnds ==
    ASSUME NEW t \in Seq(Chars), NEW i \in 1..Len(t), NEW m \in (i + 2)..Len(t), t[m] = "\n",
           \A k \in (i + 2)..(m - 1) : t[k] # "\n"
    PROVE  Stream!Comment(t, i) = i..m
<1> DEFINE newlines == {j \in (i + 2)..Len(t) : t[j] = "\n"}
<1>1. m \in newlines /\ newlines # {} /\ i \in Nat /\ m \in Nat /\ Len(t) \in Nat
  OBVIOUS
<1>2. \A j \in newlines : j \in Nat /\ m <= j
  OBVIOUS
<1> HIDE DEF newlines
<1>3. (CHOOSE j \in newlines : \A k \in newlines : j <= k) = m
  <2> DEFINE l == CHOOSE j \in newlines : \A k \in newlines : j <= k
  <2>1. \A k \in newlines : m <= k
    BY <1>2
  <2>2. l \in newlines /\ \A k \in newlines : l <= k
    BY <1>1, <2>1
  <2> HIDE DEF l
  <2>3. l <= m /\ m <= l /\ l \in Nat
    BY <1>1, <1>2, <2>2
  <2>4. l = m
    BY <1>1, <2>3
  <2> QED BY <2>4 DEF l
<1>4. Stream!Comment(t, i) = i..(IF newlines = {} THEN Len(t) ELSE
                                 CHOOSE j \in newlines : \A k \in newlines : j <= k)
  BY Zenon DEF Stream!Comment, newlines
<1> QED BY <1>1, <1>3, <1>4

LEMMA CommentGoesOn ==
    ASSUME NEW t \in Seq(Chars), NEW i \in 1..Len(t),
           \A k \in (i + 2)..Len(t) : t[k] # "\n"
    PROVE  Stream!Comment(t, i) = i..Len(t)
<1>1. {j \in (i + 2)..Len(t) : t[j] = "\n"} = {}
  OBVIOUS
<1> QED BY <1>1 DEF Stream!Comment

\* From i to j there are only blanks and comments, and the comments are over.
Over(t, end, k, j) == end \/ \E m \in (k + 2)..j : t[m] = "\n"

SkippedBy(starts, t, i, j) ==
    /\ starts \subseteq {k \in i..j : t[k] = "#"}
    /\ \A k, l \in starts : k # l => Stream!Comment(t, k) \cap Stream!Comment(t, l) = {}
    /\ \A k \in starts : Stream!Comment(t, k) \subseteq i..j
    /\ \A k \in i..j : \/ t[k] \in Blanks
                       \/ \E l \in starts : k \in Stream!Comment(t, l)

Passed(t, end, i, j) ==
    \E starts : SkippedBy(starts, t, i, j) /\ \A k \in starts : Over(t, end, k, j)

LEMMA PassedIsSkipped ==
    ASSUME NEW t, NEW end, NEW i, NEW j, Passed(t, end, i, j)
    PROVE  Stream!Skipped(t, i, j)
BY DEF Passed, SkippedBy, Stream!Skipped, Stream!Spaces, Blanks

LEMMA NothingPassed ==
    ASSUME NEW t, NEW end, NEW i \in Int
    PROVE  Passed(t, end, i + 1, i)
<1>1. (i + 1)..i = {}
  OBVIOUS
<1>2. SkippedBy({}, t, i + 1, i)
  <2>1. {} \subseteq {k \in (i + 1)..i : t[k] = "#"}
    OBVIOUS
  <2> QED BY <1>1, <2>1, Zenon DEF SkippedBy
<1> DEFINE starts == {}
<1>3. \A k \in starts : Over(t, end, k, i)
  OBVIOUS
<1>4. SkippedBy(starts, t, i + 1, i)
  BY <1>2
<1> HIDE DEF starts
<1> QED BY <1>3, <1>4 DEF Passed

\* A comment that is over stays the same in a longer text.
LEMMA CommentStays ==
    ASSUME NEW t, NEW u, Begins(t, u), NEW k \in 1..Len(t), NEW m \in (k + 2)..Len(t), t[m] = "\n"
    PROVE  Stream!Comment(u, k) = Stream!Comment(t, k)
<1> DEFINE S == {x \in 1..m : k + 2 <= x /\ t[x] = "\n"}
<1>1. /\ t \in Seq(Chars) /\ u \in Seq(Chars) /\ Len(t) <= Len(u)
      /\ \A x \in 1..Len(t) : u[x] = t[x]
  BY DEF Begins
<1>2. Len(t) \in Nat /\ Len(u) \in Nat /\ k \in 1..Len(u) /\ k \in Nat /\ m \in Nat /\ m <= Len(t)
  BY <1>1
<1>3. m \in S /\ S \in SUBSET (1..m)
  BY <1>2
<1>4. PICK n \in S : \A x \in S : n <= x
  <2> HIDE DEF S
  <2> QED BY <1>2, <1>3, FirstPlace
<1>5. /\ n \in (k + 2)..Len(t) /\ n \in (k + 2)..Len(u) /\ n \in 1..Len(t) /\ t[n] = "\n"
      /\ n <= m /\ n \in Nat
  BY <1>1, <1>2, <1>3, <1>4
<1>6. ASSUME NEW x \in (k + 2)..(n - 1) PROVE t[x] # "\n" /\ x \in 1..Len(t)
  <2>1. x \in 1..m /\ k + 2 <= x /\ ~(n <= x) /\ x \in 1..Len(t)
    BY <1>2, <1>5
  <2>2. x \notin S
    BY <1>4, <2>1
  <2> QED BY <2>1, <2>2
<1> HIDE DEF S
<1>7. u[n] = "\n" /\ \A x \in (k + 2)..(n - 1) : u[x] # "\n"
  BY <1>1, <1>5, <1>6
<1>8. Stream!Comment(t, k) = k..n
  BY <1>1, <1>5, <1>6, CommentEnds
<1>9. Stream!Comment(u, k) = k..n
  BY <1>1, <1>2, <1>5, <1>7, CommentEnds
<1> QED BY <1>8, <1>9

LEMMA PassedStays ==
    ASSUME NEW t, NEW u, Begins(t, u), NEW end, NEW end1, end => end1 /\ u = t,
           NEW i \in Nat \ {0}, NEW j \in 0..Len(t), Passed(t, end, i, j)
    PROVE  Passed(u, end1, i, j)
<1>1. PICK starts : SkippedBy(starts, t, i, j) /\ \A k \in starts : Over(t, end, k, j)
  BY DEF Passed
<1>2. CASE end
  <2>1. \A k \in starts : Over(t, end1, k, j)
    BY <1>1, <1>2 DEF Over
  <2> QED BY <1>1, <1>2, <2>1 DEF Passed
<1>3. CASE ~end
  <2>1. /\ Len(t) \in Nat /\ \A k \in i..j : k \in 1..Len(t) /\ u[k] = t[k]
    BY DEF Begins
  <2>2. \A k \in starts : k \in i..j
    BY <1>1 DEF SkippedBy
  <2>3. ASSUME NEW k \in starts
        PROVE  Over(u, end1, k, j) /\ Stream!Comment(u, k) = Stream!Comment(t, k)
    <3>1. k \in 1..Len(t) /\ k \in i..j
      BY <2>1, <2>2
    <3>2. PICK m \in (k + 2)..j : t[m] = "\n"
      BY <1>1, <1>3 DEF Over
    <3>3. m \in (k + 2)..Len(t) /\ m \in i..j
      BY <2>1, <3>1
    <3>4. Stream!Comment(u, k) = Stream!Comment(t, k)
      BY <3>1, <3>2, <3>3, CommentStays
    <3>5. u[m] = "\n"
      BY <2>1, <3>2, <3>3
    <3> QED BY <3>4, <3>5 DEF Over
  <2>4. {k \in i..j : u[k] = "#"} = {k \in i..j : t[k] = "#"}
    BY <2>1
  <2>5. SkippedBy(starts, u, i, j)
    BY <1>1, <2>1, <2>3, <2>4 DEF SkippedBy
  <2> QED BY <2>3, <2>5 DEF Passed
<1> QED BY <1>2, <1>3

\* One more blank, and one more comment.
LEMMA PassBlank ==
    ASSUME NEW t, NEW end, NEW i \in Nat \ {0}, NEW j \in Nat, i <= j + 1,
           Passed(t, end, i, j), t[j + 1] \in Blanks
    PROVE  Passed(t, end, i, j + 1)
<1>1. PICK starts : SkippedBy(starts, t, i, j) /\ \A k \in starts : Over(t, end, k, j)
  BY DEF Passed
<1>2. \A k \in i..j : k \in i..(j + 1)
  OBVIOUS
<1>3. \A k \in i..(j + 1) : k = j + 1 \/ k \in i..j
  OBVIOUS
<1>4. SkippedBy(starts, t, i, j + 1)
  BY <1>1, <1>2, <1>3 DEF SkippedBy
<1>5. \A k \in starts : \A m \in (k + 2)..j : m \in (k + 2)..(j + 1)
  <2>1. \A k \in starts : k \in Nat
    BY <1>1 DEF SkippedBy
  <2> QED BY <2>1
<1>6. \A k \in starts : Over(t, end, k, j + 1)
  BY <1>1, <1>5 DEF Over
<1> QED BY <1>4, <1>6 DEF Passed

LEMMA PassComment ==
    ASSUME NEW t, NEW end, NEW i \in Nat \ {0}, NEW h \in Nat, i <= h, NEW m \in Nat, h <= m,
           Passed(t, end, i, h - 1), t[h] = "#", Stream!Comment(t, h) = h..m, Over(t, end, h, m)
    PROVE  Passed(t, end, i, m)
<1>1. PICK starts : SkippedBy(starts, t, i, h - 1) /\ \A k \in starts : Over(t, end, k, h - 1)
  BY DEF Passed
<1> DEFINE more == starts \cup {h}
<1>2. /\ \A k \in i..(h - 1) : k \in i..m /\ k \notin h..m
      /\ \A k \in i..m : k \in h..m \/ k \in i..(h - 1)
      /\ h..m \subseteq i..m /\ h \in i..m
  OBVIOUS
<1>3. \A k \in starts : k \in i..(h - 1) /\ t[k] = "#" /\ Stream!Comment(t, k) \subseteq i..(h - 1)
  BY <1>1 DEF SkippedBy
<1>4. more \subseteq {k \in i..m : t[k] = "#"}
  BY <1>2, <1>3
<1>5. \A k \in more : Stream!Comment(t, k) \subseteq i..m
  BY <1>2, <1>3
<1>6. ASSUME NEW k \in more, NEW l \in more, k # l
      PROVE  Stream!Comment(t, k) \cap Stream!Comment(t, l) = {}
  <2>1. CASE k \in starts /\ l \in starts
    BY <1>1, <1>6, <2>1 DEF SkippedBy
  <2>2. CASE k = h
    <3>1. l \in starts
      BY <1>6, <2>2
    <3> QED BY <1>2, <1>3, <2>2, <3>1
  <2>3. CASE l = h
    <3>1. k \in starts
      BY <1>6, <2>3
    <3> QED BY <1>2, <1>3, <2>3, <3>1
  <2> QED BY <2>1, <2>2, <2>3
<1>7. ASSUME NEW k \in i..m
      PROVE  t[k] \in Blanks \/ \E l \in more : k \in Stream!Comment(t, l)
  <2>1. CASE k \in h..m
    BY <2>1
  <2>2. CASE k \in i..(h - 1)
    <3>1. t[k] \in Blanks \/ \E l \in starts : k \in Stream!Comment(t, l)
      BY <1>1, <2>2 DEF SkippedBy
    <3> QED BY <3>1
  <2> QED BY <1>2, <2>1, <2>2
<1>8. SkippedBy(more, t, i, m)
  <2> HIDE DEF more
  <2> QED BY <1>4, <1>5, <1>6, <1>7 DEF SkippedBy
<1>9. \A k \in more : Over(t, end, k, m)
  <2>1. \A k \in starts : \A n \in (k + 2)..(h - 1) : n \in (k + 2)..m
    <3>1. \A k \in starts : k \in Nat
      BY <1>3
    <3> QED BY <3>1
  <2> QED BY <1>1, <2>1 DEF Over
<1> HIDE DEF more
<1> QED BY <1>8, <1>9 DEF Passed
-----------------------------------------------------------------------------
(* Where the scanner stands in the stream of tokens                        *)

\* The client got the last token; what it gave back is that token; the end of
\* the file is where the last token says.
ClientOK ==
    /\ given = IF tokens = <<>> THEN NONE ELSE tokens[Len(tokens)]
    /\ ~Empty => at = "idle" /\ tokens # <<>> /\ saved = tokens[Len(tokens)]
    /\ tokens # <<>> /\ tokens[Len(tokens)].type = "EOF_TOKEN" =>
         at = "idle" /\ tokens[Len(tokens)] = Token("EOF_TOKEN", pos + 1, pos, line, col)

\* The comment that was begun at h goes on.
Commenting(h) ==
    /\ text[h] = "#" /\ Passed(text, ended, Stream!Reached + 1, h - 1)
    /\ at = "comment" => h = pos
    /\ at = "comment.rest" => ended \/ h < pos
    /\ \A k \in (h + 2)..pos : text[k] # "\n"

\* What lies between the last token and the next one.
SkipOK ==
    /\ Stream!Reached \in 0..pos
    /\ at = "idle" => Stream!Reached = pos
    /\ at = "start" => Passed(text, ended, Stream!Reached + 1, pos)
    /\ at \in Inner => /\ Stream!Reached < begin
                       /\ Passed(text, ended, Stream!Reached + 1, begin - 1)
    /\ at \in InComment => \E h \in (Stream!Reached + 1)..pos : Commenting(h)

\* The spelling read so far.
SpellOK ==
    /\ at = "identifier" => /\ text[begin] \in Letters
                            /\ \A k \in begin..pos : text[k] \in Alnum
    /\ at = "number" => /\ text[begin] \in Digits
                        /\ \A k \in begin..pos : text[k] \in Digits \cup {"."}
                        /\ type = "INTEGER" <=> \A k \in begin..pos : text[k] \in Digits

StreamOK == ScanInv /\ ClientOK /\ SkipOK /\ SpellOK
-----------------------------------------------------------------------------
(* Reading                                                                 *)

LEMMA Beginning ==
    ASSUME NEW t, NEW u, Begins(t, u)
    PROVE  SubSeq(u, 1, Len(t)) = t
<1>1. Len(t) \in Nat /\ \A k \in 1..Len(t) : u[k] \in Chars /\ u[k] = t[k]
  BY DEF Begins
<1> DEFINE v == SubSeq(u, 1, Len(t))
<1>2. v \in Seq(Chars) /\ Len(v) = Len(t) /\ \A k \in 1..Len(t) : v[k] = u[k]
  BY <1>1, SubSeqProperties
<1>3. t \in Seq(Chars)
  BY DEF Begins
<1> HIDE DEF v
<1>4. v = t
  BY <1>1, <1>2, <1>3, SeqEqual
<1> QED BY <1>4 DEF v

LEMMA Reading ==
    ASSUME ScanInv, NEW c, Upcoming(c)
    PROVE  Stream!Grows /\ Begins(text, text') /\ (ended => ended' /\ text' = text)
<1>1. TypeOK /\ PlacesOK /\ text \in Seq(Chars) /\ ended \in BOOLEAN
  BY DEF ScanInv, TypeOK
<1>2. Begins(text, text')
  BY <1>1, ReadOne DEF Begins
<1>3. ended => ended' /\ text' = text
  BY <1>1, ReadOne
<1> QED BY <1>2, <1>3, Beginning DEF Stream!Grows, Begins

\* What was passed before is still passed.
LEMMA StillPassed ==
    ASSUME ScanInv, NEW c, Upcoming(c), NEW r \in Nat, NEW j \in 0..Len(text),
           Passed(text, ended, r + 1, j)
    PROVE  Passed(text', ended', r + 1, j)
<1>1. r + 1 \in Nat \ {0}
  OBVIOUS
<1>2. Begins(text, text') /\ (ended => ended' /\ text' = text)
  BY Reading
<1> QED BY <1>1, <1>2, PassedStays

\* lex() reads on.
LEMMA ReadsOn ==
    ASSUME StreamOK, NEW c, Upcoming(c), UNCHANGED client,
           at # "idle" \/ (Empty /\ c # EOF)
    PROVE  /\ Stream!Read /\ ClientOK'
           /\ Stream!Reached' = Stream!Reached /\ Stream!Reached \in 0..pos
<1>1. UNCHANGED <<saved, given, tokens>>
  BY DEF client
<1>2. Stream!Read
  BY <1>1, Reading DEF StreamOK, Stream!Read, Empty
<1>3. Empty /\ ~(tokens # <<>> /\ tokens[Len(tokens)].type = "EOF_TOKEN")
  <2>1. c # EOF => ~ended
    BY ReadOne DEF StreamOK, ScanInv
  <2> QED BY <2>1 DEF StreamOK, ScanInv, PlacesOK, ClientOK
<1>4. ClientOK'
  BY <1>1, <1>3 DEF StreamOK, ClientOK, Empty
<1>5. Stream!Reached' = Stream!Reached
  BY <1>1 DEF Stream!Reached, Stream!LastOf
<1> QED BY <1>2, <1>4, <1>5 DEF StreamOK, SkipOK

\* Where a token, a blank or a comment may start.
LEMMA Starting ==
    ASSUME StreamOK, NEW c, Start(c)
    PROVE  /\ Upcoming(c) /\ Empty /\ pos' = (IF c = EOF THEN pos ELSE pos + 1)
           /\ Passed(text', ended', Stream!Reached + 1, pos)
           /\ Stream!Reached \in 0..pos /\ pos \in Nat
           /\ pos' <= Len(text') /\ (c # EOF => text'[pos + 1] = c)
<1>1. /\ Upcoming(c) /\ fgetc(c) /\ pos' = (IF c = EOF THEN pos ELSE pos + 1)
      /\ (at = "idle" /\ Empty) \/ at = "start"
  BY DEF Start, fgetc
<1>2. Empty /\ Stream!Reached \in 0..pos
  BY <1>1 DEF StreamOK, ClientOK, SkipOK
<1>3. pos \in 0..Len(text) /\ Len(text) \in Nat
  BY DEF StreamOK, ScanInv, TypeOK
<1>4. Passed(text', ended', Stream!Reached + 1, pos)
  <2>1. CASE at = "idle"
    BY <1>2, <1>3, <2>1, NothingPassed DEF StreamOK, SkipOK
  <2>2. CASE at = "start"
    BY <1>1, <1>2, <1>3, <2>2, StillPassed DEF StreamOK, SkipOK
  <2> QED BY <1>1, <2>1, <2>2
<1>5. pos' <= Len(text') /\ (c # EOF => text'[pos + 1] = c)
  BY <1>1, <1>3, FgetcReads DEF StreamOK, ScanInv, Grown
<1> QED BY <1>1, <1>2, <1>3, <1>4, <1>5
-----------------------------------------------------------------------------
(* What lies between tokens                                                *)

\* lex() has begun and goes on.
LEMMA StartsAndGoesOn ==
    ASSUME StreamOK, ScanInv', NEW c, c # EOF, Start(c), UNCHANGED client, SpellOK',
           \/ at' = "start" /\ c \in Blanks
           \/ at' = "comment" /\ c = "#"
           \/ at' \in Inner /\ begin' = pos + 1
    PROVE  Stream!Read /\ StreamOK'
<1> DEFINE r == Stream!Reached
<1>1. /\ Upcoming(c) /\ Empty /\ pos' = pos + 1 /\ pos \in Nat /\ text'[pos + 1] = c
      /\ Passed(text', ended', r + 1, pos) /\ r \in 0..pos
  BY Starting
<1>2. Stream!Read /\ ClientOK' /\ Stream!Reached' = r
  BY <1>1, ReadsOn
<1> HIDE DEF r
<1>3. CASE at' = "start" /\ c \in Blanks
  <2>1. Passed(text', ended', r + 1, pos')
    BY <1>1, <1>3, PassBlank
  <2> QED BY <1>1, <1>2, <1>3, <2>1 DEF SkipOK, Inner, InComment, StreamOK
<1>4. CASE at' = "comment" /\ c = "#"
  <2>1. PICK h \in (r + 1)..pos' : h = pos + 1
    BY <1>1
  <2>2. h - 1 = pos /\ h = pos' /\ \A k \in (h + 2)..pos' : FALSE
    BY <1>1, <2>1
  <2>3. Commenting(h)'
    BY <1>1, <1>2, <1>4, <2>1, <2>2 DEF Commenting
  <2> QED BY <1>1, <1>2, <1>4, <2>1, <2>3 DEF SkipOK, Inner, InComment, StreamOK
<1>5. CASE at' \in Inner /\ begin' = pos + 1
  BY <1>1, <1>2, <1>5 DEF SkipOK, Inner, InComment, StreamOK
<1> QED BY <1>3, <1>4, <1>5

LEMMA BlankReads == ASSUME StreamOK, Blank PROVE Stream!Read /\ StreamOK'
<1>1. PICK c \in Blanks : Start(c) /\ at' = "start" /\ UNCHANGED client
  BY DEF Blank, Goto
<1>2. SpellOK'
  BY <1>1 DEF SpellOK
<1> QED BY <1>1, <1>2, BlankKeeps, Spellings, StartsAndGoesOn DEF StreamOK

LEMMA CommentReads == ASSUME StreamOK, Comment PROVE Stream!Read /\ StreamOK'
<1>1. Start("#") /\ at' = "comment" /\ UNCHANGED client
  BY DEF Comment, Goto
<1>2. SpellOK'
  BY <1>1 DEF SpellOK
<1> QED BY <1>1, <1>2, CommentKeeps, Spellings, StartsAndGoesOn DEF StreamOK

LEMMA BeginTokenReads == ASSUME StreamOK, BeginToken PROVE Stream!Read /\ StreamOK'
<1>1. PICK c \in Alnum : Start(c) /\ at' = IF c \in Letters THEN "identifier" ELSE "number"
  BY DEF BeginToken
<1>2. begin' = pos + 1 /\ type' = "INTEGER" /\ UNCHANGED client
  BY DEF BeginToken
<1>3. c # EOF
  BY CharsAssumption DEF Alnum
<1>4. pos' = pos + 1 /\ pos \in Nat /\ text'[pos + 1] = c
  BY <1>1, <1>3, Starting
<1>5. \A k \in begin'..pos' : k = begin'
  BY <1>2, <1>4
<1>6. SpellOK'
  BY <1>1, <1>2, <1>4, <1>5 DEF SpellOK, Alnum
<1>7. at' \in Inner
  BY <1>1 DEF Inner
<1> QED BY <1>1, <1>2, <1>3, <1>6, <1>7, BeginTokenKeeps, StartsAndGoesOn DEF StreamOK

LEMMA BeginPairReads == ASSUME StreamOK, BeginPair PROVE Stream!Read /\ StreamOK'
<1>1. PICK c \in Pairs : Start(c)
  BY DEF BeginPair
<1>2. at' = "pair" /\ begin' = pos + 1 /\ UNCHANGED client
  BY DEF BeginPair
<1>3. c # EOF
  BY DEF Pairs, Doubled, EOF
<1>4. SpellOK' /\ at' \in Inner
  BY <1>2 DEF SpellOK, Inner
<1> QED BY <1>1, <1>2, <1>3, <1>4, BeginPairKeeps, StartsAndGoesOn DEF StreamOK

\* What is known of a comment stays so.
LEMMA CommentIsKept ==
    ASSUME StreamOK, NEW c, Upcoming(c), at \in InComment
    PROVE  \E h \in (Stream!Reached + 1)..pos :
             /\ text'[h] = "#" /\ Passed(text', ended', Stream!Reached + 1, h - 1)
             /\ at = "comment" => h = pos
             /\ at = "comment.rest" => ended \/ h < pos
             /\ \A k \in (h + 2)..pos : text'[k] # "\n"
<1>1. PICK h \in (Stream!Reached + 1)..pos : Commenting(h)
  BY DEF StreamOK, SkipOK
<1>2. /\ pos \in 0..Len(text) /\ Len(text) \in Nat /\ Stream!Reached \in 0..pos
  BY DEF StreamOK, ScanInv, TypeOK, SkipOK
<1>3. \A k \in 1..Len(text) : text'[k] = text[k]
  BY Reading DEF Begins, StreamOK
<1>4. h \in 1..Len(text) /\ h - 1 \in 0..Len(text) /\ \A k \in (h + 2)..pos : k \in 1..Len(text)
  BY <1>2
<1>5. Passed(text', ended', Stream!Reached + 1, h - 1)
  BY <1>1, <1>2, <1>4, StillPassed DEF StreamOK, Commenting
<1> QED BY <1>1, <1>3, <1>4, <1>5 DEF Commenting

LEMMA CommentFirstReads == ASSUME StreamOK, CommentFirst PROVE Stream!Read /\ StreamOK'
<1>1. PICK c \in Readable : fgetc(c)
  BY DEF CommentFirst
<1>2. at = "comment" /\ at' = "comment.rest" /\ UNCHANGED client
  BY DEF CommentFirst, Goto
<1>3. Upcoming(c) /\ pos' = (IF c = EOF THEN pos ELSE pos + 1) /\ (c = EOF => ended')
  BY <1>1, FgetcReads DEF fgetc, StreamOK, ScanInv
<1>4. Stream!Read /\ ClientOK' /\ Stream!Reached' = Stream!Reached /\ Stream!Reached \in 0..pos
  BY <1>2, <1>3, ReadsOn
<1>5. /\ pos \in Nat /\ text'[pos] = "#" /\ Passed(text', ended', Stream!Reached + 1, pos - 1)
      /\ pos \in (Stream!Reached + 1)..pos
  <2>1. pos \in Nat /\ at \in InComment
    BY <1>2 DEF StreamOK, ScanInv, TypeOK, InComment
  <2> QED BY <1>2, <1>3, <2>1, CommentIsKept
<1>6. PICK h \in (Stream!Reached + 1)..pos' : h = pos
  BY <1>3, <1>5
<1>7. Commenting(h)'
  <2>1. \A k \in (pos + 2)..pos' : FALSE
    BY <1>3, <1>5
  <2>2. ended' \/ pos < pos'
    BY <1>3, <1>5
  <2> QED BY <1>2, <1>3, <1>4, <1>5, <1>6, <2>1, <2>2 DEF Commenting
<1>8. SkipOK' /\ SpellOK'
  <2>1. \E i \in (Stream!Reached + 1)..pos' : Commenting(i)'
    BY <1>7
  <2>2. Stream!Reached \in 0..pos'
    BY <1>3, <1>4, <1>5
  <2> QED BY <1>2, <1>4, <2>1, <2>2 DEF SkipOK, SpellOK, Inner
<1> QED BY <1>4, <1>8, CommentFirstKeeps DEF StreamOK

LEMMA CommentRestReads == ASSUME StreamOK, CommentRest PROVE Stream!Read /\ StreamOK'
<1> DEFINE r == Stream!Reached
<1>1. PICK c \in Readable :
        /\ fgetc(c)
        /\ \/ c \in {"\n", EOF} /\ at' = "start"
           \/ c \notin {"\n", EOF} /\ at' = "comment.rest"
  BY DEF CommentRest, Goto
<1>2. at = "comment.rest" /\ UNCHANGED client
  BY DEF CommentRest, Goto
<1>3. /\ Upcoming(c) /\ pos' = (IF c = EOF THEN pos ELSE pos + 1) /\ pos \in Nat
      /\ c = EOF => ended' /\ pos' = Len(text')
      /\ c # EOF => ~ended /\ text'[pos'] = c
      /\ text' \in Seq(Chars) /\ pos' \in 0..Len(text') /\ Len(text') \in Nat
  <2>1. pos \in Nat
    BY DEF StreamOK, ScanInv, TypeOK
  <2> QED BY <1>1, <2>1, FgetcReads DEF fgetc, StreamOK, ScanInv, Grown
<1>4. Stream!Read /\ ClientOK' /\ Stream!Reached' = r /\ r \in 0..pos
  BY <1>2, <1>3, ReadsOn
<1>5. PICK h \in (r + 1)..pos :
        /\ text'[h] = "#" /\ Passed(text', ended', r + 1, h - 1)
        /\ ended \/ h < pos
        /\ \A k \in (h + 2)..pos : text'[k] # "\n"
  <2>1. at \in InComment
    BY <1>2 DEF InComment
  <2> QED BY <1>2, <1>3, <2>1, CommentIsKept
<1> HIDE DEF r
<1>6. h \in Nat /\ r + 1 \in Nat \ {0} /\ r + 1 <= h /\ h <= pos' /\ pos' \in Nat /\ h \in 1..Len(text')
  BY <1>3, <1>4
<1>7. CASE c \notin {"\n", EOF}
  <2>1. \A k \in (h + 2)..pos' : k = pos' \/ k \in (h + 2)..pos
    BY <1>3, <1>7
  <2>2. h < pos' /\ h \in (r + 1)..pos'
    BY <1>3, <1>6, <1>7
  <2>3. at' = "comment.rest"
    BY <1>1, <1>7
  <2>4. Commenting(h)'
    BY <1>3, <1>4, <1>5, <1>7, <2>1, <2>2, <2>3 DEF Commenting
  <2>5. SkipOK' /\ SpellOK'
    BY <1>4, <1>6, <2>2, <2>3, <2>4 DEF SkipOK, SpellOK, Inner
  <2> QED BY <1>4, <2>5, CommentRestKeeps DEF StreamOK
<1>8. CASE c \in {"\n", EOF}
  <2>1. Stream!Comment(text', h) = h..pos' /\ Over(text', ended', h, pos')
    <3>1. CASE c = EOF
      <4>1. \A k \in (h + 2)..Len(text') : text'[k] # "\n"
        BY <1>3, <1>5, <3>1
      <4>2. Stream!Comment(text', h) = h..Len(text')
        BY <1>3, <1>6, <4>1, CommentGoesOn
      <4> QED BY <1>3, <3>1, <4>2 DEF Over
    <3>2. CASE c = "\n" /\ c # EOF
      <4>1. h < pos /\ pos' = pos + 1 /\ text'[pos'] = "\n"
        BY <1>3, <1>5, <3>2
      <4>2. /\ pos' \in (h + 2)..Len(text') /\ pos' \in (h + 2)..pos'
            /\ \A k \in (h + 2)..(pos' - 1) : k \in (h + 2)..pos
        BY <1>3, <1>6, <4>1
      <4>3. Stream!Comment(text', h) = h..pos'
        BY <1>3, <1>5, <1>6, <4>1, <4>2, CommentEnds
      <4> QED BY <4>1, <4>2, <4>3 DEF Over
    <3> QED BY <1>8, <3>1, <3>2
  <2>2. Passed(text', ended', r + 1, pos')
    BY <1>5, <1>6, <2>1, PassComment
  <2>3. at' = "start"
    BY <1>1, <1>8
  <2>4. SkipOK' /\ SpellOK'
    BY <1>4, <1>6, <2>2, <2>3 DEF SkipOK, SpellOK, Inner, InComment
  <2> QED BY <1>4, <2>4, CommentRestKeeps DEF StreamOK
<1> QED BY <1>7, <1>8
-----------------------------------------------------------------------------
(* Names and numbers                                                       *)

\* One more character of a token.
LEMMA SpellsOn ==
    ASSUME StreamOK, ScanInv', NEW c, c # EOF, fgetc(c), at \in {"identifier", "number"},
           UNCHANGED <<at, begin, client>>,
           at = "identifier" => c \in Alnum,
           at = "number" => /\ c \in Digits \cup {"."}
                            /\ type' = IF c = "." THEN "FLOAT" ELSE type
    PROVE  Stream!Read /\ StreamOK'
<1>1. /\ Upcoming(c) /\ pos' = pos + 1 /\ pos \in Nat /\ text'[pos'] = c
      /\ \A k \in 1..Len(text) : text'[k] = text[k]
  <2>1. pos \in Nat
    BY DEF StreamOK, ScanInv, TypeOK
  <2> QED BY <2>1, FgetcReads DEF fgetc, StreamOK, ScanInv, Grown
<1>2. /\ Stream!Read /\ ClientOK' /\ Stream!Reached' = Stream!Reached
      /\ Stream!Reached \in 0..pos
  BY <1>1, ReadsOn
<1>3. begin \in 1..pos /\ pos \in 0..Len(text) /\ Len(text) \in Nat /\ at \in Inner
  BY DEF StreamOK, ScanInv, TypeOK, PlacesOK, Inner
<1>4. /\ Stream!Reached < begin
      /\ Passed(text', ended', Stream!Reached + 1, begin - 1)
  <2>1. begin - 1 \in 0..Len(text) /\ Stream!Reached \in Nat
    BY <1>2, <1>3
  <2> QED BY <1>1, <1>3, <2>1, StillPassed DEF StreamOK, SkipOK
<1>5. /\ \A k \in begin..pos : k \in 1..Len(text) /\ k \in begin..pos'
      /\ \A k \in begin..pos' : k = pos' \/ k \in begin..pos
      /\ begin \in 1..Len(text) /\ pos' \in begin..pos'
  BY <1>1, <1>3
<1>6. SpellOK'
  <2>1. CASE at = "identifier"
    BY <1>1, <1>5, <2>1 DEF SpellOK, StreamOK
  <2>2. CASE at = "number"
    <3>1. /\ text'[begin] \in Digits /\ \A k \in begin..pos' : text'[k] \in Digits \cup {"."}
      BY <1>1, <1>5, <2>2 DEF SpellOK, StreamOK
    <3>2. type \in {"INTEGER", "FLOAT"} /\ "." \notin Digits
      BY PunctuationAssumption DEF StreamOK, ScanInv, TypeOK
    <3>3. (type = "INTEGER") <=> \A k \in begin..pos : text'[k] \in Digits
      BY <1>1, <1>5, <2>2 DEF SpellOK, StreamOK
    <3>4. (type' = "INTEGER") <=> \A k \in begin..pos' : text'[k] \in Digits
      <4>1. CASE c = "."
        BY <1>1, <1>5, <2>2, <3>2, <4>1
      <4>2. CASE c # "." /\ c \in Digits
        BY <1>1, <1>5, <2>2, <3>3, <4>2
      <4> QED BY <2>2, <4>1, <4>2
    <3> QED BY <2>2, <3>1, <3>4 DEF SpellOK
  <2> QED BY <2>1, <2>2
<1>7. SkipOK'
  <2>1. Stream!Reached \in 0..pos'
    BY <1>1, <1>2
  <2> QED BY <1>2, <1>3, <1>4, <2>1 DEF SkipOK, Inner, InComment
<1> QED BY <1>2, <1>6, <1>7 DEF StreamOK

\* lex() returns a token that is not the end of the file.
LEMMA Scans ==
    ASSUME StreamOK, ScanInv', NEW c, Upcoming(c), Empty, ~ended,
           NEW token \in Tokens, token.type # "EOF_TOKEN", token.type # "NONE", Return(token),
           Stream!Reached < token.from, token.from <= token.to, token.to = pos',
           Passed(text', ended', Stream!Reached + 1, token.from - 1),
           Stream!TypeOf(SubSeq(text', token.from, token.to)) = token.type,
           Stream!Longest(SubSeq(text', token.from, token.to), text', ended', token.to)
    PROVE  Stream!Scan /\ StreamOK'
<1>1. /\ Stream!Grows /\ Stream!Reached \in Nat /\ tokens \in Seq(Tokens)
      /\ pos' \in 0..Len(text') /\ Len(text') \in Nat /\ token.from \in Nat /\ token.to \in Nat
  BY Reading DEF StreamOK, ScanInv, SkipOK, TypeOK, Tokens
<1>2. ~(tokens # <<>> /\ tokens[Len(tokens)].type = "EOF_TOKEN")
  BY DEF StreamOK, ScanInv, PlacesOK
<1>3. /\ tokens' = Append(tokens, token) /\ given' = token /\ at' = "idle"
      /\ UNCHANGED <<begin, type, saved>>
  BY <1>2 DEF Return
<1>4. tokens' # tokens /\ tokens' # <<>> /\ tokens'[Len(tokens')] = token
  BY <1>1, <1>3
<1>5. Stream!LastOf(tokens') = token /\ Stream!Reached' = token.to
  BY <1>4 DEF Stream!LastOf, Stream!Reached
<1>6. Stream!Scan
  <2>1. Stream!IsNext(token.from, token.to, token.type)
    BY <1>5, PassedIsSkipped DEF Stream!IsNext
  <2>2. /\ token.from \in (Stream!Reached + 1)..(Len(text') + 1)
        /\ token.to \in (token.from - 1)..Len(text')
    BY <1>1
  <2>3. tokens # <<>> => Stream!LastOf(tokens).type # "EOF_TOKEN"
    BY <1>2 DEF Stream!LastOf
  <2>4. (~Empty) = FALSE /\ (~Empty)' = (~Empty)
    BY <1>3 DEF Empty
  <2> QED BY <1>1, <1>3, <1>4, <1>5, <2>1, <2>2, <2>3, <2>4, Zenon DEF Stream!Scan
<1>7. ClientOK'
  BY <1>3, <1>4 DEF ClientOK, Empty
<1>8. SkipOK' /\ SpellOK'
  BY <1>1, <1>3, <1>5 DEF SkipOK, SpellOK, Inner, InComment
<1> QED BY <1>6, <1>7, <1>8 DEF StreamOK

\* The character that was looked at does not belong to the token.
LEMMA LookEnds ==
    ASSUME StreamOK, NEW c, look(c), NEW s, c # EOF => Stream!TypeOf(Append(s, c)) = "NONE"
    PROVE  Stream!Longest(s, text', ended', pos')
<1>1. pos' = pos /\ pos \in 0..Len(text) /\ Len(text) \in Nat
  BY DEF look, StreamOK, ScanInv, TypeOK
<1>2. CASE c # EOF
  BY <1>1, <1>2, ReadOne DEF look, StreamOK, ScanInv, Stream!Longest
<1>3. CASE c = EOF
  BY <1>1, <1>3, ReadOne DEF look, StreamOK, ScanInv, Stream!Longest
<1> QED BY <1>2, <1>3

LEMMA NothingFollows ==
    ASSUME NEW s, \A c \in Chars : Stream!TypeOf(Append(s, c)) = "NONE",
           NEW t \in Seq(Chars), NEW end, NEW to \in 0..Len(t)
    PROVE  Stream!Longest(s, t, end, to)
<1>1. Stream!Chars = Chars
  BY DEF Stream!Chars, Chars
<1>2. to < Len(t) => t[to + 1] \in Chars
  OBVIOUS
<1> QED BY <1>1, <1>2 DEF Stream!Longest

\* The token that was read up to here.
LEMMA Spelled ==
    ASSUME StreamOK, NEW c, look(c), at \in {"identifier", "number"}
    PROVE  /\ Upcoming(c) /\ Empty /\ ~ended /\ pos' = pos /\ begin \in 1..pos /\ pos \in Nat
           /\ lexeme \in Seq(Chars) /\ Len(lexeme) = pos - begin + 1
           /\ \A i \in 1..Len(lexeme) : begin + i - 1 \in begin..pos /\ lexeme[i] = text[begin + i - 1]
           /\ SubSeq(text', begin, pos') = lexeme
           /\ Stream!Reached < begin /\ Passed(text', ended', Stream!Reached + 1, begin - 1)
           /\ Ending("INTEGER").col \in Nat
<1>1. /\ Upcoming(c) /\ pos' = pos /\ begin \in 1..pos /\ pos \in 0..Len(text) /\ Len(text) \in Nat
      /\ ~ended /\ text \in Seq(Chars) /\ col > pos - begin + 1 /\ col \in Nat /\ Empty /\ at \in Inner
  BY DEF look, StreamOK, ScanInv, TypeOK, PlacesOK, Inner, ClientOK
<1>2. text' \in Seq(Chars) /\ Len(text) <= Len(text') /\ \A k \in 1..Len(text) : text'[k] = text[k]
  BY <1>1, Reading DEF Begins, StreamOK
<1>3. \A k \in begin..pos : k \in 1..Len(text) /\ text[k] \in Chars /\ text'[k] = text[k] /\ text'[k] \in Chars
  BY <1>1, <1>2
<1> DEFINE s == SubSeq(text, begin, pos)
           u == SubSeq(text', begin, pos)
<1>4. s \in Seq(Chars) /\ Len(s) = pos - begin + 1 /\ \A i \in 1..(pos - begin + 1) : s[i] = text[begin + i - 1]
  BY <1>1, <1>3, SubSeqProperties
<1>5. u \in Seq(Chars) /\ Len(u) = pos - begin + 1 /\ \A i \in 1..(pos - begin + 1) : u[i] = text'[begin + i - 1]
  BY <1>1, <1>3, SubSeqProperties
<1>6. \A i \in 1..(pos - begin + 1) : begin + i - 1 \in begin..pos
  BY <1>1
<1> HIDE DEF s, u
<1>7. u = s
  BY <1>3, <1>4, <1>5, <1>6, SeqEqual
<1>8. s = lexeme /\ SubSeq(text', begin, pos') = u
  BY <1>1 DEF s, u, lexeme
<1>9. Ending("INTEGER").col \in Nat
  <2>1. Ending("INTEGER").col = col - Len(lexeme)
    BY DEF Ending, Token
  <2> QED BY <1>1, <1>4, <1>8, <2>1
<1>10. Stream!Reached < begin /\ Passed(text', ended', Stream!Reached + 1, begin - 1)
  <2>1. begin - 1 \in 0..Len(text) /\ Stream!Reached \in Nat
    BY <1>1 DEF StreamOK, SkipOK
  <2> QED BY <1>1, <2>1, StillPassed DEF StreamOK, SkipOK
<1> QED BY <1>1, <1>4, <1>6, <1>7, <1>8, <1>9, <1>10

\* A name or a number is returned.
LEMMA SpelledReturns ==
    ASSUME StreamOK, ScanInv', NEW c, look(c), at \in {"identifier", "number"},
           NEW kind \in TokenType, kind # "EOF_TOKEN", Return(Ending(kind)),
           Stream!TypeOf(lexeme) = kind,
           c # EOF => Stream!TypeOf(Append(lexeme, c)) = "NONE"
    PROVE  Stream!Scan /\ StreamOK'
<1> DEFINE t == Ending(kind)
<1>1. /\ t.type = kind /\ t.from = begin /\ t.to = pos /\ t.line = line
      /\ t.col = Ending("INTEGER").col
      /\ t = [type |-> kind, from |-> begin, to |-> pos, line |-> line, col |-> t.col]
  BY DEF Ending, Token
<1>2. kind # "NONE" /\ line \in Nat
  BY DEF TokenType, KeywordTypes, StreamOK, ScanInv, TypeOK
<1>3. t \in Tokens
  BY <1>1, <1>2, Spelled DEF Tokens
<1>4. Stream!Longest(lexeme, text', ended', pos')
  BY LookEnds
<1> HIDE DEF t
<1>5. Return(t)
  BY DEF t
<1>6. /\ Upcoming(c) /\ Empty /\ ~ended /\ pos' = pos /\ begin \in 1..pos /\ pos \in Nat
      /\ SubSeq(text', begin, pos') = lexeme
      /\ Stream!Reached < begin /\ Passed(text', ended', Stream!Reached + 1, begin - 1)
  BY Spelled
<1>7. SubSeq(text', t.from, t.to) = lexeme /\ t.from <= t.to /\ t.to = pos'
  BY <1>1, <1>6
<1> QED BY <1>1, <1>2, <1>3, <1>4, <1>5, <1>6, <1>7, Scans

LEMMA IdentifierScans == ASSUME StreamOK, Identifier PROVE (Stream!Read \/ Stream!Scan) /\ StreamOK'
<1>1. at = "identifier" /\ ScanInv'
  BY IdentifierKeeps DEF Identifier, StreamOK
<1>2. \/ \E c \in Alnum : fgetc(c) /\ Goto("identifier")
      \/ \E c : c \notin Alnum /\ look(c) /\ Return(Ending(KeywordOrSymbol))
  BY DEF Identifier
<1>3. ASSUME NEW c \in Alnum, fgetc(c), Goto("identifier") PROVE Stream!Read /\ StreamOK'
  <2>1. c # EOF /\ UNCHANGED <<at, begin, client>>
    BY <1>1, <1>3, CharsAssumption DEF Alnum, Goto
  <2> QED BY <1>1, <1>3, <2>1, SpellsOn
<1>4. ASSUME NEW c, c \notin Alnum, look(c), Return(Ending(KeywordOrSymbol))
      PROVE  Stream!Scan /\ StreamOK'
  <2>1. KeywordOrSymbol \in TokenType /\ KeywordOrSymbol # "EOF_TOKEN"
    BY KeywordAssumption DEF KeywordOrSymbol, KeywordTypes, TokenType
  <2>2. lexeme \in Seq(Chars) /\ lexeme # <<>> /\ lexeme[1] \in Letters /\ Stream!Only(Alnum, lexeme)
    <3>1. text[begin] \in Letters /\ \A k \in begin..pos : text[k] \in Alnum
      BY <1>1 DEF StreamOK, SpellOK
    <3>2. /\ begin \in Nat /\ pos \in Nat /\ begin <= pos /\ lexeme \in Seq(Chars) /\ Len(lexeme) = pos - begin + 1
          /\ \A i \in 1..Len(lexeme) : begin + i - 1 \in begin..pos /\ lexeme[i] = text[begin + i - 1]
      BY <1>1, <1>4, Spelled
    <3>3. 1 \in 1..Len(lexeme) /\ begin + 1 - 1 = begin
      BY <3>2
    <3>4. Stream!Only(Alnum, lexeme)
      BY <3>1, <3>2 DEF Stream!Only
    <3> QED BY <3>1, <3>2, <3>3, <3>4
  <2>3. Stream!TypeOf(lexeme) = KeywordOrSymbol
    BY <2>2, NameType DEF KeywordOrSymbol
  <2>4. Stream!TypeOf(Append(lexeme, c)) = "NONE"
    BY <1>4, <2>2, OneTooMany
  <2> QED BY <1>1, <1>4, <2>1, <2>3, <2>4, SpelledReturns
<1> QED BY <1>2, <1>3, <1>4

LEMMA NumberScans == ASSUME StreamOK, Number PROVE (Stream!Read \/ Stream!Scan) /\ StreamOK'
<1>1. at = "number" /\ ScanInv'
  BY NumberKeeps DEF Number, StreamOK
<1>2. \/ \E c \in Digits \cup {"."} : /\ fgetc(c) /\ type' = IF c = "." THEN "FLOAT" ELSE type
                                      /\ UNCHANGED <<at, begin, client>>
      \/ \E c : c \notin Digits \cup {"."} /\ look(c) /\ Return(Ending(type))
  BY DEF Number
<1>3. ASSUME NEW c \in Digits \cup {"."}, fgetc(c), type' = (IF c = "." THEN "FLOAT" ELSE type),
             UNCHANGED <<at, begin, client>>
      PROVE  Stream!Read /\ StreamOK'
  BY <1>1, <1>3, NumberCharacters, SpellsOn
<1>4. ASSUME NEW c, c \notin Digits \cup {"."}, look(c), Return(Ending(type))
      PROVE  Stream!Scan /\ StreamOK'
  <2>1. type \in {"INTEGER", "FLOAT"} /\ type \in TokenType /\ type # "EOF_TOKEN"
    BY DEF TokenType, StreamOK, ScanInv, TypeOK
  <2>2. /\ lexeme \in Seq(Chars) /\ lexeme # <<>> /\ lexeme[1] \in Digits
        /\ Stream!Only(Digits \cup {"."}, lexeme)
        /\ Stream!Only(Digits, lexeme) <=> type = "INTEGER"
    <3>1. /\ text[begin] \in Digits /\ \A k \in begin..pos : text[k] \in Digits \cup {"."}
          /\ (type = "INTEGER") <=> \A k \in begin..pos : text[k] \in Digits
      BY <1>1 DEF StreamOK, SpellOK
    <3>2. /\ begin \in Nat /\ pos \in Nat /\ begin <= pos /\ lexeme \in Seq(Chars) /\ Len(lexeme) = pos - begin + 1
          /\ \A i \in 1..Len(lexeme) : begin + i - 1 \in begin..pos /\ lexeme[i] = text[begin + i - 1]
      BY <1>1, <1>4, Spelled
    <3>3. 1 \in 1..Len(lexeme) /\ begin + 1 - 1 = begin
      BY <3>2
    <3>4. Stream!Only(Digits \cup {"."}, lexeme)
      BY <3>1, <3>2 DEF Stream!Only
    <3>5. \A k \in begin..pos : k + 1 - begin \in 1..Len(lexeme) /\ begin + (k + 1 - begin) - 1 = k
      BY <3>2
    <3>6. Stream!Only(Digits, lexeme) <=> type = "INTEGER"
      <4>1. Stream!Only(Digits, lexeme) <=> \A i \in 1..Len(lexeme) : lexeme[i] \in Digits
        BY Zenon DEF Stream!Only
      <4>2. (\A k \in begin..pos : text[k] \in Digits) => \A i \in 1..Len(lexeme) : lexeme[i] \in Digits
        BY <3>2
      <4>3. ASSUME \A i \in 1..Len(lexeme) : lexeme[i] \in Digits, NEW k \in begin..pos
            PROVE  text[k] \in Digits
        <5>1. lexeme[k + 1 - begin] = text[begin + (k + 1 - begin) - 1]
          BY <3>2, <3>5
        <5> QED BY <3>5, <4>3, <5>1
      <4> QED BY <3>1, <4>1, <4>2, <4>3
    <3> QED BY <3>1, <3>2, <3>3, <3>4, <3>6
  <2>3. Stream!TypeOf(lexeme) = type
    BY <2>1, <2>2, NumberType
  <2>4. Stream!TypeOf(Append(lexeme, c)) = "NONE"
    BY <1>4, <2>2, OneTooMany
  <2> QED BY <1>1, <1>4, <2>1, <2>3, <2>4, SpelledReturns
<1> QED BY <1>2, <1>3, <1>4
-----------------------------------------------------------------------------
(* Marks                                                                   *)

LEMMA OneLong ==
    ASSUME NEW t \in Seq(Chars), NEW i \in 1..Len(t)
    PROVE  SubSeq(t, i, i) = <<t[i]>>
<1>1. i \in Int /\ t[i] \in Chars /\ \A k \in i..i : k = i
  OBVIOUS
<1>2. SubSeq(t, i, i) \in Seq(Chars) /\ Len(SubSeq(t, i, i)) = 1 /\ SubSeq(t, i, i)[1] = t[i]
  BY <1>1, SubSeqProperties
<1> DEFINE u == SubSeq(t, i, i)
           v == <<t[i]>>
<1>3. v \in Seq(Chars) /\ Len(v) = 1 /\ v[1] = t[i]
  BY <1>1
<1>4. u \in Seq(Chars) /\ Len(u) = 1 /\ u[1] = t[i]
  BY <1>2
<1> HIDE DEF u, v
<1>5. u = v
  BY <1>3, <1>4, SeqEqual
<1> QED BY <1>5 DEF u, v

LEMMA TwoLong ==
    ASSUME NEW t \in Seq(Chars), NEW i \in 1..Len(t), i + 1 \in 1..Len(t)
    PROVE  SubSeq(t, i, i + 1) = <<t[i], t[i + 1]>>
<1>1. i \in Int /\ t[i] \in Chars /\ t[i + 1] \in Chars /\ \A k \in i..(i + 1) : k = i \/ k = i + 1
  OBVIOUS
<1> DEFINE u == SubSeq(t, i, i + 1)
           v == <<t[i], t[i + 1]>>
<1>2. u \in Seq(Chars) /\ Len(u) = 2 /\ u[1] = t[i] /\ u[2] = t[i + 1]
  <2>1. i + 1 \in Int /\ i <= i + 1 /\ i + 1 - i + 1 = 2 /\ \A k \in i..(i + 1) : t[k] \in Chars
    BY <1>1
  <2>2. /\ u \in Seq(Chars) /\ Len(u) = 2
        /\ \A k \in 1..2 : u[k] = t[i + k - 1]
    BY <1>1, <2>1, SubSeqProperties
  <2>3. 1 \in 1..2 /\ 2 \in 1..2 /\ i + 1 - 1 = i /\ i + 2 - 1 = i + 1
    OBVIOUS
  <2> QED BY <2>2, <2>3
<1>3. v \in Seq(Chars) /\ Len(v) = 2 /\ v[1] = t[i] /\ v[2] = t[i + 1]
  BY <1>1
<1> HIDE DEF u, v
<1>4. \A k \in 1..2 : k = 1 \/ k = 2
  OBVIOUS
<1>5. u = v
  BY <1>2, <1>3, <1>4, SeqEqual
<1> QED BY <1>5 DEF u, v

\* The character after a mark.
LEMMA AfterMark ==
    ASSUME NEW f \in Chars, f \notin Alnum, NEW c, f \in Pairs => c # Second(f)
    PROVE  Stream!TypeOf(Append(<<f>>, c)) = "NONE"
<1> DEFINE s == Append(<<f>>, c)
<1>1. s \in Seq({f, c}) /\ Len(s) = 2 /\ s[1] = f /\ s[2] = c
  OBVIOUS
<1> HIDE DEF s
<1>2. Stream!TypeOf(s) = "NONE"
  BY <1>1, MarksEnd
<1> QED BY <1>2 DEF s

LEMMA AfterPair ==
    ASSUME NEW f, f \notin Alnum, NEW g, NEW c
    PROVE  Stream!TypeOf(Append(<<f, g>>, c)) = "NONE"
<1> DEFINE s == Append(<<f, g>>, c)
<1>1. s \in Seq({f, g, c}) /\ Len(s) > 2 /\ s[1] = f
  OBVIOUS
<1> HIDE DEF s
<1>2. Stream!TypeOf(s) = "NONE"
  BY <1>1, MarksEnd
<1> QED BY <1>2 DEF s

\* A token of type kind, from one place to another.
LEMMA TokenIs ==
    ASSUME NEW kind \in TokenType, NEW from \in Nat, NEW to \in Nat, NEW ln \in Nat, NEW cl \in Nat
    PROVE  /\ Token(kind, from, to, ln, cl) \in Tokens
           /\ Token(kind, from, to, ln, cl).type = kind
           /\ Token(kind, from, to, ln, cl).from = from
           /\ Token(kind, from, to, ln, cl).to = to
           /\ kind # "NONE"
BY DEF Token, Tokens, TokenType, KeywordTypes

LEMMA MarkScans == ASSUME StreamOK, Mark PROVE Stream!Scan /\ StreamOK'
<1>1. PICK c \in Singles : Start(c) /\ Return(Token(Alone(c), pos + 1, pos + 1, line, col))
  BY DEF Mark
<1>2. c \in Marks /\ c \in Chars /\ c \notin Pairs /\ c \notin Alnum /\ c # EOF
  BY CharsAssumption DEF Singles, Alnum, Chars
<1>3. /\ Upcoming(c) /\ Empty /\ pos' = pos + 1 /\ pos \in Nat
      /\ Passed(text', ended', Stream!Reached + 1, pos)
      /\ Stream!Reached \in 0..pos /\ pos' <= Len(text') /\ text'[pos'] = c
  BY <1>1, <1>2, Starting
<1>4. ~ended /\ line \in Nat /\ col \in Nat /\ ScanInv'
  BY <1>2, <1>3, ReadOne, MarkKeeps DEF StreamOK, ScanInv, TypeOK
<1>5. text' \in Seq(Chars) /\ Len(text') \in Nat /\ pos' \in 1..Len(text') /\ pos' \in 0..Len(text')
  BY <1>3, <1>4 DEF ScanInv, TypeOK
<1> DEFINE t == Token(Alone(c), pos', pos', line, col)
<1>6. /\ t \in Tokens /\ t.type = Alone(c) /\ t.from = pos' /\ t.to = pos'
      /\ t.type # "NONE" /\ t.type # "EOF_TOKEN"
  <2>1. Alone(c) \in TokenType /\ Alone(c) # "EOF_TOKEN" /\ pos' \in Nat
    BY <1>5, MarkTypes
  <2> QED BY <1>4, <2>1, TokenIs
<1>7. Return(t)
  BY <1>1, <1>3
<1>8. SubSeq(text', pos', pos') = <<c>>
  BY <1>3, <1>5, OneLong
<1>9. Stream!TypeOf(<<c>>) = Alone(c)
  BY <1>2, MarkType
<1>10. Stream!Longest(<<c>>, text', ended', pos')
  BY <1>2, <1>5, AfterMark, NothingFollows
<1>11. Stream!Reached < pos' /\ pos' - 1 = pos /\ pos' <= pos'
  BY <1>3
<1> HIDE DEF t
<1> QED BY <1>3, <1>4, <1>6, <1>7, <1>8, <1>9, <1>10, <1>11, Scans

LEMMA PairScans == ASSUME StreamOK, Pair PROVE Stream!Scan /\ StreamOK'
<1> DEFINE first == text[begin]
<1>1. at = "pair" /\ ScanInv'
  BY PairKeeps DEF Pair, StreamOK
<1>2. \/ /\ fgetc(Second(first))
         /\ Return(Token(PairType(first), begin, begin + 1, line, col))
      \/ \E c, cl : /\ c # Second(first) /\ look(c) /\ cl \in Nat
                    /\ Return(Token(Alone(first), begin, begin, line, cl))
  <2>1. \A c \in Doubled : Alone(c) = "ERROR_TOKEN"
    BY DEF Doubled, Alone
  <2>2. col \in Nat /\ col + 1 \in Nat
    BY DEF StreamOK, ScanInv, TypeOK
  <2> QED BY <2>1, <2>2 DEF Pair
<1>3. /\ begin = pos /\ pos \in 1..Len(text) /\ Len(text) \in Nat /\ ~ended /\ Empty
      /\ first \in Pairs /\ first = text[pos] /\ line \in Nat /\ col \in Nat /\ text \in Seq(Chars)
      /\ Stream!Reached < pos /\ Passed(text, ended, Stream!Reached + 1, pos - 1)
      /\ Stream!Reached \in Nat /\ pos - 1 \in 0..Len(text)
  <2>1. /\ pos \in 0..Len(text) /\ text \in Seq(Chars) /\ line \in Nat /\ col \in Nat
    BY DEF StreamOK, ScanInv, TypeOK
  <2>2. at \in Inner /\ begin = pos /\ text[pos] \in Pairs /\ ~ended /\ begin \in 1..pos
    BY <1>1 DEF StreamOK, ScanInv, PlacesOK, Inner
  <2>3. Empty
    BY <1>1 DEF StreamOK, ClientOK
  <2>4. /\ Stream!Reached \in 0..pos /\ Stream!Reached < begin
        /\ Passed(text, ended, Stream!Reached + 1, begin - 1)
    BY <2>2 DEF StreamOK, SkipOK
  <2> QED BY <2>1, <2>2, <2>3, <2>4
<1>4. first \in Chars /\ first \notin Alnum /\ first \in Marks
  <2>1. first \in Chars /\ first \notin Alnum
    BY <1>3, OperatorsAreMarks
  <2> QED BY <2>1 DEF Chars, Alnum
<1>5. /\ text' \in Seq(Chars) /\ Len(text') \in Nat /\ pos' \in 0..Len(text')
  BY <1>1 DEF ScanInv, TypeOK
<1> HIDE DEF first
<1>6. CASE fgetc(Second(first)) /\ Return(Token(PairType(first), begin, begin + 1, line, col))
  <2> DEFINE c == Second(first)
             t == Token(PairType(first), pos, pos + 1, line, col)
  <2>1. c # EOF /\ Upcoming(c) /\ pos' = pos + 1
    BY <1>6, Seconds DEF fgetc
  <2>2. text'[pos] = first /\ text'[pos + 1] = c /\ pos \in 1..Len(text') /\ pos + 1 \in 1..Len(text')
    BY <1>3, <1>5, <2>1, ReadOne DEF StreamOK, ScanInv
  <2>3. Passed(text', ended', Stream!Reached + 1, pos - 1)
    BY <1>3, <2>1, StillPassed DEF StreamOK
  <2>4. /\ t \in Tokens /\ t.type = PairType(first) /\ t.from = pos /\ t.to = pos + 1
        /\ t.type # "NONE" /\ t.type # "EOF_TOKEN"
    <3>1. PairType(first) \in TokenType /\ PairType(first) # "EOF_TOKEN"
      BY <1>3, MarkTypes
    <3>2. pos \in Nat /\ pos + 1 \in Nat /\ line \in Nat /\ col \in Nat
      BY <1>3
    <3> QED BY <3>1, <3>2, TokenIs
  <2>5. Return(t)
    BY <1>3, <1>6
  <2>6. SubSeq(text', pos, pos + 1) = <<first, c>>
    BY <1>5, <2>2, TwoLong
  <2>7. Stream!TypeOf(<<first, c>>) = PairType(first)
    BY <1>3, PairIs
  <2>8. Stream!Longest(<<first, c>>, text', ended', pos')
    BY <1>4, <1>5, AfterPair, NothingFollows
  <2>9. pos <= pos + 1
    BY <1>3
  <2> HIDE DEF t, c
  <2> QED BY <1>1, <1>3, <2>1, <2>3, <2>4, <2>5, <2>6, <2>7, <2>8, <2>9, Scans
<1>7. ASSUME NEW c, NEW cl \in Nat, c # Second(first), look(c),
             Return(Token(Alone(first), begin, begin, line, cl))
      PROVE  Stream!Scan /\ StreamOK'
  <2> DEFINE t == Token(Alone(first), pos, pos, line, cl)
  <2>1. Upcoming(c) /\ pos' = pos
    BY <1>7 DEF look
  <2>2. text'[pos] = first /\ pos \in 1..Len(text')
    BY <1>3, <1>5, <2>1, ReadOne DEF StreamOK, ScanInv
  <2>3. Passed(text', ended', Stream!Reached + 1, pos - 1)
    BY <1>3, <2>1, StillPassed DEF StreamOK
  <2>4. /\ t \in Tokens /\ t.type = Alone(first) /\ t.from = pos /\ t.to = pos
        /\ t.type # "NONE" /\ t.type # "EOF_TOKEN"
    <3>1. Alone(first) \in TokenType /\ Alone(first) # "EOF_TOKEN"
      BY MarkTypes
    <3>2. pos \in Nat /\ line \in Nat
      BY <1>3
    <3> QED BY <3>1, <3>2, TokenIs
  <2>5. Return(t)
    BY <1>3, <1>7
  <2>6. SubSeq(text', pos, pos) = <<first>>
    BY <1>5, <2>2, OneLong
  <2>7. Stream!TypeOf(<<first>>) = Alone(first)
    BY <1>4, MarkType
  <2>8. Stream!Longest(<<first>>, text', ended', pos')
    <3>1. Stream!TypeOf(Append(<<first>>, c)) = "NONE"
      BY <1>4, <1>7, AfterMark
    <3> QED BY <1>7, <3>1, LookEnds
  <2>9. pos <= pos
    BY <1>3
  <2> HIDE DEF t
  <2> QED BY <1>1, <1>3, <2>1, <2>3, <2>4, <2>5, <2>6, <2>7, <2>8, <2>9, Scans
<1> QED BY <1>2, <1>6, <1>7
-----------------------------------------------------------------------------
(* The refinement                                                          *)

\* The end of the file, for the first time or once more.
LEMMA EndOfFileScans == ASSUME StreamOK, EndOfFile PROVE (Stream!Scan \/ Stream!Again) /\ StreamOK'
<1> DEFINE t == Token("EOF_TOKEN", pos + 1, pos, line, col)
<1>1. Start(EOF) /\ Return(t) /\ line' = line /\ col' = col /\ ScanInv'
  BY EndOfFileKeeps DEF EndOfFile, position, StreamOK
<1>2. /\ Upcoming(EOF) /\ Empty /\ pos' = pos /\ pos \in Nat
      /\ Passed(text', ended', Stream!Reached + 1, pos) /\ Stream!Reached \in 0..pos
  BY <1>1, Starting
<1>3. ended' /\ text' = text /\ pos = Len(text') /\ Stream!Grows
  BY <1>2, ReadOne, Reading DEF StreamOK, ScanInv
<1>4. /\ t.type = "EOF_TOKEN" /\ t.from = pos + 1 /\ t.to = pos
      /\ given' = t /\ at' = "idle" /\ saved' = saved /\ tokens \in Seq(Tokens)
  BY <1>1 DEF Token, Return, StreamOK, ScanInv, TypeOK
<1>5. CASE tokens # <<>> /\ tokens[Len(tokens)].type = "EOF_TOKEN"
  <2>1. tokens' = tokens /\ tokens[Len(tokens)] = t /\ at = "idle"
    BY <1>1, <1>5 DEF Return, StreamOK, ClientOK
  <2>2. ended' = ended
    BY <1>3, <1>5 DEF StreamOK, ScanInv, PlacesOK, TypeOK
  <2> HIDE DEF t
  <2>3. Stream!Again
    BY <1>2, <1>3, <1>4, <1>5, <2>1, <2>2 DEF Stream!Again, Stream!LastOf, Empty
  <2>4. Stream!Reached' = Stream!Reached /\ Stream!Reached = pos
    BY <1>4, <2>1 DEF Stream!Reached, Stream!LastOf, StreamOK, SkipOK
  <2>5. ClientOK'
    BY <1>1, <1>2, <1>4, <1>5, <2>1 DEF ClientOK, Empty, t
  <2>6. SkipOK' /\ SpellOK'
    BY <1>2, <1>4, <2>4 DEF SkipOK, SpellOK, Inner, InComment
  <2> QED BY <1>1, <2>3, <2>5, <2>6 DEF StreamOK
<1>6. CASE ~(tokens # <<>> /\ tokens[Len(tokens)].type = "EOF_TOKEN")
  <2>1. tokens' = Append(tokens, t)
    BY <1>1, <1>6 DEF Return
  <2>2. tokens' # tokens /\ tokens' # <<>> /\ tokens'[Len(tokens')] = t
    <3> HIDE DEF t
    <3> QED BY <1>4, <2>1
  <2>3. Stream!LastOf(tokens') = t /\ Stream!Reached' = pos
    BY <1>4, <2>2 DEF Stream!LastOf, Stream!Reached
  <2>4. Stream!Scan
    <3>1. Stream!IsNext(t.from, t.to, t.type)
      <4>1. t.from - 1 = pos
        BY <1>2, <1>4
      <4> QED BY <1>2, <1>3, <1>4, <4>1, PassedIsSkipped DEF Stream!IsNext
    <3>2. /\ t.from \in (Stream!Reached + 1)..(Len(text') + 1)
          /\ t.to \in (t.from - 1)..Len(text')
      BY <1>2, <1>3, <1>4
    <3>3. tokens # <<>> => Stream!LastOf(tokens).type # "EOF_TOKEN"
      BY <1>6 DEF Stream!LastOf
    <3>4. (~Empty) = FALSE /\ (~Empty)' = (~Empty)
      BY <1>2, <1>4 DEF Empty
    <3> HIDE DEF t
    <3> QED BY <1>3, <1>4, <2>1, <2>2, <2>3, <3>1, <3>2, <3>3, <3>4, Zenon DEF Stream!Scan
  <2>5. ClientOK'
    BY <1>1, <1>2, <1>4, <2>2 DEF ClientOK, Empty
  <2>6. SkipOK' /\ SpellOK'
    BY <1>2, <1>4, <2>3 DEF SkipOK, SpellOK, Inner, InComment
  <2> QED BY <1>1, <2>4, <2>5, <2>6 DEF StreamOK
<1> QED BY <1>5, <1>6

\* unlex() of the end of the file leaves the slot empty: nothing is given back.
LEMMA UnlexGivesBack ==
    ASSUME StreamOK, unlex
    PROVE  (Stream!GiveBack \/ UNCHANGED <<text, ended, tokens, given, ~Empty>>) /\ StreamOK'
<1>1. /\ at = "idle" /\ Empty /\ given # NONE /\ saved' = given
      /\ UNCHANGED <<text, ended, pos, line, col, at, begin, type, given, tokens>>
  BY DEF unlex, file, position, scan
<1>2. tokens # <<>> /\ given = tokens[Len(tokens)]
  BY <1>1 DEF StreamOK, ClientOK
<1>3. ScanInv'
  BY PushbackKeeps DEF StreamOK
<1>4. ClientOK' /\ Stream!Reached' = Stream!Reached
  BY <1>1, <1>2 DEF StreamOK, ClientOK, Empty, Stream!Reached, Stream!LastOf
<1>5. SkipOK' /\ SpellOK'
  BY <1>1, <1>4 DEF StreamOK, SkipOK, SpellOK, Inner, InComment
<1>6. Stream!GiveBack \/ UNCHANGED <<text, ended, tokens, given, ~Empty>>
  <2>1. NONE = Stream!NONE
    BY DEF NONE, Token, Stream!NONE
  <2>2. CASE given.type = "EOF_TOKEN"
    BY <1>1, <2>2 DEF Empty
  <2>3. CASE given.type # "EOF_TOKEN"
    BY <1>1, <1>2, <2>1, <2>3 DEF Empty, Stream!GiveBack, Stream!LastOf
  <2> QED BY <2>2, <2>3
<1> QED BY <1>3, <1>4, <1>5, <1>6 DEF StreamOK

LEMMA SavedComesAgain == ASSUME StreamOK, lexSaved PROVE Stream!Again /\ StreamOK'
<1>1. /\ at = "idle" /\ ~Empty /\ given' = saved /\ saved' = Token("EOF_TOKEN", 0, 0, 0, 0)
      /\ UNCHANGED <<text, ended, pos, line, col, at, begin, type, tokens>>
  BY DEF lexSaved, file, position, scan
<1>2. tokens # <<>> /\ saved = tokens[Len(tokens)]
  BY <1>1 DEF StreamOK, ClientOK
<1>3. Empty'
  BY <1>1 DEF Empty, Token
<1>4. Stream!Again
  BY <1>1, <1>2, <1>3 DEF Stream!Again, Stream!LastOf
<1>5. ClientOK' /\ Stream!Reached' = Stream!Reached
  BY <1>1, <1>2, <1>3 DEF StreamOK, ClientOK, Stream!Reached, Stream!LastOf
<1>6. SkipOK' /\ SpellOK'
  BY <1>1, <1>5 DEF StreamOK, SkipOK, SpellOK, Inner, InComment
<1>7. ScanInv'
  BY PushbackKeeps DEF StreamOK
<1> QED BY <1>4, <1>5, <1>6, <1>7 DEF StreamOK

LEMMA StreamStart == Init => StreamOK /\ Stream!Init
<1> SUFFICES ASSUME Init PROVE StreamOK /\ Stream!Init
  OBVIOUS
<1>1. text = <<>> /\ ended = FALSE /\ pos = 0 /\ at = "idle" /\ given = NONE /\ tokens = <<>> /\ Empty
  BY DEF Init, Empty, Token
<1>2. Stream!Reached = 0
  BY <1>1 DEF Stream!Reached
<1>3. ClientOK /\ SkipOK /\ SpellOK
  BY <1>1, <1>2 DEF ClientOK, SkipOK, SpellOK, Inner, InComment
<1>4. Stream!Init
  BY <1>1 DEF Stream!Init, Stream!NONE, NONE, Token
<1> QED BY <1>3, <1>4, ScanStart DEF StreamOK

LEMMA StreamNext ==
    ASSUME StreamOK, [Next]_vars
    PROVE  /\ StreamOK'
           /\ [Stream!Read \/ Stream!Scan \/ Stream!Again \/ Stream!GiveBack]_<<text, ended, tokens, given, ~Empty>>
<1>1. CASE lex
  BY <1>1, BlankReads, CommentReads, CommentFirstReads, CommentRestReads, EndOfFileScans,
     BeginTokenReads, IdentifierScans, NumberScans, MarkScans, BeginPairReads, PairScans, Zenon
     DEF lex
<1>2. CASE lexSaved
  BY <1>2, SavedComesAgain
<1>3. CASE unlex
  BY <1>3, UnlexGivesBack
<1>4. CASE UNCHANGED vars
  <2>1. UNCHANGED <<text, ended, pos, line, col, at, begin, type, saved, given, tokens>>
    BY <1>4 DEF vars, file, position, scan, client
  <2>2. ScanInv'
    BY ScanNext DEF StreamOK
  <2>3. ClientOK' /\ Stream!Reached' = Stream!Reached /\ (~Empty)' = (~Empty)
    BY <2>1 DEF StreamOK, ClientOK, Empty, Stream!Reached, Stream!LastOf
  <2>4. SkipOK' /\ SpellOK'
    BY <2>1, <2>3, Zenon DEF StreamOK, SkipOK, SpellOK, Commenting
  <2> QED BY <2>1, <2>2, <2>3, <2>4 DEF StreamOK
<1> QED BY <1>1, <1>2, <1>3, <1>4 DEF Next

\* Where the scanner stands between the last token and the next one, and what
\* it has read of the next one.
THEOREM StreamInvariance == Spec => []StreamOK
BY StreamStart, StreamNext, PTL DEF Spec

\* The scanner implements the token stream that the parser relies on.
THEOREM LexerImplementsTokenStream == Spec => ImplementsTokenStream
BY StreamStart, StreamNext, StreamInvariance, PTL DEF Spec, ImplementsTokenStream, Stream!Spec
=============================================================================
