-------------------------- MODULE ParserStackProofs --------------------------
(***************************************************************************)
(* What the call stack of the parser says about the tokens it has passed   *)
(* and about the functions it has registered, for every set of names,      *)
(* every alphabet and every length of the file.                            *)
(*                                                                         *)
(* ParserProofs shows that callers and callees agree.  Here each of three  *)
(* properties of whole parses gets the invariant that ties it to the       *)
(* frames: SlotOK the pushed-back token to the handler that takes it,      *)
(* FuncsOK the table of functions to the definition under way, BracketsOK  *)
(* the brackets passed to the handlers that will close them.               *)
(***************************************************************************)
EXTENDS ParserProofs, FiniteSetTheorems, FunctionTheorems, SequenceTheorems, WellFoundedInduction

\* The handlers that start by reading the token their caller has looked at.
Takers == {"assignment", "var", "funcall", "expression"}

\* An occupied slot of unlex() is for the active handler; a call is one
\* because `(` was seen.
SlotOK ==
    /\ saved # EOF /\ ~isError => stack # <<>> /\ Head(stack).at \in Takers
    /\ At("funcall") => saved.type = "PL"

\* The functions that calls resolve to.
Callable == {n \in Names : funcs[n] \in Types}

\* The function that is registered but not yet in the root node: the caller
\* of its body knows its name, and then parse() gets it.
Pending ==
    LET caller == stack[Len(stack) - 1]
    IN IF Len(stack) > 1 /\ caller.at = "functionDef.body" THEN {caller.name}
       ELSE IF Len(stack) = 1 /\ At("parse.def") THEN {ret} \ {NULL} ELSE {}

\* A definition that failed may have been registered; parse() gives up then.
Abandoned == root = "DummyNode" \/ (At("parse.def") /\ ret = NULL)

FuncsOK ==
    /\ stack # <<>> => root = "building" /\ Yields(stack[Len(stack)].at) = "root"
    /\ Abandoned \/ Callable \subseteq defined \cup Pending
    /\ isError \/ defined \cup Pending \subseteq Callable

\* The handlers that read past current first of all, whatever it is.
Passing == {"start", "functionDef", "functionDef.name", "functionDef.type",
    "functionArgs", "functionArgs.var", "functionArgs.sep", "functionArgs.end",
    "expression", "declaration", "declaration.name", "assignment", "var",
    "funcall", "funcallArgs", "funcall.close"}

\* The waiting frames in which a bracket is open, by the kind of bracket.
ParenCallers == {"factor.paren", "funcall.close"}
BraceCallers == {"blockStatement.stmt"}

\* The active frames in which one more is open.
ParenHandlers == {"functionArgs", "functionArgs.var", "functionArgs.sep",
                  "factor.paren"}
BraceHandlers == {"blockStatement", "blockStatement.stmt"}

Parens(c) == Count(c.type = "PL") - Count(c.type = "PR")
Braces(c) == Count(c.type = "BL") - Count(c.type = "BR")

\* How many frames of s are at one of the points.
Open(s, points) == Cardinality({i \in 1..Len(s) : s[i].at \in points})

\* The brackets passed when the active frame is at l, with p parentheses and
\* b braces open in its callers.
Balance(l, c, n, p, b) ==
    /\ n.paren + (IF l \in Passing THEN Parens(c) ELSE 0)
         = p + Count(l \in ParenHandlers)
    /\ n.brace + (IF l \in Passing THEN Braces(c) ELSE 0)
         = b + Count(l \in BraceHandlers)

\* A result that is NULL without a word: its callers hand it on.
Failing ==
    /\ Expects(Head(stack).at) \in {"function", "statement", "expression"}
    /\ ret = NULL

openParens == Open(Tail(stack), ParenCallers)
openBraces == Open(Tail(stack), BraceCallers)

BracketsOK ==
    \/ isError \/ complained \/ stack = <<>> \/ Failing
    \/ Balance(Head(stack).at, current, nesting, openParens, openBraces)
-----------------------------------------------------------------------------
(* How a step moves the stack                                              *)

\* The active frame is replaced by a call of a, for which the rest waits.
Entered(a, rest) ==
    stack' # <<>> /\ Head(stack') = a /\ Tail(stack') = rest

\* Pushing two frames is pushing one after the other.
LEMMA PushTwo ==
    ASSUME NEW S, NEW s \in Seq(S), NEW a \in S, NEW b \in S
    PROVE  <<a, b>> \o s = <<a>> \o (<<b>> \o s)
<1> DEFINE l == <<a, b>> \o s
           t == <<b>> \o s
           r == <<a>> \o t
<1>1. /\ t \in Seq(S) /\ Len(t) = Len(s) + 1
      /\ t[1] = b /\ \A i \in 1..Len(s) : t[i + 1] = s[i]
  OBVIOUS
<1>2. /\ l \in Seq(S) /\ Len(l) = Len(s) + 2
      /\ l[1] = a /\ l[2] = b /\ \A i \in 1..Len(s) : l[i + 2] = s[i]
  OBVIOUS
<1> HIDE DEF t
<1>3. /\ r \in Seq(S) /\ Len(r) = Len(t) + 1
      /\ r[1] = a /\ \A i \in 1..Len(t) : r[i + 1] = t[i]
  BY <1>1
<1> HIDE DEF l, r
<1>4. ASSUME NEW i \in 1..Len(l) PROVE l[i] = r[i]
  <2>1. CASE i > 2
    <3>1. /\ i - 2 \in 1..Len(s) /\ i - 1 \in 1..Len(t)
          /\ (i - 2) + 2 = i /\ (i - 2) + 1 = i - 1 /\ (i - 1) + 1 = i
      BY <2>1, <1>1, <1>2
    <3>2. l[i] = s[i - 2]
      BY <1>2, <3>1
    <3>3. r[i] = t[i - 1] /\ t[i - 1] = s[i - 2]
      BY <1>1, <1>3, <3>1
    <3> QED BY <3>2, <3>3
  <2>2. CASE i = 1
    BY <2>2, <1>2, <1>3
  <2>3. CASE i = 2
    BY <2>3, <1>1, <1>2, <1>3
  <2> QED BY <2>1, <2>2, <2>3, <1>2
<1>5. l = r
  BY <1>1, <1>2, <1>3, <1>4
<1> QED BY <1>5 DEF l, r, t

\* The frames of a call, innermost first, end up in that order on the stack.
LEMMA Calling ==
    ASSUME Inv, stack # <<>>
    PROVE  /\ \A a \in Frames : Call(<<a>>) => Entered(a, Tail(stack))
           /\ \A a, b \in Frames :
                Call(<<a, b>>) => Entered(a, <<b>> \o Tail(stack))
           /\ \A a, b, d \in Frames :
                Call(<<a, b, d>>) => Entered(a, <<b>> \o (<<d>> \o Tail(stack)))
           /\ \A a, b, d, g \in Frames :
                Call(<<a, b, d, g>>)
                  => Entered(a, <<b>> \o (<<d>> \o (<<g>> \o Tail(stack))))
<1> DEFINE s == Tail(stack)
<1>1. s \in Seq(Frames)
  BY DEF Inv, ControlOK, StackOK
<1> HIDE DEF s
<1>2. \A a \in Frames, r \in Seq(Frames) :
        /\ <<a>> \o r \in Seq(Frames)
        /\ <<a>> \o r # <<>>
        /\ Head(<<a>> \o r) = a
        /\ Tail(<<a>> \o r) = r
  OBVIOUS
<1>3. \A a, b \in Frames : <<a, b>> \o s = <<a>> \o (<<b>> \o s)
  BY <1>1, PushTwo
<1>4. ASSUME NEW a \in Frames, NEW b \in Frames, NEW d \in Frames
      PROVE  <<a, b, d>> \o s = <<a>> \o (<<b>> \o (<<d>> \o s))
  <2>1. <<a, b, d>> \o s = <<a>> \o (<<b, d>> \o s)
    BY <1>1
  <2> QED BY <2>1, <1>3
<1> DEFINE Four(a, b, d, g) ==
             <<a, b, d, g>> \o s = <<a>> \o (<<b>> \o (<<d>> \o (<<g>> \o s)))
<1>5. \A a, b, d, g \in Frames : Four(a, b, d, g)
  <2> TAKE a, b, d, g \in Frames
  <2>1. <<a, b, d, g>> = <<a>> \o <<b, d, g>>
    OBVIOUS
  <2> DEFINE t == <<b, d, g>>
  <2>2. t \in Seq(Frames)
    OBVIOUS
  <2> HIDE DEF t
  <2>3. (<<a>> \o t) \o s = <<a>> \o (t \o s)
    BY <1>1, <2>2
  <2>4. t \o s = <<b>> \o (<<d>> \o (<<g>> \o s))
    BY <1>4 DEF t
  <2>5. <<a, b, d, g>> \o s = <<a>> \o (t \o s)
    BY <2>1, <2>3, Zenon DEF t
  <2> QED BY <2>4, <2>5, Zenon
<1> HIDE DEF Four
<1>6. ASSUME NEW a \in Frames, NEW r \in Seq(Frames), stack' = <<a>> \o r
      PROVE  Entered(a, r)
  <2> DEFINE n == stack'
  <2>1. n = <<a>> \o r
    BY <1>6
  <2> HIDE DEF n
  <2>2. n # <<>> /\ Head(n) = a /\ Tail(n) = r
    BY <1>2, <2>1
  <2> QED BY <2>2 DEF Entered, n
<1>7. \A a, b, d \in Frames :
        /\ <<b>> \o s \in Seq(Frames) /\ <<d>> \o s \in Seq(Frames)
        /\ <<b>> \o (<<d>> \o s) \in Seq(Frames)
  BY <1>1, <1>2
<1>8. ASSUME NEW a \in Frames
      PROVE  Call(<<a>>) => Entered(a, s)
  BY <1>1, <1>6 DEF Call, s
<1>9. ASSUME NEW a \in Frames, NEW b \in Frames
      PROVE  Call(<<a, b>>) => Entered(a, <<b>> \o s)
  <2> DEFINE r == <<b>> \o s
  <2>1. r \in Seq(Frames)
    BY <1>7
  <2>2. <<a, b>> \o s = <<a>> \o r
    BY <1>3
  <2> HIDE DEF r
  <2>3. Call(<<a, b>>) => stack' = <<a>> \o r
    BY <2>2 DEF Call, s
  <2>4. Call(<<a, b>>) => Entered(a, r)
    BY <1>6, <2>1, <2>3
  <2> QED BY <2>4 DEF r
<1>10. ASSUME NEW a \in Frames, NEW b \in Frames, NEW d \in Frames
       PROVE  Call(<<a, b, d>>) => Entered(a, <<b>> \o (<<d>> \o s))
  <2> DEFINE r == <<b>> \o (<<d>> \o s)
  <2>1. r \in Seq(Frames)
    BY <1>7
  <2>2. <<a, b, d>> \o s = <<a>> \o r
    BY <1>4
  <2> HIDE DEF r
  <2>3. Call(<<a, b, d>>) => stack' = <<a>> \o r
    BY <2>2 DEF Call, s
  <2>4. Call(<<a, b, d>>) => Entered(a, r)
    BY <1>6, <2>1, <2>3
  <2> QED BY <2>4 DEF r
<1>11. ASSUME NEW a \in Frames, NEW b \in Frames, NEW d \in Frames, NEW g \in Frames
       PROVE  Call(<<a, b, d, g>>) => Entered(a, <<b>> \o (<<d>> \o (<<g>> \o s)))
  <2> DEFINE q == <<d>> \o (<<g>> \o s)
           r == <<b>> \o q
  <2>0. q \in Seq(Frames)
    BY <1>7
  <2> HIDE DEF q
  <2>1. r \in Seq(Frames)
    BY <1>2, <2>0
  <2> USE DEF q
  <2>2. <<a, b, d, g>> \o s = <<a>> \o r
    <3>1. Four(a, b, d, g)
      BY <1>5
    <3> QED BY <3>1, Zenon DEF Four
  <2> HIDE DEF r
  <2>3. Call(<<a, b, d, g>>) => stack' = <<a>> \o r
    BY <2>2 DEF Call, s
  <2>4. Call(<<a, b, d, g>>) => Entered(a, r)
    BY <1>6, <2>1, <2>3
  <2> QED BY <2>4 DEF r
<1> QED BY <1>8, <1>9, <1>10, <1>11 DEF s

\* The active frame returns: its caller was waiting for what it yields.
LEMMA Leaving ==
    ASSUME Inv, stack # <<>>, Tail(stack) # <<>>, NEW v, Return(v)
    PROVE  /\ stack' = Tail(stack) /\ ret' = v
           /\ Head(stack') \in Frames
           /\ Expects(Head(stack').at) = Yields(Head(stack).at)
           /\ Head(stack').at \notin Takers
<1>1. Expects(Head(stack').at) = Yields(Head(stack).at) /\ Head(stack') \in Frames
  BY StackTail DEF Inv, ControlOK, StackOK, Return
<1>2. \A l \in Takers : Expects(l) = "nothing"
  BY DEF Takers, Expects
<1>3. Yields(Head(stack).at) # "nothing"
  BY Callers
<1> QED BY <1>1, <1>2, <1>3 DEF Return

\* Which handler is active next.
LEMMA NextHandler ==
    ASSUME Inv, stack # <<>>
    PROVE  /\ \A a : Call(<<a>>) => stack' # <<>> /\ Head(stack') = a
           /\ \A a, b : Call(<<a, b>>) => stack' # <<>> /\ Head(stack') = a
           /\ \A a, b, d : Call(<<a, b, d>>) => stack' # <<>> /\ Head(stack') = a
           /\ \A a, b, d, g :
                Call(<<a, b, d, g>>) => stack' # <<>> /\ Head(stack') = a
           /\ \A v : Return(v) /\ stack' # <<>> => Head(stack').at \notin Takers
<1> DEFINE s == Tail(stack)
<1>1. s \in Seq(Frames)
  BY DEF Inv, ControlOK, StackOK
<1>2. ASSUME NEW a, Call(<<a>>) PROVE stack' # <<>> /\ Head(stack') = a
  BY <1>1, <1>2 DEF Call
<1>3. ASSUME NEW a, NEW b, Call(<<a, b>>) PROVE stack' # <<>> /\ Head(stack') = a
  BY <1>1, <1>3 DEF Call
<1>4. ASSUME NEW a, NEW b, NEW d, Call(<<a, b, d>>)
      PROVE  stack' # <<>> /\ Head(stack') = a
  BY <1>1, <1>4 DEF Call
<1>5. ASSUME NEW a, NEW b, NEW d, NEW g, Call(<<a, b, d, g>>)
      PROVE  stack' # <<>> /\ Head(stack') = a
  BY <1>1, <1>5 DEF Call
<1>6. ASSUME NEW v, Return(v), stack' # <<>> PROVE Head(stack').at \notin Takers
  <2>1. Tail(stack) # <<>>
    BY <1>6 DEF Return
  <2> QED BY <1>6, <2>1, Leaving
<1> QED BY <1>2, <1>3, <1>4, <1>5, <1>6
-----------------------------------------------------------------------------
(* The pushed-back token                                                   *)

\* What a step does to the slot, given that its handler is a taker or not.
Slotted ==
    /\ \/ saved' = EOF
       \/ isError'
       \/ saved' = saved /\ Head(stack).at \notin Takers
       \/ stack' # <<>> /\ Head(stack').at \in Takers
    /\ stack' # <<>> /\ Head(stack').at = "funcall" => saved'.type = "PL"

\* A step that treats the slot as Slotted says keeps SlotOK.
LEMMA SlotStep ==
    ASSUME SlotOK, isError => isError', Slotted
    PROVE  SlotOK'
BY DEF SlotOK, Slotted, At

\* The handlers above the statements leave the slot empty.
LEMMA TopLevelSlots ==
    ASSUME Inv, TopLevel
    PROVE  Slotted
<1> USE DEF Slotted, At, Takers, Frame, TypedFrame, NamedFrame, next, lexed,
            Reject, Fail, GiveUp
<1>1. CASE Start \/ ParseFunc \/ ParseDefault
  BY <1>1, NextHandler DEF Start, ParseFunc, ParseDefault
<1>2. CASE ParseEnd \/ ParseDef
  BY <1>2, NextHandler DEF ParseEnd, ParseDef, Finish
<1>3. CASE FunctionDef
  BY <1>3, NextHandler DEF FunctionDef
<1>4. CASE FunctionDefName
  BY <1>4, NextHandler DEF FunctionDefName
<1>5. CASE FunctionDefColon
  <2>1. Head(stack).at = "functionDef.colon" /\ stack # <<>>
    BY <1>5 DEF FunctionDefColon
  <2>2. CASE Reject /\ UNCHANGED lexed
    BY <2>1, <2>2, NextHandler
  <2>3. ASSUME NEW t \in Readable, next(t), NEW a,
               Reject \/ (a.at = "functionDef.type" /\ Call(<<a>>))
        PROVE  Slotted
    BY <2>1, <2>3, NextHandler
  <2> QED BY <1>5, <2>2, <2>3 DEF FunctionDefColon
<1>6. CASE FunctionDefType
  BY <1>6, NextHandler DEF FunctionDefType
<1>7. CASE FunctionDefBody
  BY <1>7, NextHandler DEF FunctionDefBody
<1>8. CASE FunctionArgs
  BY <1>8, NextHandler DEF FunctionArgs
<1>9. CASE FunctionArgsVar
  BY <1>9, NextHandler DEF FunctionArgsVar
<1>10. CASE FunctionArgsSep \/ FunctionArgsEnd
  BY <1>10, NextHandler DEF FunctionArgsSep, FunctionArgsEnd
<1> QED BY <1>1, <1>2, <1>3, <1>4, <1>5, <1>6, <1>7, <1>8, <1>9, <1>10 DEF TopLevel

\* A statement fills the slot only for a taker, which it calls at once.
LEMMA StatementSlots ==
    ASSUME Inv, Statements
    PROVE  Slotted
<1> USE DEF Slotted, At, Takers, Frame, TypedFrame, NamedFrame, next, peek, lexed,
            Reject, Fail, GiveUp, BadCondition
<1>1. CASE StatementNone \/ Semicolon
  BY <1>1, NextHandler DEF StatementNone, Semicolon
<1>2. CASE StatementNested
  BY <1>2, NextHandler DEF StatementNested
<1>3. CASE StatementSimple
  BY <1>3, NextHandler DEF StatementSimple
<1>4. CASE StatementSymbol
  BY <1>4, NextHandler DEF StatementSymbol
<1>5. CASE WrapExpression
  BY <1>5, NextHandler DEF WrapExpression
<1>6. CASE IfWhileCond
  BY <1>6, NextHandler DEF IfWhileCond
<1>7. CASE IfTrue
  BY <1>7, NextHandler DEF IfTrue
<1>8. CASE DoWhile
  BY <1>8, NextHandler DEF DoWhile
<1>9. CASE BlockStatement
  BY <1>9, NextHandler DEF BlockStatement
<1>10. CASE BlockStatementStmt
  BY <1>10, NextHandler DEF BlockStatementStmt
<1>11. CASE Assignment
  BY <1>11, NextHandler DEF Assignment, error
<1>12. CASE AssignmentRhs
  BY <1>12, NextHandler DEF AssignmentRhs
<1>13. CASE Declaration
  BY <1>13, NextHandler DEF Declaration
<1>14. CASE DeclarationName
  BY <1>14, NextHandler DEF DeclarationName
<1>15. CASE DeclarationRhs
  BY <1>15, NextHandler DEF DeclarationRhs
<1> QED BY <1>1, <1>2, <1>3, <1>4, <1>5, <1>6, <1>7, <1>8, <1>9, <1>10, <1>11,
           <1>12, <1>13, <1>14, <1>15 DEF Statements

\* So does an expression; an unknown function or variable is an error.
LEMMA ExpressionSlots ==
    ASSUME Inv, Expressions
    PROVE  Slotted
<1> USE DEF Slotted, At, Takers, Frame, TypedFrame, NamedFrame, Level, next, peek,
            lexed, Reject, Fail, GiveUp
<1>1. CASE Expression
  BY <1>1, NextHandler DEF Expression
<1>2. CASE BinaryLevel
  <2>1. Head(stack).at = "level" /\ stack # <<>>
    BY <1>2 DEF BinaryLevel
  <2>2. CASE Return(ret) /\ UNCHANGED lexed
    BY <2>1, <2>2, NextHandler
  <2>3. ASSUME NEW t \in Readable, next(t), NEW b, NEW d, NEW g,
               Call(<<Frame("unary"), b, d, g>>)
        PROVE  Slotted
    BY <2>1, <2>3, NextHandler
  <2> QED BY <1>2, <2>2, <2>3 DEF BinaryLevel
<1>3. CASE BinaryRhs
  BY <1>3, NextHandler DEF BinaryRhs
<1>4. CASE UnaryNested
  BY <1>4, NextHandler DEF UnaryNested
<1>5. CASE UnaryOperand
  BY <1>5, NextHandler DEF UnaryOperand
<1>6. CASE FactorParen
  BY <1>6, NextHandler DEF FactorParen
<1>7. CASE FactorSymbol
  BY <1>7, NextHandler DEF FactorSymbol
<1>8. CASE Constant
  BY <1>8, NextHandler DEF Constant
<1>9. CASE Var
  BY <1>9, NextHandler DEF Var
<1>10. CASE Funcall
  BY <1>10, NextHandler DEF Funcall, error
<1>11. CASE FuncallArgs
  BY <1>11, NextHandler DEF FuncallArgs
<1>12. CASE FuncallArgsArg
  BY <1>12, NextHandler DEF FuncallArgsArg
<1>13. CASE FuncallClose
  BY <1>13, NextHandler DEF FuncallClose
<1> QED BY <1>1, <1>2, <1>3, <1>4, <1>5, <1>6, <1>7, <1>8, <1>9, <1>10, <1>11,
           <1>12, <1>13 DEF Expressions

\* A pushed-back token always has its taker.
LEMMA SlotInvariance == Spec => []SlotOK
<1>1. Init => SlotOK
  BY DEF Init, SlotOK, At, Frame, TypedFrame, NamedFrame
<1>2. ASSUME Inv, SlotOK, [Next]_vars PROVE SlotOK'
  <2>1. CASE UNCHANGED vars
    BY <1>2, <2>1 DEF SlotOK, At, vars, lexed, reports
  <2>2. CASE TopLevel \/ Statements \/ Expressions
    <3>1. Slotted
      BY <1>2, <2>2, TopLevelSlots, StatementSlots, ExpressionSlots
    <3>2. isError => isError'
      BY <2>2, TopLevelGentle, StatementsGentle, ExpressionsGentle DEF Gentle
    <3> QED BY <1>2, <3>1, <3>2, SlotStep
  <2> QED BY <1>2, <2>1, <2>2 DEF Next, Done
<1> QED BY <1>1, <1>2, Invariance, PTL DEF Spec
-----------------------------------------------------------------------------
(* The functions registered                                                *)

\* The handlers at the bottom of the stack.
LEMMA Bottom ==
    ASSUME Inv, FuncsOK, stack # <<>>
    PROVE  /\ stack \in Seq(Frames) /\ Len(stack) \in Nat \ {0}
           /\ Head(stack) = stack[1]
           /\ Yields(Head(stack).at) = "root" <=> Len(stack) = 1
           /\ Yields(Head(stack).at) = "function" <=> Len(stack) = 2
           /\ Len(stack) > 1 => stack[Len(stack)].at = "parse.def"
<1> DEFINE n == Len(stack)
<1>1. /\ stack \in Seq(Frames) /\ n \in Nat \ {0} /\ Head(stack) = stack[1]
      /\ \A i \in 1..n - 1 : Expects(stack[i + 1].at) = Yields(stack[i].at)
      /\ Yields(stack[n].at) = "root"
  BY DEF Inv, ControlOK, StackOK, FuncsOK
<1>2. \A l : /\ Expects(l) # "root"
             /\ Expects(l) = "function" => l = "parse.def"
             /\ Yields(l) = "root" /\ Expects(l) # "nothing"
                  => l = "parse.def" /\ Expects(l) = "function"
             /\ l = "parse.def" => Yields(l) = "root"
             /\ Yields(l) # "nothing"
  BY DEF Expects, Yields
<1>3. \A i \in 1..n - 1 : Yields(stack[i].at) # "root"
  BY <1>1, <1>2
<1> HIDE DEF n
<1>4. Yields(stack[1].at) = "root" <=> n = 1
  <2>1. n # 1 => 1 \in 1..n - 1
    BY <1>1
  <2> QED BY <2>1, <1>1, <1>3
<1>5. ASSUME n > 1
      PROVE  stack[n].at = "parse.def" /\ Yields(stack[n - 1].at) = "function"
  <2>1. n - 1 \in 1..n - 1 /\ (n - 1) + 1 = n
    BY <1>1, <1>5
  <2> QED BY <2>1, <1>1, <1>2
<1>6. ASSUME Yields(stack[1].at) = "function" PROVE n = 2
  <2>1. n > 1 /\ 1 \in 1..n - 1
    BY <1>1, <1>6
  <2>2. stack[2].at = "parse.def" /\ Yields(stack[2].at) = "root"
    BY <2>1, <1>1, <1>2, <1>6
  <2>3. 2 \notin 1..n - 1
    BY <2>2, <1>3
  <2>4. n \in Nat /\ n > 1 /\ ~(n > 2)
    BY <2>1, <2>3, <1>1
  <2> QED BY <2>4
<1>7. n = 2 => Yields(stack[1].at) = "function"
  <2>1. n = 2 => n - 1 = 1
    OBVIOUS
  <2> QED BY <2>1, <1>5
<1> QED BY <1>1, <1>4, <1>5, <1>6, <1>7 DEF n

\* What the frames at the bottom become when the active frame is in a
\* function's body or parameter list, ...
Kept ==
    LET n == Len(stack)
        m == Len(stack')
    IN m > 1 /\ stack'[m] = stack[n] /\ stack'[m - 1] = stack[n - 1]

\* A call or a return above the two bottom frames does not reach them.
LEMMA DeepCalls ==
    ASSUME Inv, FuncsOK, stack # <<>>,
           Yields(Head(stack).at) \notin {"root", "function"}
    PROVE  /\ \A a : Call(<<a>>) => Kept
           /\ \A a, b : Call(<<a, b>>) => Kept
           /\ \A a, b, d : Call(<<a, b, d>>) => Kept
           /\ \A a, b, d, g : Call(<<a, b, d, g>>) => Kept
           /\ \A v : Return(v) => Kept
           /\ Len(stack) > 2
<1> DEFINE s == Tail(stack)
           n == Len(stack)
<1>1. /\ n > 2 /\ n \in Nat /\ s \in Seq(Frames) /\ Len(s) = n - 1
      /\ s[n - 1] = stack[n] /\ s[n - 2] = stack[n - 1]
  <2>1. n \in Nat /\ n > 2 /\ stack \in Seq(Frames)
    <3>1. n \in Nat \ {0} /\ n # 1 /\ n # 2 /\ stack \in Seq(Frames)
      BY Bottom
    <3> HIDE DEF n
    <3> QED BY <3>1
  <2>2. /\ s \in Seq(Frames) /\ Len(s) = n - 1
        /\ \A i \in 1..n - 1 : s[i] = stack[i + 1]
    BY <2>1
  <2>3. n - 1 \in 1..n - 1 /\ n - 2 \in 1..n - 1 /\ (n - 1) + 1 = n /\ (n - 2) + 1 = n - 1
    BY <2>1
  <2> QED BY <2>1, <2>2, <2>3
<1> HIDE DEF s
<1>2. ASSUME NEW a, Call(<<a>>) PROVE Kept
  BY <1>1, <1>2 DEF Call, Kept, s
<1>3. ASSUME NEW a, NEW b, Call(<<a, b>>) PROVE Kept
  BY <1>1, <1>3 DEF Call, Kept, s
<1>4. ASSUME NEW a, NEW b, NEW d, Call(<<a, b, d>>) PROVE Kept
  BY <1>1, <1>4 DEF Call, Kept, s
<1>5. ASSUME NEW a, NEW b, NEW d, NEW g, Call(<<a, b, d, g>>) PROVE Kept
  BY <1>1, <1>5 DEF Call, Kept, s
<1>6. ASSUME NEW v, Return(v) PROVE Kept
  BY <1>1, <1>6 DEF Return, Kept, s
<1> QED BY <1>1, <1>2, <1>3, <1>4, <1>5, <1>6

\* ... and what they become when it is functionDef() or parse().
LEMMA FunctionCalls ==
    ASSUME Inv, FuncsOK, stack # <<>>, Yields(Head(stack).at) = "function"
    PROVE  /\ Len(stack) = 2 /\ stack[1] = Head(stack) /\ stack[2].at = "parse.def"
           /\ \A a : Call(<<a>>) => /\ Len(stack') = 2
                                    /\ stack'[1] = a /\ stack'[2] = stack[2]
           /\ \A a, b : Call(<<a, b>>) => /\ Len(stack') = 3 /\ stack'[1] = a
                                          /\ stack'[2] = b /\ stack'[3] = stack[2]
           /\ \A v : Return(v) => /\ Len(stack') = 1 /\ stack' # <<>>
                                  /\ stack'[1] = stack[2] /\ Head(stack') = stack[2]
                                  /\ ret' = v
<1> DEFINE s == Tail(stack)
<1>1. /\ Len(stack) = 2 /\ stack \in Seq(Frames) /\ stack[1] = Head(stack)
      /\ stack[2].at = "parse.def"
  BY Bottom
<1>2. s \in Seq(Frames) /\ Len(s) = 1 /\ s[1] = stack[2]
  <2>1. /\ s \in Seq(Frames) /\ Len(s) = Len(stack) - 1
        /\ \A i \in 1..Len(stack) - 1 : s[i] = stack[i + 1]
    <3>1. stack \in Seq(Frames) /\ stack # <<>>
      BY <1>1
    <3> QED BY <3>1
  <2> HIDE DEF s
  <2> QED BY <2>1, <1>1
<1> HIDE DEF s
<1>3. ASSUME NEW a, Call(<<a>>)
      PROVE  Len(stack') = 2 /\ stack'[1] = a /\ stack'[2] = stack[2]
  BY <1>2, <1>3 DEF Call, s
<1>4. ASSUME NEW a, NEW b, Call(<<a, b>>)
      PROVE  /\ Len(stack') = 3 /\ stack'[1] = a
             /\ stack'[2] = b /\ stack'[3] = stack[2]
  <2> DEFINE k == Len(s)
             r == <<a, b>> \o s
  <2>1. k \in Nat \ {0} /\ s \in Seq(Frames)
    BY <1>2
  <2>2. Len(r) = k + 2 /\ r[1] = a /\ r[2] = b /\ r[k + 2] = s[k]
    BY <2>1
  <2>3. stack' = r
    BY <1>4 DEF Call, s
  <2> HIDE DEF r
  <2> QED BY <1>2, <2>2, <2>3
<1>5. ASSUME NEW v, Return(v)
      PROVE  /\ Len(stack') = 1 /\ stack' # <<>>
             /\ stack'[1] = stack[2] /\ Head(stack') = stack[2] /\ ret' = v
  <2>1. stack' = s /\ ret' = v
    BY <1>5 DEF Return, s
  <2>2. s # <<>> /\ Head(s) = s[1]
    BY <1>2
  <2> QED BY <1>2, <2>1, <2>2
<1> QED BY <1>1, <1>3, <1>4, <1>5

\* The loop of parse() is the only frame when it is active.
LEMMA RootCalls ==
    ASSUME Inv, FuncsOK, stack # <<>>, Yields(Head(stack).at) = "root"
    PROVE  /\ Len(stack) = 1
           /\ \A a : Call(<<a>>) => Len(stack') = 1 /\ stack'[1] = a /\ Head(stack') = a
           /\ \A a, b : Call(<<a, b>>) => Len(stack') = 2 /\ stack'[1] = a
                                          /\ stack'[2] = b
<1> DEFINE s == Tail(stack)
<1>1. Len(stack) = 1 /\ stack \in Seq(Frames)
  BY Bottom
<1>2. s \in Seq(Frames) /\ Len(s) = 0
  <2>1. s \in Seq(Frames) /\ Len(s) = Len(stack) - 1
    BY <1>1
  <2> HIDE DEF s
  <2> QED BY <2>1, <1>1
<1> HIDE DEF s
<1>3. ASSUME NEW a, Call(<<a>>)
      PROVE  Len(stack') = 1 /\ stack'[1] = a /\ Head(stack') = a
  BY <1>2, <1>3 DEF Call, s
<1>4. ASSUME NEW a, NEW b, Call(<<a, b>>)
      PROVE  Len(stack') = 2 /\ stack'[1] = a /\ stack'[2] = b
  <2> DEFINE r == <<a, b>> \o s
  <2>1. Len(r) = Len(s) + 2 /\ r[1] = a /\ r[2] = b
    BY <1>2
  <2>2. stack' = r
    BY <1>4 DEF Call, s
  <2> HIDE DEF r
  <2> QED BY <1>2, <2>1, <2>2
<1> QED BY <1>1, <1>3, <1>4

\* A step within a parameter list, a statement or an expression.
Undisturbed == Kept /\ UNCHANGED result /\ Callable' = Callable

\* A step that disturbs neither the tables nor the bottom frames keeps FuncsOK.
LEMMA UndisturbedStep ==
    ASSUME Inv, FuncsOK, stack # <<>>, isError => isError', Undisturbed,
           Yields(Head(stack).at) \notin {"root", "function"}
    PROVE  FuncsOK'
<1> DEFINE n == Len(stack)
           m == Len(stack')
<1>1. n > 2 /\ stack \in Seq(Frames) /\ Head(stack) = stack[1]
  BY Bottom, DeepCalls
<1>2. /\ m > 1 /\ stack'[m] = stack[n] /\ stack'[m - 1] = stack[n - 1]
      /\ root' = root /\ defined' = defined /\ Callable' = Callable
  BY DEF Undisturbed, Kept, result
<1>3. ~At("parse.def") /\ root = "building"
  BY DEF At, FuncsOK, Yields
<1>4. Callable \subseteq defined \cup Pending
  <2>1. ~Abandoned
    BY <1>3 DEF Abandoned
  <2> QED BY <2>1 DEF FuncsOK
<1>5. Pending' = Pending
  BY <1>1, <1>2 DEF Pending
<1>6. stack' # <<>>
  BY <1>2
<1> QED BY <1>2, <1>3, <1>4, <1>5, <1>6 DEF FuncsOK

\* No statement touches funcs or the frames of functionDef() and parse(),
LEMMA StatementsUndisturbed ==
    ASSUME Inv, FuncsOK, Statements
    PROVE  /\ stack # <<>> /\ Yields(Head(stack).at) \notin {"root", "function"}
           /\ Undisturbed
<1>1. stack # <<>> /\ Yields(Head(stack).at) \notin {"root", "function"}
  <2> USE DEF At, Yields
  <2>1. CASE StatementNone \/ StatementNested \/ StatementSimple \/ StatementSymbol
    BY <2>1 DEF StatementNone, StatementNested, StatementSimple, StatementSymbol
  <2>2. CASE Semicolon \/ WrapExpression \/ IfWhileCond \/ IfTrue \/ DoWhile
    BY <2>2 DEF Semicolon, WrapExpression, IfWhileCond, IfTrue, DoWhile
  <2>3. CASE BlockStatement \/ BlockStatementStmt \/ Assignment \/ AssignmentRhs
    BY <2>3 DEF BlockStatement, BlockStatementStmt, Assignment, AssignmentRhs
  <2>4. CASE Declaration \/ DeclarationName \/ DeclarationRhs
    BY <2>4 DEF Declaration, DeclarationName, DeclarationRhs
  <2> QED BY <2>1, <2>2, <2>3, <2>4 DEF Statements
<1>2. UNCHANGED result /\ funcs' = funcs
  <2> USE DEF tables
  <2>1. CASE StatementNone \/ StatementNested \/ StatementSimple \/ StatementSymbol
    BY <2>1 DEF StatementNone, StatementNested, StatementSimple, StatementSymbol
  <2>2. CASE Semicolon \/ WrapExpression \/ IfWhileCond \/ IfTrue \/ DoWhile
    BY <2>2 DEF Semicolon, WrapExpression, IfWhileCond, IfTrue, DoWhile
  <2>3. CASE BlockStatement \/ BlockStatementStmt \/ Assignment \/ AssignmentRhs
    BY <2>3 DEF BlockStatement, BlockStatementStmt, Assignment, AssignmentRhs
  <2>4. CASE Declaration \/ DeclarationName \/ DeclarationRhs
    BY <2>4 DEF Declaration, DeclarationName, DeclarationRhs
  <2> QED BY <2>1, <2>2, <2>3, <2>4 DEF Statements
<1>3. Kept
  <2> USE <1>1, DeepCalls DEF Fail, Reject, GiveUp, BadCondition
  <2>1. CASE StatementNone \/ StatementNested \/ StatementSimple \/ StatementSymbol
    BY <2>1 DEF StatementNone, StatementNested, StatementSimple, StatementSymbol
  <2>2. CASE Semicolon \/ WrapExpression \/ IfWhileCond \/ IfTrue \/ DoWhile
    BY <2>2 DEF Semicolon, WrapExpression, IfWhileCond, IfTrue, DoWhile
  <2>3. CASE BlockStatement \/ BlockStatementStmt \/ Assignment \/ AssignmentRhs
    BY <2>3 DEF BlockStatement, BlockStatementStmt, Assignment, AssignmentRhs
  <2>4. CASE Declaration \/ DeclarationName \/ DeclarationRhs
    BY <2>4 DEF Declaration, DeclarationName, DeclarationRhs
  <2> QED BY <2>1, <2>2, <2>3, <2>4 DEF Statements
<1> QED BY <1>1, <1>2, <1>3 DEF Undisturbed, Callable

\* and an expression at most adds a null entry to funcs, reporting it.
LEMMA ExpressionsUndisturbed ==
    ASSUME Inv, FuncsOK, Expressions
    PROVE  /\ stack # <<>> /\ Yields(Head(stack).at) \notin {"root", "function"}
           /\ Undisturbed
<1>1. stack # <<>> /\ Yields(Head(stack).at) \notin {"root", "function"}
  <2> USE DEF At, Yields
  <2>1. CASE Expression \/ BinaryLevel \/ BinaryRhs \/ UnaryNested \/ UnaryOperand
    BY <2>1 DEF Expression, BinaryLevel, BinaryRhs, UnaryNested, UnaryOperand
  <2>2. CASE FactorParen \/ FactorSymbol \/ Constant \/ Var
    BY <2>2 DEF FactorParen, FactorSymbol, Constant, Var
  <2>3. CASE Funcall \/ FuncallArgs \/ FuncallArgsArg \/ FuncallClose
    BY <2>3 DEF Funcall, FuncallArgs, FuncallArgsArg, FuncallClose
  <2> QED BY <2>1, <2>2, <2>3 DEF Expressions
<1>2. UNCHANGED result /\ (funcs' = funcs \/ Funcall)
  <2> USE DEF tables
  <2>1. CASE Expression \/ BinaryLevel \/ BinaryRhs \/ UnaryNested \/ UnaryOperand
    BY <2>1 DEF Expression, BinaryLevel, BinaryRhs, UnaryNested, UnaryOperand
  <2>2. CASE FactorParen \/ FactorSymbol \/ Constant \/ Var
    BY <2>2 DEF FactorParen, FactorSymbol, Constant, Var
  <2>3. CASE Funcall \/ FuncallArgs \/ FuncallArgsArg \/ FuncallClose
    BY <2>3 DEF Funcall, FuncallArgs, FuncallArgsArg, FuncallClose
  <2> QED BY <2>1, <2>2, <2>3 DEF Expressions
<1>3. Callable' = Callable
  <2>1. CASE funcs' = funcs
    BY <2>1 DEF Callable
  <2>2. CASE Funcall
    <3>1. funcs' = Lookup(funcs, current.lexeme) /\ TableOK(funcs, isError)
      BY <2>2 DEF Funcall, Inv, TablesOK
    <3>2. \A n \in Names : funcs'[n] \in Types <=> funcs[n] \in Types
      BY <3>1 DEF Lookup, TableOK, ABSENT, NULL, Types
    <3> QED BY <3>2 DEF Callable
  <2> QED BY <1>2, <2>1, <2>2
<1>4. Kept
  <2> USE <1>1, DeepCalls DEF Fail, Reject, GiveUp
  <2>1. CASE Expression \/ BinaryLevel \/ BinaryRhs \/ UnaryNested \/ UnaryOperand
    BY <2>1 DEF Expression, BinaryLevel, BinaryRhs, UnaryNested, UnaryOperand
  <2>2. CASE FactorParen \/ FactorSymbol \/ Constant \/ Var
    BY <2>2 DEF FactorParen, FactorSymbol, Constant, Var
  <2>3. CASE Funcall \/ FuncallArgs \/ FuncallArgsArg \/ FuncallClose
    BY <2>3 DEF Funcall, FuncallArgs, FuncallArgsArg, FuncallClose
  <2> QED BY <2>1, <2>2, <2>3 DEF Expressions
<1> QED BY <1>1, <1>2, <1>3, <1>4 DEF Undisturbed

\* Nor does the parameter list.
LEMMA ParametersUndisturbed ==
    ASSUME Inv, FuncsOK,
           FunctionArgs \/ FunctionArgsVar \/ FunctionArgsSep \/ FunctionArgsEnd
    PROVE  /\ stack # <<>> /\ Yields(Head(stack).at) \notin {"root", "function"}
           /\ Undisturbed
<1>1. stack # <<>> /\ Yields(Head(stack).at) \notin {"root", "function"}
  BY DEF At, Yields, FunctionArgs, FunctionArgsVar, FunctionArgsSep, FunctionArgsEnd
<1>2. UNCHANGED result /\ funcs' = funcs
  BY DEF tables, FunctionArgs, FunctionArgsVar, FunctionArgsSep, FunctionArgsEnd
<1>3. Kept
  BY <1>1, DeepCalls
     DEF Reject, FunctionArgs, FunctionArgsVar, FunctionArgsSep, FunctionArgsEnd
<1> QED BY <1>1, <1>2, <1>3 DEF Undisturbed, Callable

\* parse() between two definitions, and before the first.
LEMMA ParseFuncs ==
    ASSUME Inv, FuncsOK, Start \/ ParseFunc \/ ParseDefault
    PROVE  FuncsOK'
<1>1. /\ stack # <<>> /\ Head(stack).at \in {"start", "parse"}
      /\ UNCHANGED result /\ funcs' = funcs /\ (isError => isError')
      /\ \/ Call(<<Frame("parse")>>)
         \/ Call(<<Frame("functionDef"), Frame("parse.def")>>)
  BY DEF Start, ParseFunc, ParseDefault, At, tables, error, quiet, reports
<1>2. Yields(Head(stack).at) = "root"
  BY <1>1 DEF Yields
<1>3. Pending = {} /\ ~At("parse.def") /\ root = "building"
  BY <1>1, <1>2, RootCalls DEF Pending, At, FuncsOK
<1>4. Callable = Callable' /\ Callable \subseteq defined
      /\ (isError \/ defined \subseteq Callable)
  BY <1>1, <1>3 DEF FuncsOK, Callable, Abandoned
<1>5. stack' # <<>> /\ Yields(stack'[Len(stack')].at) = "root" /\ Pending' = {}
  <2>1. CASE Call(<<Frame("parse")>>)
    <3>1. Len(stack') = 1 /\ stack'[1].at = "parse" /\ Head(stack').at = "parse"
      BY <1>1, <1>2, <2>1, RootCalls DEF Frame, TypedFrame, NamedFrame
    <3> QED BY <3>1 DEF Pending, At, Yields
  <2>2. CASE Call(<<Frame("functionDef"), Frame("parse.def")>>)
    <3>1. Len(stack') = 2 /\ stack'[1].at = "functionDef" /\ stack'[2].at = "parse.def"
      BY <1>1, <1>2, <2>2, RootCalls DEF Frame, TypedFrame, NamedFrame
    <3> QED BY <3>1 DEF Pending, At, Yields
  <2> QED BY <1>1, <2>1, <2>2
<1> QED BY <1>1, <1>3, <1>4, <1>5 DEF FuncsOK, result

\* parse() returns: nothing is pending.
LEMMA ParseEndFuncs ==
    ASSUME Inv, FuncsOK, ParseEnd
    PROVE  FuncsOK'
<1>1. /\ stack # <<>> /\ Head(stack).at = "parse" /\ stack' = <<>>
      /\ defined' = defined /\ funcs' = funcs /\ isError' = isError
  BY DEF ParseEnd, At, Finish, tables, quiet, reports
<1>2. Yields(Head(stack).at) = "root"
  BY <1>1 DEF Yields
<1>3. Pending = {} /\ ~Abandoned
  BY <1>1, <1>2, RootCalls DEF Pending, At, FuncsOK, Abandoned
<1>4. Callable = Callable' /\ Pending' = {}
  BY <1>1 DEF Callable, Pending, At
<1> QED BY <1>1, <1>3, <1>4 DEF FuncsOK

\* parse() enters the definition in the root node, or gives up.
LEMMA ParseDefFuncs ==
    ASSUME Inv, FuncsOK, ParseDef
    PROVE  FuncsOK'
<1>1. /\ stack # <<>> /\ Head(stack).at = "parse.def"
      /\ funcs' = funcs /\ isError' = isError
  BY DEF ParseDef, At, tables, quiet, reports
<1>2. Yields(Head(stack).at) = "root" /\ root = "building"
  BY <1>1 DEF Yields, FuncsOK
<1>3. Pending = {ret} \ {NULL} /\ Callable' = Callable
  <2>1. Len(stack) = 1
    BY <1>1, <1>2, RootCalls
  <2>2. ~(Len(stack) > 1)
    BY <2>1
  <2> QED BY <1>1, <2>1, <2>2 DEF Pending, At, Callable
<1>4. CASE ret = NULL
  <2>1. stack' = <<>> /\ root' = "DummyNode" /\ defined' = defined
    BY <1>4 DEF ParseDef, Finish
  <2>2. Pending' = {}
    BY <2>1 DEF Pending, At
  <2>3. isError \/ defined \subseteq Callable
    BY <1>3, <1>4 DEF FuncsOK
  <2> QED BY <1>1, <1>3, <2>1, <2>2, <2>3 DEF FuncsOK, Abandoned
<1>5. CASE ret # NULL
  <2>1. Call(<<Frame("parse")>>) /\ root' = root /\ defined' = defined \cup {ret}
    BY <1>5 DEF ParseDef
  <2>2. Len(stack') = 1 /\ stack'[1].at = "parse" /\ Head(stack').at = "parse"
    BY <1>1, <1>2, <2>1, RootCalls DEF Frame, TypedFrame, NamedFrame
  <2>3. Pending' = {} /\ Yields(stack'[Len(stack')].at) = "root"
    BY <2>2 DEF Pending, At, Yields
  <2>4. Pending = {ret}
    BY <1>3, <1>5
  <2>5. ~Abandoned
    BY <1>2, <1>5 DEF Abandoned
  <2>6. Callable' \subseteq defined' /\ (isError' \/ defined' \subseteq Callable')
    BY <1>1, <1>3, <2>1, <2>4, <2>5 DEF FuncsOK
  <2> QED BY <1>2, <2>1, <2>3, <2>6 DEF FuncsOK
<1> QED BY <1>4, <1>5

\* functionDef() up to the call of functionArgs() or the return type.
LEMMA HeaderFuncs ==
    ASSUME Inv, FuncsOK, FunctionDef \/ FunctionDefName \/ FunctionDefColon
    PROVE  FuncsOK'
<1> DEFINE header == {"functionDef", "functionDef.name", "functionDef.colon",
                      "functionDef.type"}
<1>1. /\ stack # <<>> /\ Head(stack).at \in header
      /\ UNCHANGED result /\ funcs' = funcs
  BY DEF FunctionDef, FunctionDefName, FunctionDefColon, At, tables
<1>2. isError => isError'
  BY TopLevelGentle DEF TopLevel, Gentle
<1>3. /\ Yields(Head(stack).at) = "function" /\ Len(stack) = 2
      /\ stack[1] = Head(stack) /\ stack[2].at = "parse.def"
  <2>1. Yields(Head(stack).at) = "function"
    BY <1>1 DEF Yields
  <2> QED BY <1>1, <2>1, FunctionCalls
<1>4. Pending = {} /\ ~Abandoned
  BY <1>1, <1>3 DEF Pending, FuncsOK, Abandoned, At
<1> DEFINE Quit == /\ stack' # <<>> /\ Yields(stack'[Len(stack')].at) = "root"
                   /\ Pending' = {}
<1>5. /\ Return(NULL) => Quit
      /\ \A a : a.at \in header /\ Call(<<a>>) => Quit
      /\ \A a, b : b.at \in header /\ Call(<<a, b>>) => Quit
  <2>1. ASSUME Return(NULL) PROVE Quit
    <3>1. /\ Len(stack') = 1 /\ stack' # <<>> /\ stack'[1].at = "parse.def"
          /\ ret' = NULL
      BY <1>1, <1>3, <2>1, FunctionCalls
    <3> QED BY <3>1 DEF Pending, Yields
  <2>2. ASSUME NEW a, a.at \in header, Call(<<a>>) PROVE Quit
    <3>1. Len(stack') = 2 /\ stack'[1] = a /\ stack'[2].at = "parse.def"
      BY <1>1, <1>3, <2>2, FunctionCalls
    <3> QED BY <2>2, <3>1 DEF Pending, Yields
  <2>3. ASSUME NEW a, NEW b, b.at \in header, Call(<<a, b>>) PROVE Quit
    <3>1. Len(stack') = 3 /\ stack'[2] = b /\ stack'[3].at = "parse.def"
      BY <1>1, <1>3, <2>3, FunctionCalls
    <3>2. stack' # <<>> /\ Yields(stack'[Len(stack')].at) = "root"
      BY <3>1 DEF Yields
    <3>3. b.at # "functionDef.body"
      BY <2>3
    <3> QED BY <3>1, <3>2, <3>3 DEF Pending
  <2> QED BY <2>1, <2>2, <2>3
<1>6. Quit
  <2> HIDE DEF Quit
  <2>1. \A at, type, name : NamedFrame(at, type, name).at = at
    BY DEF NamedFrame
  <2>2. CASE FunctionDef
    BY <1>5, <2>1, <2>2 DEF FunctionDef, Reject
  <2>3. CASE FunctionDefName
    BY <1>5, <2>1, <2>3 DEF FunctionDefName
  <2>4. CASE FunctionDefColon
    <3>1. \/ Reject
          \/ \E t \in Readable :
               Call(<<NamedFrame("functionDef.type", fromString(t.lexeme), top.name)>>)
      BY <2>4 DEF FunctionDefColon
    <3> QED BY <1>5, <2>1, <3>1 DEF Reject
  <2> QED BY <2>2, <2>3, <2>4
<1>7. Callable' = Callable
  BY <1>1 DEF Callable
<1> QED BY <1>1, <1>2, <1>4, <1>6, <1>7 DEF FuncsOK, result

\* The function is registered, unless an earlier entry stands in its way.
LEMMA RegisterFuncs ==
    ASSUME Inv, FuncsOK, FunctionDefType
    PROVE  FuncsOK'
<1> DEFINE a == Frame("statement")
           b == NamedFrame("functionDef.body", NULL, Head(stack).name)
           name == Head(stack).name
           type == Head(stack).type
<1>1. /\ stack # <<>> /\ Head(stack).at = "functionDef.type"
      /\ UNCHANGED result /\ isError' = isError
      /\ funcs' = Insert(funcs, name, type) /\ Call(<<a, b>>)
  BY DEF FunctionDefType, At, top, quiet, reports
<1>2. b.at = "functionDef.body" /\ b.name = name
  BY DEF NamedFrame
<1>3. name \in Names /\ type \in Types
  BY <1>1, TopFacts DEF FrameOK
<1>4. TableOK(funcs, isError) /\ isError \in BOOLEAN
  BY DEF Inv, TablesOK, ReportsOK
<1> HIDE DEF a, b
<1>5. Yields(Head(stack).at) = "function"
  BY <1>1 DEF Yields
<1>6. /\ Len(stack) = 2 /\ stack[1] = Head(stack)
      /\ Len(stack') = 3 /\ stack'[2] = b /\ stack'[3].at = "parse.def"
  BY <1>1, <1>5, FunctionCalls
<1>7. Pending = {} /\ ~Abandoned
  BY <1>1, <1>6 DEF Pending, FuncsOK, Abandoned, At
<1>8. Pending' = {name} /\ stack' # <<>> /\ Yields(stack'[Len(stack')].at) = "root"
  BY <1>2, <1>6 DEF Pending, Yields
<1>9. /\ Callable' \subseteq Callable \cup {name}
      /\ Callable \subseteq Callable'
      /\ name \in Callable' \/ isError
  <2>1. ABSENT # NULL /\ ABSENT \notin Types /\ NULL \notin Types
    BY DEF ABSENT, NULL, Types
  <2>2. /\ \A n \in Names : n # name => funcs'[n] = funcs[n]
        /\ funcs'[name] = IF funcs[name] = ABSENT THEN type ELSE funcs[name]
        /\ funcs[name] \in Types \cup {NULL, ABSENT}
        /\ funcs[name] = NULL => isError
    BY <1>1, <1>3, <1>4 DEF Insert, TableOK
  <2> HIDE DEF name, type
  <2> QED BY <1>3, <2>1, <2>2 DEF Callable
<1> HIDE DEF name
<1> QED BY <1>1, <1>7, <1>8, <1>9 DEF FuncsOK, result

\* functionDef() hands its name on, or NULL.
LEMMA BodyFuncs ==
    ASSUME Inv, FuncsOK, FunctionDefBody
    PROVE  FuncsOK'
<1> DEFINE name == Head(stack).name
           v == IF ret = NULL THEN NULL ELSE name
<1>1. /\ stack # <<>> /\ Head(stack).at = "functionDef.body"
      /\ UNCHANGED result /\ isError' = isError /\ funcs' = funcs /\ Return(v)
  BY DEF FunctionDefBody, At, top, quiet, reports, tables
<1>2. name \in Names
  BY <1>1, TopFacts DEF FrameOK
<1>3. name # NULL
  BY <1>2, NamesAssumption
<1> HIDE DEF name, v
<1>4. Yields(Head(stack).at) = "function"
  BY <1>1 DEF Yields
<1>5. /\ Len(stack) = 2 /\ stack[1] = Head(stack)
      /\ Len(stack') = 1 /\ stack' # <<>> /\ ret' = v
      /\ stack'[1].at = "parse.def" /\ Head(stack').at = "parse.def"
  BY <1>1, <1>4, FunctionCalls
<1>6. Pending = {name} /\ ~Abandoned
  BY <1>1, <1>5 DEF Pending, FuncsOK, Abandoned, At, name
<1>7. Pending' = {v} \ {NULL} /\ Yields(stack'[Len(stack')].at) = "root"
      /\ (v = NULL => Abandoned')
  BY <1>5 DEF Pending, Yields, At, Abandoned
<1>8. Callable' = Callable
  BY <1>1 DEF Callable
<1>9. v = NULL \/ v = name
  BY DEF v
<1> QED BY <1>1, <1>3, <1>5, <1>6, <1>7, <1>8, <1>9 DEF FuncsOK, result

\* The callable functions are those of the root node and the pending one.
LEMMA FuncsInvariance == Spec => []FuncsOK
<1>1. Init => FuncsOK
  <2> SUFFICES ASSUME Init PROVE FuncsOK
    OBVIOUS
  <2>1. /\ Len(stack) = 1 /\ stack # <<>> /\ root = "building" /\ defined = {}
        /\ stack[1].at = "start" /\ Head(stack).at = "start"
        /\ funcs = [n \in Names |-> ABSENT]
    BY DEF Init, Frame, TypedFrame, NamedFrame
  <2>2. Pending = {} /\ Yields(stack[Len(stack)].at) = "root"
    BY <2>1 DEF Pending, At, Yields
  <2>3. Callable = {}
    BY <2>1 DEF Callable, ABSENT, Types
  <2> QED BY <2>1, <2>2, <2>3 DEF FuncsOK
<1>2. ASSUME Inv, FuncsOK, [Next]_vars PROVE FuncsOK'
  <2>1. CASE UNCHANGED vars
    BY <1>2, <2>1 DEF FuncsOK, Abandoned, Callable, Pending, At, vars, tables, reports,
                      result
  <2>2. CASE TopLevel
    <3>1. CASE FunctionArgs \/ FunctionArgsVar \/ FunctionArgsSep \/ FunctionArgsEnd
      <4>1. isError => isError'
        BY <2>2, TopLevelGentle DEF Gentle
      <4> QED BY <1>2, <3>1, <4>1, ParametersUndisturbed, UndisturbedStep
    <3> QED BY <1>2, <2>2, <3>1, ParseFuncs, ParseEndFuncs, ParseDefFuncs, HeaderFuncs,
               RegisterFuncs, BodyFuncs DEF TopLevel
  <2>3. CASE Statements
    BY <1>2, <2>3, StatementsGentle, StatementsUndisturbed, UndisturbedStep DEF Gentle
  <2>4. CASE Expressions
    BY <1>2, <2>4, ExpressionsGentle, ExpressionsUndisturbed, UndisturbedStep DEF Gentle
  <2> QED BY <1>2, <2>1, <2>2, <2>3, <2>4 DEF Next, Done
<1> QED BY <1>1, <1>2, Invariance, PTL DEF Spec
-----------------------------------------------------------------------------
(* Counting frames                                                         *)

\* A call adds its frame to the count.
LEMMA OpenPush ==
    ASSUME NEW s \in Seq(Frames), NEW f \in Frames, NEW points
    PROVE  Open(<<f>> \o s, points) = Open(s, points) + Count(f.at \in points)
<1> DEFINE r == <<f>> \o s
           S == {i \in 1..Len(s) : s[i].at \in points}
           T == {i \in 1..Len(r) : r[i].at \in points} \ {1}
<1>1. /\ Len(r) = Len(s) + 1 /\ r[1] = f
      /\ \A i \in 1..Len(s) : r[i + 1] = s[i]
      /\ Len(s) \in Nat
  OBVIOUS
<1> HIDE DEF r
<1>2. IsFiniteSet(S)
  <2>1. IsFiniteSet(1..Len(s)) /\ S \in SUBSET (1..Len(s))
    BY <1>1, FS_Interval
  <2> QED BY <2>1, FS_Subset
<1>3. ExistsBijection(S, T)
  <2> DEFINE F == [i \in S |-> i + 1]
  <2>1. F \in [S -> T]
    <3>1. ASSUME NEW i \in S PROVE i + 1 \in T
      <4>1. i \in 1..Len(s) /\ s[i].at \in points
        OBVIOUS
      <4>2. i + 1 \in 1..Len(r) /\ i + 1 # 1 /\ r[i + 1] = s[i]
        BY <1>1, <4>1
      <4> QED BY <4>1, <4>2
    <3> QED BY <3>1
  <2>2. \A a, b \in S : F[a] = F[b] => a = b
    OBVIOUS
  <2>3. \A t \in T : \E i \in S : F[i] = t
    <3> TAKE t \in T
    <3>1. t - 1 \in 1..Len(s) /\ (t - 1) + 1 = t
      BY <1>1
    <3>2. t - 1 \in S
      BY <1>1, <3>1
    <3> QED BY <3>1, <3>2
  <2> QED BY <2>1, <2>2, <2>3, Fun_IsBij, Fun_ExistsBij
<1>4. IsFiniteSet(T) /\ Cardinality(T) = Cardinality(S)
  BY <1>2, <1>3, FS_Bijection
<1>5. 1 \notin T /\ Cardinality(S) \in Nat
  BY <1>2, FS_CardinalityType
<1>6. CASE f.at \in points
  <2>1. {i \in 1..Len(r) : r[i].at \in points} = T \cup {1}
    BY <1>1, <1>6
  <2>2. Cardinality(T \cup {1}) = Cardinality(T) + 1
    BY <1>4, <1>5, FS_AddElement
  <2> QED BY <1>4, <1>6, <2>1, <2>2 DEF Open, Count, r
<1>7. CASE f.at \notin points
  <2>1. {i \in 1..Len(r) : r[i].at \in points} = T
    BY <1>1, <1>7
  <2>2. Open(r, points) = Open(s, points)
    BY <1>4, <2>1 DEF Open
  <2>3. Open(s, points) \in Nat
    BY <1>5 DEF Open
  <2> QED BY <1>7, <2>2, <2>3 DEF Count, r
<1> QED BY <1>6, <1>7

\* A count of frames is a number.
LEMMA OpenNat ==
    ASSUME NEW s \in Seq(Frames), NEW points
    PROVE  Open(s, points) \in Nat
<1> DEFINE S == {i \in 1..Len(s) : s[i].at \in points}
<1>1. IsFiniteSet(S)
  <2>1. IsFiniteSet(1..Len(s)) /\ S \in SUBSET (1..Len(s))
    BY FS_Interval
  <2> QED BY <2>1, FS_Subset
<1> QED BY <1>1, FS_CardinalityType DEF Open

\* The count of a stack from that of the frames below the active one.
LEMMA OpenTail ==
    ASSUME NEW s \in Seq(Frames), s # <<>>, NEW points
    PROVE  Open(s, points) = Open(Tail(s), points) + Count(Head(s).at \in points)
<1>1. Tail(s) \in Seq(Frames) /\ Head(s) \in Frames /\ s = <<Head(s)>> \o Tail(s)
  OBVIOUS
<1> QED BY <1>1, OpenPush

\* A handler that yields a function or a statement has no expression among
\* its callers, so no parenthesis is open.
Low(l) == Yields(l) \in {"root", "function", "statement"}

\* By the least counterexample: the frames below a low one are low.
LEMMA LowCallers ==
    ASSUME Inv, stack # <<>>, Low(Head(stack).at)
    PROVE  \A i \in 1..Len(stack) : Low(stack[i].at)
<1> DEFINE T == {i \in 1..Len(stack) : ~Low(stack[i].at)}
<1>1. SUFFICES ASSUME T # {} PROVE FALSE
  OBVIOUS
<1>2. PICK i \in T : \A j \in T : ~(j < i)
  <2>1. T \subseteq Nat
    OBVIOUS
  <2>2. PICK i \in T : \A j \in T : ~(<<j, i>> \in OpToRel(<, Nat))
    BY <1>1, <2>1, WFMin, NatLessThanWellFounded
  <2>3. \A j \in T : ~(j < i)
    BY <2>1, <2>2 DEF OpToRel
  <2> QED BY <2>3
<1>3. /\ Head(stack) = stack[1]
      /\ \A j \in 1..Len(stack) - 1 : Expects(stack[j + 1].at) = Yields(stack[j].at)
      /\ Len(stack) \in Nat
  BY DEF Inv, ControlOK, StackOK
<1>4. i \in 1..Len(stack) /\ i # 1 /\ i - 1 \in 1..Len(stack) - 1 /\ (i - 1) + 1 = i
  BY <1>2, <1>3
<1>5. Low(stack[i - 1].at)
  BY <1>2, <1>3, <1>4
<1>6. Expects(stack[i].at) \in {"root", "function", "statement"}
  BY <1>3, <1>4, <1>5 DEF Low
<1>7. Low(stack[i].at)
  BY <1>6 DEF Low, Expects, Yields
<1> QED BY <1>2, <1>7
-----------------------------------------------------------------------------
(* The brackets                                                            *)

\* The counts are integers, and next() adds the token it leaves behind.
LEMMA Numbers ==
    ASSUME Inv, stack # <<>>
    PROVE  /\ openParens \in Int /\ openBraces \in Int
           /\ nesting.paren \in Int /\ nesting.brace \in Int
           /\ \A c : Parens(c) \in Int /\ Braces(c) \in Int
           /\ \A t : next(t) => /\ current' = t
                                 /\ nesting'.paren = nesting.paren + Parens(current)
                                 /\ nesting'.brace = nesting.brace + Braces(current)
           /\ \A t : peek(t) => current' = current /\ nesting' = nesting
<1>1. Tail(stack) \in Seq(Frames)
  BY DEF Inv, ControlOK, StackOK
<1>2. openParens \in Int /\ openBraces \in Int
  <2>1. openParens \in Nat /\ openBraces \in Nat
    <3> HIDE DEF ParenCallers, BraceCallers
    <3> QED BY <1>1, OpenNat, Zenon DEF openParens, openBraces
  <2> QED BY <2>1
<1>3. nesting.paren \in Int /\ nesting.brace \in Int
  BY DEF Inv, LexedOK
<1>4. \A c : Parens(c) \in Int /\ Braces(c) \in Int
  BY DEF Parens, Braces, Count
<1>5. ASSUME NEW t, next(t)
      PROVE  /\ current' = t
             /\ nesting'.paren = nesting.paren + Parens(current)
             /\ nesting'.brace = nesting.brace + Braces(current)
  BY <1>3, <1>5 DEF next, Parens, Braces, Count
<1> QED BY <1>2, <1>3, <1>4, <1>5 DEF peek

\* The balance after a call, from the brackets open below the active frame.
After(a, p, b) ==
    Balance(a.at, current', nesting', openParens + p, openBraces + b)
Parenthesised(f) == Count(f.at \in ParenCallers)
Braced(f) == Count(f.at \in BraceCallers)

\* A call keeps the balance if the callee accounts for the brackets passed and
\* the frames left waiting for those that it is to close.
LEMMA CallBalance ==
    ASSUME Inv, Inv', stack # <<>>
    PROVE  /\ \A a : Call(<<a>>) /\ After(a, 0, 0) => BracketsOK'
           /\ \A a, b : Call(<<a, b>>) /\ After(a, Parenthesised(b), Braced(b))
                         => BracketsOK'
           /\ \A a, b, d : /\ Call(<<a, b, d>>)
                           /\ After(a, Parenthesised(b) + Parenthesised(d),
                                       Braced(b) + Braced(d))
                           => BracketsOK'
           /\ \A a, b, d, g : /\ Call(<<a, b, d, g>>)
                              /\ After(a, Parenthesised(b) + Parenthesised(d)
                                            + Parenthesised(g),
                                          Braced(b) + Braced(d) + Braced(g))
                              => BracketsOK'
<1> DEFINE s == Tail(stack)
<1>1. s \in Seq(Frames) /\ stack' \in Seq(Frames)
  BY DEF Inv, ControlOK, StackOK
<1>2. openParens = Open(s, ParenCallers) /\ openBraces = Open(s, BraceCallers)
  BY DEF openParens, openBraces
<1>3. openParens \in Int /\ openBraces \in Int
  BY Numbers
<1>4. \A f : Parenthesised(f) \in Int /\ Braced(f) \in Int
  BY DEF Parenthesised, Braced, Count
<1>5. ASSUME NEW a, NEW r \in Seq(Frames), Entered(a, r), NEW p, NEW b,
             Open(r, ParenCallers) = openParens + p,
             Open(r, BraceCallers) = openBraces + b,
             After(a, p, b)
      PROVE  BracketsOK'
  BY <1>5 DEF BracketsOK, Entered, After, openParens, openBraces
<1>6. ASSUME NEW f \in Frames, NEW r \in Seq(Frames)
      PROVE  /\ <<f>> \o r \in Seq(Frames)
             /\ Open(<<f>> \o r, ParenCallers) = Open(r, ParenCallers) + Parenthesised(f)
             /\ Open(<<f>> \o r, BraceCallers) = Open(r, BraceCallers) + Braced(f)
  <2>1. <<f>> \o r \in Seq(Frames)
    OBVIOUS
  <2>2. \A points : Open(<<f>> \o r, points) = Open(r, points) + Count(f.at \in points)
    BY OpenPush
  <2> QED BY <2>1, <2>2, Zenon DEF Parenthesised, Braced
<1>7. \A r \in Seq(Frames) : Open(r, ParenCallers) \in Int /\ Open(r, BraceCallers) \in Int
  BY OpenNat
<1> HIDE DEF s
<1>8. ASSUME NEW a, Call(<<a>>), After(a, 0, 0) PROVE BracketsOK'
  <2>1. a \in Frames
    BY <1>1, <1>8 DEF Call, s
  <2>2. Entered(a, s)
    BY <1>8, <2>1, Calling DEF s
  <2> QED BY <1>1, <1>2, <1>3, <1>5, <1>8, <2>2
<1>9. ASSUME NEW a, NEW b, Call(<<a, b>>), After(a, Parenthesised(b), Braced(b))
      PROVE  BracketsOK'
  <2>1. a \in Frames /\ b \in Frames
    BY <1>1, <1>9 DEF Call, s
  <2>2. Entered(a, <<b>> \o s)
    BY <1>9, <2>1, Calling DEF s
  <2> QED BY <1>1, <1>2, <1>5, <1>6, <1>9, <2>1, <2>2
<1>10. ASSUME NEW a, NEW b, NEW d, Call(<<a, b, d>>),
              After(a, Parenthesised(b) + Parenthesised(d), Braced(b) + Braced(d))
       PROVE  BracketsOK'
  <2> DEFINE q == <<d>> \o s
  <2>1. a \in Frames /\ b \in Frames /\ d \in Frames
    BY <1>1, <1>10 DEF Call, s
  <2>2. Entered(a, <<b>> \o q)
    BY <1>10, <2>1, Calling DEF s
  <2>3. /\ q \in Seq(Frames)
        /\ Open(q, ParenCallers) = openParens + Parenthesised(d)
        /\ Open(q, BraceCallers) = openBraces + Braced(d)
    BY <1>1, <1>2, <1>6, <2>1
  <2> HIDE DEF q
  <2>4. /\ <<b>> \o q \in Seq(Frames)
        /\ Open(<<b>> \o q, ParenCallers)
             = openParens + (Parenthesised(b) + Parenthesised(d))
        /\ Open(<<b>> \o q, BraceCallers) = openBraces + (Braced(b) + Braced(d))
    BY <1>3, <1>4, <1>6, <2>1, <2>3
  <2> QED BY <1>5, <1>10, <2>2, <2>4
<1>11. ASSUME NEW a, NEW b, NEW d, NEW g, Call(<<a, b, d, g>>),
              After(a, Parenthesised(b) + Parenthesised(d) + Parenthesised(g),
                       Braced(b) + Braced(d) + Braced(g))
       PROVE  BracketsOK'
  <2> DEFINE p == <<g>> \o s
             q == <<d>> \o p
  <2>1. a \in Frames /\ b \in Frames /\ d \in Frames /\ g \in Frames
    BY <1>1, <1>11 DEF Call, s
  <2>2. Entered(a, <<b>> \o q)
    BY <1>11, <2>1, Calling DEF s
  <2>3. /\ p \in Seq(Frames)
        /\ Open(p, ParenCallers) = openParens + Parenthesised(g)
        /\ Open(p, BraceCallers) = openBraces + Braced(g)
    BY <1>1, <1>2, <1>6, <2>1
  <2> HIDE DEF p
  <2>4. /\ q \in Seq(Frames)
        /\ Open(q, ParenCallers) = openParens + Parenthesised(g) + Parenthesised(d)
        /\ Open(q, BraceCallers) = openBraces + Braced(g) + Braced(d)
    BY <1>6, <2>1, <2>3
  <2> HIDE DEF q
  <2>5. /\ <<b>> \o q \in Seq(Frames)
        /\ Open(<<b>> \o q, ParenCallers)
             = openParens + (Parenthesised(b) + Parenthesised(d) + Parenthesised(g))
        /\ Open(<<b>> \o q, BraceCallers)
             = openBraces + (Braced(b) + Braced(d) + Braced(g))
    BY <1>3, <1>4, <1>6, <2>1, <2>4
  <2> QED BY <1>5, <1>11, <2>2, <2>5
<1> QED BY <1>8, <1>9, <1>10, <1>11

\* The active frame returns to a caller that looks at current first, ...
LEMMA ReturnBalance ==
    ASSUME Inv, stack # <<>>, NEW v, Return(v),
           Yields(Head(stack).at) # "args",
           nesting'.paren = openParens, nesting'.brace = openBraces
    PROVE  BracketsOK'
<1>1. CASE Tail(stack) = <<>>
  BY <1>1 DEF Return, BracketsOK
<1>2. CASE Tail(stack) # <<>>
  <2> DEFINE l == Head(stack').at
  <2>1. /\ stack' = Tail(stack) /\ stack' \in Seq(Frames) /\ stack' # <<>>
        /\ Expects(l) = Yields(Head(stack).at)
    <3>1. Tail(stack) \in Seq(Frames)
      BY DEF Inv, ControlOK, StackOK
    <3> QED BY <1>2, <3>1, Leaving
  <2>2. /\ openParens = openParens' + Count(l \in ParenCallers)
        /\ openBraces = openBraces' + Count(l \in BraceCallers)
    <3>1. \A points : Open(stack', points)
                        = Open(Tail(stack'), points) + Count(l \in points)
      BY <2>1, OpenTail
    <3> QED BY <2>1, <3>1, Zenon DEF openParens, openBraces
  <2>3. openParens' \in Int /\ openBraces' \in Int
    <3>1. Tail(stack') \in Seq(Frames)
      BY <2>1
    <3>2. openParens' \in Nat /\ openBraces' \in Nat
      BY <3>1, OpenNat, Zenon DEF openParens, openBraces
    <3> QED BY <3>2
  <2>4. Expects(l) \notin {"args", "nothing"}
    BY <2>1, Callers
  <2>5. /\ l \notin Passing
        /\ Count(l \in ParenCallers) = Count(l \in ParenHandlers)
        /\ Count(l \in BraceCallers) = Count(l \in BraceHandlers)
    BY <2>4 DEF Expects, Passing, ParenCallers, ParenHandlers, BraceCallers,
                BraceHandlers, Count
  <2>6. Balance(l, current', nesting', openParens', openBraces')
    <3>1. Count(l \in ParenHandlers) \in Int /\ Count(l \in BraceHandlers) \in Int
      BY DEF Count
    <3> HIDE DEF l
    <3> QED BY <2>2, <2>3, <2>5, <3>1 DEF Balance
  <2> QED BY <2>6 DEF BracketsOK
<1> QED BY <1>1, <1>2

\* ... or to funcall(), which skips the `)`.
LEMMA CloseBalance ==
    ASSUME Inv, stack # <<>>, NEW v, Return(v),
           Yields(Head(stack).at) = "args",
           nesting'.paren + Parens(current') + 1 = openParens,
           nesting'.brace + Braces(current') = openBraces,
           nesting'.paren \in Int
    PROVE  BracketsOK'
<1>1. CASE Tail(stack) = <<>>
  BY <1>1 DEF Return, BracketsOK
<1>2. CASE Tail(stack) # <<>>
  <2> DEFINE l == Head(stack').at
  <2>1. /\ stack' = Tail(stack) /\ stack' \in Seq(Frames) /\ stack' # <<>>
        /\ Expects(l) = "args"
    <3>1. Tail(stack) \in Seq(Frames)
      BY DEF Inv, ControlOK, StackOK
    <3> QED BY <1>2, <3>1, Leaving
  <2>2. l = "funcall.close"
    BY <2>1 DEF Expects
  <2>3. openParens = openParens' + 1 /\ openBraces = openBraces' + 0
    <3>1. \A points : Open(stack', points)
                        = Open(Tail(stack'), points) + Count(l \in points)
      BY <2>1, OpenTail
    <3>2. Count(l \in ParenCallers) = 1 /\ Count(l \in BraceCallers) = 0
      BY <2>2 DEF ParenCallers, BraceCallers, Count
    <3>3. /\ openParens = openParens' + Count(l \in ParenCallers)
          /\ openBraces = openBraces' + Count(l \in BraceCallers)
      BY <2>1, <3>1, Zenon DEF openParens, openBraces
    <3> QED BY <3>2, <3>3
  <2>4. openParens' \in Int /\ openBraces' \in Int
    <3>1. Tail(stack') \in Seq(Frames)
      BY <2>1
    <3>2. openParens' \in Nat /\ openBraces' \in Nat
      BY <3>1, OpenNat, Zenon DEF openParens, openBraces
    <3> QED BY <3>2
  <2>5. Balance("funcall.close", current', nesting', openParens', openBraces')
    <3>1. Parens(current') \in Int /\ Braces(current') \in Int
      BY DEF Parens, Braces, Count
    <3> QED BY <2>3, <2>4, <3>1
            DEF Balance, Passing, ParenHandlers, BraceHandlers, Count
  <2> QED BY <2>2, <2>5 DEF BracketsOK
<1> QED BY <1>1, <1>2

\* A failed definition, statement or expression is handed on as NULL.
LEMMA HandedOn ==
    ASSUME Inv, stack # <<>>, Return(NULL),
           Yields(Head(stack).at) \in {"function", "statement", "expression"}
    PROVE  BracketsOK'
<1>1. CASE Tail(stack) = <<>>
  BY <1>1 DEF Return, BracketsOK
<1>2. CASE Tail(stack) # <<>>
  BY <1>2, Leaving DEF BracketsOK, Failing
<1> QED BY <1>1, <1>2

\* A step of a parse in which nothing was or is reported.
Clean ==
    /\ Inv /\ Inv' /\ SlotOK /\ BracketsOK
    /\ ~isError /\ ~complained /\ ~isError' /\ ~complained'

\* What the active handler may conclude from the brackets passed.
LEMMA Standing ==
    ASSUME Clean, stack # <<>>,
           Expects(Head(stack).at) \notin {"function", "statement", "expression"}
             \/ ret # NULL
    PROVE  Balance(Head(stack).at, current, nesting, openParens, openBraces)
BY DEF Clean, BracketsOK, Failing

\* No handler has failed with a message in such a step.
LEMMA Failures == Clean => ~Fail /\ ~Reject
BY DEF Clean, Fail, Reject, error, complain

\* The loop of parse() passes no bracket without reporting it.
LEMMA ParseBrackets ==
    ASSUME Clean, Start \/ ParseEnd \/ ParseFunc \/ ParseDefault \/ ParseDef
    PROVE  BracketsOK'
<1> USE DEF Balance, After, Passing, ParenHandlers, BraceHandlers, Parens, Braces, Count,
            Frame, TypedFrame, NamedFrame
<1>1. CASE Start
  <2>1. PICK t : next(t) /\ Call(<<Frame("parse")>>)
    BY <1>1 DEF Start
  <2>2. stack # <<>> /\ Head(stack).at = "start"
    BY <1>1 DEF Start, At
  <2>3. Balance("start", current, nesting, openParens, openBraces)
    BY <2>2, Standing DEF Expects
  <2>4. After(Frame("parse"), 0, 0)
    BY <2>1, <2>2, <2>3, Numbers DEF Clean
  <2> QED BY <2>1, <2>2, <2>4, CallBalance DEF Clean
<1>2. CASE ParseEnd
  BY <1>2 DEF ParseEnd, Finish, BracketsOK
<1>3. CASE ParseFunc
  <2>1. /\ stack # <<>> /\ Head(stack).at = "parse" /\ current.type = "FUNC"
        /\ UNCHANGED lexed /\ Call(<<Frame("functionDef"), Frame("parse.def")>>)
    BY <1>3 DEF ParseFunc, At
  <2>2. Balance("parse", current, nesting, openParens, openBraces)
    BY <2>1, Standing DEF Expects
  <2>3. Parenthesised(Frame("parse.def")) = 0 /\ Braced(Frame("parse.def")) = 0
    BY DEF Parenthesised, Braced, ParenCallers, BraceCallers
  <2>4. After(Frame("functionDef"), 0, 0)
    BY <2>1, <2>2, Numbers DEF Clean, lexed
  <2> QED BY <2>1, <2>3, <2>4, CallBalance DEF Clean
<1>4. CASE ParseDefault
  BY <1>4 DEF ParseDefault, error, Clean
<1>5. CASE ParseDef /\ ret = NULL
  BY <1>5 DEF ParseDef, Finish, BracketsOK
<1>6. CASE ParseDef /\ ret # NULL
  <2>1. /\ stack # <<>> /\ Head(stack).at = "parse.def"
        /\ UNCHANGED lexed /\ Call(<<Frame("parse")>>)
    BY <1>6 DEF ParseDef, At
  <2>2. Balance("parse.def", current, nesting, openParens, openBraces)
    BY <1>6, <2>1, Standing
  <2>3. After(Frame("parse"), 0, 0)
    BY <2>1, <2>2, Numbers DEF Clean, lexed
  <2> QED BY <2>1, <2>3, CallBalance DEF Clean
<1> QED BY <1>1, <1>2, <1>3, <1>4, <1>5, <1>6

\* The header of a function: its parentheses are those of its parameters.
LEMMA FunctionDefBrackets ==
    ASSUME Clean, FunctionDef \/ FunctionDefName \/ FunctionDefColon \/ FunctionDefType
    PROVE  BracketsOK'
<1> USE DEF Balance, After, Passing, ParenHandlers, BraceHandlers, Parens, Braces, Count
<1>1. \A at, type, name :
        /\ NamedFrame(at, type, name).at = at
        /\ at \notin ParenCallers \cup BraceCallers
             => /\ Parenthesised(NamedFrame(at, type, name)) = 0
                /\ Braced(NamedFrame(at, type, name)) = 0
  BY DEF NamedFrame, Parenthesised, Braced
<1>2. CASE FunctionDef
  <2>1. PICK t : /\ next(t) /\ t.type = "SYMBOL"
                 /\ Call(<<NamedFrame("functionDef.name", NULL, t.lexeme)>>)
    BY <1>2, Failures DEF FunctionDef
  <2>2. stack # <<>> /\ Head(stack).at = "functionDef"
    BY <1>2 DEF FunctionDef, At
  <2>3. Balance("functionDef", current, nesting, openParens, openBraces)
    BY <2>2, Standing DEF Expects
  <2>4. After(NamedFrame("functionDef.name", NULL, t.lexeme), 0, 0)
    BY <1>1, <2>1, <2>2, <2>3, Numbers DEF Clean
  <2> QED BY <2>1, <2>2, <2>4, CallBalance DEF Clean
<1>3. CASE FunctionDefName
  <2> DEFINE colon == NamedFrame("functionDef.colon", NULL, top.name)
             args == Frame("functionArgs")
  <2>1. PICK t : /\ next(t)
                 /\ \/ t.type = "PL" /\ Call(<<args, colon>>)
                    \/ t.type # "PL" /\ Call(<<colon>>)
    BY <1>3 DEF FunctionDefName
  <2>2. stack # <<>> /\ Head(stack).at = "functionDef.name"
    BY <1>3 DEF FunctionDefName, At
  <2>3. Balance("functionDef.name", current, nesting, openParens, openBraces)
    BY <2>2, Standing DEF Expects
  <2>4. /\ args.at = "functionArgs" /\ colon.at = "functionDef.colon"
        /\ Parenthesised(colon) = 0 /\ Braced(colon) = 0
    BY <1>1 DEF Frame, TypedFrame, ParenCallers, BraceCallers
  <2> HIDE DEF args, colon
  <2>5. CASE t.type = "PL" /\ Call(<<args, colon>>)
    <3>1. After(args, 0, 0)
      BY <2>1, <2>2, <2>3, <2>4, <2>5, Numbers DEF Clean
    <3> QED BY <2>2, <2>4, <2>5, <3>1, CallBalance DEF Clean
  <2>6. CASE t.type # "PL" /\ Call(<<colon>>)
    <3>1. After(colon, 0, 0)
      BY <2>1, <2>2, <2>3, <2>4, <2>6, Numbers DEF Clean
    <3> QED BY <2>2, <2>6, <3>1, CallBalance DEF Clean
  <2> QED BY <2>1, <2>5, <2>6
<1>4. CASE FunctionDefColon
  <2>1. PICK t : /\ current.type = "COLON" /\ next(t) /\ t.type = "TYPE"
                 /\ Call(<<NamedFrame("functionDef.type", fromString(t.lexeme),
                                      top.name)>>)
    BY <1>4, Failures DEF FunctionDefColon
  <2> DEFINE a == NamedFrame("functionDef.type", fromString(t.lexeme), top.name)
  <2>2. stack # <<>> /\ Head(stack).at = "functionDef.colon"
    BY <1>4 DEF FunctionDefColon, At
  <2>3. Balance("functionDef.colon", current, nesting, openParens, openBraces)
    BY <2>2, Standing DEF Expects
  <2>4. a.at = "functionDef.type" /\ Call(<<a>>)
    BY <1>1, <2>1
  <2> HIDE DEF a
  <2>5. After(a, 0, 0)
    BY <2>1, <2>2, <2>3, <2>4, Numbers DEF Clean
  <2> QED BY <2>2, <2>4, <2>5, CallBalance DEF Clean
<1>5. CASE FunctionDefType
  <2> DEFINE a == Frame("statement")
             b == NamedFrame("functionDef.body", NULL, top.name)
  <2>1. PICK t : next(t) /\ Call(<<a, b>>)
    BY <1>5 DEF FunctionDefType
  <2>2. stack # <<>> /\ Head(stack).at = "functionDef.type"
    BY <1>5 DEF FunctionDefType, At
  <2>3. Balance("functionDef.type", current, nesting, openParens, openBraces)
    BY <2>2, Standing DEF Expects
  <2>4. a.at = "statement" /\ Parenthesised(b) = 0 /\ Braced(b) = 0
    BY <1>1 DEF Frame, TypedFrame, ParenCallers, BraceCallers
  <2> HIDE DEF a, b
  <2>5. After(a, 0, 0)
    BY <2>1, <2>2, <2>3, <2>4, Numbers DEF Clean
  <2> QED BY <2>1, <2>2, <2>4, <2>5, CallBalance DEF Clean
<1> QED BY <1>2, <1>3, <1>4, <1>5

\* The body has closed what it opened.
LEMMA FunctionDefBodyBrackets ==
    ASSUME Clean, FunctionDefBody
    PROVE  BracketsOK'
<1>1. /\ stack # <<>> /\ Head(stack).at = "functionDef.body" /\ UNCHANGED lexed
      /\ Return(IF ret = NULL THEN NULL ELSE top.name)
      /\ Yields(Head(stack).at) = "function"
  BY DEF FunctionDefBody, At, Yields
<1>2. CASE ret = NULL
  BY <1>1, <1>2, HandedOn DEF Clean
<1>3. CASE ret # NULL
  <2>1. Balance("functionDef.body", current, nesting, openParens, openBraces)
    BY <1>1, <1>3, Standing
  <2>2. nesting'.paren = openParens /\ nesting'.brace = openBraces
    BY <1>1, <2>1, Numbers
       DEF Clean, lexed, Balance, Passing, ParenHandlers, BraceHandlers, Count
  <2>3. PICK v : Return(v)
    BY <1>1
  <2> QED BY <1>1, <2>2, <2>3, ReturnBalance DEF Clean
<1> QED BY <1>2, <1>3

\* A parameter list holds its `(` open until its `)` is read past.
LEMMA FunctionArgsBrackets ==
    ASSUME Clean,
           FunctionArgs \/ FunctionArgsVar \/ FunctionArgsSep \/ FunctionArgsEnd
    PROVE  BracketsOK'
<1> USE DEF Balance, After, Passing, ParenHandlers, BraceHandlers, Parens, Braces, Count
<1>1. \A at, type : TypedFrame(at, type).at = at /\ Frame(at).at = at
  BY DEF Frame, TypedFrame, NamedFrame
<1>2. PICK t : next(t)
  BY DEF FunctionArgs, FunctionArgsVar, FunctionArgsSep, FunctionArgsEnd
<1>3. /\ stack # <<>>
      /\ Head(stack).at \in {"functionArgs", "functionArgs.var", "functionArgs.sep",
                             "functionArgs.end"}
  BY DEF FunctionArgs, FunctionArgsVar, FunctionArgsSep, FunctionArgsEnd, At
<1>4. Balance(Head(stack).at, current, nesting, openParens, openBraces)
  BY <1>3, Standing DEF Expects
<1>5. CASE FunctionArgsEnd
  <2>1. Head(stack).at = "functionArgs.end" /\ Return(NULL)
        /\ Yields(Head(stack).at) # "args"
    BY <1>5 DEF FunctionArgsEnd, At, Yields
  <2>2. nesting'.paren = openParens /\ nesting'.brace = openBraces
    BY <1>2, <1>3, <1>4, <2>1, Numbers DEF Clean
  <2> QED BY <1>3, <2>1, <2>2, ReturnBalance DEF Clean
<1>6. ASSUME Head(stack).at # "functionArgs.end", NEW u, next(u), NEW a, Call(<<a>>),
             \/ u.type = "PR" /\ a.at = "functionArgs.end"
             \/ /\ u.type \notin {"PR", "PL", "BL", "BR"}
                /\ a.at \in {"functionArgs", "functionArgs.var", "functionArgs.sep"}
      PROVE  BracketsOK'
  <2>1. /\ nesting'.paren = openParens + 1 /\ nesting'.brace = openBraces
        /\ current' = u
    BY <1>3, <1>4, <1>6, Numbers DEF Clean
  <2>2. openParens \in Int /\ openBraces \in Int
    BY <1>3, Numbers DEF Clean
  <2>3. CASE u.type = "PR" /\ a.at = "functionArgs.end"
    <3>1. After(a, 0, 0)
      BY <2>1, <2>2, <2>3
    <3> QED BY <1>3, <1>6, <3>1, CallBalance DEF Clean
  <2>4. CASE u.type \notin {"PR", "PL", "BL", "BR"}
             /\ a.at \in {"functionArgs", "functionArgs.var", "functionArgs.sep"}
    <3>1. After(a, 0, 0)
      BY <2>1, <2>2, <2>4
    <3> QED BY <1>3, <1>6, <3>1, CallBalance DEF Clean
  <2> QED BY <1>6, <2>3, <2>4
<1>7. CASE FunctionArgs
  BY <1>1, <1>6, <1>7, Failures DEF FunctionArgs, At
<1>8. CASE FunctionArgsVar
  BY <1>1, <1>6, <1>8, Failures DEF FunctionArgsVar, At
<1>9. CASE FunctionArgsSep
  BY <1>1, <1>6, <1>9, Failures DEF FunctionArgsSep, At
<1> QED BY <1>5, <1>7, <1>8, <1>9

\* A statement reads past nothing but its first token, which may be `{`.
LEMMA StatementStarts ==
    ASSUME Clean,
           StatementNone \/ StatementNested \/ StatementSimple \/ StatementSymbol
    PROVE  BracketsOK'
<1> USE DEF Balance, After, Passing, ParenHandlers, BraceHandlers, Parens, Braces, Count
<1>1. /\ stack # <<>> /\ Head(stack).at = "statement"
      /\ Yields(Head(stack).at) = "statement"
  BY DEF StatementNone, StatementNested, StatementSimple, StatementSymbol, At, Yields
<1>2. Balance("statement", current, nesting, openParens, openBraces)
  BY <1>1, Standing DEF Expects
<1>3. \A at : /\ Frame(at).at = at
              /\ at \notin ParenCallers \cup BraceCallers
                   => Parenthesised(Frame(at)) = 0 /\ Braced(Frame(at)) = 0
  BY DEF Frame, TypedFrame, NamedFrame, Parenthesised, Braced
<1>4. openParens \in Int /\ openBraces \in Int
      /\ nesting.paren = openParens /\ nesting.brace = openBraces
  BY <1>1, <1>2, Numbers DEF Clean
<1>5. CASE StatementNone
  BY <1>1, <1>5, HandedOn, Failures DEF Clean, StatementNone, GiveUp
<1>6. CASE StatementNested
  <2>1. PICK t : next(t)
    BY <1>6 DEF StatementNested
  <2>2. /\ current' = t /\ nesting'.paren = nesting.paren + Parens(current)
        /\ nesting'.brace = nesting.brace + Braces(current)
    BY <1>1, <2>1, Numbers DEF Clean
  <2>3. CASE current.type = "BL" /\ Call(<<Frame("blockStatement")>>)
    <3>1. After(Frame("blockStatement"), 0, 0)
      BY <1>3, <1>4, <2>2, <2>3
    <3> QED BY <1>1, <2>3, <3>1, CallBalance DEF Clean
  <2>4. CASE /\ current.type = "DO"
             /\ Call(<<Frame("statement"), Frame("doWhileStmt.body")>>)
    <3>1. After(Frame("statement"), 0, 0)
      BY <1>3, <1>4, <2>2, <2>4
    <3>2. Parenthesised(Frame("doWhileStmt.body")) = 0
          /\ Braced(Frame("doWhileStmt.body")) = 0
      BY <1>3 DEF ParenCallers, BraceCallers
    <3> QED BY <1>1, <2>4, <3>1, <3>2, CallBalance DEF Clean
  <2> QED BY <1>6, <2>3, <2>4 DEF StatementNested
<1>7. ASSUME current' = current, nesting' = nesting,
             current.type \notin {"PL", "PR", "BL", "BR"},
             NEW at \in {"expression", "declaration", "funcall", "assignment"}
      PROVE  After(Frame(at), 0, 0)
  BY <1>3, <1>4, <1>7
<1>8. \A at \in {"semicolon", "ret", "ioPrint", "_funcall", "ifStatement.cond",
                "whileStmt.cond"} :
        Parenthesised(Frame(at)) = 0 /\ Braced(Frame(at)) = 0
  BY <1>3 DEF ParenCallers, BraceCallers
<1>9. \A a, b : /\ Call(<<a, b>>) /\ After(a, 0, 0)
                /\ Parenthesised(b) = 0 /\ Braced(b) = 0
                => BracketsOK'
  BY <1>1, CallBalance DEF Clean
<1>10. \A a, b, d : /\ Call(<<a, b, d>>) /\ After(a, 0, 0)
                   /\ Parenthesised(b) = 0 /\ Braced(b) = 0
                   /\ Parenthesised(d) = 0 /\ Braced(d) = 0
                   => BracketsOK'
  BY <1>1, CallBalance DEF Clean
<1> HIDE DEF After
<1>11. CASE StatementSimple
  <2>1. /\ current' = current /\ nesting' = nesting
        /\ current.type \notin {"PL", "PR", "BL", "BR"}
    BY <1>11 DEF StatementSimple, lexed
  <2>2. After(Frame("expression"), 0, 0) /\ After(Frame("declaration"), 0, 0)
    BY <2>1, <1>7
  <2> QED BY <1>8, <1>9, <1>10, <1>11, <2>2 DEF StatementSimple
<1>12. CASE StatementSymbol
  <2>1. PICK t : peek(t)
    BY <1>12 DEF StatementSymbol
  <2>2. /\ current' = current /\ nesting' = nesting
        /\ current.type \notin {"PL", "PR", "BL", "BR"}
    BY <1>12, <2>1 DEF StatementSymbol, peek
  <2>3. After(Frame("funcall"), 0, 0) /\ After(Frame("assignment"), 0, 0)
    BY <2>2, <1>7
  <2> QED BY <1>8, <1>9, <1>10, <1>12, <2>3 DEF StatementSymbol
<1> QED BY <1>5, <1>6, <1>11, <1>12

\* Most handlers open no bracket and read past none: the brackets passed stay
\* those of their callers.
Weightless(c) == c.type \notin {"PL", "PR", "BL", "BR"}
Handlers == ParenHandlers \cup BraceHandlers
Given ==
    Expects(Head(stack).at) \notin {"function", "statement", "expression"} \/ ret # NULL
Settled == nesting'.paren = openParens /\ nesting'.brace = openBraces
Closed(f) == f.at \notin ParenCallers \cup BraceCallers

\* The token, if any, that the step has gone past.
Stays == (UNCHANGED lexed \/ \E t : peek(t))
         /\ (Head(stack).at \in Passing => Weightless(current))
Proceeds == (\E t : next(t)) /\ (Head(stack).at \in Passing \/ Weightless(current))

\* Such a handler leaves with the brackets of its callers, ...
LEMMA Departing ==
    ASSUME Clean, stack # <<>>, Given, Head(stack).at \notin Handlers, Stays \/ Proceeds
    PROVE  Settled
<1>1. Balance(Head(stack).at, current, nesting, openParens, openBraces)
  BY Standing DEF Given
<1>2. /\ Count(Head(stack).at \in ParenHandlers) = 0
      /\ Count(Head(stack).at \in BraceHandlers) = 0
  BY DEF Handlers, Count
<1>3. Weightless(current) => Parens(current) = 0 /\ Braces(current) = 0
  BY DEF Weightless, Parens, Braces, Count
<1>4. CASE Stays
  <2>1. nesting' = nesting
    BY <1>4 DEF Stays, lexed, peek
  <2> QED BY <1>1, <1>2, <1>3, <1>4, <2>1, Numbers DEF Clean, Balance, Stays, Settled
<1>5. CASE Proceeds
  <2>1. /\ nesting'.paren = nesting.paren + Parens(current)
        /\ nesting'.brace = nesting.brace + Braces(current)
    BY <1>5, Numbers DEF Clean, Proceeds
  <2> QED BY <1>1, <1>2, <1>3, <1>5, <2>1, Numbers DEF Clean, Balance, Proceeds, Settled
<1> QED BY <1>4, <1>5

\* ... and its callees may begin with them.
LEMMA Arriving ==
    ASSUME Clean, stack # <<>>, Settled
    PROVE  /\ \A a : /\ a.at \notin Handlers
                     /\ a.at \in Passing => Weightless(current')
                     => After(a, 0, 0)
           /\ \A f : Closed(f) => Parenthesised(f) = 0 /\ Braced(f) = 0
<1>1. openParens \in Int /\ openBraces \in Int
  BY Numbers DEF Clean
<1>2. Weightless(current') => Parens(current') = 0 /\ Braces(current') = 0
  BY DEF Weightless, Parens, Braces, Count
<1> QED BY <1>1, <1>2
        DEF After, Balance, Handlers, Count, Settled, Closed, Parenthesised, Braced

\* So for a call, ...
Opens(a) == a.at \notin Handlers /\ (a.at \in Passing => Weightless(current'))

LEMMA PlainCalls ==
    ASSUME Clean, stack # <<>>, Given, Head(stack).at \notin Handlers, Stays \/ Proceeds
    PROVE  /\ \A a : Call(<<a>>) /\ Opens(a) => BracketsOK'
           /\ \A a, b : Call(<<a, b>>) /\ Opens(a) /\ Closed(b) => BracketsOK'
           /\ \A a, b, d : Call(<<a, b, d>>) /\ Opens(a) /\ Closed(b) /\ Closed(d)
                => BracketsOK'
           /\ \A a, b, d, g : Call(<<a, b, d, g>>) /\ Opens(a)
                              /\ Closed(b) /\ Closed(d) /\ Closed(g) => BracketsOK'
<1>1. Settled
  BY Departing
<1>2. /\ \A a : Opens(a) => After(a, 0, 0)
      /\ \A f : Closed(f) => Parenthesised(f) = 0 /\ Braced(f) = 0
  BY <1>1, Arriving DEF Opens
<1> QED BY <1>2, CallBalance DEF Clean

\* ... and for a return.
LEMMA PlainReturns ==
    ASSUME Clean, stack # <<>>, NEW v, Return(v),
           Yields(Head(stack).at) \in {"function", "statement", "expression"},
           Head(stack).at \notin Handlers,
           (Given /\ (Stays \/ Proceeds)) \/ v = NULL
    PROVE  BracketsOK'
<1>1. CASE v = NULL
  BY <1>1, HandedOn DEF Clean
<1>2. CASE Given /\ (Stays \/ Proceeds)
  BY <1>2, Departing, ReturnBalance DEF Clean, Settled
<1> QED BY <1>1, <1>2

\* The points that the constructors of frames are given.
LEMMA FrameLabels ==
    /\ \A at, type, name : NamedFrame(at, type, name).at = at
    /\ \A at, type : TypedFrame(at, type).at = at
    /\ \A at : Frame(at).at = at
    /\ \A i, j : Level(i, j).at = "level"
    /\ \A i, type : LevelRhs(i, type).at = "level.rhs"
BY DEF NamedFrame, TypedFrame, Frame, Level, LevelRhs

\* What follows an expression or a statement inside a statement.
LEMMA StatementEnds ==
    ASSUME Clean, Semicolon \/ WrapExpression \/ IfWhileCond \/ IfTrue \/ DoWhile
    PROVE  BracketsOK'
<1> DEFINE points == {"semicolon", "ret", "ioPrint", "_funcall", "ifStatement.cond",
                      "whileStmt.cond", "ifStatement.true", "doWhileStmt.body",
                      "doWhileStmt.cond"}
<1>1. stack # <<>> /\ Head(stack).at \in points
  BY DEF Semicolon, WrapExpression, IfWhileCond, IfTrue, DoWhile, At
<1>2. /\ Yields(Head(stack).at) = "statement"
      /\ Head(stack).at \notin Handlers \cup Passing
  BY <1>1 DEF Yields, Handlers, ParenHandlers, BraceHandlers, Passing
<1>3. Stays \/ Proceeds
  <2> USE <1>2 DEF Stays, Proceeds
  <2>1. CASE Semicolon
    BY <2>1 DEF Semicolon, Weightless
  <2>2. CASE WrapExpression \/ IfWhileCond \/ DoWhile
    BY <2>2 DEF WrapExpression, IfWhileCond, DoWhile
  <2>3. CASE IfTrue
    BY <2>3 DEF IfTrue, Weightless
  <2> QED BY <2>1, <2>2, <2>3
<1>4. /\ \A v : Return(v) /\ (v = NULL \/ Given) => BracketsOK'
      /\ \A a : Call(<<a>>) /\ Given /\ Opens(a) => BracketsOK'
      /\ \A a, b : Call(<<a, b>>) /\ Given /\ Opens(a) /\ Closed(b) => BracketsOK'
  BY <1>1, <1>2, <1>3, PlainReturns, PlainCalls
<1>5. ret # NULL => Given
  BY DEF Given
<1>6. /\ Opens(Frame("statement"))
      /\ Closed(Frame("ifStatement.true")) /\ Closed(Frame("doWhileStmt.cond"))
  BY FrameLabels DEF Opens, Closed, Handlers, ParenHandlers, BraceHandlers, Passing,
                     ParenCallers, BraceCallers
<1>7. "BOOL" # NULL
  BY DEF NULL
<1>8. CASE Semicolon
  BY <1>4, <1>5, <1>8 DEF Semicolon
<1>9. CASE WrapExpression
  BY <1>4, <1>5, <1>9, Failures DEF WrapExpression, GiveUp
<1>10. CASE IfWhileCond
  BY <1>4, <1>5, <1>6, <1>7, <1>10, Failures DEF IfWhileCond, BadCondition, GiveUp
<1>11. CASE IfTrue
  BY <1>4, <1>5, <1>6, <1>11 DEF IfTrue, GiveUp
<1>12. CASE DoWhile
  <2>1. ASSUME ret # NULL, current.type = "WHILE", UNCHANGED lexed,
               Call(<<Frame("expression"), Frame("doWhileStmt.cond")>>)
        PROVE  BracketsOK'
    <3>1. Opens(Frame("expression"))
      BY <2>1, FrameLabels
         DEF Opens, Handlers, ParenHandlers, BraceHandlers, Weightless, lexed
    <3> QED BY <1>4, <1>5, <1>6, <2>1, <3>1
  <2> QED BY <1>4, <1>5, <1>7, <1>12, <2>1, Failures DEF DoWhile, BadCondition, GiveUp
<1> QED BY <1>8, <1>9, <1>10, <1>11, <1>12

\* Assignments and declarations.
LEMMA AssignmentBrackets ==
    ASSUME Clean,
           Assignment \/ AssignmentRhs \/ Declaration \/ DeclarationName \/ DeclarationRhs
    PROVE  BracketsOK'
<1>1. /\ stack # <<>>
      /\ Head(stack).at \in {"assignment", "assignment.rhs", "declaration",
                             "declaration.name", "declaration.rhs"}
  BY DEF Assignment, AssignmentRhs, Declaration, DeclarationName, DeclarationRhs, At
<1>2. /\ Yields(Head(stack).at) = "statement" /\ Head(stack).at \notin Handlers
  BY <1>1 DEF Yields, Handlers, ParenHandlers, BraceHandlers
<1>3. CASE AssignmentRhs \/ DeclarationRhs
  <2>1. /\ Head(stack).at \notin Passing /\ UNCHANGED lexed
        /\ ret # NULL /\ Return("Statement")
    BY <1>3, Failures DEF AssignmentRhs, DeclarationRhs, At, Passing
  <2>2. Given /\ Stays
    BY <2>1 DEF Given, Stays
  <2> QED BY <1>1, <1>2, <2>1, <2>2, PlainReturns
<1>4. CASE Assignment \/ Declaration \/ DeclarationName
  <2> DEFINE names == {"declaration.name", "assignment.rhs", "declaration.rhs"}
  <2>1. Given /\ Head(stack).at \in Passing
    BY <1>4 DEF Assignment, Declaration, DeclarationName, At, Given, Expects, Passing
  <2>2. \A f : f.at \in names => Closed(f) /\ f.at \notin Handlers
    BY DEF Closed, Handlers, ParenHandlers, BraceHandlers, ParenCallers, BraceCallers
  <2>3. ASSUME NEW t, next(t), t.type = "SYMBOL", NEW a, a.at \in names, Call(<<a>>)
        PROVE  BracketsOK'
    <3>1. Proceeds
      BY <2>1, <2>3 DEF Proceeds
    <3>2. Opens(a)
      BY <2>2, <2>3 DEF Opens, Weightless, next
    <3> QED BY <1>1, <1>2, <2>1, <2>3, <3>1, <3>2, PlainCalls
  <2>4. ASSUME NEW t, next(t), t.type = "ASSIGN", NEW b, b.at \in names,
               Call(<<Frame("expression"), b>>)
        PROVE  BracketsOK'
    <3>1. Proceeds
      BY <2>1, <2>4 DEF Proceeds
    <3>2. current' = t
      BY <2>4 DEF next
    <3>3. Opens(Frame("expression"))
      BY <2>4, <3>2, FrameLabels
         DEF Opens, Handlers, ParenHandlers, BraceHandlers, Weightless
    <3> QED BY <1>1, <1>2, <2>1, <2>2, <2>4, <3>1, <3>3, PlainCalls
  <2>5. CASE Assignment
    <3> DEFINE f == TypedFrame("assignment.rhs", scope[current.lexeme])
    <3>1. PICK t : next(t) /\ t.type = "ASSIGN" /\ Call(<<Frame("expression"), f>>)
      BY <2>5, Failures DEF Assignment
    <3>2. f.at \in names
      BY FrameLabels
    <3> QED BY <2>4, <3>1, <3>2
  <2>6. CASE Declaration
    <3>1. PICK t : /\ next(t) /\ t.type = "SYMBOL"
                   /\ Call(<<NamedFrame("declaration.name",
                                       fromString(current.lexeme), t.lexeme)>>)
      BY <2>6, Failures DEF Declaration
    <3> DEFINE f == NamedFrame("declaration.name", fromString(current.lexeme), t.lexeme)
    <3>2. f.at \in names
      BY FrameLabels
    <3> QED BY <2>3, <3>1, <3>2
  <2>7. CASE DeclarationName
    <3> DEFINE f == NamedFrame("declaration.rhs", top.type, top.name)
    <3>1. PICK t : next(t) /\ t.type = "ASSIGN" /\ Call(<<Frame("expression"), f>>)
      BY <2>7, Failures DEF DeclarationName
    <3>2. f.at \in names
      BY FrameLabels
    <3> QED BY <2>4, <3>1, <3>2
  <2> QED BY <1>4, <2>5, <2>6, <2>7
<1> QED BY <1>3, <1>4

\* blockStatement() holds its `{` open from its first token to its `}`.
LEMMA BlockBrackets ==
    ASSUME Clean, BlockStatement \/ BlockStatementStmt
    PROVE  BracketsOK'
<1> USE DEF Balance, After, Passing, ParenHandlers, BraceHandlers, Parens, Braces, Count
<1>1. /\ stack # <<>> /\ Head(stack).at \in {"blockStatement", "blockStatement.stmt"}
      /\ Yields(Head(stack).at) = "statement"
  BY DEF BlockStatement, BlockStatementStmt, At, Yields
<1>2. openParens \in Int /\ openBraces \in Int
  BY <1>1, Numbers DEF Clean
<1>3. CASE BlockStatementStmt /\ ret = NULL
  BY <1>1, <1>3, HandedOn DEF Clean, BlockStatementStmt
<1>4. CASE BlockStatement \/ ret # NULL
  <2>1. Balance(Head(stack).at, current, nesting, openParens, openBraces)
    <3>1. CASE BlockStatement
      BY <1>1, <3>1, Standing DEF BlockStatement, At, Expects
    <3>2. CASE ret # NULL
      BY <1>1, <3>2, Standing
    <3> QED BY <1>4, <3>1, <3>2
  <2>2. nesting.paren = openParens /\ nesting.brace = openBraces + 1
    <3>1. /\ Head(stack).at \notin Passing
          /\ Count(Head(stack).at \in ParenHandlers) = 0
          /\ Count(Head(stack).at \in BraceHandlers) = 1
      BY <1>1
    <3>2. nesting.paren \in Int /\ nesting.brace \in Int
      BY <1>1, Numbers DEF Clean
    <3> HIDE DEF Count
    <3> QED BY <1>2, <2>1, <3>1, <3>2
  <2>3. CASE BlockStatementStmt
    <3>1. Call(<<Frame("blockStatement")>>) /\ UNCHANGED lexed
      BY <1>3, <1>4, <2>3 DEF BlockStatementStmt, BlockStatement, At
    <3>2. After(Frame("blockStatement"), 0, 0)
      BY <1>2, <2>2, <3>1, FrameLabels DEF lexed
    <3> QED BY <1>1, <3>1, <3>2, CallBalance DEF Clean
  <2>4. CASE BlockStatement /\ current.type = "BR"
    <3>1. PICK t : next(t)
      BY <2>4, Failures DEF BlockStatement
    <3>2. Return("Statement")
      BY <2>4, Failures DEF BlockStatement
    <3>3. Settled
      BY <1>1, <1>2, <2>2, <2>4, <3>1, Numbers DEF Clean, Settled
    <3> QED BY <1>1, <3>2, <3>3, ReturnBalance DEF Clean, Settled
  <2>5. CASE BlockStatement /\ current.type # "BR"
    <3> DEFINE a == Frame("statement")
               b == Frame("blockStatement.stmt")
    <3>1. Call(<<a, b>>) /\ UNCHANGED lexed
      BY <2>5, Failures DEF BlockStatement
    <3>2. a.at = "statement" /\ Parenthesised(b) = 0 /\ Braced(b) = 1
      BY FrameLabels DEF Parenthesised, Braced, ParenCallers, BraceCallers
    <3> HIDE DEF a, b
    <3>3. After(a, 0, 1)
      BY <1>2, <2>2, <3>1, <3>2 DEF lexed
    <3> QED BY <1>1, <3>1, <3>2, <3>3, CallBalance DEF Clean
  <2> QED BY <2>3, <2>4, <2>5
<1> QED BY <1>3, <1>4

\* Expressions outside parentheses and calls.
LEMMA OperandBrackets ==
    ASSUME Clean,
           \/ Expression \/ BinaryLevel \/ BinaryRhs \/ UnaryOperand
           \/ FactorSymbol \/ Constant \/ Var
           \/ UnaryNested /\ current.type # "PL"
    PROVE  BracketsOK'
<1> DEFINE points == {"expression", "level", "level.rhs", "unary", "unary.NOT",
                      "unary.ADD", "var"}
<1>1. stack # <<>> /\ Head(stack).at \in points
  BY DEF Expression, BinaryLevel, BinaryRhs, UnaryOperand, FactorSymbol, Constant, Var,
         UnaryNested, At
<1>2. Yields(Head(stack).at) = "expression" /\ Head(stack).at \notin Handlers
  BY <1>1 DEF Yields, Handlers, ParenHandlers, BraceHandlers
<1>3. Head(stack).at \in {"expression", "unary", "var"} \/ ret # NULL => Given
  BY DEF Given, Expects
<1>4. \A v : Return(v) /\ (v = NULL \/ (Given /\ (Stays \/ Proceeds))) => BracketsOK'
  BY <1>1, <1>2, PlainReturns
<1>5. Given /\ (Stays \/ Proceeds) =>
        /\ \A a : Call(<<a>>) /\ Opens(a) => BracketsOK'
        /\ \A a, b : Call(<<a, b>>) /\ Opens(a) /\ Closed(b) => BracketsOK'
        /\ \A a, b, d, g : Call(<<a, b, d, g>>) /\ Opens(a)
                           /\ Closed(b) /\ Closed(d) /\ Closed(g) => BracketsOK'
  BY <1>1, <1>2, PlainCalls
<1>6. /\ Opens(Frame("unary"))
      /\ Closed(Frame("unary.NOT")) /\ Closed(Frame("unary.ADD"))
      /\ \A i, j : Closed(Level(i, j))
      /\ \A i, type : Closed(LevelRhs(i, type))
  BY FrameLabels DEF Opens, Closed, Handlers, ParenHandlers, BraceHandlers, Passing,
                     ParenCallers, BraceCallers
<1>7. /\ Head(stack).at \in {"level", "level.rhs", "unary", "unary.NOT", "unary.ADD"}
           => Head(stack).at \notin Passing
      /\ Head(stack).at \in {"expression", "var"} => Head(stack).at \in Passing
  BY DEF Passing
<1>8. CASE Expression
  <2>1. Head(stack).at = "expression"
    BY <1>8 DEF Expression, At
  <2>2. PICK t : next(t) /\ Call(<<Frame("unary"), Level(1, 6)>>)
    BY <1>8, Failures DEF Expression
  <2>3. Given /\ Proceeds
    BY <1>3, <1>7, <2>1, <2>2 DEF Proceeds
  <2> QED BY <1>5, <1>6, <2>2, <2>3
<1>9. CASE BinaryLevel
  <2>1. Head(stack).at = "level"
    BY <1>9 DEF BinaryLevel, At
  <2>2. ASSUME NEW i \in top.lo..top.hi, ret # NULL, current.type = Operator[i],
               NEW t, next(t),
               Call(<<Frame("unary"), Level(i, 6), LevelRhs(i, ret),
                      Level(top.lo, i - 1)>>)
        PROVE  BracketsOK'
    <3>1. i \in 1..6
      BY <1>1, <2>1, <2>2, TopFacts DEF Clean, FrameOK, Frames, top
    <3>2. Weightless(current)
      BY <2>2, <3>1 DEF Operator, Weightless
    <3>3. Given /\ Proceeds
      BY <1>3, <2>2, <3>2 DEF Proceeds
    <3> QED BY <1>5, <1>6, <2>2, <3>3
  <2>3. CASE Return(ret) /\ UNCHANGED lexed
    BY <1>3, <1>4, <1>7, <2>1, <2>3 DEF Stays
  <2> QED BY <1>9, <2>2, <2>3 DEF BinaryLevel
<1>10. CASE BinaryRhs \/ UnaryOperand
  <2>1. Stays
    BY <1>7, <1>10 DEF BinaryRhs, UnaryOperand, At, Stays
  <2>2. ret # NULL /\ \E v : Return(v)
    <3>1. CASE BinaryRhs
      BY <3>1, Failures DEF BinaryRhs
    <3>2. CASE UnaryOperand
      BY <3>2, Failures DEF UnaryOperand, NULL
    <3> QED BY <1>10, <3>1, <3>2
  <2> QED BY <1>3, <1>4, <2>1, <2>2
<1>11. CASE FactorSymbol
  <2>1. Head(stack).at = "unary" /\ current.type = "SYMBOL"
    BY <1>11 DEF FactorSymbol, At
  <2>2. PICK t : peek(t) /\ Call(<<Frame(IF t.type = "PL" THEN "funcall" ELSE "var")>>)
    BY <1>11 DEF FactorSymbol
  <2> DEFINE a == Frame(IF t.type = "PL" THEN "funcall" ELSE "var")
  <2>3. a.at \in {"funcall", "var"} /\ current' = current
    BY <2>2, FrameLabels DEF peek
  <2>4. Given /\ Stays /\ Opens(a)
    BY <1>3, <1>7, <2>1, <2>2, <2>3
       DEF Stays, Opens, Weightless, Handlers, ParenHandlers, BraceHandlers
  <2> QED BY <1>5, <2>2, <2>4
<1>12. CASE Constant
  <2>1. Head(stack).at = "unary"
    BY <1>12 DEF Constant, At
  <2>2. CASE GiveUp
    <3>1. Return(NULL)
      BY <2>2 DEF GiveUp
    <3> QED BY <1>1, <1>2, <3>1, HandedOn DEF Clean
  <2>3. CASE ~GiveUp
    <3>1. PICK t : /\ current.type \in {"BOOL", "INTEGER", "FLOAT"} /\ next(t)
                   /\ Return(current.type)
      BY <1>12, <2>3, Failures DEF Constant
    <3>2. Given /\ Proceeds
      BY <1>3, <2>1, <3>1 DEF Proceeds, Weightless
    <3> QED BY <1>4, <3>1, <3>2
  <2> QED BY <2>2, <2>3
<1>13. CASE Var
  <2>1. Head(stack).at = "var"
    BY <1>13 DEF Var, At
  <2>2. PICK t : next(t)
    BY <1>13 DEF Var
  <2>3. PICK v : Return(v)
    BY <1>13 DEF Var
  <2>4. Given /\ Proceeds
    BY <1>3, <1>7, <2>1, <2>2 DEF Proceeds
  <2> QED BY <1>4, <2>3, <2>4
<1>14. CASE UnaryNested /\ current.type # "PL"
  <2>1. Head(stack).at = "unary" /\ Weightless(current)
    BY <1>14 DEF UnaryNested, At, Weightless
  <2>2. PICK t : next(t)
    BY <1>14 DEF UnaryNested
  <2>3. \/ Call(<<Frame("unary"), Frame("unary.NOT")>>)
        \/ Call(<<Frame("unary"), Frame("unary.ADD")>>)
    BY <1>14 DEF UnaryNested
  <2>4. Given /\ Proceeds
    BY <1>3, <2>1, <2>2 DEF Proceeds
  <2> QED BY <1>5, <1>6, <2>3, <2>4
<1> QED BY <1>8, <1>9, <1>10, <1>11, <1>12, <1>13, <1>14

\* factor() holds its `(` open while the expression inside is parsed.
LEMMA ParenthesisBrackets ==
    ASSUME Clean, (UnaryNested /\ current.type = "PL") \/ FactorParen
    PROVE  BracketsOK'
<1> USE DEF Balance, After, Passing, ParenHandlers, BraceHandlers, Parens, Braces, Count
<1>1. stack # <<>> /\ Yields(Head(stack).at) = "expression"
  BY DEF UnaryNested, FactorParen, At, Yields
<1>2. openParens \in Int /\ openBraces \in Int
  BY <1>1, Numbers DEF Clean
<1>3. CASE UnaryNested /\ current.type = "PL"
  <2> DEFINE a == Frame("unary")
             b == Level(1, 6)
             d == Frame("factor.paren")
  <2>1. Head(stack).at = "unary" /\ Call(<<a, b, d>>)
    BY <1>3 DEF UnaryNested, At
  <2>2. PICK t : next(t)
    BY <1>3 DEF UnaryNested
  <2>3. Balance("unary", current, nesting, openParens, openBraces)
    BY <1>1, <2>1, Standing DEF Expects
  <2>4. nesting'.paren = openParens + 1 /\ nesting'.brace = openBraces
    BY <1>1, <1>2, <1>3, <2>2, <2>3, Numbers DEF Clean
  <2>5. /\ a.at = "unary"
        /\ Parenthesised(b) = 0 /\ Braced(b) = 0
        /\ Parenthesised(d) = 1 /\ Braced(d) = 0
    BY FrameLabels DEF Parenthesised, Braced, ParenCallers, BraceCallers
  <2> HIDE DEF a, b, d
  <2>6. After(a, Parenthesised(b) + Parenthesised(d), Braced(b) + Braced(d))
    BY <1>2, <2>4, <2>5
  <2> QED BY <1>1, <2>1, <2>6, CallBalance DEF Clean
<1>4. CASE FactorParen
  <2>1. Head(stack).at = "factor.paren" /\ current.type = "PR" /\ Return(ret)
    BY <1>4, Failures DEF FactorParen, At
  <2>2. PICK t : next(t)
    BY <1>4, Failures DEF FactorParen
  <2>3. CASE ret = NULL
    BY <1>1, <2>1, <2>3, HandedOn DEF Clean
  <2>4. CASE ret # NULL
    <3>1. Balance("factor.paren", current, nesting, openParens, openBraces)
      BY <1>1, <2>1, <2>4, Standing
    <3>2. Settled
      BY <1>1, <1>2, <2>1, <2>2, <3>1, Numbers DEF Clean, Settled
    <3> QED BY <1>1, <2>1, <3>2, ReturnBalance DEF Clean, Settled
  <2> QED BY <2>3, <2>4
<1> QED BY <1>3, <1>4

\* A call: funcall() was entered because a `(` is pushed back, funcallArgs()
\* stops at the `)`, and funcall() skips it.
LEMMA CallBrackets ==
    ASSUME Clean, Funcall \/ FuncallArgs \/ FuncallArgsArg \/ FuncallClose
    PROVE  BracketsOK'
<1> USE DEF Balance, After, Passing, ParenHandlers, BraceHandlers, Parens, Braces, Count
<1>1. stack # <<>>
  BY DEF Funcall, FuncallArgs, FuncallArgsArg, FuncallClose, At
<1>2. openParens \in Int /\ openBraces \in Int
      /\ nesting.paren \in Int /\ nesting.brace \in Int
  BY <1>1, Numbers DEF Clean
<1>3. CASE Funcall
  <2> DEFINE a == Frame("funcallArgs")
             b == TypedFrame("funcall.close", funcs[current.lexeme])
  <2>1. PICK t : next(t) /\ Call(<<a, b>>)
    BY <1>3, Failures DEF Funcall
  <2>2. Head(stack).at = "funcall" /\ t.type = "PL"
    <3>1. At("funcall") /\ SlotOK
      BY <1>3 DEF Funcall, Clean
    <3>2. saved.type = "PL" /\ EOF.type # "PL"
      BY <3>1 DEF SlotOK, EOF, Plain
    <3>3. t = saved
      BY <2>1, <3>2 DEF next, lex
    <3> QED BY <3>1, <3>2, <3>3 DEF At
  <2>3. Balance("funcall", current, nesting, openParens, openBraces)
    BY <1>1, <2>2, Standing DEF Expects
  <2>4. /\ a.at = "funcallArgs"
        /\ Parenthesised(b) = 1 /\ Braced(b) = 0
    BY FrameLabels DEF Parenthesised, Braced, ParenCallers, BraceCallers
  <2> HIDE DEF a, b
  <2>5. After(a, 1, 0)
    BY <1>1, <1>2, <2>1, <2>2, <2>3, <2>4, Numbers DEF Clean
  <2> QED BY <1>1, <2>1, <2>4, <2>5, CallBalance DEF Clean
<1>4. CASE FuncallArgs
  <2>1. Head(stack).at = "funcallArgs" /\ Yields(Head(stack).at) = "args"
    BY <1>4 DEF FuncallArgs, At, Yields
  <2>2. Balance("funcallArgs", current, nesting, openParens, openBraces)
    BY <1>1, <2>1, Standing DEF Expects
  <2>3. ASSUME NEW t, t.type = "PR", next(t), Return(NULL) PROVE BracketsOK'
    <3>1. /\ current' = t
          /\ nesting'.paren = openParens /\ nesting'.brace = openBraces
      BY <1>1, <1>2, <2>2, <2>3, Numbers DEF Clean
    <3>2. /\ nesting'.paren + Parens(current') + 1 = openParens
          /\ nesting'.brace + Braces(current') = openBraces
          /\ nesting'.paren \in Int
      BY <1>2, <2>3, <3>1
    <3> QED BY <1>1, <2>1, <2>3, <3>2, CloseBalance DEF Clean
  <2>4. ASSUME NEW t, peek(t), NEW a, a.at = "expression",
               NEW b, b.at = "funcallArgs.arg", Call(<<a, b>>)
        PROVE  BracketsOK'
    <3>1. Parenthesised(b) = 0 /\ Braced(b) = 0
      BY <2>4 DEF Parenthesised, Braced, ParenCallers, BraceCallers
    <3>2. After(a, 0, 0)
      BY <1>2, <2>2, <2>4 DEF peek
    <3> QED BY <1>1, <2>4, <3>1, <3>2, CallBalance DEF Clean
  <2> QED BY <1>4, <2>3, <2>4, FrameLabels DEF FuncallArgs
<1>5. CASE FuncallArgsArg
  <2>1. Head(stack).at = "funcallArgs.arg" /\ Yields(Head(stack).at) = "args"
        /\ ret # NULL /\ UNCHANGED lexed
    BY <1>5, Failures DEF FuncallArgsArg, At, Yields
  <2>2. Balance("funcallArgs.arg", current, nesting, openParens, openBraces)
    BY <1>1, <2>1, Standing
  <2>3. /\ current' = current
        /\ nesting'.paren = openParens /\ nesting'.brace = openBraces
    BY <1>2, <2>1, <2>2 DEF lexed
  <2>4. CASE current.type = "PR" /\ Return(NULL)
    <3>1. /\ nesting'.paren + Parens(current') + 1 = openParens
          /\ nesting'.brace + Braces(current') = openBraces
          /\ nesting'.paren \in Int
      BY <1>2, <2>3, <2>4
    <3> QED BY <1>1, <2>1, <2>4, <3>1, CloseBalance DEF Clean
  <2>5. ASSUME current.type = "COMMA", NEW a, a.at = "expression",
               NEW b, b.at = "funcallArgs.arg", Call(<<a, b>>)
        PROVE  BracketsOK'
    <3>1. Parenthesised(b) = 0 /\ Braced(b) = 0
      BY <2>5 DEF Parenthesised, Braced, ParenCallers, BraceCallers
    <3>2. After(a, 0, 0)
      BY <1>2, <2>3, <2>5
    <3> QED BY <1>1, <2>5, <3>1, <3>2, CallBalance DEF Clean
  <2> QED BY <1>5, <2>4, <2>5, FrameLabels, Failures DEF FuncallArgsArg
<1>6. CASE FuncallClose
  <2>1. /\ Head(stack).at = "funcall.close" /\ Return(top.type)
        /\ Yields(Head(stack).at) # "args"
    BY <1>6 DEF FuncallClose, At, Yields
  <2>2. PICK t : next(t)
    BY <1>6 DEF FuncallClose
  <2>3. Balance("funcall.close", current, nesting, openParens, openBraces)
    BY <1>1, <2>1, Standing DEF Expects
  <2>4. Settled
    BY <1>1, <1>2, <2>2, <2>3, Numbers DEF Clean, Settled
  <2> QED BY <1>1, <2>1, <2>4, ReturnBalance DEF Clean, Settled
<1> QED BY <1>3, <1>4, <1>5, <1>6

\* The balance holds in every state of a parse without a report.
LEMMA BracketsInvariance == Spec => []BracketsOK
<1>1. Init => BracketsOK
  <2> SUFFICES ASSUME Init PROVE BracketsOK
    OBVIOUS
  <2>1. /\ stack = <<Frame("start")>>
        /\ current.type = "EOF_TOKEN" /\ nesting = [paren |-> 0, brace |-> 0]
    BY DEF Init, EOF, Plain
  <2>2. Head(stack).at = "start" /\ Tail(stack) = <<>>
    BY <2>1, FrameLabels
  <2>3. \A points : Open(<<>>, points) = 0
    <3> TAKE points
    <3>1. {i \in 1..Len(<<>>) : <<>>[i].at \in points} = {}
      OBVIOUS
    <3> QED BY <3>1, FS_EmptySet DEF Open
  <2>4. openParens = 0 /\ openBraces = 0
    BY <2>2, <2>3, Zenon DEF openParens, openBraces
  <2>5. Balance("start", current, nesting, openParens, openBraces)
    BY <2>1, <2>4
       DEF Balance, Passing, ParenHandlers, BraceHandlers, Parens, Braces, Count
  <2> QED BY <2>2, <2>5 DEF BracketsOK
<1>2. ASSUME Inv, Inv', SlotOK, BracketsOK, [Next]_vars PROVE BracketsOK'
  <2>1. CASE UNCHANGED vars
    BY <1>2, <2>1 DEF BracketsOK, Failing, openParens, openBraces, vars, lexed, reports
  <2>2. CASE isError' \/ complained'
    BY <2>2 DEF BracketsOK
  <2>3. CASE Next /\ ~isError' /\ ~complained'
    <3>1. (isError => isError') /\ (complained => complained')
      BY <2>3, TopLevelGentle, StatementsGentle, ExpressionsGentle
         DEF Next, Done, Gentle, vars, reports
    <3>2. Clean
      BY <1>2, <2>3, <3>1 DEF Clean
    <3>3. CASE TopLevel
      BY <3>2, <3>3, ParseBrackets, FunctionDefBrackets, FunctionDefBodyBrackets,
         FunctionArgsBrackets DEF TopLevel
    <3>4. CASE Statements
      BY <3>2, <3>4, StatementStarts, StatementEnds, BlockBrackets, AssignmentBrackets
         DEF Statements
    <3>5. CASE Expressions
      <4>1. UnaryNested => current.type = "PL" \/ current.type # "PL"
        OBVIOUS
      <4> QED BY <3>2, <3>5, <4>1, OperandBrackets, ParenthesisBrackets, CallBrackets
              DEF Expressions
    <3>6. CASE Done
      BY <2>1, <3>6 DEF Done
    <3> QED BY <2>3, <3>3, <3>4, <3>5, <3>6 DEF Next
  <2> QED BY <1>2, <2>1, <2>2, <2>3
<1> QED BY <1>1, <1>2, Invariance, SlotInvariance, PTL DEF Spec
-----------------------------------------------------------------------------
(* The properties                                                          *)

\* A token that unlex() has pushed back does not outlive the definition it was
\* read in, unless an error was reported.
THEOREM NoLookaheadSurvives == Spec => []LookaheadConsumed
<1>1. SlotOK => LookaheadConsumed
  BY DEF SlotOK, LookaheadConsumed, At, Takers
<1> QED BY <1>1, SlotInvariance, PTL

\* What calls resolve to when parse() returns a VectorNode is in that node,
\* and after a clean parse everything in it can be called.
THEOREM FunctionsAreDefined == Spec => []FuncsAreDefined
<1>1. FuncsOK => FuncsAreDefined
  <2> SUFFICES ASSUME FuncsOK, root = "VectorNode" PROVE FuncsAreDefined
    BY DEF FuncsAreDefined
  <2>1. stack = <<>>
    BY DEF FuncsOK
  <2>2. Pending = {} /\ ~Abandoned
    BY <2>1 DEF Pending, Abandoned, At
  <2> QED BY <2>2 DEF FuncsOK, FuncsAreDefined, Callable
<1> QED BY <1>1, FuncsInvariance, PTL

\* Callers that yield no expression hold no parenthesis open.
LEMMA NoParens ==
    ASSUME Inv, stack # <<>>, Low(Head(stack).at)
    PROVE  openParens = 0
<1> DEFINE s == Tail(stack)
<1>1. /\ Len(s) = Len(stack) - 1 /\ Len(stack) \in Nat
      /\ \A i \in 1..Len(s) : s[i] = stack[i + 1]
  BY DEF Inv, ControlOK, StackOK
<1>2. \A i \in 1..Len(s) : s[i].at \notin ParenCallers
  <2> TAKE i \in 1..Len(s)
  <2>1. i + 1 \in 1..Len(stack)
    BY <1>1
  <2>2. Low(stack[i + 1].at)
    BY <2>1, LowCallers
  <2> QED BY <1>1, <2>2 DEF Low, Yields, ParenCallers
<1> HIDE DEF s
<1>3. {i \in 1..Len(s) : s[i].at \in ParenCallers} = {}
  BY <1>2
<1>4. Open(s, ParenCallers) = 0
  BY <1>3, FS_EmptySet, Zenon DEF Open
<1> QED BY <1>4 DEF openParens, s

\* A frame that waits at the loop of blockStatement() has no callee.
LEMMA NobodyWaitsAtTheLoop ==
    ASSUME Inv, NEW i \in 1..Len(stack), i # 1
    PROVE  stack[i].at # "blockStatement"
<1>1. i - 1 \in 1..Len(stack) - 1 /\ (i - 1) + 1 = i
  BY DEF Inv, ControlOK, StackOK
<1>2. Expects(stack[i].at) = Yields(stack[i - 1].at)
  BY <1>1 DEF Inv, ControlOK, StackOK
<1>3. Yields(stack[i - 1].at) # "nothing"
  BY Callers
<1> QED BY <1>2, <1>3 DEF Expects

\* As long as nothing was reported, the brackets passed at a statement are
\* those of the enclosing calls of blockStatement().
THEOREM BracketsAreMatched == Spec => []BracketsMatch
<1> DEFINE blocks == {"blockStatement", "blockStatement.stmt"}
           l == Head(stack).at
<1>1. Inv /\ BracketsOK => BracketsMatch
  <2> SUFFICES ASSUME Inv, BracketsOK, ~isError, ~complained, stack # <<>>,
                      l \in {"parse", "statement", "blockStatement"}
               PROVE  nesting = [paren |-> 0, brace |-> FramesAt(blocks)]
    BY DEF BracketsMatch, At
  <2>1. ~Failing /\ Low(l)
    BY DEF Failing, Expects, Low, Yields
  <2>2. /\ openParens = 0 /\ openBraces \in Int
        /\ nesting.paren \in Int /\ nesting.brace \in Int
    BY <2>1, NoParens, Numbers
  <2>3. Balance(l, current, nesting, openParens, openBraces)
    BY <2>1 DEF BracketsOK
  <2>4. nesting.paren = 0 /\ nesting.brace = openBraces + Count(l \in blocks)
    <3> HIDE DEF l
    <3> QED BY <2>2, <2>3
            DEF Balance, Passing, ParenHandlers, BraceHandlers, Count, Parens, Braces
  <2>5. FramesAt(blocks) = openBraces + Count(l \in blocks)
    <3> DEFINE s == Tail(stack)
    <3>1. stack \in Seq(Frames) /\ s \in Seq(Frames)
      BY DEF Inv, ControlOK, StackOK
    <3>2. \A i \in 1..Len(s) : s[i].at \in blocks <=> s[i].at \in BraceCallers
      <4> TAKE i \in 1..Len(s)
      <4>1. s[i] = stack[i + 1] /\ i + 1 \in 1..Len(stack) /\ i + 1 # 1
        BY <3>1
      <4>2. s[i].at # "blockStatement"
        BY <4>1, NobodyWaitsAtTheLoop
      <4> QED BY <4>2 DEF BraceCallers
    <3> HIDE DEF s, blocks, l
    <3>3. {i \in 1..Len(s) : s[i].at \in blocks}
            = {i \in 1..Len(s) : s[i].at \in BraceCallers}
      BY <3>2
    <3>4. Open(s, blocks) = Open(s, BraceCallers)
      BY <3>3, Zenon DEF Open
    <3>5. Open(stack, blocks) = Open(s, blocks) + Count(l \in blocks)
      BY <3>1, OpenTail DEF s, l
    <3>6. FramesAt(blocks) = Open(stack, blocks) /\ openBraces = Open(s, BraceCallers)
      BY DEF FramesAt, Open, openBraces, s
    <3> QED BY <3>4, <3>5, <3>6, Zenon
  <2>6. nesting \in [paren : Int, brace : Int]
    BY DEF Inv, LexedOK
  <2> HIDE DEF l, blocks
  <2> QED BY <2>4, <2>5, <2>6
<1> HIDE DEF blocks, l
<1> QED BY <1>1, Invariance, BracketsInvariance, PTL
=============================================================================
