---------------------------- MODULE ParserProofs ----------------------------
(***************************************************************************)
(* Proofs about Parser for every set of names, every alphabet and every    *)
(* length of the file.                                                     *)
(*                                                                         *)
(* The parser's type correctness is not inductive by itself: what a        *)
(* handler does with `ret` is right only because the handler that returned *)
(* it is one that yields that kind of node, and what it does with          *)
(* current.lexeme only because its caller has looked at current.type.      *)
(* CallsAgree states the first, for every pair of frames on the stack, and *)
(* TopOK the second.                                                       *)
(***************************************************************************)
EXTENDS Parser, TLAPS

\* The kind of node each handler yields to its caller ...
Yields(label) ==
    CASE label \in {"start", "parse", "parse.def"} -> "root"
      [] label \in {"functionDef", "functionDef.name", "functionDef.colon",
                    "functionDef.type", "functionDef.body"} -> "function"
      [] label \in {"functionArgs", "functionArgs.var", "functionArgs.sep",
                    "functionArgs.end"} -> "params"
      [] label \in {"funcallArgs", "funcallArgs.arg"} -> "args"
      [] label \in {"expression", "level", "level.rhs", "unary", "unary.NOT",
                    "unary.ADD", "factor.paren", "var", "funcall",
                    "funcall.close"} -> "expression"
      [] OTHER -> "statement"

\* ... and the kind each waits for.
Expects(label) ==
    CASE label = "parse.def" -> "function"
      [] label = "functionDef.colon" -> "params"
      [] label = "funcall.close" -> "args"
      [] label \in {"functionDef.body", "semicolon", "ifStatement.true",
                    "doWhileStmt.body", "blockStatement.stmt"} -> "statement"
      [] label \in {"ret", "ioPrint", "_funcall", "ifStatement.cond",
                    "whileStmt.cond", "doWhileStmt.cond", "assignment.rhs",
                    "declaration.rhs", "level", "level.rhs", "unary.NOT",
                    "unary.ADD", "factor.paren", "funcallArgs.arg"} -> "expression"
      [] OTHER -> "nothing"

Values(kind) ==
    CASE kind = "function" -> Names \cup {NULL}
      [] kind = "statement" -> {"Statement", NULL}
      [] kind = "expression" -> TType \cup {NULL}
      [] OTHER -> {NULL}

\* The locals a frame has, given whether error() was called.
FrameOK(f, failed) ==
    /\ f \in Frames
    /\ f.type = UNDEFINED => failed
    /\ f.at \in {"functionDef.name", "functionDef.colon", "functionDef.type",
                 "functionDef.body", "declaration.name", "declaration.rhs"}
         => f.name \in Names
    /\ f.at \in {"functionDef.type", "functionArgs.var", "declaration.name",
                 "declaration.rhs"}
         => f.type \in Types
    /\ f.at \in {"funcall.close", "level.rhs", "assignment.rhs"}
         => f.type \in TType
    /\ f.at \in {"level", "level.rhs"} => f.lo \in 1..6

StackOK(s, failed) ==
    /\ s \in Seq(Frames)
    /\ \A i \in 1..Len(s) : FrameOK(s[i], failed)
    /\ \A i \in 1..Len(s) - 1 : Expects(s[i + 1].at) = Yields(s[i].at)

\* What the active frame of stack s has been given: r returned, c current.
TopOK(s, r, c, failed) ==
    s # <<>> =>
        /\ r \in Values(Expects(Head(s).at))
        /\ r = UNDEFINED => failed
        /\ Head(s).at \in {"assignment", "var", "funcall"} => c.type = "SYMBOL"
        /\ Head(s).at = "declaration" => c.type = "TYPE"

\* A symbol table: operator[] leaves a null entry only when it is reported.
TableOK(map, failed) ==
    /\ map \in [Names -> Types \cup {NULL, ABSENT}]
    /\ \A n \in Names : map[n] = NULL => failed

TablesOK ==
    /\ TableOK(scope, isError)
    /\ TableOK(funcs, isError)
    /\ declared \subseteq Names
    /\ \A n \in Names : scope[n] \in Types => n \in declared

LexedOK ==
    /\ current \in AllTokens \cup {EOF}
    /\ saved \in Tokens \cup {EOF}
    /\ left \in 0..MaxTokens
    /\ nesting \in [paren : Int, brace : Int]

RetOK ==
    /\ ret \in TType \cup Names \cup {NULL, "Statement"}
    /\ ret = UNDEFINED => isError

ResultOK ==
    /\ RetOK
    /\ root \in {"building", "VectorNode", "DummyNode"}
    /\ defined \subseteq Names

ReportsOK ==
    /\ isError \in BOOLEAN
    /\ complained \in BOOLEAN

ControlOK ==
    /\ StackOK(stack, isError)
    /\ TopOK(stack, ret, current, isError)

Inv == LexedOK /\ TablesOK /\ ResultOK /\ ReportsOK /\ ControlOK
-----------------------------------------------------------------------------
(* Reading tokens                                                          *)

\* What the parser may conclude from the type of a token.
LEMMA TokenFacts ==
    ASSUME NEW t \in AllTokens \cup {EOF}
    PROVE  /\ t.type = "SYMBOL" => t.lexeme \in Names
           /\ t.type = "TYPE" => fromString(t.lexeme) \in Types
           /\ t.type = "EOF_TOKEN" => t = EOF
BY DEF AllTokens, EOF, Plain, Symbol, TypeName, Literal, PlainTypes, fromString, Types

\* next() keeps the lexer's state in its types, and reads a token.
LEMMA NextReads ==
    ASSUME LexedOK, NEW t \in Readable, next(t)
    PROVE  LexedOK' /\ current' = t /\ t \in AllTokens \cup {EOF}
<1>1. t \in AllTokens \cup {EOF}
  BY TokensAssumption DEF Readable
<1>2. left' \in 0..MaxTokens
  BY MaxTokensAssumption DEF LexedOK, next, lex
<1>3. nesting' \in [paren : Int, brace : Int]
  BY DEF LexedOK, next, Count
<1> QED BY <1>1, <1>2, <1>3 DEF LexedOK, next

LEMMA PeekReads ==
    ASSUME LexedOK, NEW t \in Readable, peek(t)
    PROVE  LexedOK' /\ current' = current /\ t \in AllTokens \cup {EOF}
<1>1. t \in AllTokens \cup {EOF}
  BY TokensAssumption DEF Readable
<1>2. left' \in 0..MaxTokens
  BY MaxTokensAssumption DEF LexedOK, peek, lex
<1> QED BY <1>1, <1>2 DEF LexedOK, peek, Readable
-----------------------------------------------------------------------------
(* The stack                                                               *)

\* Frames built by the handlers are frames.
LEMMA FrameFacts ==
    /\ \A at \in Labels : Frame(at) \in Frames /\ Frame(at).at = at
         /\ Frame(at).type = NULL /\ Frame(at).name = NULL
    /\ \A at \in Labels, type \in TType \cup {NULL} :
         /\ TypedFrame(at, type) \in Frames
         /\ TypedFrame(at, type).at = at
         /\ TypedFrame(at, type).type = type
    /\ \A at \in Labels, type \in TType \cup {NULL}, name \in Names :
         /\ NamedFrame(at, type, name) \in Frames
         /\ NamedFrame(at, type, name).at = at
         /\ NamedFrame(at, type, name).type = type
         /\ NamedFrame(at, type, name).name = name
    /\ \A lo \in 1..6, hi \in 0..6 :
         /\ Level(lo, hi) \in Frames
         /\ Level(lo, hi).at = "level"
         /\ Level(lo, hi).lo = lo
         /\ Level(lo, hi).type = NULL
    /\ \A i \in 1..6, type \in TType :
         /\ LevelRhs(i, type) \in Frames
         /\ LevelRhs(i, type).at = "level.rhs"
         /\ LevelRhs(i, type).type = type
         /\ LevelRhs(i, type).lo = i
<1>1. "level" \in Labels /\ "level.rhs" \in Labels
  BY DEF Labels
<1> QED BY <1>1 DEF Frame, TypedFrame, NamedFrame, Level, LevelRhs, Frames

\* A stack stays in order when error() is called.
LEMMA StackFails ==
    ASSUME NEW s, NEW e \in BOOLEAN, NEW e2 \in BOOLEAN, e => e2, StackOK(s, e)
    PROVE  StackOK(s, e2)
BY DEF StackOK, FrameOK

\* The callers of the active frame.
LEMMA StackTail ==
    ASSUME NEW s, NEW e, StackOK(s, e), s # <<>>
    PROVE  /\ FrameOK(Head(s), e)
           /\ StackOK(Tail(s), e)
           /\ Tail(s) # <<>> => Expects(Head(Tail(s)).at) = Yields(Head(s).at)
<1>1. /\ s \in Seq(Frames)
      /\ Len(s) > 0
      /\ Head(s) = s[1]
      /\ Tail(s) \in Seq(Frames)
      /\ Len(Tail(s)) = Len(s) - 1
      /\ \A i \in 1..Len(s) - 1 : Tail(s)[i] = s[i + 1]
  BY DEF StackOK
<1>2. Tail(s) # <<>> => Len(s) > 1 /\ Head(Tail(s)) = s[2]
  BY <1>1
<1> QED BY <1>1, <1>2 DEF StackOK

\* Calling a handler that yields what its caller expects.
LEMMA StackCall ==
    ASSUME NEW s, NEW e, StackOK(s, e), NEW f, FrameOK(f, e),
           s # <<>> => Expects(Head(s).at) = Yields(f.at)
    PROVE  /\ StackOK(<<f>> \o s, e)
           /\ <<f>> \o s # <<>>
           /\ Head(<<f>> \o s) = f
<1> DEFINE r == <<f>> \o s
<1>1. s \in Seq(Frames) /\ f \in Frames
  BY DEF StackOK, FrameOK
<1>2. /\ r \in Seq(Frames)
      /\ Len(r) = Len(s) + 1
      /\ r[1] = f
      /\ \A i \in 1..Len(s) : r[i + 1] = s[i]
  BY <1>1
<1>3. \A i \in 1..Len(r) : FrameOK(r[i], e)
  <2> TAKE i \in 1..Len(r)
  <2>1. CASE i = 1
    BY <2>1, <1>2
  <2>2. CASE i # 1
    <3>1. i - 1 \in 1..Len(s) /\ r[(i - 1) + 1] = s[i - 1]
      BY <2>2, <1>1, <1>2
    <3> QED BY <3>1, <1>1 DEF StackOK
  <2> QED BY <2>1, <2>2
<1>4. \A i \in 1..Len(r) - 1 : Expects(r[i + 1].at) = Yields(r[i].at)
  <2> TAKE i \in 1..Len(r) - 1
  <2>1. r[i + 1] = s[i] /\ i \in 1..Len(s)
    BY <1>1, <1>2
  <2>2. CASE i = 1
    BY <2>1, <2>2, <1>1, <1>2
  <2>3. CASE i # 1
    <3>1. i - 1 \in 1..Len(s) - 1 /\ r[i] = s[i - 1]
      <4>1. i - 1 \in 1..Len(s) /\ r[(i - 1) + 1] = s[i - 1]
        BY <2>3, <2>1, <1>1, <1>2
      <4> QED BY <4>1, <2>1, <2>3, <1>1
    <3> QED BY <3>1, <2>1, <1>1 DEF StackOK
  <2> QED BY <2>2, <2>3
<1> QED BY <1>1, <1>2, <1>3, <1>4 DEF StackOK

\* The frames without locals.
BareLabels == Labels \ {"functionDef.name", "functionDef.colon", "functionDef.type",
    "functionDef.body", "functionArgs.var", "declaration.name", "declaration.rhs",
    "funcall.close", "level", "level.rhs", "assignment.rhs"}

LEMMA BareFrames ==
    ASSUME NEW at \in BareLabels, NEW e
    PROVE  FrameOK(Frame(at), e) /\ Frame(at).at = at
<1>1. at \in Labels
  BY DEF BareLabels
<1>2. Frame(at) \in Frames /\ Frame(at).at = at /\ Frame(at).type = NULL
  BY <1>1, FrameFacts
<1> QED BY <1>2 DEF FrameOK, BareLabels, NULL, UNDEFINED

\* No handler yields nothing, so a caller is never a frame that starts a call.
LEMMA Callers ==
    /\ \A l : Yields(l) \in {"root", "function", "params", "args", "expression",
                           "statement"}
    /\ \A l : Expects(l) # "nothing" =>
            l \notin {"assignment", "var", "funcall", "declaration"}
    /\ \A l : Expects(l) \in {"function", "params", "args", "statement",
                            "expression", "nothing"}
    /\ \A k : NULL \in Values(k)
BY DEF Yields, Expects, Values

\* The active frame returns v to its caller.
LEMMA ReturnStep ==
    ASSUME NEW s, NEW e \in BOOLEAN, NEW e2 \in BOOLEAN, e => e2,
           StackOK(s, e), s # <<>>, NEW c,
           NEW v \in Values(Yields(Head(s).at)), v = UNDEFINED => e2
    PROVE  StackOK(Tail(s), e2) /\ TopOK(Tail(s), v, c, e2)
<1>1. /\ StackOK(Tail(s), e)
      /\ Tail(s) # <<>> => Expects(Head(Tail(s)).at) = Yields(Head(s).at)
  BY StackTail
<1>2. StackOK(Tail(s), e2)
  BY <1>1, StackFails
<1> QED BY <1>1, <1>2, Callers DEF TopOK

\* The active frame is replaced by one, two, three or four calls.
Starts(f, c) ==
    /\ f.at \in {"assignment", "var", "funcall"} => c.type = "SYMBOL"
    /\ f.at = "declaration" => c.type = "TYPE"

LEMMA CallStep1 ==
    ASSUME NEW s, NEW e \in BOOLEAN, NEW e2 \in BOOLEAN, e => e2,
           StackOK(s, e), s # <<>>, NEW c,
           NEW a, FrameOK(a, e2), Starts(a, c), Yields(a.at) = Yields(Head(s).at)
    PROVE  StackOK(<<a>> \o Tail(s), e2) /\ TopOK(<<a>> \o Tail(s), NULL, c, e2)
<1>1. /\ StackOK(Tail(s), e2)
      /\ Tail(s) # <<>> => Expects(Head(Tail(s)).at) = Yields(a.at)
  BY StackTail, StackFails
<1>2. /\ StackOK(<<a>> \o Tail(s), e2)
      /\ <<a>> \o Tail(s) # <<>>
      /\ Head(<<a>> \o Tail(s)) = a
  BY <1>1, StackCall
<1>3. NULL # UNDEFINED
  BY DEF NULL, UNDEFINED
<1> QED BY <1>2, <1>3, Callers DEF TopOK, Starts

LEMMA CallStep2 ==
    ASSUME NEW s, NEW e \in BOOLEAN, NEW e2 \in BOOLEAN, e => e2,
           StackOK(s, e), s # <<>>, NEW c,
           NEW a, FrameOK(a, e2), Starts(a, c),
           NEW b, FrameOK(b, e2), Expects(b.at) = Yields(a.at),
           Yields(b.at) = Yields(Head(s).at)
    PROVE  StackOK(<<a, b>> \o Tail(s), e2) /\ TopOK(<<a, b>> \o Tail(s), NULL, c, e2)
<1> DEFINE r == <<b>> \o Tail(s)
<1>1. /\ StackOK(Tail(s), e2)
      /\ Tail(s) # <<>> => Expects(Head(Tail(s)).at) = Yields(b.at)
  BY StackTail, StackFails
<1>2. StackOK(r, e2) /\ r # <<>> /\ Head(r) = b
  BY <1>1, StackCall
<1>3. StackOK(<<a>> \o r, e2) /\ <<a>> \o r # <<>> /\ Head(<<a>> \o r) = a
  BY <1>2, StackCall
<1>4. <<a>> \o r = <<a, b>> \o Tail(s)
  BY <1>1 DEF StackOK
<1>5. NULL # UNDEFINED
  BY DEF NULL, UNDEFINED
<1> QED BY <1>3, <1>4, <1>5, Callers DEF TopOK, Starts

LEMMA CallStep3 ==
    ASSUME NEW s, NEW e \in BOOLEAN, NEW e2 \in BOOLEAN, e => e2,
           StackOK(s, e), s # <<>>, NEW c,
           NEW a, FrameOK(a, e2), Starts(a, c),
           NEW b, FrameOK(b, e2), Expects(b.at) = Yields(a.at),
           NEW d, FrameOK(d, e2), Expects(d.at) = Yields(b.at),
           Yields(d.at) = Yields(Head(s).at)
    PROVE  /\ StackOK(<<a, b, d>> \o Tail(s), e2)
           /\ TopOK(<<a, b, d>> \o Tail(s), NULL, c, e2)
<1> DEFINE q == <<d>> \o Tail(s)
           r == <<b>> \o q
<1>1. /\ StackOK(Tail(s), e2)
      /\ Tail(s) # <<>> => Expects(Head(Tail(s)).at) = Yields(d.at)
  BY StackTail, StackFails
<1>2. StackOK(q, e2) /\ q # <<>> /\ Head(q) = d
  BY <1>1, StackCall
<1>3. StackOK(r, e2) /\ r # <<>> /\ Head(r) = b
  BY <1>2, StackCall
<1>4. StackOK(<<a>> \o r, e2) /\ <<a>> \o r # <<>> /\ Head(<<a>> \o r) = a
  BY <1>3, StackCall
<1>5. <<a>> \o r = <<a, b, d>> \o Tail(s)
  BY <1>1 DEF StackOK
<1>6. NULL # UNDEFINED
  BY DEF NULL, UNDEFINED
<1> QED BY <1>4, <1>5, <1>6, Callers DEF TopOK, Starts

LEMMA CallStep4 ==
    ASSUME NEW s, NEW e \in BOOLEAN, NEW e2 \in BOOLEAN, e => e2,
           StackOK(s, e), s # <<>>, NEW c,
           NEW a, FrameOK(a, e2), Starts(a, c),
           NEW b, FrameOK(b, e2), Expects(b.at) = Yields(a.at),
           NEW d, FrameOK(d, e2), Expects(d.at) = Yields(b.at),
           NEW g, FrameOK(g, e2), Expects(g.at) = Yields(d.at),
           Yields(g.at) = Yields(Head(s).at)
    PROVE  /\ StackOK(<<a, b, d, g>> \o Tail(s), e2)
           /\ TopOK(<<a, b, d, g>> \o Tail(s), NULL, c, e2)
<1> DEFINE p == <<g>> \o Tail(s)
           q == <<d>> \o p
           r == <<b>> \o q
<1>1. /\ StackOK(Tail(s), e2)
      /\ Tail(s) # <<>> => Expects(Head(Tail(s)).at) = Yields(g.at)
  BY StackTail, StackFails
<1>2. StackOK(p, e2) /\ p # <<>> /\ Head(p) = g
  BY <1>1, StackCall
<1>3. StackOK(q, e2) /\ q # <<>> /\ Head(q) = d
  BY <1>2, StackCall
<1>4. StackOK(r, e2) /\ r # <<>> /\ Head(r) = b
  BY <1>3, StackCall
<1>5. StackOK(<<a>> \o r, e2) /\ <<a>> \o r # <<>> /\ Head(<<a>> \o r) = a
  BY <1>4, StackCall
<1>6. <<a>> \o r = <<a, b, d, g>> \o Tail(s)
  BY <1>1 DEF StackOK
<1>7. NULL # UNDEFINED
  BY DEF NULL, UNDEFINED
<1> QED BY <1>5, <1>6, <1>7, Callers DEF TopOK, Starts
-----------------------------------------------------------------------------
(* What the parts of a step preserve                                       *)

LEMMA Quiet ==
    ASSUME Inv, quiet
    PROVE  ReportsOK' /\ (isError => isError')
BY DEF Inv, ReportsOK, quiet, reports

LEMMA TablesKept ==
    ASSUME Inv, UNCHANGED tables, isError => isError'
    PROVE  TablesOK'
BY DEF Inv, TablesOK, TableOK, tables

LEMMA LexedKept ==
    ASSUME Inv, UNCHANGED lexed
    PROVE  LexedOK' /\ current' = current
BY DEF Inv, LexedOK, lexed

LEMMA ResultKept ==
    ASSUME Inv, UNCHANGED result,
           RetOK'
    PROVE  ResultOK'
BY DEF Inv, ResultOK, result

LEMMA ValuesTyped ==
    \A k : Values(k) \subseteq TType \cup Names \cup {NULL, "Statement"}
BY DEF Values

LEMMA Returning ==
    ASSUME Inv, stack # <<>>, ReportsOK', isError => isError',
           NEW v \in Values(Yields(Head(stack).at)), v = UNDEFINED => isError',
           Return(v)
    PROVE  ControlOK' /\ RetOK'
<1>1. isError \in BOOLEAN /\ isError' \in BOOLEAN /\ StackOK(stack, isError)
  BY DEF Inv, ReportsOK, ControlOK
<1>2. /\ StackOK(Tail(stack), isError')
      /\ TopOK(Tail(stack), v, current', isError')
  BY <1>1, ReturnStep
<1> QED BY <1>2, ValuesTyped DEF ControlOK, Return, RetOK

\* The three ways of giving up, in any handler.
LEMMA GivingUp ==
    ASSUME Inv, stack # <<>>, Fail \/ Reject \/ GiveUp
    PROVE  /\ ReportsOK'
           /\ isError => isError'
           /\ ControlOK'
           /\ RetOK'
<1>1. ReportsOK' /\ (isError => isError')
  BY DEF Inv, ReportsOK, Fail, Reject, GiveUp, error, complain, quiet, reports
<1>2. Return(NULL)
  BY DEF Fail, Reject, GiveUp
<1>3. NULL \in Values(Yields(Head(stack).at)) /\ NULL # UNDEFINED
  BY Callers DEF NULL, UNDEFINED
<1> QED BY <1>1, <1>2, <1>3, Returning

LEMMA Calling1 ==
    ASSUME Inv, stack # <<>>, ReportsOK', isError => isError',
           NEW a, FrameOK(a, isError'), Starts(a, current'),
           Yields(a.at) = Yields(Head(stack).at),
           Call(<<a>>)
    PROVE  ControlOK' /\ RetOK'
<1>1. isError \in BOOLEAN /\ isError' \in BOOLEAN /\ StackOK(stack, isError)
  BY DEF Inv, ReportsOK, ControlOK
<1>2. /\ StackOK(<<a>> \o Tail(stack), isError')
      /\ TopOK(<<a>> \o Tail(stack), NULL, current', isError')
  BY <1>1, CallStep1
<1> QED BY <1>2 DEF ControlOK, Call, RetOK, NULL, UNDEFINED

LEMMA Calling2 ==
    ASSUME Inv, stack # <<>>, ReportsOK', isError => isError',
           NEW a, FrameOK(a, isError'), Starts(a, current'),
           NEW b, FrameOK(b, isError'), Expects(b.at) = Yields(a.at),
           Yields(b.at) = Yields(Head(stack).at),
           Call(<<a, b>>)
    PROVE  ControlOK' /\ RetOK'
<1>1. isError \in BOOLEAN /\ isError' \in BOOLEAN /\ StackOK(stack, isError)
  BY DEF Inv, ReportsOK, ControlOK
<1>2. /\ StackOK(<<a, b>> \o Tail(stack), isError')
      /\ TopOK(<<a, b>> \o Tail(stack), NULL, current', isError')
  BY <1>1, CallStep2
<1> QED BY <1>2 DEF ControlOK, Call, RetOK, NULL, UNDEFINED

LEMMA Calling3 ==
    ASSUME Inv, stack # <<>>, ReportsOK', isError => isError',
           NEW a, FrameOK(a, isError'), Starts(a, current'),
           NEW b, FrameOK(b, isError'), Expects(b.at) = Yields(a.at),
           NEW d, FrameOK(d, isError'), Expects(d.at) = Yields(b.at),
           Yields(d.at) = Yields(Head(stack).at),
           Call(<<a, b, d>>)
    PROVE  ControlOK' /\ RetOK'
<1>1. isError \in BOOLEAN /\ isError' \in BOOLEAN /\ StackOK(stack, isError)
  BY DEF Inv, ReportsOK, ControlOK
<1>2. /\ StackOK(<<a, b, d>> \o Tail(stack), isError')
      /\ TopOK(<<a, b, d>> \o Tail(stack), NULL, current', isError')
  BY <1>1, CallStep3
<1> QED BY <1>2 DEF ControlOK, Call, RetOK, NULL, UNDEFINED

LEMMA Calling4 ==
    ASSUME Inv, stack # <<>>, ReportsOK', isError => isError',
           NEW a, FrameOK(a, isError'), Starts(a, current'),
           NEW b, FrameOK(b, isError'), Expects(b.at) = Yields(a.at),
           NEW d, FrameOK(d, isError'), Expects(d.at) = Yields(b.at),
           NEW g, FrameOK(g, isError'), Expects(g.at) = Yields(d.at),
           Yields(g.at) = Yields(Head(stack).at),
           Call(<<a, b, d, g>>)
    PROVE  ControlOK' /\ RetOK'
<1>1. isError \in BOOLEAN /\ isError' \in BOOLEAN /\ StackOK(stack, isError)
  BY DEF Inv, ReportsOK, ControlOK
<1>2. /\ StackOK(<<a, b, d, g>> \o Tail(stack), isError')
      /\ TopOK(<<a, b, d, g>> \o Tail(stack), NULL, current', isError')
  BY <1>1, CallStep4
<1> QED BY <1>2 DEF ControlOK, Call, RetOK, NULL, UNDEFINED

\* The active frame and what it has been given.
LEMMA TopFacts ==
    ASSUME Inv, stack # <<>>
    PROVE  /\ FrameOK(Head(stack), isError)
           /\ ret \in Values(Expects(Head(stack).at))
           /\ ret = UNDEFINED => isError
           /\ Starts(Head(stack), current)
BY StackTail DEF Inv, ControlOK, TopOK, Starts
-----------------------------------------------------------------------------
(* The steps of parse(), functionDef() and functionArgs()                  *)

LEMMA StartInv ==
    ASSUME Inv, Start
    PROVE  Inv'
<1>1. LexedOK'
  BY NextReads DEF Inv, Start
<1>2. ReportsOK' /\ (isError => isError')
  BY Quiet DEF Start
<1>3. Frame("parse").at = "parse" /\ FrameOK(Frame("parse"), isError')
  BY BareFrames DEF BareLabels, Labels
<1>4. ControlOK' /\ RetOK'
  BY <1>2, <1>3, Calling1 DEF Start, At, Yields, Starts
<1> QED BY <1>1, <1>2, <1>4, TablesKept, ResultKept DEF Inv, Start

LEMMA ParseEndInv ==
    ASSUME Inv, ParseEnd
    PROVE  Inv'
<1>1. LexedOK' /\ ReportsOK' /\ (isError => isError')
  BY LexedKept, Quiet DEF ParseEnd
<1>2. stack' = <<>> /\ ret' = NULL /\ root' \in {"VectorNode", "DummyNode"}
  BY DEF ParseEnd, Finish
<1>3. ResultOK'
  BY <1>2 DEF Inv, ResultOK, RetOK, ParseEnd, NULL, UNDEFINED
<1>4. ControlOK'
  BY <1>2 DEF ControlOK, StackOK, TopOK
<1> QED BY <1>1, <1>3, <1>4, TablesKept DEF Inv, ParseEnd

LEMMA ParseFuncInv ==
    ASSUME Inv, ParseFunc
    PROVE  Inv'
<1> DEFINE a == Frame("functionDef")
           b == Frame("parse.def")
<1>1. LexedOK' /\ ReportsOK' /\ (isError => isError')
  BY LexedKept, Quiet DEF ParseFunc
<1>2. /\ a.at = "functionDef" /\ FrameOK(a, isError')
      /\ b.at = "parse.def" /\ FrameOK(b, isError')
  BY BareFrames DEF BareLabels, Labels
<1>3. /\ Starts(a, current')
      /\ Expects(b.at) = Yields(a.at)
      /\ Yields(b.at) = Yields("parse")
  BY <1>2 DEF Expects, Yields, Starts
<1>4. stack # <<>> /\ Head(stack).at = "parse" /\ Call(<<a, b>>)
  BY DEF ParseFunc, At
<1> HIDE DEF a, b
<1>5. ControlOK' /\ RetOK'
  BY <1>1, <1>2, <1>3, <1>4, Calling2
<1> QED BY <1>1, <1>5, TablesKept, ResultKept DEF Inv, ParseFunc

LEMMA ParseDefaultInv ==
    ASSUME Inv, ParseDefault
    PROVE  Inv'
<1>1. LexedOK'
  BY NextReads DEF Inv, ParseDefault
<1>2. ReportsOK' /\ (isError => isError')
  BY DEF Inv, ReportsOK, ParseDefault, error
<1>3. Frame("parse").at = "parse" /\ FrameOK(Frame("parse"), isError')
  BY BareFrames DEF BareLabels, Labels
<1>4. ControlOK' /\ RetOK'
  BY <1>2, <1>3, Calling1 DEF ParseDefault, At, Yields, Starts
<1> QED BY <1>1, <1>2, <1>4, TablesKept, ResultKept DEF Inv, ParseDefault

LEMMA ParseDefInv ==
    ASSUME Inv, ParseDef
    PROVE  Inv'
<1>1. LexedOK' /\ ReportsOK' /\ (isError => isError')
  BY LexedKept, Quiet DEF ParseDef
<1>2. stack # <<>> /\ Head(stack).at = "parse.def"
  BY DEF ParseDef, At
<1>3. ret \in Names \cup {NULL}
  BY <1>2, TopFacts DEF Expects, Values
<1>4. CASE ret = NULL
  <2>1. stack' = <<>> /\ ret' = NULL /\ root' = "DummyNode" /\ defined' = defined
    BY <1>4 DEF ParseDef, Finish
  <2>2. ControlOK' /\ ResultOK'
    BY <2>1 DEF ControlOK, StackOK, TopOK, Inv, ResultOK, RetOK, NULL, UNDEFINED
  <2> QED BY <1>1, <2>2, TablesKept DEF Inv, ParseDef
<1>5. CASE ret # NULL
  <2>1. /\ defined' = defined \cup {ret}
        /\ Call(<<Frame("parse")>>)
        /\ UNCHANGED root
    BY <1>5 DEF ParseDef
  <2>2. Frame("parse").at = "parse" /\ FrameOK(Frame("parse"), isError')
    BY BareFrames DEF BareLabels, Labels
  <2>3. ControlOK' /\ RetOK'
    BY <1>1, <1>2, <2>1, <2>2, Calling1 DEF Yields, Starts
  <2>4. ResultOK'
    BY <1>3, <1>5, <2>1, <2>3 DEF Inv, ResultOK
  <2> QED BY <1>1, <2>3, <2>4, TablesKept DEF Inv, ParseDef
<1> QED BY <1>4, <1>5

\* The frames that carry the name and the type of what is being declared.
LEMMA DeclaringFrames ==
    ASSUME NEW at \in {"functionDef.type", "declaration.name", "declaration.rhs"},
           NEW type \in Types, NEW name \in Names, NEW e
    PROVE  FrameOK(NamedFrame(at, type, name), e)
           /\ NamedFrame(at, type, name).at = at
<1>1. at \in Labels /\ type \in TType \cup {NULL} /\ type # UNDEFINED
  BY DEF Labels, TType, Types, UNDEFINED
<1>2. /\ NamedFrame(at, type, name) \in Frames
      /\ NamedFrame(at, type, name).at = at
      /\ NamedFrame(at, type, name).type = type
      /\ NamedFrame(at, type, name).name = name
  BY <1>1, FrameFacts
<1> QED BY <1>1, <1>2 DEF FrameOK

\* The frames of functionDef() that carry the name of the function.
LEMMA FunctionFrames ==
    ASSUME NEW at \in {"functionDef.name", "functionDef.colon", "functionDef.body"},
           NEW name \in Names, NEW e
    PROVE  FrameOK(NamedFrame(at, NULL, name), e)
           /\ NamedFrame(at, NULL, name).at = at
<1>1. at \in Labels /\ NULL # UNDEFINED /\ NULL \in TType \cup {NULL}
  BY DEF Labels, NULL, UNDEFINED
<1>2. /\ NamedFrame(at, NULL, name) \in Frames
      /\ NamedFrame(at, NULL, name).at = at
      /\ NamedFrame(at, NULL, name).type = NULL
      /\ NamedFrame(at, NULL, name).name = name
  BY <1>1 DEF NamedFrame, Frames
<1> QED BY <1>1, <1>2 DEF FrameOK

\* The frames that carry the type of an operand, a variable or a function.
LEMMA TypedFrames ==
    ASSUME NEW at \in {"functionArgs.var", "funcall.close", "assignment.rhs"},
           NEW type \in TType, NEW e,
           type = UNDEFINED => e,
           at = "functionArgs.var" => type \in Types
    PROVE  FrameOK(TypedFrame(at, type), e) /\ TypedFrame(at, type).at = at
<1>1. at \in Labels
  BY DEF Labels
<1>2. /\ TypedFrame(at, type) \in Frames
      /\ TypedFrame(at, type).at = at
      /\ TypedFrame(at, type).type = type
  BY <1>1, FrameFacts
<1> QED BY <1>1, <1>2 DEF FrameOK

\* Entering a declaration in a table.
LEMMA Inserting ==
    ASSUME NEW map, NEW e \in BOOLEAN, TableOK(map, e),
           NEW name \in Names, NEW type \in Types
    PROVE  /\ TableOK(Insert(map, name, type), e)
           /\ \A n \in Names : n # name => Insert(map, name, type)[n] = map[n]
           /\ \A n \in Names : map[n] \in Types => Insert(map, name, type)[n] = map[n]
<1>1. ABSENT # NULL /\ ABSENT \notin Types /\ NULL \notin Types
  BY DEF ABSENT, NULL, Types
<1> QED BY <1>1 DEF TableOK, Insert

\* Looking a name up, which may enter a null pointer.
LEMMA LookingUp ==
    ASSUME NEW map, NEW e \in BOOLEAN, NEW e2 \in BOOLEAN, e => e2,
           TableOK(map, e), NEW name \in Names,
           Lookup(map, name)[name] = NULL => e2
    PROVE  /\ TableOK(Lookup(map, name), e2)
           /\ \A n \in Names : Lookup(map, name)[n] \in Types <=> map[n] \in Types
           /\ \A n \in Names : map[n] \in Types => Lookup(map, name)[n] = map[n]
           /\ Lookup(map, name)[name] # NULL => map[name] \in Types
<1>1. ABSENT # NULL /\ ABSENT \notin Types /\ NULL \notin Types
  BY DEF ABSENT, NULL, Types
<1> QED BY <1>1 DEF TableOK, Lookup

LEMMA FunctionDefInv ==
    ASSUME Inv, FunctionDef
    PROVE  Inv'
<1>1. PICK t \in Readable :
        /\ next(t)
        /\ \/ t.type # "SYMBOL" /\ Reject
           \/ /\ t.type = "SYMBOL"
              /\ Call(<<NamedFrame("functionDef.name", NULL, t.lexeme)>>)
              /\ quiet
  BY DEF FunctionDef
<1>2. LexedOK' /\ t \in AllTokens \cup {EOF}
  BY <1>1, NextReads DEF Inv
<1>3. stack # <<>> /\ Head(stack).at = "functionDef"
  BY DEF FunctionDef, At
<1>4. /\ ReportsOK' /\ (isError => isError')
      /\ ControlOK' /\ RetOK'
  <2>1. CASE Reject
    BY <1>3, <2>1, GivingUp
  <2>2. CASE /\ t.type = "SYMBOL"
             /\ Call(<<NamedFrame("functionDef.name", NULL, t.lexeme)>>)
             /\ quiet
    <3> DEFINE a == NamedFrame("functionDef.name", NULL, t.lexeme)
    <3>1. FrameOK(a, isError') /\ a.at = "functionDef.name"
      BY <1>2, <2>2, TokenFacts, FunctionFrames
    <3>2. Starts(a, current') /\ Yields(a.at) = Yields(Head(stack).at)
      BY <1>3, <3>1 DEF Starts, Yields
    <3> HIDE DEF a
    <3> QED BY <1>3, <2>2, <3>1, <3>2, Quiet, Calling1 DEF a
  <2> QED BY <1>1, <2>1, <2>2
<1>5. TablesOK'
  <2>1. scope' = [n \in Names |-> ABSENT] /\ declared' = {} /\ funcs' = funcs
    BY DEF FunctionDef
  <2>2. ABSENT # NULL /\ ABSENT \notin Types
    BY DEF ABSENT, NULL, Types
  <2>3. TableOK(scope', isError')
    BY <2>1, <2>2 DEF TableOK
  <2>4. TableOK(funcs', isError')
    BY <1>4, <2>1 DEF Inv, TablesOK, TableOK
  <2>5. \A n \in Names : scope'[n] \notin Types
    BY <2>1, <2>2
  <2> QED BY <2>1, <2>3, <2>4, <2>5 DEF TablesOK
<1> QED BY <1>2, <1>4, <1>5, ResultKept DEF Inv, FunctionDef

LEMMA FunctionDefNameInv ==
    ASSUME Inv, FunctionDefName
    PROVE  Inv'
<1> DEFINE a == Frame("functionArgs")
           b == NamedFrame("functionDef.colon", NULL, Head(stack).name)
<1>1. PICK t \in Readable : next(t)
  BY DEF FunctionDefName
<1>2. LexedOK'
  BY <1>1, NextReads DEF Inv
<1>3. ReportsOK' /\ (isError => isError')
  BY Quiet DEF FunctionDefName
<1>4. stack # <<>> /\ Head(stack).at = "functionDef.name"
  BY DEF FunctionDefName, At
<1>5. /\ a.at = "functionArgs" /\ FrameOK(a, isError')
      /\ b.at = "functionDef.colon" /\ FrameOK(b, isError')
  <2>1. Head(stack).name \in Names
    BY <1>4, TopFacts DEF FrameOK
  <2> QED BY <2>1, BareFrames, FunctionFrames DEF BareLabels, Labels
<1>6. /\ Starts(a, current') /\ Starts(b, current')
      /\ Expects(b.at) = Yields(a.at)
      /\ Yields(b.at) = Yields(Head(stack).at)
  BY <1>4, <1>5 DEF Expects, Yields, Starts
<1>7. Call(<<a, b>>) \/ Call(<<b>>)
  BY DEF FunctionDefName, top
<1> HIDE DEF a, b
<1>8. ControlOK' /\ RetOK'
  BY <1>3, <1>4, <1>5, <1>6, <1>7, Calling1, Calling2
<1> QED BY <1>2, <1>3, <1>8, TablesKept, ResultKept DEF Inv, FunctionDefName

LEMMA FunctionDefColonInv ==
    ASSUME Inv, FunctionDefColon
    PROVE  Inv'
<1>1. stack # <<>> /\ Head(stack).at = "functionDef.colon"
  BY DEF FunctionDefColon, At
<1>2. CASE Reject /\ UNCHANGED lexed
  BY <1>1, <1>2, GivingUp, LexedKept, TablesKept, ResultKept
     DEF Inv, FunctionDefColon
<1>3. CASE \E t \in Readable : next(t) /\ Reject
  BY <1>1, <1>3, GivingUp, NextReads, TablesKept, ResultKept
     DEF Inv, FunctionDefColon
<1>4. ASSUME NEW t \in Readable, next(t), t.type = "TYPE", quiet,
             Call(<<NamedFrame("functionDef.type", fromString(t.lexeme),
                               Head(stack).name)>>)
      PROVE  Inv'
  <2> DEFINE a == NamedFrame("functionDef.type", fromString(t.lexeme),
                             Head(stack).name)
  <2>1. LexedOK' /\ t \in AllTokens \cup {EOF}
    BY <1>4, NextReads DEF Inv
  <2>2. ReportsOK' /\ (isError => isError')
    BY <1>4, Quiet
  <2>3. Head(stack).name \in Names /\ fromString(t.lexeme) \in Types
    BY <1>1, <1>4, <2>1, TopFacts, TokenFacts DEF FrameOK
  <2>4. a.at = "functionDef.type" /\ FrameOK(a, isError')
    BY <2>3, DeclaringFrames
  <2>5. Starts(a, current') /\ Yields(a.at) = Yields(Head(stack).at)
    BY <1>1, <2>4 DEF Yields, Starts
  <2>6. Call(<<a>>)
    BY <1>4
  <2> HIDE DEF a
  <2>7. ControlOK' /\ RetOK'
    BY <1>1, <2>2, <2>4, <2>5, <2>6, Calling1
  <2> QED BY <2>1, <2>2, <2>7, TablesKept, ResultKept DEF Inv, FunctionDefColon
<1> QED BY <1>2, <1>3, <1>4 DEF FunctionDefColon, top

LEMMA FunctionDefTypeInv ==
    ASSUME Inv, FunctionDefType
    PROVE  Inv'
<1> DEFINE a == Frame("statement")
           b == NamedFrame("functionDef.body", NULL, Head(stack).name)
<1>1. LexedOK'
  BY NextReads DEF Inv, FunctionDefType
<1>2. ReportsOK' /\ (isError => isError') /\ isError' = isError
  BY Quiet DEF FunctionDefType, quiet, reports
<1>3. stack # <<>> /\ Head(stack).at = "functionDef.type"
  BY DEF FunctionDefType, At
<1>4. Head(stack).name \in Names /\ Head(stack).type \in Types
  BY <1>3, TopFacts DEF FrameOK
<1>5. /\ a.at = "statement" /\ FrameOK(a, isError')
      /\ b.at = "functionDef.body" /\ FrameOK(b, isError')
  BY <1>4, BareFrames, FunctionFrames DEF BareLabels, Labels
<1>6. /\ Starts(a, current')
      /\ Expects(b.at) = Yields(a.at)
      /\ Yields(b.at) = Yields(Head(stack).at)
  BY <1>3, <1>5 DEF Expects, Yields, Starts
<1>7. Call(<<a, b>>)
  BY DEF FunctionDefType, top
<1> HIDE DEF a, b
<1>8. ControlOK' /\ RetOK'
  BY <1>2, <1>3, <1>5, <1>6, <1>7, Calling2
<1>9. TablesOK'
  <2>1. TableOK(funcs', isError')
    BY <1>2, <1>4, Inserting DEF Inv, TablesOK, ReportsOK, FunctionDefType, top
  <2> QED BY <1>2, <2>1 DEF Inv, TablesOK, FunctionDefType
<1> QED BY <1>1, <1>2, <1>8, <1>9, ResultKept DEF Inv, FunctionDefType

LEMMA FunctionDefBodyInv ==
    ASSUME Inv, FunctionDefBody
    PROVE  Inv'
<1> DEFINE v == IF ret = NULL THEN NULL ELSE Head(stack).name
<1>1. LexedOK' /\ ReportsOK' /\ (isError => isError')
  BY LexedKept, Quiet DEF FunctionDefBody
<1>2. stack # <<>> /\ Head(stack).at = "functionDef.body" /\ Return(v)
  BY DEF FunctionDefBody, At, top
<1>3. Head(stack).name \in Names
  BY <1>2, TopFacts DEF FrameOK
<1>4. v \in Values(Yields(Head(stack).at))
  BY <1>2, <1>3 DEF Yields, Values
<1>5. v # UNDEFINED
  BY <1>3, NamesAssumption DEF NULL, UNDEFINED, TType
<1> HIDE DEF v
<1>6. ControlOK' /\ RetOK'
  BY <1>1, <1>2, <1>4, <1>5, Returning
<1> QED BY <1>1, <1>6, TablesKept, ResultKept DEF Inv, FunctionDefBody

LEMMA FunctionArgsInv ==
    ASSUME Inv, FunctionArgs
    PROVE  Inv'
<1>1. stack # <<>> /\ Head(stack).at = "functionArgs"
  BY DEF FunctionArgs, At
<1>2. PICK t \in Readable :
        /\ next(t)
        /\ \/ Call(<<Frame("functionArgs.end")>>) /\ quiet
           \/ Reject
           \/ /\ t.type = "TYPE"
              /\ Call(<<TypedFrame("functionArgs.var", fromString(t.lexeme))>>)
              /\ quiet
  BY DEF FunctionArgs
<1>3. LexedOK' /\ t \in AllTokens \cup {EOF}
  BY <1>2, NextReads DEF Inv
<1>4. /\ ReportsOK' /\ (isError => isError')
      /\ ControlOK' /\ RetOK'
  <2>1. CASE Reject
    BY <1>1, <2>1, GivingUp
  <2>2. CASE Call(<<Frame("functionArgs.end")>>) /\ quiet
    <3>1. FrameOK(Frame("functionArgs.end"), isError')
          /\ Frame("functionArgs.end").at = "functionArgs.end"
      BY BareFrames DEF BareLabels, Labels
    <3>2. /\ Starts(Frame("functionArgs.end"), current')
          /\ Yields("functionArgs.end") = Yields(Head(stack).at)
      BY <1>1, <3>1 DEF Starts, Yields
    <3> QED BY <1>1, <2>2, <3>1, <3>2, Quiet, Calling1
  <2>3. CASE /\ t.type = "TYPE"
             /\ Call(<<TypedFrame("functionArgs.var", fromString(t.lexeme))>>)
             /\ quiet
    <3> DEFINE a == TypedFrame("functionArgs.var", fromString(t.lexeme))
    <3>1. fromString(t.lexeme) \in Types
      BY <1>3, <2>3, TokenFacts
    <3>2. FrameOK(a, isError') /\ a.at = "functionArgs.var"
      BY <3>1, TypedFrames DEF TType, Types, UNDEFINED
    <3>3. Starts(a, current') /\ Yields(a.at) = Yields(Head(stack).at)
      BY <1>1, <3>2 DEF Starts, Yields
    <3>4. Call(<<a>>)
      BY <2>3
    <3> HIDE DEF a
    <3> QED BY <1>1, <2>3, <3>2, <3>3, <3>4, Quiet, Calling1
  <2> QED BY <1>2, <2>1, <2>2, <2>3
<1> QED BY <1>3, <1>4, TablesKept, ResultKept DEF Inv, FunctionArgs

LEMMA FunctionArgsVarInv ==
    ASSUME Inv, FunctionArgsVar
    PROVE  Inv'
<1>1. stack # <<>> /\ Head(stack).at = "functionArgs.var"
  BY DEF FunctionArgsVar, At
<1>2. LexedOK'
  BY NextReads DEF Inv, FunctionArgsVar
<1>3. CASE Reject /\ UNCHANGED <<scope, declared>>
  BY <1>1, <1>2, <1>3, GivingUp, TablesKept, ResultKept
     DEF Inv, FunctionArgsVar, tables
<1>4. ASSUME NEW t \in Readable, next(t), t.type = "SYMBOL", quiet,
             scope' = Insert(scope, t.lexeme, top.type),
             declared' = declared \cup {t.lexeme},
             Call(<<Frame("functionArgs.sep")>>)
      PROVE  Inv'
  <2>1. t.lexeme \in Names
    BY <1>4, NextReads, TokenFacts DEF Inv
  <2>2. top.type \in Types
    BY <1>1, TopFacts DEF FrameOK, top
  <2>3. ReportsOK' /\ (isError => isError') /\ isError' = isError
    BY <1>4, Quiet DEF quiet, reports
  <2>4. TableOK(scope', isError')
    BY <1>4, <2>1, <2>2, <2>3, Inserting DEF Inv, TablesOK, ReportsOK
  <2>5. \A n \in Names : scope'[n] \in Types => n \in declared'
    BY <1>4, <2>1, <2>2, Inserting DEF Inv, TablesOK, ReportsOK
  <2>6. TablesOK'
    BY <1>4, <2>1, <2>3, <2>4, <2>5 DEF Inv, TablesOK, FunctionArgsVar
  <2>7. FrameOK(Frame("functionArgs.sep"), isError')
        /\ Frame("functionArgs.sep").at = "functionArgs.sep"
    BY BareFrames DEF BareLabels, Labels
  <2>8. /\ Starts(Frame("functionArgs.sep"), current')
        /\ Yields("functionArgs.sep") = Yields(Head(stack).at)
    BY <1>1, <2>7 DEF Starts, Yields
  <2>9. ControlOK' /\ RetOK'
    BY <1>1, <1>4, <2>3, <2>7, <2>8, Calling1
  <2> QED BY <1>2, <2>3, <2>6, <2>9, ResultKept DEF Inv, FunctionArgsVar
<1> QED BY <1>3, <1>4 DEF FunctionArgsVar

LEMMA FunctionArgsSepInv ==
    ASSUME Inv, FunctionArgsSep
    PROVE  Inv'
<1>1. stack # <<>> /\ Head(stack).at = "functionArgs.sep"
  BY DEF FunctionArgsSep, At
<1>2. LexedOK'
  BY NextReads DEF Inv, FunctionArgsSep
<1>3. CASE Reject
  BY <1>1, <1>2, <1>3, GivingUp, TablesKept, ResultKept DEF Inv, FunctionArgsSep
<1>4. ASSUME NEW at \in {"functionArgs", "functionArgs.end"}, quiet, Call(<<Frame(at)>>)
      PROVE  Inv'
  <2>1. ReportsOK' /\ (isError => isError')
    BY <1>4, Quiet
  <2>2. FrameOK(Frame(at), isError') /\ Frame(at).at = at
    BY BareFrames DEF BareLabels, Labels
  <2>3. Starts(Frame(at), current') /\ Yields(at) = Yields(Head(stack).at)
    BY <1>1, <2>2 DEF Starts, Yields
  <2>4. ControlOK' /\ RetOK'
    BY <1>1, <1>4, <2>1, <2>2, <2>3, Calling1
  <2> QED BY <1>2, <2>1, <2>4, TablesKept, ResultKept DEF Inv, FunctionArgsSep
<1> QED BY <1>3, <1>4 DEF FunctionArgsSep

LEMMA FunctionArgsEndInv ==
    ASSUME Inv, FunctionArgsEnd
    PROVE  Inv'
<1>1. stack # <<>>
  BY DEF FunctionArgsEnd, At
<1>2. LexedOK'
  BY NextReads DEF Inv, FunctionArgsEnd
<1> QED BY <1>1, <1>2, GivingUp, TablesKept, ResultKept
           DEF Inv, FunctionArgsEnd, GiveUp
-----------------------------------------------------------------------------
(* The steps of the statement handlers                                     *)

\* What a step does to control, when it does it right.
Moved ==
    /\ ReportsOK'
    /\ isError => isError'
    /\ ControlOK'
    /\ RetOK'

LEMMA Step ==
    ASSUME Inv, LexedOK', Moved, UNCHANGED <<tables, result>>
    PROVE  Inv'
BY TablesKept, ResultKept DEF Inv, Moved

LEMMA GivenUp ==
    ASSUME Inv, stack # <<>>, Fail \/ Reject \/ GiveUp
    PROVE  Moved
BY GivingUp DEF Moved

LEMMA Returned ==
    ASSUME Inv, stack # <<>>, quiet,
           NEW v \in Values(Yields(Head(stack).at)), v = UNDEFINED => isError,
           Return(v)
    PROVE  Moved
BY Quiet, Returning DEF Moved

LEMMA BareCall1 ==
    ASSUME Inv, stack # <<>>, quiet, NEW at \in BareLabels,
           Yields(at) = Yields(Head(stack).at),
           at \in {"assignment", "var", "funcall"} => current'.type = "SYMBOL",
           at = "declaration" => current'.type = "TYPE",
           Call(<<Frame(at)>>)
    PROVE  Moved
<1>1. FrameOK(Frame(at), isError') /\ Frame(at).at = at
  BY BareFrames
<1> QED BY <1>1, Quiet, Calling1 DEF Moved, Starts

LEMMA BareCall2 ==
    ASSUME Inv, stack # <<>>, quiet, NEW at \in BareLabels, NEW under \in BareLabels,
           Expects(under) = Yields(at),
           Yields(under) = Yields(Head(stack).at),
           at \in {"assignment", "var", "funcall"} => current'.type = "SYMBOL",
           at = "declaration" => current'.type = "TYPE",
           Call(<<Frame(at), Frame(under)>>)
    PROVE  Moved
<1>1. /\ FrameOK(Frame(at), isError') /\ Frame(at).at = at
      /\ FrameOK(Frame(under), isError') /\ Frame(under).at = under
  BY BareFrames
<1> QED BY <1>1, Quiet, Calling2 DEF Moved, Starts

LEMMA BareCall3 ==
    ASSUME Inv, stack # <<>>, quiet, NEW at \in BareLabels, NEW under \in BareLabels,
           NEW last \in BareLabels,
           Expects(under) = Yields(at),
           Expects(last) = Yields(under),
           Yields(last) = Yields(Head(stack).at),
           at \in {"assignment", "var", "funcall"} => current'.type = "SYMBOL",
           at = "declaration" => current'.type = "TYPE",
           Call(<<Frame(at), Frame(under), Frame(last)>>)
    PROVE  Moved
<1>1. /\ FrameOK(Frame(at), isError') /\ Frame(at).at = at
      /\ FrameOK(Frame(under), isError') /\ Frame(under).at = under
      /\ FrameOK(Frame(last), isError') /\ Frame(last).at = last
  BY BareFrames
<1> QED BY <1>1, Quiet, Calling3 DEF Moved, Starts

LEMMA StatementNoneInv ==
    ASSUME Inv, StatementNone
    PROVE  Inv'
<1>1. stack # <<>>
  BY DEF StatementNone, At
<1>2. Moved
  BY <1>1, GivenUp DEF StatementNone
<1> QED BY <1>2, LexedKept, Step DEF StatementNone

LEMMA StatementNestedInv ==
    ASSUME Inv, StatementNested
    PROVE  Inv'
<1>1. stack # <<>> /\ Head(stack).at = "statement"
  BY DEF StatementNested, At
<1>2. {"blockStatement", "statement", "doWhileStmt.body"} \subseteq BareLabels
  BY DEF BareLabels, Labels
<1>3. CASE Call(<<Frame("blockStatement")>>)
  BY <1>1, <1>2, <1>3, BareCall1, NextReads, Step DEF Inv, StatementNested, Yields
<1>4. CASE Call(<<Frame("statement"), Frame("doWhileStmt.body")>>)
  BY <1>1, <1>2, <1>4, BareCall2, NextReads, Step
     DEF Inv, StatementNested, Yields, Expects
<1> QED BY <1>3, <1>4 DEF StatementNested

LEMMA StatementSimpleInv ==
    ASSUME Inv, StatementSimple
    PROVE  Inv'
<1>1. stack # <<>> /\ Head(stack).at = "statement" /\ quiet
  BY DEF StatementSimple, At
<1>2. {"expression", "semicolon", "ifStatement.cond", "whileStmt.cond", "ret",
       "ioPrint", "declaration"} \subseteq BareLabels
  BY DEF BareLabels, Labels
<1>3. LexedOK' /\ current' = current
  BY LexedKept DEF StatementSimple
<1>4. CASE Call(<<Frame("expression"), Frame("ifStatement.cond")>>)
  BY <1>1, <1>2, <1>3, <1>4, BareCall2, Step DEF StatementSimple, Yields, Expects
<1>5. CASE Call(<<Frame("expression"), Frame("whileStmt.cond")>>)
  BY <1>1, <1>2, <1>3, <1>5, BareCall2, Step DEF StatementSimple, Yields, Expects
<1>6. CASE Call(<<Frame("expression"), Frame("ret"), Frame("semicolon")>>)
  BY <1>1, <1>2, <1>3, <1>6, BareCall3, Step DEF StatementSimple, Yields, Expects
<1>7. CASE Call(<<Frame("expression"), Frame("ioPrint"), Frame("semicolon")>>)
  BY <1>1, <1>2, <1>3, <1>7, BareCall3, Step DEF StatementSimple, Yields, Expects
<1>8. CASE current.type = "TYPE"
           /\ Call(<<Frame("declaration"), Frame("semicolon")>>)
  BY <1>1, <1>2, <1>3, <1>8, BareCall2, Step DEF StatementSimple, Yields, Expects
<1> QED BY <1>4, <1>5, <1>6, <1>7, <1>8 DEF StatementSimple

LEMMA StatementSymbolInv ==
    ASSUME Inv, StatementSymbol
    PROVE  Inv'
<1>1. stack # <<>> /\ Head(stack).at = "statement" /\ quiet
  BY DEF StatementSymbol, At
<1>2. {"funcall", "_funcall", "assignment", "semicolon"} \subseteq BareLabels
  BY DEF BareLabels, Labels
<1>3. LexedOK' /\ current' = current /\ current.type = "SYMBOL"
  BY PeekReads DEF Inv, StatementSymbol
<1>4. CASE Call(<<Frame("funcall"), Frame("_funcall"), Frame("semicolon")>>)
  BY <1>1, <1>2, <1>3, <1>4, BareCall3, Step DEF StatementSymbol, Yields, Expects
<1>5. CASE Call(<<Frame("assignment"), Frame("semicolon")>>)
  BY <1>1, <1>2, <1>3, <1>5, BareCall2, Step DEF StatementSymbol, Yields, Expects
<1> QED BY <1>4, <1>5 DEF StatementSymbol

LEMMA SemicolonInv ==
    ASSUME Inv, Semicolon
    PROVE  Inv'
<1>1. stack # <<>> /\ Head(stack).at = "semicolon"
  BY DEF Semicolon, At
<1>2. LexedOK'
  BY NextReads, LexedKept DEF Inv, Semicolon
<1>3. ret \in Values(Yields(Head(stack).at)) /\ (ret = UNDEFINED => isError)
  BY <1>1, TopFacts DEF Expects, Yields
<1>4. Moved
  BY <1>1, <1>3, Returned DEF Semicolon
<1> QED BY <1>2, <1>4, Step DEF Semicolon

LEMMA StatementReturned ==
    ASSUME Inv, stack # <<>>, quiet, Yields(Head(stack).at) = "statement",
           Return("Statement")
    PROVE  Moved
<1>1. "Statement" \in Values("statement") /\ "Statement" # UNDEFINED
  BY DEF Values, UNDEFINED
<1> QED BY <1>1, Returned

LEMMA WrapExpressionInv ==
    ASSUME Inv, WrapExpression
    PROVE  Inv'
<1>1. stack # <<>> /\ Head(stack).at \in {"ret", "ioPrint", "_funcall"}
  BY DEF WrapExpression, At
<1>2. CASE Fail \/ GiveUp
  BY <1>1, <1>2, GivenUp, LexedKept, Step DEF WrapExpression
<1>3. CASE Return("Statement") /\ quiet
  <2>1. Yields(Head(stack).at) = "statement"
    BY <1>1 DEF Yields
  <2> QED BY <1>1, <1>3, <2>1, StatementReturned, LexedKept, Step DEF WrapExpression
<1> QED BY <1>2, <1>3 DEF WrapExpression

LEMMA IfWhileCondInv ==
    ASSUME Inv, IfWhileCond
    PROVE  Inv'
<1>1. stack # <<>> /\ Head(stack).at \in {"ifStatement.cond", "whileStmt.cond"}
  BY DEF IfWhileCond, At
<1>2. {"statement", "ifStatement.true"} \subseteq BareLabels
  BY DEF BareLabels, Labels
<1>3. CASE BadCondition
  BY <1>1, <1>3, GivenUp, LexedKept, Step DEF IfWhileCond, BadCondition
<1>4. CASE quiet /\ Call(<<Frame("statement"), Frame("ifStatement.true")>>)
  BY <1>1, <1>2, <1>4, BareCall2, LexedKept, Step DEF IfWhileCond, Yields, Expects
<1>5. CASE quiet /\ Call(<<Frame("statement")>>)
  BY <1>1, <1>2, <1>5, BareCall1, LexedKept, Step DEF IfWhileCond, Yields
<1> QED BY <1>3, <1>4, <1>5 DEF IfWhileCond

LEMMA IfTrueInv ==
    ASSUME Inv, IfTrue
    PROVE  Inv'
<1>1. stack # <<>> /\ Head(stack).at = "ifStatement.true"
  BY DEF IfTrue, At
<1>2. LexedOK'
  BY NextReads, LexedKept DEF Inv, IfTrue
<1>3. CASE GiveUp
  BY <1>1, <1>2, <1>3, GivenUp, Step DEF IfTrue
<1>4. CASE quiet /\ Call(<<Frame("statement")>>)
  <2>1. "statement" \in BareLabels
    BY DEF BareLabels, Labels
  <2> QED BY <1>1, <1>2, <1>4, <2>1, BareCall1, Step DEF IfTrue, Yields
<1>5. CASE quiet /\ Return("Statement")
  <2>1. Yields(Head(stack).at) = "statement"
    BY <1>1 DEF Yields
  <2> QED BY <1>1, <1>2, <1>5, <2>1, StatementReturned, Step DEF IfTrue
<1> QED BY <1>3, <1>4, <1>5 DEF IfTrue

LEMMA DoWhileInv ==
    ASSUME Inv, DoWhile
    PROVE  Inv'
<1>1. stack # <<>> /\ Head(stack).at \in {"doWhileStmt.body", "doWhileStmt.cond"}
  BY DEF DoWhile, At
<1>2. CASE GiveUp \/ Reject \/ BadCondition
  BY <1>1, <1>2, GivenUp, LexedKept, Step DEF DoWhile, BadCondition
<1>3. CASE quiet /\ Call(<<Frame("expression"), Frame("doWhileStmt.cond")>>)
  <2>1. {"expression", "doWhileStmt.cond"} \subseteq BareLabels
    BY DEF BareLabels, Labels
  <2> QED BY <1>1, <1>3, <2>1, BareCall2, LexedKept, Step DEF DoWhile, Yields, Expects
<1>4. CASE quiet /\ Return("Statement")
  <2>1. Yields(Head(stack).at) = "statement"
    BY <1>1 DEF Yields
  <2> QED BY <1>1, <1>4, <2>1, StatementReturned, LexedKept, Step DEF DoWhile
<1> QED BY <1>2, <1>3, <1>4 DEF DoWhile

LEMMA BlockStatementInv ==
    ASSUME Inv, BlockStatement
    PROVE  Inv'
<1>1. stack # <<>> /\ Head(stack).at = "blockStatement"
  BY DEF BlockStatement, At
<1>2. LexedOK'
  BY NextReads, LexedKept DEF Inv, BlockStatement
<1>3. CASE Reject
  BY <1>1, <1>2, <1>3, GivenUp, Step DEF BlockStatement
<1>4. CASE quiet /\ Call(<<Frame("statement"), Frame("blockStatement.stmt")>>)
  <2>1. {"statement", "blockStatement.stmt"} \subseteq BareLabels
    BY DEF BareLabels, Labels
  <2> QED BY <1>1, <1>2, <1>4, <2>1, BareCall2, Step
             DEF BlockStatement, Yields, Expects
<1>5. CASE quiet /\ Return("Statement")
  <2>1. Yields(Head(stack).at) = "statement"
    BY <1>1 DEF Yields
  <2> QED BY <1>1, <1>2, <1>5, <2>1, StatementReturned, Step DEF BlockStatement
<1> QED BY <1>3, <1>4, <1>5 DEF BlockStatement

LEMMA BlockStatementStmtInv ==
    ASSUME Inv, BlockStatementStmt
    PROVE  Inv'
<1>1. stack # <<>> /\ Head(stack).at = "blockStatement.stmt"
  BY DEF BlockStatementStmt, At
<1>2. CASE Return(NULL)
  BY <1>1, <1>2, GivenUp, LexedKept, Step DEF BlockStatementStmt, GiveUp
<1>3. CASE Call(<<Frame("blockStatement")>>)
  <2>1. "blockStatement" \in BareLabels
    BY DEF BareLabels, Labels
  <2> QED BY <1>1, <1>3, <2>1, BareCall1, LexedKept, Step
             DEF BlockStatementStmt, Yields
<1> QED BY <1>2, <1>3 DEF BlockStatementStmt

LEMMA AssignmentInv ==
    ASSUME Inv, Assignment
    PROVE  Inv'
<1> DEFINE name == current.lexeme
<1>1. stack # <<>> /\ Head(stack).at = "assignment"
  BY DEF Assignment, At
<1>2. name \in Names
  <2>1. current.type = "SYMBOL" /\ current \in AllTokens \cup {EOF}
    BY <1>1, TopFacts DEF Starts, Inv, LexedOK
  <2> QED BY <2>1, TokenFacts
<1>3. LexedOK'
  BY NextReads, LexedKept DEF Inv, Assignment
<1>4. scope' = Lookup(scope, name) /\ funcs' = funcs /\ declared' = declared
  BY DEF Assignment
<1>5. /\ TableOK(scope, isError) /\ isError \in BOOLEAN
      /\ scope'[name] # NULL => scope[name] \in Types
  BY <1>2, <1>4, LookingUp DEF Inv, TablesOK, ReportsOK
<1>6. Moved /\ (scope'[name] = NULL => isError')
  <2>1. CASE scope'[name] = NULL
    BY <1>1, <2>1, GivenUp DEF Assignment, Fail, error
  <2>2. CASE scope'[name] # NULL /\ Reject
    BY <1>1, <2>2, GivenUp
  <2>3. CASE /\ scope'[name] # NULL
             /\ Call(<<Frame("expression"), TypedFrame("assignment.rhs", scope[name])>>)
             /\ quiet
    <3> DEFINE a == Frame("expression")
               b == TypedFrame("assignment.rhs", scope[name])
    <3>1. scope[name] \in Types
      BY <1>5, <2>3
    <3>2. FrameOK(a, isError') /\ a.at = "expression"
      BY BareFrames DEF BareLabels, Labels
    <3>3. FrameOK(b, isError') /\ b.at = "assignment.rhs"
      BY <3>1, TypedFrames DEF TType, Types, UNDEFINED
    <3>4. /\ Starts(a, current')
          /\ Expects(b.at) = Yields(a.at)
          /\ Yields(b.at) = Yields(Head(stack).at)
      BY <1>1, <3>2, <3>3 DEF Starts, Expects, Yields
    <3>5. Call(<<a, b>>) /\ quiet
      BY <2>3
    <3> HIDE DEF a, b
    <3> QED BY <1>1, <2>3, <3>2, <3>3, <3>4, <3>5, Quiet, Calling2 DEF Moved
  <2> QED BY <2>1, <2>2, <2>3 DEF Assignment
<1>7. TablesOK'
  <2>1. /\ TableOK(scope', isError')
        /\ \A n \in Names : scope'[n] \in Types <=> scope[n] \in Types
    BY <1>2, <1>4, <1>5, <1>6, LookingUp DEF Moved, ReportsOK
  <2>2. TableOK(funcs', isError')
    BY <1>4, <1>6 DEF Inv, TablesOK, TableOK, Moved
  <2> QED BY <1>4, <2>1, <2>2 DEF Inv, TablesOK
<1> QED BY <1>3, <1>6, <1>7, ResultKept DEF Inv, Moved, Assignment

LEMMA AssignmentRhsInv ==
    ASSUME Inv, AssignmentRhs
    PROVE  Inv'
<1>1. stack # <<>> /\ Head(stack).at = "assignment.rhs"
  BY DEF AssignmentRhs, At
<1>2. CASE Fail
  BY <1>1, <1>2, GivenUp, LexedKept, Step DEF AssignmentRhs
<1>3. CASE quiet /\ Return("Statement")
  <2>1. Yields(Head(stack).at) = "statement"
    BY <1>1 DEF Yields
  <2> QED BY <1>1, <1>3, <2>1, StatementReturned, LexedKept, Step DEF AssignmentRhs
<1> QED BY <1>2, <1>3 DEF AssignmentRhs

LEMMA DeclarationInv ==
    ASSUME Inv, Declaration
    PROVE  Inv'
<1>1. stack # <<>> /\ Head(stack).at = "declaration"
  BY DEF Declaration, At
<1>2. fromString(current.lexeme) \in Types
  <2>1. current.type = "TYPE" /\ current \in AllTokens \cup {EOF}
    BY <1>1, TopFacts DEF Starts, Inv, LexedOK
  <2> QED BY <2>1, TokenFacts
<1>3. LexedOK'
  BY NextReads DEF Inv, Declaration
<1>4. CASE Reject \/ Fail
  BY <1>1, <1>3, <1>4, GivenUp, Step DEF Declaration
<1>5. ASSUME NEW t \in Readable, next(t), t.type = "SYMBOL", quiet,
             Call(<<NamedFrame("declaration.name", fromString(current.lexeme),
                               t.lexeme)>>)
      PROVE  Moved
  <2> DEFINE a == NamedFrame("declaration.name", fromString(current.lexeme), t.lexeme)
  <2>1. t.lexeme \in Names
    BY <1>5, NextReads, TokenFacts DEF Inv
  <2>2. FrameOK(a, isError') /\ a.at = "declaration.name"
    BY <1>2, <2>1, DeclaringFrames
  <2>3. Starts(a, current') /\ Yields(a.at) = Yields(Head(stack).at)
    BY <1>1, <2>2 DEF Starts, Yields
  <2>4. Call(<<a>>)
    BY <1>5
  <2> HIDE DEF a
  <2> QED BY <1>1, <1>5, <2>2, <2>3, <2>4, Quiet, Calling1 DEF Moved
<1> QED BY <1>3, <1>4, <1>5, Step DEF Declaration

LEMMA DeclarationNameInv ==
    ASSUME Inv, DeclarationName
    PROVE  Inv'
<1> DEFINE a == Frame("expression")
           b == NamedFrame("declaration.rhs", top.type, top.name)
<1>1. stack # <<>> /\ Head(stack).at = "declaration.name"
  BY DEF DeclarationName, At
<1>2. LexedOK'
  BY NextReads DEF Inv, DeclarationName
<1>3. CASE Reject
  BY <1>1, <1>2, <1>3, GivenUp, Step DEF DeclarationName
<1>4. CASE quiet /\ Call(<<a, b>>)
  <2>1. top.type \in Types /\ top.name \in Names
    BY <1>1, TopFacts DEF FrameOK, top
  <2>2. FrameOK(a, isError') /\ a.at = "expression"
    BY BareFrames DEF BareLabels, Labels
  <2>3. FrameOK(b, isError') /\ b.at = "declaration.rhs"
    BY <2>1, DeclaringFrames
  <2>4. /\ Starts(a, current')
        /\ Expects(b.at) = Yields(a.at)
        /\ Yields(b.at) = Yields(Head(stack).at)
    BY <1>1, <2>2, <2>3 DEF Starts, Expects, Yields
  <2> HIDE DEF a, b
  <2>5. Moved
    BY <1>1, <1>4, <2>2, <2>3, <2>4, Quiet, Calling2 DEF Moved
  <2> QED BY <1>2, <2>5, Step DEF DeclarationName
<1> QED BY <1>3, <1>4 DEF DeclarationName

LEMMA DeclarationRhsInv ==
    ASSUME Inv, DeclarationRhs
    PROVE  Inv'
<1>1. stack # <<>> /\ Head(stack).at = "declaration.rhs"
  BY DEF DeclarationRhs, At
<1>2. LexedOK'
  BY LexedKept DEF DeclarationRhs
<1>3. CASE Fail /\ UNCHANGED <<scope, declared>>
  BY <1>1, <1>2, <1>3, GivenUp, Step DEF DeclarationRhs, tables
<1>4. CASE /\ scope' = Insert(scope, top.name, top.type)
           /\ declared' = declared \cup {top.name}
           /\ Return("Statement")
           /\ quiet
  <2>1. top.type \in Types /\ top.name \in Names
    BY <1>1, TopFacts DEF FrameOK, top
  <2>2. Yields(Head(stack).at) = "statement"
    BY <1>1 DEF Yields
  <2>3. Moved /\ isError' = isError
    BY <1>1, <1>4, <2>2, StatementReturned DEF quiet, reports
  <2>4. /\ TableOK(scope', isError')
        /\ \A n \in Names : scope'[n] \in Types => n \in declared'
    BY <1>4, <2>1, <2>3, Inserting DEF Inv, TablesOK, ReportsOK
  <2>5. TablesOK'
    BY <1>4, <2>1, <2>3, <2>4 DEF Inv, TablesOK, DeclarationRhs
  <2> QED BY <1>2, <2>3, <2>5, ResultKept DEF Inv, Moved, DeclarationRhs
<1> QED BY <1>3, <1>4 DEF DeclarationRhs
-----------------------------------------------------------------------------
(* The steps of the expression handlers                                    *)

LEMMA LevelFrames ==
    ASSUME NEW lo \in 1..6, NEW hi \in 0..6, NEW e
    PROVE  FrameOK(Level(lo, hi), e) /\ Level(lo, hi).at = "level"
<1>1. /\ Level(lo, hi) \in Frames /\ Level(lo, hi).at = "level"
      /\ Level(lo, hi).lo = lo /\ Level(lo, hi).type = NULL
  BY FrameFacts
<1> QED BY <1>1 DEF FrameOK, NULL, UNDEFINED

LEMMA RhsFrames ==
    ASSUME NEW i \in 1..6, NEW type \in TType, NEW e, type = UNDEFINED => e
    PROVE  FrameOK(LevelRhs(i, type), e) /\ LevelRhs(i, type).at = "level.rhs"
<1>1. /\ LevelRhs(i, type) \in Frames /\ LevelRhs(i, type).at = "level.rhs"
      /\ LevelRhs(i, type).lo = i /\ LevelRhs(i, type).type = type
  BY FrameFacts
<1> QED BY <1>1 DEF FrameOK

\* Whatever waits for an expression has been given one, or NULL.
LEMMA GivenExpression ==
    ASSUME Inv, stack # <<>>, Expects(Head(stack).at) = "expression"
    PROVE  ret \in TType \cup {NULL} /\ (ret = UNDEFINED => isError)
BY TopFacts DEF Values

LEMMA ExpressionReturned ==
    ASSUME Inv, stack # <<>>, quiet, Yields(Head(stack).at) = "expression",
           NEW v \in TType \cup {NULL}, v = UNDEFINED => isError,
           Return(v)
    PROVE  Moved
<1>1. v \in Values("expression")
  BY DEF Values
<1> QED BY <1>1, Returned

LEMMA ExpressionInv ==
    ASSUME Inv, Expression
    PROVE  Inv'
<1> DEFINE a == Frame("unary")
           b == Level(1, 6)
<1>1. stack # <<>> /\ Head(stack).at = "expression"
  BY DEF Expression, At
<1>2. LexedOK'
  BY NextReads DEF Inv, Expression
<1>3. CASE Fail
  BY <1>1, <1>2, <1>3, GivenUp, Step DEF Expression
<1>4. CASE quiet /\ Call(<<a, b>>)
  <2>1. FrameOK(a, isError') /\ a.at = "unary"
    BY BareFrames DEF BareLabels, Labels
  <2>2. FrameOK(b, isError') /\ b.at = "level"
    BY LevelFrames
  <2>3. /\ Starts(a, current')
        /\ Expects(b.at) = Yields(a.at)
        /\ Yields(b.at) = Yields(Head(stack).at)
    BY <1>1, <2>1, <2>2 DEF Starts, Expects, Yields
  <2> HIDE DEF a, b
  <2>4. Moved
    BY <1>1, <1>4, <2>1, <2>2, <2>3, Quiet, Calling2 DEF Moved
  <2> QED BY <1>2, <2>4, Step DEF Expression
<1> QED BY <1>3, <1>4 DEF Expression

LEMMA BinaryLevelInv ==
    ASSUME Inv, BinaryLevel
    PROVE  Inv'
<1>1. stack # <<>> /\ Head(stack).at = "level" /\ quiet
  BY DEF BinaryLevel, At
<1>2. LexedOK'
  BY NextReads, LexedKept DEF Inv, BinaryLevel
<1>3. ret \in TType \cup {NULL} /\ (ret = UNDEFINED => isError)
  BY <1>1, GivenExpression DEF Expects
<1>4. CASE Return(ret)
  <2>1. Yields(Head(stack).at) = "expression"
    BY <1>1 DEF Yields
  <2> QED BY <1>1, <1>2, <1>3, <1>4, <2>1, ExpressionReturned, Step DEF BinaryLevel
<1>5. ASSUME NEW i \in top.lo..top.hi, ret # NULL,
             Call(<<Frame("unary"), Level(i, 6), LevelRhs(i, ret),
                    Level(top.lo, i - 1)>>)
      PROVE  Moved
  <2> DEFINE a == Frame("unary")
             b == Level(i, 6)
             d == LevelRhs(i, ret)
             g == Level(top.lo, i - 1)
  <2>1. top.lo \in 1..6 /\ top.hi \in 0..6
    BY <1>1, TopFacts DEF FrameOK, Frames, top
  <2>2. i \in 1..6 /\ i - 1 \in 0..6
    BY <2>1
  <2>3. isError' = isError
    BY <1>1 DEF quiet, reports
  <2>4. FrameOK(a, isError') /\ a.at = "unary"
    BY BareFrames DEF BareLabels, Labels
  <2>5. /\ FrameOK(b, isError') /\ b.at = "level"
        /\ FrameOK(g, isError') /\ g.at = "level"
    BY <2>1, <2>2, LevelFrames
  <2>6. FrameOK(d, isError') /\ d.at = "level.rhs"
    BY <1>3, <1>5, <2>2, <2>3, RhsFrames
  <2>7. /\ Starts(a, current')
        /\ Expects(b.at) = Yields(a.at)
        /\ Expects(d.at) = Yields(b.at)
        /\ Expects(g.at) = Yields(d.at)
        /\ Yields(g.at) = Yields(Head(stack).at)
    BY <1>1, <2>4, <2>5, <2>6 DEF Starts, Expects, Yields
  <2>8. Call(<<a, b, d, g>>)
    BY <1>5
  <2> HIDE DEF a, b, d, g
  <2> QED BY <1>1, <2>4, <2>5, <2>6, <2>7, <2>8, Quiet, Calling4 DEF Moved
<1> QED BY <1>2, <1>4, <1>5, Step DEF BinaryLevel

LEMMA BinaryRhsInv ==
    ASSUME Inv, BinaryRhs
    PROVE  Inv'
<1>1. stack # <<>> /\ Head(stack).at = "level.rhs"
  BY DEF BinaryRhs, At
<1>2. CASE Fail
  BY <1>1, <1>2, GivenUp, LexedKept, Step DEF BinaryRhs
<1>3. CASE quiet /\ Return(BinaryType(top.lo, top.type, ret))
  <2>1. BinaryType(top.lo, top.type, ret) \in Types
    BY DEF BinaryType, Types
  <2>2. Yields(Head(stack).at) = "expression"
    BY <1>1 DEF Yields
  <2>3. Moved
    BY <1>1, <1>3, <2>1, <2>2, ExpressionReturned DEF TType, Types, UNDEFINED
  <2> QED BY <2>3, LexedKept, Step DEF BinaryRhs
<1> QED BY <1>2, <1>3 DEF BinaryRhs

LEMMA UnaryNestedInv ==
    ASSUME Inv, UnaryNested
    PROVE  Inv'
<1>1. stack # <<>> /\ Head(stack).at = "unary" /\ quiet
  BY DEF UnaryNested, At
<1>2. LexedOK'
  BY NextReads DEF Inv, UnaryNested
<1>3. {"unary", "unary.NOT", "unary.ADD", "factor.paren"} \subseteq BareLabels
  BY DEF BareLabels, Labels
<1>4. CASE \/ Call(<<Frame("unary"), Frame("unary.NOT")>>)
           \/ Call(<<Frame("unary"), Frame("unary.ADD")>>)
  BY <1>1, <1>2, <1>3, <1>4, BareCall2, Step DEF UnaryNested, Yields, Expects
<1>5. CASE Call(<<Frame("unary"), Level(1, 6), Frame("factor.paren")>>)
  <2> DEFINE a == Frame("unary")
             b == Level(1, 6)
             d == Frame("factor.paren")
  <2>1. /\ FrameOK(a, isError') /\ a.at = "unary"
        /\ FrameOK(d, isError') /\ d.at = "factor.paren"
    BY <1>3, BareFrames
  <2>2. FrameOK(b, isError') /\ b.at = "level"
    BY LevelFrames
  <2>3. /\ Starts(a, current')
        /\ Expects(b.at) = Yields(a.at)
        /\ Expects(d.at) = Yields(b.at)
        /\ Yields(d.at) = Yields(Head(stack).at)
    BY <1>1, <2>1, <2>2 DEF Starts, Expects, Yields
  <2>4. Call(<<a, b, d>>)
    BY <1>5
  <2> HIDE DEF a, b, d
  <2>5. Moved
    BY <1>1, <2>1, <2>2, <2>3, <2>4, Quiet, Calling3 DEF Moved
  <2> QED BY <1>2, <2>5, Step DEF UnaryNested
<1> QED BY <1>4, <1>5 DEF UnaryNested

LEMMA UnaryOperandInv ==
    ASSUME Inv, UnaryOperand
    PROVE  Inv'
<1>1. stack # <<>> /\ Head(stack).at \in {"unary.NOT", "unary.ADD"}
  BY DEF UnaryOperand, At
<1>2. CASE Fail
  BY <1>1, <1>2, GivenUp, LexedKept, Step DEF UnaryOperand
<1>3. CASE quiet /\ Return(ret)
  <2>1. Yields(Head(stack).at) = "expression" /\ Expects(Head(stack).at) = "expression"
    BY <1>1 DEF Yields, Expects
  <2>2. Moved
    BY <1>1, <1>3, <2>1, GivenExpression, ExpressionReturned
  <2> QED BY <2>2, LexedKept, Step DEF UnaryOperand
<1> QED BY <1>2, <1>3 DEF UnaryOperand

LEMMA FactorParenInv ==
    ASSUME Inv, FactorParen
    PROVE  Inv'
<1>1. stack # <<>> /\ Head(stack).at = "factor.paren"
  BY DEF FactorParen, At
<1>2. LexedOK'
  BY NextReads, LexedKept DEF Inv, FactorParen
<1>3. CASE Reject
  BY <1>1, <1>2, <1>3, GivenUp, Step DEF FactorParen
<1>4. CASE quiet /\ Return(ret)
  <2>1. Yields(Head(stack).at) = "expression" /\ Expects(Head(stack).at) = "expression"
    BY <1>1 DEF Yields, Expects
  <2>2. Moved
    BY <1>1, <1>4, <2>1, GivenExpression, ExpressionReturned
  <2> QED BY <1>2, <2>2, Step DEF FactorParen
<1> QED BY <1>3, <1>4 DEF FactorParen

LEMMA FactorSymbolInv ==
    ASSUME Inv, FactorSymbol
    PROVE  Inv'
<1>1. stack # <<>> /\ Head(stack).at = "unary" /\ quiet
  BY DEF FactorSymbol, At
<1>2. LexedOK' /\ current' = current /\ current.type = "SYMBOL"
  BY PeekReads DEF Inv, FactorSymbol
<1>3. PICK at \in {"funcall", "var"} : Call(<<Frame(at)>>)
  BY DEF FactorSymbol
<1>4. at \in BareLabels
  BY DEF BareLabels, Labels
<1>5. Yields(at) = Yields(Head(stack).at)
  BY <1>1 DEF Yields
<1>6. Moved
  BY <1>1, <1>2, <1>3, <1>4, <1>5, BareCall1
<1> QED BY <1>2, <1>6, Step DEF FactorSymbol

LEMMA ConstantInv ==
    ASSUME Inv, Constant
    PROVE  Inv'
<1>1. stack # <<>> /\ Head(stack).at = "unary"
  BY DEF Constant, At
<1>2. LexedOK'
  BY NextReads, LexedKept DEF Inv, Constant
<1>3. CASE Fail \/ GiveUp
  BY <1>1, <1>2, <1>3, GivenUp, Step DEF Constant
<1>4. CASE /\ current.type \in {"BOOL", "INTEGER", "FLOAT"}
           /\ Return(current.type)
           /\ quiet
  <2>1. Yields(Head(stack).at) = "expression"
    BY <1>1 DEF Yields
  <2>2. current.type \in TType \cup {NULL} /\ current.type # UNDEFINED
    BY <1>4 DEF TType, Types, UNDEFINED
  <2>3. Moved
    BY <1>1, <1>4, <2>1, <2>2, ExpressionReturned
  <2> QED BY <1>2, <2>3, Step DEF Constant
<1> QED BY <1>3, <1>4 DEF Constant

LEMMA VarInv ==
    ASSUME Inv, Var
    PROVE  Inv'
<1> DEFINE name == current.lexeme
<1>1. stack # <<>> /\ Head(stack).at = "var"
  BY DEF Var, At
<1>2. name \in Names
  <2>1. current.type = "SYMBOL" /\ current \in AllTokens \cup {EOF}
    BY <1>1, TopFacts DEF Starts, Inv, LexedOK
  <2> QED BY <2>1, TokenFacts
<1>3. LexedOK'
  BY NextReads DEF Inv, Var
<1>4. scope' = Lookup(scope, name) /\ funcs' = funcs /\ declared' = declared
  BY DEF Var
<1>5. /\ TableOK(scope, isError) /\ isError \in BOOLEAN
      /\ scope'[name] # NULL => scope[name] \in Types
  BY <1>2, <1>4, LookingUp DEF Inv, TablesOK, ReportsOK
<1>6. Yields(Head(stack).at) = "expression"
  BY <1>1 DEF Yields
<1>7. Moved /\ (scope'[name] = NULL => isError')
  <2>1. CASE error /\ Return(UNDEFINED)
    <3>1. ReportsOK' /\ isError' = TRUE
      BY <2>1 DEF error, Inv, ReportsOK
    <3>2. UNDEFINED \in Values(Yields(Head(stack).at))
      BY <1>6 DEF Values, TType
    <3> QED BY <1>1, <2>1, <3>1, <3>2, Returning DEF Moved
  <2>2. CASE scope'[name] # NULL /\ Return(scope[name]) /\ quiet
    <3>1. scope[name] \in TType \cup {NULL} /\ scope[name] # UNDEFINED
      BY <1>5, <2>2 DEF TType, Types, UNDEFINED
    <3> QED BY <1>1, <1>6, <2>2, <3>1, ExpressionReturned
  <2> QED BY <2>1, <2>2 DEF Var
<1>8. TablesOK'
  <2>1. /\ TableOK(scope', isError')
        /\ \A n \in Names : scope'[n] \in Types <=> scope[n] \in Types
    BY <1>2, <1>4, <1>5, <1>7, LookingUp DEF Moved, ReportsOK
  <2>2. TableOK(funcs', isError')
    BY <1>4, <1>7 DEF Inv, TablesOK, TableOK, Moved
  <2> QED BY <1>4, <2>1, <2>2 DEF Inv, TablesOK
<1> QED BY <1>3, <1>7, <1>8, ResultKept DEF Inv, Moved, Var

LEMMA FuncallInv ==
    ASSUME Inv, Funcall
    PROVE  Inv'
<1> DEFINE name == current.lexeme
<1>1. stack # <<>> /\ Head(stack).at = "funcall"
  BY DEF Funcall, At
<1>2. name \in Names
  <2>1. current.type = "SYMBOL" /\ current \in AllTokens \cup {EOF}
    BY <1>1, TopFacts DEF Starts, Inv, LexedOK
  <2> QED BY <2>1, TokenFacts
<1>3. LexedOK'
  BY NextReads, LexedKept DEF Inv, Funcall
<1>4. funcs' = Lookup(funcs, name) /\ scope' = scope /\ declared' = declared
  BY DEF Funcall
<1>5. /\ TableOK(funcs, isError) /\ isError \in BOOLEAN
      /\ funcs'[name] # NULL => funcs[name] \in Types
  BY <1>2, <1>4, LookingUp DEF Inv, TablesOK, ReportsOK
<1>6. Moved /\ (funcs'[name] = NULL => isError')
  <2>1. CASE funcs'[name] = NULL
    BY <1>1, <2>1, GivenUp DEF Funcall, Fail, error
  <2>2. CASE /\ funcs'[name] # NULL
             /\ Call(<<Frame("funcallArgs"), TypedFrame("funcall.close", funcs[name])>>)
             /\ quiet
    <3> DEFINE a == Frame("funcallArgs")
               b == TypedFrame("funcall.close", funcs[name])
    <3>1. funcs[name] \in Types
      BY <1>5, <2>2
    <3>2. FrameOK(a, isError') /\ a.at = "funcallArgs"
      BY BareFrames DEF BareLabels, Labels
    <3>3. FrameOK(b, isError') /\ b.at = "funcall.close"
      BY <3>1, TypedFrames DEF TType, Types, UNDEFINED
    <3>4. /\ Starts(a, current')
          /\ Expects(b.at) = Yields(a.at)
          /\ Yields(b.at) = Yields(Head(stack).at)
      BY <1>1, <3>2, <3>3 DEF Starts, Expects, Yields
    <3>5. Call(<<a, b>>) /\ quiet
      BY <2>2
    <3> HIDE DEF a, b
    <3> QED BY <1>1, <2>2, <3>2, <3>3, <3>4, <3>5, Quiet, Calling2 DEF Moved
  <2> QED BY <2>1, <2>2 DEF Funcall
<1>7. TablesOK'
  <2>1. TableOK(funcs', isError')
    BY <1>2, <1>4, <1>5, <1>6, LookingUp DEF Moved, ReportsOK
  <2>2. TableOK(scope', isError')
    BY <1>4, <1>6 DEF Inv, TablesOK, TableOK, Moved
  <2> QED BY <1>4, <2>1, <2>2 DEF Inv, TablesOK
<1> QED BY <1>3, <1>6, <1>7, ResultKept DEF Inv, Moved, Funcall

LEMMA FuncallArgsInv ==
    ASSUME Inv, FuncallArgs
    PROVE  Inv'
<1>1. stack # <<>> /\ Head(stack).at = "funcallArgs" /\ quiet
  BY DEF FuncallArgs, At
<1>2. LexedOK'
  BY NextReads, PeekReads DEF Inv, FuncallArgs
<1>3. CASE Return(NULL)
  BY <1>1, <1>2, <1>3, GivenUp, Step DEF FuncallArgs, GiveUp
<1>4. CASE Call(<<Frame("expression"), Frame("funcallArgs.arg")>>)
  <2>1. {"expression", "funcallArgs.arg"} \subseteq BareLabels
    BY DEF BareLabels, Labels
  <2> QED BY <1>1, <1>2, <1>4, <2>1, BareCall2, Step DEF FuncallArgs, Yields, Expects
<1> QED BY <1>3, <1>4 DEF FuncallArgs

LEMMA FuncallArgsArgInv ==
    ASSUME Inv, FuncallArgsArg
    PROVE  Inv'
<1>1. stack # <<>> /\ Head(stack).at = "funcallArgs.arg"
  BY DEF FuncallArgsArg, At
<1>2. CASE Fail \/ Reject \/ (Return(NULL) /\ quiet)
  BY <1>1, <1>2, GivenUp, LexedKept, Step DEF FuncallArgsArg, GiveUp
<1>3. CASE quiet /\ Call(<<Frame("expression"), Frame("funcallArgs.arg")>>)
  <2>1. {"expression", "funcallArgs.arg"} \subseteq BareLabels
    BY DEF BareLabels, Labels
  <2> QED BY <1>1, <1>3, <2>1, BareCall2, LexedKept, Step
             DEF FuncallArgsArg, Yields, Expects
<1> QED BY <1>2, <1>3 DEF FuncallArgsArg

LEMMA FuncallCloseInv ==
    ASSUME Inv, FuncallClose
    PROVE  Inv'
<1>1. stack # <<>> /\ Head(stack).at = "funcall.close" /\ quiet /\ Return(top.type)
  BY DEF FuncallClose, At
<1>2. LexedOK'
  BY NextReads DEF Inv, FuncallClose
<1>3. top.type \in TType /\ (top.type = UNDEFINED => isError)
  BY <1>1, TopFacts DEF FrameOK, top
<1>4. Yields(Head(stack).at) = "expression"
  BY <1>1 DEF Yields
<1>5. Moved
  BY <1>1, <1>3, <1>4, ExpressionReturned
<1> QED BY <1>2, <1>5, Step DEF FuncallClose
-----------------------------------------------------------------------------
(* The theorems                                                            *)

LEMMA InitInv == Init => Inv
<1> SUFFICES ASSUME Init PROVE Inv
  OBVIOUS
<1>1. LexedOK
  BY MaxTokensAssumption DEF Init, LexedOK
<1>2. TablesOK
  BY DEF Init, TablesOK, TableOK, ABSENT, NULL, Types
<1>3. ResultOK /\ ReportsOK
  BY DEF Init, ResultOK, RetOK, ReportsOK, NULL, UNDEFINED
<1>4. FrameOK(Frame("start"), isError) /\ Frame("start").at = "start"
  BY BareFrames DEF BareLabels, Labels
<1>5. StackOK(stack, isError)
  <2>1. Frame("start") \in Frames
    BY <1>4 DEF FrameOK
  <2>2. stack \in Seq(Frames) /\ Len(stack) = 1 /\ stack[1] = Frame("start")
    BY <2>1 DEF Init
  <2> QED BY <1>4, <2>2 DEF StackOK
<1>6. TopOK(stack, ret, current, isError)
  <2>1. Head(stack).at = "start" /\ ret = NULL
    BY <1>4 DEF Init
  <2>2. NULL # UNDEFINED
    BY DEF NULL, UNDEFINED
  <2> QED BY <2>1, <2>2, Callers DEF TopOK
<1> QED BY <1>1, <1>2, <1>3, <1>5, <1>6 DEF Inv, ControlOK

LEMMA NextInv == Inv /\ [Next]_vars => Inv'
<1> SUFFICES ASSUME Inv, [Next]_vars PROVE Inv'
  OBVIOUS
<1>1. CASE TopLevel
  BY <1>1, StartInv, ParseEndInv, ParseFuncInv, ParseDefaultInv, ParseDefInv,
     FunctionDefInv, FunctionDefNameInv, FunctionDefColonInv, FunctionDefTypeInv,
     FunctionDefBodyInv, FunctionArgsInv, FunctionArgsVarInv, FunctionArgsSepInv,
     FunctionArgsEndInv
     DEF TopLevel
<1>2. CASE Statements
  BY <1>2, StatementNoneInv, StatementNestedInv, StatementSimpleInv,
     StatementSymbolInv, SemicolonInv, WrapExpressionInv, IfWhileCondInv, IfTrueInv,
     DoWhileInv, BlockStatementInv, BlockStatementStmtInv, AssignmentInv,
     AssignmentRhsInv, DeclarationInv, DeclarationNameInv, DeclarationRhsInv
     DEF Statements
<1>3. CASE Expressions
  BY <1>3, ExpressionInv, BinaryLevelInv, BinaryRhsInv, UnaryNestedInv,
     UnaryOperandInv, FactorParenInv, FactorSymbolInv, ConstantInv, VarInv,
     FuncallInv, FuncallArgsInv, FuncallArgsArgInv, FuncallCloseInv
     DEF Expressions
<1>4. CASE UNCHANGED vars
  BY <1>4 DEF vars, lexed, tables, reports, result, Inv, LexedOK, TablesOK, TableOK,
              ResultOK, RetOK, ReportsOK, ControlOK, StackOK, TopOK
<1> QED BY <1>1, <1>2, <1>3, <1>4 DEF Next, Done

\* In every state of every parse, whatever the file holds, the inductive
\* invariant holds: callers and callees agree on the kind of node that is
\* returned, and a handler that reads a lexeme has the token it was called for.
THEOREM Invariance == Spec => []Inv
BY InitInv, NextInv, PTL DEF Spec

\* The members of the parser and its call stack keep their types.
THEOREM TypeCorrect == Spec => []TypeOK
<1>1. Inv => TypeOK
  <2> SUFFICES ASSUME Inv PROVE TypeOK
    OBVIOUS
  <2>1. saved \in AllTokens \cup {EOF} /\ Types \subseteq TType
    BY TokensAssumption DEF Inv, LexedOK, TType
  <2> QED BY <2>1 DEF Inv, TypeOK, LexedOK, TablesOK, TableOK, ResultOK, RetOK, ReportsOK,
                      ControlOK, StackOK
<1> QED BY <1>1, Invariance, PTL

\* Types UNDEFINED and null table entries exist only in a failed parse, so
\* that what isFailed() lets through to the code generator has neither.
THEOREM NullsAreReported == Spec => []NullOnlyAfterError
<1>1. Inv => NullOnlyAfterError
  <2> SUFFICES ASSUME Inv, ~isError PROVE NullOnlyAfterError
    BY DEF NullOnlyAfterError
  <2>1. ret # UNDEFINED
    BY DEF Inv, ResultOK, RetOK
  <2>2. \A i \in 1..Len(stack) : stack[i].type # UNDEFINED
    BY DEF Inv, ControlOK, StackOK, FrameOK
  <2>3. \A n \in Names : /\ scope[n] \in Types \cup {ABSENT}
                          /\ funcs[n] \in Types \cup {ABSENT}
    BY DEF Inv, TablesOK, TableOK
  <2> QED BY <2>1, <2>2, <2>3 DEF NullOnlyAfterError
<1> QED BY <1>1, Invariance, PTL

\* No variable of an earlier function is visible in a later one.
THEOREM ScopesAreLocal == Spec => []NoScopeLeak
<1>1. Inv => NoScopeLeak
  BY DEF Inv, TablesOK, NoScopeLeak
<1> QED BY <1>1, Invariance, PTL

\* What a step may do to funcs and to the reports.
Gentle ==
    /\ (isError => isError') /\ (complained => complained')
    /\ \/ UNCHANGED funcs
       \/ funcs' = Lookup(funcs, current.lexeme)
       \/ funcs' = Insert(funcs, Head(stack).name, Head(stack).type)

LEMMA TopLevelGentle == TopLevel => Gentle
<1> USE DEF Gentle, Fail, Reject, GiveUp, error, complain, quiet, reports, tables
<1>1. Start \/ ParseEnd \/ ParseFunc \/ ParseDefault => Gentle
  BY DEF Start, ParseEnd, ParseFunc, ParseDefault
<1>2. ParseDef => Gentle
  BY DEF ParseDef
<1>3. FunctionDef => Gentle
  BY DEF FunctionDef
<1>4. FunctionDefName => Gentle
  BY DEF FunctionDefName
<1>5. FunctionDefColon => Gentle
  <2>1. FunctionDefColon => UNCHANGED tables /\ (Reject \/ quiet)
    BY DEF FunctionDefColon
  <2> QED BY <2>1
<1>6. FunctionDefType => Gentle
  BY DEF FunctionDefType, top
<1>7. FunctionDefBody => Gentle
  BY DEF FunctionDefBody
<1>8. FunctionArgs => Gentle
  BY DEF FunctionArgs
<1>9. FunctionArgsVar => Gentle
  BY DEF FunctionArgsVar
<1>10. FunctionArgsSep \/ FunctionArgsEnd => Gentle
  BY DEF FunctionArgsSep, FunctionArgsEnd
<1> QED BY <1>1, <1>2, <1>3, <1>4, <1>5, <1>6, <1>7, <1>8, <1>9, <1>10
           DEF TopLevel

LEMMA StatementsGentle == Statements => Gentle
<1> USE DEF Gentle, Fail, Reject, GiveUp, error, complain, quiet, reports, tables
<1>1. StatementNone \/ StatementNested \/ StatementSimple \/ StatementSymbol => Gentle
  BY DEF StatementNone, StatementNested, StatementSimple, StatementSymbol
<1>2. Semicolon \/ WrapExpression \/ IfWhileCond \/ IfTrue => Gentle
  BY DEF Semicolon, WrapExpression, IfWhileCond, IfTrue, BadCondition
<1>3. DoWhile \/ BlockStatement \/ BlockStatementStmt => Gentle
  BY DEF DoWhile, BlockStatement, BlockStatementStmt, BadCondition
<1>4. Assignment => Gentle
  BY DEF Assignment
<1>5. AssignmentRhs \/ DeclarationName \/ DeclarationRhs => Gentle
  BY DEF AssignmentRhs, DeclarationName, DeclarationRhs
<1>6. Declaration => Gentle
  BY DEF Declaration
<1> QED BY <1>1, <1>2, <1>3, <1>4, <1>5, <1>6
           DEF Statements

LEMMA ExpressionsGentle == Expressions => Gentle
<1> USE DEF Gentle, Fail, Reject, GiveUp, error, complain, quiet, reports, tables
<1>1. Expression \/ BinaryLevel \/ BinaryRhs \/ UnaryNested => Gentle
  BY DEF Expression, BinaryLevel, BinaryRhs, UnaryNested
<1>2. UnaryOperand \/ FactorParen \/ FactorSymbol \/ Constant => Gentle
  BY DEF UnaryOperand, FactorParen, FactorSymbol, Constant
<1>3. Var \/ Funcall \/ FuncallArgs \/ FuncallArgsArg => Gentle
  BY DEF Var, Funcall, FuncallArgs, FuncallArgsArg
<1>4. FuncallClose => Gentle
  BY DEF FuncallClose
<1> QED BY <1>1, <1>2, <1>3, <1>4 DEF Expressions

\* A function's type is fixed by its first definition, and isFailed() never
\* goes back to false.
THEOREM NothingIsTakenBack == Spec => Monotone
<1>1. ASSUME Inv, [Next]_vars
      PROVE  [/\ \A n \in Names : funcs[n] \in Types => funcs'[n] = funcs[n]
              /\ isError => isError']_vars
  <2>1. CASE UNCHANGED vars
    BY <2>1
  <2>2. CASE Next /\ ~UNCHANGED vars
    <3>1. Gentle
      BY <1>1, <2>2, TopLevelGentle, StatementsGentle, ExpressionsGentle DEF Next, Done
    <3>2. TableOK(funcs, isError) /\ isError \in BOOLEAN
      BY <1>1 DEF Inv, TablesOK, ReportsOK
    <3>3. CASE UNCHANGED funcs
      BY <3>1, <3>3 DEF Gentle
    <3>4. CASE funcs' = Lookup(funcs, current.lexeme)
      BY <3>1, <3>2, <3>4 DEF Gentle, TableOK, Lookup, ABSENT, Types
    <3>5. CASE funcs' = Insert(funcs, Head(stack).name, Head(stack).type)
      BY <3>1, <3>2, <3>5 DEF Gentle, TableOK, Insert, ABSENT, Types
    <3> QED BY <3>1, <3>3, <3>4, <3>5 DEF Gentle
  <2> QED BY <1>1, <2>1, <2>2
<1> QED BY <1>1, Invariance, PTL DEF Spec, Monotone
=============================================================================
