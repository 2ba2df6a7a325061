------------------------------- MODULE Parser -------------------------------
(***************************************************************************)
(* Parser/Parser.cpp as a pushdown machine.                                *)
(*                                                                         *)
(* The recursive-descent parser is one thread whose state between two      *)
(* token reads is its C++ call stack plus the members of class Parser.     *)
(* `stack` is that call stack: a frame names the point of the handler that *)
(* runs next (`at`) and the locals it still needs.  The head is the active *)
(* frame, and `ret` is what the call that just returned produced: NULL, a  *)
(* statement, a function definition, or an expression, which is known here *)
(* by its TType.  One action is one handler from one read or call to the   *)
(* next, with its early returns as guards.                                 *)
(*                                                                         *)
(* The file is not fixed beforehand: each read past the pushed-back token  *)
(* yields any member of Tokens or the end of the file, so that a run over  *)
(* all behaviours is a run over every token sequence up to MaxTokens.      *)
(***************************************************************************)
EXTENDS Token, Integers, Sequences, FiniteSets

CONSTANTS Tokens,       \* the tokens the file may hold
          MaxTokens     \* a bound on the length of the file, in tokens

ASSUME NamesAssumption == Names \cap (TType \cup {NULL, "Statement"}) = {}
ASSUME TokensAssumption == Tokens \subseteq AllTokens
ASSUME MaxTokensAssumption == MaxTokens \in Nat

VARIABLES
    current,    \* Parser::current, the token under consideration
    saved,      \* Lexer::saved, the one pushed-back token; EOF when empty
    left,       \* how many tokens the file may still hold
    scope,      \* Parser::scope, variable -> type of its VarNode
    funcs,      \* Parser::funcs, function -> type of its FunctionDefNode
    isError,    \* Parser::isError, set by error() and read by isFailed()
    stack,      \* the call stack, active frame first
    ret,        \* the result of the call that returned last
    root,       \* what parse() returned, "building" until it returns
    defined,    \* the functions inserted in the root VectorNode
    complained, \* history: is() has printed an "expected ..." message
    declared,   \* history: the names declared since the last `func`
    nesting     \* history: brackets opened minus closed so far, per kind

lexed == <<current, saved, left, nesting>>
tables == <<scope, funcs, declared>>
reports == <<isError, complained>>
result == <<root, defined>>
vars == <<lexed, tables, reports, result, stack, ret>>
-----------------------------------------------------------------------------
(* The call stack.                                                         *)

Labels == {
    "start", "parse", "parse.def",
    "functionDef", "functionDef.name", "functionDef.colon",
    "functionDef.type", "functionDef.body",
    "functionArgs", "functionArgs.var", "functionArgs.sep", "functionArgs.end",
    "statement", "semicolon", "ret", "ioPrint", "_funcall",
    "ifStatement.cond", "ifStatement.true", "whileStmt.cond",
    "doWhileStmt.body", "doWhileStmt.cond",
    "blockStatement", "blockStatement.stmt",
    "assignment", "assignment.rhs",
    "declaration", "declaration.name", "declaration.rhs",
    "expression", "level", "level.rhs", "unary", "unary.NOT", "unary.ADD",
    "factor.paren", "var",
    "funcall", "funcall.close", "funcallArgs", "funcallArgs.arg"}

Frames == [at : Labels, type : TType \cup {NULL}, name : Names \cup {NULL},
           lo : 0..6, hi : 0..6]

NamedFrame(at, type, name) ==
    [at |-> at, type |-> type, name |-> name, lo |-> 0, hi |-> 0]
TypedFrame(at, type) == NamedFrame(at, type, NULL)
Frame(at) == TypedFrame(at, NULL)

\* The nested calls of the six binary precedence levels lo..hi, each waiting
\* for its left operand: 1 lor, 2 land, 3 cmpeq, 4 cmp, 5 additive,
\* 6 multiplicative.
Level(lo, hi) ==
    [at |-> "level", type |-> NULL, name |-> NULL, lo |-> lo, hi |-> hi]
\* Level i waiting for its right operand, its left one being of type lhs.
LevelRhs(i, lhs) ==
    [at |-> "level.rhs", type |-> lhs, name |-> NULL, lo |-> i, hi |-> 0]

At(label) == stack # <<>> /\ Head(stack).at = label
top == Head(stack)

\* The active frame is replaced by calls to make, the innermost first.
Call(frames) == stack' = frames \o Tail(stack) /\ ret' = NULL
Return(value) == stack' = Tail(stack) /\ ret' = value
\* parse() itself returns.
Finish(node) == stack' = <<>> /\ ret' = NULL /\ root' = node
-----------------------------------------------------------------------------
(* Reading tokens.                                                         *)

\* Lexer::lex: the pushed-back token if there is one, else the next token of
\* the file.  Once at its end, the file yields nothing but EOF.
lex(t) ==
    \/ saved # EOF /\ t = saved /\ UNCHANGED left
    \/ saved = EOF /\ t = EOF /\ left' = 0
    \/ saved = EOF /\ t \in Tokens /\ left > 0 /\ left' = left - 1

Count(b) == IF b THEN 1 ELSE 0

\* Parser::next.  The token left behind counts towards the brackets passed.
next(t) ==
    /\ lex(t)
    /\ current' = t
    /\ saved' = EOF
    /\ nesting' =
         [paren |-> nesting.paren + Count(current.type = "PL")
                                  - Count(current.type = "PR"),
          brace |-> nesting.brace + Count(current.type = "BL")
                                  - Count(current.type = "BR")]

\* The idiom lookup = next(); unlex(lookup); current = tmp.
peek(t) ==
    /\ lex(t)
    /\ saved' = t
    /\ UNCHANGED <<current, nesting>>

Readable == Tokens \cup {EOF}

\* error() sets the flag that isFailed() reports.
error == isError' = TRUE /\ UNCHANGED complained
\* is() without aSuppress prints its complaint and nothing else.
complain == complained' = TRUE /\ UNCHANGED isError
quiet == UNCHANGED reports

\* The three ways a handler gives up: after error(), after a complaint of
\* is(), and without a word.
Fail == error /\ Return(NULL)
Reject == complain /\ Return(NULL)
GiveUp == quiet /\ Return(NULL)

\* Mutant: find() in place of operator[], its result not tested.
LookupFinds(map, name) == map

\* std::map::operator[]: looking a missing key up inserts a null pointer.
Lookup(map, name) == [map EXCEPT ![name] = IF @ = ABSENT THEN NULL ELSE @]
\* Mutant: insert_or_assign() in place of insert().
InsertOverwrites(map, name, type) == [map EXCEPT ![name] = type]

\* std::map::insert: an existing key keeps its value, a null one included.
Insert(map, name, type) == [map EXCEPT ![name] = IF @ = ABSENT THEN type ELSE @]
-----------------------------------------------------------------------------
(* parse, functionDef, functionArgs                                        *)

\* parse(): the first token is read before the loop.
Start ==
    /\ At("start")
    /\ \E t \in Readable : next(t)
    /\ Call(<<Frame("parse")>>)
    /\ quiet /\ UNCHANGED <<tables, result>>

\* The loop of parse() at ERROR_TOKEN or at the end of the file.
ParseEnd ==
    /\ At("parse")
    /\ \/ current.type = "ERROR_TOKEN" /\ Finish("DummyNode")
       \/ current = EOF /\ Finish("VectorNode")
    /\ quiet /\ UNCHANGED <<lexed, tables, defined>>

ParseFunc ==
    /\ At("parse")
    /\ current.type = "FUNC"
    /\ Call(<<Frame("functionDef"), Frame("parse.def")>>)
    /\ quiet /\ UNCHANGED <<lexed, tables, result>>

\* Mutant: the call of next() that the comment at Parser.cpp:65 is about is
\* missing.
ParseDefaultStays ==
    /\ At("parse")
    /\ current.type \notin {"ERROR_TOKEN", "EOF_TOKEN", "FUNC"}
    /\ error
    /\ Call(<<Frame("parse")>>)
    /\ UNCHANGED <<lexed, tables, result>>

\* A stray token at top level is reported and skipped.
ParseDefault ==
    /\ At("parse")
    /\ current.type \notin {"ERROR_TOKEN", "EOF_TOKEN", "FUNC"}
    /\ error
    /\ \E t \in Readable : next(t)
    /\ Call(<<Frame("parse")>>)
    /\ UNCHANGED <<tables, result>>

\* Mutant: a definition that failed is skipped and parsing goes on.
ParseDefContinues ==
    /\ At("parse.def")
    /\ defined' = IF ret = NULL THEN defined ELSE defined \cup {ret}
    /\ Call(<<Frame("parse")>>)
    /\ quiet /\ UNCHANGED <<lexed, tables, root>>

\* functionDef() has returned to parse().
ParseDef ==
    /\ At("parse.def")
    /\ \/ ret = NULL /\ Finish("DummyNode") /\ UNCHANGED defined
       \/ /\ ret # NULL
          /\ defined' = defined \cup {ret}
          /\ Call(<<Frame("parse")>>)
          /\ UNCHANGED root
    /\ quiet /\ UNCHANGED <<lexed, tables>>

\* Mutant: scope.clear() is missing.
FunctionDefNoClear ==
    /\ At("functionDef")
    /\ declared' = {}
    /\ \E t \in Readable :
         /\ next(t)
         /\ \/ t.type # "SYMBOL" /\ Reject
            \/ /\ t.type = "SYMBOL"
               /\ Call(<<NamedFrame("functionDef.name", NULL, t.lexeme)>>)
               /\ quiet
    /\ UNCHANGED <<scope, funcs, result>>

\* functionDef(): scope.clear(), then the name.
FunctionDef ==
    /\ At("functionDef")
    /\ scope' = [n \in Names |-> ABSENT]
    /\ declared' = {}
    /\ \E t \in Readable :
         /\ next(t)
         /\ \/ t.type # "SYMBOL" /\ Reject
            \/ /\ t.type = "SYMBOL"
               /\ Call(<<NamedFrame("functionDef.name", NULL, t.lexeme)>>)
               /\ quiet
    /\ UNCHANGED <<funcs, result>>

\* The token after the name decides whether there is a parameter list.
FunctionDefName ==
    /\ At("functionDef.name")
    /\ LET colon == NamedFrame("functionDef.colon", NULL, top.name)
       IN \E t \in Readable :
            /\ next(t)
            /\ \/ t.type = "PL" /\ Call(<<Frame("functionArgs"), colon>>)
               \/ t.type # "PL" /\ Call(<<colon>>)
    /\ quiet /\ UNCHANGED <<tables, result>>

FunctionDefColon ==
    /\ At("functionDef.colon")
    /\ \/ current.type # "COLON" /\ Reject /\ UNCHANGED lexed
       \/ /\ current.type = "COLON"
          /\ \E t \in Readable :
               /\ next(t)
               /\ \/ t.type # "TYPE" /\ Reject
                  \/ /\ t.type = "TYPE"
                     /\ Call(<<NamedFrame("functionDef.type",
                                          fromString(t.lexeme), top.name)>>)
                     /\ quiet
    /\ UNCHANGED <<tables, result>>

\* The function is registered before its body is parsed.
FunctionDefType ==
    /\ At("functionDef.type")
    /\ funcs' = Insert(funcs, top.name, top.type)
    /\ \E t \in Readable : next(t)
    /\ Call(<<Frame("statement"),
              NamedFrame("functionDef.body", NULL, top.name)>>)
    /\ quiet /\ UNCHANGED <<scope, declared, result>>

FunctionDefBody ==
    /\ At("functionDef.body")
    /\ Return(IF ret = NULL THEN NULL ELSE top.name)
    /\ quiet /\ UNCHANGED <<lexed, tables, result>>

\* functionArgs(): past `(` or `,`, the next parameter or the end.
FunctionArgs ==
    /\ At("functionArgs")
    /\ \E t \in Readable :
         /\ next(t)
         /\ \/ t.type = "PR" /\ Call(<<Frame("functionArgs.end")>>) /\ quiet
            \/ t.type \notin {"PR", "TYPE"} /\ Reject
            \/ /\ t.type = "TYPE"
               /\ Call(<<TypedFrame("functionArgs.var", fromString(t.lexeme))>>)
               /\ quiet
    /\ UNCHANGED <<tables, result>>

\* functionDef() puts the parameters in scope once functionArgs() is back;
\* nothing reads scope in between, so they are entered here as they are met.
FunctionArgsVar ==
    /\ At("functionArgs.var")
    /\ \E t \in Readable :
         /\ next(t)
         /\ \/ t.type # "SYMBOL" /\ Reject /\ UNCHANGED <<scope, declared>>
            \/ /\ t.type = "SYMBOL"
               /\ scope' = Insert(scope, t.lexeme, top.type)
               /\ declared' = declared \cup {t.lexeme}
               /\ Call(<<Frame("functionArgs.sep")>>) /\ quiet
    /\ UNCHANGED <<funcs, result>>

FunctionArgsSep ==
    /\ At("functionArgs.sep")
    /\ \E t \in Readable :
         /\ next(t)
         /\ \/ t.type = "COMMA" /\ Call(<<Frame("functionArgs")>>) /\ quiet
            \/ t.type = "PR" /\ Call(<<Frame("functionArgs.end")>>) /\ quiet
            \/ t.type \notin {"COMMA", "PR"} /\ Reject
    /\ UNCHANGED <<tables, result>>

FunctionArgsEnd ==
    /\ At("functionArgs.end")
    /\ \E t \in Readable : next(t)
    /\ Return(NULL)
    /\ quiet /\ UNCHANGED <<tables, result>>
-----------------------------------------------------------------------------
(* Statements                                                              *)

\* statement() at the tokens that start no statement: only the end of the
\* file is reported.
StatementNone ==
    /\ At("statement")
    /\ \/ current = EOF /\ Fail
       \/ /\ current.type \notin {"EOF_TOKEN", "BL", "IF", "WHILE", "DO", "TYPE",
                                  "SYMBOL", "IO_PRINT", "RETURN"}
          /\ GiveUp
    /\ UNCHANGED <<lexed, tables, result>>

\* The statements whose handler begins by reading past `{` or `do`.
StatementNested ==
    /\ At("statement")
    /\ \/ current.type = "BL" /\ Call(<<Frame("blockStatement")>>)
       \/ /\ current.type = "DO"
          /\ Call(<<Frame("statement"), Frame("doWhileStmt.body")>>)
    /\ \E t \in Readable : next(t)
    /\ quiet /\ UNCHANGED <<tables, result>>

\* The statements whose handler begins with expression() or declaration().
StatementSimple ==
    /\ At("statement")
    /\ LET expr == Frame("expression")
           semicolon == Frame("semicolon")
       IN \/ /\ current.type = "IF"
             /\ Call(<<expr, Frame("ifStatement.cond")>>)
          \/ /\ current.type = "WHILE"
             /\ Call(<<expr, Frame("whileStmt.cond")>>)
          \/ /\ current.type = "RETURN"
             /\ Call(<<expr, Frame("ret"), semicolon>>)
          \/ /\ current.type = "IO_PRINT"
             /\ Call(<<expr, Frame("ioPrint"), semicolon>>)
          \/ /\ current.type = "TYPE"
             /\ Call(<<Frame("declaration"), semicolon>>)
    /\ quiet /\ UNCHANGED <<lexed, tables, result>>

\* A name starts a call or an assignment: the token after it tells, and is
\* pushed back.
StatementSymbol ==
    /\ At("statement")
    /\ current.type = "SYMBOL"
    /\ \E t \in Readable :
         /\ peek(t)
         /\ \/ /\ t.type = "PL"
               /\ Call(<<Frame("funcall"), Frame("_funcall"), Frame("semicolon")>>)
            \/ /\ t.type # "PL"
               /\ Call(<<Frame("assignment"), Frame("semicolon")>>)
    /\ quiet /\ UNCHANGED <<tables, result>>

\* The optional `;` is skipped whether or not the statement was parsed.
Semicolon ==
    /\ At("semicolon")
    /\ \/ current.type = "SEMICOLON" /\ \E t \in Readable : next(t)
       \/ current.type # "SEMICOLON" /\ UNCHANGED lexed
    /\ Return(ret)
    /\ quiet /\ UNCHANGED <<tables, result>>

\* ret(), ioPrint() and _funcall() wrap an expression; the first two report
\* a missing one.
WrapExpression ==
    /\ \/ (At("ret") \/ At("ioPrint")) /\ ret = NULL /\ Fail
       \/ At("_funcall") /\ ret = NULL /\ GiveUp
       \/ /\ At("ret") \/ At("ioPrint") \/ At("_funcall")
          /\ ret # NULL
          /\ Return("Statement") /\ quiet
    /\ UNCHANGED <<lexed, tables, result>>

\* if, while and do-while insist on a condition of type BOOL.
BadCondition ==
    \/ ret = NULL /\ GiveUp
    \/ ret \notin {NULL, "BOOL"} /\ Fail

IfWhileCond ==
    /\ \/ (At("ifStatement.cond") \/ At("whileStmt.cond")) /\ BadCondition
       \/ /\ At("ifStatement.cond")
          /\ ret = "BOOL"
          /\ Call(<<Frame("statement"), Frame("ifStatement.true")>>) /\ quiet
       \/ /\ At("whileStmt.cond")
          /\ ret = "BOOL"
          /\ Call(<<Frame("statement")>>) /\ quiet
    /\ UNCHANGED <<lexed, tables, result>>

\* ifStatement() returns what its else branch returns, if there is one.
IfTrue ==
    /\ At("ifStatement.true")
    /\ \/ ret = NULL /\ GiveUp /\ UNCHANGED lexed
       \/ /\ ret # NULL
          /\ current.type = "ELSE"
          /\ \E t \in Readable : next(t)
          /\ Call(<<Frame("statement")>>) /\ quiet
       \/ /\ ret # NULL
          /\ current.type # "ELSE"
          /\ Return("Statement") /\ quiet
          /\ UNCHANGED lexed
    /\ UNCHANGED <<tables, result>>

DoWhile ==
    /\ \/ At("doWhileStmt.body") /\ ret = NULL /\ GiveUp
       \/ At("doWhileStmt.body") /\ ret # NULL /\ current.type # "WHILE" /\ Reject
       \/ /\ At("doWhileStmt.body")
          /\ ret # NULL
          /\ current.type = "WHILE"
          /\ Call(<<Frame("expression"), Frame("doWhileStmt.cond")>>) /\ quiet
       \/ At("doWhileStmt.cond") /\ BadCondition
       \/ At("doWhileStmt.cond") /\ ret = "BOOL" /\ Return("Statement") /\ quiet
    /\ UNCHANGED <<lexed, tables, result>>

\* The loop of blockStatement().
BlockStatement ==
    /\ At("blockStatement")
    /\ \/ /\ current.type = "BR"
          /\ \E t \in Readable : next(t)
          /\ Return("Statement") /\ quiet
       \/ current = EOF /\ Reject /\ UNCHANGED lexed
       \/ /\ current.type \notin {"BR", "EOF_TOKEN"}
          /\ Call(<<Frame("statement"), Frame("blockStatement.stmt")>>) /\ quiet
          /\ UNCHANGED lexed
    /\ UNCHANGED <<tables, result>>

BlockStatementStmt ==
    /\ At("blockStatement.stmt")
    /\ \/ ret = NULL /\ Return(NULL)
       \/ ret # NULL /\ Call(<<Frame("blockStatement")>>)
    /\ quiet /\ UNCHANGED <<lexed, tables, result>>

\* assignment(): scope[name] enters an undeclared name in the table.
Assignment ==
    /\ At("assignment")
    /\ scope' = Lookup(scope, current.lexeme)
    /\ \/ scope'[current.lexeme] = NULL /\ Fail /\ UNCHANGED lexed
       \/ /\ scope'[current.lexeme] # NULL
          /\ \E t \in Readable :
               /\ next(t)
               /\ \/ t.type # "ASSIGN" /\ Reject
                  \/ /\ t.type = "ASSIGN"
                     /\ Call(<<Frame("expression"),
                               TypedFrame("assignment.rhs",
                                          scope[current.lexeme])>>)
                     /\ quiet
    /\ UNCHANGED <<funcs, declared, result>>

\* A boolean goes into a boolean, a number into a number.
Assignable(lhs, rhs) == (lhs = "BOOL") <=> (rhs = "BOOL")

AssignmentRhs ==
    /\ At("assignment.rhs")
    /\ \/ (ret = NULL \/ ~Assignable(top.type, ret)) /\ Fail
       \/ /\ ret # NULL
          /\ Assignable(top.type, ret)
          /\ Return("Statement") /\ quiet
    /\ UNCHANGED <<lexed, tables, result>>

\* declaration(): a name that scope already holds, even with a null entry,
\* is refused.
Declaration ==
    /\ At("declaration")
    /\ \E t \in Readable :
         /\ next(t)
         /\ \/ t.type # "SYMBOL" /\ Reject
            \/ t.type = "SYMBOL" /\ scope[t.lexeme] # ABSENT /\ Fail
            \/ /\ t.type = "SYMBOL"
               /\ scope[t.lexeme] = ABSENT
               /\ Call(<<NamedFrame("declaration.name",
                                    fromString(current.lexeme), t.lexeme)>>)
               /\ quiet
    /\ UNCHANGED <<tables, result>>

DeclarationName ==
    /\ At("declaration.name")
    /\ \E t \in Readable :
         /\ next(t)
         /\ \/ t.type # "ASSIGN" /\ Reject
            \/ /\ t.type = "ASSIGN"
               /\ Call(<<Frame("expression"),
                         NamedFrame("declaration.rhs", top.type, top.name)>>)
               /\ quiet
    /\ UNCHANGED <<tables, result>>

\* The variable enters the scope only after its initialiser was parsed.
DeclarationRhs ==
    /\ At("declaration.rhs")
    /\ \/ /\ ret = NULL \/ ~Assignable(top.type, ret)
          /\ Fail
          /\ UNCHANGED <<scope, declared>>
       \/ /\ ret # NULL
          /\ Assignable(top.type, ret)
          /\ scope' = Insert(scope, top.name, top.type)
          /\ declared' = declared \cup {top.name}
          /\ Return("Statement") /\ quiet
    /\ UNCHANGED <<lexed, funcs, result>>
-----------------------------------------------------------------------------
(* Expressions                                                             *)

Operator == <<"LOR", "LAND", "CMP_EQ", "CMP", "ADD", "MUL">>

\* The operands a binary level refuses: && and || want booleans, == and !=
\* take anything, the others want anything but a boolean.
BadOperands(i, lhs, rhs) ==
    \/ i \in {1, 2} /\ (lhs # "BOOL" \/ rhs # "BOOL")
    \/ i \in {4, 5, 6} /\ (lhs = "BOOL" \/ rhs = "BOOL")

BinaryType(i, lhs, rhs) ==
    CASE i \in 1..4                                       -> "BOOL"
      [] i \in {5, 6} /\ (lhs = "FLOAT" \/ rhs = "FLOAT") -> "FLOAT"
      [] OTHER                                            -> "INTEGER"

\* expression() reads past the token before the expression.
Expression ==
    /\ At("expression")
    /\ \E t \in Readable :
         /\ next(t)
         /\ \/ t = EOF /\ Fail
            \/ t # EOF /\ Call(<<Frame("unary"), Level(1, 6)>>) /\ quiet
    /\ UNCHANGED <<tables, result>>

\* An operand is back.  The innermost level whose operator is current reads
\* it and parses its own level again for the right operand; the levels
\* outside it go on waiting; if none matches, all of them return.
BinaryLevel ==
    /\ At("level")
    /\ \/ \E i \in top.lo..top.hi :
            /\ ret # NULL
            /\ current.type = Operator[i]
            /\ \E t \in Readable : next(t)
            /\ Call(<<Frame("unary"), Level(i, 6), LevelRhs(i, ret),
                      Level(top.lo, i - 1)>>)
       \/ /\ ret = NULL \/ \A i \in top.lo..top.hi : current.type # Operator[i]
          /\ Return(ret)
          /\ UNCHANGED lexed
    /\ quiet /\ UNCHANGED <<tables, result>>

BinaryRhs ==
    /\ At("level.rhs")
    /\ \/ (ret = NULL \/ BadOperands(top.lo, top.type, ret)) /\ Fail
       \/ /\ ret # NULL
          /\ ~BadOperands(top.lo, top.type, ret)
          /\ Return(BinaryType(top.lo, top.type, ret)) /\ quiet
    /\ UNCHANGED <<lexed, tables, result>>

\* unary() at an operator, factor() at `(`: read on and parse the operand.
UnaryNested ==
    /\ At("unary")
    /\ \/ current.type = "NOT" /\ Call(<<Frame("unary"), Frame("unary.NOT")>>)
       \/ current.type = "ADD" /\ Call(<<Frame("unary"), Frame("unary.ADD")>>)
       \/ /\ current.type = "PL"
          /\ Call(<<Frame("unary"), Level(1, 6), Frame("factor.paren")>>)
    /\ \E t \in Readable : next(t)
    /\ quiet /\ UNCHANGED <<tables, result>>

\* ! wants a boolean, + and - want anything else; the type is the operand's.
UnaryOperand ==
    /\ \/ At("unary.NOT") \/ At("unary.ADD")
    /\ LET good == IF At("unary.NOT") THEN ret = "BOOL"
                                      ELSE ret \notin {NULL, "BOOL"}
       IN (good /\ Return(ret) /\ quiet) \/ (~good /\ Fail)
    /\ UNCHANGED <<lexed, tables, result>>

\* Mutant: the `)` is tested but not read past.
FactorParenStays ==
    /\ At("factor.paren")
    /\ \/ current.type # "PR" /\ Reject
       \/ current.type = "PR" /\ Return(ret) /\ quiet
    /\ UNCHANGED <<lexed, tables, result>>

FactorParen ==
    /\ At("factor.paren")
    /\ \/ current.type # "PR" /\ Reject /\ UNCHANGED lexed
       \/ /\ current.type = "PR"
          /\ \E t \in Readable : next(t)
          /\ Return(ret) /\ quiet
    /\ UNCHANGED <<tables, result>>

\* factor() at a name: a call if `(` follows, else a variable.
FactorSymbol ==
    /\ At("unary")
    /\ current.type = "SYMBOL"
    /\ \E t \in Readable :
         /\ peek(t)
         /\ Call(<<Frame(IF t.type = "PL" THEN "funcall" ELSE "var")>>)
    /\ quiet /\ UNCHANGED <<tables, result>>

\* constant(), boolean(), intgr(), flt(): the literal is read past before
\* std::stoi or std::stof may throw.
Constant ==
    /\ At("unary")
    /\ \/ /\ current.type \in {"BOOL", "INTEGER", "FLOAT"}
          /\ \E t \in Readable : next(t)
          /\ \/ current.lexeme = "huge" /\ Fail
             \/ current.lexeme # "huge" /\ Return(current.type) /\ quiet
       \/ /\ current.type \notin {"NOT", "ADD", "PL", "SYMBOL",
                                  "BOOL", "INTEGER", "FLOAT"}
          /\ GiveUp
          /\ UNCHANGED lexed
    /\ UNCHANGED <<tables, result>>

\* Mutant: an unknown variable is complained about as is() does it, without
\* setting isError.
VarComplains ==
    /\ At("var")
    /\ \E t \in Readable : next(t)
    /\ scope' = Lookup(scope, current.lexeme)
    /\ \/ scope'[current.lexeme] = NULL /\ complain /\ Return(UNDEFINED)
       \/ /\ scope'[current.lexeme] # NULL
          /\ Return(scope[current.lexeme]) /\ quiet
    /\ UNCHANGED <<funcs, declared, result>>

\* Mutant: var() does not read past the variable.
VarStays ==
    /\ At("var")
    /\ scope' = Lookup(scope, current.lexeme)
    /\ \/ scope'[current.lexeme] = NULL /\ error /\ Return(UNDEFINED)
       \/ /\ scope'[current.lexeme] # NULL
          /\ Return(scope[current.lexeme]) /\ quiet
    /\ UNCHANGED <<lexed, funcs, declared, result>>

\* var(): an unknown variable is reported, and parsing goes on with a node
\* of type UNDEFINED.
Var ==
    /\ At("var")
    /\ \E t \in Readable : next(t)
    /\ scope' = Lookup(scope, current.lexeme)
    /\ \/ scope'[current.lexeme] = NULL /\ error /\ Return(UNDEFINED)
       \/ /\ scope'[current.lexeme] # NULL
          /\ Return(scope[current.lexeme]) /\ quiet
    /\ UNCHANGED <<funcs, declared, result>>

\* funcall(): an unknown function leaves the `(` pushed back.  Otherwise
\* funcallArgs() starts by taking it.
Funcall ==
    /\ At("funcall")
    /\ funcs' = Lookup(funcs, current.lexeme)
    /\ \/ funcs'[current.lexeme] = NULL /\ Fail /\ UNCHANGED lexed
       \/ /\ funcs'[current.lexeme] # NULL
          /\ \E t \in Readable : next(t)
          /\ Call(<<Frame("funcallArgs"),
                    TypedFrame("funcall.close", funcs[current.lexeme])>>)
          /\ quiet
    /\ UNCHANGED <<scope, declared, result>>

\* funcallArgs() looks past `(`: a `)` is consumed, anything else is pushed
\* back for expression() to read.
FuncallArgs ==
    /\ At("funcallArgs")
    /\ \E t \in Readable :
         \/ t.type = "PR" /\ next(t) /\ Return(NULL)
         \/ /\ t.type # "PR"
            /\ peek(t)
            /\ Call(<<Frame("expression"), Frame("funcallArgs.arg")>>)
    /\ quiet /\ UNCHANGED <<tables, result>>

\* After an argument.  Neither a missing argument nor a missing `)` makes
\* the call itself fail.
FuncallArgsArg ==
    /\ At("funcallArgs.arg")
    /\ \/ ret = NULL /\ Fail
       \/ /\ ret # NULL
          /\ current.type = "COMMA"
          /\ Call(<<Frame("expression"), Frame("funcallArgs.arg")>>) /\ quiet
       \/ ret # NULL /\ current.type = "PR" /\ Return(NULL) /\ quiet
       \/ ret # NULL /\ current.type \notin {"COMMA", "PR"} /\ Reject
    /\ UNCHANGED <<lexed, tables, result>>

\* funcall() skips one token, which should be the `)`.
FuncallClose ==
    /\ At("funcall.close")
    /\ \E t \in Readable : next(t)
    /\ Return(top.type)
    /\ quiet /\ UNCHANGED <<tables, result>>
-----------------------------------------------------------------------------
(* The specification                                                       *)

Init ==
    /\ current = EOF
    /\ saved = EOF
    /\ left = MaxTokens
    /\ scope = [n \in Names |-> ABSENT]
    /\ funcs = [n \in Names |-> ABSENT]
    /\ isError = FALSE
    /\ stack = <<Frame("start")>>
    /\ ret = NULL
    /\ root = "building"
    /\ defined = {}
    /\ complained = FALSE
    /\ declared = {}
    /\ nesting = [paren |-> 0, brace |-> 0]

TopLevel ==
    \/ Start \/ ParseEnd \/ ParseFunc \/ ParseDefault \/ ParseDef
    \/ FunctionDef \/ FunctionDefName \/ FunctionDefColon \/ FunctionDefType
    \/ FunctionDefBody
    \/ FunctionArgs \/ FunctionArgsVar \/ FunctionArgsSep \/ FunctionArgsEnd

Statements ==
    \/ StatementNone \/ StatementNested \/ StatementSimple \/ StatementSymbol
    \/ Semicolon \/ WrapExpression \/ IfWhileCond \/ IfTrue \/ DoWhile
    \/ BlockStatement \/ BlockStatementStmt
    \/ Assignment \/ AssignmentRhs
    \/ Declaration \/ DeclarationName \/ DeclarationRhs

Expressions ==
    \/ Expression \/ BinaryLevel \/ BinaryRhs \/ UnaryNested \/ UnaryOperand
    \/ FactorParen \/ FactorSymbol \/ Constant \/ Var
    \/ Funcall \/ FuncallArgs \/ FuncallArgsArg \/ FuncallClose

\* parse() has returned.
Done == stack = <<>> /\ UNCHANGED vars

Next == TopLevel \/ Statements \/ Expressions \/ Done

\* The parser is one thread that nothing blocks: it takes a step while it can.
Spec == Init /\ [][Next]_vars /\ WF_vars(Next)
-----------------------------------------------------------------------------
(* Properties                                                              *)

\* Every member of the parser holds a value of its C++ type.
TypeOK ==
    /\ current \in AllTokens \cup {EOF}
    /\ saved \in AllTokens \cup {EOF}
    /\ left \in 0..MaxTokens
    /\ scope \in [Names -> TType \cup {NULL, ABSENT}]
    /\ funcs \in [Names -> TType \cup {NULL, ABSENT}]
    /\ isError \in BOOLEAN
    /\ stack \in Seq(Frames)
    /\ ret \in TType \cup Names \cup {NULL, "Statement"}
    /\ root \in {"building", "VectorNode", "DummyNode"}
    /\ defined \subseteq Names
    /\ complained \in BOOLEAN
    /\ declared \subseteq Names
    /\ nesting \in [paren : Int, brace : Int]

\* A type UNDEFINED in an expression or in a handler's locals, and a null
\* entry left in a symbol table by operator[], exist only once error() was
\* called: the code generator, which runs only if isFailed() is false, meets
\* neither a variable without a type nor a function without a definition.
NullOnlyAfterError ==
    \/ isError
    \/ /\ ret # UNDEFINED
       /\ \A i \in 1..Len(stack) : stack[i].type # UNDEFINED
       /\ \A n \in Names : {scope[n], funcs[n]} \subseteq Types \cup {ABSENT}

\* A variable in scope was declared by the function being parsed, as a
\* parameter or in its body: functionDef() leaves nothing of an earlier
\* function visible.
NoScopeLeak == \A n \in Names : scope[n] \in Types => n \in declared

\* When parse() returns a VectorNode, a function that calls resolve to is one
\* that it holds, although functionDef() registers a function before it knows
\* that its body parses.  The converse needs a clean parse: the null entry of
\* an earlier undefined call keeps a later definition out of funcs.
FuncsAreDefined ==
    root = "VectorNode" =>
        LET callable == {n \in Names : funcs[n] \in Types}
        IN callable \subseteq defined /\ (isError \/ callable = defined)

\* How many frames of the call stack are at one of the points.
FramesAt(points) == Cardinality({i \in 1..Len(stack) : stack[i].at \in points})

\* As long as nothing was reported, the parser stands at a statement with all
\* parentheses closed and exactly the braces open that belong to the calls of
\* blockStatement() under way; at top level every bracket is closed.
BracketsMatch ==
    At("parse") \/ At("statement") \/ At("blockStatement") =>
        \/ isError
        \/ complained
        \/ nesting = [paren |-> 0,
                      brace |-> FramesAt({"blockStatement", "blockStatement.stmt"})]

\* A token pushed back by unlex() is read again before its function
\* definition ends, unless an error was reported: no lookahead survives into
\* the next definition.
LookaheadConsumed == At("parse") /\ saved # EOF => isError

\* The first definition of a function is the one calls are typed by, and an
\* error once reported stays reported.
Monotone ==
    [][/\ \A n \in Names : funcs[n] \in Types => funcs'[n] = funcs[n]
       /\ isError => isError']_vars

\* What tests/test_parser_error_recovery.sh asks for: a program the parser
\* gave up on (a DummyNode) has been reported, by error() or by is().
FailuresAreReported == root = "DummyNode" => isError \/ complained

\* parse() returns whatever the file holds.
Termination == <>(stack = <<>>)

=============================================================================
