------------------------------ MODULE Codegen ------------------------------
(***************************************************************************)
(* Parser/Codegen.h: the visitor that turns the AST into LLVM IR.          *)
(*                                                                         *)
(* `stack` is the call stack of the visitor, active frame first; a frame   *)
(* waits for the child it visited and then goes on.  IR is kept as far as  *)
(* its validity depends on it: basic blocks with their terminators, the    *)
(* block instructions go to, the type and defining block of the values on  *)
(* the operand stack, the type and block of allocas, and which block used  *)
(* a value of which other.                                                 *)
(*                                                                         *)
(* The AST is chosen while it is visited, among those a clean parse can    *)
(* hand over: an expression is asked for by its TType, and the names it    *)
(* may mention are the ones in the parser's tables at that point (`scope`, *)
(* flat over a function, and `sigs`, where the first definition of a       *)
(* function wins).  A node is free where it cannot make the AST grow       *)
(* without bound, else it takes one of MaxNodes.                           *)
(***************************************************************************)
EXTENDS Token, Integers, Sequences, FiniteSets

CONSTANTS MaxNodes,     \* a bound on the nodes of the AST
          MaxParams,    \* a bound on the parameters, and arguments, of a function
          UsedTypes,    \* the types that the programs use
          Forms         \* the forms below that the programs use

\* The nodes that an AST grows by, and four forms that the parser lets
\* through although something in the code generator does not expect them:
\* bareDeclaration, a branch or loop body that is no block and makes a
\* variable; mixedEquality, == and != between a boolean and a number;
\* redefinition, two functions of one name; duplicateParams, two parameters
\* of one name.
NodeForms == {"BinaryNode", "UnaryNode", "FuncallNode", "BlockStatementNode",
              "IfStatementNode", "WhileStatementNode", "DoWhileStatementNode"}
OddForms == {"bareDeclaration", "mixedEquality", "redefinition", "duplicateParams"}

\* One program uses finitely many names.
ASSUME IdentifiersAssumption == IsFiniteSet(Names)
ASSUME MaxNodesAssumption == MaxNodes \in Nat
ASSUME MaxParamsAssumption == MaxParams \in Nat
ASSUME UsedTypesAssumption == UsedTypes \subseteq Types /\ "BOOL" \in UsedTypes
ASSUME FormsAssumption == Forms \subseteq NodeForms \cup OddForms

VARIABLES
    isSuccess,  \* Codegen::isSuccess, cleared by error()
    operands,   \* Codegen::operands, the values that visits return; top last
    scopeStack, \* Codegen::scopeStack, innermost scope last
    funcs,      \* Codegen::funcs and astFuncs, by name
    currentFunc,\* the name of Codegen::currentFunc
    blocks,     \* the basic blocks made for the current function
    insert,     \* the block that the IRBuilder inserts into
    accesses,   \* history: <<block of a definition, block of its use>>
    stack,      \* the visitor's call stack, active frame first
    nodes,      \* how many AST nodes may still be chosen
    scope,      \* Parser::scope where the visit is, name -> TType
    sigs,       \* Parser::funcs where the visit is, name -> TType
    gone,       \* history: names declared in a block that ended or was cut short
    odd         \* history: the OddForms that the AST holds so far

ir == <<blocks, insert, accesses>>
syms == <<scopeStack, funcs, currentFunc>>
ast == <<scope, sigs, nodes, gone, odd>>
vars == <<isSuccess, operands, syms, ir, stack, ast>>
-----------------------------------------------------------------------------
(* Values, slots, scopes                                                   *)

LLVMTypes == {"i1", "i32", "float"}

\* Mutant: booleans are forgotten.
toLLVMTypeNoBool(type) ==
    CASE type = "INTEGER" -> "i32"
      [] type = "FLOAT"   -> "float"
      [] OTHER            -> "void"

toLLVMType(type) ==
    CASE type = "BOOL"  -> "i1"
      [] type = "FLOAT" -> "float"
      [] OTHER          -> "i32"

\* An instruction result, and an alloca: its type, and the block it is in.
\* A constant counts as defined in the entry block, which dominates all.
Value(type, block) == [type |-> type, block |-> block]
NoSlot == Value("none", 0)
Constant(type) == Value(toLLVMType(type), 1)

\* cast(): the value itself if it already has the type.
cast(value, type) ==
    IF value.type = toLLVMType(type) THEN value ELSE Value(toLLVMType(type), insert)

push(value) == operands' = Append(operands, value)
pop == SubSeq(operands, 1, Len(operands) - 1)
topValue == operands[Len(operands)]

EmptyScope == [n \in Names |-> NoSlot]

\* Mutant: only the innermost scope is searched.
lookupInnermost(scopes, name) == scopes[Len(scopes)][name]

\* ScopeStack::lookup: innermost to outermost.
lookup(scopes, name) ==
    LET holders == {i \in 1..Len(scopes) : scopes[i][name] # NoSlot}
    IN IF holders = {} THEN NoSlot
       ELSE scopes[CHOOSE i \in holders : \A j \in holders : j <= i][name]

\* Mutant: the name is bound in the outermost scope, as before ScopeStack.
declareOutermost(scopes, name, slot) == [scopes EXCEPT ![1][name] = slot]

\* ScopeStack::declare: binds in the innermost scope.
declare(scopes, name, slot) == [scopes EXCEPT ![Len(scopes)][name] = slot]

NoFunction == [type |-> NULL, params |-> <<>>]
-----------------------------------------------------------------------------
(* Basic blocks                                                            *)

Ends == {"open", "br", "ret", "unreachable", "broken"}

\* BasicBlock::Create with and without a parent function.
Attached == [attached |-> TRUE, end |-> "open", succs |-> {}]
Detached == [attached |-> FALSE, end |-> "open", succs |-> {}]

Terminated == blocks[insert].end # "open"
Insertable(bbs, b) == bbs[b].attached /\ bbs[b].end = "open"

\* Inserting an instruction or a terminator.  What LLVM does with a block
\* that is detached (a null dereference) or already terminated (invalid IR)
\* is kept as the end "broken".
Emit(bbs) ==
    IF Insertable(bbs, insert) THEN bbs ELSE [bbs EXCEPT ![insert].end = "broken"]
Terminate(bbs, end, succs) ==
    IF Insertable(bbs, insert)
      THEN [bbs EXCEPT ![insert] = [@ EXCEPT !.end = end, !.succs = succs]]
      ELSE [bbs EXCEPT ![insert].end = "broken"]
Attach(bbs, b) == [bbs EXCEPT ![b].attached = TRUE]

\* The instruction being inserted uses these values.  The entry block, which
\* dominates all, and the block itself need no record.
Using(values) ==
    accesses \cup {<<value.block, insert>> :
                     value \in {v \in values : v.block \notin {1, insert}}}
-----------------------------------------------------------------------------
(* The call stack                                                          *)

\* What a frame waits for, with the locals it still needs: `type` is the
\* TType of the expression being visited, `kind` the operator, `other` the
\* type of the other operand, `slot` an alloca, `bbs` blocks, and `args` the
\* arguments of a call still to be visited.
Frame(at) == [at |-> at, type |-> NULL, kind |-> NULL, other |-> NULL,
              name |-> NULL, slot |-> NoSlot, bbs |-> <<>>, args |-> <<>>]
Expr(type) == [Frame("expr") EXCEPT !.type = type]
Await(at, type) == [Frame(at) EXCEPT !.type = type]

At(label) == stack # <<>> /\ Head(stack).at = label
top == Head(stack)

Call(frames) == stack' = frames \o Tail(stack)
Return == stack' = Tail(stack)

\* One more node of the AST.
Spend == nodes > 0 /\ nodes' = nodes - 1
Visit(label, form) == At(label) /\ form \in Forms /\ Spend
sameTables == UNCHANGED <<scope, sigs, gone, odd>>

\* The form is met where the condition holds.
Odd(form, condition) ==
    /\ condition => form \in Forms
    /\ odd' = odd \cup IF condition THEN {form} ELSE {}

\* error(): the flag that isFailed() reports.
Error == isSuccess' = FALSE

\* The points where a handler goes on after visiting an expression.
AfterExpr == {"BinaryNode.lhs", "BinaryNode.rhs", "UnaryNode", "FuncallNode",
              "AssignmentNode", "IoPrintNode", "ReturnNode",
              "IfStatementNode.cond", "WhileStatementNode.cond",
              "DoWhileStatementNode.cond"}
\* ... and after visiting a statement.
AfterStatement == {"IfStatementNode.true", "IfStatementNode.false",
                   "WhileStatementNode.body", "DoWhileStatementNode.body",
                   "FunctionDefNode", "BlockStatementNode.stmt"}

Resume(label) == At(label) /\ isSuccess
-----------------------------------------------------------------------------
(* Expressions                                                             *)

ConstantNode ==
    /\ At("expr")
    /\ push(Constant(top.type))
    /\ Return
    /\ UNCHANGED <<isSuccess, syms, ir, ast>>

\* visit(VarNode): a load from the alloca that the name is bound to.
VarNode ==
    /\ At("expr")
    /\ \E n \in Names :
         LET slot == lookup(scopeStack, n)
         IN /\ scope[n] = top.type
            /\ \/ /\ slot = NoSlot
                  /\ Error
                  /\ UNCHANGED <<operands, blocks, accesses>>
               \/ /\ slot # NoSlot
                  /\ blocks' = Emit(blocks)
                  /\ push(Value(toLLVMType(top.type), insert))
                  /\ accesses' = Using({slot})
                  /\ UNCHANGED isSuccess
    /\ Return
    /\ UNCHANGED <<insert, syms, ast>>

\* The operators of a BinaryNode of the given type, with the types of the
\* operands that the parser lets through.
Operations(type) ==
    {op \in [kind : {"biarithmetic", "birel", "bilogShortCircuit"},
              lhs : UsedTypes, rhs : UsedTypes] :
       \/ /\ op.kind = "biarithmetic"
          /\ "BOOL" \notin {op.lhs, op.rhs}
          /\ type = IF "FLOAT" \in {op.lhs, op.rhs} THEN "FLOAT" ELSE "INTEGER"
       \/ op.kind = "birel" /\ type = "BOOL"
       \/ op.kind = "bilogShortCircuit" /\ {type, op.lhs, op.rhs} = {"BOOL"}}

BinaryNode ==
    /\ Visit("expr", "BinaryNode")
    /\ \E op \in Operations(top.type) :
         /\ Call(<<Expr(op.lhs),
                   [Await("BinaryNode.lhs", op.lhs) EXCEPT !.kind = op.kind,
                                                           !.other = op.rhs]>>)
         /\ Odd("mixedEquality", (op.lhs = "BOOL") # (op.rhs = "BOOL"))
    /\ UNCHANGED <<isSuccess, operands, syms, ir, scope, sigs, gone>>

\* biarithmetic() and birel() leave the left operand on the stack.
EagerLhs ==
    /\ Resume("BinaryNode.lhs")
    /\ top.kind # "bilogShortCircuit"
    /\ Call(<<Expr(top.other),
              [Await("BinaryNode.rhs", top.other) EXCEPT !.kind = top.kind,
                                                         !.other = top.type]>>)
    /\ UNCHANGED <<isSuccess, operands, syms, ir, ast>>

\* Mutant: the result is computed in the type of the left operand.
EagerTypeUncast(kind, lhsTy, rhsTy, lhs) == IF kind = "birel" THEN "i1" ELSE lhs.type

\* The type of the instruction: operands of a FLOAT operation are cast first.
EagerType(kind, lhsTy, rhsTy, lhs) ==
    IF kind = "birel" THEN "i1"
    ELSE IF "FLOAT" \in {lhsTy, rhsTy} THEN toLLVMType("FLOAT") ELSE lhs.type

EagerRhs ==
    /\ Resume("BinaryNode.rhs")
    /\ top.kind # "bilogShortCircuit"
    /\ LET rhs == topValue
           lhs == operands[Len(operands) - 1]
           type == EagerType(top.kind, top.other, top.type, lhs)
       IN /\ operands' = SubSeq(operands, 1, Len(operands) - 2)
                           \o <<Value(type, insert)>>
          /\ accesses' = Using({lhs, rhs})
    /\ blocks' = Emit(blocks)
    /\ Return
    /\ UNCHANGED <<isSuccess, insert, syms, ast>>

\* bilogShortCircuit(): the left operand goes to a slot and decides whether
\* the block with the right operand runs.
ShortCircuitLhs ==
    /\ Resume("BinaryNode.lhs")
    /\ top.kind = "bilogShortCircuit"
    /\ LET rhsBb == Len(blocks) + 1
           mergeBb == Len(blocks) + 2
       IN /\ blocks' = Terminate(blocks \o <<Attached, Detached>>,
                                 "br", {rhsBb, mergeBb})
          /\ insert' = rhsBb
          /\ Call(<<Expr(top.other),
                    [Await("BinaryNode.rhs", top.other) EXCEPT
                       !.kind = top.kind, !.slot = Value("i1", insert),
                       !.bbs = <<mergeBb>>]>>)
    /\ accesses' = Using({topValue})
    /\ operands' = pop
    /\ UNCHANGED <<isSuccess, syms, ast>>

ShortCircuitRhs ==
    /\ Resume("BinaryNode.rhs")
    /\ top.kind = "bilogShortCircuit"
    /\ LET mergeBb == top.bbs[1]
       IN /\ blocks' = Attach(Terminate(blocks, "br", {mergeBb}), mergeBb)
          /\ insert' = mergeBb
          /\ operands' = Append(pop, Value("i1", mergeBb))
          /\ accesses' = Using({topValue, top.slot})
                           \cup ({<<top.slot.block, mergeBb>>} \ {<<1, mergeBb>>})
    /\ Return
    /\ UNCHANGED <<isSuccess, syms, ast>>

\* Mutant: unary plus does nothing at all.
UnaryPlusSkips ==
    /\ Visit("expr", "UnaryNode")
    /\ \/ top.type # "BOOL" /\ Return
       \/ Call(<<Expr(top.type), Await("UnaryNode", top.type)>>)
    /\ sameTables /\ UNCHANGED <<isSuccess, operands, syms, ir>>

\* visit(UnaryNode): unary plus only visits its operand.
UnaryNode ==
    /\ Visit("expr", "UnaryNode")
    /\ \/ top.type # "BOOL" /\ Call(<<Expr(top.type)>>)
       \/ Call(<<Expr(top.type), Await("UnaryNode", top.type)>>)
    /\ sameTables /\ UNCHANGED <<isSuccess, operands, syms, ir>>

\* unarithmetic() and unlog()
UnaryOperand ==
    /\ Resume("UnaryNode")
    /\ operands' = Append(pop, Value(topValue.type, insert))
    /\ accesses' = Using({topValue})
    /\ blocks' = Emit(blocks)
    /\ Return
    /\ UNCHANGED <<isSuccess, insert, syms, ast>>

SeqOf(S, n) == UNION {[1..k -> S] : k \in 0..n}

\* The frame of a call that goes on to its next argument.
NextArg(name, args, bbs) ==
    <<Expr(Head(args)),
      [Await("FuncallNode", Head(args)) EXCEPT !.name = name, !.bbs = bbs,
                                               !.args = Tail(args)]>>

\* visit(FuncallNode).  The parser checks neither the number nor the types of
\* the arguments; here their number is compared with the latest definition.
FuncallNode ==
    /\ Visit("expr", "FuncallNode")
    /\ \E n \in Names, args \in SeqOf(UsedTypes, MaxParams) :
         /\ sigs[n] = top.type
         /\ \/ /\ funcs[n] = NoFunction \/ Len(args) # Len(funcs[n].params)
               /\ Error
               /\ Return
               /\ UNCHANGED <<operands, blocks>>
            \/ /\ funcs[n] # NoFunction
               /\ args = <<>>
               /\ funcs[n].params = <<>>
               /\ blocks' = Emit(blocks)
               /\ push(Value(toLLVMType(funcs[n].type), insert))
               /\ Return
               /\ UNCHANGED isSuccess
            \/ /\ funcs[n] # NoFunction
               /\ args # <<>>
               /\ Len(args) = Len(funcs[n].params)
               /\ Call(NextArg(n, args, <<>>))
               /\ UNCHANGED <<isSuccess, operands, blocks>>
    /\ sameTables /\ UNCHANGED <<insert, accesses, syms>>

\* An argument is cast to the type of its parameter; after the last one the
\* call is made.
FuncallArg ==
    /\ Resume("FuncallNode")
    /\ LET func == funcs[top.name]
           idx == Len(func.params) - Len(top.args)
           arg == cast(topValue, func.params[idx].type)
           bbs == Append(top.bbs, arg.block)
       IN \/ /\ top.args # <<>>
             /\ Call(NextArg(top.name, top.args, bbs))
             /\ operands' = pop
             /\ accesses' = Using({topValue})
          \/ /\ top.args = <<>>
             /\ Return
             /\ operands' = Append(pop, Value(toLLVMType(func.type), insert))
             /\ accesses' = Using({topValue} \cup {Value("none", bbs[i]) : i \in DOMAIN bbs})
    /\ blocks' = Emit(blocks)
    /\ UNCHANGED <<isSuccess, insert, syms, ast>>
-----------------------------------------------------------------------------
(* Statements                                                              *)

Statement == Frame("statement")
\* The body of a branch or a loop.
Body == [Statement EXCEPT !.kind = "body"]

\* Parser: a boolean goes into a boolean, a number into a number.
Assignable(lhs, rhs) == (lhs = "BOOL") <=> (rhs = "BOOL")

\* visit(AssignmentNode), of a declaration or an assignment: the name is
\* looked up before the right-hand side is visited.
AssignmentNode ==
    /\ At("statement")
    /\ \E n \in Names, type \in UsedTypes, rhs \in UsedTypes :
         LET slot == lookup(scopeStack, n)
         IN /\ scope[n] \in {type, ABSENT}
            /\ Assignable(type, rhs)
            /\ Odd("bareDeclaration", slot = NoSlot /\ top.kind = "body")
            /\ Call(<<Expr(rhs),
                      [Await("AssignmentNode", rhs) EXCEPT
                         !.other = type, !.name = n, !.slot = slot]>>)
    /\ UNCHANGED <<isSuccess, operands, syms, ir, scope, sigs, nodes, gone>>

\* A name that is bound nowhere gets an alloca in the current block and is
\* bound in the innermost scope.
AssignmentRhs ==
    /\ Resume("AssignmentNode")
    /\ LET slot == IF top.slot = NoSlot THEN Value(toLLVMType(top.other), insert)
                                        ELSE top.slot
       IN /\ scopeStack' = IF top.slot = NoSlot
                             THEN declare(scopeStack, top.name, slot)
                             ELSE scopeStack
          /\ accesses' = Using({topValue, slot})
    /\ scope' = [scope EXCEPT ![top.name] = top.other]
    /\ operands' = pop
    /\ blocks' = Emit(blocks)
    /\ Return
    /\ UNCHANGED <<isSuccess, insert, funcs, currentFunc, sigs, nodes, gone, odd>>

\* visit(IoPrintNode) and visit(ReturnNode) visit their expression first.
PrintOrReturn ==
    /\ At("statement")
    /\ \E type \in UsedTypes, at \in {"IoPrintNode", "ReturnNode"} :
         Call(<<Expr(type), Await(at, type)>>)
    /\ UNCHANGED <<isSuccess, operands, syms, ir, ast>>

IoPrintNode ==
    /\ Resume("IoPrintNode")
    /\ operands' = pop
    /\ accesses' = Using({topValue})
    /\ blocks' = Emit(blocks)
    /\ Return
    /\ UNCHANGED <<isSuccess, insert, syms, ast>>

ReturnNode ==
    /\ Resume("ReturnNode")
    /\ operands' = pop
    /\ accesses' = Using({topValue})
    /\ blocks' = Terminate(blocks, "ret", {})
    /\ Return
    /\ UNCHANGED <<isSuccess, insert, syms, ast>>

\* visit(ExpressionWrapperNode): a call used as a statement is not visited.
ExpressionWrapperNode ==
    /\ At("statement")
    /\ \E n \in Names : sigs[n] # ABSENT
    /\ Return
    /\ UNCHANGED <<isSuccess, operands, syms, ir, ast>>

\* visit(BlockStatementNode)
BlockStatementNode ==
    /\ Visit("statement", "BlockStatementNode")
    /\ scopeStack' = Append(scopeStack, EmptyScope)
    /\ Call(<<Frame("BlockStatementNode")>>)
    /\ sameTables /\ UNCHANGED <<isSuccess, operands, funcs, currentFunc, ir>>

\* The names that leave with the innermost scope.
Leaving == {n \in Names : scopeStack[Len(scopeStack)][n] # NoSlot}
PopScope == SubSeq(scopeStack, 1, Len(scopeStack) - 1)

\* The loop over the statements: one more, or the end.
BlockLoop ==
    /\ At("BlockStatementNode")
    /\ \/ /\ Spend
          /\ Call(<<Statement, Frame("BlockStatementNode.stmt")>>)
          /\ UNCHANGED <<scopeStack, gone>>
       \/ /\ scopeStack' = PopScope
          /\ gone' = gone \cup Leaving
          /\ Return
          /\ UNCHANGED nodes
    /\ UNCHANGED <<isSuccess, operands, funcs, currentFunc, ir, scope, sigs, odd>>

\* After a statement: once the insert block has its terminator, the rest of
\* the block is not visited, whatever names the parser met in it.
BlockStatement ==
    /\ Resume("BlockStatementNode.stmt")
    /\ \/ /\ ~Terminated
          /\ Call(<<Frame("BlockStatementNode")>>)
          /\ UNCHANGED <<scopeStack, ast>>
       \/ /\ Terminated
          /\ \E cut \in SUBSET {n \in Names : scope[n] = ABSENT} :
               /\ Cardinality(cut) <= nodes
               /\ nodes' = nodes - Cardinality(cut)
               /\ \E new \in [cut -> UsedTypes] :
                    scope' = [n \in Names |-> IF n \in cut THEN new[n] ELSE scope[n]]
               /\ gone' = gone \cup Leaving \cup cut
          /\ scopeStack' = PopScope
          /\ Return
          /\ UNCHANGED <<sigs, odd>>
    /\ UNCHANGED <<isSuccess, operands, funcs, currentFunc, ir>>

\* visit(IfStatementNode)
IfStatementNode ==
    /\ Visit("statement", "IfStatementNode")
    /\ Call(<<Expr("BOOL"), Await("IfStatementNode.cond", "BOOL")>>)
    /\ sameTables /\ UNCHANGED <<isSuccess, operands, syms, ir>>

IfCond ==
    /\ Resume("IfStatementNode.cond")
    /\ LET thenBb == Len(blocks) + 1
           elseBb == Len(blocks) + 2
           mergeBb == Len(blocks) + 3
       IN /\ blocks' = Terminate(blocks \o <<Attached, Detached, Detached>>,
                                 "br", {thenBb, elseBb})
          /\ insert' = thenBb
          /\ Call(<<Body, [Frame("IfStatementNode.true") EXCEPT
                             !.bbs = <<elseBb, mergeBb>>]>>)
    /\ operands' = pop
    /\ accesses' = Using({topValue})
    /\ UNCHANGED <<isSuccess, syms, ast>>

\* Mutant: the branch is added whether or not the block has a terminator.
FallIntoAlways(bbs, b) == Terminate(bbs, "br", {b})

\* A block that did not end in a `return` goes on to block b.
FallInto(bbs, b) == IF Terminated THEN bbs ELSE Terminate(bbs, "br", {b})

\* The true branch is done; there may be a false one.
IfTrue ==
    /\ Resume("IfStatementNode.true")
    /\ LET elseBb == top.bbs[1]
           mergeBb == top.bbs[2]
           after == Attach(FallInto(blocks, mergeBb), elseBb)
           else == [Frame("IfStatementNode.false") EXCEPT !.bbs = <<mergeBb>>]
       IN /\ blocks' = after
          /\ insert' = elseBb
          /\ Call(<<Body, else>>) \/ Call(<<else>>)
    /\ UNCHANGED <<isSuccess, operands, accesses, syms, ast>>

IfFalse ==
    /\ Resume("IfStatementNode.false")
    /\ blocks' = Attach(FallInto(blocks, top.bbs[1]), top.bbs[1])
    /\ insert' = top.bbs[1]
    /\ Return
    /\ UNCHANGED <<isSuccess, operands, accesses, syms, ast>>

\* visit(WhileStatementNode)
WhileStatementNode ==
    /\ Visit("statement", "WhileStatementNode")
    /\ LET loopBb == Len(blocks) + 1
           thenBb == Len(blocks) + 2
           afterBb == Len(blocks) + 3
       IN /\ blocks' = Terminate(blocks \o <<Attached, Attached, Detached>>,
                                 "br", {loopBb})
          /\ insert' = loopBb
          /\ Call(<<Expr("BOOL"), [Await("WhileStatementNode.cond", "BOOL") EXCEPT
                                     !.bbs = <<loopBb, thenBb, afterBb>>]>>)
    /\ sameTables /\ UNCHANGED <<isSuccess, operands, accesses, syms>>

WhileCond ==
    /\ Resume("WhileStatementNode.cond")
    /\ blocks' = Terminate(blocks, "br", {top.bbs[2], top.bbs[3]})
    /\ insert' = top.bbs[2]
    /\ operands' = pop
    /\ accesses' = Using({topValue})
    /\ Call(<<Body, [Frame("WhileStatementNode.body") EXCEPT
                       !.bbs = <<top.bbs[1], top.bbs[3]>>]>>)
    /\ UNCHANGED <<isSuccess, syms, ast>>

WhileBody ==
    /\ Resume("WhileStatementNode.body")
    /\ blocks' = Attach(FallInto(blocks, top.bbs[1]), top.bbs[2])
    /\ insert' = top.bbs[2]
    /\ Return
    /\ UNCHANGED <<isSuccess, operands, accesses, syms, ast>>

\* visit(DoWhileStatementNode)
DoWhileStatementNode ==
    /\ Visit("statement", "DoWhileStatementNode")
    /\ LET loopBb == Len(blocks) + 1
           afterBb == Len(blocks) + 2
       IN /\ blocks' = Terminate(blocks \o <<Attached, Detached>>, "br", {loopBb})
          /\ insert' = loopBb
          /\ Call(<<Body, [Frame("DoWhileStatementNode.body") EXCEPT
                             !.bbs = <<loopBb, afterBb>>]>>)
    /\ sameTables /\ UNCHANGED <<isSuccess, operands, accesses, syms>>

\* A body that returned leaves the condition unvisited.
DoWhileBody ==
    /\ Resume("DoWhileStatementNode.body")
    /\ \/ /\ ~Terminated
          /\ Call(<<Expr("BOOL"), [Await("DoWhileStatementNode.cond", "BOOL") EXCEPT
                                     !.bbs = top.bbs]>>)
          /\ UNCHANGED <<blocks, insert>>
       \/ /\ Terminated
          /\ blocks' = Attach(blocks, top.bbs[2])
          /\ insert' = top.bbs[2]
          /\ Return
    /\ UNCHANGED <<isSuccess, operands, accesses, syms, ast>>

DoWhileCond ==
    /\ Resume("DoWhileStatementNode.cond")
    /\ blocks' = Attach(Terminate(blocks, "br", {top.bbs[1], top.bbs[2]}), top.bbs[2])
    /\ insert' = top.bbs[2]
    /\ operands' = pop
    /\ accesses' = Using({topValue})
    /\ Return
    /\ UNCHANGED <<isSuccess, syms, ast>>
-----------------------------------------------------------------------------
(* Functions                                                               *)

Params == [name : Names, type : UsedTypes]
Distinct(params) ==
    \A i, j \in DOMAIN params : params[i].name = params[j].name => i = j

\* The parameter of that name that a map keeps: the first one where it is
\* filled with insert() (the parser), the last one where it is filled with
\* operator[] (ScopeStack::declare).
Named(params, name) == {i \in DOMAIN params : params[i].name = name}
First(I) == CHOOSE i \in I : \A j \in I : i <= j
Last(I) == CHOOSE i \in I : \A j \in I : i >= j

\* visit(FunctionDefNode): the function is registered, its parameters are
\* stored in allocas of the entry block, and the body is visited.
FunctionDefNode ==
    /\ At("VectorNode")
    /\ Spend
    /\ \E n \in Names, type \in UsedTypes, params \in SeqOf(Params, MaxParams) :
         /\ LET met == (IF sigs[n] # ABSENT THEN {"redefinition"} ELSE {})
                        \cup (IF Distinct(params) THEN {} ELSE {"duplicateParams"})
            IN met \subseteq Forms /\ odd' = odd \cup met
         /\ funcs' = [funcs EXCEPT ![n] = [type |-> type, params |-> params]]
         /\ sigs' = [sigs EXCEPT ![n] = IF @ = ABSENT THEN type ELSE @]
         /\ currentFunc' = n
         /\ scopeStack' =
              <<[m \in Names |-> IF Named(params, m) = {} THEN NoSlot
                                 ELSE Constant(params[Last(Named(params, m))].type)]>>
         /\ scope' = [m \in Names |-> IF Named(params, m) = {} THEN ABSENT
                                      ELSE params[First(Named(params, m))].type]
    /\ blocks' = <<Attached>>
    /\ insert' = 1
    /\ accesses' = {}
    /\ gone' = {}
    /\ Call(<<Statement, Frame("FunctionDefNode"), Frame("VectorNode")>>)
    /\ UNCHANGED <<isSuccess, operands>>

\* Mutant: a block left open stays open.
FunctionDefEndOpen ==
    /\ Resume("FunctionDefNode")
    /\ Return
    /\ UNCHANGED <<isSuccess, operands, syms, ir, ast>>

\* After the body: a block left open gets `unreachable`.
FunctionDefEnd ==
    /\ Resume("FunctionDefNode")
    /\ blocks' = IF Terminated THEN blocks ELSE Terminate(blocks, "unreachable", {})
    /\ Return
    /\ UNCHANGED <<isSuccess, operands, insert, accesses, syms, ast>>

\* visit(VectorNode): there are no more functions.
VectorNodeEnd ==
    /\ At("VectorNode")
    /\ Return
    /\ UNCHANGED <<isSuccess, operands, syms, ir, ast>>

\* Mutant: an error inside a block leaves its scope on the stack.
UnwindKeepsScope ==
    /\ ~isSuccess
    /\ stack # <<>>
    /\ top.at \in AfterExpr \cup AfterStatement
    /\ Return
    /\ UNCHANGED <<isSuccess, operands, syms, ir, ast>>

\* Once error() was called, every handler returns as soon as the child it
\* waits for is back, and a block still pops its scope.  The loop over the
\* functions does not stop.
Unwind ==
    /\ ~isSuccess
    /\ stack # <<>>
    /\ top.at \in AfterExpr \cup AfterStatement
    /\ Return
    /\ \/ /\ top.at = "BlockStatementNode.stmt"
          /\ scopeStack' = PopScope
          /\ gone' = gone \cup Leaving
       \/ /\ top.at # "BlockStatementNode.stmt"
          /\ UNCHANGED <<scopeStack, gone>>
    /\ UNCHANGED <<isSuccess, operands, funcs, currentFunc, ir, scope, sigs, nodes, odd>>
-----------------------------------------------------------------------------
(* The specification                                                       *)

Init ==
    /\ isSuccess = TRUE
    /\ operands = <<>>
    /\ scopeStack = <<>>
    /\ funcs = [n \in Names |-> NoFunction]
    /\ currentFunc = NULL
    /\ blocks = <<>>
    /\ insert = 0
    /\ accesses = {}
    /\ stack = <<Frame("VectorNode")>>
    /\ nodes = MaxNodes
    /\ scope = [n \in Names |-> ABSENT]
    /\ sigs = [n \in Names |-> ABSENT]
    /\ gone = {}
    /\ odd = {}

Expressions ==
    \/ ConstantNode \/ VarNode
    \/ BinaryNode \/ EagerLhs \/ EagerRhs \/ ShortCircuitLhs \/ ShortCircuitRhs
    \/ UnaryNode \/ UnaryOperand \/ FuncallNode \/ FuncallArg

Statements ==
    \/ AssignmentNode \/ AssignmentRhs \/ PrintOrReturn \/ IoPrintNode \/ ReturnNode
    \/ ExpressionWrapperNode
    \/ BlockStatementNode \/ BlockLoop \/ BlockStatement
    \/ IfStatementNode \/ IfCond \/ IfTrue \/ IfFalse
    \/ WhileStatementNode \/ WhileCond \/ WhileBody
    \/ DoWhileStatementNode \/ DoWhileBody \/ DoWhileCond

Functions == FunctionDefNode \/ FunctionDefEnd \/ VectorNodeEnd

\* The whole AST was visited.
Done == stack = <<>> /\ UNCHANGED vars

Next == Expressions \/ Statements \/ Functions \/ Unwind \/ Done

Spec == Init /\ [][Next]_vars
-----------------------------------------------------------------------------
(* Properties                                                              *)

Values == [type : LLVMTypes, block : Nat]

\* Every member of the code generator holds a value of its C++ type.
TypeOK ==
    /\ isSuccess \in BOOLEAN
    /\ operands \in Seq(Values)
    /\ scopeStack \in Seq([Names -> Values \cup {NoSlot}])
    /\ \A n \in Names : funcs[n] # NoFunction =>
         funcs[n].type \in Types /\ funcs[n].params \in Seq(Params)
    /\ currentFunc \in Names \cup {NULL}
    /\ blocks \in Seq([attached : BOOLEAN, end : Ends, succs : SUBSET Nat])
    /\ insert \in 0..Len(blocks)
    /\ \A a \in accesses : a \in Nat \X Nat
    /\ nodes \in 0..MaxNodes
    /\ scope \in [Names -> Types \cup {ABSENT}]
    /\ sigs \in [Names -> Types \cup {ABSENT}]
    /\ gone \subseteq Names
    /\ odd \subseteq Forms

\* Nothing is ever inserted into a block that has its terminator or that no
\* function owns yet, whichever statements return early inside which others,
\* and on the paths after an error too.
NothingAfterTerminator == \A b \in 1..Len(blocks) : blocks[b].end # "broken"

FunctionDone == At("VectorNode") /\ isSuccess /\ blocks # <<>>

\* A function that was generated without an error is complete: every block
\* made for it is attached and terminated, and branches only to its blocks.
FunctionComplete ==
    FunctionDone => \A b \in 1..Len(blocks) :
        /\ blocks[b].attached
        /\ blocks[b].end \in {"br", "ret", "unreachable"}
        /\ blocks[b].succs \subseteq 1..Len(blocks)
        /\ (blocks[b].end = "br") <=> (blocks[b].succs # {})

\* The blocks reached from the entry block on paths that avoid block b.
ReachedAvoiding(b) ==
    LET step[k \in 0..Len(blocks)] ==
          IF k = 0 THEN {1} \ {b}
          ELSE LET reached == step[k-1]
               IN reached \cup ((UNION {blocks[i].succs : i \in reached}) \ {b})
    IN step[Len(blocks)]

\* Every value and every variable that an instruction uses was defined on all
\* paths that lead to it, as long as no branch or loop body that is no block
\* declared a variable: its scope is the enclosing one, so that the variable
\* stays bound where its definition is not reached.
DefinitionsDominateUses ==
    FunctionDone /\ "bareDeclaration" \notin odd =>
        \A a \in accesses : a[2] \notin ReachedAvoiding(a[1])

\* Binary operators whose left operand is already on the operand stack.
HeldOperands ==
    {i \in 1..Len(stack) : /\ stack[i].at = "BinaryNode.rhs"
                           /\ stack[i].kind # "bilogShortCircuit"}

\* The operand stack holds the pending left operands, and the result of the
\* expression that was just visited; in particular a statement leaves nothing
\* on it.
OperandsBalanced ==
    isSuccess =>
        Len(operands) = Cardinality(HeldOperands)
                          + (IF stack # <<>> /\ top.at \in AfterExpr THEN 1 ELSE 0)

\* The result of an expression has the LLVM type of the TType that the parser
\* gave the expression, on which the handlers base their casts, as long as
\* each function has one definition and each parameter one name: parser and
\* code generator resolve the others differently.
ResultHasItsType ==
    isSuccess /\ stack # <<>> /\ top.at \in AfterExpr
            /\ odd \cap {"redefinition", "duplicateParams"} = {} =>
        topValue.type = toLLVMType(top.type)

\* The frames of the blocks being visited.
InBlock ==
    {i \in 1..Len(stack) : stack[i].at \in {"BlockStatementNode", "BlockStatementNode.stmt"}}

\* Besides the scope of the parameters there is one for each block being
\* visited, also while an error unwinds.
ScopesMatchBlocks ==
    blocks # <<>> => Len(scopeStack) = 1 + Cardinality(InBlock)

\* Where the parser lets a name be used, it is bound, unless it was declared
\* in a block that has ended or after a `return`; and the variable it is
\* bound to has the type that the parser knows.  Two parameters of one name
\* are the exception.
NamesResolve ==
    isSuccess /\ "duplicateParams" \notin odd => \A n \in Names : scope[n] # ABSENT =>
        LET slot == lookup(scopeStack, n)
        IN IF slot = NoSlot THEN n \in gone
                            ELSE slot.type = toLLVMType(scope[n])

\* What LANGUAGE.md says of comparisons between booleans and numbers: the
\* operands of a comparison have one type once the casts are done.
ComparisonsAgree ==
    Resume("BinaryNode.rhs") /\ top.kind = "birel"
            /\ "FLOAT" \notin {top.type, top.other} =>
        topValue.type = operands[Len(operands) - 1].type

\* What a comment of visit(FunctionDefNode) says of the block that it completes
\* with `unreachable`, and LANGUAGE.md of functions: every way to the end of the
\* body has returned.
EndsAreDead ==
    FunctionDone => \A b \in 1..Len(blocks) :
        blocks[b].end = "unreachable" => b \notin ReachedAvoiding(0)

\* The first block that the if, while or do under way has made.
FirstBlock(frame) ==
    CASE frame.at = "IfStatementNode.true"  -> frame.bbs[1] - 1
      [] frame.at = "IfStatementNode.false" -> frame.bbs[1] - 2
      [] OTHER                              -> frame.bbs[1]

\* What LANGUAGE.md says of the body of an if, while or do: a variable made in
\* it is no longer bound once the body is done.
BodiesDoNotLeak ==
    isSuccess /\ stack # <<>>
            /\ top.at \in AfterStatement \ {"FunctionDefNode", "BlockStatementNode.stmt"} =>
        \A n \in Names : lookup(scopeStack, n).block < FirstBlock(top)
=============================================================================
