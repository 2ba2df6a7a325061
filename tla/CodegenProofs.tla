--------------------------- MODULE CodegenProofs ---------------------------
(***************************************************************************)
(* The code generator for every set of names, all forms and ASTs of any    *)
(* size: types, the operand stack, the scope stack, and what the parser's  *)
(* tables have to do with them.                                            *)
(*                                                                         *)
(* A handler finds on the operand stack what the handlers it called have   *)
(* left there.  So the invariant is about the call stack first: what each  *)
(* frame waits for is what the frame above it yields, of the type it was   *)
(* asked for (StackOK).  The operands and the scopes are then counted      *)
(* along the stack.                                                        *)
(***************************************************************************)
EXTENDS Codegen, FunctionTheorems, FiniteSetTheorems, SequenceTheorems, WellFoundedInduction, TLAPS
-----------------------------------------------------------------------------
(* Frames                                                                  *)

Labels == {"VectorNode", "expr", "statement", "BlockStatementNode"}
            \cup AfterExpr \cup AfterStatement

ExpressionLabels == {"expr", "BinaryNode.lhs", "BinaryNode.rhs", "UnaryNode", "FuncallNode"}

\* What the handler of a frame is for, and what it waits for.
Yields(label) ==
    CASE label = "VectorNode"        -> "root"
      [] label = "FunctionDefNode"   -> "function"
      [] label \in ExpressionLabels  -> "expression"
      [] OTHER                       -> "statement"

Expects(label) ==
    CASE label \in AfterExpr \ {"VectorNode"} -> "expression"
      [] label = "FunctionDefNode"            -> "statement"
      [] label \in AfterStatement             -> "statement"
      [] label = "VectorNode"                 -> "function"
      [] OTHER                                -> "nothing"

Operators == {"biarithmetic", "birel", "bilogShortCircuit"}
Slots == Values \cup {NoSlot}

Frames == [at : Labels, type : Types \cup {NULL}, kind : Operators \cup {"body", NULL},
           other : Types \cup {NULL}, name : Names \cup {NULL}, slot : Slots,
           bbs : Seq(Nat), args : Seq(Types)]

\* A binary operator whose left operand stays on the operand stack, and one
\* whose left operand decides on the right one.
Held(f) == f.at = "BinaryNode.rhs" /\ f.kind # "bilogShortCircuit"
ShortCircuit(f) == f.at = "BinaryNode.rhs" /\ f.kind = "bilogShortCircuit"

\* How many blocks a frame keeps.
Kept(f) ==
    CASE ShortCircuit(f)                                                  -> 1
      [] f.at = "IfStatementNode.true"                                    -> 2
      [] f.at = "IfStatementNode.false"                                   -> 1
      [] f.at = "WhileStatementNode.cond"                                 -> 3
      [] f.at \in {"WhileStatementNode.body", "DoWhileStatementNode.body",
                   "DoWhileStatementNode.cond"}                           -> 2
      [] OTHER                                                            -> 0

\* The locals of a frame, when there are n blocks and the functions are fn.
FrameOK(f, n, fn) ==
    /\ f \in Frames
    /\ f.at \in AfterExpr \cup {"expr"} => f.type \in Types
    /\ f.at \in {"BinaryNode.lhs", "BinaryNode.rhs"} => f.kind \in Operators
    /\ f.at = "BinaryNode.lhs" \/ Held(f) => f.other \in Types
    /\ f.at \in {"BinaryNode.lhs", "BinaryNode.rhs"} /\ f.kind = "biarithmetic" =>
         "BOOL" \notin {f.type, f.other}
    /\ f.at = "AssignmentNode" => f.name \in Names /\ f.other \in Types
    /\ f.at = "FuncallNode" => f.name \in Names /\ fn[f.name] # NoFunction
    /\ f.at # "FuncallNode" => /\ Len(f.bbs) = Kept(f)
                               /\ \A i \in 1..Kept(f) : f.bbs[i] \in 1..n

\* The type of the expression that a frame works on, in the parser's view.
ResultType(f, sg) ==
    CASE f.at \in {"expr", "UnaryNode"} -> f.type
      [] f.at = "FuncallNode"           -> sg[f.name]
      [] OTHER                          -> IF f.kind # "biarithmetic" THEN "BOOL"
                                           ELSE IF "FLOAT" \in {f.type, f.other} THEN "FLOAT"
                                           ELSE "INTEGER"

\* f can be called by the frame at the top of s.
CanCall(s, f, sg) ==
    /\ s = <<>> <=> f.at = "VectorNode"
    /\ s # <<>> => /\ Expects(Head(s).at) = Yields(f.at)
                   /\ Yields(f.at) = "expression" => ResultType(f, sg) = Head(s).type

\* In a short-circuit operator nothing but the type BOOL of its result is
\* known after the left operand; so result types are compared where they can.
StackOK(s, n, fn, sg) ==
    /\ s \in Seq(Frames)
    /\ \A i \in 1..Len(s) : FrameOK(s[i], n, fn)
    /\ \A i \in 1..(Len(s) - 1) :
         /\ Expects(s[i + 1].at) = Yields(s[i].at)
         /\ Yields(s[i].at) = "expression" => ResultType(s[i], sg) = s[i + 1].type
    /\ \A i \in 1..Len(s) : s[i].at = "VectorNode" <=> i = Len(s)
    /\ \A i, j \in 1..Len(s) :
         i < j /\ s[j].at \in AfterExpr => Yields(s[i].at) = "expression"
-----------------------------------------------------------------------------
(* The call stack                                                          *)

LEMMA Kinds ==
    /\ \A l \in Labels : Expects(l) = "expression" <=> l \in AfterExpr
    /\ \A l \in Labels : Expects(l) = "statement" <=> l \in AfterStatement
    /\ \A l \in Labels : Expects(l) = "function" <=> l = "VectorNode"
    /\ \A l \in Labels : Yields(l) = "expression" <=> l \in ExpressionLabels
    /\ \A l \in Labels : Yields(l) = "root" <=> l = "VectorNode"
    /\ \A l \in Labels : Yields(l) = "function" <=> l = "FunctionDefNode"
    /\ \A l \in Labels : Yields(l) \in {"root", "function", "expression", "statement"}
    /\ \A l \in Labels : Expects(l) \in {"function", "expression", "statement", "nothing"}
    /\ \A l \in AfterExpr \cap ExpressionLabels : l # "expr"
BY DEF Labels, Expects, Yields, AfterExpr, AfterStatement, ExpressionLabels

\* The callers of the active frame.
LEMMA StackTail ==
    ASSUME NEW s, NEW n, NEW fn, NEW sg, StackOK(s, n, fn, sg), s # <<>>
    PROVE  /\ FrameOK(Head(s), n, fn) /\ Head(s) \in Frames
           /\ Tail(s) \in Seq(Frames) /\ s = <<Head(s)>> \o Tail(s)
           /\ StackOK(Tail(s), n, fn, sg)
           /\ CanCall(Tail(s), Head(s), sg)
           /\ \A j \in 1..Len(Tail(s)) :
                Tail(s)[j].at \in AfterExpr => Yields(Head(s).at) = "expression"
<1> DEFINE r == Tail(s)
<1>1. /\ s \in Seq(Frames) /\ Len(s) > 0 /\ Head(s) = s[1] /\ Head(s) \in Frames
      /\ r \in Seq(Frames) /\ Len(r) = Len(s) - 1
      /\ \A i \in 1..Len(r) : r[i] = s[i + 1] /\ i + 1 \in 1..Len(s)
      /\ s = <<Head(s)>> \o r
  BY DEF StackOK
<1> HIDE DEF r
<1>2. r # <<>> => Len(s) > 1 /\ Head(r) = s[2]
  BY <1>1
<1>3. r = <<>> <=> Len(s) = 1
  BY <1>1
<1>4. CanCall(r, Head(s), sg)
  <2>1. r = <<>> <=> Head(s).at = "VectorNode"
    BY <1>1, <1>3 DEF StackOK
  <2>2. r # <<>> => /\ Expects(Head(r).at) = Yields(Head(s).at)
                    /\ Yields(Head(s).at) = "expression" => ResultType(Head(s), sg) = Head(r).type
    BY <1>1, <1>2 DEF StackOK
  <2> QED BY <2>1, <2>2 DEF CanCall
<1>5. \A j \in 1..Len(r) : r[j].at \in AfterExpr => Yields(Head(s).at) = "expression"
  BY <1>1 DEF StackOK
<1>6. StackOK(r, n, fn, sg)
  <2>1. \A i \in 1..Len(r) : FrameOK(r[i], n, fn)
    BY <1>1 DEF StackOK
  <2>2. \A i \in 1..(Len(r) - 1) :
          /\ Expects(r[i + 1].at) = Yields(r[i].at)
          /\ Yields(r[i].at) = "expression" => ResultType(r[i], sg) = r[i + 1].type
    <3> TAKE i \in 1..(Len(r) - 1)
    <3>1. i + 1 \in 1..(Len(s) - 1) /\ r[i] = s[i + 1] /\ r[i + 1] = s[(i + 1) + 1]
      BY <1>1
    <3> QED BY <3>1 DEF StackOK
  <2>3. \A i \in 1..Len(r) : r[i].at = "VectorNode" <=> i = Len(r)
    BY <1>1 DEF StackOK
  <2>4. \A i, j \in 1..Len(r) :
          i < j /\ r[j].at \in AfterExpr => Yields(r[i].at) = "expression"
    BY <1>1 DEF StackOK
  <2> QED BY <1>1, <2>1, <2>2, <2>3, <2>4 DEF StackOK
<1>7. FrameOK(Head(s), n, fn)
  BY <1>1 DEF StackOK
<1> QED BY <1>1, <1>4, <1>5, <1>6, <1>7 DEF r

\* A frame is called.
LEMMA StackPush ==
    ASSUME NEW s, NEW n, NEW fn, NEW sg, StackOK(s, n, fn, sg),
           NEW f, FrameOK(f, n, fn), CanCall(s, f, sg)
    PROVE  /\ StackOK(<<f>> \o s, n, fn, sg)
           /\ <<f>> \o s # <<>> /\ Head(<<f>> \o s) = f /\ Tail(<<f>> \o s) = s
<1> DEFINE r == <<f>> \o s
<1>1. s \in Seq(Frames) /\ f \in Frames
  BY DEF StackOK, FrameOK
<1>2. /\ r \in Seq(Frames) /\ Len(r) = Len(s) + 1 /\ r[1] = f
      /\ \A i \in 1..Len(s) : r[i + 1] = s[i]
      /\ r # <<>> /\ Head(r) = f /\ Tail(r) = s
  BY <1>1
<1> HIDE DEF r
<1>3. \A i \in 1..Len(r) : i = 1 \/ (i - 1 \in 1..Len(s) /\ r[i] = s[i - 1])
  <2> TAKE i \in 1..Len(r)
  <2>1. CASE i # 1
    <3>1. i - 1 \in 1..Len(s) /\ r[(i - 1) + 1] = s[i - 1]
      BY <1>1, <1>2, <2>1
    <3> QED BY <3>1, <1>1
  <2> QED BY <2>1
<1>4. \A i \in 1..Len(r) : FrameOK(r[i], n, fn)
  BY <1>2, <1>3 DEF StackOK
<1>5. s # <<>> => Len(s) > 0 /\ Head(s) = s[1]
  BY <1>1
<1>6. \A i \in 1..(Len(r) - 1) :
        /\ Expects(r[i + 1].at) = Yields(r[i].at)
        /\ Yields(r[i].at) = "expression" => ResultType(r[i], sg) = r[i + 1].type
  <2> TAKE i \in 1..(Len(r) - 1)
  <2>1. r[i + 1] = s[i] /\ i \in 1..Len(s)
    BY <1>1, <1>2
  <2>2. CASE i = 1
    <3>1. s # <<>> /\ Head(s) = s[1]
      BY <2>1, <1>1, <1>5
    <3> QED BY <3>1, <2>1, <2>2, <1>2 DEF CanCall
  <2>3. CASE i # 1
    <3>1. i - 1 \in 1..(Len(s) - 1) /\ r[i] = s[i - 1] /\ (i - 1) + 1 = i
      BY <2>1, <2>3, <1>1, <1>2, <1>3
    <3> QED BY <3>1, <2>1 DEF StackOK
  <2> QED BY <2>2, <2>3
<1>7. \A i \in 1..Len(r) : r[i].at = "VectorNode" <=> i = Len(r)
  <2> TAKE i \in 1..Len(r)
  <2>1. CASE i = 1
    <3>1. s = <<>> <=> Len(s) = 0
      BY <1>1
    <3> QED BY <2>1, <3>1, <1>1, <1>2 DEF CanCall
  <2>2. CASE i # 1
    BY <2>2, <1>1, <1>2, <1>3 DEF StackOK
  <2> QED BY <2>1, <2>2
<1>8. \A i, j \in 1..Len(r) :
        i < j /\ r[j].at \in AfterExpr => Yields(r[i].at) = "expression"
  <2> SUFFICES ASSUME NEW i \in 1..Len(r), NEW j \in 1..Len(r), i < j, r[j].at \in AfterExpr
               PROVE  Yields(r[i].at) = "expression"
    OBVIOUS
  <2>1. j - 1 \in 1..Len(s) /\ r[j] = s[j - 1] /\ s # <<>>
    BY <1>1, <1>3
  <2>2. CASE i # 1
    <3>1. i - 1 \in 1..Len(s) /\ r[i] = s[i - 1] /\ i - 1 < j - 1
      BY <1>3, <2>2
    <3> QED BY <2>1, <3>1 DEF StackOK
  <2>3. CASE i = 1
    <3>1. Expects(s[1].at) = Yields(f.at) /\ s[1].at \in Labels /\ f.at \in Labels
      <4>1. Expects(s[1].at) = Yields(f.at)
        BY <1>5, <2>1 DEF CanCall
      <4>2. Len(s) > 0 /\ s[1] \in Frames
        BY <1>1, <2>1
      <4> QED BY <4>1, <4>2, <1>1 DEF Frames
    <3>2. CASE s[1].at \in AfterExpr
      BY <1>2, <2>3, <3>1, <3>2, Kinds
    <3>3. CASE j - 1 # 1
      <4>1. Yields(s[1].at) = "expression"
        BY <1>1, <2>1, <3>3 DEF StackOK
      <4>2. s[1].at \in ExpressionLabels /\ Expects(s[1].at) # "nothing"
        BY <3>1, <4>1, Kinds
      <4>3. s[1].at \in AfterExpr
        BY <4>2 DEF ExpressionLabels, Expects, AfterExpr, AfterStatement
      <4> QED BY <4>3, <3>2
    <3>4. CASE j - 1 = 1
      <4>1. r[j] = s[1]
        BY <2>1, <3>4
      <4> QED BY <4>1, <3>2
    <3> QED BY <3>3, <3>4
  <2> QED BY <2>2, <2>3
<1> QED BY <1>2, <1>4, <1>6, <1>7, <1>8 DEF r, StackOK

\* More blocks do not disturb a stack.
LEMMA StackGrows ==
    ASSUME NEW s, NEW n \in Nat, NEW fn, NEW sg, StackOK(s, n, fn, sg),
           NEW m \in Nat, n <= m
    PROVE  StackOK(s, m, fn, sg)
<1>1. \A i \in 1..Len(s) : FrameOK(s[i], m, fn)
  <2> TAKE i \in 1..Len(s)
  <2>1. FrameOK(s[i], n, fn)
    BY DEF StackOK
  <2> QED BY <2>1 DEF FrameOK
<1> QED BY <1>1 DEF StackOK

\* Pushing two frames is pushing one after the other.
LEMMA PushTwo ==
    ASSUME NEW S, NEW s \in Seq(S), NEW a \in S, NEW b \in S
    PROVE  <<a, b>> \o s = <<a>> \o (<<b>> \o s)
<1>1. <<a, b>> = <<a>> \o <<b>>
  <2> DEFINE l == <<a, b>>
             r == <<a>> \o <<b>>
  <2>1. l \in Seq(S) /\ Len(l) = 2 /\ l[1] = a /\ l[2] = b
    OBVIOUS
  <2>2. r \in Seq(S) /\ Len(r) = 2 /\ r[1] = a /\ r[2] = b
    OBVIOUS
  <2> HIDE DEF l, r
  <2>3. \A i \in 1..Len(l) : l[i] = r[i]
    BY <2>1, <2>2
  <2>4. l = r
    BY <2>1, <2>2, <2>3, SeqEqual
  <2> QED BY <2>4 DEF l, r
<1>2. <<a>> \in Seq(S) /\ <<b>> \in Seq(S)
  OBVIOUS
<1>3. (<<a>> \o <<b>>) \o s = <<a>> \o (<<b>> \o s)
  BY <1>2, ConcatAssociative
<1> QED BY <1>1, <1>3

\* A frame that is there can be called by its callers in turn, and so can
\* another frame with the same result.
LEMMA SameResult ==
    ASSUME NEW s, NEW sg, NEW h, NEW f, CanCall(s, h, sg),
           h.at \in Labels, f.at \in Labels, f.at # "VectorNode", h.at # "VectorNode",
           Yields(f.at) = Yields(h.at),
           Yields(h.at) = "expression" => ResultType(f, sg) = ResultType(h, sg)
    PROVE  CanCall(s, f, sg)
BY DEF CanCall
-----------------------------------------------------------------------------
(* Counting frames                                                         *)

Count(b) == IF b THEN 1 ELSE 0

\* Places of a sequence, before and after one more element is put in front.
LEMMA Shifted ==
    ASSUME NEW S \in SUBSET (Nat \ {0}), IsFiniteSet(S), NEW T \in SUBSET Nat,
           \A i \in S : i + 1 \in T, \A t \in T : t = 1 \/ t - 1 \in S
    PROVE  /\ Cardinality(S) \in Nat
           /\ 1 \in T => Cardinality(T) = Cardinality(S) + 1
           /\ 1 \notin T => Cardinality(T) = Cardinality(S)
<1> DEFINE U == T \ {1}
<1>1. IsFiniteSet(S) /\ Cardinality(S) \in Nat
  BY FS_CardinalityType
<1>2. ExistsBijection(S, U)
  <2> DEFINE F == [i \in S |-> i + 1]
  <2>1. F \in [S -> U]
    <3>1. ASSUME NEW i \in S PROVE i + 1 \in U
      OBVIOUS
    <3> QED BY <3>1
  <2>2. \A a, b \in S : F[a] = F[b] => a = b
    OBVIOUS
  <2>3. \A t \in U : \E i \in S : F[i] = t
    <3> TAKE t \in U
    <3>1. t - 1 \in S /\ (t - 1) + 1 = t
      OBVIOUS
    <3> QED BY <3>1
  <2> QED BY <2>1, <2>2, <2>3, Fun_IsBij, Fun_ExistsBij
<1>3. IsFiniteSet(U) /\ Cardinality(U) = Cardinality(S) /\ 1 \notin U
  BY <1>1, <1>2, FS_Bijection
<1>4. CASE 1 \in T
  <2>1. T = U \cup {1}
    BY <1>4
  <2>2. Cardinality(U \cup {1}) = Cardinality(U) + 1
    BY <1>3, FS_AddElement
  <2> QED BY <1>1, <1>3, <1>4, <2>1, <2>2
<1>5. CASE 1 \notin T
  <2>1. T = U
    BY <1>5
  <2>2. Cardinality(T) = Cardinality(S)
    BY <1>3, <2>1
  <2> QED BY <1>1, <1>5, <2>2
<1> QED BY <1>4, <1>5

\* The frames with an operand on the operand stack, those of them from i on,
\* and the frames of blocks.
Pending(s) == {i \in 1..Len(s) : Held(s[i])}
PendingFrom(s, i) == {j \in Pending(s) : i <= j}
BlockLabels == {"BlockStatementNode", "BlockStatementNode.stmt"}
\* How many scopes the handler of a frame has made.
Opens(f) == IF f.at \in BlockLabels THEN 1 ELSE 0
BlockFrames(s) == {i \in 1..Len(s) : s[i].at \in BlockLabels}

HeldCount(s) == Cardinality(Pending(s))
Depth(s, i) == Cardinality(PendingFrom(s, i))
BlockCount(s) == Cardinality(BlockFrames(s))

LEMMA Pushed ==
    ASSUME NEW s \in Seq(Frames), NEW f \in Frames
    PROVE  LET r == <<f>> \o s
           IN /\ r \in Seq(Frames) /\ Len(r) = Len(s) + 1 /\ r[1] = f
              /\ \A i \in 1..Len(s) : r[i + 1] = s[i] /\ i + 1 \in 1..Len(r)
              /\ Len(s) \in Nat
OBVIOUS

LEMMA HeldPush ==
    ASSUME NEW s \in Seq(Frames), NEW f \in Frames
    PROVE  HeldCount(s) \in Nat /\ HeldCount(<<f>> \o s) = HeldCount(s) + Count(Held(f))
<1> DEFINE r == <<f>> \o s
           n == Len(s)
           m == Len(r)
<1>1. /\ r \in Seq(Frames) /\ m = n + 1 /\ r[1] = f /\ n \in Nat
      /\ \A i \in 1..n : r[i + 1] = s[i] /\ i + 1 \in 1..m
  BY Pushed
<1> HIDE DEF r
<1>2. Pending(s) \in SUBSET (Nat \ {0}) /\ IsFiniteSet(Pending(s)) /\ Pending(r) \in SUBSET Nat
  <2>1. Pending(s) \in SUBSET (1..n) /\ IsFiniteSet(1..n)
    BY <1>1, FS_Interval DEF Pending
  <2> QED BY <1>1, <2>1, FS_Subset DEF Pending
<1>3. \A i \in Pending(s) : i + 1 \in Pending(r)
  BY <1>1 DEF Pending
<1>5. \A t \in Pending(r) : t = 1 \/ t - 1 \in Pending(s)
  <2> TAKE t \in Pending(r)
  <2>1. CASE t # 1
    <3>1. t - 1 \in 1..n /\ (t - 1) + 1 = t
      BY <1>1, <2>1 DEF Pending
    <3> QED BY <1>1, <3>1 DEF Pending
  <2> QED BY <2>1
<1>4. 1 \in Pending(r) <=> Held(f)
  BY <1>1 DEF Pending
<1> HIDE DEF n, m
<1>6. /\ Cardinality(Pending(s)) \in Nat
      /\ 1 \in Pending(r) => Cardinality(Pending(r)) = Cardinality(Pending(s)) + 1
      /\ 1 \notin Pending(r) => Cardinality(Pending(r)) = Cardinality(Pending(s))
  BY <1>2, <1>3, <1>5, Shifted
<1> QED BY <1>4, <1>6 DEF HeldCount, Count, r

LEMMA BlocksPush ==
    ASSUME NEW s \in Seq(Frames), NEW f \in Frames
    PROVE  /\ BlockCount(s) \in Nat
           /\ BlockCount(<<f>> \o s) = BlockCount(s) + Opens(f)
<1> DEFINE r == <<f>> \o s
           n == Len(s)
           m == Len(r)
<1>1. /\ r \in Seq(Frames) /\ m = n + 1 /\ r[1] = f /\ n \in Nat
      /\ \A i \in 1..n : r[i + 1] = s[i] /\ i + 1 \in 1..m
  BY Pushed
<1> HIDE DEF r
<1>2. BlockFrames(s) \in SUBSET (Nat \ {0}) /\ IsFiniteSet(BlockFrames(s)) /\ BlockFrames(r) \in SUBSET Nat
  <2>1. BlockFrames(s) \in SUBSET (1..n) /\ IsFiniteSet(1..n)
    BY <1>1, FS_Interval DEF BlockFrames
  <2> QED BY <1>1, <2>1, FS_Subset DEF BlockFrames
<1>3. \A i \in BlockFrames(s) : i + 1 \in BlockFrames(r)
  BY <1>1 DEF BlockFrames
<1>5. \A t \in BlockFrames(r) : t = 1 \/ t - 1 \in BlockFrames(s)
  <2> TAKE t \in BlockFrames(r)
  <2>1. CASE t # 1
    <3>1. t - 1 \in 1..n /\ (t - 1) + 1 = t
      BY <1>1, <2>1 DEF BlockFrames
    <3> QED BY <1>1, <3>1 DEF BlockFrames
  <2> QED BY <2>1
<1>4. 1 \in BlockFrames(r) <=> f.at \in BlockLabels
  BY <1>1 DEF BlockFrames
<1> HIDE DEF n, m
<1>6. /\ Cardinality(BlockFrames(s)) \in Nat
      /\ 1 \in BlockFrames(r) => Cardinality(BlockFrames(r)) = Cardinality(BlockFrames(s)) + 1
      /\ 1 \notin BlockFrames(r) => Cardinality(BlockFrames(r)) = Cardinality(BlockFrames(s))
  BY <1>2, <1>3, <1>5, Shifted
<1> QED BY <1>4, <1>6 DEF BlockCount, Opens, r

\* The operand of a frame keeps its place when another frame is called.
LEMMA DepthPush ==
    ASSUME NEW s \in Seq(Frames), NEW f \in Frames
    PROVE  /\ \A i \in 1..Len(s) : Depth(<<f>> \o s, i + 1) = Depth(s, i)
           /\ Depth(<<f>> \o s, 1) = HeldCount(<<f>> \o s)
<1> DEFINE r == <<f>> \o s
           n == Len(s)
           m == Len(r)
<1>1. /\ r \in Seq(Frames) /\ m = n + 1 /\ r[1] = f /\ n \in Nat
      /\ \A i \in 1..n : r[i + 1] = s[i] /\ i + 1 \in 1..m
  BY Pushed
<1> HIDE DEF r
<1>2. ASSUME NEW i \in 1..n PROVE Depth(r, i + 1) = Depth(s, i)
  <2> DEFINE S == PendingFrom(s, i)
             T == PendingFrom(r, i + 1)
  <2>1. S \in SUBSET (Nat \ {0}) /\ IsFiniteSet(S) /\ T \in SUBSET Nat /\ 1 \notin T
    <3>1. S \in SUBSET (1..n) /\ IsFiniteSet(1..n)
      BY <1>1, FS_Interval DEF PendingFrom, Pending
    <3>2. IsFiniteSet(S)
      BY <3>1, FS_Subset
    <3> QED BY <1>1, <3>1, <3>2 DEF PendingFrom, Pending
  <2>2. \A k \in S : k + 1 \in T
    BY <1>1 DEF PendingFrom, Pending
  <2>4. ASSUME NEW t \in T PROVE t = 1 \/ t - 1 \in S
    <3>1. t - 1 \in 1..n /\ (t - 1) + 1 = t /\ i <= t - 1
      BY <1>1 DEF PendingFrom, Pending
    <3>2. t \in Pending(r)
      BY DEF PendingFrom
    <3> QED BY <1>1, <3>1, <3>2 DEF PendingFrom, Pending
  <2> HIDE DEF S, T
  <2>3. Cardinality(T) = Cardinality(S)
    BY <2>1, <2>2, <2>4, Shifted
  <2> QED BY <2>3 DEF S, T, Depth
<1>3. PendingFrom(r, 1) = Pending(r)
  BY <1>1 DEF PendingFrom, Pending
<1>4. Depth(r, 1) = HeldCount(r)
  BY <1>3 DEF Depth, HeldCount
<1> QED BY <1>2, <1>4 DEF r
-----------------------------------------------------------------------------
(* The operand stack                                                       *)

\* The operands of the frames that keep one, outermost at the bottom.
HeldTyped(s, ops) == \A i \in Pending(s) : ops[Depth(s, i)].type = toLLVMType(s[i].other)

Waiting(s) == s # <<>> /\ Head(s).at \in AfterExpr

\* Nothing but those operands, and besides them the result that the active
\* frame has waited for.  Types are known as long as the odd forms met, o, leave
\* them alone.
Known(o) == o \cap {"redefinition", "duplicateParams"} = {}

AtBase(s, ops, o) ==
    ops \in Seq(Values) /\ Len(ops) = HeldCount(s) /\ (Known(o) => HeldTyped(s, ops))

OperandsOK(s, ops, o) ==
    /\ ops \in Seq(Values)
    /\ Len(ops) = HeldCount(s) + (IF Waiting(s) THEN 1 ELSE 0)
    /\ Known(o) => HeldTyped(s, ops)
    /\ Known(o) /\ Waiting(s) => ops[Len(ops)].type = toLLVMType(Head(s).type)

LEMMA DepthRange ==
    ASSUME NEW s \in Seq(Frames), NEW i \in Pending(s)
    PROVE  Depth(s, i) \in 1..HeldCount(s)
<1>1. /\ IsFiniteSet(Pending(s)) /\ PendingFrom(s, i) \in SUBSET Pending(s)
      /\ i \in PendingFrom(s, i)
  <2>1. Pending(s) \in SUBSET (1..Len(s)) /\ IsFiniteSet(1..Len(s))
    BY FS_Interval DEF Pending
  <2> QED BY <2>1, FS_Subset DEF PendingFrom
<1>2. IsFiniteSet(PendingFrom(s, i)) /\ Depth(s, i) <= HeldCount(s)
  BY <1>1, FS_Subset DEF Depth, HeldCount
<1>3. Depth(s, i) \in Nat /\ HeldCount(s) \in Nat
  BY <1>1, <1>2, FS_CardinalityType DEF Depth, HeldCount
<1>4. Depth(s, i) # 0
  BY <1>1, <1>2, FS_EmptySet DEF Depth
<1> QED BY <1>2, <1>3, <1>4

\* Only the operands at the bottom matter.
LEMMA HeldKept ==
    ASSUME NEW s \in Seq(Frames), NEW ops, NEW new, HeldTyped(s, ops),
           \A k \in 1..HeldCount(s) : new[k] = ops[k]
    PROVE  HeldTyped(s, new)
BY DepthRange DEF HeldTyped

LEMMA HeldTypedPush ==
    ASSUME NEW s \in Seq(Frames), NEW f \in Frames, NEW ops
    PROVE  HeldTyped(<<f>> \o s, ops) <=>
             /\ HeldTyped(s, ops)
             /\ Held(f) => ops[HeldCount(s) + 1].type = toLLVMType(f.other)
<1> DEFINE r == <<f>> \o s
<1>1. /\ Len(r) = Len(s) + 1 /\ r[1] = f /\ Len(s) \in Nat
      /\ \A i \in 1..Len(s) : r[i + 1] = s[i] /\ i + 1 \in 1..Len(r)
  BY Pushed
<1>2. /\ HeldCount(s) \in Nat /\ (Held(f) => HeldCount(r) = HeldCount(s) + 1)
      /\ \A i \in 1..Len(s) : Depth(r, i + 1) = Depth(s, i)
      /\ Depth(r, 1) = HeldCount(r)
  BY HeldPush, DepthPush DEF Count
<1> HIDE DEF r
<1>3. \A i \in Pending(s) : i \in 1..Len(s) /\ i + 1 \in Pending(r)
  BY <1>1 DEF Pending
<1>4. \A i \in Pending(r) : i = 1 \/ (i - 1 \in Pending(s) /\ (i - 1) + 1 = i)
  <2> TAKE i \in Pending(r)
  <2>1. CASE i # 1
    <3>1. i - 1 \in 1..Len(s) /\ (i - 1) + 1 = i
      BY <1>1, <2>1 DEF Pending
    <3> QED BY <1>1, <3>1 DEF Pending
  <2> QED BY <2>1
<1>5. 1 \in Pending(r) <=> Held(f)
  BY <1>1 DEF Pending
<1>6. ASSUME HeldTyped(r, ops)
      PROVE  HeldTyped(s, ops) /\ (Held(f) => ops[HeldCount(s) + 1].type = toLLVMType(f.other))
  <2>1. HeldTyped(s, ops)
    BY <1>1, <1>2, <1>3, <1>6 DEF HeldTyped
  <2>2. Held(f) => ops[HeldCount(s) + 1].type = toLLVMType(f.other)
    BY <1>1, <1>2, <1>5, <1>6 DEF HeldTyped
  <2> QED BY <2>1, <2>2
<1>7. ASSUME HeldTyped(s, ops), Held(f) => ops[HeldCount(s) + 1].type = toLLVMType(f.other)
      PROVE  HeldTyped(r, ops)
  <2> SUFFICES ASSUME NEW i \in Pending(r)
               PROVE  ops[Depth(r, i)].type = toLLVMType(r[i].other)
    BY DEF HeldTyped
  <2>1. CASE i = 1
    BY <1>1, <1>2, <1>5, <1>7, <2>1
  <2>2. CASE i # 1
    <3>1. i - 1 \in Pending(s) /\ (i - 1) + 1 = i /\ i - 1 \in 1..Len(s)
      BY <1>3, <1>4, <2>2
    <3>2. Depth(r, i) = Depth(s, i - 1) /\ r[i] = s[i - 1]
      BY <1>1, <1>2, <3>1
    <3> QED BY <1>7, <3>1, <3>2 DEF HeldTyped
  <2> QED BY <2>1, <2>2
<1> QED BY <1>6, <1>7 DEF r

\* What the active frame finds on the operand stack, above the operands that
\* its callers have there.
LEMMA OperandsFound ==
    ASSUME NEW s \in Seq(Frames), NEW h \in Frames, NEW ops, NEW o,
           OperandsOK(<<h>> \o s, ops, o)
    PROVE  /\ h.at \notin AfterExpr => AtBase(s, ops, o)
           /\ h.at \in AfterExpr /\ ~Held(h) =>
                /\ Len(ops) = HeldCount(s) + 1
                /\ AtBase(s, SubSeq(ops, 1, Len(ops) - 1), o)
                /\ ops[Len(ops)] \in Values
                /\ Known(o) => ops[Len(ops)].type = toLLVMType(h.type)
           /\ Held(h) =>
                /\ Len(ops) = HeldCount(s) + 2
                /\ AtBase(s, SubSeq(ops, 1, Len(ops) - 2), o)
                /\ ops[Len(ops)] \in Values /\ ops[Len(ops) - 1] \in Values
                /\ Known(o) => /\ ops[Len(ops)].type = toLLVMType(h.type)
                        /\ ops[Len(ops) - 1].type = toLLVMType(h.other)
<1> DEFINE r == <<h>> \o s
           n == HeldCount(s)
           l == Len(ops)
<1>1. r # <<>> /\ Head(r) = h
  OBVIOUS
<1>2. /\ n \in Nat /\ (Held(h) => HeldCount(r) = n + 1) /\ (~Held(h) => HeldCount(r) = n)
      /\ HeldTyped(r, ops) =>
           HeldTyped(s, ops) /\ (Held(h) => ops[n + 1].type = toLLVMType(h.other))
  BY HeldPush, HeldTypedPush DEF Count
<1>3. Held(h) => h.at \in AfterExpr
  BY DEF Held, AfterExpr
<1> HIDE DEF r
<1>4. /\ ops \in Seq(Values) /\ l \in Nat
      /\ l = HeldCount(r) + (IF Waiting(r) THEN 1 ELSE 0)
      /\ Known(o) => HeldTyped(r, ops)
      /\ Known(o) /\ Waiting(r) => ops[l].type = toLLVMType(h.type)
  BY <1>1 DEF OperandsOK, r
<1>5. Waiting(r) <=> h.at \in AfterExpr
  BY <1>1 DEF Waiting
<1>6. ASSUME NEW k \in {1, 2}, n = l - k
      PROVE  AtBase(s, SubSeq(ops, 1, l - k), o)
  <2>1. /\ SubSeq(ops, 1, l - k) \in Seq(Values) /\ Len(SubSeq(ops, 1, l - k)) = n
        /\ \A i \in 1..n : SubSeq(ops, 1, l - k)[i] = ops[i]
    BY <1>2, <1>4, <1>6
  <2>2. Known(o) => HeldTyped(s, SubSeq(ops, 1, l - k))
    BY <1>2, <1>4, <2>1, HeldKept
  <2> QED BY <2>1, <2>2 DEF AtBase
<1>7. CASE h.at \notin AfterExpr
  <2>1. l = n /\ (Known(o) => HeldTyped(s, ops))
    BY <1>2, <1>3, <1>4, <1>5, <1>7
  <2> QED BY <1>3, <1>4, <1>7, <2>1 DEF AtBase
<1>8. CASE h.at \in AfterExpr /\ ~Held(h)
  <2>1. l = n + 1 /\ n = l - 1
    BY <1>2, <1>4, <1>5, <1>8
  <2>2. ops[l] \in Values
    BY <1>2, <1>4, <2>1
  <2>3. AtBase(s, SubSeq(ops, 1, l - 1), o)
    BY <1>6, <2>1
  <2> QED BY <1>4, <1>5, <1>8, <2>1, <2>2, <2>3
<1>9. CASE Held(h)
  <2>1. l = n + 2 /\ n = l - 2 /\ l - 1 = n + 1
    BY <1>2, <1>3, <1>4, <1>5, <1>9
  <2>2. ops[l] \in Values /\ ops[l - 1] \in Values
    BY <1>2, <1>4, <2>1
  <2>3. Known(o) => ops[l - 1].type = toLLVMType(h.other)
    BY <1>2, <1>4, <1>9, <2>1
  <2>4. AtBase(s, SubSeq(ops, 1, l - 2), o)
    BY <1>6, <2>1
  <2> QED BY <1>3, <1>4, <1>5, <1>9, <2>1, <2>2, <2>3, <2>4
<1> QED BY <1>7, <1>8, <1>9

\* What it leaves there: the result that its caller waits for, or nothing, or
\* an operand for the frame that goes on after the call of another.
LEMMA ResultLeft ==
    ASSUME NEW s \in Seq(Frames), NEW ops, NEW o, AtBase(s, ops, o),
           Waiting(s), NEW v \in Values, Known(o) => v.type = toLLVMType(Head(s).type)
    PROVE  OperandsOK(s, Append(ops, v), o)
<1> DEFINE new == Append(ops, v)
<1>1. ops \in Seq(Values) /\ Len(ops) = HeldCount(s) /\ (Known(o) => HeldTyped(s, ops))
  BY DEF AtBase
<1>2. /\ new \in Seq(Values) /\ Len(new) = Len(ops) + 1 /\ new[Len(new)] = v
      /\ \A k \in 1..Len(ops) : new[k] = ops[k]
  BY <1>1
<1> HIDE DEF new
<1>3. Known(o) => HeldTyped(s, new)
  BY <1>1, <1>2, HeldKept
<1>4. Len(new) = HeldCount(s) + (IF Waiting(s) THEN 1 ELSE 0)
  BY <1>1, <1>2
<1> QED BY <1>2, <1>3, <1>4 DEF OperandsOK, new

LEMMA NothingLeft ==
    ASSUME NEW s \in Seq(Frames), NEW ops, NEW o, AtBase(s, ops, o), ~Waiting(s)
    PROVE  OperandsOK(s, ops, o)
<1>1. HeldCount(s) \in Nat
  <2>1. CASE s = <<>>
    <3>1. Pending(s) = {}
      BY <2>1 DEF Pending
    <3> QED BY <3>1, FS_EmptySet DEF HeldCount
  <2>2. CASE s # <<>>
    <3>1. Tail(s) \in Seq(Frames) /\ Head(s) \in Frames /\ s = <<Head(s)>> \o Tail(s)
      BY <2>2
    <3>2. HeldCount(Tail(s)) \in Nat /\ HeldCount(s) = HeldCount(Tail(s)) + Count(Held(Head(s)))
      BY <3>1, HeldPush
    <3> QED BY <3>2 DEF Count
  <2> QED BY <2>1, <2>2
<1>2. HeldCount(s) + (IF Waiting(s) THEN 1 ELSE 0) = HeldCount(s)
  BY <1>1
<1> QED BY <1>2 DEF AtBase, OperandsOK

LEMMA BasePush ==
    ASSUME NEW s \in Seq(Frames), NEW ops, NEW o, AtBase(s, ops, o),
           NEW f \in Frames
    PROVE  /\ ~Held(f) => AtBase(<<f>> \o s, ops, o)
           /\ f.at \notin AfterExpr => OperandsOK(<<f>> \o s, ops, o)
           /\ \A v \in Values : Held(f) /\ (Known(o) => v.type = toLLVMType(f.other)) =>
                AtBase(<<f>> \o s, Append(ops, v), o)
<1> DEFINE r == <<f>> \o s
           n == HeldCount(s)
<1>1. r # <<>> /\ Head(r) = f /\ r \in Seq(Frames)
  OBVIOUS
<1>2. n \in Nat /\ (Held(f) => HeldCount(r) = n + 1) /\ (~Held(f) => HeldCount(r) = n)
  BY HeldPush DEF Count
<1>3. \A new : HeldTyped(r, new) <=>
        HeldTyped(s, new) /\ (Held(f) => new[n + 1].type = toLLVMType(f.other))
  BY HeldTypedPush
<1>4. ops \in Seq(Values) /\ Len(ops) = n /\ (Known(o) => HeldTyped(s, ops))
  BY DEF AtBase
<1> HIDE DEF r
<1>5. ~Held(f) => AtBase(r, ops, o)
  BY <1>2, <1>3, <1>4 DEF AtBase
<1>6. f.at \notin AfterExpr => OperandsOK(r, ops, o)
  <2> SUFFICES ASSUME f.at \notin AfterExpr PROVE OperandsOK(r, ops, o)
    OBVIOUS
  <2>1. ~Held(f) /\ ~Waiting(r)
    BY <1>1 DEF Held, AfterExpr, Waiting
  <2> QED BY <1>1, <1>5, <2>1, NothingLeft
<1>7. ASSUME NEW v \in Values, Held(f), Known(o) => v.type = toLLVMType(f.other)
      PROVE  AtBase(r, Append(ops, v), o)
  <2> DEFINE new == Append(ops, v)
  <2>1. /\ new \in Seq(Values) /\ Len(new) = n + 1 /\ new[n + 1] = v
        /\ \A k \in 1..n : new[k] = ops[k]
    BY <1>4
  <2> HIDE DEF new
  <2>2. Known(o) => HeldTyped(s, new)
    BY <1>4, <2>1, HeldKept
  <2>3. Known(o) => HeldTyped(r, new)
    BY <1>3, <1>7, <2>1, <2>2
  <2>4. Len(new) = HeldCount(r)
    BY <1>2, <1>7, <2>1
  <2> QED BY <2>1, <2>3, <2>4 DEF AtBase, new
<1> QED BY <1>5, <1>6, <1>7 DEF r

\* More odd forms do not disturb an operand stack.
LEMMA BaseKept ==
    ASSUME NEW s, NEW ops, NEW o, AtBase(s, ops, o), NEW p, o \subseteq p
    PROVE  AtBase(s, ops, p)
BY DEF AtBase, Known
-----------------------------------------------------------------------------
(* The inductive invariant                                                 *)

Block == [attached : BOOLEAN, end : Ends, succs : SUBSET Nat]
Function == [type : Types \cup {NULL}, params : Seq(Params)]

CallsOK == StackOK(stack, Len(blocks), funcs, sigs)
Running == stack # <<>> /\ ~At("VectorNode") => insert \in 1..Len(blocks)
FuncsOK ==
    /\ funcs \in [Names -> Function]
    /\ \A n \in Names : funcs[n] # NoFunction => funcs[n].type \in Types
Control == blocks \in Seq(Block) /\ FuncsOK /\ CallsOK /\ Running

\* The active frame, and those that wait for it.
LEMMA Active ==
    ASSUME Control, stack # <<>>
    PROVE  /\ top \in Frames /\ FrameOK(top, Len(blocks), funcs)
           /\ Tail(stack) \in Seq(Frames) /\ stack = <<top>> \o Tail(stack)
           /\ StackOK(Tail(stack), Len(blocks), funcs, sigs)
           /\ CanCall(Tail(stack), top, sigs)
           /\ Len(blocks) \in Nat
           /\ top.at # "VectorNode" => insert \in 1..Len(blocks)
<1>1. StackOK(stack, Len(blocks), funcs, sigs) /\ Len(blocks) \in Nat
  BY DEF Control, CallsOK
<1>2. top.at # "VectorNode" => insert \in 1..Len(blocks)
  BY DEF Control, Running, At, top
<1> QED BY <1>1, <1>2, StackTail DEF top
-----------------------------------------------------------------------------
(* Basic blocks                                                            *)

LEMMA Inserting ==
    ASSUME NEW bbs \in Seq(Block), insert \in 1..Len(bbs)
    PROVE  /\ Emit(bbs) \in Seq(Block) /\ Len(Emit(bbs)) = Len(bbs)
           /\ \A end \in Ends, succs \in SUBSET Nat :
                /\ Terminate(bbs, end, succs) \in Seq(Block)
                /\ Len(Terminate(bbs, end, succs)) = Len(bbs)
<1>1. bbs[insert] \in Block
  OBVIOUS
<1>2. \A b \in Block :
        /\ [bbs EXCEPT ![insert] = b] \in Seq(Block)
        /\ Len([bbs EXCEPT ![insert] = b]) = Len(bbs)
  BY ExceptSeq
<1>3. [bbs[insert] EXCEPT !.end = "broken"] \in Block
  BY <1>1 DEF Block, Ends
<1>4. [bbs EXCEPT ![insert].end = "broken"]
        = [bbs EXCEPT ![insert] = [bbs[insert] EXCEPT !.end = "broken"]]
  OBVIOUS
<1>5. ASSUME NEW end \in Ends, NEW succs \in SUBSET Nat
      PROVE  [bbs[insert] EXCEPT !.end = end, !.succs = succs] \in Block
  BY <1>1 DEF Block
<1>6. ASSUME NEW end \in Ends, NEW succs \in SUBSET Nat
      PROVE  [bbs EXCEPT ![insert] = [@ EXCEPT !.end = end, !.succs = succs]]
               = [bbs EXCEPT ![insert] = [bbs[insert] EXCEPT !.end = end, !.succs = succs]]
  OBVIOUS
<1>7. Emit(bbs) \in Seq(Block) /\ Len(Emit(bbs)) = Len(bbs)
  BY <1>2, <1>3, <1>4 DEF Emit
<1>8. ASSUME NEW end \in Ends, NEW succs \in SUBSET Nat
      PROVE  /\ Terminate(bbs, end, succs) \in Seq(Block)
             /\ Len(Terminate(bbs, end, succs)) = Len(bbs)
  BY <1>2, <1>3, <1>4, <1>5, <1>6 DEF Terminate
<1> QED BY <1>7, <1>8

LEMMA Attaching ==
    ASSUME NEW bbs \in Seq(Block), NEW b \in 1..Len(bbs)
    PROVE  Attach(bbs, b) \in Seq(Block) /\ Len(Attach(bbs, b)) = Len(bbs)
<1>1. [bbs[b] EXCEPT !.attached = TRUE] \in Block
  <2>1. bbs[b] \in Block
    OBVIOUS
  <2> QED BY <2>1 DEF Block
<1>2. Attach(bbs, b) = [bbs EXCEPT ![b] = [bbs[b] EXCEPT !.attached = TRUE]]
  BY DEF Attach
<1> QED BY <1>1, <1>2, ExceptSeq

LEMMA MakingBlocks ==
    ASSUME NEW bbs \in Seq(Block)
    PROVE  /\ <<Attached>> \in Seq(Block) /\ Len(<<Attached>>) = 1
           /\ bbs \o <<Attached, Detached>> \in Seq(Block)
           /\ Len(bbs \o <<Attached, Detached>>) = Len(bbs) + 2
           /\ \A b \in Block :
                /\ bbs \o <<Attached, b, Detached>> \in Seq(Block)
                /\ Len(bbs \o <<Attached, b, Detached>>) = Len(bbs) + 3
           /\ Attached \in Block /\ Detached \in Block
<1>1. Attached \in Block /\ Detached \in Block
  BY DEF Attached, Detached, Block, Ends
<1> HIDE DEF Block, Attached, Detached
<1>2. <<Attached, Detached>> \in Seq(Block) /\ Len(<<Attached, Detached>>) = 2
  BY <1>1
<1>3. \A b \in Block : <<Attached, b, Detached>> \in Seq(Block) /\ Len(<<Attached, b, Detached>>) = 3
  BY <1>1
<1>4. <<Attached>> \in Seq(Block) /\ Len(<<Attached>>) = 1
  BY <1>1
<1>5. bbs \o <<Attached, Detached>> \in Seq(Block)
      /\ Len(bbs \o <<Attached, Detached>>) = Len(bbs) + 2
  BY <1>2, ConcatProperties
<1>6. ASSUME NEW b \in Block
      PROVE  /\ bbs \o <<Attached, b, Detached>> \in Seq(Block)
             /\ Len(bbs \o <<Attached, b, Detached>>) = Len(bbs) + 3
  BY <1>3, ConcatProperties
<1> QED BY <1>1, <1>4, <1>5, <1>6

\* Where control goes on: blocks are only added.
BlocksGrow ==
    /\ blocks' \in Seq(Block)
    /\ Len(blocks') \in Nat /\ Len(blocks) <= Len(blocks')
    /\ insert' \in 1..Len(blocks')

LEMMA Emitting ==
    ASSUME Control, stack # <<>>, top.at # "VectorNode",
           blocks' \in {blocks, Emit(blocks)}, UNCHANGED insert
    PROVE  BlocksGrow /\ Len(blocks') = Len(blocks)
<1>1. blocks \in Seq(Block) /\ insert \in 1..Len(blocks) /\ Len(blocks) \in Nat
  BY Active DEF Control
<1> QED BY <1>1, Inserting DEF BlocksGrow

\* The actions that do not end a block.
Emits ==
    \/ ConstantNode \/ VarNode \/ BinaryNode \/ EagerLhs \/ EagerRhs \/ UnaryNode
    \/ UnaryOperand \/ FuncallNode \/ FuncallArg \/ AssignmentNode \/ AssignmentRhs
    \/ PrintOrReturn \/ IoPrintNode \/ ExpressionWrapperNode \/ BlockStatementNode
    \/ BlockLoop \/ BlockStatement \/ IfStatementNode \/ Unwind

LEMMA EmitsInPlace ==
    ASSUME Emits
    PROVE  blocks' \in {blocks, Emit(blocks)} /\ UNCHANGED <<insert, funcs>>
<1>1. CASE ConstantNode \/ BinaryNode \/ EagerLhs \/ UnaryNode
  BY <1>1 DEF ConstantNode, BinaryNode, EagerLhs, UnaryNode, ir, syms
<1>2. CASE VarNode
  BY <1>2 DEF VarNode, syms
<1>3. CASE EagerRhs \/ UnaryOperand
  BY <1>3 DEF EagerRhs, UnaryOperand, syms
<1>4. CASE FuncallNode
  BY <1>4, Zenon DEF FuncallNode, syms
<1>5. CASE FuncallArg
  BY <1>5, Zenon DEF FuncallArg, syms
<1>6. CASE AssignmentNode \/ AssignmentRhs \/ IoPrintNode
  BY <1>6 DEF AssignmentNode, AssignmentRhs, IoPrintNode, ir, syms
<1>7. CASE PrintOrReturn \/ ExpressionWrapperNode \/ BlockStatementNode
           \/ BlockLoop \/ BlockStatement \/ IfStatementNode \/ Unwind
  BY <1>7 DEF PrintOrReturn, ExpressionWrapperNode, BlockStatementNode,
              BlockLoop, BlockStatement, IfStatementNode, Unwind, ir, syms
<1> QED BY <1>1, <1>2, <1>3, <1>4, <1>5, <1>6, <1>7 DEF Emits

LEMMA EmitsAreRunning ==
    ASSUME Emits
    PROVE  stack # <<>> /\ top.at # "VectorNode"
<1>1. CASE Unwind
  BY <1>1, Zenon DEF Unwind, AfterExpr, AfterStatement
<1>2. CASE ~Unwind
  BY <1>2, Zenon DEF Emits, ConstantNode, VarNode, BinaryNode, EagerLhs, EagerRhs, UnaryNode,
     UnaryOperand, FuncallNode, FuncallArg, AssignmentNode, AssignmentRhs,
     PrintOrReturn, IoPrintNode, ExpressionWrapperNode, BlockStatementNode,
     BlockLoop, BlockStatement, IfStatementNode, At, Resume, Visit, top
<1> QED BY <1>1, <1>2

LEMMA EmitsStep ==
    ASSUME Control, Emits
    PROVE  /\ BlocksGrow /\ Len(blocks') = Len(blocks) /\ UNCHANGED <<insert, funcs>>
           /\ stack # <<>> /\ top.at # "VectorNode"
BY EmitsInPlace, EmitsAreRunning, Emitting

\* The blocks that the active frame keeps.
LEMMA KeptBlocks ==
    ASSUME Control, stack # <<>>, top.at # "FuncallNode"
    PROVE  /\ Len(top.bbs) = Kept(top) /\ top.bbs \in Seq(Nat)
           /\ \A i \in 1..Kept(top) : top.bbs[i] \in 1..Len(blocks)
BY Active DEF FrameOK, Frames

LEMMA ShortCircuitLhsBlocks ==
    ASSUME Control, ShortCircuitLhs
    PROVE  /\ BlocksGrow
           /\ Len(blocks) + 1 \in 1..Len(blocks') /\ Len(blocks) + 2 \in 1..Len(blocks')
<1>1. stack # <<>> /\ top.at # "VectorNode" /\ Len(blocks) \in Nat
  BY Active DEF ShortCircuitLhs, Resume, At, top
<1>2. insert \in 1..Len(blocks) /\ blocks \in Seq(Block)
  BY <1>1, Active DEF Control
<1> DEFINE new == blocks \o <<Attached, Detached>>
<1>3. new \in Seq(Block) /\ Len(new) = Len(blocks) + 2
  BY <1>2, MakingBlocks
<1>4. /\ blocks' = Terminate(new, "br", {Len(blocks) + 1, Len(blocks) + 2})
      /\ insert' = Len(blocks) + 1
  BY DEF ShortCircuitLhs
<1> HIDE DEF new
<1>5. "br" \in Ends /\ {Len(blocks) + 1, Len(blocks) + 2} \in SUBSET Nat /\ insert \in 1..Len(new)
  BY <1>1, <1>2, <1>3 DEF Ends
<1>6. blocks' \in Seq(Block) /\ Len(blocks') = Len(blocks) + 2
  BY <1>3, <1>4, <1>5, Inserting
<1> QED BY <1>1, <1>4, <1>6 DEF BlocksGrow

LEMMA ShortCircuitRhsBlocks ==
    ASSUME Control, ShortCircuitRhs
    PROVE  BlocksGrow
<1>1. stack # <<>> /\ top.at = "BinaryNode.rhs" /\ top.kind = "bilogShortCircuit"
  BY DEF ShortCircuitRhs, Resume, At, top
<1>2. insert \in 1..Len(blocks) /\ blocks \in Seq(Block) /\ Len(blocks) \in Nat
  BY <1>1, Active DEF Control
<1> DEFINE m == top.bbs[1]
<1>3. m \in 1..Len(blocks)
  <2>1. Kept(top) = 1
    BY <1>1 DEF Kept, ShortCircuit
  <2> QED BY <1>1, <2>1, KeptBlocks
<1>4. blocks' = Attach(Terminate(blocks, "br", {m}), m) /\ insert' = m
  BY DEF ShortCircuitRhs
<1> HIDE DEF m
<1>5. "br" \in Ends /\ {m} \in SUBSET Nat
  BY <1>2, <1>3 DEF Ends
<1>6. Terminate(blocks, "br", {m}) \in Seq(Block) /\ Len(Terminate(blocks, "br", {m})) = Len(blocks)
  BY <1>2, <1>5, Inserting
<1>7. blocks' \in Seq(Block) /\ Len(blocks') = Len(blocks)
  BY <1>3, <1>4, <1>6, Attaching
<1> QED BY <1>2, <1>3, <1>4, <1>7 DEF BlocksGrow

\* A branch or a fall into b at the end of the insert block, after which m is
\* attached.
LEMMA Ending ==
    ASSUME NEW bbs \in Seq(Block), insert \in 1..Len(bbs)
    PROVE  /\ \A b, d \in 1..Len(bbs) :
                /\ Terminate(bbs, "br", {b, d}) \in Seq(Block)
                /\ Len(Terminate(bbs, "br", {b, d})) = Len(bbs)
                /\ Terminate(bbs, "br", {b}) \in Seq(Block)
                /\ Len(Terminate(bbs, "br", {b})) = Len(bbs)
                /\ FallInto(bbs, b) \in Seq(Block)
                /\ Len(FallInto(bbs, b)) = Len(bbs)
           /\ \A end \in {"ret", "unreachable"} :
                /\ Terminate(bbs, end, {}) \in Seq(Block)
                /\ Len(Terminate(bbs, end, {})) = Len(bbs)
<1>1. \A end \in Ends, succs \in SUBSET Nat :
        /\ Terminate(bbs, end, succs) \in Seq(Block)
        /\ Len(Terminate(bbs, end, succs)) = Len(bbs)
  BY Inserting
<1>2. {"br", "ret", "unreachable"} \subseteq Ends /\ {} \in SUBSET Nat
  BY DEF Ends
<1>3. ASSUME NEW b \in 1..Len(bbs), NEW d \in 1..Len(bbs)
      PROVE  {b, d} \in SUBSET Nat /\ {b} \in SUBSET Nat
  OBVIOUS
<1>4. ASSUME NEW b \in 1..Len(bbs), NEW d \in 1..Len(bbs)
      PROVE  /\ Terminate(bbs, "br", {b, d}) \in Seq(Block)
             /\ Len(Terminate(bbs, "br", {b, d})) = Len(bbs)
             /\ Terminate(bbs, "br", {b}) \in Seq(Block)
             /\ Len(Terminate(bbs, "br", {b})) = Len(bbs)
  BY <1>1, <1>2, <1>3
<1>5. ASSUME NEW b \in 1..Len(bbs)
      PROVE  FallInto(bbs, b) \in Seq(Block) /\ Len(FallInto(bbs, b)) = Len(bbs)
  BY <1>4 DEF FallInto
<1>6. \A end \in {"ret", "unreachable"} :
        /\ Terminate(bbs, end, {}) \in Seq(Block)
        /\ Len(Terminate(bbs, end, {})) = Len(bbs)
  BY <1>1, <1>2
<1> QED BY <1>4, <1>5, <1>6

Branches ==
    \/ ReturnNode \/ IfTrue \/ IfFalse \/ WhileCond \/ WhileBody
    \/ DoWhileBody \/ DoWhileCond \/ FunctionDefEnd

LEMMA BranchesBlocks ==
    ASSUME Control, Branches
    PROVE  /\ BlocksGrow /\ Len(blocks') = Len(blocks)
           /\ stack # <<>> /\ top.at # "VectorNode" /\ UNCHANGED funcs
<1>1. /\ stack # <<>> /\ top.at \notin {"VectorNode", "FuncallNode"}
      /\ UNCHANGED funcs
  BY DEF Branches, ReturnNode, IfTrue, IfFalse, WhileCond, WhileBody, DoWhileBody,
     DoWhileCond, FunctionDefEnd, Resume, At, top, syms
<1>2. insert \in 1..Len(blocks) /\ blocks \in Seq(Block) /\ Len(blocks) \in Nat
  BY <1>1, Active DEF Control
<1>3. \A i \in 1..Kept(top) : top.bbs[i] \in 1..Len(blocks)
  BY <1>1, KeptBlocks
<1>4. /\ \A b, d \in 1..Len(blocks) :
           /\ Terminate(blocks, "br", {b, d}) \in Seq(Block)
           /\ Len(Terminate(blocks, "br", {b, d})) = Len(blocks)
           /\ FallInto(blocks, b) \in Seq(Block)
           /\ Len(FallInto(blocks, b)) = Len(blocks)
      /\ \A end \in {"ret", "unreachable"} :
           /\ Terminate(blocks, end, {}) \in Seq(Block)
           /\ Len(Terminate(blocks, end, {})) = Len(blocks)
  BY <1>2, Ending
<1>5. \A bbs \in Seq(Block) : \A b \in 1..Len(bbs) :
        Attach(bbs, b) \in Seq(Block) /\ Len(Attach(bbs, b)) = Len(bbs)
  BY Attaching
<1> SUFFICES blocks' \in Seq(Block) /\ Len(blocks') = Len(blocks) /\ insert' \in 1..Len(blocks)
  BY <1>1, <1>2 DEF BlocksGrow
<1>6. CASE ReturnNode \/ FunctionDefEnd
  BY <1>2, <1>4, <1>6 DEF ReturnNode, FunctionDefEnd
<1>7. CASE IfTrue
  <2>1. top.bbs[1] \in 1..Len(blocks) /\ top.bbs[2] \in 1..Len(blocks)
    <3>1. Kept(top) = 2
      BY <1>7 DEF IfTrue, Resume, At, top, Kept, ShortCircuit
    <3> QED BY <1>3, <3>1
  <2>2. blocks' = Attach(FallInto(blocks, top.bbs[2]), top.bbs[1]) /\ insert' = top.bbs[1]
    BY <1>7 DEF IfTrue
  <2> QED BY <1>4, <1>5, <2>1, <2>2
<1>8. CASE IfFalse
  <2>1. top.bbs[1] \in 1..Len(blocks)
    <3>1. Kept(top) = 1
      BY <1>8 DEF IfFalse, Resume, At, top, Kept, ShortCircuit
    <3> QED BY <1>3, <3>1
  <2>2. blocks' = Attach(FallInto(blocks, top.bbs[1]), top.bbs[1]) /\ insert' = top.bbs[1]
    BY <1>8 DEF IfFalse
  <2> QED BY <1>4, <1>5, <2>1, <2>2
<1>9. CASE WhileCond
  <2>1. top.bbs[2] \in 1..Len(blocks) /\ top.bbs[3] \in 1..Len(blocks)
    <3>1. Kept(top) = 3
      BY <1>9 DEF WhileCond, Resume, At, top, Kept, ShortCircuit
    <3> QED BY <1>3, <3>1
  <2>2. blocks' = Terminate(blocks, "br", {top.bbs[2], top.bbs[3]}) /\ insert' = top.bbs[2]
    BY <1>9 DEF WhileCond
  <2> QED BY <1>4, <2>1, <2>2
<1>10. CASE WhileBody \/ DoWhileBody \/ DoWhileCond
  <2>1. top.bbs[1] \in 1..Len(blocks) /\ top.bbs[2] \in 1..Len(blocks)
    <3>1. Kept(top) = 2
      BY <1>10 DEF WhileBody, DoWhileBody, DoWhileCond, Resume, At, top, Kept, ShortCircuit
    <3> QED BY <1>3, <3>1
  <2>2. CASE WhileBody
    <3>1. blocks' = Attach(FallInto(blocks, top.bbs[1]), top.bbs[2]) /\ insert' = top.bbs[2]
      BY <2>2 DEF WhileBody
    <3> QED BY <1>4, <1>5, <2>1, <3>1
  <2>3. CASE DoWhileBody
    <3>1. \/ blocks' = blocks /\ insert' = insert
          \/ blocks' = Attach(blocks, top.bbs[2]) /\ insert' = top.bbs[2]
      BY <2>3 DEF DoWhileBody
    <3> QED BY <1>2, <1>5, <2>1, <3>1
  <2>4. CASE DoWhileCond
    <3>1. /\ blocks' = Attach(Terminate(blocks, "br", {top.bbs[1], top.bbs[2]}), top.bbs[2])
          /\ insert' = top.bbs[2]
      BY <2>4 DEF DoWhileCond
    <3> QED BY <1>4, <1>5, <2>1, <3>1
  <2> QED BY <1>10, <2>2, <2>3, <2>4
<1> QED BY <1>6, <1>7, <1>8, <1>9, <1>10 DEF Branches

\* The statements that make blocks.
LEMMA MakersBlocks ==
    ASSUME Control, IfCond \/ WhileStatementNode \/ DoWhileStatementNode
    PROVE  /\ BlocksGrow /\ stack # <<>> /\ top.at # "VectorNode" /\ UNCHANGED funcs
           /\ Len(blocks) + 1 \in 1..Len(blocks') /\ Len(blocks) + 2 \in 1..Len(blocks')
           /\ IfCond \/ WhileStatementNode => Len(blocks) + 3 \in 1..Len(blocks')
<1>1. stack # <<>> /\ top.at # "VectorNode" /\ UNCHANGED funcs
  BY DEF IfCond, WhileStatementNode, DoWhileStatementNode, Resume, Visit, At, top, syms
<1>2. insert \in 1..Len(blocks) /\ blocks \in Seq(Block) /\ Len(blocks) \in Nat
  BY <1>1, Active DEF Control
<1>3. CASE DoWhileStatementNode /\ ~(IfCond \/ WhileStatementNode)
  <2> DEFINE new == blocks \o <<Attached, Detached>>
  <2>1. new \in Seq(Block) /\ Len(new) = Len(blocks) + 2
    BY <1>2, MakingBlocks
  <2>2. blocks' = Terminate(new, "br", {Len(blocks) + 1}) /\ insert' = Len(blocks) + 1
    BY <1>3 DEF DoWhileStatementNode
  <2> HIDE DEF new
  <2>3. insert \in 1..Len(new) /\ Len(blocks) + 1 \in 1..Len(new)
    BY <1>2, <2>1
  <2>4. blocks' \in Seq(Block) /\ Len(blocks') = Len(blocks) + 2
    BY <2>1, <2>2, <2>3, Ending
  <2> QED BY <1>1, <1>2, <1>3, <2>2, <2>4 DEF BlocksGrow
<1>4. CASE IfCond \/ WhileStatementNode
  <2>1. \E b \in {Attached, Detached} : \E succs \in SUBSET {Len(blocks) + 1, Len(blocks) + 2} :
          /\ blocks' = Terminate(blocks \o <<Attached, b, Detached>>, "br", succs)
          /\ insert' = Len(blocks) + 1
    <3>1. CASE IfCond
      BY <3>1 DEF IfCond
    <3>2. CASE WhileStatementNode
      BY <3>2 DEF WhileStatementNode
    <3> QED BY <1>4, <3>1, <3>2
  <2>2. PICK b \in {Attached, Detached}, succs \in SUBSET {Len(blocks) + 1, Len(blocks) + 2} :
          /\ blocks' = Terminate(blocks \o <<Attached, b, Detached>>, "br", succs)
          /\ insert' = Len(blocks) + 1
    BY <2>1
  <2> DEFINE new == blocks \o <<Attached, b, Detached>>
  <2>3. new \in Seq(Block) /\ Len(new) = Len(blocks) + 3
    BY <1>2, MakingBlocks
  <2>4. blocks' = Terminate(new, "br", succs)
    BY <2>2
  <2> HIDE DEF new
  <2>5. "br" \in Ends /\ succs \in SUBSET Nat /\ insert \in 1..Len(new)
    BY <1>2, <2>3 DEF Ends
  <2>6. blocks' \in Seq(Block) /\ Len(blocks') = Len(blocks) + 3
    BY <2>3, <2>4, <2>5, Inserting
  <2> QED BY <1>1, <1>2, <2>2, <2>6 DEF BlocksGrow
<1> QED BY <1>3, <1>4
-----------------------------------------------------------------------------
(* Calls and returns                                                       *)

Results == isSuccess => OperandsOK(stack, operands, odd)
Scoped == Len(scopeStack) = 1 + BlockCount(stack)
Coherent == Control /\ Results /\ Scoped

\* As long as no function has two definitions, the parser and the code
\* generator agree on the type of a function.
SigsOK ==
    "redefinition" \notin odd =>
        \A n \in Names : funcs[n] # NoFunction => funcs[n].type = sigs[n]

\* A step that leaves the functions alone.
Moving == stack # <<>> /\ BlocksGrow /\ UNCHANGED <<funcs, sigs>> /\ odd \subseteq odd'

LEMMA BlocksHere ==
    ASSUME Control, Scoped, stack # <<>>
    PROVE  /\ BlockCount(Tail(stack)) \in Nat
           /\ Len(scopeStack) = 1 + BlockCount(Tail(stack)) + Opens(top)
<1>1. BlockCount(Tail(stack)) \in Nat
      /\ BlockCount(<<top>> \o Tail(stack)) = BlockCount(Tail(stack)) + Opens(top)
  BY Active, BlocksPush
<1>2. stack = <<top>> \o Tail(stack)
  BY Active
<1>3. BlockCount(stack) = BlockCount(<<top>> \o Tail(stack))
  BY <1>2, Zenon
<1>4. Opens(top) \in Nat
  BY DEF Opens
<1> QED BY <1>1, <1>3, <1>4 DEF Scoped

LEMMA ControlKept ==
    ASSUME Control, Moving, StackOK(stack', Len(blocks'), funcs, sigs)
    PROVE  Control'
BY DEF Control, Moving, BlocksGrow, FuncsOK, CallsOK, Running

\* The callers of a frame are not disturbed by what it does.
LEMMA CallersKept ==
    ASSUME Control, Moving
    PROVE  StackOK(Tail(stack), Len(blocks'), funcs, sigs) /\ Tail(stack) \in Seq(Frames)
BY Active, StackGrows DEF Moving, BlocksGrow

\* Whom an expression returns to, and whom not.
LEMMA ReturnsTo ==
    ASSUME Control, stack # <<>>
    PROVE  /\ top.at \in ExpressionLabels =>
                /\ Waiting(Tail(stack))
                /\ ResultType(top, sigs) = Head(Tail(stack)).type
           /\ top.at \notin ExpressionLabels => ~Waiting(Tail(stack))
<1> DEFINE r == Tail(stack)
           h == top
<1>1. CanCall(r, h, sigs) /\ h.at \in Labels /\ r \in Seq(Frames)
  BY Active DEF Frames
<1> HIDE DEF r, h
<1>2. r # <<>> => Head(r).at \in Labels
  <2>1. r # <<>> => Head(r) \in Frames
    BY <1>1
  <2> QED BY <2>1 DEF Frames
<1>3. h.at \in ExpressionLabels => h.at # "VectorNode"
  BY DEF ExpressionLabels
<1>4. h.at \in ExpressionLabels => Waiting(r) /\ ResultType(h, sigs) = Head(r).type
  BY <1>1, <1>2, <1>3, Kinds DEF CanCall, Waiting
<1>5. h.at \notin ExpressionLabels => ~Waiting(r)
  BY <1>1, <1>2, Kinds DEF CanCall, Waiting
<1> QED BY <1>4, <1>5 DEF r, h

LEMMA ReturnsValue ==
    ASSUME Coherent, Moving, Return, UNCHANGED scopeStack, top.at \in ExpressionLabels,
           NEW base, NEW v \in Values,
           isSuccess' => AtBase(Tail(stack), base, odd) /\ operands' = Append(base, v),
           isSuccess' /\ Known(odd) => v.type = toLLVMType(ResultType(top, sigs))
    PROVE  Coherent'
<1>1. stack' = Tail(stack) /\ stack # <<>> /\ odd \subseteq odd'
  BY DEF Return, Moving
<1>2. Control'
  BY <1>1, CallersKept, ControlKept DEF Coherent
<1>3. Scoped'
  <2>1. top.at \notin BlockLabels
    BY DEF ExpressionLabels, BlockLabels
  <2> QED BY <1>1, <2>1, BlocksHere DEF Coherent, Opens, Scoped
<1>4. ASSUME isSuccess' PROVE OperandsOK(stack', operands', odd')
  <2>1. Waiting(Tail(stack)) /\ ResultType(top, sigs) = Head(Tail(stack)).type
    BY <1>1, ReturnsTo DEF Coherent
  <2>2. AtBase(Tail(stack), base, odd') /\ Tail(stack) \in Seq(Frames)
    BY <1>1, <1>4, BaseKept, CallersKept DEF Coherent
  <2>3. Known(odd') => v.type = toLLVMType(Head(Tail(stack)).type)
    BY <1>1, <1>4, <2>1 DEF Known
  <2> QED BY <1>1, <1>4, <2>1, <2>2, <2>3, ResultLeft
<1> QED BY <1>2, <1>3, <1>4 DEF Coherent, Results

LEMMA ReturnsNothing ==
    ASSUME Coherent, Moving, Return, top.at \notin ExpressionLabels,
           isSuccess' => AtBase(Tail(stack), operands', odd),
           Len(scopeStack') = 1 + BlockCount(Tail(stack))
    PROVE  Coherent'
<1>1. stack' = Tail(stack) /\ stack # <<>> /\ odd \subseteq odd'
  BY DEF Return, Moving
<1>2. Control'
  BY <1>1, CallersKept, ControlKept DEF Coherent
<1>3. Scoped'
  BY <1>1 DEF Scoped
<1>4. ASSUME isSuccess' PROVE OperandsOK(stack', operands', odd')
  <2>1. ~Waiting(Tail(stack))
    BY <1>1, ReturnsTo DEF Coherent
  <2>2. AtBase(Tail(stack), operands', odd') /\ Tail(stack) \in Seq(Frames)
    BY <1>1, <1>4, BaseKept, CallersKept DEF Coherent
  <2> QED BY <1>1, <2>1, <2>2, NothingLeft
<1> QED BY <1>2, <1>3, <1>4 DEF Coherent, Results

LEMMA CallsOne ==
    ASSUME Coherent, Moving, NEW f, Call(<<f>>), FrameOK(f, Len(blocks'), funcs),
           CanCall(Tail(stack), f, sigs), f.at \notin AfterExpr,
           isSuccess' => AtBase(Tail(stack), operands', odd),
           Len(scopeStack') = 1 + BlockCount(Tail(stack)) + Opens(f)
    PROVE  Coherent'
<1> DEFINE r == Tail(stack)
<1>1. stack' = <<f>> \o r /\ stack # <<>> /\ odd \subseteq odd'
  BY DEF Call, Moving
<1>2. StackOK(r, Len(blocks'), funcs, sigs) /\ r \in Seq(Frames) /\ f \in Frames
  BY CallersKept DEF Coherent, FrameOK
<1> HIDE DEF r
<1>3. StackOK(<<f>> \o r, Len(blocks'), funcs, sigs)
  BY <1>2, StackPush DEF r
<1>4. Control'
  BY <1>1, <1>3, ControlKept DEF Coherent
<1>5. Scoped'
  <2>1. BlockCount(<<f>> \o r) = BlockCount(r) + Opens(f) /\ BlockCount(r) \in Nat
    BY <1>2, BlocksPush
  <2>2. Opens(f) \in Nat
    BY DEF Opens
  <2> QED BY <1>1, <2>1, <2>2 DEF Scoped, r
<1>6. ASSUME isSuccess' PROVE OperandsOK(stack', operands', odd')
  <2>1. AtBase(r, operands', odd')
    BY <1>1, <1>6, BaseKept DEF r
  <2> QED BY <1>1, <1>2, <2>1, BasePush
<1> QED BY <1>4, <1>5, <1>6 DEF Coherent, Results

LEMMA CallsTwo ==
    ASSUME Coherent, Moving, NEW e, NEW f, Call(<<e, f>>),
           FrameOK(e, Len(blocks'), funcs), FrameOK(f, Len(blocks'), funcs),
           CanCall(Tail(stack), f, sigs), e.at \notin AfterExpr, e.at # "VectorNode",
           Expects(f.at) = Yields(e.at),
           Yields(e.at) = "expression" => ResultType(e, sigs) = f.type,
           isSuccess' => AtBase(<<f>> \o Tail(stack), operands', odd),
           Len(scopeStack') = 1 + BlockCount(Tail(stack)) + Opens(f)
                                + Opens(e)
    PROVE  Coherent'
<1> DEFINE r == Tail(stack)
           q == <<f>> \o r
<1>1. stack' = <<e, f>> \o r /\ stack # <<>> /\ odd \subseteq odd'
  BY DEF Call, Moving
<1>2. /\ StackOK(r, Len(blocks'), funcs, sigs) /\ r \in Seq(Frames)
      /\ f \in Frames /\ e \in Frames
  BY CallersKept DEF Coherent, FrameOK
<1>0. CanCall(r, f, sigs)
  OBVIOUS
<1> HIDE DEF r
<1>3. StackOK(<<e, f>> \o r, Len(blocks'), funcs, sigs)
      /\ <<e, f>> \o r = <<e>> \o q /\ q \in Seq(Frames)
  <2>1. StackOK(q, Len(blocks'), funcs, sigs) /\ q # <<>> /\ Head(q) = f
    BY <1>0, <1>2, StackPush
  <2>2. <<e, f>> \o r = <<e>> \o q
    BY <1>2, PushTwo
  <2>3. q \in Seq(Frames)
    BY <1>2
  <2> HIDE DEF q
  <2>4. CanCall(q, e, sigs)
    BY <2>1 DEF CanCall
  <2>5. StackOK(<<e>> \o q, Len(blocks'), funcs, sigs)
    BY <2>1, <2>4, StackPush
  <2> QED BY <2>2, <2>3, <2>5
<1> USE DEF r
<1>4. Control'
  BY <1>1, <1>3, ControlKept DEF Coherent
<1>5. Scoped'
  <2>1. BlockCount(q) = BlockCount(r) + Opens(f) /\ BlockCount(r) \in Nat
    BY <1>2, BlocksPush
  <2>2. BlockCount(<<e>> \o q) = BlockCount(q) + Opens(e)
    BY <1>2, <1>3, BlocksPush
  <2>3. Opens(e) \in Nat /\ Opens(f) \in Nat
    BY DEF Opens
  <2>4. Len(scopeStack') = 1 + BlockCount(r) + Opens(f) + Opens(e)
    OBVIOUS
  <2>5. stack' = <<e>> \o q
    BY <1>1, <1>3
  <2> HIDE DEF q, r
  <2> QED BY <2>1, <2>2, <2>3, <2>4, <2>5 DEF Scoped
<1>6. ASSUME isSuccess' PROVE OperandsOK(stack', operands', odd')
  <2>1. AtBase(q, operands', odd')
    BY <1>1, <1>6, BaseKept
  <2> QED BY <1>1, <1>2, <1>3, <2>1, BasePush
<1> QED BY <1>4, <1>5, <1>6 DEF Coherent, Results

\* The locals of a frame are set one by one.
LEMMA AwaitFacts ==
    ASSUME NEW at \in Labels, NEW t \in Types \cup {NULL}
    PROVE  LET g == Await(at, t)
           IN /\ g \in Frames /\ g.at = at /\ g.type = t /\ g.kind = NULL /\ g.other = NULL
              /\ g.name = NULL /\ g.slot = NoSlot /\ g.bbs = <<>> /\ g.args = <<>>
<1>1. /\ Frame(at) \in Frames /\ Frame(at).at = at /\ Frame(at).kind = NULL
      /\ Frame(at).other = NULL /\ Frame(at).name = NULL /\ Frame(at).slot = NoSlot
      /\ Frame(at).bbs = <<>> /\ Frame(at).args = <<>>
  BY DEF Frame, Frames, Slots
<1>2. Await(at, t) = [Frame(at) EXCEPT !.type = t]
  BY DEF Await
<1>3. \A f \in Frames :
        LET g == [f EXCEPT !.type = t]
        IN /\ g \in Frames /\ g.at = f.at /\ g.type = t /\ g.kind = f.kind /\ g.other = f.other
           /\ g.name = f.name /\ g.slot = f.slot /\ g.bbs = f.bbs /\ g.args = f.args
  BY DEF Frames
<1> QED BY <1>1, <1>2, <1>3

\* The frames that are called.
LEMMA PlainFrames ==
    ASSUME NEW n, NEW fn
    PROVE  /\ \A t \in Types : /\ FrameOK(Expr(t), n, fn)
                               /\ Expr(t).at = "expr" /\ Expr(t).type = t
           /\ \A at \in {"statement", "BlockStatementNode", "BlockStatementNode.stmt",
                         "FunctionDefNode", "VectorNode"} :
                FrameOK(Frame(at), n, fn) /\ Frame(at).at = at
           /\ FrameOK(Statement, n, fn) /\ Statement.at = "statement"
           /\ FrameOK(Body, n, fn) /\ Body.at = "statement"
           /\ \A t \in Types, at \in {"UnaryNode", "IoPrintNode", "ReturnNode",
                                      "IfStatementNode.cond"} :
                FrameOK(Await(at, t), n, fn) /\ Await(at, t).at = at /\ Await(at, t).type = t
<1>1. \A at \in Labels : Frame(at) \in Frames /\ Frame(at).at = at /\ Frame(at).bbs = <<>>
  BY DEF Frame, Frames, Slots
<1>2. {"expr", "statement", "BlockStatementNode", "BlockStatementNode.stmt", "FunctionDefNode",
       "VectorNode", "UnaryNode", "IoPrintNode", "ReturnNode", "IfStatementNode.cond"}
        \subseteq Labels
  BY DEF Labels, AfterExpr, AfterStatement
<1>3. ASSUME NEW at \in {"statement", "BlockStatementNode", "BlockStatementNode.stmt",
                         "FunctionDefNode", "VectorNode"}
      PROVE  FrameOK(Frame(at), n, fn)
  BY <1>1, <1>2 DEF FrameOK, Held, ShortCircuit, Kept, AfterExpr
<1>4. ASSUME NEW t \in Types, NEW at \in {"UnaryNode", "IoPrintNode", "ReturnNode",
                                          "IfStatementNode.cond", "expr"}
      PROVE  FrameOK(Await(at, t), n, fn) /\ Await(at, t).at = at /\ Await(at, t).type = t
  <2>1. /\ Await(at, t) \in Frames /\ Await(at, t).at = at /\ Await(at, t).type = t
        /\ Await(at, t).bbs = <<>>
    BY <1>2, AwaitFacts
  <2> QED BY <2>1 DEF FrameOK, Held, ShortCircuit, Kept
<1>5. FrameOK(Statement, n, fn) /\ Statement.at = "statement"
  BY <1>1, <1>2, <1>3 DEF Statement
<1>6. FrameOK(Body, n, fn) /\ Body.at = "statement"
  <2>1. Body \in Frames /\ Body.at = "statement" /\ Body.bbs = <<>>
    BY <1>1, <1>2 DEF Statement, Body, Frames
  <2> QED BY <2>1 DEF FrameOK, Held, ShortCircuit, Kept, AfterExpr
<1>7. ASSUME NEW t \in Types
      PROVE  FrameOK(Expr(t), n, fn) /\ Expr(t).at = "expr" /\ Expr(t).type = t
  <2>1. Expr(t) = Await("expr", t)
    BY DEF Expr, Await
  <2> QED BY <1>4, <2>1
<1>9. \A at \in {"statement", "BlockStatementNode", "BlockStatementNode.stmt",
                  "FunctionDefNode", "VectorNode"} :
        FrameOK(Frame(at), n, fn) /\ Frame(at).at = at
  BY <1>1, <1>2, <1>3
<1> QED BY <1>4, <1>5, <1>6, <1>7, <1>9

\* What the labels of expressions and of the points after them promise.
LEMMA LabelFacts ==
    /\ Yields("expr") = "expression" /\ Yields("statement") = "statement"
    /\ Yields("BlockStatementNode") = "statement" /\ Yields("BlockStatementNode.stmt") = "statement"
    /\ Expects("BlockStatementNode.stmt") = "statement"
    /\ Expects("FunctionDefNode") = "statement" /\ Expects("VectorNode") = "function"
    /\ Yields("FunctionDefNode") = "function"
    /\ \A l \in AfterExpr : Expects(l) = "expression"
    /\ \A l \in ExpressionLabels : Yields(l) = "expression" /\ l # "VectorNode"
    /\ \A l \in AfterStatement : Expects(l) = "statement"
    /\ \A l \in (AfterExpr \cup AfterStatement) \ (ExpressionLabels \cup {"FunctionDefNode"}) :
         Yields(l) = "statement"
    /\ "expr" \notin AfterExpr /\ "statement" \notin AfterExpr
    /\ "expr" \in ExpressionLabels /\ "statement" \notin ExpressionLabels
    /\ "expr" \notin BlockLabels /\ "statement" \notin BlockLabels
    /\ \A l \in AfterExpr : l \notin BlockLabels
    /\ AfterExpr \subseteq Labels /\ AfterStatement \subseteq Labels
    /\ "expr" \in Labels /\ "statement" \in Labels
BY DEF Yields, Expects, AfterExpr, AfterStatement, ExpressionLabels, BlockLabels, Labels
-----------------------------------------------------------------------------
(* Expressions                                                             *)

\* Before an action.
LEMMA ExprFound ==
    ASSUME Coherent, At("expr")
    PROVE  /\ stack # <<>> /\ top.at = "expr" /\ top.type \in Types
           /\ ResultType(top, sigs) = top.type
           /\ Tail(stack) \in Seq(Frames) /\ CanCall(Tail(stack), top, sigs)
           /\ insert \in 1..Len(blocks)
           /\ isSuccess => AtBase(Tail(stack), operands, odd)
           /\ BlockCount(Tail(stack)) \in Nat /\ Len(scopeStack) = 1 + BlockCount(Tail(stack))
<1>1. Control /\ stack # <<>> /\ top.at = "expr"
  BY DEF Coherent, At, top
<1>2. FrameOK(top, Len(blocks), funcs) /\ top \in Frames /\ Tail(stack) \in Seq(Frames)
      /\ CanCall(Tail(stack), top, sigs) /\ insert \in 1..Len(blocks)
      /\ stack = <<top>> \o Tail(stack)
  BY <1>1, Active
<1>3. top.type \in Types /\ ResultType(top, sigs) = top.type
  BY <1>1, <1>2 DEF FrameOK, ResultType
<1>4. isSuccess => AtBase(Tail(stack), operands, odd)
  <2>1. isSuccess => OperandsOK(<<top>> \o Tail(stack), operands, odd)
    BY <1>2, Zenon DEF Coherent, Results
  <2> QED BY <1>1, <1>2, <2>1, OperandsFound, LabelFacts
<1>5. BlockCount(Tail(stack)) \in Nat /\ Len(scopeStack) = 1 + BlockCount(Tail(stack))
  BY <1>1, BlocksHere, LabelFacts DEF Coherent, Opens
<1> QED BY <1>1, <1>2, <1>3, <1>4, <1>5

LEMMA ValueFacts ==
    /\ \A t \in Types, b \in Nat : Value(toLLVMType(t), b) \in Values
    /\ \A t \in Types, b \in Nat : Value(toLLVMType(t), b).type = toLLVMType(t)
    /\ \A t \in Types : toLLVMType(t) \in LLVMTypes
    /\ \A l \in LLVMTypes, b \in Nat : Value(l, b) \in Values /\ Value(l, b).type = l
    /\ \A v \in Values : v.type \in LLVMTypes /\ v.block \in Nat
    /\ toLLVMType("BOOL") = "i1" /\ toLLVMType("FLOAT") = "float" /\ toLLVMType("INTEGER") = "i32"
    /\ \A t : Constant(t) = Value(toLLVMType(t), 1)
BY DEF Value, toLLVMType, Values, LLVMTypes, Types, Constant

LEMMA ConstantNodeStep ==
    ASSUME Coherent, ConstantNode
    PROVE  Coherent'
<1>1. At("expr")
  BY DEF ConstantNode
<1>2. /\ operands' = Append(operands, Constant(top.type)) /\ Return
      /\ UNCHANGED <<isSuccess, scopeStack, funcs, sigs, odd>>
  BY DEF ConstantNode, push, syms, ast
<1>3. Emits /\ Control
  BY DEF Emits, Coherent
<1>4. Moving
  BY <1>2, <1>3, EmitsStep DEF Moving
<1>5. Constant(top.type) \in Values /\ Constant(top.type).type = toLLVMType(top.type)
  BY <1>1, ExprFound, ValueFacts
<1>6. top.at \in ExpressionLabels
  BY <1>1, ExprFound, LabelFacts
<1> QED BY <1>1, <1>2, <1>4, <1>5, <1>6, ExprFound, ReturnsValue

LEMMA VarNodeStep ==
    ASSUME Coherent, VarNode
    PROVE  Coherent'
<1>1. At("expr")
  BY DEF VarNode
<1>2. Return /\ UNCHANGED <<scopeStack, funcs, sigs, odd>>
  BY DEF VarNode, syms, ast
<1>3. isSuccess' => operands' = Append(operands, Value(toLLVMType(top.type), insert)) /\ isSuccess
  BY DEF VarNode, push, Error
<1>4. Emits /\ Control
  BY DEF Emits, Coherent
<1>5. Moving
  BY <1>2, <1>4, EmitsStep DEF Moving
<1> DEFINE v == Value(toLLVMType(top.type), insert)
<1>6. v \in Values /\ v.type = toLLVMType(top.type)
  <2>1. insert \in Nat /\ top.type \in Types
    BY <1>1, ExprFound
  <2> QED BY <2>1, ValueFacts
<1>7. top.at \in ExpressionLabels
  BY <1>1, ExprFound, LabelFacts
<1> HIDE DEF v
<1>8. isSuccess' => AtBase(Tail(stack), operands, odd) /\ operands' = Append(operands, v)
  BY <1>1, <1>3, ExprFound DEF v
<1>9. isSuccess' /\ Known(odd) => v.type = toLLVMType(ResultType(top, sigs))
  BY <1>1, <1>6, ExprFound
<1> QED BY <1>2, <1>5, <1>6, <1>7, <1>8, <1>9, ReturnsValue

LEMMA OperationFacts ==
    ASSUME NEW type \in Types, NEW op \in Operations(type)
    PROVE  /\ op.lhs \in Types /\ op.rhs \in Types /\ op.kind \in Operators
           /\ op.kind = "biarithmetic" => "BOOL" \notin {op.lhs, op.rhs}
           /\ op.kind = "biarithmetic" =>
                type = (IF "FLOAT" \in {op.lhs, op.rhs} THEN "FLOAT" ELSE "INTEGER")
           /\ op.kind # "biarithmetic" => type = "BOOL"
BY UsedTypesAssumption DEF Operations, Operators

LEMMA BinaryNodeStep ==
    ASSUME Coherent, BinaryNode
    PROVE  Coherent'
<1>1. At("expr") /\ top.type \in Types
  BY ExprFound DEF BinaryNode, Visit
<1>2. PICK op \in Operations(top.type) :
        /\ Call(<<Expr(op.lhs), [Await("BinaryNode.lhs", op.lhs) EXCEPT !.kind = op.kind,
                                                                       !.other = op.rhs]>>)
        /\ Odd("mixedEquality", (op.lhs = "BOOL") # (op.rhs = "BOOL"))
  BY DEF BinaryNode
<1> DEFINE f == [Await("BinaryNode.lhs", op.lhs) EXCEPT !.kind = op.kind, !.other = op.rhs]
           e == Expr(op.lhs)
<1>3. /\ op.lhs \in Types /\ op.rhs \in Types /\ op.kind \in Operators
      /\ op.kind = "biarithmetic" => "BOOL" \notin {op.lhs, op.rhs}
      /\ op.kind = "biarithmetic" =>
           top.type = (IF "FLOAT" \in {op.lhs, op.rhs} THEN "FLOAT" ELSE "INTEGER")
      /\ op.kind # "biarithmetic" => top.type = "BOOL"
  BY <1>1, OperationFacts
<1>4. UNCHANGED <<isSuccess, operands, scopeStack, funcs, sigs>> /\ odd \subseteq odd'
  BY <1>2 DEF BinaryNode, Odd, syms
<1>5. Emits /\ Control
  BY DEF Emits, Coherent
<1>6. Moving
  BY <1>4, <1>5, EmitsStep DEF Moving
<1>7. /\ f.at = "BinaryNode.lhs" /\ f.type = op.lhs /\ f.kind = op.kind /\ f.other = op.rhs
      /\ f \in Frames /\ f.bbs = <<>>
  <2>1. "BinaryNode.lhs" \in Labels
    BY DEF Labels, AfterExpr
  <2> DEFINE a == Await("BinaryNode.lhs", op.lhs)
  <2>2. a \in Frames /\ a.at = "BinaryNode.lhs" /\ a.type = op.lhs /\ a.bbs = <<>>
    BY <1>3, <2>1, AwaitFacts
  <2>3. op.kind \in Operators \cup {"body", NULL} /\ op.rhs \in Types \cup {NULL}
    BY <1>3
  <2>4. f = [a EXCEPT !.kind = op.kind, !.other = op.rhs]
    OBVIOUS
  <2> HIDE DEF a, f
  <2> QED BY <2>2, <2>3, <2>4 DEF Frames
<1> HIDE DEF f, e
<1>8. FrameOK(f, Len(blocks'), funcs)
  BY <1>3, <1>7 DEF FrameOK, Held, ShortCircuit, Kept
<1>9. ResultType(f, sigs) = top.type
  BY <1>3, <1>7 DEF ResultType
<1>10. CanCall(Tail(stack), f, sigs)
  BY <1>1, <1>7, <1>9, ExprFound, LabelFacts DEF CanCall, ExpressionLabels
<1>11. FrameOK(e, Len(blocks'), funcs) /\ e.at = "expr" /\ e.type = op.lhs
       /\ ResultType(e, sigs) = f.type
  BY <1>3, <1>7, PlainFrames DEF e, ResultType
<1>12. isSuccess' => AtBase(<<f>> \o Tail(stack), operands', odd)
  <2>1. ~Held(f)
    BY <1>7 DEF Held
  <2> QED BY <1>1, <1>4, <1>7, <2>1, ExprFound, BasePush
<1>13. Opens(e) = 0 /\ Opens(f) = 0
  BY <1>7, <1>11 DEF Opens, BlockLabels
<1>14. Len(scopeStack') = 1 + BlockCount(Tail(stack)) + Opens(f) + Opens(e)
  BY <1>1, <1>4, <1>13, ExprFound
<1>15. Call(<<e, f>>) /\ e.at \notin AfterExpr /\ e.at # "VectorNode" /\ Expects(f.at) = Yields(e.at)
  BY <1>2, <1>7, <1>11, LabelFacts DEF e, f, AfterExpr, Expects
<1> QED BY <1>6, <1>8, <1>10, <1>11, <1>12, <1>14, <1>15, CallsTwo

\* When the result of an expression is back.
LEMMA ValueFound ==
    ASSUME Coherent, NEW l \in AfterExpr, Resume(l)
    PROVE  /\ stack # <<>> /\ top.at = l /\ isSuccess
           /\ top \in Frames /\ FrameOK(top, Len(blocks), funcs) /\ top.type \in Types
           /\ Tail(stack) \in Seq(Frames) /\ CanCall(Tail(stack), top, sigs)
           /\ insert \in 1..Len(blocks)
           /\ topValue \in Values
           /\ Known(odd) => topValue.type = toLLVMType(top.type)
           /\ ~Held(top) => AtBase(Tail(stack), pop, odd) /\ operands = Append(pop, topValue)
           /\ Held(top) =>
                /\ AtBase(Tail(stack), SubSeq(operands, 1, Len(operands) - 2), odd)
                /\ operands[Len(operands) - 1] \in Values
                /\ Known(odd) => operands[Len(operands) - 1].type = toLLVMType(top.other)
           /\ BlockCount(Tail(stack)) \in Nat /\ Len(scopeStack) = 1 + BlockCount(Tail(stack))
<1>1. Control /\ stack # <<>> /\ top.at = l /\ isSuccess /\ top.at \in AfterExpr
  BY DEF Coherent, Resume, At, top
<1>2. FrameOK(top, Len(blocks), funcs) /\ top \in Frames /\ Tail(stack) \in Seq(Frames)
      /\ CanCall(Tail(stack), top, sigs)
      /\ stack = <<top>> \o Tail(stack)
  BY <1>1, Active
<1>3. top.type \in Types /\ insert \in 1..Len(blocks)
  <2>1. top.at # "VectorNode"
    BY <1>1 DEF AfterExpr
  <2> QED BY <1>1, <1>2, <2>1, Active DEF FrameOK
<1>4. OperandsOK(<<top>> \o Tail(stack), operands, odd)
  BY <1>1, <1>2, Zenon DEF Coherent, Results
<1>5. /\ ~Held(top) =>
           /\ Len(operands) = HeldCount(Tail(stack)) + 1
           /\ AtBase(Tail(stack), SubSeq(operands, 1, Len(operands) - 1), odd)
           /\ operands[Len(operands)] \in Values
           /\ Known(odd) => operands[Len(operands)].type = toLLVMType(top.type)
      /\ Held(top) =>
           /\ AtBase(Tail(stack), SubSeq(operands, 1, Len(operands) - 2), odd)
           /\ operands[Len(operands)] \in Values /\ operands[Len(operands) - 1] \in Values
           /\ Known(odd) => /\ operands[Len(operands)].type = toLLVMType(top.type)
                            /\ operands[Len(operands) - 1].type = toLLVMType(top.other)
  BY <1>1, <1>2, <1>4, OperandsFound
<1>6. ASSUME ~Held(top) PROVE operands = Append(pop, topValue)
  <2>1. operands \in Seq(Values)
    BY <1>4 DEF OperandsOK
  <2>2. Len(operands) > 0
    <3>1. HeldCount(Tail(stack)) \in Nat
      BY <1>2, HeldPush
    <3> QED BY <1>5, <1>6, <3>1
  <2> DEFINE new == Append(pop, topValue)
  <2>3. /\ new \in Seq(Values) /\ Len(new) = Len(operands)
        /\ \A i \in 1..Len(operands) : operands[i] = new[i]
    <3>1. /\ pop \in Seq(Values) /\ Len(pop) = Len(operands) - 1
          /\ \A i \in 1..(Len(operands) - 1) : pop[i] = operands[i]
      <4> DEFINE n == Len(operands) - 1
      <4>1. n \in Nat /\ n <= Len(operands)
        BY <2>1, <2>2
      <4> HIDE DEF n
      <4>2. /\ SubSeq(operands, 1, n) \in Seq(Values) /\ Len(SubSeq(operands, 1, n)) = n
            /\ \A i \in 1..n : SubSeq(operands, 1, n)[i] = operands[i]
        BY <2>1, <4>1
      <4> QED BY <4>2 DEF n, pop
    <3>2. topValue \in Values /\ topValue = operands[Len(operands)]
      BY <2>1, <2>2 DEF topValue
    <3>3. /\ new \in Seq(Values) /\ Len(new) = Len(pop) + 1 /\ new[Len(pop) + 1] = topValue
          /\ \A i \in 1..Len(pop) : new[i] = pop[i]
      BY <3>1, <3>2, AppendProperties
    <3> HIDE DEF new
    <3> QED BY <2>1, <2>2, <3>1, <3>2, <3>3
  <2> HIDE DEF new
  <2>4. operands = new
    BY <2>1, <2>3, SeqEqual
  <2> QED BY <2>4 DEF new
<1>7. BlockCount(Tail(stack)) \in Nat /\ Len(scopeStack) = 1 + BlockCount(Tail(stack))
  BY <1>1, BlocksHere, LabelFacts DEF Coherent, Opens
<1> QED BY <1>1, <1>2, <1>3, <1>5, <1>6, <1>7 DEF pop, topValue

LEMMA EagerLhsStep ==
    ASSUME Coherent, EagerLhs
    PROVE  Coherent'
<1>1. Resume("BinaryNode.lhs") /\ top.kind # "bilogShortCircuit" /\ top.at = "BinaryNode.lhs"
  BY DEF EagerLhs, Resume, At, top
<1>2. /\ FrameOK(top, Len(blocks), funcs) /\ top \in Frames /\ top.type \in Types
      /\ CanCall(Tail(stack), top, sigs) /\ Tail(stack) \in Seq(Frames)
      /\ ~Held(top) /\ "BinaryNode.lhs" \in AfterExpr
  <2>1. "BinaryNode.lhs" \in AfterExpr
    BY DEF AfterExpr
  <2> QED BY <1>1, <2>1, ValueFound DEF Held
<1>3. /\ top.other \in Types /\ top.kind \in Operators
      /\ top.kind = "biarithmetic" => "BOOL" \notin {top.type, top.other}
  BY <1>1, <1>2 DEF FrameOK
<1> DEFINE a == Await("BinaryNode.rhs", top.other)
           f == [a EXCEPT !.kind = top.kind, !.other = top.type]
           e == Expr(top.other)
<1>4. Call(<<e, f>>)
  BY DEF EagerLhs
<1>5. UNCHANGED <<isSuccess, operands, scopeStack, funcs, sigs, odd>>
  BY DEF EagerLhs, syms, ast
<1>6. Emits /\ Control
  BY DEF Emits, Coherent
<1>7. Moving
  BY <1>5, <1>6, EmitsStep DEF Moving
<1>8. a \in Frames /\ a.at = "BinaryNode.rhs" /\ a.bbs = <<>> /\ a.type = top.other
  <2>1. "BinaryNode.rhs" \in Labels
    BY DEF Labels, AfterExpr
  <2> QED BY <1>3, <2>1, AwaitFacts
<1> HIDE DEF a
<1>9. /\ f \in Frames /\ f.at = "BinaryNode.rhs" /\ f.bbs = <<>> /\ f.kind = top.kind
      /\ f.other = top.type /\ f.type = top.other
  BY <1>2, <1>3, <1>8 DEF Frames
<1>10. FrameOK(e, Len(blocks'), funcs) /\ e.at = "expr" /\ e.type = top.other
  BY <1>3, PlainFrames
<1> HIDE DEF f, e
<1>11. FrameOK(f, Len(blocks'), funcs) /\ Held(f)
  BY <1>1, <1>2, <1>3, <1>9 DEF FrameOK, Held, ShortCircuit, Kept
<1>12. ResultType(f, sigs) = ResultType(top, sigs)
  BY <1>1, <1>9 DEF ResultType
<1>13. CanCall(Tail(stack), f, sigs)
  BY <1>1, <1>2, <1>9, <1>12, SameResult, LabelFacts DEF ExpressionLabels, AfterExpr
<1>14. isSuccess' => AtBase(<<f>> \o Tail(stack), operands', odd)
  <2>1. /\ AtBase(Tail(stack), pop, odd) /\ operands = Append(pop, topValue)
        /\ topValue \in Values /\ (Known(odd) => topValue.type = toLLVMType(f.other))
    BY <1>1, <1>2, <1>9, ValueFound
  <2>2. AtBase(<<f>> \o Tail(stack), Append(pop, topValue), odd)
    BY <1>2, <1>9, <1>11, <2>1, BasePush
  <2> QED BY <1>5, <2>1, <2>2
<1>15. Len(scopeStack') = 1 + BlockCount(Tail(stack)) + Opens(f) + Opens(e)
  <2>1. Opens(e) = 0 /\ Opens(f) = 0
    BY <1>9, <1>10 DEF Opens, BlockLabels
  <2> QED BY <1>1, <1>2, <1>5, <2>1, ValueFound
<1>16. /\ e.at \notin AfterExpr /\ e.at # "VectorNode" /\ Expects(f.at) = Yields(e.at)
       /\ ResultType(e, sigs) = f.type
  BY <1>9, <1>10, LabelFacts DEF AfterExpr, Expects, ResultType
<1> QED BY <1>4, <1>7, <1>10, <1>11, <1>13, <1>14, <1>15, <1>16, CallsTwo

LEMMA EagerRhsStep ==
    ASSUME Coherent, EagerRhs
    PROVE  Coherent'
<1>1. Resume("BinaryNode.rhs") /\ top.kind # "bilogShortCircuit" /\ top.at = "BinaryNode.rhs"
  BY DEF EagerRhs, Resume, At, top
<1>2. /\ FrameOK(top, Len(blocks), funcs) /\ top.type \in Types
      /\ Held(top) /\ "BinaryNode.rhs" \in AfterExpr /\ insert \in Nat
  <2>1. "BinaryNode.rhs" \in AfterExpr
    BY DEF AfterExpr
  <2> QED BY <1>1, <2>1, ValueFound DEF Held
<1>3. /\ top.other \in Types /\ top.kind \in Operators
      /\ top.kind = "biarithmetic" => "BOOL" \notin {top.type, top.other}
  BY <1>1, <1>2 DEF FrameOK
<1> DEFINE lhs == operands[Len(operands) - 1]
           base == SubSeq(operands, 1, Len(operands) - 2)
           type == EagerType(top.kind, top.other, top.type, lhs)
           v == Value(type, insert)
<1>4. operands' = base \o <<v>> /\ Return
  BY DEF EagerRhs
<1>5. UNCHANGED <<isSuccess, scopeStack, funcs, sigs, odd>>
  BY DEF EagerRhs, syms, ast
<1>6. Emits /\ Control
  BY DEF Emits, Coherent
<1>7. Moving
  BY <1>5, <1>6, EmitsStep DEF Moving
<1>8. /\ AtBase(Tail(stack), base, odd) /\ lhs \in Values
      /\ Known(odd) => lhs.type = toLLVMType(top.other)
  BY <1>1, <1>2, ValueFound
<1> HIDE DEF lhs, base
<1>9. /\ type \in LLVMTypes
      /\ Known(odd) => type = toLLVMType(ResultType(top, sigs))
  <2>1. lhs.type \in LLVMTypes
    BY <1>8, ValueFacts
  <2>2. type \in LLVMTypes
    BY <2>1, ValueFacts DEF EagerType, LLVMTypes
  <2>3. ASSUME Known(odd) PROVE type = toLLVMType(ResultType(top, sigs))
    <3>1. CASE top.kind = "birel"
      BY <1>1, <3>1, ValueFacts DEF EagerType, ResultType
    <3>2. CASE top.kind = "biarithmetic"
      <4>1. CASE "FLOAT" \in {top.other, top.type}
        BY <1>1, <3>2, <4>1 DEF EagerType, ResultType
      <4>2. CASE "FLOAT" \notin {top.other, top.type}
        <5>1. top.other = "INTEGER"
          BY <1>3, <3>2, <4>2 DEF Types
        <5>2. type = lhs.type
          BY <3>2, <4>2 DEF EagerType
        <5>3. ResultType(top, sigs) = "INTEGER"
          BY <1>1, <3>2, <4>2 DEF ResultType
        <5> QED BY <1>8, <2>3, <5>1, <5>2, <5>3
      <4> QED BY <4>1, <4>2
    <3>3. top.kind \in {"birel", "biarithmetic"}
      BY <1>1, <1>3 DEF Operators
    <3> HIDE DEF type
    <3> QED BY <3>1, <3>2, <3>3
  <2> QED BY <2>2, <2>3
<1> HIDE DEF type
<1>10. v \in Values /\ v.type = type
  BY <1>2, <1>9, ValueFacts
<1> HIDE DEF v
<1>11. operands' = Append(base, v)
  <2>1. base \in Seq(Values)
    BY <1>8 DEF AtBase
  <2> QED BY <1>4, <1>10, <2>1, AppendIsConcat
<1>12. top.at \in ExpressionLabels
  BY <1>1 DEF ExpressionLabels
<1>13. isSuccess' => AtBase(Tail(stack), base, odd) /\ operands' = Append(base, v)
  BY <1>8, <1>11
<1>14. isSuccess' /\ Known(odd) => v.type = toLLVMType(ResultType(top, sigs))
  BY <1>9, <1>10
<1> QED BY <1>4, <1>5, <1>7, <1>10, <1>12, <1>13, <1>14, ReturnsValue

LEMMA ShortCircuitLhsStep ==
    ASSUME Coherent, ShortCircuitLhs
    PROVE  Coherent'
<1>1. Resume("BinaryNode.lhs") /\ top.kind = "bilogShortCircuit" /\ top.at = "BinaryNode.lhs"
  BY DEF ShortCircuitLhs, Resume, At, top
<1>2. /\ FrameOK(top, Len(blocks), funcs) /\ top \in Frames /\ stack # <<>>
      /\ CanCall(Tail(stack), top, sigs) /\ Tail(stack) \in Seq(Frames)
      /\ ~Held(top) /\ "BinaryNode.lhs" \in AfterExpr /\ insert \in Nat
  <2>1. "BinaryNode.lhs" \in AfterExpr
    BY DEF AfterExpr
  <2> QED BY <1>1, <2>1, ValueFound DEF Held
<1>3. top.other \in Types
  BY <1>1, <1>2 DEF FrameOK
<1> DEFINE m == Len(blocks) + 2
           a == Await("BinaryNode.rhs", top.other)
           f == [a EXCEPT !.kind = top.kind, !.slot = Value("i1", insert), !.bbs = <<m>>]
           e == Expr(top.other)
<1>4. Call(<<e, f>>)
  BY DEF ShortCircuitLhs
<1>5. UNCHANGED <<isSuccess, scopeStack, funcs, sigs, odd>> /\ operands' = pop
  BY DEF ShortCircuitLhs, syms, ast
<1>6. BlocksGrow /\ m \in 1..Len(blocks')
  BY ShortCircuitLhsBlocks DEF Coherent
<1>7. Moving
  BY <1>2, <1>5, <1>6 DEF Moving
<1>8. a \in Frames /\ a.at = "BinaryNode.rhs" /\ a.type = top.other /\ a.other = NULL
  <2>1. "BinaryNode.rhs" \in Labels
    BY DEF Labels, AfterExpr
  <2> QED BY <1>3, <2>1, AwaitFacts
<1>9. Value("i1", insert) \in Slots /\ <<m>> \in Seq(Nat) /\ Len(<<m>>) = 1 /\ <<m>>[1] = m
  <2>1. Value("i1", insert) \in Slots
    BY <1>2, ValueFacts DEF Slots, LLVMTypes
  <2>2. m \in Nat
    BY <1>6 DEF BlocksGrow
  <2> QED BY <2>1, <2>2
<1> HIDE DEF a, m
<1>10. /\ f \in Frames /\ f.at = "BinaryNode.rhs" /\ f.bbs = <<m>> /\ f.kind = top.kind
       /\ f.type = top.other
  <2> DEFINE b == <<m>>
             v == Value("i1", insert)
  <2>1. f = [a EXCEPT !.kind = top.kind, !.slot = v, !.bbs = b] /\ v \in Slots /\ b \in Seq(Nat)
    BY <1>9
  <2> HIDE DEF b, v, f
  <2>2. /\ f \in Frames /\ f.at = "BinaryNode.rhs" /\ f.bbs = b /\ f.kind = top.kind
        /\ f.type = top.other
    BY <1>2, <1>8, <2>1 DEF Frames
  <2> QED BY <2>2 DEF b
<1>11. FrameOK(e, Len(blocks'), funcs) /\ e.at = "expr" /\ e.type = top.other
  BY <1>3, PlainFrames
<1> HIDE DEF f, e
<1>12. FrameOK(f, Len(blocks'), funcs) /\ ~Held(f)
  <2>1. ShortCircuit(f) /\ ~Held(f)
    BY <1>1, <1>10 DEF ShortCircuit, Held
  <2>2. Kept(f) = 1
    BY <1>10, <2>1 DEF Kept
  <2>3. Len(f.bbs) = Kept(f) /\ \A i \in 1..Kept(f) : f.bbs[i] \in 1..Len(blocks')
    BY <1>6, <1>9, <1>10, <2>2
  <2>4. f.kind \in Operators /\ f.kind # "biarithmetic" /\ f.type \in Types
    BY <1>1, <1>3, <1>10 DEF Operators
  <2> QED BY <1>10, <2>1, <2>3, <2>4 DEF FrameOK
<1>13. ResultType(f, sigs) = ResultType(top, sigs)
  BY <1>1, <1>10 DEF ResultType
<1>14. CanCall(Tail(stack), f, sigs)
  BY <1>1, <1>2, <1>10, <1>13, SameResult, LabelFacts DEF ExpressionLabels, AfterExpr
<1>15. isSuccess' => AtBase(<<f>> \o Tail(stack), operands', odd)
  <2>1. AtBase(Tail(stack), pop, odd)
    BY <1>1, <1>2, ValueFound
  <2> QED BY <1>2, <1>5, <1>10, <1>12, <2>1, BasePush
<1>16. Len(scopeStack') = 1 + BlockCount(Tail(stack)) + Opens(f) + Opens(e)
  <2>1. Opens(e) = 0 /\ Opens(f) = 0
    BY <1>10, <1>11 DEF Opens, BlockLabels
  <2> QED BY <1>1, <1>2, <1>5, <2>1, ValueFound
<1>17. /\ e.at \notin AfterExpr /\ e.at # "VectorNode" /\ Expects(f.at) = Yields(e.at)
       /\ ResultType(e, sigs) = f.type
  BY <1>10, <1>11, LabelFacts DEF AfterExpr, Expects, ResultType
<1> QED BY <1>4, <1>7, <1>11, <1>12, <1>14, <1>15, <1>16, <1>17, CallsTwo

LEMMA ShortCircuitRhsStep ==
    ASSUME Coherent, ShortCircuitRhs
    PROVE  Coherent'
<1>1. Resume("BinaryNode.rhs") /\ top.kind = "bilogShortCircuit" /\ top.at = "BinaryNode.rhs"
  BY DEF ShortCircuitRhs, Resume, At, top
<1>2. ~Held(top) /\ "BinaryNode.rhs" \in AfterExpr
  BY <1>1 DEF Held, AfterExpr
<1> DEFINE m == top.bbs[1]
           v == Value("i1", m)
<1>3. operands' = Append(pop, v) /\ Return /\ insert' = m
  BY DEF ShortCircuitRhs
<1>4. UNCHANGED <<isSuccess, scopeStack, funcs, sigs, odd>>
  BY DEF ShortCircuitRhs, syms, ast
<1>5. BlocksGrow /\ stack # <<>>
  BY <1>1, <1>2, ValueFound, ShortCircuitRhsBlocks DEF Coherent
<1>6. Moving
  BY <1>4, <1>5 DEF Moving
<1>7. v \in Values /\ v.type = "i1"
  <2>1. m \in Nat
    BY <1>3, <1>5 DEF BlocksGrow
  <2> QED BY <2>1, ValueFacts DEF LLVMTypes
<1>8. toLLVMType(ResultType(top, sigs)) = "i1" /\ top.at \in ExpressionLabels
  BY <1>1, ValueFacts DEF ResultType, ExpressionLabels
<1> HIDE DEF v
<1>9. isSuccess' => AtBase(Tail(stack), pop, odd) /\ operands' = Append(pop, v)
  BY <1>1, <1>2, <1>3, ValueFound
<1>10. isSuccess' /\ Known(odd) => v.type = toLLVMType(ResultType(top, sigs))
  BY <1>7, <1>8
<1> QED BY <1>3, <1>4, <1>6, <1>7, <1>8, <1>9, <1>10, ReturnsValue

LEMMA UnaryNodeStep ==
    ASSUME Coherent, UnaryNode
    PROVE  Coherent'
<1>1. At("expr")
  BY DEF UnaryNode, Visit
<1>2. UNCHANGED <<isSuccess, operands, scopeStack, funcs, sigs, odd>>
  BY DEF UnaryNode, syms, sameTables
<1>3. Emits /\ Control
  BY DEF Emits, Coherent
<1>4. Moving
  BY <1>2, <1>3, EmitsStep DEF Moving
<1> DEFINE e == Expr(top.type)
           f == Await("UnaryNode", top.type)
<1>5. /\ top.type \in Types /\ CanCall(Tail(stack), top, sigs) /\ Tail(stack) \in Seq(Frames)
      /\ isSuccess => AtBase(Tail(stack), operands, odd)
      /\ BlockCount(Tail(stack)) \in Nat /\ Len(scopeStack) = 1 + BlockCount(Tail(stack))
      /\ ResultType(top, sigs) = top.type /\ top.at = "expr"
  BY <1>1, ExprFound
<1>6. /\ FrameOK(e, Len(blocks'), funcs) /\ e.at = "expr" /\ e.type = top.type
      /\ FrameOK(f, Len(blocks'), funcs) /\ f.at = "UnaryNode" /\ f.type = top.type
  BY <1>5, PlainFrames
<1>7. Call(<<e>>) \/ Call(<<e, f>>)
  BY DEF UnaryNode
<1> HIDE DEF e, f
<1>8. ResultType(e, sigs) = top.type /\ ResultType(f, sigs) = top.type
  BY <1>6 DEF ResultType
<1>9. CanCall(Tail(stack), e, sigs) /\ CanCall(Tail(stack), f, sigs)
  BY <1>5, <1>6, <1>8, SameResult, LabelFacts DEF ExpressionLabels, AfterExpr
<1>10. Opens(e) = 0 /\ Opens(f) = 0 /\ e.at \notin AfterExpr /\ e.at # "VectorNode"
       /\ Expects(f.at) = Yields(e.at)
  BY <1>6, LabelFacts DEF Opens, BlockLabels, AfterExpr
<1>11. CASE Call(<<e>>)
  BY <1>2, <1>4, <1>5, <1>6, <1>9, <1>10, <1>11, CallsOne
<1>12. CASE Call(<<e, f>>)
  <2>1. isSuccess' => AtBase(<<f>> \o Tail(stack), operands', odd)
    <3>1. f \in Frames /\ ~Held(f)
      BY <1>6 DEF Held, FrameOK
    <3> QED BY <1>2, <1>5, <3>1, BasePush
  <2>2. Len(scopeStack') = 1 + BlockCount(Tail(stack)) + Opens(f) + Opens(e)
    BY <1>2, <1>5, <1>10
  <2> QED BY <1>4, <1>6, <1>8, <1>9, <1>10, <1>12, <2>1, <2>2, CallsTwo
<1> QED BY <1>7, <1>11, <1>12

LEMMA UnaryOperandStep ==
    ASSUME Coherent, UnaryOperand
    PROVE  Coherent'
<1>1. Resume("UnaryNode") /\ top.at = "UnaryNode"
  BY DEF UnaryOperand, Resume, At, top
<1>2. ~Held(top) /\ "UnaryNode" \in AfterExpr
  BY <1>1 DEF Held, AfterExpr
<1> DEFINE v == Value(topValue.type, insert)
<1>3. operands' = Append(pop, v) /\ Return
  BY DEF UnaryOperand
<1>4. UNCHANGED <<isSuccess, scopeStack, funcs, sigs, odd>>
  BY DEF UnaryOperand, syms, ast
<1>5. Emits /\ Control
  BY DEF Emits, Coherent
<1>6. Moving
  BY <1>4, <1>5, EmitsStep DEF Moving
<1>7. /\ topValue \in Values /\ insert \in Nat /\ AtBase(Tail(stack), pop, odd)
      /\ Known(odd) => topValue.type = toLLVMType(top.type)
  BY <1>1, <1>2, ValueFound
<1>8. v \in Values /\ v.type = topValue.type
  BY <1>7, ValueFacts
<1>9. ResultType(top, sigs) = top.type /\ top.at \in ExpressionLabels
  BY <1>1 DEF ResultType, ExpressionLabels
<1> HIDE DEF v
<1>10. isSuccess' => AtBase(Tail(stack), pop, odd) /\ operands' = Append(pop, v)
  BY <1>3, <1>7
<1>11. isSuccess' /\ Known(odd) => v.type = toLLVMType(ResultType(top, sigs))
  BY <1>7, <1>8, <1>9
<1> QED BY <1>3, <1>4, <1>6, <1>8, <1>9, <1>10, <1>11, ReturnsValue

\* A frame that waits for an expression is called together with it.
LEMMA CallsExpr ==
    ASSUME Coherent, Moving, NEW t \in Types, NEW f, Call(<<Expr(t), f>>),
           FrameOK(f, Len(blocks'), funcs), CanCall(Tail(stack), f, sigs),
           f.at \in AfterExpr, f.type = t, ~Held(f),
           isSuccess' => AtBase(Tail(stack), operands', odd),
           Len(scopeStack') = 1 + BlockCount(Tail(stack))
    PROVE  Coherent'
<1> DEFINE e == Expr(t)
<1>1. FrameOK(e, Len(blocks'), funcs) /\ e.at = "expr" /\ e.type = t
  BY PlainFrames
<1>2. Call(<<e, f>>)
  OBVIOUS
<1> HIDE DEF e
<1>3. e.at \notin AfterExpr /\ e.at # "VectorNode" /\ Expects(f.at) = Yields(e.at)
  BY <1>1, LabelFacts
<1>4. ResultType(e, sigs) = f.type
  BY <1>1 DEF ResultType
<1>5. isSuccess' => AtBase(<<f>> \o Tail(stack), operands', odd)
  <2>1. f \in Frames /\ Tail(stack) \in Seq(Frames)
    BY CallersKept DEF FrameOK, Coherent
  <2> QED BY <2>1, BasePush
<1>6. Opens(e) = 0 /\ Opens(f) = 0
  BY <1>1, LabelFacts DEF Opens
<1>7. Len(scopeStack') = 1 + BlockCount(Tail(stack)) + Opens(f) + Opens(e)
  <2>1. BlockCount(Tail(stack)) \in Nat
    BY CallersKept, Pushed, BlocksPush, PlainFrames DEF Coherent, FrameOK, Moving
  <2> QED BY <1>6, <2>1
<1> QED BY <1>1, <1>2, <1>3, <1>4, <1>5, <1>7, CallsTwo

\* A frame that waits for a statement is called together with it.
LEMMA CallsStatement ==
    ASSUME Coherent, Moving, NEW e \in {Statement, Body}, NEW f, Call(<<e, f>>),
           FrameOK(f, Len(blocks'), funcs), CanCall(Tail(stack), f, sigs),
           f.at \in AfterStatement,
           isSuccess' => AtBase(Tail(stack), operands', odd),
           Len(scopeStack') = 1 + BlockCount(Tail(stack)) + Opens(f)
    PROVE  Coherent'
<1>1. FrameOK(e, Len(blocks'), funcs) /\ e.at = "statement"
  BY PlainFrames
<1>2. /\ e.at \notin AfterExpr /\ e.at # "VectorNode" /\ Expects(f.at) = Yields(e.at)
      /\ Yields(e.at) # "expression"
  BY <1>1, LabelFacts
<1>3. isSuccess' => AtBase(<<f>> \o Tail(stack), operands', odd)
  <2>1. f \in Frames /\ Tail(stack) \in Seq(Frames) /\ ~Held(f)
    BY CallersKept DEF FrameOK, Coherent, Held, AfterStatement
  <2> QED BY <2>1, BasePush
<1>4. Opens(e) = 0
  BY <1>1, LabelFacts DEF Opens
<1>5. Len(scopeStack') = 1 + BlockCount(Tail(stack)) + Opens(f) + Opens(e)
  <2>1. BlockCount(Tail(stack)) \in Nat
    BY CallersKept, BlocksPush DEF Coherent, FrameOK
  <2>2. Opens(f) \in Nat
    BY DEF Opens
  <2> QED BY <1>4, <2>1, <2>2
<1> QED BY <1>1, <1>2, <1>3, <1>5, CallsTwo

\* The arguments of a call.
LEMMA SeqOfIsSeq ==
    ASSUME NEW S, NEW n \in Nat, NEW s \in SeqOf(S, n)
    PROVE  s \in Seq(S)
BY DEF SeqOf

\* The frame that waits for the first of the arguments.
ArgFrame(name, args, bbs) ==
    [Await("FuncallNode", Head(args)) EXCEPT !.name = name, !.bbs = bbs, !.args = Tail(args)]

LEMMA NextArgFacts ==
    ASSUME NEW name \in Names, NEW args \in Seq(Types), args # <<>>, NEW bbs \in Seq(Nat)
    PROVE  /\ NextArg(name, args, bbs) = <<Expr(Head(args)), ArgFrame(name, args, bbs)>>
           /\ ArgFrame(name, args, bbs) \in Frames /\ Head(args) \in Types
           /\ ArgFrame(name, args, bbs).at = "FuncallNode"
           /\ ArgFrame(name, args, bbs).name = name
           /\ ArgFrame(name, args, bbs).type = Head(args)
           /\ ArgFrame(name, args, bbs).args = Tail(args)
           /\ ArgFrame(name, args, bbs).bbs = bbs
<1> DEFINE t == Head(args)
           l == Tail(args)
           a == Await("FuncallNode", t)
           f == [a EXCEPT !.name = name, !.bbs = bbs, !.args = l]
<1>1. NextArg(name, args, bbs) = <<Expr(t), f>> /\ ArgFrame(name, args, bbs) = f
  BY DEF NextArg, ArgFrame
<1>2. t \in Types /\ l \in Seq(Types) /\ "FuncallNode" \in Labels
  BY DEF Labels, AfterExpr
<1>3. a \in Frames /\ a.at = "FuncallNode" /\ a.type = t
  BY <1>2, AwaitFacts
<1> HIDE DEF a, t, l
<1>4. /\ f \in Frames /\ f.at = "FuncallNode" /\ f.name = name /\ f.type = t
      /\ f.args = l /\ f.bbs = bbs
  BY <1>2, <1>3 DEF Frames
<1> QED BY <1>1, <1>2, <1>4 DEF t, l

LEMMA FuncallNodeStep ==
    ASSUME Coherent, SigsOK, FuncallNode
    PROVE  Coherent'
<1>1. At("expr")
  BY DEF FuncallNode, Visit
<1>2. UNCHANGED <<scopeStack, funcs, sigs, odd>>
  BY DEF FuncallNode, sameTables, syms
<1>3. Emits /\ Control
  BY DEF Emits, Coherent
<1>4. Moving
  BY <1>2, <1>3, EmitsStep DEF Moving
<1>5. /\ top.type \in Types /\ CanCall(Tail(stack), top, sigs) /\ Tail(stack) \in Seq(Frames)
      /\ insert \in Nat
      /\ isSuccess => AtBase(Tail(stack), operands, odd)
      /\ Len(scopeStack) = 1 + BlockCount(Tail(stack))
      /\ ResultType(top, sigs) = top.type /\ top.at = "expr" /\ top.at \in ExpressionLabels
  BY <1>1, ExprFound, LabelFacts
<1>6. PICK n \in Names, args \in SeqOf(UsedTypes, MaxParams) :
        /\ sigs[n] = top.type
        /\ \/ Error /\ Return
           \/ /\ funcs[n] # NoFunction
              /\ operands' = Append(operands, Value(toLLVMType(funcs[n].type), insert))
              /\ Return
              /\ UNCHANGED isSuccess
           \/ /\ funcs[n] # NoFunction
              /\ args # <<>>
              /\ Call(NextArg(n, args, <<>>))
              /\ UNCHANGED <<isSuccess, operands>>
  BY DEF FuncallNode, push
<1>7. CASE Error /\ Return
  <2>1. ~isSuccess'
    BY <1>7 DEF Error
  <2>2. Value("i1", 1) \in Values
    BY ValueFacts DEF LLVMTypes
  <2> QED BY <1>2, <1>4, <1>5, <1>7, <2>1, <2>2, ReturnsValue
<1>8. CASE /\ funcs[n] # NoFunction
           /\ operands' = Append(operands, Value(toLLVMType(funcs[n].type), insert))
           /\ Return
           /\ UNCHANGED isSuccess
  <2> DEFINE t == funcs[n].type
             v == Value(toLLVMType(t), insert)
  <2>1. t \in Types
    BY <1>8 DEF Coherent, Control, FuncsOK
  <2> HIDE DEF t
  <2>2. v \in Values /\ v.type = toLLVMType(t)
    BY <1>5, <2>1, ValueFacts
  <2> USE DEF t
  <2>3. Known(odd) => funcs[n].type = top.type
    BY <1>6, <1>8 DEF SigsOK, Known
  <2>4. operands' = Append(operands, v)
    BY <1>8
  <2> HIDE DEF v
  <2>5. isSuccess' => AtBase(Tail(stack), operands, odd) /\ operands' = Append(operands, v)
    BY <1>5, <1>8, <2>4
  <2>6. isSuccess' /\ Known(odd) => v.type = toLLVMType(ResultType(top, sigs))
    BY <1>5, <2>2, <2>3
  <2> QED BY <1>2, <1>4, <1>5, <1>8, <2>2, <2>5, <2>6, ReturnsValue
<1>9. CASE /\ funcs[n] # NoFunction
           /\ args # <<>>
           /\ Call(NextArg(n, args, <<>>))
           /\ UNCHANGED <<isSuccess, operands>>
  <2>1. args \in Seq(Types)
    BY SeqOfIsSeq, MaxParamsAssumption, UsedTypesAssumption
  <2>2. <<>> \in Seq(Nat)
    OBVIOUS
  <2> DEFINE m == Len(blocks')
             bbs == <<>>
  <2>3. bbs \in Seq(Nat) /\ Call(NextArg(n, args, bbs))
    BY <1>9, <2>2
  <2> HIDE DEF m, bbs
  <2> DEFINE f == ArgFrame(n, args, bbs)
  <2>4. /\ NextArg(n, args, bbs) = <<Expr(Head(args)), f>>
        /\ f \in Frames /\ f.at = "FuncallNode" /\ f.name = n
        /\ f.type = Head(args) /\ Head(args) \in Types
    BY <1>9, <2>1, <2>3, NextArgFacts
  <2> HIDE DEF f
  <2>9. FrameOK(f, m, funcs)
    BY <1>9, <2>4 DEF FrameOK, Held
  <2>5. ResultType(f, sigs) = ResultType(top, sigs)
    BY <1>5, <1>6, <2>4 DEF ResultType
  <2>6. CanCall(Tail(stack), f, sigs)
    BY <1>5, <2>4, <2>5, SameResult, LabelFacts DEF ExpressionLabels, AfterExpr
  <2>7. f.at \in AfterExpr /\ ~Held(f)
    BY <2>4 DEF AfterExpr, Held
  <2>8. Call(<<Expr(Head(args)), f>>) /\ FrameOK(f, Len(blocks'), funcs)
    BY <2>3, <2>4, <2>9 DEF m
  <2> QED BY <1>2, <1>4, <1>5, <1>9, <2>4, <2>6, <2>7, <2>8, CallsExpr
<1> QED BY <1>6, <1>7, <1>8, <1>9

LEMMA FuncallArgStep ==
    ASSUME Coherent, SigsOK, FuncallArg
    PROVE  Coherent'
<1>1. Resume("FuncallNode") /\ top.at = "FuncallNode"
  BY Zenon DEF FuncallArg, Resume, At, top
<1>2. ~Held(top) /\ "FuncallNode" \in AfterExpr
  BY <1>1, Zenon DEF Held, AfterExpr
<1>3. UNCHANGED <<isSuccess, scopeStack, funcs, sigs, odd>>
  BY DEF FuncallArg, syms, ast
<1>4. Emits /\ Control
  BY DEF Emits, Coherent
<1>5. Moving
  BY <1>3, <1>4, EmitsStep DEF Moving
<1>6. /\ topValue \in Values /\ insert \in Nat /\ AtBase(Tail(stack), pop, odd)
      /\ FrameOK(top, Len(blocks), funcs) /\ top \in Frames /\ Tail(stack) \in Seq(Frames)
      /\ CanCall(Tail(stack), top, sigs) /\ Len(scopeStack) = 1 + BlockCount(Tail(stack))
  BY <1>1, <1>2, ValueFound
<1>7. top.name \in Names /\ funcs[top.name] # NoFunction
  BY <1>1, <1>6 DEF FrameOK
<1> DEFINE idx == Len(funcs[top.name].params) - Len(top.args)
           arg == cast(topValue, funcs[top.name].params[idx].type)
           bbs == Append(top.bbs, arg.block)
           v == Value(toLLVMType(funcs[top.name].type), insert)
<1>8. \/ /\ top.args # <<>>
         /\ Call(NextArg(top.name, top.args, bbs))
         /\ operands' = pop
      \/ Return /\ operands' = Append(pop, v)
  BY DEF FuncallArg
<1>9. bbs \in Seq(Nat)
  <2>1. arg.block \in Nat
    BY <1>6 DEF cast, Value, Values
  <2>2. top.bbs \in Seq(Nat)
    BY <1>6 DEF Frames
  <2> HIDE DEF arg
  <2> QED BY <2>1, <2>2
<1> HIDE DEF bbs, v
<1>10. CASE top.args # <<>> /\ Call(NextArg(top.name, top.args, bbs)) /\ operands' = pop
  <2> DEFINE f == ArgFrame(top.name, top.args, bbs)
             t == Head(top.args)
  <2>1. top.args \in Seq(Types)
    BY <1>6 DEF Frames
  <2>2. /\ NextArg(top.name, top.args, bbs) = <<Expr(t), f>>
        /\ f \in Frames /\ f.at = "FuncallNode" /\ f.name = top.name
        /\ f.type = t /\ t \in Types
    BY <1>7, <1>9, <1>10, <2>1, NextArgFacts
  <2> HIDE DEF f, t
  <2>3. FrameOK(f, Len(blocks'), funcs) /\ ~Held(f)
    BY <1>7, <2>2 DEF FrameOK, Held
  <2>4. ResultType(f, sigs) = ResultType(top, sigs)
    BY <1>1, <2>2 DEF ResultType
  <2>5. CanCall(Tail(stack), f, sigs)
    BY <1>1, <1>2, <1>6, <2>2, <2>4, SameResult, LabelFacts DEF ExpressionLabels
  <2>6. Call(<<Expr(t), f>>)
    BY <1>10, <2>2
  <2> QED BY <1>2, <1>3, <1>5, <1>6, <1>10, <2>2, <2>3, <2>5, <2>6, CallsExpr
<1>11. CASE Return /\ operands' = Append(pop, v)
  <2>1. v \in Values /\ v.type = toLLVMType(funcs[top.name].type)
    <3> DEFINE t == funcs[top.name].type
    <3>1. t \in Types
      BY <1>7 DEF Coherent, Control, FuncsOK
    <3> HIDE DEF t
    <3>2. Value(toLLVMType(t), insert) \in Values /\ Value(toLLVMType(t), insert).type = toLLVMType(t)
      BY <1>6, <3>1, ValueFacts
    <3> QED BY <3>2 DEF t, v
  <2>2. Known(odd) => funcs[top.name].type = ResultType(top, sigs)
    BY <1>1, <1>7 DEF SigsOK, Known, ResultType
  <2>3. isSuccess' => AtBase(Tail(stack), pop, odd) /\ operands' = Append(pop, v)
    BY <1>6, <1>11
  <2>4. isSuccess' /\ Known(odd) => v.type = toLLVMType(ResultType(top, sigs))
    BY <2>1, <2>2
  <2>5. top.at \in ExpressionLabels
    BY <1>1 DEF ExpressionLabels
  <2> QED BY <1>3, <1>5, <1>11, <2>1, <2>3, <2>4, <2>5, ReturnsValue
<1> QED BY <1>8, <1>10, <1>11, Zenon
-----------------------------------------------------------------------------
(* Statements                                                              *)

\* Where a statement, or a point after one, begins.
LEMMA StatementFound ==
    ASSUME Coherent, stack # <<>>,
           top.at \in {"statement", "BlockStatementNode"} \cup AfterStatement
    PROVE  /\ top \in Frames /\ FrameOK(top, Len(blocks), funcs)
           /\ Tail(stack) \in Seq(Frames) /\ CanCall(Tail(stack), top, sigs)
           /\ insert \in 1..Len(blocks) /\ Len(blocks) \in Nat
           /\ top.at \notin ExpressionLabels /\ top.at \notin AfterExpr
           /\ BlockCount(Tail(stack)) \in Nat
           /\ Len(scopeStack) = 1 + BlockCount(Tail(stack)) + Opens(top)
           /\ isSuccess => AtBase(Tail(stack), operands, odd)
<1>1. /\ top.at # "VectorNode" /\ top.at \notin ExpressionLabels /\ top.at \notin AfterExpr
  BY DEF AfterStatement, ExpressionLabels, AfterExpr
<1>2. /\ FrameOK(top, Len(blocks), funcs) /\ top \in Frames /\ Tail(stack) \in Seq(Frames)
      /\ CanCall(Tail(stack), top, sigs) /\ insert \in 1..Len(blocks) /\ Len(blocks) \in Nat
      /\ stack = <<top>> \o Tail(stack)
  BY <1>1, Active DEF Coherent
<1>3. isSuccess => AtBase(Tail(stack), operands, odd)
  <2>1. isSuccess => OperandsOK(<<top>> \o Tail(stack), operands, odd)
    BY <1>2, Zenon DEF Coherent, Results
  <2> QED BY <1>1, <1>2, <2>1, OperandsFound
<1>4. BlockCount(Tail(stack)) \in Nat /\ Len(scopeStack) = 1 + BlockCount(Tail(stack)) + Opens(top)
  BY BlocksHere DEF Coherent
<1> QED BY <1>1, <1>2, <1>3, <1>4

\* A frame of the same statement can wait where this one did.
LEMMA SameStatement ==
    ASSUME NEW s, NEW sg, NEW h, NEW f, CanCall(s, h, sg), f.at \in Labels,
           h.at \in {"statement", "BlockStatementNode"} \cup AfterStatement,
           Yields(f.at) = "statement", h.at # "FunctionDefNode"
    PROVE  CanCall(s, f, sg)
<1>1. Yields(h.at) = "statement" /\ h.at # "VectorNode" /\ f.at # "VectorNode"
  <2>1. h.at # "VectorNode" /\ Yields("VectorNode") # "statement"
    BY DEF AfterStatement, Yields
  <2>2. Yields(h.at) = "statement"
    BY DEF AfterStatement, Yields, ExpressionLabels
  <2> QED BY <2>1, <2>2
<1> QED BY <1>1 DEF CanCall

LEMMA PrintOrReturnStep ==
    ASSUME Coherent, PrintOrReturn
    PROVE  Coherent'
<1>1. stack # <<>> /\ top.at = "statement"
  BY DEF PrintOrReturn, At, top
<1>2. UNCHANGED <<isSuccess, operands, scopeStack, funcs, sigs, odd>>
  BY DEF PrintOrReturn, syms, ast
<1>3. Emits /\ Control
  BY DEF Emits, Coherent
<1>4. Moving
  BY <1>2, <1>3, EmitsStep DEF Moving
<1>5. PICK t \in Types, at \in {"IoPrintNode", "ReturnNode"} : Call(<<Expr(t), Await(at, t)>>)
  BY UsedTypesAssumption DEF PrintOrReturn
<1> DEFINE f == Await(at, t)
<1>6. FrameOK(f, Len(blocks'), funcs) /\ f.at = at /\ f.type = t
  <2>1. at \in {"UnaryNode", "IoPrintNode", "ReturnNode", "IfStatementNode.cond"}
    OBVIOUS
  <2> HIDE DEF f
  <2>2. /\ FrameOK(Await(at, t), Len(blocks'), funcs)
        /\ Await(at, t).at = at /\ Await(at, t).type = t
    BY <2>1, PlainFrames
  <2> QED BY <2>2 DEF f
<1>7. Call(<<Expr(t), f>>)
  BY <1>5
<1> HIDE DEF f
<1>8. f.at \in AfterExpr /\ ~Held(f) /\ Yields(f.at) = "statement" /\ f.at \in Labels
  BY <1>6, LabelFacts DEF AfterExpr, Held, Yields, ExpressionLabels
<1>9. /\ CanCall(Tail(stack), f, sigs) /\ Len(scopeStack) = 1 + BlockCount(Tail(stack))
      /\ isSuccess => AtBase(Tail(stack), operands, odd)
  <2>1. Opens(top) = 0
    BY <1>1 DEF Opens, BlockLabels
  <2> QED BY <1>1, <1>8, <2>1, StatementFound, SameStatement
<1> QED BY <1>2, <1>4, <1>6, <1>7, <1>8, <1>9, CallsExpr

LEMMA IfStatementNodeStep ==
    ASSUME Coherent, IfStatementNode
    PROVE  Coherent'
<1>1. stack # <<>> /\ top.at = "statement"
  BY DEF IfStatementNode, Visit, At, top
<1>2. UNCHANGED <<isSuccess, operands, scopeStack, funcs, sigs, odd>>
  BY DEF IfStatementNode, syms, sameTables
<1>3. Emits /\ Control
  BY DEF Emits, Coherent
<1>4. Moving
  BY <1>2, <1>3, EmitsStep DEF Moving
<1> DEFINE t == "BOOL"
           f == Await("IfStatementNode.cond", t)
<1>5. Call(<<Expr(t), f>>) /\ t \in Types
  BY DEF IfStatementNode, Types
<1> HIDE DEF t
<1>6. FrameOK(f, Len(blocks'), funcs) /\ f.at = "IfStatementNode.cond" /\ f.type = t
  BY <1>5, PlainFrames
<1> HIDE DEF f
<1>8. f.at \in AfterExpr /\ ~Held(f) /\ Yields(f.at) = "statement" /\ f.at \in Labels
  BY <1>6, LabelFacts DEF AfterExpr, Held, Yields, ExpressionLabels
<1>9. /\ CanCall(Tail(stack), f, sigs) /\ Len(scopeStack) = 1 + BlockCount(Tail(stack))
      /\ isSuccess => AtBase(Tail(stack), operands, odd)
  <2>1. Opens(top) = 0
    BY <1>1 DEF Opens, BlockLabels
  <2> QED BY <1>1, <1>8, <2>1, StatementFound, SameStatement
<1> QED BY <1>2, <1>4, <1>5, <1>6, <1>8, <1>9, CallsExpr

ScopesTyped == scopeStack \in Seq([Names -> Slots])

\* A set of places has a last one.
LEMMA LastPlace ==
    ASSUME NEW n \in Nat, NEW S \in SUBSET (1..n), S # {}
    PROVE  \E m \in S : \A k \in S : k <= m
<1> DEFINE T == {n - k : k \in S}
<1>1. T \subseteq Nat /\ T # {}
  <2>1. \A k \in S : n - k \in Nat
    OBVIOUS
  <2>2. PICK k \in S : TRUE
    OBVIOUS
  <2>3. n - k \in T
    OBVIOUS
  <2> QED BY <2>1, <2>3
<1>2. PICK d \in T : \A e \in T : ~(<<e, d>> \in OpToRel(<, Nat))
  BY <1>1, WFMin, NatLessThanWellFounded
<1>3. \A e \in T : ~(e < d)
  BY <1>1, <1>2 DEF OpToRel
<1>4. PICK m \in S : d = n - m
  OBVIOUS
<1>5. \A k \in S : n - k \in T
  OBVIOUS
<1>6. \A k \in S : ~(n - k < n - m)
  BY <1>3, <1>4, <1>5
<1> QED BY <1>6

\* ... and a first one.
LEMMA FirstPlace ==
    ASSUME NEW n \in Nat, NEW S \in SUBSET (1..n), S # {}
    PROVE  \E m \in S : \A k \in S : m <= k
<1>1. S \subseteq Nat
  OBVIOUS
<1>2. PICK m \in S : \A k \in S : ~(<<k, m>> \in OpToRel(<, Nat))
  BY <1>1, WFMin, NatLessThanWellFounded
<1>3. \A k \in S : ~(k < m)
  BY <1>1, <1>2 DEF OpToRel
<1> QED BY <1>1, <1>3

\* lookup() finds a slot that some scope has for the name, and none only if no
\* scope has one.
LEMMA LookupFacts ==
    ASSUME NEW scopes \in Seq([Names -> Slots]), NEW name \in Names
    PROVE  /\ lookup(scopes, name) \in Slots
           /\ lookup(scopes, name) # NoSlot =>
                \E i \in 1..Len(scopes) : scopes[i][name] = lookup(scopes, name)
           /\ lookup(scopes, name) = NoSlot =>
                \A i \in 1..Len(scopes) : scopes[i][name] = NoSlot
<1> DEFINE holders == {i \in 1..Len(scopes) : scopes[i][name] # NoSlot}
           m == CHOOSE i \in holders : \A j \in holders : j <= i
<1>1. lookup(scopes, name) = IF holders = {} THEN NoSlot ELSE scopes[m][name]
  BY DEF lookup
<1>2. CASE holders = {}
  <2>1. lookup(scopes, name) = NoSlot
    BY <1>1, <1>2
  <2> QED BY <1>2, <2>1 DEF Slots
<1>3. CASE holders # {}
  <2>1. \E i \in holders : \A j \in holders : j <= i
    <3>1. Len(scopes) \in Nat /\ holders \in SUBSET (1..Len(scopes))
      OBVIOUS
    <3> HIDE DEF holders
    <3> QED BY <1>3, <3>1, LastPlace
  <2>2. m \in holders
    <3> HIDE DEF holders
    <3> QED BY <2>1
  <2> HIDE DEF m
  <2>3. lookup(scopes, name) = scopes[m][name]
    BY <1>1, <1>3
  <2>4. m \in 1..Len(scopes) /\ scopes[m][name] # NoSlot
    BY <2>2
  <2> QED BY <2>3, <2>4
<1> QED BY <1>2, <1>3

\* declare() changes one slot of the innermost scope.
LEMMA DeclareFacts ==
    ASSUME NEW scopes \in Seq([Names -> Slots]), scopes # <<>>, NEW name \in Names,
           NEW slot \in Slots
    PROVE  /\ declare(scopes, name, slot) \in Seq([Names -> Slots])
           /\ Len(declare(scopes, name, slot)) = Len(scopes)
           /\ \A i \in 1..Len(scopes), m \in Names :
                declare(scopes, name, slot)[i][m] =
                  IF i = Len(scopes) /\ m = name THEN slot ELSE scopes[i][m]
<1> DEFINE n == Len(scopes)
           last == [scopes[n] EXCEPT ![name] = slot]
           new == declare(scopes, name, slot)
<1>1. n \in 1..n /\ scopes[n] \in [Names -> Slots]
  OBVIOUS
<1>2. last \in [Names -> Slots]
      /\ \A m \in Names : last[m] = IF m = name THEN slot ELSE scopes[n][m]
  BY <1>1
<1>3. new = [scopes EXCEPT ![n] = last]
  BY DEF declare
<1> HIDE DEF last
<1>4. new \in Seq([Names -> Slots]) /\ Len(new) = n
      /\ \A i \in 1..n : new[i] = IF i = n THEN last ELSE scopes[i]
  BY <1>1, <1>2, <1>3, ExceptSeq
<1> HIDE DEF new
<1> QED BY <1>2, <1>4 DEF new

LEMMA PopFacts ==
    ASSUME ScopesTyped, scopeStack # <<>>
    PROVE  /\ PopScope \in Seq([Names -> Slots]) /\ Len(PopScope) = Len(scopeStack) - 1
           /\ \A i \in 1..Len(PopScope) : PopScope[i] = scopeStack[i] /\ i \in 1..Len(scopeStack)
<1> DEFINE n == Len(scopeStack) - 1
<1>1. scopeStack \in Seq([Names -> Slots]) /\ n \in Nat /\ n <= Len(scopeStack)
  BY DEF ScopesTyped
<1> HIDE DEF n
<1>2. /\ SubSeq(scopeStack, 1, n) \in Seq([Names -> Slots]) /\ Len(SubSeq(scopeStack, 1, n)) = n
      /\ \A i \in 1..n : SubSeq(scopeStack, 1, n)[i] = scopeStack[i] /\ i \in 1..Len(scopeStack)
  BY <1>1
<1> QED BY <1>2 DEF n, PopScope

LEMMA AssignmentNodeStep ==
    ASSUME Coherent, ScopesTyped, AssignmentNode
    PROVE  Coherent'
<1>1. stack # <<>> /\ top.at = "statement"
  BY DEF AssignmentNode, At, top
<1>2. UNCHANGED <<isSuccess, operands, scopeStack, funcs, sigs>> /\ odd \subseteq odd'
  BY DEF AssignmentNode, syms, Odd
<1>3. Emits /\ Control
  BY DEF Emits, Coherent
<1>4. Moving
  BY <1>2, <1>3, EmitsStep DEF Moving
<1>5. PICK n \in Names, type \in Types, rhs \in Types :
        Call(<<Expr(rhs), [Await("AssignmentNode", rhs) EXCEPT
                             !.other = type, !.name = n, !.slot = lookup(scopeStack, n)]>>)
  BY UsedTypesAssumption DEF AssignmentNode
<1> DEFINE a == Await("AssignmentNode", rhs)
           slot == lookup(scopeStack, n)
           f == [a EXCEPT !.other = type, !.name = n, !.slot = slot]
<1>6. a \in Frames /\ a.at = "AssignmentNode" /\ a.type = rhs /\ a.bbs = <<>>
  <2>1. "AssignmentNode" \in Labels
    BY DEF Labels, AfterExpr
  <2> QED BY <2>1, AwaitFacts
<1>7. slot \in Slots
  BY LookupFacts DEF ScopesTyped
<1>8. Call(<<Expr(rhs), f>>)
  BY <1>5
<1> HIDE DEF a, slot
<1>9. /\ f \in Frames /\ f.at = "AssignmentNode" /\ f.type = rhs /\ f.bbs = <<>>
      /\ f.other = type /\ f.name = n
  BY <1>6, <1>7 DEF Frames
<1> HIDE DEF f
<1>10. FrameOK(f, Len(blocks'), funcs) /\ ~Held(f)
  BY <1>9 DEF FrameOK, Held, ShortCircuit, Kept
<1>11. f.at \in AfterExpr /\ Yields(f.at) = "statement" /\ f.at \in Labels
  BY <1>9, LabelFacts DEF AfterExpr, Yields, ExpressionLabels
<1>12. /\ CanCall(Tail(stack), f, sigs) /\ Len(scopeStack) = 1 + BlockCount(Tail(stack))
       /\ isSuccess => AtBase(Tail(stack), operands, odd)
  <2>1. Opens(top) = 0
    BY <1>1 DEF Opens, BlockLabels
  <2> QED BY <1>1, <1>11, <2>1, StatementFound, SameStatement
<1> QED BY <1>2, <1>4, <1>8, <1>9, <1>10, <1>11, <1>12, CallsExpr

\* A statement that takes the result of its expression and returns.
LEMMA TakesResult ==
    ASSUME Coherent, Moving, NEW l \in AfterExpr \ ExpressionLabels, Resume(l), Return,
           operands' = pop, UNCHANGED isSuccess, Len(scopeStack') = Len(scopeStack)
    PROVE  Coherent'
<1>1. /\ top.at = l /\ ~Held(top) /\ AtBase(Tail(stack), pop, odd)
      /\ Len(scopeStack) = 1 + BlockCount(Tail(stack))
  <2>1. top.at = l /\ l # "BinaryNode.rhs"
    BY DEF Resume, At, top, ExpressionLabels
  <2>2. ~Held(top)
    BY <2>1 DEF Held
  <2> QED BY <2>1, <2>2, ValueFound
<1> QED BY <1>1, ReturnsNothing

LEMMA AssignmentRhsStep ==
    ASSUME Coherent, ScopesTyped, AssignmentRhs
    PROVE  Coherent'
<1>1. Resume("AssignmentNode") /\ top.at = "AssignmentNode"
  BY DEF AssignmentRhs, Resume, At, top
<1>2. "AssignmentNode" \in AfterExpr \ ExpressionLabels
  BY DEF AfterExpr, ExpressionLabels
<1>3. /\ UNCHANGED <<isSuccess, funcs, sigs, odd>> /\ Return /\ operands' = pop
      /\ scopeStack' \in {scopeStack, declare(scopeStack, top.name,
                            IF top.slot = NoSlot THEN Value(toLLVMType(top.other), insert)
                                                 ELSE top.slot)}
  BY DEF AssignmentRhs
<1>4. Emits /\ Control
  BY DEF Emits, Coherent
<1>5. Moving
  BY <1>3, <1>4, EmitsStep DEF Moving
<1>6. Len(scopeStack') = Len(scopeStack)
  <2> DEFINE slot == IF top.slot = NoSlot THEN Value(toLLVMType(top.other), insert) ELSE top.slot
  <2>1. /\ top \in Frames /\ FrameOK(top, Len(blocks), funcs) /\ insert \in Nat
        /\ Len(scopeStack) = 1 + BlockCount(Tail(stack)) /\ BlockCount(Tail(stack)) \in Nat
    BY <1>1, <1>2, ValueFound
  <2>2. top.name \in Names /\ top.other \in Types /\ top.slot \in Slots
    BY <1>1, <2>1 DEF FrameOK, Frames
  <2>3. slot \in Slots
    BY <2>1, <2>2, ValueFacts DEF Slots
  <2>4. scopeStack \in Seq([Names -> Slots]) /\ scopeStack # <<>>
    <3>1. scopeStack \in Seq([Names -> Slots]) /\ Len(scopeStack) # 0
      BY <2>1 DEF ScopesTyped
    <3> QED BY <3>1
  <2>5. scopeStack' \in {scopeStack, declare(scopeStack, top.name, slot)}
    BY <1>3
  <2> HIDE DEF slot
  <2> QED BY <2>2, <2>3, <2>4, <2>5, DeclareFacts
<1> QED BY <1>1, <1>2, <1>3, <1>5, <1>6, TakesResult

LEMMA IoPrintNodeStep ==
    ASSUME Coherent, IoPrintNode
    PROVE  Coherent'
<1>1. Resume("IoPrintNode") /\ "IoPrintNode" \in AfterExpr \ ExpressionLabels
  BY DEF IoPrintNode, AfterExpr, ExpressionLabels
<1>2. UNCHANGED <<isSuccess, scopeStack, funcs, sigs, odd>> /\ Return /\ operands' = pop
  BY DEF IoPrintNode, syms, ast
<1>3. Emits /\ Control
  BY DEF Emits, Coherent
<1>4. Moving
  BY <1>2, <1>3, EmitsStep DEF Moving
<1> QED BY <1>1, <1>2, <1>4, TakesResult

LEMMA ReturnNodeStep ==
    ASSUME Coherent, ReturnNode
    PROVE  Coherent'
<1>1. Resume("ReturnNode") /\ "ReturnNode" \in AfterExpr \ ExpressionLabels
  BY DEF ReturnNode, AfterExpr, ExpressionLabels
<1>2. UNCHANGED <<isSuccess, scopeStack, funcs, sigs, odd>> /\ Return /\ operands' = pop
  BY DEF ReturnNode, syms, ast
<1>3. Branches /\ Control
  BY DEF Branches, Coherent
<1>4. Moving
  BY <1>2, <1>3, BranchesBlocks DEF Moving
<1> QED BY <1>1, <1>2, <1>4, TakesResult

LEMMA DoWhileCondStep ==
    ASSUME Coherent, DoWhileCond
    PROVE  Coherent'
<1>1. /\ Resume("DoWhileStatementNode.cond")
      /\ "DoWhileStatementNode.cond" \in AfterExpr \ ExpressionLabels
  BY DEF DoWhileCond, AfterExpr, ExpressionLabels
<1>2. UNCHANGED <<isSuccess, scopeStack, funcs, sigs, odd>> /\ Return /\ operands' = pop
  BY DEF DoWhileCond, syms, ast
<1>3. Branches /\ Control
  BY DEF Branches, Coherent
<1>4. Moving
  BY <1>2, <1>3, BranchesBlocks DEF Moving
<1> QED BY <1>1, <1>2, <1>4, TakesResult

\* A statement that returns and leaves the operands alone.
LEMMA StatementReturns ==
    ASSUME Coherent, Moving, Return, isSuccess' => isSuccess,
           top.at \in {"statement", "BlockStatementNode"} \cup AfterStatement,
           UNCHANGED operands, Len(scopeStack') = Len(scopeStack) - Opens(top)
    PROVE  Coherent'
<1>1. stack # <<>>
  BY DEF Moving
<1>2. /\ top.at \notin ExpressionLabels
      /\ Len(scopeStack) = 1 + BlockCount(Tail(stack)) + Opens(top)
      /\ BlockCount(Tail(stack)) \in Nat
      /\ isSuccess => AtBase(Tail(stack), operands, odd)
  BY <1>1, StatementFound
<1>3. Opens(top) \in Nat
  BY DEF Opens
<1>4. Len(scopeStack') = 1 + BlockCount(Tail(stack))
  BY <1>2, <1>3
<1>5. isSuccess' => AtBase(Tail(stack), operands', odd)
  BY <1>2
<1> QED BY <1>2, <1>4, <1>5, ReturnsNothing

LEMMA ExpressionWrapperNodeStep ==
    ASSUME Coherent, ExpressionWrapperNode
    PROVE  Coherent'
<1>1. stack # <<>> /\ top.at = "statement"
  BY DEF ExpressionWrapperNode, At, top
<1>2. UNCHANGED <<isSuccess, operands, scopeStack, funcs, sigs, odd>> /\ Return
  BY DEF ExpressionWrapperNode, syms, ast
<1>3. Emits /\ Control
  BY DEF Emits, Coherent
<1>4. Moving
  BY <1>2, <1>3, EmitsStep DEF Moving
<1>5. Len(scopeStack') = Len(scopeStack) - Opens(top)
  <2>1. Opens(top) = 0 /\ Len(scopeStack) \in Nat
    <3>1. /\ Len(scopeStack) = 1 + BlockCount(Tail(stack)) + Opens(top)
          /\ BlockCount(Tail(stack)) \in Nat
      BY <1>1, StatementFound
    <3>2. Opens(top) = 0
      BY <1>1 DEF Opens, BlockLabels
    <3> QED BY <3>1, <3>2
  <2> QED BY <1>2, <2>1
<1> QED BY <1>1, <1>2, <1>4, <1>5, StatementReturns

LEMMA BlockStatementNodeStep ==
    ASSUME Coherent, ScopesTyped, BlockStatementNode
    PROVE  Coherent'
<1>1. stack # <<>> /\ top.at = "statement"
  BY DEF BlockStatementNode, Visit, At, top
<1>2. /\ UNCHANGED <<isSuccess, operands, funcs, sigs, odd>>
      /\ Call(<<Frame("BlockStatementNode")>>) /\ scopeStack' = Append(scopeStack, EmptyScope)
  BY DEF BlockStatementNode, sameTables
<1>3. Emits /\ Control
  BY DEF Emits, Coherent
<1>4. Moving
  BY <1>2, <1>3, EmitsStep DEF Moving
<1> DEFINE f == Frame("BlockStatementNode")
<1>5. FrameOK(f, Len(blocks'), funcs) /\ f.at = "BlockStatementNode"
  BY PlainFrames
<1>6. Call(<<f>>)
  BY <1>2
<1> HIDE DEF f
<1>7. f.at \notin AfterExpr /\ f.at \in Labels /\ Yields(f.at) = "statement" /\ Opens(f) = 1
  BY <1>5, LabelFacts DEF AfterExpr, Labels, Opens, BlockLabels
<1>8. Opens(top) = 0
  BY <1>1 DEF Opens, BlockLabels
<1>9. /\ CanCall(Tail(stack), f, sigs) /\ Len(scopeStack) = 1 + BlockCount(Tail(stack))
      /\ isSuccess => AtBase(Tail(stack), operands, odd)
  BY <1>1, <1>7, <1>8, StatementFound, SameStatement
<1>10. Len(scopeStack') = 1 + BlockCount(Tail(stack)) + Opens(f)
  <2>1. Len(scopeStack') = Len(scopeStack) + 1
    BY <1>2 DEF ScopesTyped
  <2> QED BY <1>7, <1>9, <2>1
<1> QED BY <1>2, <1>4, <1>5, <1>6, <1>7, <1>9, <1>10, CallsOne

\* The scope that the end of a block pops.
LEMMA BlockPops ==
    ASSUME Coherent, ScopesTyped, stack # <<>>, top.at \in BlockLabels
    PROVE  /\ Opens(top) = 1 /\ scopeStack # <<>> /\ Len(scopeStack) \in Nat
           /\ Len(PopScope) = Len(scopeStack) - 1
           /\ PopScope \in Seq([Names -> Slots])
           /\ Len(scopeStack) = 2 + BlockCount(Tail(stack)) /\ BlockCount(Tail(stack)) \in Nat
<1>1. Opens(top) = 1
  BY DEF Opens
<1>2. Len(scopeStack) = 1 + BlockCount(Tail(stack)) + 1 /\ BlockCount(Tail(stack)) \in Nat
  BY <1>1, BlocksHere DEF Coherent
<1>3. Len(scopeStack) > 0 /\ Len(scopeStack) \in Nat
  BY <1>2
<1>4. scopeStack # <<>>
  BY <1>3 DEF ScopesTyped
<1> QED BY <1>1, <1>2, <1>3, <1>4, PopFacts

LEMMA BlockLoopStep ==
    ASSUME Coherent, ScopesTyped, BlockLoop
    PROVE  Coherent'
<1>1. stack # <<>> /\ top.at = "BlockStatementNode" /\ top.at \in BlockLabels
  BY DEF BlockLoop, At, top, BlockLabels
<1>2. UNCHANGED <<isSuccess, operands, funcs, sigs, odd>>
  BY DEF BlockLoop
<1>3. Emits /\ Control
  BY DEF Emits, Coherent
<1>4. Moving
  BY <1>2, <1>3, EmitsStep DEF Moving
<1>5. \/ Call(<<Statement, Frame("BlockStatementNode.stmt")>>) /\ UNCHANGED scopeStack
      \/ Return /\ scopeStack' = PopScope
  BY DEF BlockLoop
<1>6. CASE Call(<<Statement, Frame("BlockStatementNode.stmt")>>) /\ UNCHANGED scopeStack
  <2> DEFINE e == Statement
             f == Frame("BlockStatementNode.stmt")
  <2>1. FrameOK(f, Len(blocks'), funcs) /\ f.at = "BlockStatementNode.stmt"
    BY PlainFrames
  <2>2. Call(<<e, f>>) /\ e \in {Statement, Body}
    BY <1>6
  <2> HIDE DEF e, f
  <2>3. /\ f.at \in AfterStatement /\ f.at \in Labels /\ Yields(f.at) = "statement"
        /\ Opens(f) = 1 /\ Opens(top) = 1
    BY <1>1, <2>1, LabelFacts DEF AfterStatement, Labels, Opens, BlockLabels
  <2>4. /\ CanCall(Tail(stack), f, sigs)
        /\ Len(scopeStack) = 1 + BlockCount(Tail(stack)) + Opens(f)
        /\ isSuccess => AtBase(Tail(stack), operands, odd)
    BY <1>1, <2>3, StatementFound, SameStatement
  <2> QED BY <1>2, <1>4, <1>6, <2>1, <2>2, <2>3, <2>4, CallsStatement
<1>7. CASE Return /\ scopeStack' = PopScope
  BY <1>1, <1>2, <1>4, <1>7, BlockPops, StatementReturns
<1> QED BY <1>5, <1>6, <1>7

LEMMA BlockStatementStep ==
    ASSUME Coherent, ScopesTyped, BlockStatement
    PROVE  Coherent'
<1>1. /\ stack # <<>> /\ top.at = "BlockStatementNode.stmt" /\ top.at \in BlockLabels
      /\ top.at \in AfterStatement
  BY DEF BlockStatement, Resume, At, top, BlockLabels, AfterStatement
<1>2. UNCHANGED <<isSuccess, operands, funcs, sigs, odd>>
  BY DEF BlockStatement, ast
<1>3. Emits /\ Control
  BY DEF Emits, Coherent
<1>4. Moving
  BY <1>2, <1>3, EmitsStep DEF Moving
<1>5. \/ Call(<<Frame("BlockStatementNode")>>) /\ UNCHANGED scopeStack
      \/ Return /\ scopeStack' = PopScope
  BY DEF BlockStatement
<1>6. CASE Call(<<Frame("BlockStatementNode")>>) /\ UNCHANGED scopeStack
  <2> DEFINE f == Frame("BlockStatementNode")
  <2>1. FrameOK(f, Len(blocks'), funcs) /\ f.at = "BlockStatementNode"
    BY PlainFrames
  <2>2. Call(<<f>>)
    BY <1>6
  <2> HIDE DEF f
  <2>3. /\ f.at \notin AfterExpr /\ f.at \in Labels /\ Yields(f.at) = "statement"
        /\ Opens(f) = 1 /\ Opens(top) = 1
    BY <1>1, <2>1, LabelFacts DEF AfterExpr, Labels, Opens, BlockLabels
  <2>4. /\ CanCall(Tail(stack), f, sigs)
        /\ Len(scopeStack) = 1 + BlockCount(Tail(stack)) + Opens(f)
        /\ isSuccess => AtBase(Tail(stack), operands, odd)
    BY <1>1, <2>3, StatementFound, SameStatement
  <2> QED BY <1>2, <1>4, <1>6, <2>1, <2>2, <2>3, <2>4, CallsOne
<1>7. CASE Return /\ scopeStack' = PopScope
  BY <1>1, <1>2, <1>4, <1>7, BlockPops, StatementReturns
<1> QED BY <1>5, <1>6, <1>7

LEMMA UnwindStep ==
    ASSUME Coherent, ScopesTyped, Unwind
    PROVE  Coherent'
<1>1. /\ stack # <<>> /\ top.at \in AfterExpr \cup AfterStatement /\ ~isSuccess
      /\ Return /\ UNCHANGED <<isSuccess, operands, funcs, sigs, odd>>
  BY DEF Unwind
<1>2. \/ top.at = "BlockStatementNode.stmt" /\ scopeStack' = PopScope
      \/ top.at # "BlockStatementNode.stmt" /\ UNCHANGED scopeStack
  BY DEF Unwind
<1>3. Emits /\ Control
  BY DEF Emits, Coherent
<1>4. Moving
  BY <1>1, <1>3, EmitsStep DEF Moving
<1>5. CASE top.at = "BlockStatementNode.stmt"
  <2>1. top.at \in BlockLabels
    BY <1>5 DEF BlockLabels
  <2>2. Len(scopeStack') = Len(scopeStack) - Opens(top)
    BY <1>1, <1>2, <1>5, <2>1, BlockPops
  <2>3. top.at \in AfterStatement
    BY <1>5 DEF AfterStatement
  <2> QED BY <1>1, <1>4, <2>2, <2>3, StatementReturns
<1>6. CASE top.at # "BlockStatementNode.stmt"
  <2>1. Opens(top) = 0
    BY <1>1, <1>6 DEF Opens, BlockLabels, AfterExpr, AfterStatement
  <2>2. Len(scopeStack') = 1 + BlockCount(Tail(stack)) + Opens(top) /\ BlockCount(Tail(stack)) \in Nat
    BY <1>1, <1>2, <1>6, BlocksHere DEF Coherent
  <2>3. Len(scopeStack') = 1 + BlockCount(Tail(stack))
    BY <2>1, <2>2
  <2>4. CASE top.at \in ExpressionLabels
    <3>1. Value("i1", 1) \in Values
      BY ValueFacts DEF LLVMTypes
    <3>2. UNCHANGED scopeStack
      BY <1>2, <1>6
    <3> QED BY <1>1, <1>4, <2>4, <3>1, <3>2, ReturnsValue
  <2>5. CASE top.at \notin ExpressionLabels
    BY <1>1, <1>4, <2>3, <2>5, ReturnsNothing
  <2> QED BY <2>4, <2>5
<1> QED BY <1>5, <1>6
-----------------------------------------------------------------------------
(* Branches and loops                                                      *)

\* A frame that keeps blocks.
Keeping(f, bbs) == [f EXCEPT !.bbs = bbs]

KeepingLabels == {"IfStatementNode.true", "IfStatementNode.false", "WhileStatementNode.cond",
                  "WhileStatementNode.body", "DoWhileStatementNode.body",
                  "DoWhileStatementNode.cond"}

LEMMA KeepingFacts ==
    ASSUME NEW f \in Frames, NEW bbs \in Seq(Nat)
    PROVE  /\ Keeping(f, bbs) \in Frames /\ Keeping(f, bbs).at = f.at
           /\ Keeping(f, bbs).type = f.type /\ Keeping(f, bbs).kind = f.kind
           /\ Keeping(f, bbs).bbs = bbs
BY DEF Keeping, Frames

\* What the frames of branches and loops keep, and whom they wait for.
LEMMA KeepingFrames ==
    ASSUME NEW at \in KeepingLabels, NEW t \in Types, NEW bbs \in Seq(Nat),
           NEW f \in {Keeping(Frame(at), bbs), Keeping(Await(at, t), bbs)},
           at \in AfterExpr => f = Keeping(Await(at, t), bbs)
    PROVE  /\ f \in Frames /\ f.at = at /\ f.bbs = bbs /\ ~Held(f)
           /\ at \in AfterExpr => f.type = t
           /\ Yields(f.at) = "statement" /\ f.at \in Labels /\ Opens(f) = 0
           /\ at \in {"IfStatementNode.true", "WhileStatementNode.body",
                      "DoWhileStatementNode.body", "DoWhileStatementNode.cond"} => Kept(f) = 2
           /\ at = "IfStatementNode.false" => Kept(f) = 1
           /\ at = "WhileStatementNode.cond" => Kept(f) = 3
           /\ \A n, fn : Len(bbs) = Kept(f) /\ (\A i \in 1..Kept(f) : bbs[i] \in 1..n) =>
                FrameOK(f, n, fn)
<1>1. at \in Labels /\ at # "BinaryNode.rhs" /\ at # "BinaryNode.lhs" /\ at # "FuncallNode"
      /\ at # "AssignmentNode" /\ at # "expr"
  BY DEF KeepingLabels, Labels, AfterExpr, AfterStatement
<1>2. Await(at, t) \in Frames /\ Await(at, t).at = at /\ Await(at, t).type = t
  BY <1>1, AwaitFacts
<1>3. Frame(at) \in Frames /\ Frame(at).at = at
  BY <1>1 DEF Frame, Frames, Slots
<1>4. /\ f \in Frames /\ f.at = at /\ f.bbs = bbs
      /\ at \in AfterExpr => f.type = t
  BY <1>2, <1>3, KeepingFacts
<1>5. ~Held(f) /\ Yields(f.at) = "statement" /\ Opens(f) = 0
  BY <1>4 DEF Held, Yields, Opens, ExpressionLabels, BlockLabels, KeepingLabels
<1>6. /\ at \in {"IfStatementNode.true", "WhileStatementNode.body",
                 "DoWhileStatementNode.body", "DoWhileStatementNode.cond"} => Kept(f) = 2
      /\ at = "IfStatementNode.false" => Kept(f) = 1
      /\ at = "WhileStatementNode.cond" => Kept(f) = 3
  BY <1>4 DEF Kept, ShortCircuit
<1>7. ASSUME NEW n, NEW fn, Len(bbs) = Kept(f), \A i \in 1..Kept(f) : bbs[i] \in 1..n
      PROVE  FrameOK(f, n, fn)
  BY <1>1, <1>4, <1>5, <1>7 DEF FrameOK
<1> QED BY <1>1, <1>4, <1>5, <1>6, <1>7

\* Tuples of blocks.
LEMMA Tuples ==
    ASSUME NEW m \in Nat, NEW a \in 1..m, NEW b \in 1..m, NEW c \in 1..m
    PROVE  /\ <<a>> \in Seq(Nat) /\ Len(<<a>>) = 1 /\ \A i \in 1..1 : <<a>>[i] \in 1..m
           /\ <<a, b>> \in Seq(Nat) /\ Len(<<a, b>>) = 2 /\ \A i \in 1..2 : <<a, b>>[i] \in 1..m
           /\ <<a, b, c>> \in Seq(Nat) /\ Len(<<a, b, c>>) = 3
           /\ \A i \in 1..3 : <<a, b, c>>[i] \in 1..m
OBVIOUS

\* A body is called.
LEMMA CallsBody ==
    ASSUME Coherent, Moving, NEW at \in KeepingLabels \cap AfterStatement, NEW bbs \in Seq(Nat),
           Call(<<Body, Keeping(Frame(at), bbs)>>),
           Len(bbs) = Kept(Keeping(Frame(at), bbs)),
           \A i \in 1..Len(bbs) : bbs[i] \in 1..Len(blocks'),
           CanCall(Tail(stack), Keeping(Frame(at), bbs), sigs),
           isSuccess' => AtBase(Tail(stack), operands', odd),
           Len(scopeStack') = 1 + BlockCount(Tail(stack))
    PROVE  Coherent'
<1> DEFINE f == Keeping(Frame(at), bbs)
           m == Len(blocks')
<1>1. "BOOL" \in Types /\ at \notin AfterExpr
  BY DEF Types, AfterExpr, AfterStatement
<1>2. f.at = at /\ Opens(f) = 0 /\ FrameOK(f, m, funcs)
  <2>1. f \in {Keeping(Frame(at), bbs), Keeping(Await(at, "BOOL"), bbs)}
    OBVIOUS
  <2>2. Len(bbs) = Kept(f) /\ \A i \in 1..Kept(f) : bbs[i] \in 1..m
    OBVIOUS
  <2> HIDE DEF f, m
  <2> QED BY <1>1, <2>1, <2>2, KeepingFrames
<1>3. Call(<<Body, f>>) /\ Body \in {Statement, Body} /\ CanCall(Tail(stack), f, sigs)
  OBVIOUS
<1> HIDE DEF f
<1>4. Len(scopeStack') = 1 + BlockCount(Tail(stack)) + Opens(f)
  <2>1. BlockCount(Tail(stack)) \in Nat
    BY BlocksHere DEF Coherent, Moving
  <2> QED BY <1>2, <2>1
<1> QED BY <1>2, <1>3, <1>4, CallsStatement

\* A frame that keeps blocks waits where another frame of its statement did.
LEMMA KeepingCalled ==
    ASSUME Coherent, stack # <<>>, top.at # "VectorNode", Yields(top.at) = "statement",
           NEW f, f.at \in KeepingLabels
    PROVE  CanCall(Tail(stack), f, sigs)
<1>1. CanCall(Tail(stack), top, sigs) /\ top.at \in Labels
  BY Active DEF Coherent, Frames
<1>2. Yields(f.at) = "statement" /\ f.at \in Labels /\ f.at # "VectorNode"
  BY DEF Yields, ExpressionLabels, KeepingLabels, Labels, AfterExpr, AfterStatement
<1> QED BY <1>1, <1>2, SameResult

LEMMA IfCondStep ==
    ASSUME Coherent, IfCond
    PROVE  Coherent'
<1>1. Resume("IfStatementNode.cond") /\ top.at = "IfStatementNode.cond" /\ stack # <<>>
  BY DEF IfCond, Resume, At, top
<1>2. /\ UNCHANGED <<isSuccess, scopeStack, funcs, sigs, odd>> /\ operands' = pop
      /\ Call(<<Body, [Frame("IfStatementNode.true") EXCEPT
                         !.bbs = <<Len(blocks) + 2, Len(blocks) + 3>>]>>)
  BY DEF IfCond, syms, ast
<1>3. /\ ~Held(top) /\ "IfStatementNode.cond" \in AfterExpr /\ top.at # "VectorNode"
      /\ Yields(top.at) = "statement"
  BY <1>1 DEF Held, AfterExpr, Yields, ExpressionLabels
<1>4. AtBase(Tail(stack), pop, odd) /\ Len(scopeStack) = 1 + BlockCount(Tail(stack))
  BY <1>1, <1>3, ValueFound
<1>5. /\ BlocksGrow /\ Len(blocks) + 2 \in 1..Len(blocks') /\ Len(blocks) + 3 \in 1..Len(blocks')
  BY MakersBlocks DEF Coherent
<1>6. Moving
  BY <1>1, <1>2, <1>5 DEF Moving
<1> DEFINE bbs == <<Len(blocks) + 2, Len(blocks) + 3>>
           at == "IfStatementNode.true"
           f == Keeping(Frame(at), bbs)
<1>7. bbs \in Seq(Nat) /\ Len(bbs) = 2 /\ \A i \in 1..2 : bbs[i] \in 1..Len(blocks')
  BY <1>5, Tuples DEF BlocksGrow
<1>8. Call(<<Body, f>>) /\ at \in KeepingLabels \cap AfterStatement
  BY <1>2 DEF Keeping, KeepingLabels, AfterStatement
<1> HIDE DEF bbs
<1>9. f.at = at /\ Kept(f) = 2
  BY <1>7, <1>8, KeepingFrames DEF Types, AfterExpr
<1>10. CanCall(Tail(stack), f, sigs)
  BY <1>1, <1>3, <1>8, <1>9, KeepingCalled
<1> QED BY <1>2, <1>4, <1>6, <1>7, <1>8, <1>9, <1>10, CallsBody

LEMMA WhileCondStep ==
    ASSUME Coherent, WhileCond
    PROVE  Coherent'
<1>1. Resume("WhileStatementNode.cond") /\ top.at = "WhileStatementNode.cond" /\ stack # <<>>
  BY DEF WhileCond, Resume, At, top
<1>2. /\ UNCHANGED <<isSuccess, scopeStack, funcs, sigs, odd>> /\ operands' = pop
      /\ Call(<<Body, [Frame("WhileStatementNode.body") EXCEPT
                         !.bbs = <<top.bbs[1], top.bbs[3]>>]>>)
  BY DEF WhileCond, syms, ast
<1>3. /\ ~Held(top) /\ "WhileStatementNode.cond" \in AfterExpr /\ top.at # "VectorNode"
      /\ Yields(top.at) = "statement"
  BY <1>1 DEF Held, AfterExpr, Yields, ExpressionLabels
<1>4. AtBase(Tail(stack), pop, odd) /\ Len(scopeStack) = 1 + BlockCount(Tail(stack))
  BY <1>1, <1>3, ValueFound
<1>5. BlocksGrow /\ Len(blocks') = Len(blocks)
  BY BranchesBlocks DEF Coherent, Branches
<1>6. Moving
  BY <1>1, <1>2, <1>5 DEF Moving
<1> DEFINE bbs == <<top.bbs[1], top.bbs[3]>>
           at == "WhileStatementNode.body"
           f == Keeping(Frame(at), bbs)
<1>7. bbs \in Seq(Nat) /\ Len(bbs) = 2 /\ \A i \in 1..2 : bbs[i] \in 1..Len(blocks')
  <2>1. Kept(top) = 3
    BY <1>1 DEF Kept, ShortCircuit
  <2>2. top.bbs[1] \in 1..Len(blocks') /\ top.bbs[3] \in 1..Len(blocks')
    BY <1>1, <1>5, <2>1, KeptBlocks DEF Coherent
  <2> QED BY <1>5, <2>2, Tuples DEF BlocksGrow
<1>8. Call(<<Body, f>>) /\ at \in KeepingLabels \cap AfterStatement
  BY <1>2 DEF Keeping, KeepingLabels, AfterStatement
<1> HIDE DEF bbs
<1>9. f.at = at /\ Kept(f) = 2
  BY <1>7, <1>8, KeepingFrames DEF Types, AfterExpr
<1>10. CanCall(Tail(stack), f, sigs)
  BY <1>1, <1>3, <1>8, <1>9, KeepingCalled
<1> QED BY <1>2, <1>4, <1>6, <1>7, <1>8, <1>9, <1>10, CallsBody

LEMMA DoWhileStatementNodeStep ==
    ASSUME Coherent, DoWhileStatementNode
    PROVE  Coherent'
<1>1. stack # <<>> /\ top.at = "statement"
  BY DEF DoWhileStatementNode, Visit, At, top
<1>2. /\ UNCHANGED <<isSuccess, scopeStack, funcs, sigs, odd, operands>>
      /\ Call(<<Body, [Frame("DoWhileStatementNode.body") EXCEPT
                         !.bbs = <<Len(blocks) + 1, Len(blocks) + 2>>]>>)
  BY DEF DoWhileStatementNode, syms, sameTables
<1>3. top.at # "VectorNode" /\ Yields(top.at) = "statement" /\ Opens(top) = 0
  BY <1>1 DEF Yields, ExpressionLabels, Opens, BlockLabels
<1>4. /\ isSuccess => AtBase(Tail(stack), operands, odd)
      /\ Len(scopeStack) = 1 + BlockCount(Tail(stack))
  BY <1>1, <1>3, StatementFound
<1>5. /\ BlocksGrow /\ Len(blocks) + 1 \in 1..Len(blocks') /\ Len(blocks) + 2 \in 1..Len(blocks')
  BY MakersBlocks DEF Coherent
<1>6. Moving
  BY <1>1, <1>2, <1>5 DEF Moving
<1> DEFINE bbs == <<Len(blocks) + 1, Len(blocks) + 2>>
           at == "DoWhileStatementNode.body"
           f == Keeping(Frame(at), bbs)
<1>7. bbs \in Seq(Nat) /\ Len(bbs) = 2 /\ \A i \in 1..2 : bbs[i] \in 1..Len(blocks')
  BY <1>5, Tuples DEF BlocksGrow
<1>8. Call(<<Body, f>>) /\ at \in KeepingLabels \cap AfterStatement
  BY <1>2 DEF Keeping, KeepingLabels, AfterStatement
<1> HIDE DEF bbs
<1>9. f.at = at /\ Kept(f) = 2
  BY <1>7, <1>8, KeepingFrames DEF Types, AfterExpr
<1>10. CanCall(Tail(stack), f, sigs)
  BY <1>1, <1>3, <1>8, <1>9, KeepingCalled
<1> QED BY <1>2, <1>4, <1>6, <1>7, <1>8, <1>9, <1>10, CallsBody

LEMMA WhileStatementNodeStep ==
    ASSUME Coherent, WhileStatementNode
    PROVE  Coherent'
<1>1. stack # <<>> /\ top.at = "statement"
  BY DEF WhileStatementNode, Visit, At, top
<1>2. /\ UNCHANGED <<isSuccess, scopeStack, funcs, sigs, odd, operands>>
      /\ Call(<<Expr("BOOL"), [Await("WhileStatementNode.cond", "BOOL") EXCEPT
                 !.bbs = <<Len(blocks) + 1, Len(blocks) + 2, Len(blocks) + 3>>]>>)
  BY DEF WhileStatementNode, syms, sameTables
<1>3. top.at # "VectorNode" /\ Yields(top.at) = "statement" /\ Opens(top) = 0
  BY <1>1 DEF Yields, ExpressionLabels, Opens, BlockLabels
<1>4. /\ isSuccess => AtBase(Tail(stack), operands, odd)
      /\ Len(scopeStack) = 1 + BlockCount(Tail(stack))
  BY <1>1, <1>3, StatementFound
<1>5. /\ BlocksGrow /\ Len(blocks) + 1 \in 1..Len(blocks') /\ Len(blocks) + 2 \in 1..Len(blocks')
      /\ Len(blocks) + 3 \in 1..Len(blocks')
  BY MakersBlocks DEF Coherent
<1>6. Moving
  BY <1>1, <1>2, <1>5 DEF Moving
<1> DEFINE bbs == <<Len(blocks) + 1, Len(blocks) + 2, Len(blocks) + 3>>
           at == "WhileStatementNode.cond"
           t == "BOOL"
           f == Keeping(Await(at, t), bbs)
<1>7. bbs \in Seq(Nat) /\ Len(bbs) = 3 /\ \A i \in 1..3 : bbs[i] \in 1..Len(blocks')
  BY <1>5, Tuples DEF BlocksGrow
<1>8. Call(<<Expr(t), f>>) /\ at \in KeepingLabels /\ at \in AfterExpr /\ t \in Types
  BY <1>2 DEF Keeping, KeepingLabels, AfterExpr, Types
<1> HIDE DEF bbs, t
<1>9. /\ f.at = at /\ f.type = t /\ ~Held(f) /\ Kept(f) = 3
      /\ FrameOK(f, Len(blocks'), funcs)
  <2>1. f \in {Keeping(Frame(at), bbs), Keeping(Await(at, t), bbs)}
    OBVIOUS
  <2>2. f.at = at /\ f.type = t /\ ~Held(f) /\ Kept(f) = 3 /\ f.bbs = bbs /\ f \in Frames
    BY <1>7, <1>8, <2>1, KeepingFrames
  <2>3. FrameOK(f, Len(blocks'), funcs)
    BY <1>7, <1>8, <2>2 DEF FrameOK
  <2> QED BY <2>2, <2>3
<1>10. CanCall(Tail(stack), f, sigs)
  BY <1>1, <1>3, <1>8, <1>9, KeepingCalled
<1> HIDE DEF f
<1> QED BY <1>2, <1>4, <1>6, <1>8, <1>9, <1>10, CallsExpr

\* A branch or loop that is done returns.
LEMMA EndsStatement ==
    ASSUME Coherent, Branches, Return, top.at \in AfterStatement \ BlockLabels,
           UNCHANGED <<isSuccess, operands, scopeStack, funcs, sigs, odd>>
    PROVE  Coherent'
<1>1. BlocksGrow /\ stack # <<>>
  BY BranchesBlocks DEF Coherent
<1>2. Moving
  BY <1>1 DEF Moving
<1>3. Len(scopeStack') = Len(scopeStack) - Opens(top)
  <2>1. Opens(top) = 0
    BY DEF Opens
  <2>2. Len(scopeStack) = 1 + BlockCount(Tail(stack)) + Opens(top) /\ BlockCount(Tail(stack)) \in Nat
    BY <1>1, BlocksHere DEF Coherent
  <2> QED BY <2>1, <2>2
<1> QED BY <1>2, <1>3, StatementReturns

LEMMA IfFalseStep ==
    ASSUME Coherent, IfFalse
    PROVE  Coherent'
BY EndsStatement DEF IfFalse, Branches, Resume, At, top, AfterStatement, BlockLabels, syms, ast

LEMMA WhileBodyStep ==
    ASSUME Coherent, WhileBody
    PROVE  Coherent'
BY EndsStatement DEF WhileBody, Branches, Resume, At, top, AfterStatement, BlockLabels, syms, ast

LEMMA FunctionDefEndStep ==
    ASSUME Coherent, FunctionDefEnd
    PROVE  Coherent'
BY EndsStatement DEF FunctionDefEnd, Branches, Resume, At, top, AfterStatement, BlockLabels, syms, ast

LEMMA DoWhileBodyStep ==
    ASSUME Coherent, DoWhileBody
    PROVE  Coherent'
<1>1. /\ stack # <<>> /\ top.at = "DoWhileStatementNode.body"
      /\ top.at \in AfterStatement \ BlockLabels
  BY DEF DoWhileBody, Resume, At, top, AfterStatement, BlockLabels
<1>2. UNCHANGED <<isSuccess, scopeStack, funcs, sigs, odd, operands>>
  BY DEF DoWhileBody, syms, ast
<1>3. \/ Call(<<Expr("BOOL"), [Await("DoWhileStatementNode.cond", "BOOL") EXCEPT
                                 !.bbs = top.bbs]>>)
      \/ Return
  BY DEF DoWhileBody
<1>4. Branches /\ BlocksGrow /\ Len(blocks') = Len(blocks)
  BY BranchesBlocks DEF Coherent, Branches
<1>5. Moving
  BY <1>1, <1>2, <1>4 DEF Moving
<1>6. CASE Return
  BY <1>1, <1>2, <1>4, <1>6, EndsStatement
<1>7. CASE Call(<<Expr("BOOL"), [Await("DoWhileStatementNode.cond", "BOOL") EXCEPT
                                   !.bbs = top.bbs]>>)
  <2> DEFINE bbs == top.bbs
             at == "DoWhileStatementNode.cond"
             t == "BOOL"
             f == Keeping(Await(at, t), bbs)
  <2>1. Yields(top.at) = "statement" /\ top.at # "VectorNode" /\ Opens(top) = 0
    BY <1>1 DEF Yields, ExpressionLabels, Opens
  <2>2. /\ isSuccess => AtBase(Tail(stack), operands, odd)
        /\ Len(scopeStack) = 1 + BlockCount(Tail(stack))
    BY <1>1, <2>1, StatementFound
  <2>3. bbs \in Seq(Nat) /\ Len(bbs) = 2 /\ \A i \in 1..2 : bbs[i] \in 1..Len(blocks')
    <3>1. Kept(top) = 2
      BY <1>1 DEF Kept, ShortCircuit
    <3> QED BY <1>1, <1>4, <3>1, KeptBlocks DEF Coherent
  <2>4. Call(<<Expr(t), f>>) /\ at \in KeepingLabels /\ at \in AfterExpr /\ t \in Types
    BY <1>7 DEF Keeping, KeepingLabels, AfterExpr, Types
  <2> HIDE DEF bbs, t
  <2>5. /\ f.at = at /\ f.type = t /\ ~Held(f) /\ Kept(f) = 2
        /\ FrameOK(f, Len(blocks'), funcs)
    <3>1. f \in {Keeping(Frame(at), bbs), Keeping(Await(at, t), bbs)}
      OBVIOUS
    <3>2. f.at = at /\ f.type = t /\ ~Held(f) /\ Kept(f) = 2 /\ f.bbs = bbs /\ f \in Frames
      BY <2>3, <2>4, <3>1, KeepingFrames
    <3>3. FrameOK(f, Len(blocks'), funcs)
      BY <2>3, <2>4, <3>2 DEF FrameOK
    <3> QED BY <3>2, <3>3
  <2>6. CanCall(Tail(stack), f, sigs)
    BY <1>1, <2>1, <2>4, <2>5, KeepingCalled
  <2> HIDE DEF f
  <2> QED BY <1>2, <1>5, <2>2, <2>4, <2>5, <2>6, CallsExpr
<1> QED BY <1>3, <1>6, <1>7

LEMMA IfTrueStep ==
    ASSUME Coherent, IfTrue
    PROVE  Coherent'
<1>1. /\ stack # <<>> /\ top.at = "IfStatementNode.true"
      /\ top.at \in AfterStatement \ BlockLabels
  BY DEF IfTrue, Resume, At, top, AfterStatement, BlockLabels
<1>2. UNCHANGED <<isSuccess, scopeStack, funcs, sigs, odd, operands>>
  BY DEF IfTrue, syms, ast
<1> DEFINE bbs == <<top.bbs[2]>>
           at == "IfStatementNode.false"
           f == Keeping(Frame(at), bbs)
<1>3. Call(<<Body, f>>) \/ Call(<<f>>)
  BY DEF IfTrue, Keeping
<1>4. Branches /\ BlocksGrow /\ Len(blocks') = Len(blocks)
  BY BranchesBlocks DEF Coherent, Branches
<1>5. Moving
  BY <1>1, <1>2, <1>4 DEF Moving
<1>6. Yields(top.at) = "statement" /\ top.at # "VectorNode" /\ Opens(top) = 0
  BY <1>1 DEF Yields, ExpressionLabels, Opens
<1>7. /\ isSuccess => AtBase(Tail(stack), operands, odd)
      /\ Len(scopeStack) = 1 + BlockCount(Tail(stack))
  BY <1>1, <1>6, StatementFound
<1>8. bbs \in Seq(Nat) /\ Len(bbs) = 1 /\ \A i \in 1..1 : bbs[i] \in 1..Len(blocks')
  <2>1. Kept(top) = 2
    BY <1>1 DEF Kept, ShortCircuit
  <2>2. top.bbs[2] \in 1..Len(blocks')
    BY <1>1, <1>4, <2>1, KeptBlocks DEF Coherent
  <2> QED BY <1>4, <2>2, Tuples DEF BlocksGrow
<1>9. at \in KeepingLabels \cap AfterStatement /\ at \notin AfterExpr /\ "BOOL" \in Types
  BY DEF KeepingLabels, AfterStatement, AfterExpr, Types
<1> HIDE DEF bbs
<1>10. f.at = at /\ Kept(f) = 1 /\ f \in Frames /\ f.bbs = bbs /\ Opens(f) = 0 /\ ~Held(f)
  <2>1. f \in {Keeping(Frame(at), bbs), Keeping(Await(at, "BOOL"), bbs)}
    OBVIOUS
  <2> HIDE DEF f
  <2> QED BY <1>8, <1>9, <2>1, KeepingFrames
<1>11. FrameOK(f, Len(blocks'), funcs)
  BY <1>8, <1>10 DEF FrameOK, AfterExpr
<1>12. CanCall(Tail(stack), f, sigs)
  BY <1>1, <1>6, <1>9, <1>10, KeepingCalled
<1>13. CASE Call(<<Body, f>>)
  BY <1>2, <1>5, <1>7, <1>8, <1>9, <1>10, <1>12, <1>13, CallsBody
<1>14. CASE Call(<<f>>)
  <2>1. f.at \notin AfterExpr
    BY <1>9, <1>10
  <2>2. Len(scopeStack') = 1 + BlockCount(Tail(stack)) + Opens(f)
    <3>1. BlockCount(Tail(stack)) \in Nat
      BY <1>1, BlocksHere DEF Coherent
    <3> QED BY <1>2, <1>7, <1>10, <3>1
  <2> HIDE DEF f
  <2> QED BY <1>2, <1>5, <1>7, <1>11, <1>12, <1>14, <2>1, <2>2, CallsOne
<1> QED BY <1>3, <1>13, <1>14
-----------------------------------------------------------------------------
(* Functions                                                               *)

\* The steps inside a function.
Moves == Expressions \/ Statements \/ FunctionDefEnd \/ Unwind

LEMMA MovesStep ==
    ASSUME Coherent, SigsOK, ScopesTyped, Moves
    PROVE  Coherent'
<1>1. CASE Expressions
  BY <1>1, ConstantNodeStep, VarNodeStep, BinaryNodeStep, EagerLhsStep, EagerRhsStep,
     ShortCircuitLhsStep, ShortCircuitRhsStep, UnaryNodeStep, UnaryOperandStep,
     FuncallNodeStep, FuncallArgStep DEF Expressions
<1>2. CASE Statements
  BY <1>2, AssignmentNodeStep, AssignmentRhsStep, PrintOrReturnStep, IoPrintNodeStep,
     ReturnNodeStep, ExpressionWrapperNodeStep, BlockStatementNodeStep, BlockLoopStep,
     BlockStatementStep, IfStatementNodeStep, IfCondStep, IfTrueStep, IfFalseStep,
     WhileStatementNodeStep, WhileCondStep, WhileBodyStep, DoWhileStatementNodeStep,
     DoWhileBodyStep, DoWhileCondStep DEF Statements
<1> QED BY <1>1, <1>2, FunctionDefEndStep, UnwindStep DEF Moves

LEMMA MovesAreRunning ==
    ASSUME Moves
    PROVE  stack # <<>> /\ ~At("VectorNode")
<1>1. CASE Expressions
  BY <1>1, Zenon DEF Expressions, ConstantNode, VarNode, BinaryNode, EagerLhs, EagerRhs,
     ShortCircuitLhs, ShortCircuitRhs, UnaryNode, UnaryOperand, FuncallNode, FuncallArg,
     At, Resume, Visit
<1>2. CASE Statements
  BY <1>2 DEF Statements, AssignmentNode, AssignmentRhs, PrintOrReturn, IoPrintNode,
     ReturnNode, ExpressionWrapperNode, BlockStatementNode, BlockLoop, BlockStatement,
     IfStatementNode, IfCond, IfTrue, IfFalse, WhileStatementNode, WhileCond, WhileBody,
     DoWhileStatementNode, DoWhileBody, DoWhileCond, At, Resume, Visit
<1>3. CASE FunctionDefEnd \/ Unwind
  BY <1>3 DEF FunctionDefEnd, Unwind, Resume, At, AfterExpr, AfterStatement, top
<1> QED BY <1>1, <1>2, <1>3, Zenon DEF Moves

\* Inside a function, functions are not registered.
LEMMA MovesKeep ==
    ASSUME Moves
    PROVE  UNCHANGED <<funcs, sigs, currentFunc>> /\ odd \subseteq odd'
<1>1. CASE Expressions
  <2>1. CASE BinaryNode
    BY <2>1 DEF BinaryNode, Odd, syms
  <2>2. CASE FuncallNode
    BY <2>2, Zenon DEF FuncallNode, syms, sameTables
  <2>3. CASE FuncallArg
    BY <2>3 DEF FuncallArg, syms, ast
  <2>4. CASE ~BinaryNode /\ ~FuncallNode /\ ~FuncallArg
    BY <1>1, <2>4 DEF Expressions, ConstantNode, VarNode, EagerLhs, EagerRhs,
       ShortCircuitLhs, ShortCircuitRhs, UnaryNode, UnaryOperand, syms, ast, sameTables
  <2> QED BY <2>1, <2>2, <2>3, <2>4
<1>2. CASE Statements
  <2>1. CASE AssignmentNode
    BY <2>1 DEF AssignmentNode, Odd, syms
  <2>2. CASE BlockStatement
    BY <2>2 DEF BlockStatement, ast
  <2>3. CASE ~AssignmentNode /\ ~BlockStatement
    BY <1>2, <2>3 DEF Statements, AssignmentRhs, PrintOrReturn, IoPrintNode,
       ReturnNode, ExpressionWrapperNode, BlockStatementNode, BlockLoop,
       IfStatementNode, IfCond, IfTrue, IfFalse, WhileStatementNode, WhileCond, WhileBody,
       DoWhileStatementNode, DoWhileBody, DoWhileCond, syms, ast, sameTables
  <2> QED BY <2>1, <2>2, <2>3
<1>3. CASE FunctionDefEnd \/ Unwind
  BY <1>3 DEF FunctionDefEnd, Unwind, syms, ast
<1> QED BY <1>1, <1>2, <1>3 DEF Moves

\* The bottom of the call stack.
LEMMA Bottom ==
    ASSUME Control, Results, At("VectorNode")
    PROVE  /\ Tail(stack) = <<>> /\ stack # <<>>
           /\ isSuccess => AtBase(<<>>, operands, odd)
<1>1. stack # <<>> /\ top.at = "VectorNode"
  BY DEF At, top
<1>2. /\ top \in Frames /\ stack = <<top>> \o Tail(stack) /\ CanCall(Tail(stack), top, sigs)
      /\ Tail(stack) \in Seq(Frames)
  BY <1>1, Active
<1>3. Tail(stack) = <<>>
  BY <1>1, <1>2 DEF CanCall
<1>4. isSuccess => OperandsOK(<<top>> \o Tail(stack), operands, odd)
  BY <1>2, Zenon DEF Results
<1>5. isSuccess => AtBase(Tail(stack), operands, odd)
  <2>1. top.at \notin AfterExpr
    BY <1>1 DEF AfterExpr
  <2> QED BY <1>2, <1>4, <2>1, OperandsFound
<1> QED BY <1>1, <1>3, <1>5

LEMMA NoFrames ==
    /\ \A n, fn, sg : StackOK(<<>>, n, fn, sg)
    /\ BlockCount(<<>>) = 0 /\ HeldCount(<<>>) = 0 /\ ~Waiting(<<>>) /\ <<>> \in Seq(Frames)
<1>1. \A n, fn, sg : StackOK(<<>>, n, fn, sg)
  BY DEF StackOK
<1>2. BlockFrames(<<>>) = {} /\ Pending(<<>>) = {}
  BY DEF BlockFrames, Pending
<1> QED BY <1>1, <1>2, FS_EmptySet DEF BlockCount, HeldCount, Waiting

LEMMA VectorNodeEndStep ==
    ASSUME Control, Results, VectorNodeEnd
    PROVE  Control' /\ Results' /\ BlockCount(stack') = BlockCount(stack)
<1>1. At("VectorNode") /\ Return /\ UNCHANGED <<isSuccess, operands, funcs, sigs, blocks, insert, odd>>
  BY DEF VectorNodeEnd, syms, ir, ast
<1>2. stack' = <<>>
  BY <1>1, Bottom DEF Return
<1>3. Control'
  BY <1>1, <1>2, NoFrames DEF Control, FuncsOK, CallsOK, Running
<1>4. Results'
  BY <1>1, <1>2, Bottom, NoFrames, NothingLeft DEF Results
<1>5. BlockCount(stack) = 0
  <2>1. stack = <<top>> \o <<>> /\ top \in Frames
    BY <1>1, Bottom, Active
  <2>2. Opens(top) = 0
    BY <1>1 DEF Opens, BlockLabels, At, top
  <2>3. BlockCount(<<top>> \o <<>>) = BlockCount(<<>>) + Opens(top)
    BY <2>1, NoFrames, BlocksPush
  <2>4. BlockCount(stack) = BlockCount(<<top>> \o <<>>)
    BY <2>1, Zenon
  <2> QED BY <2>2, <2>3, <2>4, NoFrames
<1> QED BY <1>2, <1>3, <1>4, <1>5, NoFrames

SigsTyped == sigs \in [Names -> Types \cup {ABSENT}]

\* A new function, whose body is visited next.
LEMMA FunctionDefNodeTables ==
    ASSUME Control, SigsOK, SigsTyped, FunctionDefNode
    PROVE  FuncsOK' /\ SigsOK' /\ SigsTyped' /\ odd \subseteq odd' /\ currentFunc' \in Names
<1>1. PICK n \in Names, type \in UsedTypes, params \in SeqOf(Params, MaxParams) :
        /\ sigs[n] # ABSENT => "redefinition" \in odd'
        /\ odd \subseteq odd'
        /\ funcs' = [funcs EXCEPT ![n] = [type |-> type, params |-> params]]
        /\ sigs' = [sigs EXCEPT ![n] = IF @ = ABSENT THEN type ELSE @]
        /\ currentFunc' = n
  BY DEF FunctionDefNode
<1> DEFINE new == [type |-> type, params |-> params]
<1>2. type \in Types /\ params \in Seq(Params)
  BY SeqOfIsSeq, MaxParamsAssumption, UsedTypesAssumption
<1>3. new \in Function /\ new.type = type
  BY <1>2 DEF Function
<1>4. funcs' = [funcs EXCEPT ![n] = new] /\ funcs \in [Names -> Function]
  BY <1>1 DEF Control, FuncsOK
<1> HIDE DEF new
<1>5. FuncsOK'
  BY <1>2, <1>3, <1>4 DEF Control, FuncsOK
<1>6. SigsTyped'
  BY <1>1, <1>2 DEF SigsTyped
<1>7. SigsOK'
  BY <1>1, <1>3, <1>4 DEF SigsOK, SigsTyped
<1> QED BY <1>1, <1>5, <1>6, <1>7

LEMMA FunctionDefNodeStep ==
    ASSUME Control, Results, SigsOK, SigsTyped, FunctionDefNode
    PROVE  Coherent'
<1>1. At("VectorNode")
  BY DEF FunctionDefNode
<1>2. /\ UNCHANGED <<isSuccess, operands>> /\ blocks' = <<Attached>> /\ insert' = 1
      /\ Call(<<Statement, Frame("FunctionDefNode"), Frame("VectorNode")>>)
      /\ \E s : scopeStack' = <<s>>
  BY DEF FunctionDefNode
<1>3. FuncsOK' /\ odd \subseteq odd'
  BY FunctionDefNodeTables
<1> DEFINE a == Statement
           b == Frame("FunctionDefNode")
           c == Frame("VectorNode")
           n == Len(blocks')
           q == <<c>> \o <<>>
           r == <<b>> \o q
           s == <<a>> \o r
<1>4. /\ FrameOK(a, n, funcs') /\ a.at = "statement"
      /\ FrameOK(b, n, funcs') /\ b.at = "FunctionDefNode"
      /\ FrameOK(c, n, funcs') /\ c.at = "VectorNode"
  BY PlainFrames
<1>5. blocks' \in Seq(Block) /\ n = 1
  BY <1>2 DEF Block, Attached, Ends
<1>6. stack' = <<a, b, c>> \o <<>>
  BY <1>1, <1>2, Bottom DEF Call
<1> HIDE DEF a, b, c, n
<1>7. a \in Frames /\ b \in Frames /\ c \in Frames
  BY <1>4 DEF FrameOK
<1>8. stack' = s
  <2>1. <<a, b, c>> \o <<>> = <<a>> \o (<<b>> \o (<<c>> \o <<>>))
    <3> DEFINE x == <<a, b, c>> \o <<>>
               y == <<a>> \o (<<b>> \o (<<c>> \o <<>>))
    <3>1. x \in Seq(Frames) /\ Len(x) = 3 /\ x[1] = a /\ x[2] = b /\ x[3] = c
      BY <1>7
    <3>2. y \in Seq(Frames) /\ Len(y) = 3 /\ y[1] = a /\ y[2] = b /\ y[3] = c
      BY <1>7
    <3> HIDE DEF x, y
    <3>3. \A i \in 1..Len(x) : x[i] = y[i]
      BY <3>1, <3>2
    <3>4. x = y
      BY <3>1, <3>2, <3>3, SeqEqual
    <3> QED BY <3>4 DEF x, y
  <2> QED BY <1>6, <2>1
<1>9. StackOK(q, n, funcs', sigs') /\ q # <<>> /\ Head(q) = c /\ q \in Seq(Frames)
  <2>1. CanCall(<<>>, c, sigs')
    BY <1>4 DEF CanCall
  <2>2. StackOK(<<>>, n, funcs', sigs')
    BY NoFrames
  <2>3. q \in Seq(Frames)
    BY <1>7
  <2> DEFINE e == <<>>
  <2>4. CanCall(e, c, sigs') /\ StackOK(e, n, funcs', sigs') /\ q = <<c>> \o e
    BY <2>1, <2>2
  <2> HIDE DEF e, q
  <2>5. StackOK(<<c>> \o e, n, funcs', sigs') /\ <<c>> \o e # <<>> /\ Head(<<c>> \o e) = c
    BY <1>4, <2>4, StackPush
  <2> QED BY <2>3, <2>4, <2>5
<1> HIDE DEF q
<1>10. StackOK(r, n, funcs', sigs') /\ r # <<>> /\ Head(r) = b /\ r \in Seq(Frames)
  <2>1. CanCall(q, b, sigs')
    BY <1>4, <1>9, LabelFacts DEF CanCall
  <2>2. r \in Seq(Frames)
    BY <1>7, <1>9
  <2>3. StackOK(<<b>> \o q, n, funcs', sigs') /\ <<b>> \o q # <<>> /\ Head(<<b>> \o q) = b
    BY <1>4, <1>9, <2>1, StackPush
  <2> QED BY <2>2, <2>3
<1> HIDE DEF r
<1>11. StackOK(s, n, funcs', sigs')
  <2>1. CanCall(r, a, sigs')
    BY <1>4, <1>10, LabelFacts DEF CanCall
  <2> QED BY <1>4, <1>10, <2>1, StackPush
<1>12. Control'
  BY <1>2, <1>3, <1>5, <1>8, <1>11 DEF Control, CallsOK, Running, n
<1>13. Scoped'
  <2>1. BlockCount(q) = 0
    <3>1. BlockCount(<<c>> \o <<>>) = BlockCount(<<>>) + Opens(c)
      BY <1>7, NoFrames, BlocksPush
    <3>2. Opens(c) = 0
      BY <1>4 DEF Opens, BlockLabels
    <3> QED BY <3>1, <3>2, NoFrames DEF q
  <2>2. BlockCount(r) = 0
    <3>1. BlockCount(<<b>> \o q) = BlockCount(q) + Opens(b)
      BY <1>7, <1>9, BlocksPush
    <3>2. Opens(b) = 0
      BY <1>4 DEF Opens, BlockLabels
    <3> QED BY <2>1, <3>1, <3>2 DEF r
  <2>3. BlockCount(s) = 0
    <3>1. BlockCount(<<a>> \o r) = BlockCount(r) + Opens(a)
      BY <1>7, <1>10, BlocksPush
    <3>2. Opens(a) = 0
      BY <1>4 DEF Opens, BlockLabels
    <3> QED BY <2>2, <3>1, <3>2
  <2>4. Len(scopeStack') = 1
    BY <1>2
  <2> HIDE DEF s
  <2> QED BY <1>8, <2>3, <2>4 DEF Scoped
<1>14. ASSUME isSuccess' PROVE OperandsOK(stack', operands', odd')
  <2>1. AtBase(<<>>, operands', odd')
    <3>1. AtBase(<<>>, operands, odd)
      BY <1>1, <1>2, <1>14, Bottom
    <3> QED BY <1>2, <1>3, <3>1, BaseKept
  <2>2. AtBase(q, operands', odd')
    <3>1. ~Held(c)
      BY <1>4 DEF Held
    <3> QED BY <1>7, <2>1, <3>1, NoFrames, BasePush DEF q
  <2>3. AtBase(r, operands', odd')
    <3>1. ~Held(b)
      BY <1>4 DEF Held
    <3> QED BY <1>7, <1>9, <2>2, <3>1, BasePush DEF r
  <2>4. a.at \notin AfterExpr
    BY <1>4, LabelFacts
  <2>5. OperandsOK(<<a>> \o r, operands', odd')
    BY <1>7, <1>10, <2>3, <2>4, BasePush
  <2> QED BY <1>8, <2>5
<1> QED BY <1>12, <1>13, <1>14 DEF Coherent, Results
-----------------------------------------------------------------------------
(* Types                                                                   *)

Typed ==
    /\ isSuccess \in BOOLEAN
    /\ operands \in Seq(Values)
    /\ ScopesTyped
    /\ currentFunc \in Names \cup {NULL}
    /\ insert \in 0..Len(blocks)
    /\ accesses \in SUBSET (Nat \X Nat)
    /\ nodes \in 0..MaxNodes
    /\ scope \in [Names -> Types \cup {ABSENT}]
    /\ SigsTyped
    /\ gone \in SUBSET Names
    /\ odd \in SUBSET Forms

\* The steps that look something up or store something, and the others.
Expressive ==
    \/ BinaryNode \/ EagerLhs \/ UnaryNode
    \/ PrintOrReturn \/ ExpressionWrapperNode \/ IfStatementNode \/ IfTrue \/ IfFalse
    \/ WhileStatementNode \/ WhileBody \/ DoWhileStatementNode \/ DoWhileBody
    \/ FunctionDefEnd \/ AssignmentNode \/ BlockStatementNode \/ BlockLoop
    \/ BlockStatement \/ Unwind

Taking ==
    \/ EagerRhs \/ ShortCircuitLhs \/ ShortCircuitRhs \/ UnaryOperand \/ FuncallArg
    \/ AssignmentRhs \/ IoPrintNode \/ ReturnNode \/ IfCond \/ WhileCond \/ DoWhileCond

LEMMA MovesSplit ==
    ASSUME Moves
    PROVE  Expressive \/ Taking \/ ConstantNode \/ VarNode \/ FuncallNode
BY DEF Moves, Expressions, Statements, Expressive, Taking

LEMMA ExpressiveKeep ==
    ASSUME Expressive
    PROVE  UNCHANGED <<operands, accesses, isSuccess>>
<1>1. CASE \/ BinaryNode \/ EagerLhs \/ UnaryNode
           \/ PrintOrReturn \/ ExpressionWrapperNode \/ IfStatementNode
  BY <1>1 DEF BinaryNode, EagerLhs, UnaryNode, PrintOrReturn, ExpressionWrapperNode,
     IfStatementNode, ir
<1>2. CASE \/ IfTrue \/ IfFalse \/ WhileStatementNode \/ WhileBody \/ DoWhileStatementNode
           \/ DoWhileBody \/ FunctionDefEnd
  BY <1>2 DEF IfTrue, IfFalse, WhileStatementNode, WhileBody, DoWhileStatementNode,
     DoWhileBody, FunctionDefEnd
<1>3. CASE AssignmentNode \/ BlockStatementNode \/ BlockLoop \/ BlockStatement \/ Unwind
  BY <1>3, Zenon DEF AssignmentNode, BlockStatementNode, BlockLoop, BlockStatement, Unwind, ir
<1> QED BY <1>1, <1>2, <1>3 DEF Expressive

LEMMA TakingFacts ==
    ASSUME Taking
    PROVE  isSuccess /\ UNCHANGED isSuccess /\ \E l \in AfterExpr : Resume(l)
BY Zenon DEF Taking, EagerRhs, ShortCircuitLhs, ShortCircuitRhs, UnaryOperand, FuncallArg,
   AssignmentRhs, IoPrintNode, ReturnNode, IfCond, WhileCond, DoWhileCond, Resume, AfterExpr

LEMMA OperandsTyped ==
    ASSUME Coherent, Coherent', Typed, Moves
    PROVE  operands' \in Seq(Values)
<1>1. isSuccess' => operands' \in Seq(Values)
  BY DEF Coherent, Results, OperandsOK
<1>2. CASE Expressive
  BY <1>2, ExpressiveKeep DEF Typed
<1>3. CASE Taking
  BY <1>1, <1>3, TakingFacts DEF Typed
<1>4. CASE ConstantNode
  <2>1. operands' = Append(operands, Constant(top.type)) /\ UNCHANGED isSuccess /\ At("expr")
    BY <1>4 DEF ConstantNode, push
  <2>2. Constant(top.type) \in Values
    BY <2>1, ExprFound, ValueFacts
  <2> QED BY <2>1, <2>2 DEF Typed
<1>5. CASE VarNode
  <2>1. /\ At("expr")
        /\ \/ isSuccess' = FALSE /\ UNCHANGED operands
           \/ /\ operands' = Append(operands, Value(toLLVMType(top.type), insert))
              /\ UNCHANGED isSuccess
    BY <1>5 DEF VarNode, push, Error
  <2>2. top.type \in Types /\ insert \in Nat
    BY <2>1, ExprFound
  <2>3. Value(toLLVMType(top.type), insert) \in Values
    BY <2>2, ValueFacts
  <2> QED BY <2>1, <2>3 DEF Typed
<1>6. CASE FuncallNode
  <2>1. /\ At("expr")
        /\ \/ isSuccess' = FALSE /\ UNCHANGED operands
           \/ \E n \in Names :
                /\ funcs[n] # NoFunction
                /\ operands' = Append(operands, Value(toLLVMType(funcs[n].type), insert))
                /\ UNCHANGED isSuccess
           \/ UNCHANGED <<operands, isSuccess>>
    BY <1>6 DEF FuncallNode, push, Error, Visit
  <2>0. operands \in Seq(Values)
    BY DEF Typed
  <2>2. insert \in Nat /\ FuncsOK
    BY <2>1, ExprFound DEF Coherent, Control
  <2>3. \A n \in Names : funcs[n] # NoFunction => Value(toLLVMType(funcs[n].type), insert) \in Values
    <3> SUFFICES ASSUME NEW n \in Names, funcs[n] # NoFunction
                 PROVE  Value(toLLVMType(funcs[n].type), insert) \in Values
      OBVIOUS
    <3> DEFINE t == funcs[n].type
    <3>1. t \in Types
      BY <2>2 DEF FuncsOK
    <3> HIDE DEF t
    <3>2. Value(toLLVMType(t), insert) \in Values
      BY <2>2, <3>1, ValueFacts
    <3> QED BY <3>2 DEF t
  <2>4. CASE UNCHANGED operands
    BY <2>0, <2>4
  <2>5. ASSUME NEW n \in Names, funcs[n] # NoFunction,
               operands' = Append(operands, Value(toLLVMType(funcs[n].type), insert))
        PROVE  operands' \in Seq(Values)
    <3> DEFINE v == Value(toLLVMType(funcs[n].type), insert)
    <3>1. v \in Values /\ operands' = Append(operands, v)
      BY <2>3, <2>5
    <3> HIDE DEF v
    <3> QED BY <2>0, <3>1
  <2> QED BY <2>1, <2>4, <2>5
<1> QED BY <1>2, <1>3, <1>4, <1>5, <1>6, MovesSplit

LEMMA SuccessTyped ==
    ASSUME Typed, Moves
    PROVE  isSuccess' \in BOOLEAN
<1>1. UNCHANGED isSuccess \/ isSuccess' = FALSE
  <2>1. CASE Expressive \/ Taking
    BY <2>1, ExpressiveKeep, TakingFacts
  <2>2. CASE ConstantNode \/ VarNode
    BY <2>2 DEF ConstantNode, VarNode, Error
  <2>3. CASE FuncallNode
    BY <2>3 DEF FuncallNode, Error
  <2> QED BY <2>1, <2>2, <2>3, MovesSplit
<1> QED BY <1>1 DEF Typed

LEMMA UsingTyped ==
    ASSUME Typed, insert \in Nat, NEW V, \A v \in V : v.block \in Nat
    PROVE  Using(V) \in SUBSET (Nat \X Nat)
BY DEF Using, Typed

LEMMA SlotFacts ==
    /\ \A v \in Slots : v.block \in Nat
    /\ \A v \in Values : v \in Slots
    /\ \A b : Value("none", b).block = b
BY DEF Slots, Values, NoSlot, Value

LEMMA AccessesTyped ==
    ASSUME Coherent, Typed, Moves
    PROVE  accesses' \in SUBSET (Nat \X Nat)
<1>1. CASE Expressive
  BY <1>1, ExpressiveKeep DEF Typed
<1>2. CASE ConstantNode
  BY <1>2 DEF ConstantNode, ir, Typed
<1>3. CASE FuncallNode
  BY <1>3 DEF FuncallNode, Typed
<1>4. CASE VarNode
  <2>1. PICK n \in Names : accesses' \in {accesses, Using({lookup(scopeStack, n)})}
    BY <1>4 DEF VarNode
  <2>2. \A v \in {lookup(scopeStack, n)} : v.block \in Nat
    BY LookupFacts, SlotFacts DEF Typed, ScopesTyped
  <2>3. insert \in Nat
    BY <1>4, ExprFound DEF VarNode
  <2> HIDE DEF Using
  <2>4. Using({lookup(scopeStack, n)}) \in SUBSET (Nat \X Nat)
    BY <2>2, <2>3, UsingTyped
  <2> QED BY <2>1, <2>4 DEF Typed
<1>5. CASE Taking
  <2>1. /\ topValue \in Values /\ topValue.block \in Nat /\ insert \in Nat
        /\ top \in Frames /\ top.slot \in Slots /\ top.slot.block \in Nat /\ top.bbs \in Seq(Nat)
    <3>1. PICK l \in AfterExpr : Resume(l)
      BY <1>5, TakingFacts
    <3>2. topValue \in Values /\ insert \in Nat /\ top \in Frames
      BY <3>1, ValueFound
    <3>3. top.slot \in Slots /\ top.bbs \in Seq(Nat)
      BY <3>2 DEF Frames
    <3> QED BY <3>2, <3>3, SlotFacts
  <2>2. Using({topValue}) \in SUBSET (Nat \X Nat)
    <3>1. \A v \in {topValue} : v.block \in Nat
      BY <2>1
    <3> QED BY <2>1, <3>1, UsingTyped
  <2>3. CASE \/ ShortCircuitLhs \/ UnaryOperand \/ IoPrintNode \/ ReturnNode
             \/ IfCond \/ WhileCond \/ DoWhileCond
    BY <2>2, <2>3 DEF ShortCircuitLhs, UnaryOperand, IoPrintNode, ReturnNode,
       IfCond, WhileCond, DoWhileCond
  <2>4. CASE EagerRhs
    <3> DEFINE V == {operands[Len(operands) - 1], topValue}
    <3>1. Resume("BinaryNode.rhs") /\ Held(top) /\ "BinaryNode.rhs" \in AfterExpr
      BY <2>4 DEF EagerRhs, Resume, At, top, Held, AfterExpr
    <3>2. operands[Len(operands) - 1] \in Values
      BY <3>1, ValueFound
    <3>3. \A v \in V : v.block \in Nat
      BY <2>1, <3>2, SlotFacts
    <3>4. accesses' = Using(V)
      BY <2>4 DEF EagerRhs
    <3> HIDE DEF V
    <3> QED BY <2>1, <3>3, <3>4, UsingTyped
  <2>5. CASE ShortCircuitRhs
    <3> DEFINE V == {topValue, top.slot}
               m == top.bbs[1]
    <3>1. \A v \in V : v.block \in Nat
      BY <2>1
    <3>2. accesses' = Using(V) \cup ({<<top.slot.block, m>>} \ {<<1, m>>})
      BY <2>5 DEF ShortCircuitRhs
    <3>3. m \in Nat
      <4>1. BlocksGrow /\ insert' = m
        BY <2>5, ShortCircuitRhsBlocks DEF Coherent, ShortCircuitRhs
      <4> QED BY <4>1 DEF BlocksGrow
    <3> HIDE DEF V, m
    <3>4. Using(V) \in SUBSET (Nat \X Nat)
      BY <2>1, <3>1, UsingTyped
    <3> QED BY <2>1, <3>2, <3>3, <3>4
  <2>6. CASE FuncallArg
    <3> DEFINE idx == Len(funcs[top.name].params) - Len(top.args)
               arg == cast(topValue, funcs[top.name].params[idx].type)
               bbs == Append(top.bbs, arg.block)
               V == {topValue} \cup {Value("none", bbs[i]) : i \in DOMAIN bbs}
    <3>1. bbs \in Seq(Nat)
      <4>1. arg.block \in Nat
        BY <2>1, Zenon DEF cast, Value, Values
      <4> HIDE DEF arg
      <4> QED BY <2>1, <4>1
    <3>2. accesses' \in {Using({topValue}), Using(V)}
      BY <2>6, Zenon DEF FuncallArg
    <3> HIDE DEF bbs
    <3>3. \A v \in V : v.block \in Nat
      <4>1. \A i \in DOMAIN bbs : bbs[i] \in Nat
        BY <3>1
      <4> QED BY <2>1, <4>1, SlotFacts
    <3> HIDE DEF V
    <3>4. Using(V) \in SUBSET (Nat \X Nat)
      BY <2>1, <3>3, UsingTyped
    <3> QED BY <2>2, <3>2, <3>4
  <2>7. CASE AssignmentRhs
    <3> DEFINE slot == IF top.slot = NoSlot THEN Value(toLLVMType(top.other), insert) ELSE top.slot
               V == {topValue, slot}
    <3>1. slot.block \in Nat
      BY <2>1 DEF Value
    <3>2. accesses' = Using(V)
      BY <2>7 DEF AssignmentRhs
    <3> HIDE DEF slot
    <3>3. \A v \in V : v.block \in Nat
      BY <2>1, <3>1
    <3> HIDE DEF V
    <3> QED BY <2>1, <3>2, <3>3, UsingTyped
  <2> QED BY <1>5, <2>3, <2>4, <2>5, <2>6, <2>7 DEF Taking
<1> QED BY <1>1, <1>2, <1>3, <1>4, <1>5, MovesSplit

\* The steps that a name is bound or unbound in.
Binding == AssignmentRhs \/ BlockStatementNode \/ BlockLoop \/ BlockStatement \/ Unwind

LEMMA NamesKept ==
    ASSUME Moves, ~Binding
    PROVE  UNCHANGED <<scopeStack, scope, gone>>
<1>1. CASE Expressions
  BY <1>1, Zenon DEF Expressions, ConstantNode, VarNode, BinaryNode, EagerLhs, EagerRhs,
     ShortCircuitLhs, ShortCircuitRhs, UnaryNode, UnaryOperand, FuncallNode, FuncallArg,
     syms, ast, sameTables
<1>2. CASE Statements
  BY <1>2 DEF Statements, Binding, AssignmentNode, PrintOrReturn, IoPrintNode,
     ReturnNode, ExpressionWrapperNode, IfStatementNode, IfCond, IfTrue, IfFalse,
     WhileStatementNode, WhileCond, WhileBody, DoWhileStatementNode, DoWhileBody, DoWhileCond,
     syms, ast, sameTables
<1>3. CASE FunctionDefEnd
  BY <1>3 DEF FunctionDefEnd, syms, ast
<1> QED BY <1>1, <1>2, <1>3, Zenon DEF Moves, Binding

\* What a binding step does to the names.
LEMMA AssignmentRhsNames ==
    ASSUME Coherent, ScopesTyped, AssignmentRhs
    PROVE  \E slot \in Values :
             /\ top.name \in Names /\ top.other \in Types /\ top \in Frames
             /\ slot = (IF top.slot = NoSlot THEN Value(toLLVMType(top.other), insert) ELSE top.slot)
             /\ scopeStack # <<>>
             /\ top.slot = NoSlot => scopeStack' = declare(scopeStack, top.name, slot)
             /\ top.slot # NoSlot => scopeStack' = scopeStack
             /\ scope' = [scope EXCEPT ![top.name] = top.other]
             /\ UNCHANGED gone
<1> DEFINE slot == IF top.slot = NoSlot THEN Value(toLLVMType(top.other), insert) ELSE top.slot
<1>1. Resume("AssignmentNode") /\ top.at = "AssignmentNode" /\ "AssignmentNode" \in AfterExpr
  BY DEF AssignmentRhs, Resume, At, top, AfterExpr
<1>2. /\ top \in Frames /\ FrameOK(top, Len(blocks), funcs) /\ insert \in Nat
      /\ Len(scopeStack) = 1 + BlockCount(Tail(stack)) /\ BlockCount(Tail(stack)) \in Nat
  BY <1>1, ValueFound
<1>3. top.name \in Names /\ top.other \in Types /\ top.slot \in Slots
  BY <1>1, <1>2 DEF FrameOK, Frames
<1>4. slot \in Values
  BY <1>2, <1>3, ValueFacts DEF Slots
<1>5. scopeStack # <<>>
  <2>1. Len(scopeStack) # 0
    BY <1>2
  <2> QED BY <2>1 DEF ScopesTyped
<1>6. /\ scopeStack' = IF top.slot = NoSlot THEN declare(scopeStack, top.name, slot) ELSE scopeStack
      /\ scope' = [scope EXCEPT ![top.name] = top.other]
      /\ UNCHANGED gone
  BY DEF AssignmentRhs
<1> HIDE DEF slot
<1>7. slot = (IF top.slot = NoSlot THEN Value(toLLVMType(top.other), insert) ELSE top.slot)
  BY DEF slot
<1> QED BY <1>2, <1>3, <1>4, <1>5, <1>6, <1>7

LEMMA ScopesStayTyped ==
    ASSUME Coherent, Typed, Moves
    PROVE  ScopesTyped' /\ scope' \in [Names -> Types \cup {ABSENT}] /\ gone' \in SUBSET Names
<1> USE DEF ScopesTyped
<1>1. CASE ~Binding
  BY <1>1, NamesKept DEF Typed
<1>2. CASE AssignmentRhs
  <2>1. PICK slot \in Values :
             /\ top.name \in Names /\ top.other \in Types
             /\ scopeStack # <<>>
             /\ top.slot = NoSlot => scopeStack' = declare(scopeStack, top.name, slot)
             /\ top.slot # NoSlot => scopeStack' = scopeStack
             /\ scope' = [scope EXCEPT ![top.name] = top.other]
             /\ UNCHANGED gone
    BY <1>2, AssignmentRhsNames DEF Typed
  <2>2. declare(scopeStack, top.name, slot) \in Seq([Names -> Slots])
    BY <2>1, DeclareFacts, SlotFacts DEF Typed
  <2> QED BY <2>1, <2>2 DEF Typed
<1>3. CASE BlockStatementNode
  <2>1. EmptyScope \in [Names -> Slots]
    BY DEF EmptyScope, Slots
  <2>2. scopeStack' = Append(scopeStack, EmptyScope) /\ UNCHANGED <<scope, gone>>
    BY <1>3 DEF BlockStatementNode, sameTables
  <2> QED BY <2>1, <2>2 DEF Typed
<1>4. CASE BlockLoop \/ BlockStatement \/ Unwind
  <2>0. Leaving \in SUBSET Names
    BY DEF Leaving
  <2>1. scopeStack' # scopeStack => scopeStack' = PopScope /\ stack # <<>> /\ top.at \in BlockLabels
    BY <1>4 DEF BlockLoop, BlockStatement, Unwind, Resume, At, top, BlockLabels
  <2>2. ScopesTyped'
    BY <2>1, BlockPops DEF Typed
  <2>3. gone' \in SUBSET Names
    BY <1>4, <2>0 DEF BlockLoop, BlockStatement, Unwind, Typed, ast
  <2>4. scope' \in [Names -> Types \cup {ABSENT}]
    <3>1. CASE BlockLoop \/ Unwind
      BY <3>1 DEF BlockLoop, Unwind, Typed
    <3>2. CASE BlockStatement
      <4>1. \/ UNCHANGED scope
            \/ \E cut \in SUBSET Names : \E new \in [cut -> UsedTypes] :
                 scope' = [n \in Names |-> IF n \in cut THEN new[n] ELSE scope[n]]
        BY <3>2 DEF BlockStatement, ast
      <4> QED BY <4>1, UsedTypesAssumption DEF Typed
    <3> QED BY <1>4, <3>1, <3>2
  <2> QED BY <2>2, <2>3, <2>4
<1> QED BY <1>1, <1>2, <1>3, <1>4 DEF Binding

LEMMA OddTyped ==
    ASSUME Typed, Moves
    PROVE  odd' \in SUBSET Forms
<1>1. CASE BinaryNode
  BY <1>1 DEF BinaryNode, Odd, Typed
<1>2. CASE AssignmentNode
  BY <1>2, Zenon DEF AssignmentNode, Odd, Typed
<1>3. CASE Expressions /\ ~BinaryNode
  BY <1>3, Zenon DEF Expressions, ConstantNode, VarNode, EagerLhs, EagerRhs,
     ShortCircuitLhs, ShortCircuitRhs, UnaryNode, UnaryOperand, FuncallNode, FuncallArg,
     ast, sameTables, Typed
<1>4. CASE Statements /\ ~AssignmentNode
  BY <1>4 DEF Statements, AssignmentRhs, PrintOrReturn, IoPrintNode, BlockStatementNode,
     BlockLoop, BlockStatement,
     ReturnNode, ExpressionWrapperNode, IfStatementNode, IfCond, IfTrue, IfFalse,
     WhileStatementNode, WhileCond, WhileBody, DoWhileStatementNode, DoWhileBody, DoWhileCond,
     ast, sameTables, Typed
<1>5. CASE FunctionDefEnd \/ Unwind
  BY <1>5 DEF FunctionDefEnd, Unwind, ast, Typed
<1> QED BY <1>1, <1>2, <1>3, <1>4, <1>5 DEF Moves

LEMMA NodesTyped ==
    ASSUME Typed, Moves
    PROVE  nodes' \in 0..MaxNodes
<1>0. nodes \in 0..MaxNodes /\ MaxNodes \in Nat
  BY MaxNodesAssumption DEF Typed
<1>1. Spend => nodes' \in 0..MaxNodes
  BY <1>0 DEF Spend
<1>2. CASE BlockStatement
  <2>1. \/ UNCHANGED nodes
        \/ \E cut \in SUBSET Names : Cardinality(cut) <= nodes /\ nodes' = nodes - Cardinality(cut)
    BY <1>2 DEF BlockStatement, ast
  <2>2. \A cut \in SUBSET Names : Cardinality(cut) \in Nat
    BY IdentifiersAssumption, FS_Subset, FS_CardinalityType
  <2> QED BY <1>0, <2>1, <2>2
<1>3. CASE ~BlockStatement
  <2>1. Spend \/ UNCHANGED nodes
    <3>1. CASE Expressions
      BY <3>1, Zenon DEF Expressions, ConstantNode, VarNode, BinaryNode, EagerLhs, EagerRhs,
         ShortCircuitLhs, ShortCircuitRhs, UnaryNode, UnaryOperand, FuncallNode, FuncallArg,
         ast, Visit
    <3>2. CASE Statements
      BY <1>3, <3>2 DEF Statements, AssignmentNode, AssignmentRhs, PrintOrReturn, IoPrintNode,
         ReturnNode, ExpressionWrapperNode, BlockStatementNode, BlockLoop,
         IfStatementNode, IfCond, IfTrue, IfFalse, WhileStatementNode, WhileCond, WhileBody,
         DoWhileStatementNode, DoWhileBody, DoWhileCond, ast, Visit
    <3>3. CASE FunctionDefEnd \/ Unwind
      BY <3>3 DEF FunctionDefEnd, Unwind, ast
    <3> QED BY <3>1, <3>2, <3>3, Zenon DEF Moves
  <2> QED BY <1>0, <1>1, <2>1
<1> QED BY <1>2, <1>3
-----------------------------------------------------------------------------
(* Every reachable state                                                   *)

\* Before the first function there are no scopes yet.
Inv == Control /\ Results /\ (blocks # <<>> => Scoped) /\ SigsOK /\ Typed

LEMMA MovesBlocks ==
    ASSUME Control, Moves
    PROVE  BlocksGrow
<1>1. CASE Emits
  BY <1>1, EmitsStep
<1>2. CASE Branches
  BY <1>2, BranchesBlocks
<1>3. CASE IfCond \/ WhileStatementNode \/ DoWhileStatementNode
  BY <1>3, MakersBlocks
<1>4. CASE ShortCircuitLhs \/ ShortCircuitRhs
  BY <1>4, ShortCircuitLhsBlocks, ShortCircuitRhsBlocks
<1> QED BY <1>1, <1>2, <1>3, <1>4 DEF Moves, Expressions, Statements, Emits, Branches

LEMMA InvMoves ==
    ASSUME Inv, Moves
    PROVE  Inv'
<1>1. Coherent
  <2>1. stack # <<>> /\ ~At("VectorNode")
    BY MovesAreRunning
  <2>2. insert \in 1..Len(blocks)
    BY <2>1 DEF Inv, Control, Running
  <2>3. blocks # <<>>
    BY <2>2 DEF Inv, Control
  <2> QED BY <2>3 DEF Inv, Coherent
<1>2. Coherent'
  BY <1>1, MovesStep DEF Inv, Typed
<1>3. UNCHANGED <<funcs, sigs, currentFunc>> /\ odd \subseteq odd'
  BY MovesKeep
<1>4. SigsOK'
  BY <1>3 DEF Inv, SigsOK
<1>5. SigsTyped' /\ currentFunc' \in Names \cup {NULL}
  BY <1>3 DEF Inv, Typed, SigsTyped
<1>6. insert' \in 0..Len(blocks')
  BY MovesBlocks DEF Inv, BlocksGrow
<1>7. operands' \in Seq(Values) /\ isSuccess' \in BOOLEAN
  BY <1>1, <1>2, OperandsTyped, SuccessTyped DEF Inv
<1>8. accesses' \in SUBSET (Nat \X Nat)
  BY <1>1, AccessesTyped DEF Inv
<1>9. ScopesTyped' /\ scope' \in [Names -> Types \cup {ABSENT}] /\ gone' \in SUBSET Names
  BY <1>1, ScopesStayTyped DEF Inv
<1>10. odd' \in SUBSET Forms /\ nodes' \in 0..MaxNodes
  BY OddTyped, NodesTyped DEF Inv
<1>11. Typed'
  BY <1>5, <1>6, <1>7, <1>8, <1>9, <1>10 DEF Typed
<1> QED BY <1>2, <1>4, <1>11 DEF Inv, Coherent

LEMMA FunctionDefNodeTypes ==
    ASSUME Typed, Coherent', FunctionDefNode, SigsTyped', currentFunc' \in Names
    PROVE  Typed'
<1>1. PICK n \in Names, type \in UsedTypes, params \in SeqOf(Params, MaxParams) :
        /\ \E met : met \subseteq Forms /\ odd' = odd \cup met
        /\ scopeStack' =
             <<[m \in Names |-> IF Named(params, m) = {} THEN NoSlot
                                ELSE Constant(params[Last(Named(params, m))].type)]>>
        /\ scope' = [m \in Names |-> IF Named(params, m) = {} THEN ABSENT
                                     ELSE params[First(Named(params, m))].type]
  BY DEF FunctionDefNode
<1>2. UNCHANGED <<isSuccess, operands>> /\ Spend /\ insert' = 1 /\ accesses' = {} /\ gone' = {}
      /\ blocks' = <<Attached>>
  BY DEF FunctionDefNode
<1>3. params \in Seq(Params) /\ Len(params) \in Nat /\ DOMAIN params = 1..Len(params)
  BY SeqOfIsSeq, MaxParamsAssumption
<1>4. ASSUME NEW m \in Names, Named(params, m) # {}
      PROVE  /\ params[Last(Named(params, m))].type \in Types
             /\ params[First(Named(params, m))].type \in Types
  <2> DEFINE I == Named(params, m)
  <2>1. I \in SUBSET (1..Len(params)) /\ I # {}
    BY <1>3, <1>4 DEF Named
  <2> HIDE DEF I
  <2>2. \E i \in I : \A j \in I : j <= i
    BY <1>3, <2>1, LastPlace
  <2>3. \E i \in I : \A j \in I : i <= j
    BY <1>3, <2>1, FirstPlace
  <2>4. Last(I) \in I
    <3>1. \E i \in I : \A j \in I : i >= j
      BY <2>1, <2>2, <1>3
    <3> QED BY <3>1 DEF Last
  <2>5. First(I) \in I
    BY <2>3 DEF First
  <2>6. \A i \in I : params[i].type \in Types
    <3>1. \A p \in Params : p.type \in Types
      BY UsedTypesAssumption DEF Params
    <3>2. \A i \in 1..Len(params) : params[i] \in Params
      BY <1>3
    <3> QED BY <2>1, <3>1, <3>2
  <2> QED BY <2>4, <2>5, <2>6 DEF I
<1>5. ScopesTyped'
  <2> DEFINE s == [m \in Names |-> IF Named(params, m) = {} THEN NoSlot
                                   ELSE Constant(params[Last(Named(params, m))].type)]
  <2>1. ASSUME NEW m \in Names PROVE s[m] \in Slots
    <3>1. CASE Named(params, m) = {}
      BY <3>1 DEF Slots
    <3>2. CASE Named(params, m) # {}
      <4> DEFINE t == params[Last(Named(params, m))].type
      <4>1. t \in Types /\ s[m] = Constant(t)
        BY <1>4, <3>2
      <4> HIDE DEF t, s
      <4>2. Constant(t) \in Values
        BY <4>1, ValueFacts
      <4> QED BY <4>1, <4>2, SlotFacts
    <3> QED BY <3>1, <3>2
  <2>2. s \in [Names -> Slots]
    BY <2>1
  <2>3. scopeStack' = <<s>>
    BY <1>1
  <2> HIDE DEF s
  <2> QED BY <2>2, <2>3 DEF ScopesTyped
<1>6. scope' \in [Names -> Types \cup {ABSENT}]
  BY <1>1, <1>4
<1>7. odd' \in SUBSET Forms /\ nodes' \in 0..MaxNodes
  BY <1>1, <1>2, MaxNodesAssumption DEF Typed, Spend
<1>8. insert' \in 0..Len(blocks')
  BY <1>2
<1> QED BY <1>2, <1>5, <1>6, <1>7, <1>8 DEF Typed

LEMMA InvFunctionDefNode ==
    ASSUME Inv, FunctionDefNode
    PROVE  Inv'
<1>1. FuncsOK' /\ SigsOK' /\ SigsTyped' /\ currentFunc' \in Names
  BY FunctionDefNodeTables DEF Inv, Typed
<1>2. Coherent'
  BY FunctionDefNodeStep DEF Inv, Typed
<1>3. Typed'
  BY <1>1, <1>2, FunctionDefNodeTypes DEF Inv
<1> QED BY <1>1, <1>2, <1>3 DEF Inv, Coherent

LEMMA InvVectorNodeEnd ==
    ASSUME Inv, VectorNodeEnd
    PROVE  Inv'
<1>1. Control' /\ Results' /\ BlockCount(stack') = BlockCount(stack)
  BY VectorNodeEndStep DEF Inv
<1>2. UNCHANGED <<isSuccess, operands, scopeStack, funcs, currentFunc, blocks, insert, accesses,
                  scope, sigs, nodes, gone, odd>>
  BY DEF VectorNodeEnd, syms, ir, ast
<1>3. blocks' # <<>> => Scoped'
  BY <1>1, <1>2 DEF Inv, Scoped
<1>4. SigsOK' /\ Typed'
  BY <1>2 DEF Inv, SigsOK, Typed, ScopesTyped, SigsTyped
<1> QED BY <1>1, <1>3, <1>4 DEF Inv

LEMMA InvStutters ==
    ASSUME Inv, UNCHANGED vars
    PROVE  Inv'
BY DEF Inv, vars, syms, ir, ast, Control, FuncsOK, CallsOK, Running, At, Results, Scoped, SigsOK,
   Typed, ScopesTyped, SigsTyped

LEMMA InvInitially ==
    ASSUME Init
    PROVE  Inv
<1> USE DEF Init
<1> DEFINE e == <<>>
           f == Frame("VectorNode")
<1>1. FrameOK(f, Len(blocks), funcs) /\ f.at = "VectorNode"
  BY PlainFrames
<1>2. CanCall(e, f, sigs) /\ StackOK(e, Len(blocks), funcs, sigs) /\ ~Held(f)
      /\ AtBase(e, operands, odd) /\ e \in Seq(Frames)
  <2>1. AtBase(e, operands, odd)
    BY NoFrames DEF AtBase, HeldTyped, Pending
  <2> QED BY <1>1, <2>1, NoFrames DEF CanCall, Held
<1>3. stack = <<f>> \o e /\ f \in Frames
  BY <1>1 DEF FrameOK
<1>4. top.at = "VectorNode"
  BY <1>1 DEF top
<1> HIDE DEF e, f
<1>5. StackOK(<<f>> \o e, Len(blocks), funcs, sigs)
  BY <1>1, <1>2, StackPush
<1>6. Control
  <2>1. funcs \in [Names -> Function]
    BY DEF NoFunction, Function
  <2>2. CallsOK
    BY <1>3, <1>5 DEF CallsOK
  <2>3. Running
    BY <1>4 DEF Running, At, top
  <2>4. FuncsOK
    BY <2>1 DEF FuncsOK
  <2>5. blocks \in Seq(Block)
    OBVIOUS
  <2> QED BY <2>2, <2>3, <2>4, <2>5 DEF Control
<1>7. Results
  <2>1. f.at \notin AfterExpr
    BY <1>1 DEF AfterExpr
  <2>2. OperandsOK(<<f>> \o e, operands, odd)
    BY <1>2, <1>3, <2>1, BasePush
  <2> QED BY <1>3, <2>2 DEF Results
<1>8. SigsOK /\ blocks = <<>>
  BY DEF SigsOK
<1>9. Typed
  BY MaxNodesAssumption DEF Typed, ScopesTyped, SigsTyped
<1> QED BY <1>6, <1>7, <1>8, <1>9 DEF Inv

\* The invariant that the others follow from.
THEOREM GeneratorInvariance == Spec => []Inv
<1>1. Init => Inv
  BY InvInitially
<1>2. Inv /\ [Next]_vars => Inv'
  BY InvMoves, InvFunctionDefNode, InvVectorNodeEnd, InvStutters
     DEF Next, Moves, Functions, Done
<1> QED BY <1>1, <1>2, PTL DEF Spec

LEMMA InvIsTyped ==
    ASSUME Inv
    PROVE  TypeOK
<1>1. ScopesTyped /\ SigsTyped /\ blocks \in Seq(Block) /\ FuncsOK
  BY DEF Inv, Typed, Control
<1>2. \A n \in Names : funcs[n] # NoFunction =>
         funcs[n].type \in Types /\ funcs[n].params \in Seq(Params)
  BY <1>1 DEF FuncsOK, Function
<1>3. scopeStack \in Seq([Names -> Values \cup {NoSlot}])
  BY <1>1 DEF ScopesTyped, Slots
<1>4. blocks \in Seq([attached : BOOLEAN, end : Ends, succs : SUBSET Nat])
  BY <1>1 DEF Block
<1>5. \A a \in accesses : a \in Nat \X Nat
  BY DEF Inv, Typed
<1> QED BY <1>1, <1>2, <1>3, <1>4, <1>5 DEF Inv, Typed, SigsTyped, TypeOK

LEMMA InvBalances ==
    ASSUME Inv
    PROVE  OperandsBalanced
<1>1. HeldOperands = Pending(stack)
  BY DEF HeldOperands, Pending, Held
<1>2. (stack # <<>> /\ top.at \in AfterExpr) <=> Waiting(stack)
  BY DEF Waiting, top
<1> QED BY <1>1, <1>2 DEF Inv, Results, OperandsOK, HeldCount, OperandsBalanced

\* Every member of the code generator holds a value of its C++ type, whichever
\* AST it visits.
THEOREM CodegenTypes == Spec => []TypeOK
BY GeneratorInvariance, InvIsTyped, PTL

\* The operand stack holds the pending left operands and the result that the
\* active handler waits for, and nothing else: visit() never leaves a value
\* behind, nor takes one that is not its own.
THEOREM Balance == Spec => []OperandsBalanced
BY GeneratorInvariance, InvBalances, PTL

\* Besides the scope of the parameters, scopeStack has one for each block being
\* visited, also while an error unwinds.
THEOREM Scopes == Spec => []ScopesMatchBlocks
<1>1. InBlock = BlockFrames(stack)
  BY DEF InBlock, BlockFrames, BlockLabels
<1>2. Inv => ScopesMatchBlocks
  BY <1>1 DEF Inv, Scoped, BlockCount, ScopesMatchBlocks
<1> QED BY <1>2, GeneratorInvariance, PTL

\* The value of an expression has the LLVM type of the type that the parser gave
\* the expression, as long as both resolve functions and parameters alike.
THEOREM ResultTypes == Spec => []ResultHasItsType
<1>1. Inv => ResultHasItsType
  BY DEF Inv, Results, OperandsOK, Waiting, Known, top, topValue, ResultHasItsType
<1> QED BY <1>1, GeneratorInvariance, PTL
-----------------------------------------------------------------------------
(* Names                                                                   *)

Bound(n) == \E i \in 1..Len(scopeStack) : scopeStack[i][n] # NoSlot

\* What the parser and the code generator know of a name.
NamesAgree ==
    \A n \in Names :
      /\ \A i \in 1..Len(scopeStack) : scopeStack[i][n] # NoSlot =>
            scope[n] # ABSENT /\ scopeStack[i][n].type = toLLVMType(scope[n])
      /\ scope[n] # ABSENT => n \in gone \/ Bound(n)

\* While the right-hand side is visited, what was found for the left-hand side
\* stays true.
Assigns(f, scopes, types) ==
    f.at = "AssignmentNode" =>
        /\ types[f.name] \in {f.other, ABSENT}
        /\ f.slot # NoSlot => \E i \in 1..Len(scopes) : scopes[i][f.name] # NoSlot
AssignsAll(s, scopes, types) == \A k \in 1..Len(s) : Assigns(s[k], scopes, types)

Unique == "duplicateParams" \notin odd

NamesOK ==
    isSuccess /\ Unique => NamesAgree /\ AssignsAll(stack, scopeStack, scope)

\* The frames after a step are those of the callers and up to two more.
Replaces(s, r) ==
    \/ r = s
    \/ \E a : a.at # "AssignmentNode" /\ r = <<a>> \o s
    \/ \E a, b : a.at # "AssignmentNode" /\ b.at # "AssignmentNode" /\ r = <<a, b>> \o s

LEMMA TwoFrames ==
    ASSUME NEW s \in Seq(Frames), NEW a, NEW b, NEW r, r = <<a, b>> \o s
    PROVE  \A k \in 1..Len(r) : r[k] = a \/ r[k] = b \/ \E j \in 1..Len(s) : r[k] = s[j]
<1> DEFINE S == Frames \cup {a, b}
<1>1. s \in Seq(S) /\ a \in S /\ b \in S
  <2>1. Frames \subseteq S
    OBVIOUS
  <2> QED BY <2>1
<1> HIDE DEF S
<1>2. Len(r) = Len(s) + 2 /\ r[1] = a /\ r[2] = b /\ Len(s) \in Nat
      /\ \A j \in 1..Len(s) : r[j + 2] = s[j]
  BY <1>1
<1>3. \A k \in 1..Len(r) : k = 1 \/ k = 2 \/ (k - 2 \in 1..Len(s) /\ r[k] = s[k - 2])
  <2> TAKE k \in 1..Len(r)
  <2>1. CASE k # 1 /\ k # 2
    <3>1. k - 2 \in 1..Len(s) /\ (k - 2) + 2 = k
      BY <1>2, <2>1
    <3> QED BY <1>2, <3>1
  <2> QED BY <2>1
<1> QED BY <1>2, <1>3

LEMMA ReplacedFrames ==
    ASSUME NEW s \in Seq(Frames), NEW r, Replaces(s, r)
    PROVE  \A k \in 1..Len(r) : r[k].at = "AssignmentNode" => \E j \in 1..Len(s) : r[k] = s[j]
<1>1. CASE r = s
  BY <1>1
<1>2. CASE \E a : a.at # "AssignmentNode" /\ r = <<a>> \o s
  <2>1. PICK a : a.at # "AssignmentNode" /\ r = <<a>> \o s
    BY <1>2
  <2> DEFINE S == Frames \cup {a}
  <2>2. s \in Seq(S) /\ a \in S
    <3>1. Frames \subseteq S
      OBVIOUS
    <3> QED BY <3>1
  <2> HIDE DEF S
  <2>3. Len(r) = Len(s) + 1 /\ r[1] = a /\ Len(s) \in Nat
        /\ \A j \in 1..Len(s) : r[j + 1] = s[j]
    BY <2>1, <2>2
  <2>4. \A k \in 1..Len(r) : k = 1 \/ (k - 1 \in 1..Len(s) /\ r[k] = s[k - 1])
    <3> TAKE k \in 1..Len(r)
    <3>1. CASE k # 1
      <4>1. k - 1 \in 1..Len(s) /\ (k - 1) + 1 = k
        BY <2>3, <3>1
      <4> QED BY <2>3, <4>1
    <3> QED BY <3>1
  <2> QED BY <2>1, <2>3, <2>4
<1>3. CASE \E a, b : a.at # "AssignmentNode" /\ b.at # "AssignmentNode" /\ r = <<a, b>> \o s
  BY <1>3, TwoFrames
<1> QED BY <1>1, <1>2, <1>3 DEF Replaces

LEMMA FreshFrames ==
    /\ \A l : Frame(l).at = l
    /\ \A t : Expr(t).at = "expr"
    /\ \A l, t : Await(l, t).at = l
    /\ Statement.at = "statement" /\ Body.at = "statement"
    /\ \A n, args, bbs : NextArg(n, args, bbs) = <<Expr(Head(args)), ArgFrame(n, args, bbs)>>
    /\ \A n, args, bbs : ArgFrame(n, args, bbs).at = "FuncallNode"
<1>1. \A l : Frame(l).at = l
  BY DEF Frame
<1>2. /\ \A t : Expr(t).at = "expr"
      /\ \A l, t : Await(l, t).at = l
      /\ Statement.at = "statement" /\ Body.at = "statement"
  BY DEF Frame, Expr, Await, Statement, Body
<1>3. \A n, args, bbs : NextArg(n, args, bbs) = <<Expr(Head(args)), ArgFrame(n, args, bbs)>>
  BY DEF NextArg, ArgFrame
<1>4. \A n, args, bbs : ArgFrame(n, args, bbs).at = "FuncallNode"
  BY DEF ArgFrame, Await, Frame
<1> QED BY <1>1, <1>2, <1>3, <1>4

\* A step that calls two handlers, of which none is for an assignment.
LEMMA FreshCalls ==
    ASSUME NEW a, NEW b, a.at # "AssignmentNode", b.at # "AssignmentNode", Call(<<a, b>>)
    PROVE  Replaces(Tail(stack), stack')
BY DEF Replaces, Call

LEMMA ArgsReplace ==
    ASSUME \E n, args, bbs : Call(NextArg(n, args, bbs))
    PROVE  Replaces(Tail(stack), stack')
<1>1. PICK n, args, bbs : Call(NextArg(n, args, bbs))
  OBVIOUS
<1> DEFINE a == Expr(Head(args))
           b == ArgFrame(n, args, bbs)
<1>2. a.at = "expr" /\ b.at = "FuncallNode"
  BY FreshFrames
<1>3. Call(<<a, b>>)
  BY <1>1 DEF NextArg, ArgFrame
<1> HIDE DEF a, b
<1> QED BY <1>2, <1>3, FreshCalls

LEMMA ExpressionsReplace ==
    ASSUME Expressions
    PROVE  Replaces(Tail(stack), stack')
<1>1. CASE ConstantNode \/ VarNode \/ EagerRhs \/ ShortCircuitRhs \/ UnaryOperand
  <2>1. Return
    BY <1>1 DEF ConstantNode, VarNode, EagerRhs, ShortCircuitRhs, UnaryOperand
  <2> QED BY <2>1 DEF Return, Replaces
<1>2. CASE BinaryNode
  <2>1. PICK op \in Operations(top.type) :
        /\ Call(<<Expr(op.lhs), [Await("BinaryNode.lhs", op.lhs) EXCEPT !.kind = op.kind,
                                                                       !.other = op.rhs]>>)
        /\ Odd("mixedEquality", (op.lhs = "BOOL") # (op.rhs = "BOOL"))
    BY <1>2, Zenon DEF BinaryNode
  <2> DEFINE a == Expr(op.lhs)
             b == [Await("BinaryNode.lhs", op.lhs) EXCEPT !.kind = op.kind, !.other = op.rhs]
  <2>2. a.at = "expr"
    BY FreshFrames
  <2>3. b.at = "BinaryNode.lhs"
    BY DEF Await, Frame
  <2> HIDE DEF a, b
  <2>4. Call(<<a, b>>)
    BY <2>1 DEF a, b
  <2> QED BY <2>2, <2>3, <2>4, FreshCalls
<1>3. CASE EagerLhs
  <2> DEFINE a == Expr(top.other)
             b == [Await("BinaryNode.rhs", top.other) EXCEPT !.kind = top.kind, !.other = top.type]
  <2>1. Call(<<a, b>>)
    BY <1>3 DEF EagerLhs
  <2>2. a.at = "expr"
    BY FreshFrames
  <2>3. b.at = "BinaryNode.rhs"
    BY DEF Await, Frame
  <2> HIDE DEF a, b
  <2> QED BY <2>1, <2>2, <2>3, FreshCalls
<1>7. CASE ShortCircuitLhs
  <2> DEFINE a == Expr(top.other)
             b == [Await("BinaryNode.rhs", top.other) EXCEPT
                     !.kind = top.kind, !.slot = Value("i1", insert), !.bbs = <<Len(blocks) + 2>>]
  <2>1. Call(<<a, b>>)
    BY <1>7 DEF ShortCircuitLhs
  <2>2. a.at = "expr"
    BY FreshFrames
  <2>3. b.at = "BinaryNode.rhs"
    BY DEF Await, Frame
  <2> HIDE DEF a, b
  <2> QED BY <2>1, <2>2, <2>3, FreshCalls
<1>4. CASE UnaryNode
  <2> DEFINE a == Expr(top.type)
             b == Await("UnaryNode", top.type)
  <2>1. Call(<<a>>) \/ Call(<<a, b>>)
    BY <1>4 DEF UnaryNode
  <2>2. a.at = "expr" /\ b.at = "UnaryNode"
    BY FreshFrames
  <2> HIDE DEF a, b
  <2> QED BY <2>1, <2>2, FreshCalls DEF Replaces, Call
<1>5. CASE FuncallNode
  <2>1. Return \/ \E n, args, bbs : Call(NextArg(n, args, bbs))
    BY <1>5 DEF FuncallNode
  <2>2. CASE Return
    BY <2>2 DEF Return, Replaces
  <2>3. CASE \E n, args, bbs : Call(NextArg(n, args, bbs))
    BY <2>3, ArgsReplace
  <2> QED BY <2>1, <2>2, <2>3
<1>6. CASE FuncallArg
  <2>1. Return \/ \E n, args, bbs : Call(NextArg(n, args, bbs))
    BY <1>6 DEF FuncallArg
  <2>2. CASE Return
    BY <2>2 DEF Return, Replaces
  <2>3. CASE \E n, args, bbs : Call(NextArg(n, args, bbs))
    BY <2>3, ArgsReplace
  <2> QED BY <2>1, <2>2, <2>3
<1> QED BY <1>1, <1>2, <1>3, <1>4, <1>5, <1>6, <1>7 DEF Expressions

LEMMA StatementsReplace ==
    ASSUME Statements, ~AssignmentNode
    PROVE  Replaces(Tail(stack), stack')
<1>1. CASE \/ AssignmentRhs \/ IoPrintNode \/ ReturnNode \/ ExpressionWrapperNode \/ IfFalse
           \/ WhileBody \/ DoWhileCond
  <2>1. Return
    BY <1>1 DEF AssignmentRhs, IoPrintNode, ReturnNode, ExpressionWrapperNode, IfFalse,
       WhileBody, DoWhileCond
  <2> QED BY <2>1 DEF Return, Replaces
<1>2. CASE PrintOrReturn \/ IfStatementNode
  <2>1. CASE PrintOrReturn
    <3>1. PICK t \in UsedTypes, l \in {"IoPrintNode", "ReturnNode"} : Call(<<Expr(t), Await(l, t)>>)
      BY <2>1 DEF PrintOrReturn
    <3>2. Expr(t).at = "expr" /\ Await(l, t).at = l
      BY FreshFrames
    <3> QED BY <3>1, <3>2, FreshCalls
  <2>2. CASE IfStatementNode
    <3>1. Call(<<Expr("BOOL"), Await("IfStatementNode.cond", "BOOL")>>)
      BY <2>2 DEF IfStatementNode
    <3>2. Expr("BOOL").at = "expr" /\ Await("IfStatementNode.cond", "BOOL").at = "IfStatementNode.cond"
      BY FreshFrames
    <3> QED BY <3>1, <3>2, FreshCalls
  <2> QED BY <1>2, <2>1, <2>2
<1>3. CASE BlockStatementNode \/ BlockLoop \/ BlockStatement
  <2>1. \/ stack' = Tail(stack)
        \/ \E a : a.at = "BlockStatementNode" /\ stack' = <<a>> \o Tail(stack)
        \/ \E a, b : /\ a.at = "statement" /\ b.at = "BlockStatementNode.stmt"
                     /\ stack' = <<a, b>> \o Tail(stack)
    BY <1>3, FreshFrames DEF BlockStatementNode, BlockLoop, BlockStatement, Call, Return
  <2> QED BY <2>1 DEF Replaces
<1>4. CASE IfCond
  <2>1. \E a, b : /\ a.at = "statement" /\ b.at = "IfStatementNode.true"
                  /\ stack' = <<a, b>> \o Tail(stack)
    BY <1>4, FreshFrames DEF IfCond, Call, Frame
  <2> QED BY <2>1 DEF Replaces
<1>5. CASE IfTrue
  <2>1. \/ \E a, b : /\ a.at = "statement" /\ b.at = "IfStatementNode.false"
                     /\ stack' = <<a, b>> \o Tail(stack)
        \/ \E b : b.at = "IfStatementNode.false" /\ stack' = <<b>> \o Tail(stack)
    BY <1>5, FreshFrames DEF IfTrue, Call, Frame
  <2> QED BY <2>1 DEF Replaces
<1>6. CASE WhileStatementNode
  <2>1. \E a, b : /\ a.at = "expr" /\ b.at = "WhileStatementNode.cond"
                  /\ stack' = <<a, b>> \o Tail(stack)
    BY <1>6, FreshFrames DEF WhileStatementNode, Call, Await, Frame
  <2> QED BY <2>1 DEF Replaces
<1>7. CASE WhileCond
  <2>1. \E a, b : /\ a.at = "statement" /\ b.at = "WhileStatementNode.body"
                  /\ stack' = <<a, b>> \o Tail(stack)
    BY <1>7, FreshFrames DEF WhileCond, Call, Frame
  <2> QED BY <2>1 DEF Replaces
<1>8. CASE DoWhileStatementNode
  <2>1. \E a, b : /\ a.at = "statement" /\ b.at = "DoWhileStatementNode.body"
                  /\ stack' = <<a, b>> \o Tail(stack)
    BY <1>8, FreshFrames DEF DoWhileStatementNode, Call, Frame
  <2> QED BY <2>1 DEF Replaces
<1>9. CASE DoWhileBody
  <2> DEFINE a == Expr("BOOL")
             b == [Await("DoWhileStatementNode.cond", "BOOL") EXCEPT !.bbs = top.bbs]
  <2>1. Call(<<a, b>>) \/ Return
    BY <1>9 DEF DoWhileBody
  <2>2. a.at = "expr"
    BY FreshFrames
  <2>3. b.at = "DoWhileStatementNode.cond"
    BY DEF Await, Frame
  <2> HIDE DEF a, b
  <2> QED BY <2>1, <2>2, <2>3, FreshCalls DEF Return, Replaces
<1> QED BY <1>1, <1>2, <1>3, <1>4, <1>5, <1>6, <1>7, <1>8, <1>9 DEF Statements

LEMMA MovesReplace ==
    ASSUME Moves, ~AssignmentNode
    PROVE  Replaces(Tail(stack), stack')
<1>1. CASE FunctionDefEnd \/ Unwind
  <2>1. Return
    BY <1>1 DEF FunctionDefEnd, Unwind
  <2> QED BY <2>1 DEF Return, Replaces
<1> QED BY <1>1, ExpressionsReplace, StatementsReplace DEF Moves

\* An error is not taken back.
LEMMA NoWayBack ==
    ASSUME Typed, Moves, isSuccess'
    PROVE  isSuccess
<1>1. CASE Expressive \/ Taking
  BY <1>1, ExpressiveKeep, TakingFacts
<1>2. CASE ConstantNode \/ VarNode
  BY <1>2 DEF ConstantNode, VarNode, Error, Typed
<1>3. CASE FuncallNode
  BY <1>3 DEF FuncallNode, Error, Typed
<1> QED BY <1>1, <1>2, <1>3, MovesSplit

\* The frames of the callers are frames of the stack.
LEMMA CallersAssign ==
    ASSUME Coherent, stack # <<>>, AssignsAll(stack, scopeStack, scope)
    PROVE  AssignsAll(Tail(stack), scopeStack, scope)
<1>1. stack \in Seq(Frames)
  BY DEF Coherent, Control, CallsOK, StackOK
<1>2. \A j \in 1..Len(Tail(stack)) : Tail(stack)[j] = stack[j + 1] /\ j + 1 \in 1..Len(stack)
  BY <1>1
<1> QED BY <1>2 DEF AssignsAll

\* Steps that leave the names alone.
LEMMA NamesOKKept ==
    ASSUME Coherent, Typed, NamesOK, Moves, ~Binding, ~AssignmentNode
    PROVE  NamesOK'
<1>0. SUFFICES ASSUME isSuccess', Unique'
               PROVE  NamesAgree' /\ AssignsAll(stack', scopeStack', scope')
  BY DEF NamesOK
<1>1. UNCHANGED <<scopeStack, scope, gone>>
  BY NamesKept
<1>2. isSuccess /\ Unique /\ stack # <<>>
  BY <1>0, NoWayBack, MovesKeep, MovesAreRunning DEF Unique
<1>3. NamesAgree'
  BY <1>1, <1>2 DEF NamesOK, NamesAgree, Bound
<1>4. AssignsAll(Tail(stack), scopeStack, scope) /\ Tail(stack) \in Seq(Frames)
  BY <1>2, CallersAssign, Active DEF NamesOK, Coherent
<1>5. Replaces(Tail(stack), stack')
  BY MovesReplace
<1>6. \A k \in 1..Len(stack') : stack'[k].at = "AssignmentNode" =>
        \E j \in 1..Len(Tail(stack)) : stack'[k] = Tail(stack)[j]
  <2> DEFINE s == Tail(stack)
             r == stack'
  <2>1. s \in Seq(Frames) /\ Replaces(s, r)
    BY <1>4, <1>5
  <2> HIDE DEF s, r
  <2>2. \A k \in 1..Len(r) : r[k].at = "AssignmentNode" => \E j \in 1..Len(s) : r[k] = s[j]
    BY <2>1, ReplacedFrames
  <2> QED BY <2>2 DEF s, r
<1>7. AssignsAll(stack', scopeStack, scope)
  <2> SUFFICES ASSUME NEW k \in 1..Len(stack'), stack'[k].at = "AssignmentNode"
               PROVE  Assigns(stack'[k], scopeStack, scope)
    BY DEF Assigns, AssignsAll
  <2>1. PICK j \in 1..Len(Tail(stack)) : stack'[k] = Tail(stack)[j]
    BY <1>6
  <2> QED BY <1>4, <2>1 DEF AssignsAll
<1> QED BY <1>1, <1>3, <1>7

\* What is looked up for a left-hand side is what the scopes say.
LEMMA NamesOKAssignmentNode ==
    ASSUME Coherent, Typed, NamesOK, AssignmentNode
    PROVE  NamesOK'
<1>0. SUFFICES ASSUME isSuccess', Unique'
               PROVE  NamesAgree' /\ AssignsAll(stack', scopeStack', scope')
  BY DEF NamesOK
<1>1. UNCHANGED <<scopeStack, scope, gone, isSuccess>> /\ At("statement")
  BY DEF AssignmentNode, syms
<1>2. Moves
  BY DEF Moves, Statements
<1>3. isSuccess /\ Unique /\ stack # <<>>
  BY <1>0, <1>1, <1>2, MovesKeep DEF Unique, At
<1>4. NamesAgree'
  BY <1>1, <1>3 DEF NamesOK, NamesAgree, Bound
<1>5. AssignsAll(Tail(stack), scopeStack, scope) /\ Tail(stack) \in Seq(Frames)
  BY <1>3, CallersAssign, Active DEF NamesOK, Coherent
<1>6. PICK n \in Names, type \in UsedTypes, rhs \in UsedTypes :
        LET slot == lookup(scopeStack, n)
        IN /\ scope[n] \in {type, ABSENT}
           /\ Assignable(type, rhs)
           /\ Odd("bareDeclaration", slot = NoSlot /\ top.kind = "body")
           /\ Call(<<Expr(rhs), [Await("AssignmentNode", rhs) EXCEPT
                                   !.other = type, !.name = n, !.slot = slot]>>)
  BY Zenon DEF AssignmentNode
<1> DEFINE a == Expr(rhs)
           b == [Await("AssignmentNode", rhs) EXCEPT
                   !.other = type, !.name = n, !.slot = lookup(scopeStack, n)]
<1>7. a.at = "expr" /\ b.name = n /\ b.other = type /\ b.slot = lookup(scopeStack, n)
  BY FreshFrames DEF Await, Frame
<1>8. stack' = <<a, b>> \o Tail(stack)
  BY <1>6 DEF Call
<1> HIDE DEF a, b
<1>9. Assigns(a, scopeStack, scope)
  BY <1>7 DEF Assigns
<1>10. Assigns(b, scopeStack, scope)
  <2>1. b.slot # NoSlot => \E i \in 1..Len(scopeStack) : scopeStack[i][n] = b.slot
    BY <1>7, LookupFacts DEF Typed, ScopesTyped
  <2> QED BY <1>6, <1>7, <2>1 DEF Assigns
<1>11. AssignsAll(stack', scopeStack, scope)
  <2> DEFINE s == Tail(stack)
             r == stack'
  <2>1. s \in Seq(Frames) /\ r = <<a, b>> \o s /\ AssignsAll(s, scopeStack, scope)
    BY <1>5, <1>8
  <2> HIDE DEF s, r
  <2>2. \A k \in 1..Len(r) : r[k] = a \/ r[k] = b \/ \E j \in 1..Len(s) : r[k] = s[j]
    BY <2>1, TwoFrames
  <2>3. AssignsAll(r, scopeStack, scope)
    BY <1>9, <1>10, <2>1, <2>2 DEF AssignsAll
  <2> QED BY <2>3 DEF r
<1> QED BY <1>1, <1>4, <1>11

\* No assignment waits for a statement.
LEMMA NoneAssigns ==
    ASSUME Coherent, stack # <<>>, Yields(top.at) # "expression", Replaces(Tail(stack), stack'),
           NEW scopes, NEW types
    PROVE  AssignsAll(stack', scopes, types)
<1> DEFINE s == Tail(stack)
           r == stack'
<1>1. s \in Seq(Frames) /\ \A j \in 1..Len(s) : s[j].at \notin AfterExpr
  BY StackTail DEF Coherent, Control, CallsOK, top
<1>2. Replaces(s, r)
  OBVIOUS
<1> HIDE DEF s, r
<1>3. \A k \in 1..Len(r) : r[k].at # "AssignmentNode"
  <2>1. "AssignmentNode" \in AfterExpr
    BY DEF AfterExpr
  <2> QED BY <1>1, <1>2, <2>1, ReplacedFrames
<1> QED BY <1>3 DEF r, Assigns, AssignsAll

\* A scope goes, and its names with it.
LEMMA PoppedNames ==
    ASSUME ScopesTyped, scopeStack # <<>>, NamesAgree, scopeStack' = PopScope, UNCHANGED scope,
           gone' = gone \cup Leaving
    PROVE  NamesAgree'
<1>1. /\ Len(scopeStack') = Len(scopeStack) - 1 /\ Len(scopeStack) \in Nat
      /\ \A i \in 1..Len(scopeStack') : scopeStack'[i] = scopeStack[i] /\ i \in 1..Len(scopeStack)
  BY PopFacts DEF ScopesTyped
<1> SUFFICES ASSUME NEW n \in Names
             PROVE  /\ \A i \in 1..Len(scopeStack') : scopeStack'[i][n] # NoSlot =>
                         scope[n] # ABSENT /\ scopeStack'[i][n].type = toLLVMType(scope[n])
                    /\ scope[n] # ABSENT =>
                         n \in gone' \/ \E i \in 1..Len(scopeStack') : scopeStack'[i][n] # NoSlot
  BY DEF NamesAgree, Bound
<1>2. \A i \in 1..Len(scopeStack') : scopeStack'[i][n] # NoSlot =>
        scope[n] # ABSENT /\ scopeStack'[i][n].type = toLLVMType(scope[n])
  BY <1>1 DEF NamesAgree
<1>3. ASSUME scope[n] # ABSENT, n \notin gone'
      PROVE  \E i \in 1..Len(scopeStack') : scopeStack'[i][n] # NoSlot
  <2>1. n \notin gone /\ n \notin Leaving
    BY <1>3
  <2>2. PICK i \in 1..Len(scopeStack) : scopeStack[i][n] # NoSlot
    BY <1>3, <2>1 DEF NamesAgree, Bound
  <2>3. i # Len(scopeStack)
    BY <2>1, <2>2 DEF Leaving
  <2>4. i \in 1..Len(scopeStack')
    BY <1>1, <2>3
  <2> QED BY <1>1, <2>2, <2>4
<1> QED BY <1>2, <1>3

LEMMA BindingNames ==
    ASSUME Coherent, Typed, NamesAgree, isSuccess, stack # <<>>,
           AssignsAll(stack, scopeStack, scope), Binding
    PROVE  NamesAgree'
<1>0. scopeStack \in Seq([Names -> Slots])
  BY DEF Typed, ScopesTyped
<1>1. CASE AssignmentRhs
  <2>1. PICK slot \in Values :
             /\ top.name \in Names /\ top.other \in Types
             /\ slot = (IF top.slot = NoSlot THEN Value(toLLVMType(top.other), insert) ELSE top.slot)
             /\ scopeStack # <<>>
             /\ top.slot = NoSlot => scopeStack' = declare(scopeStack, top.name, slot)
             /\ top.slot # NoSlot => scopeStack' = scopeStack
             /\ scope' = [scope EXCEPT ![top.name] = top.other]
             /\ UNCHANGED gone
    BY <1>1, AssignmentRhsNames DEF Typed
  <2>2. scope[top.name] \in {top.other, ABSENT}
        /\ (top.slot # NoSlot => Bound(top.name))
    <3>1. Assigns(stack[1], scopeStack, scope) /\ stack[1] = top
      <4>1. stack \in Seq(Frames)
        BY DEF Coherent, Control, CallsOK, StackOK
      <4>2. 1 \in 1..Len(stack) /\ stack[1] = top
        BY <4>1 DEF top
      <4> QED BY <4>2 DEF AssignsAll
    <3>2. top.at = "AssignmentNode"
      BY <1>1 DEF AssignmentRhs, Resume, At, top
    <3> QED BY <3>1, <3>2 DEF Assigns, Bound
  <2>3. /\ top.other # ABSENT
        /\ \A n \in Names : scope'[n] = IF n = top.name THEN top.other ELSE scope[n]
    BY <2>1 DEF Typed, Types, ABSENT
  <2>4. CASE top.slot # NoSlot
    BY <2>1, <2>2, <2>3, <2>4 DEF NamesAgree, Bound
  <2>5. CASE top.slot = NoSlot
    <3>1. slot.type = toLLVMType(top.other) /\ slot # NoSlot /\ slot \in Slots
      BY <2>1, <2>5, SlotFacts DEF Value, Values, NoSlot, LLVMTypes
    <3>2. /\ Len(scopeStack') = Len(scopeStack) /\ Len(scopeStack) \in 1..Len(scopeStack)
          /\ \A i \in 1..Len(scopeStack), m \in Names :
               scopeStack'[i][m] = IF i = Len(scopeStack) /\ m = top.name THEN slot
                                   ELSE scopeStack[i][m]
      BY <1>0, <2>1, <2>5, <3>1, DeclareFacts
    <3> QED BY <2>1, <2>2, <2>3, <3>1, <3>2 DEF NamesAgree, Bound
  <2> QED BY <2>4, <2>5
<1>2. CASE BlockStatementNode
  <2>1. scopeStack' = Append(scopeStack, EmptyScope) /\ UNCHANGED <<scope, gone>>
    BY <1>2 DEF BlockStatementNode, sameTables
  <2>2. EmptyScope \in [Names -> Slots] /\ \A n \in Names : EmptyScope[n] = NoSlot
    BY DEF EmptyScope, Slots
  <2>3. /\ Len(scopeStack') = Len(scopeStack) + 1 /\ Len(scopeStack) \in Nat
        /\ \A i \in 1..Len(scopeStack) : scopeStack'[i] = scopeStack[i] /\ i \in 1..Len(scopeStack')
        /\ scopeStack'[Len(scopeStack) + 1] = EmptyScope
    BY <1>0, <2>1, <2>2
  <2>4. \A i \in 1..Len(scopeStack') : i \in 1..Len(scopeStack) \/ scopeStack'[i] = EmptyScope
    BY <2>3
  <2> QED BY <2>1, <2>2, <2>3, <2>4 DEF NamesAgree, Bound
<1>3. CASE BlockLoop \/ (BlockStatement /\ ~Terminated)
  <2>1. \/ UNCHANGED <<scopeStack, scope, gone>>
        \/ scopeStack' = PopScope /\ gone' = gone \cup Leaving /\ UNCHANGED scope
    BY <1>3 DEF BlockLoop, BlockStatement, ast
  <2>2. top.at \in BlockLabels
    BY <1>3 DEF BlockLoop, BlockStatement, Resume, At, top, BlockLabels
  <2>3. scopeStack # <<>> /\ ScopesTyped
    BY <2>2, BlockPops DEF Typed
  <2>4. CASE UNCHANGED <<scopeStack, scope, gone>>
    BY <2>4 DEF NamesAgree, Bound
  <2> QED BY <2>1, <2>3, <2>4, PoppedNames
<1>4. CASE BlockStatement /\ Terminated
  <2>1. top.at \in BlockLabels
    BY <1>4 DEF BlockStatement, Resume, At, top, BlockLabels
  <2>2. scopeStack # <<>> /\ ScopesTyped
    BY <2>1, BlockPops DEF Typed
  <2>3. PICK cut \in SUBSET {n \in Names : scope[n] = ABSENT} :
          /\ \E new \in [cut -> UsedTypes] :
               scope' = [n \in Names |-> IF n \in cut THEN new[n] ELSE scope[n]]
          /\ gone' = gone \cup Leaving \cup cut
          /\ scopeStack' = PopScope
    BY <1>4 DEF BlockStatement
  <2>4. /\ \A n \in Names \ cut : scope'[n] = scope[n]
        /\ \A n \in cut : n \in gone'
    BY <2>3
  <2>5. \A n \in cut, i \in 1..Len(scopeStack) : scopeStack[i][n] = NoSlot
    BY <2>3 DEF NamesAgree
  <2>6. /\ Len(scopeStack') = Len(scopeStack) - 1 /\ Len(scopeStack) \in Nat
        /\ \A i \in 1..Len(scopeStack') : scopeStack'[i] = scopeStack[i] /\ i \in 1..Len(scopeStack)
    BY <2>2, <2>3, PopFacts DEF ScopesTyped
  <2>7. ASSUME NEW n \in Names
        PROVE  /\ \A i \in 1..Len(scopeStack') : scopeStack'[i][n] # NoSlot =>
                    scope'[n] # ABSENT /\ scopeStack'[i][n].type = toLLVMType(scope'[n])
               /\ scope'[n] # ABSENT => n \in gone' \/ Bound(n)'
    <3>1. CASE n \in cut
      BY <2>4, <2>5, <2>6, <3>1
    <3>2. CASE n \notin cut
      <4>1. scope'[n] = scope[n]
        BY <2>4, <3>2
      <4>2. \A i \in 1..Len(scopeStack') : scopeStack'[i][n] # NoSlot =>
              scope'[n] # ABSENT /\ scopeStack'[i][n].type = toLLVMType(scope'[n])
        BY <2>6, <4>1 DEF NamesAgree
      <4>3. ASSUME scope'[n] # ABSENT, n \notin gone'
            PROVE  Bound(n)'
        <5>1. n \notin gone /\ n \notin Leaving
          BY <2>3, <4>3
        <5>2. PICK i \in 1..Len(scopeStack) : scopeStack[i][n] # NoSlot
          BY <4>1, <4>3, <5>1 DEF NamesAgree, Bound
        <5>3. i # Len(scopeStack)
          BY <5>1, <5>2 DEF Leaving
        <5>4. i \in 1..Len(scopeStack')
          BY <2>6, <5>3
        <5> QED BY <2>6, <5>2, <5>4 DEF Bound
      <4> QED BY <4>2, <4>3
    <3> QED BY <3>1, <3>2
  <2> QED BY <2>7 DEF NamesAgree
<1>5. ~Unwind
  BY DEF Unwind
<1> QED BY <1>1, <1>2, <1>3, <1>4, <1>5 DEF Binding

LEMMA NamesOKBinding ==
    ASSUME Coherent, Typed, NamesOK, Moves, Binding, ~AssignmentNode
    PROVE  NamesOK'
<1>0. SUFFICES ASSUME isSuccess', Unique'
               PROVE  NamesAgree' /\ AssignsAll(stack', scopeStack', scope')
  BY DEF NamesOK
<1>1. isSuccess /\ Unique /\ stack # <<>>
  BY <1>0, NoWayBack, MovesKeep, MovesAreRunning DEF Unique
<1>2. NamesAgree'
  BY <1>1, BindingNames DEF NamesOK
<1>3. Yields(top.at) # "expression"
  <2>1. top.at \in {"AssignmentNode", "statement"} \cup BlockLabels
    BY <1>1 DEF Binding, AssignmentRhs, BlockStatementNode, BlockLoop, BlockStatement, Unwind,
       Visit, Resume, At, top, BlockLabels
  <2> QED BY <2>1 DEF Yields, BlockLabels, ExpressionLabels
<1>4. Replaces(Tail(stack), stack')
  BY MovesReplace
<1> QED BY <1>1, <1>2, <1>3, <1>4, NoneAssigns

\* The parameters of a function, where each has a name of its own.
LEMMA NamesOKFunctionDefNode ==
    ASSUME Inv, FunctionDefNode
    PROVE  NamesOK'
<1>0. SUFFICES ASSUME Unique'
               PROVE  NamesAgree' /\ AssignsAll(stack', scopeStack', scope')
  BY DEF NamesOK
<1>1. PICK params \in SeqOf(Params, MaxParams) :
        /\ ~Distinct(params) => "duplicateParams" \in odd'
        /\ scopeStack' =
              <<[m \in Names |-> IF Named(params, m) = {} THEN NoSlot
                                 ELSE Constant(params[Last(Named(params, m))].type)]>>
        /\ scope' = [m \in Names |-> IF Named(params, m) = {} THEN ABSENT
                                      ELSE params[First(Named(params, m))].type]
  BY DEF FunctionDefNode
<1>2. Distinct(params)
  BY <1>0, <1>1 DEF Unique
<1>3. params \in Seq(Params)
  BY SeqOfIsSeq, MaxParamsAssumption
<1>4. Len(scopeStack') = 1
  BY <1>1
<1>5. ASSUME NEW m \in Names
      PROVE  /\ scopeStack'[1][m] # NoSlot =>
                  scope'[m] # ABSENT /\ scopeStack'[1][m].type = toLLVMType(scope'[m])
             /\ scope'[m] # ABSENT => scopeStack'[1][m] # NoSlot
  <2>1. CASE Named(params, m) = {}
    BY <1>1, <2>1
  <2>2. CASE Named(params, m) # {}
    <3>1. PICK i : i \in Named(params, m)
      BY <2>2
    <3>2. Named(params, m) = {i}
      BY <1>2, <3>1 DEF Named, Distinct
    <3>3. i \in 1..Len(params) /\ params[i].type \in Types /\ i \in Nat
      <4>1. i \in 1..Len(params) /\ params[i] \in Params
        BY <1>3, <3>1 DEF Named
      <4> QED BY <4>1, <1>3, UsedTypesAssumption DEF Params
    <3>4. First({i}) = i /\ Last({i}) = i
      BY <3>3 DEF First, Last
    <3> DEFINE t == params[i].type
    <3>5. scopeStack'[1][m] = Constant(t) /\ scope'[m] = t /\ t \in Types
      BY <1>1, <3>2, <3>3, <3>4
    <3> HIDE DEF t
    <3>6. Constant(t) \in Values /\ Constant(t).type = toLLVMType(t)
      BY <3>5, ValueFacts
    <3>7. Constant(t) # NoSlot
      BY <3>6 DEF Values, NoSlot, Value, LLVMTypes
    <3>8. t # ABSENT
      BY <3>5 DEF Types, ABSENT
    <3> QED BY <3>5, <3>6, <3>7, <3>8
  <2> QED BY <2>1, <2>2
<1>6. NamesAgree'
  <2>1. \A i \in 1..Len(scopeStack') : i = 1
    BY <1>4
  <2>2. 1 \in 1..Len(scopeStack')
    BY <1>4
  <2> QED BY <1>5, <2>1, <2>2 DEF NamesAgree, Bound
<1>7. AssignsAll(stack', scopeStack', scope')
  <2> DEFINE a == Statement
             b == Frame("FunctionDefNode")
             c == Frame("VectorNode")
             r == stack'
  <2>1. r = <<a, b, c>>
    <3>1. At("VectorNode") /\ Call(<<a, b, c>>)
      BY DEF FunctionDefNode
    <3>2. Tail(stack) = <<>>
      BY <3>1, Bottom DEF Inv
    <3>3. stack' = <<a, b, c>> \o <<>>
      BY <3>1, <3>2 DEF Call
    <3>4. a \in Frames /\ b \in Frames /\ c \in Frames
      BY PlainFrames DEF FrameOK
    <3> HIDE DEF a, b, c
    <3>5. <<a, b, c>> \o <<>> = <<a, b, c>>
      BY <3>4
    <3> QED BY <3>3, <3>5
  <2>2. a.at = "statement" /\ b.at = "FunctionDefNode" /\ c.at = "VectorNode"
    BY FreshFrames
  <2> HIDE DEF a, b, c, r
  <2>3. Len(r) = 3 /\ r[1] = a /\ r[2] = b /\ r[3] = c
    BY <2>1
  <2>4. \A k \in 1..Len(r) : r[k].at # "AssignmentNode"
    BY <2>2, <2>3
  <2> QED BY <2>4 DEF r, Assigns, AssignsAll
<1> QED BY <1>6, <1>7

LEMMA NamesOKNext ==
    ASSUME Inv, NamesOK, [Next]_vars
    PROVE  NamesOK'
<1>1. CASE Moves
  <2>1. stack # <<>> /\ ~At("VectorNode")
    BY <1>1, MovesAreRunning
  <2>2. insert \in 1..Len(blocks)
    BY <2>1 DEF Inv, Control, Running
  <2>3. blocks # <<>>
    BY <2>2 DEF Inv, Control
  <2>4. Coherent /\ Typed
    BY <2>3 DEF Inv, Coherent
  <2> QED BY <1>1, <2>4, NamesOKKept, NamesOKAssignmentNode, NamesOKBinding
<1>2. CASE FunctionDefNode
  BY <1>2, NamesOKFunctionDefNode
<1>3. CASE VectorNodeEnd
  <2>1. UNCHANGED <<isSuccess, scopeStack, scope, gone, odd>> /\ At("VectorNode") /\ Return
    BY <1>3 DEF VectorNodeEnd, syms, ir, ast
  <2>2. stack' = <<>>
    BY <2>1, Bottom DEF Inv, Return
  <2>3. AssignsAll(stack', scopeStack', scope')
    BY <2>2 DEF AssignsAll
  <2> QED BY <2>1, <2>3 DEF NamesOK, Unique, NamesAgree, Bound
<1>4. CASE UNCHANGED vars
  BY <1>4 DEF vars, syms, ir, ast, NamesOK, Unique, NamesAgree, Bound, AssignsAll, Assigns
<1>5. Next => Moves \/ FunctionDefNode \/ VectorNodeEnd \/ UNCHANGED vars
  BY DEF Next, Moves, Functions, Done
<1> QED BY <1>1, <1>2, <1>3, <1>4, <1>5

LEMMA NamesOKInitially ==
    ASSUME Init
    PROVE  NamesOK
<1>1. NamesAgree
  <2>1. scopeStack = <<>> /\ scope = [n \in Names |-> ABSENT]
    BY DEF Init
  <2>2. 1..Len(scopeStack) = {}
    <3>1. Len(scopeStack) = 0
      BY <2>1
    <3>2. \A i : i \notin 1..0
      OBVIOUS
    <3> QED BY <3>1, <3>2
  <2>3. \A n \in Names : scope[n] = ABSENT
    BY <2>1
  <2> QED BY <2>2, <2>3, Zenon DEF NamesAgree
<1>2. AssignsAll(stack, scopeStack, scope)
  <2> DEFINE f == Frame("VectorNode")
  <2>1. stack = <<f>> /\ f.at = "VectorNode"
    BY FreshFrames DEF Init
  <2> HIDE DEF f
  <2>2. Len(stack) = 1 /\ stack[1].at = "VectorNode"
    BY <2>1
  <2>3. \A k \in 1..Len(stack) : stack[k].at # "AssignmentNode"
    BY <2>2
  <2> QED BY <2>3 DEF AssignsAll, Assigns
<1> QED BY <1>1, <1>2 DEF NamesOK

\* What the parser knows of the names is what the scopes say, at every step.
THEOREM NamesInvariance == Spec => []NamesOK
<1>1. Init => NamesOK
  BY NamesOKInitially
<1>2. Inv /\ NamesOK /\ [Next]_vars => NamesOK'
  BY NamesOKNext
<1> QED BY <1>1, <1>2, GeneratorInvariance, PTL DEF Spec

\* Where the parser lets a name be used, the code generator finds it, with the
\* type that the parser knows, unless its block has ended or was cut short.
THEOREM NamesAreFound == Spec => []NamesResolve
<1>1. Inv /\ NamesOK => NamesResolve
  <2> SUFFICES ASSUME Inv, NamesAgree, NEW n \in Names, scope[n] # ABSENT
               PROVE  LET slot == lookup(scopeStack, n)
                      IN IF slot = NoSlot THEN n \in gone
                                          ELSE slot.type = toLLVMType(scope[n])
    BY DEF NamesOK, Unique, NamesResolve
  <2> DEFINE slot == lookup(scopeStack, n)
  <2>1. /\ slot # NoSlot => \E i \in 1..Len(scopeStack) : scopeStack[i][n] = slot
        /\ slot = NoSlot => \A i \in 1..Len(scopeStack) : scopeStack[i][n] = NoSlot
    BY LookupFacts DEF Inv, Typed, ScopesTyped
  <2> HIDE DEF slot
  <2>2. IF slot = NoSlot THEN n \in gone ELSE slot.type = toLLVMType(scope[n])
    BY <2>1 DEF NamesAgree, Bound
  <2> QED BY <2>2 DEF slot
<1> QED BY <1>1, GeneratorInvariance, NamesInvariance, PTL
=============================================================================
