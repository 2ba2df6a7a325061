----------------------- MODULE CodegenDominanceProofs -----------------------
(***************************************************************************)
(* Every value and variable is defined on all paths to its uses, for ASTs  *)
(* of any size: DefinitionsDominateUses.                                   *)
(*                                                                         *)
(* What a definition dominates is a set of blocks that no branch enters    *)
(* but at the definition (Sealed), and that takes in the blocks made while *)
(* control is in it.  Control leaves it for good when it goes on in a      *)
(* block that a frame has kept since before the definition.  So the        *)
(* invariant says of each definition that is still to be used how far up   *)
(* the call stack the frames keep only blocks that it dominates (Alive),   *)
(* and of each use on record that nothing will branch into that set any    *)
(* more but from inside it (Recorded).                                     *)
(***************************************************************************)
EXTENDS CodegenBlockProofs
-----------------------------------------------------------------------------
(* What a definition dominates                                             *)

\* Frames are counted from the bottom of the call stack, where they stay.
Ranks(s) == 0..(Len(s) - 1)
FrameAt(s, k) == s[Len(s) - k]

\* The blocks that a frame may branch to or go on in.
Targets(f) == {f.bbs[i] : i \in 1..Kept(f)}

\* The entry block is not in Q, and Q is entered at block d only.
Sealed(bbs, d, Q) ==
    /\ Q \subseteq 1..Len(bbs) /\ 1 \notin Q
    /\ \A x \in 1..Len(bbs) : \A y \in bbs[x].succs : y \in Q \ {d} => x \in Q

\* The frame will not branch into Q but at d.
Clear(f, d, Q) == Targets(f) \cap (Q \ {d}) = {}
Gone(s, d, Q) == \A k \in Ranks(s) : Clear(FrameAt(s, k), d, Q)

\* Control is in Q; the frames from rank c on were called since it came there.
Inside(s, bbs, ins, d, Q, c) ==
    /\ Sealed(bbs, d, Q) /\ ins \in Q
    /\ \A k \in Ranks(s) : IF c <= k THEN Targets(FrameAt(s, k)) \subseteq Q
                                     ELSE Clear(FrameAt(s, k), d, Q)

\* What is defined in block d can be used now, and until the frame of rank q
\* is done: the pairs <<d, q>>.
Living(s, bbs, ins) ==
    {p \in Nat \X Nat :
       p[1] = 1 \/ \E Q \in SUBSET (1..Len(bbs)), c \in 0..p[2] : Inside(s, bbs, ins, p[1], Q, c)}

\* The definition in d was used in block u.
Recorded(s, bbs, ins, d, u) ==
    \E Q \in SUBSET (1..Len(bbs)) :
        /\ Sealed(bbs, d, Q) /\ u \in Q
        /\ Gone(s, d, Q) \/ \E c \in Nat : Inside(s, bbs, ins, d, Q, c)
-----------------------------------------------------------------------------
(* The definitions still to be used                                        *)

\* The blocks of those in the locals of a frame.
Keeps(f) ==
    (IF ShortCircuit(f) \/ (f.at = "AssignmentNode" /\ f.slot # NoSlot)
       THEN {f.slot.block} ELSE {})
    \cup (IF f.at = "FuncallNode" THEN {f.bbs[i] : i \in 1..Len(f.bbs)} ELSE {})

KeepsLive(s, G) == \A k \in Ranks(s) : \A d \in Keeps(FrameAt(s, k)) : <<d, k>> \in G

HeldLive(s, ops, G) == \A i \in Pending(s) : <<ops[Depth(s, i)].block, Len(s) - i>> \in G

\* The frames with a scope, which come with the scopes one by one: p[m] is the
\* rank of the frame with scope m.
ScopeLabels == BlockLabels \cup {"FunctionDefNode"}

Places(s, n, p) ==
    /\ \A m \in 1..n : p[m] \in Ranks(s) /\ FrameAt(s, p[m]).at \in ScopeLabels
    /\ \A m, l \in 1..n : m < l => p[m] < p[l]
    /\ \A k \in Ranks(s) : FrameAt(s, k).at \in ScopeLabels => \E m \in 1..n : p[m] = k

BoundLive(bindings, k, G) ==
    \A n \in Names : bindings[n] # NoSlot => <<bindings[n].block, k>> \in G

ScopesLive(s, scopes, G) ==
    \E p \in [1..Len(scopes) -> Ranks(s)] :
        /\ Places(s, Len(scopes), p)
        /\ \A m \in 1..Len(scopes) : BoundLive(scopes[m], p[m], G)

\* A statement that may bind a name is one of a block or a function.
Binds(f) ==
    \/ f.at = "statement" /\ f.kind # "body"
    \/ f.at = "AssignmentNode" /\ f.slot = NoSlot
Placed(s) ==
    \A k \in Ranks(s) : Binds(FrameAt(s, k)) =>
        k # 0 /\ FrameAt(s, k - 1).at \in ScopeLabels

\* The definitions that the frames of s have in their locals, on the operand
\* stack and in their scopes are in G.
Owned(s, ops, scopes, G) ==
    KeepsLive(s, G) /\ HeldLive(s, ops, G) /\ ScopesLive(s, scopes, G) /\ Placed(s)

Alive == Living(stack, blocks, insert)

Recording == \A a \in accesses : Recorded(stack, blocks, insert, a[1], a[2])
Owning ==
    stack # <<>> /\ ~At("VectorNode") =>
        /\ Owned(stack, operands, scopeStack, Alive)
        /\ Waiting(stack) => <<topValue.block, Len(stack)>> \in Alive

\* Once an error was met, nothing is made of the function.
Proper == isSuccess /\ "bareDeclaration" \notin odd
DominanceOK == Proper => Recording /\ Owning
-----------------------------------------------------------------------------
(* Where control goes in a step                                            *)

\* The frame at the top has the highest rank.
LEMMA RankPush ==
    ASSUME NEW s \in Seq(Frames), NEW f \in Frames
    PROVE  LET r == <<f>> \o s
           IN /\ r \in Seq(Frames) /\ Len(s) \in Nat /\ Len(r) = Len(s) + 1
              /\ FrameAt(r, Len(s)) = f
              /\ \A k \in Ranks(s) : FrameAt(r, k) = FrameAt(s, k)
              /\ \A k : k \in Ranks(r) <=> k \in Ranks(s) \/ k = Len(s)
<1> DEFINE r == <<f>> \o s
<1>1. /\ r \in Seq(Frames) /\ Len(r) = Len(s) + 1 /\ r[1] = f /\ Len(s) \in Nat
      /\ \A i \in 1..Len(s) : r[i + 1] = s[i]
  BY Pushed
<1> HIDE DEF r
<1>2. FrameAt(r, Len(s)) = f
  BY <1>1 DEF FrameAt
<1>3. ASSUME NEW k \in Ranks(s)
      PROVE  FrameAt(r, k) = FrameAt(s, k)
  <2>1. Len(s) - k \in 1..Len(s) /\ Len(r) - k = (Len(s) - k) + 1
    BY <1>1 DEF Ranks
  <2> QED BY <1>1, <2>1 DEF FrameAt
<1>4. \A k : k \in Ranks(r) <=> k \in Ranks(s) \/ k = Len(s)
  BY <1>1 DEF Ranks
<1> QED BY <1>1, <1>2, <1>3, <1>4, Zenon DEF r

\* The blocks that are made.
Added(bbs, nbs) == (Len(bbs) + 1)..Len(nbs)

\* The active frame f, with callers s, adds branches from the insert block only,
\* to the blocks it keeps and to new ones.
Leads(f, s, bbs, nbs, ins) ==
    /\ Len(bbs) \in Nat /\ Len(nbs) \in Nat /\ Len(bbs) <= Len(nbs)
    /\ \A x \in 1..Len(bbs) : bbs[x].succs \subseteq 1..Len(bbs)
    /\ \A x \in 1..Len(nbs) : \A y \in nbs[x].succs :
         \/ x <= Len(bbs) /\ y \in bbs[x].succs
         \/ x = ins /\ y \in Targets(f) \cup Added(bbs, nbs)
    /\ Targets(f) \subseteq 1..Len(bbs)
    /\ \A k \in Ranks(s) : Targets(FrameAt(s, k)) \subseteq 1..Len(bbs)

\* Of the frames that it calls only the first one keeps blocks, some of T.
Follows(s, r, T) ==
    /\ Len(s) \in Nat /\ Len(r) \in Nat /\ Len(s) <= Len(r)
    /\ \A k \in Ranks(s) : FrameAt(r, k) = FrameAt(s, k)
    /\ \A k \in Ranks(r) : /\ k > Len(s) => Targets(FrameAt(r, k)) = {}
                           /\ k = Len(s) => Targets(FrameAt(r, k)) \subseteq T

\* Control stays in the block or goes on in a new one, or in one that was kept.
Grows(f, s, r, bbs, nbs, ins, nins) ==
    /\ Leads(f, s, bbs, nbs, ins) /\ Follows(s, r, Added(bbs, nbs))
    /\ nins \in {ins} \cup Added(bbs, nbs)
Turns(f, s, r, bbs, nbs, ins, nins) ==
    /\ Leads(f, s, bbs, nbs, ins) /\ Follows(s, r, Targets(f)) /\ Len(nbs) = Len(bbs)
    /\ nins \in {ins} \cup Targets(f)
Flows(f, s, r, bbs, nbs, ins, nins) ==
    Grows(f, s, r, bbs, nbs, ins, nins) \/ Turns(f, s, r, bbs, nbs, ins, nins)

LEMMA FlowFacts ==
    ASSUME NEW f, NEW s, NEW r, NEW bbs, NEW nbs, NEW ins, NEW nins,
           Flows(f, s, r, bbs, nbs, ins, nins)
    PROVE  /\ Leads(f, s, bbs, nbs, ins)
           /\ Follows(s, r, Added(bbs, nbs)) \/ Follows(s, r, Targets(f))
           /\ nins \in {ins} \cup Targets(f) \cup Added(bbs, nbs)
           /\ Len(s) \in Nat /\ Len(r) \in Nat /\ Len(s) <= Len(r)
           /\ \A k \in Ranks(r) : k \in Ranks(s) \/ k = Len(s) \/ k > Len(s)
BY DEF Flows, Grows, Turns, Follows, Ranks

\* New blocks belong to what control is in.
LEMMA SealedGrows ==
    ASSUME NEW f, NEW s, NEW bbs, NEW nbs, NEW ins, Leads(f, s, bbs, nbs, ins),
           NEW d, NEW Q, Sealed(bbs, d, Q), ins \in Q
    PROVE  Sealed(nbs, d, Q \cup Added(bbs, nbs))
<1>1. /\ Len(bbs) \in Nat /\ Len(nbs) \in Nat /\ Len(bbs) <= Len(nbs)
      /\ \A x \in 1..Len(bbs) : bbs[x].succs \subseteq 1..Len(bbs)
      /\ \A x \in 1..Len(nbs) : \A y \in nbs[x].succs :
           \/ x <= Len(bbs) /\ y \in bbs[x].succs
           \/ x = ins /\ y \in Targets(f) \cup Added(bbs, nbs)
  BY DEF Leads
<1>2. /\ Q \subseteq 1..Len(bbs) /\ 1 \notin Q
      /\ \A x \in 1..Len(bbs) : \A y \in bbs[x].succs : y \in Q \ {d} => x \in Q
  BY DEF Sealed
<1>3. \A b \in Added(bbs, nbs) : b \in 1..Len(nbs) /\ b \notin 1..Len(bbs) /\ b # 1
  <2>1. Len(bbs) >= 1
    BY <1>1, <1>2
  <2> QED BY <1>1, <2>1 DEF Added
<1>4. Q \cup Added(bbs, nbs) \subseteq 1..Len(nbs) /\ 1 \notin Q \cup Added(bbs, nbs)
  <2>1. \A b \in Q : b \in 1..Len(nbs)
    BY <1>1, <1>2
  <2> QED BY <1>2, <1>3, <2>1
<1>5. ASSUME NEW x \in 1..Len(nbs), NEW y \in nbs[x].succs, y \in (Q \cup Added(bbs, nbs)) \ {d}
      PROVE  x \in Q \cup Added(bbs, nbs)
  <2>1. CASE x <= Len(bbs) /\ y \in bbs[x].succs
    <3>1. x \in 1..Len(bbs)
      BY <1>1, <2>1
    <3>2. y \in Q \ {d}
      BY <1>1, <1>3, <1>5, <2>1, <3>1
    <3> QED BY <1>2, <2>1, <3>1, <3>2
  <2> QED BY <1>1, <2>1
<1> QED BY <1>4, <1>5 DEF Sealed

\* Blocks made elsewhere do not.
LEMMA SealedStays ==
    ASSUME NEW f, NEW s, NEW bbs, NEW nbs, NEW ins, Leads(f, s, bbs, nbs, ins),
           NEW d, NEW Q, Sealed(bbs, d, Q), Clear(f, d, Q) \/ ins \in Q
    PROVE  Sealed(nbs, d, Q)
<1>1. /\ Len(bbs) \in Nat /\ Len(nbs) \in Nat /\ Len(bbs) <= Len(nbs)
      /\ \A x \in 1..Len(nbs) : \A y \in nbs[x].succs :
           \/ x <= Len(bbs) /\ y \in bbs[x].succs
           \/ x = ins /\ y \in Targets(f) \cup Added(bbs, nbs)
  BY DEF Leads
<1>2. /\ Q \subseteq 1..Len(bbs) /\ 1 \notin Q
      /\ \A x \in 1..Len(bbs) : \A y \in bbs[x].succs : y \in Q \ {d} => x \in Q
  BY DEF Sealed
<1>3. Q \subseteq 1..Len(nbs) /\ \A b \in Added(bbs, nbs) : b \notin Q
  BY <1>1, <1>2 DEF Added
<1>4. ASSUME NEW x \in 1..Len(nbs), NEW y \in nbs[x].succs, y \in Q \ {d}
      PROVE  x \in Q
  <2>1. CASE x <= Len(bbs) /\ y \in bbs[x].succs
    <3>1. x \in 1..Len(bbs)
      BY <1>1, <2>1
    <3> QED BY <1>2, <1>4, <2>1, <3>1
  <2>2. CASE x = ins /\ y \in Targets(f)
    BY <1>4, <2>2 DEF Clear
  <2> QED BY <1>1, <1>3, <1>4, <2>1, <2>2
<1> QED BY <1>2, <1>3, <1>4 DEF Sealed

\* What control is in, after a step: while the active frame was called since
\* control came there, ...
LEMMA InsideOn ==
    ASSUME NEW f, NEW s, NEW r, NEW bbs, NEW nbs, NEW ins, NEW nins,
           Flows(f, s, r, bbs, nbs, ins, nins),
           NEW t, FrameAt(t, Len(s)) = f, Len(s) \in Ranks(t),
           \A k \in Ranks(s) : k \in Ranks(t) /\ FrameAt(t, k) = FrameAt(s, k),
           NEW d, NEW Q, NEW c \in Nat, Inside(t, bbs, ins, d, Q, c), c <= Len(s)
    PROVE  Inside(r, nbs, nins, d, Q \cup Added(bbs, nbs), c)
<1> DEFINE P == Q \cup Added(bbs, nbs)
<1>1. /\ Leads(f, s, bbs, nbs, ins)
      /\ Follows(s, r, Added(bbs, nbs)) \/ Follows(s, r, Targets(f))
      /\ nins \in {ins} \cup Targets(f) \cup Added(bbs, nbs)
      /\ Len(s) \in Nat
      /\ \A k \in Ranks(r) : k \in Ranks(s) \/ k = Len(s) \/ k > Len(s)
  BY FlowFacts
<1>2. Sealed(bbs, d, Q) /\ ins \in Q /\ Targets(f) \subseteq Q
  BY DEF Inside
<1>3. Sealed(nbs, d, P)
  BY <1>1, <1>2, SealedGrows
<1>4. nins \in P /\ \A T : T \in {Added(bbs, nbs), Targets(f)} => T \subseteq P
  BY <1>1, <1>2
<1>5. \A x \in P : x \in Q \/ x \notin 1..Len(bbs)
  BY <1>1 DEF Leads, Added
<1> HIDE DEF P
<1>6. ASSUME NEW k \in Ranks(r)
      PROVE  IF c <= k THEN Targets(FrameAt(r, k)) \subseteq P ELSE Clear(FrameAt(r, k), d, P)
  <2>1. CASE k \in Ranks(s)
    <3>1. /\ FrameAt(r, k) = FrameAt(s, k) /\ FrameAt(t, k) = FrameAt(s, k) /\ k \in Ranks(t)
          /\ Targets(FrameAt(s, k)) \subseteq 1..Len(bbs)
      BY <1>1, <2>1 DEF Follows, Leads
    <3>2. IF c <= k THEN Targets(FrameAt(s, k)) \subseteq Q ELSE Clear(FrameAt(s, k), d, Q)
      BY <3>1 DEF Inside
    <3>3. Q \subseteq P
      BY DEF P
    <3> QED BY <1>5, <3>1, <3>2, <3>3 DEF Clear
  <2>2. CASE k = Len(s)
    <3>1. Targets(FrameAt(r, k)) \subseteq P
      BY <1>1, <1>4, <2>2 DEF Follows
    <3> QED BY <2>2, <3>1
  <2>3. CASE k > Len(s)
    <3>1. Targets(FrameAt(r, k)) = {} /\ c <= k
      BY <1>1, <2>3 DEF Follows, Ranks
    <3> QED BY <3>1
  <2> QED BY <1>1, <2>1, <2>2, <2>3
<1>7. Inside(r, nbs, nins, d, P, c)
  BY <1>3, <1>4, <1>6 DEF Inside
<1> QED BY <1>7 DEF P

\* ... and when the frames it calls may branch to new blocks only.
LEMMA InsideAnew ==
    ASSUME NEW f, NEW s, NEW r, NEW bbs, NEW nbs, NEW ins, NEW nins,
           Grows(f, s, r, bbs, nbs, ins, nins),
           NEW t, FrameAt(t, Len(s)) = f, Len(s) \in Ranks(t),
           \A k \in Ranks(s) : k \in Ranks(t) /\ FrameAt(t, k) = FrameAt(s, k),
           NEW d, NEW Q, NEW c \in Nat, Inside(t, bbs, ins, d, Q, c), Len(s) < c
    PROVE  Inside(r, nbs, nins, d, Q \cup Added(bbs, nbs), Len(s))
<1> DEFINE P == Q \cup Added(bbs, nbs)
<1>1. /\ Leads(f, s, bbs, nbs, ins) /\ Follows(s, r, Added(bbs, nbs))
      /\ nins \in {ins} \cup Added(bbs, nbs)
      /\ Len(s) \in Nat
      /\ \A k \in Ranks(r) : k \in Ranks(s) \/ k = Len(s) \/ k > Len(s)
  BY FlowFacts DEF Grows, Flows
<1>2. Sealed(bbs, d, Q) /\ ins \in Q
  BY DEF Inside
<1>3. Sealed(nbs, d, P)
  BY <1>1, <1>2, SealedGrows
<1>4. nins \in P /\ Added(bbs, nbs) \subseteq P
  BY <1>1, <1>2
<1>5. \A x \in P : x \in Q \/ x \notin 1..Len(bbs)
  BY <1>1 DEF Leads, Added
<1> HIDE DEF P
<1>6. ASSUME NEW k \in Ranks(r)
      PROVE  IF Len(s) <= k THEN Targets(FrameAt(r, k)) \subseteq P ELSE Clear(FrameAt(r, k), d, P)
  <2>1. CASE k \in Ranks(s)
    <3>1. /\ FrameAt(r, k) = FrameAt(s, k) /\ FrameAt(t, k) = FrameAt(s, k) /\ k \in Ranks(t)
          /\ Targets(FrameAt(s, k)) \subseteq 1..Len(bbs)
      BY <1>1, <2>1 DEF Follows, Leads
    <3>2. ~(c <= k) /\ ~(Len(s) <= k)
      BY <1>1, <2>1 DEF Ranks
    <3>3. Clear(FrameAt(s, k), d, Q)
      BY <3>1, <3>2 DEF Inside
    <3> QED BY <1>5, <3>1, <3>2, <3>3 DEF Clear
  <2>2. CASE k = Len(s)
    <3>1. Targets(FrameAt(r, k)) \subseteq P
      BY <1>1, <1>4, <2>2 DEF Follows
    <3> QED BY <1>1, <2>2, <3>1
  <2>3. CASE k > Len(s)
    <3>1. Targets(FrameAt(r, k)) = {} /\ Len(s) <= k
      BY <1>1, <2>3 DEF Follows, Ranks
    <3> QED BY <3>1
  <2> QED BY <1>1, <2>1, <2>2, <2>3
<1>7. Inside(r, nbs, nins, d, P, Len(s))
  BY <1>3, <1>4, <1>6 DEF Inside
<1> QED BY <1>7 DEF P

\* Else control stays where it is, or leaves.
LEMMA InsideOut ==
    ASSUME NEW f, NEW s, NEW r, NEW bbs, NEW nbs, NEW ins, NEW nins,
           Turns(f, s, r, bbs, nbs, ins, nins),
           NEW t, FrameAt(t, Len(s)) = f, Len(s) \in Ranks(t),
           \A k \in Ranks(s) : k \in Ranks(t) /\ FrameAt(t, k) = FrameAt(s, k),
           NEW d, NEW Q, NEW c \in Nat, Inside(t, bbs, ins, d, Q, c), Len(s) < c
    PROVE  Sealed(nbs, d, Q) /\ Gone(r, d, Q)
<1>1. /\ Leads(f, s, bbs, nbs, ins) /\ Follows(s, r, Targets(f))
      /\ Len(s) \in Nat
      /\ \A k \in Ranks(r) : k \in Ranks(s) \/ k = Len(s) \/ k > Len(s)
  BY FlowFacts DEF Turns, Flows
<1>2. Sealed(bbs, d, Q) /\ ins \in Q /\ Clear(f, d, Q)
  BY <1>1 DEF Inside
<1>3. Sealed(nbs, d, Q)
  BY <1>1, <1>2, SealedStays
<1>4. ASSUME NEW k \in Ranks(r)
      PROVE  Clear(FrameAt(r, k), d, Q)
  <2>1. CASE k \in Ranks(s)
    <3>1. FrameAt(r, k) = FrameAt(s, k) /\ FrameAt(t, k) = FrameAt(s, k) /\ k \in Ranks(t)
      BY <1>1, <2>1 DEF Follows
    <3>2. ~(c <= k)
      BY <1>1, <2>1 DEF Ranks
    <3> QED BY <3>1, <3>2 DEF Inside
  <2>2. CASE k = Len(s)
    BY <1>1, <1>2, <2>2 DEF Follows, Clear
  <2>3. CASE k > Len(s)
    BY <1>1, <2>3 DEF Follows, Clear
  <2> QED BY <1>1, <2>1, <2>2, <2>3
<1> QED BY <1>3, <1>4 DEF Gone

\* Once it has left, it does not come back.
LEMMA GoneOn ==
    ASSUME NEW f, NEW s, NEW r, NEW bbs, NEW nbs, NEW ins, NEW nins,
           Flows(f, s, r, bbs, nbs, ins, nins),
           NEW t, FrameAt(t, Len(s)) = f, Len(s) \in Ranks(t),
           \A k \in Ranks(s) : k \in Ranks(t) /\ FrameAt(t, k) = FrameAt(s, k),
           NEW d, NEW Q, Sealed(bbs, d, Q), Gone(t, d, Q)
    PROVE  Sealed(nbs, d, Q) /\ Gone(r, d, Q)
<1>1. /\ Leads(f, s, bbs, nbs, ins)
      /\ Follows(s, r, Added(bbs, nbs)) \/ Follows(s, r, Targets(f))
      /\ \A k \in Ranks(r) : k \in Ranks(s) \/ k = Len(s) \/ k > Len(s)
  BY FlowFacts
<1>2. Clear(f, d, Q)
  BY DEF Gone
<1>3. Sealed(nbs, d, Q)
  BY <1>1, <1>2, SealedStays
<1>4. \A T : T \in {Added(bbs, nbs), Targets(f)} => T \cap (Q \ {d}) = {}
  <2>1. Q \subseteq 1..Len(bbs) /\ Len(bbs) \in Nat
    BY <1>1 DEF Sealed, Leads
  <2>2. Added(bbs, nbs) \cap Q = {}
    BY <2>1 DEF Added
  <2> QED BY <1>2, <2>2 DEF Clear
<1>5. ASSUME NEW k \in Ranks(r)
      PROVE  Clear(FrameAt(r, k), d, Q)
  <2>1. CASE k \in Ranks(s)
    <3>1. FrameAt(r, k) = FrameAt(s, k) /\ FrameAt(t, k) = FrameAt(s, k) /\ k \in Ranks(t)
      BY <1>1, <2>1 DEF Follows
    <3> QED BY <3>1 DEF Gone
  <2>2. CASE k = Len(s)
    BY <1>1, <1>4, <2>2 DEF Follows, Clear
  <2>3. CASE k > Len(s)
    BY <1>1, <2>3 DEF Follows, Clear
  <2> QED BY <1>1, <2>1, <2>2, <2>3
<1> QED BY <1>3, <1>5 DEF Gone
-----------------------------------------------------------------------------
(* What can still be used, and what was                                    *)

LEMMA AddedFacts ==
    ASSUME NEW bbs, NEW nbs, Len(bbs) \in Nat, Len(nbs) \in Nat, Len(bbs) <= Len(nbs),
           NEW Q \in SUBSET (1..Len(bbs))
    PROVE  Q \in SUBSET (1..Len(nbs)) /\ Q \cup Added(bbs, nbs) \in SUBSET (1..Len(nbs))
<1> DEFINE m == Len(bbs)
           n == Len(nbs)
<1> HIDE DEF m, n
<1>1. m \in Nat /\ n \in Nat /\ m <= n /\ Q \in SUBSET (1..m)
  BY DEF m, n
<1>2. \A b \in Q : b \in 1..n
  BY <1>1
<1>3. \A b \in (m + 1)..n : b \in 1..n
  BY <1>1
<1>4. Added(bbs, nbs) = (m + 1)..n
  BY DEF Added, m, n
<1>5. \A b \in Q \cup Added(bbs, nbs) : b \in 1..n
  BY <1>2, <1>3, <1>4
<1> QED BY <1>2, <1>5 DEF n

\* A definition lasts as long as the frames that were below the active one,
\* and if these are called since, as long as what the active frame calls.
LEMMA LivingOn ==
    ASSUME NEW f, NEW s, NEW r, NEW bbs, NEW nbs, NEW ins, NEW nins,
           Flows(f, s, r, bbs, nbs, ins, nins),
           NEW t, FrameAt(t, Len(s)) = f, Len(s) \in Ranks(t),
           \A k \in Ranks(s) : k \in Ranks(t) /\ FrameAt(t, k) = FrameAt(s, k),
           NEW d, NEW q, <<d, q>> \in Living(t, bbs, ins)
    PROVE  /\ q <= Len(s) => <<d, q>> \in Living(r, nbs, nins)
           /\ Grows(f, s, r, bbs, nbs, ins, nins) => <<d, Len(s)>> \in Living(r, nbs, nins)
<1>1. /\ Leads(f, s, bbs, nbs, ins) /\ Len(s) \in Nat
      /\ Len(bbs) \in Nat /\ Len(nbs) \in Nat /\ Len(bbs) <= Len(nbs)
  BY FlowFacts DEF Leads
<1>2. d \in Nat /\ q \in Nat
  BY DEF Living
<1>3. CASE d = 1
  <2>1. <<d, q>>[1] = 1 /\ <<d, Len(s)>>[1] = 1
    BY <1>3
  <2> QED BY <1>1, <1>2, <2>1 DEF Living
<1>4. CASE d # 1
  <2>1. \E Q \in SUBSET (1..Len(bbs)), c \in 0..q : Inside(t, bbs, ins, d, Q, c)
    BY <1>4 DEF Living
  <2>2. PICK Q \in SUBSET (1..Len(bbs)), c \in 0..q : Inside(t, bbs, ins, d, Q, c)
    BY <2>1
  <2> DEFINE P == Q \cup Added(bbs, nbs)
  <2>3. P \in SUBSET (1..Len(nbs)) /\ c \in Nat
    BY <1>1, <1>2, AddedFacts, SMTT(30)
  <2>4. ASSUME NEW e \in Nat, NEW b \in 0..e, Inside(r, nbs, nins, d, P, b)
        PROVE  <<d, e>> \in Living(r, nbs, nins)
    <3> HIDE DEF P
    <3>1. <<d, e>> \in Nat \X Nat /\ <<d, e>>[1] = d /\ <<d, e>>[2] = e
      BY <1>2
    <3> QED BY <2>3, <2>4, <3>1 DEF Living
  <2>5. CASE c <= Len(s)
    <3>1. Inside(r, nbs, nins, d, P, c)
      BY <2>2, <2>3, <2>5, InsideOn
    <3>2. c \in 0..Len(s)
      BY <1>1, <2>3, <2>5
    <3> QED BY <1>1, <1>2, <2>4, <3>1, <3>2
  <2>6. CASE ~(c <= Len(s))
    <3>1. ~(q <= Len(s)) /\ Len(s) < c
      BY <1>1, <1>2, <2>2, <2>6
    <3>2. ASSUME Grows(f, s, r, bbs, nbs, ins, nins)
          PROVE  Inside(r, nbs, nins, d, P, Len(s))
      BY <2>2, <2>3, <3>1, <3>2, InsideAnew
    <3>3. Len(s) \in 0..Len(s)
      BY <1>1
    <3> QED BY <1>1, <2>4, <3>1, <3>2, <3>3
  <2> QED BY <2>5, <2>6
<1> QED BY <1>3, <1>4

\* A use on record stays one on record.
LEMMA RecordedOn ==
    ASSUME NEW f, NEW s, NEW r, NEW bbs, NEW nbs, NEW ins, NEW nins,
           Flows(f, s, r, bbs, nbs, ins, nins),
           NEW t, FrameAt(t, Len(s)) = f, Len(s) \in Ranks(t),
           \A k \in Ranks(s) : k \in Ranks(t) /\ FrameAt(t, k) = FrameAt(s, k),
           NEW d, NEW u, Recorded(t, bbs, ins, d, u)
    PROVE  Recorded(r, nbs, nins, d, u)
<1>1. /\ Leads(f, s, bbs, nbs, ins) /\ Len(s) \in Nat
      /\ Len(bbs) \in Nat /\ Len(nbs) \in Nat /\ Len(bbs) <= Len(nbs)
  BY FlowFacts DEF Leads
<1>2. PICK Q \in SUBSET (1..Len(bbs)) :
        /\ Sealed(bbs, d, Q) /\ u \in Q
        /\ Gone(t, d, Q) \/ \E c \in Nat : Inside(t, bbs, ins, d, Q, c)
  BY DEF Recorded
<1> DEFINE P == Q \cup Added(bbs, nbs)
<1>3. P \in SUBSET (1..Len(nbs)) /\ u \in P /\ Q \in SUBSET (1..Len(nbs))
  BY <1>1, <1>2, AddedFacts
<1>4. CASE Gone(t, d, Q)
  <2>1. Sealed(nbs, d, Q) /\ Gone(r, d, Q)
    BY <1>2, <1>4, GoneOn
  <2> QED BY <1>2, <1>3, <2>1 DEF Recorded
<1>5. ASSUME NEW c \in Nat, Inside(t, bbs, ins, d, Q, c)
      PROVE  Recorded(r, nbs, nins, d, u)
  <2>1. ASSUME NEW b \in Nat, Inside(r, nbs, nins, d, P, b)
        PROVE  Recorded(r, nbs, nins, d, u)
    <3> HIDE DEF P
    <3>1. Sealed(nbs, d, P)
      BY <2>1 DEF Inside
    <3> QED BY <1>3, <2>1, <3>1 DEF Recorded
  <2>2. CASE c <= Len(s)
    <3>1. Inside(r, nbs, nins, d, P, c)
      BY <1>5, <2>2, InsideOn
    <3> QED BY <2>1, <3>1
  <2>3. CASE ~(c <= Len(s))
    <3>1. Len(s) < c
      BY <1>1, <2>3
    <3>2. CASE Grows(f, s, r, bbs, nbs, ins, nins)
      <4>1. Inside(r, nbs, nins, d, P, Len(s))
        BY <1>5, <3>1, <3>2, InsideAnew
      <4> QED BY <1>1, <2>1, <4>1
    <3>3. CASE Turns(f, s, r, bbs, nbs, ins, nins)
      <4>1. Sealed(nbs, d, Q) /\ Gone(r, d, Q)
        BY <1>5, <3>1, <3>3, InsideOut
      <4> QED BY <1>2, <1>3, <4>1 DEF Recorded
    <3> QED BY <3>2, <3>3 DEF Flows
  <2> QED BY <2>2, <2>3
<1> QED BY <1>2, <1>4, <1>5

\* What can be used, can be used in the insert block.
LEMMA LivingRecorded ==
    ASSUME NEW s, NEW bbs, NEW ins, NEW d, NEW q, <<d, q>> \in Living(s, bbs, ins), d # 1
    PROVE  Recorded(s, bbs, ins, d, ins)
<1>1. q \in Nat
  BY DEF Living
<1>2. \E Q \in SUBSET (1..Len(bbs)), c \in 0..q : Inside(s, bbs, ins, d, Q, c)
  BY DEF Living
<1>3. PICK Q \in SUBSET (1..Len(bbs)), c \in 0..q : Inside(s, bbs, ins, d, Q, c)
  BY <1>2
<1>4. Sealed(bbs, d, Q) /\ ins \in Q /\ c \in Nat
  BY <1>1, <1>3 DEF Inside
<1> QED BY <1>3, <1>4 DEF Recorded

LEMMA LivingLonger ==
    ASSUME NEW s, NEW bbs, NEW ins, NEW d, NEW q, <<d, q>> \in Living(s, bbs, ins),
           NEW e \in Nat, q <= e
    PROVE  <<d, e>> \in Living(s, bbs, ins)
<1>1. q \in Nat /\ d \in Nat /\ 0..q \subseteq 0..e
  BY DEF Living
<1>2. d = 1 \/ \E Q \in SUBSET (1..Len(bbs)), c \in 0..q : Inside(s, bbs, ins, d, Q, c)
  BY DEF Living
<1>3. /\ <<d, e>> \in Nat \X Nat /\ <<d, e>>[1] = d /\ <<d, e>>[2] = e
      /\ d = 1 \/ \E Q \in SUBSET (1..Len(bbs)), c \in 0..e : Inside(s, bbs, ins, d, Q, c)
  BY <1>1, <1>2
<1> QED BY <1>3 DEF Living

\* What is in the entry block can be used everywhere; what is in the insert
\* block, as long as control does not leave that block.
LEMMA LivingEntry ==
    ASSUME NEW s, NEW bbs, NEW ins, NEW q \in Nat
    PROVE  <<1, q>> \in Living(s, bbs, ins)
<1>1. <<1, q>> \in Nat \X Nat /\ <<1, q>>[1] = 1
  OBVIOUS
<1> QED BY <1>1 DEF Living

LEMMA LivingHere ==
    ASSUME NEW s, NEW bbs, NEW ins \in 1..Len(bbs), NEW q \in Nat,
           \A k \in Ranks(s) : q <= k => Targets(FrameAt(s, k)) = {}
    PROVE  <<ins, q>> \in Living(s, bbs, ins)
<1>1. CASE ins = 1
  BY <1>1, LivingEntry
<1>2. CASE ins # 1
  <2> DEFINE Q == {ins}
  <2>1. Sealed(bbs, ins, Q)
    BY <1>2 DEF Sealed
  <2>2. Inside(s, bbs, ins, ins, Q, q)
    BY <2>1 DEF Inside, Clear
  <2>3. /\ <<ins, q>> \in Nat \X Nat /\ <<ins, q>>[1] = ins /\ <<ins, q>>[2] = q
        /\ Q \in SUBSET (1..Len(bbs)) /\ q \in 0..q
    OBVIOUS
  <2> QED BY <2>2, <2>3 DEF Living
<1> QED BY <1>1, <1>2
-----------------------------------------------------------------------------
(* What the frames own                                                     *)

LEMMA KeepsLivePush ==
    ASSUME NEW s \in Seq(Frames), NEW f \in Frames, NEW G
    PROVE  KeepsLive(<<f>> \o s, G) <=>
             KeepsLive(s, G) /\ \A d \in Keeps(f) : <<d, Len(s)>> \in G
<1> DEFINE r == <<f>> \o s
<1>1. /\ FrameAt(r, Len(s)) = f
      /\ \A k \in Ranks(s) : FrameAt(r, k) = FrameAt(s, k)
      /\ \A k : k \in Ranks(r) <=> k \in Ranks(s) \/ k = Len(s)
  BY RankPush, Zenon
<1> HIDE DEF r
<1>2. KeepsLive(r, G) <=> KeepsLive(s, G) /\ \A d \in Keeps(f) : <<d, Len(s)>> \in G
  BY <1>1 DEF KeepsLive
<1> QED BY <1>2 DEF r

LEMMA HeldLivePush ==
    ASSUME NEW s \in Seq(Frames), NEW f \in Frames, NEW ops, NEW G
    PROVE  HeldLive(<<f>> \o s, ops, G) <=>
             /\ HeldLive(s, ops, G)
             /\ Held(f) => <<ops[HeldCount(s) + 1].block, Len(s)>> \in G
<1> DEFINE r == <<f>> \o s
<1>1. /\ Len(r) = Len(s) + 1 /\ r[1] = f /\ Len(s) \in Nat
      /\ \A i \in 1..Len(s) : r[i + 1] = s[i] /\ i + 1 \in 1..Len(r)
  BY Pushed
<1>2. /\ HeldCount(s) \in Nat /\ HeldCount(r) = HeldCount(s) + Count(Held(f))
      /\ \A i \in 1..Len(s) : Depth(r, i + 1) = Depth(s, i)
      /\ Depth(r, 1) = HeldCount(r)
  BY HeldPush, DepthPush
<1> HIDE DEF r
<1>3. /\ \A i \in Pending(s) : i \in 1..Len(s) /\ i + 1 \in Pending(r)
                               /\ Len(r) - (i + 1) = Len(s) - i
      /\ Held(f) => 1 \in Pending(r)
      /\ \A i \in Pending(r) : (i = 1 /\ Held(f)) \/ (i - 1 \in Pending(s) /\ (i - 1) + 1 = i)
  <2>1. ASSUME NEW i \in Pending(s)
        PROVE  i \in 1..Len(s) /\ i + 1 \in Pending(r) /\ Len(r) - (i + 1) = Len(s) - i
    BY <1>1 DEF Pending
  <2>2. 1 \in 1..Len(r)
    BY <1>1
  <2>3. ASSUME NEW i \in Pending(r), i # 1
        PROVE  i - 1 \in Pending(s) /\ (i - 1) + 1 = i
    <3>1. i - 1 \in 1..Len(s) /\ (i - 1) + 1 = i
      BY <1>1, <2>3 DEF Pending
    <3> QED BY <1>1, <3>1 DEF Pending
  <2> QED BY <1>1, <2>1, <2>2, <2>3 DEF Pending
<1>4. ASSUME HeldLive(r, ops, G)
      PROVE  HeldLive(s, ops, G) /\ (Held(f) => <<ops[HeldCount(s) + 1].block, Len(s)>> \in G)
  <2>1. ASSUME NEW i \in Pending(s) PROVE <<ops[Depth(s, i)].block, Len(s) - i>> \in G
    <3>1. <<ops[Depth(r, i + 1)].block, Len(r) - (i + 1)>> \in G
      BY <1>3, <1>4 DEF HeldLive
    <3>2. Depth(r, i + 1) = Depth(s, i) /\ Len(r) - (i + 1) = Len(s) - i
      BY <1>2, <1>3
    <3> QED BY <3>1, <3>2
  <2>2. ASSUME Held(f) PROVE <<ops[HeldCount(s) + 1].block, Len(s)>> \in G
    <3>1. <<ops[Depth(r, 1)].block, Len(r) - 1>> \in G
      BY <1>3, <1>4, <2>2 DEF HeldLive
    <3>2. Depth(r, 1) = HeldCount(s) + 1 /\ Len(r) - 1 = Len(s)
      BY <1>1, <1>2, <2>2 DEF Count
    <3> QED BY <3>1, <3>2
  <2> QED BY <2>1, <2>2 DEF HeldLive
<1>5. ASSUME HeldLive(s, ops, G), Held(f) => <<ops[HeldCount(s) + 1].block, Len(s)>> \in G
      PROVE  HeldLive(r, ops, G)
  <2> SUFFICES ASSUME NEW i \in Pending(r) PROVE <<ops[Depth(r, i)].block, Len(r) - i>> \in G
    BY DEF HeldLive
  <2>1. CASE i = 1 /\ Held(f)
    <3>1. Depth(r, 1) = HeldCount(s) + 1 /\ Len(r) - 1 = Len(s)
      BY <1>1, <1>2, <2>1 DEF Count
    <3> QED BY <1>5, <2>1, <3>1
  <2>2. CASE i - 1 \in Pending(s) /\ (i - 1) + 1 = i
    <3>1. <<ops[Depth(s, i - 1)].block, Len(s) - (i - 1)>> \in G
      BY <1>5, <2>2 DEF HeldLive
    <3>2. Depth(r, i) = Depth(s, i - 1) /\ Len(r) - i = Len(s) - (i - 1)
      BY <1>2, <1>3, <2>2
    <3> QED BY <3>1, <3>2
  <2> QED BY <1>3, <2>1, <2>2
<1> QED BY <1>4, <1>5 DEF r

LEMMA PlacedPush ==
    ASSUME NEW s \in Seq(Frames), NEW f \in Frames
    PROVE  Placed(<<f>> \o s) <=>
             Placed(s) /\ (Binds(f) => s # <<>> /\ Head(s).at \in ScopeLabels)
<1> DEFINE r == <<f>> \o s
<1>1. /\ FrameAt(r, Len(s)) = f /\ Len(s) \in Nat
      /\ \A k \in Ranks(s) : FrameAt(r, k) = FrameAt(s, k)
      /\ \A k : k \in Ranks(r) <=> k \in Ranks(s) \/ k = Len(s)
  BY RankPush, Zenon
<1> HIDE DEF r
<1>2. \A k \in Ranks(s) : k # 0 => k - 1 \in Ranks(s)
  BY <1>1 DEF Ranks
<1>3. Len(s) # 0 => Len(s) - 1 \in Ranks(s) /\ FrameAt(s, Len(s) - 1) = Head(s)
  <2>1. Len(s) - (Len(s) - 1) = 1
    BY <1>1
  <2> QED BY <1>1, <2>1 DEF Ranks, FrameAt
<1>4. s # <<>> <=> Len(s) # 0
  OBVIOUS
<1>5. Placed(r) <=> Placed(s) /\ (Binds(f) => Len(s) # 0 /\ FrameAt(r, Len(s) - 1).at \in ScopeLabels)
  BY <1>1, <1>2 DEF Placed
<1>6. Len(s) # 0 => FrameAt(r, Len(s) - 1) = Head(s)
  BY <1>1, <1>3
<1>7. Placed(r) <=> Placed(s) /\ (Binds(f) => s # <<>> /\ Head(s).at \in ScopeLabels)
  BY <1>4, <1>5, <1>6
<1> QED BY <1>7 DEF r

\* A scope is put on top of those of base.
OneMore(scopes, base) ==
    /\ Len(base) \in Nat /\ Len(scopes) = Len(base) + 1
    /\ \A m \in 1..Len(base) : scopes[m] = base[m]

\* The frame f has its scope on top of those of base, if it has one.
Scoping(f, base, scopes, k, G) ==
    IF f.at \in ScopeLabels THEN OneMore(scopes, base) /\ BoundLive(scopes[Len(scopes)], k, G)
                            ELSE scopes = base

LEMMA ScopesPush ==
    ASSUME NEW s \in Seq(Frames), NEW f \in Frames, NEW base, NEW scopes, NEW G,
           Len(base) \in Nat, ScopesLive(s, base, G), Scoping(f, base, scopes, Len(s), G)
    PROVE  ScopesLive(<<f>> \o s, scopes, G)
<1> DEFINE r == <<f>> \o s
           n == Len(base)
<1>1. /\ FrameAt(r, Len(s)) = f /\ Len(s) \in Nat
      /\ \A k \in Ranks(s) : FrameAt(r, k) = FrameAt(s, k)
      /\ \A k : k \in Ranks(r) <=> k \in Ranks(s) \/ k = Len(s)
      /\ \A k \in Ranks(s) : k < Len(s) /\ k \in Nat
  <2>1. /\ FrameAt(r, Len(s)) = f /\ Len(s) \in Nat
        /\ \A k \in Ranks(s) : FrameAt(r, k) = FrameAt(s, k)
        /\ \A k : k \in Ranks(r) <=> k \in Ranks(s) \/ k = Len(s)
    BY RankPush, Zenon
  <2> HIDE DEF r
  <2>2. \A k \in Ranks(s) : k < Len(s) /\ k \in Nat
    BY <2>1 DEF Ranks
  <2> QED BY <2>1, <2>2
<1> HIDE DEF r, n
<1>2. PICK p \in [1..n -> Ranks(s)] :
        Places(s, n, p) /\ \A m \in 1..n : BoundLive(base[m], p[m], G)
  BY DEF ScopesLive, n
<1>3. CASE f.at \in ScopeLabels
  <2> DEFINE q == [m \in 1..(n + 1) |-> IF m = n + 1 THEN Len(s) ELSE p[m]]
  <2>1. n \in Nat /\ Len(scopes) = n + 1 /\ \A m \in 1..n : scopes[m] = base[m]
    BY <1>3 DEF Scoping, OneMore, n
  <2>2. \A m \in 1..(n + 1) : m = n + 1 \/ m \in 1..n
    BY <2>1
  <2>3. /\ q[n + 1] = Len(s) /\ n + 1 \in 1..(n + 1)
        /\ \A m \in 1..n : q[m] = p[m] /\ m # n + 1 /\ m < n + 1
    BY <2>1
  <2>4. q \in [1..(n + 1) -> Ranks(r)]
    BY <1>1, <1>2, <2>2
  <2> HIDE DEF q
  <2>5. Places(r, n + 1, q)
    <3>1. ASSUME NEW m \in 1..(n + 1)
          PROVE  q[m] \in Ranks(r) /\ FrameAt(r, q[m]).at \in ScopeLabels
      <4>1. CASE m = n + 1
        BY <1>1, <1>3, <2>3, <4>1
      <4>2. CASE m \in 1..n
        <5>1. p[m] \in Ranks(s) /\ FrameAt(s, p[m]).at \in ScopeLabels
          BY <1>2, <4>2 DEF Places
        <5> QED BY <1>1, <2>3, <4>2, <5>1
      <4> QED BY <2>2, <4>1, <4>2
    <3>2. ASSUME NEW m \in 1..(n + 1), NEW l \in 1..(n + 1), m < l
          PROVE  q[m] < q[l]
      <4>1. m \in 1..n
        BY <2>1, <3>2
      <4>2. CASE l = n + 1
        <5>1. p[m] < Len(s)
          BY <1>1, <1>2, <4>1
        <5> QED BY <2>3, <4>1, <4>2, <5>1
      <4>3. CASE l \in 1..n
        <5>1. p[m] < p[l]
          BY <1>2, <3>2, <4>1, <4>3 DEF Places
        <5> QED BY <2>3, <4>1, <4>3, <5>1
      <4> QED BY <2>2, <4>2, <4>3
    <3>3. ASSUME NEW k \in Ranks(r), FrameAt(r, k).at \in ScopeLabels
          PROVE  \E m \in 1..(n + 1) : q[m] = k
      <4>1. CASE k = Len(s)
        BY <2>3, <4>1
      <4>2. CASE k \in Ranks(s)
        <5>1. PICK m \in 1..n : p[m] = k
          BY <1>1, <1>2, <3>3, <4>2 DEF Places
        <5>2. m \in 1..(n + 1)
          BY <2>1
        <5> QED BY <2>3, <5>1, <5>2
      <4> QED BY <1>1, <4>1, <4>2
    <3> QED BY <3>1, <3>2, <3>3 DEF Places
  <2>6. \A m \in 1..(n + 1) : BoundLive(scopes[m], q[m], G)
    <3> TAKE m \in 1..(n + 1)
    <3>1. CASE m = n + 1
      BY <1>3, <2>1, <2>3, <3>1 DEF Scoping
    <3>2. CASE m \in 1..n
      BY <1>2, <2>1, <2>3, <3>2
    <3> QED BY <2>2, <3>1, <3>2
  <2>7. ScopesLive(r, scopes, G)
    BY <2>1, <2>4, <2>5, <2>6 DEF ScopesLive
  <2> QED BY <2>7 DEF r
<1>4. CASE f.at \notin ScopeLabels
  <2>1. p \in [1..n -> Ranks(r)] /\ scopes = base
    <3>1. p \in [1..n -> Ranks(r)]
      BY <1>1, <1>2
    <3> QED BY <1>4, <3>1 DEF Scoping
  <2>2. Places(r, n, p)
    BY <1>1, <1>2, <1>4 DEF Places
  <2>3. ScopesLive(r, scopes, G)
    BY <1>2, <2>1, <2>2 DEF ScopesLive, n
  <2> QED BY <2>3 DEF r
<1> QED BY <1>3, <1>4

\* What the scopes bind that are not of the frame f.
LEMMA ScopesPop ==
    ASSUME NEW s \in Seq(Frames), NEW f \in Frames, NEW scopes, NEW G,
           Len(scopes) \in Nat, ScopesLive(<<f>> \o s, scopes, G)
    PROVE  /\ f.at \in ScopeLabels =>
                /\ Len(scopes) # 0 /\ BoundLive(scopes[Len(scopes)], Len(s), G)
                /\ \A base : OneMore(scopes, base) => ScopesLive(s, base, G)
           /\ f.at \notin ScopeLabels => ScopesLive(s, scopes, G)
<1> DEFINE r == <<f>> \o s
           n == Len(scopes)
<1>1. /\ FrameAt(r, Len(s)) = f /\ Len(s) \in Nat
      /\ \A k \in Ranks(s) : FrameAt(r, k) = FrameAt(s, k)
      /\ \A k : k \in Ranks(r) <=> k \in Ranks(s) \/ k = Len(s)
      /\ \A k \in Ranks(r) : k \in Nat /\ (k < Len(s) => k \in Ranks(s)) /\ k <= Len(s)
      /\ \A k \in Ranks(s) : k < Len(s)
  <2>1. /\ FrameAt(r, Len(s)) = f /\ Len(s) \in Nat
        /\ \A k \in Ranks(s) : FrameAt(r, k) = FrameAt(s, k)
        /\ \A k : k \in Ranks(r) <=> k \in Ranks(s) \/ k = Len(s)
    BY RankPush, Zenon
  <2> HIDE DEF r
  <2>2. \A k \in Ranks(r) : k \in Nat /\ (k < Len(s) => k \in Ranks(s)) /\ k <= Len(s)
    BY <2>1 DEF Ranks
  <2>3. \A k \in Ranks(s) : k < Len(s)
    BY <2>1 DEF Ranks
  <2> QED BY <2>1, <2>2, <2>3
<1>2. ScopesLive(r, scopes, G)
  OBVIOUS
<1> HIDE DEF r
<1>3. PICK p \in [1..n -> Ranks(r)] :
        Places(r, n, p) /\ \A m \in 1..n : BoundLive(scopes[m], p[m], G)
  BY <1>2 DEF ScopesLive
<1> HIDE DEF n
<1>4. ASSUME f.at \in ScopeLabels
      PROVE  /\ n # 0 /\ BoundLive(scopes[n], Len(s), G)
             /\ \A base : OneMore(scopes, base) => ScopesLive(s, base, G)
  <2>1. PICK m \in 1..n : p[m] = Len(s)
    BY <1>1, <1>3, <1>4 DEF Places
  <2>2. n \in Nat /\ n \in 1..n /\ n # 0
    BY <2>1 DEF n
  <2>3. m = n
    <3>1. m < n => p[m] < p[n]
      BY <1>3, <2>2 DEF Places
    <3>2. p[n] \in Nat /\ p[n] <= Len(s)
      BY <1>1, <1>3, <2>2
    <3> QED BY <1>1, <2>1, <2>2, <3>1, <3>2
  <2>4. ASSUME NEW base, OneMore(scopes, base)
        PROVE  ScopesLive(s, base, G)
    <3> DEFINE b == Len(base)
               q == [l \in 1..b |-> p[l]]
    <3>1. b \in Nat /\ n = b + 1 /\ \A l \in 1..b : scopes[l] = base[l]
      BY <2>4 DEF OneMore, n
    <3>2. \A l \in 1..b : l \in 1..n /\ l < n
      BY <3>1
    <3>3. \A l \in 1..b : q[l] = p[l] /\ p[l] \in Ranks(s)
      <4> TAKE l \in 1..b
      <4>1. p[l] < p[n] /\ p[l] \in Ranks(r)
        BY <1>3, <2>2, <3>2 DEF Places
      <4> QED BY <1>1, <2>1, <2>3, <4>1
    <3>4. q \in [1..b -> Ranks(s)]
      BY <3>3
    <3> HIDE DEF q, b
    <3>5. Places(s, b, q)
      <4>1. \A l \in 1..b : q[l] \in Ranks(s) /\ FrameAt(s, q[l]).at \in ScopeLabels
        BY <1>1, <1>3, <3>2, <3>3 DEF Places
      <4>2. \A l, j \in 1..b : l < j => q[l] < q[j]
        BY <1>3, <3>2, <3>3 DEF Places
      <4>3. ASSUME NEW k \in Ranks(s), FrameAt(s, k).at \in ScopeLabels
            PROVE  \E l \in 1..b : q[l] = k
        <5>1. k \in Ranks(r) /\ FrameAt(r, k).at \in ScopeLabels /\ k # Len(s)
          BY <1>1, <4>3
        <5>2. PICK l \in 1..n : p[l] = k
          BY <1>3, <5>1 DEF Places
        <5>3. l # n
          BY <2>1, <2>3, <5>1, <5>2
        <5>4. l \in 1..b
          BY <3>1, <5>3
        <5> QED BY <3>3, <5>2, <5>4
      <4> QED BY <4>1, <4>2, <4>3 DEF Places
    <3>6. \A l \in 1..b : BoundLive(base[l], q[l], G)
      BY <1>3, <3>1, <3>2, <3>3
    <3> QED BY <3>4, <3>5, <3>6 DEF ScopesLive, b
  <2> QED BY <1>3, <2>1, <2>2, <2>3, <2>4
<1>5. ASSUME f.at \notin ScopeLabels
      PROVE  ScopesLive(s, scopes, G)
  <2>1. \A m \in 1..n : p[m] \in Ranks(s)
    <3> TAKE m \in 1..n
    <3>1. p[m] \in Ranks(r) /\ FrameAt(r, p[m]).at \in ScopeLabels
      BY <1>3 DEF Places
    <3> QED BY <1>1, <1>5, <3>1
  <2>2. p \in [1..n -> Ranks(s)]
    BY <1>3, <2>1
  <2>3. Places(s, n, p)
    BY <1>1, <1>3, <2>1 DEF Places
  <2> QED BY <1>3, <2>2, <2>3 DEF ScopesLive, n
<1> QED BY <1>4, <1>5 DEF n

\* What is in G is in H as far as the frames of s need it.
Lasts(s, G, H) == \A d : \A k \in Ranks(s) : <<d, k>> \in G => <<d, k>> \in H

LEMMA OwnedLasts ==
    ASSUME NEW s \in Seq(Frames), NEW ops, NEW new, NEW scopes, NEW G, NEW H,
           Owned(s, ops, scopes, G), Lasts(s, G, H),
           \A k \in 1..HeldCount(s) : new[k] = ops[k]
    PROVE  Owned(s, new, scopes, H)
<1>1. KeepsLive(s, H)
  BY DEF Owned, KeepsLive, Lasts
<1>2. HeldLive(s, new, H)
  <2> SUFFICES ASSUME NEW i \in Pending(s) PROVE <<new[Depth(s, i)].block, Len(s) - i>> \in H
    BY DEF HeldLive
  <2>1. Depth(s, i) \in 1..HeldCount(s)
    BY DepthRange
  <2>2. Len(s) - i \in Ranks(s)
    BY DEF Pending, Ranks
  <2>3. <<ops[Depth(s, i)].block, Len(s) - i>> \in G
    BY DEF Owned, HeldLive
  <2> QED BY <2>1, <2>2, <2>3 DEF Lasts
<1>3. ScopesLive(s, scopes, H)
  <2>1. PICK p \in [1..Len(scopes) -> Ranks(s)] :
          /\ Places(s, Len(scopes), p)
          /\ \A m \in 1..Len(scopes) : BoundLive(scopes[m], p[m], G)
    BY DEF Owned, ScopesLive
  <2>2. \A m \in 1..Len(scopes) : BoundLive(scopes[m], p[m], H)
    BY <2>1 DEF BoundLive, Lasts
  <2> QED BY <2>1, <2>2 DEF ScopesLive
<1> QED BY <1>1, <1>2, <1>3 DEF Owned

\* What a frame takes part in when it is called.
Joins(f, s, ops, base, scopes, G) ==
    /\ \A d \in Keeps(f) : <<d, Len(s)>> \in G
    /\ Held(f) => <<ops[HeldCount(s) + 1].block, Len(s)>> \in G
    /\ Scoping(f, base, scopes, Len(s), G)
    /\ Binds(f) => s # <<>> /\ Head(s).at \in ScopeLabels

LEMMA OwnedPush ==
    ASSUME NEW s \in Seq(Frames), NEW f \in Frames, NEW ops, NEW base, NEW scopes, NEW G,
           Len(base) \in Nat, Owned(s, ops, base, G), Joins(f, s, ops, base, scopes, G)
    PROVE  Owned(<<f>> \o s, ops, scopes, G)
<1>1. KeepsLive(<<f>> \o s, G)
  BY KeepsLivePush DEF Owned, Joins
<1>2. HeldLive(<<f>> \o s, ops, G)
  BY HeldLivePush DEF Owned, Joins
<1>3. ScopesLive(<<f>> \o s, scopes, G)
  BY ScopesPush DEF Owned, Joins
<1>4. Placed(<<f>> \o s)
  BY PlacedPush DEF Owned, Joins
<1> QED BY <1>1, <1>2, <1>3, <1>4 DEF Owned

LEMMA OwnedPop ==
    ASSUME NEW s \in Seq(Frames), NEW f \in Frames, NEW ops, NEW scopes, NEW G,
           Len(scopes) \in Nat, Owned(<<f>> \o s, ops, scopes, G)
    PROVE  /\ \A d \in Keeps(f) : <<d, Len(s)>> \in G
           /\ Held(f) => <<ops[HeldCount(s) + 1].block, Len(s)>> \in G
           /\ Binds(f) => s # <<>> /\ Head(s).at \in ScopeLabels
           /\ f.at \in ScopeLabels =>
                /\ Len(scopes) # 0 /\ BoundLive(scopes[Len(scopes)], Len(s), G)
                /\ \A base : OneMore(scopes, base) => Owned(s, ops, base, G)
           /\ f.at \notin ScopeLabels => Owned(s, ops, scopes, G)
<1>1. KeepsLive(s, G) /\ \A d \in Keeps(f) : <<d, Len(s)>> \in G
  BY KeepsLivePush DEF Owned
<1>2. HeldLive(s, ops, G) /\ (Held(f) => <<ops[HeldCount(s) + 1].block, Len(s)>> \in G)
  BY HeldLivePush DEF Owned
<1>3. Placed(s) /\ (Binds(f) => s # <<>> /\ Head(s).at \in ScopeLabels)
  BY PlacedPush DEF Owned
<1>4. /\ f.at \in ScopeLabels =>
           /\ Len(scopes) # 0 /\ BoundLive(scopes[Len(scopes)], Len(s), G)
           /\ \A base : OneMore(scopes, base) => ScopesLive(s, base, G)
      /\ f.at \notin ScopeLabels => ScopesLive(s, scopes, G)
  BY ScopesPop DEF Owned
<1> QED BY <1>1, <1>2, <1>3, <1>4 DEF Owned
-----------------------------------------------------------------------------
(* Where the actions go on                                                 *)

LEMMA TargetsFacts ==
    ASSUME NEW f, NEW n, NEW fn, FrameOK(f, n, fn)
    PROVE  Targets(f) \subseteq 1..n
<1>1. CASE f.at = "FuncallNode"
  <2>1. Kept(f) = 0
    BY <1>1 DEF Kept, ShortCircuit
  <2> QED BY <2>1 DEF Targets
<1>2. CASE f.at # "FuncallNode"
  BY <1>2 DEF FrameOK, Targets
<1> QED BY <1>1, <1>2

LEMMA NoTargets ==
    ASSUME NEW f, f.at \in Starting \/ Idle(f)
    PROVE  Targets(f) = {}
<1>1. f.at \in Starting => ~ShortCircuit(f)
  BY DEF Starting, ShortCircuit
<1>2. Kept(f) = 0
  <2>1. CASE f.at \in Starting
    BY <1>1, <2>1 DEF Starting, Kept
  <2>2. CASE Idle(f)
    BY <2>2 DEF Idle, Reserved, Kept
  <2> QED BY <2>1, <2>2
<1> QED BY <1>2 DEF Targets

\* What frames with one, two or three blocks may branch to.
LEMMA FewTargets ==
    ASSUME NEW f, NEW a, NEW b, NEW c
    PROVE  /\ Kept(f) = 1 /\ f.bbs = <<a>> => Targets(f) = {a}
           /\ Kept(f) = 2 /\ f.bbs = <<a, b>> => Targets(f) = {a, b}
           /\ Kept(f) = 3 /\ f.bbs = <<a, b, c>> => Targets(f) = {a, b, c}
<1>1. 1..1 = {1} /\ 1..2 = {1, 2} /\ 1..3 = {1, 2, 3}
  OBVIOUS
<1>2. <<a>>[1] = a
  OBVIOUS
<1>3. <<a, b>>[1] = a /\ <<a, b>>[2] = b
  OBVIOUS
<1>4. <<a, b, c>>[1] = a /\ <<a, b, c>>[2] = b /\ <<a, b, c>>[3] = c
  OBVIOUS
<1>5. ASSUME Kept(f) = 1, f.bbs = <<a>> PROVE Targets(f) = {a}
  <2>1. Targets(f) = {f.bbs[i] : i \in {1}}
    BY <1>1, <1>5 DEF Targets
  <2> QED BY <1>2, <1>5, <2>1
<1>6. ASSUME Kept(f) = 2, f.bbs = <<a, b>> PROVE Targets(f) = {a, b}
  <2>1. Targets(f) = {f.bbs[i] : i \in {1, 2}}
    BY <1>1, <1>6 DEF Targets
  <2> QED BY <1>3, <1>6, <2>1
<1>7. ASSUME Kept(f) = 3, f.bbs = <<a, b, c>> PROVE Targets(f) = {a, b, c}
  <2>1. Targets(f) = {f.bbs[i] : i \in {1, 2, 3}}
    BY <1>1, <1>7 DEF Targets
  <2> QED BY <1>4, <1>7, <2>1
<1> QED BY <1>5, <1>6, <1>7

\* The blocks that a frame can go on in are among those.
LEMMA KeptTargets ==
    ASSUME NEW f
    PROVE  /\ Kept(f) >= 1 => f.bbs[1] \in Targets(f)
           /\ Kept(f) >= 2 => f.bbs[2] \in Targets(f)
           /\ Kept(f) >= 3 => f.bbs[3] \in Targets(f)
<1>1. Kept(f) \in 0..3
  BY DEF Kept
<1>2. /\ Kept(f) >= 1 => 1 \in 1..Kept(f)
      /\ Kept(f) >= 2 => 2 \in 1..Kept(f)
      /\ Kept(f) >= 3 => 3 \in 1..Kept(f)
  BY <1>1
<1> QED BY <1>2 DEF Targets

-----------------------------------------------------------------------------

LEMMA FollowsFacts ==
    ASSUME NEW s \in Seq(Frames), NEW T
    PROVE  /\ Follows(s, s, T)
           /\ \A f \in Frames : Targets(f) \subseteq T => Follows(s, <<f>> \o s, T)
           /\ \A e \in Frames, f \in Frames :
                Targets(e) = {} /\ Targets(f) \subseteq T => Follows(s, <<e, f>> \o s, T)
<1>1. Len(s) \in Nat /\ \A k \in Ranks(s) : ~(k > Len(s)) /\ k # Len(s)
  BY DEF Ranks
<1>2. Follows(s, s, T)
  BY <1>1 DEF Follows
<1>3. ASSUME NEW f \in Frames, Targets(f) \subseteq T
      PROVE  Follows(s, <<f>> \o s, T)
  <2> DEFINE r == <<f>> \o s
  <2>1. /\ Len(r) = Len(s) + 1 /\ FrameAt(r, Len(s)) = f
        /\ \A k \in Ranks(s) : FrameAt(r, k) = FrameAt(s, k)
        /\ \A k : k \in Ranks(r) <=> k \in Ranks(s) \/ k = Len(s)
    BY RankPush, Zenon
  <2> HIDE DEF r
  <2>2. \A k \in Ranks(r) : ~(k > Len(s))
    BY <1>1, <2>1
  <2>3. Len(r) \in Nat /\ Len(s) <= Len(r)
    BY <1>1, <2>1
  <2>4. Follows(s, r, T)
    BY <1>1, <1>3, <2>1, <2>2, <2>3 DEF Follows
  <2> QED BY <2>4 DEF r
<1>4. ASSUME NEW e \in Frames, NEW f \in Frames, Targets(e) = {}, Targets(f) \subseteq T
      PROVE  Follows(s, <<e, f>> \o s, T)
  <2> DEFINE r == <<f>> \o s
             q == <<e>> \o r
  <2>1. /\ r \in Seq(Frames) /\ Len(r) = Len(s) + 1 /\ FrameAt(r, Len(s)) = f
        /\ \A k \in Ranks(s) : FrameAt(r, k) = FrameAt(s, k)
        /\ \A k : k \in Ranks(r) <=> k \in Ranks(s) \/ k = Len(s)
    BY RankPush, Zenon
  <2>2. <<e, f>> \o s = q
    BY PushTwo
  <2> HIDE DEF r
  <2>3. /\ Len(q) = Len(r) + 1 /\ FrameAt(q, Len(r)) = e
        /\ \A k \in Ranks(r) : FrameAt(q, k) = FrameAt(r, k)
        /\ \A k : k \in Ranks(q) <=> k \in Ranks(r) \/ k = Len(r)
    BY <2>1, RankPush, Zenon
  <2> HIDE DEF q
  <2>4. ASSUME NEW k \in Ranks(q)
        PROVE  /\ k > Len(s) => Targets(FrameAt(q, k)) = {}
               /\ k = Len(s) => Targets(FrameAt(q, k)) \subseteq T
    <3>1. k \in Ranks(s) \/ k = Len(s) \/ k = Len(s) + 1
      BY <2>1, <2>3
    <3>2. CASE k \in Ranks(s)
      BY <1>1, <3>2
    <3>3. CASE k = Len(s)
      <4>1. FrameAt(q, k) = f /\ ~(k > Len(s))
        BY <1>1, <2>1, <2>3, <3>3
      <4> QED BY <1>4, <4>1
    <3>4. CASE k = Len(s) + 1
      <4>1. FrameAt(q, k) = e /\ k # Len(s)
        BY <1>1, <2>1, <2>3, <3>4
      <4> QED BY <1>4, <4>1
    <3> QED BY <3>1, <3>2, <3>3, <3>4
  <2>5. Len(q) \in Nat /\ Len(s) <= Len(q)
    BY <1>1, <2>1, <2>3
  <2>6. \A k \in Ranks(s) : FrameAt(q, k) = FrameAt(s, k)
    BY <2>1, <2>3
  <2>7. Follows(s, q, T)
    BY <1>1, <2>4, <2>5, <2>6 DEF Follows
  <2> QED BY <2>2, <2>7
<1> QED BY <1>2, <1>3, <1>4

\* Frames that are called are frames.
LEMMA CalledFrames ==
    ASSUME NEW s \in Seq(Frames), NEW r \in Seq(Frames)
    PROVE  /\ \A f : r = <<f>> \o s => f \in Frames
           /\ \A e, f : r = <<e, f>> \o s => e \in Frames /\ f \in Frames
<1>1. ASSUME NEW f, r = <<f>> \o s PROVE f \in Frames
  <2> DEFINE S == Frames \cup {f}
  <2>1. s \in Seq(S) /\ f \in S
    <3>1. Frames \subseteq S
      OBVIOUS
    <3> QED BY <3>1
  <2> HIDE DEF S
  <2>2. Len(r) = Len(s) + 1 /\ r[1] = f /\ Len(s) \in Nat
    BY <1>1, <2>1
  <2>3. 1 \in 1..Len(r)
    BY <2>2
  <2> QED BY <2>2, <2>3
<1>2. ASSUME NEW e, NEW f, r = <<e, f>> \o s PROVE e \in Frames /\ f \in Frames
  <2> DEFINE S == Frames \cup {e, f}
  <2>1. s \in Seq(S) /\ e \in S /\ f \in S
    <3>1. Frames \subseteq S
      OBVIOUS
    <3> QED BY <3>1
  <2> HIDE DEF S
  <2>2. Len(r) = Len(s) + 2 /\ r[1] = e /\ r[2] = f /\ Len(s) \in Nat
    BY <1>2, <2>1
  <2>3. 1 \in 1..Len(r) /\ 2 \in 1..Len(r)
    BY <2>2
  <2> QED BY <2>2, <2>3
<1> QED BY <1>1, <1>2
-----------------------------------------------------------------------------

\* The insert block gets branches to blocks of T, the others none.
Exits(bbs, nbs, T) ==
    /\ Len(nbs) = Len(bbs)
    /\ \A x \in 1..Len(bbs) : \A y \in nbs[x].succs : y \in bbs[x].succs \/ (x = insert /\ y \in T)

LEMMA ExitsFacts ==
    ASSUME NEW bbs \in Seq(Block), insert \in 1..Len(bbs)
    PROVE  /\ \A T : Exits(bbs, bbs, T)
           /\ \A end, T : Exits(bbs, Terminate(bbs, end, T), T)
           /\ \A b : Exits(bbs, FallInto(bbs, b), {b})
<1>1. ASSUME NEW T PROVE Exits(bbs, bbs, T)
  BY DEF Exits
<1>2. ASSUME NEW end, NEW T PROVE Exits(bbs, Terminate(bbs, end, T), T)
  <2> DEFINE c == bbs[insert]
             d == [c EXCEPT !.end = end, !.succs = T]
             e == [c EXCEPT !.end = "broken"]
             nbs == Terminate(bbs, end, T)
  <2>1. c \in Block
    OBVIOUS
  <2>2. d.succs = T /\ e.succs = c.succs
    BY <2>1 DEF Block
  <2>3. nbs = [bbs EXCEPT ![insert] = d] \/ nbs = [bbs EXCEPT ![insert] = e]
    BY DEF Terminate
  <2> HIDE DEF d, e, nbs
  <2>4. /\ Len(nbs) = Len(bbs)
        /\ \A x \in 1..Len(bbs) : nbs[x] = bbs[x] \/ (x = insert /\ nbs[x] \in {d, e})
    BY <2>3
  <2>5. Exits(bbs, nbs, T)
    BY <2>2, <2>4 DEF Exits
  <2> QED BY <2>5 DEF nbs
<1>3. ASSUME NEW b PROVE Exits(bbs, FallInto(bbs, b), {b})
  <2> DEFINE nbs == FallInto(bbs, b)
  <2>1. nbs = bbs \/ nbs = Terminate(bbs, "br", {b})
    BY DEF FallInto
  <2> HIDE DEF nbs
  <2>2. Exits(bbs, nbs, {b})
    BY <1>1, <1>2, <2>1
  <2> QED BY <2>2 DEF nbs
<1> QED BY <1>1, <1>2, <1>3

LEMMA ExitsAttached ==
    ASSUME NEW bbs, NEW mid \in Seq(Block), NEW T, Exits(bbs, mid, T), NEW m \in 1..Len(mid)
    PROVE  Exits(bbs, Attach(mid, m), T)
<1> DEFINE d == [mid[m] EXCEPT !.attached = TRUE]
           nbs == Attach(mid, m)
<1>1. mid[m] \in Block /\ nbs = [mid EXCEPT ![m] = d]
  BY DEF Attach
<1>2. d.succs = mid[m].succs
  BY <1>1 DEF Block
<1> HIDE DEF d, nbs
<1>3. Len(nbs) = Len(mid) /\ \A x \in 1..Len(mid) : nbs[x].succs = mid[x].succs
  BY <1>1, <1>2
<1>4. Exits(bbs, nbs, T)
  BY <1>3 DEF Exits
<1> QED BY <1>4 DEF nbs

LEMMA ExitsMore ==
    ASSUME NEW bbs, NEW nbs, NEW T, NEW U, Exits(bbs, nbs, T), T \subseteq U
    PROVE  Exits(bbs, nbs, U)
BY DEF Exits

\* What the callers of the active frame and the blocks that there are allow.
LEMMA LeadsHere ==
    ASSUME Control, AllEnded(blocks), stack # <<>>, NEW nbs, Len(nbs) \in Nat,
           Len(blocks) <= Len(nbs),
           \A x \in 1..Len(nbs) : \A y \in nbs[x].succs :
             \/ x <= Len(blocks) /\ y \in blocks[x].succs
             \/ x = insert /\ y \in Targets(top) \cup Added(blocks, nbs)
    PROVE  Leads(top, Tail(stack), blocks, nbs, insert)
<1> DEFINE s == Tail(stack)
<1>1. /\ FrameOK(top, Len(blocks), funcs) /\ s \in Seq(Frames)
      /\ StackOK(s, Len(blocks), funcs, sigs) /\ Len(blocks) \in Nat
  BY Active
<1> HIDE DEF s
<1>2. Targets(top) \subseteq 1..Len(blocks)
  BY <1>1, TargetsFacts
<1>3. ASSUME NEW k \in Ranks(s) PROVE Targets(FrameAt(s, k)) \subseteq 1..Len(blocks)
  <2>1. Len(s) - k \in 1..Len(s)
    BY <1>1 DEF Ranks
  <2>2. FrameOK(FrameAt(s, k), Len(blocks), funcs)
    BY <1>1, <2>1 DEF StackOK, FrameAt
  <2> QED BY <2>2, TargetsFacts
<1>4. \A x \in 1..Len(blocks) : blocks[x].succs \subseteq 1..Len(blocks)
  BY DEF AllEnded, Ended
<1>5. Leads(top, s, blocks, nbs, insert)
  BY <1>1, <1>2, <1>3, <1>4 DEF Leads
<1> QED BY <1>5 DEF s

LEMMA LeadsBack ==
    ASSUME Control, AllEnded(blocks), stack # <<>>, NEW nbs, Exits(blocks, nbs, Targets(top))
    PROVE  Leads(top, Tail(stack), blocks, nbs, insert)
<1>1. Len(blocks) \in Nat /\ Len(nbs) = Len(blocks)
  BY Active DEF Exits
<1>2. \A x \in 1..Len(nbs) : \A y \in nbs[x].succs :
        \/ x <= Len(blocks) /\ y \in blocks[x].succs
        \/ x = insert /\ y \in Targets(top) \cup Added(blocks, nbs)
  BY <1>1 DEF Exits
<1> QED BY <1>1, <1>2, LeadsHere

LEMMA LeadsOn ==
    ASSUME Control, AllEnded(blocks), stack # <<>>, top.at # "VectorNode", NEW add \in NewBlocks,
           NEW T, T \subseteq (Len(blocks) + 1)..(Len(blocks) + Len(add)),
           NEW nbs, nbs = Terminate(blocks \o add, "br", T)
    PROVE  /\ Leads(top, Tail(stack), blocks, nbs, insert)
           /\ Added(blocks, nbs) = (Len(blocks) + 1)..(Len(blocks) + Len(add))
           /\ Len(add) \in {2, 3} /\ Len(blocks) \in Nat
<1> DEFINE mid == blocks \o add
<1>1. blocks \in Seq(Block) /\ Len(blocks) \in Nat /\ insert \in 1..Len(blocks)
  BY Active DEF Control
<1>2. /\ mid \in Seq(Block) /\ Len(mid) = Len(blocks) + Len(add) /\ Len(add) \in {2, 3}
      /\ \A b \in 1..Len(blocks) : mid[b] = blocks[b]
      /\ \A b \in 1..Len(add) : mid[Len(blocks) + b] = add[b]
  BY <1>1, Adding, Zenon
<1>3. \A b \in 1..Len(add) : add[b].succs = {}
  <2>1. Attached.succs = {} /\ Detached.succs = {}
    BY DEF Attached, Detached
  <2> HIDE DEF Attached, Detached
  <2>2. \A b \in 1..Len(add) : add[b] \in {Attached, Detached}
    BY DEF NewBlocks
  <2> QED BY <2>1, <2>2
<1>4. nbs = Terminate(mid, "br", T)
  OBVIOUS
<1> HIDE DEF mid
<1>5. insert \in 1..Len(mid)
  BY <1>1, <1>2
<1>6. Exits(mid, nbs, T)
  BY <1>2, <1>4, <1>5, ExitsFacts
<1>7. Len(nbs) = Len(blocks) + Len(add) /\ Len(nbs) \in Nat /\ Len(blocks) <= Len(nbs)
  BY <1>1, <1>2, <1>6 DEF Exits
<1>8. Added(blocks, nbs) = (Len(blocks) + 1)..(Len(blocks) + Len(add))
  BY <1>7 DEF Added
<1>9. ASSUME NEW x \in 1..Len(nbs), NEW y \in nbs[x].succs
      PROVE  \/ x <= Len(blocks) /\ y \in blocks[x].succs
             \/ x = insert /\ y \in Targets(top) \cup Added(blocks, nbs)
  <2>1. y \in mid[x].succs \/ (x = insert /\ y \in T)
    BY <1>6 DEF Exits
  <2>2. CASE y \in mid[x].succs
    <3>1. CASE x <= Len(blocks)
      <4>1. x \in 1..Len(blocks)
        BY <1>1, <3>1
      <4> QED BY <1>2, <2>2, <3>1, <4>1
    <3>2. CASE ~(x <= Len(blocks))
      <4>1. x - Len(blocks) \in 1..Len(add) /\ Len(blocks) + (x - Len(blocks)) = x
        BY <1>1, <1>2, <1>7, <3>2
      <4> QED BY <1>2, <1>3, <2>2, <4>1
    <3> QED BY <3>1, <3>2
  <2> QED BY <1>8, <2>1, <2>2
<1> QED BY <1>1, <1>2, <1>7, <1>8, <1>9, LeadsHere
-----------------------------------------------------------------------------

\* The actions that stay in their block or go on in a new one, and the others.
Growing ==
    \/ EmitsExpressions \/ EmitsStatements \/ ReturnNode \/ FunctionDefEnd
    \/ ShortCircuitLhs \/ IfCond \/ WhileStatementNode \/ DoWhileStatementNode
Turning ==
    \/ ShortCircuitRhs \/ IfTrue \/ IfFalse \/ WhileCond \/ WhileBody
    \/ DoWhileBody \/ DoWhileCond

GrowsHere == Grows(top, Tail(stack), stack', blocks, blocks', insert, insert')
TurnsHere == Turns(top, Tail(stack), stack', blocks, blocks', insert, insert')

\* The stack before and after a step.
LEMMA StackHere ==
    ASSUME Control, Control', stack # <<>>
    PROVE  /\ Tail(stack) \in Seq(Frames) /\ stack' \in Seq(Frames) /\ top \in Frames
           /\ Len(blocks) \in Nat /\ blocks \in Seq(Block)
           /\ top.at # "VectorNode" => insert \in 1..Len(blocks)
           /\ \A f : Call(<<f>>) => f \in Frames /\ stack' = <<f>> \o Tail(stack)
           /\ \A e, f : Call(<<e, f>>) =>
                e \in Frames /\ f \in Frames /\ stack' = <<e, f>> \o Tail(stack)
<1>1. /\ Tail(stack) \in Seq(Frames) /\ stack' \in Seq(Frames) /\ top \in Frames
      /\ Len(blocks) \in Nat /\ blocks \in Seq(Block)
      /\ top.at # "VectorNode" => insert \in 1..Len(blocks)
  BY Active DEF Control, CallsOK, StackOK
<1> QED BY <1>1, CalledFrames DEF Call

\* An expression or a statement is called, by a frame that keeps blocks of T.
LEMMA FollowsCall ==
    ASSUME Control, Control', stack # <<>>, NEW e, e.at \in Starting, NEW f, NEW T,
           Targets(f) \subseteq T, Call(<<e, f>>)
    PROVE  Follows(Tail(stack), stack', T)
<1>1. /\ Tail(stack) \in Seq(Frames) /\ e \in Frames /\ f \in Frames
      /\ stack' = <<e, f>> \o Tail(stack)
  BY StackHere
<1>2. Targets(e) = {}
  BY NoTargets
<1> QED BY <1>1, <1>2, FollowsFacts

LEMMA EmittingGrows ==
    ASSUME Control, Control', BlocksOK, EmitsExpressions \/ EmitsStatements
    PROVE  GrowsHere
<1> DEFINE s == Tail(stack)
           T == Added(blocks, blocks')
<1>1. stack # <<>> /\ top.at # "VectorNode" /\ UNCHANGED <<blocks, insert>>
  BY EmitsHere, EmitsNothing
<1>2. Passes(s, stack')
  BY ExpressionsPass, StatementsPass
<1>3. s \in Seq(Frames) /\ stack' \in Seq(Frames) /\ blocks \in Seq(Block) /\ insert \in 1..Len(blocks)
  BY <1>1, StackHere
<1> HIDE DEF s, T
<1>4. Follows(s, stack', T)
  <2>1. CASE stack' = s
    BY <1>3, <2>1, FollowsFacts
  <2>2. CASE \E f : f.at \in Starting /\ stack' = <<f>> \o s
    <3>1. PICK f : f.at \in Starting /\ stack' = <<f>> \o s
      BY <2>2
    <3>2. f \in Frames /\ Targets(f) = {}
      BY <1>3, <3>1, CalledFrames, NoTargets
    <3> QED BY <1>3, <3>1, <3>2, FollowsFacts
  <2>3. CASE \E e, f : e.at \in Starting /\ Idle(f) /\ stack' = <<e, f>> \o s
    <3>1. PICK e, f : e.at \in Starting /\ Idle(f) /\ stack' = <<e, f>> \o s
      BY <2>3
    <3>2. e \in Frames /\ f \in Frames
      BY <1>3, <3>1, CalledFrames
    <3>3. Targets(e) = {} /\ Targets(f) = {}
      BY <3>1, NoTargets
    <3> QED BY <1>3, <3>1, <3>2, <3>3, FollowsFacts
  <2> QED BY <1>2, <2>1, <2>2, <2>3 DEF Passes
<1>5. Exits(blocks, blocks', Targets(top))
  BY <1>1, <1>3, ExitsFacts
<1>6. Leads(top, s, blocks, blocks', insert)
  BY <1>1, <1>5, LeadsBack DEF BlocksOK, s
<1> QED BY <1>1, <1>4, <1>6 DEF GrowsHere, Grows, s, T

LEMMA EndingGrows ==
    ASSUME Control, Control', BlocksOK, ReturnNode \/ FunctionDefEnd
    PROVE  GrowsHere
<1> DEFINE s == Tail(stack)
           T == Added(blocks, blocks')
<1>1. /\ stack # <<>> /\ top.at # "VectorNode" /\ UNCHANGED insert /\ stack' = s
      /\ blocks' = blocks \/ \E end : blocks' = Terminate(blocks, end, {})
  BY DEF ReturnNode, FunctionDefEnd, Resume, At, top, Return
<1>2. s \in Seq(Frames) /\ blocks \in Seq(Block) /\ insert \in 1..Len(blocks)
  BY <1>1, StackHere
<1>3. Exits(blocks, blocks', {})
  BY <1>1, <1>2, ExitsFacts
<1>4. Exits(blocks, blocks', Targets(top))
  BY <1>3, ExitsMore
<1>5. Leads(top, s, blocks, blocks', insert)
  BY <1>1, <1>4, LeadsBack DEF BlocksOK
<1>6. Follows(s, stack', T)
  BY <1>1, <1>2, FollowsFacts
<1> QED BY <1>1, <1>5, <1>6 DEF GrowsHere, Grows

\* Two or three blocks more.
LEMMA NewTargets ==
    ASSUME NEW n \in Nat
    PROVE  /\ (n + 1)..(n + 2) = {n + 1, n + 2}
           /\ (n + 1)..(n + 3) = {n + 1, n + 2, n + 3}
OBVIOUS

LEMMA ShortCircuitGrows ==
    ASSUME Control, Control', BlocksOK, ShortCircuitLhs
    PROVE  GrowsHere
<1> DEFINE s == Tail(stack)
           n == Len(blocks)
           e == Expr(top.other)
           f == [Await("BinaryNode.rhs", top.other) EXCEPT
                   !.kind = top.kind, !.slot = Value("i1", insert), !.bbs = <<n + 2>>]
           add == <<Attached, Detached>>
<1>1. /\ stack # <<>> /\ top.at # "VectorNode" /\ top.kind = "bilogShortCircuit"
      /\ blocks' = Terminate(blocks \o add, "br", {n + 1, n + 2})
      /\ insert' = n + 1 /\ Call(<<e, f>>)
  BY DEF ShortCircuitLhs, Resume, At, top
<1>2. add \in NewBlocks /\ Len(add) = 2 /\ n \in Nat
  BY <1>1, StackHere DEF NewBlocks
<1>3. f.at = "BinaryNode.rhs" /\ f.kind = top.kind /\ f.bbs = <<n + 2>>
  BY DEF Await, Frame
<1>4. e.at \in Starting
  BY FreshFrames DEF Starting
<1> HIDE DEF e, f, add, n
<1>5. Kept(f) = 1
  BY <1>1, <1>3 DEF Kept, ShortCircuit
<1>6. Targets(f) = {n + 2} /\ {n + 1, n + 2} = (n + 1)..(n + 2)
  BY <1>2, <1>3, <1>5, FewTargets, NewTargets
<1>7. Leads(top, s, blocks, blocks', insert) /\ Added(blocks, blocks') = (n + 1)..(n + 2)
  BY <1>1, <1>2, <1>6, LeadsOn DEF BlocksOK, n
<1>8. Follows(s, stack', Added(blocks, blocks'))
  BY <1>1, <1>4, <1>6, <1>7, FollowsCall
<1> QED BY <1>1, <1>6, <1>7, <1>8 DEF GrowsHere, Grows

LEMMA IfCondGrows ==
    ASSUME Control, Control', BlocksOK, IfCond
    PROVE  GrowsHere
<1> DEFINE s == Tail(stack)
           n == Len(blocks)
           f == [Frame("IfStatementNode.true") EXCEPT !.bbs = <<n + 2, n + 3>>]
           add == <<Attached, Detached, Detached>>
<1>1. /\ stack # <<>> /\ top.at # "VectorNode"
      /\ blocks' = Terminate(blocks \o add, "br", {n + 1, n + 2})
      /\ insert' = n + 1 /\ Call(<<Body, f>>)
  BY DEF IfCond, Resume, At, top
<1>2. add \in NewBlocks /\ Len(add) = 3 /\ n \in Nat
  BY <1>1, StackHere DEF NewBlocks
<1>3. f.at = "IfStatementNode.true" /\ f.bbs = <<n + 2, n + 3>>
  BY DEF Frame
<1>4. Body.at \in Starting
  BY FreshFrames DEF Starting
<1> HIDE DEF f, add, n
<1>5. Kept(f) = 2
  BY <1>3 DEF Kept, ShortCircuit
<1>6. Targets(f) = {n + 2, n + 3} /\ (n + 1)..(n + 3) = {n + 1, n + 2, n + 3}
  BY <1>2, <1>3, <1>5, FewTargets, NewTargets
<1>7. Leads(top, s, blocks, blocks', insert) /\ Added(blocks, blocks') = (n + 1)..(n + 3)
  BY <1>1, <1>2, <1>6, LeadsOn DEF BlocksOK, n
<1>8. Follows(s, stack', Added(blocks, blocks'))
  BY <1>1, <1>4, <1>6, <1>7, FollowsCall
<1> QED BY <1>1, <1>6, <1>7, <1>8 DEF GrowsHere, Grows

LEMMA WhileGrows ==
    ASSUME Control, Control', BlocksOK, WhileStatementNode
    PROVE  GrowsHere
<1> DEFINE s == Tail(stack)
           n == Len(blocks)
           e == Expr("BOOL")
           f == [Await("WhileStatementNode.cond", "BOOL") EXCEPT !.bbs = <<n + 1, n + 2, n + 3>>]
           add == <<Attached, Attached, Detached>>
<1>1. /\ stack # <<>> /\ top.at # "VectorNode"
      /\ blocks' = Terminate(blocks \o add, "br", {n + 1})
      /\ insert' = n + 1 /\ Call(<<e, f>>)
  BY DEF WhileStatementNode, Visit, At, top
<1>2. add \in NewBlocks /\ Len(add) = 3 /\ n \in Nat
  BY <1>1, StackHere DEF NewBlocks
<1>3. f.at = "WhileStatementNode.cond" /\ f.bbs = <<n + 1, n + 2, n + 3>>
  BY DEF Await, Frame
<1>4. e.at \in Starting
  BY FreshFrames DEF Starting
<1> HIDE DEF e, f, add, n
<1>5. Kept(f) = 3
  BY <1>3 DEF Kept, ShortCircuit
<1>6. Targets(f) = {n + 1, n + 2, n + 3} /\ (n + 1)..(n + 3) = {n + 1, n + 2, n + 3}
  BY <1>2, <1>3, <1>5, FewTargets, NewTargets
<1>7. Leads(top, s, blocks, blocks', insert) /\ Added(blocks, blocks') = (n + 1)..(n + 3)
  BY <1>1, <1>2, <1>6, LeadsOn DEF BlocksOK, n
<1>8. Follows(s, stack', Added(blocks, blocks'))
  BY <1>1, <1>4, <1>6, <1>7, FollowsCall
<1> QED BY <1>1, <1>6, <1>7, <1>8 DEF GrowsHere, Grows

LEMMA DoWhileGrows ==
    ASSUME Control, Control', BlocksOK, DoWhileStatementNode
    PROVE  GrowsHere
<1> DEFINE s == Tail(stack)
           n == Len(blocks)
           f == [Frame("DoWhileStatementNode.body") EXCEPT !.bbs = <<n + 1, n + 2>>]
           add == <<Attached, Detached>>
<1>1. /\ stack # <<>> /\ top.at # "VectorNode"
      /\ blocks' = Terminate(blocks \o add, "br", {n + 1})
      /\ insert' = n + 1 /\ Call(<<Body, f>>)
  BY DEF DoWhileStatementNode, Visit, At, top
<1>2. add \in NewBlocks /\ Len(add) = 2 /\ n \in Nat
  BY <1>1, StackHere DEF NewBlocks
<1>3. f.at = "DoWhileStatementNode.body" /\ f.bbs = <<n + 1, n + 2>>
  BY DEF Frame
<1>4. Body.at \in Starting
  BY FreshFrames DEF Starting
<1> HIDE DEF f, add, n
<1>5. Kept(f) = 2
  BY <1>3 DEF Kept, ShortCircuit
<1>6. Targets(f) = {n + 1, n + 2} /\ (n + 1)..(n + 2) = {n + 1, n + 2}
  BY <1>2, <1>3, <1>5, FewTargets, NewTargets
<1>7. Leads(top, s, blocks, blocks', insert) /\ Added(blocks, blocks') = (n + 1)..(n + 2)
  <2> DEFINE T == {n + 1}
  <2>1. T \subseteq (n + 1)..(n + Len(add)) /\ blocks' = Terminate(blocks \o add, "br", T)
    BY <1>1, <1>2, <1>6
  <2> HIDE DEF T
  <2>2. AllEnded(blocks)
    BY DEF BlocksOK
  <2> QED BY <1>1, <1>2, <2>1, <2>2, LeadsOn DEF n
<1>8. Follows(s, stack', Added(blocks, blocks'))
  BY <1>1, <1>4, <1>6, <1>7, FollowsCall
<1> QED BY <1>1, <1>6, <1>7, <1>8 DEF GrowsHere, Grows

\* Control goes on in a block that the active frame has kept.
LEMMA TurnsFacts ==
    ASSUME Control, Control', BlocksOK, stack # <<>>, top.at # "VectorNode",
           Exits(blocks, blocks', Targets(top)), insert' \in {insert} \cup Targets(top),
           \/ Return
           \/ \E f : Call(<<f>>) /\ Targets(f) \subseteq Targets(top)
           \/ \E e, f : /\ Call(<<e, f>>) /\ e.at \in Starting
                        /\ Targets(f) \subseteq Targets(top)
    PROVE  TurnsHere
<1> DEFINE s == Tail(stack)
<1>1. Leads(top, s, blocks, blocks', insert) /\ s \in Seq(Frames)
  BY LeadsBack, StackHere DEF BlocksOK
<1>2. Follows(s, stack', Targets(top))
  <2>1. CASE Return
    BY <1>1, <2>1, FollowsFacts DEF Return
  <2>2. CASE \E f : Call(<<f>>) /\ Targets(f) \subseteq Targets(top)
    <3>1. PICK f : Call(<<f>>) /\ Targets(f) \subseteq Targets(top)
      BY <2>2
    <3>2. f \in Frames /\ stack' = <<f>> \o s
      BY <3>1, StackHere
    <3> QED BY <1>1, <3>1, <3>2, FollowsFacts
  <2>3. CASE \E e, f : /\ Call(<<e, f>>) /\ e.at \in Starting
                       /\ Targets(f) \subseteq Targets(top)
    BY <2>3, FollowsCall
  <2> QED BY <2>1, <2>2, <2>3
<1>3. Len(blocks') = Len(blocks)
  BY DEF Exits
<1> QED BY <1>1, <1>2, <1>3 DEF TurnsHere, Turns

\* The blocks that the frames of branches and loops go on in.
LEMMA KeptHere ==
    ASSUME Control, stack # <<>>, top.at # "FuncallNode"
    PROVE  /\ Kept(top) >= 1 => top.bbs[1] \in Targets(top) /\ top.bbs[1] \in 1..Len(blocks)
           /\ Kept(top) >= 2 => top.bbs[2] \in Targets(top) /\ top.bbs[2] \in 1..Len(blocks)
           /\ Kept(top) >= 3 => top.bbs[3] \in Targets(top) /\ top.bbs[3] \in 1..Len(blocks)
<1>1. Targets(top) \subseteq 1..Len(blocks)
  BY Active, TargetsFacts
<1> QED BY <1>1, KeptTargets

\* The insert block is ended by a branch, or falls into b, and m is attached.
LEMMA ExitsHere ==
    ASSUME Control, stack # <<>>, top.at # "VectorNode"
    PROVE  /\ \A T : T \subseteq Targets(top) => Exits(blocks, Terminate(blocks, "br", T), Targets(top))
           /\ \A m \in 1..Len(blocks) : \A T : T \subseteq Targets(top) /\ T \subseteq 1..Len(blocks) =>
                Exits(blocks, Attach(Terminate(blocks, "br", T), m), Targets(top))
           /\ \A m \in 1..Len(blocks), b \in 1..Len(blocks) : b \in Targets(top) =>
                Exits(blocks, Attach(FallInto(blocks, b), m), Targets(top))
           /\ \A m \in 1..Len(blocks) : Exits(blocks, Attach(blocks, m), Targets(top))
           /\ Exits(blocks, blocks, Targets(top))
<1> DEFINE U == Targets(top)
<1>1. blocks \in Seq(Block) /\ insert \in 1..Len(blocks) /\ Len(blocks) \in Nat
  BY Active DEF Control
<1> HIDE DEF U
<1>2. ASSUME NEW T, T \subseteq U PROVE Exits(blocks, Terminate(blocks, "br", T), U)
  BY <1>1, <1>2, ExitsFacts, ExitsMore
<1>3. ASSUME NEW m \in 1..Len(blocks), NEW T, T \subseteq U, T \subseteq 1..Len(blocks)
      PROVE  Exits(blocks, Attach(Terminate(blocks, "br", T), m), U)
  <2> DEFINE mid == Terminate(blocks, "br", T)
  <2>1. T \in SUBSET Nat /\ "br" \in Ends
    BY <1>3 DEF Ends
  <2>2. mid \in Seq(Block) /\ Len(mid) = Len(blocks)
    BY <1>1, <2>1, Inserting
  <2>3. Exits(blocks, mid, U)
    BY <1>2, <1>3
  <2> HIDE DEF mid
  <2>4. Exits(blocks, Attach(mid, m), U)
    BY <2>2, <2>3, ExitsAttached
  <2> QED BY <2>4 DEF mid
<1>4. ASSUME NEW m \in 1..Len(blocks), NEW b \in 1..Len(blocks), b \in U
      PROVE  Exits(blocks, Attach(FallInto(blocks, b), m), U)
  <2> DEFINE mid == FallInto(blocks, b)
  <2>1. mid \in Seq(Block) /\ Len(mid) = Len(blocks)
    BY <1>1, Ending
  <2>2. Exits(blocks, mid, {b})
    BY <1>1, ExitsFacts
  <2> HIDE DEF mid
  <2>3. Exits(blocks, mid, U)
    BY <1>4, <2>2, ExitsMore
  <2>4. Exits(blocks, Attach(mid, m), U)
    BY <2>1, <2>3, ExitsAttached
  <2> QED BY <2>4 DEF mid
<1>5. Exits(blocks, blocks, U)
  BY <1>1, ExitsFacts
<1>6. ASSUME NEW m \in 1..Len(blocks) PROVE Exits(blocks, Attach(blocks, m), U)
  BY <1>1, <1>5, ExitsAttached
<1> QED BY <1>2, <1>3, <1>4, <1>5, <1>6 DEF U

LEMMA ShortCircuitTurns ==
    ASSUME Control, Control', BlocksOK, ShortCircuitRhs
    PROVE  TurnsHere
<1> DEFINE m == top.bbs[1]
<1>1. /\ stack # <<>> /\ top.at = "BinaryNode.rhs" /\ top.kind = "bilogShortCircuit"
      /\ blocks' = Attach(Terminate(blocks, "br", {m}), m) /\ insert' = m /\ Return
  BY DEF ShortCircuitRhs, Resume, At, top
<1>2. Kept(top) >= 1
  BY <1>1 DEF Kept, ShortCircuit
<1>3. m \in Targets(top) /\ m \in 1..Len(blocks)
  BY <1>1, <1>2, KeptHere
<1> HIDE DEF m
<1>4. Exits(blocks, blocks', Targets(top))
  BY <1>1, <1>3, ExitsHere
<1> QED BY <1>1, <1>3, <1>4, TurnsFacts

LEMMA IfTrueTurns ==
    ASSUME Control, Control', BlocksOK, IfTrue
    PROVE  TurnsHere
<1> DEFINE b == top.bbs[1]
           m == top.bbs[2]
           f == [Frame("IfStatementNode.false") EXCEPT !.bbs = <<m>>]
<1>1. /\ stack # <<>> /\ top.at = "IfStatementNode.true"
      /\ blocks' = Attach(FallInto(blocks, m), b) /\ insert' = b
      /\ Call(<<Body, f>>) \/ Call(<<f>>)
  BY DEF IfTrue, Resume, At, top
<1>2. Kept(top) >= 1 /\ Kept(top) >= 2
  BY <1>1 DEF Kept, ShortCircuit
<1>3. b \in Targets(top) /\ b \in 1..Len(blocks) /\ m \in Targets(top) /\ m \in 1..Len(blocks)
  BY <1>1, <1>2, KeptHere
<1>4. f.at = "IfStatementNode.false" /\ f.bbs = <<m>>
  BY DEF Frame
<1>5. Body.at \in Starting
  BY FreshFrames DEF Starting
<1> HIDE DEF b, m, f
<1>6. Kept(f) = 1
  BY <1>4 DEF Kept, ShortCircuit
<1>7. Targets(f) \subseteq Targets(top)
  BY <1>3, <1>4, <1>6, FewTargets
<1>8. Exits(blocks, blocks', Targets(top))
  BY <1>1, <1>3, ExitsHere
<1> QED BY <1>1, <1>3, <1>5, <1>7, <1>8, TurnsFacts

LEMMA IfFalseTurns ==
    ASSUME Control, Control', BlocksOK, IfFalse
    PROVE  TurnsHere
<1> DEFINE m == top.bbs[1]
<1>1. /\ stack # <<>> /\ top.at = "IfStatementNode.false"
      /\ blocks' = Attach(FallInto(blocks, m), m) /\ insert' = m /\ Return
  BY DEF IfFalse, Resume, At, top
<1>2. Kept(top) >= 1
  BY <1>1 DEF Kept, ShortCircuit
<1>3. m \in Targets(top) /\ m \in 1..Len(blocks)
  BY <1>1, <1>2, KeptHere
<1> HIDE DEF m
<1>4. Exits(blocks, blocks', Targets(top))
  BY <1>1, <1>3, ExitsHere
<1> QED BY <1>1, <1>3, <1>4, TurnsFacts

LEMMA WhileCondTurns ==
    ASSUME Control, Control', BlocksOK, WhileCond
    PROVE  TurnsHere
<1> DEFINE a == top.bbs[1]
           b == top.bbs[2]
           c == top.bbs[3]
           f == [Frame("WhileStatementNode.body") EXCEPT !.bbs = <<a, c>>]
<1>1. /\ stack # <<>> /\ top.at = "WhileStatementNode.cond"
      /\ blocks' = Terminate(blocks, "br", {b, c}) /\ insert' = b
      /\ Call(<<Body, f>>)
  BY DEF WhileCond, Resume, At, top
<1>2. Kept(top) >= 1 /\ Kept(top) >= 2 /\ Kept(top) >= 3
  BY <1>1 DEF Kept, ShortCircuit
<1>3. a \in Targets(top) /\ b \in Targets(top) /\ c \in Targets(top)
  BY <1>1, <1>2, KeptHere
<1>4. f.at = "WhileStatementNode.body" /\ f.bbs = <<a, c>>
  BY DEF Frame
<1>5. Body.at \in Starting
  BY FreshFrames DEF Starting
<1> HIDE DEF a, b, c, f
<1>6. Kept(f) = 2
  BY <1>4 DEF Kept, ShortCircuit
<1>7. Targets(f) \subseteq Targets(top)
  BY <1>3, <1>4, <1>6, FewTargets
<1>8. Exits(blocks, blocks', Targets(top))
  BY <1>1, <1>3, ExitsHere
<1> QED BY <1>1, <1>3, <1>5, <1>7, <1>8, TurnsFacts

LEMMA WhileBodyTurns ==
    ASSUME Control, Control', BlocksOK, WhileBody
    PROVE  TurnsHere
<1> DEFINE b == top.bbs[1]
           m == top.bbs[2]
<1>1. /\ stack # <<>> /\ top.at = "WhileStatementNode.body"
      /\ blocks' = Attach(FallInto(blocks, b), m) /\ insert' = m /\ Return
  BY DEF WhileBody, Resume, At, top
<1>2. Kept(top) >= 1 /\ Kept(top) >= 2
  BY <1>1 DEF Kept, ShortCircuit
<1>3. b \in Targets(top) /\ b \in 1..Len(blocks) /\ m \in Targets(top) /\ m \in 1..Len(blocks)
  BY <1>1, <1>2, KeptHere
<1> HIDE DEF b, m
<1>4. Exits(blocks, blocks', Targets(top))
  BY <1>1, <1>3, ExitsHere
<1> QED BY <1>1, <1>3, <1>4, TurnsFacts

LEMMA DoWhileBodyTurns ==
    ASSUME Control, Control', BlocksOK, DoWhileBody
    PROVE  TurnsHere
<1> DEFINE m == top.bbs[2]
           e == Expr("BOOL")
           f == [Await("DoWhileStatementNode.cond", "BOOL") EXCEPT !.bbs = top.bbs]
<1>1. /\ stack # <<>> /\ top.at = "DoWhileStatementNode.body"
      /\ \/ Call(<<e, f>>) /\ UNCHANGED <<blocks, insert>>
         \/ blocks' = Attach(blocks, m) /\ insert' = m /\ Return
  BY DEF DoWhileBody, Resume, At, top
<1>2. Kept(top) = 2
  BY <1>1 DEF Kept, ShortCircuit
<1>3. m \in Targets(top) /\ m \in 1..Len(blocks)
  BY <1>1, <1>2, KeptHere
<1>4. f.at = "DoWhileStatementNode.cond" /\ f.bbs = top.bbs
  BY DEF Await, Frame
<1>5. e.at \in Starting
  BY FreshFrames DEF Starting
<1> HIDE DEF e, f, m
<1>6. Kept(f) = 2
  BY <1>4 DEF Kept, ShortCircuit
<1>7. Targets(f) = Targets(top)
  BY <1>2, <1>4, <1>6 DEF Targets
<1>8. Exits(blocks, blocks', Targets(top))
  BY <1>1, <1>3, ExitsHere
<1> QED BY <1>1, <1>3, <1>5, <1>7, <1>8, TurnsFacts

LEMMA DoWhileCondTurns ==
    ASSUME Control, Control', BlocksOK, DoWhileCond
    PROVE  TurnsHere
<1> DEFINE b == top.bbs[1]
           m == top.bbs[2]
           T == {b, m}
<1>1. /\ stack # <<>> /\ top.at = "DoWhileStatementNode.cond"
      /\ blocks' = Attach(Terminate(blocks, "br", T), m) /\ insert' = m /\ Return
  BY DEF DoWhileCond, Resume, At, top
<1>2. Kept(top) >= 1 /\ Kept(top) >= 2
  BY <1>1 DEF Kept, ShortCircuit
<1>3. b \in Targets(top) /\ b \in 1..Len(blocks) /\ m \in Targets(top) /\ m \in 1..Len(blocks)
  BY <1>1, <1>2, KeptHere
<1>4. T \subseteq Targets(top) /\ T \subseteq 1..Len(blocks)
  BY <1>3
<1> HIDE DEF b, m, T
<1>5. Exits(blocks, blocks', Targets(top))
  BY <1>1, <1>3, <1>4, ExitsHere
<1> QED BY <1>1, <1>3, <1>5, TurnsFacts

\* In a function, as long as there was no error, control grows or turns.
LEMMA MovesFlow ==
    ASSUME Control, Control', BlocksOK, Moves, isSuccess
    PROVE  /\ Growing \/ Turning
           /\ Growing => GrowsHere
           /\ Turning => TurnsHere
<1>1. Growing => GrowsHere
  BY EmittingGrows, EndingGrows, ShortCircuitGrows, IfCondGrows, WhileGrows, DoWhileGrows DEF Growing
<1>2. Turning => TurnsHere
  BY ShortCircuitTurns, IfTrueTurns, IfFalseTurns, WhileCondTurns, WhileBodyTurns,
     DoWhileBodyTurns, DoWhileCondTurns DEF Turning
<1>3. ~Unwind
  BY DEF Unwind
<1>4. Growing \/ Turning
  BY <1>3 DEF Moves, Expressions, Statements, Growing, Turning, EmitsExpressions, EmitsStatements
<1> QED BY <1>1, <1>2, <1>4
-----------------------------------------------------------------------------
(* What a step leaves of it                                                *)

\* A step in a function that is and stays proper.
Underway ==
    /\ Coherent /\ Coherent' /\ Typed /\ BlocksOK /\ Moves
    /\ isSuccess /\ isSuccess' /\ "bareDeclaration" \notin odd'
    /\ Recording /\ Owning

LEMMA UnderwayFacts ==
    ASSUME Underway
    PROVE  /\ Control /\ Control' /\ stack # <<>> /\ top.at # "VectorNode" /\ ~At("VectorNode")
           /\ Tail(stack) \in Seq(Frames) /\ stack' \in Seq(Frames) /\ top \in Frames
           /\ FrameOK(top, Len(blocks), funcs)
           /\ stack = <<top>> \o Tail(stack)
           /\ Len(stack) = Len(Tail(stack)) + 1 /\ Len(Tail(stack)) \in Nat
           /\ Len(blocks) \in Nat /\ insert \in 1..Len(blocks)
           /\ Len(scopeStack) \in Nat /\ Len(scopeStack') \in Nat
           /\ Owned(<<top>> \o Tail(stack), operands, scopeStack, Alive)
           /\ Waiting(stack) => <<topValue.block, Len(stack)>> \in Alive
<1>1. Control /\ Control' /\ stack # <<>> /\ ~At("VectorNode") /\ top.at # "VectorNode"
  BY MovesAreRunning DEF Underway, Coherent, At, top
<1>2. /\ Tail(stack) \in Seq(Frames) /\ stack' \in Seq(Frames) /\ top \in Frames
      /\ FrameOK(top, Len(blocks), funcs)
      /\ stack = <<top>> \o Tail(stack)
      /\ Len(blocks) \in Nat /\ insert \in 1..Len(blocks)
  BY <1>1, Active, StackHere
<1>3. Len(stack) = Len(Tail(stack)) + 1 /\ Len(Tail(stack)) \in Nat
  <2>1. Len(<<top>> \o Tail(stack)) = Len(Tail(stack)) + 1 /\ Len(Tail(stack)) \in Nat
    BY <1>2, Pushed
  <2> QED BY <1>2, <2>1, Zenon
<1>4. Len(scopeStack) \in Nat /\ Len(scopeStack') \in Nat
  <2>1. BlockCount(stack) \in Nat /\ BlockCount(stack') \in Nat
    <3>1. stack \in Seq(Frames)
      BY <1>1 DEF Control, CallsOK, StackOK
    <3>2. \A s \in Seq(Frames) : BlockCount(s) \in Nat
      BY <1>2, BlocksPush
    <3> QED BY <1>2, <3>1, <3>2
  <2> QED BY <2>1 DEF Underway, Coherent, Scoped
<1>5. /\ Owned(stack, operands, scopeStack, Alive)
      /\ Waiting(stack) => <<topValue.block, Len(stack)>> \in Alive
  BY <1>1 DEF Underway, Owning
<1>6. Owned(<<top>> \o Tail(stack), operands, scopeStack, Alive)
  BY <1>2, <1>5, Zenon
<1> QED BY <1>1, <1>2, <1>3, <1>4, <1>5, <1>6

\* The call stack before the step has the active frame on top of the callers.
LEMMA RanksHere ==
    ASSUME Underway
    PROVE  /\ FrameAt(stack, Len(Tail(stack))) = top /\ Len(Tail(stack)) \in Ranks(stack)
           /\ \A k \in Ranks(Tail(stack)) :
                k \in Ranks(stack) /\ FrameAt(stack, k) = FrameAt(Tail(stack), k)
<1> DEFINE s == Tail(stack)
           r == <<top>> \o s
<1>1. s \in Seq(Frames) /\ top \in Frames /\ stack = r
  BY UnderwayFacts
<1>2. /\ FrameAt(r, Len(s)) = top
      /\ \A k \in Ranks(s) : FrameAt(r, k) = FrameAt(s, k)
      /\ \A k : k \in Ranks(r) <=> k \in Ranks(s) \/ k = Len(s)
  BY <1>1, RankPush, Zenon
<1> HIDE DEF r
<1>3. /\ FrameAt(stack, Len(s)) = top /\ Len(s) \in Ranks(stack)
      /\ \A k \in Ranks(s) : k \in Ranks(stack) /\ FrameAt(stack, k) = FrameAt(s, k)
  BY <1>1, <1>2
<1> QED BY <1>3

LEMMA StepLives ==
    ASSUME Underway
    PROVE  /\ \A d, q : <<d, q>> \in Alive /\ q <= Len(Tail(stack)) => <<d, q>> \in Alive'
           /\ Growing => \A d, q : <<d, q>> \in Alive => <<d, Len(Tail(stack))>> \in Alive'
           /\ \A d, u : Recorded(stack, blocks, insert, d, u) =>
                          Recorded(stack', blocks', insert', d, u)
           /\ Lasts(Tail(stack), Alive, Alive')
           /\ \A q \in Nat : Len(stack') <= q => <<insert', q>> \in Alive'
<1> DEFINE s == Tail(stack)
           r == stack'
<1>1. /\ Control /\ Control' /\ BlocksOK /\ Moves /\ isSuccess
      /\ s \in Seq(Frames) /\ r \in Seq(Frames) /\ Len(s) \in Nat
  BY UnderwayFacts DEF Underway
<1>2. /\ FrameAt(stack, Len(s)) = top /\ Len(s) \in Ranks(stack)
      /\ \A k \in Ranks(s) : k \in Ranks(stack) /\ FrameAt(stack, k) = FrameAt(s, k)
  BY RanksHere
<1>3. /\ Flows(top, s, r, blocks, blocks', insert, insert')
      /\ Growing => Grows(top, s, r, blocks, blocks', insert, insert')
  BY <1>1, MovesFlow DEF Flows, GrowsHere, TurnsHere
<1>4. Alive' = Living(r, blocks', insert')
  BY DEF Alive
<1> HIDE DEF s, r
<1>5. ASSUME NEW d, NEW q, <<d, q>> \in Alive
      PROVE  /\ q <= Len(s) => <<d, q>> \in Alive'
             /\ Growing => <<d, Len(s)>> \in Alive'
  <2>1. <<d, q>> \in Living(stack, blocks, insert)
    BY <1>5 DEF Alive
  <2>2. /\ q <= Len(s) => <<d, q>> \in Living(r, blocks', insert')
        /\ Grows(top, s, r, blocks, blocks', insert, insert') =>
             <<d, Len(s)>> \in Living(r, blocks', insert')
    BY <1>2, <1>3, <2>1, LivingOn
  <2> QED BY <1>3, <1>4, <2>2
<1>6. \A d, u : Recorded(stack, blocks, insert, d, u) => Recorded(r, blocks', insert', d, u)
  BY <1>2, <1>3, RecordedOn
<1>7. Lasts(s, Alive, Alive')
  <2>1. \A k \in Ranks(s) : k <= Len(s)
    BY <1>1 DEF Ranks
  <2> QED BY <1>5, <2>1 DEF Lasts
<1>8. ASSUME NEW q \in Nat, Len(r) <= q PROVE <<insert', q>> \in Alive'
  <2>1. insert' \in 1..Len(blocks')
    BY <1>1, MovesBlocks DEF BlocksGrow
  <2>2. \A k \in Ranks(r) : ~(q <= k)
    BY <1>1, <1>8 DEF Ranks
  <2>3. <<insert', q>> \in Living(r, blocks', insert')
    BY <2>1, <2>2, LivingHere
  <2> QED BY <1>4, <2>3
<1> QED BY <1>5, <1>6, <1>7, <1>8 DEF s, r

\* The operands of the callers.
LEMMA OperandsStay ==
    ASSUME Underway
    PROVE  \A k \in 1..HeldCount(Tail(stack)) : operands'[k] = operands[k]
<1> DEFINE s == Tail(stack)
           n == Len(operands)
<1>1. Coherent /\ s \in Seq(Frames) /\ operands \in Seq(Values) /\ HeldCount(s) \in Nat /\ n \in Nat
  <2>1. s \in Seq(Frames) /\ top \in Frames /\ Coherent /\ operands \in Seq(Values)
    BY UnderwayFacts DEF Underway, Typed
  <2> HIDE DEF s
  <2>2. HeldCount(s) \in Nat
    BY <2>1, HeldPush
  <2>3. n \in Nat
    BY <2>1
  <2> QED BY <2>1, <2>2, <2>3
<1>2. CASE Expressive
  BY <1>2, ExpressiveKeep
<1>3. ASSUME At("expr"), operands' = operands \/ \E v : operands' = Append(operands, v)
      PROVE  \A k \in 1..HeldCount(s) : operands'[k] = operands[k]
  <2>1. n = HeldCount(s)
    BY <1>3, ExprFound DEF Underway, AtBase
  <2>2. CASE \E v : operands' = Append(operands, v)
    <3>1. PICK v : operands' = Append(operands, v)
      BY <2>2
    <3>2. \A k \in 1..n : operands'[k] = operands[k]
      BY <1>1, <3>1
    <3> QED BY <2>1, <3>2
  <2> QED BY <1>3, <2>2
<1>4. CASE ConstantNode \/ VarNode \/ FuncallNode
  <2>1. At("expr")
    BY <1>4 DEF ConstantNode, VarNode, FuncallNode, Visit
  <2>2. operands' = operands \/ \E v : operands' = Append(operands, v)
    BY <1>4 DEF ConstantNode, VarNode, FuncallNode, push
  <2> QED BY <1>3, <2>1, <2>2
<1>5. CASE EagerRhs
  <2>1. Resume("BinaryNode.rhs") /\ Held(top) /\ top \in Frames
    BY <1>5, UnderwayFacts DEF EagerRhs, Resume, At, top, Held
  <2>2. PICK v : operands' = SubSeq(operands, 1, n - 2) \o <<v>>
    BY <1>5 DEF EagerRhs
  <2>3. n = HeldCount(s) + 2
    <3>1. OperandsOK(<<top>> \o s, operands, odd)
      <4>1. OperandsOK(stack, operands, odd) /\ stack = <<top>> \o s
        BY UnderwayFacts DEF Underway, Coherent, Results
      <4> QED BY <4>1, Zenon
    <3> QED BY <1>1, <2>1, <3>1, OperandsFound
  <2> DEFINE m == n - 2
             b == SubSeq(operands, 1, m)
  <2>4. m \in Nat /\ m <= n /\ m = HeldCount(s)
    BY <1>1, <2>3
  <2> HIDE DEF m
  <2>5. b \in Seq(Values) /\ Len(b) = m /\ \A i \in 1..m : b[i] = operands[i]
    BY <1>1, <2>4
  <2>6. operands' = b \o <<v>>
    BY <2>2 DEF m
  <2> HIDE DEF b
  <2>7. \A i \in 1..m : operands'[i] = b[i]
    BY <2>5, <2>6
  <2> QED BY <2>4, <2>5, <2>7
<1>6. CASE Taking /\ ~EagerRhs
  <2>1. operands' = pop \/ \E v : operands' = Append(pop, v)
    BY <1>6, Zenon DEF Taking, ShortCircuitLhs, ShortCircuitRhs, UnaryOperand, FuncallArg,
       AssignmentRhs, IoPrintNode, ReturnNode, IfCond, WhileCond, DoWhileCond
  <2>2. PICK l \in AfterExpr : Resume(l)
    BY <1>6, TakingFacts, SMTT(30)
  <2>3. ~Held(top)
    BY <1>6, Zenon DEF Taking, ShortCircuitLhs, ShortCircuitRhs, UnaryOperand, FuncallArg,
       AssignmentRhs, IoPrintNode, ReturnNode, IfCond, WhileCond, DoWhileCond, Resume, At, top, Held
  <2>4. pop \in Seq(Values) /\ Len(pop) = HeldCount(s) /\ operands = Append(pop, topValue)
    BY <1>1, <2>2, <2>3, ValueFound DEF Underway, AtBase
  <2> HIDE DEF pop, s
  <2>5. \A i \in 1..Len(pop) : operands[i] = pop[i]
    BY <2>4
  <2>6. \A i \in 1..Len(pop) : operands'[i] = pop[i]
    BY <2>1, <2>4
  <2>7. \A k \in 1..HeldCount(s) : operands'[k] = operands[k]
    BY <2>4, <2>5, <2>6
  <2> QED BY <2>7, SMTT(30) DEF s
<1> QED BY <1>2, <1>4, <1>5, <1>6, MovesSplit DEF Underway

\* What the callers own.
LEMMA CallersOwn ==
    ASSUME Underway
    PROVE  /\ top.at \notin ScopeLabels => Owned(Tail(stack), operands', scopeStack, Alive')
           /\ top.at \in ScopeLabels =>
                \A base : OneMore(scopeStack, base) => Owned(Tail(stack), operands', base, Alive')
<1> DEFINE s == Tail(stack)
<1>1. /\ s \in Seq(Frames) /\ top \in Frames /\ Len(scopeStack) \in Nat
      /\ Owned(<<top>> \o s, operands, scopeStack, Alive)
  BY UnderwayFacts
<1>2. Lasts(s, Alive, Alive') /\ \A k \in 1..HeldCount(s) : operands'[k] = operands[k]
  BY StepLives, OperandsStay
<1> HIDE DEF s
<1>3. ASSUME NEW scopes, Owned(s, operands, scopes, Alive)
      PROVE  Owned(s, operands', scopes, Alive')
  BY <1>1, <1>2, <1>3, OwnedLasts
<1>4. /\ top.at \in ScopeLabels => \A base : OneMore(scopeStack, base) => Owned(s, operands, base, Alive)
      /\ top.at \notin ScopeLabels => Owned(s, operands, scopeStack, Alive)
  BY <1>1, OwnedPop
<1>5. /\ top.at \notin ScopeLabels => Owned(s, operands', scopeStack, Alive')
      /\ top.at \in ScopeLabels => \A base : OneMore(scopeStack, base) => Owned(s, operands', base, Alive')
  BY <1>3, <1>4
<1> QED BY <1>5 DEF s
-----------------------------------------------------------------------------
(* Calls and returns                                                       *)

\* Frames that own nothing and make no scope.
Ownerless(f) == f.at \notin ScopeLabels /\ Keeps(f) = {} /\ ~Held(f) /\ ~Binds(f)

OwningLabels ==
    ScopeLabels \cup {"BinaryNode.rhs", "AssignmentNode", "FuncallNode", "statement"}

LEMMA PlainFacts ==
    ASSUME NEW f, f.at \notin OwningLabels \/ (f.at = "statement" /\ f.kind = "body")
    PROVE  Ownerless(f)
BY DEF Ownerless, OwningLabels, ScopeLabels, BlockLabels, Keeps, ShortCircuit, Held, Binds

LEMMA PlainJoins ==
    ASSUME NEW f, Ownerless(f), NEW s, NEW ops, NEW scopes, NEW G
    PROVE  Joins(f, s, ops, scopes, scopes, G)
BY DEF Ownerless, Joins, Scoping

\* The active frame returns.
LEMMA OwnsReturn ==
    ASSUME Underway, Return, Owned(Tail(stack), operands', scopeStack', Alive'),
           Waiting(Tail(stack)) => topValue'.block \in {1, insert'}
    PROVE  Owning'
<1> DEFINE r == stack'
           v == topValue'
<1>1. r = Tail(stack) /\ Len(r) \in Nat
  BY UnderwayFacts DEF Return
<1>2. Waiting(r) => v.block \in {1, insert'}
  BY <1>1
<1>3. <<insert', Len(r)>> \in Alive'
  BY <1>1, StepLives
<1>4. <<1, Len(r)>> \in Alive'
  BY <1>1, LivingEntry DEF Alive
<1>5. Waiting(r) => <<v.block, Len(r)>> \in Alive'
  BY <1>2, <1>3, <1>4
<1> QED BY <1>1, <1>5 DEF Owning

\* The active frame is replaced.
LEMMA OwnsCall ==
    ASSUME Underway, NEW f, Call(<<f>>), f.at \notin AfterExpr,
           NEW base, Len(base) \in Nat, Owned(Tail(stack), operands', base, Alive'),
           Joins(f, Tail(stack), operands', base, scopeStack', Alive')
    PROVE  Owning'
<1> DEFINE s == Tail(stack)
<1>1. s \in Seq(Frames) /\ f \in Frames /\ stack' = <<f>> \o s
  BY UnderwayFacts, StackHere
<1>2. Owned(<<f>> \o s, operands', scopeStack', Alive')
  BY <1>1, OwnedPush
<1> HIDE DEF s
<1>3. Head(<<f>> \o s) = f
  BY <1>1
<1>4. ~Waiting(stack')
  BY <1>1, <1>3, Zenon DEF Waiting
<1>5. Owned(stack', operands', scopeStack', Alive')
  BY <1>1, <1>2, Zenon
<1> QED BY <1>4, <1>5 DEF Owning

\* The frame f waits for e instead.
LEMMA OwnsCalls ==
    ASSUME Underway, NEW e, NEW f, Call(<<e, f>>), e.at \in {"expr", "statement"},
           e.at = "statement" => e.kind = "body" \/ f.at \in ScopeLabels,
           NEW base, Len(base) \in Nat, Owned(Tail(stack), operands', base, Alive'),
           Joins(f, Tail(stack), operands', base, scopeStack', Alive')
    PROVE  Owning'
<1> DEFINE s == Tail(stack)
           r == <<f>> \o s
           t == <<e>> \o r
<1>1. s \in Seq(Frames) /\ e \in Frames /\ f \in Frames /\ stack' = <<e, f>> \o s
  BY UnderwayFacts, StackHere
<1>2. Owned(r, operands', scopeStack', Alive')
  BY <1>1, OwnedPush
<1>3. r \in Seq(Frames) /\ Head(r) = f /\ r # <<>>
  <2>1. r \in Seq(Frames) /\ Len(r) = Len(s) + 1 /\ r[1] = f /\ Len(s) \in Nat
    BY <1>1, Pushed
  <2> HIDE DEF s, r
  <2> QED BY <2>1
<1>4. stack' = t
  BY <1>1, PushTwo
<1> HIDE DEF s, r
<1>5. Joins(e, r, operands', scopeStack', scopeStack', Alive')
  <2>1. Keeps(e) = {} /\ ~Held(e) /\ e.at \notin ScopeLabels
    BY DEF Keeps, ShortCircuit, Held, ScopeLabels, BlockLabels
  <2>2. Binds(e) => f.at \in ScopeLabels
    BY DEF Binds
  <2> QED BY <1>3, <2>1, <2>2 DEF Joins, Scoping
<1>6. Len(scopeStack') \in Nat
  BY UnderwayFacts
<1>7. Owned(t, operands', scopeStack', Alive')
  BY <1>1, <1>2, <1>3, <1>5, <1>6, OwnedPush
<1>8. Head(t) = e
  BY <1>1, <1>3
<1> HIDE DEF t
<1>9. ~Waiting(stack')
  <2>1. e.at \notin AfterExpr
    BY LabelFacts
  <2> QED BY <1>4, <1>8, <2>1, Zenon DEF Waiting
<1>10. Owned(stack', operands', scopeStack', Alive')
  BY <1>4, <1>7, Zenon
<1> QED BY <1>9, <1>10 DEF Owning

\* What owns nothing is called in a step that leaves the scopes alone.
LEMMA PlainCall ==
    ASSUME Underway, top.at \notin ScopeLabels, UNCHANGED scopeStack,
           NEW f, Call(<<f>>), f.at \notin AfterExpr, Ownerless(f)
    PROVE  Owning'
<1>1. Owned(Tail(stack), operands', scopeStack, Alive') /\ Len(scopeStack) \in Nat
  BY CallersOwn, UnderwayFacts
<1>2. Joins(f, Tail(stack), operands', scopeStack, scopeStack', Alive')
  BY PlainJoins
<1> QED BY <1>1, <1>2, OwnsCall

LEMMA PlainCalls ==
    ASSUME Underway, top.at \notin ScopeLabels, UNCHANGED scopeStack,
           NEW e, e.at = "expr" \/ (e.at = "statement" /\ e.kind = "body"),
           NEW f, Call(<<e, f>>), Ownerless(f)
    PROVE  Owning'
<1>1. Owned(Tail(stack), operands', scopeStack, Alive') /\ Len(scopeStack) \in Nat
  BY CallersOwn, UnderwayFacts
<1>2. Joins(f, Tail(stack), operands', scopeStack, scopeStack', Alive')
  BY PlainJoins
<1> QED BY <1>1, <1>2, OwnsCalls
-----------------------------------------------------------------------------
(* What is owned after a step                                              *)

\* The steps that call what owns nothing.
PlainSteps ==
    \/ BinaryNode \/ UnaryNode \/ PrintOrReturn \/ IfStatementNode \/ IfCond \/ IfTrue
    \/ WhileStatementNode \/ WhileCond \/ DoWhileStatementNode

LEMMA PlainStepsFacts ==
    ASSUME PlainSteps
    PROVE  /\ UNCHANGED scopeStack /\ top.at \notin ScopeLabels
           /\ \/ \E f : Call(<<f>>) /\ f.at \in {"expr", "IfStatementNode.false"}
              \/ \E e, f : /\ Call(<<e, f>>) /\ f.at \notin OwningLabels
                           /\ e.at = "expr" \/ (e.at = "statement" /\ e.kind = "body")
<1> DEFINE Calling ==
             \/ \E f : Call(<<f>>) /\ f.at \in {"expr", "IfStatementNode.false"}
             \/ \E e, f : /\ Call(<<e, f>>) /\ f.at \notin OwningLabels
                          /\ e.at = "expr" \/ (e.at = "statement" /\ e.kind = "body")
<1>1. UNCHANGED scopeStack /\ top.at \notin ScopeLabels
  BY DEF PlainSteps, BinaryNode, UnaryNode, PrintOrReturn, IfStatementNode, IfCond, IfTrue,
     WhileStatementNode, WhileCond, DoWhileStatementNode, syms, Visit, Resume, At, top,
     ScopeLabels, BlockLabels
<1>2. /\ \A t : Expr(t).at = "expr"
      /\ Body.at = "statement" /\ Body.kind = "body"
  BY FreshFrames DEF Body, Statement, Frame
<1>3. CASE BinaryNode
  <2>1. PICK op \in Operations(top.type) :
          Call(<<Expr(op.lhs), [Await("BinaryNode.lhs", op.lhs) EXCEPT !.kind = op.kind,
                                                                       !.other = op.rhs]>>)
    BY <1>3 DEF BinaryNode
  <2> DEFINE f == [Await("BinaryNode.lhs", op.lhs) EXCEPT !.kind = op.kind, !.other = op.rhs]
  <2>2. f.at = "BinaryNode.lhs"
    BY DEF Await, Frame
  <2> HIDE DEF f
  <2>3. f.at \notin OwningLabels
    BY <2>2 DEF OwningLabels, ScopeLabels, BlockLabels
  <2>4. Call(<<Expr(op.lhs), f>>)
    BY <2>1 DEF f
  <2>5. Calling
    BY <1>2, <2>3, <2>4
  <2> QED BY <1>1, <2>5
<1>4. CASE UnaryNode \/ PrintOrReturn \/ IfStatementNode
  <2>1. \/ \E t : Call(<<Expr(t)>>)
        \/ \E t, at : /\ Call(<<Expr(t), Await(at, t)>>)
                      /\ at \in {"UnaryNode", "IoPrintNode", "ReturnNode", "IfStatementNode.cond"}
    BY <1>4 DEF UnaryNode, PrintOrReturn, IfStatementNode
  <2>2. \A t, at : at \in {"UnaryNode", "IoPrintNode", "ReturnNode", "IfStatementNode.cond"} =>
                     Await(at, t).at \notin OwningLabels
    BY FreshFrames DEF OwningLabels, ScopeLabels, BlockLabels
  <2>3. Calling
    BY <1>2, <2>1, <2>2
  <2> QED BY <1>1, <2>3
<1>5. CASE WhileStatementNode
  <2>1. PICK b : Call(<<Expr("BOOL"), [Await("WhileStatementNode.cond", "BOOL") EXCEPT !.bbs = b]>>)
    BY <1>5 DEF WhileStatementNode
  <2> DEFINE f == [Await("WhileStatementNode.cond", "BOOL") EXCEPT !.bbs = b]
  <2>2. f.at = "WhileStatementNode.cond"
    BY DEF Await, Frame
  <2> HIDE DEF f
  <2>3. f.at \notin OwningLabels
    BY <2>2 DEF OwningLabels, ScopeLabels, BlockLabels
  <2>4. Call(<<Expr("BOOL"), f>>)
    BY <2>1 DEF f
  <2>5. Calling
    BY <1>2, <2>3, <2>4
  <2> QED BY <1>1, <2>5
<1>6. CASE IfCond \/ IfTrue \/ WhileCond \/ DoWhileStatementNode
  <2>1. \E b, at : /\ at \in {"IfStatementNode.true", "IfStatementNode.false",
                              "WhileStatementNode.body", "DoWhileStatementNode.body"}
                   /\ \/ Call(<<Body, [Frame(at) EXCEPT !.bbs = b]>>)
                      \/ at = "IfStatementNode.false" /\ Call(<<[Frame(at) EXCEPT !.bbs = b]>>)
    BY <1>6 DEF IfCond, IfTrue, WhileCond, DoWhileStatementNode
  <2>2. PICK b, at : /\ at \in {"IfStatementNode.true", "IfStatementNode.false",
                                "WhileStatementNode.body", "DoWhileStatementNode.body"}
                     /\ \/ Call(<<Body, [Frame(at) EXCEPT !.bbs = b]>>)
                        \/ at = "IfStatementNode.false" /\ Call(<<[Frame(at) EXCEPT !.bbs = b]>>)
    BY <2>1
  <2> DEFINE f == [Frame(at) EXCEPT !.bbs = b]
  <2>3. f.at = at
    BY DEF Frame
  <2>4. Call(<<Body, f>>) \/ (f.at = "IfStatementNode.false" /\ Call(<<f>>))
    BY <2>2, <2>3
  <2> HIDE DEF f
  <2>5. f.at \notin OwningLabels
    BY <2>2, <2>3 DEF OwningLabels, ScopeLabels, BlockLabels
  <2>6. Calling
    BY <1>2, <2>4, <2>5
  <2> QED BY <1>1, <2>6
<1> QED BY <1>3, <1>4, <1>5, <1>6 DEF PlainSteps

LEMMA PlainStepsOwn ==
    ASSUME Underway, PlainSteps
    PROVE  Owning'
<1>1. UNCHANGED scopeStack /\ top.at \notin ScopeLabels
  BY PlainStepsFacts
<1>2. CASE \E f : Call(<<f>>) /\ f.at \in {"expr", "IfStatementNode.false"}
  <2>1. PICK f : Call(<<f>>) /\ f.at \in {"expr", "IfStatementNode.false"}
    BY <1>2
  <2>2. Ownerless(f)
    <3>1. f.at \notin OwningLabels
      BY <2>1 DEF OwningLabels, ScopeLabels, BlockLabels
    <3> QED BY <3>1, PlainFacts
  <2>3. f.at \notin AfterExpr
    BY <2>1 DEF AfterExpr
  <2> QED BY <1>1, <2>1, <2>2, <2>3, PlainCall
<1>3. CASE \E e, f : /\ Call(<<e, f>>) /\ f.at \notin OwningLabels
                     /\ e.at = "expr" \/ (e.at = "statement" /\ e.kind = "body")
  <2>1. PICK e, f : /\ Call(<<e, f>>) /\ f.at \notin OwningLabels
                    /\ e.at = "expr" \/ (e.at = "statement" /\ e.kind = "body")
    BY <1>3
  <2>2. Ownerless(f)
    BY <2>1, PlainFacts
  <2> QED BY <1>1, <2>1, <2>2, PlainCalls
<1> QED BY <1>2, <1>3, PlainStepsFacts

\* The statements that return.
Returning ==
    \/ IfFalse \/ WhileBody \/ DoWhileCond \/ IoPrintNode \/ ReturnNode
    \/ ExpressionWrapperNode

LEMMA ReturningOwn ==
    ASSUME Underway, Returning \/ (DoWhileBody /\ Return)
    PROVE  Owning'
<1>1. /\ Return /\ UNCHANGED scopeStack
      /\ top.at \in {"IfStatementNode.false", "WhileStatementNode.body",
                     "DoWhileStatementNode.cond", "DoWhileStatementNode.body",
                     "IoPrintNode", "ReturnNode", "statement"}
  BY DEF Returning, IfFalse, WhileBody, DoWhileCond, DoWhileBody, IoPrintNode, ReturnNode,
     ExpressionWrapperNode, syms, Resume, At, top
<1>2. top.at \notin ScopeLabels /\ top.at \notin ExpressionLabels
  BY <1>1 DEF ScopeLabels, BlockLabels, ExpressionLabels
<1>3. Owned(Tail(stack), operands', scopeStack', Alive')
  BY <1>1, <1>2, CallersOwn
<1>4. ~Waiting(Tail(stack))
  BY <1>2, UnderwayFacts, ReturnsTo
<1> QED BY <1>1, <1>3, <1>4, OwnsReturn

LEMMA DoWhileBodyOwns ==
    ASSUME Underway, DoWhileBody
    PROVE  Owning'
<1>1. CASE Return
  BY <1>1, ReturningOwn
<1>2. CASE Call(<<Expr("BOOL"), [Await("DoWhileStatementNode.cond", "BOOL") EXCEPT
                                   !.bbs = top.bbs]>>)
  <2> DEFINE f == [Await("DoWhileStatementNode.cond", "BOOL") EXCEPT !.bbs = top.bbs]
  <2>1. f.at = "DoWhileStatementNode.cond"
    BY DEF Await, Frame
  <2>2. Call(<<Expr("BOOL"), f>>)
    BY <1>2
  <2> HIDE DEF f
  <2>3. Ownerless(f)
    <3>1. f.at \notin OwningLabels
      BY <2>1 DEF OwningLabels, ScopeLabels, BlockLabels
    <3> QED BY <3>1, PlainFacts
  <2>4. UNCHANGED scopeStack /\ top.at \notin ScopeLabels
    BY DEF DoWhileBody, syms, Resume, At, top, ScopeLabels, BlockLabels
  <2>5. Expr("BOOL").at = "expr"
    BY FreshFrames
  <2> QED BY <2>2, <2>3, <2>4, <2>5, PlainCalls
<1> QED BY <1>1, <1>2 DEF DoWhileBody

\* The value on top of the operand stack.
LEMMA LastValue ==
    ASSUME NEW base \in Seq(Values), NEW v
    PROVE  /\ operands' = Append(base, v) => topValue' = v
           /\ operands' = base \o <<v>> => topValue' = v
<1>1. base \in Seq(Values \cup {v}) /\ v \in Values \cup {v}
  OBVIOUS
<1>2. Len(Append(base, v)) = Len(base) + 1 /\ Append(base, v)[Len(base) + 1] = v
  BY <1>1
<1>3. Len(base \o <<v>>) = Len(base) + 1 /\ (base \o <<v>>)[Len(base) + 1] = v
  BY <1>1
<1> QED BY <1>2, <1>3 DEF topValue

\* The result of an expression is in the entry block or in the insert block.
LEMMA OwnsResult ==
    ASSUME Underway, Return, UNCHANGED scopeStack, top.at \in ExpressionLabels,
           topValue'.block \in {1, insert'}
    PROVE  Owning'
<1>1. top.at \notin ScopeLabels
  BY DEF ScopeLabels, BlockLabels, ExpressionLabels
<1>2. Owned(Tail(stack), operands', scopeStack', Alive')
  BY <1>1, CallersOwn
<1> QED BY <1>2, OwnsReturn

LEMMA BlockOfValue == \A t, b : Value(t, b).block = b
BY DEF Value

\* The results of the expressions.
LEMMA ConstantNodeOwns ==
    ASSUME Underway, ConstantNode
    PROVE  Owning'
<1>1. operands \in Seq(Values)
  BY DEF Underway, Typed
<1>2. operands' = Append(operands, Constant(top.type)) /\ Return /\ UNCHANGED scopeStack
  BY DEF ConstantNode, push, syms
<1>3. topValue'.block = 1
  BY <1>1, <1>2, LastValue, BlockOfValue DEF Constant
<1>4. top.at \in ExpressionLabels
  BY DEF ConstantNode, At, top, ExpressionLabels
<1> QED BY <1>2, <1>3, <1>4, OwnsResult

LEMMA VarNodeOwns ==
    ASSUME Underway, VarNode
    PROVE  Owning'
<1>1. operands \in Seq(Values) /\ isSuccess'
  BY DEF Underway, Typed
<1>2. /\ operands' = Append(operands, Value(toLLVMType(top.type), insert))
      /\ Return /\ UNCHANGED <<insert, scopeStack>>
  BY <1>1 DEF VarNode, push, syms, Error
<1>3. topValue'.block = insert'
  BY <1>1, <1>2, LastValue, BlockOfValue
<1>4. top.at \in ExpressionLabels
  BY DEF VarNode, At, top, ExpressionLabels
<1> QED BY <1>2, <1>3, <1>4, OwnsResult

LEMMA RhsOwns ==
    ASSUME Underway, EagerRhs \/ ShortCircuitRhs
    PROVE  Owning'
<1>1. /\ Resume("BinaryNode.rhs") /\ top.at = "BinaryNode.rhs" /\ "BinaryNode.rhs" \in AfterExpr
      /\ Return /\ UNCHANGED scopeStack
  BY DEF EagerRhs, ShortCircuitRhs, Resume, At, top, syms, AfterExpr
<1>2. top.at \in ExpressionLabels
  BY <1>1 DEF ExpressionLabels
<1>3. CASE EagerRhs
  <2> DEFINE base == SubSeq(operands, 1, Len(operands) - 2)
  <2>1. Held(top)
    BY <1>1, <1>3 DEF EagerRhs, Held
  <2>2. base \in Seq(Values)
    BY <1>1, <2>1, ValueFound DEF AtBase, Underway
  <2>3. PICK t : operands' = base \o <<Value(t, insert)>> /\ UNCHANGED insert
    BY <1>3 DEF EagerRhs
  <2> HIDE DEF base
  <2>4. topValue'.block = insert'
    BY <2>2, <2>3, LastValue, BlockOfValue
  <2> QED BY <1>1, <1>2, <2>4, OwnsResult
<1>4. CASE ShortCircuitRhs
  <2>1. ~Held(top)
    BY <1>1, <1>4 DEF ShortCircuitRhs, Held
  <2>2. pop \in Seq(Values)
    BY <1>1, <2>1, ValueFound DEF AtBase, Underway
  <2>3. operands' = Append(pop, Value("i1", insert'))
    BY <1>4 DEF ShortCircuitRhs
  <2>4. topValue'.block = insert'
    BY <2>2, <2>3, LastValue, BlockOfValue
  <2> QED BY <1>1, <1>2, <2>4, OwnsResult
<1> QED BY <1>3, <1>4

LEMMA UnaryOperandOwns ==
    ASSUME Underway, UnaryOperand
    PROVE  Owning'
<1>1. /\ Resume("UnaryNode") /\ top.at = "UnaryNode" /\ "UnaryNode" \in AfterExpr
      /\ Return /\ UNCHANGED <<insert, scopeStack>>
  BY DEF UnaryOperand, Resume, At, top, syms, AfterExpr
<1>2. top.at \in ExpressionLabels /\ ~Held(top)
  BY <1>1 DEF ExpressionLabels, Held
<1>3. pop \in Seq(Values)
  BY <1>1, <1>2, ValueFound DEF AtBase, Underway
<1>4. operands' = Append(pop, Value(topValue.type, insert))
  BY DEF UnaryOperand
<1>5. topValue'.block = insert'
  BY <1>1, <1>3, <1>4, LastValue, BlockOfValue
<1> QED BY <1>1, <1>2, <1>5, OwnsResult

\* A call before its first argument.
LEMMA FuncallNodeOwns ==
    ASSUME Underway, FuncallNode
    PROVE  Owning'
<1>1. /\ top.at = "expr" /\ UNCHANGED <<insert, scopeStack>>
      /\ operands \in Seq(Values) /\ isSuccess'
  BY DEF FuncallNode, Visit, At, top, syms, Underway, Typed
<1>2. top.at \in ExpressionLabels /\ top.at \notin ScopeLabels
  BY <1>1 DEF ExpressionLabels, ScopeLabels, BlockLabels
<1>3. \/ Return /\ \E t : operands' = Append(operands, Value(t, insert))
      \/ \E n, args : Call(NextArg(n, args, <<>>))
  BY <1>1 DEF FuncallNode, push, Error
<1>4. CASE Return /\ \E t : operands' = Append(operands, Value(t, insert))
  <2>1. topValue'.block = insert'
    BY <1>1, <1>4, LastValue, BlockOfValue
  <2> QED BY <1>1, <1>2, <1>4, <2>1, OwnsResult
<1>5. CASE \E n, args : Call(NextArg(n, args, <<>>))
  <2>1. PICK n, args : Call(NextArg(n, args, <<>>))
    BY <1>5
  <2> DEFINE bbs == <<>>
             f == ArgFrame(n, args, bbs)
             e == Expr(Head(args))
  <2>2. f.at = "FuncallNode" /\ e.at = "expr" /\ NextArg(n, args, bbs) = <<e, f>>
    BY FreshFrames
  <2>3. f.bbs = bbs
    BY DEF ArgFrame, Await, Frame
  <2> HIDE DEF f, e
  <2>4. Ownerless(f)
    <3>1. {f.bbs[i] : i \in 1..Len(f.bbs)} = {}
      BY <2>3
    <3>2. Keeps(f) = {}
      BY <2>2, <3>1 DEF Keeps, ShortCircuit
    <3> QED BY <2>2, <3>2 DEF Ownerless, ScopeLabels, BlockLabels, Held, Binds
  <2>5. Call(<<e, f>>)
    BY <2>1, <2>2
  <2> QED BY <1>1, <1>2, <2>2, <2>4, <2>5, PlainCalls
<1> QED BY <1>3, <1>4, <1>5

\* A call after an argument: the blocks of the arguments are kept.
LEMMA FuncallArgOwns ==
    ASSUME Underway, FuncallArg
    PROVE  Owning'
<1>1. /\ Resume("FuncallNode") /\ top.at = "FuncallNode" /\ "FuncallNode" \in AfterExpr
      /\ UNCHANGED <<insert, scopeStack>>
  BY Zenon DEF FuncallArg, Resume, At, top, syms, AfterExpr
<1>2. top.at \in ExpressionLabels /\ top.at \notin ScopeLabels /\ ~Held(top)
  BY <1>1 DEF ExpressionLabels, ScopeLabels, BlockLabels, Held
<1>3. pop \in Seq(Values) /\ top \in Frames /\ topValue \in Values
  BY <1>1, <1>2, ValueFound DEF AtBase, Underway
<1>4. PICK b \in {topValue.block, insert} :
        \/ /\ top.args # <<>>
           /\ Call(NextArg(top.name, top.args, Append(top.bbs, b)))
        \/ Return /\ \E t : operands' = Append(pop, Value(t, insert))
  <2> DEFINE idx == Len(funcs[top.name].params) - Len(top.args)
             arg == cast(topValue, funcs[top.name].params[idx].type)
  <2>1. arg.block \in {topValue.block, insert}
    BY BlockOfValue DEF cast
  <2>2. \/ /\ top.args # <<>>
           /\ Call(NextArg(top.name, top.args, Append(top.bbs, arg.block)))
        \/ Return /\ \E t : operands' = Append(pop, Value(t, insert))
    BY Zenon DEF FuncallArg
  <2> HIDE DEF arg
  <2> QED BY <2>1, <2>2
<1>5. CASE Return /\ \E t : operands' = Append(pop, Value(t, insert))
  <2>1. topValue'.block = insert'
    BY <1>1, <1>3, <1>5, LastValue, BlockOfValue
  <2> QED BY <1>1, <1>2, <1>5, <2>1, OwnsResult
<1>6. CASE Call(NextArg(top.name, top.args, Append(top.bbs, b)))
  <2> DEFINE bbs == Append(top.bbs, b)
             f == ArgFrame(top.name, top.args, bbs)
             e == Expr(Head(top.args))
             s == Tail(stack)
  <2>1. f.at = "FuncallNode" /\ e.at = "expr" /\ NextArg(top.name, top.args, bbs) = <<e, f>>
    BY FreshFrames
  <2>2. f.bbs = bbs
    BY DEF ArgFrame, Await, Frame
  <2>3. Call(<<e, f>>)
    BY <1>6, <2>1
  <2> HIDE DEF f, e
  <2>4. /\ Owned(s, operands', scopeStack, Alive') /\ Len(scopeStack) \in Nat
        /\ Owned(<<top>> \o s, operands, scopeStack, Alive)
        /\ s \in Seq(Frames) /\ Len(s) \in Nat
        /\ Waiting(stack) => <<topValue.block, Len(stack)>> \in Alive
    BY <1>2, CallersOwn, UnderwayFacts
  <2>5. Waiting(stack) /\ Growing
    <3>1. Waiting(stack)
      BY <1>1 DEF Waiting, Resume, At
    <3> QED BY <3>1 DEF Growing, EmitsExpressions
  <2>6. \A d \in Keeps(top) : <<d, Len(s)>> \in Alive'
    <3>1. \A d \in Keeps(top) : <<d, Len(s)>> \in Alive
      BY <1>3, <2>4, OwnedPop
    <3> QED BY <2>5, <3>1, StepLives
  <2>7. <<topValue.block, Len(s)>> \in Alive'
    BY <2>4, <2>5, StepLives
  <2>8. <<insert, Len(s)>> \in Alive'
    <3>1. <<insert, Len(stack)>> \in Alive
      <4>1. /\ insert \in 1..Len(blocks) /\ Len(stack) = Len(s) + 1 /\ Len(s) \in Nat
        BY UnderwayFacts
      <4>2. Len(stack) \in Nat /\ \A k \in Ranks(stack) : ~(Len(stack) <= k)
        BY <4>1 DEF Ranks
      <4> QED BY <4>1, <4>2, LivingHere DEF Alive
    <3> QED BY <2>5, <3>1, StepLives
  <2>9. \A d \in Keeps(f) : <<d, Len(s)>> \in Alive'
    <3>1. Keeps(f) = {bbs[i] : i \in 1..Len(bbs)}
      BY <2>1, <2>2 DEF Keeps, ShortCircuit
    <3>2. Keeps(top) = {top.bbs[i] : i \in 1..Len(top.bbs)}
      BY <1>1 DEF Keeps, ShortCircuit
    <3>3. top.bbs \in Seq(Nat) /\ b \in Nat
      <4>1. insert \in Nat
        BY UnderwayFacts
      <4> QED BY <1>3, <4>1 DEF Frames, Values
    <3>4. \A i \in 1..Len(bbs) : bbs[i] = b \/ (i \in 1..Len(top.bbs) /\ bbs[i] = top.bbs[i])
      BY <3>3
    <3>5. \A d \in Keeps(f) : d = b \/ d \in Keeps(top)
      BY <3>1, <3>2, <3>4
    <3> QED BY <2>6, <2>7, <2>8, <3>5
  <2>10. Joins(f, s, operands', scopeStack, scopeStack', Alive')
    BY <1>1, <2>1, <2>9 DEF Joins, Held, Binds, Scoping, ScopeLabels, BlockLabels
  <2> QED BY <1>1, <2>1, <2>3, <2>4, <2>10, OwnsCalls
<1> QED BY <1>4, <1>5, <1>6

\* A binary operator after its left operand, which stays on the operand stack.
LEMMA EagerLhsOwns ==
    ASSUME Underway, EagerLhs
    PROVE  Owning'
<1> DEFINE s == Tail(stack)
           e == Expr(top.other)
           f == [Await("BinaryNode.rhs", top.other) EXCEPT !.kind = top.kind, !.other = top.type]
<1>1. /\ Resume("BinaryNode.lhs") /\ top.at = "BinaryNode.lhs" /\ "BinaryNode.lhs" \in AfterExpr
      /\ top.kind # "bilogShortCircuit"
      /\ UNCHANGED <<operands, scopeStack>> /\ Call(<<e, f>>)
  BY DEF EagerLhs, Resume, At, top, syms, AfterExpr
<1>2. f.at = "BinaryNode.rhs" /\ f.kind = top.kind /\ f.slot = NoSlot /\ e.at = "expr"
  BY FreshFrames DEF Await, Frame
<1> HIDE DEF e, f
<1>3. ~Held(top) /\ top.at \notin ScopeLabels /\ Waiting(stack) /\ Growing
  BY <1>1 DEF Held, ScopeLabels, BlockLabels, Waiting, Resume, At, Growing, EmitsExpressions
<1>4. /\ Owned(s, operands', scopeStack, Alive') /\ Len(scopeStack) \in Nat
      /\ <<topValue.block, Len(stack)>> \in Alive
  BY <1>3, CallersOwn, UnderwayFacts
<1>5. operands[HeldCount(s) + 1] = topValue
  <2>1. pop \in Seq(Values) /\ Len(pop) = HeldCount(s) /\ operands = Append(pop, topValue)
    BY <1>1, <1>3, ValueFound DEF AtBase, Underway
  <2>2. topValue \in Values
    BY <1>1, ValueFound DEF Underway
  <2> HIDE DEF s, pop
  <2> QED BY <2>1, <2>2
<1>6. <<topValue.block, Len(s)>> \in Alive'
  BY <1>3, <1>4, StepLives
<1>7. Joins(f, s, operands', scopeStack, scopeStack', Alive')
  <2>1. operands'[HeldCount(s) + 1] = topValue
    BY <1>1, <1>5
  <2>2. Keeps(f) = {} /\ ~Binds(f) /\ f.at \notin ScopeLabels
    BY <1>1, <1>2 DEF Keeps, ShortCircuit, Binds, ScopeLabels, BlockLabels
  <2> QED BY <1>1, <1>6, <2>1, <2>2 DEF Joins, Scoping
<1> QED BY <1>1, <1>2, <1>4, <1>7, OwnsCalls

\* What is in the insert block can be used until control goes on elsewhere.
LEMMA InsertLives ==
    ASSUME Underway
    PROVE  <<insert, Len(stack)>> \in Alive
<1>1. insert \in 1..Len(blocks) /\ Len(stack) = Len(Tail(stack)) + 1 /\ Len(Tail(stack)) \in Nat
  BY UnderwayFacts
<1>2. Len(stack) \in Nat /\ \A k \in Ranks(stack) : ~(Len(stack) <= k)
  BY <1>1 DEF Ranks
<1> QED BY <1>1, <1>2, LivingHere DEF Alive

\* A short-circuit operator keeps its slot, which is in the insert block.
LEMMA ShortCircuitLhsOwns ==
    ASSUME Underway, ShortCircuitLhs
    PROVE  Owning'
<1> DEFINE s == Tail(stack)
           e == Expr(top.other)
           f == [Await("BinaryNode.rhs", top.other) EXCEPT
                   !.kind = top.kind, !.slot = Value("i1", insert), !.bbs = <<Len(blocks) + 2>>]
<1>1. /\ top.at = "BinaryNode.lhs" /\ top.kind = "bilogShortCircuit"
      /\ UNCHANGED scopeStack /\ Call(<<e, f>>)
  BY DEF ShortCircuitLhs, Resume, At, top, syms
<1>2. f.at = "BinaryNode.rhs" /\ f.kind = top.kind /\ f.slot.block = insert /\ e.at = "expr"
  BY FreshFrames, BlockOfValue DEF Await, Frame
<1> HIDE DEF e, f
<1>3. top.at \notin ScopeLabels /\ Growing
  BY <1>1 DEF ScopeLabels, BlockLabels, Growing
<1>4. Owned(s, operands', scopeStack, Alive') /\ Len(scopeStack) \in Nat
  BY <1>3, CallersOwn, UnderwayFacts
<1>5. <<insert, Len(s)>> \in Alive'
  BY <1>3, InsertLives, StepLives
<1>6. Joins(f, s, operands', scopeStack, scopeStack', Alive')
  <2>1. Keeps(f) \subseteq {insert}
    BY <1>2 DEF Keeps, ShortCircuit
  <2>2. ~Held(f) /\ ~Binds(f) /\ f.at \notin ScopeLabels
    BY <1>1, <1>2 DEF Held, Binds, ScopeLabels, BlockLabels
  <2> QED BY <1>1, <1>5, <2>1, <2>2 DEF Joins, Scoping
<1> QED BY <1>1, <1>2, <1>4, <1>6, OwnsCalls

\* The slot that a name is bound to.
LEMMA LookupLives ==
    ASSUME NEW s, NEW scopes \in Seq([Names -> Slots]), NEW t, NEW bbs, NEW ins,
           ScopesLive(s, scopes, Living(t, bbs, ins)),
           NEW name \in Names, lookup(scopes, name) # NoSlot,
           Len(s) \in Nat, NEW e \in Nat, Len(s) <= e
    PROVE  <<lookup(scopes, name).block, e>> \in Living(t, bbs, ins)
<1>1. PICK i \in 1..Len(scopes) : scopes[i][name] = lookup(scopes, name)
  BY LookupFacts
<1>2. PICK p \in [1..Len(scopes) -> Ranks(s)] :
        \A m \in 1..Len(scopes) : BoundLive(scopes[m], p[m], Living(t, bbs, ins))
  BY DEF ScopesLive
<1>3. <<lookup(scopes, name).block, p[i]>> \in Living(t, bbs, ins)
  BY <1>1, <1>2 DEF BoundLive
<1>4. p[i] <= e
  <2>1. p[i] \in 0..(Len(s) - 1)
    BY <1>1, <1>2 DEF Ranks
  <2> QED BY <2>1
<1> QED BY <1>3, <1>4, LivingLonger

\* An assignment keeps the slot of its name, if there is one.
LEMMA AssignmentNodeOwns ==
    ASSUME Underway, AssignmentNode
    PROVE  Owning'
<1> DEFINE s == Tail(stack)
<1>1. PICK n \in Names, type \in UsedTypes, rhs \in UsedTypes :
        /\ Odd("bareDeclaration", lookup(scopeStack, n) = NoSlot /\ top.kind = "body")
        /\ Call(<<Expr(rhs), [Await("AssignmentNode", rhs) EXCEPT
                                !.other = type, !.name = n, !.slot = lookup(scopeStack, n)]>>)
  BY Zenon DEF AssignmentNode
<1> DEFINE slot == lookup(scopeStack, n)
           e == Expr(rhs)
           f == [Await("AssignmentNode", rhs) EXCEPT !.other = type, !.name = n, !.slot = slot]
<1>2. Call(<<e, f>>)
  BY <1>1
<1>3. f.at = "AssignmentNode" /\ f.slot = slot /\ e.at = "expr"
  BY FreshFrames DEF Await, Frame
<1> HIDE DEF e, f
<1>4. top.at = "statement" /\ UNCHANGED scopeStack /\ top.at \notin ScopeLabels
  BY DEF AssignmentNode, At, top, syms, ScopeLabels, BlockLabels
<1>5. /\ Owned(s, operands', scopeStack, Alive') /\ Len(scopeStack) \in Nat
      /\ Owned(<<top>> \o s, operands, scopeStack, Alive)
      /\ s \in Seq(Frames) /\ Len(s) \in Nat /\ top \in Frames
  BY <1>4, CallersOwn, UnderwayFacts
<1>6. slot # NoSlot => <<slot.block, Len(s)>> \in Alive'
  <2>1. scopeStack \in Seq([Names -> Slots])
    BY DEF Underway, Typed, ScopesTyped
  <2>2. ScopesLive(s, scopeStack, Alive')
    BY <1>5 DEF Owned
  <2>3. Len(s) <= Len(s)
    BY <1>5
  <2> HIDE DEF s
  <2> QED BY <1>1, <1>5, <2>1, <2>2, <2>3, LookupLives DEF Alive
<1>7. slot = NoSlot => s # <<>> /\ Head(s).at \in ScopeLabels
  <2>1. ASSUME slot = NoSlot PROVE Binds(top)
    <3>1. top.kind # "body"
      BY <1>1, <2>1 DEF Odd, Underway
    <3> QED BY <1>4, <3>1 DEF Binds
  <2>2. Binds(top) => s # <<>> /\ Head(s).at \in ScopeLabels
    BY <1>5, OwnedPop
  <2> QED BY <2>1, <2>2
<1> HIDE DEF slot
<1>8. Joins(f, s, operands', scopeStack, scopeStack', Alive')
  BY <1>3, <1>4, <1>6, <1>7 DEF Joins, Keeps, ShortCircuit, Held, Binds, Scoping, ScopeLabels, BlockLabels
<1> QED BY <1>2, <1>3, <1>5, <1>8, OwnsCalls

\* A name is bound in the innermost scope, whose block called the assignment.
LEMMA AssignmentRhsOwns ==
    ASSUME Underway, AssignmentRhs
    PROVE  Owning'
<1> DEFINE s == Tail(stack)
<1>1. /\ top.at = "AssignmentNode" /\ Return /\ UNCHANGED insert
  BY DEF AssignmentRhs, Resume, At, top
<1>2. top.at \notin ScopeLabels /\ top.at \notin ExpressionLabels
  BY <1>1 DEF ScopeLabels, BlockLabels, ExpressionLabels
<1>3. ~Waiting(s)
  BY <1>2, UnderwayFacts, ReturnsTo
<1>4. /\ Owned(s, operands', scopeStack, Alive') /\ Len(scopeStack) \in Nat
      /\ Owned(<<top>> \o s, operands, scopeStack, Alive)
      /\ s \in Seq(Frames) /\ Len(s) \in Nat /\ top \in Frames
  BY <1>2, CallersOwn, UnderwayFacts
<1>5. PICK slot \in Values :
        /\ top.name \in Names
        /\ slot = (IF top.slot = NoSlot THEN Value(toLLVMType(top.other), insert) ELSE top.slot)
        /\ scopeStack # <<>>
        /\ top.slot = NoSlot => scopeStack' = declare(scopeStack, top.name, slot)
        /\ top.slot # NoSlot => scopeStack' = scopeStack
  BY AssignmentRhsNames DEF Underway, Typed
<1>6. CASE top.slot # NoSlot
  BY <1>1, <1>3, <1>4, <1>5, <1>6, OwnsReturn
<1>7. CASE top.slot = NoSlot
  <2> DEFINE h == Head(s)
             t == Tail(s)
             n == Len(scopeStack)
             new == declare(scopeStack, top.name, slot)
  <2>1. s # <<>> /\ h.at \in ScopeLabels
    <3>1. Binds(top)
      BY <1>1, <1>7 DEF Binds
    <3> QED BY <1>4, <3>1, OwnedPop
  <2>2. /\ h \in Frames /\ t \in Seq(Frames) /\ s = <<h>> \o t /\ Len(t) = Len(s) - 1
        /\ Len(t) \in Nat
    <3> HIDE DEF s
    <3> QED BY <1>4, <2>1
  <2>3. scopeStack \in Seq([Names -> Slots]) /\ slot \in Slots
    BY SlotFacts DEF Underway, Typed, ScopesTyped
  <2>4. /\ Len(new) = n
        /\ \A i \in 1..n, m \in Names :
             new[i][m] = IF i = n /\ m = top.name THEN slot ELSE scopeStack[i][m]
        /\ new \in Seq([Names -> Slots])
    <3>1. scopeStack # <<>> /\ top.name \in Names
      BY <1>5
    <3> HIDE DEF s
    <3> QED BY <2>3, <3>1, DeclareFacts
  <2>5. /\ PopScope \in Seq([Names -> Slots]) /\ Len(PopScope) = n - 1
        /\ \A i \in 1..Len(PopScope) : PopScope[i] = scopeStack[i] /\ i \in 1..n
    BY <1>5, <2>3, PopFacts DEF ScopesTyped
  <2>6. n \in Nat /\ n # 0 /\ Len(PopScope) \in Nat
    BY <1>4, <1>5, <2>5
  <2> HIDE DEF new, n, h, t, s
  <2>7. OneMore(scopeStack, PopScope)
    BY <2>5, <2>6 DEF OneMore, n
  <2>8. OneMore(new, PopScope)
    <3>1. ASSUME NEW i \in 1..Len(PopScope) PROVE new[i] = PopScope[i]
      <4>1. i \in 1..n /\ i # n
        BY <2>5, <2>6
      <4>2. \A m \in Names : new[i][m] = scopeStack[i][m]
        BY <2>4, <4>1
      <4>3. new[i] \in [Names -> Slots] /\ scopeStack[i] \in [Names -> Slots]
        BY <2>3, <2>4, <4>1 DEF n
      <4> QED BY <2>5, <4>2, <4>3
    <3> QED BY <2>4, <2>5, <2>6, <3>1 DEF OneMore
  <2>9. /\ BoundLive(scopeStack[n], Len(t), Alive')
        /\ ScopesLive(t, PopScope, Alive')
    <3>1. ScopesLive(<<h>> \o t, scopeStack, Alive')
      BY <1>4, <2>2 DEF Owned
    <3> QED BY <1>4, <2>1, <2>2, <2>7, <3>1, ScopesPop DEF n
  <2>10. <<insert', Len(t)>> \in Alive'
    <3>1. stack' = s /\ Len(stack') = Len(t) + 1
      BY <1>1, <1>4, <2>2 DEF Return, s
    <3>2. insert' \in 1..Len(blocks')
      BY UnderwayFacts, MovesBlocks DEF BlocksGrow, Underway
    <3>3. \A k \in Ranks(stack') : Len(t) <= k => Targets(FrameAt(stack', k)) = {}
      <4> SUFFICES ASSUME NEW k \in Ranks(stack'), Len(t) <= k
                   PROVE  Targets(FrameAt(stack', k)) = {}
        OBVIOUS
      <4>1. k = Len(t) /\ Len(stack') - k = 1
        BY <2>2, <3>1 DEF Ranks
      <4>2. FrameAt(stack', k) = h
        BY <2>1, <3>1, <4>1 DEF FrameAt, h
      <4>3. Kept(h) = 0
        BY <2>1 DEF Kept, ShortCircuit, ScopeLabels, BlockLabels
      <4> QED BY <4>2, <4>3 DEF Targets
    <3> QED BY <2>2, <3>2, <3>3, LivingHere DEF Alive
  <2>11. BoundLive(new[n], Len(t), Alive')
    <3>1. slot.block = insert'
      BY <1>1, <1>5, <1>7, BlockOfValue
    <3>2. \A m \in Names : new[n][m] = IF m = top.name THEN slot ELSE scopeStack[n][m]
      BY <2>4, <2>6
    <3> QED BY <2>9, <2>10, <3>1, <3>2 DEF BoundLive
  <2>12. ScopesLive(<<h>> \o t, new, Alive')
    <3>1. Scoping(h, PopScope, new, Len(t), Alive')
      BY <2>1, <2>4, <2>8, <2>11 DEF Scoping
    <3> QED BY <2>2, <2>6, <2>9, <3>1, ScopesPush
  <2>13. Owned(s, operands', new, Alive')
    BY <1>4, <2>2, <2>12 DEF Owned
  <2> QED BY <1>1, <1>3, <1>5, <1>7, <2>13, OwnsReturn DEF new, s
<1> QED BY <1>6, <1>7

\* A block makes a scope, in which nothing is bound yet.
LEMMA BlockStatementNodeOwns ==
    ASSUME Underway, BlockStatementNode
    PROVE  Owning'
<1> DEFINE s == Tail(stack)
           f == Frame("BlockStatementNode")
           new == Append(scopeStack, EmptyScope)
<1>1. top.at = "statement" /\ scopeStack' = new /\ Call(<<f>>)
  BY DEF BlockStatementNode, Visit, At, top
<1>2. top.at \notin ScopeLabels
  BY <1>1 DEF ScopeLabels, BlockLabels
<1>3. Owned(s, operands', scopeStack, Alive') /\ Len(scopeStack) \in Nat
  BY <1>2, CallersOwn, UnderwayFacts
<1>4. f.at = "BlockStatementNode" /\ f.at \notin AfterExpr /\ f.at \in ScopeLabels
  BY FreshFrames DEF AfterExpr, ScopeLabels, BlockLabels
<1>5. OneMore(new, scopeStack) /\ new[Len(new)] = EmptyScope
  <2>1. scopeStack \in Seq([Names -> Slots])
    BY DEF Underway, Typed, ScopesTyped
  <2>2. EmptyScope \in [Names -> Slots]
    BY DEF EmptyScope, Slots
  <2> QED BY <1>3, <2>1, <2>2 DEF OneMore
<1> HIDE DEF f, new
<1>6. BoundLive(new[Len(new)], Len(s), Alive')
  BY <1>5 DEF BoundLive, EmptyScope
<1>7. Joins(f, s, operands', scopeStack, scopeStack', Alive')
  BY <1>1, <1>4, <1>5, <1>6 DEF Joins, Keeps, ShortCircuit, Held, Binds, Scoping
<1> QED BY <1>1, <1>3, <1>4, <1>7, OwnsCall

\* A block is done, and its scope goes.
LEMMA BlockEndOwns ==
    ASSUME Underway, top.at \in BlockLabels, Return, scopeStack' = PopScope
    PROVE  Owning'
<1>1. Owned(Tail(stack), operands', PopScope, Alive')
  <2>1. /\ Len(scopeStack) \in Nat /\ Len(PopScope) = Len(scopeStack) - 1 /\ scopeStack # <<>>
        /\ scopeStack \in Seq([Names -> Slots])
    BY UnderwayFacts, BlockPops DEF Underway, Typed, ScopesTyped
  <2>2. \A i \in 1..Len(PopScope) : scopeStack[i] = PopScope[i]
    BY <2>1, PopFacts DEF ScopesTyped
  <2>3. OneMore(scopeStack, PopScope)
    BY <2>1, <2>2 DEF OneMore
  <2> QED BY <2>3, CallersOwn DEF ScopeLabels
<1>2. ~Waiting(Tail(stack))
  <2>1. top.at \notin ExpressionLabels
    BY DEF BlockLabels, ExpressionLabels
  <2> QED BY <2>1, UnderwayFacts, ReturnsTo
<1> QED BY <1>1, <1>2, OwnsReturn

\* A block goes on: its frame stays one with a scope.
LEMMA BlockGoesOnOwns ==
    ASSUME Underway, top.at \in BlockLabels, UNCHANGED scopeStack,
           \/ Call(<<Statement, Frame("BlockStatementNode.stmt")>>)
           \/ Call(<<Frame("BlockStatementNode")>>)
    PROVE  Owning'
<1> DEFINE s == Tail(stack)
<1>1. /\ Len(scopeStack) \in Nat /\ Len(PopScope) = Len(scopeStack) - 1 /\ scopeStack # <<>>
      /\ scopeStack \in Seq([Names -> Slots])
  BY UnderwayFacts, BlockPops DEF Underway, Typed, ScopesTyped
<1>2. OneMore(scopeStack, PopScope) /\ Len(PopScope) \in Nat
  <2>1. \A i \in 1..Len(PopScope) : scopeStack[i] = PopScope[i]
    BY <1>1, PopFacts DEF ScopesTyped
  <2>2. Len(scopeStack) # 0
    BY <1>1
  <2> QED BY <1>1, <2>1, <2>2 DEF OneMore
<1>3. Owned(s, operands', PopScope, Alive')
  BY <1>2, CallersOwn DEF ScopeLabels
<1>4. BoundLive(scopeStack[Len(scopeStack)], Len(s), Alive')
  <2>1. /\ s \in Seq(Frames) /\ top \in Frames /\ Len(s) \in Nat
        /\ Owned(<<top>> \o s, operands, scopeStack, Alive)
    BY UnderwayFacts
  <2>2. BoundLive(scopeStack[Len(scopeStack)], Len(s), Alive)
    BY <1>1, <2>1, OwnedPop DEF ScopeLabels
  <2>3. \A d : <<d, Len(s)>> \in Alive => <<d, Len(s)>> \in Alive'
    <3>1. Len(s) <= Len(s)
      BY <2>1
    <3> QED BY <3>1, StepLives
  <2> QED BY <2>2, <2>3 DEF BoundLive
<1>5. ASSUME NEW f, f.at \in BlockLabels
      PROVE  Joins(f, s, operands', PopScope, scopeStack', Alive')
  BY <1>2, <1>4, <1>5 DEF Joins, Keeps, ShortCircuit, Held, Binds, Scoping, ScopeLabels, BlockLabels
<1>6. CASE Call(<<Statement, Frame("BlockStatementNode.stmt")>>)
  <2> DEFINE f == Frame("BlockStatementNode.stmt")
  <2>1. f.at \in BlockLabels /\ f.at \in ScopeLabels /\ Statement.at = "statement"
    BY FreshFrames DEF BlockLabels, ScopeLabels
  <2>2. Call(<<Statement, f>>)
    BY <1>6
  <2> HIDE DEF f
  <2> QED BY <1>2, <1>3, <1>5, <2>1, <2>2, OwnsCalls
<1>7. CASE Call(<<Frame("BlockStatementNode")>>)
  <2> DEFINE f == Frame("BlockStatementNode")
  <2>1. f.at \in BlockLabels /\ f.at \notin AfterExpr
    BY FreshFrames DEF BlockLabels, AfterExpr
  <2>2. Call(<<f>>)
    BY <1>7
  <2> HIDE DEF f
  <2> QED BY <1>2, <1>3, <1>5, <2>1, <2>2, OwnsCall
<1> QED BY <1>6, <1>7

LEMMA BlocksOwn ==
    ASSUME Underway, BlockLoop \/ BlockStatement
    PROVE  Owning'
<1>1. top.at \in BlockLabels
  BY DEF BlockLoop, BlockStatement, Resume, At, top, BlockLabels
<1>2. \/ Return /\ scopeStack' = PopScope
      \/ /\ UNCHANGED scopeStack
         /\ \/ Call(<<Statement, Frame("BlockStatementNode.stmt")>>)
            \/ Call(<<Frame("BlockStatementNode")>>)
  BY DEF BlockLoop, BlockStatement
<1> QED BY <1>1, <1>2, BlockEndOwns, BlockGoesOnOwns

\* The body of a function is done.
LEMMA FunctionDefEndOwns ==
    ASSUME Underway, FunctionDefEnd
    PROVE  Owning'
<1>1. top.at = "FunctionDefNode" /\ stack' = Tail(stack)
  BY DEF FunctionDefEnd, Resume, At, top, Return
<1>2. Tail(stack) \in Seq(Frames) /\ CanCall(Tail(stack), top, sigs)
  BY UnderwayFacts, Active
<1>3. Tail(stack) # <<>> => Head(Tail(stack)).at = "VectorNode"
  <2> SUFFICES ASSUME Tail(stack) # <<>> PROVE Head(Tail(stack)).at = "VectorNode"
    OBVIOUS
  <2>1. Expects(Head(Tail(stack)).at) = "function"
    BY <1>1, <1>2, LabelFacts DEF CanCall
  <2>2. Head(Tail(stack)).at \in Labels
    <3> DEFINE s == Tail(stack)
    <3>1. s \in Seq(Frames) /\ s # <<>>
      BY <1>2
    <3> HIDE DEF s
    <3>2. Head(s) \in Frames
      BY <3>1
    <3> QED BY <3>2 DEF Frames, s
  <2> QED BY <2>1, <2>2, Kinds
<1> QED BY <1>1, <1>3 DEF Owning, At

LEMMA MovesOwn ==
    ASSUME Underway
    PROVE  Owning'
<1>1. ~Unwind
  BY DEF Underway, Unwind
<1>2. CASE Expressions
  BY <1>2, ConstantNodeOwns, VarNodeOwns, RhsOwns, UnaryOperandOwns, FuncallNodeOwns,
     FuncallArgOwns, EagerLhsOwns, ShortCircuitLhsOwns, PlainStepsOwn
     DEF Expressions, PlainSteps
<1>3. CASE Statements
  BY <1>3, AssignmentNodeOwns, AssignmentRhsOwns, BlockStatementNodeOwns, BlocksOwn,
     DoWhileBodyOwns, ReturningOwn, PlainStepsOwn
     DEF Statements, PlainSteps, Returning
<1> QED BY <1>1, <1>2, <1>3, FunctionDefEndOwns DEF Underway, Moves
-----------------------------------------------------------------------------
(* The uses on record after a step                                         *)

\* What can be used now.
Usable(block) == block \in {1, insert} \/ \E q : <<block, q>> \in Alive

LEMMA UsingRecorded ==
    ASSUME Underway, NEW V, \A v \in V : Usable(v.block)
    PROVE  \A a \in Using(V) : Recorded(stack', blocks', insert', a[1], a[2])
<1> SUFFICES ASSUME NEW a \in Using(V)
             PROVE  Recorded(stack', blocks', insert', a[1], a[2])
  OBVIOUS
<1>1. CASE a \in accesses
  <2>1. Recorded(stack, blocks, insert, a[1], a[2])
    BY <1>1 DEF Underway, Recording
  <2> QED BY <2>1, StepLives
<1>2. CASE a \notin accesses
  <2>1. PICK v \in V : v.block \notin {1, insert} /\ a = <<v.block, insert>>
    BY <1>2 DEF Using
  <2>2. PICK q : <<v.block, q>> \in Alive
    BY <2>1 DEF Usable
  <2>3. Recorded(stack, blocks, insert, v.block, insert)
    BY <2>1, <2>2, LivingRecorded DEF Alive
  <2> QED BY <2>1, <2>3, StepLives
<1> QED BY <1>1, <1>2

\* The steps that use no value.
LEMMA NothingUsed ==
    ASSUME Underway, UNCHANGED accesses
    PROVE  Recording'
BY StepLives DEF Underway, Recording

\* The steps that use values, or the result that they waited for.
LEMMA ValuesUsed ==
    ASSUME Underway, NEW V, accesses' = Using(V), \A v \in V : Usable(v.block)
    PROVE  Recording'
BY UsingRecorded DEF Recording

LEMMA ResultUsable ==
    ASSUME Underway, NEW l \in AfterExpr, Resume(l)
    PROVE  Usable(topValue.block)
<1>1. Waiting(stack)
  BY DEF Waiting, Resume, At
<1> QED BY <1>1, UnderwayFacts DEF Usable

LEMMA KeepsUsable ==
    ASSUME Underway
    PROVE  /\ \A d \in Keeps(top) : <<d, Len(Tail(stack))>> \in Alive /\ Usable(d)
           /\ Held(top) => Usable(operands[HeldCount(Tail(stack)) + 1].block)
<1>1. /\ Tail(stack) \in Seq(Frames) /\ top \in Frames /\ Len(scopeStack) \in Nat
      /\ Owned(<<top>> \o Tail(stack), operands, scopeStack, Alive)
  BY UnderwayFacts
<1>2. /\ \A d \in Keeps(top) : <<d, Len(Tail(stack))>> \in Alive
      /\ Held(top) => <<operands[HeldCount(Tail(stack)) + 1].block, Len(Tail(stack))>> \in Alive
  BY <1>1, OwnedPop
<1> QED BY <1>2 DEF Usable

\* The slot of a short-circuit operator, or of an assignment that has one.
LEMMA SlotUsable ==
    ASSUME Underway, ShortCircuit(top) \/ (top.at = "AssignmentNode" /\ top.slot # NoSlot)
    PROVE  /\ Usable(top.slot.block)
           /\ <<top.slot.block, Len(Tail(stack))>> \in Alive
<1>1. top.slot.block \in Keeps(top)
  BY DEF Keeps
<1> QED BY <1>1, KeepsUsable

LEMMA VarNodeRecords ==
    ASSUME Underway, VarNode
    PROVE  Recording'
<1>1. PICK n \in Names : /\ lookup(scopeStack, n) # NoSlot
                         /\ accesses' = Using({lookup(scopeStack, n)})
  BY DEF VarNode, Underway, Error
<1>2. ScopesLive(stack, scopeStack, Alive) /\ Len(stack) \in Nat
  <2>1. /\ stack = <<top>> \o Tail(stack) /\ Len(stack) \in Nat
        /\ Owned(<<top>> \o Tail(stack), operands, scopeStack, Alive)
    BY UnderwayFacts
  <2>2. Owned(stack, operands, scopeStack, Alive)
    BY <2>1, Zenon
  <2> QED BY <2>1, <2>2 DEF Owned
<1>3. <<lookup(scopeStack, n).block, Len(stack)>> \in Alive
  <2>1. scopeStack \in Seq([Names -> Slots]) /\ Len(stack) <= Len(stack)
    BY <1>2 DEF Underway, Typed, ScopesTyped
  <2> QED BY <1>1, <1>2, <2>1, LookupLives DEF Alive
<1>4. \A v \in {lookup(scopeStack, n)} : Usable(v.block)
  BY <1>3 DEF Usable
<1> QED BY <1>1, <1>4, ValuesUsed

LEMMA EagerRhsRecords ==
    ASSUME Underway, EagerRhs
    PROVE  Recording'
<1> DEFINE lhs == operands[Len(operands) - 1]
           s == Tail(stack)
<1>1. /\ Resume("BinaryNode.rhs") /\ Held(top) /\ "BinaryNode.rhs" \in AfterExpr
      /\ accesses' = Using({lhs, topValue})
  BY DEF EagerRhs, Resume, At, top, Held, AfterExpr
<1>2. Len(operands) = HeldCount(s) + 2 /\ HeldCount(s) \in Nat
  <2>1. s \in Seq(Frames) /\ top \in Frames /\ stack = <<top>> \o s
    BY UnderwayFacts
  <2>2. OperandsOK(stack, operands, odd)
    BY DEF Underway, Coherent, Results
  <2>3. OperandsOK(<<top>> \o s, operands, odd)
    BY <2>1, <2>2, Zenon
  <2>4. HeldCount(s) \in Nat
    BY <2>1, HeldPush
  <2> QED BY <1>1, <2>1, <2>3, <2>4, OperandsFound
<1>3. lhs = operands[HeldCount(s) + 1]
  BY <1>2
<1> HIDE DEF lhs
<1>4. Usable(lhs.block) /\ Usable(topValue.block)
  BY <1>1, <1>3, KeepsUsable, ResultUsable
<1>5. \A v \in {lhs, topValue} : Usable(v.block)
  BY <1>4
<1> QED BY <1>1, <1>5, ValuesUsed

\* The operand and the slot are used here, and the slot again after the merge.
LEMMA ShortCircuitRhsRecords ==
    ASSUME Underway, ShortCircuitRhs
    PROVE  Recording'
<1> DEFINE d == top.slot.block
           V == {topValue, top.slot}
<1>1. /\ Resume("BinaryNode.rhs") /\ ShortCircuit(top) /\ "BinaryNode.rhs" \in AfterExpr
      /\ accesses' = Using(V) \cup ({<<d, insert'>>} \ {<<1, insert'>>})
  BY DEF ShortCircuitRhs, ShortCircuit, Resume, At, top, AfterExpr
<1>2. \A v \in V : Usable(v.block)
  BY <1>1, SlotUsable, ResultUsable
<1>3. \A a \in Using(V) : Recorded(stack', blocks', insert', a[1], a[2])
  BY <1>2, UsingRecorded
<1>4. ASSUME d # 1 PROVE Recorded(stack', blocks', insert', d, insert')
  <2>1. <<d, Len(Tail(stack))>> \in Alive
    BY <1>1, <1>4, SlotUsable
  <2>2. Len(Tail(stack)) <= Len(Tail(stack))
    BY UnderwayFacts
  <2>3. <<d, Len(Tail(stack))>> \in Alive'
    BY <2>1, <2>2, StepLives
  <2> HIDE DEF d
  <2> QED BY <1>4, <2>3, LivingRecorded DEF Alive
<1> HIDE DEF V, d
<1>5. \A a \in accesses' : a \in Using(V) \/ (a = <<d, insert'>> /\ d # 1)
  BY <1>1
<1> QED BY <1>3, <1>4, <1>5 DEF Recording

LEMMA AssignmentRhsRecords ==
    ASSUME Underway, AssignmentRhs
    PROVE  Recording'
<1> DEFINE slot == IF top.slot = NoSlot THEN Value(toLLVMType(top.other), insert) ELSE top.slot
<1>1. /\ Resume("AssignmentNode") /\ top.at = "AssignmentNode" /\ "AssignmentNode" \in AfterExpr
      /\ accesses' = Using({topValue, slot})
  BY DEF AssignmentRhs, Resume, At, top, AfterExpr
<1>2. Usable(slot.block)
  BY <1>1, SlotUsable, BlockOfValue DEF Usable
<1> HIDE DEF slot
<1>3. \A v \in {topValue, slot} : Usable(v.block)
  BY <1>1, <1>2, ResultUsable
<1> QED BY <1>1, <1>3, ValuesUsed

LEMMA FuncallArgRecords ==
    ASSUME Underway, FuncallArg
    PROVE  Recording'
<1> DEFINE idx == Len(funcs[top.name].params) - Len(top.args)
           arg == cast(topValue, funcs[top.name].params[idx].type)
           bbs == Append(top.bbs, arg.block)
           W == {Value("none", bbs[i]) : i \in DOMAIN bbs}
           V == {topValue} \cup W
<1>1. /\ Resume("FuncallNode") /\ top.at = "FuncallNode" /\ "FuncallNode" \in AfterExpr
  BY Zenon DEF FuncallArg, Resume, At, top, AfterExpr
<1>2. accesses' \in {Using({topValue}), Using(V)}
  BY Zenon DEF FuncallArg
<1>3. Usable(topValue.block)
  BY <1>1, ResultUsable
<1>4. arg.block \in {topValue.block, insert}
  BY BlockOfValue DEF cast
<1> HIDE DEF arg
<1>5. top.bbs \in Seq(Nat) /\ arg.block \in Nat
  <2>1. topValue \in Values /\ top \in Frames /\ insert \in Nat
    BY <1>1, ValueFound DEF Underway
  <2> QED BY <1>4, <2>1 DEF Frames, Values
<1>6. \A i \in DOMAIN bbs : bbs[i] = arg.block \/ \E j \in 1..Len(top.bbs) : bbs[i] = top.bbs[j]
  BY <1>5
<1> HIDE DEF bbs
<1>7. \A v \in W : Usable(v.block)
  <2>1. Usable(arg.block)
    BY <1>3, <1>4 DEF Usable
  <2>2. \A j \in 1..Len(top.bbs) : Usable(top.bbs[j])
    BY <1>1, KeepsUsable DEF Keeps, ShortCircuit
  <2>3. \A i \in DOMAIN bbs : Usable(bbs[i])
    BY <1>6, <2>1, <2>2
  <2> QED BY <2>3, BlockOfValue
<1> HIDE DEF W
<1>8. \A v \in V : Usable(v.block)
  BY <1>3, <1>7
<1>9. \A v \in {topValue} : Usable(v.block)
  BY <1>3
<1> HIDE DEF V
<1> QED BY <1>2, <1>8, <1>9, ValuesUsed

LEMMA MovesRecord ==
    ASSUME Underway
    PROVE  Recording'
<1>1. CASE Expressive \/ ConstantNode \/ FuncallNode
  <2>1. UNCHANGED accesses
    BY <1>1, ExpressiveKeep DEF ConstantNode, FuncallNode, ir
  <2> QED BY <2>1, NothingUsed
<1>2. CASE \/ ShortCircuitLhs \/ UnaryOperand \/ IoPrintNode \/ ReturnNode
           \/ IfCond \/ WhileCond \/ DoWhileCond
  <2>1. accesses' = Using({topValue})
    BY <1>2 DEF ShortCircuitLhs, UnaryOperand, IoPrintNode, ReturnNode,
       IfCond, WhileCond, DoWhileCond
  <2>2. \A v \in {topValue} : Usable(v.block)
    BY <1>2, TakingFacts, ResultUsable DEF Taking
  <2> QED BY <2>1, <2>2, ValuesUsed
<1>3. Expressive \/ Taking \/ ConstantNode \/ VarNode \/ FuncallNode
  BY MovesSplit DEF Underway
<1> QED BY <1>1, <1>2, <1>3, VarNodeRecords, EagerRhsRecords, ShortCircuitRhsRecords,
   AssignmentRhsRecords, FuncallArgRecords DEF Taking
-----------------------------------------------------------------------------
(* Every reachable state                                                   *)

LEMMA NothingOwned ==
    ASSUME NEW ops, NEW G
    PROVE  Owned(<<>>, ops, <<>>, G)
<1>1. Ranks(<<>>) = {} /\ Pending(<<>>) = {}
  <2>1. Len(<<>>) = 0
    OBVIOUS
  <2>2. 0..(0 - 1) = {} /\ 1..0 = {}
    OBVIOUS
  <2> QED BY <2>1, <2>2 DEF Ranks, Pending
<1>2. ScopesLive(<<>>, <<>>, G)
  <2> DEFINE p == [m \in {} |-> 0]
             n == Len(<<>>)
  <2>1. n = 0 /\ 1..n = {}
    OBVIOUS
  <2>2. p \in [1..n -> Ranks(<<>>)]
    BY <1>1, <2>1
  <2> HIDE DEF p
  <2>3. Places(<<>>, n, p)
    BY <1>1, <2>1 DEF Places
  <2>4. \A m \in 1..n : FALSE
    BY <2>1
  <2> QED BY <2>2, <2>3, <2>4 DEF ScopesLive
<1> QED BY <1>1, <1>2 DEF Owned, KeepsLive, HeldLive, Placed

\* The frames of a function that begins.
LEMMA FunctionFrames ==
    ASSUME Control, Control', Results, FunctionDefNode
    PROVE  /\ Statement \in Frames /\ Frame("FunctionDefNode") \in Frames
           /\ Frame("VectorNode") \in Frames
           /\ stack' = <<Statement>> \o (<<Frame("FunctionDefNode")>>
                                           \o (<<Frame("VectorNode")>> \o <<>>))
<1> DEFINE a == Statement
           b == Frame("FunctionDefNode")
           c == Frame("VectorNode")
           x == <<a, b, c>> \o <<>>
           y == <<a>> \o (<<b>> \o (<<c>> \o <<>>))
<1>1. a \in Frames /\ b \in Frames /\ c \in Frames
  BY PlainFrames DEF FrameOK
<1>2. stack' = x
  <2>1. At("VectorNode") /\ Call(<<a, b, c>>)
    BY DEF FunctionDefNode
  <2> QED BY <2>1, Bottom DEF Call
<1> HIDE DEF a, b, c
<1>3. x \in Seq(Frames) /\ Len(x) = 3 /\ x[1] = a /\ x[2] = b /\ x[3] = c
  BY <1>1
<1>4. y \in Seq(Frames) /\ Len(y) = 3 /\ y[1] = a /\ y[2] = b /\ y[3] = c
  BY <1>1
<1> HIDE DEF x, y
<1>5. \A i \in 1..Len(x) : x[i] = y[i]
  BY <1>3, <1>4
<1>6. x = y
  BY <1>3, <1>4, <1>5, SeqEqual
<1> QED BY <1>1, <1>2, <1>6 DEF a, b, c, x, y

\* The parameters are in the entry block.
LEMMA FunctionDefNodeOwns ==
    ASSUME Control, Control', Results, FunctionDefNode
    PROVE  Owning'
<1> DEFINE a == Statement
           b == Frame("FunctionDefNode")
           c == Frame("VectorNode")
           q == <<c>> \o <<>>
           r == <<b>> \o q
           s == <<a>> \o r
           e == <<>>
           G == Alive'
<1>1. /\ a \in Frames /\ b \in Frames /\ c \in Frames /\ stack' = s
  BY FunctionFrames
<1>2. /\ a.at = "statement" /\ a.kind # "body" /\ b.at = "FunctionDefNode" /\ c.at = "VectorNode"
  BY FreshFrames DEF Statement, Frame, NULL
<1>3. PICK names, types :
        /\ names \in [Names -> BOOLEAN]
        /\ scopeStack' = <<[m \in Names |-> IF names[m] THEN NoSlot ELSE Constant(types[m])]>>
  <2>1. PICK params :
          scopeStack' = <<[m \in Names |-> IF Named(params, m) = {} THEN NoSlot
                                           ELSE Constant(params[Last(Named(params, m))].type)]>>
    BY DEF FunctionDefNode
  <2> DEFINE names == [m \in Names |-> Named(params, m) = {}]
             types == [m \in Names |-> params[Last(Named(params, m))].type]
  <2>2. names \in [Names -> BOOLEAN]
    OBVIOUS
  <2>3. scopeStack' = <<[m \in Names |-> IF names[m] THEN NoSlot ELSE Constant(types[m])]>>
    BY <2>1
  <2> HIDE DEF names, types
  <2> QED BY <2>2, <2>3
<1> DEFINE f == [m \in Names |-> IF names[m] THEN NoSlot ELSE Constant(types[m])]
<1> HIDE DEF a, b, c
<1>4. Owned(e, operands', e, G) /\ e \in Seq(Frames) /\ Len(e) = 0
  BY NothingOwned
<1>5. q \in Seq(Frames) /\ Len(q) = 1
  BY <1>1
<1>6. Owned(q, operands', e, G)
  <2>1. Joins(c, e, operands', e, e, G)
    BY <1>2 DEF Joins, Keeps, ShortCircuit, Held, Binds, Scoping, ScopeLabels, BlockLabels
  <2>2. Len(e) \in Nat
    BY <1>4
  <2> HIDE DEF e, G
  <2>3. Owned(<<c>> \o e, operands', e, G)
    BY <1>1, <1>4, <2>1, <2>2, OwnedPush
  <2> QED BY <2>3 DEF e
<1>7. BoundLive(f, 1, G)
  <2> SUFFICES ASSUME NEW m \in Names, f[m] # NoSlot PROVE <<f[m].block, 1>> \in G
    BY DEF BoundLive
  <2>1. f[m] = Constant(types[m])
    OBVIOUS
  <2>2. f[m].block = 1
    BY <2>1, BlockOfValue DEF Constant
  <2> HIDE DEF f
  <2> QED BY <2>2, LivingEntry DEF Alive
<1>8. scopeStack' = <<f>> /\ Len(<<f>>) = 1 /\ <<f>>[1] = f
  BY <1>3
<1> HIDE DEF f, q
<1>9. Owned(r, operands', scopeStack', G) /\ r \in Seq(Frames) /\ Head(r) = b /\ r # <<>>
  <2> DEFINE g == <<f>>
  <2>1. OneMore(g, e)
    <3>1. Len(e) = 0 /\ \A m : m \notin 1..0
      BY <1>4
    <3> QED BY <1>8, <3>1 DEF OneMore
  <2>2. Scoping(b, e, g, Len(q), G)
    BY <1>2, <1>5, <1>7, <1>8, <2>1 DEF Scoping, ScopeLabels
  <2> HIDE DEF g
  <2>3. Joins(b, q, operands', e, g, G)
    BY <1>2, <2>2 DEF Joins, Keeps, ShortCircuit, Held, Binds
  <2>4. Len(e) \in Nat
    BY <1>4
  <2> HIDE DEF e, G
  <2>5. Owned(<<b>> \o q, operands', g, G)
    BY <1>1, <1>5, <1>6, <2>3, <2>4, OwnedPush
  <2>6. r \in Seq(Frames) /\ Head(r) = b /\ r # <<>>
    BY <1>1, <1>5
  <2> QED BY <1>8, <2>5, <2>6 DEF g
<1> HIDE DEF r
<1>10. Owned(s, operands', scopeStack', G)
  <2>1. Joins(a, r, operands', scopeStack', scopeStack', G)
    BY <1>2, <1>9 DEF Joins, Keeps, ShortCircuit, Held, Binds, Scoping, ScopeLabels, BlockLabels
  <2>2. Len(scopeStack') \in Nat
    BY <1>8
  <2> HIDE DEF G
  <2> QED BY <1>1, <1>9, <2>1, <2>2, OwnedPush
<1>11. Head(s) = a
  BY <1>1, <1>9
<1> HIDE DEF s, G
<1>12. ~Waiting(stack')
  <2>1. a.at \notin AfterExpr
    BY <1>2, LabelFacts
  <2> QED BY <1>1, <1>11, <2>1, Zenon DEF Waiting
<1>13. Owned(stack', operands', scopeStack', G)
  BY <1>1, <1>10, Zenon
<1> QED BY <1>12, <1>13 DEF Owning, G

\* What was used stays on record when the call stack is empty.
LEMMA VectorNodeEndRecords ==
    ASSUME Control, Results, Recording, VectorNodeEnd
    PROVE  Recording' /\ Owning'
<1>1. /\ UNCHANGED <<blocks, insert, accesses>> /\ At("VectorNode") /\ Return
  BY DEF VectorNodeEnd, ir
<1>2. stack' = <<>>
  BY <1>1, Bottom DEF Return
<1>3. \A d, Q : Gone(<<>>, d, Q)
  <2>1. Len(<<>>) = 0 /\ \A k : k \notin 0..(0 - 1)
    OBVIOUS
  <2> QED BY <2>1 DEF Gone, Ranks
<1>4. \A d, u : Recorded(stack, blocks, insert, d, u) => Recorded(stack', blocks', insert', d, u)
  BY <1>1, <1>2, <1>3 DEF Recorded
<1> QED BY <1>1, <1>2, <1>4 DEF Recording, Owning

LEMMA DominanceStep ==
    ASSUME Inv, Inv', BlocksOK, DominanceOK, [Next]_vars
    PROVE  DominanceOK'
<1>0. SUFFICES ASSUME Proper' PROVE Recording' /\ Owning'
  BY DEF DominanceOK
<1>1. Control /\ Control' /\ Results /\ Typed
  BY DEF Inv
<1>2. CASE Moves
  <2>1. stack # <<>> /\ ~At("VectorNode")
    BY <1>2, MovesAreRunning
  <2>2. insert \in 1..Len(blocks) /\ insert' \in 1..Len(blocks')
    BY <1>1, <1>2, <2>1, MovesBlocks DEF Control, Running, BlocksGrow
  <2>3. blocks # <<>> /\ blocks' # <<>>
    BY <1>1, <2>2 DEF Control
  <2>4. Coherent /\ Coherent'
    BY <2>3 DEF Inv, Coherent
  <2>5. isSuccess /\ odd \subseteq odd'
    BY <1>0, <1>1, <1>2, NoWayBack, MovesKeep DEF Proper
  <2>6. Underway
    BY <1>0, <1>1, <1>2, <2>4, <2>5 DEF Underway, DominanceOK, Proper
  <2> QED BY <2>6, MovesOwn, MovesRecord
<1>3. CASE FunctionDefNode
  <2>1. accesses' = {}
    BY <1>3 DEF FunctionDefNode
  <2> QED BY <1>1, <1>3, <2>1, FunctionDefNodeOwns DEF Recording
<1>4. CASE VectorNodeEnd
  <2>1. Proper
    BY <1>0, <1>4 DEF VectorNodeEnd, ast, Proper
  <2> QED BY <1>1, <1>4, <2>1, VectorNodeEndRecords DEF DominanceOK
<1>5. CASE UNCHANGED vars
  <2>1. UNCHANGED <<isSuccess, operands, scopeStack, blocks, insert, accesses, stack, odd>>
    BY <1>5 DEF vars, syms, ir, ast
  <2> QED BY <1>0, <2>1 DEF Proper, DominanceOK, Recording, Owning, Alive, topValue, At
<1> QED BY <1>2, <1>3, <1>4, <1>5 DEF Next, Moves, Functions, Done

\* Every definition that is still to be used is one that the frames up to its
\* user are dominated by, and no branch will go around one that was used.
THEOREM DominanceInvariance == Spec => []DominanceOK
<1>1. Init => DominanceOK
  <2> SUFFICES ASSUME Init PROVE DominanceOK
    OBVIOUS
  <2>1. At("VectorNode") /\ accesses = {}
    BY FreshFrames DEF Init, At
  <2> QED BY <2>1 DEF DominanceOK, Recording, Owning
<1>2. Inv /\ Inv' /\ BlocksOK /\ DominanceOK /\ [Next]_vars => DominanceOK'
  BY DominanceStep
<1> QED BY <1>1, <1>2, GeneratorInvariance, BlocksInvariance, PTL DEF Spec
-----------------------------------------------------------------------------
(* Paths                                                                   *)

\* The blocks that are reached in one step more.
Further(reached, b) == reached \cup ((UNION {blocks[i].succs : i \in reached}) \ {b})

\* g[k] is what k steps reach from the entry block.
Steps(n, b, g) ==
    g = [k \in 0..n |-> IF k = 0 THEN {1} \ {b} ELSE Further(g[k - 1], b)]

LEMMA ReachedAvoidingSteps ==
    ASSUME NEW b
    PROVE  ReachedAvoiding(b) = (CHOOSE g : Steps(Len(blocks), b, g))[Len(blocks)]
BY Zenon DEF ReachedAvoiding, Further, Steps

LEMMA StepsExist ==
    ASSUME NEW n \in Nat, NEW b
    PROVE  \E g : Steps(n, b, g)
<1> DEFINE S == {m \in 1..n : \A g : ~Steps(m, b, g)}
<1>1. \E g : Steps(0, b, g)
  <2> DEFINE g == [k \in 0..0 |-> {1} \ {b}]
  <2>1. g = [k \in 0..0 |-> IF k = 0 THEN {1} \ {b} ELSE Further(g[k - 1], b)]
    <3>1. \A k \in 0..0 : k = 0
      OBVIOUS
    <3> QED BY <3>1
  <2> QED BY <2>1 DEF Steps
<1>2. ASSUME NEW m \in 1..n, NEW g, Steps(m - 1, b, g)
      PROVE  \E h : Steps(m, b, h)
  <2> DEFINE F(f, k) == IF k = 0 THEN {1} \ {b} ELSE Further(f[k - 1], b)
             h == [k \in 0..m |-> IF k = m THEN F(g, m) ELSE g[k]]
  <2> HIDE DEF F
  <2>1. m \in Nat /\ m # 0 /\ \A k \in 0..m : k = m \/ k \in 0..(m - 1)
    OBVIOUS
  <2>2. \A k \in 0..(m - 1) : k \in 0..m /\ k # m
    BY <2>1
  <2>3. \A k \in 0..(m - 1) : g[k] = F(g, k)
    BY <1>2 DEF Steps, F
  <2>4. \A k \in 0..m : h[k] = F(g, k)
    BY <2>1, <2>3
  <2>5. \A k \in 0..m : k # 0 => k - 1 \in 0..(m - 1)
    BY <2>1
  <2>6. \A k \in 0..(m - 1) : h[k] = g[k]
    BY <2>2
  <2> HIDE DEF h
  <2>7. \A k \in 0..m : F(h, k) = F(g, k)
    BY <2>5, <2>6 DEF F
  <2>8. h = [k \in 0..m |-> h[k]]
    BY DEF h
  <2>9. h = [k \in 0..m |-> F(h, k)]
    BY <2>4, <2>7, <2>8
  <2> QED BY <2>9 DEF F, Steps
<1>3. S = {}
  <2> SUFFICES ASSUME S # {} PROVE FALSE
    OBVIOUS
  <2>1. S \in SUBSET (1..n)
    OBVIOUS
  <2> HIDE DEF S
  <2>2. PICK m \in S : \A k \in S : m <= k
    BY <2>1, FirstPlace
  <2>3. m \in 1..n /\ m - 1 \notin S /\ (m - 1 = 0 \/ m - 1 \in 1..n)
    BY <2>1, <2>2
  <2>4. \E g : Steps(m - 1, b, g)
    BY <1>1, <2>3 DEF S
  <2>5. \E h : Steps(m, b, h)
    BY <1>2, <2>3, <2>4
  <2> QED BY <2>2, <2>5 DEF S
<1>4. n = 0 \/ n \in 1..n
  OBVIOUS
<1> QED BY <1>1, <1>3, <1>4

\* No path comes into a sealed set but at its definition.
LEMMA SealedAvoided ==
    ASSUME blocks # <<>>, blocks \in Seq(Block),
           \A b \in 1..Len(blocks) : blocks[b].succs \subseteq 1..Len(blocks),
           NEW d, NEW Q, Sealed(blocks, d, Q)
    PROVE  ReachedAvoiding(d) \cap Q = {}
<1> DEFINE n == Len(blocks)
           P == (1..n) \ Q
<1>1. n \in Nat /\ 1 \in P
  BY DEF Sealed
<1>2. PICK g : Steps(n, d, g) /\ ReachedAvoiding(d) = g[n]
  BY <1>1, StepsExist, ReachedAvoidingSteps, Zenon
<1>3. g[0] \subseteq P /\ \A k \in 1..n : g[k] = Further(g[k - 1], d)
  <2>1. \A k \in 0..n : g[k] = IF k = 0 THEN {1} \ {d} ELSE Further(g[k - 1], d)
    BY <1>2 DEF Steps
  <2>2. 0 \in 0..n /\ \A k \in 1..n : k \in 0..n /\ k # 0
    BY <1>1
  <2> HIDE DEF n, P
  <2> QED BY <1>1, <2>1, <2>2
<1>4. \A reached \in SUBSET P : Further(reached, d) \subseteq P
  <2> SUFFICES ASSUME NEW reached \in SUBSET P, NEW y \in Further(reached, d) PROVE y \in P
    OBVIOUS
  <2>1. CASE y \notin reached
    <3> DEFINE next == {blocks[i].succs : i \in reached}
    <3>1. Further(reached, d) = reached \cup ((UNION next) \ {d})
      BY DEF Further
    <3> HIDE DEF next
    <3>2. y \in UNION next /\ y # d
      BY <2>1, <3>1
    <3>3. PICK e \in next : y \in e
      BY <3>2
    <3>4. PICK x \in reached : y \in blocks[x].succs /\ y # d
      BY <3>2, <3>3 DEF next
    <3>5. x \in 1..n /\ x \notin Q /\ y \in 1..n
      BY <3>4
    <3>6. y \notin Q
      BY <3>4, <3>5 DEF Sealed
    <3> QED BY <3>5, <3>6
  <2> QED BY <2>1
<1> HIDE DEF P
<1> DEFINE S == {k \in 1..n : ~(g[k] \subseteq P)}
<1>5. S = {}
  <2> SUFFICES ASSUME S # {} PROVE FALSE
    OBVIOUS
  <2>1. S \in SUBSET (1..n)
    OBVIOUS
  <2> HIDE DEF S, n
  <2>2. PICK m \in S : \A k \in S : m <= k
    BY <1>1, <2>1, FirstPlace
  <2>3. m \in 1..n /\ m - 1 \notin S /\ (m - 1 = 0 \/ m - 1 \in 1..n)
    BY <1>1, <2>1, <2>2
  <2>4. g[m - 1] \subseteq P
    BY <1>3, <2>3 DEF S
  <2>5. g[m] \subseteq P
    BY <1>3, <1>4, <2>3, <2>4
  <2> QED BY <2>2, <2>5 DEF S
<1>6. g[n] \subseteq P
  <2>1. n = 0 \/ n \in 1..n
    BY <1>1
  <2> HIDE DEF n
  <2> QED BY <1>3, <1>5, <2>1
<1> QED BY <1>2, <1>6 DEF P

\* In a function that was generated without an error, and in which no branch or
\* loop body binds a name that outlives it, each value and each variable that an
\* instruction uses was defined on every path to it, whatever the body nests.
THEOREM DefinitionsComeFirst == Spec => []DefinitionsDominateUses
<1>1. Inv /\ BlocksOK /\ DominanceOK => DefinitionsDominateUses
  <2> SUFFICES ASSUME Inv, BlocksOK, DominanceOK, FunctionDone, "bareDeclaration" \notin odd,
                      NEW a \in accesses
               PROVE  a[2] \notin ReachedAvoiding(a[1])
    BY DEF DefinitionsDominateUses
  <2>1. Recorded(stack, blocks, insert, a[1], a[2])
    BY DEF DominanceOK, Proper, FunctionDone, Recording
  <2>2. PICK Q : Sealed(blocks, a[1], Q) /\ a[2] \in Q
    BY <2>1 DEF Recorded
  <2>3. blocks # <<>> /\ blocks \in Seq(Block)
    BY DEF Inv, Control, FunctionDone
  <2>4. \A b \in 1..Len(blocks) : blocks[b].succs \subseteq 1..Len(blocks)
    BY BlocksComplete DEF FunctionComplete
  <2>5. ReachedAvoiding(a[1]) \cap Q = {}
    BY <2>2, <2>3, <2>4, SealedAvoided
  <2> QED BY <2>2, <2>5
<1> QED BY <1>1, GeneratorInvariance, BlocksInvariance, DominanceInvariance, PTL
=============================================================================
