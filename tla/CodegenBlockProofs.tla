------------------------- MODULE CodegenBlockProofs -------------------------
(***************************************************************************)
(* The basic blocks that the code generator makes, for ASTs of any size.   *)
(*                                                                         *)
(* A frame of a branch, a loop or a short-circuit operator keeps blocks    *)
(* that control goes on in later.  Until then they are empty, no two       *)
(* frames keep the same one, and none is the insert block (Laid): that is  *)
(* what nested early returns could spoil, and what makes every             *)
(* instruction end up in a block that is attached and open.                *)
(***************************************************************************)
EXTENDS CodegenProofs
-----------------------------------------------------------------------------
(* Blocks kept for later                                                   *)

\* The blocks of a frame that control has not gone to yet.
Reserved(f) ==
    CASE ShortCircuit(f)                     -> {f.bbs[1]}
      [] f.at = "IfStatementNode.true"       -> {f.bbs[1], f.bbs[2]}
      [] f.at = "IfStatementNode.false"      -> {f.bbs[1]}
      [] f.at = "WhileStatementNode.cond"    -> {f.bbs[2], f.bbs[3]}
      [] f.at \in {"WhileStatementNode.body", "DoWhileStatementNode.body",
                   "DoWhileStatementNode.cond"} -> {f.bbs[2]}
      [] OTHER                               -> {}

\* They differ, and the body of a while loop is attached when it is made.
Ready(f, bbs) ==
    /\ f.at = "IfStatementNode.true" => f.bbs[1] # f.bbs[2]
    /\ f.at = "WhileStatementNode.cond" => f.bbs[2] # f.bbs[3] /\ bbs[f.bbs[2]].attached

Claimed(s) == UNION {Reserved(s[i]) : i \in 1..Len(s)}
Apart(s) == \A i, j \in 1..Len(s) : i # j => Reserved(s[i]) \cap Reserved(s[j]) = {}

Closed(block) == block.attached /\ block.end # "open"

\* The blocks bbs, of which ins is the insert block, those in C are kept by the
\* active handler and others by the frames of s.
Laid(s, C, bbs, ins) ==
    /\ ins \notin C \cup Claimed(s)
    /\ \A b \in C \cup Claimed(s) : bbs[b].end = "open"
    /\ Apart(s)
    /\ C \cap Claimed(s) = {}
    /\ \A i \in 1..Len(s) : Ready(s[i], bbs)
    /\ \A b \in 1..Len(bbs) : b = ins \/ b \in C \cup Claimed(s) \/ Closed(bbs[b])

LEMMA ReservedFacts ==
    ASSUME NEW f, NEW n, NEW fn, FrameOK(f, n, fn)
    PROVE  Reserved(f) \subseteq 1..n
<1>1. CASE f.at = "FuncallNode"
  BY <1>1 DEF Reserved, ShortCircuit
<1>2. CASE f.at # "FuncallNode"
  <2>1. \A i \in 1..Kept(f) : f.bbs[i] \in 1..n
    BY <1>2 DEF FrameOK
  <2>2. CASE ShortCircuit(f)
    BY <2>1, <2>2 DEF Kept, Reserved
  <2>3. CASE ~ShortCircuit(f)
    BY <2>1, <2>3 DEF Kept, Reserved
  <2> QED BY <2>2, <2>3
<1> QED BY <1>1, <1>2

LEMMA ClaimedFacts ==
    ASSUME NEW s, NEW n, NEW fn, NEW sg, StackOK(s, n, fn, sg)
    PROVE  Claimed(s) \subseteq 1..n
<1>1. \A i \in 1..Len(s) : Reserved(s[i]) \subseteq 1..n
  BY ReservedFacts DEF StackOK
<1> QED BY <1>1 DEF Claimed

\* What the active handler keeps while its frame is away.
LEMMA LaidPush ==
    ASSUME NEW s \in Seq(Frames), NEW f \in Frames, NEW bbs, NEW ins
    PROVE  Laid(<<f>> \o s, {}, bbs, ins) <=> Laid(s, Reserved(f), bbs, ins) /\ Ready(f, bbs)
<1> DEFINE r == <<f>> \o s
<1>1. /\ Len(r) = Len(s) + 1 /\ r[1] = f /\ Len(s) \in Nat
      /\ \A i \in 1..Len(s) : r[i + 1] = s[i] /\ i + 1 \in 1..Len(r)
      /\ 1 \in 1..Len(r)
  BY Pushed
<1> HIDE DEF r
<1>2. \A i \in 1..Len(r) : i = 1 \/ (i - 1 \in 1..Len(s) /\ r[i] = s[i - 1])
  <2> TAKE i \in 1..Len(r)
  <2>1. CASE i # 1
    <3>1. i - 1 \in 1..Len(s) /\ (i - 1) + 1 = i
      BY <1>1, <2>1
    <3> QED BY <1>1, <3>1
  <2> QED BY <2>1
<1>3. Claimed(r) = Reserved(f) \cup Claimed(s)
  <2>1. ASSUME NEW b \in Claimed(r) PROVE b \in Reserved(f) \cup Claimed(s)
    <3>1. PICK i \in 1..Len(r) : b \in Reserved(r[i])
      BY DEF Claimed
    <3> QED BY <1>1, <1>2, <3>1 DEF Claimed
  <2>2. ASSUME NEW b \in Claimed(s) PROVE b \in Claimed(r)
    <3>1. PICK i \in 1..Len(s) : b \in Reserved(s[i])
      BY DEF Claimed
    <3>2. i + 1 \in 1..Len(r) /\ b \in Reserved(r[i + 1])
      BY <1>1, <3>1
    <3> QED BY <3>2 DEF Claimed
  <2>3. Reserved(f) \subseteq Claimed(r)
    BY <1>1 DEF Claimed
  <2> QED BY <2>1, <2>2, <2>3
<1>4. Apart(r) <=> Apart(s) /\ Reserved(f) \cap Claimed(s) = {}
  <2>1. ASSUME Apart(r) PROVE Apart(s) /\ Reserved(f) \cap Claimed(s) = {}
    <3>1. Apart(s)
      <4> SUFFICES ASSUME NEW i \in 1..Len(s), NEW j \in 1..Len(s), i # j
                   PROVE  Reserved(s[i]) \cap Reserved(s[j]) = {}
        BY DEF Apart
      <4>1. i + 1 \in 1..Len(r) /\ j + 1 \in 1..Len(r) /\ i + 1 # j + 1
        BY <1>1
      <4>2. Reserved(r[i + 1]) \cap Reserved(r[j + 1]) = {}
        BY <2>1, <4>1 DEF Apart
      <4> QED BY <1>1, <4>2
    <3>2. ASSUME NEW b \in Claimed(s) PROVE b \notin Reserved(f)
      <4>1. PICK i \in 1..Len(s) : b \in Reserved(s[i])
        BY DEF Claimed
      <4>2. i + 1 \in 1..Len(r) /\ i + 1 # 1 /\ r[i + 1] = s[i]
        BY <1>1
      <4>3. Reserved(r[i + 1]) \cap Reserved(r[1]) = {}
        BY <1>1, <2>1, <4>2 DEF Apart
      <4> QED BY <1>1, <4>1, <4>2, <4>3
    <3> QED BY <3>1, <3>2
  <2>2. ASSUME Apart(s), Reserved(f) \cap Claimed(s) = {} PROVE Apart(r)
    <3>1. \A i \in 1..Len(s) : Reserved(s[i]) \cap Reserved(f) = {}
      BY <2>2 DEF Claimed
    <3> SUFFICES ASSUME NEW i \in 1..Len(r), NEW j \in 1..Len(r), i # j
                 PROVE  Reserved(r[i]) \cap Reserved(r[j]) = {}
      BY DEF Apart
    <3>2. CASE i = 1
      <4>1. r[j] = s[j - 1] /\ j - 1 \in 1..Len(s)
        BY <1>2, <3>2
      <4> QED BY <1>1, <3>1, <3>2, <4>1
    <3>3. CASE j = 1
      <4>1. r[i] = s[i - 1] /\ i - 1 \in 1..Len(s)
        BY <1>2, <3>3
      <4> QED BY <1>1, <3>1, <3>3, <4>1
    <3>4. CASE i # 1 /\ j # 1
      <4>1. r[i] = s[i - 1] /\ i - 1 \in 1..Len(s) /\ r[j] = s[j - 1] /\ j - 1 \in 1..Len(s)
        BY <1>2, <3>4
      <4>2. i - 1 # j - 1
        OBVIOUS
      <4> QED BY <2>2, <4>1, <4>2 DEF Apart
    <3> QED BY <3>2, <3>3, <3>4
  <2> QED BY <2>1, <2>2
<1>5. (\A i \in 1..Len(r) : Ready(r[i], bbs)) <=>
        Ready(f, bbs) /\ \A i \in 1..Len(s) : Ready(s[i], bbs)
  <2>1. ASSUME \A i \in 1..Len(r) : Ready(r[i], bbs)
        PROVE  Ready(f, bbs) /\ \A i \in 1..Len(s) : Ready(s[i], bbs)
    BY <1>1, <2>1
  <2>2. ASSUME Ready(f, bbs), \A i \in 1..Len(s) : Ready(s[i], bbs)
        PROVE  \A i \in 1..Len(r) : Ready(r[i], bbs)
    BY <1>1, <1>2, <2>2
  <2> QED BY <2>1, <2>2
<1>6. Laid(r, {}, bbs, ins) <=> Laid(s, Reserved(f), bbs, ins) /\ Ready(f, bbs)
  BY <1>3, <1>4, <1>5 DEF Laid
<1> QED BY <1>6 DEF r

-----------------------------------------------------------------------------
(* How blocks change                                                       *)

Ended(block, n) ==
    /\ block.end # "broken" /\ block.succs \subseteq 1..n
    /\ block.end = "br" <=> block.succs # {}
AllEnded(bbs) == \A b \in 1..Len(bbs) : Ended(bbs[b], Len(bbs))

\* Where to and why control can leave a block.
Leaves(end, succs, n) ==
    \/ end = "br" /\ succs # {} /\ succs \subseteq 1..n
    \/ end \in {"ret", "unreachable"} /\ succs = {}

LEMMA Terminating ==
    ASSUME NEW bbs \in Seq(Block), insert \in 1..Len(bbs), Insertable(bbs, insert),
           AllEnded(bbs), NEW end, NEW succs, Leaves(end, succs, Len(bbs)),
           NEW nbs, nbs = Terminate(bbs, end, succs)
    PROVE  /\ nbs \in Seq(Block) /\ Len(nbs) = Len(bbs)
           /\ \A b \in 1..Len(bbs) : b # insert => nbs[b] = bbs[b]
           /\ Closed(nbs[insert]) /\ AllEnded(nbs)
<1> DEFINE d == [bbs[insert] EXCEPT !.end = end, !.succs = succs]
<1>1. nbs = [bbs EXCEPT ![insert] = d]
  BY DEF Terminate
<1>2. bbs[insert] \in Block /\ end \in Ends /\ succs \in SUBSET Nat /\ bbs[insert].attached
  BY DEF Leaves, Ends, Insertable
<1>3. d \in Block /\ d.attached /\ d.end = end /\ d.succs = succs
  BY <1>2 DEF Block
<1> HIDE DEF d
<1>4. nbs \in Seq(Block) /\ Len(nbs) = Len(bbs)
  BY <1>1, <1>3, ExceptSeq
<1>5. nbs[insert] = d /\ \A b \in 1..Len(bbs) : b # insert => nbs[b] = bbs[b]
  BY <1>1
<1>6. Closed(nbs[insert])
  BY <1>3, <1>5 DEF Closed, Leaves
<1>7. Ended(d, Len(bbs))
  BY <1>3 DEF Leaves, Ended
<1>8. AllEnded(nbs)
  BY <1>4, <1>5, <1>7 DEF AllEnded
<1> QED BY <1>4, <1>5, <1>6, <1>8

LEMMA AttachFacts ==
    ASSUME NEW bbs \in Seq(Block), NEW m \in 1..Len(bbs), AllEnded(bbs),
           NEW nbs, nbs = Attach(bbs, m)
    PROVE  /\ nbs \in Seq(Block) /\ Len(nbs) = Len(bbs)
           /\ \A b \in 1..Len(bbs) : b # m => nbs[b] = bbs[b]
           /\ nbs[m].attached /\ nbs[m].end = bbs[m].end
           /\ AllEnded(nbs)
<1> DEFINE d == [bbs[m] EXCEPT !.attached = TRUE]
<1>1. nbs = [bbs EXCEPT ![m] = d]
  BY DEF Attach
<1>2. bbs[m] \in Block
  OBVIOUS
<1>3. d \in Block /\ d.attached /\ d.end = bbs[m].end /\ d.succs = bbs[m].succs
  BY <1>2 DEF Block
<1> HIDE DEF d
<1>4. nbs \in Seq(Block) /\ Len(nbs) = Len(bbs)
  BY <1>1, <1>3, ExceptSeq
<1>5. nbs[m] = d /\ \A b \in 1..Len(bbs) : b # m => nbs[b] = bbs[b]
  BY <1>1
<1>6. Ended(d, Len(bbs))
  BY <1>3 DEF AllEnded, Ended
<1>7. AllEnded(nbs)
  BY <1>4, <1>5, <1>6 DEF AllEnded
<1> QED BY <1>3, <1>4, <1>5, <1>7

\* New blocks, of which only the first is where control goes on.
NewBlocks ==
    {<<Attached, Detached>>, <<Attached, Attached, Detached>>, <<Attached, Detached, Detached>>}

LEMMA Adding ==
    ASSUME NEW bbs \in Seq(Block), NEW add \in NewBlocks, AllEnded(bbs)
    PROVE  LET nbs == bbs \o add IN
           /\ nbs \in Seq(Block) /\ Len(nbs) = Len(bbs) + Len(add) /\ Len(add) \in {2, 3}
           /\ \A b \in 1..Len(bbs) : nbs[b] = bbs[b]
           /\ \A b \in 1..Len(add) : nbs[Len(bbs) + b] = add[b] /\ add[b].end = "open"
           /\ add[1] = Attached
           /\ AllEnded(nbs)
<1> DEFINE nbs == bbs \o add
<1>1. Attached \in Block /\ Detached \in Block
      /\ Attached.end = "open" /\ Attached.succs = {} /\ Detached.end = "open" /\ Detached.succs = {}
  BY DEF Attached, Detached, Block, Ends
<1>2. \A b \in {Attached, Detached} : \A n : Ended(b, n)
  BY <1>1 DEF Ended
<1> HIDE DEF Attached, Detached, Block
<1>3. /\ add \in Seq({Attached, Detached}) /\ Len(add) \in {2, 3} /\ add[1] = Attached
      /\ \A b \in 1..Len(add) : add[b] \in {Attached, Detached}
  <2> DEFINE S == {Attached, Detached}
  <2>1. Attached \in S /\ Detached \in S
    OBVIOUS
  <2> HIDE DEF S
  <2>2. /\ <<Attached, Detached>> \in Seq(S) /\ Len(<<Attached, Detached>>) = 2
        /\ \A b \in S : <<Attached, b, Detached>> \in Seq(S) /\ Len(<<Attached, b, Detached>>) = 3
        /\ <<Attached, Detached>>[1] = Attached
        /\ \A b \in S : <<Attached, b, Detached>>[1] = Attached
    BY <2>1
  <2>3. add \in Seq(S) /\ Len(add) \in {2, 3} /\ add[1] = Attached
    BY <2>1, <2>2, Zenon DEF NewBlocks
  <2>4. \A b \in 1..Len(add) : add[b] \in S
    BY <2>3
  <2> QED BY <2>3, <2>4 DEF S
<1>4. add \in Seq(Block)
  BY <1>1, <1>3
<1>5. /\ nbs \in Seq(Block) /\ Len(nbs) = Len(bbs) + Len(add)
      /\ \A b \in 1..Len(bbs) : nbs[b] = bbs[b]
      /\ \A b \in 1..Len(add) : nbs[Len(bbs) + b] = add[b]
  BY <1>4, ConcatProperties
<1> HIDE DEF nbs
<1>6. AllEnded(nbs)
  <2> SUFFICES ASSUME NEW b \in 1..Len(nbs) PROVE Ended(nbs[b], Len(nbs))
    BY DEF AllEnded
  <2>1. CASE b \in 1..Len(bbs)
    <3>1. Ended(bbs[b], Len(bbs)) /\ Len(bbs) <= Len(nbs) /\ nbs[b] = bbs[b]
      BY <1>3, <1>5, <2>1 DEF AllEnded
    <3> QED BY <1>5, <3>1 DEF Ended
  <2>2. CASE b \notin 1..Len(bbs)
    <3>1. b - Len(bbs) \in 1..Len(add) /\ Len(bbs) + (b - Len(bbs)) = b
      BY <1>3, <1>5, <2>2
    <3>2. nbs[b] \in {Attached, Detached}
      BY <1>3, <1>5, <3>1
    <3> QED BY <1>2, <3>2
  <2> QED BY <2>1, <2>2
<1> QED BY <1>1, <1>3, <1>5, <1>6 DEF nbs

-----------------------------------------------------------------------------
(* How control moves on                                                    *)

\* Control goes from block ins, which is ended, to block new, which was kept
\* or is made now; those in D are kept from then on.
LEMMA Advance ==
    ASSUME NEW s \in Seq(Frames), NEW C, NEW D, NEW bbs \in Seq(Block), NEW nbs \in Seq(Block),
           NEW ins, NEW new, Laid(s, C, bbs, ins),
           C \cup Claimed(s) \subseteq 1..Len(bbs), ins \in 1..Len(bbs), Len(bbs) <= Len(nbs),
           D \cup {new} = C \cup ((Len(bbs) + 1)..Len(nbs)), new \notin D,
           \A b \in D : nbs[b].end = "open",
           \A b \in 1..Len(bbs) : b \notin C \cup {ins} => nbs[b] = bbs[b],
           Closed(nbs[ins])
    PROVE  Laid(s, D, nbs, new)
<1>1. /\ Len(bbs) \in Nat /\ Len(nbs) \in Nat
      /\ \A b \in (Len(bbs) + 1)..Len(nbs) : b \notin 1..Len(bbs)
  OBVIOUS
<1>2. \A b \in Claimed(s) : b # ins /\ b \notin C /\ nbs[b] = bbs[b] /\ b \notin D /\ b # new
  BY <1>1 DEF Laid
<1>3. new \notin D \cup Claimed(s) /\ D \cap Claimed(s) = {}
  BY <1>2
<1>4. \A b \in D \cup Claimed(s) : nbs[b].end = "open"
  BY <1>2 DEF Laid
<1>5. ASSUME NEW i \in 1..Len(s) PROVE Ready(s[i], nbs)
  <2>1. Ready(s[i], bbs)
    BY DEF Laid
  <2>2. CASE s[i].at = "WhileStatementNode.cond"
    <3>1. s[i].bbs[2] \in Reserved(s[i])
      BY <2>2 DEF Reserved, ShortCircuit
    <3>2. s[i].bbs[2] \in Claimed(s)
      BY <3>1 DEF Claimed
    <3> QED BY <1>2, <2>1, <2>2, <3>2 DEF Ready
  <2>3. CASE s[i].at # "WhileStatementNode.cond"
    BY <2>1, <2>3 DEF Ready
  <2> QED BY <2>2, <2>3
<1>6. ASSUME NEW b \in 1..Len(nbs), b # new, b \notin D \cup Claimed(s)
      PROVE  Closed(nbs[b])
  <2>1. b \in 1..Len(bbs) /\ b \notin C
    BY <1>1, <1>6
  <2>2. CASE b = ins
    BY <2>2
  <2>3. CASE b # ins
    <3>1. Closed(bbs[b])
      BY <1>6, <2>1, <2>3 DEF Laid
    <3> QED BY <2>1, <2>3, <3>1
  <2> QED BY <2>2, <2>3
<1> QED BY <1>3, <1>4, <1>5, <1>6 DEF Laid

\* Control stays in its block.
LEMMA InPlace ==
    ASSUME NEW s, NEW C, NEW bbs, NEW nbs, NEW ins, Laid(s, C, bbs, ins),
           C \cup Claimed(s) \subseteq 1..Len(bbs), Len(nbs) = Len(bbs),
           \A b \in 1..Len(bbs) : b # ins => nbs[b] = bbs[b]
    PROVE  Laid(s, C, nbs, ins)
<1>1. \A b \in C \cup Claimed(s) : nbs[b] = bbs[b]
  BY DEF Laid
<1>2. ASSUME NEW i \in 1..Len(s) PROVE Ready(s[i], nbs)
  <2>1. Ready(s[i], bbs)
    BY DEF Laid
  <2>2. CASE s[i].at = "WhileStatementNode.cond"
    <3>1. s[i].bbs[2] \in Reserved(s[i])
      BY <2>2 DEF Reserved, ShortCircuit
    <3>2. s[i].bbs[2] \in Claimed(s)
      BY <3>1 DEF Claimed
    <3> QED BY <1>1, <2>1, <2>2, <3>2 DEF Ready
  <2>3. CASE s[i].at # "WhileStatementNode.cond"
    BY <2>1, <2>3 DEF Ready
  <2> QED BY <2>2, <2>3
<1> QED BY <1>1, <1>2 DEF Laid

\* The insert block branches to new blocks; control goes on in the first.
LEMMA Grown ==
    ASSUME NEW bbs \in Seq(Block), NEW nbs, NEW add \in NewBlocks, NEW succs,
           insert \in 1..Len(bbs), Insertable(bbs, insert), AllEnded(bbs),
           succs # {}, succs \subseteq (Len(bbs) + 1)..(Len(bbs) + Len(add)),
           nbs = Terminate(bbs \o add, "br", succs)
    PROVE  /\ AllEnded(nbs) /\ nbs \in Seq(Block) /\ Len(nbs) = Len(bbs) + Len(add)
           /\ Insertable(nbs, Len(bbs) + 1)
           /\ \A b \in 1..Len(add) : nbs[Len(bbs) + b] = add[b]
           /\ \A s \in Seq(Frames) : \A D :
                /\ Laid(s, {}, bbs, insert) /\ Claimed(s) \subseteq 1..Len(bbs)
                /\ D = (Len(bbs) + 2)..(Len(bbs) + Len(add))
                => Laid(s, D, nbs, Len(bbs) + 1)
<1> DEFINE mid == bbs \o add
           n == Len(bbs)
<1>1. /\ mid \in Seq(Block) /\ Len(mid) = n + Len(add) /\ Len(add) \in {2, 3} /\ n \in Nat
      /\ \A b \in 1..n : mid[b] = bbs[b]
      /\ \A b \in 1..Len(add) : mid[n + b] = add[b] /\ add[b].end = "open"
      /\ add[1] = Attached
      /\ AllEnded(mid)
  <2>2. /\ mid \in Seq(Block) /\ Len(mid) = Len(bbs) + Len(add) /\ Len(add) \in {2, 3}
        /\ \A b \in 1..Len(bbs) : mid[b] = bbs[b]
        /\ \A b \in 1..Len(add) : mid[Len(bbs) + b] = add[b] /\ add[b].end = "open"
        /\ add[1] = Attached
        /\ AllEnded(mid)
    BY Adding, Zenon
  <2>3. n \in Nat
    OBVIOUS
  <2> QED BY <2>2, <2>3
<1>2. nbs = Terminate(mid, "br", succs)
  OBVIOUS
<1> HIDE DEF mid
<1>3. insert \in 1..Len(mid) /\ Insertable(mid, insert) /\ Leaves("br", succs, Len(mid))
  BY <1>1 DEF Insertable, Leaves
<1>4. /\ nbs \in Seq(Block) /\ Len(nbs) = Len(mid)
      /\ \A b \in 1..Len(mid) : b # insert => nbs[b] = mid[b]
      /\ Closed(nbs[insert]) /\ AllEnded(nbs)
  BY <1>1, <1>2, <1>3, Terminating
<1>5. \A b \in 1..Len(add) : nbs[n + b] = add[b]
  BY <1>1, <1>4
<1>6. Insertable(nbs, n + 1)
  <2>1. nbs[n + 1] = Attached
    BY <1>1, <1>5
  <2> QED BY <2>1 DEF Insertable, Attached
<1>7. ASSUME NEW s \in Seq(Frames), NEW D, Laid(s, {}, bbs, insert), Claimed(s) \subseteq 1..n,
             D = (n + 2)..(n + Len(add))
      PROVE  Laid(s, D, nbs, n + 1)
  <2>1. D \cup {n + 1} = {} \cup ((n + 1)..Len(nbs)) /\ n + 1 \notin D /\ n <= Len(nbs)
    <3> DEFINE m == Len(nbs)
    <3>1. m \in Nat /\ n + 1 <= m /\ D = (n + 2)..m /\ n \in Nat
      BY <1>1, <1>4, <1>7
    <3> HIDE DEF m, n
    <3>2. \A b : b \in D \cup {n + 1} <=> b \in (n + 1)..m
      BY <3>1
    <3>3. n + 1 \notin D /\ n <= m
      BY <3>1
    <3> QED BY <3>2, <3>3 DEF m
  <2>2. \A b \in D : nbs[b].end = "open"
    <3> TAKE b \in D
    <3>1. b - n \in 1..Len(add) /\ n + (b - n) = b
      BY <1>1, <1>7
    <3> QED BY <1>1, <1>5, <3>1
  <2>3. \A b \in 1..n : b \notin {} \cup {insert} => nbs[b] = bbs[b]
    BY <1>1, <1>4
  <2>4. Closed(nbs[insert]) /\ {} \cup Claimed(s) \subseteq 1..n /\ nbs \in Seq(Block)
    BY <1>4, <1>7
  <2> DEFINE e == {}
             k == n + 1
  <2>5. /\ Laid(s, e, bbs, insert) /\ e \cup Claimed(s) \subseteq 1..n
        /\ D \cup {k} = e \cup ((n + 1)..Len(nbs)) /\ k \notin D /\ n <= Len(nbs)
        /\ \A b \in 1..n : b \notin e \cup {insert} => nbs[b] = bbs[b]
    BY <1>7, <2>1, <2>3, <2>4
  <2> HIDE DEF e, k
  <2>6. Laid(s, D, nbs, k)
    BY <2>2, <2>4, <2>5, Advance
  <2> QED BY <2>6 DEF k
<1> QED BY <1>1, <1>4, <1>5, <1>6, <1>7

\* Control goes on in a block m that was kept.
LEMMA Joined ==
    ASSUME NEW bbs \in Seq(Block), NEW mid \in Seq(Block), NEW nbs,
           insert \in 1..Len(bbs), Len(mid) = Len(bbs),
           \A b \in 1..Len(bbs) : b # insert => mid[b] = bbs[b],
           Closed(mid[insert]), AllEnded(mid),
           NEW m \in 1..Len(bbs), m # insert, bbs[m].end = "open",
           nbs = Attach(mid, m) \/ (nbs = mid /\ bbs[m].attached)
    PROVE  /\ AllEnded(nbs) /\ Insertable(nbs, m)
           /\ \A s \in Seq(Frames) : \A C, D :
                /\ Laid(s, C, bbs, insert) /\ C \cup Claimed(s) \subseteq 1..Len(bbs)
                /\ m \in C /\ D = C \ {m}
                => Laid(s, D, nbs, m)
<1>1. /\ nbs \in Seq(Block) /\ Len(nbs) = Len(bbs) /\ AllEnded(nbs)
      /\ \A b \in 1..Len(bbs) : b # m => nbs[b] = mid[b]
      /\ nbs[m].attached /\ nbs[m].end = "open"
  <2>1. m \in 1..Len(mid) /\ mid[m] = bbs[m]
    OBVIOUS
  <2>2. CASE nbs = Attach(mid, m)
    BY <2>1, <2>2, AttachFacts
  <2>3. CASE nbs = mid /\ bbs[m].attached
    BY <2>1, <2>3
  <2> QED BY <2>2, <2>3
<1>2. Insertable(nbs, m)
  BY <1>1 DEF Insertable
<1>3. ASSUME NEW s \in Seq(Frames), NEW C, NEW D, Laid(s, C, bbs, insert),
             C \cup Claimed(s) \subseteq 1..Len(bbs), m \in C, D = C \ {m}
      PROVE  Laid(s, D, nbs, m)
  <2>1. D \cup {m} = C \cup ((Len(bbs) + 1)..Len(nbs)) /\ m \notin D /\ Len(bbs) <= Len(nbs)
    <3>1. (Len(bbs) + 1)..Len(nbs) = {}
      BY <1>1
    <3> QED BY <1>1, <1>3, <3>1
  <2>2. \A b \in D : nbs[b].end = "open"
    BY <1>1, <1>3 DEF Laid
  <2>3. \A b \in 1..Len(bbs) : b \notin C \cup {insert} => nbs[b] = bbs[b]
    BY <1>1, <1>3
  <2>4. Closed(nbs[insert])
    BY <1>1
  <2> QED BY <1>1, <1>3, <2>1, <2>2, <2>3, <2>4, Advance
<1> QED BY <1>1, <1>2, <1>3

\* A branch or loop body that is done leaves its last block ended.
LEMMA Falling ==
    ASSUME blocks \in Seq(Block), insert \in 1..Len(blocks), blocks[insert].attached,
           AllEnded(blocks), NEW b \in 1..Len(blocks), NEW mid, mid = FallInto(blocks, b)
    PROVE  /\ mid \in Seq(Block) /\ Len(mid) = Len(blocks)
           /\ \A c \in 1..Len(blocks) : c # insert => mid[c] = blocks[c]
           /\ Closed(mid[insert]) /\ AllEnded(mid)
<1>1. CASE Terminated
  <2>1. mid = blocks
    BY <1>1 DEF FallInto
  <2>2. Closed(mid[insert])
    BY <1>1, <2>1 DEF Closed, Terminated
  <2> QED BY <2>1, <2>2
<1>2. CASE ~Terminated
  <2>1. Insertable(blocks, insert)
    BY <1>2 DEF Terminated, Insertable
  <2>2. Leaves("br", {b}, Len(blocks))
    BY DEF Leaves
  <2>3. mid = Terminate(blocks, "br", {b})
    BY <1>2 DEF FallInto
  <2> QED BY <2>1, <2>2, <2>3, Terminating
<1> QED BY <1>1, <1>2

-----------------------------------------------------------------------------
(* The invariant                                                           *)

\* The handlers that insert something next whether or not there was an error.
Starting == {"expr", "statement", "BlockStatementNode"}

\* What the active frame can rely on: it inserts into an open block of the
\* function; after a statement the block may have its terminator, and after a
\* function it has.
Goes(s, good, bbs, ins) ==
    s # <<>> =>
      /\ Head(s).at \in Starting => Insertable(bbs, ins)
      /\ good /\ Head(s).at \in AfterExpr => Insertable(bbs, ins)
      /\ good /\ Head(s).at \in AfterStatement => bbs[ins].attached
      /\ good /\ Head(s).at = "VectorNode" /\ bbs # <<>> => Closed(bbs[ins])

BlocksOK ==
    /\ AllEnded(blocks)
    /\ Goes(stack, isSuccess, blocks, insert)
    /\ isSuccess => Laid(stack, {}, blocks, insert)

\* The blocks of the callers, and of the active frame.
LEMMA CallersLaid ==
    ASSUME Control, BlocksOK, isSuccess, stack # <<>>
    PROVE  /\ Laid(Tail(stack), Reserved(top), blocks, insert) /\ Ready(top, blocks)
           /\ Reserved(top) \cup Claimed(Tail(stack)) \subseteq 1..Len(blocks)
<1> DEFINE f == top
           s == Tail(stack)
<1>1. /\ f \in Frames /\ s \in Seq(Frames) /\ stack = <<f>> \o s
      /\ FrameOK(f, Len(blocks), funcs) /\ StackOK(s, Len(blocks), funcs, sigs)
  BY Active
<1>2. Laid(stack, {}, blocks, insert)
  BY DEF BlocksOK
<1> HIDE DEF f, s
<1>3. Laid(<<f>> \o s, {}, blocks, insert)
  BY <1>1, <1>2, Zenon
<1>4. Laid(s, Reserved(f), blocks, insert) /\ Ready(f, blocks)
  BY <1>1, <1>3, LaidPush
<1>5. Reserved(f) \subseteq 1..Len(blocks) /\ Claimed(s) \subseteq 1..Len(blocks)
  BY <1>1, ReservedFacts, ClaimedFacts
<1> QED BY <1>4, <1>5 DEF f, s

\* A handler is done.
LEMMA ReturnsBlocks ==
    ASSUME Control, stack # <<>>, top.at # "VectorNode", Return, AllEnded(blocks'),
           isSuccess' => /\ Laid(Tail(stack), {}, blocks', insert')
                         /\ top.at \in ExpressionLabels => Insertable(blocks', insert')
                         /\ top.at \notin ExpressionLabels => blocks'[insert'].attached
                         /\ top.at = "FunctionDefNode" => Closed(blocks'[insert'])
    PROVE  BlocksOK'
<1> DEFINE s == Tail(stack)
           h == top
<1>1. s \in Seq(Frames) /\ CanCall(s, h, sigs) /\ h \in Frames /\ stack' = s
  BY Active DEF Return
<1> HIDE DEF s, h
<1>2. s # <<>> /\ Expects(Head(s).at) = Yields(h.at)
  BY <1>1 DEF CanCall, h
<1>3. Head(s).at \in Labels /\ h.at \in Labels
  <2>1. Head(s) \in Frames
    BY <1>1, <1>2
  <2> QED BY <1>1, <2>1 DEF Frames
<1>4. /\ Head(s).at \notin Starting
      /\ Head(s).at \in AfterExpr => h.at \in ExpressionLabels
      /\ Head(s).at \in AfterStatement => h.at \notin ExpressionLabels
      /\ Head(s).at = "VectorNode" => h.at = "FunctionDefNode"
  <2>1. Head(s).at \notin Starting
    <3>1. \A l \in Starting : Expects(l) = "nothing"
      BY DEF Starting, Expects, AfterExpr, AfterStatement
    <3>2. Yields(h.at) # "nothing"
      BY <1>3, Kinds
    <3> QED BY <1>2, <3>1, <3>2
  <2> QED BY <1>2, <1>3, <2>1, Kinds
<1>5. Goes(s, isSuccess', blocks', insert')
  BY <1>2, <1>4 DEF Goes, h
<1> QED BY <1>1, <1>5 DEF BlocksOK, s

\* A handler calls another and waits, or becomes another.
LEMMA CallsBlocks ==
    ASSUME Control', stack # <<>>, Tail(stack) \in Seq(Frames), AllEnded(blocks'),
           NEW e, NEW f, Call(<<e, f>>), e.at \in Starting, Insertable(blocks', insert'),
           isSuccess' => Laid(Tail(stack), Reserved(f), blocks', insert') /\ Ready(f, blocks')
    PROVE  BlocksOK'
<1> DEFINE s == Tail(stack)
           r == stack'
           q == <<f>> \o s
<1>1. r = <<e, f>> \o s /\ s \in Seq(Frames)
  BY DEF Call
<1>2. r \in Seq(Frames)
  BY DEF Control, CallsOK, StackOK
<1>3. e \in Frames /\ f \in Frames
  <2> DEFINE S == Frames \cup {e, f}
  <2>1. s \in Seq(S) /\ e \in S /\ f \in S
    <3>1. Frames \subseteq S
      OBVIOUS
    <3> QED BY <1>1, <3>1
  <2> HIDE DEF S, s, r
  <2>2. Len(r) = Len(s) + 2 /\ r[1] = e /\ r[2] = f /\ Len(s) \in Nat
    BY <1>1, <2>1
  <2>3. 1 \in 1..Len(r) /\ 2 \in 1..Len(r)
    BY <2>2
  <2> QED BY <1>2, <2>2, <2>3
<1>4. r = <<e>> \o q /\ q \in Seq(Frames)
  <2>1. <<e, f>> \o s = <<e>> \o q
    BY <1>1, <1>3, PushTwo
  <2> QED BY <1>1, <1>3, <2>1
<1>5. Reserved(e) = {} /\ (\A bbs : Ready(e, bbs))
  BY DEF Starting, Reserved, Ready, ShortCircuit
<1>6. ASSUME isSuccess' PROVE Laid(r, {}, blocks', insert')
  <2>1. Laid(s, Reserved(f), blocks', insert') /\ Ready(f, blocks')
    BY <1>6
  <2> HIDE DEF s, r, q
  <2>2. Laid(<<f>> \o s, {}, blocks', insert')
    BY <1>1, <1>3, <2>1, LaidPush
  <2>3. Laid(q, Reserved(e), blocks', insert')
    BY <1>5, <2>2 DEF q
  <2>4. Laid(<<e>> \o q, {}, blocks', insert')
    BY <1>3, <1>4, <1>5, <2>3, LaidPush
  <2> QED BY <1>4, <2>4
<1> HIDE DEF s, r, q
<1>7. Goes(r, isSuccess', blocks', insert')
  <2>1. r # <<>> /\ Head(r) = e
    BY <1>3, <1>4
  <2>2. blocks'[insert'].attached /\ e.at # "VectorNode"
    BY DEF Insertable, Starting
  <2> QED BY <2>1, <2>2 DEF Goes
<1> QED BY <1>6, <1>7 DEF BlocksOK, r

LEMMA BecomesBlocks ==
    ASSUME Control', stack # <<>>, Tail(stack) \in Seq(Frames), AllEnded(blocks'),
           NEW f, Call(<<f>>), f.at # "VectorNode", Insertable(blocks', insert'),
           isSuccess' => Laid(Tail(stack), Reserved(f), blocks', insert') /\ Ready(f, blocks')
    PROVE  BlocksOK'
<1> DEFINE s == Tail(stack)
           r == stack'
<1>1. r = <<f>> \o s /\ s \in Seq(Frames)
  BY DEF Call
<1>2. r \in Seq(Frames)
  BY DEF Control, CallsOK, StackOK
<1>3. f \in Frames
  <2> DEFINE S == Frames \cup {f}
  <2>1. s \in Seq(S) /\ f \in S
    <3>1. Frames \subseteq S
      OBVIOUS
    <3> QED BY <1>1, <3>1
  <2> HIDE DEF S, s, r
  <2>2. Len(r) = Len(s) + 1 /\ r[1] = f /\ Len(s) \in Nat
    BY <1>1, <2>1
  <2> QED BY <1>2, <2>2
<1>6. ASSUME isSuccess' PROVE Laid(r, {}, blocks', insert')
  <2>1. Laid(s, Reserved(f), blocks', insert') /\ Ready(f, blocks')
    BY <1>6
  <2> HIDE DEF s, r
  <2>2. Laid(<<f>> \o s, {}, blocks', insert')
    BY <1>1, <1>3, <2>1, LaidPush
  <2> QED BY <1>1, <2>2
<1> HIDE DEF s, r
<1>7. Goes(r, isSuccess', blocks', insert')
  <2>1. r # <<>> /\ Head(r) = f
    BY <1>1, <1>3
  <2>2. blocks'[insert'].attached
    BY DEF Insertable
  <2> QED BY <2>1, <2>2 DEF Goes
<1> QED BY <1>6, <1>7 DEF BlocksOK, r

-----------------------------------------------------------------------------
(* The steps that stay in their block                                      *)

\* A frame that keeps no blocks.
Idle(f) == Reserved(f) = {} /\ \A bbs : Ready(f, bbs)

LEMMA IdleFacts ==
    ASSUME NEW f, f.at \notin KeepingLabels, f.at # "BinaryNode.rhs" \/ Held(f)
    PROVE  Idle(f)
BY DEF Idle, Reserved, Ready, ShortCircuit, Held, KeepingLabels

\* What such a step leaves of the call stack.
Passes(s, r) ==
    \/ r = s
    \/ \E f : f.at \in Starting /\ r = <<f>> \o s
    \/ \E e, f : e.at \in Starting /\ Idle(f) /\ r = <<e, f>> \o s

LEMMA CallsPass ==
    ASSUME NEW e, NEW f, e.at \in Starting, Idle(f), Call(<<e, f>>)
    PROVE  Passes(Tail(stack), stack')
BY DEF Passes, Call

LEMMA ArgsPass ==
    ASSUME \E n, args, bbs : Call(NextArg(n, args, bbs))
    PROVE  Passes(Tail(stack), stack')
<1>1. PICK n, args, bbs : Call(NextArg(n, args, bbs))
  OBVIOUS
<1> DEFINE a == Expr(Head(args))
           b == ArgFrame(n, args, bbs)
<1>2. a.at = "expr" /\ b.at = "FuncallNode"
  BY FreshFrames
<1>3. Call(<<a, b>>)
  BY <1>1 DEF NextArg, ArgFrame
<1> HIDE DEF a, b
<1>4. Idle(b) /\ a.at \in Starting
  BY <1>2, IdleFacts DEF KeepingLabels, Starting
<1> QED BY <1>3, <1>4, CallsPass

EmitsExpressions ==
    \/ ConstantNode \/ VarNode \/ BinaryNode \/ EagerLhs \/ EagerRhs \/ UnaryNode
    \/ UnaryOperand \/ FuncallNode \/ FuncallArg
EmitsStatements ==
    \/ AssignmentNode \/ AssignmentRhs \/ PrintOrReturn \/ IoPrintNode
    \/ ExpressionWrapperNode \/ BlockStatementNode \/ BlockLoop \/ BlockStatement
    \/ IfStatementNode

LEMMA ExpressionsPass ==
    ASSUME EmitsExpressions
    PROVE  Passes(Tail(stack), stack')
<1>0. "expr" \in Starting /\ {"BinaryNode.lhs", "UnaryNode"} \cap KeepingLabels = {}
      /\ "BinaryNode.rhs" \notin KeepingLabels
  BY DEF Starting, KeepingLabels
<1>1. CASE ConstantNode \/ VarNode \/ EagerRhs \/ UnaryOperand
  <2>1. Return
    BY <1>1 DEF ConstantNode, VarNode, EagerRhs, UnaryOperand
  <2> QED BY <2>1 DEF Return, Passes
<1>2. CASE BinaryNode
  <2>1. PICK op \in Operations(top.type) :
        /\ Call(<<Expr(op.lhs), [Await("BinaryNode.lhs", op.lhs) EXCEPT !.kind = op.kind,
                                                                       !.other = op.rhs]>>)
        /\ Odd("mixedEquality", (op.lhs = "BOOL") # (op.rhs = "BOOL"))
    BY <1>2, Zenon DEF BinaryNode
  <2> DEFINE a == Expr(op.lhs)
             b == [Await("BinaryNode.lhs", op.lhs) EXCEPT !.kind = op.kind, !.other = op.rhs]
  <2>2. a.at = "expr"
    BY FreshFrames
  <2>3. b.at = "BinaryNode.lhs"
    BY DEF Await, Frame
  <2>4. Call(<<a, b>>)
    BY <2>1
  <2> HIDE DEF a, b
  <2>5. Idle(b)
    BY <1>0, <2>3, IdleFacts
  <2> QED BY <1>0, <2>2, <2>4, <2>5, CallsPass
<1>3. CASE EagerLhs
  <2> DEFINE a == Expr(top.other)
             b == [Await("BinaryNode.rhs", top.other) EXCEPT !.kind = top.kind, !.other = top.type]
  <2>1. Call(<<a, b>>) /\ top.kind # "bilogShortCircuit"
    BY <1>3 DEF EagerLhs
  <2>2. a.at = "expr"
    BY FreshFrames
  <2>3. b.at = "BinaryNode.rhs" /\ b.kind = top.kind
    BY DEF Await, Frame
  <2> HIDE DEF a, b
  <2>4. Idle(b)
    BY <1>0, <2>1, <2>3, IdleFacts DEF Held
  <2> QED BY <1>0, <2>1, <2>2, <2>4, CallsPass
<1>4. CASE UnaryNode
  <2> DEFINE a == Expr(top.type)
             b == Await("UnaryNode", top.type)
  <2>1. Call(<<a>>) \/ Call(<<a, b>>)
    BY <1>4 DEF UnaryNode
  <2>2. a.at = "expr" /\ b.at = "UnaryNode"
    BY FreshFrames
  <2> HIDE DEF a, b
  <2>3. Idle(b)
    BY <1>0, <2>2, IdleFacts
  <2> QED BY <1>0, <2>1, <2>2, <2>3, CallsPass DEF Passes, Call
<1>5. CASE FuncallNode \/ FuncallArg
  <2>1. Return \/ \E n, args, bbs : Call(NextArg(n, args, bbs))
    BY <1>5 DEF FuncallNode, FuncallArg
  <2>2. CASE Return
    BY <2>2 DEF Return, Passes
  <2>3. CASE \E n, args, bbs : Call(NextArg(n, args, bbs))
    BY <2>3, ArgsPass
  <2> QED BY <2>1, <2>2, <2>3, Zenon
<1> QED BY <1>1, <1>2, <1>3, <1>4, <1>5 DEF EmitsExpressions

LEMMA StatementsPass ==
    ASSUME EmitsStatements
    PROVE  Passes(Tail(stack), stack')
<1>0. /\ {"expr", "statement", "BlockStatementNode"} \subseteq Starting
      /\ {"IoPrintNode", "ReturnNode", "IfStatementNode.cond", "AssignmentNode",
          "BlockStatementNode.stmt"} \cap KeepingLabels = {}
  BY DEF Starting, KeepingLabels
<1>1. CASE AssignmentRhs \/ IoPrintNode \/ ExpressionWrapperNode
  <2>1. Return
    BY <1>1 DEF AssignmentRhs, IoPrintNode, ExpressionWrapperNode
  <2> QED BY <2>1 DEF Return, Passes
<1>2. CASE PrintOrReturn
  <2>1. PICK t \in UsedTypes, l \in {"IoPrintNode", "ReturnNode"} : Call(<<Expr(t), Await(l, t)>>)
    BY <1>2 DEF PrintOrReturn
  <2>2. Expr(t).at = "expr" /\ Await(l, t).at = l
    BY FreshFrames
  <2>3. Idle(Await(l, t))
    BY <1>0, <2>2, IdleFacts
  <2> QED BY <1>0, <2>1, <2>2, <2>3, CallsPass
<1>3. CASE IfStatementNode
  <2>1. Call(<<Expr("BOOL"), Await("IfStatementNode.cond", "BOOL")>>)
    BY <1>3 DEF IfStatementNode
  <2>2. Expr("BOOL").at = "expr" /\ Await("IfStatementNode.cond", "BOOL").at = "IfStatementNode.cond"
    BY FreshFrames
  <2>3. Idle(Await("IfStatementNode.cond", "BOOL"))
    BY <1>0, <2>2, IdleFacts
  <2> QED BY <1>0, <2>1, <2>2, <2>3, CallsPass
<1>4. CASE BlockStatementNode \/ BlockLoop \/ BlockStatement
  <2>1. \/ stack' = Tail(stack)
        \/ \E a : a.at = "BlockStatementNode" /\ stack' = <<a>> \o Tail(stack)
        \/ \E a, b : /\ a.at = "statement" /\ b.at = "BlockStatementNode.stmt"
                     /\ stack' = <<a, b>> \o Tail(stack)
    BY <1>4, FreshFrames DEF BlockStatementNode, BlockLoop, BlockStatement, Call, Return
  <2>2. \A b : b.at = "BlockStatementNode.stmt" => Idle(b)
    BY <1>0, IdleFacts
  <2> QED BY <1>0, <2>1, <2>2 DEF Passes
<1>5. CASE AssignmentNode
  <2>1. PICK n \in Names, type \in UsedTypes, rhs \in UsedTypes :
          LET slot == lookup(scopeStack, n)
          IN /\ scope[n] \in {type, ABSENT}
             /\ Assignable(type, rhs)
             /\ Odd("bareDeclaration", slot = NoSlot /\ top.kind = "body")
             /\ Call(<<Expr(rhs), [Await("AssignmentNode", rhs) EXCEPT
                                     !.other = type, !.name = n, !.slot = slot]>>)
    BY <1>5, Zenon DEF AssignmentNode
  <2> DEFINE a == Expr(rhs)
             b == [Await("AssignmentNode", rhs) EXCEPT
                     !.other = type, !.name = n, !.slot = lookup(scopeStack, n)]
  <2>2. a.at = "expr"
    BY FreshFrames
  <2>3. b.at = "AssignmentNode"
    BY DEF Await, Frame
  <2>4. Call(<<a, b>>)
    BY <2>1
  <2> HIDE DEF a, b
  <2>5. Idle(b)
    BY <1>0, <2>3, IdleFacts
  <2> QED BY <1>0, <2>2, <2>4, <2>5, CallsPass
<1> QED BY <1>1, <1>2, <1>3, <1>4, <1>5 DEF EmitsStatements

\* The frames that take such a step.
LEMMA EmitsHere ==
    ASSUME EmitsExpressions \/ EmitsStatements
    PROVE  /\ stack # <<>> /\ Idle(top) /\ top.at \notin {"FunctionDefNode", "VectorNode"}
           /\ \/ top.at \in Starting
              \/ isSuccess /\ top.at \in AfterExpr
              \/ isSuccess /\ top.at = "BlockStatementNode.stmt" /\ UNCHANGED blocks
<1> DEFINE l == top.at
           Unkept == {"UnaryNode", "FuncallNode", "AssignmentNode", "IoPrintNode", "BinaryNode.lhs"}
<1>1. /\ Starting \cap KeepingLabels = {} /\ Unkept \cap KeepingLabels = {}
      /\ "BinaryNode.rhs" \notin KeepingLabels /\ "BlockStatementNode.stmt" \notin KeepingLabels
      /\ "BinaryNode.rhs" \notin Starting \cup Unkept
      /\ Unkept \subseteq AfterExpr /\ "BinaryNode.rhs" \in AfterExpr
      /\ {"expr", "statement", "BlockStatementNode"} \subseteq Starting
      /\ \A k \in {"FunctionDefNode", "VectorNode"} : k \notin Starting \cup AfterExpr
  BY DEF Starting, KeepingLabels, AfterExpr
<1>2. CASE ConstantNode \/ VarNode \/ BinaryNode \/ UnaryNode \/ FuncallNode
  <2>1. stack # <<>> /\ l = "expr"
    BY <1>2 DEF ConstantNode, VarNode, BinaryNode, UnaryNode, FuncallNode, Visit, At, top
  <2> QED BY <1>1, <2>1, IdleFacts
<1>3. CASE EagerLhs \/ UnaryOperand \/ FuncallArg \/ AssignmentRhs \/ IoPrintNode
  <2>1. stack # <<>> /\ isSuccess /\ l \in Unkept
    BY <1>3, Zenon DEF EagerLhs, UnaryOperand, FuncallArg, AssignmentRhs, IoPrintNode, Resume, At, top
  <2> HIDE DEF Unkept
  <2> QED BY <1>1, <2>1, IdleFacts, Zenon
<1>4. CASE EagerRhs
  <2>1. stack # <<>> /\ isSuccess /\ l = "BinaryNode.rhs" /\ Held(top)
    BY <1>4 DEF EagerRhs, Resume, At, top, Held
  <2> QED BY <1>1, <2>1, IdleFacts
<1>5. CASE AssignmentNode \/ PrintOrReturn \/ ExpressionWrapperNode \/ BlockStatementNode
           \/ BlockLoop \/ IfStatementNode
  <2>1. stack # <<>> /\ l \in {"statement", "BlockStatementNode"}
    BY <1>5 DEF AssignmentNode, PrintOrReturn, ExpressionWrapperNode, BlockStatementNode,
       BlockLoop, IfStatementNode, Visit, At, top
  <2> QED BY <1>1, <2>1, IdleFacts
<1>6. CASE BlockStatement
  <2>1. stack # <<>> /\ isSuccess /\ l = "BlockStatementNode.stmt" /\ UNCHANGED blocks
    BY <1>6 DEF BlockStatement, Resume, At, top, ir
  <2> QED BY <1>1, <2>1, IdleFacts
<1> QED BY <1>2, <1>3, <1>4, <1>5, <1>6 DEF EmitsExpressions, EmitsStatements

\* They insert into an open block, and leave it open.
LEMMA EmitsNothing ==
    ASSUME BlocksOK, EmitsExpressions \/ EmitsStatements
    PROVE  /\ \/ Insertable(blocks, insert)
              \/ top.at = "BlockStatementNode.stmt" /\ blocks[insert].attached
           /\ UNCHANGED <<blocks, insert>>
<1>1. /\ stack # <<>>
      /\ \/ top.at \in Starting
         \/ isSuccess /\ top.at \in AfterExpr
         \/ isSuccess /\ top.at = "BlockStatementNode.stmt" /\ UNCHANGED blocks
  BY EmitsHere
<1>2. \/ Insertable(blocks, insert)
      \/ top.at = "BlockStatementNode.stmt" /\ UNCHANGED blocks /\ blocks[insert].attached
  <2>1. CASE top.at \in Starting
    BY <1>1, <2>1 DEF BlocksOK, Goes, top
  <2>2. CASE isSuccess /\ top.at \in AfterExpr
    BY <1>1, <2>2 DEF BlocksOK, Goes, top
  <2>3. CASE isSuccess /\ top.at = "BlockStatementNode.stmt" /\ UNCHANGED blocks
    BY <1>1, <2>3 DEF BlocksOK, Goes, top, AfterStatement
  <2> QED BY <1>1, <2>1, <2>2, <2>3
<1>3. UNCHANGED <<blocks, insert>>
  <2>1. Emits
    BY DEF Emits, EmitsExpressions, EmitsStatements
  <2>2. blocks' \in {blocks, Emit(blocks)} /\ UNCHANGED insert
    BY <2>1, EmitsInPlace
  <2>3. Insertable(blocks, insert) => Emit(blocks) = blocks
    BY DEF Emit
  <2> QED BY <1>2, <2>2, <2>3
<1> QED BY <1>2, <1>3

LEMMA EmitsBlocks ==
    ASSUME Control, Control', Typed, BlocksOK, EmitsExpressions \/ EmitsStatements
    PROVE  BlocksOK'
<1> DEFINE s == Tail(stack)
<1>1. /\ stack # <<>> /\ Idle(top) /\ top.at \notin {"FunctionDefNode", "VectorNode"}
      /\ \/ top.at \in Starting
         \/ isSuccess /\ top.at \in AfterExpr
         \/ isSuccess /\ top.at = "BlockStatementNode.stmt" /\ UNCHANGED blocks
  BY EmitsHere
<1>2. \/ Insertable(blocks, insert)
      \/ top.at = "BlockStatementNode.stmt" /\ blocks[insert].attached
  BY EmitsNothing
<1>3. UNCHANGED <<blocks, insert>>
  BY EmitsNothing
<1>4. isSuccess' => isSuccess
  <2>1. Moves
    BY DEF Moves, Expressions, Statements, EmitsExpressions, EmitsStatements
  <2> QED BY <2>1, NoWayBack
<1>5. AllEnded(blocks')
  BY <1>3 DEF BlocksOK
<1>6. isSuccess' => Laid(s, {}, blocks', insert')
  <2>1. isSuccess => Laid(s, Reserved(top), blocks, insert)
    BY <1>1, CallersLaid
  <2> QED BY <1>1, <1>3, <1>4, <2>1 DEF Idle
<1>7. Passes(s, stack') /\ s \in Seq(Frames)
  BY <1>1, ExpressionsPass, StatementsPass, Active
<1>8. stack' # s => Insertable(blocks', insert')
  <2>1. CASE BlockStatement /\ stack' # s
    <3>1. ~Terminated /\ blocks[insert].attached
      BY <1>2, <2>1 DEF BlockStatement, Return, Insertable
    <3> QED BY <1>3, <3>1 DEF Terminated, Insertable
  <2>2. CASE ~BlockStatement
    <3>1. top.at # "BlockStatementNode.stmt"
      <4>1. CASE EmitsExpressions
        <5>1. top.at \in {"expr", "BinaryNode.lhs", "BinaryNode.rhs", "UnaryNode", "FuncallNode"}
          BY <4>1, Zenon DEF EmitsExpressions, ConstantNode, VarNode, BinaryNode, EagerLhs, EagerRhs,
             UnaryNode, UnaryOperand, FuncallNode, FuncallArg, Visit, Resume, At, top
        <5> QED BY <5>1, Zenon
      <4>2. CASE EmitsStatements
        <5>1. top.at \in {"statement", "BlockStatementNode", "AssignmentNode", "IoPrintNode"}
          BY <2>2, <4>2 DEF EmitsStatements, AssignmentNode, AssignmentRhs, PrintOrReturn,
             IoPrintNode, ExpressionWrapperNode, BlockStatementNode, BlockLoop, IfStatementNode,
             Visit, Resume, At, top
        <5> QED BY <5>1
      <4> QED BY <4>1, <4>2
    <3> QED BY <1>2, <1>3, <3>1
  <2> QED BY <2>1, <2>2
<1>9. CASE stack' = s
  <2>1. Return
    BY <1>9 DEF Return
  <2>2. /\ top.at \in ExpressionLabels => Insertable(blocks', insert')
        /\ blocks'[insert'].attached
    <3>1. "BlockStatementNode.stmt" \notin ExpressionLabels
      BY DEF ExpressionLabels
    <3> QED BY <1>2, <1>3, <3>1 DEF Insertable
  <2> QED BY <1>1, <1>5, <1>6, <2>1, <2>2, ReturnsBlocks
<1>10. CASE \E f : f.at \in Starting /\ stack' = <<f>> \o s
  <2>1. PICK f : f.at \in Starting /\ stack' = <<f>> \o s
    BY <1>10
  <2>2. f.at # "VectorNode" /\ Idle(f) /\ Call(<<f>>)
    BY <2>1, IdleFacts DEF Starting, KeepingLabels, Call
  <2>3. CASE stack' # s
    BY <1>1, <1>5, <1>6, <1>7, <1>8, <2>2, <2>3, BecomesBlocks DEF Idle
  <2> QED BY <1>9, <2>3
<1>11. CASE \E e, f : e.at \in Starting /\ Idle(f) /\ stack' = <<e, f>> \o s
  <2>1. PICK e, f : e.at \in Starting /\ Idle(f) /\ stack' = <<e, f>> \o s
    BY <1>11
  <2>2. Call(<<e, f>>)
    BY <2>1 DEF Call
  <2>3. CASE stack' # s
    BY <1>1, <1>5, <1>6, <1>7, <1>8, <2>1, <2>2, <2>3, CallsBlocks DEF Idle
  <2> QED BY <1>9, <2>3
<1> QED BY <1>7, <1>9, <1>10, <1>11 DEF Passes

LEMMA UnwindBlocks ==
    ASSUME Control, Control', BlocksOK, Unwind
    PROVE  BlocksOK'
<1>1. /\ ~isSuccess /\ UNCHANGED <<isSuccess, blocks, insert>> /\ Return /\ stack # <<>>
      /\ top.at \in AfterExpr \cup AfterStatement
  BY DEF Unwind, ir
<1>2. top.at # "VectorNode" /\ AllEnded(blocks')
  BY <1>1 DEF AfterExpr, AfterStatement, BlocksOK
<1>3. ~isSuccess'
  BY <1>1
<1> QED BY <1>1, <1>2, <1>3, ReturnsBlocks
-----------------------------------------------------------------------------
(* The steps that end their block                                          *)

\* The insert block is ended, and nothing else happened.
Left(mid) ==
    /\ mid \in Seq(Block) /\ Len(mid) = Len(blocks)
    /\ \A b \in 1..Len(blocks) : b # insert => mid[b] = blocks[b]
    /\ Closed(mid[insert]) /\ AllEnded(mid)

\* Where a handler goes on.
LEMMA Resumed ==
    ASSUME Control, BlocksOK, NEW l \in AfterExpr \cup AfterStatement, Resume(l)
    PROVE  /\ isSuccess /\ stack # <<>> /\ top.at = l /\ l # "VectorNode"
           /\ blocks \in Seq(Block) /\ insert \in 1..Len(blocks) /\ AllEnded(blocks)
           /\ l \in AfterExpr => Insertable(blocks, insert)
           /\ blocks[insert].attached
           /\ Tail(stack) \in Seq(Frames)
           /\ Laid(Tail(stack), Reserved(top), blocks, insert) /\ Ready(top, blocks)
           /\ Reserved(top) \cup Claimed(Tail(stack)) \subseteq 1..Len(blocks)
           /\ insert \notin Reserved(top) /\ \A b \in Reserved(top) : blocks[b].end = "open"
<1>1. isSuccess /\ stack # <<>> /\ top.at = l /\ l # "VectorNode"
  BY DEF Resume, At, top, AfterExpr, AfterStatement
<1>2. blocks \in Seq(Block) /\ insert \in 1..Len(blocks) /\ AllEnded(blocks) /\ Tail(stack) \in Seq(Frames)
  BY <1>1, Active DEF Control, BlocksOK
<1>3. l \in AfterExpr => Insertable(blocks, insert)
  BY <1>1 DEF BlocksOK, Goes, top
<1>4. l \in AfterStatement => blocks[insert].attached
  BY <1>1 DEF BlocksOK, Goes, top
<1>5. blocks[insert].attached
  BY <1>3, <1>4 DEF Insertable
<1>6. /\ Laid(Tail(stack), Reserved(top), blocks, insert) /\ Ready(top, blocks)
      /\ Reserved(top) \cup Claimed(Tail(stack)) \subseteq 1..Len(blocks)
  BY <1>1, CallersLaid
<1>7. insert \notin Reserved(top) /\ \A b \in Reserved(top) : blocks[b].end = "open"
  BY <1>6 DEF Laid
<1> QED BY <1>1, <1>2, <1>3, <1>5, <1>6, <1>7

LEMMA LeftFacts ==
    ASSUME blocks \in Seq(Block), insert \in 1..Len(blocks), AllEnded(blocks)
    PROVE  /\ \A end, succs : Insertable(blocks, insert) /\ Leaves(end, succs, Len(blocks)) =>
                Left(Terminate(blocks, end, succs))
           /\ \A b \in 1..Len(blocks) : blocks[insert].attached => Left(FallInto(blocks, b))
           /\ blocks[insert].attached /\ Terminated => Left(blocks)
<1>1. ASSUME NEW end, NEW succs, Insertable(blocks, insert), Leaves(end, succs, Len(blocks))
      PROVE  Left(Terminate(blocks, end, succs))
  BY <1>1, Terminating DEF Left
<1>2. ASSUME NEW b \in 1..Len(blocks), blocks[insert].attached
      PROVE  Left(FallInto(blocks, b))
  BY <1>2, Falling DEF Left
<1>3. blocks[insert].attached /\ Terminated => Left(blocks)
  BY DEF Left, Terminated, Closed
<1> QED BY <1>1, <1>2, <1>3

\* The handler is done in its block.
LEMMA EndsInPlace ==
    ASSUME Control, BlocksOK, NEW l \in AfterExpr \cup AfterStatement, Resume(l),
           Idle(top), l \notin ExpressionLabels, Left(blocks'), UNCHANGED insert, Return
    PROVE  BlocksOK'
<1>1. /\ stack # <<>> /\ top.at = l /\ l # "VectorNode"
      /\ Laid(Tail(stack), Reserved(top), blocks, insert)
      /\ Reserved(top) \cup Claimed(Tail(stack)) \subseteq 1..Len(blocks)
  BY Resumed
<1>2. /\ AllEnded(blocks') /\ Closed(blocks'[insert']) /\ Len(blocks') = Len(blocks)
      /\ \A b \in 1..Len(blocks) : b # insert => blocks'[b] = blocks[b]
  BY DEF Left
<1>3. Laid(Tail(stack), {}, blocks', insert')
  <2> DEFINE s == Tail(stack)
             C == Reserved(top)
             nbs == blocks'
  <2>1. Laid(s, C, blocks, insert) /\ C \cup Claimed(s) \subseteq 1..Len(blocks)
        /\ Len(nbs) = Len(blocks) /\ \A b \in 1..Len(blocks) : b # insert => nbs[b] = blocks[b]
    BY <1>1, <1>2
  <2> HIDE DEF s, C, nbs
  <2>2. Laid(s, C, nbs, insert)
    BY <2>1, InPlace
  <2> QED BY <2>2 DEF s, C, nbs, Idle
<1> QED BY <1>1, <1>2, <1>3, ReturnsBlocks DEF Closed

LEMMA ReturnNodeBlocks ==
    ASSUME Control, BlocksOK, ReturnNode
    PROVE  BlocksOK'
<1>1. /\ Resume("ReturnNode") /\ blocks' = Terminate(blocks, "ret", {}) /\ UNCHANGED insert /\ Return
      /\ "ReturnNode" \in AfterExpr /\ "ReturnNode" \notin ExpressionLabels
      /\ "ReturnNode" \notin KeepingLabels
  BY DEF ReturnNode, AfterExpr, ExpressionLabels, KeepingLabels
<1>2. Leaves("ret", {}, Len(blocks))
  BY DEF Leaves
<1>3. Left(blocks') /\ Idle(top)
  <2>1. /\ blocks \in Seq(Block) /\ insert \in 1..Len(blocks) /\ AllEnded(blocks)
        /\ Insertable(blocks, insert) /\ top.at = "ReturnNode"
    BY <1>1, Resumed
  <2> QED BY <1>1, <1>2, <2>1, LeftFacts, IdleFacts
<1> QED BY <1>1, <1>3, EndsInPlace

LEMMA FunctionDefEndBlocks ==
    ASSUME Control, BlocksOK, FunctionDefEnd
    PROVE  BlocksOK'
<1>1. /\ Resume("FunctionDefNode") /\ UNCHANGED insert /\ Return
      /\ blocks' = IF Terminated THEN blocks ELSE Terminate(blocks, "unreachable", {})
      /\ "FunctionDefNode" \in AfterStatement /\ "FunctionDefNode" \notin ExpressionLabels
      /\ "FunctionDefNode" \notin KeepingLabels
  BY DEF FunctionDefEnd, AfterStatement, ExpressionLabels, KeepingLabels
<1>2. Leaves("unreachable", {}, Len(blocks))
  BY DEF Leaves
<1>3. Left(blocks') /\ Idle(top)
  <2>1. /\ blocks \in Seq(Block) /\ insert \in 1..Len(blocks) /\ AllEnded(blocks)
        /\ blocks[insert].attached /\ top.at = "FunctionDefNode"
    BY <1>1, Resumed
  <2>2. ~Terminated => Insertable(blocks, insert)
    BY <2>1 DEF Terminated, Insertable
  <2>3. CASE Terminated
    BY <1>1, <2>1, <2>3, LeftFacts, IdleFacts
  <2>4. CASE ~Terminated
    BY <1>1, <1>2, <2>1, <2>2, <2>4, LeftFacts, IdleFacts
  <2> QED BY <2>3, <2>4
<1> QED BY <1>1, <1>3, EndsInPlace

\* Control goes on in a block that the handler kept.
LEMMA InKept ==
    ASSUME Control, BlocksOK, NEW l \in AfterExpr \cup AfterStatement, Resume(l),
           NEW mid, Left(mid), NEW m \in Reserved(top), NEW D, D = Reserved(top) \ {m},
           blocks' = Attach(mid, m) \/ (blocks' = mid /\ blocks[m].attached), insert' = m
    PROVE  /\ AllEnded(blocks') /\ Insertable(blocks', insert')
           /\ Laid(Tail(stack), D, blocks', insert')
<1> DEFINE nbs == blocks'
           C == Reserved(top)
<1>1. /\ blocks \in Seq(Block) /\ insert \in 1..Len(blocks) /\ Tail(stack) \in Seq(Frames)
      /\ Laid(Tail(stack), C, blocks, insert) /\ C \cup Claimed(Tail(stack)) \subseteq 1..Len(blocks)
      /\ insert \notin C /\ \A b \in C : blocks[b].end = "open"
  BY Resumed
<1>2. nbs = Attach(mid, m) \/ (nbs = mid /\ blocks[m].attached)
  OBVIOUS
<1>3. m \in C /\ D = C \ {m} /\ m \in 1..Len(blocks) /\ m # insert /\ blocks[m].end = "open"
  BY <1>1
<1> HIDE DEF nbs, C
<1>4. AllEnded(nbs) /\ Insertable(nbs, m) /\ Laid(Tail(stack), D, nbs, m)
  BY <1>1, <1>2, <1>3, Joined DEF Left
<1> QED BY <1>4 DEF nbs

\* The handler is done, and control goes on in the last block it kept.
LEMMA EndsInKept ==
    ASSUME Control, BlocksOK, NEW l \in AfterExpr \cup AfterStatement, Resume(l),
           l # "FunctionDefNode", NEW mid, Left(mid), NEW m, Reserved(top) = {m},
           blocks' = Attach(mid, m), insert' = m, Return
    PROVE  BlocksOK'
<1>1. stack # <<>> /\ top.at = l /\ l # "VectorNode"
  BY Resumed
<1>2. m \in Reserved(top) /\ {} = Reserved(top) \ {m}
  OBVIOUS
<1>3. AllEnded(blocks') /\ Insertable(blocks', insert') /\ Laid(Tail(stack), {}, blocks', insert')
  BY <1>2, InKept
<1> QED BY <1>1, <1>3, ReturnsBlocks DEF Insertable

LEMMA ShortCircuitRhsJoins ==
    ASSUME Control, BlocksOK, ShortCircuitRhs
    PROVE  BlocksOK'
<1> DEFINE m == top.bbs[1]
           mid == Terminate(blocks, "br", {m})
           l == "BinaryNode.rhs"
<1>1. /\ Resume(l) /\ top.kind = "bilogShortCircuit" /\ blocks' = Attach(mid, m) /\ insert' = m
      /\ Return /\ l \in AfterExpr /\ l # "FunctionDefNode"
  BY DEF ShortCircuitRhs, AfterExpr
<1>2. /\ stack # <<>> /\ top.at = l
      /\ blocks \in Seq(Block) /\ insert \in 1..Len(blocks) /\ AllEnded(blocks)
      /\ Insertable(blocks, insert) /\ Reserved(top) \subseteq 1..Len(blocks)
  BY <1>1, Resumed
<1>3. Reserved(top) = {m}
  BY <1>1, <1>2 DEF Reserved, ShortCircuit
<1> HIDE DEF m
<1>4. Leaves("br", {m}, Len(blocks))
  BY <1>2, <1>3 DEF Leaves
<1>5. Left(mid)
  BY <1>2, <1>4, LeftFacts
<1> HIDE DEF mid, l
<1> QED BY <1>1, <1>3, <1>5, EndsInKept

\* Where the blocks of a frame go on and where they go back to.
LEMMA KeptPlaces ==
    ASSUME Control, stack # <<>>
    PROVE  /\ top.at = "IfStatementNode.true" =>
                /\ Reserved(top) = {top.bbs[1], top.bbs[2]}
                /\ top.bbs[1] \in 1..Len(blocks) /\ top.bbs[2] \in 1..Len(blocks)
           /\ top.at = "IfStatementNode.false" =>
                Reserved(top) = {top.bbs[1]} /\ top.bbs[1] \in 1..Len(blocks)
           /\ top.at = "WhileStatementNode.cond" =>
                /\ Reserved(top) = {top.bbs[2], top.bbs[3]}
                /\ top.bbs[1] \in 1..Len(blocks) /\ top.bbs[2] \in 1..Len(blocks)
                /\ top.bbs[3] \in 1..Len(blocks)
           /\ top.at \in {"WhileStatementNode.body", "DoWhileStatementNode.body",
                          "DoWhileStatementNode.cond"} =>
                /\ Reserved(top) = {top.bbs[2]}
                /\ top.bbs[1] \in 1..Len(blocks) /\ top.bbs[2] \in 1..Len(blocks)
<1> DEFINE f == top
<1>1. f.at # "FuncallNode" => \A i \in 1..Kept(f) : f.bbs[i] \in 1..Len(blocks)
  BY KeptBlocks
<1> HIDE DEF f
<1>2. CASE f.at = "IfStatementNode.true"
  <2>1. Kept(f) = 2 /\ Reserved(f) = {f.bbs[1], f.bbs[2]}
    BY <1>2 DEF Kept, Reserved, ShortCircuit
  <2> QED BY <1>1, <1>2, <2>1 DEF f
<1>3. CASE f.at = "IfStatementNode.false"
  <2>1. Kept(f) = 1 /\ Reserved(f) = {f.bbs[1]}
    BY <1>3 DEF Kept, Reserved, ShortCircuit
  <2> QED BY <1>1, <1>3, <2>1 DEF f
<1>4. CASE f.at = "WhileStatementNode.cond"
  <2>1. Kept(f) = 3 /\ Reserved(f) = {f.bbs[2], f.bbs[3]}
    BY <1>4 DEF Kept, Reserved, ShortCircuit
  <2> QED BY <1>1, <1>4, <2>1 DEF f
<1>5. CASE f.at \in {"WhileStatementNode.body", "DoWhileStatementNode.body",
                     "DoWhileStatementNode.cond"}
  <2>1. Kept(f) = 2 /\ Reserved(f) = {f.bbs[2]}
    BY <1>5 DEF Kept, Reserved, ShortCircuit
  <2> QED BY <1>1, <1>5, <2>1 DEF f
<1> QED BY <1>2, <1>3, <1>4, <1>5 DEF f

\* The branches and loops that are done.
LEMMA EndsBlocks ==
    ASSUME Control, BlocksOK,
           IfFalse \/ WhileBody \/ DoWhileCond \/ (DoWhileBody /\ Terminated)
    PROVE  BlocksOK'
<1>1. CASE IfFalse
  <2> DEFINE m == top.bbs[1]
             mid == FallInto(blocks, m)
             l == "IfStatementNode.false"
  <2>1. /\ Resume(l) /\ blocks' = Attach(mid, m) /\ insert' = m /\ Return
        /\ l \in AfterStatement /\ l # "FunctionDefNode"
    BY <1>1 DEF IfFalse, AfterStatement
  <2>2. /\ stack # <<>> /\ top.at = l
        /\ blocks \in Seq(Block) /\ insert \in 1..Len(blocks) /\ AllEnded(blocks)
        /\ blocks[insert].attached
    BY <2>1, Resumed
  <2>3. Reserved(top) = {m} /\ m \in 1..Len(blocks)
    BY <2>2, KeptPlaces
  <2> HIDE DEF m
  <2>4. Left(mid)
    BY <2>2, <2>3, LeftFacts
  <2> HIDE DEF mid, l
  <2> QED BY <2>1, <2>3, <2>4, EndsInKept
<1>2. CASE WhileBody
  <2> DEFINE m == top.bbs[2]
             k == top.bbs[1]
             mid == FallInto(blocks, k)
             l == "WhileStatementNode.body"
  <2>1. /\ Resume(l) /\ blocks' = Attach(mid, m) /\ insert' = m /\ Return
        /\ l \in AfterStatement /\ l # "FunctionDefNode"
    BY <1>2 DEF WhileBody, AfterStatement
  <2>2. /\ stack # <<>> /\ top.at = l
        /\ blocks \in Seq(Block) /\ insert \in 1..Len(blocks) /\ AllEnded(blocks)
        /\ blocks[insert].attached
    BY <2>1, Resumed
  <2>3. Reserved(top) = {m} /\ k \in 1..Len(blocks)
    BY <2>2, KeptPlaces
  <2> HIDE DEF m, k
  <2>4. Left(mid)
    BY <2>2, <2>3, LeftFacts
  <2> HIDE DEF mid, l
  <2> QED BY <2>1, <2>3, <2>4, EndsInKept
<1>3. CASE DoWhileCond
  <2> DEFINE m == top.bbs[2]
             k == top.bbs[1]
             mid == Terminate(blocks, "br", {k, m})
             l == "DoWhileStatementNode.cond"
  <2>1. /\ Resume(l) /\ blocks' = Attach(mid, m) /\ insert' = m /\ Return
        /\ l \in AfterExpr /\ l # "FunctionDefNode"
    BY <1>3 DEF DoWhileCond, AfterExpr
  <2>2. /\ stack # <<>> /\ top.at = l
        /\ blocks \in Seq(Block) /\ insert \in 1..Len(blocks) /\ AllEnded(blocks)
        /\ Insertable(blocks, insert)
    BY <2>1, Resumed
  <2>3. Reserved(top) = {m} /\ k \in 1..Len(blocks) /\ m \in 1..Len(blocks)
    BY <2>2, KeptPlaces
  <2> HIDE DEF m, k
  <2>4. Left(mid)
    <3>1. Leaves("br", {k, m}, Len(blocks))
      BY <2>3 DEF Leaves
    <3> QED BY <2>2, <3>1, LeftFacts
  <2> HIDE DEF mid, l
  <2> QED BY <2>1, <2>3, <2>4, EndsInKept
<1>4. CASE DoWhileBody /\ Terminated
  <2> DEFINE m == top.bbs[2]
             mid == blocks
             l == "DoWhileStatementNode.body"
  <2>1. /\ Resume(l) /\ blocks' = Attach(mid, m) /\ insert' = m /\ Return
        /\ l \in AfterStatement /\ l # "FunctionDefNode"
    BY <1>4 DEF DoWhileBody, AfterStatement
  <2>2. /\ stack # <<>> /\ top.at = l
        /\ blocks \in Seq(Block) /\ insert \in 1..Len(blocks) /\ AllEnded(blocks)
        /\ blocks[insert].attached
    BY <2>1, Resumed
  <2>3. Reserved(top) = {m}
    BY <2>2, KeptPlaces
  <2> HIDE DEF m
  <2>4. Left(mid)
    BY <1>4, <2>2, LeftFacts
  <2> HIDE DEF mid, l
  <2> QED BY <2>1, <2>3, <2>4, EndsInKept
<1> QED BY <1>1, <1>2, <1>3, <1>4

\* The frames that such a handler leaves behind.
LEMMA KeepingReserves ==
    ASSUME NEW f, NEW bbs
    PROVE  /\ f.at = "IfStatementNode.true" => Reserved(f) = {f.bbs[1], f.bbs[2]}
           /\ f.at = "IfStatementNode.false" => Reserved(f) = {f.bbs[1]}
           /\ f.at = "WhileStatementNode.cond" => Reserved(f) = {f.bbs[2], f.bbs[3]}
           /\ f.at \in {"WhileStatementNode.body", "DoWhileStatementNode.body",
                        "DoWhileStatementNode.cond"} => Reserved(f) = {f.bbs[2]}
           /\ f.at \notin {"IfStatementNode.true", "WhileStatementNode.cond"} => Ready(f, bbs)
BY DEF Reserved, Ready, ShortCircuit

LEMMA IfTrueBlocks ==
    ASSUME Control, Control', BlocksOK, IfTrue
    PROVE  BlocksOK'
<1> DEFINE m == top.bbs[1]
           k == top.bbs[2]
           mid == FallInto(blocks, k)
           l == "IfStatementNode.true"
           f == [Frame("IfStatementNode.false") EXCEPT !.bbs = <<k>>]
<1>1. /\ Resume(l) /\ blocks' = Attach(mid, m) /\ insert' = m
      /\ Call(<<Body, f>>) \/ Call(<<f>>)
      /\ l \in AfterStatement
  BY DEF IfTrue, AfterStatement
<1>2. /\ stack # <<>> /\ top.at = l /\ Tail(stack) \in Seq(Frames)
      /\ blocks \in Seq(Block) /\ insert \in 1..Len(blocks) /\ AllEnded(blocks)
      /\ blocks[insert].attached /\ Ready(top, blocks)
  BY <1>1, Resumed
<1>3. Reserved(top) = {m, k} /\ k \in 1..Len(blocks) /\ m # k
  BY <1>2, KeptPlaces DEF Ready
<1>4. f.at = "IfStatementNode.false" /\ f.bbs[1] = k
  BY DEF Frame
<1> HIDE DEF m, k
<1>5. Left(mid)
  BY <1>2, <1>3, LeftFacts
<1>6. m \in Reserved(top) /\ {k} = Reserved(top) \ {m}
  BY <1>3
<1> HIDE DEF mid, l, f
<1>7. AllEnded(blocks') /\ Insertable(blocks', insert') /\ Laid(Tail(stack), {k}, blocks', insert')
  BY <1>1, <1>5, <1>6, InKept
<1>8. Reserved(f) = {k} /\ Ready(f, blocks') /\ f.at # "VectorNode"
  BY <1>4, KeepingReserves
<1>9. Body.at \in Starting
  BY FreshFrames DEF Starting
<1>10. CASE Call(<<Body, f>>)
  BY <1>2, <1>7, <1>8, <1>9, <1>10, CallsBlocks
<1>11. CASE Call(<<f>>)
  BY <1>2, <1>7, <1>8, <1>11, BecomesBlocks
<1> QED BY <1>1, <1>10, <1>11

LEMMA WhileCondBlocks ==
    ASSUME Control, Control', BlocksOK, WhileCond
    PROVE  BlocksOK'
<1> DEFINE m == top.bbs[2]
           k == top.bbs[3]
           j == top.bbs[1]
           mid == Terminate(blocks, "br", {m, k})
           l == "WhileStatementNode.cond"
           f == [Frame("WhileStatementNode.body") EXCEPT !.bbs = <<j, k>>]
<1>1. /\ Resume(l) /\ blocks' = mid /\ insert' = m
      /\ Call(<<Body, f>>) /\ l \in AfterExpr
  BY DEF WhileCond, AfterExpr
<1>2. /\ stack # <<>> /\ top.at = l /\ Tail(stack) \in Seq(Frames)
      /\ blocks \in Seq(Block) /\ insert \in 1..Len(blocks) /\ AllEnded(blocks)
      /\ Insertable(blocks, insert) /\ Ready(top, blocks)
  BY <1>1, Resumed
<1>3. /\ Reserved(top) = {m, k} /\ k \in 1..Len(blocks) /\ m \in 1..Len(blocks)
      /\ m # k /\ blocks[m].attached
  BY <1>2, KeptPlaces DEF Ready
<1>4. f.at = "WhileStatementNode.body" /\ f.bbs[2] = k
  BY DEF Frame
<1> HIDE DEF m, k, j
<1>5. Left(mid)
  <2>1. Leaves("br", {m, k}, Len(blocks))
    BY <1>3 DEF Leaves
  <2> QED BY <1>2, <2>1, LeftFacts
<1>6. m \in Reserved(top) /\ {k} = Reserved(top) \ {m}
  BY <1>3
<1> HIDE DEF mid, l, f
<1>7. AllEnded(blocks') /\ Insertable(blocks', insert') /\ Laid(Tail(stack), {k}, blocks', insert')
  BY <1>1, <1>3, <1>5, <1>6, InKept
<1>8. Reserved(f) = {k} /\ Ready(f, blocks')
  BY <1>4, KeepingReserves
<1>9. Body.at \in Starting
  BY FreshFrames DEF Starting
<1> QED BY <1>1, <1>2, <1>7, <1>8, <1>9, CallsBlocks

\* The condition of a do loop follows in the block that its body ended in.
LEMMA DoWhileBodyBlocks ==
    ASSUME Control, Control', BlocksOK, DoWhileBody
    PROVE  BlocksOK'
<1> DEFINE b == top.bbs
           l == "DoWhileStatementNode.body"
           e == Expr("BOOL")
           f == [Await("DoWhileStatementNode.cond", "BOOL") EXCEPT !.bbs = b]
<1>1. /\ Resume(l) /\ l \in AfterStatement
      /\ ~Terminated => UNCHANGED <<blocks, insert>> /\ Call(<<e, f>>)
  BY DEF DoWhileBody, AfterStatement
<1>2. /\ stack # <<>> /\ top.at = l /\ Tail(stack) \in Seq(Frames) /\ AllEnded(blocks)
      /\ blocks[insert].attached /\ Laid(Tail(stack), Reserved(top), blocks, insert)
  BY <1>1, Resumed
<1>3. Reserved(top) = {b[2]}
  BY <1>2, KeptPlaces
<1>4. f.at = "DoWhileStatementNode.cond" /\ f.bbs = b
  BY DEF Await, Frame
<1>5. e.at \in Starting
  BY FreshFrames DEF Starting
<1> HIDE DEF b, e, f
<1>6. Reserved(f) = {b[2]} /\ Ready(f, blocks)
  BY <1>4, KeepingReserves
<1>7. CASE ~Terminated
  <2>1. UNCHANGED <<blocks, insert>> /\ Call(<<e, f>>) /\ Insertable(blocks, insert)
    BY <1>1, <1>2, <1>7 DEF Terminated, Insertable
  <2>2. /\ AllEnded(blocks') /\ Insertable(blocks', insert')
        /\ Laid(Tail(stack), Reserved(f), blocks', insert') /\ Ready(f, blocks')
    BY <1>2, <1>3, <1>6, <2>1
  <2> QED BY <1>2, <1>5, <2>1, <2>2, CallsBlocks
<1> QED BY <1>7, EndsBlocks

\* Control goes on in the first of the blocks that the handler makes.
LEMMA InNew ==
    ASSUME Control, Control', BlocksOK, stack # <<>>, top.at # "VectorNode", Idle(top),
           Insertable(blocks, insert), isSuccess' => isSuccess,
           NEW n, n = Len(blocks), NEW add \in NewBlocks, NEW succs,
           succs # {}, succs \subseteq (n + 1)..(n + Len(add)),
           blocks' = Terminate(blocks \o add, "br", succs), insert' = n + 1,
           NEW e, NEW f, Call(<<e, f>>), e.at \in Starting,
           Reserved(f) = (n + 2)..(n + Len(add)),
           f.at = "IfStatementNode.true" => f.bbs[1] # f.bbs[2],
           f.at = "WhileStatementNode.cond" =>
             f.bbs[2] = n + 2 /\ f.bbs[3] = n + 3 /\ add[2] = Attached /\ Len(add) = 3
    PROVE  BlocksOK'
<1> DEFINE nbs == blocks'
           s == Tail(stack)
           D == (n + 2)..(n + Len(add))
<1>1. blocks \in Seq(Block) /\ insert \in 1..n /\ AllEnded(blocks) /\ s \in Seq(Frames) /\ n \in Nat
  BY Active DEF Control, BlocksOK
<1>2. nbs = Terminate(blocks \o add, "br", succs) /\ Reserved(f) = D
  OBVIOUS
<1>3. isSuccess => Laid(s, {}, blocks, insert) /\ Claimed(s) \subseteq 1..n
  BY CallersLaid DEF Idle
<1> HIDE DEF nbs, s
<1>4. /\ AllEnded(nbs) /\ Insertable(nbs, n + 1)
      /\ \A b \in 1..Len(add) : nbs[n + b] = add[b]
      /\ \A t \in Seq(Frames) : \A E :
           /\ Laid(t, {}, blocks, insert) /\ Claimed(t) \subseteq 1..n
           /\ E = (n + 2)..(n + Len(add))
           => Laid(t, E, nbs, n + 1)
  BY <1>1, <1>2, Grown
<1>5. isSuccess => Laid(s, D, nbs, n + 1)
  BY <1>1, <1>3, <1>4
<1>6. Ready(f, nbs)
  <2>1. CASE f.at = "WhileStatementNode.cond"
    <3>1. Len(add) = 3 /\ add[2] = Attached /\ f.bbs[2] = n + 2 /\ f.bbs[3] = n + 3
      BY <2>1
    <3>2. 2 \in 1..Len(add)
      BY <3>1
    <3>3. nbs[n + 2] = add[2]
      BY <1>4, <3>2
    <3>4. n + 2 # n + 3
      BY <1>1
    <3> QED BY <2>1, <3>1, <3>3, <3>4 DEF Ready, Attached
  <2>2. CASE f.at # "WhileStatementNode.cond"
    BY <2>2 DEF Ready
  <2> QED BY <2>1, <2>2
<1>7. /\ AllEnded(blocks') /\ Insertable(blocks', insert') /\ Ready(f, blocks')
      /\ isSuccess' => Laid(s, Reserved(f), blocks', insert')
  BY <1>2, <1>4, <1>5, <1>6 DEF nbs
<1> HIDE DEF D
<1> QED BY <1>1, <1>7, CallsBlocks DEF s

LEMMA ShortCircuitLhsJumps ==
    ASSUME Control, Control', BlocksOK, ShortCircuitLhs
    PROVE  BlocksOK'
<1> DEFINE l == "BinaryNode.lhs"
           n == Len(blocks)
           add == <<Attached, Detached>>
           succs == {n + 1, n + 2}
           e == Expr(top.other)
           f == [Await("BinaryNode.rhs", top.other) EXCEPT
                   !.kind = top.kind, !.slot = Value("i1", insert), !.bbs = <<n + 2>>]
<1>1. /\ Resume(l) /\ l \in AfterExpr /\ l \notin KeepingLabels
      /\ blocks' = Terminate(blocks \o add, "br", succs) /\ insert' = n + 1
      /\ Call(<<e, f>>) /\ UNCHANGED isSuccess /\ top.kind = "bilogShortCircuit"
  BY DEF ShortCircuitLhs, AfterExpr, KeepingLabels
<1>2. /\ stack # <<>> /\ top.at = l /\ Insertable(blocks, insert) /\ n \in Nat
  BY <1>1, Resumed
<1>3. Idle(top) /\ top.at # "VectorNode"
  BY <1>1, <1>2, IdleFacts
<1>4. f.at = "BinaryNode.rhs" /\ f.kind = top.kind /\ f.bbs = <<n + 2>>
  BY DEF Await, Frame
<1>5. e.at \in Starting
  BY FreshFrames DEF Starting
<1>6. add \in NewBlocks /\ Len(add) = 2
  BY DEF NewBlocks
<1> HIDE DEF e, f, add, n
<1>7. succs # {} /\ succs \subseteq (n + 1)..(n + Len(add))
  BY <1>2, <1>6
<1>8. Reserved(f) = (n + 2)..(n + Len(add))
  <2>1. Reserved(f) = {n + 2}
    BY <1>1, <1>4 DEF Reserved, ShortCircuit
  <2>2. \A b : b \in {n + 2} <=> b \in (n + 2)..(n + 2)
    BY <1>2
  <2> QED BY <1>6, <2>1, <2>2
<1> HIDE DEF succs, l
<1>9. n = Len(blocks)
  BY DEF n
<1> QED BY <1>1, <1>2, <1>3, <1>4, <1>5, <1>6, <1>7, <1>8, <1>9, InNew

LEMMA IfCondBlocks ==
    ASSUME Control, Control', BlocksOK, IfCond
    PROVE  BlocksOK'
<1> DEFINE l == "IfStatementNode.cond"
           n == Len(blocks)
           add == <<Attached, Detached, Detached>>
           succs == {n + 1, n + 2}
           e == Body
           f == [Frame("IfStatementNode.true") EXCEPT !.bbs = <<n + 2, n + 3>>]
<1>1. /\ Resume(l) /\ l \in AfterExpr /\ l \notin KeepingLabels
      /\ blocks' = Terminate(blocks \o add, "br", succs) /\ insert' = n + 1
      /\ Call(<<e, f>>) /\ UNCHANGED isSuccess
  BY DEF IfCond, AfterExpr, KeepingLabels
<1>2. /\ stack # <<>> /\ top.at = l /\ Insertable(blocks, insert) /\ n \in Nat
  BY <1>1, Resumed
<1>3. Idle(top) /\ top.at # "VectorNode"
  BY <1>1, <1>2, IdleFacts
<1>4. f.at = "IfStatementNode.true" /\ f.bbs = <<n + 2, n + 3>>
  BY DEF Frame
<1>5. e.at \in Starting
  BY FreshFrames DEF Starting
<1>6. add \in NewBlocks /\ Len(add) = 3
  BY DEF NewBlocks
<1> HIDE DEF e, f, add, n
<1>7. succs # {} /\ succs \subseteq (n + 1)..(n + Len(add))
  BY <1>2, <1>6
<1>8. /\ Reserved(f) = (n + 2)..(n + Len(add)) /\ f.bbs[1] # f.bbs[2]
  <2>1. Reserved(f) = {n + 2, n + 3} /\ f.bbs[1] # f.bbs[2]
    BY <1>2, <1>4 DEF Reserved, ShortCircuit
  <2>2. \A b : b \in {n + 2, n + 3} <=> b \in (n + 2)..(n + 3)
    BY <1>2
  <2> QED BY <1>6, <2>1, <2>2
<1> HIDE DEF succs, l
<1>9. n = Len(blocks)
  BY DEF n
<1> QED BY <1>1, <1>2, <1>3, <1>4, <1>5, <1>6, <1>7, <1>8, <1>9, InNew

LEMMA WhileStatementNodeBlocks ==
    ASSUME Control, Control', BlocksOK, WhileStatementNode
    PROVE  BlocksOK'
<1> DEFINE n == Len(blocks)
           add == <<Attached, Attached, Detached>>
           succs == {n + 1}
           e == Expr("BOOL")
           f == [Await("WhileStatementNode.cond", "BOOL") EXCEPT !.bbs = <<n + 1, n + 2, n + 3>>]
<1>1. /\ At("statement") /\ blocks' = Terminate(blocks \o add, "br", succs) /\ insert' = n + 1
      /\ Call(<<e, f>>) /\ UNCHANGED isSuccess
  BY DEF WhileStatementNode, Visit
<1>2. /\ stack # <<>> /\ top.at = "statement" /\ Insertable(blocks, insert) /\ n \in Nat
  <2>1. stack # <<>> /\ top.at = "statement"
    BY <1>1 DEF At, top
  <2> QED BY <2>1, Active DEF BlocksOK, Goes, Starting, top
<1>3. Idle(top) /\ top.at # "VectorNode"
  BY <1>2, IdleFacts DEF KeepingLabels
<1>4. f.at = "WhileStatementNode.cond" /\ f.bbs = <<n + 1, n + 2, n + 3>>
  BY DEF Await, Frame
<1>5. e.at \in Starting
  BY FreshFrames DEF Starting
<1>6. add \in NewBlocks /\ Len(add) = 3 /\ add[2] = Attached
  BY DEF NewBlocks
<1> HIDE DEF e, f, add, n
<1>7. succs # {} /\ succs \subseteq (n + 1)..(n + Len(add))
  BY <1>2, <1>6
<1>8. Reserved(f) = (n + 2)..(n + Len(add)) /\ f.bbs[2] = n + 2 /\ f.bbs[3] = n + 3
  <2>1. Reserved(f) = {n + 2, n + 3} /\ f.bbs[2] = n + 2 /\ f.bbs[3] = n + 3
    BY <1>2, <1>4 DEF Reserved, ShortCircuit
  <2>2. \A b : b \in {n + 2, n + 3} <=> b \in (n + 2)..(n + 3)
    BY <1>2
  <2> QED BY <1>6, <2>1, <2>2
<1> HIDE DEF succs
<1>9. n = Len(blocks)
  BY DEF n
<1> QED BY <1>1, <1>2, <1>3, <1>4, <1>5, <1>6, <1>7, <1>8, <1>9, InNew

LEMMA DoWhileStatementNodeBlocks ==
    ASSUME Control, Control', BlocksOK, DoWhileStatementNode
    PROVE  BlocksOK'
<1> DEFINE n == Len(blocks)
           add == <<Attached, Detached>>
           succs == {n + 1}
           e == Body
           f == [Frame("DoWhileStatementNode.body") EXCEPT !.bbs = <<n + 1, n + 2>>]
<1>1. /\ At("statement") /\ blocks' = Terminate(blocks \o add, "br", succs) /\ insert' = n + 1
      /\ Call(<<e, f>>) /\ UNCHANGED isSuccess
  BY DEF DoWhileStatementNode, Visit
<1>2. /\ stack # <<>> /\ top.at = "statement" /\ Insertable(blocks, insert) /\ n \in Nat
  <2>1. stack # <<>> /\ top.at = "statement"
    BY <1>1 DEF At, top
  <2> QED BY <2>1, Active DEF BlocksOK, Goes, Starting, top
<1>3. Idle(top) /\ top.at # "VectorNode"
  BY <1>2, IdleFacts DEF KeepingLabels
<1>4. f.at = "DoWhileStatementNode.body" /\ f.bbs = <<n + 1, n + 2>>
  BY DEF Frame
<1>5. e.at \in Starting
  BY FreshFrames DEF Starting
<1>6. add \in NewBlocks /\ Len(add) = 2
  BY DEF NewBlocks
<1> HIDE DEF e, f, add, n
<1>7. succs # {} /\ succs \subseteq (n + 1)..(n + Len(add))
  BY <1>2, <1>6
<1>8. Reserved(f) = (n + 2)..(n + Len(add))
  <2>1. Reserved(f) = {n + 2}
    BY <1>2, <1>4 DEF Reserved, ShortCircuit
  <2>2. \A b : b \in {n + 2} <=> b \in (n + 2)..(n + 2)
    BY <1>2
  <2> QED BY <1>6, <2>1, <2>2
<1> HIDE DEF succs
<1>9. n = Len(blocks)
  BY DEF n
<1> QED BY <1>1, <1>2, <1>3, <1>4, <1>5, <1>6, <1>7, <1>8, <1>9, InNew

-----------------------------------------------------------------------------
(* Every step                                                              *)

\* Every step inside a function keeps its blocks in order.
LEMMA MovesBlocksOK ==
    ASSUME Control, Control', Typed, BlocksOK, Moves
    PROVE  BlocksOK'
<1>1. CASE EmitsExpressions \/ EmitsStatements
  BY <1>1, EmitsBlocks
<1>2. CASE ShortCircuitLhs \/ IfCond \/ WhileStatementNode \/ DoWhileStatementNode
  BY <1>2, ShortCircuitLhsJumps, IfCondBlocks, WhileStatementNodeBlocks,
     DoWhileStatementNodeBlocks
<1>3. CASE IfTrue \/ WhileCond \/ DoWhileBody
  BY <1>3, IfTrueBlocks, WhileCondBlocks, DoWhileBodyBlocks
<1>4. CASE ShortCircuitRhs \/ IfFalse \/ WhileBody \/ DoWhileCond
  BY <1>4, ShortCircuitRhsJoins, EndsBlocks
<1>5. CASE ReturnNode \/ FunctionDefEnd \/ Unwind
  BY <1>5, ReturnNodeBlocks, FunctionDefEndBlocks, UnwindBlocks
<1> QED BY <1>1, <1>2, <1>3, <1>4, <1>5
    DEF Moves, Expressions, Statements, EmitsExpressions, EmitsStatements

\* Where no frame keeps a block, only the insert block can be open.
LEMMA NothingKept ==
    ASSUME NEW s \in Seq(Frames), \A i \in 1..Len(s) : Idle(s[i])
    PROVE  Claimed(s) = {} /\ Apart(s) /\ \A bbs : \A i \in 1..Len(s) : Ready(s[i], bbs)
<1>1. \A i \in 1..Len(s) : Reserved(s[i]) = {}
  BY DEF Idle
<1>2. Claimed(s) = {}
  BY <1>1 DEF Claimed
<1>3. Apart(s)
  BY <1>1 DEF Apart
<1> QED BY <1>2, <1>3 DEF Idle

\* A function begins with its entry block, where the body goes on.
LEMMA FunctionDefNodeBlocks ==
    ASSUME Control, Control', Results, FunctionDefNode
    PROVE  BlocksOK'
<1> DEFINE a == Statement
           b == Frame("FunctionDefNode")
           c == Frame("VectorNode")
           r == stack'
           nbs == blocks'
<1>1. /\ At("VectorNode") /\ nbs = <<Attached>> /\ insert' = 1
      /\ stack' = <<a, b, c>> \o Tail(stack)
  BY DEF FunctionDefNode, Call
<1>2. Tail(stack) = <<>>
  BY <1>1, Bottom
<1>3. /\ a.at = "statement" /\ b.at = "FunctionDefNode" /\ c.at = "VectorNode"
  BY FreshFrames
<1>4. Idle(a) /\ Idle(b) /\ Idle(c)
  <2> HIDE DEF a, b, c
  <2> QED BY <1>3, IdleFacts DEF KeepingLabels
<1>5. r \in Seq(Frames)
  BY DEF Control, CallsOK, StackOK
<1> HIDE DEF a, b, c, nbs
<1>6. r = <<a, b, c>>
  <2> DEFINE q == <<a, b, c>>
  <2>1. q \in Seq({a, b, c})
    OBVIOUS
  <2> HIDE DEF q
  <2>2. q \o <<>> = q
    BY <2>1
  <2> QED BY <1>1, <1>2, <2>2 DEF q
<1> HIDE DEF r
<1>7. Len(r) = 3 /\ r[1] = a /\ r[2] = b /\ r[3] = c /\ r # <<>> /\ Head(r) = a
  BY <1>6
<1>8. \A i \in 1..Len(r) : Idle(r[i])
  <2>1. \A i \in 1..3 : i = 1 \/ i = 2 \/ i = 3
    OBVIOUS
  <2> QED BY <1>4, <1>7, <2>1
<1>9. Claimed(r) = {} /\ Apart(r) /\ \A bbs : \A i \in 1..Len(r) : Ready(r[i], bbs)
  BY <1>5, <1>8, NothingKept
<1>10. Len(nbs) = 1 /\ nbs[1] = Attached
  BY <1>1
<1>11. Laid(r, {}, nbs, 1)
  <2>1. \A d \in 1..Len(nbs) : d = 1
    BY <1>10
  <2> QED BY <1>9, <2>1 DEF Laid
<1>12. AllEnded(nbs) /\ Insertable(nbs, 1)
  <2>1. \A d \in 1..Len(nbs) : nbs[d] = Attached
    BY <1>10
  <2> QED BY <1>10, <2>1 DEF AllEnded, Ended, Insertable, Attached
<1>13. Goes(r, isSuccess', nbs, 1)
  <2>1. nbs[1].attached
    BY <1>12 DEF Insertable
  <2> QED BY <1>3, <1>7, <1>12, <2>1 DEF Goes
<1> QED BY <1>1, <1>11, <1>12, <1>13 DEF BlocksOK, r, nbs

\* After the last function nothing is left of the stack.
LEMMA VectorNodeEndBlocks ==
    ASSUME Control, Results, BlocksOK, VectorNodeEnd
    PROVE  BlocksOK'
<1> DEFINE s == Tail(stack)
<1>1. At("VectorNode") /\ Return /\ UNCHANGED <<isSuccess, blocks, insert>> /\ stack # <<>>
  BY DEF VectorNodeEnd, syms, ir, At
<1>2. s = <<>> /\ stack' = s /\ top \in Frames
  BY <1>1, Bottom, Active DEF Return
<1>3. Reserved(top) = {}
  <2>1. top.at = "VectorNode"
    BY <1>1 DEF At, top
  <2> QED BY <2>1 DEF Reserved, ShortCircuit
<1> HIDE DEF s
<1>4. isSuccess => Laid(s, {}, blocks, insert)
  BY <1>1, <1>3, CallersLaid DEF s
<1>5. Goes(s, isSuccess, blocks, insert)
  BY <1>2 DEF Goes
<1> QED BY <1>1, <1>2, <1>4, <1>5 DEF BlocksOK

LEMMA BlocksInitially ==
    ASSUME Init
    PROVE  BlocksOK
<1> DEFINE f == Frame("VectorNode")
<1>1. stack = <<f>> /\ blocks = <<>> /\ insert = 0 /\ isSuccess
  BY DEF Init
<1>2. f.at = "VectorNode"
  BY FreshFrames
<1>3. stack \in Seq(Frames)
  BY InvInitially DEF Inv, Control, CallsOK, StackOK
<1> HIDE DEF f
<1>4. Idle(f)
  BY <1>2, IdleFacts DEF KeepingLabels
<1>5. \A i \in 1..Len(stack) : Idle(stack[i])
  BY <1>1, <1>4
<1>6. Claimed(stack) = {} /\ Apart(stack) /\ \A bbs : \A i \in 1..Len(stack) : Ready(stack[i], bbs)
  BY <1>3, <1>5, NothingKept
<1>7. Laid(stack, {}, blocks, insert) /\ AllEnded(blocks)
  BY <1>1, <1>6 DEF Laid, AllEnded
<1>8. Goes(stack, isSuccess, blocks, insert)
  BY <1>1, <1>2 DEF Goes, Starting, AfterExpr, AfterStatement
<1> QED BY <1>7, <1>8 DEF BlocksOK

-----------------------------------------------------------------------------
(* Theorems                                                                *)

LEMMA BlocksStep ==
    ASSUME Inv, Inv', BlocksOK, [Next]_vars
    PROVE  BlocksOK'
<1>1. Control /\ Control' /\ Results /\ Typed
  BY DEF Inv
<1>2. CASE Moves
  BY <1>1, <1>2, MovesBlocksOK
<1>3. CASE FunctionDefNode \/ VectorNodeEnd
  BY <1>1, <1>3, FunctionDefNodeBlocks, VectorNodeEndBlocks
<1>4. CASE UNCHANGED vars
  <2>1. UNCHANGED <<blocks, insert, stack, isSuccess>>
    BY <1>4 DEF vars, ir
  <2> QED BY <2>1 DEF BlocksOK
<1> QED BY <1>2, <1>3, <1>4 DEF Next, Moves, Functions, Done

\* The blocks of a function are the insert block, those that a waiting handler
\* still keeps, and those that have their terminator: each handler ends the
\* block it leaves, and places its own blocks once.
THEOREM BlocksInvariance == Spec => []BlocksOK
<1>1. Init => BlocksOK
  BY BlocksInitially
<1>2. Inv /\ Inv' /\ BlocksOK /\ [Next]_vars => BlocksOK'
  BY BlocksStep
<1> QED BY <1>1, <1>2, GeneratorInvariance, PTL DEF Spec

\* No handler inserts an instruction or a second terminator into a block that
\* has its terminator, nor into a block that is not part of the function.
THEOREM TerminatorsAreLast == Spec => []NothingAfterTerminator
<1>1. BlocksOK => NothingAfterTerminator
  BY DEF BlocksOK, AllEnded, Ended, NothingAfterTerminator
<1> QED BY <1>1, BlocksInvariance, PTL

LEMMA BlocksComplete ==
    ASSUME Inv, BlocksOK
    PROVE  FunctionComplete
<1> SUFFICES ASSUME At("VectorNode"), isSuccess, blocks # <<>>, NEW b \in 1..Len(blocks)
             PROVE  /\ blocks[b].attached
                    /\ blocks[b].end \in {"br", "ret", "unreachable"}
                    /\ blocks[b].succs \subseteq 1..Len(blocks)
                    /\ (blocks[b].end = "br") <=> (blocks[b].succs # {})
  BY DEF FunctionComplete, FunctionDone
<1> DEFINE s == Tail(stack)
<1>1. stack # <<>> /\ top.at = "VectorNode" /\ Head(stack).at = "VectorNode"
  BY DEF At, top
<1>2. Control /\ Results /\ blocks \in Seq(Block)
  BY DEF Inv, Control
<1>3. s = <<>>
  BY <1>2, Bottom
<1>4. Closed(blocks[insert])
  BY <1>1 DEF BlocksOK, Goes
<1>5. Laid(s, Reserved(top), blocks, insert)
  BY <1>1, <1>2, CallersLaid
<1>6. Reserved(top) = {}
  BY <1>1 DEF Reserved, ShortCircuit
<1> HIDE DEF s
<1>7. Claimed(s) = {}
  <2>1. s \in Seq(Frames) /\ \A i \in 1..Len(s) : Idle(s[i])
    BY <1>3
  <2> QED BY <2>1, NothingKept
<1>8. Closed(blocks[b])
  BY <1>4, <1>5, <1>6, <1>7 DEF Laid
<1>9. Ended(blocks[b], Len(blocks))
  BY DEF BlocksOK, AllEnded
<1>10. blocks[b].end \in Ends
  <2>1. blocks[b] \in Block
    BY <1>2
  <2> QED BY <2>1 DEF Block
<1> QED BY <1>8, <1>9, <1>10 DEF Closed, Ended, Ends

\* A function generated without an error is complete, whatever its body nests:
\* every block made for it was attached and has its terminator, and branches
\* lead only to blocks of the function.
THEOREM FunctionsAreComplete == Spec => []FunctionComplete
BY BlocksInvariance, GeneratorInvariance, BlocksComplete, PTL
=============================================================================
