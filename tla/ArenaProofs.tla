---------------------------- MODULE ArenaProofs ----------------------------
(***************************************************************************)
(* The arena implements an allocator, for every memory, block size and set *)
(* of object types.  No bound on sizes or alignments is needed, and the    *)
(* blocks may lie anywhere.                                                *)
(***************************************************************************)
EXTENDS Arena, SequenceTheorems, TLAPS

USE DEF nullptr
-----------------------------------------------------------------------------
(* std::align                                                              *)

\* The aligned address is not below the given one and less than an alignment
\* above it.
LEMMA AlignUpRange ==
  ASSUME NEW p \in Nat, NEW a \in Nat \ {0}
  PROVE  /\ AlignUp(p, a) \in Nat
         /\ p <= AlignUp(p, a)
         /\ AlignUp(p, a) < p + a
<1>1. p % a \in 0..(a - 1)
  OBVIOUS
<1>2. QED
  BY <1>1 DEF AlignUp

\* It is aligned, whether or not the alignment is a power of two.
LEMMA AlignUpAligned ==
  ASSUME NEW p \in Nat, NEW a \in Nat \ {0}
  PROVE  AlignUp(p, a) % a = 0
<1> DEFINE r == p % a
           q == p \div a
<1>1. /\ p = a * q + r
      /\ r \in 0..(a - 1)
      /\ q \in Nat
  OBVIOUS
<1>2. CASE r = 0
  <2>1. (a - r) % a = 0
    BY <1>1, <1>2
  <2>2. QED
    BY <1>1, <1>2, <2>1 DEF AlignUp
<1>3. CASE r # 0
  <2>1. (a - r) % a = a - r
    BY <1>1, <1>3
  <2>2. AlignUp(p, a) = a * (q + 1)
    BY <1>1, <2>1 DEF AlignUp
  <2>3. (a * (q + 1)) % a = 0
    BY <1>1
  <2>4. QED
    BY <2>2, <2>3
<1>4. QED
  BY <1>2, <1>3

\* A range inside another one lies apart from whatever that one does.
LEMMA InsideApart ==
  ASSUME NEW p \in Nat, NEW n \in Nat, NEW c \in Nat, NEW m \in Nat,
         NEW q \in Nat, NEW s \in Nat,
         c <= p, p + n <= c + m, q + s <= c \/ c + m <= q
  PROVE  p + n <= q \/ q + s <= p
OBVIOUS

LEMMA KindType ==
  ASSUME NEW kind \in Kinds
  PROVE  /\ kind.size \in Nat \ {0}
         /\ kind.align \in Nat \ {0}
         /\ kind.trivial \in BOOLEAN
BY KindsAssumption
LEMMA ObjectType ==
  ASSUME TypeOK, NEW i \in 1..Len(objects)
  PROVE  /\ objects[i].addr \in Nat
         /\ objects[i].kind.size \in Nat \ {0}
<1>1. objects[i] \in Objects
  BY DEF TypeOK
<1>2. objects[i].addr \in Nat /\ objects[i].kind \in Kinds
  BY <1>1 DEF Objects
<1>3. QED
  BY <1>2, KindType

LEMMA BlockType ==
  ASSUME TypeOK, NEW i \in 1..Len(blocks)
  PROVE  /\ blocks[i].base \in Nat
         /\ blocks[i].size \in Nat
<1>1. blocks[i] \in Blocks
  BY DEF TypeOK
<1>2. QED
  BY <1>1 DEF Blocks
-----------------------------------------------------------------------------
(* The inductive invariant                                                 *)

Disjoint(b, c) == b.base + b.size <= c.base \/ c.base + c.size <= b.base

\* The blocks come from the heap and do not overlap.
BlocksOK ==
    /\ \A i \in 1..Len(blocks) :
         blocks[i].base..(blocks[i].base + blocks[i].size - 1) \subseteq Memory
    /\ \A i, j \in 1..Len(blocks) : i # j => Disjoint(blocks[i], blocks[j])

\* Without a block there is no current position.
NullOK == blocks = <<>> => current = nullptr

\* What the allocator promises of the objects.
ObjectsOK ==
    /\ \A i \in 1..Len(objects) :
         objects[i].addr % objects[i].kind.align = 0
    /\ \A i, j \in 1..Len(objects) :
         i # j => ~Promise!Overlap(objects[i], objects[j])

Inv == TypeOK /\ BlocksOK /\ NullOK /\ SpaceIsFree /\ ObjectsInBlocks /\ ObjectsOK

\* The object x fits in the space from ptr on, which ends with the block b
\* and holds no object.
Room(kind, ptr, space, b) ==
    /\ Fits(kind, ptr, space)
    /\ b.base <= ptr
    /\ ptr + space = b.base + b.size
    /\ \A i \in 1..Len(objects) :
         \/ objects[i].addr + objects[i].kind.size <= ptr
         \/ ptr + space <= objects[i].addr

\* Where there is room, Place() puts an aligned object that shares no byte
\* with another one, and what is left is free space again.
LEMMA PlaceInRoom ==
  ASSUME TypeOK, NEW kind \in Kinds,
         NEW ptr \in Nat \ {0}, NEW space \in Nat, NEW b \in Blocks,
         Room(kind, ptr, space, b), Place(kind, ptr, space)
  PROVE  LET x == [addr |-> AlignUp(ptr, kind.align), kind |-> kind]
         IN /\ x \in Objects
            /\ objects' = Append(objects, x)
            /\ x.addr % kind.align = 0
            /\ Inside(x, b)
            /\ \A i \in 1..Len(objects) : ~Promise!Overlap(x, objects[i])
            /\ current' \in Nat \ {0}
            /\ remaining' \in Nat
            /\ current' = x.addr + kind.size
            /\ current' + remaining' = b.base + b.size
            /\ destructors' = IF kind.trivial THEN destructors
                                ELSE Append(destructors, Len(objects) + 1)
<1> DEFINE x == [addr |-> AlignUp(ptr, kind.align), kind |-> kind]
<1>1. /\ kind.size \in Nat \ {0}
      /\ kind.align \in Nat \ {0}
  BY KindType
<1>2. /\ AlignUp(ptr, kind.align) \in Nat
      /\ ptr <= AlignUp(ptr, kind.align)
      /\ AlignUp(ptr, kind.align) % kind.align = 0
  BY <1>1, AlignUpRange, AlignUpAligned
<1>3. AlignUp(ptr, kind.align) - ptr + kind.size <= space
  BY DEF Room, Fits
<1>4. /\ objects' = Append(objects, x)
      /\ current' = x.addr + kind.size
      /\ remaining' = (space - (x.addr - ptr)) - kind.size
      /\ destructors' = IF kind.trivial THEN destructors
                          ELSE Append(destructors, Len(objects) + 1)
  BY DEF Place, Room
<1>5. x \in Objects
  BY <1>2 DEF Objects
<1>6. /\ b.base \in Nat
      /\ b.size \in Nat
      /\ b.base <= ptr
      /\ ptr + space = b.base + b.size
  BY DEF Room, Blocks
<1>7. Inside(x, b)
  BY <1>1, <1>2, <1>3, <1>6 DEF Inside
<1>8. ASSUME NEW i \in 1..Len(objects)
      PROVE  ~Promise!Overlap(x, objects[i])
  <2>1. /\ objects[i].addr \in Nat
        /\ objects[i].kind.size \in Nat \ {0}
    BY ObjectType
  <2>2. \/ objects[i].addr + objects[i].kind.size <= ptr
        \/ ptr + space <= objects[i].addr
    BY DEF Room
  <2>3. QED
    BY <1>1, <1>2, <1>3, <2>1, <2>2 DEF Promise!Overlap
<1>9. /\ current' \in Nat \ {0}
      /\ remaining' \in Nat
      /\ current' + remaining' = b.base + b.size
  <2> DEFINE addr == AlignUp(ptr, kind.align)
  <2>1. /\ current' = addr + kind.size
        /\ remaining' = (space - (addr - ptr)) - kind.size
    BY <1>4
  <2>2. addr \in Nat /\ ptr <= addr /\ addr - ptr + kind.size <= space
    BY <1>2, <1>3
  <2> HIDE DEF addr
  <2>3. QED
    BY <1>1, <1>6, <2>1, <2>2
<1>10. QED
  BY <1>2, <1>4, <1>5, <1>7, <1>8, <1>9

\* With such an object the invariant holds again, if the block it lies in is
\* the newest.
LEMMA PlaceKeepsInv ==
  ASSUME Inv, NEW kind \in Kinds,
         NEW ptr \in Nat \ {0}, NEW space \in Nat, NEW b \in Blocks,
         Room(kind, ptr, space, b), Place(kind, ptr, space),
         UNCHANGED phase,
         blocks' \in Seq(Blocks), BlocksOK', blocks' # <<>>, Last(blocks') = b,
         \A i \in 1..Len(blocks) :
           \E j \in 1..Len(blocks') : blocks'[j] = blocks[i],
         b.base <= ptr,
         \A i \in 1..Len(objects) :
            \/ objects[i].addr + objects[i].kind.size <= ptr
            \/ ptr + space <= objects[i].addr
  PROVE  Inv'
<1> DEFINE x == [addr |-> AlignUp(ptr, kind.align), kind |-> kind]
           n == Len(objects)
<1> USE DEF Inv
<1>1. /\ x \in Objects
      /\ objects' = Append(objects, x)
      /\ x.addr % kind.align = 0
      /\ Inside(x, b)
      /\ \A i \in 1..Len(objects) : ~Promise!Overlap(x, objects[i])
      /\ current' \in Nat \ {0}
      /\ remaining' \in Nat
      /\ current' = x.addr + kind.size
      /\ current' + remaining' = b.base + b.size
      /\ destructors' = IF kind.trivial THEN destructors
                          ELSE Append(destructors, Len(objects) + 1)
  BY PlaceInRoom
<1>2. /\ Len(objects) \in Nat
      /\ Len(objects') = Len(objects) + 1
      /\ \A i \in 1..Len(objects) : objects'[i] = objects[i]
      /\ objects'[Len(objects) + 1] = x
  BY <1>1 DEF TypeOK
<1>3. TypeOK'
  <2>1. objects' \in Seq(Objects)
    BY <1>1 DEF TypeOK
  <2>2. destructors' \in Seq(Nat)
    BY <1>1, <1>2 DEF TypeOK
  <2>3. QED
    BY <1>1, <2>1, <2>2 DEF TypeOK
<1>4. NullOK'
  BY DEF NullOK
<1>5. SpaceIsFree'
  <2>1. /\ b.base \in Nat /\ b.size \in Nat
        /\ ptr + space = b.base + b.size
    BY DEF Room, Blocks
  <2>2. ptr <= x.addr /\ kind.size \in Nat
    BY KindType, AlignUpRange
  <2>3. b.base <= current' /\ ptr <= current'
    BY <1>1, <2>1, <2>2 DEF Objects
  <2>4. ASSUME NEW i \in 1..Len(objects')
        PROVE  \/ objects'[i].addr + objects'[i].kind.size <= current'
               \/ current' + remaining' <= objects'[i].addr
    <3>1. CASE i = Len(objects) + 1
      BY <1>1, <1>2, <3>1
    <3>2. CASE i \in 1..Len(objects)
      <4>1. /\ objects'[i] = objects[i]
            /\ objects[i].addr \in Nat
            /\ objects[i].kind.size \in Nat
        BY <1>2, <3>2, ObjectType
      <4>2. \/ objects[i].addr + objects[i].kind.size <= ptr
            \/ ptr + space <= objects[i].addr
        BY <3>2
      <4>3. /\ current' + remaining' = ptr + space
            /\ current' \in Nat
        BY <1>1, <2>1
      <4>4. QED
        BY <2>3, <4>1, <4>2, <4>3
    <3>3. QED
      BY <1>2, <3>1, <3>2
  <2>5. QED
    BY <1>1, <2>3, <2>4 DEF SpaceIsFree, Last
<1>6. ObjectsInBlocks'
  <2>1. b = blocks'[Len(blocks')] /\ Len(blocks') \in 1..Len(blocks')
    BY DEF Last
  <2>2. ASSUME NEW i \in 1..Len(objects')
        PROVE  \E j \in 1..Len(blocks') : Inside(objects'[i], blocks'[j])
    <3>1. CASE i = Len(objects) + 1
      BY <1>1, <1>2, <2>1, <3>1
    <3>2. CASE i \in 1..Len(objects)
      <4>1. PICK j \in 1..Len(blocks) : Inside(objects[i], blocks[j])
        BY <3>2 DEF ObjectsInBlocks
      <4>2. PICK k \in 1..Len(blocks') : blocks'[k] = blocks[j]
        OBVIOUS
      <4>3. QED
        BY <1>2, <3>2, <4>1, <4>2
    <3>3. QED
      BY <1>2, <3>1, <3>2
  <2>3. \A i \in 1..Len(destructors') : destructors'[i] \in 1..Len(objects')
    <3>1. \A i \in 1..Len(destructors) : destructors[i] \in 1..Len(objects')
      BY <1>2 DEF ObjectsInBlocks
    <3>2. QED
      BY <1>1, <1>2, <3>1 DEF TypeOK
  <2>4. QED
    BY <2>2, <2>3 DEF ObjectsInBlocks
<1>7. ObjectsOK'
  <2>1. ASSUME NEW i \in 1..Len(objects')
        PROVE  objects'[i].addr % objects'[i].kind.align = 0
    BY <1>1, <1>2 DEF ObjectsOK
  <2>2. \A y, z : Promise!Overlap(y, z) <=> Promise!Overlap(z, y)
    BY DEF Promise!Overlap
  <2>3. ASSUME NEW i \in 1..Len(objects'), NEW j \in 1..Len(objects'), i # j
        PROVE  ~Promise!Overlap(objects'[i], objects'[j])
    <3>1. CASE i \in 1..Len(objects) /\ j \in 1..Len(objects)
      BY <1>2, <2>3, <3>1 DEF ObjectsOK
    <3>2. CASE i = Len(objects) + 1
      BY <1>1, <1>2, <2>3, <3>2
    <3>3. CASE j = Len(objects) + 1
      BY <1>1, <1>2, <2>2, <2>3, <3>3
    <3>4. \A k \in 1..Len(objects') : k \in 1..Len(objects) \/ k = Len(objects) + 1
      BY <1>2
    <3>5. QED
      BY <3>1, <3>2, <3>3, <3>4
  <2>4. QED
    BY <2>1, <2>3 DEF ObjectsOK
<1>8. QED
  BY <1>3, <1>4, <1>5, <1>6, <1>7

-----------------------------------------------------------------------------
(* The steps                                                               *)

\* An object in the space left of the current block.
LEMMA ConstructHerePlaces ==
  ASSUME Inv, NEW kind \in Kinds, ConstructHere(kind)
  PROVE  LET b == Last(blocks)
         IN /\ b \in Blocks
            /\ blocks # <<>>
            /\ Room(kind, current, remaining, b)
            /\ Place(kind, current, remaining)
            /\ b.base..(b.base + b.size - 1) \subseteq Memory
<1>1. blocks # <<>>
  BY DEF Inv, NullOK, ConstructHere
<1>2. /\ Last(blocks) \in Blocks
      /\ Last(blocks).base..(Last(blocks).base + Last(blocks).size - 1)
           \subseteq Memory
  BY <1>1 DEF Inv, TypeOK, BlocksOK, Last
<1>3. QED
  BY <1>1, <1>2 DEF Inv, SpaceIsFree, Room, ConstructHere

LEMMA ConstructHereInv ==
  ASSUME Inv, NEW kind \in Kinds, ConstructHere(kind), UNCHANGED phase
  PROVE  Inv'
<1>1. /\ Last(blocks) \in Blocks
      /\ blocks # <<>>
      /\ Room(kind, current, remaining, Last(blocks))
      /\ Place(kind, current, remaining)
  BY ConstructHerePlaces
<1>2. /\ current \in Nat \ {0}
      /\ remaining \in Nat
      /\ blocks \in Seq(Blocks)
      /\ blocks' = blocks
  BY DEF Inv, TypeOK, ConstructHere
<1>3. BlocksOK'
  BY <1>2 DEF Inv, BlocksOK
<1>4. Last(blocks') = Last(blocks)
  BY <1>2
<1>5. /\ Last(blocks).base <= current
      /\ \A i \in 1..Len(objects) :
           \/ objects[i].addr + objects[i].kind.size <= current
           \/ current + remaining <= objects[i].addr
  BY <1>1 DEF Room
<1>6. QED
  BY <1>1, <1>2, <1>3, <1>4, <1>5, PlaceKeepsInv

\* An object in a new block.
LEMMA ConstructInNewBlockPlaces ==
  ASSUME Inv, NEW kind \in Kinds, ConstructInNewBlock(kind)
  PROVE  \E b \in Blocks :
           /\ Room(kind, b.base, b.size, b)
           /\ Place(kind, b.base, b.size)
           /\ b.base..(b.base + b.size - 1) \subseteq Memory
           /\ \A i \in 1..Len(blocks) : Disjoint(b, blocks[i])
           /\ blocks' = Append(blocks, b)
<1> DEFINE size == addBlock(kind)
<1>1. PICK base \in Heap(size) :
        /\ blocks' = Append(blocks, [base |-> base, size |-> size])
        /\ Place(kind, base, size)
  BY DEF ConstructInNewBlock
<1> DEFINE b == [base |-> base, size |-> size]
<1>2. /\ kind.size \in Nat \ {0}
      /\ kind.align \in Nat \ {0}
  BY KindType
<1>3. /\ size \in Nat \ {0}
      /\ kind.size + kind.align <= size
  BY <1>2, BlockSizeAssumption DEF addBlock
<1>4. /\ base \in Nat \ {0}
      /\ base..(base + size - 1) \subseteq Memory
      /\ \A i \in 1..Len(blocks) : Disjoint(b, blocks[i])
  BY MemoryAssumption DEF Heap, Disjoint
<1>5. b \in Blocks
  BY <1>3, <1>4 DEF Blocks
<1>6. Fits(kind, base, size)
  <2>1. /\ AlignUp(base, kind.align) \in Nat
        /\ AlignUp(base, kind.align) < base + kind.align
    BY <1>2, <1>4, AlignUpRange
  <2> HIDE DEF size
  <2>2. QED
    BY <1>2, <1>3, <1>4, <2>1 DEF Fits
<1>7. ASSUME NEW i \in 1..Len(objects)
      PROVE  \/ objects[i].addr + objects[i].kind.size <= base
             \/ base + size <= objects[i].addr
  <2>1. PICK j \in 1..Len(blocks) : Inside(objects[i], blocks[j])
    BY DEF Inv, ObjectsInBlocks
  <2>2. \/ base + size <= blocks[j].base
        \/ blocks[j].base + blocks[j].size <= base
    BY <1>4 DEF Disjoint
  <2>3. /\ blocks[j].base \in Nat
        /\ blocks[j].size \in Nat
        /\ objects[i].addr \in Nat
        /\ objects[i].kind.size \in Nat
    BY ObjectType, BlockType DEF Inv
  <2>4. /\ blocks[j].base <= objects[i].addr
        /\ objects[i].addr + objects[i].kind.size <= blocks[j].base + blocks[j].size
    BY <2>1 DEF Inside
  <2> HIDE DEF size
  <2>5. QED
    BY <1>3, <1>4, <2>2, <2>3, <2>4, InsideApart
<1>8. Room(kind, b.base, b.size, b)
  BY <1>3, <1>4, <1>6, <1>7 DEF Room
<1>9. QED
  BY <1>1, <1>4, <1>5, <1>8

LEMMA ConstructInNewBlockInv ==
  ASSUME Inv, NEW kind \in Kinds, ConstructInNewBlock(kind), UNCHANGED phase
  PROVE  Inv'
<1>1. PICK b \in Blocks :
        /\ Room(kind, b.base, b.size, b)
        /\ Place(kind, b.base, b.size)
        /\ b.base..(b.base + b.size - 1) \subseteq Memory
        /\ \A i \in 1..Len(blocks) : Disjoint(b, blocks[i])
        /\ blocks' = Append(blocks, b)
  BY ConstructInNewBlockPlaces
<1>2. /\ b.base \in Nat \ {0}
      /\ b.size \in Nat
  BY DEF Blocks
<1>3. /\ blocks' \in Seq(Blocks)
      /\ blocks' # <<>>
      /\ Len(blocks) \in Nat
      /\ Len(blocks') = Len(blocks) + 1
      /\ \A i \in 1..Len(blocks) : blocks'[i] = blocks[i]
      /\ blocks'[Len(blocks) + 1] = b
  BY <1>1 DEF Inv, TypeOK
<1>4. Last(blocks') = b
  BY <1>3 DEF Last
<1>5. BlocksOK'
  <2>1. ASSUME NEW i \in 1..Len(blocks')
        PROVE  blocks'[i].base..(blocks'[i].base + blocks'[i].size - 1)
                 \subseteq Memory
    BY <1>1, <1>3 DEF Inv, BlocksOK
  <2>2. ASSUME NEW i \in 1..Len(blocks'), NEW j \in 1..Len(blocks'), i # j
        PROVE  Disjoint(blocks'[i], blocks'[j])
    <3>1. CASE i \in 1..Len(blocks) /\ j \in 1..Len(blocks)
      BY <1>3, <2>2, <3>1 DEF Inv, BlocksOK
    <3>2. CASE i = Len(blocks) + 1
      BY <1>1, <1>3, <2>2, <3>2
    <3>3. CASE j = Len(blocks) + 1
      BY <1>1, <1>3, <2>2, <3>3 DEF Disjoint
    <3>4. QED
      BY <1>3, <3>1, <3>2, <3>3
  <2>3. QED
    BY <2>1, <2>2 DEF BlocksOK, Disjoint
<1>6. \A i \in 1..Len(blocks) :
        \E j \in 1..Len(blocks') : blocks'[j] = blocks[i]
  BY <1>3
<1>7. /\ b.base <= b.base
      /\ \A i \in 1..Len(objects) :
           \/ objects[i].addr + objects[i].kind.size <= b.base
           \/ b.base + b.size <= objects[i].addr
  BY <1>1, <1>2 DEF Room
<1>8. QED
  BY <1>1, <1>2, <1>3, <1>4, <1>5, <1>6, <1>7, PlaceKeepsInv

\* The parts of the invariant that ~Arena() disturbs.
LEMMA DestroyNextInv ==
  ASSUME Inv, DestroyNext
  PROVE  Inv'
<1>1. /\ Len(destructors) \in Nat \ {0}
      /\ Len(destructors') = Len(destructors) - 1
      /\ destructors' \in Seq(Nat)
      /\ \A i \in 1..Len(destructors') : destructors'[i] = destructors[i]
  <2> DEFINE n == Len(destructors) - 1
  <2>1. /\ destructors \in Seq(Nat)
        /\ destructors # <<>>
        /\ destructors' = SubSeq(destructors, 1, n)
    BY DEF Inv, TypeOK, DestroyNext
  <2>2. Len(destructors) \in Nat \ {0} /\ n \in Nat
    BY <2>1
  <2>3. \A i \in 1..n : destructors[i] \in Nat
    BY <2>1, <2>2
  <2> HIDE DEF n
  <2>4. /\ SubSeq(destructors, 1, n) \in Seq(Nat)
        /\ Len(SubSeq(destructors, 1, n)) = IF 1 <= n THEN n - 1 + 1 ELSE 0
        /\ \A i \in 1..(n - 1 + 1) :
             SubSeq(destructors, 1, n)[i] = destructors[1 + i - 1]
    BY <2>2, <2>3, SubSeqProperties
  <2>5. n = Len(destructors) - 1
    BY DEF n
  <2>6. Len(destructors') = n
    BY <2>1, <2>2, <2>4
  <2>7. \A i \in 1..n : destructors'[i] = destructors[i]
    BY <2>1, <2>2, <2>4
  <2>8. QED
    BY <2>1, <2>2, <2>4, <2>5, <2>6, <2>7
<1>2. TypeOK'
  BY <1>1 DEF Inv, TypeOK, DestroyNext
<1>3. ObjectsInBlocks'
  BY <1>1 DEF Inv, ObjectsInBlocks, DestroyNext
<1>4. QED
  BY <1>2, <1>3 DEF Inv, BlocksOK, NullOK, SpaceIsFree, ObjectsOK, DestroyNext

LEMMA FreeBlocksInv ==
  ASSUME Inv, FreeBlocks
  PROVE  Inv'
<1>1. /\ Len(<<>>) = 0
      /\ 1..0 = {}
  OBVIOUS
<1>2. TypeOK'
  BY DEF Inv, TypeOK, FreeBlocks
<1>3. QED
  BY <1>1, <1>2
     DEF Inv, BlocksOK, NullOK, SpaceIsFree, ObjectsOK, ObjectsInBlocks, FreeBlocks

\* The arena's members keep their types, blocks and objects stay apart, every
\* object is inside a block that is still owned, and the free space is free.
THEOREM ArenaInvariance == Spec => []Inv
<1>1. Init => Inv
  <2>1. /\ Len(<<>>) = 0
        /\ 1..0 = {}
    OBVIOUS
  <2>2. QED
    BY <2>1 DEF Init, Inv, TypeOK, BlocksOK, NullOK, SpaceIsFree, ObjectsOK,
                ObjectsInBlocks
<1>2. Inv /\ [Next]_vars => Inv'
  <2> SUFFICES ASSUME Inv, [Next]_vars PROVE Inv'
    OBVIOUS
  <2>1. ASSUME NEW kind \in Kinds, construct(kind) PROVE Inv'
    BY <2>1, ConstructHereInv, ConstructInNewBlockInv DEF construct
  <2>2. CASE DestroyNext
    BY <2>2, DestroyNextInv
  <2>3. CASE FreeBlocks
    BY <2>3, FreeBlocksInv
  <2>4. CASE UNCHANGED vars
    BY <2>4 DEF vars, Inv, TypeOK, BlocksOK, NullOK, SpaceIsFree, ObjectsOK,
                ObjectsInBlocks
  <2>5. QED
    BY <2>1, <2>2, <2>3, <2>4 DEF Next
<1>3. QED
  BY <1>1, <1>2, PTL DEF Spec

\* No size ever wraps, for any memory and any object types.
THEOREM ArenaTypeCorrect == Spec => []TypeOK
<1>1. Inv => TypeOK
  BY DEF Inv
<1>2. QED
  BY <1>1, ArenaInvariance, PTL

\* Every object lies inside a block the arena still owns.
THEOREM StorageStays == Spec => []ObjectsInBlocks
<1>1. Inv => ObjectsInBlocks
  BY DEF Inv
<1>2. QED
  BY <1>1, ArenaInvariance, PTL

\* No object lies in the space that is still to be given out.
THEOREM SpaceStaysFree == Spec => []SpaceIsFree
<1>1. Inv => SpaceIsFree
  BY DEF Inv
<1>2. QED
  BY <1>1, ArenaInvariance, PTL
-----------------------------------------------------------------------------
(* The refinement                                                          *)

\* construct() is the allocator's Allocate.
LEMMA ConstructAllocates ==
  ASSUME Inv, NEW kind \in Kinds, construct(kind)
  PROVE  Promise!Allocate
<1> DEFINE Granted(x, b) ==
      /\ b \in Blocks
      /\ b.base..(b.base + b.size - 1) \subseteq Memory
      /\ x \in Objects
      /\ x.kind = kind
      /\ x.addr % kind.align = 0
      /\ Inside(x, b)
      /\ \A i \in 1..Len(objects) : ~Promise!Overlap(x, objects[i])
      /\ objects' = Append(objects, x)
      /\ destructors' = IF kind.trivial THEN destructors
                          ELSE Append(destructors, Len(objects) + 1)
<1>1. \E x, b : Granted(x, b)
  <2>1. CASE ConstructHere(kind)
    <3> DEFINE b == Last(blocks)
               x == [addr |-> AlignUp(current, kind.align), kind |-> kind]
    <3>1. /\ b \in Blocks
          /\ Room(kind, current, remaining, b)
          /\ Place(kind, current, remaining)
          /\ b.base..(b.base + b.size - 1) \subseteq Memory
      BY <2>1, ConstructHerePlaces
    <3>2. current \in Nat \ {0} /\ remaining \in Nat /\ TypeOK
      BY <2>1 DEF Inv, TypeOK, ConstructHere
    <3>3. Granted(x, b)
      BY <3>1, <3>2, PlaceInRoom
    <3>4. QED
      BY <3>3
  <2>2. CASE ConstructInNewBlock(kind)
    <3>1. PICK b \in Blocks :
            /\ Room(kind, b.base, b.size, b)
            /\ Place(kind, b.base, b.size)
            /\ b.base..(b.base + b.size - 1) \subseteq Memory
      BY <2>2, ConstructInNewBlockPlaces
    <3> DEFINE x == [addr |-> AlignUp(b.base, kind.align), kind |-> kind]
    <3>2. b.base \in Nat \ {0} /\ b.size \in Nat /\ TypeOK
      BY DEF Inv, Blocks
    <3>3. Granted(x, b)
      BY <3>1, <3>2, PlaceInRoom
    <3>4. QED
      BY <3>3
  <2>3. QED
    BY <2>1, <2>2 DEF construct
<1>2. PICK x, b : Granted(x, b)
  BY <1>1
<1>3. /\ kind.size \in Nat \ {0}
      /\ x.addr \in Nat
      /\ x = [addr |-> x.addr, kind |-> kind]
      /\ b.base \in Nat
      /\ b.size \in Nat
  BY <1>2, KindType DEF Objects, Blocks
<1>4. x.addr..(x.addr + kind.size - 1) \subseteq b.base..(b.base + b.size - 1)
  BY <1>2, <1>3 DEF Inside
<1>5. /\ x.addr..(x.addr + kind.size - 1) \subseteq Memory
      /\ x.addr \in Memory
  BY <1>2, <1>3, <1>4
<1>6. Promise!Aligned(x.addr, kind)
  BY <1>2 DEF Promise!Aligned
<1>7. phase = "alive" /\ UNCHANGED phase
  BY DEF construct
<1>8. QED
  BY <1>2, <1>3, <1>5, <1>6, <1>7 DEF Promise!Allocate

\* The arena implements the allocator its comment promises: aligned storage
\* that is shared with no other node and stays until every destructor ran
\* once, the youngest first.
THEOREM ArenaImplementsAllocator == Spec => ImplementsAllocator
<1>1. Init => Promise!Init
  BY DEF Init, Promise!Init
<1>2. Inv /\ [Next]_vars =>
        [Promise!Allocate \/ Promise!Destroy \/ Promise!Release]_(Promise!vars)
  <2> SUFFICES ASSUME Inv, [Next]_vars
               PROVE  [Promise!Allocate \/ Promise!Destroy \/ Promise!Release]_(Promise!vars)
    OBVIOUS
  <2>1. ASSUME NEW kind \in Kinds, construct(kind) PROVE Promise!Allocate
    BY <2>1, ConstructAllocates
  <2>2. CASE DestroyNext
    BY <2>2 DEF DestroyNext, Promise!Destroy
  <2>3. CASE FreeBlocks
    BY <2>3 DEF FreeBlocks, Promise!Release
  <2>4. CASE UNCHANGED vars
    BY <2>4 DEF vars, Promise!vars
  <2>5. QED
    BY <2>1, <2>2, <2>3, <2>4 DEF Next
<1>3. QED
  BY <1>1, <1>2, ArenaInvariance, PTL DEF Spec, ImplementsAllocator, Promise!Spec
=============================================================================
