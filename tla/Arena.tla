------------------------------- MODULE Arena -------------------------------
(***************************************************************************)
(* Parser/AST/Arena.h: the bump allocator that owns the AST.  Addresses    *)
(* are natural numbers.  An object type is known by its size, its          *)
(* alignment and whether its destructor is trivial.  The heap may place a  *)
(* block anywhere that no other block is, whatever its alignment.          *)
(*                                                                         *)
(* std::size_t cannot wrap: the arena subtracts a size only from a space   *)
(* that std::align found to hold it (TypeOK says so), and it adds only     *)
(* sizes and alignments of C++ types.                                      *)
(***************************************************************************)
EXTENDS Integers, Sequences

CONSTANTS
    Memory,     \* the addresses the heap may give out
    BlockSize,  \* Arena::BlockSize, the size of an ordinary block
    Kinds,      \* the types of the objects, [size, align, trivial]
    MaxObjects  \* a bound on how many objects are constructed

nullptr == 0

ASSUME MemoryAssumption == Memory \subseteq Nat \ {nullptr}
ASSUME BlockSizeAssumption == BlockSize \in Nat \ {0}
ASSUME KindsAssumption ==
    Kinds \subseteq [size : Nat \ {0}, align : Nat \ {0}, trivial : BOOLEAN]
ASSUME MaxObjectsAssumption == MaxObjects \in Nat

VARIABLES
    blocks,         \* Arena::blocks, the memory owned, newest last
    current,        \* Arena::current, where the next object may start
    remaining,      \* Arena::remaining, the bytes left from there
    destructors,    \* Arena::destructors, as positions in objects
    phase,          \* "alive" until ~Arena() begins, "gone" after it
    objects         \* history: the objects constructed, oldest first

vars == <<blocks, current, remaining, destructors, phase, objects>>

Last(s) == s[Len(s)]

Objects == [addr : Nat, kind : Kinds]
Blocks == [base : Nat \ {nullptr}, size : Nat \ {0}]
-----------------------------------------------------------------------------
(* construct                                                               *)

\* The smallest multiple of align that is not below ptr.
AlignUp(ptr, align) == ptr + ((align - (ptr % align)) % align)

\* std::align fails, and changes nothing, if there is not enough space.
Fits(kind, ptr, space) == AlignUp(ptr, kind.align) - ptr + kind.size <= space

\* Mutant: the space taken is computed from the space before std::align.
PlaceForgetsPadding(kind, ptr, space) ==
    LET addr == IF Fits(kind, ptr, space) THEN AlignUp(ptr, kind.align) ELSE ptr
    IN /\ objects' = Append(objects, [addr |-> addr, kind |-> kind])
       /\ current' = addr + kind.size
       /\ remaining' = space - kind.size
       /\ destructors' = IF kind.trivial THEN destructors
                                         ELSE Append(destructors, Len(objects) + 1)

\* construct() at the first aligned address of the space from ptr on.  Where
\* that does not fit, std::align would leave ptr as it is.
Place(kind, ptr, space) ==
    LET addr == IF Fits(kind, ptr, space) THEN AlignUp(ptr, kind.align) ELSE ptr
    IN /\ objects' = Append(objects, [addr |-> addr, kind |-> kind])
       /\ current' = addr + kind.size
       /\ remaining' = (space - (addr - ptr)) - kind.size
       /\ destructors' = IF kind.trivial THEN destructors
                                         ELSE Append(destructors, Len(objects) + 1)

\* The current block has room.
ConstructHere(kind) ==
    /\ current # nullptr
    /\ Fits(kind, current, remaining)
    /\ Place(kind, current, remaining)
    /\ UNCHANGED blocks

\* Mutant: every block has the ordinary size.
addBlockOrdinary(kind) == BlockSize

\* Mutant: the smaller of the two sizes.
addBlockSmaller(kind) ==
    LET aMinSize == kind.size + kind.align
    IN IF aMinSize < BlockSize THEN aMinSize ELSE BlockSize

\* Mutant: only sizeof(T) is asked for.
addBlockUnpadded(kind) == IF kind.size > BlockSize THEN kind.size ELSE BlockSize

\* addBlock(sizeof(T) + alignof(T)): its size.
addBlock(kind) ==
    LET aMinSize == kind.size + kind.align
    IN IF aMinSize > BlockSize THEN aMinSize ELSE BlockSize

\* operator new[]: any place apart from the other blocks.  If there is none
\* it throws and nothing more is constructed.
Heap(size) ==
    {base \in Memory :
        /\ base..(base + size - 1) \subseteq Memory
        /\ \A i \in 1..Len(blocks) : \/ base + size <= blocks[i].base
                                        \/ blocks[i].base + blocks[i].size <= base}

\* There is no block yet or not enough space: what is left of the current
\* block is given up.  The result of the second std::align is not looked at.
ConstructInNewBlock(kind) ==
    /\ current = nullptr \/ ~Fits(kind, current, remaining)
    /\ LET size == addBlock(kind)
       IN \E base \in Heap(size) :
            /\ blocks' = Append(blocks, [base |-> base, size |-> size])
            /\ Place(kind, base, size)

construct(kind) ==
    /\ phase = "alive"
    /\ Len(objects) < MaxObjects
    /\ ConstructHere(kind) \/ ConstructInNewBlock(kind)
    /\ UNCHANGED phase
-----------------------------------------------------------------------------
(* ~Arena                                                                  *)

\* One turn of the loop from rbegin() to rend().
DestroyNext ==
    /\ phase # "gone"
    /\ destructors # <<>>
    /\ destructors' = SubSeq(destructors, 1, Len(destructors) - 1)
    /\ phase' = "destroying"
    /\ UNCHANGED <<blocks, current, remaining, objects>>

\* After the loop the members are destroyed, the blocks with them.
FreeBlocks ==
    /\ phase # "gone"
    /\ destructors = <<>>
    /\ blocks' = <<>>
    /\ objects' = <<>>
    /\ current' = nullptr
    /\ remaining' = 0
    /\ phase' = "gone"
    /\ UNCHANGED destructors
-----------------------------------------------------------------------------
Init ==
    /\ blocks = <<>>
    /\ current = nullptr
    /\ remaining = 0
    /\ destructors = <<>>
    /\ phase = "alive"
    /\ objects = <<>>

Next == (\E kind \in Kinds : construct(kind)) \/ DestroyNext \/ FreeBlocks

Spec == Init /\ [][Next]_vars
-----------------------------------------------------------------------------
(* Properties                                                              *)

\* Every member holds a value of its C++ type; `remaining` has not wrapped.
TypeOK ==
    /\ blocks \in Seq(Blocks)
    /\ current \in Nat
    /\ remaining \in Nat
    /\ destructors \in Seq(Nat)
    /\ phase \in {"alive", "destroying", "gone"}
    /\ objects \in Seq(Objects)

Inside(object, block) ==
    /\ block.base <= object.addr
    /\ object.addr + object.kind.size <= block.base + block.size

\* Every object lies inside one block that the arena still owns, so that its
\* destructor finds it there.
ObjectsInBlocks ==
    /\ \A i \in 1..Len(objects) :
         \E j \in 1..Len(blocks) : Inside(objects[i], blocks[j])
    /\ \A i \in 1..Len(destructors) : destructors[i] \in 1..Len(objects)

\* The space construct() will try next ends with the newest block and holds
\* no object.
SpaceIsFree ==
    blocks # <<>> =>
        /\ Last(blocks).base <= current
        /\ current + remaining = Last(blocks).base + Last(blocks).size
        /\ \A i \in 1..Len(objects) :
             \/ objects[i].addr + objects[i].kind.size <= current
             \/ current + remaining <= objects[i].addr

\* The arena is an allocator as its comment promises: no two nodes share
\* storage, each is aligned, and destructors run once, youngest first.
Promise == INSTANCE Allocator WITH pending <- destructors
ImplementsAllocator == Promise!Spec
=============================================================================
