----------------------------- MODULE Allocator -----------------------------
(***************************************************************************)
(* What the parser and the code generator rely on when they ask for AST    *)
(* nodes (the comment of class Arena, Parser/AST/Arena.h): storage that is *)
(* aligned for the object and shared with no other object, that stays      *)
(* until the allocator goes away, and one run of each destructor that has  *)
(* something to do, the youngest object first, while all storage is there. *)
(***************************************************************************)
EXTENDS Integers, Sequences

CONSTANTS
    Memory,     \* the addresses that can be handed out
    Kinds       \* the object types: their size, alignment and destructor

VARIABLES
    objects,    \* the storage handed out, in order: address and kind
    pending,    \* the objects whose destructor is still to run, oldest first
    phase       \* "alive", "destroying" or "gone"

Aligned(addr, kind) == addr % kind.align = 0

\* Two objects share a byte.
Overlap(x, y) ==
    /\ x.addr < y.addr + y.kind.size
    /\ y.addr < x.addr + x.kind.size

Init ==
    /\ objects = <<>>
    /\ pending = <<>>
    /\ phase = "alive"

\* One new object.  An object that is trivially destructible never waits for
\* its destructor.
Allocate ==
    /\ phase = "alive"
    /\ \E kind \in Kinds, addr \in Memory :
         LET object == [addr |-> addr, kind |-> kind]
         IN /\ Aligned(addr, kind)
            /\ addr..(addr + kind.size - 1) \subseteq Memory
            /\ \A i \in 1..Len(objects) : ~Overlap(object, objects[i])
            /\ objects' = Append(objects, object)
            /\ pending' = IF kind.trivial THEN pending
                                          ELSE Append(pending, Len(objects) + 1)
    /\ UNCHANGED phase

Destroy ==
    /\ phase # "gone"
    /\ pending # <<>>
    /\ pending' = SubSeq(pending, 1, Len(pending) - 1)
    /\ phase' = "destroying"
    /\ UNCHANGED objects

Release ==
    /\ phase # "gone"
    /\ pending = <<>>
    /\ objects' = <<>>
    /\ phase' = "gone"
    /\ UNCHANGED pending

vars == <<objects, pending, phase>>

Spec == Init /\ [][Allocate \/ Destroy \/ Release]_vars
=============================================================================
