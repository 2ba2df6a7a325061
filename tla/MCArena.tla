------------------------------ MODULE MCArena ------------------------------
(***************************************************************************)
(* An instance of Arena for TLC: blocks of six bytes, and object types     *)
(* that share one, fill one together, and need one larger than usual.      *)
(***************************************************************************)
EXTENDS Arena

Kind(size, align, trivial) == [size |-> size, align |-> align, trivial |-> trivial]
SomeKinds == {Kind(1, 1, TRUE), Kind(2, 2, FALSE), Kind(4, 4, FALSE), Kind(9, 3, TRUE)}
SomeMemory == 1..28
=============================================================================
