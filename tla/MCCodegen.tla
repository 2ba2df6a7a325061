----------------------------- MODULE MCCodegen -----------------------------
(***************************************************************************)
(* Instances of Codegen for TLC: all forms, or those that a refuted        *)
(* sentence is about.                                                      *)
(***************************************************************************)
EXTENDS Codegen

ControlForms == NodeForms \ {"UnaryNode", "FuncallNode"}
AnyForm == NodeForms \cup OddForms
=============================================================================
