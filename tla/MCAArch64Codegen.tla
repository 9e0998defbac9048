--------------------------- MODULE MCAArch64Codegen ---------------------------
(* AArch64Codegen on a small function: two variables, one of an odd size. *)
EXTENDS AArch64Codegen

MCVarSize == [v \in Vars |-> IF v = 1 THEN 1 ELSE 8]
MCVarAlign == [v \in Vars |-> IF v = 1 THEN 1 ELSE 8]
===============================================================================
