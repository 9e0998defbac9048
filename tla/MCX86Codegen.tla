----------------------------- MODULE MCX86Codegen -----------------------------
(* X86Codegen on a small function: two variables, one of an odd size. *)
EXTENDS X86Codegen

MCVarSize == [v \in Vars |-> IF v = 1 THEN 1 ELSE 8]
MCVarAlign == [v \in Vars |-> IF v = 1 THEN 1 ELSE 8]
===============================================================================
