------------------------------ MODULE MCX86Switch -----------------------------
(* The seven temporaries of x86-64 (r10, r11 caller-saved) and one i64 variable. *)
EXTENDS X86Switch

MCVarSize == [v \in Vars |-> 8]
MCVarAlign == [v \in Vars |-> 8]
===============================================================================
