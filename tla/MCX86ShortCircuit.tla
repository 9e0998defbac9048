-------------------------- MODULE MCX86ShortCircuit ---------------------------
(* The seven temporaries of x86-64 (r10, r11 caller-saved); the one variable is *)
(* the hidden bool.                                                            *)
EXTENDS X86ShortCircuit

MCVarSize == [v \in Vars |-> 1]
MCVarAlign == [v \in Vars |-> 1]
===============================================================================
