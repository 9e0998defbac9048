---------------------------- MODULE MCX86CallArgs -----------------------------
(* x86-64 as it is: seven temporaries, six argument registers; one i64 variable. *)
EXTENDS X86CallArgs

MCVarSize == [v \in Vars |-> 8]
MCVarAlign == [v \in Vars |-> 8]
===============================================================================
