------------------------------- MODULE ScopeStack -----------------------------
(***************************************************************************)
(* Lexical scoping, as the parse functions rely on it: the scopes that are *)
(* open form a stack, outermost first, each a map from names to what they  *)
(* are declared as.                                                        *)
(***************************************************************************)
EXTENDS Integers, Sequences

CONSTANT Predeclared    \* what the outermost scope has to begin with

VARIABLE stack

Init == stack = <<Predeclared>>

Open ==
  /\ Len(stack') = Len(stack) + 1 /\ DOMAIN stack'[Len(stack')] = {}
  /\ \A i \in 1 .. Len(stack) : stack'[i] = stack[i]

Close == Len(stack) > 1 /\ stack' = SubSeq(stack, 1, Len(stack) - 1)

Extends(new, old) == \A n \in DOMAIN old : n \in DOMAIN new /\ new[n] = old[n]
\* Names go into the innermost scope, the one around it, or the outermost one.
Declare ==
  /\ Len(stack') = Len(stack)
  /\ \A i \in 1 .. Len(stack) :
       /\ Extends(stack'[i], stack[i])
       /\ i \notin {1, Len(stack) - 1, Len(stack)} => stack'[i] = stack[i]

Next == Open \/ Close \/ Declare

Spec == Init /\ [][Next]_stack
===============================================================================
