------------------------------ MODULE X86Switch -------------------------------
(***************************************************************************)
(* IrVisitor::visit(SwitchStmtNode) on top of the x86-64 code generator:   *)
(* the switch value is computed once, into an IR register, and the chain   *)
(* of comparisons keeps reading it from there.  The value is an 8-byte sum *)
(* of a variable and a literal and the cases are literals, so that each    *)
(* comparison takes a register for its result and one for the immediate.   *)
(***************************************************************************)
EXTENDS X86Codegen

CONSTANT MaxCases     \* bound: cases of the switch

VARIABLES
  switch_op,          \* the IR register of the switch value, NoReg before it
  cases               \* comparisons generated so far

switch_vars == <<vars, switch_op, cases>>

\* node.expression->accept: ADD of an 8-byte variable and an immediate.
Expression ==
  /\ switch_op = NoReg
  /\ \E v \in Vars :
       Computes(handle_prim_binop(ctx, next_reg, VarOp(v), ImmOp, TRUE, FALSE))
  /\ switch_op' = next_reg /\ cases' = 0

\* One turn of the loop that emits the comparison jumps: CMP_NE, then IF_Z.
CompareCase ==
  /\ switch_op # NoReg /\ cases < MaxCases /\ next_reg \in IRRegs
  /\ LET c1 == handle_cmp(ctx, next_reg, RegOp(switch_op), ImmOp, TRUE)
     IN  Computes(handle_if_z(c1, RegOp(next_reg)))
  /\ cases' = cases + 1 /\ UNCHANGED switch_op

SwitchInit == Init /\ switch_op = NoReg /\ cases = 0
SwitchSpec == SwitchInit /\ [][Expression \/ CompareCase]_switch_vars

-------------------------------------------------------------------------------
\* docs/syntax.md: a switch "Dispatches on the value of an expression".  Every
\* comparison of the chain reads the switch value (handle_cmp).
DispatchesOnValue == m_ctx.misread # "cmp"
===============================================================================
