---------------------------- MODULE X86ShortCircuit ---------------------------
(***************************************************************************)
(* The short-circuit `and` of IrVisitor::visit(BinaryOpExprNode) on top of *)
(* the x86-64 code generator.  The generator goes through the right-hand   *)
(* side once; a run of the program goes through it or jumps over it.  The  *)
(* two machines share one allocator state: m_ctx is the run that evaluates *)
(* the right-hand side, skipped the run that jumps.                        *)
(***************************************************************************)
EXTENDS X86Codegen

CONSTANT ScVar        \* the hidden variable .sc_result_

VARIABLES
  phase,      \* "left", "right", "joined": relative to IF_Z and end_label
  live,       \* IR registers computed before the jump, used after the label
  skipped     \* the context of the run that jumps

sc_vars == <<vars, phase, live, skipped>>

\* Operands of the enclosing expression, and the left-hand side.
Left ==
  /\ phase = "left"
  /\ NEG \/ PRIM_BINOP
  /\ UNCHANGED <<phase, live, skipped>>

\* emit_assign(dest_var, 0); emit_if_z(left_op, end_label).  The right-hand side
\* uses none of the registers computed so far.
Jump ==
  /\ phase = "left" /\ next_reg - 1 \in computed
  /\ LET left == RegOp(next_reg - 1) IN
       /\ m_ctx' = handle_if_z(assign_var(ctx, ScVar, ImmOp, FALSE), left)
       /\ live' = computed \ {left.id}
  /\ phase' = "right" /\ skipped' = m_ctx'
  /\ computed' = {} /\ UNCHANGED <<next_reg, args, frame>>

\* Instructions of the right-hand side: only the run that did not jump.
Right ==
  /\ phase = "right"
  /\ NEG \/ PRIM_BINOP \/ BEGIN_LCALL_PREP \/ LCALL
  /\ UNCHANGED <<phase, live, skipped>>

\* emit_assign(dest_var, right_op); emit_label(end_label): from here on both
\* runs execute what is generated for the one allocator state.
Join ==
  /\ phase = "right" /\ Straight
  /\ \E right \in RegOps : m_ctx' = assign_var(ctx, ScVar, right, FALSE)
  /\ skipped' = [m_ctx' EXCEPT
                   !.val = skipped.val,
                   !.mem = [o \in DOMAIN @ |-> IF o \in DOMAIN skipped.mem
                                               THEN skipped.mem[o] ELSE Junk]]
  /\ phase' = "joined" /\ computed' = live
  /\ UNCHANGED <<live, next_reg, args, frame>>

ScInit == Init /\ phase = "left" /\ live = {} /\ skipped = FunctionContext
ScSpec == ScInit /\ [][Left \/ Jump \/ Right \/ Join]_sc_vars

-------------------------------------------------------------------------------
\* docs/architecture.md: the generator "tracks spilled locations and reloads
\* them when needed".  After the label, the location recorded for a register
\* that was computed before the jump holds its value in the run that jumped too.
SpillsTrackedAcrossJump == phase = "joined" => HoldsValues(skipped, live)
===============================================================================
