----------------------------- MODULE X86CallArgs ------------------------------
(***************************************************************************)
(* How the x86-64 code generator passes the arguments of one call.  While  *)
(* a CallContext is open, every emitted instruction goes to its            *)
(* arg_instrs (emit), which handle_lcall writes out in order just before   *)
(* the call: an argument register is loaded at the end of the list, a      *)
(* stack argument is inserted at index current_args_passed.                *)
(* m_ctx holds the machine as it is before arg_instrs run.                 *)
(***************************************************************************)
EXTENDS X86Codegen, SequencesExt

CONSTANT MaxArgs        \* bound: arguments of the call

VARIABLES
  arg_instrs,     \* CallContext::arg_instrs
  passed,         \* the operands pushed so far
  stack_args,     \* what the call finds on the stack, top first
  called          \* the call has been made

call_vars == <<vars, arg_instrs, passed, stack_args, called>>

\* The instructions that can be in arg_instrs.
Spill(reg, slot) == [instr |-> "spill", reg |-> reg, slot |-> slot]
Load(reg, slot) == [instr |-> "load", reg |-> reg, slot |-> slot]
ArgMov == [instr |-> "mov_arg"]
PushReg(reg) == [instr |-> "push", reg |-> reg]
PushImm == [instr |-> "push_imm"]

\* What get_phys_reg emits for IR register i: a spill, then a load.
EmittedFor(c, i) ==
  LET reg == c.reg_count
      spill == IF c.phys[reg] # Free THEN <<Spill(reg, c.stack_offset + PTR_SIZE)>> ELSE <<>>
      load == IF c.spilled[i] # NoSlot THEN <<Load(reg, c.spilled[i])>> ELSE <<>>
  IN  IF c.ir[i] # NoReg THEN <<>> ELSE spill \o load
Emitted(c, op) == IF op.kind = "reg" THEN EmittedFor(c, op.id) ELSE <<>>

\* The compile-time effect of resolving op; its instructions have not run yet.
Deferred(c, op) ==
  [operand_to_string(c, op) EXCEPT
     !.val = c.val,
     !.mem = [o \in DOMAIN @ |-> IF o <= c.stack_offset THEN c.mem[o] ELSE Junk]]

\* mov rax, src and push rax, as one instruction.
PushOf(c, op) == IF op.kind = "reg" THEN PushReg(OperandReg(c, op)) ELSE PushImm

\* The machine after one instruction: registers, frame and pushed values.
Exec(i, m) ==
  CASE i.instr = "spill" -> [m EXCEPT !.mem[i.slot] = m.val[i.reg]]
    [] i.instr = "load" -> [m EXCEPT !.val[i.reg] = m.mem[i.slot]]
    [] i.instr = "push" -> [m EXCEPT !.stack = <<m.val[i.reg]>> \o @]
    [] i.instr = "push_imm" -> [m EXCEPT !.stack = <<Label>> \o @]
    [] OTHER -> m

-------------------------------------------------------------------------------
\* Argument values of the call, some of them before another call is made.
Compute ==
  /\ ~called /\ args = NoCall
  /\ \/ NEG
     \/ CanCompute /\ Computes(lcall_result(handle_lcall(ctx, LabelOp), next_reg))
  /\ UNCHANGED <<arg_instrs, passed, stack_args, called>>

Begin ==
  /\ ~called /\ args = NoCall
  /\ args' = 0
  /\ UNCHANGED <<m_ctx, next_reg, computed, frame, arg_instrs, passed, stack_args, called>>

\* handle_push_arg; current_args_passed (args) counts register arguments only.
PushArg ==
  /\ args # NoCall /\ Len(passed) < MaxArgs
  /\ \E op \in RegOps \cup {ImmOp} :
       LET emitted == arg_instrs \o Emitted(ctx, op)
       IN  /\ m_ctx' = Deferred(ctx, op)
           /\ passed' = Append(passed, op)
           /\ IF args < ArgRegs
              THEN args' = args + 1 /\ arg_instrs' = Append(emitted, ArgMov)
              ELSE /\ args' = args
                   /\ arg_instrs' = InsertAt(emitted, args + 1, PushOf(ctx, op))
  /\ UNCHANGED <<next_reg, computed, frame, stack_args, called>>

\* handle_lcall up to the call instruction.
Call ==
  /\ args # NoCall
  /\ stack_args' = FoldLeft(LAMBDA m, i : Exec(i, m),
                            [val |-> m_ctx.val, mem |-> m_ctx.mem, stack |-> <<>>],
                            arg_instrs).stack
  /\ called' = TRUE /\ args' = NoCall
  /\ UNCHANGED <<m_ctx, next_reg, computed, frame, arg_instrs, passed>>

CallInit ==
  Init /\ arg_instrs = <<>> /\ passed = <<>> /\ stack_args = <<>> /\ called = FALSE
CallSpec == CallInit /\ [][Compute \/ Begin \/ PushArg \/ Call]_call_vars

-------------------------------------------------------------------------------
\* docs/architecture.md: "Subsequent arguments are pushed onto the stack in
\* reverse order."  The callee finds the arguments beyond the argument registers
\* on the stack, the first of them on top.
StackArgsPassed ==
  called => stack_args = [k \in 1 .. Len(stack_args) |-> Expected(passed[ArgRegs + k])]
===============================================================================
