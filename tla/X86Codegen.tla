------------------------------ MODULE X86Codegen ------------------------------
(***************************************************************************)
(* The x86-64 code generator (codegen/x86_64/backend.cpp), one function at *)
(* a time: an action is the handler of one IR instruction, and takes the   *)
(* allocator and the machine through every instruction that it emits.      *)
(* The order in which a handler resolves its operands and emits its        *)
(* instructions is the order in the source: resolving an operand may move  *)
(* another one out of its register.                                        *)
(*                                                                         *)
(* The IR comes from IrVisitor: the destination of an instruction is a new *)
(* IR register (new_temp_reg), operands are registers already computed, and*)
(* only SET_HIDDEN_ARG and PUSH_ARG stand between BEGIN_LCALL_PREP and     *)
(* LCALL.  Arguments beyond the argument registers are in X86CallArgs.     *)
(***************************************************************************)
EXTENDS RegAlloc

CONSTANTS
  ArgRegs,    \* number of argument registers (6)
  MaxFrame    \* bound: no instruction is generated once the frame is larger

ASSUME ArgRegsAssumption == ArgRegs \in Nat /\ MaxFrame \in Nat

VARIABLES
  m_ctx,      \* FunctionContext and the machine state (RegAlloc)
  next_reg,   \* IrGenerator::m_next_reg_id, from the start of the function
  computed,   \* IR registers whose value later instructions may use
  args,       \* arguments passed since BEGIN_LCALL_PREP, NoCall outside a call
  frame       \* what handle_end_preamble writes, NoFrame inside a function

vars == <<m_ctx, next_reg, computed, args, frame>>

NoCall == -1
NoFrame == [sub |-> -1, pushed |-> {}]

-------------------------------------------------------------------------------
\* operand_to_string: only IR registers and variables change the context.
operand_to_string(c, op) ==
  CASE op.kind = "reg" -> get_phys_reg(c, op.id)
    [] op.kind = "var" -> var_location(c, op.id)
    [] OTHER -> c

\* The register that the operand string names, if it names one.
OperandReg(c, op) == IF op.kind = "reg" THEN operand_to_string(c, op).ir[op.id] ELSE NoReg

\* resolve_source_operand: labels go through a temporary (lea).
resolve_source_operand(c, op) ==
  IF op.kind = "label" THEN Mov(get_temp_phys_reg(c), c.reg_count, Label)
  ELSE operand_to_string(c, op)
ResolvedReg(c, op) == IF op.kind = "label" THEN c.reg_count ELSE OperandReg(c, op)

\* A temporary that the emitted code loads with something other than a label.
LoadTemp(c) == Mov(get_temp_phys_reg(c), c.reg_count, Junk)

safeguard_64bit_imm(c, op, wide) == IF is_imm(op) /\ wide THEN LoadTemp(c) ELSE c

\* emit_mem_safe_op("cmp"/"mov" to memory): a temporary for mem/mem and imm64.
emit_mem_safe_op(c, dst, src, wide) ==
  IF is_mem(dst) /\ is_mem(src) THEN LoadTemp(c) ELSE safeguard_64bit_imm(c, src, wide)

-------------------------------------------------------------------------------
\* The handlers, as functions of the context.  wide: instr.size = 8.

\* handle_exit, handle_if_z: one operand, no label intercept.
UseComponent(c, op, name) ==
  LET c1 == operand_to_string(c, op) IN Check(c1, name, Reads(c1, OperandReg(c, op), op))
handle_exit(c, op) == UseComponent(c, op, "exit")
handle_if_z(c, op) == IF is_imm(op) THEN c ELSE UseComponent(c, op, "if_z")

handle_return(c, op) ==
  LET c1 == resolve_source_operand(c, op)
  IN  Check(c1, "return", Reads(c1, ResolvedReg(c, op), op))

\* handle_assign to an IR register.
assign_reg(c, dst, src) ==
  LET c1 == get_phys_reg(c, dst)
      c2 == resolve_source_operand(c1, src)
      ok == Reads(c2, ResolvedReg(c1, src), src)
      c3 == get_phys_reg(c2, dst)
  IN  Check(Mov(c3, c3.ir[dst], dst), "assign", ok)

\* handle_assign to a variable.  The branch for src_size < dst_size is taken by
\* no instruction: only a variable has a size of its own, and it is memory.
assign_var(c, v, src, wide) ==
  LET c1 == var_location(c, v)
      c2 == resolve_source_operand(c1, src)
      c3 == emit_mem_safe_op(c2, VarOp(v), src, wide)
  IN  Check(c3, "assign", Reads(c3, ResolvedReg(c1, src), src))

\* handle_prim_binop; small_imul: "imul" on fewer than 8 bytes.
handle_prim_binop(c, dst, a, b, wide, small_imul) ==
  LET c1 == get_phys_reg(c, dst)
      d == c1.ir[dst]
      c2 == operand_to_string(c1, a)
      ok1 == Reads(c2, OperandReg(c1, a), a)
      c3 == Mov(c2, d, dst)
      t == c3.reg_count
      c4 == IF small_imul THEN get_temp_phys_reg(c3) ELSE c3
      c5 == operand_to_string(c4, b)
      rb == OperandReg(c4, b)
      c6 == IF small_imul THEN Mov(c5, t, Junk) ELSE safeguard_64bit_imm(c5, b, wide)
      ok2 == Reads(IF small_imul THEN c5 ELSE c6, rb, b)
  IN  Check(c6, "prim_binop", ok1 /\ ok2 /\ c6.val[d] = dst)

\* Mutant: both operands are resolved before the divisor is copied.
handle_div_resolves_first(c, dst, a, b) ==
  LET t == c.reg_count
      c1 == get_temp_phys_reg(c)
      c2 == operand_to_string(c1, b)
      c3 == operand_to_string(c2, a)
      ok == Reads(c3, OperandReg(c1, b), b) /\ Reads(c3, OperandReg(c2, a), a)
      c4 == get_phys_reg(Mov(c3, t, Junk), dst)
  IN  Check(Mov(c4, c4.ir[dst], dst), "div", ok)

\* handle_div and handle_mod allocate alike.
handle_div(c, dst, a, b) ==
  LET t == c.reg_count
      c1 == get_temp_phys_reg(c)
      c2 == operand_to_string(c1, b)
      ok2 == Reads(c2, OperandReg(c1, b), b)
      c3 == Mov(c2, t, Junk)
      c4 == operand_to_string(c3, a)
      ok1 == Reads(c4, OperandReg(c3, a), a) /\ c4.val[t] = Junk
      c5 == get_phys_reg(c4, dst)
  IN  Check(Mov(c5, c5.ir[dst], dst), "div", ok1 /\ ok2)

\* handle_neg, handle_logical_not.
handle_neg(c, dst, a) ==
  LET c1 == get_phys_reg(c, dst)
      c2 == operand_to_string(c1, a)
  IN  Check(Mov(c2, c1.ir[dst], dst), "neg", Reads(c2, OperandReg(c1, a), a))

handle_shift(c, dst, a, b) ==
  LET c1 == get_phys_reg(c, dst)
      d == c1.ir[dst]
      c2 == operand_to_string(c1, a)
      ok1 == Reads(c2, OperandReg(c1, a), a)
      c3 == Mov(c2, d, dst)
      c4 == operand_to_string(c3, b)
      ok2 == Reads(c4, OperandReg(c3, b), b)
  IN  IF is_imm(b) THEN Check(c3, "shift", ok1)
      ELSE Check(c4, "shift", ok1 /\ ok2 /\ c4.val[d] = dst)

\* Both operands are resolved before either is read.
handle_cmp(c, dst, a, b, wide) ==
  LET c1 == get_phys_reg(c, dst)
      c2 == resolve_source_operand(c1, a)
      c3 == resolve_source_operand(c2, b)
      c4 == emit_mem_safe_op(c3, a, b, wide)
      ok == Reads(c4, ResolvedReg(c1, a), a) /\ Reads(c4, ResolvedReg(c2, b), b)
  IN  Check(Mov(c4, c1.ir[dst], dst), "cmp", ok)

handle_load(c, dst, addr) ==
  LET c1 == get_phys_reg(c, dst)
      c2 == resolve_source_operand(c1, addr)
      r == ResolvedReg(c1, addr)
      c3 == IF is_mem(addr) THEN LoadTemp(c2) ELSE c2
  IN  Check(Mov(c3, c1.ir[dst], dst), "load", Reads(c3, r, addr))

\* The destination address is resolved first and used last.
handle_store(c, addr, src, wide) ==
  LET c1 == resolve_source_operand(c, addr)
      c2 == resolve_source_operand(c1, src)
      c3 == IF is_mem(addr) THEN LoadTemp(c2) ELSE c2
      c4 == IF is_mem(src) THEN LoadTemp(c3) ELSE safeguard_64bit_imm(c3, src, wide)
      ok == Reads(c4, ResolvedReg(c, addr), addr) /\ Reads(c4, ResolvedReg(c1, src), src)
  IN  Check(c4, "store", ok)

handle_addr_of(c, dst, v) ==
  LET c1 == get_phys_reg(c, dst) IN Mov(var_location(c1, v), c1.ir[dst], dst)

\* malloc's result is in rax until the initializer has been stored.  Without an
\* initializer the allocator does what it does for an immediate that is not wide.
handle_alloc(c, dst, init, wide) ==
  LET c1 == get_phys_reg(emit_runtime_call(c), dst)
      c2 == Mov(c1, c1.ir[dst], dst)
      c3 == resolve_source_operand(c2, init)
      c4 == emit_mem_safe_op(c3, MemOp, init, wide)
  IN  Check(c4, "alloc", Reads(c4, ResolvedReg(c2, init), init))

handle_alloc_array(c, dst, count) ==
  LET c1 == operand_to_string(c, count)
      t == c1.reg_count
      c2 == get_temp_phys_reg(c1)
      ok == Reads(c2, OperandReg(c, count), count)
      c3 == emit_runtime_call(Mov(c2, t, Junk))
      c4 == get_phys_reg(c3, dst)
  IN  Check(Mov(c4, c4.ir[dst], dst), "alloc_array", ok)

\* ptr_str still names the register after the call has spilled it.
handle_free(c, op) ==
  LET c1 == operand_to_string(c, op)
      r == OperandReg(c, op)
      c2 == emit_runtime_call(c1)
  IN  Check(IF r = NoReg THEN c2 ELSE Mov(c2, r, Junk), "free", Reads(c1, r, op))

\* handle_mem_copy: both addresses are resolved, then copied to temporaries.
handle_mem_copy(c, dst, src) ==
  LET c1 == operand_to_string(c, dst)
      c2 == operand_to_string(c1, src)
      rd == OperandReg(c, dst)
      rs == OperandReg(c1, src)
      t1 == c2.reg_count
      c3 == get_temp_phys_reg(c2)
      t2 == c3.reg_count
      c4 == get_temp_phys_reg(c3)
      c5 == Mov(c4, t1, IF rs = NoReg THEN Junk ELSE c4.val[rs])
      c6 == Mov(c5, t2, IF rd = NoReg THEN Junk ELSE c5.val[rd])
      ok == /\ Reads(c6, IF rd = NoReg THEN NoReg ELSE t2, dst)
            /\ Reads(c6, IF rs = NoReg THEN NoReg ELSE t1, src)
  IN  Check(emit_runtime_call(c6), "mem_copy", ok)

\* handle_mem_set: the destination register, the value an immediate.
handle_mem_set(c, dst) ==
  LET c1 == operand_to_string(c, dst)
      t1 == c1.reg_count
      c2 == get_temp_phys_reg(c1)
      t2 == c2.reg_count
      c3 == get_temp_phys_reg(c2)
      ok == Reads(c3, OperandReg(c, dst), dst)
  IN  Check(emit_runtime_call(Mov(Mov(c3, t1, Junk), t2, Junk)), "mem_set", ok)

\* handle_push_arg, handle_set_hidden_arg: into the next argument register.
handle_push_arg(c, op) ==
  LET c1 == resolve_source_operand(c, op)
  IN  Check(c1, "push_arg", Reads(c1, ResolvedReg(c, op), op))

\* A callee that is no label is a variable (asserted), named before the saves.
handle_lcall(c, callee) == Clobber(save_caller_saved_regs(operand_to_string(c, callee)))
lcall_result(c, dst) == LET c1 == get_phys_reg(c, dst) IN Mov(c1, c1.ir[dst], dst)

\* get_used_callee_regs and the two placeholders of handle_end_preamble.
get_used_callee_regs(c) == {r \in Reg \ CallerSaved : c.phys[r] # Free}
\* Mutant: a sign slip in the rounding.
get_align_down(s) == ((s - 15) \div 16) * 16
get_align(s) == ((s + 15) \div 16) * 16
\* Mutant: the pushed registers are not taken into account.
end_preamble_ignores_pushes(c) ==
  [sub |-> get_align(c.stack_offset), pushed |-> get_used_callee_regs(c)]

end_preamble(c) ==
  LET used == get_used_callee_regs(c)
      callee_size == Cardinality(used) * 8
  IN  [sub |-> get_align(c.stack_offset + callee_size) - callee_size, pushed |-> used]

-------------------------------------------------------------------------------
RegOps == {RegOp(i) : i \in computed}
VarOps == {VarOp(v) : v \in Vars}
Components == RegOps \cup VarOps \cup {ImmOp}        \* for get_sized_component
Sources == Components \cup {LabelOp}                 \* for resolve_source_operand
Pointers == RegOps \cup VarOps

\* The context with which a handler starts, and the two shapes of its result.
ctx == [m_ctx EXCEPT !.misread = "none"]
Straight == frame = NoFrame /\ args = NoCall /\ m_ctx.stack_offset <= MaxFrame

Uses(c) ==
  /\ m_ctx' = c
  /\ UNCHANGED <<next_reg, computed, args, frame>>
Computes(c) ==
  /\ m_ctx' = c
  /\ computed' = computed \cup {next_reg}
  /\ next_reg' = next_reg + 1
  /\ UNCHANGED <<args, frame>>
CanCompute == Straight /\ next_reg \in IRRegs

EXIT == Straight /\ \E op \in Components : Uses(handle_exit(ctx, op))
IF_Z == Straight /\ \E op \in Components : Uses(handle_if_z(ctx, op))
RETURN == Straight /\ \E op \in Sources : Uses(handle_return(ctx, op))
ASSIGN_REG ==
  CanCompute /\ \E src \in Sources \cup {ParamOp} : Computes(assign_reg(ctx, next_reg, src))
ASSIGN_VAR ==
  /\ Straight
  /\ \E v \in Vars, src \in Sources \cup {ParamOp}, wide \in BOOLEAN :
       Uses(assign_var(ctx, v, src, wide))
PRIM_BINOP ==
  /\ CanCompute
  /\ \E a, b \in Components, wide, imul \in BOOLEAN :
       Computes(handle_prim_binop(ctx, next_reg, a, b, wide, imul /\ ~wide))
DIV == CanCompute /\ \E a, b \in Components : Computes(handle_div(ctx, next_reg, a, b))
NEG == CanCompute /\ \E a \in Components : Computes(handle_neg(ctx, next_reg, a))
SHIFT == CanCompute /\ \E a, b \in Components : Computes(handle_shift(ctx, next_reg, a, b))
CMP ==
  /\ CanCompute
  /\ \E a \in Pointers, b \in Sources, wide \in BOOLEAN :
       Computes(handle_cmp(ctx, next_reg, a, b, wide))
LOAD == CanCompute /\ \E addr \in Pointers : Computes(handle_load(ctx, next_reg, addr))
STORE ==
  /\ Straight
  /\ \E addr \in Pointers, src \in Sources, wide \in BOOLEAN :
       Uses(handle_store(ctx, addr, src, wide))
ADDR_OF == CanCompute /\ \E v \in Vars : Computes(handle_addr_of(ctx, next_reg, v))
ALLOC ==
  /\ CanCompute
  /\ \E init \in Sources, wide \in BOOLEAN : Computes(handle_alloc(ctx, next_reg, init, wide))
ALLOC_ARRAY ==
  CanCompute /\ \E n \in Components : Computes(handle_alloc_array(ctx, next_reg, n))
\* The pointer is the value of a statement's expression: nothing uses it again.
FREE ==
  /\ Straight
  /\ \E op \in Pointers :
       /\ m_ctx' = handle_free(ctx, op)
       /\ computed' = IF op.kind = "reg" THEN computed \ {op.id} ELSE computed
  /\ UNCHANGED <<next_reg, args, frame>>
MEM_COPY == Straight /\ \E dst, src \in RegOps : Uses(handle_mem_copy(ctx, dst, src))
MEM_SET == Straight /\ \E dst \in RegOps : Uses(handle_mem_set(ctx, dst))

BEGIN_LCALL_PREP ==
  Straight /\ args' = 0 /\ UNCHANGED <<m_ctx, next_reg, computed, frame>>
PUSH_ARG ==
  /\ args \in 0 .. ArgRegs - 1
  /\ \E op \in Sources : m_ctx' = handle_push_arg(ctx, op)
  /\ args' = args + 1
  /\ UNCHANGED <<next_reg, computed, frame>>
LCALL ==
  /\ args # NoCall
  /\ \E callee \in VarOps \cup {LabelOp} :
       LET c == handle_lcall(ctx, callee)
       IN  \/ m_ctx' = c /\ UNCHANGED <<next_reg, computed>>
           \/ /\ next_reg \in IRRegs
              /\ m_ctx' = lcall_result(c, next_reg)
              /\ computed' = computed \cup {next_reg}
              /\ next_reg' = next_reg + 1
  /\ args' = NoCall
  /\ UNCHANGED frame

END_FUNC ==
  /\ frame = NoFrame /\ args = NoCall
  /\ frame' = end_preamble(m_ctx)
  /\ UNCHANGED <<m_ctx, next_reg, computed, args>>
BEGIN_FUNC ==
  /\ frame # NoFrame
  /\ m_ctx' = FunctionContext
  /\ next_reg' = 0 /\ computed' = {} /\ args' = NoCall /\ frame' = NoFrame

Init ==
  /\ m_ctx = FunctionContext
  /\ next_reg = 0 /\ computed = {} /\ args = NoCall /\ frame = NoFrame

Next ==
  \/ EXIT \/ IF_Z \/ RETURN \/ ASSIGN_REG \/ ASSIGN_VAR \/ PRIM_BINOP \/ DIV \/ NEG
  \/ SHIFT \/ CMP \/ LOAD \/ STORE \/ ADDR_OF \/ ALLOC \/ ALLOC_ARRAY \/ FREE
  \/ MEM_COPY \/ MEM_SET \/ BEGIN_LCALL_PREP \/ PUSH_ARG \/ LCALL
  \/ END_FUNC \/ BEGIN_FUNC

Spec == Init /\ [][Next]_vars

-------------------------------------------------------------------------------
\* Every variable has its type.
TypeOK ==
  /\ TypeOKCtx(m_ctx)
  /\ next_reg \in Nat
  /\ computed \in SUBSET {i \in IRRegs : i < next_reg}
  /\ args \in Nat \cup {NoCall}
  /\ frame.sub \in Nat \cup {-1} /\ frame.pushed \subseteq Reg

\* The two register maps of FunctionContext stay inverses of each other, and no
\* IR register is recorded both in a register and in a spill slot.
LocationsConsistent == MapsInverse(m_ctx) /\ OneLocation(m_ctx)

\* Whatever the handlers have spilled, reloaded, used as scratch or lost in a
\* call, the recorded location of each IR register that has been computed holds
\* the value that was computed for it.
ValuesHeld == HoldsValues(m_ctx, computed)

\* Spill slots and local variables never overlap and lie in the frame
\* (operand_to_string, spill_register), whatever sizes and alignments interleave.
FrameDisjoint == CellsDisjoint(m_ctx)

\* The instructions a handler emits read the operands they were generated for.
\* The handlers that resolve two operands before reading the first, or that take
\* temporaries in between, are the exceptions (CMP, STORE, MEM_COPY).
OperandsRead == m_ctx.misread \in {"none", "cmp", "store", "mem_copy"}

\* handle_end_preamble reserves the whole frame and keeps rsp 16-byte aligned
\* after the callee-saved registers are pushed.
FrameReserved ==
  frame # NoFrame => /\ frame.sub >= m_ctx.stack_offset
                     /\ (frame.sub + 8 * Cardinality(frame.pushed)) % 16 = 0
===============================================================================
