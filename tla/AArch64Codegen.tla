---------------------------- MODULE AArch64Codegen ----------------------------
(***************************************************************************)
(* The AArch64 code generator (codegen/aarch64/backend.cpp), one function  *)
(* at a time, over the same allocator as the x86-64 one.  A handler copies *)
(* each operand into a scratch register of its own (load_to_reg) and moves *)
(* the result from there to its destination (store_to_operand), so that    *)
(* what matters is whether a scratch register is still what it was when    *)
(* the instruction that reads it is reached.  Every temporary (x9 - x15)   *)
(* is caller-saved.                                                        *)
(***************************************************************************)
EXTENDS RegAlloc

CONSTANTS
  MaxArgs,    \* bound: arguments of one call
  MaxFrame    \* bound: no instruction is generated once the frame is larger

ASSUME AllCallerSavedAssumption == CallerSaved = Reg
ASSUME BoundsAssumption == MaxArgs \in Nat /\ MaxFrame \in Nat

VARIABLES
  m_ctx,      \* FunctionContext and the machine state (RegAlloc)
  next_reg,   \* IrGenerator::m_next_reg_id, from the start of the function
  computed,   \* IR registers whose value later instructions may use
  args,       \* arguments passed since BEGIN_LCALL_PREP, NoCall outside a call
  frame       \* what handle_end_preamble writes, NoFrame inside a function

vars == <<m_ctx, next_reg, computed, args, frame>>

NoCall == -1
NoFrame == [sub |-> -1, pushed |-> {}]

\* A parameter that arrives on the stack; an ALLOC without an initializer.
StackOp == [kind |-> "stack", id |-> 0]
NoOp == [kind |-> "none", id |-> 0]

-------------------------------------------------------------------------------
\* A scratch register that the emitted code loads with an address.
AddrTemp(c) == Mov(get_temp_phys_reg(c), c.reg_count, Junk)

\* The scratch register is taken before the variable gets its slot.
emit_get_var_addr(c, v) == var_location(AddrTemp(c), v)

load_into_reg(c, op, reg) ==
  CASE op.kind = "reg" ->
         LET c1 == get_phys_reg(c, op.id) IN Mov(c1, reg, c1.val[c1.ir[op.id]])
    [] op.kind = "var" -> Mov(emit_get_var_addr(c, op.id), reg, Label)
    [] op.kind = "stack" -> Mov(AddrTemp(c), reg, Label)
    [] OTHER -> Mov(c, reg, Label)

\* The register returned is the old c.reg_count.
load_to_reg(c, op) == load_into_reg(get_temp_phys_reg(c), op, c.reg_count)

store_to_operand(c, dst, reg) ==
  IF dst.kind = "reg"
  THEN LET c1 == get_phys_reg(c, dst.id) IN Mov(c1, c1.ir[dst.id], c1.val[reg])
  ELSE emit_get_var_addr(c, dst.id)

\* Scratch register reg still holds the copy of op that was loaded into it.
Copy(c, reg, op) == c.val[reg] = Expected(op)

-------------------------------------------------------------------------------
\* The handlers, as functions of the context.

\* One operand, read at once: exit, return, if_z, push_arg, set_hidden_arg.
UseOperand(c, op, name) ==
  LET c1 == load_to_reg(c, op) IN Check(c1, name, Copy(c1, c.reg_count, op))
handle_exit(c, op) == UseOperand(c, op, "exit")
handle_if_z(c, op) == UseOperand(c, op, "if_z")
handle_return(c, op) == UseOperand(c, op, "return")
handle_push_arg(c, op) == UseOperand(c, op, "push_arg")

\* The copy of src is the value of dst from the moment it has been loaded.
assign_reg(c, dst, src) ==
  LET t == c.reg_count
      c1 == load_to_reg(c, src)
      c2 == Check(Mov(c1, t, dst), "assign", Copy(c1, t, src))
  IN  store_to_operand(c2, RegOp(dst), t)

assign_var(c, v, src) ==
  LET c1 == store_to_operand(load_to_reg(c, src), VarOp(v), c.reg_count)
  IN  Check(c1, "assign", Copy(c1, c.reg_count, src))

\* handle_prim_binop, which also does div and shift; handle_mod takes one more
\* temporary for the quotient.
handle_prim_binop(c, dst, a, b, mod) ==
  LET c1 == get_phys_reg(c, dst)
      d == c1.ir[dst]
      c2 == load_into_reg(c1, a, d)
      t == c2.reg_count
      c3 == load_to_reg(c2, b)
      c4 == IF mod THEN AddrTemp(c3) ELSE c3
  IN  Check(Mov(c4, d, dst), "prim_binop", Copy(c4, d, a) /\ Copy(c4, t, b))

\* handle_neg, handle_logical_not.
handle_neg(c, dst, a) ==
  LET c1 == get_phys_reg(c, dst)
      c2 == load_to_reg(c1, a)
  IN  Check(Mov(c2, c1.ir[dst], dst), "neg", Copy(c2, c1.reg_count, a))

handle_cmp(c, dst, a, b) ==
  LET c1 == load_to_reg(c, a)
      c2 == load_to_reg(c1, b)
      c3 == get_phys_reg(c2, dst)
      ok == Copy(c3, c.reg_count, a) /\ Copy(c3, c1.reg_count, b)
  IN  Check(Mov(c3, c3.ir[dst], dst), "cmp", ok)

\* The result is made in scratch register t, into which load_to_reg has copied
\* whatever the destination held, and stored from there.
StoreResult(c, dst, t) == store_to_operand(c, RegOp(dst), t)

handle_load(c, dst, addr) ==
  LET c1 == load_to_reg(c, addr)
      t == c1.reg_count
      c2 == load_to_reg(c1, RegOp(dst))
  IN  StoreResult(Check(Mov(c2, t, dst), "load", Copy(c2, c.reg_count, addr)), dst, t)

\* Mutant: the source is loaded into the scratch register of the address.
handle_store_one_scratch(c, addr, src) ==
  LET c1 == load_to_reg(c, addr)
      c2 == load_into_reg(c1, src, c.reg_count)
  IN  Check(c2, "store", Copy(c2, c.reg_count, addr) /\ Copy(c2, c.reg_count, src))

handle_store(c, addr, src) ==
  LET c1 == load_to_reg(c, addr)
      c2 == load_to_reg(c1, src)
  IN  Check(c2, "store", Copy(c2, c.reg_count, addr) /\ Copy(c2, c1.reg_count, src))

handle_addr_of(c, dst, v) ==
  LET c1 == load_to_reg(c, RegOp(dst))
      c2 == emit_get_var_addr(c1, v)
  IN  StoreResult(Mov(c2, c.reg_count, dst), dst, c.reg_count)

\* A result that a call left in x0.
CallResult(c, dst) ==
  StoreResult(Mov(load_to_reg(c, RegOp(dst)), c.reg_count, dst), dst, c.reg_count)

\* The new pointer waits in scratch register t while the initializer is loaded.
handle_alloc(c, dst, init) ==
  LET c1 == emit_runtime_call(c)
      t == c1.reg_count
      c2 == Mov(load_to_reg(c1, RegOp(dst)), t, dst)
      c3 == load_to_reg(c2, init)
      ok == Copy(c3, c2.reg_count, init) /\ c3.val[t] = dst
  IN  StoreResult(IF init = NoOp THEN c2 ELSE Check(c3, "alloc", ok), dst, t)

handle_alloc_array(c, dst, count) ==
  LET c1 == load_to_reg(c, count)
      c2 == AddrTemp(c1)
      c3 == Check(emit_runtime_call(c2), "alloc_array", Copy(c2, c.reg_count, count))
  IN  CallResult(c3, dst)

\* The pointer is set to null in its own location after the call.
handle_free(c, op) ==
  LET t == c.reg_count
      c1 == load_to_reg(c, op)
      c2 == Check(emit_runtime_call(c1), "free", Copy(c1, t, op))
  IN  store_to_operand(Mov(c2, t, Junk), op, t)

\* handle_mem_copy, handle_mem_set.
handle_mem_copy(c, dst, src) ==
  LET c1 == load_to_reg(c, dst)
      c2 == load_to_reg(c1, src)
      ok == Copy(c2, c.reg_count, dst) /\ Copy(c2, c1.reg_count, src)
  IN  Check(emit_runtime_call(c2), "mem_copy", ok)

\* Mutant: the caller-saved registers are not saved.
lcall_unsaved(c, callee) ==
  LET c1 == load_to_reg(c, callee)
  IN  Clobber(IF callee = LabelOp THEN c ELSE Check(c1, "lcall", Copy(c1, c.reg_count, callee)))

\* A callee that is not a label is loaded after the caller-saved registers have
\* been saved, so the register it is reloaded into is not.
lcall(c, callee) ==
  LET c1 == save_caller_saved_regs(c)
      c2 == load_to_reg(c1, callee)
  IN  Clobber(IF callee = LabelOp THEN c1
              ELSE Check(c2, "lcall", Copy(c2, c1.reg_count, callee)))

\* get_used_callee_regs: pairs of registers, the last one padded with xzr.
get_used_callee_regs(c) == {r \in Reg \ CallerSaved : c.phys[r] # Free}
\* Mutant: a sign slip in the rounding.
get_align_down(s) == ((s - 15) \div 16) * 16
get_align(s) == ((s + 15) \div 16) * 16
\* Mutant: the frame size is not rounded.
end_preamble_unaligned(c) == [sub |-> c.stack_offset, pushed |-> get_used_callee_regs(c)]
end_preamble(c) == [sub |-> get_align(c.stack_offset), pushed |-> get_used_callee_regs(c)]

-------------------------------------------------------------------------------
RegOps == {RegOp(i) : i \in computed}
VarOps == {VarOp(v) : v \in Vars}
Sources == RegOps \cup VarOps \cup {ImmOp}   \* a label is loaded as an immediate is
Pointers == RegOps \cup VarOps

\* The context with which a handler starts, and the two shapes of its result.
ctx == [m_ctx EXCEPT !.misread = "none"]
Straight == frame = NoFrame /\ args = NoCall /\ m_ctx.stack_offset <= MaxFrame
CanCompute == Straight /\ next_reg \in IRRegs

Uses(c) ==
  /\ m_ctx' = c
  /\ UNCHANGED <<next_reg, computed, args, frame>>
Computes(c) ==
  /\ m_ctx' = c
  /\ computed' = computed \cup {next_reg}
  /\ next_reg' = next_reg + 1
  /\ UNCHANGED <<args, frame>>
\* The registers that stay in use when op was used for the last time.
Without(op) == IF op.kind = "reg" THEN computed \ {op.id} ELSE computed

EXIT == Straight /\ \E op \in Sources : Uses(handle_exit(ctx, op))
IF_Z == Straight /\ \E op \in Sources : Uses(handle_if_z(ctx, op))
RETURN == Straight /\ \E op \in Sources : Uses(handle_return(ctx, op))
ASSIGN_REG ==
  CanCompute /\ \E src \in Sources \cup {StackOp} : Computes(assign_reg(ctx, next_reg, src))
ASSIGN_VAR ==
  Straight /\ \E v \in Vars, src \in Sources \cup {StackOp} : Uses(assign_var(ctx, v, src))
PRIM_BINOP ==
  /\ CanCompute
  /\ \E a, b \in Sources, mod \in BOOLEAN :
       Computes(handle_prim_binop(ctx, next_reg, a, b, mod))
NEG == CanCompute /\ \E a \in Sources : Computes(handle_neg(ctx, next_reg, a))
CMP == CanCompute /\ \E a, b \in Sources : Computes(handle_cmp(ctx, next_reg, a, b))
LOAD == CanCompute /\ \E addr \in Pointers : Computes(handle_load(ctx, next_reg, addr))
STORE ==
  Straight /\ \E addr \in Pointers, src \in Sources : Uses(handle_store(ctx, addr, src))
ADDR_OF == CanCompute /\ \E v \in Vars : Computes(handle_addr_of(ctx, next_reg, v))
ALLOC ==
  CanCompute /\ \E init \in Sources \cup {NoOp} : Computes(handle_alloc(ctx, next_reg, init))
ALLOC_ARRAY ==
  CanCompute /\ \E n \in Sources : Computes(handle_alloc_array(ctx, next_reg, n))
\* The pointer is the value of a statement's expression: nothing uses it again.
FREE ==
  /\ Straight
  /\ \E op \in Pointers : m_ctx' = handle_free(ctx, op) /\ computed' = Without(op)
  /\ UNCHANGED <<next_reg, args, frame>>
MEM_COPY ==
  Straight /\ \E dst \in RegOps, src \in Sources : Uses(handle_mem_copy(ctx, dst, src))

BEGIN_LCALL_PREP ==
  Straight /\ args' = 0 /\ UNCHANGED <<m_ctx, next_reg, computed, frame>>
PUSH_ARG ==
  /\ args \in 0 .. MaxArgs - 1
  /\ \E op \in Sources : m_ctx' = handle_push_arg(ctx, op)
  /\ args' = args + 1
  /\ UNCHANGED <<next_reg, computed, frame>>
\* A callee in a register is the value of the call's own subexpression: nothing
\* uses it again.
LCALL ==
  /\ args # NoCall
  /\ \E callee \in Pointers \cup {LabelOp} :
       LET c == lcall(ctx, callee)
       IN  \/ /\ m_ctx' = c
              /\ computed' = Without(callee) /\ next_reg' = next_reg
           \/ /\ next_reg \in IRRegs
              /\ m_ctx' = CallResult(c, next_reg)
              /\ computed' = Without(callee) \cup {next_reg} /\ next_reg' = next_reg + 1
  /\ args' = NoCall
  /\ UNCHANGED frame

END_FUNC ==
  /\ frame = NoFrame /\ args = NoCall
  /\ frame' = end_preamble(m_ctx)
  /\ UNCHANGED <<m_ctx, next_reg, computed, args>>
BEGIN_FUNC ==
  /\ frame # NoFrame
  /\ m_ctx' = FunctionContext
  /\ next_reg' = 0 /\ computed' = {} /\ args' = NoCall /\ frame' = NoFrame

Init ==
  /\ m_ctx = FunctionContext
  /\ next_reg = 0 /\ computed = {} /\ args = NoCall /\ frame = NoFrame

Next ==
  \/ EXIT \/ IF_Z \/ RETURN \/ ASSIGN_REG \/ ASSIGN_VAR \/ PRIM_BINOP \/ NEG \/ CMP
  \/ LOAD \/ STORE \/ ADDR_OF \/ ALLOC \/ ALLOC_ARRAY \/ FREE \/ MEM_COPY
  \/ BEGIN_LCALL_PREP \/ PUSH_ARG \/ LCALL \/ END_FUNC \/ BEGIN_FUNC

Spec == Init /\ [][Next]_vars

-------------------------------------------------------------------------------
\* Every variable has its type.
TypeOK ==
  /\ TypeOKCtx(m_ctx)
  /\ next_reg \in Nat
  /\ computed \in SUBSET {i \in IRRegs : i < next_reg}
  /\ args \in Nat \cup {NoCall}
  /\ frame.sub \in Nat \cup {-1} /\ frame.pushed \subseteq Reg

\* The two register maps stay inverses of each other, and no IR register is
\* recorded both in a register and in a spill slot.
LocationsConsistent == MapsInverse(m_ctx) /\ OneLocation(m_ctx)

\* The recorded location of each IR register that has been computed and may
\* still be used holds its value, across spills, reloads, scratch copies and
\* calls that clobber every temporary.
ValuesHeld == HoldsValues(m_ctx, computed)

\* Spill slots and local variables never overlap and lie in the frame
\* (emit_get_var_addr, spill_register).
FrameDisjoint == CellsDisjoint(m_ctx)

\* No instruction of any handler reads a scratch register that a later
\* allocation of the same handler has already overwritten.
OperandsRead == m_ctx.misread = "none"

\* handle_end_preamble reserves the whole frame, sp stays 16-byte aligned, and
\* no callee-saved register is in use (the temporaries are all caller-saved).
FrameReserved ==
  frame # NoFrame => /\ frame.sub >= m_ctx.stack_offset /\ frame.sub % 16 = 0
                     /\ frame.pushed = {}
===============================================================================
