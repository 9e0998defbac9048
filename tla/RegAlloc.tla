------------------------------- MODULE RegAlloc -------------------------------
(***************************************************************************)
(* The round-robin register allocator shared, line for line, by the x86-64 *)
(* and the AArch64 code generators (FunctionContext of codegen/defs.h and  *)
(* get_temp_phys_reg, get_phys_reg, spill_register, save_caller_saved_regs *)
(* of both backends).                                                      *)
(*                                                                         *)
(* A context record c holds the compile-time maps of FunctionContext and   *)
(* what the code emitted so far leaves in the machine when it runs:        *)
(*   reg_count, stack_offset, phys (phys_reg_to_ir_reg),                   *)
(*   ir (ir_reg_to_phys_reg), spilled (spilled_ir_reg_locations),          *)
(*   vars (var_locations)           -- compile time                        *)
(*   val (temp registers), mem (the frame, by offset from rbp) -- run time *)
(*   misread -- the handler whose instruction read a register that did not *)
(*              hold the operand it stands for, or "none"                  *)
(* A value is named by the IR register that computed it.                   *)
(***************************************************************************)
EXTENDS Integers, FiniteSets

CONSTANTS
  N,            \* number of temporary physical registers (7 in both backends)
  CallerSaved,  \* the temporaries (by index) that a call may clobber
  IRRegs,       \* ids of the IR registers of one function
  Vars,         \* local variables of the function
  VarSize,      \* their sizes in bytes
  VarAlign      \* their alignments (powers of two, or 0 for "none")

ASSUME TempRegsAssumption == N \in Nat /\ N >= 5
ASSUME CallerSavedAssumption == CallerSaved \subseteq 0 .. N - 1
ASSUME IRRegsAssumption == IRRegs \subseteq Nat
ASSUME VarsAssumption == /\ VarSize \in [Vars -> Nat \ {0}]
                         /\ VarAlign \in [Vars -> Nat]

Reg == 0 .. N - 1
NoReg == -1     \* no entry in ir_reg_to_phys_reg
Free == -1      \* phys_reg_to_ir_reg has no entry, or (-1, 0)
NoSlot == 0     \* no entry in spilled_ir_reg_locations or var_locations
PTR_SIZE == 8

Junk == -1      \* a value that stands for no IR register
Label == -2     \* the address of a function or a string literal
Tokens == IRRegs \cup {Junk, Label}

\* The handlers whose instructions read operands from registers.
Handlers ==
  {"exit", "if_z", "return", "assign", "prim_binop", "div", "neg", "shift", "cmp",
   "load", "store", "alloc", "alloc_array", "free", "mem_copy", "mem_set", "push_arg",
   "lcall"}

\* A fresh FunctionContext (clear_func_data).
FunctionContext ==
  [reg_count |-> 0, stack_offset |-> 0,
   phys |-> [r \in Reg |-> Free], ir |-> [i \in IRRegs |-> NoReg],
   spilled |-> [i \in IRRegs |-> NoSlot], vars |-> [v \in Vars |-> NoSlot],
   val |-> [r \in Reg |-> Junk], mem |-> [o \in 1 .. 0 |-> Junk],
   misread |-> "none"]

\* What an emitted instruction does to a temporary register.
Mov(c, reg, v) == [c EXCEPT !.val[reg] = v]

\* The frame extended to the given size; new bytes are uninitialized.
Grow(c, size) ==
  [c EXCEPT !.stack_offset = size,
            !.mem = [o \in 1 .. size |-> IF o <= c.stack_offset THEN c.mem[o] ELSE Junk]]

\* Mutants: the IR register keeps its physical register; a 4-byte slot.
spill_register_keeps_ir(c, reg) ==
  LET i == c.phys[reg]
      offset == c.stack_offset + PTR_SIZE
  IN  [Grow(c, offset) EXCEPT !.mem[offset] = c.val[reg], !.spilled[i] = offset,
                              !.phys[reg] = Free]
spill_register_short(c, reg) ==
  LET i == c.phys[reg]
      offset == c.stack_offset + 4
  IN  [Grow(c, offset) EXCEPT !.mem[offset] = c.val[reg], !.spilled[i] = offset,
                              !.ir[i] = NoReg, !.phys[reg] = Free]

spill_register(c, reg) ==
  LET i == c.phys[reg]
      offset == c.stack_offset + PTR_SIZE
  IN  [Grow(c, offset) EXCEPT !.mem[offset] = c.val[reg],
                              !.spilled[i] = offset,
                              !.ir[i] = NoReg,
                              !.phys[reg] = Free]

\* Round-robin selection: advance reg_count and empty the register it names.
TakeReg(c) ==
  LET reg == c.reg_count
      next == [c EXCEPT !.reg_count = (reg + 1) % N]
  IN  IF c.phys[reg] # Free THEN spill_register(next, reg) ELSE next

\* The register returned is the old c.reg_count; it is left as scratch.
get_temp_phys_reg(c) == TakeReg(c)

\* Mutant: the slot is not erased from spilled_ir_reg_locations.
Reload_keeps_slot(c, i, reg) ==
  IF c.spilled[i] = NoSlot THEN c ELSE [c EXCEPT !.val[reg] = c.mem[c.spilled[i]]]

\* Load a spilled IR register back into reg and forget its slot.
Reload(c, i, reg) ==
  IF c.spilled[i] = NoSlot THEN c
  ELSE [c EXCEPT !.val[reg] = c.mem[c.spilled[i]], !.spilled[i] = NoSlot]

\* The register returned is the new c.ir[i].
get_phys_reg(c, i) ==
  IF c.ir[i] # NoReg THEN c
  ELSE LET reg == c.reg_count
           loaded == Reload(TakeReg(c), i, reg)
       IN  [loaded EXCEPT !.ir[i] = reg, !.phys[reg] = i]

\* save_caller_saved_regs spills the mapped caller-saved registers in index
\* order, so the k-th of them goes to the k-th new slot.
LiveCallerSaved(c) == {r \in CallerSaved : c.phys[r] # Free}
SaveOffset(c, r) ==
  c.stack_offset + PTR_SIZE * Cardinality({q \in LiveCallerSaved(c) : q <= r})
save_caller_saved_regs(c) ==
  LET live == LiveCallerSaved(c)
      saved(i) == c.ir[i] \in live
      grown == Grow(c, c.stack_offset + PTR_SIZE * Cardinality(live))
  IN  [grown EXCEPT
         !.mem = [o \in DOMAIN @ |->
                    IF \E r \in live : SaveOffset(c, r) = o
                    THEN c.val[CHOOSE r \in live : SaveOffset(c, r) = o] ELSE @[o]],
         !.spilled = [i \in IRRegs |-> IF saved(i) THEN SaveOffset(c, c.ir[i]) ELSE @[i]],
         !.ir = [i \in IRRegs |-> IF saved(i) THEN NoReg ELSE @[i]],
         !.phys = [r \in Reg |-> IF r \in live THEN Free ELSE @[r]]]

\* The call itself: the callee may leave anything in a caller-saved register.
Clobber(c) ==
  [c EXCEPT !.val = [r \in Reg |-> IF r \in CallerSaved THEN Junk ELSE c.val[r]]]

\* Mutant: the registers are saved after the call.
emit_runtime_call_saves_late(c) == save_caller_saved_regs(Clobber(c))

\* emit_runtime_call once its argument registers are set up.
emit_runtime_call(c) == Clobber(save_caller_saved_regs(c))

AlignUp(o, a) == IF a = 0 THEN o ELSE ((o + a - 1) \div a) * a

\* Mutant: the slot is recorded before the size is added.
var_location_unsized(c, v) ==
  IF c.vars[v] # NoSlot THEN c
  ELSE LET offset == AlignUp(c.stack_offset, VarAlign[v])
       IN  [Grow(c, offset + VarSize[v]) EXCEPT !.vars[v] = offset]

\* A local variable gets its frame slot when an operand first names it.
var_location(c, v) ==
  IF c.vars[v] # NoSlot THEN c
  ELSE LET offset == AlignUp(c.stack_offset, VarAlign[v]) + VarSize[v]
       IN  [Grow(c, offset) EXCEPT !.vars[v] = offset]

-------------------------------------------------------------------------------
\* IR operands.  "param" is a parameter that arrives in an argument register.
RegOp(i) == [kind |-> "reg", id |-> i]
VarOp(v) == [kind |-> "var", id |-> v]
ImmOp == [kind |-> "imm", id |-> 0]
LabelOp == [kind |-> "label", id |-> 0]
ParamOp == [kind |-> "param", id |-> 0]
MemOp == [kind |-> "mem", id |-> 0]        \* memory that is no IR operand: [rax]

is_imm(op) == op.kind = "imm"
is_mem(op) == op.kind \in {"var", "mem"}

\* The value an operand stands for, where one is tracked.
Expected(op) == IF op.kind = "reg" THEN op.id ELSE Label
\* The instruction emitted now reads op from register r (NoReg: not from one).
Reads(c, r, op) == r = NoReg \/ c.val[r] = Expected(op)
\* Record whether the instruction the handler emits read its operands.
Check(c, handler, ok) == IF ok THEN c ELSE [c EXCEPT !.misread = handler]

-------------------------------------------------------------------------------
\* Properties of a context c in which the IR registers in D have been computed.

TypeOKCtx(c) ==
  c \in [reg_count : Reg, stack_offset : Nat,
         phys : [Reg -> IRRegs \cup {Free}], ir : [IRRegs -> Reg \cup {NoReg}],
         spilled : [IRRegs -> Nat], vars : [Vars -> Nat],
         val : [Reg -> Tokens], mem : [1 .. c.stack_offset -> Tokens],
         misread : Handlers \cup {"none"}]

\* phys_reg_to_ir_reg and ir_reg_to_phys_reg are inverses of each other.
MapsInverse(c) ==
  \A r \in Reg, i \in IRRegs : c.phys[r] = i <=> c.ir[i] = r

\* An IR register is in a register or in a slot, never in both.
OneLocation(c) ==
  \A i \in IRRegs : c.ir[i] # NoReg => c.spilled[i] = NoSlot

\* The recorded location of every computed IR register holds its value.
HoldsValues(c, D) ==
  \A i \in D : \/ c.ir[i] # NoReg /\ c.val[c.ir[i]] = i
               \/ c.spilled[i] # NoSlot /\ c.mem[c.spilled[i]] = i

\* Byte ranges of the frame in use: spilled values and local variables.
Cells(c) ==
  {[of |-> <<"reg", i>>, at |-> c.spilled[i], size |-> PTR_SIZE] :
     i \in {j \in IRRegs : c.spilled[j] # NoSlot}}
  \cup {[of |-> <<"var", v>>, at |-> c.vars[v], size |-> VarSize[v]] :
          v \in {w \in Vars : c.vars[w] # NoSlot}}
Overlap(x, y) == x.at - x.size < y.at /\ y.at - y.size < x.at

\* No two cells share a byte, and all of them lie inside the frame.
CellsDisjoint(c) ==
  /\ \A x, y \in Cells(c) : x # y => ~Overlap(x, y)
  /\ \A x \in Cells(c) : x.size <= x.at /\ x.at <= c.stack_offset
===============================================================================
