--------------------------- MODULE X86CodegenProofs ---------------------------
(***************************************************************************)
(* For every number N >= 5 of temporary registers, every choice of         *)
(* caller-saved ones and every sequence of instructions, the x86-64        *)
(* handlers keep the register maps consistent, lose no computed value and, *)
(* apart from cmp, store and mem_copy, read the operands they should.      *)
(*                                                                         *)
(* A handler is a chain of allocator operations.  Ready(c, D, F) holds     *)
(* between them; Pinned(c, d, i, k) says that register d, taken earlier in *)
(* the handler, is still k allocations away from being taken again.        *)
(***************************************************************************)
EXTENDS X86Codegen, RegAllocProofs

\* Leaves that name no prover go to the SMT solver.
USE SMTT(60)

\* operand_to_string leaves the operand in the register that it names.
LEMMA OperandLemma ==
  ASSUME NEW D, NEW F, NEW c, Ready(c, D, F), NEW op, IsOperand(op, D)
  PROVE  LET g == operand_to_string(c, op)
             r == OperandReg(c, op)
         IN  /\ Ready(g, D, F) /\ Step(c, g, D)
             /\ r = NoReg \/ (op.kind = "reg" /\ r \in Reg /\ g.phys[r] = op.id)
             /\ Reads(g, r, op)
<1> DEFINE g == operand_to_string(c, op)
           r == OperandReg(c, op)
<1>1. CASE op.kind = "reg"
  <2> DEFINE h == get_phys_reg(c, op.id)
  <2>1. op.id \in D /\ g = h /\ r = g.ir[op.id]
    BY <1>1 DEF IsOperand, operand_to_string, OperandReg
  <2>2. /\ Ready(h, D, F) /\ Step(c, h, D)
        /\ h.ir[op.id] \in Reg /\ h.phys[h.ir[op.id]] = op.id /\ h.val[h.ir[op.id]] = op.id
    BY <2>1, ReadyUse
  <2> HIDE DEF g, r, h
  <2> QED
    BY <1>1, <2>1, <2>2 DEF Reads, Expected, g, r
<1>2. CASE op.kind = "var"
  <2>1. op.id \in Vars /\ g = var_location(c, op.id) /\ r = NoReg
    BY <1>2 DEF IsOperand, operand_to_string, OperandReg
  <2> HIDE DEF g, r
  <2> QED
    BY <2>1, ReadyVar DEF Reads, g, r
<1>3. CASE op.kind \notin {"reg", "var"}
  <2>1. g = c /\ r = NoReg
    BY <1>3 DEF operand_to_string, OperandReg
  <2>2. Step(c, c, D)
    BY StepSame DEF Ready
  <2> HIDE DEF g, r
  <2> QED
    BY <2>1, <2>2 DEF Reads, g, r
<1> QED
  BY <1>1, <1>2, <1>3

\* resolve_source_operand does the same, and loads a label into a temporary.
LEMMA ResolveLemma ==
  ASSUME NEW D, NEW F, NEW c, Ready(c, D, F), NEW op, IsOperand(op, D)
  PROVE  LET g == resolve_source_operand(c, op)
             r == ResolvedReg(c, op)
         IN  /\ Ready(g, D, F) /\ Step(c, g, D)
             /\ Reads(g, r, op)
             /\ op.kind \in {"imm", "var", "mem"} => r = NoReg
<1> DEFINE g == resolve_source_operand(c, op)
           r == ResolvedReg(c, op)
<1>1. CASE op.kind = "label"
  <2> DEFINE t == TakeReg(c)
             q == c.reg_count
  <2>1. /\ Ready(t, D, F) /\ Step(c, t, D)
        /\ Pinned(t, q, Free, 4)
        /\ t.val = c.val
    BY ReadyTemp
  <2>2. g = Mov(t, q, Label) /\ r = q
    BY <1>1 DEF resolve_source_operand, ResolvedReg, get_temp_phys_reg
  <2>3. q \in Reg /\ t.phys[q] = Free /\ Label \in Tokens
    BY <2>1 DEF Pinned, Tokens
  <2> HIDE DEF t, g, r
  <2>4. /\ Ready(g, D, F) /\ g.reg_count = t.reg_count /\ g.phys = t.phys
        /\ g.val[q] = Label /\ \A p \in Reg : p # q => g.val[p] = t.val[p]
        /\ \A j \in IRRegs : Fresh(t, j) => Fresh(g, j)
    BY <2>1, <2>2, <2>3, ReadyScratch
  <2>5. Step(c, g, D)
    <3>1. \A d \in Reg : Dist(q, d) >= 1 => d # q
      BY <2>3, DistLemma, TempRegsAssumption
    <3> QED
      BY <2>1, <2>4, <3>1 DEF Step, Keeps, Ready
  <2> QED
    BY <1>1, <2>2, <2>4, <2>5 DEF Reads, Expected, g, r
<1>2. CASE op.kind # "label"
  <2>1. g = operand_to_string(c, op) /\ r = OperandReg(c, op)
    BY <1>2 DEF resolve_source_operand, ResolvedReg
  <2> HIDE DEF g, r
  <2>2. /\ Ready(g, D, F) /\ Step(c, g, D)
        /\ r = NoReg \/ (op.kind = "reg" /\ r \in Reg /\ g.phys[r] = op.id)
        /\ Reads(g, r, op)
    BY <2>1, OperandLemma
  <2> QED
    BY <2>2 DEF g, r
<1> QED
  BY <1>1, <1>2

\* A temporary written at once.
LEMMA LoadTempLemma ==
  ASSUME NEW D, NEW F, NEW c, Ready(c, D, F)
  PROVE  Ready(LoadTemp(c), D, F) /\ Step(c, LoadTemp(c), D)
<1>1. Junk \in Tokens /\ LoadTemp(c) = Mov(TakeReg(c), c.reg_count, Junk)
  BY DEF Tokens, LoadTemp, get_temp_phys_reg
<1> QED
  BY <1>1, ReadyTempLoad

\* A 64-bit immediate costs one more temporary.
LEMMA SafeguardLemma ==
  ASSUME NEW D, NEW F, NEW c, Ready(c, D, F), NEW op, NEW wide
  PROVE  LET g == safeguard_64bit_imm(c, op, wide) IN
         Ready(g, D, F) /\ Step(c, g, D) /\ (op.kind # "imm" => g = c)
<1>1. Step(c, c, D)
  BY StepSame DEF Ready
<1>2. Ready(LoadTemp(c), D, F) /\ Step(c, LoadTemp(c), D)
  BY LoadTempLemma
<1> QED
  BY <1>1, <1>2 DEF safeguard_64bit_imm, is_imm

\* So does a move from memory to memory; a source in a register costs none.
LEMMA MemSafeLemma ==
  ASSUME NEW D, NEW F, NEW c, Ready(c, D, F), NEW op, NEW wide, NEW dst
  PROVE  LET g == emit_mem_safe_op(c, dst, op, wide) IN
         Ready(g, D, F) /\ Step(c, g, D) /\ (op.kind \notin {"imm", "var", "mem"} => g = c)
<1> DEFINE s == safeguard_64bit_imm(c, op, wide)
<1>1. Ready(s, D, F) /\ Step(c, s, D) /\ (op.kind # "imm" => s = c)
  BY SafeguardLemma
<1>2. Ready(LoadTemp(c), D, F) /\ Step(c, LoadTemp(c), D)
  BY LoadTempLemma
<1> QED
  BY <1>1, <1>2 DEF emit_mem_safe_op, is_mem

-------------------------------------------------------------------------------
\* handle_exit, handle_if_z.
LEMMA UseComponentLemma ==
  ASSUME NEW D, NEW F, NEW c, Ready(c, D, F), NEW op, IsOperand(op, D), NEW h
  PROVE  Ready(UseComponent(c, op, h), D, F)
<1> DEFINE g == operand_to_string(c, op)
           r == OperandReg(c, op)
<1>1. /\ Ready(g, D, F) /\ Step(c, g, D)
      /\ r = NoReg \/ (op.kind = "reg" /\ r \in Reg /\ g.phys[r] = op.id)
      /\ Reads(g, r, op)
  BY OperandLemma
<1> QED
  BY <1>1, ReadyCheck, Zenon DEF UseComponent

\* handle_return, handle_push_arg, handle_set_hidden_arg.
LEMMA UseSourceLemma ==
  ASSUME NEW D, NEW F, NEW c, Ready(c, D, F), NEW op, IsOperand(op, D)
  PROVE  Ready(handle_return(c, op), D, F) /\ Ready(handle_push_arg(c, op), D, F)
<1> DEFINE g == resolve_source_operand(c, op)
           r == ResolvedReg(c, op)
<1>1. /\ Ready(g, D, F) /\ Step(c, g, D)
      /\ Reads(g, r, op)
      /\ op.kind \in {"imm", "var", "mem"} => r = NoReg
  BY ResolveLemma
<1> QED
  BY <1>1, ReadyCheck, Zenon DEF handle_return, handle_push_arg

\* handle_neg, handle_logical_not.
LEMMA NegLemma ==
  ASSUME NEW D, NEW F, NEW c, Ready(c, D, F), NEW dst \in F, NEW a, IsOperand(a, D)
  PROVE  Ready(handle_neg(c, dst, a), D \cup {dst}, F \ {dst})
<1> DEFINE G == F \ {dst}
           c1 == get_phys_reg(c, dst)
           d == c1.ir[dst]
           c2 == operand_to_string(c1, a)
           c3 == Mov(c2, d, dst)
<1>1. Ready(c1, D, G) /\ Pinned(c1, d, dst, 4)
  BY ReadyDst
<1>2. /\ Ready(c2, D, G) /\ Step(c1, c2, D)
      /\ OperandReg(c1, a) = NoReg \/ (a.kind = "reg" /\ OperandReg(c1, a) \in Reg /\ c2.phys[OperandReg(c1, a)] = a.id)
      /\ Reads(c2, OperandReg(c1, a), a)
  <2> HIDE DEF c1, G
  <2> QED BY <1>1, OperandLemma
<1> HIDE DEF c1, c2, G, d
<1>3. Pinned(c2, d, dst, 3)
  BY <1>1, <1>2, PinStep DEF Ready
<1>4. Ready(c3, D \cup {dst}, G)
  <2>1. dst \in IRRegs /\ dst \notin G /\ d \in Reg
    BY <1>3 DEF Ready, Pinned, G
  <2> QED
    BY <1>2, <1>3, <2>1, ReadyResult
<1> QED
  BY <1>2, <1>4, ReadyCheck, Zenon DEF handle_neg, G, d, c1, c2

\* handle_assign to an IR register.
LEMMA AssignRegLemma ==
  ASSUME NEW D, NEW F, NEW c, Ready(c, D, F), NEW dst \in F, NEW src, IsOperand(src, D)
  PROVE  Ready(assign_reg(c, dst, src), D \cup {dst}, F \ {dst})
<1> DEFINE G == F \ {dst}
           c1 == get_phys_reg(c, dst)
           d == c1.ir[dst]
           c2 == resolve_source_operand(c1, src)
           r == ResolvedReg(c1, src)
<1>0. dst \in IRRegs /\ dst \notin G
  BY DEF Ready
<1>1. Ready(c1, D, G) /\ Pinned(c1, d, dst, 4)
  BY ReadyDst
<1> HIDE DEF c1, G
<1>2. /\ Ready(c2, D, G) /\ Step(c1, c2, D)
      /\ Reads(c2, r, src)
      /\ src.kind \in {"imm", "var", "mem"} => r = NoReg
  BY <1>1, ResolveLemma
<1> HIDE DEF c2, r, d
<1>3. Pinned(c2, d, dst, 3) /\ d \in Reg
  BY <1>1, <1>2, PinStep DEF Ready, Pinned
<1>4. get_phys_reg(c2, dst) = c2 /\ c2.ir[dst] = d
  BY <1>0, <1>2, <1>3, PinnedGet DEF Ready
<1>5. Ready(Mov(c2, d, dst), D \cup {dst}, G)
  BY <1>0, <1>2, <1>3, ReadyResult
<1>6. assign_reg(c, dst, src) = Check(Mov(c2, d, dst), "assign", Reads(c2, r, src))
  BY <1>4 DEF assign_reg, c1, c2, r
<1>7. Ready(Check(Mov(c2, d, dst), "assign", Reads(c2, r, src)), D \cup {dst}, G)
  BY <1>2, <1>5, ReadyCheck, Zenon
<1> QED
  BY <1>6, <1>7 DEF G

\* handle_assign to a variable.
LEMMA AssignVarLemma ==
  ASSUME NEW D, NEW F, NEW c, Ready(c, D, F), NEW v \in Vars, NEW src, IsOperand(src, D),
         NEW wide
  PROVE  Ready(assign_var(c, v, src, wide), D, F)
<1> DEFINE c1 == var_location(c, v)
           c2 == resolve_source_operand(c1, src)
           r == ResolvedReg(c1, src)
           c3 == emit_mem_safe_op(c2, VarOp(v), src, wide)
<1>1. Ready(c1, D, F)
  BY ReadyVar
<1> HIDE DEF c1
<1>2. /\ Ready(c2, D, F) /\ Step(c1, c2, D)
      /\ Reads(c2, r, src)
      /\ src.kind \in {"imm", "var", "mem"} => r = NoReg
  BY <1>1, ResolveLemma
<1> HIDE DEF c2
<1>3. Ready(c3, D, F) /\ Step(c2, c3, D) /\ (src.kind \notin {"imm", "var", "mem"} => c3 = c2)
  BY <1>2, MemSafeLemma
<1> HIDE DEF c3, r
<1>4. Reads(c3, r, src)
  BY <1>2, <1>3 DEF Reads
<1> QED
  BY <1>3, <1>4, ReadyCheck, Zenon DEF assign_var, c1, c2, c3, r

\* handle_prim_binop: the destination is written between the two operands and
\* is not taken again before the instruction that uses it.
LEMMA PrimBinopLemma ==
  ASSUME NEW D, NEW F, NEW c, Ready(c, D, F), NEW dst \in F,
         NEW a, IsOperand(a, D), NEW b, IsOperand(b, D), NEW wide, NEW small_imul
  PROVE  Ready(handle_prim_binop(c, dst, a, b, wide, small_imul), D \cup {dst}, F \ {dst})
<1> DEFINE G == F \ {dst}
           E == D \cup {dst}
           c1 == get_phys_reg(c, dst)
           d == c1.ir[dst]
           c2 == operand_to_string(c1, a)
           ok1 == Reads(c2, OperandReg(c1, a), a)
           c3 == Mov(c2, d, dst)
           t == c3.reg_count
           c4 == IF small_imul THEN TakeReg(c3) ELSE c3
           c5 == operand_to_string(c4, b)
           rb == OperandReg(c4, b)
           c6 == IF small_imul THEN Mov(c5, t, Junk) ELSE safeguard_64bit_imm(c5, b, wide)
           ok2 == Reads(IF small_imul THEN c5 ELSE c6, rb, b)
<1>0. dst \in IRRegs /\ dst \notin G /\ IsOperand(b, E)
  BY DEF Ready, IsOperand
<1>1. Ready(c1, D, G) /\ Pinned(c1, d, dst, 4)
  BY ReadyDst
<1> HIDE DEF c1, G
<1>2. Ready(c2, D, G) /\ Step(c1, c2, D) /\ ok1
  BY <1>1, OperandLemma
<1> HIDE DEF c2, ok1, d
<1>3. Pinned(c2, d, dst, 3) /\ d \in Reg
  BY <1>1, <1>2, PinStep DEF Ready, Pinned
<1>4. Ready(c3, E, G) /\ Pinned(c3, d, dst, 3)
  BY <1>0, <1>2, <1>3, ReadyResult
<1> HIDE DEF c3, E
<1>5. ASSUME small_imul PROVE Ready(c6, E, G) /\ c6.phys[d] = dst /\ ok2
  <2>1. c4 = TakeReg(c3)
    BY <1>5
  <2>2. /\ Ready(c4, E, G) /\ Step(c3, c4, E)
        /\ Pinned(c4, t, Free, 4)
        /\ c4.val = c3.val
    BY <1>4, <2>1, ReadyTemp
  <2> HIDE DEF c4, t
  <2>3. Pinned(c4, d, dst, 2)
    BY <1>4, <2>2, PinStep DEF Ready
  <2>4. Ready(c5, E, G) /\ Step(c4, c5, E) /\ Reads(c5, rb, b)
    BY <1>0, <2>2, OperandLemma
  <2> HIDE DEF c5, rb
  <2>5. Pinned(c5, d, dst, 1) /\ Pinned(c5, t, Free, 3)
    BY <2>2, <2>3, <2>4, PinStep DEF Ready
  <2>6. t \in Reg /\ c5.phys[t] = Free /\ Junk \in Tokens /\ c6 = Mov(c5, t, Junk)
    BY <1>5, <2>5 DEF Pinned, Tokens
  <2> HIDE DEF c6
  <2>7. /\ Ready(c6, E, G) /\ c6.reg_count = c5.reg_count /\ c6.phys = c5.phys
        /\ c6.val[t] = Junk /\ \A q \in Reg : q # t => c6.val[q] = c5.val[q]
        /\ \A j \in IRRegs : Fresh(c5, j) => Fresh(c6, j)
    BY <2>4, <2>6, ReadyScratch
  <2>8. Ready(c6, E, G) /\ c6.phys[d] = dst /\ ok2
    BY <1>5, <2>4, <2>5, <2>7 DEF Pinned
  <2> QED
    BY <2>8 DEF c6, c5, c4, t, rb
<1>6. ASSUME ~small_imul PROVE Ready(c6, E, G) /\ c6.phys[d] = dst /\ ok2
  <2>1. c4 = c3
    BY <1>6
  <2>2. Ready(c4, E, G) /\ Pinned(c4, d, dst, 3)
    BY <1>4, <2>1
  <2> HIDE DEF c4
  <2>3. Ready(c5, E, G) /\ Step(c4, c5, E) /\ Reads(c5, rb, b)
        /\ (rb = NoReg \/ b.kind = "reg")
    BY <1>0, <2>2, OperandLemma
  <2> HIDE DEF c5, rb
  <2>4. Pinned(c5, d, dst, 2)
    BY <2>2, <2>3, PinStep DEF Ready
  <2>5. c6 = safeguard_64bit_imm(c5, b, wide)
    BY <1>6
  <2> HIDE DEF c6
  <2>6. Ready(c6, E, G) /\ Step(c5, c6, E) /\ (b.kind # "imm" => c6 = c5)
    BY <2>3, <2>5, SafeguardLemma
  <2>7. Pinned(c6, d, dst, 1)
    BY <2>3, <2>4, <2>6, PinStep DEF Ready
  <2>8. Ready(c6, E, G) /\ c6.phys[d] = dst /\ ok2
    BY <1>6, <2>3, <2>6, <2>7 DEF Pinned, Reads
  <2> QED
    BY <2>8 DEF c6, c5, c4, rb
<1>7. Ready(c6, E, G) /\ c6.phys[d] = dst /\ ok2
  BY <1>5, <1>6
<1> HIDE DEF c6, ok2
<1>8. c6.val[d] = dst
  BY <1>3, <1>7, InRegister DEF Ready, E
<1> HIDE DEF c4, c5, rb, t
<1>9. handle_prim_binop(c, dst, a, b, wide, small_imul)
        = Check(c6, "prim_binop", ok1 /\ ok2 /\ c6.val[d] = dst)
  BY ZenonT(60)
     DEF handle_prim_binop, get_temp_phys_reg, c1, d, c2, ok1, c3, t, c4, c5, rb, c6, ok2
<1>10. Ready(Check(c6, "prim_binop", ok1 /\ ok2 /\ c6.val[d] = dst), E, G)
  BY <1>2, <1>7, <1>8, ReadyCheck, Zenon
<1> QED
  BY <1>9, <1>10 DEF E, G

\* handle_div, handle_mod: the divisor's temporary outlives the dividend.
LEMMA DivLemma ==
  ASSUME NEW D, NEW F, NEW c, Ready(c, D, F), NEW dst \in F,
         NEW a, IsOperand(a, D), NEW b, IsOperand(b, D)
  PROVE  Ready(handle_div(c, dst, a, b), D \cup {dst}, F \ {dst})
<1> DEFINE G == F \ {dst}
           t == c.reg_count
           c1 == TakeReg(c)
           c2 == operand_to_string(c1, b)
           ok2 == Reads(c2, OperandReg(c1, b), b)
           c3 == Mov(c2, t, Junk)
           c4 == operand_to_string(c3, a)
           ok1 == Reads(c4, OperandReg(c3, a), a) /\ c4.val[t] = Junk
           c5 == get_phys_reg(c4, dst)
           d == c5.ir[dst]
<1>0. dst \in IRRegs /\ dst \notin G
  BY DEF Ready
<1>1. /\ Ready(c1, D, F) /\ Step(c, c1, D)
      /\ Pinned(c1, t, Free, 4)
      /\ c1.val = c.val
  BY ReadyTemp
<1> HIDE DEF c1
<1>2. Ready(c2, D, F) /\ Step(c1, c2, D) /\ ok2
  BY <1>1, OperandLemma
<1> HIDE DEF c2, ok2, t
<1>3. Pinned(c2, t, Free, 3) /\ t \in Reg /\ c2.phys[t] = Free /\ Junk \in Tokens
  BY <1>1, <1>2, PinStep DEF Ready, Pinned, Tokens
<1>4. /\ Ready(c3, D, F) /\ c3.reg_count = c2.reg_count /\ c3.phys = c2.phys
      /\ c3.val[t] = Junk /\ \A q \in Reg : q # t => c3.val[q] = c2.val[q]
      /\ \A j \in IRRegs : Fresh(c2, j) => Fresh(c3, j)
  BY <1>2, <1>3, ReadyScratch
<1> HIDE DEF c3
<1>5. Pinned(c3, t, Free, 3)
  BY <1>3, <1>4 DEF Pinned
<1>6. Ready(c4, D, F) /\ Step(c3, c4, D) /\ Reads(c4, OperandReg(c3, a), a)
  BY <1>4, OperandLemma
<1> HIDE DEF c4
<1>7. ok1
  BY <1>4, <1>5, <1>6, PinStep DEF Ready
<1> HIDE DEF ok1
<1>8. Ready(c5, D, G) /\ Pinned(c5, d, dst, 4)
  BY <1>6, ReadyDst
<1> HIDE DEF c5
<1>9. d \in Reg
  BY <1>8 DEF Pinned
<1> HIDE DEF d, G
<1>10. Ready(Mov(c5, d, dst), D \cup {dst}, G)
  BY <1>0, <1>8, <1>9, ReadyResult
<1>11. handle_div(c, dst, a, b) = Check(Mov(c5, d, dst), "div", ok1 /\ ok2)
  BY DEF handle_div, get_temp_phys_reg, t, c1, c2, ok2, c3, c4, ok1, c5, d
<1>12. Ready(Check(Mov(c5, d, dst), "div", ok1 /\ ok2), D \cup {dst}, G)
  BY <1>2, <1>7, <1>10, ReadyCheck, Zenon
<1> QED
  BY <1>11, <1>12 DEF G

\* handle_shift.
LEMMA ShiftLemma ==
  ASSUME NEW D, NEW F, NEW c, Ready(c, D, F), NEW dst \in F,
         NEW a, IsOperand(a, D), NEW b, IsOperand(b, D)
  PROVE  Ready(handle_shift(c, dst, a, b), D \cup {dst}, F \ {dst})
<1> DEFINE G == F \ {dst}
           E == D \cup {dst}
           c1 == get_phys_reg(c, dst)
           d == c1.ir[dst]
           c2 == operand_to_string(c1, a)
           ok1 == Reads(c2, OperandReg(c1, a), a)
           c3 == Mov(c2, d, dst)
           c4 == operand_to_string(c3, b)
           ok2 == Reads(c4, OperandReg(c3, b), b)
<1>0. dst \in IRRegs /\ dst \notin G /\ IsOperand(b, E)
  BY DEF Ready, IsOperand
<1>1. Ready(c1, D, G) /\ Pinned(c1, d, dst, 4)
  BY ReadyDst
<1> HIDE DEF c1, G
<1>2. Ready(c2, D, G) /\ Step(c1, c2, D) /\ ok1
  BY <1>1, OperandLemma
<1> HIDE DEF c2, ok1, d
<1>3. Pinned(c2, d, dst, 3) /\ d \in Reg
  BY <1>1, <1>2, PinStep DEF Ready, Pinned
<1>4. Ready(c3, E, G) /\ Pinned(c3, d, dst, 3)
  BY <1>0, <1>2, <1>3, ReadyResult
<1> HIDE DEF c3, E
<1>5. Ready(c4, E, G) /\ Step(c3, c4, E) /\ ok2
  BY <1>0, <1>4, OperandLemma
<1> HIDE DEF c4, ok2
<1>6. Pinned(c4, d, dst, 2)
  BY <1>4, <1>5, PinStep DEF Ready
<1>7. c4.val[d] = dst
  BY <1>3, <1>5, <1>6, InRegister DEF Ready, E, Pinned
<1>8. handle_shift(c, dst, a, b)
        = IF is_imm(b) THEN Check(c3, "shift", ok1)
          ELSE Check(c4, "shift", ok1 /\ ok2 /\ c4.val[d] = dst)
  BY DEF handle_shift, c1, d, c2, ok1, c3, c4, ok2
<1>9. Ready(Check(c3, "shift", ok1), E, G)
  BY <1>2, <1>4, ReadyCheck, Zenon
<1>10. Ready(Check(c4, "shift", ok1 /\ ok2 /\ c4.val[d] = dst), E, G)
  BY <1>2, <1>5, <1>7, ReadyCheck, Zenon
<1> QED
  BY <1>8, <1>9, <1>10 DEF E, G

\* handle_load.
LEMMA LoadLemma ==
  ASSUME NEW D, NEW F, NEW c, Ready(c, D, F), NEW dst \in F, NEW addr, IsOperand(addr, D)
  PROVE  Ready(handle_load(c, dst, addr), D \cup {dst}, F \ {dst})
<1> DEFINE G == F \ {dst}
           c1 == get_phys_reg(c, dst)
           d == c1.ir[dst]
           c2 == resolve_source_operand(c1, addr)
           r == ResolvedReg(c1, addr)
           c3 == IF is_mem(addr) THEN LoadTemp(c2) ELSE c2
<1>0. dst \in IRRegs /\ dst \notin G
  BY DEF Ready
<1>1. Ready(c1, D, G) /\ Pinned(c1, d, dst, 4)
  BY ReadyDst
<1> HIDE DEF c1, G
<1>2. /\ Ready(c2, D, G) /\ Step(c1, c2, D)
      /\ Reads(c2, r, addr)
      /\ addr.kind \in {"imm", "var", "mem"} => r = NoReg
  BY <1>1, ResolveLemma
<1> HIDE DEF c2, r, d
<1>3. Pinned(c2, d, dst, 3)
  BY <1>1, <1>2, PinStep DEF Ready
<1>4. Ready(c3, D, G) /\ Pinned(c3, d, dst, 2) /\ Reads(c3, r, addr)
  <2>1. CASE is_mem(addr)
    <3>1. Ready(LoadTemp(c2), D, G) /\ Step(c2, LoadTemp(c2), D)
      BY <1>2, LoadTempLemma
    <3>2. Pinned(LoadTemp(c2), d, dst, 2)
      BY <1>2, <1>3, <3>1, PinStep DEF Ready
    <3> QED
      BY <1>2, <2>1, <3>1, <3>2 DEF is_mem, Reads
  <2>2. CASE ~is_mem(addr)
    <3>1. c2.reg_count \in Reg /\ d \in Reg
      BY <1>2, <1>3 DEF Ready, WF, TypeOKCtx, Pinned
    <3>2. Pinned(c2, d, dst, 2)
      BY <1>3, <3>1, DistLemma, TempRegsAssumption DEF Pinned
    <3> QED
      BY <1>2, <2>2, <3>2
  <2> QED
    BY <2>1, <2>2
<1> HIDE DEF c3
<1>5. d \in Reg
  BY <1>4 DEF Pinned
<1>6. Ready(Mov(c3, d, dst), D \cup {dst}, G)
  BY <1>0, <1>4, <1>5, ReadyResult
<1>7. handle_load(c, dst, addr) = Check(Mov(c3, d, dst), "load", Reads(c3, r, addr))
  BY DEF handle_load, c1, d, c2, r, c3
<1>8. Ready(Check(Mov(c3, d, dst), "load", Reads(c3, r, addr)), D \cup {dst}, G)
  BY <1>4, <1>6, ReadyCheck, Zenon
<1> QED
  BY <1>7, <1>8 DEF G

\* handle_addr_of.
LEMMA AddrOfLemma ==
  ASSUME NEW D, NEW F, NEW c, Ready(c, D, F), NEW dst \in F, NEW v \in Vars
  PROVE  Ready(handle_addr_of(c, dst, v), D \cup {dst}, F \ {dst})
<1> DEFINE G == F \ {dst}
           c1 == get_phys_reg(c, dst)
           d == c1.ir[dst]
           c2 == var_location(c1, v)
<1>0. dst \in IRRegs /\ dst \notin G
  BY DEF Ready
<1>1. Ready(c1, D, G) /\ Pinned(c1, d, dst, 4)
  BY ReadyDst
<1> HIDE DEF c1, G
<1>2. Ready(c2, D, G) /\ Step(c1, c2, D)
  BY <1>1, ReadyVar
<1> HIDE DEF c2, d
<1>3. Pinned(c2, d, dst, 3) /\ d \in Reg
  BY <1>1, <1>2, PinStep DEF Ready, Pinned
<1>4. Ready(Mov(c2, d, dst), D \cup {dst}, G)
  BY <1>0, <1>2, <1>3, ReadyResult
<1> QED
  BY <1>4 DEF handle_addr_of, c1, c2, d, G

\* handle_alloc.
LEMMA AllocLemma ==
  ASSUME NEW D, NEW F, NEW c, Ready(c, D, F), NEW dst \in F,
         NEW init, IsOperand(init, D), NEW wide
  PROVE  Ready(handle_alloc(c, dst, init, wide), D \cup {dst}, F \ {dst})
<1> DEFINE G == F \ {dst}
           E == D \cup {dst}
           c0 == emit_runtime_call(c)
           c1 == get_phys_reg(c0, dst)
           d == c1.ir[dst]
           c2 == Mov(c1, d, dst)
           c3 == resolve_source_operand(c2, init)
           r == ResolvedReg(c2, init)
           c4 == emit_mem_safe_op(c3, MemOp, init, wide)
<1>0. dst \in IRRegs /\ dst \notin G /\ IsOperand(init, E)
  BY DEF Ready, IsOperand
<1>1. Ready(c0, D, F)
  BY ReadyCall
<1> HIDE DEF c0
<1>2. Ready(c1, D, G) /\ Pinned(c1, d, dst, 4)
  BY <1>1, ReadyDst
<1> HIDE DEF c1, G
<1>3. d \in Reg
  BY <1>2 DEF Pinned
<1> HIDE DEF d
<1>4. Ready(c2, E, G)
  BY <1>0, <1>2, <1>3, ReadyResult
<1> HIDE DEF c2, E
<1>5. /\ Ready(c3, E, G) /\ Step(c2, c3, E)
      /\ Reads(c3, r, init)
      /\ init.kind \in {"imm", "var", "mem"} => r = NoReg
  BY <1>0, <1>4, ResolveLemma
<1> HIDE DEF c3, r
<1>6. Ready(c4, E, G) /\ Step(c3, c4, E) /\ (init.kind \notin {"imm", "var", "mem"} => c4 = c3)
  BY <1>5, MemSafeLemma
<1> HIDE DEF c4
<1>7. Reads(c4, r, init)
  BY <1>5, <1>6 DEF Reads
<1>8. handle_alloc(c, dst, init, wide) = Check(c4, "alloc", Reads(c4, r, init))
  BY DEF handle_alloc, c0, c1, d, c2, c3, r, c4
<1>9. Ready(Check(c4, "alloc", Reads(c4, r, init)), E, G)
  BY <1>6, <1>7, ReadyCheck, Zenon
<1> QED
  BY <1>8, <1>9 DEF E, G

\* handle_alloc_array: the count is read before the call clobbers its register.
LEMMA AllocArrayLemma ==
  ASSUME NEW D, NEW F, NEW c, Ready(c, D, F), NEW dst \in F, NEW n, IsOperand(n, D)
  PROVE  Ready(handle_alloc_array(c, dst, n), D \cup {dst}, F \ {dst})
<1> DEFINE G == F \ {dst}
           c1 == operand_to_string(c, n)
           r == OperandReg(c, n)
           t == c1.reg_count
           c2 == TakeReg(c1)
           m == Mov(c2, t, Junk)
           c3 == emit_runtime_call(m)
           c4 == get_phys_reg(c3, dst)
           d == c4.ir[dst]
<1>0. dst \in IRRegs /\ dst \notin G
  BY DEF Ready
<1>1. /\ Ready(c1, D, F) /\ Step(c, c1, D)
      /\ r = NoReg \/ (n.kind = "reg" /\ r \in Reg /\ c1.phys[r] = n.id)
      /\ Reads(c1, r, n)
  BY OperandLemma
<1> HIDE DEF c1, r
<1>2. /\ Ready(c2, D, F) /\ Step(c1, c2, D)
      /\ Pinned(c2, t, Free, 4)
      /\ c2.val = c1.val
  BY <1>1, ReadyTemp
<1> HIDE DEF c2
<1>3. t \in Reg /\ c2.phys[t] = Free /\ Junk \in Tokens /\ Reads(c2, r, n)
  BY <1>1, <1>2 DEF Pinned, Tokens, Reads
<1> HIDE DEF t
<1>4. Ready(m, D, F)
  BY <1>2, <1>3, ReadyScratch
<1> HIDE DEF m
<1>5. Ready(c3, D, F)
  BY <1>4, ReadyCall
<1> HIDE DEF c3
<1>6. Ready(c4, D, G) /\ Pinned(c4, d, dst, 4)
  BY <1>5, ReadyDst
<1> HIDE DEF c4, G
<1>7. d \in Reg
  BY <1>6 DEF Pinned
<1> HIDE DEF d
<1>8. Ready(Mov(c4, d, dst), D \cup {dst}, G)
  BY <1>0, <1>6, <1>7, ReadyResult
<1>9. handle_alloc_array(c, dst, n) = Check(Mov(c4, d, dst), "alloc_array", Reads(c2, r, n))
  BY DEF handle_alloc_array, get_temp_phys_reg, c1, r, t, c2, m, c3, c4, d
<1>10. Ready(Check(Mov(c4, d, dst), "alloc_array", Reads(c2, r, n)), D \cup {dst}, G)
  BY <1>3, <1>8, ReadyCheck, Zenon
<1> QED
  BY <1>9, <1>10 DEF G

\* handle_free: the pointer's own value may be lost, no other.
LEMMA FreeLemma ==
  ASSUME NEW D, NEW F, NEW c, Ready(c, D, F), NEW op, IsOperand(op, D)
  PROVE  Ready(handle_free(c, op), IF op.kind = "reg" THEN D \ {op.id} ELSE D, F)
<1> DEFINE E == IF op.kind = "reg" THEN D \ {op.id} ELSE D
           c1 == operand_to_string(c, op)
           r == OperandReg(c, op)
           c2 == emit_runtime_call(c1)
           c3 == IF r = NoReg THEN c2 ELSE Mov(c2, r, Junk)
<1>1. /\ Ready(c1, D, F) /\ Step(c, c1, D)
      /\ r = NoReg \/ (op.kind = "reg" /\ r \in Reg /\ c1.phys[r] = op.id)
      /\ Reads(c1, r, op)
  BY OperandLemma
<1> HIDE DEF c1, r
<1>2. /\ Ready(c2, D, F)
      /\ \A q \in Reg : c2.phys[q] = Free \/ c2.phys[q] = c1.phys[q]
  <2>1. Ready(c1, D, F)
    BY <1>1
  <2> QED
    BY <2>1, ReadyCall
<1> HIDE DEF c2
<1>3. \A B : B \subseteq D /\ WF(c2, D) => WF(c2, B)
  BY DEF WF, HoldsValues
<1>4. Ready(c3, E, F)
  <2>1. CASE r = NoReg
    <3>1. WF(c2, E)
      BY <1>2, <1>3 DEF Ready
    <3> QED
      BY <1>2, <2>1, <3>1 DEF Ready
  <2>2. CASE r # NoReg
    <3>1. op.kind = "reg" /\ r \in Reg /\ c1.phys[r] = op.id /\ WF(c2, D) /\ Junk \in Tokens
      BY <1>1, <1>2, <2>2 DEF Ready, Tokens
    <3> DEFINE g == Mov(c2, r, Junk)
    <3>2. /\ WF(g, D \ {c2.phys[r]})
          /\ c2.phys[r] = Junk => WF(g, (D \cup {Junk}) \cap IRRegs)
          /\ g.reg_count = c2.reg_count /\ g.phys = c2.phys /\ g.ir = c2.ir
          /\ g.misread = c2.misread /\ g.val[r] = Junk
          /\ \A q \in Reg : q # r => g.val[q] = c2.val[q]
          /\ \A j \in IRRegs : Fresh(c2, j) => Fresh(g, j)
      BY <3>1, MovLemma, ZenonT(60)
    <3> HIDE DEF g
    <3>3. D \ {op.id} \subseteq D \ {c2.phys[r]}
      <4>1. Free \notin D
        BY <3>1, IRRegsAssumption DEF WF, Free
      <4> QED
        BY <1>2, <3>1, <4>1
    <3>4. WF(g, D \ {op.id})
      BY <3>2, <3>3 DEF WF, HoldsValues
    <3>5. Ready(g, D \ {op.id}, F)
      BY <1>2, <3>2, <3>4 DEF Ready
    <3> QED
      BY <2>2, <3>1, <3>5 DEF g
  <2> QED
    BY <2>1, <2>2
<1> HIDE DEF c3, E
<1>5. handle_free(c, op) = Check(c3, "free", Reads(c1, r, op))
  BY DEF handle_free, c1, r, c2, c3
<1> QED
  BY <1>1, <1>4, <1>5, ReadyCheck, Zenon DEF E

\* handle_mem_set.
LEMMA MemSetLemma ==
  ASSUME NEW D, NEW F, NEW c, Ready(c, D, F), NEW dst, IsOperand(dst, D)
  PROVE  Ready(handle_mem_set(c, dst), D, F)
<1> DEFINE c1 == operand_to_string(c, dst)
           r == OperandReg(c, dst)
           t1 == c1.reg_count
           c2 == TakeReg(c1)
           t2 == c2.reg_count
           c3 == TakeReg(c2)
           m1 == Mov(c3, t1, Junk)
           m2 == Mov(m1, t2, Junk)
           c4 == emit_runtime_call(m2)
<1>0. Junk \in Tokens
  BY DEF Tokens
<1>1. Ready(c1, D, F) /\ Reads(c1, r, dst)
  BY OperandLemma
<1> HIDE DEF c1, r
<1>2. /\ Ready(c2, D, F) /\ Step(c1, c2, D)
      /\ Pinned(c2, t1, Free, 4)
      /\ c2.val = c1.val
  BY <1>1, ReadyTemp
<1> HIDE DEF c2, t1
<1>3. /\ Ready(c3, D, F) /\ Step(c2, c3, D)
      /\ Pinned(c3, t2, Free, 4)
      /\ c3.val = c2.val
  BY <1>2, ReadyTemp
<1> HIDE DEF c3, t2
<1>4. Pinned(c3, t1, Free, 3)
  BY <1>2, <1>3, PinStep DEF Ready
<1>5. t1 \in Reg /\ t2 \in Reg /\ c3.phys[t1] = Free /\ c3.phys[t2] = Free
  BY <1>3, <1>4 DEF Pinned
<1>6. Ready(m1, D, F) /\ m1.phys = c3.phys
  BY <1>0, <1>3, <1>5, ReadyScratch
<1> HIDE DEF m1
<1>7. m1.phys[t2] = Free
  BY <1>5, <1>6
<1>8. Ready(m2, D, F)
  BY <1>0, <1>5, <1>6, <1>7, ReadyScratch
<1> HIDE DEF m2
<1>9. Ready(c4, D, F)
  BY <1>8, ReadyCall
<1>10. Reads(c3, r, dst)
  BY <1>1, <1>2, <1>3 DEF Reads
<1>11. handle_mem_set(c, dst) = Check(c4, "mem_set", Reads(c3, r, dst))
  BY DEF handle_mem_set, get_temp_phys_reg, c1, r, t1, c2, t2, c3, m1, m2, c4
<1> HIDE DEF c4
<1> QED
  BY <1>9, <1>10, <1>11, ReadyCheck, Zenon

-------------------------------------------------------------------------------
\* The three handlers that may misread: all but the reading is in order.
Done(c, D, F, h) ==
  /\ WF(c, D)
  /\ F \subseteq IRRegs \ D
  /\ \A j \in F : Fresh(c, j)
  /\ c.misread \in {"none", h}

\* Recording a misread ends a handler in a well-formed context.
LEMMA DoneCheck ==
  ASSUME NEW D, NEW F, NEW c, Ready(c, D, F), NEW h \in Handlers, NEW ok \in BOOLEAN
  PROVE  Done(Check(c, h, ok), D, F, h)
<1> DEFINE g == [c EXCEPT !.misread = h]
<1>1. WF(c, D)
  BY DEF Ready
<1>2. /\ WF(g, D)
      /\ g.misread = h
      /\ \A j \in IRRegs : Fresh(c, j) => Fresh(g, j)
  BY <1>1, MisreadLemma
<1>3. Check(c, h, ok) = IF ok THEN c ELSE g
  BY DEF Check
<1> HIDE DEF g
<1> QED
  BY <1>2, <1>3 DEF Ready, Done

\* handle_cmp.
LEMMA CmpLemma ==
  ASSUME NEW D, NEW F, NEW c, Ready(c, D, F), NEW dst \in F,
         NEW a, IsOperand(a, D), NEW b, IsOperand(b, D), NEW wide
  PROVE  Done(handle_cmp(c, dst, a, b, wide), D \cup {dst}, F \ {dst}, "cmp")
<1> DEFINE G == F \ {dst}
           c1 == get_phys_reg(c, dst)
           d == c1.ir[dst]
           c2 == resolve_source_operand(c1, a)
           c3 == resolve_source_operand(c2, b)
           c4 == emit_mem_safe_op(c3, a, b, wide)
           ok == Reads(c4, ResolvedReg(c1, a), a) /\ Reads(c4, ResolvedReg(c2, b), b)
<1>0. dst \in IRRegs /\ dst \notin G /\ "cmp" \in Handlers /\ ok \in BOOLEAN
  BY DEF Ready, Handlers, Reads
<1>1. Ready(c1, D, G) /\ Pinned(c1, d, dst, 4)
  BY ReadyDst
<1> HIDE DEF c1, G
<1>2. Ready(c2, D, G) /\ Step(c1, c2, D)
  BY <1>1, ResolveLemma
<1> HIDE DEF c2, d
<1>3. Pinned(c2, d, dst, 3)
  BY <1>1, <1>2, PinStep DEF Ready
<1>4. Ready(c3, D, G) /\ Step(c2, c3, D)
  BY <1>2, ResolveLemma
<1> HIDE DEF c3
<1>5. Pinned(c3, d, dst, 2)
  BY <1>2, <1>3, <1>4, PinStep DEF Ready
<1>6. Ready(c4, D, G) /\ Step(c3, c4, D)
  BY <1>4, MemSafeLemma
<1> HIDE DEF c4
<1>7. Pinned(c4, d, dst, 1) /\ d \in Reg
  BY <1>4, <1>5, <1>6, PinStep DEF Ready, Pinned
<1>8. Ready(Mov(c4, d, dst), D \cup {dst}, G)
  BY <1>0, <1>6, <1>7, ReadyResult
<1> HIDE DEF ok
<1>9. handle_cmp(c, dst, a, b, wide) = Check(Mov(c4, d, dst), "cmp", ok)
  BY DEF handle_cmp, c1, d, c2, c3, c4, ok
<1> QED
  BY <1>0, <1>8, <1>9, DoneCheck DEF G

\* handle_store.
LEMMA StoreLemma ==
  ASSUME NEW D, NEW F, NEW c, Ready(c, D, F),
         NEW addr, IsOperand(addr, D), NEW src, IsOperand(src, D), NEW wide
  PROVE  Done(handle_store(c, addr, src, wide), D, F, "store")
<1> DEFINE c1 == resolve_source_operand(c, addr)
           c2 == resolve_source_operand(c1, src)
           c3 == IF is_mem(addr) THEN LoadTemp(c2) ELSE c2
           c4 == IF is_mem(src) THEN LoadTemp(c3) ELSE safeguard_64bit_imm(c3, src, wide)
           ok == Reads(c4, ResolvedReg(c, addr), addr) /\ Reads(c4, ResolvedReg(c1, src), src)
<1>0. "store" \in Handlers /\ ok \in BOOLEAN
  BY DEF Handlers, Reads
<1>1. Ready(c1, D, F)
  BY ResolveLemma
<1> HIDE DEF c1
<1>2. Ready(c2, D, F)
  BY <1>1, ResolveLemma
<1> HIDE DEF c2
<1>3. Ready(c3, D, F)
  BY <1>2, LoadTempLemma
<1> HIDE DEF c3
<1>4. Ready(c4, D, F)
  BY <1>3, LoadTempLemma, SafeguardLemma
<1> HIDE DEF c4, ok
<1>5. handle_store(c, addr, src, wide) = Check(c4, "store", ok)
  BY DEF handle_store, c1, c2, c3, c4, ok
<1> QED
  BY <1>0, <1>4, <1>5, DoneCheck

\* handle_mem_copy.
LEMMA MemCopyLemma ==
  ASSUME NEW D, NEW F, NEW c, Ready(c, D, F),
         NEW dst, IsOperand(dst, D), NEW src, IsOperand(src, D)
  PROVE  Done(handle_mem_copy(c, dst, src), D, F, "mem_copy")
<1> DEFINE c1 == operand_to_string(c, dst)
           c2 == operand_to_string(c1, src)
           rd == OperandReg(c, dst)
           rs == OperandReg(c1, src)
           t1 == c2.reg_count
           c3 == TakeReg(c2)
           t2 == c3.reg_count
           c4 == TakeReg(c3)
           v5 == IF rs = NoReg THEN Junk ELSE c4.val[rs]
           c5 == Mov(c4, t1, v5)
           v6 == IF rd = NoReg THEN Junk ELSE c5.val[rd]
           c6 == Mov(c5, t2, v6)
           ok == /\ Reads(c6, IF rd = NoReg THEN NoReg ELSE t2, dst)
                 /\ Reads(c6, IF rs = NoReg THEN NoReg ELSE t1, src)
<1>0. "mem_copy" \in Handlers /\ Junk \in Tokens
  BY DEF Handlers, Tokens
<1>b. ok \in BOOLEAN
  BY ZenonT(60) DEF Reads
<1>s. ASSUME NEW x, Ready(x, D, F), NEW v \in Tokens, NEW d \in Reg, x.phys[d] = Free
      PROVE  Ready(Mov(x, d, v), D, F) /\ Mov(x, d, v).phys = x.phys
  BY <1>s, ReadyScratch
<1>1. Ready(c1, D, F) /\ (rd = NoReg \/ rd \in Reg)
  BY OperandLemma
<1> HIDE DEF c1, rd
<1>2. Ready(c2, D, F) /\ (rs = NoReg \/ rs \in Reg)
  BY <1>1, OperandLemma
<1> HIDE DEF c2, rs
<1>3. /\ Ready(c3, D, F) /\ Step(c2, c3, D)
      /\ Pinned(c3, t1, Free, 4)
  BY <1>2, ReadyTemp
<1> HIDE DEF c3, t1
<1>4. /\ Ready(c4, D, F) /\ Step(c3, c4, D)
      /\ Pinned(c4, t2, Free, 4)
  BY <1>3, ReadyTemp
<1> HIDE DEF c4, t2
<1>5. Pinned(c4, t1, Free, 3)
  BY <1>3, <1>4, PinStep DEF Ready
<1>6. t1 \in Reg /\ t2 \in Reg /\ c4.phys[t1] = Free /\ c4.phys[t2] = Free
  BY <1>4, <1>5 DEF Pinned
<1>7. v5 \in Tokens
  <2>1. c4.val \in [Reg -> Tokens]
    BY <1>4 DEF Ready, WF, TypeOKCtx
  <2> QED
    BY <1>0, <1>2, <2>1
<1> HIDE DEF v5
<1>8. Ready(c5, D, F) /\ c5.phys = c4.phys
  BY <1>4, <1>6, <1>7, <1>s, Zenon
<1> HIDE DEF c5
<1>9. v6 \in Tokens
  <2>1. c5.val \in [Reg -> Tokens]
    BY <1>8 DEF Ready, WF, TypeOKCtx
  <2> QED
    BY <1>0, <1>1, <2>1
<1> HIDE DEF v6
<1>10. c5.phys[t2] = Free
  BY <1>6, <1>8
<1>11. Ready(c6, D, F)
  BY <1>6, <1>8, <1>9, <1>10, <1>s, Zenon
<1> HIDE DEF c6, ok
<1>12. Ready(emit_runtime_call(c6), D, F)
  BY <1>11, ReadyCall
<1>13. handle_mem_copy(c, dst, src) = Check(emit_runtime_call(c6), "mem_copy", ok)
  BY Zenon
     DEF handle_mem_copy, get_temp_phys_reg, c1, c2, rd, rs, t1, c3, t2, c4, v5, c5, v6, c6, ok
<1> QED
  BY <1>0, <1>b, <1>12, <1>13, DoneCheck

\* LCALL, without and with a result.
LEMMA LcallLemma ==
  ASSUME NEW D, NEW F, NEW c, Ready(c, D, F), NEW op, IsOperand(op, D)
  PROVE  /\ Ready(handle_lcall(c, op), D, F)
         /\ \A dst \in F : Ready(lcall_result(handle_lcall(c, op), dst), D \cup {dst}, F \ {dst})
<1> DEFINE c0 == operand_to_string(c, op)
           e == handle_lcall(c, op)
<1>0. Ready(c0, D, F)
  BY OperandLemma
<1> HIDE DEF c0
<1>1. Ready(e, D, F)
  <2>1. Ready(emit_runtime_call(c0), D, F)
    BY <1>0, ReadyCall
  <2> QED
    BY <2>1 DEF emit_runtime_call, handle_lcall, c0
<1> HIDE DEF e
<1>2. ASSUME NEW dst \in F
      PROVE  Ready(lcall_result(e, dst), D \cup {dst}, F \ {dst})
  <2> DEFINE c1 == get_phys_reg(e, dst)
             d == c1.ir[dst]
             G == F \ {dst}
  <2>0. dst \in IRRegs /\ dst \notin G
    BY DEF Ready
  <2>1. Ready(c1, D, G) /\ Pinned(c1, d, dst, 4)
    BY <1>1, ReadyDst
  <2> HIDE DEF c1, G
  <2>2. d \in Reg
    BY <2>1 DEF Pinned
  <2> HIDE DEF d
  <2>3. Ready(Mov(c1, d, dst), D \cup {dst}, G)
    BY <2>0, <2>1, <2>2, ReadyResult
  <2> QED
    BY <2>3 DEF lcall_result, c1, d, G
<1> QED
  BY <1>1, <1>2 DEF e

-------------------------------------------------------------------------------
\* The inductive invariant: the context is well formed for the registers computed
\* so far, and no register that IrGenerator has yet to hand out is located.
MayMisread == {"none", "cmp", "store", "mem_copy"}

CtxInv(c, D, n) ==
  /\ n \in Nat
  /\ D \subseteq {j \in IRRegs : j < n}
  /\ WF(c, D)
  /\ \A j \in Later(n) : Fresh(c, j)
  /\ c.misread \in MayMisread

IInv ==
  /\ CtxInv(m_ctx, computed, next_reg)
  /\ args \in Nat \cup {NoCall}
  /\ frame # NoFrame => args = NoCall /\ frame = end_preamble(m_ctx)

\* A handler starts with a well-formed context and no misread.
LEMMA StartHandler ==
  ASSUME NEW c, NEW D, NEW n, CtxInv(c, D, n)
  PROVE  Ready([c EXCEPT !.misread = "none"], D, Later(n))
<1> DEFINE g == [c EXCEPT !.misread = "none"]
<1>1. WF(c, D) /\ n \in Nat
  BY DEF CtxInv
<1>2. WF(g, D) /\ g.misread = "none" /\ \A j \in IRRegs : Fresh(c, j) => Fresh(g, j)
  BY <1>1, MisreadLemma
<1> HIDE DEF g
<1>3. Later(n) \subseteq IRRegs \ D
  BY <1>1, LaterFacts DEF CtxInv
<1> QED
  BY <1>2, <1>3 DEF Ready, CtxInv, Later, g

\* A handler that computes no register ends with the invariant on contexts.
LEMMA EndUse ==
  ASSUME NEW c, NEW D, NEW n \in Nat, D \subseteq {j \in IRRegs : j < n},
         \/ Ready(c, D, Later(n))
         \/ \E h \in {"cmp", "store", "mem_copy"} : Done(c, D, Later(n), h)
  PROVE  CtxInv(c, D, n)
BY DEF Ready, Done, CtxInv, MayMisread

\* A handler that computes register n ends with the invariant, n being computed.
LEMMA EndCompute ==
  ASSUME NEW c, NEW D, NEW n \in IRRegs, D \subseteq {j \in IRRegs : j < n},
         \/ Ready(c, D \cup {n}, Later(n) \ {n})
         \/ Done(c, D \cup {n}, Later(n) \ {n}, "cmp")
  PROVE  CtxInv(c, D \cup {n}, n + 1)
<1>1. n \in Nat /\ n + 1 \in Nat
  BY IRRegsAssumption
<1>2. D \cup {n} \subseteq {j \in IRRegs : j < n + 1}
  BY <1>1, IRRegsAssumption
<1>3. Later(n + 1) \subseteq Later(n) \ {n}
  BY <1>1, LaterFacts
<1> QED
  BY <1>1, <1>2, <1>3 DEF Ready, Done, CtxInv, MayMisread

\* handle_end_preamble reserves the frame and keeps the stack aligned.
LEMMA EndPreambleLemma ==
  ASSUME NEW c, NEW D, WF(c, D)
  PROVE  LET f == end_preamble(c) IN
         /\ f.sub \in Nat /\ f.pushed \subseteq Reg
         /\ f.sub >= c.stack_offset
         /\ (f.sub + 8 * Cardinality(f.pushed)) % 16 = 0
<1> DEFINE used == get_used_callee_regs(c)
           k == Cardinality(used)
           s == c.stack_offset
           q == (s + k * 8 + 15) \div 16
<1>1. used \subseteq Reg /\ s \in Nat
  BY DEF get_used_callee_regs, WF, TypeOKCtx
<1>2. k \in Nat
  <2>1. IsFiniteSet(Reg)
    BY FS_Interval, TempRegsAssumption DEF Reg
  <2> QED
    BY <1>1, <2>1, FS_Subset, FS_CardinalityType
<1>3. end_preamble(c) = [sub |-> q * 16 - k * 8, pushed |-> used]
  BY DEF end_preamble, get_align
<1> HIDE DEF used, k, s
<1>4. q \in Nat /\ q * 16 >= s + k * 8
  BY <1>1, <1>2
<1> HIDE DEF q
<1>5. q * 16 - k * 8 \in Nat /\ q * 16 - k * 8 >= s
  BY <1>1, <1>2, <1>4
<1>6. (q * 16 - k * 8 + 8 * k) % 16 = 0
  BY <1>2, <1>4
<1> QED
  BY <1>1, <1>3, <1>5, <1>6 DEF k, s

\* A fresh FunctionContext satisfies the invariant.
LEMMA InitInv == Init => IInv
<1> SUFFICES ASSUME Init PROVE IInv
  OBVIOUS
<1>1. WF(FunctionContext, {}) /\ (\A j \in IRRegs : Fresh(FunctionContext, j))
      /\ FunctionContext.misread = "none"
  BY FunctionContextLemma
<1> QED
  BY <1>1 DEF Init, IInv, CtxInv, Later, MayMisread

\* An instruction that only uses registers keeps the invariant.
LEMMA UsesInv ==
  ASSUME IInv, frame = NoFrame, NEW c, Uses(c),
         \/ Ready(c, computed, Later(next_reg))
         \/ \E h \in {"cmp", "store", "mem_copy"} : Done(c, computed, Later(next_reg), h)
  PROVE  IInv'
<1>1. CtxInv(c, computed, next_reg)
  BY EndUse DEF IInv, CtxInv
<1>2. CtxInv(m_ctx', computed', next_reg')
  BY <1>1 DEF Uses
<1> QED
  BY <1>2 DEF IInv, Uses

\* An instruction that computes the next register keeps the invariant.
LEMMA ComputesInv ==
  ASSUME IInv, frame = NoFrame, NEW c, next_reg \in IRRegs, Computes(c),
         \/ Ready(c, computed \cup {next_reg}, Later(next_reg) \ {next_reg})
         \/ Done(c, computed \cup {next_reg}, Later(next_reg) \ {next_reg}, "cmp")
  PROVE  IInv'
<1>1. CtxInv(c, computed \cup {next_reg}, next_reg + 1)
  BY EndCompute, ZenonT(60) DEF IInv, CtxInv
<1>2. CtxInv(m_ctx', computed', next_reg')
  BY <1>1 DEF Computes
<1> QED
  BY <1>2 DEF IInv, Computes

\* The handler of every IR instruction keeps the invariant.
LEMMA NextInv == IInv /\ [Next]_vars => IInv'
<1> SUFFICES ASSUME IInv, [Next]_vars PROVE IInv'
  OBVIOUS
<1> DEFINE F == Later(next_reg)
<1>1. Ready(ctx, computed, F)
  BY StartHandler DEF IInv, ctx
<1>2. CanCompute => next_reg \in F /\ next_reg \in IRRegs /\ frame = NoFrame
  BY IRRegsAssumption DEF CanCompute, Later, Straight
<1>3. \A op \in Sources \cup {ParamOp} : IsOperand(op, computed)
  BY DEF Sources, Components, RegOps, VarOps, RegOp, VarOp, ImmOp, LabelOp, ParamOp, IsOperand
<1>4. /\ \A op \in Components : IsOperand(op, computed)
      /\ \A op \in Sources : IsOperand(op, computed)
      /\ \A op \in Pointers : IsOperand(op, computed)
      /\ \A op \in RegOps : IsOperand(op, computed)
  BY <1>3 DEF Sources, Components, Pointers
<1>5. Straight => frame = NoFrame
  BY DEF Straight
<1> HIDE DEF F
<1>6. CASE EXIT
  <2>1. PICK op \in Components : Uses(handle_exit(ctx, op))
    BY <1>6 DEF EXIT
  <2>2. Ready(handle_exit(ctx, op), computed, F)
    BY <1>1, <1>4, UseComponentLemma DEF handle_exit
  <2> QED
    BY <1>5, <1>6, <2>1, <2>2, UsesInv DEF EXIT, F
<1>7. CASE IF_Z
  <2>1. PICK op \in Components : Uses(handle_if_z(ctx, op))
    BY <1>7 DEF IF_Z
  <2>2. Ready(handle_if_z(ctx, op), computed, F)
    BY <1>1, <1>4, UseComponentLemma DEF handle_if_z
  <2> QED
    BY <1>5, <1>7, <2>1, <2>2, UsesInv DEF IF_Z, F
<1>8. CASE RETURN
  <2>1. PICK op \in Sources : Uses(handle_return(ctx, op))
    BY <1>8 DEF RETURN
  <2>2. Ready(handle_return(ctx, op), computed, F)
    BY <1>1, <1>4, UseSourceLemma
  <2> QED
    BY <1>5, <1>8, <2>1, <2>2, UsesInv DEF RETURN, F
<1>9. CASE ASSIGN_REG
  <2>1. PICK src \in Sources \cup {ParamOp} : Computes(assign_reg(ctx, next_reg, src))
    BY <1>9 DEF ASSIGN_REG
  <2>2. CanCompute
    BY <1>9 DEF ASSIGN_REG
  <2>3. Ready(assign_reg(ctx, next_reg, src), computed \cup {next_reg}, F \ {next_reg})
    BY <1>1, <1>2, <1>3, <2>2, AssignRegLemma
  <2> QED
    BY <1>2, <2>1, <2>2, <2>3, ComputesInv DEF F
<1>10. CASE ASSIGN_VAR
  <2>1. PICK v \in Vars, src \in Sources \cup {ParamOp}, wide \in BOOLEAN :
          Uses(assign_var(ctx, v, src, wide))
    BY <1>10 DEF ASSIGN_VAR
  <2>2. Ready(assign_var(ctx, v, src, wide), computed, F)
    BY <1>1, <1>3, AssignVarLemma
  <2> QED
    BY <1>5, <1>10, <2>1, <2>2, UsesInv DEF ASSIGN_VAR, F
<1>11. CASE PRIM_BINOP
  <2>1. PICK a \in Components, b \in Components, wide \in BOOLEAN, imul \in BOOLEAN :
          Computes(handle_prim_binop(ctx, next_reg, a, b, wide, imul /\ ~wide))
    BY <1>11 DEF PRIM_BINOP
  <2>2. CanCompute
    BY <1>11 DEF PRIM_BINOP
  <2> DEFINE s == imul /\ ~wide
  <2>3. Computes(handle_prim_binop(ctx, next_reg, a, b, wide, s))
    BY <2>1
  <2> HIDE DEF s
  <2>4. Ready(handle_prim_binop(ctx, next_reg, a, b, wide, s),
              computed \cup {next_reg}, F \ {next_reg})
    BY <1>1, <1>2, <1>4, <2>2, PrimBinopLemma
  <2> QED
    BY <1>2, <2>2, <2>3, <2>4, ComputesInv DEF F
<1>12. CASE DIV
  <2>1. PICK a \in Components, b \in Components : Computes(handle_div(ctx, next_reg, a, b))
    BY <1>12 DEF DIV
  <2>2. CanCompute
    BY <1>12 DEF DIV
  <2>3. Ready(handle_div(ctx, next_reg, a, b), computed \cup {next_reg}, F \ {next_reg})
    BY <1>1, <1>2, <1>4, <2>2, DivLemma
  <2> QED
    BY <1>2, <2>1, <2>2, <2>3, ComputesInv DEF F
<1>13. CASE NEG
  <2>1. PICK a \in Components : Computes(handle_neg(ctx, next_reg, a))
    BY <1>13 DEF NEG
  <2>2. CanCompute
    BY <1>13 DEF NEG
  <2>3. Ready(handle_neg(ctx, next_reg, a), computed \cup {next_reg}, F \ {next_reg})
    BY <1>1, <1>2, <1>4, <2>2, NegLemma
  <2> QED
    BY <1>2, <2>1, <2>2, <2>3, ComputesInv DEF F
<1>14. CASE SHIFT
  <2>1. PICK a \in Components, b \in Components : Computes(handle_shift(ctx, next_reg, a, b))
    BY <1>14 DEF SHIFT
  <2>2. CanCompute
    BY <1>14 DEF SHIFT
  <2>3. Ready(handle_shift(ctx, next_reg, a, b), computed \cup {next_reg}, F \ {next_reg})
    BY <1>1, <1>2, <1>4, <2>2, ShiftLemma
  <2> QED
    BY <1>2, <2>1, <2>2, <2>3, ComputesInv DEF F
<1>15. CASE CMP
  <2>1. PICK a \in Pointers, b \in Sources, wide \in BOOLEAN :
          Computes(handle_cmp(ctx, next_reg, a, b, wide))
    BY <1>15 DEF CMP
  <2>2. CanCompute
    BY <1>15 DEF CMP
  <2>3. Done(handle_cmp(ctx, next_reg, a, b, wide),
             computed \cup {next_reg}, F \ {next_reg}, "cmp")
    BY <1>1, <1>2, <1>4, <2>2, CmpLemma
  <2> QED
    BY <1>2, <2>1, <2>2, <2>3, ComputesInv DEF F
<1>16. CASE LOAD
  <2>1. PICK addr \in Pointers : Computes(handle_load(ctx, next_reg, addr))
    BY <1>16 DEF LOAD
  <2>2. CanCompute
    BY <1>16 DEF LOAD
  <2>3. Ready(handle_load(ctx, next_reg, addr), computed \cup {next_reg}, F \ {next_reg})
    BY <1>1, <1>2, <1>4, <2>2, LoadLemma
  <2> QED
    BY <1>2, <2>1, <2>2, <2>3, ComputesInv DEF F
<1>17. CASE STORE
  <2>1. PICK addr \in Pointers, src \in Sources, wide \in BOOLEAN :
          Uses(handle_store(ctx, addr, src, wide))
    BY <1>17 DEF STORE
  <2>2. Done(handle_store(ctx, addr, src, wide), computed, F, "store")
    BY <1>1, <1>4, StoreLemma
  <2> QED
    BY <1>5, <1>17, <2>1, <2>2, UsesInv DEF STORE, F
<1>18. CASE ADDR_OF
  <2>1. PICK v \in Vars : Computes(handle_addr_of(ctx, next_reg, v))
    BY <1>18 DEF ADDR_OF
  <2>2. CanCompute
    BY <1>18 DEF ADDR_OF
  <2>3. Ready(handle_addr_of(ctx, next_reg, v), computed \cup {next_reg}, F \ {next_reg})
    BY <1>1, <1>2, <2>2, AddrOfLemma
  <2> QED
    BY <1>2, <2>1, <2>2, <2>3, ComputesInv DEF F
<1>19. CASE ALLOC
  <2>1. PICK init \in Sources, wide \in BOOLEAN : Computes(handle_alloc(ctx, next_reg, init, wide))
    BY <1>19 DEF ALLOC
  <2>2. CanCompute
    BY <1>19 DEF ALLOC
  <2>3. Ready(handle_alloc(ctx, next_reg, init, wide), computed \cup {next_reg}, F \ {next_reg})
    BY <1>1, <1>2, <1>4, <2>2, AllocLemma
  <2> QED
    BY <1>2, <2>1, <2>2, <2>3, ComputesInv DEF F
<1>20. CASE ALLOC_ARRAY
  <2>1. PICK n \in Components : Computes(handle_alloc_array(ctx, next_reg, n))
    BY <1>20 DEF ALLOC_ARRAY
  <2>2. CanCompute
    BY <1>20 DEF ALLOC_ARRAY
  <2>3. Ready(handle_alloc_array(ctx, next_reg, n), computed \cup {next_reg}, F \ {next_reg})
    BY <1>1, <1>2, <1>4, <2>2, AllocArrayLemma
  <2> QED
    BY <1>2, <2>1, <2>2, <2>3, ComputesInv DEF F
<1>21. CASE FREE
  <2>1. PICK op \in Pointers :
          /\ m_ctx' = handle_free(ctx, op)
          /\ computed' = IF op.kind = "reg" THEN computed \ {op.id} ELSE computed
    BY <1>21 DEF FREE
  <2>2. frame = NoFrame /\ UNCHANGED <<next_reg, args, frame>>
    BY <1>21 DEF FREE, Straight
  <2>3. Ready(handle_free(ctx, op), IF op.kind = "reg" THEN computed \ {op.id} ELSE computed, F)
    BY <1>1, <1>4, FreeLemma
  <2>4. Ready(m_ctx', computed', F)
    BY <2>1, <2>3
  <2>5. CtxInv(m_ctx', computed', next_reg)
    BY <2>1, <2>4, EndUse DEF IInv, CtxInv, F
  <2> QED
    BY <2>2, <2>5 DEF IInv
<1>22. CASE MEM_COPY
  <2>1. PICK dst \in RegOps, src \in RegOps : Uses(handle_mem_copy(ctx, dst, src))
    BY <1>22 DEF MEM_COPY
  <2>2. Done(handle_mem_copy(ctx, dst, src), computed, F, "mem_copy")
    BY <1>1, <1>4, MemCopyLemma
  <2> QED
    BY <1>5, <1>22, <2>1, <2>2, UsesInv DEF MEM_COPY, F
<1>23. CASE MEM_SET
  <2>1. PICK dst \in RegOps : Uses(handle_mem_set(ctx, dst))
    BY <1>23 DEF MEM_SET
  <2>2. Ready(handle_mem_set(ctx, dst), computed, F)
    BY <1>1, <1>4, MemSetLemma
  <2> QED
    BY <1>5, <1>23, <2>1, <2>2, UsesInv DEF MEM_SET, F
<1>24. CASE BEGIN_LCALL_PREP
  BY <1>5, <1>24 DEF BEGIN_LCALL_PREP, IInv
<1>25. CASE PUSH_ARG
  <2>1. PICK op \in Sources : m_ctx' = handle_push_arg(ctx, op)
    BY <1>25 DEF PUSH_ARG
  <2>2. args \in Nat /\ args' \in Nat /\ args # NoCall /\ UNCHANGED <<next_reg, computed, frame>>
    BY <1>25, ArgRegsAssumption DEF PUSH_ARG, NoCall
  <2>3. Ready(handle_push_arg(ctx, op), computed, F)
    BY <1>1, <1>4, UseSourceLemma
  <2>4. CtxInv(handle_push_arg(ctx, op), computed, next_reg)
    BY <2>3, EndUse DEF IInv, CtxInv, F
  <2> QED
    BY <2>1, <2>2, <2>4 DEF IInv
<1>26. CASE LCALL
  <2>0. PICK op \in VarOps \cup {LabelOp} :
          \/ m_ctx' = handle_lcall(ctx, op) /\ UNCHANGED <<next_reg, computed>>
          \/ /\ next_reg \in IRRegs
             /\ m_ctx' = lcall_result(handle_lcall(ctx, op), next_reg)
             /\ computed' = computed \cup {next_reg}
             /\ next_reg' = next_reg + 1
    BY <1>26 DEF LCALL
  <2> DEFINE e == handle_lcall(ctx, op)
  <2>1. args # NoCall /\ args' = NoCall /\ frame' = frame /\ frame = NoFrame
    BY <1>26 DEF LCALL, IInv
  <2>2. /\ Ready(e, computed, F)
        /\ \A dst \in F : Ready(lcall_result(e, dst), computed \cup {dst}, F \ {dst})
    <3>1. IsOperand(op, computed)
      BY <1>4 DEF Sources, Components
    <3> QED
      BY <1>1, <3>1, LcallLemma
  <2>3. \/ m_ctx' = e /\ UNCHANGED <<next_reg, computed>>
        \/ /\ next_reg \in IRRegs
           /\ m_ctx' = lcall_result(e, next_reg)
           /\ computed' = computed \cup {next_reg}
           /\ next_reg' = next_reg + 1
    BY <2>0
  <2> HIDE DEF e
  <2>4. CASE m_ctx' = e /\ UNCHANGED <<next_reg, computed>>
    <3>1. CtxInv(e, computed, next_reg)
      BY <2>2, EndUse DEF IInv, CtxInv, F
    <3> QED
      BY <2>1, <2>4, <3>1 DEF IInv
  <2>5. CASE /\ next_reg \in IRRegs
             /\ m_ctx' = lcall_result(e, next_reg)
             /\ computed' = computed \cup {next_reg}
             /\ next_reg' = next_reg + 1
    <3>1. next_reg \in F
      BY <2>5, IRRegsAssumption DEF F, Later
    <3>2. Ready(lcall_result(e, next_reg), computed \cup {next_reg}, F \ {next_reg})
      BY <2>2, <3>1
    <3>3. CtxInv(lcall_result(e, next_reg), computed \cup {next_reg}, next_reg + 1)
      BY <2>5, <3>2, EndCompute, Zenon DEF IInv, CtxInv, F
    <3> QED
      BY <2>1, <2>5, <3>3 DEF IInv
  <2> QED
    BY <2>3, <2>4, <2>5
<1>27. CASE END_FUNC
  BY <1>27 DEF END_FUNC, IInv
<1>28. CASE BEGIN_FUNC
  <2>1. WF(FunctionContext, {}) /\ (\A j \in IRRegs : Fresh(FunctionContext, j))
        /\ FunctionContext.misread = "none"
    BY FunctionContextLemma
  <2> QED
    BY <1>28, <2>1 DEF BEGIN_FUNC, IInv, CtxInv, Later, MayMisread
<1>29. CASE UNCHANGED vars
  BY <1>29 DEF vars, IInv
<1> QED
  BY <1>6, <1>7, <1>8, <1>9, <1>10, <1>11, <1>12, <1>13, <1>14, <1>15, <1>16, <1>17,
     <1>18, <1>19, <1>20, <1>21, <1>22, <1>23, <1>24, <1>25, <1>26, <1>27, <1>28, <1>29
  DEF Next

\* Every reachable state satisfies the inductive invariant.
THEOREM Invariant == Spec => []IInv
BY InitInv, NextInv, PTL DEF Spec

\* What handle_end_preamble has written is right while the frame stands.
LEMMA FrameFacts ==
  ASSUME IInv, frame # NoFrame
  PROVE  /\ frame.sub \in Nat /\ frame.pushed \subseteq Reg
         /\ frame.sub >= m_ctx.stack_offset
         /\ (frame.sub + 8 * Cardinality(frame.pushed)) % 16 = 0
<1>1. WF(m_ctx, computed) /\ frame = end_preamble(m_ctx)
  BY DEF IInv, CtxInv
<1> DEFINE f == end_preamble(m_ctx)
<1>2. /\ f.sub \in Nat /\ f.pushed \subseteq Reg
      /\ f.sub >= m_ctx.stack_offset
      /\ (f.sub + 8 * Cardinality(f.pushed)) % 16 = 0
  BY <1>1, EndPreambleLemma
<1> QED
  BY <1>1, <1>2

\* Every variable of the code generator keeps its type.
THEOREM TypeCorrect == Spec => []TypeOK
<1>1. IInv => TypeOK
  <2> SUFFICES ASSUME IInv PROVE TypeOK
    OBVIOUS
  <2>1. frame = NoFrame => frame.sub \in Nat \cup {-1} /\ frame.pushed \subseteq Reg
    BY DEF NoFrame
  <2>2. frame # NoFrame => frame.sub \in Nat \cup {-1} /\ frame.pushed \subseteq Reg
    BY FrameFacts
  <2> QED
    BY <2>1, <2>2 DEF IInv, CtxInv, WF, TypeOK
<1> QED
  BY <1>1, Invariant, PTL

\* ir_reg_to_phys_reg and phys_reg_to_ir_reg are inverses, and no IR register is
\* both in a register and in a spill slot, after any sequence of handlers.
THEOREM MapsConsistent == Spec => []LocationsConsistent
<1>1. IInv => LocationsConsistent
  BY DEF IInv, CtxInv, WF, LocationsConsistent
<1> QED
  BY <1>1, Invariant, PTL

\* The allocator loses no value: what get_phys_reg will hand out for a computed
\* IR register, or reload for it, is the value that was computed for it.
THEOREM NoValueLost == Spec => []ValuesHeld
<1>1. IInv => ValuesHeld
  BY DEF IInv, CtxInv, WF, ValuesHeld
<1> QED
  BY <1>1, Invariant, PTL

\* All handlers but handle_cmp, handle_store and handle_mem_copy read the
\* operands of the instruction they were generated for.
THEOREM OperandsAreRead == Spec => []OperandsRead
<1>1. IInv => OperandsRead
  BY DEF IInv, CtxInv, MayMisread, OperandsRead
<1> QED
  BY <1>1, Invariant, PTL

\* The prologue patched in by handle_end_preamble covers the frame and leaves
\* rsp a multiple of 16.
THEOREM PrologueReserves == Spec => []FrameReserved
<1>1. IInv => FrameReserved
  BY FrameFacts DEF FrameReserved
<1> QED
  BY <1>1, Invariant, PTL

\* Spill slots, those of registers saved around a call included, and local variables
\* lie in the frame and never share a byte of it, however spill_register,
\* save_caller_saved_regs and the variables' first uses interleave.
THEOREM CellsNeverOverlap == Spec => []FrameDisjoint
<1>1. IInv => FrameDisjoint
  BY ApartDisjoint DEF IInv, CtxInv, WF, FrameDisjoint
<1> QED
  BY <1>1, Invariant, PTL
===============================================================================
