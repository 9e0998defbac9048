------------------------- MODULE AArch64CodegenProofs -------------------------
(***************************************************************************)
(* For every number N >= 5 of temporary registers and every sequence of    *)
(* instructions, the AArch64 handlers keep the register maps consistent,   *)
(* lose no value that may still be used, lay out the frame without         *)
(* overlaps and read, without exception, the operands they should.         *)
(*                                                                         *)
(* The scratch register of an operand is taken at most four allocations    *)
(* before the instruction that reads it, so that a round of N >= 5         *)
(* registers does not reach it again.                                      *)
(***************************************************************************)
EXTENDS AArch64Codegen, RegAllocProofs

\* Leaves that name no prover go to the SMT solver.
USE SMTT(60)

\* n allocations later, the registers that were further away are as they were.
Survive(c, g, n) ==
  /\ c.reg_count \in Reg /\ g.reg_count \in Reg
  /\ \A q \in Reg : Dist(c.reg_count, q) >= n =>
       /\ g.phys[q] = c.phys[q] /\ g.val[q] = c.val[q]
       /\ Dist(g.reg_count, q) >= Dist(c.reg_count, q) - n

\* The distances of a context are numbers.
LEMMA DistNat ==
  ASSUME NEW r \in Reg, NEW q \in Reg
  PROVE  Dist(r, q) \in Nat
BY DistLemma, TempRegsAssumption

\* reg_count of a context in a handler is a register.
LEMMA ReadyCount ==
  ASSUME NEW D, NEW F, NEW c, Ready(c, D, F)
  PROVE  c.reg_count \in Reg
BY DEF Ready, WF, TypeOKCtx

\* A pinned register is out of reach of the next n allocations.
LEMMA PinSurvive ==
  ASSUME NEW c, NEW g, NEW n \in Nat, Survive(c, g, n),
         NEW d, NEW i, NEW k \in Nat, k >= n, Pinned(c, d, i, k)
  PROVE  Pinned(g, d, i, k - n) /\ g.val[d] = c.val[d]
<1>1. d \in Reg /\ c.phys[d] = i /\ Dist(c.reg_count, d) >= k
  BY DEF Pinned
<1>2. Dist(c.reg_count, d) \in Nat /\ Dist(g.reg_count, d) \in Nat
  BY <1>1, DistNat DEF Survive
<1>3. Dist(c.reg_count, d) >= n
  BY <1>1, <1>2
<1>4. /\ g.phys[d] = c.phys[d] /\ g.val[d] = c.val[d]
      /\ Dist(g.reg_count, d) >= Dist(c.reg_count, d) - n
  BY <1>1, <1>3 DEF Survive
<1>5. Dist(g.reg_count, d) >= k - n
  BY <1>1, <1>2, <1>4
<1> QED
  BY <1>1, <1>4, <1>5 DEF Pinned

\* Allocations add up.
LEMMA SurviveTrans ==
  ASSUME NEW c, NEW g, NEW h, NEW m \in Nat, NEW n \in Nat,
         Survive(c, g, m), Survive(g, h, n)
  PROVE  Survive(c, h, m + n)
<1>0. c.reg_count \in Reg /\ g.reg_count \in Reg /\ h.reg_count \in Reg
  BY DEF Survive
<1> SUFFICES ASSUME NEW q \in Reg, Dist(c.reg_count, q) >= m + n
             PROVE  /\ h.phys[q] = c.phys[q] /\ h.val[q] = c.val[q]
                    /\ Dist(h.reg_count, q) >= Dist(c.reg_count, q) - (m + n)
  BY <1>0 DEF Survive
<1>1. /\ Dist(c.reg_count, q) \in Nat /\ Dist(g.reg_count, q) \in Nat
      /\ Dist(h.reg_count, q) \in Nat
  BY <1>0, DistNat
<1>2. Dist(c.reg_count, q) >= m
  BY <1>1
<1>3. /\ g.phys[q] = c.phys[q] /\ g.val[q] = c.val[q]
      /\ Dist(g.reg_count, q) >= Dist(c.reg_count, q) - m
  BY <1>2 DEF Survive
<1>4. Dist(g.reg_count, q) >= n
  BY <1>1, <1>3
<1>5. /\ h.phys[q] = g.phys[q] /\ h.val[q] = g.val[q]
      /\ Dist(h.reg_count, q) >= Dist(g.reg_count, q) - n
  BY <1>4 DEF Survive
<1> QED
  BY <1>1, <1>3, <1>5

\* A step of the allocator takes one register.
LEMMA KeepsSurvive ==
  ASSUME NEW D, NEW F, NEW G, NEW c, NEW g, Ready(c, D, F), Ready(g, D, G), Keeps(c, g)
  PROVE  Survive(c, g, 1)
BY ReadyCount DEF Keeps, Survive

-------------------------------------------------------------------------------
\* A register that belongs to no computed IR register can be written freely.
LEMMA ReadyOver ==
  ASSUME NEW D, NEW F, NEW c, Ready(c, D, F), NEW v \in Tokens,
         NEW d, NEW x, x \notin D, NEW k, Pinned(c, d, x, k)
  PROVE  LET g == Mov(c, d, v) IN
         /\ Ready(g, D, F) /\ Pinned(g, d, x, k) /\ g.val[d] = v
         /\ g.reg_count = c.reg_count /\ g.phys = c.phys
         /\ \A q \in Reg : q # d => g.val[q] = c.val[q]
<1> DEFINE g == Mov(c, d, v)
<1>1. WF(c, D) /\ d \in Reg /\ c.phys[d] = x
  BY DEF Ready, Pinned
<1>2. /\ WF(g, D \ {c.phys[d]})
      /\ c.phys[d] = v => WF(g, (D \cup {v}) \cap IRRegs)
      /\ g.reg_count = c.reg_count /\ g.phys = c.phys /\ g.ir = c.ir
      /\ g.misread = c.misread /\ g.val[d] = v
      /\ \A q \in Reg : q # d => g.val[q] = c.val[q]
      /\ \A j \in IRRegs : Fresh(c, j) => Fresh(g, j)
  BY <1>1, MovLemma, Zenon
<1>3. D \ {c.phys[d]} = D
  BY <1>1
<1> HIDE DEF g
<1>4. Ready(g, D, F)
  BY <1>2, <1>3 DEF Ready
<1>5. Pinned(g, d, x, k)
  BY <1>2 DEF Pinned
<1> QED
  BY <1>2, <1>4, <1>5 DEF g

\* A scratch register for an address.
LEMMA AddrTempLemma ==
  ASSUME NEW D, NEW F, NEW c, Ready(c, D, F)
  PROVE  LET g == AddrTemp(c) IN
         Ready(g, D, F) /\ Step(c, g, D) /\ g.phys[c.reg_count] = Free
<1>1. Junk \in Tokens /\ AddrTemp(c) = Mov(TakeReg(c), c.reg_count, Junk)
  BY DEF Tokens, AddrTemp, get_temp_phys_reg
<1> DEFINE g == Mov(TakeReg(c), c.reg_count, Junk)
<1>2. /\ Ready(g, D, F) /\ Step(c, g, D)
      /\ Pinned(g, c.reg_count, Free, 4) /\ g.val[c.reg_count] = Junk
  BY <1>1, ReadyTempLoad
<1> HIDE DEF g
<1> QED
  BY <1>1, <1>2 DEF Pinned, g

\* emit_get_var_addr takes one register.
LEMMA VarAddrLemma ==
  ASSUME NEW D, NEW F, NEW c, Ready(c, D, F), NEW v \in Vars
  PROVE  LET g == emit_get_var_addr(c, v) IN
         Ready(g, D, F) /\ Step(c, g, D) /\ g.phys[c.reg_count] = Free
<1> DEFINE t == AddrTemp(c)
           g == emit_get_var_addr(c, v)
<1>1. Ready(t, D, F) /\ Step(c, t, D) /\ t.phys[c.reg_count] = Free
  BY AddrTempLemma
<1> HIDE DEF t
<1>2. g = var_location(t, v)
  BY DEF emit_get_var_addr, t
<1> HIDE DEF g
<1>3. WF(t, D)
  BY <1>1 DEF Ready
<1>4. /\ Step(t, g, D)
      /\ g.reg_count = t.reg_count /\ g.phys = t.phys /\ g.ir = t.ir /\ g.val = t.val
      /\ \A j \in IRRegs : Fresh(t, j) => Fresh(g, j)
  BY <1>2, <1>3, VarLemma
<1>5. Ready(g, D, F)
  BY <1>1, <1>4, ReadyStep
<1>6. Step(c, g, D)
  BY <1>1, <1>4 DEF Step, Keeps
<1> QED
  BY <1>1, <1>4, <1>5, <1>6 DEF g

-------------------------------------------------------------------------------
\* What load_into_reg does before it writes reg: it takes at most one register,
\* and the operand is then where the copying instruction looks for it.
LEMMA FetchLemma ==
  ASSUME NEW D, NEW F, NEW c, Ready(c, D, F), NEW op, IsOperand(op, D), NEW d
  PROVE  \E h : /\ Ready(h, D, F) /\ Step(c, h, D)
                /\ \A q \in Reg : h.phys[q] \in {Free, c.phys[q], Expected(op)}
                /\ load_into_reg(c, op, d) = Mov(h, d, Expected(op))
<1>0. WF(c, D)
  BY DEF Ready
<1>1. CASE op.kind = "reg"
  <2> DEFINE h == get_phys_reg(c, op.id)
  <2>1. op.id \in D /\ Expected(op) = op.id
    BY <1>1 DEF IsOperand, Expected
  <2>2. load_into_reg(c, op, d) = Mov(h, d, h.val[h.ir[op.id]])
    BY <1>1 DEF load_into_reg
  <2>3. /\ Ready(h, D, F) /\ Step(c, h, D)
        /\ h.ir[op.id] \in Reg /\ h.phys[h.ir[op.id]] = op.id /\ h.val[h.ir[op.id]] = op.id
        /\ \A q \in Reg : h.phys[q] \in {Free, c.phys[q], op.id}
    BY <2>1, ReadyUse, Zenon
  <2> HIDE DEF h
  <2> QED
    BY <2>1, <2>2, <2>3
<1>2. ASSUME NEW h, Ready(h, D, F), Step(c, h, D)
      PROVE  \A q \in Reg : Dist(c.reg_count, q) >= 1 => h.phys[q] = c.phys[q]
  BY <1>2 DEF Step, Keeps
<1>3. \A q \in Reg : q # c.reg_count => Dist(c.reg_count, q) >= 1
  BY <1>0, DistLemma, TempRegsAssumption DEF WF, TypeOKCtx
<1>4. CASE op.kind = "var"
  <2> DEFINE h == emit_get_var_addr(c, op.id)
  <2>1. op.id \in Vars /\ Expected(op) = Label
    BY <1>4 DEF IsOperand, Expected
  <2>2. load_into_reg(c, op, d) = Mov(h, d, Label)
    BY <1>4 DEF load_into_reg
  <2>3. Ready(h, D, F) /\ Step(c, h, D) /\ h.phys[c.reg_count] = Free
    BY <2>1, VarAddrLemma
  <2> HIDE DEF h
  <2> QED
    BY <1>2, <1>3, <2>1, <2>2, <2>3
<1>5. CASE op.kind = "stack"
  <2> DEFINE h == AddrTemp(c)
  <2>1. load_into_reg(c, op, d) = Mov(h, d, Label) /\ Expected(op) = Label
    BY <1>5 DEF load_into_reg, Expected
  <2>2. Ready(h, D, F) /\ Step(c, h, D) /\ h.phys[c.reg_count] = Free
    BY AddrTempLemma
  <2> HIDE DEF h
  <2> QED
    BY <1>2, <1>3, <2>1, <2>2
<1>6. CASE op.kind \notin {"reg", "var", "stack"}
  <2>1. load_into_reg(c, op, d) = Mov(c, d, Label) /\ Expected(op) = Label
    BY <1>6 DEF load_into_reg, Expected
  <2>2. Step(c, c, D)
    BY <1>0, StepSame
  <2> QED
    BY <2>1, <2>2
<1> QED
  BY <1>1, <1>4, <1>5, <1>6

\* load_into_reg copies the operand into d, a register of no computed value.
LEMMA LoadIntoLemma ==
  ASSUME NEW D, NEW F, NEW c, Ready(c, D, F), NEW op, IsOperand(op, D),
         NEW d, NEW x, x \notin D, NEW k \in Nat, k >= 1, Pinned(c, d, x, k)
  PROVE  LET g == load_into_reg(c, op, d) IN
         /\ Ready(g, D, F) /\ Pinned(g, d, x, k - 1) /\ g.val[d] = Expected(op)
         /\ \A q \in Reg \ {d} : Dist(c.reg_count, q) >= 1 =>
              /\ g.phys[q] = c.phys[q] /\ g.val[q] = c.val[q]
              /\ Dist(g.reg_count, q) >= Dist(c.reg_count, q) - 1
         /\ \A q \in Reg : g.phys[q] \in {Free, c.phys[q], Expected(op)}
<1> DEFINE g == load_into_reg(c, op, d)
           v == Expected(op)
<1>1. WF(c, D) /\ d \in Reg
  BY DEF Ready, Pinned
<1>2. v \in Tokens
  BY <1>1 DEF IsOperand, Expected, Tokens, WF
<1> HIDE DEF v
<1>3. PICK h : /\ Ready(h, D, F) /\ Step(c, h, D)
               /\ \A q \in Reg : h.phys[q] \in {Free, c.phys[q], v}
               /\ g = Mov(h, d, v)
  BY FetchLemma DEF v
<1> HIDE DEF g
<1>4. Pinned(h, d, x, k - 1)
  BY <1>1, <1>3, PinStep
<1>5. /\ Ready(g, D, F) /\ Pinned(g, d, x, k - 1) /\ g.val[d] = v
      /\ g.reg_count = h.reg_count /\ g.phys = h.phys
      /\ \A q \in Reg : q # d => g.val[q] = h.val[q]
  BY <1>2, <1>3, <1>4, ReadyOver
<1> QED
  BY <1>3, <1>5 DEF Step, Keeps, g, v

\* load_to_reg copies the operand into a scratch register of its own.
LEMMA LoadToLemma ==
  ASSUME NEW D, NEW F, NEW c, Ready(c, D, F), NEW op, IsOperand(op, D)
  PROVE  LET g == load_to_reg(c, op) IN
         /\ Ready(g, D, F) /\ Survive(c, g, 2)
         /\ Pinned(g, c.reg_count, Free, 3) /\ g.val[c.reg_count] = Expected(op)
         /\ \A q \in Reg : g.phys[q] \in {Free, c.phys[q], Expected(op)}
<1> DEFINE t == c.reg_count
           c1 == TakeReg(c)
           g == load_to_reg(c, op)
<1>0. WF(c, D)
  BY DEF Ready
<1>1. /\ Ready(c1, D, F) /\ Step(c, c1, D)
      /\ Pinned(c1, t, Free, 4)
      /\ c1.val = c.val
  BY ReadyTemp
<1> HIDE DEF c1
<1>2. g = load_into_reg(c1, op, t)
  BY DEF load_to_reg, get_temp_phys_reg, c1
<1>3. Free \notin D /\ t \in Reg
  BY <1>0, IRRegsAssumption DEF WF, TypeOKCtx, Free
<1> HIDE DEF t, g
<1>4. /\ Ready(g, D, F) /\ Pinned(g, t, Free, 4 - 1) /\ g.val[t] = Expected(op)
      /\ \A q \in Reg \ {t} : Dist(c1.reg_count, q) >= 1 =>
           /\ g.phys[q] = c1.phys[q] /\ g.val[q] = c1.val[q]
           /\ Dist(g.reg_count, q) >= Dist(c1.reg_count, q) - 1
      /\ \A q \in Reg : g.phys[q] \in {Free, c1.phys[q], Expected(op)}
  BY <1>1, <1>2, <1>3, LoadIntoLemma
<1>5. Survive(c, g, 2)
  <2> SUFFICES ASSUME NEW q \in Reg, Dist(c.reg_count, q) >= 2
               PROVE  /\ g.phys[q] = c.phys[q] /\ g.val[q] = c.val[q]
                      /\ Dist(g.reg_count, q) >= Dist(c.reg_count, q) - 2
    BY <1>1, <1>4, ReadyCount DEF Survive
  <2>1. /\ Dist(c.reg_count, q) \in Nat /\ Dist(c1.reg_count, q) \in Nat
        /\ Dist(g.reg_count, q) \in Nat
    BY <1>1, <1>4, ReadyCount, DistNat
  <2>2. q # t
    BY <1>3, <2>1, DistLemma DEF t
  <2>3. Dist(c.reg_count, q) >= 1
    BY <2>1
  <2>4. /\ c1.phys[q] = c.phys[q] /\ c1.val[q] = c.val[q]
        /\ Dist(c1.reg_count, q) >= Dist(c.reg_count, q) - 1
    BY <1>1, <2>3 DEF Step, Keeps
  <2>5. Dist(c1.reg_count, q) >= 1
    BY <2>1, <2>4
  <2>6. /\ g.phys[q] = c1.phys[q] /\ g.val[q] = c1.val[q]
        /\ Dist(g.reg_count, q) >= Dist(c1.reg_count, q) - 1
    BY <1>4, <2>2, <2>5
  <2> QED
    BY <2>1, <2>4, <2>6
<1>6. \A q \in Reg : c1.phys[q] \in {Free, c.phys[q]}
  <2>1. \A q \in Reg : q # t => Dist(c.reg_count, q) >= 1
    BY <1>0, DistLemma, TempRegsAssumption DEF WF, TypeOKCtx, t
  <2> QED
    BY <1>1, <2>1 DEF Step, Keeps, Pinned
<1>7. \A q \in Reg : g.phys[q] \in {Free, c.phys[q], Expected(op)}
  BY <1>4, <1>6, Zenon
<1> QED
  BY <1>4, <1>5, <1>7 DEF g, t

\* load_to_reg of a destination that has no value yet: it gets a register of its
\* own, next to the scratch register t.
LEMMA LoadDstLemma ==
  ASSUME NEW D, NEW F, NEW c, Ready(c, D, F), NEW dst \in F
  PROVE  LET g == load_to_reg(c, RegOp(dst)) IN
         /\ Ready(g, D, F \ {dst}) /\ Survive(c, g, 2)
         /\ Pinned(g, c.reg_count, Free, 3)
         /\ Pinned(g, g.ir[dst], dst, 4)
<1> DEFINE t == c.reg_count
           c1 == TakeReg(c)
           c2 == get_phys_reg(c1, dst)
           d == c2.ir[dst]
           v == c2.val[d]
           g == load_to_reg(c, RegOp(dst))
           G == F \ {dst}
<1>0. WF(c, D) /\ dst \in IRRegs
  BY DEF Ready
<1>1. /\ Ready(c1, D, F) /\ Step(c, c1, D)
      /\ Pinned(c1, t, Free, 4)
      /\ c1.val = c.val
  BY ReadyTemp
<1>2. g = Mov(c2, t, v)
  BY DEF load_to_reg, load_into_reg, get_temp_phys_reg, RegOp
<1> HIDE DEF c1, g
<1>3. /\ Ready(c2, D, G) /\ Pinned(c2, d, dst, 4) /\ Keeps(c1, c2)
  BY <1>1, ReadyDst
<1> HIDE DEF c2, G, t
<1>4. v \in Tokens
  BY <1>3 DEF Ready, WF, TypeOKCtx, Pinned
<1> HIDE DEF v
<1>5. Survive(c, c1, 1) /\ Survive(c1, c2, 1)
  BY <1>1, <1>3, KeepsSurvive DEF Step
<1>7. Pinned(c2, t, Free, 4 - 1)
  BY <1>1, <1>5, PinSurvive
<1>8. Survive(c, c2, 1 + 1)
  BY <1>5, SurviveTrans
<1>9. Free \notin D
  BY <1>0, IRRegsAssumption DEF WF, Free
<1>10. /\ Ready(g, D, G) /\ Pinned(g, t, Free, 3) /\ g.val[t] = v
       /\ g.reg_count = c2.reg_count /\ g.phys = c2.phys
       /\ \A q \in Reg : q # t => g.val[q] = c2.val[q]
  BY <1>2, <1>3, <1>4, <1>7, <1>9, ReadyOver
<1>11. Survive(c, g, 2)
  <2>1. \A q \in Reg : Dist(c.reg_count, q) >= 2 => q # t
    BY <1>0, DistLemma, TempRegsAssumption DEF WF, TypeOKCtx, t
  <2> QED
    BY <1>8, <1>10, <2>1 DEF Survive
<1>12. Pinned(g, g.ir[dst], dst, 4)
  <2>1. Pinned(g, d, dst, 4)
    BY <1>3, <1>10 DEF Pinned
  <2>2. g.ir[dst] = d
    BY <1>0, <1>10, <2>1, PinnedGet DEF Ready
  <2> QED
    BY <2>1, <2>2
<1> QED
  BY <1>10, <1>11, <1>12 DEF g, t, G

\* store_to_operand into the register that the destination was given.
LEMMA StoreResultLemma ==
  ASSUME NEW D, NEW F, NEW c, Ready(c, D, F), NEW dst \in IRRegs, dst \notin F,
         NEW d, NEW k \in Nat, Pinned(c, d, dst, k), NEW t, c.val[t] = dst
  PROVE  Ready(StoreResult(c, dst, t), D \cup {dst}, F)
<1>1. c.ir[dst] = d /\ get_phys_reg(c, dst) = c /\ d \in Reg
  BY PinnedGet DEF Ready, Pinned
<1>2. StoreResult(c, dst, t) = Mov(c, d, dst)
  BY <1>1 DEF StoreResult, store_to_operand, RegOp
<1> QED
  BY <1>1, <1>2, ReadyResult

-------------------------------------------------------------------------------
\* The handlers, one lemma each.

\* handle_exit, handle_if_z, handle_return, handle_push_arg, handle_set_hidden_arg.
LEMMA UseOperandLemma ==
  ASSUME NEW D, NEW F, NEW c, Ready(c, D, F), NEW op, IsOperand(op, D), NEW h
  PROVE  Ready(UseOperand(c, op, h), D, F)
<1> DEFINE g == load_to_reg(c, op)
<1>1. Ready(g, D, F) /\ g.val[c.reg_count] = Expected(op)
  BY LoadToLemma
<1> HIDE DEF g
<1>2. Copy(g, c.reg_count, op)
  BY <1>1 DEF Copy
<1>3. UseOperand(c, op, h) = Check(g, h, Copy(g, c.reg_count, op))
  BY DEF UseOperand, g
<1> QED
  BY <1>1, <1>2, <1>3, ReadyCheck, Zenon

\* handle_assign to an IR register.
LEMMA AssignRegLemma ==
  ASSUME NEW D, NEW F, NEW c, Ready(c, D, F), NEW dst \in F, NEW src, IsOperand(src, D)
  PROVE  Ready(assign_reg(c, dst, src), D \cup {dst}, F \ {dst})
<1> DEFINE t == c.reg_count
           G == F \ {dst}
           c1 == load_to_reg(c, src)
           m == Mov(c1, t, dst)
           c2 == Check(m, "assign", Copy(c1, t, src))
           c3 == get_phys_reg(c2, dst)
           d == c3.ir[dst]
           g == Mov(c3, d, c3.val[t])
<1>0. dst \in IRRegs /\ dst \in Tokens /\ dst \notin G /\ Free \notin D
  BY IRRegsAssumption DEF Ready, Tokens, WF, Free
<1>1. Ready(c1, D, F) /\ Pinned(c1, t, Free, 3) /\ c1.val[t] = Expected(src)
  BY LoadToLemma
<1>2. assign_reg(c, dst, src) = g
  BY DEF assign_reg, store_to_operand, RegOp
<1> HIDE DEF c1, t, G, g
<1>3. Ready(m, D, F) /\ Pinned(m, t, Free, 3) /\ m.val[t] = dst
  BY <1>0, <1>1, ReadyOver
<1>4. c2 = m
  BY <1>1 DEF Copy, Check
<1> HIDE DEF m, c2
<1>5. Ready(c3, D, G) /\ Pinned(c3, d, dst, 4) /\ Keeps(c2, c3)
  BY <1>3, <1>4, ReadyDst DEF G
<1> HIDE DEF c3
<1>6. Survive(c2, c3, 1)
  BY <1>3, <1>4, <1>5, KeepsSurvive
<1>7. c3.val[t] = dst
  BY <1>3, <1>4, <1>6, PinSurvive
<1>8. d \in Reg
  BY <1>5 DEF Pinned
<1> HIDE DEF d
<1>9. Ready(Mov(c3, d, dst), D \cup {dst}, G)
  BY <1>0, <1>5, <1>8, ReadyResult
<1> QED
  BY <1>2, <1>7, <1>9 DEF G, g

\* handle_assign to a variable.
LEMMA AssignVarLemma ==
  ASSUME NEW D, NEW F, NEW c, Ready(c, D, F), NEW v \in Vars, NEW src, IsOperand(src, D)
  PROVE  Ready(assign_var(c, v, src), D, F)
<1> DEFINE t == c.reg_count
           c1 == load_to_reg(c, src)
           c2 == emit_get_var_addr(c1, v)
<1>1. Ready(c1, D, F) /\ Pinned(c1, t, Free, 3) /\ c1.val[t] = Expected(src)
  BY LoadToLemma
<1> HIDE DEF c1, t
<1>2. Ready(c2, D, F) /\ Step(c1, c2, D)
  BY <1>1, VarAddrLemma
<1> HIDE DEF c2
<1>3. Copy(c2, t, src)
  BY <1>1, <1>2, PinStep DEF Ready, Copy
<1>4. assign_var(c, v, src) = Check(c2, "assign", Copy(c2, t, src))
  BY DEF assign_var, store_to_operand, VarOp, c1, c2, t
<1> QED
  BY <1>2, <1>3, <1>4, ReadyCheck, Zenon

\* handle_prim_binop, handle_mod.
LEMMA PrimBinopLemma ==
  ASSUME NEW D, NEW F, NEW c, Ready(c, D, F), NEW dst \in F,
         NEW a, IsOperand(a, D), NEW b, IsOperand(b, D), NEW mod
  PROVE  Ready(handle_prim_binop(c, dst, a, b, mod), D \cup {dst}, F \ {dst})
<1> DEFINE G == F \ {dst}
           c1 == get_phys_reg(c, dst)
           d == c1.ir[dst]
           c2 == load_into_reg(c1, a, d)
           t == c2.reg_count
           c3 == load_to_reg(c2, b)
           c4 == IF mod THEN AddrTemp(c3) ELSE c3
           m == Mov(c4, d, dst)
           ok == Copy(c4, d, a) /\ Copy(c4, t, b)
<1>0. dst \in IRRegs /\ dst \notin G /\ dst \notin D
  BY DEF Ready
<1>1. Ready(c1, D, G) /\ Pinned(c1, d, dst, 4)
  BY ReadyDst
<1> HIDE DEF c1, d, G
<1>2. Ready(c2, D, G) /\ Pinned(c2, d, dst, 4 - 1) /\ c2.val[d] = Expected(a)
  BY <1>0, <1>1, LoadIntoLemma
<1> HIDE DEF c2
<1>3. /\ Ready(c3, D, G) /\ Survive(c2, c3, 2)
      /\ Pinned(c3, t, Free, 3) /\ c3.val[t] = Expected(b)
  BY <1>2, LoadToLemma
<1> HIDE DEF c3, t
<1>4. Pinned(c3, d, dst, 3 - 2) /\ c3.val[d] = Expected(a)
  <2>1. Pinned(c3, d, dst, 3 - 2) /\ c3.val[d] = c2.val[d]
    BY <1>2, <1>3, PinSurvive
  <2> QED
    BY <1>2, <2>1
<1>5. /\ Ready(c4, D, G) /\ Pinned(c4, d, dst, 0)
      /\ c4.val[d] = Expected(a) /\ c4.val[t] = Expected(b)
  <2>1. CASE mod
    <3>1. c4 = AddrTemp(c3)
      BY <2>1
    <3> HIDE DEF c4
    <3>2. Ready(c4, D, G) /\ Step(c3, c4, D)
      BY <1>3, <3>1, AddrTempLemma
    <3>3. Pinned(c4, d, dst, 1 - 1) /\ c4.val[d] = c3.val[d] /\ c4.val[t] = c3.val[t]
      BY <1>3, <1>4, <3>2, PinStep DEF Ready
    <3> QED
      BY <1>3, <1>4, <3>2, <3>3
  <2>2. CASE ~mod
    <3>1. c4 = c3
      BY <2>2
    <3>2. Pinned(c3, d, dst, 0)
      <4>1. d \in Reg /\ Dist(c3.reg_count, d) \in Nat
        BY <1>3, <1>4, ReadyCount, DistNat DEF Pinned
      <4> QED
        BY <1>4, <4>1 DEF Pinned
    <3> QED
      BY <1>3, <1>4, <3>1, <3>2
  <2> QED
    BY <2>1, <2>2
<1> HIDE DEF c4
<1>6. ok
  BY <1>5 DEF Copy
<1>7. Ready(m, D \cup {dst}, G)
  <2>1. d \in Reg
    BY <1>5 DEF Pinned
  <2> QED
    BY <1>0, <1>5, <2>1, ReadyResult
<1>8. handle_prim_binop(c, dst, a, b, mod) = Check(m, "prim_binop", ok)
  BY Zenon DEF handle_prim_binop, c1, d, c2, t, c3, c4
<1> HIDE DEF m, ok
<1> QED
  BY <1>6, <1>7, <1>8, ReadyCheck, ZenonT(60) DEF G

\* handle_neg, handle_logical_not.
LEMMA NegLemma ==
  ASSUME NEW D, NEW F, NEW c, Ready(c, D, F), NEW dst \in F, NEW a, IsOperand(a, D)
  PROVE  Ready(handle_neg(c, dst, a), D \cup {dst}, F \ {dst})
<1> DEFINE G == F \ {dst}
           c1 == get_phys_reg(c, dst)
           d == c1.ir[dst]
           t == c1.reg_count
           c2 == load_to_reg(c1, a)
           m == Mov(c2, d, dst)
<1>0. dst \in IRRegs /\ dst \notin G
  BY DEF Ready
<1>1. Ready(c1, D, G) /\ Pinned(c1, d, dst, 4)
  BY ReadyDst
<1> HIDE DEF c1, d, G
<1>2. Ready(c2, D, G) /\ Survive(c1, c2, 2) /\ c2.val[t] = Expected(a)
  BY <1>1, LoadToLemma
<1> HIDE DEF c2, t
<1>3. Pinned(c2, d, dst, 4 - 2) /\ d \in Reg
  <2>1. Pinned(c2, d, dst, 4 - 2)
    BY <1>1, <1>2, PinSurvive
  <2> QED
    BY <2>1 DEF Pinned
<1>4. Ready(m, D \cup {dst}, G)
  BY <1>0, <1>2, <1>3, ReadyResult
<1>5. Copy(c2, t, a)
  BY <1>2 DEF Copy
<1>6. handle_neg(c, dst, a) = Check(m, "neg", Copy(c2, t, a))
  BY DEF handle_neg, c1, c2, d, t
<1> HIDE DEF m
<1> QED
  BY <1>4, <1>5, <1>6, ReadyCheck, ZenonT(60) DEF G

\* handle_cmp.
LEMMA CmpLemma ==
  ASSUME NEW D, NEW F, NEW c, Ready(c, D, F), NEW dst \in F,
         NEW a, IsOperand(a, D), NEW b, IsOperand(b, D)
  PROVE  Ready(handle_cmp(c, dst, a, b), D \cup {dst}, F \ {dst})
<1> DEFINE G == F \ {dst}
           t1 == c.reg_count
           c1 == load_to_reg(c, a)
           t2 == c1.reg_count
           c2 == load_to_reg(c1, b)
           c3 == get_phys_reg(c2, dst)
           d == c3.ir[dst]
           m == Mov(c3, d, dst)
           ok == Copy(c3, t1, a) /\ Copy(c3, t2, b)
<1>0. dst \in IRRegs /\ dst \notin G
  BY DEF Ready
<1>1. Ready(c1, D, F) /\ Pinned(c1, t1, Free, 3) /\ c1.val[t1] = Expected(a)
  BY LoadToLemma
<1> HIDE DEF c1, t1, G
<1>2. /\ Ready(c2, D, F) /\ Survive(c1, c2, 2)
      /\ Pinned(c2, t2, Free, 3) /\ c2.val[t2] = Expected(b)
  BY <1>1, LoadToLemma
<1> HIDE DEF c2, t2
<1>3. Ready(c3, D, G) /\ Pinned(c3, d, dst, 4) /\ Keeps(c2, c3)
  BY <1>2, ReadyDst DEF G
<1> HIDE DEF c3
<1>4. Survive(c2, c3, 1)
  BY <1>2, <1>3, KeepsSurvive
<1>5. Pinned(c2, t1, Free, 3 - 2) /\ c2.val[t1] = c1.val[t1]
  BY <1>1, <1>2, PinSurvive
<1>6. c3.val[t1] = c2.val[t1]
  <2>1. Pinned(c2, t1, Free, 1)
    BY <1>5
  <2> QED
    BY <1>4, <2>1, PinSurvive
<1>7. c3.val[t2] = c2.val[t2]
  BY <1>2, <1>4, PinSurvive
<1>8. ok
  BY <1>1, <1>2, <1>5, <1>6, <1>7 DEF Copy
<1>9. d \in Reg
  BY <1>3 DEF Pinned
<1>10. handle_cmp(c, dst, a, b) = Check(m, "cmp", ok)
  BY Zenon DEF handle_cmp, c1, c2, c3, d, t1, t2
<1> HIDE DEF d
<1>11. Ready(m, D \cup {dst}, G)
  BY <1>0, <1>3, <1>9, ReadyResult
<1> HIDE DEF m, ok
<1> QED
  BY <1>8, <1>10, <1>11, ReadyCheck, ZenonT(60) DEF G

\* handle_load.
LEMMA LoadLemma ==
  ASSUME NEW D, NEW F, NEW c, Ready(c, D, F), NEW dst \in F, NEW addr, IsOperand(addr, D)
  PROVE  Ready(handle_load(c, dst, addr), D \cup {dst}, F \ {dst})
<1> DEFINE G == F \ {dst}
           s == c.reg_count
           c1 == load_to_reg(c, addr)
           t == c1.reg_count
           c2 == load_to_reg(c1, RegOp(dst))
           d == c2.ir[dst]
           m == Mov(c2, t, dst)
<1>0. dst \in IRRegs /\ dst \in Tokens /\ dst \notin G /\ Free \notin D
  BY IRRegsAssumption DEF Ready, Tokens, WF, Free
<1>1. Ready(c1, D, F) /\ Pinned(c1, s, Free, 3) /\ c1.val[s] = Expected(addr)
  BY LoadToLemma
<1> HIDE DEF c1, s, G
<1>2. /\ Ready(c2, D, G) /\ Survive(c1, c2, 2)
      /\ Pinned(c2, t, Free, 3) /\ Pinned(c2, d, dst, 4)
  BY <1>1, LoadDstLemma DEF G
<1> HIDE DEF c2, d, t
<1>3. Copy(c2, s, addr)
  <2>1. c2.val[s] = c1.val[s]
    BY <1>1, <1>2, PinSurvive
  <2> QED
    BY <1>1, <2>1 DEF Copy
<1>4. Ready(m, D, G) /\ m.val[t] = dst /\ m.reg_count = c2.reg_count /\ m.phys = c2.phys
  BY <1>0, <1>2, ReadyOver
<1>5. handle_load(c, dst, addr) = StoreResult(Check(m, "load", Copy(c2, s, addr)), dst, t)
  BY DEF handle_load, c1, c2, s, t
<1> HIDE DEF m
<1>6. Check(m, "load", Copy(c2, s, addr)) = m
  BY <1>3 DEF Check
<1>7. Pinned(m, d, dst, 4)
  BY <1>2, <1>4 DEF Pinned
<1> QED
  BY <1>0, <1>4, <1>5, <1>6, <1>7, StoreResultLemma DEF G

\* handle_store.
LEMMA StoreLemma ==
  ASSUME NEW D, NEW F, NEW c, Ready(c, D, F),
         NEW addr, IsOperand(addr, D), NEW src, IsOperand(src, D)
  PROVE  LET c1 == load_to_reg(c, addr)
             c2 == load_to_reg(c1, src)
         IN  /\ Ready(c2, D, F)
             /\ Copy(c2, c.reg_count, addr) /\ Copy(c2, c1.reg_count, src)
             /\ Ready(handle_store(c, addr, src), D, F)
<1> DEFINE s == c.reg_count
           c1 == load_to_reg(c, addr)
           t == c1.reg_count
           c2 == load_to_reg(c1, src)
           ok == Copy(c2, s, addr) /\ Copy(c2, t, src)
<1>1. Ready(c1, D, F) /\ Pinned(c1, s, Free, 3) /\ c1.val[s] = Expected(addr)
  BY LoadToLemma
<1> HIDE DEF c1, s
<1>2. Ready(c2, D, F) /\ Survive(c1, c2, 2) /\ c2.val[t] = Expected(src)
  BY <1>1, LoadToLemma
<1> HIDE DEF c2, t
<1>3. c2.val[s] = c1.val[s]
  BY <1>1, <1>2, PinSurvive
<1>4. ok
  BY <1>1, <1>2, <1>3 DEF Copy
<1>5. handle_store(c, addr, src) = Check(c2, "store", ok)
  BY DEF handle_store, c1, c2, s, t
<1>6. Ready(handle_store(c, addr, src), D, F)
  <2> HIDE DEF ok
  <2> QED
    BY <1>2, <1>4, <1>5, ReadyCheck, ZenonT(60)
<1> QED
  BY <1>2, <1>4, <1>6 DEF c1, c2, s, t

\* A result, in scratch register t, goes to a destination that has no register yet.
LEMMA MadeLemma ==
  ASSUME NEW D, NEW F, NEW c, Ready(c, D, F), NEW dst \in F
  PROVE  LET l == load_to_reg(c, RegOp(dst))
             m == Mov(l, c.reg_count, dst)
         IN  /\ Ready(m, D, F \ {dst})
             /\ Pinned(m, c.reg_count, Free, 3) /\ m.val[c.reg_count] = dst
             /\ Pinned(m, l.ir[dst], dst, 4)
<1> DEFINE G == F \ {dst}
           t == c.reg_count
           l == load_to_reg(c, RegOp(dst))
           d == l.ir[dst]
           m == Mov(l, t, dst)
<1>0. dst \in Tokens /\ Free \notin D
  BY IRRegsAssumption DEF Ready, Tokens, WF, Free
<1>1. Ready(l, D, G) /\ Pinned(l, t, Free, 3) /\ Pinned(l, d, dst, 4)
  BY LoadDstLemma
<1> HIDE DEF l, d, t, G
<1>2. /\ Ready(m, D, G) /\ Pinned(m, t, Free, 3) /\ m.val[t] = dst
      /\ m.reg_count = l.reg_count /\ m.phys = l.phys
  BY <1>0, <1>1, ReadyOver
<1> HIDE DEF m
<1>3. Pinned(m, d, dst, 4)
  BY <1>1, <1>2 DEF Pinned
<1> QED
  BY <1>2, <1>3 DEF m, l, d, t, G

\* handle_addr_of.
LEMMA AddrOfLemma ==
  ASSUME NEW D, NEW F, NEW c, Ready(c, D, F), NEW dst \in F, NEW v \in Vars
  PROVE  Ready(handle_addr_of(c, dst, v), D \cup {dst}, F \ {dst})
<1> DEFINE G == F \ {dst}
           t == c.reg_count
           c1 == load_to_reg(c, RegOp(dst))
           d == c1.ir[dst]
           c2 == emit_get_var_addr(c1, v)
           m == Mov(c2, t, dst)
<1>0. dst \in IRRegs /\ dst \notin G /\ dst \in Tokens /\ Free \notin D
  BY IRRegsAssumption DEF Ready, Tokens, WF, Free
<1>1. Ready(c1, D, G) /\ Pinned(c1, t, Free, 3) /\ Pinned(c1, d, dst, 4)
  BY LoadDstLemma
<1> HIDE DEF c1, d, t, G
<1>2. Ready(c2, D, G) /\ Step(c1, c2, D)
  BY <1>1, VarAddrLemma
<1> HIDE DEF c2
<1>3. Pinned(c2, t, Free, 3 - 1) /\ Pinned(c2, d, dst, 4 - 1)
  BY <1>1, <1>2, PinStep DEF Ready
<1>4. /\ Ready(m, D, G) /\ m.val[t] = dst
      /\ m.reg_count = c2.reg_count /\ m.phys = c2.phys
  BY <1>0, <1>2, <1>3, ReadyOver
<1>5. handle_addr_of(c, dst, v) = StoreResult(m, dst, t)
  BY DEF handle_addr_of, c1, c2, t
<1> HIDE DEF m
<1>6. Pinned(m, d, dst, 3)
  BY <1>3, <1>4 DEF Pinned
<1> QED
  BY <1>0, <1>4, <1>5, <1>6, StoreResultLemma DEF G

\* The result of a call moves from x0 to its destination.
LEMMA CallResultLemma ==
  ASSUME NEW D, NEW F, NEW c, Ready(c, D, F), NEW dst \in F
  PROVE  Ready(CallResult(c, dst), D \cup {dst}, F \ {dst})
<1> DEFINE G == F \ {dst}
           t == c.reg_count
           l == load_to_reg(c, RegOp(dst))
           d == l.ir[dst]
           m == Mov(l, t, dst)
<1>0. dst \in IRRegs /\ dst \notin G
  BY DEF Ready
<1>1. Ready(m, D, G) /\ m.val[t] = dst /\ Pinned(m, d, dst, 4)
  BY MadeLemma
<1>2. CallResult(c, dst) = StoreResult(m, dst, t)
  BY DEF CallResult
<1> HIDE DEF m, l, d, t, G
<1> QED
  BY <1>0, <1>1, <1>2, StoreResultLemma DEF G

\* handle_alloc.
LEMMA AllocLemma ==
  ASSUME NEW D, NEW F, NEW c, Ready(c, D, F), NEW dst \in F, NEW init, IsOperand(init, D)
  PROVE  Ready(handle_alloc(c, dst, init), D \cup {dst}, F \ {dst})
<1> DEFINE G == F \ {dst}
           c1 == emit_runtime_call(c)
           t == c1.reg_count
           l == load_to_reg(c1, RegOp(dst))
           d == l.ir[dst]
           c2 == Mov(l, t, dst)
           s == c2.reg_count
           c3 == load_to_reg(c2, init)
           ok == Copy(c3, s, init) /\ c3.val[t] = dst
           e == IF init = NoOp THEN c2 ELSE Check(c3, "alloc", ok)
<1>0. dst \in IRRegs /\ dst \notin G
  BY DEF Ready
<1>1. Ready(c1, D, F)
  BY ReadyCall
<1> HIDE DEF c1
<1>2. /\ Ready(c2, D, G) /\ Pinned(c2, t, Free, 3) /\ c2.val[t] = dst
      /\ Pinned(c2, d, dst, 4)
  BY <1>1, MadeLemma
<1>3. handle_alloc(c, dst, init) = StoreResult(e, dst, t)
  BY Zenon DEF handle_alloc, c1
<1> HIDE DEF c2, d, t, G
<1>4. Ready(c3, D, G) /\ Survive(c2, c3, 2) /\ c3.val[s] = Expected(init)
  BY <1>2, LoadToLemma
<1> HIDE DEF c3, s
<1>5. c3.val[t] = c2.val[t]
  BY <1>2, <1>4, PinSurvive
<1>6. Pinned(c3, d, dst, 4 - 2)
  BY <1>2, <1>4, PinSurvive
<1>7. ok
  BY <1>2, <1>4, <1>5 DEF Copy
<1>8. Check(c3, "alloc", ok) = c3
  BY <1>7, Zenon DEF Check
<1>9. e = c2 \/ e = c3
  BY <1>8, Zenon
<1>10. Ready(StoreResult(c2, dst, t), D \cup {dst}, G)
  BY <1>0, <1>2, StoreResultLemma
<1>11. Ready(StoreResult(c3, dst, t), D \cup {dst}, G)
  BY <1>0, <1>2, <1>4, <1>5, <1>6, StoreResultLemma
<1> HIDE DEF e
<1> QED
  BY <1>3, <1>9, <1>10, <1>11, Zenon DEF G

\* handle_alloc_array.
LEMMA AllocArrayLemma ==
  ASSUME NEW D, NEW F, NEW c, Ready(c, D, F), NEW dst \in F, NEW count, IsOperand(count, D)
  PROVE  Ready(handle_alloc_array(c, dst, count), D \cup {dst}, F \ {dst})
<1> DEFINE t == c.reg_count
           c1 == load_to_reg(c, count)
           c2 == AddrTemp(c1)
           e == emit_runtime_call(c2)
           ok == Copy(c2, t, count)
           c3 == Check(e, "alloc_array", ok)
<1>1. Ready(c1, D, F) /\ Pinned(c1, t, Free, 3) /\ c1.val[t] = Expected(count)
  BY LoadToLemma
<1> HIDE DEF c1, t
<1>2. Ready(c2, D, F) /\ Step(c1, c2, D)
  BY <1>1, AddrTempLemma
<1> HIDE DEF c2
<1>3. ok
  BY <1>1, <1>2, PinStep DEF Ready, Copy
<1>4. Ready(e, D, F)
  BY <1>2, ReadyCall
<1>5. handle_alloc_array(c, dst, count) = CallResult(c3, dst)
  BY DEF handle_alloc_array, c1, c2, t
<1> HIDE DEF e, ok
<1>6. Ready(c3, D, F)
  BY <1>3, <1>4, ReadyCheck, Zenon
<1> QED
  BY <1>5, <1>6, CallResultLemma

\* handle_free: the pointer it sets to null is the one value that is lost.
LEMMA FreeLemma ==
  ASSUME NEW D, NEW F, NEW c, Ready(c, D, F), NEW op, IsOperand(op, D),
         op.kind \in {"reg", "var"}
  PROVE  Ready(handle_free(c, op), IF op.kind = "reg" THEN D \ {op.id} ELSE D, F)
<1> DEFINE t == c.reg_count
           c1 == load_to_reg(c, op)
           e == emit_runtime_call(c1)
           ok == Copy(c1, t, op)
           m == Mov(e, t, Junk)
<1>1. Ready(c1, D, F) /\ Pinned(c1, t, Free, 3) /\ c1.val[t] = Expected(op)
  BY LoadToLemma
<1>2. handle_free(c, op) = store_to_operand(Mov(Check(e, "free", ok), t, Junk), op, t)
  BY DEF handle_free
<1> HIDE DEF c1, t
<1>3. Ready(e, D, F) /\ \A r \in Reg : e.phys[r] = Free \/ e.phys[r] = c1.phys[r]
  BY <1>1, ReadyCall
<1>4. t \in Reg /\ e.phys[t] = Free /\ Junk \in Tokens
  BY <1>1, <1>3 DEF Pinned, Tokens
<1> HIDE DEF e
<1>5. Check(e, "free", ok) = e
  BY <1>1 DEF Check, Copy
<1>6. Ready(m, D, F)
  BY <1>3, <1>4, ReadyScratch
<1>7. handle_free(c, op) = store_to_operand(m, op, t)
  BY <1>2, <1>5, Zenon
<1> HIDE DEF m, ok
<1>8. CASE op.kind = "reg"
  <2> DEFINE i == op.id
             c3 == get_phys_reg(m, i)
             r == c3.ir[i]
             v == c3.val[t]
             g == Mov(c3, r, v)
  <2>1. i \in D
    BY <1>8 DEF IsOperand
  <2>2. handle_free(c, op) = g
    BY <1>7, <1>8 DEF store_to_operand
  <2>3. Ready(c3, D, F) /\ r \in Reg /\ c3.phys[r] = i
    <3> HIDE DEF i
    <3> QED
      BY <1>6, <2>1, ReadyUse
  <2> HIDE DEF c3, r
  <2>4. WF(c3, D) /\ v \in Tokens
    BY <1>4, <2>3 DEF Ready, WF, TypeOKCtx
  <2> HIDE DEF v
  <2>5. /\ WF(g, D \ {c3.phys[r]})
        /\ c3.phys[r] = v => WF(g, (D \cup {v}) \cap IRRegs)
        /\ g.reg_count = c3.reg_count /\ g.phys = c3.phys /\ g.ir = c3.ir
        /\ g.misread = c3.misread /\ g.val[r] = v
        /\ \A q \in Reg : q # r => g.val[q] = c3.val[q]
        /\ \A j \in IRRegs : Fresh(c3, j) => Fresh(g, j)
    BY <2>3, <2>4, MovLemma, Zenon
  <2> HIDE DEF g
  <2>6. Ready(g, D \ {i}, F)
    BY <2>3, <2>5 DEF Ready
  <2> QED
    BY <1>8, <2>2, <2>6
<1>9. CASE op.kind = "var"
  <2>1. op.id \in Vars
    BY <1>9 DEF IsOperand
  <2>2. handle_free(c, op) = emit_get_var_addr(m, op.id)
    BY <1>7, <1>9 DEF store_to_operand
  <2>3. Ready(emit_get_var_addr(m, op.id), D, F)
    BY <1>6, <2>1, VarAddrLemma
  <2> QED
    BY <1>9, <2>2, <2>3
<1> QED
  BY <1>8, <1>9

\* handle_mem_copy, handle_mem_set.
LEMMA MemCopyLemma ==
  ASSUME NEW D, NEW F, NEW c, Ready(c, D, F),
         NEW dst, IsOperand(dst, D), NEW src, IsOperand(src, D)
  PROVE  Ready(handle_mem_copy(c, dst, src), D, F)
<1> DEFINE c1 == load_to_reg(c, dst)
           c2 == load_to_reg(c1, src)
           ok == Copy(c2, c.reg_count, dst) /\ Copy(c2, c1.reg_count, src)
           e == emit_runtime_call(c2)
<1>1. Ready(c2, D, F) /\ ok
  BY StoreLemma
<1>2. handle_mem_copy(c, dst, src) = Check(e, "mem_copy", ok)
  BY DEF handle_mem_copy
<1> HIDE DEF c2, ok
<1>3. Ready(e, D, F)
  BY <1>1, ReadyCall
<1> HIDE DEF e
<1> QED
  BY <1>1, <1>2, <1>3, ReadyCheck, Zenon

\* LCALL: only the callee's own register, reloaded after the others were saved, is
\* in a temporary when the call clobbers them all.
LEMMA LcallLemma ==
  ASSUME NEW D, NEW F, NEW c, Ready(c, D, F), NEW op, IsOperand(op, D)
  PROVE  Ready(lcall(c, op), IF op.kind = "reg" THEN D \ {op.id} ELSE D, F)
<1> DEFINE c1 == save_caller_saved_regs(c)
           t == c1.reg_count
           c2 == load_to_reg(c1, op)
           ok == Copy(c2, t, op)
           x == IF op = LabelOp THEN c1 ELSE Check(c2, "lcall", ok)
           i == Expected(op)
           g == Clobber(x)
<1>0. WF(c, D) /\ Free \notin IRRegs
  BY IRRegsAssumption DEF Ready, Free
<1>1. /\ WF(c1, D)
      /\ \A r \in CallerSaved : c1.phys[r] = Free
      /\ \A r \in Reg : c1.phys[r] = Free \/ c1.phys[r] = c.phys[r]
      /\ c1.reg_count = c.reg_count /\ c1.val = c.val /\ c1.misread = c.misread
      /\ \A j \in IRRegs : Fresh(c, j) => Fresh(c1, j)
  BY <1>0, SaveLemma
<1>2. lcall(c, op) = g
  BY Zenon DEF lcall
<1> HIDE DEF c1
<1>3. Ready(c1, D, F)
  BY <1>1 DEF Ready
<1>4. \A r \in Reg : c1.phys[r] = Free
  BY <1>1, AllCallerSavedAssumption
<1>5. /\ Ready(c2, D, F) /\ c2.val[t] = Expected(op)
      /\ \A q \in Reg : c2.phys[q] \in {Free, c1.phys[q], i}
  BY <1>3, LoadToLemma
<1> HIDE DEF c2, t
<1>6. Check(c2, "lcall", ok) = c2
  BY <1>5 DEF Check, Copy
<1>7. x = c1 \/ x = c2
  BY <1>6, Zenon
<1> HIDE DEF x
<1>8. Ready(x, D, F) /\ \A r \in CallerSaved : x.phys[r] \in {Free, i}
  BY <1>3, <1>4, <1>5, <1>7, AllCallerSavedAssumption, Zenon
<1>9. WF(x, D)
  BY <1>8 DEF Ready
<1> HIDE DEF i
<1>10. /\ WF(g, D \ {i})
       /\ g.misread = x.misread /\ g.phys = x.phys
       /\ \A j \in IRRegs : Fresh(x, j) => Fresh(g, j)
  BY <1>8, <1>9, ClobberLemma, Zenon
<1> HIDE DEF g
<1>11. Ready(g, D \ {i}, F)
  BY <1>8, <1>10 DEF Ready
<1>12. D \ {i} = IF op.kind = "reg" THEN D \ {op.id} ELSE D
  BY <1>0, IRRegsAssumption DEF WF, i, Expected, Label
<1> QED
  BY <1>2, <1>11, <1>12

-------------------------------------------------------------------------------
\* The inductive invariant: the context is well formed for the registers that may
\* still be used, no register that IrGenerator has yet to hand out is located, and
\* no handler has read a register that was not its operand.
CtxInv(c, D, n) ==
  /\ n \in Nat
  /\ D \subseteq {j \in IRRegs : j < n}
  /\ Ready(c, D, Later(n))

IInv ==
  /\ CtxInv(m_ctx, computed, next_reg)
  /\ args \in Nat \cup {NoCall}
  /\ frame # NoFrame => args = NoCall /\ frame = end_preamble(m_ctx)

\* A handler that computes register n ends with the invariant, n being computed.
LEMMA EndCompute ==
  ASSUME NEW c, NEW D, NEW n \in IRRegs, D \subseteq {j \in IRRegs : j < n},
         Ready(c, D \cup {n}, Later(n) \ {n})
  PROVE  CtxInv(c, D \cup {n}, n + 1)
<1>1. n \in Nat /\ n + 1 \in Nat
  BY IRRegsAssumption
<1>2. D \cup {n} \subseteq {j \in IRRegs : j < n + 1}
  BY <1>1, IRRegsAssumption
<1>3. Later(n + 1) \subseteq Later(n) \ {n}
  BY <1>1, LaterFacts
<1> QED
  BY <1>1, <1>2, <1>3 DEF Ready, CtxInv

\* handle_end_preamble reserves the frame and keeps sp aligned; no temporary is
\* callee-saved.
LEMMA EndPreambleLemma ==
  ASSUME NEW c, NEW D, WF(c, D)
  PROVE  LET f == end_preamble(c) IN
         /\ f.sub \in Nat /\ f.pushed = {}
         /\ f.sub >= c.stack_offset /\ f.sub % 16 = 0
<1> DEFINE s == c.stack_offset
           q == (s + 15) \div 16
<1>1. s \in Nat
  BY DEF WF, TypeOKCtx
<1>2. get_used_callee_regs(c) = {}
  BY AllCallerSavedAssumption DEF get_used_callee_regs
<1>3. end_preamble(c) = [sub |-> q * 16, pushed |-> {}]
  BY <1>2 DEF end_preamble, get_align
<1> HIDE DEF s
<1>4. q \in Nat /\ q * 16 >= s
  BY <1>1
<1> HIDE DEF q
<1>5. q * 16 \in Nat /\ (q * 16) % 16 = 0
  BY <1>4
<1> QED
  BY <1>3, <1>4, <1>5 DEF s

\* A handler starts with the context of the invariant.
LEMMA StartHandler == ASSUME IInv PROVE Ready(ctx, computed, Later(next_reg))
<1>1. Ready(m_ctx, computed, Later(next_reg)) /\ WF(m_ctx, computed)
  BY DEF IInv, CtxInv, Ready
<1> DEFINE g == [m_ctx EXCEPT !.misread = "none"]
<1>2. WF(g, computed) /\ g.misread = "none" /\ \A j \in IRRegs : Fresh(m_ctx, j) => Fresh(g, j)
  BY <1>1, MisreadLemma
<1> HIDE DEF g
<1> QED
  BY <1>1, <1>2 DEF Ready, ctx, g

\* A fresh FunctionContext satisfies the invariant.
LEMMA InitInv == Init => IInv
<1> SUFFICES ASSUME Init PROVE IInv
  OBVIOUS
<1>1. WF(FunctionContext, {}) /\ (\A j \in IRRegs : Fresh(FunctionContext, j))
      /\ FunctionContext.misread = "none"
  BY FunctionContextLemma
<1> QED
  BY <1>1 DEF Init, IInv, CtxInv, Ready, Later

\* An instruction that only uses registers keeps the invariant.
LEMMA UsesInv ==
  ASSUME IInv, frame = NoFrame, NEW c, Uses(c), Ready(c, computed, Later(next_reg))
  PROVE  IInv'
<1>1. CtxInv(m_ctx', computed', next_reg')
  BY DEF IInv, CtxInv, Uses
<1> QED
  BY <1>1 DEF IInv, Uses

\* An instruction that computes the next register keeps the invariant.
LEMMA ComputesInv ==
  ASSUME IInv, frame = NoFrame, NEW c, next_reg \in IRRegs, Computes(c),
         Ready(c, computed \cup {next_reg}, Later(next_reg) \ {next_reg})
  PROVE  IInv'
<1>1. CtxInv(c, computed \cup {next_reg}, next_reg + 1)
  BY EndCompute, ZenonT(60) DEF IInv, CtxInv
<1>2. CtxInv(m_ctx', computed', next_reg')
  BY <1>1 DEF Computes
<1> QED
  BY <1>2 DEF IInv, Computes

\* The handler of every IR instruction keeps the invariant.
LEMMA NextInv == IInv /\ [Next]_vars => IInv'
<1> SUFFICES ASSUME IInv, [Next]_vars PROVE IInv'
  OBVIOUS
<1> DEFINE F == Later(next_reg)
<1>1. Ready(ctx, computed, F)
  BY StartHandler
<1>2. CanCompute => next_reg \in F /\ next_reg \in IRRegs /\ frame = NoFrame
  BY IRRegsAssumption DEF CanCompute, Later, Straight
<1>3. \A op \in Sources \cup Pointers \cup RegOps \cup {StackOp, NoOp, LabelOp} :
        IsOperand(op, computed)
  BY DEF Sources, Pointers, RegOps, VarOps, RegOp, VarOp, ImmOp, StackOp, NoOp, LabelOp,
         IsOperand
<1>4. \A op \in Pointers : op.kind \in {"reg", "var"}
  BY DEF Pointers, RegOps, VarOps, RegOp, VarOp
<1>5. Straight => frame = NoFrame
  BY DEF Straight
<1> HIDE DEF F
<1>6. CASE EXIT
  <2>1. PICK op \in Sources : Uses(handle_exit(ctx, op))
    BY <1>6 DEF EXIT
  <2>2. Ready(handle_exit(ctx, op), computed, F)
    BY <1>1, <1>3, UseOperandLemma DEF handle_exit
  <2> QED
    BY <1>5, <1>6, <2>1, <2>2, UsesInv DEF EXIT, F
<1>7. CASE IF_Z
  <2>1. PICK op \in Sources : Uses(handle_if_z(ctx, op))
    BY <1>7 DEF IF_Z
  <2>2. Ready(handle_if_z(ctx, op), computed, F)
    BY <1>1, <1>3, UseOperandLemma DEF handle_if_z
  <2> QED
    BY <1>5, <1>7, <2>1, <2>2, UsesInv DEF IF_Z, F
<1>8. CASE RETURN
  <2>1. PICK op \in Sources : Uses(handle_return(ctx, op))
    BY <1>8 DEF RETURN
  <2>2. Ready(handle_return(ctx, op), computed, F)
    BY <1>1, <1>3, UseOperandLemma DEF handle_return
  <2> QED
    BY <1>5, <1>8, <2>1, <2>2, UsesInv DEF RETURN, F
<1>9. CASE ASSIGN_REG
  <2>1. PICK src \in Sources \cup {StackOp} : Computes(assign_reg(ctx, next_reg, src))
    BY <1>9 DEF ASSIGN_REG
  <2>2. CanCompute
    BY <1>9 DEF ASSIGN_REG
  <2>3. Ready(assign_reg(ctx, next_reg, src), computed \cup {next_reg}, F \ {next_reg})
    BY <1>1, <1>2, <1>3, <2>2, AssignRegLemma
  <2> QED
    BY <1>2, <2>1, <2>2, <2>3, ComputesInv DEF F
<1>10. CASE ASSIGN_VAR
  <2>1. PICK v \in Vars, src \in Sources \cup {StackOp} : Uses(assign_var(ctx, v, src))
    BY <1>10 DEF ASSIGN_VAR
  <2>2. Ready(assign_var(ctx, v, src), computed, F)
    BY <1>1, <1>3, AssignVarLemma
  <2> QED
    BY <1>5, <1>10, <2>1, <2>2, UsesInv DEF ASSIGN_VAR, F
<1>11. CASE PRIM_BINOP
  <2>1. PICK a \in Sources, b \in Sources, mod \in BOOLEAN :
          Computes(handle_prim_binop(ctx, next_reg, a, b, mod))
    BY <1>11 DEF PRIM_BINOP
  <2>2. CanCompute
    BY <1>11 DEF PRIM_BINOP
  <2>3. Ready(handle_prim_binop(ctx, next_reg, a, b, mod),
              computed \cup {next_reg}, F \ {next_reg})
    BY <1>1, <1>2, <1>3, <2>2, PrimBinopLemma
  <2> QED
    BY <1>2, <2>1, <2>2, <2>3, ComputesInv DEF F
<1>12. CASE NEG
  <2>1. PICK a \in Sources : Computes(handle_neg(ctx, next_reg, a))
    BY <1>12 DEF NEG
  <2>2. CanCompute
    BY <1>12 DEF NEG
  <2>3. Ready(handle_neg(ctx, next_reg, a), computed \cup {next_reg}, F \ {next_reg})
    BY <1>1, <1>2, <1>3, <2>2, NegLemma
  <2> QED
    BY <1>2, <2>1, <2>2, <2>3, ComputesInv DEF F
<1>13. CASE CMP
  <2>1. PICK a \in Sources, b \in Sources : Computes(handle_cmp(ctx, next_reg, a, b))
    BY <1>13 DEF CMP
  <2>2. CanCompute
    BY <1>13 DEF CMP
  <2>3. Ready(handle_cmp(ctx, next_reg, a, b), computed \cup {next_reg}, F \ {next_reg})
    BY <1>1, <1>2, <1>3, <2>2, CmpLemma
  <2> QED
    BY <1>2, <2>1, <2>2, <2>3, ComputesInv DEF F
<1>14. CASE LOAD
  <2>1. PICK addr \in Pointers : Computes(handle_load(ctx, next_reg, addr))
    BY <1>14 DEF LOAD
  <2>2. CanCompute
    BY <1>14 DEF LOAD
  <2>3. Ready(handle_load(ctx, next_reg, addr), computed \cup {next_reg}, F \ {next_reg})
    BY <1>1, <1>2, <1>3, <2>2, LoadLemma
  <2> QED
    BY <1>2, <2>1, <2>2, <2>3, ComputesInv DEF F
<1>15. CASE STORE
  <2>1. PICK addr \in Pointers, src \in Sources : Uses(handle_store(ctx, addr, src))
    BY <1>15 DEF STORE
  <2>2. Ready(handle_store(ctx, addr, src), computed, F)
    BY <1>1, <1>3, StoreLemma
  <2> QED
    BY <1>5, <1>15, <2>1, <2>2, UsesInv DEF STORE, F
<1>16. CASE ADDR_OF
  <2>1. PICK v \in Vars : Computes(handle_addr_of(ctx, next_reg, v))
    BY <1>16 DEF ADDR_OF
  <2>2. CanCompute
    BY <1>16 DEF ADDR_OF
  <2>3. Ready(handle_addr_of(ctx, next_reg, v), computed \cup {next_reg}, F \ {next_reg})
    BY <1>1, <1>2, <2>2, AddrOfLemma
  <2> QED
    BY <1>2, <2>1, <2>2, <2>3, ComputesInv DEF F
<1>17. CASE ALLOC
  <2>1. PICK init \in Sources \cup {NoOp} : Computes(handle_alloc(ctx, next_reg, init))
    BY <1>17 DEF ALLOC
  <2>2. CanCompute
    BY <1>17 DEF ALLOC
  <2>3. Ready(handle_alloc(ctx, next_reg, init), computed \cup {next_reg}, F \ {next_reg})
    BY <1>1, <1>2, <1>3, <2>2, AllocLemma
  <2> QED
    BY <1>2, <2>1, <2>2, <2>3, ComputesInv DEF F
<1>18. CASE ALLOC_ARRAY
  <2>1. PICK n \in Sources : Computes(handle_alloc_array(ctx, next_reg, n))
    BY <1>18 DEF ALLOC_ARRAY
  <2>2. CanCompute
    BY <1>18 DEF ALLOC_ARRAY
  <2>3. Ready(handle_alloc_array(ctx, next_reg, n), computed \cup {next_reg}, F \ {next_reg})
    BY <1>1, <1>2, <1>3, <2>2, AllocArrayLemma
  <2> QED
    BY <1>2, <2>1, <2>2, <2>3, ComputesInv DEF F
<1>19. CASE FREE
  <2>1. PICK op \in Pointers : m_ctx' = handle_free(ctx, op) /\ computed' = Without(op)
    BY <1>19 DEF FREE
  <2>2. frame = NoFrame /\ UNCHANGED <<next_reg, args, frame>>
    BY <1>19 DEF FREE, Straight
  <2>3. Ready(handle_free(ctx, op), Without(op), F)
    BY <1>1, <1>3, <1>4, FreeLemma DEF Without
  <2>4. CtxInv(m_ctx', computed', next_reg)
    BY <2>1, <2>3 DEF IInv, CtxInv, F, Without
  <2> QED
    BY <2>2, <2>4 DEF IInv
<1>20. CASE MEM_COPY
  <2>1. PICK dst \in RegOps, src \in Sources : Uses(handle_mem_copy(ctx, dst, src))
    BY <1>20 DEF MEM_COPY
  <2>2. Ready(handle_mem_copy(ctx, dst, src), computed, F)
    BY <1>1, <1>3, MemCopyLemma
  <2> QED
    BY <1>5, <1>20, <2>1, <2>2, UsesInv DEF MEM_COPY, F
<1>21. CASE BEGIN_LCALL_PREP
  BY <1>5, <1>21 DEF BEGIN_LCALL_PREP, IInv
<1>22. CASE PUSH_ARG
  <2>1. PICK op \in Sources : m_ctx' = handle_push_arg(ctx, op)
    BY <1>22 DEF PUSH_ARG
  <2>2. args \in Nat /\ args' \in Nat /\ args # NoCall /\ UNCHANGED <<next_reg, computed, frame>>
    BY <1>22, BoundsAssumption DEF PUSH_ARG, NoCall
  <2>3. Ready(handle_push_arg(ctx, op), computed, F)
    BY <1>1, <1>3, UseOperandLemma DEF handle_push_arg
  <2>4. CtxInv(m_ctx', computed', next_reg')
    BY <2>1, <2>2, <2>3 DEF IInv, CtxInv, F
  <2> QED
    BY <2>2, <2>4 DEF IInv
<1>23. CASE LCALL
  <2>1. PICK op \in Pointers \cup {LabelOp} :
          \/ m_ctx' = lcall(ctx, op) /\ computed' = Without(op) /\ next_reg' = next_reg
          \/ /\ next_reg \in IRRegs
             /\ m_ctx' = CallResult(lcall(ctx, op), next_reg)
             /\ computed' = Without(op) \cup {next_reg} /\ next_reg' = next_reg + 1
    BY <1>23 DEF LCALL
  <2>2. args # NoCall /\ args' = NoCall /\ frame' = frame /\ frame = NoFrame
    BY <1>23 DEF LCALL, IInv
  <2> DEFINE e == lcall(ctx, op)
             D == Without(op)
  <2>3. Ready(e, D, F)
    BY <1>1, <1>3, LcallLemma, Zenon DEF Without
  <2>4. D \subseteq {j \in IRRegs : j < next_reg} /\ next_reg \in Nat
    BY DEF Without, IInv, CtxInv
  <2> HIDE DEF e, D
  <2>5. CASE m_ctx' = e /\ computed' = D /\ next_reg' = next_reg
    <3>1. CtxInv(m_ctx', computed', next_reg')
      BY <2>3, <2>4, <2>5 DEF CtxInv, F
    <3> QED
      BY <2>2, <3>1 DEF IInv
  <2>6. CASE /\ next_reg \in IRRegs
             /\ m_ctx' = CallResult(e, next_reg)
             /\ computed' = D \cup {next_reg} /\ next_reg' = next_reg + 1
    <3>1. next_reg \in F
      BY <2>4, <2>6 DEF F, Later
    <3>2. Ready(CallResult(e, next_reg), D \cup {next_reg}, F \ {next_reg})
      BY <2>3, <3>1, CallResultLemma
    <3>3. CtxInv(CallResult(e, next_reg), D \cup {next_reg}, next_reg + 1)
      BY <2>4, <2>6, <3>2, EndCompute, Zenon DEF F
    <3> QED
      BY <2>2, <2>6, <3>3 DEF IInv
  <2> QED
    BY <2>1, <2>5, <2>6 DEF e, D
<1>24. CASE END_FUNC
  BY <1>24 DEF END_FUNC, IInv
<1>25. CASE BEGIN_FUNC
  <2>1. WF(FunctionContext, {}) /\ (\A j \in IRRegs : Fresh(FunctionContext, j))
        /\ FunctionContext.misread = "none"
    BY FunctionContextLemma
  <2> QED
    BY <1>25, <2>1 DEF BEGIN_FUNC, IInv, CtxInv, Ready, Later
<1>26. CASE UNCHANGED vars
  BY <1>26 DEF vars, IInv
<1> QED
  BY <1>6, <1>7, <1>8, <1>9, <1>10, <1>11, <1>12, <1>13, <1>14, <1>15, <1>16, <1>17,
     <1>18, <1>19, <1>20, <1>21, <1>22, <1>23, <1>24, <1>25, <1>26
  DEF Next

-------------------------------------------------------------------------------
\* Every reachable state satisfies the inductive invariant.
THEOREM Invariant == Spec => []IInv
BY InitInv, NextInv, PTL DEF Spec

\* What handle_end_preamble has written is right while the frame stands.
LEMMA FrameFacts ==
  ASSUME IInv, frame # NoFrame
  PROVE  /\ frame.sub \in Nat /\ frame.pushed = {}
         /\ frame.sub >= m_ctx.stack_offset /\ frame.sub % 16 = 0
<1>1. WF(m_ctx, computed) /\ frame = end_preamble(m_ctx)
  BY DEF IInv, CtxInv, Ready
<1> DEFINE f == end_preamble(m_ctx)
<1>2. /\ f.sub \in Nat /\ f.pushed = {}
      /\ f.sub >= m_ctx.stack_offset /\ f.sub % 16 = 0
  BY <1>1, EndPreambleLemma
<1> QED
  BY <1>1, <1>2

\* Every variable of the code generator keeps its type.
THEOREM TypeCorrect == Spec => []TypeOK
<1>1. IInv => TypeOK
  <2> SUFFICES ASSUME IInv PROVE TypeOK
    OBVIOUS
  <2>1. frame = NoFrame => frame.sub \in Nat \cup {-1} /\ frame.pushed \subseteq Reg
    BY DEF NoFrame
  <2>2. frame # NoFrame => frame.sub \in Nat \cup {-1} /\ frame.pushed \subseteq Reg
    BY FrameFacts
  <2> QED
    BY <2>1, <2>2 DEF IInv, CtxInv, Ready, WF, TypeOK
<1> QED
  BY <1>1, Invariant, PTL

\* ir_reg_to_phys_reg and phys_reg_to_ir_reg are inverses, and no IR register is
\* both in a register and in a spill slot, after any sequence of handlers.
THEOREM MapsConsistent == Spec => []LocationsConsistent
<1>1. IInv => LocationsConsistent
  BY DEF IInv, CtxInv, Ready, WF, LocationsConsistent
<1> QED
  BY <1>1, Invariant, PTL

\* No value that may still be used is lost, although every call clobbers every
\* temporary and every handler moves its operands through scratch registers.
THEOREM NoValueLost == Spec => []ValuesHeld
<1>1. IInv => ValuesHeld
  BY DEF IInv, CtxInv, Ready, WF, ValuesHeld
<1> QED
  BY <1>1, Invariant, PTL

\* Spill slots, those of registers saved around a call included, and local variables
\* lie in the frame and never share a byte of it.
THEOREM CellsNeverOverlap == Spec => []FrameDisjoint
<1>1. IInv => FrameDisjoint
  BY ApartDisjoint DEF IInv, CtxInv, Ready, WF, FrameDisjoint
<1> QED
  BY <1>1, Invariant, PTL

\* Every handler reads the operands of the instruction it was generated for: no
\* scratch register is taken again between its load and its use.
THEOREM OperandsAreRead == Spec => []OperandsRead
<1>1. IInv => OperandsRead
  BY DEF IInv, CtxInv, Ready, OperandsRead
<1> QED
  BY <1>1, Invariant, PTL

\* The prologue patched in by handle_end_preamble covers the frame and leaves sp
\* a multiple of 16.
THEOREM PrologueReserves == Spec => []FrameReserved
<1>1. IInv => FrameReserved
  BY FrameFacts DEF FrameReserved
<1> QED
  BY <1>1, Invariant, PTL
===============================================================================
