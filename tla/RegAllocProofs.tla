---------------------------- MODULE RegAllocProofs ----------------------------
(***************************************************************************)
(* What the operations of the register allocator preserve, for every       *)
(* number of temporary registers and every set of caller-saved ones.       *)
(***************************************************************************)
EXTENDS RegAlloc, TLAPS, FiniteSetTheorems

\* Leaves that name no prover go to the SMT solver.
USE SMTT(60)

Succ(r) == (r + 1) % N

\* Spill slots in use are distinct and inside the frame.
SlotsUnique(c) ==
  /\ \A i \in IRRegs : c.spilled[i] <= c.stack_offset
  /\ \A i, j \in IRRegs : c.spilled[i] # NoSlot /\ c.spilled[i] = c.spilled[j] => i = j

\* Bytes x - m + 1 .. x and bytes y - n + 1 .. y of the frame have none in common.
Separate(x, m, y, n) == x <= y - n \/ y <= x - m

\* Every slot in use lies inside the frame, and no two of them share a byte.
CellsApart(c) ==
  /\ \A i \in IRRegs : c.spilled[i] # NoSlot =>
       PTR_SIZE <= c.spilled[i] /\ c.spilled[i] <= c.stack_offset
  /\ \A v \in Vars : c.vars[v] # NoSlot =>
       VarSize[v] <= c.vars[v] /\ c.vars[v] <= c.stack_offset
  /\ \A i, j \in IRRegs : i # j /\ c.spilled[i] # NoSlot /\ c.spilled[j] # NoSlot =>
       Separate(c.spilled[i], PTR_SIZE, c.spilled[j], PTR_SIZE)
  /\ \A v, w \in Vars : v # w /\ c.vars[v] # NoSlot /\ c.vars[w] # NoSlot =>
       Separate(c.vars[v], VarSize[v], c.vars[w], VarSize[w])
  /\ \A i \in IRRegs, v \in Vars : c.spilled[i] # NoSlot /\ c.vars[v] # NoSlot =>
       Separate(c.spilled[i], PTR_SIZE, c.vars[v], VarSize[v])

\* The inductive invariant of a context; D: the registers that were computed.
WF(c, D) ==
  /\ D \subseteq IRRegs
  /\ TypeOKCtx(c)
  /\ MapsInverse(c)
  /\ OneLocation(c)
  /\ SlotsUnique(c)
  /\ CellsApart(c)
  /\ HoldsValues(c, D)

\* An IR register that no instruction has named yet.
Fresh(c, i) == c.ir[i] = NoReg /\ c.spilled[i] = NoSlot

-------------------------------------------------------------------------------
\* reg_count stays in range, and wraps to 0 after the last register.
LEMMA SuccLemma ==
  ASSUME NEW r \in Reg
  PROVE  Succ(r) \in Reg /\ Succ(r) = IF r = N - 1 THEN 0 ELSE r + 1
<1>1. CASE r = N - 1
  BY <1>1, TempRegsAssumption DEF Reg, Succ
<1>2. CASE r # N - 1
  BY <1>2, TempRegsAssumption DEF Reg, Succ
<1> QED
  BY <1>1, <1>2

\* How many allocations come before register d is taken, counting from r.
Dist(r, d) == IF d >= r THEN d - r ELSE d - r + N

\* At most one register was taken, the next one: all others keep their owner and
\* their contents, and come one step closer.
Keeps(c, g) ==
  \A d \in Reg : Dist(c.reg_count, d) >= 1 =>
    /\ g.phys[d] = c.phys[d] /\ g.val[d] = c.val[d]
    /\ Dist(g.reg_count, d) >= Dist(c.reg_count, d) - 1

\* g follows c by an operation that takes at most one register.
Step(c, g, D) ==
  /\ WF(g, D)
  /\ g.misread = c.misread
  /\ Keeps(c, g)
  /\ \A j \in IRRegs \ D : Fresh(c, j) => Fresh(g, j)

\* An allocation brings every other register one step closer, and the register
\* it takes goes to the end of the round.
LEMMA DistLemma ==
  ASSUME NEW r \in Reg, NEW d \in Reg
  PROVE  /\ Dist(r, d) \in 0 .. N - 1
         /\ Dist(r, d) = 0 <=> d = r
         /\ Dist(Succ(r), d) = IF d = r THEN N - 1 ELSE Dist(r, d) - 1
<1>1. Succ(r) \in Reg /\ Succ(r) = IF r = N - 1 THEN 0 ELSE r + 1
  BY SuccLemma
<1> QED
  BY <1>1, TempRegsAssumption DEF Reg, Dist

\* The cells of a frame that only grew: each is an old one or lies beyond the old
\* frame, and the new ones are apart from each other.
LEMMA CellsGrow ==
  ASSUME NEW c, NEW g, TypeOKCtx(c), TypeOKCtx(g), CellsApart(c),
         c.stack_offset <= g.stack_offset,
         \A i \in IRRegs :
           \/ g.spilled[i] \in {NoSlot, c.spilled[i]}
           \/ c.stack_offset <= g.spilled[i] - PTR_SIZE /\ g.spilled[i] <= g.stack_offset,
         \A v \in Vars :
           \/ g.vars[v] = c.vars[v]
           \/ /\ c.stack_offset <= g.vars[v] - VarSize[v] /\ g.vars[v] <= g.stack_offset
              /\ g.spilled = c.spilled
              /\ \A w \in Vars \ {v} : g.vars[w] = c.vars[w],
         \A i, j \in IRRegs :
           /\ i # j /\ g.spilled[i] \notin {NoSlot, c.spilled[i]}
           /\ g.spilled[j] \notin {NoSlot, c.spilled[j]}
           => Separate(g.spilled[i], PTR_SIZE, g.spilled[j], PTR_SIZE)
  PROVE  CellsApart(g)
<1> DEFINE S == c.stack_offset
           T == g.stack_offset
<1>1. /\ S \in Nat /\ T \in Nat
      /\ \A i \in IRRegs : c.spilled[i] \in Nat /\ g.spilled[i] \in Nat
      /\ \A v \in Vars : c.vars[v] \in Nat /\ g.vars[v] \in Nat /\ VarSize[v] \in Nat \ {0}
  BY VarsAssumption DEF TypeOKCtx
<1> HIDE DEF S, T
<1> USE DEF PTR_SIZE, NoSlot, Separate
<1>2. ASSUME NEW i \in IRRegs, g.spilled[i] # 0
      PROVE  8 <= g.spilled[i] /\ g.spilled[i] <= T
  BY <1>1, <1>2 DEF CellsApart, S, T
<1>3. ASSUME NEW v \in Vars, g.vars[v] # 0
      PROVE  VarSize[v] <= g.vars[v] /\ g.vars[v] <= T
  BY <1>1, <1>3 DEF CellsApart, S, T
<1>4. ASSUME NEW i \in IRRegs, NEW j \in IRRegs, i # j, g.spilled[i] # 0, g.spilled[j] # 0
      PROVE  Separate(g.spilled[i], 8, g.spilled[j], 8)
  <2>1. CASE g.spilled[i] = c.spilled[i] /\ g.spilled[j] = c.spilled[j]
    BY <1>4, <2>1 DEF CellsApart
  <2>2. CASE g.spilled[i] = c.spilled[i] /\ g.spilled[j] # c.spilled[j]
    <3>1. g.spilled[i] <= S /\ S <= g.spilled[j] - 8
      BY <1>4, <2>2 DEF CellsApart, S
    <3> QED
      BY <1>1, <3>1
  <2>3. CASE g.spilled[i] # c.spilled[i] /\ g.spilled[j] = c.spilled[j]
    <3>1. g.spilled[j] <= S /\ S <= g.spilled[i] - 8
      BY <1>4, <2>3 DEF CellsApart, S
    <3> QED
      BY <1>1, <3>1
  <2>4. CASE g.spilled[i] # c.spilled[i] /\ g.spilled[j] # c.spilled[j]
    BY <1>4, <2>4
  <2> QED
    BY <2>1, <2>2, <2>3, <2>4, Zenon
<1>5. ASSUME NEW v \in Vars, NEW w \in Vars, v # w, g.vars[v] # 0, g.vars[w] # 0
      PROVE  Separate(g.vars[v], VarSize[v], g.vars[w], VarSize[w])
  <2>1. CASE g.vars[v] = c.vars[v] /\ g.vars[w] = c.vars[w]
    BY <1>5, <2>1 DEF CellsApart
  <2>2. CASE g.vars[w] # c.vars[w]
    <3>1. S <= g.vars[w] - VarSize[w] /\ g.vars[v] = c.vars[v]
      BY <1>5, <2>2, Zenon DEF S
    <3>2. g.vars[v] <= S
      BY <1>5, <3>1 DEF CellsApart, S
    <3> QED
      BY <1>1, <3>1, <3>2
  <2>3. CASE g.vars[v] # c.vars[v]
    <3>1. S <= g.vars[v] - VarSize[v] /\ g.vars[w] = c.vars[w]
      BY <1>5, <2>3, Zenon DEF S
    <3>2. g.vars[w] <= S
      BY <1>5, <3>1 DEF CellsApart, S
    <3> QED
      BY <1>1, <3>1, <3>2
  <2> QED
    BY <2>1, <2>2, <2>3, Zenon
<1>6. ASSUME NEW i \in IRRegs, NEW v \in Vars, g.spilled[i] # 0, g.vars[v] # 0
      PROVE  Separate(g.spilled[i], 8, g.vars[v], VarSize[v])
  <2>1. CASE g.spilled[i] = c.spilled[i] /\ g.vars[v] = c.vars[v]
    BY <1>6, <2>1 DEF CellsApart
  <2>2. CASE g.vars[v] # c.vars[v]
    <3>1. S <= g.vars[v] - VarSize[v] /\ g.spilled[i] = c.spilled[i]
      BY <1>6, <2>2, Zenon DEF S
    <3>2. g.spilled[i] <= S
      BY <1>6, <3>1 DEF CellsApart, S
    <3> QED
      BY <1>1, <3>1, <3>2
  <2>3. CASE g.spilled[i] # c.spilled[i] /\ g.vars[v] = c.vars[v]
    <3>1. S <= g.spilled[i] - 8 /\ g.vars[v] <= S
      BY <1>6, <2>3 DEF CellsApart, S
    <3> QED
      BY <1>1, <3>1
  <2> QED
    BY <2>1, <2>2, <2>3, Zenon
<1> HIDE DEF PTR_SIZE, NoSlot, Separate
<1> QED
  BY <1>2, <1>3, <1>4, <1>5, <1>6 DEF CellsApart, PTR_SIZE, NoSlot, T

\* Slots that are pairwise apart are what CellsDisjoint says of the frame.
LEMMA ApartDisjoint ==
  ASSUME NEW c, TypeOKCtx(c), CellsApart(c)
  PROVE  CellsDisjoint(c)
<1> DEFINE RegCell(i) == [of |-> <<"reg", i>>, at |-> c.spilled[i], size |-> PTR_SIZE]
           VarCell(v) == [of |-> <<"var", v>>, at |-> c.vars[v], size |-> VarSize[v]]
<1>1. ASSUME NEW x \in Cells(c)
      PROVE  \/ \E i \in IRRegs : c.spilled[i] # NoSlot /\ x = RegCell(i)
             \/ \E v \in Vars : c.vars[v] # NoSlot /\ x = VarCell(v)
  BY DEF Cells
<1>2. /\ \A i : RegCell(i).at = c.spilled[i] /\ RegCell(i).size = PTR_SIZE
      /\ \A v : VarCell(v).at = c.vars[v] /\ VarCell(v).size = VarSize[v]
  OBVIOUS
<1>3. /\ \A i \in IRRegs : c.spilled[i] \in Nat
      /\ \A v \in Vars : c.vars[v] \in Nat /\ VarSize[v] \in Nat
  BY VarsAssumption DEF TypeOKCtx
<1> HIDE DEF RegCell, VarCell
<1>4. ASSUME NEW x \in Cells(c), NEW y \in Cells(c), x # y PROVE ~Overlap(x, y)
  <2>1. CASE \E i \in IRRegs : c.spilled[i] # NoSlot /\ x = RegCell(i)
    <3>1. PICK i \in IRRegs : c.spilled[i] # NoSlot /\ x = RegCell(i)
      BY <2>1
    <3>2. CASE \E j \in IRRegs : c.spilled[j] # NoSlot /\ y = RegCell(j)
      <4>1. PICK j \in IRRegs : c.spilled[j] # NoSlot /\ y = RegCell(j)
        BY <3>2
      <4>2. Separate(c.spilled[i], PTR_SIZE, c.spilled[j], PTR_SIZE)
        BY <1>4, <3>1, <4>1, Zenon DEF CellsApart
      <4> QED
        BY <1>2, <1>3, <3>1, <4>1, <4>2 DEF Separate, Overlap, PTR_SIZE
    <3>3. CASE \E v \in Vars : c.vars[v] # NoSlot /\ y = VarCell(v)
      <4>1. PICK v \in Vars : c.vars[v] # NoSlot /\ y = VarCell(v)
        BY <3>3
      <4>2. Separate(c.spilled[i], PTR_SIZE, c.vars[v], VarSize[v])
        BY <3>1, <4>1, Zenon DEF CellsApart
      <4> QED
        BY <1>2, <1>3, <3>1, <4>1, <4>2 DEF Separate, Overlap, PTR_SIZE
    <3> QED
      BY <1>1, <3>2, <3>3, Zenon
  <2>2. CASE \E v \in Vars : c.vars[v] # NoSlot /\ x = VarCell(v)
    <3>1. PICK v \in Vars : c.vars[v] # NoSlot /\ x = VarCell(v)
      BY <2>2
    <3>2. CASE \E j \in IRRegs : c.spilled[j] # NoSlot /\ y = RegCell(j)
      <4>1. PICK j \in IRRegs : c.spilled[j] # NoSlot /\ y = RegCell(j)
        BY <3>2
      <4>2. Separate(c.spilled[j], PTR_SIZE, c.vars[v], VarSize[v])
        BY <3>1, <4>1, Zenon DEF CellsApart
      <4> QED
        BY <1>2, <1>3, <3>1, <4>1, <4>2 DEF Separate, Overlap, PTR_SIZE
    <3>3. CASE \E w \in Vars : c.vars[w] # NoSlot /\ y = VarCell(w)
      <4>1. PICK w \in Vars : c.vars[w] # NoSlot /\ y = VarCell(w)
        BY <3>3
      <4>2. Separate(c.vars[v], VarSize[v], c.vars[w], VarSize[w])
        BY <1>4, <3>1, <4>1, Zenon DEF CellsApart
      <4> QED
        BY <1>2, <1>3, <3>1, <4>1, <4>2 DEF Separate, Overlap
    <3> QED
      BY <1>1, <3>2, <3>3, Zenon
  <2> QED
    BY <1>1, <2>1, <2>2, Zenon
<1>5. ASSUME NEW x \in Cells(c) PROVE x.size <= x.at /\ x.at <= c.stack_offset
  <2>1. CASE \E i \in IRRegs : c.spilled[i] # NoSlot /\ x = RegCell(i)
    BY <1>2, <2>1, ZenonT(60) DEF CellsApart
  <2>2. CASE \E v \in Vars : c.vars[v] # NoSlot /\ x = VarCell(v)
    BY <1>2, <2>2, Zenon DEF CellsApart
  <2> QED
    BY <1>1, <2>1, <2>2, Zenon
<1> QED
  BY <1>4, <1>5, Zenon DEF CellsDisjoint

\* spill_register moves the value of one register to a new slot and touches no
\* other register, slot or value.
LEMMA SpillLemma ==
  ASSUME NEW D, NEW c, WF(c, D), NEW r \in Reg, c.phys[r] # Free
  PROVE  LET g == spill_register(c, r) IN
         /\ WF(g, D)
         /\ g.reg_count = c.reg_count /\ g.val = c.val /\ g.misread = c.misread
         /\ g.phys = [c.phys EXCEPT ![r] = Free]
         /\ \A i \in IRRegs : Fresh(c, i) => Fresh(g, i)
<1> DEFINE i == c.phys[r]
           off == c.stack_offset + PTR_SIZE
           g == spill_register(c, r)
<1> USE TempRegsAssumption, IRRegsAssumption
<1>2. TypeOKCtx(c) BY DEF WF
<1>1. /\ i \in IRRegs /\ i # Free /\ c.ir[i] = r /\ c.spilled[i] = NoSlot
      /\ c.stack_offset \in Nat /\ off \in Nat /\ off > c.stack_offset
  <2>1. i \in IRRegs
    BY <1>2 DEF TypeOKCtx
  <2>2. c.ir[i] = r
    BY <2>1, Zenon DEF WF, MapsInverse
  <2>3. c.spilled[i] = NoSlot
    <3>1. r # NoReg
      BY DEF Reg, NoReg
    <3>2. OneLocation(c)
      BY DEF WF
    <3> QED
      BY <3>1, <3>2, <2>1, <2>2, Zenon DEF OneLocation
  <2>4. c.stack_offset \in Nat
    BY <1>2 DEF TypeOKCtx
  <2> QED
    BY <2>1, <2>2, <2>3, <2>4 DEF PTR_SIZE
<1>3. /\ g.stack_offset = off /\ g.reg_count = c.reg_count /\ g.val = c.val
      /\ g.misread = c.misread /\ g.vars = c.vars
      /\ g.phys = [c.phys EXCEPT ![r] = Free]
      /\ g.ir = [c.ir EXCEPT ![i] = NoReg]
      /\ g.spilled = [c.spilled EXCEPT ![i] = off]
      /\ g.mem = [o \in 1 .. off |-> IF o = off THEN c.val[r]
                                     ELSE IF o <= c.stack_offset THEN c.mem[o] ELSE Junk]
  BY <1>1, <1>2, Zenon DEF TypeOKCtx, spill_register, Grow
<1>4. \A j \in IRRegs : g.ir[j] = IF j = i THEN NoReg ELSE c.ir[j]
  BY <1>1, <1>2, <1>3 DEF TypeOKCtx
<1>5. \A j \in IRRegs : g.spilled[j] = IF j = i THEN off ELSE c.spilled[j]
  BY <1>1, <1>2, <1>3 DEF TypeOKCtx
<1>6. \A q \in Reg : g.phys[q] = IF q = r THEN Free ELSE c.phys[q]
  BY <1>2, <1>3 DEF TypeOKCtx
<1>7. \A j \in IRRegs : c.spilled[j] \in Nat /\ c.spilled[j] <= c.stack_offset
  BY <1>2 DEF WF, SlotsUnique, TypeOKCtx
<1>8. g.mem[off] = c.val[r] /\ \A o \in 1 .. c.stack_offset : g.mem[o] = c.mem[o]
  BY <1>1, <1>3
<1>9. DOMAIN g = DOMAIN c
  BY <1>2 DEF TypeOKCtx, spill_register, Grow
<1> HIDE DEF g
<1>10. TypeOKCtx(g)
  <2>1. g.mem \in [1 .. off -> Tokens]
    BY <1>1, <1>2, <1>3 DEF TypeOKCtx, Tokens, Junk
  <2>2. g.phys \in [Reg -> IRRegs \cup {Free}] /\ g.ir \in [IRRegs -> Reg \cup {NoReg}]
    BY <1>1, <1>2, <1>3 DEF TypeOKCtx
  <2>3. g.spilled \in [IRRegs -> Nat]
    BY <1>1, <1>2, <1>3 DEF TypeOKCtx
  <2> QED
    BY <1>1, <1>2, <1>3, <1>9, <2>1, <2>2, <2>3, Zenon DEF TypeOKCtx, g, spill_register, Grow
<1>11. MapsInverse(g)
  <2> SUFFICES ASSUME NEW q \in Reg, NEW j \in IRRegs
               PROVE  g.phys[q] = j <=> g.ir[j] = q
    BY DEF MapsInverse
  <2>1. q # NoReg /\ j # Free
    BY DEF Reg, NoReg, Free
  <2>2. c.phys[q] = j <=> c.ir[j] = q
    BY DEF WF, MapsInverse
  <2> QED
    BY <1>1, <1>4, <1>6, <2>1, <2>2, ZenonT(60)
<1>12. OneLocation(g)
  BY <1>4, <1>5, Zenon DEF OneLocation, WF
<1>13. SlotsUnique(g)
  <2>1. \A j \in IRRegs : g.spilled[j] <= g.stack_offset
    BY <1>1, <1>3, <1>5, <1>7
  <2>2. ASSUME NEW j \in IRRegs, NEW k \in IRRegs,
               g.spilled[j] # NoSlot, g.spilled[j] = g.spilled[k]
        PROVE  j = k
    <3>1. SlotsUnique(c)
      BY DEF WF
    <3>2. CASE j # i /\ k # i
      BY <1>5, <2>2, <3>1, <3>2, Zenon DEF SlotsUnique
    <3>3. c.spilled[j] < off /\ c.spilled[k] < off
      BY <1>1, <1>7
    <3> QED
      BY <1>1, <1>5, <2>2, <3>2, <3>3
  <2> QED
    BY <2>1, <2>2 DEF SlotsUnique
<1>16. CellsApart(g)
  <2>1. CellsApart(c) /\ c.stack_offset <= off /\ c.stack_offset <= off - PTR_SIZE /\ off <= off
    BY <1>1 DEF WF, PTR_SIZE
  <2>2. /\ \A j \in IRRegs : g.spilled[j] \in {NoSlot, c.spilled[j]} \/ g.spilled[j] = off
        /\ \A j, k \in IRRegs : j # k => \/ g.spilled[j] \in {NoSlot, c.spilled[j]}
                                         \/ g.spilled[k] \in {NoSlot, c.spilled[k]}
    BY <1>5, Zenon
  <2> HIDE DEF off
  <2> QED
    BY <1>2, <1>3, <1>10, <2>1, <2>2, CellsGrow, Zenon
<1>14. HoldsValues(g, D)
  <2> SUFFICES ASSUME NEW j \in D
               PROVE  \/ g.ir[j] # NoReg /\ g.val[g.ir[j]] = j
                      \/ g.spilled[j] # NoSlot /\ g.mem[g.spilled[j]] = j
    BY DEF HoldsValues
  <2>1. j \in IRRegs /\ (\/ c.ir[j] # NoReg /\ c.val[c.ir[j]] = j
                         \/ c.spilled[j] # NoSlot /\ c.mem[c.spilled[j]] = j)
    BY DEF WF, HoldsValues
  <2>2. CASE j = i
    BY <1>1, <1>5, <1>8, <2>1, <2>2 DEF NoSlot, PTR_SIZE
  <2>3. CASE j # i /\ c.spilled[j] # NoSlot
    <3>1. c.spilled[j] \in 1 .. c.stack_offset
      <4>1. c.stack_offset \in Nat
        BY <1>1, Zenon
      <4>2. c.spilled[j] \in Nat /\ c.spilled[j] <= c.stack_offset /\ c.spilled[j] # 0
        BY <1>7, <2>1, <2>3, Zenon DEF NoSlot
      <4> QED
        BY <4>1, <4>2
    <3> QED
      BY <1>3, <1>4, <1>5, <1>8, <2>1, <2>3, <3>1, Zenon
  <2>4. CASE j # i /\ c.spilled[j] = NoSlot
    BY <1>3, <1>4, <2>1, <2>4
  <2> QED
    BY <2>2, <2>3, <2>4
<1>15. \A j \in IRRegs : Fresh(c, j) => Fresh(g, j)
  <2>1. r # NoReg
    BY DEF Reg, NoReg
  <2> QED
    BY <1>1, <1>4, <1>5, <2>1 DEF Fresh
<1> QED
  BY <1>3, <1>10, <1>11, <1>12, <1>13, <1>14, <1>15, <1>16 DEF WF, g

\* get_temp_phys_reg returns a register that no IR register is mapped to.
LEMMA TakeLemma ==
  ASSUME NEW D, NEW c, WF(c, D)
  PROVE  LET g == TakeReg(c) IN
         /\ Step(c, g, D)
         /\ c.reg_count \in Reg
         /\ g.reg_count = Succ(c.reg_count)
         /\ g.val = c.val
         /\ g.phys[c.reg_count] = Free
         /\ Dist(g.reg_count, c.reg_count) = N - 1
         /\ \A j \in IRRegs : Fresh(c, j) => Fresh(g, j)
<1> DEFINE r == c.reg_count
           n == [c EXCEPT !.reg_count = Succ(r)]
           g == TakeReg(c)
<1>1. TypeOKCtx(c) /\ r \in Reg /\ Succ(r) \in Reg
  <2>1. TypeOKCtx(c) /\ r \in Reg
    BY DEF WF, TypeOKCtx
  <2> QED
    BY <2>1, SuccLemma
<1>2. /\ n.stack_offset = c.stack_offset /\ n.phys = c.phys /\ n.ir = c.ir
      /\ n.spilled = c.spilled /\ n.vars = c.vars /\ n.val = c.val /\ n.mem = c.mem
      /\ n.misread = c.misread /\ n.reg_count = Succ(r)
  BY <1>1 DEF TypeOKCtx
<1>3. WF(n, D)
  <2>1. TypeOKCtx(n)
    BY <1>1, Zenon DEF TypeOKCtx
  <2> QED
    BY <1>2, <2>1 DEF WF, MapsInverse, OneLocation, SlotsUnique, CellsApart, HoldsValues
<1>4. \A j \in IRRegs : Fresh(c, j) => Fresh(n, j)
  BY <1>2 DEF Fresh
<1>5. g = IF c.phys[r] # Free THEN spill_register(n, r) ELSE n
  BY DEF TakeReg, Succ
<1> HIDE DEF n, g
<1>6. /\ WF(g, D) /\ g.reg_count = Succ(r) /\ g.val = c.val /\ g.misread = c.misread
      /\ g.phys = [c.phys EXCEPT ![r] = Free]
      /\ \A j \in IRRegs : Fresh(c, j) => Fresh(g, j)
  <2>1. CASE c.phys[r] # Free
    <3>1. g = spill_register(n, r) /\ n.phys[r] # Free
      BY <1>2, <1>5, <2>1
    <3>2. /\ WF(g, D) /\ g.reg_count = n.reg_count /\ g.val = n.val /\ g.misread = n.misread
          /\ g.phys = [n.phys EXCEPT ![r] = Free]
          /\ \A j \in IRRegs : Fresh(n, j) => Fresh(g, j)
      BY <1>1, <1>3, <3>1, SpillLemma
    <3> QED
      BY <1>2, <1>4, <3>2
  <2>2. CASE c.phys[r] = Free
    <3>1. g = n
      BY <1>5, <2>2
    <3>2. c.phys = [c.phys EXCEPT ![r] = Free]
      BY <1>1, <2>2 DEF TypeOKCtx
    <3> QED
      BY <1>2, <1>3, <1>4, <3>1, <3>2
  <2> QED
    BY <2>1, <2>2
<1>7. \A d \in Reg : g.phys[d] = IF d = r THEN Free ELSE c.phys[d]
  BY <1>1, <1>6 DEF TypeOKCtx
<1>8. Dist(g.reg_count, r) = N - 1
  BY <1>1, <1>6, DistLemma
<1>9. ASSUME NEW d \in Reg, Dist(r, d) >= 1
      PROVE  d # r /\ Dist(g.reg_count, d) >= Dist(r, d) - 1
  <2>1. Dist(r, d) \in 0 .. N - 1 /\ (Dist(r, d) = 0 <=> d = r)
        /\ Dist(Succ(r), d) = IF d = r THEN N - 1 ELSE Dist(r, d) - 1
    BY <1>1, DistLemma
  <2> QED
    BY <1>6, <1>9, <2>1, TempRegsAssumption
<1>10. Step(c, g, D)
  BY <1>6, <1>7, <1>9 DEF Step, Keeps
<1> QED
  BY <1>1, <1>6, <1>7, <1>8, <1>10 DEF g

\* An operation that takes no register and leaves the registers as they are.
LEMMA StepSame ==
  ASSUME NEW D, NEW c, NEW g, WF(c, D), WF(g, D), g.reg_count = c.reg_count,
         g.phys = c.phys, g.val = c.val, g.misread = c.misread,
         \A j \in IRRegs \ D : Fresh(c, j) => Fresh(g, j)
  PROVE  Step(c, g, D)
<1>1. c.reg_count \in Reg
  BY DEF WF, TypeOKCtx
<1>2. \A d \in Reg : Dist(c.reg_count, d) \in Int
  BY <1>1, TempRegsAssumption DEF Dist, Reg
<1> QED
  BY <1>2 DEF Step, Keeps

\* get_phys_reg gives an IR register a physical one that holds its value, and
\* spills at most the IR register that was in the next register.
LEMMA GetPhysLemma ==
  ASSUME NEW D, NEW c, WF(c, D), NEW i \in IRRegs, i \in D \/ Fresh(c, i)
  PROVE  LET g == get_phys_reg(c, i) IN
         /\ WF(g, D)
         /\ i \in D => Step(c, g, D)
         /\ Keeps(c, g)
         /\ \A q \in Reg : g.phys[q] \in {Free, c.phys[q], i}
         /\ g.misread = c.misread
         /\ g.ir[i] \in Reg /\ g.phys[g.ir[i]] = i
         /\ i \in D => g.val[g.ir[i]] = i
         /\ Fresh(c, i) => Dist(g.reg_count, g.ir[i]) = N - 1
         /\ \A j \in IRRegs \ {i} : Fresh(c, j) => Fresh(g, j)
<1> DEFINE g == get_phys_reg(c, i)
<1> USE IRRegsAssumption
<1>1. CASE c.ir[i] # NoReg
  <2>1. g = c
    BY <1>1 DEF get_phys_reg
  <2>2. i \in D
    BY <1>1 DEF Fresh
  <2>3. c.ir[i] \in Reg /\ c.phys[c.ir[i]] = i
    BY <1>1 DEF WF, TypeOKCtx, MapsInverse
  <2>4. c.val[c.ir[i]] = i
    BY <1>1, <2>2 DEF WF, OneLocation, HoldsValues
  <2>5. Step(c, c, D) /\ Keeps(c, c)
    <3>1. Step(c, c, D)
      BY StepSame
    <3> QED
      BY <3>1 DEF Step
  <2> QED
    BY <1>1, <2>1, <2>2, <2>3, <2>4, <2>5 DEF Fresh
<1>2. CASE c.ir[i] = NoReg
  <2> DEFINE r == c.reg_count
             t == TakeReg(c)
             l == Reload(t, i, r)
  <2>1. /\ Step(c, t, D) /\ r \in Reg /\ t.reg_count = Succ(r) /\ t.val = c.val
        /\ t.phys[r] = Free /\ Dist(t.reg_count, r) = N - 1
        /\ \A j \in IRRegs : Fresh(c, j) => Fresh(t, j)
    BY TakeLemma
  <2>2. WF(t, D) /\ TypeOKCtx(t) /\ t.misread = c.misread
    BY <2>1 DEF Step, WF
  <2>3. g = [l EXCEPT !.ir[i] = r, !.phys[r] = i]
    BY <1>2 DEF get_phys_reg
  <2> HIDE DEF g, t
  <2>4. t.spilled[i] # NoSlot => t.spilled[i] \in 1 .. t.stack_offset
    BY <2>2 DEF WF, SlotsUnique, TypeOKCtx, NoSlot
  <2>5. /\ g.reg_count = t.reg_count /\ g.stack_offset = t.stack_offset
        /\ g.vars = t.vars /\ g.mem = t.mem /\ g.misread = t.misread
        /\ g.ir = [t.ir EXCEPT ![i] = r] /\ g.phys = [t.phys EXCEPT ![r] = i]
        /\ g.spilled = [t.spilled EXCEPT ![i] = NoSlot]
        /\ g.val = IF t.spilled[i] = NoSlot THEN t.val
                   ELSE [t.val EXCEPT ![r] = t.mem[t.spilled[i]]]
    <3>1. CASE t.spilled[i] = NoSlot
      BY <2>2, <2>3, <3>1 DEF Reload, TypeOKCtx
    <3>2. CASE t.spilled[i] # NoSlot
      BY <2>2, <2>3, <3>2 DEF Reload, TypeOKCtx
    <3> QED
      BY <3>1, <3>2
  <2>6. TypeOKCtx(g)
    <3>1. /\ g.ir \in [IRRegs -> Reg \cup {NoReg}] /\ g.phys \in [Reg -> IRRegs \cup {Free}]
          /\ g.spilled \in [IRRegs -> Nat] /\ g.val \in [Reg -> Tokens]
      BY <2>1, <2>2, <2>4, <2>5 DEF TypeOKCtx, NoSlot
    <3>2. g \in [reg_count : Reg, stack_offset : Nat,
                 phys : [Reg -> IRRegs \cup {Free}], ir : [IRRegs -> Reg \cup {NoReg}],
                 spilled : [IRRegs -> Nat], vars : [Vars -> Nat],
                 val : [Reg -> Tokens], mem : [1 .. t.stack_offset -> Tokens],
                 misread : Handlers \cup {"none"}]
      <4>1. CASE t.spilled[i] = NoSlot
        BY <2>1, <2>2, <2>3, <4>1, <3>1, <2>5, Zenon DEF Reload, TypeOKCtx
      <4>2. CASE t.spilled[i] # NoSlot
        BY <2>1, <2>2, <2>3, <4>2, <3>1, <2>5, Zenon DEF Reload, TypeOKCtx
      <4> QED
        BY <4>1, <4>2
    <3> QED
      BY <2>5, <3>2 DEF TypeOKCtx
  <2> HIDE DEF l
  <2>7. /\ \A j \in IRRegs : g.ir[j] = IF j = i THEN r ELSE t.ir[j]
        /\ \A j \in IRRegs : g.spilled[j] = IF j = i THEN NoSlot ELSE t.spilled[j]
        /\ \A q \in Reg : g.phys[q] = IF q = r THEN i ELSE t.phys[q]
        /\ \A q \in Reg : q # r => g.val[q] = t.val[q]
        /\ t.spilled[i] # NoSlot => g.val[r] = t.mem[t.spilled[i]]
    BY <2>1, <2>2, <2>5 DEF TypeOKCtx
  <2>8. /\ r # NoReg /\ i # Free /\ \A j \in IRRegs : t.ir[j] # r
        /\ \A q \in Reg : t.phys[q] = i => q = r
    <3>1. MapsInverse(t) /\ OneLocation(t)
      BY <2>2 DEF WF
    <3>2. r # NoReg /\ \A j \in IRRegs : j # Free
      BY <2>1 DEF Reg, NoReg, Free
    <3>3. \A j \in IRRegs : t.ir[j] # r
      BY <2>1, <3>1, <3>2 DEF MapsInverse
    <3>4. ASSUME NEW q \in Reg, t.phys[q] = i PROVE q = r
      <4>1. t.ir[i] = q
        BY <3>1, <3>4 DEF MapsInverse
      <4>2. t.spilled[i] = NoSlot
        <5>1. q # NoReg
          BY DEF Reg, NoReg
        <5> QED
          BY <3>1, <4>1, <5>1 DEF OneLocation
      <4>3. CASE q # r
        <5>1. Dist(r, q) >= 1
          BY <2>1, <4>3, DistLemma, TempRegsAssumption
        <5>2. c.phys[q] = i
          BY <2>1, <3>4, <5>1 DEF Step, Keeps
        <5> QED
          BY <1>2, <5>2, <3>2, q # NoReg DEF WF, MapsInverse, Reg, NoReg
      <4> QED
        BY <4>3
    <3> QED
      BY <3>2, <3>3, <3>4
  <2>9. MapsInverse(g)
    <3> SUFFICES ASSUME NEW q \in Reg, NEW j \in IRRegs
                 PROVE  g.phys[q] = j <=> g.ir[j] = q
      BY DEF MapsInverse
    <3>1. t.phys[q] = j <=> t.ir[j] = q
      BY <2>2 DEF WF, MapsInverse
    <3> QED
      BY <2>7, <2>8, <3>1
  <2>10. OneLocation(g)
    BY <2>2, <2>7 DEF WF, OneLocation
  <2>11. SlotsUnique(g)
    BY <2>2, <2>5, <2>7 DEF WF, SlotsUnique, TypeOKCtx, NoSlot
  <2>16. CellsApart(g)
    <3>1. CellsApart(t) /\ t.stack_offset <= t.stack_offset
      BY <2>2 DEF WF, TypeOKCtx
    <3>2. \A j \in IRRegs : g.spilled[j] \in {NoSlot, t.spilled[j]}
      BY <2>7, Zenon
    <3> QED
      BY <2>2, <2>5, <2>6, <3>1, <3>2, CellsGrow, Zenon
  <2>12. HoldsValues(g, D) /\ (i \in D => g.val[g.ir[i]] = i)
    <3>1. ASSUME NEW j \in D, j # i
          PROVE  \/ g.ir[j] # NoReg /\ g.val[g.ir[j]] = j
                 \/ g.spilled[j] # NoSlot /\ g.mem[g.spilled[j]] = j
      <4>1. j \in IRRegs /\ (\/ t.ir[j] # NoReg /\ t.val[t.ir[j]] = j
                             \/ t.spilled[j] # NoSlot /\ t.mem[t.spilled[j]] = j)
        BY <2>2 DEF WF, HoldsValues
      <4>2. t.ir[j] # r /\ (t.ir[j] # NoReg => t.ir[j] \in Reg)
        BY <2>2, <2>8, <4>1 DEF TypeOKCtx
      <4> QED
        BY <2>5, <2>7, <3>1, <4>1, <4>2
    <3>2. ASSUME i \in D PROVE g.ir[i] = r /\ g.val[r] = i
      <4>1. t.ir[i] = NoReg
        <5>1. t.ir[i] \in Reg => t.phys[t.ir[i]] = i
          BY <2>2 DEF WF, MapsInverse
        <5>2. t.ir[i] \in Reg \cup {NoReg}
          BY <2>2 DEF TypeOKCtx
        <5> QED
          BY <2>8, <5>1, <5>2
      <4>2. t.spilled[i] # NoSlot /\ t.mem[t.spilled[i]] = i
        BY <2>2, <3>2, <4>1 DEF WF, HoldsValues
      <4> QED
        BY <2>7, <4>2
    <3> QED
      BY <2>8, <3>1, <3>2 DEF HoldsValues
  <2>13. WF(g, D)
    BY <2>2, <2>6, <2>9, <2>10, <2>11, <2>12, <2>16 DEF WF
  <2>14. \A j \in IRRegs \ {i} : Fresh(c, j) => Fresh(g, j)
    BY <2>1, <2>7 DEF Fresh
  <2>15. Keeps(c, g)
    <3>1. \A d \in Reg : Dist(r, d) >= 1 => d # r
      BY <2>1, DistLemma, TempRegsAssumption
    <3>2. Keeps(c, t)
      BY <2>1 DEF Step
    <3> QED
      BY <2>5, <2>7, <3>1, <3>2 DEF Keeps
  <2>17. i \in D => Step(c, g, D)
    BY <2>2, <2>5, <2>13, <2>14, <2>15 DEF Step
  <2>18. \A q \in Reg : g.phys[q] \in {Free, c.phys[q], i}
    <3>1. \A q \in Reg : q # r => Dist(r, q) >= 1
      BY <2>1, DistLemma, TempRegsAssumption
    <3> QED
      BY <2>7, <2>15, <3>1 DEF Keeps
  <2> QED
    BY <2>1, <2>2, <2>5, <2>7, <2>12, <2>13, <2>14, <2>15, <2>17, <2>18 DEF g
<1> QED
  BY <1>1, <1>2

\* Writing a register destroys at most the value of the IR register mapped to it.
LEMMA MovLemma ==
  ASSUME NEW D, NEW c, WF(c, D), NEW r \in Reg, NEW v \in Tokens
  PROVE  LET g == Mov(c, r, v) IN
         /\ WF(g, D \ {c.phys[r]})
         /\ c.phys[r] = v => WF(g, (D \cup {v}) \cap IRRegs)
         /\ g.reg_count = c.reg_count /\ g.phys = c.phys /\ g.ir = c.ir
         /\ g.misread = c.misread /\ g.val[r] = v
         /\ \A q \in Reg : q # r => g.val[q] = c.val[q]
         /\ \A j \in IRRegs : Fresh(c, j) => Fresh(g, j)
<1> DEFINE g == Mov(c, r, v)
<1>1. TypeOKCtx(c) /\ D \subseteq IRRegs
  BY DEF WF
<1>2. /\ g.reg_count = c.reg_count /\ g.phys = c.phys /\ g.ir = c.ir
      /\ g.misread = c.misread /\ g.stack_offset = c.stack_offset
      /\ g.spilled = c.spilled /\ g.mem = c.mem /\ g.vars = c.vars
      /\ g.val = [c.val EXCEPT ![r] = v]
  BY <1>1 DEF TypeOKCtx, Mov
<1>3. TypeOKCtx(g)
  <2>1. g.val \in [Reg -> Tokens]
    BY <1>1, <1>2 DEF TypeOKCtx
  <2> QED
    BY <1>1, <2>1, Zenon DEF TypeOKCtx, Mov
<1> HIDE DEF g
<1>4. \A q \in Reg : g.val[q] = IF q = r THEN v ELSE c.val[q]
  BY <1>1, <1>2 DEF TypeOKCtx
<1>5. MapsInverse(g) /\ OneLocation(g) /\ SlotsUnique(g) /\ CellsApart(g)
  BY <1>2 DEF WF, MapsInverse, OneLocation, SlotsUnique, CellsApart
<1>6. ASSUME NEW j \in D, j # c.phys[r]
      PROVE  \/ g.ir[j] # NoReg /\ g.val[g.ir[j]] = j
             \/ g.spilled[j] # NoSlot /\ g.mem[g.spilled[j]] = j
  <2>1. j \in IRRegs /\ (\/ c.ir[j] # NoReg /\ c.val[c.ir[j]] = j
                         \/ c.spilled[j] # NoSlot /\ c.mem[c.spilled[j]] = j)
    BY DEF WF, HoldsValues
  <2>2. c.ir[j] # r /\ (c.ir[j] # NoReg => c.ir[j] \in Reg)
    BY <1>1, <1>6, <2>1 DEF WF, MapsInverse, TypeOKCtx
  <2> QED
    BY <1>2, <1>4, <2>1, <2>2
<1>7. HoldsValues(g, D \ {c.phys[r]})
  BY <1>6 DEF HoldsValues
<1>8. ASSUME c.phys[r] = v PROVE HoldsValues(g, (D \cup {v}) \cap IRRegs)
  <2>1. ASSUME v \in IRRegs PROVE g.ir[v] # NoReg /\ g.val[g.ir[v]] = v
    <3>1. c.ir[v] = r
      BY <1>8, <2>1 DEF WF, MapsInverse
    <3>2. r # NoReg
      BY TempRegsAssumption DEF Reg, NoReg
    <3> QED
      BY <1>2, <1>4, <3>1, <3>2
  <2> QED
    BY <1>6, <1>8, <2>1 DEF HoldsValues
<1>9. WF(g, D \ {c.phys[r]})
  BY <1>1, <1>3, <1>5, <1>7 DEF WF
<1>10. c.phys[r] = v => WF(g, (D \cup {v}) \cap IRRegs)
  BY <1>1, <1>3, <1>5, <1>8 DEF WF
<1>11. \A j \in IRRegs : Fresh(c, j) => Fresh(g, j)
  BY <1>2 DEF Fresh
<1> QED
  BY <1>2, <1>4, <1>9, <1>10, <1>11 DEF g

\* A scratch register can be written without harm.
LEMMA MovScratch ==
  ASSUME NEW D, NEW c, WF(c, D), NEW r \in Reg, NEW v \in Tokens, c.phys[r] = Free
  PROVE  WF(Mov(c, r, v), D)
<1>1. D \ {Free} = D
  BY IRRegsAssumption DEF WF, Free
<1>2. WF(Mov(c, r, v), D \ {c.phys[r]})
  BY MovLemma, Zenon
<1> QED
  BY <1>1, <1>2

\* The register mapped to i receives the value of i: i is computed from now on.
LEMMA MovResult ==
  ASSUME NEW D, NEW c, WF(c, D), NEW r \in Reg, NEW i \in IRRegs, c.phys[r] = i
  PROVE  WF(Mov(c, r, i), D \cup {i})
<1>1. (D \cup {i}) \cap IRRegs = D \cup {i} /\ i \in Tokens
  BY DEF WF, Tokens
<1>2. c.phys[r] = i => WF(Mov(c, r, i), (D \cup {i}) \cap IRRegs)
  BY <1>1, MovLemma, Zenon
<1> QED
  BY <1>1, <1>2

\* Rounding an offset up to an alignment never makes it smaller.
LEMMA AlignUpLemma ==
  ASSUME NEW o \in Nat, NEW a \in Nat
  PROVE  AlignUp(o, a) \in Nat /\ AlignUp(o, a) >= o
<1>1. CASE a = 0
  BY <1>1 DEF AlignUp
<1>2. CASE a # 0
  <2> DEFINE q == (o + a - 1) \div a
  <2>1. q \in Nat /\ q * a >= o
    BY <1>2
  <2>2. AlignUp(o, a) = q * a
    BY <1>2 DEF AlignUp
  <2> HIDE DEF q
  <2>3. q * a \in Nat
    BY <2>1
  <2> QED
    BY <2>1, <2>2, <2>3
<1> QED
  BY <1>1, <1>2

\* Growing the frame keeps what was in it.
LEMMA VarLemma ==
  ASSUME NEW D, NEW c, WF(c, D), NEW v \in Vars
  PROVE  LET g == var_location(c, v) IN
         /\ Step(c, g, D)
         /\ g.reg_count = c.reg_count /\ g.phys = c.phys /\ g.ir = c.ir /\ g.val = c.val
         /\ \A j \in IRRegs : Fresh(c, j) => Fresh(g, j)
<1> DEFINE g == var_location(c, v)
<1>0. TypeOKCtx(c)
  BY DEF WF
<1>1. CASE c.vars[v] # NoSlot
  <2>1. g = c
    BY <1>1 DEF var_location
  <2> QED
    BY <2>1, StepSame
<1>2. CASE c.vars[v] = NoSlot
  <2> DEFINE off == AlignUp(c.stack_offset, VarAlign[v]) + VarSize[v]
  <2>1. /\ c.stack_offset \in Nat /\ off \in Nat /\ off > c.stack_offset
        /\ c.stack_offset <= off - VarSize[v]
    <3>1. c.stack_offset \in Nat /\ VarAlign[v] \in Nat /\ VarSize[v] \in Nat \ {0}
      BY <1>0, VarsAssumption DEF TypeOKCtx
    <3>3. AlignUp(c.stack_offset, VarAlign[v]) \in Nat
          /\ AlignUp(c.stack_offset, VarAlign[v]) >= c.stack_offset
      BY <3>1, AlignUpLemma, Zenon
    <3> QED
      BY <3>1, <3>3
  <2>2. g = [Grow(c, off) EXCEPT !.vars[v] = off]
    BY <1>2 DEF var_location
  <2> HIDE DEF off
  <2>3. /\ g.reg_count = c.reg_count /\ g.phys = c.phys /\ g.ir = c.ir /\ g.val = c.val
        /\ g.misread = c.misread /\ g.spilled = c.spilled /\ g.stack_offset = off
        /\ g.vars = [c.vars EXCEPT ![v] = off]
        /\ g.mem = [o \in 1 .. off |-> IF o <= c.stack_offset THEN c.mem[o] ELSE Junk]
    BY <1>0, <2>2 DEF Grow, TypeOKCtx
  <2>4. TypeOKCtx(g)
    <3>1. g.mem \in [1 .. off -> Tokens]
      BY <1>0, <2>1, <2>3 DEF TypeOKCtx, Tokens
    <3>2. g.vars \in [Vars -> Nat]
      BY <1>0, <2>1, <2>3 DEF TypeOKCtx
    <3> QED
      BY <1>0, <2>1, <2>2, <2>3, <3>1, <3>2, Zenon DEF Grow, TypeOKCtx
  <2> HIDE DEF g
  <2>5. \A j \in IRRegs : c.spilled[j] \in Nat /\ c.spilled[j] <= c.stack_offset
    BY <1>0 DEF WF, SlotsUnique, TypeOKCtx
  <2>6. MapsInverse(g) /\ OneLocation(g)
    BY <2>3 DEF WF, MapsInverse, OneLocation
  <2>7. SlotsUnique(g)
    BY <2>1, <2>3, <2>5 DEF WF, SlotsUnique
  <2>8. HoldsValues(g, D)
    <3>1. \A j \in IRRegs : c.spilled[j] # NoSlot => g.mem[c.spilled[j]] = c.mem[c.spilled[j]]
      BY <2>1, <2>3, <2>5 DEF NoSlot
    <3> QED
      BY <2>3, <3>1 DEF WF, HoldsValues
  <2>12. CellsApart(g)
    <3>1. CellsApart(c) /\ c.stack_offset <= off /\ off <= off
      BY <2>1 DEF WF
    <3>2. g.vars[v] = off /\ \A w \in Vars \ {v} : g.vars[w] = c.vars[w]
      BY <1>0, <2>3 DEF TypeOKCtx
    <3> QED
      BY <1>0, <2>1, <2>3, <2>4, <3>1, <3>2, CellsGrow, Zenon
  <2>9. WF(g, D)
    BY <2>4, <2>6, <2>7, <2>8, <2>12 DEF WF
  <2>10. \A j \in IRRegs : Fresh(c, j) => Fresh(g, j)
    BY <2>3 DEF Fresh
  <2>11. Step(c, g, D)
    BY <2>3, <2>9, <2>10, StepSame
  <2> QED
    BY <2>3, <2>10, <2>11 DEF g
<1> QED
  BY <1>1, <1>2

\* The live caller-saved registers go to distinct slots beyond the old frame and
\* inside the new one.
LEMMA SaveOffsetLemma ==
  ASSUME NEW D, NEW c, WF(c, D)
  PROVE  LET L == LiveCallerSaved(c)
             size == c.stack_offset + PTR_SIZE * Cardinality(L)
         IN  /\ L \subseteq Reg /\ size \in Nat /\ size >= c.stack_offset
             /\ \A r \in L : /\ SaveOffset(c, r) \in Nat
                             /\ c.stack_offset < SaveOffset(c, r)
                             /\ c.stack_offset <= SaveOffset(c, r) - PTR_SIZE
                             /\ SaveOffset(c, r) <= size
             /\ \A r, s \in L : SaveOffset(c, r) = SaveOffset(c, s) => r = s
             /\ \A r, s \in L :
                  r # s => Separate(SaveOffset(c, r), PTR_SIZE, SaveOffset(c, s), PTR_SIZE)
<1> DEFINE L == LiveCallerSaved(c)
           Upto(r) == {q \in L : q <= r}
<1>1. L \subseteq Reg /\ c.stack_offset \in Nat
  BY CallerSavedAssumption, Zenon DEF LiveCallerSaved, WF, TypeOKCtx, Reg
<1>2. IsFiniteSet(L) /\ Cardinality(L) \in Nat
  <2>1. IsFiniteSet(Reg)
    BY FS_Interval, TempRegsAssumption DEF Reg
  <2> QED
    BY <1>1, <2>1, FS_Subset, FS_CardinalityType
<1>3. \A r \in L : r \in Int
  BY <1>1 DEF Reg
<1> HIDE DEF L
<1>4. ASSUME NEW r \in L
      PROVE  /\ IsFiniteSet(Upto(r)) /\ Cardinality(Upto(r)) \in Nat
             /\ 1 <= Cardinality(Upto(r)) /\ Cardinality(Upto(r)) <= Cardinality(L)
  <2>1. IsFiniteSet(Upto(r)) /\ Cardinality(Upto(r)) <= Cardinality(L)
    <3>1. Upto(r) \in SUBSET L
      OBVIOUS
    <3> QED
      BY <1>2, <3>1, FS_Subset
  <2>2. Cardinality(Upto(r)) \in Nat
    BY <2>1, FS_CardinalityType
  <2>3. r \in Upto(r)
    BY <1>3
  <2>4. Cardinality(Upto(r)) # 0
    BY <2>1, <2>3, FS_EmptySet
  <2> QED
    BY <2>1, <2>2, <2>4
<1>5. ASSUME NEW r \in L, NEW s \in L, r < s
      PROVE  Cardinality(Upto(r)) < Cardinality(Upto(s))
  <2>1. Upto(r) \in SUBSET Upto(s)
    BY <1>3, <1>5
  <2>2. s \in Upto(s) /\ s \notin Upto(r)
    BY <1>3, <1>5
  <2>3. Upto(r) # Upto(s)
    BY <2>2
  <2>4. /\ Cardinality(Upto(r)) <= Cardinality(Upto(s))
        /\ Cardinality(Upto(s)) = Cardinality(Upto(r)) => Upto(s) = Upto(r)
    BY <1>4, <2>1, FS_Subset
  <2> QED
    BY <1>4, <2>3, <2>4
<1>6. \A r \in L : SaveOffset(c, r) = c.stack_offset + 8 * Cardinality(Upto(r))
  BY DEF SaveOffset, PTR_SIZE, L
<1> HIDE DEF Upto
<1>7. ASSUME NEW r \in L
      PROVE  /\ SaveOffset(c, r) \in Nat /\ c.stack_offset < SaveOffset(c, r)
             /\ c.stack_offset <= SaveOffset(c, r) - 8
             /\ SaveOffset(c, r) <= c.stack_offset + 8 * Cardinality(L)
  BY <1>1, <1>2, <1>4, <1>6
<1>8. ASSUME NEW r \in L, NEW s \in L, SaveOffset(c, r) = SaveOffset(c, s)
      PROVE  r = s
  <2>1. Cardinality(Upto(r)) = Cardinality(Upto(s))
    BY <1>1, <1>4, <1>6, <1>8
  <2> QED
    BY <1>3, <1>4, <1>5, <2>1
<1>9. ASSUME NEW r \in L, NEW s \in L, r # s
      PROVE  Separate(SaveOffset(c, r), 8, SaveOffset(c, s), 8)
  <2> DEFINE m == Cardinality(Upto(r))
             n == Cardinality(Upto(s))
  <2>1. m \in Nat /\ n \in Nat
    BY <1>4
  <2>2. m < n \/ n < m
    BY <1>3, <1>5, <1>9
  <2>3. SaveOffset(c, r) = c.stack_offset + 8 * m /\ SaveOffset(c, s) = c.stack_offset + 8 * n
    BY <1>6
  <2> HIDE DEF m, n
  <2> QED
    BY <1>1, <2>1, <2>2, <2>3 DEF Separate
<1> QED
  BY <1>1, <1>2, <1>7, <1>8, <1>9 DEF PTR_SIZE, L

\* save_caller_saved_regs leaves no IR register in a caller-saved register and
\* every computed value where the maps say that it is.
LEMMA SaveLemma ==
  ASSUME NEW D, NEW c, WF(c, D)
  PROVE  LET g == save_caller_saved_regs(c) IN
         /\ WF(g, D)
         /\ \A r \in CallerSaved : g.phys[r] = Free
         /\ \A r \in Reg : g.phys[r] = Free \/ g.phys[r] = c.phys[r]
         /\ g.reg_count = c.reg_count /\ g.val = c.val /\ g.misread = c.misread
         /\ \A j \in IRRegs : Fresh(c, j) => Fresh(g, j)
<1> DEFINE g == save_caller_saved_regs(c)
           L == LiveCallerSaved(c)
           size == c.stack_offset + PTR_SIZE * Cardinality(L)
           at(r) == SaveOffset(c, r)
<1>1. /\ L \subseteq Reg /\ size \in Nat /\ size >= c.stack_offset
      /\ \A r \in L : /\ at(r) \in Nat /\ c.stack_offset < at(r) /\ at(r) <= size
                      /\ c.stack_offset <= at(r) - PTR_SIZE
      /\ \A r, s \in L : at(r) = at(s) => r = s
      /\ \A r, s \in L : r # s => Separate(at(r), PTR_SIZE, at(s), PTR_SIZE)
  BY SaveOffsetLemma
<1>2. TypeOKCtx(c) /\ c.stack_offset \in Nat
  BY DEF WF, TypeOKCtx
<1>3. /\ g.reg_count = c.reg_count /\ g.val = c.val /\ g.misread = c.misread
      /\ g.vars = c.vars /\ g.stack_offset = size
      /\ g.phys = [r \in Reg |-> IF r \in L THEN Free ELSE c.phys[r]]
      /\ g.ir = [i \in IRRegs |-> IF c.ir[i] \in L THEN NoReg ELSE c.ir[i]]
      /\ g.spilled = [i \in IRRegs |-> IF c.ir[i] \in L THEN at(c.ir[i]) ELSE c.spilled[i]]
      /\ g.mem = [o \in 1 .. size |->
                    IF \E r \in L : at(r) = o THEN c.val[CHOOSE r \in L : at(r) = o]
                    ELSE IF o <= c.stack_offset THEN c.mem[o] ELSE Junk]
      /\ DOMAIN g = DOMAIN c
  BY <1>2 DEF TypeOKCtx, save_caller_saved_regs, Grow
<1> HIDE DEF g, L, size, at
<1>4. TypeOKCtx(g)
  <2>1. g.mem \in [1 .. size -> Tokens]
    <3> SUFFICES ASSUME NEW o \in 1 .. size PROVE g.mem[o] \in Tokens
      BY <1>3
    <3>1. CASE \E r \in L : at(r) = o
      <4>1. (CHOOSE r \in L : at(r) = o) \in Reg
        BY <1>1, <3>1
      <4> QED
        BY <1>2, <1>3, <3>1, <4>1 DEF TypeOKCtx
    <3>2. CASE ~\E r \in L : at(r) = o
      BY <1>1, <1>2, <1>3, <3>2 DEF TypeOKCtx, Tokens
    <3> QED
      BY <3>1, <3>2
  <2>2. /\ g.phys \in [Reg -> IRRegs \cup {Free}] /\ g.ir \in [IRRegs -> Reg \cup {NoReg}]
        /\ g.spilled \in [IRRegs -> Nat]
    BY <1>1, <1>2, <1>3 DEF TypeOKCtx
  <2>3. \E M0, M, S, I, P :
          g = [[c EXCEPT !.stack_offset = size, !.mem = M0]
                 EXCEPT !.mem = M, !.spilled = S, !.ir = I, !.phys = P]
    BY ZenonT(60) DEF g, size, L, save_caller_saved_regs, Grow
  <2>4. PICK M0, M, S, I, P :
          g = [[c EXCEPT !.stack_offset = size, !.mem = M0]
                 EXCEPT !.mem = M, !.spilled = S, !.ir = I, !.phys = P]
    BY <2>3, Zenon
  <2>5. g.mem = M /\ g.spilled = S /\ g.ir = I /\ g.phys = P
    BY <1>2, <2>4 DEF TypeOKCtx
  <2> QED
    BY <1>1, <1>2, <1>3, <2>1, <2>2, <2>4, <2>5, Zenon DEF TypeOKCtx
<1>5. /\ \A r \in Reg : g.phys[r] = IF r \in L THEN Free ELSE c.phys[r]
      /\ \A j \in IRRegs : g.ir[j] = IF c.ir[j] \in L THEN NoReg ELSE c.ir[j]
      /\ \A j \in IRRegs : g.spilled[j] = IF c.ir[j] \in L THEN at(c.ir[j]) ELSE c.spilled[j]
  BY <1>3
<1>6. MapsInverse(g)
  <2> SUFFICES ASSUME NEW q \in Reg, NEW j \in IRRegs
               PROVE  g.phys[q] = j <=> g.ir[j] = q
    BY DEF MapsInverse
  <2>1. q # NoReg /\ j # Free
    BY IRRegsAssumption DEF Reg, NoReg, Free
  <2>2. c.phys[q] = j <=> c.ir[j] = q
    BY DEF WF, MapsInverse
  <2> QED
    BY <1>5, <2>1, <2>2
<1>7. OneLocation(g)
  BY <1>5 DEF WF, OneLocation
<1>8. \A j \in IRRegs : c.spilled[j] \in Nat /\ c.spilled[j] <= c.stack_offset
  BY <1>2 DEF WF, SlotsUnique, TypeOKCtx
<1>9. SlotsUnique(g)
  <2>1. \A j \in IRRegs : g.spilled[j] <= g.stack_offset
    BY <1>1, <1>2, <1>3, <1>5, <1>8
  <2>2. ASSUME NEW j \in IRRegs, NEW k \in IRRegs,
               g.spilled[j] # NoSlot, g.spilled[j] = g.spilled[k]
        PROVE  j = k
    <3>1. CASE c.ir[j] \in L /\ c.ir[k] \in L
      <4>1. c.ir[j] = c.ir[k] /\ c.ir[j] \in Reg
        BY <1>1, <1>5, <2>2, <3>1
      <4> QED
        BY <4>1 DEF WF, MapsInverse
    <3>2. CASE c.ir[j] \notin L /\ c.ir[k] \notin L
      BY <1>5, <2>2, <3>2 DEF WF, SlotsUnique
    <3>3. CASE (c.ir[j] \in L) # (c.ir[k] \in L)
      BY <1>1, <1>2, <1>5, <1>8, <2>2, <3>3
    <3> QED
      BY <3>1, <3>2, <3>3
  <2> QED
    BY <2>1, <2>2 DEF SlotsUnique
<1>10. HoldsValues(g, D)
  <2> SUFFICES ASSUME NEW j \in D
               PROVE  \/ g.ir[j] # NoReg /\ g.val[g.ir[j]] = j
                      \/ g.spilled[j] # NoSlot /\ g.mem[g.spilled[j]] = j
    BY DEF HoldsValues
  <2>1. j \in IRRegs /\ (\/ c.ir[j] # NoReg /\ c.val[c.ir[j]] = j
                         \/ c.spilled[j] # NoSlot /\ c.mem[c.spilled[j]] = j)
    BY DEF WF, HoldsValues
  <2>2. CASE c.ir[j] \in L
    <3> DEFINE o == at(c.ir[j])
    <3>1. c.ir[j] # NoReg
      BY <1>1, <2>2, TempRegsAssumption DEF Reg, NoReg
    <3>2. c.val[c.ir[j]] = j
      BY <2>1, <3>1 DEF WF, OneLocation
    <3>3. o \in 1 .. size /\ o # NoSlot
      BY <1>1, <1>2, <2>2 DEF NoSlot
    <3>4. (CHOOSE r \in L : at(r) = o) = c.ir[j]
      BY <1>1, <2>2
    <3>5. g.mem[o] = j
      BY <1>3, <2>2, <3>2, <3>3, <3>4
    <3> QED
      BY <1>5, <2>1, <2>2, <3>3, <3>5
  <2>3. CASE c.ir[j] \notin L /\ c.spilled[j] # NoSlot
    <3>1. c.spilled[j] \in 1 .. size /\ \A r \in L : at(r) # c.spilled[j]
      BY <1>1, <1>2, <1>8, <2>1, <2>3 DEF NoSlot
    <3>2. g.mem[c.spilled[j]] = c.mem[c.spilled[j]]
      BY <1>3, <1>8, <2>1, <3>1
    <3> QED
      BY <1>3, <1>5, <2>1, <2>3, <3>2
  <2>4. CASE c.ir[j] \notin L /\ c.spilled[j] = NoSlot
    BY <1>3, <1>5, <2>1, <2>4
  <2> QED
    BY <2>2, <2>3, <2>4
<1>14. CellsApart(g)
  <2>1. CellsApart(c) /\ c.stack_offset <= g.stack_offset
    BY <1>1, <1>3 DEF WF
  <2>2. \A j \in IRRegs : \/ g.spilled[j] \in {NoSlot, c.spilled[j]}
                          \/ c.ir[j] \in L /\ g.spilled[j] = at(c.ir[j])
    BY <1>5, Zenon
  <2>3. \A j \in IRRegs :
          \/ g.spilled[j] \in {NoSlot, c.spilled[j]}
          \/ c.stack_offset <= g.spilled[j] - PTR_SIZE /\ g.spilled[j] <= g.stack_offset
    <3>1. \A r \in L : c.stack_offset <= at(r) - PTR_SIZE /\ at(r) <= g.stack_offset
      BY <1>1, <1>3
    <3> QED
      BY <2>2, <3>1, Zenon
  <2>4. \A j, k \in IRRegs : c.ir[j] \in L /\ c.ir[j] = c.ir[k] => j = k
    BY <1>1 DEF WF, MapsInverse
  <2>5. \A j, k \in IRRegs :
          /\ j # k /\ g.spilled[j] \notin {NoSlot, c.spilled[j]}
          /\ g.spilled[k] \notin {NoSlot, c.spilled[k]}
          => Separate(g.spilled[j], PTR_SIZE, g.spilled[k], PTR_SIZE)
    <3> SUFFICES ASSUME NEW j \in IRRegs, NEW k \in IRRegs, j # k,
                        g.spilled[j] \notin {NoSlot, c.spilled[j]},
                        g.spilled[k] \notin {NoSlot, c.spilled[k]}
                 PROVE  Separate(g.spilled[j], PTR_SIZE, g.spilled[k], PTR_SIZE)
      BY Zenon
    <3>1. /\ c.ir[j] \in L /\ g.spilled[j] = at(c.ir[j])
          /\ c.ir[k] \in L /\ g.spilled[k] = at(c.ir[k])
      BY <2>2, Zenon
    <3>2. c.ir[j] # c.ir[k]
      BY <2>4, <3>1, Zenon
    <3>3. Separate(at(c.ir[j]), PTR_SIZE, at(c.ir[k]), PTR_SIZE)
      BY <1>1, <3>1, <3>2, Zenon
    <3> QED
      BY <3>1, <3>3, Zenon
  <2> QED
    BY <1>2, <1>3, <1>4, <2>1, <2>3, <2>5, CellsGrow, Zenon
<1>11. WF(g, D)
  BY <1>4, <1>6, <1>7, <1>9, <1>10, <1>14 DEF WF
<1>12. \A r \in CallerSaved : g.phys[r] = Free
  BY <1>5, CallerSavedAssumption DEF L, LiveCallerSaved, Reg
<1>13. \A j \in IRRegs : Fresh(c, j) => Fresh(g, j)
  <2>1. NoReg \notin L
    BY <1>1, TempRegsAssumption DEF Reg, NoReg
  <2> QED
    BY <1>5, <2>1 DEF Fresh
<1> QED
  BY <1>3, <1>5, <1>11, <1>12, <1>13 DEF g

\* The call itself loses at most the value of the IR register i, when no other
\* one is in a caller-saved register.
LEMMA ClobberLemma ==
  ASSUME NEW D, NEW s, WF(s, D), NEW i, \A r \in CallerSaved : s.phys[r] \in {Free, i}
  PROVE  LET g == Clobber(s) IN
         /\ WF(g, D \ {i})
         /\ g.misread = s.misread /\ g.phys = s.phys
         /\ \A j \in IRRegs : Fresh(s, j) => Fresh(g, j)
<1> DEFINE g == Clobber(s)
<1>2. TypeOKCtx(s)
  BY DEF WF
<1>3. /\ g.reg_count = s.reg_count /\ g.phys = s.phys /\ g.ir = s.ir
      /\ g.misread = s.misread /\ g.stack_offset = s.stack_offset
      /\ g.spilled = s.spilled /\ g.mem = s.mem /\ g.vars = s.vars
      /\ g.val = [r \in Reg |-> IF r \in CallerSaved THEN Junk ELSE s.val[r]]
  BY <1>2 DEF TypeOKCtx, Clobber
<1>4. TypeOKCtx(g)
  <2>1. g.val \in [Reg -> Tokens]
    BY <1>2, <1>3 DEF TypeOKCtx, Tokens
  <2> QED
    BY <1>2, <2>1, Zenon DEF TypeOKCtx, Clobber
<1> HIDE DEF g
<1>5. MapsInverse(g) /\ OneLocation(g) /\ SlotsUnique(g) /\ CellsApart(g)
  <2>1. MapsInverse(s) /\ OneLocation(s) /\ SlotsUnique(s) /\ CellsApart(s)
    BY Zenon DEF WF
  <2>2. MapsInverse(g) /\ OneLocation(g)
    BY <1>3, <2>1 DEF MapsInverse, OneLocation
  <2>3. SlotsUnique(g)
    BY <1>3, <2>1 DEF SlotsUnique
  <2>4. CellsApart(g)
    BY <1>3, <2>1, ZenonT(60) DEF CellsApart
  <2> QED
    BY <2>2, <2>3, <2>4, Zenon
<1>6. HoldsValues(g, D \ {i})
  <2> SUFFICES ASSUME NEW j \in D, j # i
               PROVE  \/ g.ir[j] # NoReg /\ g.val[g.ir[j]] = j
                      \/ g.spilled[j] # NoSlot /\ g.mem[g.spilled[j]] = j
    BY DEF HoldsValues
  <2>1. j \in IRRegs /\ (\/ s.ir[j] # NoReg /\ s.val[s.ir[j]] = j
                         \/ s.spilled[j] # NoSlot /\ s.mem[s.spilled[j]] = j)
    BY DEF WF, HoldsValues
  <2>2. ASSUME s.ir[j] # NoReg PROVE s.ir[j] \in Reg /\ s.ir[j] \notin CallerSaved
    <3>1. s.ir[j] \in Reg /\ s.phys[s.ir[j]] = j
      BY <1>2, <2>1, <2>2 DEF TypeOKCtx, WF, MapsInverse
    <3>2. j # Free
      BY <2>1, IRRegsAssumption DEF Free
    <3> QED
      BY <3>1, <3>2
  <2> QED
    BY <1>3, <2>1, <2>2
<1>7. WF(g, D \ {i})
  BY <1>4, <1>5, <1>6 DEF WF
<1> QED
  BY <1>3, <1>7 DEF Fresh, g

\* A call after save_caller_saved_regs loses no computed value; a register that
\* was mapped before is now unmapped or mapped as before.
LEMMA CallLemma ==
  ASSUME NEW D, NEW c, WF(c, D)
  PROVE  LET g == emit_runtime_call(c) IN
         /\ WF(g, D)
         /\ g.misread = c.misread
         /\ \A r \in Reg : g.phys[r] = Free \/ g.phys[r] = c.phys[r]
         /\ \A j \in IRRegs : Fresh(c, j) => Fresh(g, j)
<1> DEFINE s == save_caller_saved_regs(c)
           g == Clobber(s)
<1> HIDE DEF s
<1>1. /\ WF(s, D)
      /\ \A r \in CallerSaved : s.phys[r] = Free
      /\ \A r \in Reg : s.phys[r] = Free \/ s.phys[r] = c.phys[r]
      /\ s.reg_count = c.reg_count /\ s.val = c.val /\ s.misread = c.misread
      /\ \A j \in IRRegs : Fresh(c, j) => Fresh(s, j)
  BY SaveLemma DEF s
<1>2. \A r \in CallerSaved : s.phys[r] \in {Free, Free}
  BY <1>1, Zenon
<1>3. /\ WF(g, D \ {Free})
      /\ g.misread = s.misread /\ g.phys = s.phys
      /\ \A j \in IRRegs : Fresh(s, j) => Fresh(g, j)
  BY <1>1, <1>2, ClobberLemma, Zenon
<1>4. D \ {Free} = D
  BY IRRegsAssumption DEF WF, Free
<1> HIDE DEF g
<1> QED
  BY <1>1, <1>3, <1>4 DEF emit_runtime_call, g, s

\* An empty context is consistent, and nothing is located anywhere.
LEMMA FunctionContextLemma ==
  /\ WF(FunctionContext, {})
  /\ \A j \in IRRegs : Fresh(FunctionContext, j)
  /\ FunctionContext.misread = "none"
<1> DEFINE c == FunctionContext
<1>1. TypeOKCtx(c)
  <2>1. c.stack_offset = 0 /\ 0 \in Reg /\ Junk \in Tokens
    BY TempRegsAssumption DEF FunctionContext, Reg, Tokens
  <2>2. c \in [reg_count : Reg, stack_offset : Nat,
               phys : [Reg -> IRRegs \cup {Free}], ir : [IRRegs -> Reg \cup {NoReg}],
               spilled : [IRRegs -> Nat], vars : [Vars -> Nat],
               val : [Reg -> Tokens], mem : [1 .. 0 -> Tokens], misread : Handlers \cup {"none"}]
    BY <2>1 DEF FunctionContext, NoSlot
  <2> QED
    BY <2>1, <2>2 DEF TypeOKCtx
<1>2. MapsInverse(c)
  <2>1. \A r \in Reg, i \in IRRegs : r # NoReg /\ i # Free
    BY TempRegsAssumption, IRRegsAssumption DEF Reg, NoReg, Free
  <2> QED
    BY <2>1 DEF MapsInverse, FunctionContext
<1>3. OneLocation(c) /\ HoldsValues(c, {})
  BY DEF OneLocation, HoldsValues, FunctionContext
<1>4. SlotsUnique(c) /\ CellsApart(c)
  BY DEF SlotsUnique, CellsApart, FunctionContext, NoSlot
<1> QED
  BY <1>1, <1>2, <1>3, <1>4 DEF WF, Fresh, FunctionContext

\* Recording or clearing a misread changes nothing else.
LEMMA MisreadLemma ==
  ASSUME NEW D, NEW c, WF(c, D), NEW h \in Handlers \cup {"none"}
  PROVE  LET g == [c EXCEPT !.misread = h] IN
         /\ WF(g, D)
         /\ g.misread = h
         /\ \A j \in IRRegs : Fresh(c, j) => Fresh(g, j)
<1> DEFINE g == [c EXCEPT !.misread = h]
<1>1. TypeOKCtx(c)
  BY DEF WF
<1>2. /\ g.reg_count = c.reg_count /\ g.phys = c.phys /\ g.ir = c.ir
      /\ g.stack_offset = c.stack_offset /\ g.spilled = c.spilled /\ g.mem = c.mem
      /\ g.vars = c.vars /\ g.val = c.val /\ g.misread = h
  BY <1>1 DEF TypeOKCtx
<1>3. TypeOKCtx(g)
  BY <1>1, ZenonT(60) DEF TypeOKCtx
<1> HIDE DEF g
<1>4. WF(g, D) /\ \A j \in IRRegs : Fresh(c, j) => Fresh(g, j)
  BY <1>2, <1>3 DEF WF, MapsInverse, OneLocation, SlotsUnique, CellsApart, HoldsValues, Fresh
<1> QED
  BY <1>2, <1>4 DEF g

-------------------------------------------------------------------------------
\* The same facts in the form in which the proofs about handlers chain them.

\* A context in the middle of a handler: D computed, F not yet named.
Ready(c, D, F) ==
  /\ WF(c, D)
  /\ F \subseteq IRRegs \ D
  /\ \A j \in F : Fresh(c, j)
  /\ c.misread = "none"

\* Register d belongs to i (Free: scratch) and survives k allocations.
Pinned(c, d, i, k) == d \in Reg /\ c.phys[d] = i /\ Dist(c.reg_count, d) >= k

\* What holds between two allocations of a handler holds after an allocation.
LEMMA ReadyStep ==
  ASSUME NEW D, NEW F, NEW c, Ready(c, D, F), NEW g, Step(c, g, D)
  PROVE  Ready(g, D, F)
BY DEF Ready, Step

\* A pinned register is out of reach of the next allocation.
LEMMA PinStep ==
  ASSUME NEW D, NEW c, WF(c, D), NEW g, Step(c, g, D),
         NEW d, NEW i, NEW k \in Nat, k >= 1, Pinned(c, d, i, k)
  PROVE  Pinned(g, d, i, k - 1) /\ g.val[d] = c.val[d]
<1>1. c.reg_count \in Reg /\ g.reg_count \in Reg /\ d \in Reg
  BY DEF WF, Step, TypeOKCtx, Pinned
<1>2. Dist(c.reg_count, d) \in Int /\ Dist(g.reg_count, d) \in Int
  BY <1>1, DistLemma, TempRegsAssumption
<1>3. Dist(c.reg_count, d) >= 1
  BY <1>2 DEF Pinned
<1>4. /\ g.phys[d] = c.phys[d] /\ g.val[d] = c.val[d]
      /\ Dist(g.reg_count, d) >= Dist(c.reg_count, d) - 1
  BY <1>1, <1>3 DEF Step, Keeps
<1> QED
  BY <1>1, <1>2, <1>4 DEF Pinned

\* The register of a computed IR register holds its value.
LEMMA InRegister ==
  ASSUME NEW D, NEW c, WF(c, D), NEW i \in D, NEW d \in Reg, c.phys[d] = i
  PROVE  c.val[d] = i
<1>1. i \in IRRegs
  BY DEF WF
<1>2. c.ir[i] = d
  BY <1>1 DEF WF, MapsInverse
<1>3. d # NoReg
  BY TempRegsAssumption DEF Reg, NoReg
<1> QED
  BY <1>1, <1>2, <1>3 DEF WF, OneLocation, HoldsValues

\* get_temp_phys_reg in a handler.
LEMMA ReadyTemp ==
  ASSUME NEW D, NEW F, NEW c, Ready(c, D, F)
  PROVE  LET g == TakeReg(c) IN
         /\ Ready(g, D, F) /\ Step(c, g, D)
         /\ Pinned(g, c.reg_count, Free, 4)
         /\ g.val = c.val
<1>1. WF(c, D)
  BY DEF Ready
<1> DEFINE g == TakeReg(c)
<1>2. /\ Step(c, g, D)
      /\ c.reg_count \in Reg
      /\ g.reg_count = Succ(c.reg_count)
      /\ g.val = c.val
      /\ g.phys[c.reg_count] = Free
      /\ Dist(g.reg_count, c.reg_count) = N - 1
      /\ \A j \in IRRegs : Fresh(c, j) => Fresh(g, j)
  BY <1>1, TakeLemma
<1> HIDE DEF g
<1>3. Ready(g, D, F)
  BY <1>2, ReadyStep
<1>4. Pinned(g, c.reg_count, Free, 4)
  BY <1>2, TempRegsAssumption DEF Pinned
<1> QED
  BY <1>2, <1>3, <1>4 DEF g

\* get_phys_reg for the destination of an instruction, a new IR register.
LEMMA ReadyDst ==
  ASSUME NEW D, NEW F, NEW c, NEW i \in F, Ready(c, D, F)
  PROVE  LET g == get_phys_reg(c, i) IN
         /\ Ready(g, D, F \ {i})
         /\ Pinned(g, g.ir[i], i, 4)
         /\ Keeps(c, g)
<1> DEFINE g == get_phys_reg(c, i)
<1>1. WF(c, D) /\ i \in IRRegs /\ Fresh(c, i)
  BY DEF Ready
<1>2. /\ WF(g, D)
      /\ i \in D => Step(c, g, D)
      /\ Keeps(c, g)
      /\ \A q \in Reg : g.phys[q] \in {Free, c.phys[q], i}
      /\ g.misread = c.misread
      /\ g.ir[i] \in Reg /\ g.phys[g.ir[i]] = i
      /\ i \in D => g.val[g.ir[i]] = i
      /\ Fresh(c, i) => Dist(g.reg_count, g.ir[i]) = N - 1
      /\ \A j \in IRRegs \ {i} : Fresh(c, j) => Fresh(g, j)
  BY <1>1, GetPhysLemma, Zenon
<1> HIDE DEF g
<1>3. Ready(g, D, F \ {i})
  BY <1>2 DEF Ready
<1>4. Pinned(g, g.ir[i], i, 4)
  BY <1>1, <1>2, TempRegsAssumption DEF Pinned
<1> QED
  BY <1>2, <1>3, <1>4 DEF g

\* get_phys_reg for an operand.
LEMMA ReadyUse ==
  ASSUME NEW D, NEW F, NEW c, NEW i \in D, Ready(c, D, F)
  PROVE  LET g == get_phys_reg(c, i) IN
         /\ Ready(g, D, F) /\ Step(c, g, D)
         /\ g.ir[i] \in Reg /\ g.phys[g.ir[i]] = i /\ g.val[g.ir[i]] = i
         /\ \A q \in Reg : g.phys[q] \in {Free, c.phys[q], i}
<1> DEFINE g == get_phys_reg(c, i)
<1>1. WF(c, D) /\ i \in IRRegs
  BY DEF Ready, WF
<1>2. /\ WF(g, D)
      /\ i \in D => Step(c, g, D)
      /\ Keeps(c, g)
      /\ \A q \in Reg : g.phys[q] \in {Free, c.phys[q], i}
      /\ g.misread = c.misread
      /\ g.ir[i] \in Reg /\ g.phys[g.ir[i]] = i
      /\ i \in D => g.val[g.ir[i]] = i
      /\ Fresh(c, i) => Dist(g.reg_count, g.ir[i]) = N - 1
      /\ \A j \in IRRegs \ {i} : Fresh(c, j) => Fresh(g, j)
  BY <1>1, GetPhysLemma
<1> HIDE DEF g
<1> QED
  BY <1>2, ReadyStep DEF g

\* var_location in a handler.
LEMMA ReadyVar ==
  ASSUME NEW D, NEW F, NEW c, NEW v \in Vars, Ready(c, D, F)
  PROVE  Ready(var_location(c, v), D, F) /\ Step(c, var_location(c, v), D)
<1>1. WF(c, D)
  BY DEF Ready
<1>2. Step(c, var_location(c, v), D)
  BY <1>1, VarLemma
<1> QED
  BY <1>2, ReadyStep

\* Writing scratch: nothing that is tracked changes.
LEMMA ReadyScratch ==
  ASSUME NEW D, NEW F, NEW c, Ready(c, D, F), NEW v \in Tokens,
         NEW d \in Reg, c.phys[d] = Free
  PROVE  LET g == Mov(c, d, v) IN
         /\ Ready(g, D, F) /\ g.reg_count = c.reg_count /\ g.phys = c.phys
         /\ g.val[d] = v /\ \A q \in Reg : q # d => g.val[q] = c.val[q]
         /\ \A j \in IRRegs : Fresh(c, j) => Fresh(g, j)
<1> DEFINE g == Mov(c, d, v)
<1>1. WF(c, D)
  BY DEF Ready
<1>2. /\ WF(g, D \ {c.phys[d]})
      /\ c.phys[d] = v => WF(g, (D \cup {v}) \cap IRRegs)
      /\ g.reg_count = c.reg_count /\ g.phys = c.phys /\ g.ir = c.ir
      /\ g.misread = c.misread /\ g.val[d] = v
      /\ \A q \in Reg : q # d => g.val[q] = c.val[q]
      /\ \A j \in IRRegs : Fresh(c, j) => Fresh(g, j)
  BY <1>1, MovLemma, Zenon
<1>3. WF(g, D)
  BY <1>1, MovScratch
<1> HIDE DEF g
<1> QED
  BY <1>2, <1>3 DEF Ready, g

\* Writing the destination: its value is now computed.
LEMMA ReadyResult ==
  ASSUME NEW D, NEW F, NEW c, Ready(c, D, F), NEW i \in IRRegs, i \notin F,
         NEW d \in Reg, NEW k \in Nat, Pinned(c, d, i, k)
  PROVE  LET g == Mov(c, d, i) IN
         Ready(g, D \cup {i}, F) /\ Pinned(g, d, i, k)
<1> DEFINE g == Mov(c, d, i)
<1>0. WF(c, D) /\ i \in Tokens
  BY DEF Ready, Tokens
<1>1. c.phys[d] = i
  BY DEF Pinned
<1>2. /\ WF(g, D \ {c.phys[d]})
      /\ c.phys[d] = i => WF(g, (D \cup {i}) \cap IRRegs)
      /\ g.reg_count = c.reg_count /\ g.phys = c.phys /\ g.ir = c.ir
      /\ g.misread = c.misread /\ g.val[d] = i
      /\ \A q \in Reg : q # d => g.val[q] = c.val[q]
      /\ \A j \in IRRegs : Fresh(c, j) => Fresh(g, j)
  BY <1>0, MovLemma, Zenon
<1>3. WF(g, D \cup {i})
  BY <1>0, <1>1, MovResult
<1> HIDE DEF g
<1> QED
  BY <1>2, <1>3 DEF Ready, Pinned, g

\* A runtime call.
LEMMA ReadyCall ==
  ASSUME NEW D, NEW F, NEW c, Ready(c, D, F)
  PROVE  LET g == emit_runtime_call(c) IN
         /\ Ready(g, D, F)
         /\ \A r \in Reg : g.phys[r] = Free \/ g.phys[r] = c.phys[r]
<1> DEFINE g == emit_runtime_call(c)
<1>1. WF(c, D)
  BY DEF Ready
<1>2. /\ WF(g, D)
      /\ g.misread = c.misread
      /\ \A r \in Reg : g.phys[r] = Free \/ g.phys[r] = c.phys[r]
      /\ \A j \in IRRegs : Fresh(c, j) => Fresh(g, j)
  BY <1>1, CallLemma
<1> HIDE DEF g
<1> QED
  BY <1>2 DEF Ready, g

\* A temporary that is taken and written at once.
LEMMA ReadyTempLoad ==
  ASSUME NEW D, NEW F, NEW c, Ready(c, D, F), NEW v \in Tokens
  PROVE  LET g == Mov(TakeReg(c), c.reg_count, v) IN
         /\ Ready(g, D, F) /\ Step(c, g, D)
         /\ Pinned(g, c.reg_count, Free, 4) /\ g.val[c.reg_count] = v
<1> DEFINE t == TakeReg(c)
           q == c.reg_count
           g == Mov(t, q, v)
<1>1. /\ Ready(t, D, F) /\ Step(c, t, D)
      /\ Pinned(t, q, Free, 4)
      /\ t.val = c.val
  BY ReadyTemp
<1>2. q \in Reg /\ t.phys[q] = Free
  BY <1>1 DEF Pinned
<1> HIDE DEF t
<1>3. /\ Ready(g, D, F) /\ g.reg_count = t.reg_count /\ g.phys = t.phys
      /\ g.val[q] = v /\ \A p \in Reg : p # q => g.val[p] = t.val[p]
      /\ \A j \in IRRegs : Fresh(t, j) => Fresh(g, j)
  BY <1>1, <1>2, ReadyScratch, Zenon
<1> HIDE DEF g
<1>4. \A d \in Reg : Dist(q, d) >= 1 => d # q
  BY <1>2, DistLemma, TempRegsAssumption
<1>5. Step(c, g, D)
  BY <1>1, <1>3, <1>4 DEF Step, Keeps, Ready
<1>6. Pinned(g, q, Free, 4)
  BY <1>1, <1>3 DEF Pinned
<1> QED
  BY <1>3, <1>5, <1>6, Zenon DEF g, t

\* While a register is pinned to i, get_phys_reg(i) finds i there.
LEMMA PinnedGet ==
  ASSUME NEW D, NEW c, WF(c, D), NEW i \in IRRegs, NEW d, NEW k, Pinned(c, d, i, k)
  PROVE  c.ir[i] = d /\ get_phys_reg(c, i) = c
<1>1. d \in Reg /\ c.phys[d] = i
  BY DEF Pinned
<1>2. c.ir[i] = d
  BY <1>1 DEF WF, MapsInverse
<1>3. d # NoReg
  BY <1>1, TempRegsAssumption DEF Reg, NoReg
<1> QED
  BY <1>2, <1>3 DEF get_phys_reg

\* The end of a handler: ok says that its operands were read.
LEMMA ReadyCheck ==
  ASSUME NEW D, NEW F, NEW c, Ready(c, D, F), NEW h, NEW ok, ok
  PROVE  Ready(Check(c, h, ok), D, F)
BY DEF Check

\* What IrVisitor passes: registers already computed and known variables.
IsOperand(op, D) ==
  /\ op.kind = "reg" => op.id \in D
  /\ op.kind = "var" => op.id \in Vars

\* The IR registers that IrGenerator has yet to hand out.
Later(n) == {j \in IRRegs : j >= n}

\* They have not been computed, and handing out n leaves those after it.
LEMMA LaterFacts ==
  ASSUME NEW n \in Nat
  PROVE  /\ \A D : D \subseteq {j \in IRRegs : j < n} => Later(n) \subseteq IRRegs \ D
         /\ Later(n + 1) \subseteq Later(n) \ {n}
<1>1. ASSUME NEW D, D \subseteq {j \in IRRegs : j < n}, NEW j \in Later(n)
      PROVE  j \in IRRegs /\ j \notin D
  <2>1. j \in IRRegs /\ j >= n /\ j \in Nat
    BY IRRegsAssumption DEF Later
  <2>2. ~(j < n)
    BY <2>1
  <2> QED
    BY <1>1, <2>1, <2>2
<1>2. ASSUME NEW j \in Later(n + 1) PROVE j \in Later(n) /\ j # n
  <2>1. j \in IRRegs /\ j >= n + 1 /\ j \in Nat
    BY IRRegsAssumption DEF Later
  <2> QED
    BY <2>1 DEF Later
<1> QED
  BY <1>1, <1>2
===============================================================================
