------------------------------- MODULE IrMachine ------------------------------
(***************************************************************************)
(* What the IR means: a machine that runs the instructions of generator.   *)
(* Opcodes mean what ir_instruction.h says of them.  As in                 *)
(* generate_assembly, the instructions outside functions are the body of   *)
(* _start, which calls main if there is one and exits.                     *)
(*                                                                         *)
(* Memory is bytes.  A call gets fresh room for its variables; a byte that *)
(* was never written is undefined, and so is what is computed from it.     *)
(* Bounds: integers stay below 2^23 in absolute value, and only 8-byte     *)
(* ones are negative; a program runs for at most Turns * 2^Slice             *)
(* instructions.                                                           *)
(***************************************************************************)
EXTENDS IrVisitor, SequencesExt

VARIABLE machine

Slice == 6              \* 2^Slice instructions are one step of the machine
Turns == 12
Undef == -1000000000
Input == 3              \* the number that a read finds on stdin

Room == 72              \* bytes set apart for a variable: the largest is a read buffer
Globals == 100          \* address of the first global
StringAt == 16          \* address of the string literal
FuncAt == 4000000       \* a function is at FuncAt + the place of its BEGIN_FUNC

Instr(i) == generator.code[i]
Mentioned(i) == <<Instr(i).dst>> \o Instr(i).src
IsFunc(op) == op.k = "var" /\ op.s = 0 /\ op.x \in generator.funcs
IsVar(op) == op.k \in {"var", "hidden"} /\ ~IsFunc(op)
IsGlobal(op) == op.k = "var" /\ op.s = 0

\* Where a variable lies in its frame: by the place where the code mentions it first.
Offsets ==
  LET code == generator.code
      vars == {op \in UNION {Range(Mentioned(i)) : i \in DOMAIN code} : IsVar(op)}
      first(op) == Min({i \in DOMAIN code : \E j \in DOMAIN Mentioned(i) : Mentioned(i)[j] = op})
      part(op) == Min({j \in DOMAIN Mentioned(first(op)) : Mentioned(first(op))[j] = op})
  IN  [op \in vars |-> Room * (4 * first(op) + part(op))]
FrameBytes == Room * 4 * (Len(generator.code) + 2)

NoRegs == [r \in {} |-> 0]
Loaded ==
  [pc |-> 1, regs |-> NoRegs, base |-> Globals + FrameBytes, ret |-> Undef, slots |-> NoRegs,
   calls |-> <<>>, prep |-> <<>>, offsets |-> Offsets, top |-> Globals + 2 * FrameBytes,
   mem |-> NoRegs, out |-> <<>>, turns |-> 0, status |-> "run"]

-------------------------------------------------------------------------------
Byte(v, i) == IF i < 3 THEN (v \div 256 ^ i) % 256 ELSE IF v < 0 THEN 255 ELSE 0
Trunc(v, n) == IF v = Undef \/ n > 2 THEN v ELSE v % 256 ^ n
Write(m, at, v, n) ==
  [m EXCEPT !.mem = [a \in at .. at + n - 1 |-> IF v = Undef THEN Undef ELSE Byte(v, a - at)] @@ @]
\* Globals are in .bss, which is zero.
ByteAt(m, a) ==
  CASE a \in DOMAIN m.mem -> m.mem[a]
    [] a \notin DOMAIN m.mem /\ a \in Globals .. Globals + FrameBytes -> 0
    [] OTHER -> Undef
Read(m, at, n) ==
  LET b(i) == IF i < n THEN ByteAt(m, at + i) ELSE 0
      low == b(0) + 256 * b(1) + 65536 * b(2)
  IN  CASE \E i \in 0 .. n - 1 : b(i) = Undef -> Undef
        [] OTHER -> IF n = 8 /\ b(7) = 255 THEN low - 256 ^ 3 ELSE low

Address(m, op) == (IF IsGlobal(op) THEN Globals ELSE m.base) + m.offsets[op]
Entries(x) ==
  {i \in DOMAIN generator.code : Instr(i).op = "BEGIN_FUNC" /\ Instr(i).dst = FuncLabel(x)}
EntryOf(x) == Min(Entries(x))
HasBody(x) == Entries(x) # {}
Value(m, op, n) ==
  CASE op.k = "imm" -> Trunc(op.v, n)
    [] op.k = "reg" -> IF op.id \in DOMAIN m.regs THEN Trunc(m.regs[op.id], n) ELSE Undef
    [] op.k = "slot" -> IF op.i \in DOMAIN m.slots THEN Trunc(m.slots[op.i], n) ELSE Undef
    [] op.k = "string" -> StringAt
    [] IsFunc(op) -> IF HasBody(op.x) THEN FuncAt + EntryOf(op.x) ELSE Undef
    [] IsVar(op) -> Read(m, Address(m, op), n)

SetReg(m, op, v) == [m EXCEPT !.regs = (op.id :> v) @@ @]
Assign(m, op, v, n) == IF op.k = "reg" THEN SetReg(m, op, v) ELSE Write(m, Address(m, op), v, n)
Stuck(m, why) == [m EXCEPT !.status = why]
After1(m) == [m EXCEPT !.pc = @ + 1]
Jump(m, op) ==
  [m EXCEPT !.pc = Min({i \in DOMAIN generator.code : Instr(i).op = "LABEL" /\ Instr(i).dst = op})]

BitsOf(v) == [i \in 0 .. 15 |-> (v \div 2 ^ i) % 2]
Bitwise16(op, a, b) ==
  LET bit(i) == CASE op = "&" -> BitsOf(a)[i] * BitsOf(b)[i]
                  [] op = "|" -> Max({BitsOf(a)[i], BitsOf(b)[i]})
                  [] op = "^" -> (BitsOf(a)[i] + BitsOf(b)[i]) % 2
      sum[i \in 0 .. 16] == IF i = 0 THEN 0 ELSE sum[i - 1] + bit(i - 1) * 2 ^ (i - 1)
  IN  sum[16]
Truth(b) == IF b THEN 1 ELSE 0
\* Two's complement, so that a quotient is cut towards zero.
Quotient(a, b) ==
  LET abs(x) == IF x < 0 THEN -x ELSE x
      q == abs(a) \div abs(b)
  IN  IF (a < 0) # (b < 0) THEN -q ELSE q
Apply(op, a, b) ==
  CASE op = "+" -> a + b [] op = "-" -> a - b [] op = "*" -> a * b
    [] op = "/" -> Quotient(a, b) [] op = "%" -> a - b * Quotient(a, b)
    [] op = "==" -> Truth(a = b) [] op = "!=" -> Truth(a # b)
    [] op = "<" -> Truth(a < b) [] op = "<=" -> Truth(a <= b)
    [] op = ">" -> Truth(a > b) [] op = ">=" -> Truth(a >= b)
    [] op \in {"&", "|", "^"} -> Bitwise16(op, a, b)
    [] op = "<<" -> a * 2 ^ b [] op = ">>" -> a \div 2 ^ b

-------------------------------------------------------------------------------
BinaryOpcodes ==
  {"+", "-", "*", "/", "%", "==", "!=", "<", "<=", ">", ">=", "&", "|", "^", "<<", ">>"}

\* A call of the runtime: the arguments are args.
CallRuntime(m, i, args) ==
  LET x == i.src[1].x
  IN  CASE x = "print_int" ->
             IF args[2] = Undef THEN Stuck(m, "undefined")
             ELSE [m EXCEPT !.out = Append(@, [fd |-> args[1], int |-> args[2]])]
        [] x = "print_string" ->
             IF args[2] # StringAt THEN Stuck(m, "undefined")
             ELSE [m EXCEPT !.out = Append(@, [fd |-> args[1], string |-> "'hi'"])]
        [] x = "read_word" -> SetReg(m, i.dst, args[1])
        [] x \in {"parse_int", "parse_uint"} -> SetReg(m, i.dst, Input)

\* Enter the function at address f; back, the instruction after the call.
CallFunction(m, f, dst, prep) ==
  [m EXCEPT !.pc = f - FuncAt + 1, !.regs = NoRegs, !.base = m.top, !.top = @ + FrameBytes,
            !.ret = Undef,
            !.slots = (0 :> prep.hidden) @@ [j \in DOMAIN prep.args |-> prep.args[j]],
            !.calls = Append(@, [pc |-> m.pc + 1, regs |-> m.regs, base |-> m.base,
                                 ret |-> m.ret, slots |-> m.slots, dst |-> dst])]
ReturnTo(m, call) ==
  LET back == [m EXCEPT !.pc = call.pc, !.regs = call.regs, !.base = call.base,
                        !.ret = call.ret, !.slots = call.slots, !.calls = Front(@)]
  IN  IF call.dst.k = "none" THEN back ELSE SetReg(back, call.dst, m.ret)

\* The end of _start.
Finish(m, code) ==
  IF code = Undef THEN Stuck(m, "undefined")
  ELSE [m EXCEPT !.status = "exit", !.out = Append(@, [exit |-> code % 256])]
MainResult == Reg(-1)
EndStart(m) ==
  CASE m.calls # <<>> -> Stuck(m, "wild")
    [] m.calls = <<>> /\ MainResult.id \in DOMAIN m.regs -> Finish(m, m.regs[MainResult.id])
    [] OTHER -> IF HasBody("main")
                THEN CallFunction(m, FuncAt + EntryOf("main"), MainResult,
                                  [hidden |-> Undef, args |-> <<1, Undef>>])
                ELSE Finish(m, 0)

\* What the instruction i does; v(j) is its j-th source, read with the size of i.
Effect(m, i) ==
  LET v(j) == Value(m, i.src[j], i.size)
      pointer(op) == Value(m, op, PTR_SIZE)
      prep == m.prep[Len(m.prep)]
      popped == [m EXCEPT !.prep = Front(@)]
      room(n) == SetReg([m EXCEPT !.top = @ + n + Room], i.dst, m.top)
  IN  CASE i.op = "ASSIGN" ->
             LET n == IF IsVar(i.src[1]) THEN i.src[1].bytes ELSE i.size
             IN  Assign(m, i.dst, Value(m, i.src[1], n), i.size)
        [] i.op \in BinaryOpcodes ->
             IF Undef \in {v(1), v(2)} \/ (i.op \in {"/", "%"} /\ v(2) = 0)
             THEN SetReg(m, i.dst, Undef) ELSE SetReg(m, i.dst, Apply(i.op, v(1), v(2)))
        [] i.op = "NEG" -> SetReg(m, i.dst, IF v(1) = Undef THEN Undef ELSE -v(1))
        [] i.op = "NOT" -> SetReg(m, i.dst, IF v(1) = Undef THEN Undef ELSE Truth(v(1) = 0))
        [] i.op = "ADDR_OF" -> 
             SetReg(m, i.dst, IF IsFunc(i.src[1]) THEN v(1) ELSE Address(m, i.src[1]))
        [] i.op = "LOAD" -> SetReg(m, i.dst, IF pointer(i.src[1]) = Undef THEN Undef
                                             ELSE Read(m, pointer(i.src[1]), i.size))
        [] i.op = "STORE" -> IF pointer(i.dst) = Undef THEN Stuck(m, "undefined")
                             ELSE Write(m, pointer(i.dst), v(1), i.size)
        [] i.op = "MEM_COPY" ->
             IF Undef \in {pointer(i.dst), pointer(i.src[1])} THEN Stuck(m, "undefined")
             ELSE LET to == pointer(i.dst)  from == pointer(i.src[1])
                      copy == [a \in to .. to + i.size - 1 |-> ByteAt(m, from + a - to)]
                  IN  [m EXCEPT !.mem = copy @@ @]
        [] i.op = "MEM_SET" ->
             LET to == pointer(i.dst)
             IN  [m EXCEPT !.mem = [a \in to .. to + i.size - 1 |-> v(1)] @@ @]
        [] i.op = "ALLOC" ->
             LET n == i.src[1].v
             IN  IF Len(i.src) = 1 THEN room(n)
                 ELSE Write(room(n), m.top, Value(m, i.src[2], n), n)
        [] i.op = "ALLOC_ARRAY" ->
             IF v(2) = Undef THEN Stuck(m, "undefined") ELSE room(i.src[1].v * v(2))
        [] i.op = "FREE" -> Assign(m, i.src[1], 0, PTR_SIZE)
        [] i.op = "BEGIN_LCALL_PREP" ->
             [m EXCEPT !.prep = Append(@, [hidden |-> Undef, args |-> <<>>])]
        [] i.op = "SET_HIDDEN_ARG" -> [m EXCEPT !.prep[Len(m.prep)].hidden = v(1)]
        [] i.op = "PUSH_ARG" -> [m EXCEPT !.prep[Len(m.prep)].args = Append(@, v(1))]
        [] i.op = "LCALL" -> CallRuntime(popped, i, prep.args)
        [] i.op = "RETURN" -> [m EXCEPT !.ret = IF i.src = <<>> THEN 0 ELSE v(1)]

\* One instruction.  _start steps over the functions.
Execute(m) ==
  LET i == Instr(m.pc)
      test == Value(m, i.src[1], i.size)
      target == Value(m, i.src[1], PTR_SIZE)
      ends == {j \in m.pc .. Len(generator.code) : Instr(j).op = "END_FUNC"}
  IN  IF m.pc > Len(generator.code) THEN EndStart(m)
      ELSE CASE i.op = "LABEL" -> After1(m)
             [] i.op = "BEGIN_FUNC" -> [m EXCEPT !.pc = Min(ends) + 1]
             [] i.op = "END_FUNC" -> ReturnTo(m, m.calls[Len(m.calls)])
             [] i.op = "GOTO" -> Jump(m, i.src[1])
             [] i.op = "IF_Z" -> IF test = Undef THEN Stuck(m, "undefined")
                                 ELSE IF test = 0 THEN Jump(m, i.src[2]) ELSE After1(m)
             [] i.op = "LCALL" /\ i.src[1].k # "runtime" ->
                  IF target \in FuncAt .. FuncAt + Len(generator.code)
                  THEN CallFunction([m EXCEPT !.prep = Front(@)], target, i.dst,
                                    m.prep[Len(m.prep)])
                  ELSE Stuck(m, "undefined")
             [] i.op = "EXIT" -> Finish(m, test)
             [] i.op = "ASM_BLOCK" -> Stuck(m, "asm")
             [] OTHER -> After1(Effect(m, i))

\* 2^k instructions, in two halves.
RECURSIVE Run(_, _)
Run(m, k) ==
  LET half == IF k = 0 THEN Execute(m) ELSE Run(m, k - 1)
  IN  IF k = 0 \/ half.status # "run" THEN half ELSE Run(half, k - 1)

\* The machine runs for a slice.
run_slice ==
  /\ machine.status = "run"
  /\ machine' = IF machine.turns = Turns THEN Stuck(machine, "long")
                ELSE Run([machine EXCEPT !.turns = @ + 1], Slice)
===============================================================================
