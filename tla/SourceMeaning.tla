----------------------------- MODULE SourceMeaning ----------------------------
(***************************************************************************)
(* What a checked program means, said without bytes, registers, addresses  *)
(* or jumps: an interpreter of the tree after docs/syntax.md.  Structs and *)
(* enums are values, a pointer is a place (an object and a path into it),  *)
(* conversions happen where a value meets a typed place, operands are      *)
(* evaluated from left to right.                                           *)
(*                                                                         *)
(* A state s has the objects (mem), the variables in force by name (env)   *)
(* and those declared outside functions and blocks (globals), the          *)
(* output (out), the objects declared immutable (fixed), flow: "" or why   *)
(* control does not go on to the next statement, ret: the value returned,  *)
(* and depth: the calls it is in.                                          *)
(*                                                                         *)
(* flow = "undefined" is for what the language leaves open or this meaning *)
(* does not cover: a value never written, a printed or computed address,   *)
(* inline assembly, calls or loops that go on.  flow = "immutable" is for  *)
(* a second value given to an object that was declared immutable.          *)
(***************************************************************************)
EXTENDS IrMachine

Depth == 3              \* calls inside each other
MaxRounds == 4          \* 2^MaxRounds rounds of a loop

Num(v) == [k |-> "int", v |-> v]
Place(at, path, index) == [k |-> "ptr", at |-> at, path |-> path, index |-> index]
NotIndexed == -1
Nothing == [k |-> "undefined"]

Flow(s, why) == [s EXCEPT !.flow = why]
Lost(s) == [v |-> Nothing, s |-> Flow(s, "undefined")]
Result(v, s) == IF v = Nothing THEN Lost(s) ELSE [v |-> v, s |-> s]

\* A value of type t with every scalar in it set to leaf.
RECURSIVE Fill(_, _)
FillFields(fields, leaf) ==
  [x \in {fields[i].n : i \in DOMAIN fields} |->
     Fill(fields[Min({i \in DOMAIN fields : fields[i].n = x})].t, leaf)]
FillStruct(t, leaf) == FillFields(Layout(checker.tab, t).fields, leaf)
ZeroVariants(variants) ==
  {variants[i].n : i \in {i \in DOMAIN variants : variants[i].tag = 0 /\ variants[i].payload}}
Fill(t, leaf) ==
  CASE IsStruct(checker.tab, t) -> [k |-> "object", f |-> FillStruct(t, leaf)]
    [] t.k = "Enum" ->
         LET zero == ZeroVariants(Layout(checker.tab, t).variants)
         IN  [k |-> "enum", tag |-> 0,
              f |-> IF zero = {} THEN EmptyMap
                    ELSE FillStruct(PayloadStruct(t, CHOOSE x \in zero : TRUE), leaf)]
    [] OTHER -> leaf

\* A value as one of type t.
Convert(v, t) ==
  IF v.k = "int" /\ is_integer_type(t) THEN Num(Trunc(v.v, Primitives[t.n[1]])) ELSE v

RECURSIVE At(_, _), Set(_, _, _)
At(v, path) == IF path = <<>> \/ v = Nothing THEN v ELSE At(v.f[path[1]], Tail(path))
Set(v, path, new) ==
  IF path = <<>> THEN new ELSE [v EXCEPT !.f[path[1]] = Set(@, Tail(path), new)]

PathOf(p) == IF p.index = NotIndexed THEN p.path ELSE Append(p.path, ToString(p.index))
IsPlace(s, p) ==
  /\ p.k = "ptr"
  /\ p.index # NotIndexed => ToString(p.index) \in DOMAIN At(s.mem[p.at], p.path).f
Get(s, p) == IF IsPlace(s, p) THEN Result(At(s.mem[p.at], PathOf(p)), s) ELSE Lost(s)
Store(s, p, v) ==
  CASE ~IsPlace(s, p) -> Flow(s, "undefined")
    [] IsPlace(s, p) /\ p.at \in s.fixed -> Flow(s, "immutable")
    [] OTHER -> [s EXCEPT !.mem[p.at] = Set(@, PathOf(p), v)]
\* A new object with value v, and the place of it.
New(s, v, mut, index) ==
  LET at == Len(s.mem) + 1
  IN  [v |-> Place(at, <<>>, index),
       s |-> [s EXCEPT !.mem = Append(@, v), !.fixed = IF mut THEN @ ELSE @ \cup {at}]]
\* A new variable x with value v.
Bind(s, x, v, mut) ==
  LET o == New(s, v, mut, NotIndexed) IN [o.s EXCEPT !.env = (x :> o.v) @@ @]
IsMut(prefix) == prefix.k = "mut"
\* s with the variables that were in force in outer.
Within(s, outer) == [s EXCEPT !.env = outer.env]

Bodies == SelectSeq(program, LAMBDA n : n.k = "FunctionDecl" /\ n.c[5].k # "None")
IsFunction(x) == \E i \in DOMAIN Bodies : Bodies[i].c[2].x = x
FunctionOf(x) == Bodies[Min({i \in DOMAIN Bodies : Bodies[i].c[2].x = x})]

-------------------------------------------------------------------------------
\* What a node means depends on what is asked of it: its value, the place it stands
\* for, or the state after it; a call asks for the value of a function.
RECURSIVE Perform(_, _, _)
Eval(n, s) == Perform("value", n, s)
PlaceOf(n, s) == Perform("place", n, s)
Exec(n, s) == Perform("statement", n, s).s
Invoke(x, args, s) == Perform("call", [x |-> x, args |-> args], s)

RECURSIVE EvalAll(_, _, _)
\* The values of nodes, after those in done.
EvalAll(nodes, done, s) ==
  IF nodes = <<>> \/ s.flow # "" THEN [v |-> done, s |-> s]
  ELSE LET r == Eval(nodes[1], s) IN EvalAll(Tail(nodes), Append(done, r.v), r.s)

DoPlace(n, s) ==
  LET r == Eval(n.c[1], s)
      o == IF is_pointer_like(n.c[1].type) THEN r ELSE PlaceOf(n.c[1], s)
      i == Eval(n.c[2], r.s)
  IN  CASE n.k = "IDENTIFIER" ->
             IF n.x \in DOMAIN s.env THEN [v |-> s.env[n.x], s |-> s] ELSE Lost(s)
        [] n.k = "Unary" /\ n.c[1].k = "*" -> Eval(n.c[3], s)
        [] n.k = "FieldAccess" ->
             IF o.s.flow # "" \/ o.v.k # "ptr" THEN Lost(o.s)
             ELSE [v |-> Place(o.v.at, Append(PathOf(o.v), n.c[2].x), NotIndexed), s |-> o.s]
        [] n.k = "ArrayIndex" ->
             IF i.s.flow # "" \/ r.v.k # "ptr" \/ i.v.k # "int" THEN Lost(i.s)
             ELSE IF r.v.index # NotIndexed
                  THEN [v |-> [r.v EXCEPT !.index = @ + i.v.v], s |-> i.s]
                  ELSE IF i.v.v = 0 THEN [v |-> r.v, s |-> i.s] ELSE Lost(i.s)
        [] OTHER -> LET e == Eval(n, s)
                    IN  IF e.s.flow # "" THEN e ELSE New(e.s, e.v, TRUE, NotIndexed)

\* op on two values.  Pointers and functions are only compared.
Operate(op, a, b, s) ==
  CASE s.flow # "" -> Lost(s)
    [] s.flow = "" /\ a.k = "int" /\ b.k = "int" ->
         IF op \in {"/", "%"} /\ b.v = 0 THEN Lost(s)
         ELSE [v |-> Num(Apply(op, a.v, b.v)), s |-> s]
    [] s.flow = "" /\ op \in {"==", "!="} /\ {a.k, b.k} \subseteq {"int", "ptr", "function"} ->
         [v |-> Num(Truth((a = b) = (op = "=="))), s |-> s]
    [] OTHER -> Lost(s)

\* The fields named by initializers, in the order of the declaration.
RECURSIVE Initialise(_, _, _, _)
Initialise(fields, inits, f, s) ==
  LET of == {i \in DOMAIN inits : inits[i].c[1].x = fields[1].n}
      r == Eval(inits[Min(of)].c[2], s)
  IN  CASE fields = <<>> \/ s.flow # "" -> [v |-> f, s |-> s]
        [] fields # <<>> /\ s.flow = "" /\ of = {} -> Initialise(Tail(fields), inits, f, s)
        [] OTHER -> Initialise(Tail(fields), inits,
                               [f EXCEPT ![fields[1].n] = Convert(r.v, fields[1].t)], r.s)
EnumValue(variant, f) == [k |-> "enum", tag |-> variant.tag, f |-> f]
EvalFields(struct, inits, s) ==
  Initialise(Layout(checker.tab, struct).fields, inits, Fill(struct, Num(0)).f, s)
EvalStruct(r) == [v |-> [k |-> "object", f |-> r.v], s |-> r.s]
EvalVariant(variant, r) == [v |-> EnumValue(variant, r.v), s |-> r.s]
EvalEnum(n, variant, s) ==
  IF variant.payload
  THEN EvalVariant(variant, EvalFields(PayloadStruct(n.type, n.c[2].x),
                                       SubSeq(n.c, 3, Len(n.c)), s))
  ELSE [v |-> EnumValue(variant, EmptyMap), s |-> s]
EvalLiteral(n, s) ==
  IF n.k = "StructLiteral" THEN EvalStruct(EvalFields(n.type, Tail(n.c), s))
  ELSE EvalEnum(n, VariantOf(checker.tab, n.type, n.c[2].x), s)

\* Objects on the heap are not initialised by themselves.
EvalNew(n, s) ==
  LET t == n.c[2]
      mut == IsMut(n.c[1])
      r == Eval(n.c[3], s)
      cells == [x \in {ToString(i) : i \in 0 .. r.v.v - 1} |-> Fill(t, Nothing)]
  IN  CASE n.c[3].k = "None" -> New(s, Fill(t, Nothing), mut, NotIndexed)
        [] n.c[3].k # "None" /\ r.s.flow # "" -> r
        [] OTHER -> IF n.k = "NewArray" THEN New(r.s, [k |-> "object", f |-> cells], mut, 0)
                    ELSE New(r.s, Convert(r.v, t), mut, NotIndexed)

\* The state in which the body of function f starts, and its value and the state after
\* the call when the body, started in ready, is done.
Entered(f, args, s) ==
  LET ret == f.c[4]
      params == f.c[3].c
      bound[i \in 0 .. Len(params)] ==
        IF i = 0 THEN [s EXCEPT !.env = s.globals, !.depth = @ + 1]
        ELSE Bind(bound[i - 1], params[i].c[2].x, Convert(args[i], params[i].c[3]),
                  IsMut(params[i].c[1]))
      last == bound[Len(params)]
  IN  IF ret.k = "None" THEN last
      ELSE Bind(last, ret.c[2].x, Fill(ret.c[3], Nothing), TRUE)
Left(ret, ready, done, back) ==
  CASE done.flow \notin {"", "return"} -> [v |-> Nothing, s |-> done]
    [] done.flow \in {"", "return"} /\ ret.k = "None" -> [v |-> Num(0), s |-> back]
    [] OTHER -> IF done.flow = "" THEN Get(back, ready.env[ret.c[2].x])
                ELSE [v |-> Convert(done.ret, ret.c[3]), s |-> back]
Ran(f, ready, done, s) ==
  Left(f.c[4], ready, done, [Within(done, s) EXCEPT !.flow = "", !.depth = s.depth])
RunBody(f, ready, s) == Ran(f, ready, Exec(f.c[5], ready), s)

\* Call a function with values for its parameters.
DoCall(x, args, s) ==
  IF s.depth = Depth \/ ~IsFunction(x) THEN Lost(s)
  ELSE LET f == FunctionOf(x) IN RunBody(f, Entered(f, args, s), s)

DoValue(n, s) ==
  LET part(i) == Eval(n.c[i], s)
      l == part(1)
      r == Eval(n.c[3], l.s)
      op == n.c[2].k
      target == PlaceOf(n.c[1], part(2).s)
      args == EvalAll(Tail(n.c), <<>>, l.s)
  IN  IF s.flow # "" THEN [v |-> Nothing, s |-> s] ELSE
      CASE n.k \in {"INT_LITERAL", "CHAR_LITERAL", "true", "false", "null"} ->
             [v |-> Num(LiteralValue(n)), s |-> s]
        [] n.k = "STRING_LITERAL" -> [v |-> [k |-> "string", x |-> n.x], s |-> s]
        [] n.k = "IDENTIFIER" /\ n.x \notin DOMAIN s.env /\ IsFunction(n.x) ->
             [v |-> [k |-> "function", x |-> n.x], s |-> s]
        [] n.k \in {"Grouped", "ImplicitCast"} -> l
        [] n.k = "FLOAT_LITERAL" -> Lost(s)
        [] n.k = "SizeOf" -> [v |-> Num(Bytes(checker.tab, n.c[1])), s |-> s]
        [] n.k = "Cast" ->
             IF is_integer_type(n.type) /\ is_integer_type(n.c[2].type)
             THEN Result(Convert(part(2).v, n.type), part(2).s) ELSE Lost(s)
        [] n.k = "BinaryOp" /\ op \in {"and", "or"} ->
             IF l.s.flow # "" \/ (l.v.v = 1) = (op = "or") THEN l ELSE r
        [] n.k = "BinaryOp" /\ op \notin {"and", "or"} ->
             LET o == Operate(op, l.v, r.v, r.s)
             IN  IF o.v = Nothing THEN o ELSE [v |-> Convert(o.v, n.type), s |-> o.s]
        [] n.k = "Unary" /\ n.c[1].k = "-" -> Operate("-", Num(0), part(3).v, part(3).s)
        [] n.k = "Unary" /\ n.c[1].k = "!" -> Operate("-", Num(1), part(3).v, part(3).s)
        [] n.k = "Unary" /\ n.c[1].k = "&" -> PlaceOf(n.c[3], s)
        [] n.k = "Assignment" ->
             LET v == Convert(part(2).v, n.c[1].type)
             IN  IF target.s.flow # "" THEN target
                 ELSE [v |-> v, s |-> Store(target.s, target.v, v)]
        [] n.k = "FunctionCall" ->
             IF args.s.flow # "" THEN [v |-> Nothing, s |-> args.s]
             ELSE IF l.v.k = "function" THEN Invoke(l.v.x, args.v, args.s) ELSE Lost(args.s)
        [] n.k \in {"New", "NewArray"} -> EvalNew(n, s)
        [] n.k \in {"StructLiteral", "EnumLiteral"} -> EvalLiteral(n, s)
        [] n.k = "FieldAccess" /\ n.c[1].type.k = "Enum" ->
             IF l.s.flow # "" THEN l ELSE [v |-> Num(l.v.tag), s |-> l.s]
        [] OTHER -> LET p == PlaceOf(n, s) IN IF p.s.flow # "" THEN p ELSE Get(p.s, p.v)

-------------------------------------------------------------------------------
RECURSIVE ExecAll(_, _), Show(_, _, _), Rounds(_, _, _), Match1(_, _, _, _)
ExecAll(nodes, s) ==
  IF nodes = <<>> \/ s.flow # "" THEN s ELSE ExecAll(Tail(nodes), Exec(nodes[1], s))

\* Output: integers and strings, each when it is evaluated.
Written(s, entry) == [s EXCEPT !.out = Append(@, entry)]
Show(nodes, fd, s) ==
  LET r == Eval(nodes[1], s)
      shown == CASE r.v.k = "int" -> Written(r.s, [fd |-> fd, int |-> r.v.v])
                 [] r.v.k = "string" -> Written(r.s, [fd |-> fd, string |-> r.v.x])
                 [] OTHER -> Flow(r.s, "undefined")
  IN  IF nodes = <<>> \/ s.flow # "" THEN s
      ELSE Show(Tail(nodes), fd, IF r.s.flow = "" THEN shown ELSE r.s)

\* A loop is a test, what is done between rounds, and a body.  Rounds makes 2^k rounds,
\* unless the loop is left before.
Continued(l, s) == IF l.between.k = "None" THEN s ELSE Eval(l.between, s).s
AfterBody(l, s) == IF s.flow \in {"", "continue"} THEN Continued(l, Flow(s, "")) ELSE s
AfterTest(l, test) ==
  CASE test.s.flow # "" -> test.s
    [] test.s.flow = "" /\ test.v = Num(0) -> Flow(test.s, "break")
    [] OTHER -> AfterBody(l, Exec(l.body, test.s))
Round(l, s) ==
  IF s.flow # "" THEN s
  ELSE AfterTest(l, IF l.test.k = "None" THEN [v |-> Num(1), s |-> s] ELSE Eval(l.test, s))
Rounds(l, k, s) ==
  IF k = 0 \/ s.flow # "" THEN Round(l, s) ELSE Rounds(l, k - 1, Rounds(l, k - 1, s))
AfterLoop(s) ==
  CASE s.flow = "break" -> Flow(s, "")
    [] s.flow = "" -> Flow(s, "undefined")
    [] OTHER -> s
Loop(l, s) == IF s.flow # "" THEN s ELSE AfterLoop(Rounds(l, MaxRounds, s))

\* The first case from the i-th on that fits the value v, else the default.
Match1(n, i, v, s) ==
  LET case == n.c[i]
      t == n.c[1].type
      body == case.c[Len(case.c)]
      value == Eval(case.c[1], s)
      same == Operate("==", v, value.v, value.s)
      default == {j \in DOMAIN n.c : n.c[j].k = "CaseDefault"}
      bound == IF case.c[3].k = "None" THEN s
               ELSE Bind(s, case.c[3].x, [k |-> "object", f |-> v.f], TRUE)
  IN  IF i > Len(n.c) THEN (IF default = {} THEN s ELSE Exec(n.c[Max(default)].c[1], s))
      ELSE CASE case.k = "CaseDefault" -> Match1(n, i + 1, v, s)
             [] case.k = "CaseEnum" ->
                  IF v.tag = VariantOf(checker.tab, t, case.c[2].x).tag
                  THEN Within(Exec(body, bound), s)
                  ELSE Match1(n, i + 1, v, s)
             [] case.k = "CaseValue" ->
                  CASE same.s.flow # "" -> same.s
                    [] same.s.flow = "" -> IF same.v = Num(1) THEN Exec(body, same.s)
                                           ELSE Match1(n, i + 1, v, same.s)

DoStatement(n, s) ==
  LET r == Eval(n.c[1], s)
      ended == r.s.flow # ""
      absent1 == n.c[1].k = "None"
      init == Eval(n.c[4], s)
      place == PlaceOf(n.c[1], s)
      freed == [r.s EXCEPT !.mem[r.v.at] = Nothing]
  IN  IF s.flow # "" THEN s ELSE
      CASE n.k = "VarDecl" ->
             IF n.c[4].k = "None" THEN Bind(s, n.c[2].x, Fill(n.c[3], Num(0)), IsMut(n.c[1]))
             ELSE IF init.s.flow # "" THEN init.s
             ELSE Bind(init.s, n.c[2].x, Convert(init.v, n.c[3]), IsMut(n.c[1]))
        [] n.k = "Block" -> Within(ExecAll(n.c, s), s)
        [] n.k = "ExpressionStatement" -> r.s
        [] n.k = "If" ->
             IF ended \/ (r.v # Num(1) /\ n.c[3].k = "None") THEN r.s
             ELSE Exec(n.c[IF r.v = Num(1) THEN 2 ELSE 3], r.s)
        [] n.k = "While" -> Loop([test |-> n.c[1], between |-> [k |-> "None"], body |-> n.c[2]], s)
        [] n.k = "For" -> Within(Loop([test |-> n.c[2], between |-> n.c[3], body |-> n.c[4]],
                                      IF absent1 THEN s ELSE Exec(n.c[1], s)), s)
        [] n.k = "Break" -> Flow(s, "break")
        [] n.k = "Continue" -> Flow(s, "continue")
        [] n.k = "Return" -> IF absent1 THEN Flow(s, "return")
                             ELSE IF ended THEN r.s
                             ELSE [r.s EXCEPT !.flow = "return", !.ret = r.v]
        [] n.k = "Exit" -> IF absent1 THEN Flow(Written(s, [exit |-> 0]), "exit")
                           ELSE IF ended THEN r.s
                           ELSE Flow(Written(r.s, [exit |-> r.v.v % 256]), "exit")
        [] n.k = "Print" -> Show(n.c, 1, s)
        [] n.k = "Error" -> Show(n.c, 2, s)
        [] n.k = "Read" -> IF place.s.flow # "" THEN place.s
                           ELSE Store(place.s, place.v, Convert(Num(Input), n.c[1].type))
        \* What was freed, and a variable that pointed to it, are not to be used again.
        [] n.k = "Free" -> IF ended \/ r.v.k # "ptr" THEN Flow(r.s, "undefined")
                           ELSE IF n.c[1].k = "IDENTIFIER"
                                THEN [freed EXCEPT !.mem[place.v.at] = Nothing]
                                ELSE freed
        [] n.k = "Asm" -> Flow(s, "undefined")
        [] n.k = "Switch" -> IF ended THEN r.s ELSE Match1(n, 2, r.v, r.s)
        [] n.k \in {"FunctionDecl", "StructDecl", "OpaqueStruct", "EnumDecl"} -> s
        [] OTHER -> Eval(n, s).s

Perform(what, n, s) ==
  CASE what = "value" -> DoValue(n, s)
    [] what = "place" -> DoPlace(n, s)
    [] what = "statement" -> [v |-> Nothing, s |-> DoStatement(n, s)]
    [] what = "call" -> DoCall(n.x, n.args, s)

\* The statements outside functions, then main, whose value is the exit code.
RECURSIVE TopLevel(_, _)
TopLevel(nodes, s) ==
  IF nodes = <<>> \/ s.flow # "" THEN s
  ELSE LET after == Exec(nodes[1], s)
       IN  TopLevel(Tail(nodes), [after EXCEPT !.globals = after.env])
Exited(r) ==
  IF r.s.flow # "" THEN r.s ELSE Flow(Written(r.s, [exit |-> r.v.v % 256]), "exit")
AfterTop(s) ==
  CASE s.flow # "" -> s
    [] s.flow = "" /\ ~IsFunction("main") -> Exited([v |-> Num(0), s |-> s])
    [] OTHER -> Exited(Invoke("main", <<Num(1), Nothing>>, s))
Meaning ==
  AfterTop(TopLevel(program, [mem |-> <<>>, env |-> EmptyMap, globals |-> EmptyMap, out |-> <<>>,
                              fixed |-> {}, flow |-> "", ret |-> Nothing, depth |-> 0]))
===============================================================================
