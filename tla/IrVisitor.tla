------------------------------- MODULE IrVisitor ------------------------------
(***************************************************************************)
(* Lowering the checked tree to IR (codegen/ir/ir_visitor.cpp and          *)
(* ir_generator.cpp).  A visitor takes a node and the generator g and      *)
(* gives the generator after it: the instructions so far (code), the       *)
(* counters of registers, labels and hidden variables, m_last_expr_operand *)
(* (last), m_vars (vars, and funcs for those that are functions),          *)
(* m_loop_contexts (loops), m_current_func_epilogue_label (epilogue),      *)
(* m_current_hidden_ret_ptr (hidden), and stop once an assertion threw.    *)
(* Numbers of registers, labels and hidden variables are unique; their     *)
(* order is not that of the code.                                          *)
(***************************************************************************)
EXTENDS TypeChecker

VARIABLES
  lowered,      \* how many nodes of the program visit_all has visited
  generator

\* Operands.
Reg(i) == [k |-> "reg", id |-> i]
Imm(v, size) == [k |-> "imm", v |-> v, size |-> size]
Str(x) == [k |-> "string", x |-> x]
Label(i) == [k |-> "label", label |-> i]
FuncLabel(x) == [k |-> "function", x |-> x]
Runtime(x) == [k |-> "runtime", x |-> x]
Slot(i) == [k |-> "slot", i |-> i]               \* IR_ParameterSlot; 0 is the hidden one
Hidden(x, i, bytes) == [k |-> "hidden", x |-> x, i |-> i, bytes |-> bytes]
NoOperand == [k |-> "none"]

Generator(tab) ==
  [tab |-> tab, code |-> <<>>, reg |-> 0, label |-> 0, tmp |-> 0, last |-> NoOperand,
   vars |-> {}, funcs |-> {}, loops |-> <<>>, epilogue |-> NoOperand, hidden |-> NoOperand,
   stop |-> ""]
Fail(g) == [g EXCEPT !.stop = "assert"]                \* _assert and unimpl throw

Emit(g, op, dst, src, size) ==
  [g EXCEPT !.code = Append(@, [op |-> op, dst |-> dst, src |-> src, size |-> size])]
EmitLabel(g, label) == Emit(g, "LABEL", label, <<>>, 0)
Goto(g, label) == Emit(g, "GOTO", NoOperand, <<label>>, 0)
IfZ(g, label, size) == Emit(g, "IF_Z", NoOperand, <<g.last, label>>, size)
Yield(g, operand) == [g EXCEPT !.last = operand]
\* An instruction into a new register, which is the operand from then on.
Temp(g, op, src, size) ==
  Yield(Emit([g EXCEPT !.reg = @ + 1], op, Reg(g.reg), src, size), Reg(g.reg))

\* Mutant: labels are taken one at a time, whatever the number asked for.
NewLabels_one(g, n) == [g EXCEPT !.label = @ + 1]

NewLabels(g, n) == [g EXCEPT !.label = @ + n]
\* A hidden variable, and the address of one.
NewHidden(g) == [g EXCEPT !.tmp = @ + 1]
AddressOf(g, variable) == Temp(g, "ADDR_OF", <<variable>>, PTR_SIZE)
allocate_temp_local(g, bytes) == AddressOf(NewHidden(g), Hidden("tmp_local", g.tmp, bytes))

-------------------------------------------------------------------------------
\* The IR variable of a name: its symbol's name and scope.
IrVariable(tab, x, v) == [k |-> "var", x |-> x, s |-> v.s, bytes |-> Bytes(tab, v.type)]
VarOf(g, x, scope) == IrVariable(g.tab, x, lookup(g.tab, "Variable", <<x>>, scope))
Known(g, x, scope) == lookup(g.tab, "Variable", <<x>>, scope) # NoSymbol
var_exists(g, x, scope) == Known(g, x, scope) /\ VarOf(g, x, scope) \in g.vars
add_var(g, x, scope) ==
  IF Known(g, x, scope) /\ ~var_exists(g, x, scope)
  THEN [g EXCEPT !.vars = @ \cup {VarOf(g, x, scope)}] ELSE Fail(g)

\* The first loop of visit_all: functions may be called before they are declared.
RECURSIVE DeclareFunctions(_, _)
DeclareFunctions(nodes, g) ==
  IF nodes = <<>> THEN g
  ELSE LET x == nodes[1].c[2].x
           with == IF var_exists(g, x, nodes[1].s) THEN g ELSE add_var(g, x, nodes[1].s)
       IN  DeclareFunctions(Tail(nodes), IF nodes[1].k # "FunctionDecl" THEN g
                                         ELSE [with EXCEPT !.funcs = @ \cup {x}])

\* Copy or store the last operand to the address in a register.
Put(g, address, t) ==
  Emit(g, IF is_aggregate(g.tab, t) THEN "MEM_COPY" ELSE "STORE", address, <<g.last>>,
       Bytes(g.tab, t))
\* The value at the address that is the last operand; of an aggregate, that address.
Fetch(g, t) ==
  IF is_aggregate(g.tab, t) THEN g ELSE Temp(g, "LOAD", <<g.last>>, Bytes(g.tab, t))

RECURSIVE Lower(_, _), AddrOf(_, _), FieldAddr(_, _, _)

LowerAll(nodes, g) ==
  LET after[i \in 0 .. Len(nodes)] == IF i = 0 THEN g ELSE Lower(nodes[i], after[i - 1])
  IN  after[Len(nodes)]

lower_identifier(n, g) ==
  LET v == VarOf(g, n.x, n.s)
  IN  CASE ~var_exists(g, n.x, n.s) -> Fail(g)
        [] var_exists(g, n.x, n.s) /\ is_aggregate(g.tab, n.type) ->
             AddressOf(g, v)
        [] OTHER -> Yield(g, v)

\* The result of and, or is kept in a hidden variable across the jump.
lower_logical(n, g) ==
  LET or == n.c[2].k = "or"
      dest == Hidden("sc_result", g.tmp, 1)
      end == Label(g.label)
      eval_right == Label(g.label + 1)
      l == Lower(n.c[1], NewHidden(NewLabels(g, 2)))
      set == Emit(l, "ASSIGN", dest, <<Imm(IF or THEN 1 ELSE 0, 1)>>, 1)
      r == Lower(n.c[3], IF or THEN EmitLabel(Goto(IfZ(set, eval_right, 1), end), eval_right)
                         ELSE IfZ(set, end, 1))
  IN  Temp(EmitLabel(Emit(r, "ASSIGN", dest, <<r.last>>, 1), end), "ASSIGN", <<dest>>, 1)

\* Operands of different sizes are an error unless one is a literal.
lower_binary(n, g) ==
  LET l == Lower(n.c[1], g)
      r == Lower(n.c[3], l)
      size(i) == Bytes(g.tab, n.c[i].type)
      result(bytes) == Temp(r, n.c[2].k, <<l.last, r.last>>, bytes)
  IN  CASE size(1) = size(3) \/ r.last.k = "imm" -> result(size(1))
        [] size(1) # size(3) /\ r.last.k # "imm" /\ l.last.k = "imm" -> result(size(3))
        [] OTHER -> Fail(r)

lower_unary(n, g) ==
  LET part == n.c[3]
      object == Lower(part, g)
      bytes == Bytes(g.tab, part.type)
  IN  CASE n.c[1].k = "-" -> Temp(object, "NEG", <<object.last>>, bytes)
        [] n.c[1].k = "!" -> Temp(object, "NOT", <<object.last>>, bytes)
        [] n.c[1].k = "*" -> IF is_aggregate(g.tab, n.type)
                             THEN Temp(object, "ASSIGN", <<object.last>>, PTR_SIZE)
                             ELSE Fetch(object, n.type)
        [] n.c[1].k = "&" -> AddrOf(part, object)

\* base + index * size.
IndexAddr(n, g) ==
  LET base == Lower(n.c[1], g)
      index == Lower(n.c[2], base)
      offset == Temp(index, "*", <<index.last, Imm(Bytes(g.tab, n.type), PTR_SIZE)>>, PTR_SIZE)
  IN  Temp(offset, "+", <<base.last, offset.last>>, PTR_SIZE)

\* visit_addrof: only some expressions have an address.
AddrOf(n, g) ==
  LET copied(h) == Temp(h, "ASSIGN", <<h.last>>, PTR_SIZE)
  IN  CASE n.k = "IDENTIFIER" ->
             IF var_exists(g, n.x, n.s) THEN AddressOf(g, VarOf(g, n.x, n.s))
             ELSE Fail(g)
        [] n.k = "ArrayIndex" -> IndexAddr(n, g)
        [] n.k = "Unary" /\ n.c[1].k = "*" -> copied(Lower(n.c[3], g))
        [] n.k = "FieldAccess" -> copied(FieldAddr(n.c[1], n.c[2].x, g))
        [] n.k = "StructLiteral" -> copied(Lower(n, g))
        [] OTHER -> Fail(g)

\* compute_struct_field_addr: the object is a struct or a pointer to one.
FieldAddr(object, x, g) ==
  LET t == IF is_pointer_like(object.type) THEN object.type.to ELSE object.type
      base == Lower(object, g)
      offset == Layout(g.tab, t).fields[FieldNamed(g.tab, t, x)].off
  IN  IF IsStruct(g.tab, t) THEN Temp(base, "+", <<base.last, Imm(offset, PTR_SIZE)>>, PTR_SIZE)
      ELSE Fail(g)

lower_field_access(n, g) ==
  LET t == n.c[1].type
      base == IF is_pointer_like(t) THEN t.to ELSE t
  IN  IF base.k = "Enum" THEN Fetch(Lower(n.c[1], g), Basic("u32"))
      ELSE Fetch(FieldAddr(n.c[1], n.c[2].x, g), n.type)

lower_assignment(n, g) ==
  LET r == Lower(n.c[2], g)
      address == AddrOf(n.c[1], r)
  IN  Yield(Put(Yield(address, r.last), address.last, n.c[1].type), r.last)

handle_cast(n, part, g) ==
  LET from == Lower(part, g)
      bytes == Bytes(g.tab, n.type)
  IN  IF from.last.k = "imm" THEN Yield(from, Imm(from.last.v, bytes))
      ELSE Temp(from, "ASSIGN", <<from.last>>, bytes)

-------------------------------------------------------------------------------
\* Calls.  Aggregates are passed as the address of a copy.
RECURSIVE LowerArguments(_, _, _)
LowerArguments(args, done, g) ==
  LET arg == args[1]
      value == Lower(arg, g)
      bytes == Bytes(g.tab, arg.type)
      copy == allocate_temp_local(value, bytes)
      filled == Emit(copy, "MEM_COPY", copy.last, <<value.last>>, bytes)
  IN  CASE args = <<>> -> [g |-> g, args |-> done]
        [] args # <<>> /\ is_aggregate(g.tab, arg.type) ->
             LowerArguments(Tail(args), Append(done, [op |-> copy.last, size |-> PTR_SIZE]),
                            filled)
        [] OTHER ->
             LowerArguments(Tail(args), Append(done, [op |-> value.last, size |-> bytes]), value)
PushArgs(g, args) ==
  LET push(i) == [op |-> "PUSH_ARG", dst |-> NoOperand, src |-> <<args[i].op>>,
                  size |-> args[i].size]
  IN  [g EXCEPT !.code = @ \o [i \in DOMAIN args |-> push(i)]]
Prepare(g) == Emit(g, "BEGIN_LCALL_PREP", NoOperand, <<>>, 0)

\* The callee is evaluated first, then room for an aggregate result, then the arguments.
lower_call(n, g) ==
  LET callee == Lower(n.c[1], g)
      by_address == is_aggregate(g.tab, n.type)
      room == IF by_address THEN allocate_temp_local(callee, Bytes(g.tab, n.type)) ELSE callee
      v == LowerArguments(Tail(n.c), <<>>, room)
      prepared == IF ~by_address THEN Prepare(v.g)
                  ELSE Emit(Prepare(v.g), "SET_HIDDEN_ARG", NoOperand, <<room.last>>, PTR_SIZE)
      ready == PushArgs(prepared, v.args)
      target == <<callee.last>>
  IN  CASE by_address -> Yield(Emit(ready, "LCALL", NoOperand, target, PTR_SIZE), room.last)
        [] n.type = Basic("u0") ->
             Yield(Emit(ready, "LCALL", NoOperand, target, 0), Imm(0, PTR_SIZE))
        [] OTHER -> Temp(ready, "LCALL", target, Bytes(g.tab, n.type))

\* A call of the runtime.
RuntimeCall(g, x, args) ==
  Temp(PushArgs(Prepare(g), args), "LCALL", <<Runtime(x)>>, PTR_SIZE)
get_runtime_print_call(t) ==
  IF is_pointer_like(t) /\ t.to.k = "Named" /\ t.to.n = <<"u8">> THEN "print_string"
  ELSE "print_int"
\* Print and error statements: each value on its own, with the descriptor fd.
RECURSIVE LowerPrint(_, _, _)
LowerPrint(values, fd, g) ==
  IF values = <<>> \/ g.stop # "" THEN g
  ELSE LET v == Lower(values[1], g)
           args == <<[op |-> Imm(fd, PTR_SIZE), size |-> PTR_SIZE],
                     [op |-> v.last, size |-> Bytes(g.tab, values[1].type)]>>
       IN  LowerPrint(Tail(values), fd,
             Emit(PushArgs(Prepare(v), args), "LCALL", NoOperand,
                  <<Runtime(get_runtime_print_call(values[1].type))>>, 0))

lower_read(n, g) ==
  LET part == n.c[1]
      bytes == Bytes(g.tab, part.type)
      buffer == allocate_temp_local(g, 64)
      word == RuntimeCall(buffer, "read_word", <<[op |-> buffer.last, size |-> PTR_SIZE],
                                                [op |-> Imm(64, PTR_SIZE), size |-> PTR_SIZE]>>)
      unsigned == part.type.n[1] \in {"u8", "u16", "u32", "u64"}
      value == RuntimeCall(word, IF unsigned THEN "parse_uint" ELSE "parse_int",
                           <<[op |-> word.last, size |-> PTR_SIZE]>>)
      address == AddrOf(part, value)
  IN  IF part.k = "IDENTIFIER"
      THEN Emit(value, "ASSIGN", VarOf(g, part.x, part.s), <<value.last>>, bytes)
      ELSE Emit(address, "STORE", address.last, <<value.last>>, bytes)


\* The value of an aggregate is copied to where the hidden argument points.
ReturnAggregate(g, address, bytes) ==
  LET pointer == Temp(g, "ASSIGN", <<g.hidden>>, PTR_SIZE)
      copied == Emit(pointer, "MEM_COPY", pointer.last, <<address>>, bytes)
  IN  Emit(copied, "RETURN", NoOperand, <<pointer.last>>, PTR_SIZE)
lower_return(n, g) ==
  LET v == Lower(n.c[1], g)
      t == n.c[1].type
      returned ==
        CASE n.c[1].k = "None" -> Emit(g, "RETURN", NoOperand, <<>>, 0)
          [] n.c[1].k # "None" /\ is_aggregate(g.tab, t) ->
               ReturnAggregate(v, v.last, Bytes(g.tab, t))
          [] OTHER -> Emit(v, "RETURN", NoOperand, <<v.last>>, Bytes(g.tab, t))
  IN  Goto(returned, g.epilogue)

-------------------------------------------------------------------------------
\* Objects.
lower_new(n, g) ==
  LET bytes == Imm(Bytes(g.tab, n.c[2]), PTR_SIZE)
      v == Lower(n.c[3], g)
      size == Bytes(g.tab, n.c[3].type)
      alloc == Temp(v, "ALLOC", <<bytes>>, 0)
  IN  CASE n.k = "NewArray" -> Temp(v, "ALLOC_ARRAY", <<bytes, v.last>>, size)
        [] n.k = "New" /\ n.c[3].k = "None" -> Temp(g, "ALLOC", <<bytes>>, 0)
        [] OTHER -> IF is_aggregate(g.tab, n.c[2])
                    THEN Emit(alloc, "MEM_COPY", alloc.last, <<v.last>>, size)
                    ELSE Temp(v, "ALLOC", <<bytes, v.last>>, size)

\* The fields in the order of the declaration, each with its first initializer.
RECURSIVE StoreFields(_, _, _, _, _)
StoreFields(fields, inits, base, start, g) ==
  LET field == fields[1]
      of == {i \in DOMAIN inits : inits[i].c[1].x = field.n}
      address == Temp(g, "+", <<base, Imm(start + field.off, PTR_SIZE)>>, PTR_SIZE)
      value == Lower(inits[Min(of)].c[2], address)
  IN  CASE fields = <<>> -> g
        [] fields # <<>> /\ of = {} -> StoreFields(Tail(fields), inits, base, start, g)
        [] OTHER ->
             StoreFields(Tail(fields), inits, base, start, Put(value, address.last, field.t))
\* Room on the stack, filled with zeroes.
Zeroed(g, bytes) ==
  LET room == allocate_temp_local(g, bytes)
  IN  Emit(room, "MEM_SET", room.last, <<Imm(0, 1)>>, bytes)
lower_struct_literal(n, g) ==
  LET layout == Layout(g.tab, n.type)
      room == Zeroed(g, layout.bytes)
  IN  Yield(StoreFields(layout.fields, Tail(n.c), room.last, 0, room), room.last)

PayloadStruct(enum, x) == Named(enum.n \o <<"::", x>>, 0)
PayloadOffset(tab, enum) ==
  LET variants == Layout(tab, enum).variants
      with == {i \in DOMAIN variants : variants[i].payload}
  IN  AlignUp(TagBytes,
              Max({1} \cup {Layout(tab, PayloadStruct(enum, variants[i].n)).align : i \in with}))
VariantOf(tab, enum, x) ==
  LET decl == Layout(tab, enum) IN decl.variants[VariantNamed(decl, x)]
lower_enum_literal(n, g) ==
  LET variant == VariantOf(g.tab, n.type, n.c[2].x)
      room == Zeroed(g, Bytes(g.tab, n.type))
      tagged == Emit(room, "STORE", room.last, <<Imm(variant.tag, TagBytes)>>, TagBytes)
      fields == Layout(g.tab, PayloadStruct(n.type, n.c[2].x)).fields
  IN  Yield(IF variant.payload /\ Len(n.c) > 2
           THEN StoreFields(fields, SubSeq(n.c, 3, Len(n.c)), room.last,
                            PayloadOffset(g.tab, n.type), tagged)
           ELSE tagged, room.last)

-------------------------------------------------------------------------------
\* Statements.
lower_var_decl(n, g) ==
  LET x == n.c[2].x
      t == n.c[3]
      bytes == Bytes(g.tab, t)
      added == add_var(g, x, n.s)
      var == VarOf(g, x, n.s)
      v == IF n.c[4].k = "None" THEN Yield(added, Imm(0, bytes)) ELSE Lower(n.c[4], added)
      address == AddressOf(v, var)
  IN  CASE ~is_aggregate(g.tab, t) -> Emit(v, "ASSIGN", var, <<v.last>>, bytes)
        [] is_aggregate(g.tab, t) /\ n.c[4].k = "None" ->
             Emit(address, "MEM_SET", address.last, <<Imm(0, 1)>>, bytes)
        [] OTHER -> Emit(address, "MEM_COPY", address.last, <<v.last>>, bytes)

lower_if(n, g) ==
  LET else == Label(g.label)
      end == Label(g.label + 1)
      test == Lower(n.c[1], NewLabels(g, 2))
      then == Lower(n.c[2], IfZ(test, else, Bytes(g.tab, n.c[1].type)))
  IN  IF n.c[3].k = "None" THEN EmitLabel(then, else)
      ELSE EmitLabel(Lower(n.c[3], EmitLabel(Goto(then, end), else)), end)

\* The body of a loop with its continue and break targets.
LowerBody(n, g, continue, break) ==
  LET body == Lower(n, [g EXCEPT !.loops = Append(@, <<continue, break>>)])
  IN  [body EXCEPT !.loops = g.loops]
lower_while(n, g) ==
  LET start == Label(g.label)
      end == Label(g.label + 1)
      test == Lower(n.c[1], EmitLabel(NewLabels(g, 2), start))
      body == LowerBody(n.c[2], IfZ(test, end, Bytes(g.tab, n.c[1].type)), start, end)
  IN  EmitLabel(Goto(body, start), end)

lower_for(n, g) ==
  LET part(i, h) == IF n.c[i].k = "None" THEN h ELSE Lower(n.c[i], h)
      condition == Label(g.label)
      iteration == Label(g.label + 1)
      end == Label(g.label + 2)
      test == part(2, EmitLabel(part(1, NewLabels(g, 3)), condition))
      left == IF n.c[2].k = "None" THEN test ELSE IfZ(test, end, Bytes(g.tab, n.c[2].type))
      body == LowerBody(n.c[4], left, iteration, end)
  IN  EmitLabel(Goto(part(3, EmitLabel(body, iteration)), condition), end)

lower_exit(n, g) ==
  IF n.c[1].k = "None" THEN Emit(g, "EXIT", NoOperand, <<Imm(0, PTR_SIZE)>>, PTR_SIZE)
  ELSE LET v == Lower(n.c[1], g)
       IN  Emit(v, "EXIT", NoOperand, <<v.last>>, Bytes(g.tab, n.c[1].type))
lower_free(n, g) ==
  LET v == Lower(n.c[1], g) IN Emit(v, "FREE", NoOperand, <<v.last>>, PTR_SIZE)

\* Break and continue: 2 is the break target, 1 the continue target.
lower_jump(g, target) == IF g.loops = <<>> THEN Fail(g) ELSE Goto(g, g.loops[Len(g.loops)][target])

\* The comparisons of a switch, from its i-th case on: a jump to the case's label.  The
\* operand is compared with a value, the tag with that of a variant.
RECURSIVE Compare(_, _, _, _, _), CaseBodies(_, _, _, _, _)
Compare(n, i, op, tag, g) ==
  LET case == n.c[i]
      value == Lower(case.c[1], g)
      t == n.c[1].type
      expected == VariantOf(g.tab, t, case.c[2].x).tag
      ne == IF case.k = "CaseEnum" THEN Temp(g, "!=", <<tag, Imm(expected, TagBytes)>>, TagBytes)
            ELSE Temp(value, "!=", <<op, value.last>>, Bytes(g.tab, t))
  IN  CASE i > Len(n.c) -> g
        [] i <= Len(n.c) /\ n.c[i].k = "CaseDefault" -> Compare(n, i + 1, op, tag, g)
        [] OTHER -> Compare(n, i + 1, op, tag, IfZ(ne, case.label, 1))

\* The payload of the switched value goes to its variable.
CopyPayload(g, dst, offset, bytes) ==
  LET src == Temp(g, "+", <<g.last, Imm(offset, PTR_SIZE)>>, PTR_SIZE)
  IN  Emit(src, "MEM_COPY", dst, <<src.last>>, bytes)
BindPayload(case, t, backup, g) ==
  LET var == VarOf(g, case.c[3].x, case.c[4].s)
      dst == AddressOf(add_var(g, case.c[3].x, case.c[4].s), var)
      place == AddressOf(dst, backup)
  IN  CopyPayload(Temp(place, "LOAD", <<place.last>>, PTR_SIZE), dst.last,
                  PayloadOffset(g.tab, t), Bytes(g.tab, PayloadStruct(t, case.c[2].x)))
CaseBodies(n, i, backup, end, g) ==
  LET case == n.c[i]
      body == case.c[Len(case.c)]
      at == EmitLabel(g, case.label)
      bound == IF case.k = "CaseEnum" /\ case.c[3].k # "None"
               THEN BindPayload(case, n.c[1].type, backup, at) ELSE at
  IN  CASE i > Len(n.c) -> g
        [] i <= Len(n.c) /\ n.c[i].k = "CaseDefault" -> CaseBodies(n, i + 1, backup, end, g)
        [] OTHER -> CaseBodies(n, i + 1, backup, end, Goto(Lower(body, bound), end))

\* Tests first, then the bodies; a default body comes last.
SwitchOn(n, op, tag, backup, g) ==
  LET end == Label(g.label)
      labelled == [i \in DOMAIN n.c |-> IF i = 1 THEN n.c[1]
                                        ELSE n.c[i] @@ [label |-> Label(g.label + i)]]
      sw == [n EXCEPT !.c = labelled]
      defaults == {i \in DOMAIN n.c : n.c[i].k = "CaseDefault"}
      tested == Compare(sw, 2, op, tag, NewLabels(g, Len(n.c) + 1))
      none == Goto(tested, IF defaults = {} THEN end ELSE labelled[Max(defaults)].label)
      bodies == CaseBodies(sw, 2, backup, end, none)
      last == IF defaults = {} THEN bodies
              ELSE Lower(n.c[Max(defaults)].c[1], EmitLabel(bodies, labelled[Max(defaults)].label))
  IN  EmitLabel(last, end)
\* Of an enum the tag is compared, and its address is kept for the payloads.
SwitchEnum(n, v) ==
  LET backup == Hidden("switch_backup", v.tmp, PTR_SIZE)
      tag == Temp(NewHidden(v), "LOAD", <<v.last>>, TagBytes)
      place == AddressOf(tag, backup)
  IN  SwitchOn(n, v.last, tag.last, backup,
               Emit(place, "STORE", place.last, <<v.last>>, PTR_SIZE))
lower_switch(n, g) ==
  LET v == Lower(n.c[1], g)
  IN  IF n.c[1].type.k = "Enum" THEN SwitchEnum(n, v) ELSE SwitchOn(n, v.last, NoOperand, NoOperand, v)

-------------------------------------------------------------------------------
\* Scalars come in their slots; of an aggregate the slot holds an address, and the
\* aggregates are copied once every slot is read.
RECURSIVE AddParams(_, _)
AddParams(params, g) ==
  IF params = <<>> THEN g
  ELSE AddParams(Tail(params), add_var(g, params[1].c[2].x, params[1].s))
RECURSIVE ReadSlots(_, _, _), CopyParams(_, _, _)
ReadSlots(params, i, g) ==
  LET t == params[i].c[3]
      var == VarOf(g, params[i].c[2].x, params[i].s)
  IN  CASE i > Len(params) -> g
        [] i <= Len(params) /\ is_aggregate(g.tab, t) ->
             ReadSlots(params, i + 1, Temp(g, "ASSIGN", <<Slot(i)>>, PTR_SIZE))
        [] OTHER -> ReadSlots(params, i + 1, Emit(g, "ASSIGN", var, <<Slot(i)>>, Bytes(g.tab, t)))
\* The registers of the addresses were taken in the order of the parameters, from reg on.
CopyParams(params, reg, g) ==
  LET t == params[1].c[3]
      address == AddressOf(g, VarOf(g, params[1].c[2].x, params[1].s))
  IN  CASE params = <<>> -> g
        [] params # <<>> /\ is_aggregate(g.tab, t) ->
             CopyParams(Tail(params), reg + 1,
               Emit(address, "MEM_COPY", address.last, <<Reg(reg)>>, Bytes(g.tab, t)))
        [] OTHER -> CopyParams(Tail(params), reg, g)

ByAddress(n, g) == n.c[4].k # "None" /\ is_aggregate(g.tab, n.c[4].c[3])
\* The parameters, the address the result is wanted at, and the named result.
TakeHidden(n, g) ==
  LET pointer == Hidden("hidden_ret_ptr", n.c[5].s, PTR_SIZE)
  IN  IF ~ByAddress(n, g) THEN [g EXCEPT !.hidden = NoOperand]
      ELSE Emit([g EXCEPT !.hidden = pointer], "ASSIGN", pointer, <<Slot(0)>>, PTR_SIZE)
TakeParams(params, g) == CopyParams(params, g.reg, ReadSlots(params, 1, g))
EnterFunction(n, g) ==
  LET begin == Emit(NewLabels(g, 1), "BEGIN_FUNC", FuncLabel(n.c[2].x), <<>>, 0)
      taken == TakeParams(n.c[3].c, TakeHidden(n, AddParams(n.c[3].c, begin)))
  IN  IF n.c[4].k = "None" THEN taken ELSE add_var(taken, n.c[4].c[2].x, n.c[5].s)

\* Falling off the end returns the named variable.
LeaveFunction(n, g) ==
  LET ret == n.c[4]
      t == ret.c[3]
      var == VarOf(g, ret.c[2].x, ret.s)
      address == AddressOf(g, var)
  IN  CASE ret.k = "None" -> Emit(g, "RETURN", NoOperand, <<>>, 0)
        [] ByAddress(n, g) -> ReturnAggregate(address, address.last, Bytes(g.tab, t))
        [] OTHER -> Emit(g, "RETURN", NoOperand, <<var>>, Bytes(g.tab, t))
lower_function(n, g) ==
  LET end == Label(g.label)
      body == Lower(n.c[5], [EnterFunction(n, g) EXCEPT !.epilogue = end])
  IN  IF n.c[1].k = "extern" \/ n.c[5].k = "None" THEN g
      ELSE [Emit(EmitLabel(LeaveFunction(n, body), end), "END_FUNC", NoOperand, <<>>, 0)
              EXCEPT !.epilogue = g.epilogue, !.hidden = g.hidden]

LiteralValue(n) ==
  CASE n.k = "INT_LITERAL" -> IntLiteral[n.x]
    [] n.k = "true" -> 1
    [] n.k = "CHAR_LITERAL" -> 99
    [] OTHER -> 0                       \* false, null

LowerExpr(n, g) ==
  CASE n.k \in {"INT_LITERAL", "CHAR_LITERAL", "true", "false", "null"} ->
         Yield(g, Imm(LiteralValue(n), Bytes(g.tab, n.type)))
    [] n.k = "STRING_LITERAL" -> Yield(g, Str(n.x))
    [] n.k \in {"FLOAT_LITERAL", "Poison"} -> Fail(g)
    [] n.k = "IDENTIFIER" -> lower_identifier(n, g)
    [] n.k = "Grouped" -> Lower(n.c[1], g)
    [] n.k = "BinaryOp" -> IF n.c[2].k \in {"and", "or"} THEN lower_logical(n, g)
                           ELSE lower_binary(n, g)
    [] n.k = "Unary" -> lower_unary(n, g)
    [] n.k = "FieldAccess" -> lower_field_access(n, g)
    [] n.k = "ArrayIndex" -> Fetch(IndexAddr(n, g), n.type)
    [] n.k = "Assignment" -> lower_assignment(n, g)
    [] n.k = "ImplicitCast" -> handle_cast(n, n.c[1], g)
    [] n.k = "Cast" -> handle_cast(n, n.c[2], g)
    [] n.k = "SizeOf" -> Yield(g, Imm(Bytes(g.tab, n.c[1]), 8))
    [] n.k = "FunctionCall" -> lower_call(n, g)
    [] n.k \in {"New", "NewArray"} -> lower_new(n, g)
    [] n.k = "StructLiteral" -> lower_struct_literal(n, g)
    [] n.k = "EnumLiteral" -> lower_enum_literal(n, g)
Lower(n, g) ==
  IF g.stop # "" THEN g
  ELSE CASE n.k = "VarDecl" -> lower_var_decl(n, g)
         [] n.k \in {"Block", "ExpressionStatement"} -> LowerAll(n.c, g)
         [] n.k = "If" -> lower_if(n, g)
         [] n.k = "While" -> lower_while(n, g)
         [] n.k = "For" -> lower_for(n, g)
         [] n.k = "Break" -> lower_jump(g, 2)
         [] n.k = "Continue" -> lower_jump(g, 1)
         [] n.k = "Return" -> lower_return(n, g)
         [] n.k = "Read" -> lower_read(n, g)
         [] n.k = "Print" -> LowerPrint(n.c, 1, g)
         [] n.k = "Error" -> LowerPrint(n.c, 2, g)
         [] n.k = "Exit" -> lower_exit(n, g)
         [] n.k = "Free" -> lower_free(n, g)
         [] n.k = "Asm" -> Emit(g, "ASM_BLOCK", NoOperand, <<>>, 0)
         [] n.k = "Switch" -> lower_switch(n, g)
         [] n.k = "FunctionDecl" -> lower_function(n, g)
         [] n.k \in {"StructDecl", "OpaqueStruct", "EnumDecl"} -> g
         [] OTHER -> LowerExpr(n, g)

\* One round of the second loop of visit_all.
visit_all ==
  /\ lowered < Len(program) /\ generator.stop = ""
  /\ generator' = Lower(program[lowered + 1], generator)
  /\ lowered' = lowered + 1
===============================================================================
