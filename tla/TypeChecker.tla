----------------------------- MODULE TypeChecker ------------------------------
(***************************************************************************)
(* The type checker (checker/typechecker.cpp).  A visitor takes a node of  *)
(* the parser's tree and the checker's context and gives the node with its *)
(* type, implicit casts inserted, and the context after it.  The context c *)
(* holds the symbol table and the errors, the members                      *)
(* m_current_function_return_type (ret), m_in_loop (loop),                 *)
(* m_current_switch_expr_type (sw) and m_defined_functions (defined), and  *)
(* stop: "assert" once an internal assertion threw, "crash" once a null    *)
(* pointer was dereferenced.  Warnings are left out.                       *)
(***************************************************************************)
EXTENDS SymTab, Lexer

VARIABLES
  program,      \* the top-level nodes; those before next have their types
  next,         \* the next node of check_program's loop
  checker       \* the context

Context(tab) ==
  [tab |-> tab, errs |-> {}, ret |-> NullType, loop |-> FALSE, sw |-> NullType,
   defined |-> {}, stop |-> ""]
Report(c, kind, n) == [c EXCEPT !.errs = @ \cup {[k |-> kind, at |-> n.span]}]
Stop(c, how) == [c EXCEPT !.stop = how]

Typed(n, t) == [k |-> n.k, x |-> n.x, s |-> n.s, span |-> n.span, c |-> n.c, type |-> t]
WithParts(n, c) == [n EXCEPT !.c = c]
IsError(n) == n.type.k \in {"ErrorType", "null"}

\* What a visitor gives: a type, an error of its own, or the ErrorType of a part.
Ok(n, t, c) == [n |-> Typed(n, t), c |-> c]
Bad(n, kind, c) == [n |-> Typed(n, ErrorType), c |-> Report(c, kind, n)]
Poisoned(n, c) == [n |-> Typed(n, ErrorType), c |-> c]

-------------------------------------------------------------------------------
Integer == {<<x>> : x \in {"i8", "i16", "i32", "i64", "u8", "u16", "u32", "u64"}}
is_integer_type(t) == t.k = "Named" /\ t.n \in Integer
is_numeric_type(t) == is_integer_type(t) \/ (t.k = "Named" /\ t.n = <<"f64">>)
is_primitive_type(t) == is_numeric_type(t) \/ (t.k = "Named" /\ t.n = <<"bool">>)
is_pointer_like(t) == t.k = "Pointer"
IsStruct(tab, t) == t.k = "Named" /\ t.n \in DOMAIN ScopeOf(tab, t.s).structs

\* get_byte_size, get_alignment, is_aggregate and is_complete of a type.
Layout(tab, t) ==
  CASE IsStruct(tab, t) -> ScopeOf(tab, t.s).structs[t.n]
    [] t.k = "Enum" -> ScopeOf(tab, t.s).enums[t.n]
    [] t.k = "Named" /\ ~IsStruct(tab, t) ->
         [bytes |-> Primitives[t.n[1]], align |-> Primitives[t.n[1]]]
    [] OTHER -> [bytes |-> PTR_SIZE, align |-> PTR_SIZE]
Bytes(tab, t) == Layout(tab, t).bytes
is_aggregate(tab, t) == t.k = "Enum" \/ IsStruct(tab, t)
is_complete(tab, t) == IsStruct(tab, t) => Layout(tab, t).complete

Assignable(target, value) ==
  \/ target.k = "ErrorType" \/ value.k = "ErrorType"
  \/ SameType(target, value)
  \/ is_numeric_type(target) /\ is_numeric_type(value)
  \/ is_pointer_like(target) /\ value = Basic("u0")
  \/ /\ is_pointer_like(target) /\ is_pointer_like(value)
     /\ SameType(target.to, value.to) /\ (target.mut => value.mut)

\* Mutant: integers of any two sizes are taken as they are.
try_apply_implicit_cast_none(n, target, tab) == n

\* Only integers of different sizes are cast.
try_apply_implicit_cast(n, target, tab) ==
  IF /\ is_integer_type(n.type) /\ is_integer_type(target)
     /\ Bytes(tab, n.type) # Bytes(tab, target)
  THEN [Typed(n, target) EXCEPT !.k = "ImplicitCast", !.c = <<n>>]
  ELSE n

\* The pointer type that lookup finds from a scope, declared there if need be.
PointerIn(c, mut, to, scope) == Canonical(c.tab, Pointer(mut, to, scope), scope)
WithType(c, t) == [c EXCEPT !.tab = declare_type(@, t)]

\* Mutant: whatever has an address can be assigned.
get_lvalue_type_if_mutable_any(n, tab) ==
  IF n.k \in {"IDENTIFIER", "Unary", "FieldAccess", "ArrayIndex"} THEN n.type ELSE NullType

\* The type of a mutable l-value, else null.  n and its parts have their types.
RECURSIVE get_lvalue_type_if_mutable(_, _)
get_lvalue_type_if_mutable(n, tab) ==
  CASE n.k = "Grouped" -> get_lvalue_type_if_mutable(n.c[1], tab)
    [] n.k = "IDENTIFIER" ->
         LET v == lookup(tab, "Variable", <<n.x>>, n.s)
         IN  IF v # NoSymbol /\ (v.mut \/ v.ret) THEN v.type ELSE NullType
    [] n.k = "Unary" /\ n.c[1].k = "*" ->
         LET t == n.c[3].type IN IF is_pointer_like(t) /\ t.mut THEN t.to ELSE NullType
    [] n.k = "FieldAccess" ->
         LET object == n.c[1].type
         IN  IF IF is_pointer_like(object) THEN object.mut
                ELSE get_lvalue_type_if_mutable(n.c[1], tab) # NullType
             THEN n.type ELSE NullType
    [] n.k = "ArrayIndex" /\ is_pointer_like(n.c[1].type) /\ n.c[1].type.mut -> n.type
    [] OTHER -> NullType

-------------------------------------------------------------------------------
\* The expressions, once their parts are visited.
LiteralType ==
  [INT_LITERAL |-> "i64", FLOAT_LITERAL |-> "f64", CHAR_LITERAL |-> "u8", true |-> "bool",
   false |-> "bool", null |-> "u0"]
visit_string(n, c) ==
  LET t == PointerIn(c, FALSE, Basic("u8"), 0) IN Ok(n, t, WithType(c, t))

visit_identifier(n, c) ==
  LET v == lookup(c.tab, "Variable", <<n.x>>, n.s)
  IN  CASE v = NoSymbol -> Bad(n, "not found", c)
        [] v # NoSymbol /\ v.type.k # "Function" /\ After(v.span, n.span) ->
             Bad(n, "used before its declaration", c)
        [] v # NoSymbol /\ (v.type.k = "Function" \/ ~After(v.span, n.span)) ->
             IF v.type = NullType THEN Bad(n, "no type", c) ELSE Ok(n, v.type, c)

visit_assignment(n, c) ==
  LET l == n.c[1]  r == n.c[2]
  IN  CASE IsError(l) \/ IsError(r) -> Poisoned(n, c)
        [] ~(IsError(l) \/ IsError(r)) /\ get_lvalue_type_if_mutable(l, c.tab) = NullType ->
             Bad(n, "not assignable", c)
        [] OTHER ->
             IF Assignable(l.type, r.type)
             THEN Ok(WithParts(n, <<l, try_apply_implicit_cast(r, l.type, c.tab)>>), l.type, c)
             ELSE Bad(n, "mismatch", c)

visit_cast(n, c) ==
  LET to == n.c[1]  from == n.c[2].type
      either(t) == is_integer_type(t) \/ is_pointer_like(t)
  IN  CASE IsError(n.c[2]) -> Poisoned(n, c)
        [] ~IsError(n.c[2]) /\ (\/ is_numeric_type(from) /\ is_numeric_type(to)
                                \/ either(from) /\ either(to)) -> Ok(n, to, c)
        [] OTHER -> Bad(n, "cast", c)

visit_sizeof(n, c) ==
  IF is_complete(c.tab, n.c[1]) THEN Ok(n, Basic("i64"), c) ELSE Bad(n, "incomplete", c)

Arithmetic == {"*", "/"}
Comparison == {"<", "<=", ">", ">="}
BitOps == {"&", "|", "^", "<<", ">>"}
\* The type of l op r; resolved is the type both are unified to, null if they are not.
BinaryType(op, l, r, resolved) ==
  LET isInt == is_integer_type(l) /\ is_integer_type(r)
      bool == Basic("bool")
  IN  CASE op \in {"+", "-"} \cup Arithmetic /\ resolved # NullType -> resolved
        [] op \in {"+", "-"} /\ is_pointer_like(l) /\ is_integer_type(r) -> l
        [] op = "+" /\ is_integer_type(l) /\ is_pointer_like(r) -> r
        [] op = "-" /\ is_pointer_like(l) /\ is_pointer_like(r) /\ SameType(l, r) ->
             Basic("i64")
        [] op \in {"%"} \cup BitOps /\ isInt -> resolved
        [] op \in {"==", "!="} /\ (\/ SameType(l, r) \/ resolved # NullType
                                   \/ is_pointer_like(l) /\ r = Basic("u0")
                                   \/ l = Basic("u0") /\ is_pointer_like(r)) -> bool
        [] op \in Comparison /\ (\/ resolved # NullType
                                 \/ is_pointer_like(l) /\ SameType(l, r)) -> bool
        [] op \in {"and", "or"} /\ l = bool /\ r = bool -> bool
        [] OTHER -> NullType

visit_binary(n, c) ==
  LET l == n.c[1]  r == n.c[3]  op == n.c[2].k
      isInt == is_integer_type(l.type) /\ is_integer_type(r.type)
      isFloat == l.type = Basic("f64") /\ r.type = Basic("f64")
      mixed == is_numeric_type(l.type) /\ is_numeric_type(r.type) /\ ~isInt /\ ~isFloat
      resolved == CASE isInt -> IF Bytes(c.tab, l.type) >= Bytes(c.tab, r.type)
                                THEN l.type ELSE r.type
                    [] isFloat -> l.type
                    [] OTHER -> NullType
      t == BinaryType(op, l.type, r.type, resolved)
      context == IF op \in BitOps /\ ~isInt THEN Report(c, "bitwise", n) ELSE c
      target == IF isInt THEN resolved ELSE Basic("i64")
      cast(part) == IF isInt \/ op \in {"+", "-"}
                    THEN try_apply_implicit_cast(part, target, c.tab) ELSE part
  IN  CASE IsError(l) \/ IsError(r) -> Poisoned(n, c)
        [] ~(IsError(l) \/ IsError(r)) /\ mixed -> Bad(n, "float", c)
        [] OTHER -> IF t = NullType THEN Bad(n, "mismatch", context)
                    ELSE Ok(WithParts(n, <<cast(l), n.c[2], cast(r)>>), t, c)

visit_unary(n, c) ==
  LET part == n.c[3]  op == n.c[1].k  mut == n.c[2].k = "mut"
      pointer == PointerIn(c, mut, part.type, n.s)
  IN  CASE IsError(part) -> Poisoned(n, c)
        [] ~IsError(part) /\ op = "-" /\ is_numeric_type(part.type) -> Ok(n, part.type, c)
        [] ~IsError(part) /\ op = "!" /\ part.type = Basic("bool") -> Ok(n, part.type, c)
        [] ~IsError(part) /\ op = "*" /\ is_pointer_like(part.type) -> Ok(n, part.type.to, c)
        [] ~IsError(part) /\ op = "&"
           /\ (mut => get_lvalue_type_if_mutable(part, c.tab) # NullType) ->
             Ok(n, pointer, WithType(c, pointer))
        [] OTHER -> Bad(n, "operand", c)

FieldNamed(tab, t, x) ==
  LET fields == Layout(tab, t).fields
      places == {i \in DOMAIN fields : fields[i].n = x}
  IN  IF places = {} THEN 0 ELSE Min(places)
visit_field_access(n, c) ==
  LET object == n.c[1]
      base == IF is_pointer_like(object.type) THEN object.type.to ELSE object.type
      x == n.c[2].x
  IN  CASE IsError(object) -> Poisoned(n, c)
        [] ~IsError(object) /\ base.k = "Enum" ->
             IF x = "tag" THEN Ok(n, Basic("u32"), c) ELSE Bad(n, "tag", c)
        [] ~IsError(object) /\ base.k \notin {"Enum", "Named"} -> Bad(n, "struct", c)
        [] ~IsError(object) /\ base.k = "Named" /\ ~IsStruct(c.tab, base) ->
             Poisoned(n, Stop(c, "assert"))
        [] OTHER -> IF FieldNamed(c.tab, base, x) = 0 THEN Bad(n, "field", c)
                    ELSE Ok(n, Layout(c.tab, base).fields[FieldNamed(c.tab, base, x)].t, c)

visit_array_index(n, c) ==
  LET object == n.c[1]  index == n.c[2]
  IN  CASE IsError(object) \/ IsError(index) -> Poisoned(n, c)
        [] ~(IsError(object) \/ IsError(index))
           /\ is_pointer_like(object.type) /\ is_integer_type(index.type) ->
             Ok(WithParts(n, <<object, try_apply_implicit_cast(index, Basic("i64"), c.tab)>>),
                object.type.to, c)
        [] OTHER -> Bad(n, "index", c)

\* The initializers of a struct literal, each with its value visited: the first of
\* each name counts, and a field may be left out.
visit_struct_literal(n, c) ==
  LET t == Named(<<n.c[1].x>>, 0)
      inits == Tail(n.c)
      field(i) == FieldNamed(c.tab, t, inits[i].c[1].x)
      fieldType(i) == Layout(c.tab, t).fields[field(i)].t
      good(i) == ~IsError(inits[i].c[2])
      duplicate(i) == good(i) /\ \E j \in 1 .. i - 1 : good(j) /\ inits[j].c[1].x = inits[i].c[1].x
      fits(i) == field(i) # 0 /\ Assignable(fieldType(i), inits[i].c[2].type)
      wrong == {i \in DOMAIN inits : good(i) /\ (duplicate(i) \/ ~fits(i))}
      cast(i) == IF ~good(i) \/ ~fits(i) THEN inits[i]
                 ELSE WithParts(inits[i], <<inits[i].c[1],
                        try_apply_implicit_cast(inits[i].c[2], fieldType(i), c.tab)>>)
      literal == WithParts(n, <<n.c[1]>> \o [i \in DOMAIN inits |-> cast(i)])
  IN  CASE wrong # {} -> Bad(literal, "initializer", c)
        [] wrong = {} /\ \E i \in DOMAIN inits : ~good(i) -> Poisoned(literal, c)
        [] OTHER -> Ok(literal, t, c)

VariantNamed(decl, x) ==
  LET places == {i \in DOMAIN decl.variants : decl.variants[i].n = x}
  IN  IF places = {} THEN 0 ELSE Min(places)

-------------------------------------------------------------------------------
\* The parts of an expression that its visitor visits first, in this order.
Visited(n) ==
  CASE n.k \in {"Grouped", "FieldAccess"} -> <<1>>
    [] n.k \in {"Assignment", "ArrayIndex"} -> <<1, 2>>
    [] n.k \in {"Cast", "Initializer"} -> <<2>>
    [] n.k = "BinaryOp" -> <<1, 3>>
    [] n.k = "Unary" -> <<3>>
    [] n.k = "StructLiteral" -> [i \in 1 .. Len(n.c) - 1 |-> i + 1]
    [] OTHER -> <<>>

RECURSIVE Visit(_, _), VisitParts(_, _, _), VisitArguments(_, _, _)

\* The parts of n at places, one after the other.
VisitParts(n, places, c) ==
  IF places = <<>> \/ c.stop # "" THEN [n |-> n, c |-> c]
  ELSE LET r == Visit(n.c[places[1]], c)
       IN  VisitParts([n EXCEPT !.c[places[1]] = r.n], Tail(places), r.c)

\* The arguments from the i-th on, up to the first that is wrong.
VisitArguments(n, i, c) ==
  LET type == n.c[1].type
      r == Visit(n.c[i + 1], c)
      param == type.params[i]
      call == [n EXCEPT !.c[i + 1] = IF param.mut THEN r.n
                                     ELSE try_apply_implicit_cast(r.n, param.type, r.c.tab)]
  IN  CASE i > Len(type.params) -> Ok(n, type.ret, c)
        [] i <= Len(type.params) /\ IsError(r.n) -> Poisoned([n EXCEPT !.c[i + 1] = r.n], r.c)
        [] OTHER ->
             IF IF param.mut THEN SameType(param.type, r.n.type)
                ELSE Assignable(param.type, r.n.type)
             THEN VisitArguments(call, i + 1, r.c)
             ELSE Bad(call, "argument", r.c)
visit_call(n, c) ==
  LET v == VisitParts(n, <<1>>, c)
      callee == v.n.c[1].type
  IN  CASE v.c.stop # "" \/ IsError(v.n.c[1]) -> Poisoned(v.n, v.c)
        [] v.c.stop = "" /\ callee.k = "Function" /\ Len(callee.params) = Len(n.c) - 1 ->
             VisitArguments(v.n, 1, v.c)
        [] OTHER -> Bad(v.n, "call", v.c)

\* The values of an enum literal are visited, not compared with the fields.
visit_enum_literal(n, c) ==
  LET decl == ScopeOf(c.tab, 0).enums[<<n.c[1].x>>]
      v == VisitParts(n, [i \in 1 .. Len(n.c) - 2 |-> i + 2], c)
  IN  CASE ~decl.made -> Poisoned(n, c)
        [] decl.made /\ VariantNamed(decl, n.c[2].x) = 0 -> Bad(n, "variant", c)
        [] OTHER -> Ok(v.n, Enum(<<n.c[1].x>>, 0), v.c)

visit_new(n, c) ==
  LET to == n.c[2]
      pointer == PointerIn(c, n.c[1].k = "mut", to, n.s)
      v == VisitParts(n, <<3>>, WithType(c, pointer))
      spec == v.n.c[3]
  IN  CASE is_aggregate(c.tab, to) /\ ~is_complete(c.tab, to) -> Bad(n, "incomplete", c)
        [] to.k = "Function" -> Bad(n, "allocation", c)
        [] to.k # "Function" /\ is_complete(c.tab, to) /\ n.c[3].k = "None" ->
             IF is_primitive_type(to) THEN Bad(n, "default", c)
             ELSE Ok(n, pointer, WithType(c, pointer))
        [] OTHER ->
             CASE v.c.stop # "" \/ IsError(spec) -> Poisoned(v.n, v.c)
               [] v.c.stop = "" /\ ~IsError(spec) /\ n.k = "NewArray" ->
                    IF is_integer_type(spec.type) THEN Ok(v.n, pointer, v.c)
                    ELSE Bad(v.n, "size", v.c)
               [] OTHER ->
                    IF Assignable(to, spec.type)
                    THEN Ok([v.n EXCEPT !.c[3] = try_apply_implicit_cast(spec, to, v.c.tab)],
                            pointer, v.c)
                    ELSE Bad(v.n, "mismatch", v.c)

-------------------------------------------------------------------------------
\* Statements.
Present(n, places) == SelectSeq(places, LAMBDA i : n.c[i].k # "None")
Done(v) == Ok(v.n, NullType, v.c)
ErrorIf(condition, kind, v) == IF condition THEN [v EXCEPT !.c = Report(@, kind, v.n)] ELSE v
CastPart(v, i, target) ==
  [v EXCEPT !.n.c[i] = try_apply_implicit_cast(@, target, v.c.tab)]

SetVariableType(tab, name, start, t) ==
  [tab EXCEPT !.scopes[FirstWith(tab, start, "symbols", name) + 1].symbols[name].type = t]
visit_var_decl(n, c) ==
  LET v == VisitParts(n, Present(n, <<4>>), c)
      name == <<n.c[2].x>>
      declared == n.c[3]
      init == v.n.c[4]
      incomplete == /\ declared.k # "None" /\ is_aggregate(v.c.tab, declared)
                    /\ ~is_complete(v.c.tab, declared)
      with(w, t) == [n |-> Typed([w.n EXCEPT !.c[3] = t], t),
                     c |-> [w.c EXCEPT !.tab = SetVariableType(@, name, n.s, t)]]
      good == init.k # "None" /\ ~IsError(init)
  IN  CASE v.c.stop # "" -> Done(v)
        [] v.c.stop = "" /\ incomplete -> with(ErrorIf(TRUE, "incomplete", v), ErrorType)
        [] v.c.stop = "" /\ ~incomplete /\ declared.k = "None" ->
             with(v, IF good THEN init.type ELSE ErrorType)
        [] OTHER ->
             IF good /\ Assignable(declared, init.type)
             THEN with(CastPart(v, 4, declared), declared)
             ELSE with(ErrorIf(good, "mismatch", v), declared)

expect_boolean(part, c) ==
  IF c.stop # "" \/ IsError(part) \/ part.type = Basic("bool") THEN c
  ELSE Report(c, "boolean", part)
visit_if(n, c) ==
  LET v == VisitParts(n, <<1>>, c)
  IN  Done(VisitParts(v.n, Present(n, <<2, 3>>), expect_boolean(v.n.c[1], v.c)))

VisitBody(n, place, c) ==
  LET v == VisitParts(n, <<place>>, [c EXCEPT !.loop = TRUE])
  IN  Done([v EXCEPT !.c.loop = c.loop])
visit_while(n, c) ==
  LET v == VisitParts(n, <<1>>, c) IN VisitBody(v.n, 2, expect_boolean(v.n.c[1], v.c))
visit_for(n, c) ==
  LET v == VisitParts(n, Present(n, <<1, 2>>), c)
      checked == IF n.c[2].k = "None" THEN v.c ELSE expect_boolean(v.n.c[2], v.c)
      w == VisitParts(v.n, Present(n, <<3>>), checked)
  IN  VisitBody(w.n, 4, w.c)

visit_return(n, c) ==
  LET v == VisitParts(n, Present(n, <<1>>), c)
      void == c.ret = Basic("u0")
  IN  CASE c.ret = NullType -> Done(ErrorIf(TRUE, "outside", [n |-> n, c |-> c]))
        [] c.ret # NullType /\ n.c[1].k = "None" -> Done(ErrorIf(~void, "value", v))
        [] OTHER ->
             IF v.c.stop # "" \/ IsError(v.n.c[1]) THEN Done(v)
             ELSE IF ~void /\ Assignable(c.ret, v.n.c[1].type)
                  THEN Done(CastPart(v, 1, c.ret)) ELSE Done(ErrorIf(TRUE, "value", v))

visit_read(n, c) ==
  LET v == VisitParts(n, <<1>>, c)
      part == v.n.c[1]
  IN  Done(ErrorIf(/\ v.c.stop = "" /\ ~IsError(part)
                   /\ \/ get_lvalue_type_if_mutable(part, v.c.tab) = NullType
                      \/ ~is_integer_type(part.type), "read", v))
visit_free(n, c) ==
  LET v == VisitParts(n, <<1>>, c)
  IN  Done(ErrorIf(~IsError(v.n.c[1]) /\ ~is_pointer_like(v.n.c[1].type), "free", v))
visit_exit(n, c) ==
  LET v == VisitParts(n, Present(n, <<1>>), c)
  IN  CASE n.c[1].k = "None" \/ v.c.stop # "" -> Done(v)
        [] OTHER -> IF IsError(v.n.c[1]) THEN Done(v)
                    ELSE IF Assignable(Basic("u8"), v.n.c[1].type)
                         THEN Done(CastPart(v, 1, Basic("u8"))) ELSE Done(ErrorIf(TRUE, "exit", v))

visit_switch(n, c) ==
  LET v == VisitParts(n, <<1>>, c)
      t == v.n.c[1].type
      complex == t.k = "Function" \/ t = Basic("f64")
      sw == IF IsError(v.n.c[1]) \/ complex THEN ErrorType ELSE t
      w == VisitParts(v.n, [i \in 1 .. Len(n.c) - 1 |-> i + 1],
                      [ErrorIf(complex, "switch", v).c EXCEPT !.sw = sw])
      defaults == {i \in DOMAIN n.c : n.c[i].k = "CaseDefault"}
  IN  Done(ErrorIf(Cardinality(defaults) > 1, "defaults", [w EXCEPT !.c.sw = c.sw]))

\* An enum case that does not fit is not visited further.  The payload variable goes
\* into the scope of the block's node: the scope around the block.
visit_case_enum(n, c) ==
  LET decl == Layout(c.tab, c.sw)
      i == VariantNamed(decl, n.c[2].x)
      payload == Variable(Named(c.sw.n \o <<"::", n.c[2].x>>, 0), TRUE, n.c[4].s, n.c[3].span)
      bound == CASE n.c[3].k = "None" -> c
                 [] n.c[3].k # "None" /\ ~decl.variants[i].payload -> Report(c, "payload", n)
                 [] OTHER -> [c EXCEPT !.tab = declare(@, <<n.c[3].x>>, payload, n.c[4].s)]
  IN  CASE c.sw.k # "Enum" -> Done(ErrorIf(TRUE, "case", [n |-> n, c |-> c]))
        [] c.sw.k = "Enum" /\ i = 0 -> Done(ErrorIf(TRUE, "variant", [n |-> n, c |-> c]))
        [] OTHER -> Done(VisitParts(n, <<4>>, bound))
visit_case_value(n, c) ==
  LET v == VisitParts(n, <<1>>, c)
      compared == v.c.stop = "" /\ c.sw.k # "ErrorType" /\ ~IsError(v.n.c[1])
      w == IF compared /\ Assignable(c.sw, v.n.c[1].type) THEN CastPart(v, 1, c.sw)
           ELSE ErrorIf(compared, "mismatch", v)
  IN  Done(VisitParts(w.n, <<2>>, w.c))

-------------------------------------------------------------------------------
\* Declarations.
visit_function(n, c) ==
  LET name == n.c[2].x
      body == n.c[5].k # "None"
      entered == [c EXCEPT !.ret = IF n.c[4].k = "None" THEN Basic("u0") ELSE n.c[4].c[3],
                           !.defined = IF body THEN @ \cup {name} ELSE @]
      v == VisitParts(n, Present(n, <<5>>),
                      ErrorIf(body /\ name \in c.defined, "defined", [n |-> n, c |-> entered]).c)
  IN  Done([v EXCEPT !.c.ret = c.ret])


\* The next multiple of the alignment.
AlignUp(x, align) == x + ((align - (x % align)) % align)

\* Offsets, size and alignment of fields; those of ErrorType take no room.
Placed(tab, fields) ==
  LET l(i) == Layout(tab, fields[i].t)
      real == {i \in DOMAIN fields : fields[i].t.k # "ErrorType"}
      end[i \in 0 .. Len(fields)] ==
        CASE i = 0 -> 0 [] i > 0 /\ i \notin real -> end[i - 1]
          [] OTHER -> AlignUp(end[i - 1], l(i).align) + l(i).bytes
      align == Max({1} \cup {l(i).align : i \in real})
  IN  [fields |-> [i \in DOMAIN fields |->
                     IF i \in real THEN [fields[i] EXCEPT !.off = AlignUp(end[i - 1], l(i).align)]
                     ELSE fields[i]],
       bytes |-> AlignUp(end[Len(fields)], align), align |-> align]
SetStruct(tab, name, placed) ==
  [tab EXCEPT !.scopes[1].structs[name] =
     [@ EXCEPT !.fields = placed.fields, !.bytes = placed.bytes, !.align = placed.align]]

visit_struct(n, c) ==
  LET name == <<n.c[1].x>>
      fields == Layout(c.tab, Named(name, 0)).fields
      lacking == {i \in DOMAIN fields : ~is_complete(c.tab, fields[i].t)}
      typed == [i \in DOMAIN fields |->
                  IF i \in lacking THEN [fields[i] EXCEPT !.t = ErrorType] ELSE fields[i]]
      v == ErrorIf(lacking # {}, "incomplete", [n |-> n, c |-> c])
  IN  Done([v EXCEPT !.c.tab = SetStruct(@, name, Placed(@, typed))])

\* An opaque declaration is visited as a struct without fields: the type it names gets
\* size 0.  The type is null where a variable has the name.
visit_opaque_struct(n, c) ==
  LET name == <<n.c[1].x>>
      t == lookup_type(c.tab, name, 0)
      tab == CASE t.k = "Enum" -> [c.tab EXCEPT !.scopes[1].enums[name].bytes = 0,
                                               !.scopes[1].enums[name].align = 1]
               [] OTHER -> [c.tab EXCEPT !.scopes[1].structs[name].bytes = 0,
                                        !.scopes[1].structs[name].align = 1]
  IN  IF t = NullType THEN Poisoned(n, Stop(c, "crash"))
      ELSE Done([n |-> n, c |-> [c EXCEPT !.tab = tab]])

TagBytes == 4
RECURSIVE PlacePayloads(_, _, _)
PlacePayloads(tab, name, variants) ==
  LET payload == name \o <<"::", variants[1].n>>
      placed == Placed(tab, tab.scopes[1].structs[payload].fields)
  IN  CASE variants = <<>> -> tab
        [] variants # <<>> /\ ~variants[1].payload -> PlacePayloads(tab, name, Tail(variants))
        [] OTHER -> PlacePayloads(SetStruct(tab, payload, placed), name, Tail(variants))
visit_enum(n, c) ==
  LET name == <<n.c[1].x>>
      variants == c.tab.scopes[1].enums[name].variants
      tab == PlacePayloads(c.tab, name, variants)
      payloads == {tab.scopes[1].structs[name \o <<"::", variants[i].n>>] :
                     i \in {j \in DOMAIN variants : variants[j].payload}}
      start == Max({1} \cup {p.align : p \in payloads})
      align == Max({TagBytes, start})
      bytes == AlignUp(AlignUp(TagBytes, start) + Max({0} \cup {p.bytes : p \in payloads}), align)
      repeated == \E i, j \in DOMAIN variants : i < j /\ variants[i].tag = variants[j].tag
  IN  Done(ErrorIf(repeated, "tag",
             [n |-> n, c |-> [c EXCEPT !.tab = [tab EXCEPT !.scopes[1].enums[name].bytes = bytes,
                                                          !.scopes[1].enums[name].align = align]]]))

-------------------------------------------------------------------------------
VisitExpr(n, c) ==
  CASE n.k \in DOMAIN LiteralType -> Ok(n, Basic(LiteralType[n.k]), c)
    [] n.k = "STRING_LITERAL" -> visit_string(n, c)
    [] n.k = "IDENTIFIER" -> visit_identifier(n, c)
    [] n.k = "Grouped" -> Ok(n, n.c[1].type, c)
    [] n.k = "Assignment" -> visit_assignment(n, c)
    [] n.k = "Cast" -> visit_cast(n, c)
    [] n.k = "SizeOf" -> visit_sizeof(n, c)
    [] n.k = "BinaryOp" -> visit_binary(n, c)
    [] n.k = "Unary" -> visit_unary(n, c)
    [] n.k = "FieldAccess" -> visit_field_access(n, c)
    [] n.k = "ArrayIndex" -> visit_array_index(n, c)
    [] n.k = "Initializer" -> Done([n |-> n, c |-> c])
    [] n.k = "StructLiteral" -> visit_struct_literal(n, c)
All(n) == [i \in DOMAIN n.c |-> i]
Visit(n, c) ==
  IF c.stop # "" THEN Poisoned(n, c)
  ELSE CASE n.k = "FunctionCall" -> visit_call(n, c)
         [] n.k = "EnumLiteral" -> visit_enum_literal(n, c)
         [] n.k \in {"New", "NewArray"} -> visit_new(n, c)
         [] n.k = "VarDecl" -> visit_var_decl(n, c)
         [] n.k \in {"Block", "ExpressionStatement", "Print", "Error",
                          "CaseDefault"} ->
              Done(VisitParts(n, All(n), c))
         [] n.k \in {"Asm", "Poison"} -> Done([n |-> n, c |-> c])
         [] n.k = "If" -> visit_if(n, c)
         [] n.k = "While" -> visit_while(n, c)
         [] n.k = "For" -> visit_for(n, c)
         [] n.k \in {"Break", "Continue"} ->
              Done(ErrorIf(~c.loop, "loop", [n |-> n, c |-> c]))
         [] n.k = "Return" -> visit_return(n, c)
         [] n.k = "Read" -> visit_read(n, c)
         [] n.k = "Free" -> visit_free(n, c)
         [] n.k = "Exit" -> visit_exit(n, c)
         [] n.k = "Switch" -> visit_switch(n, c)
         [] n.k = "CaseEnum" -> visit_case_enum(n, c)
         [] n.k = "CaseValue" -> visit_case_value(n, c)
         [] n.k = "FunctionDecl" -> visit_function(n, c)
         [] n.k = "StructDecl" -> visit_struct(n, c)
         [] n.k = "OpaqueStruct" -> visit_opaque_struct(n, c)
         [] n.k = "EnumDecl" -> visit_enum(n, c)
         [] OTHER -> LET v == VisitParts(n, Visited(n), c)
                     IN  IF v.c.stop # "" THEN Poisoned(v.n, v.c) ELSE VisitExpr(v.n, v.c)

\* One round of the loop of check_program.
check_program ==
  /\ next <= Len(program) /\ checker.stop = ""
  /\ LET v == Visit(program[next], checker)
     IN  program' = [program EXCEPT ![next] = v.n] /\ checker' = v.c
  /\ next' = next + 1
===============================================================================
