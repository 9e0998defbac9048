-------------------------------- MODULE SymTab --------------------------------
(***************************************************************************)
(* The symbol table (parser/symtab.h, symtab.cpp) and the types it holds   *)
(* (parser/types.h, types.cpp).  A table is                                *)
(*   [cur |-> current scope, scopes |-> sequence of scopes]                *)
(* and scope id is the element id + 1 of the sequence.  A name is a        *)
(* sequence of strings: <<"x">>, <<"E", "::", "A">>, the words of          *)
(* "ptr<mut i32>".                                                         *)
(*                                                                         *)
(* A Type object is known by its kind, its name n and the scope s it is    *)
(* declared in: declare_type never gives two objects of a scope one name.  *)
(***************************************************************************)
EXTENDS Integers, Sequences, FiniteSetsExt, TLC

PTR_SIZE == 8

\* The primitive types and their sizes.
Primitives ==
  [u0 |-> PTR_SIZE, u8 |-> 1, u16 |-> 2, u32 |-> 4, u64 |-> 8, i8 |-> 1, i16 |-> 2,
   i32 |-> 4, i64 |-> 8, f64 |-> 8, bool |-> 1]

Named(n, s) == [k |-> "Named", n |-> n, s |-> s]
Enum(n, s) == [k |-> "Enum", n |-> n, s |-> s]
Basic(x) == Named(<<x>>, 0)
ErrorType == [k |-> "ErrorType", n |-> <<"<ErrorType>">>, s |-> 0]
NullType == [k |-> "null", n |-> <<>>, s |-> 0]      \* a null Type*

\* Type::to_string.
to_string(t) == IF t.k = "Enum" THEN <<"enum ">> \o t.n ELSE t.n

pointer_name(mut, to) ==
  <<"ptr<", IF mut THEN "mut " ELSE "imm ">> \o to_string(to) \o <<">">>
Pointer(mut, to, s) ==
  [k |-> "Pointer", n |-> pointer_name(mut, to), s |-> s, mut |-> mut, to |-> to]

\* params is a sequence of [type, mut].
function_name(params, ret) ==
  LET upto[i \in 0 .. Len(params)] ==
        IF i = 0 THEN <<"func(">>
        ELSE upto[i - 1] \o <<IF params[i].mut THEN "mut: " ELSE "imm: ">>
             \o to_string(params[i].type) \o <<", ">>
  IN  upto[Len(params)] \o <<")->">> \o to_string(ret)
Function(params, ret) ==
  [k |-> "Function", n |-> function_name(params, ret), s |-> 0, params |-> params, ret |-> ret]

\* The comparison of Type pointers, and operator== of the types they point to.
SameObject(a, b) == a.k = b.k /\ a.n = b.n /\ a.s = b.s
SameType(a, b) ==
  /\ a.k = b.k
  /\ \/ a.k \in {"Named", "Enum"} /\ a.n = b.n
     \/ a.k = "Pointer" /\ a.mut = b.mut /\ SameObject(a.to, b.to)
     \/ /\ a.k = "Function" /\ SameObject(a.ret, b.ret) /\ Len(a.params) = Len(b.params)
        /\ \A i \in DOMAIN a.params : /\ SameObject(a.params[i].type, b.params[i].type)
                                      /\ a.params[i].mut = b.params[i].mut
     \/ a.k = "ErrorType"

-------------------------------------------------------------------------------
\* class Scope: symbols by name, and the struct and enum declarations with the
\* sizes of their types.
EmptyMap == [n \in {} |-> NullType]
NewScope(parent) ==
  [parent |-> parent, symbols |-> EmptyMap, structs |-> EmptyMap, enums |-> EmptyMap]

TypeSymbol(t) == [k |-> "Type", type |-> t]
Variable(type, mut, s, span) ==
  [k |-> "Variable", type |-> type, mut |-> mut, s |-> s, span |-> span, ret |-> FALSE]
NoSymbol == [k |-> "none"]

GlobalScope ==
  [NewScope(0) EXCEPT !.symbols =
     [n \in {<<x>> : x \in DOMAIN Primitives} |-> TypeSymbol(Named(n, 0))]]
NewSymTab == [cur |-> 0, scopes |-> <<GlobalScope>>]

ScopeOf(tab, id) == tab.scopes[id + 1]

enter_scope(tab) ==
  [cur |-> Len(tab.scopes), scopes |-> Append(tab.scopes, NewScope(tab.cur))]
exit_scope(tab) ==
  IF tab.cur # 0 THEN [tab EXCEPT !.cur = ScopeOf(tab, tab.cur).parent] ELSE tab

\* The scopes a lookup visits.  A parent has a smaller id than its children, so
\* the first scope with the name is the one with the greatest id.
Visible(tab, start) ==
  LET chain[id \in 0 .. start] ==
        IF id = 0 THEN {0} ELSE {id} \cup chain[ScopeOf(tab, id).parent]
  IN  chain[start]
FirstWith(tab, start, map, name) ==
  Max({-1} \cup {id \in Visible(tab, start) : name \in DOMAIN ScopeOf(tab, id)[map]})

\* The symbols of the current scope and of those around it, outermost first.
OpenScopes(tab) ==
  LET chain[id \in 0 .. tab.cur] ==
        IF id = 0 THEN <<ScopeOf(tab, 0).symbols>>
        ELSE Append(chain[ScopeOf(tab, id).parent], ScopeOf(tab, id).symbols)
  IN  chain[tab.cur]

\* lookup<Variable> and lookup<Type> stop at the first symbol of that name, and
\* give nothing when it is of the other kind.
SymbolIn(tab, id, kind, name) ==
  IF id # -1 /\ ScopeOf(tab, id).symbols[name].k = kind THEN ScopeOf(tab, id).symbols[name]
  ELSE NoSymbol
lookup(tab, kind, name, start) ==
  SymbolIn(tab, FirstWith(tab, start, "symbols", name), kind, name)
lookup_type(tab, name, start) ==
  LET symbol == lookup(tab, "Type", name, start)
  IN  IF symbol = NoSymbol THEN NullType ELSE symbol.type

has_struct(tab, name, start) == FirstWith(tab, start, "structs", name) # -1
has_enum(tab, name, start) == FirstWith(tab, start, "enums", name) # -1
lookup_struct(tab, name, start) ==
  ScopeOf(tab, FirstWith(tab, start, "structs", name)).structs[name]
lookup_enum(tab, name, start) ==
  ScopeOf(tab, FirstWith(tab, start, "enums", name)).enums[name]

-------------------------------------------------------------------------------
Declared(tab, name, id) == name \in DOMAIN ScopeOf(tab, id).symbols

\* Mutant: the newest declaration of a name replaces the older ones.
insert_overwrites(tab, map, name, value, id) ==
  [tab EXCEPT !.scopes[id + 1][map] = (name :> value) @@ @]

\* unordered_map::insert leaves an existing entry alone.
insert(tab, map, name, value, id) ==
  IF name \in DOMAIN ScopeOf(tab, id)[map] THEN tab
  ELSE [tab EXCEPT !.scopes[id + 1][map] = (name :> value) @@ @]

declare(tab, name, symbol, id) == insert(tab, "symbols", name, symbol, id)
declare_type(tab, t) == declare(tab, t.n, TypeSymbol(t), t.s)
declare_struct(tab, name, decl, id) == insert(tab, "structs", name, decl, id)
declare_enum(tab, name, decl, id) == insert(tab, "enums", name, decl, id)

\* The type of that name that lookup finds from scope start, else t itself.
Canonical(tab, t, start) ==
  LET found == lookup_type(tab, t.n, start) IN IF found = NullType THEN t ELSE found
===============================================================================
