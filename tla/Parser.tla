-------------------------------- MODULE Parser --------------------------------
(***************************************************************************)
(* The recursive-descent parser with its panic-mode recovery               *)
(* (parser/parser.cpp), declaring into the symbol table as it goes.        *)
(*                                                                         *)
(* The call stack of the C++ code is cut at its try blocks: a frame is one *)
(* active try block with the work left to do in it.  Work is a sequence of *)
(* items: consume a token, call a parse function, build a node from the    *)
(* values pushed since.  A parse function is an operator that gives the    *)
(* items of its body, chosen by the same lookahead as the code.  A         *)
(* ParsePanic is caught by the innermost frame.                            *)
(***************************************************************************)
EXTENDS SymTab, Lexer

CONSTANT Inputs         \* the token sequences to parse

VARIABLES
  tokens,       \* the argument of parse_program
  m_tokens,     \* the copy of them that consume_rangle rewrites
  m_pos,        \* the current token
  frames,       \* active try blocks, innermost last
  values,       \* nodes, types and identifiers that are parts of unfinished nodes
  symtab,
  errors,       \* what the logger got, in order: kind, and where the parser was
  mode          \* run; panic: a ParsePanic is in flight; crash: undefined behaviour

vars == <<tokens, m_tokens, m_pos, frames, values, symtab, errors, mode>>

ASSUME InputsAssumption ==
  \A input \in Inputs :
    /\ input \in Seq(Tokens) /\ Len(input) > 0
    /\ \A i \in 1 .. Len(input) : input[i].t = "EOF" <=> i = Len(input)

-------------------------------------------------------------------------------
\* Work items.  base says which values belong to the node: those above it.
NoWord == ""
Item(op, f, x, base) == [op |-> op, f |-> f, x |-> x, base |-> base]
T(type) == Item("token", type, NoWord, 0)                      \* _consume
K(type) == Item("keep", type, NoWord, 0)                       \* _consume, and keep the token
Call(f) == Item("call", f, NoWord, 0)
Try(f) == Item("try", f, NoWord, 0)
Absent == Item("absent", NoWord, NoWord, 0)                    \* nullptr for an optional part
Rangle == Item("rangle", ">", NoWord, 0)
List(f, close) == Item("list", f, close, 0)                    \* if not at close: f (',' f)*
More(f) == Item("more", f, NoWord, 0)                          \* (',' f)*
Opt(close) == Item("opt", "expression", close, 0)
Binary(level) == Item("binary", NoWord, NoWord, level)         \* the operators up to a level
Operators(level) == Item("operators", NoWord, NoWord, level)
Mk(kind) == Item("node", kind, NoWord, Len(values))
MkWith(kind, n) == Item("node", kind, NoWord, Len(values) - n) \* n parts are there already
Expected(what) == T(what)                                      \* no token has this type: an error

Node(k, x, s, span, c) == [k |-> k, x |-> x, s |-> s, span |-> span, c |-> c]
NoSpan == [file |-> 0, place |-> 0]
None == Node("None", "", 0, NoSpan, <<>>)

Top == frames[Len(frames)]
Running == mode = "run" /\ Top.work # <<>>
Next1 == Top.work[1]

match(type) == m_tokens[m_pos].t = type
peek_next(type) == m_pos < Len(m_tokens) /\ m_tokens[m_pos + 1].t = type

Name(node) == <<node.x>>
TypeIn(node) == IF node.k = "None" THEN NullType ELSE node

-------------------------------------------------------------------------------
\* The parse functions.
parse_toplevel_declaration ==
  CASE match("struct") -> <<Call("struct_decl")>>
    [] match("enum") -> <<Call("enum_decl")>>
    [] match("func") \/ match("extern") -> <<Call("function_decl")>>
    [] OTHER -> <<Try("statement")>>

\* Mutant: the first item of a program is parsed outside the try block.
parse_program_bare ==
  IF match("EOF") THEN <<>> ELSE parse_toplevel_declaration \o <<Call("program")>>

parse_program == IF match("EOF") THEN <<>> ELSE <<Try("toplevel"), Call("program")>>

parse_mutability_prefix ==
  IF match("mut") \/ match("imm") THEN <<K(m_tokens[m_pos].t)>> ELSE <<Absent>>

parse_enum_decl ==
  <<T("enum"), K("IDENTIFIER"), Mk("EnumName"), Try("enum_body"), Mk("EnumDecl")>>
parse_enum_body == <<T("{"), List("variant", "}"), T("}")>>
parse_variant ==
  <<K("IDENTIFIER"), Call("tag_opt"), Call("payload_opt"), Mk("Variant")>>
parse_tag_opt == IF match("=") THEN <<T("="), K("INT_LITERAL")>> ELSE <<Absent>>
parse_payload_opt ==
  IF match("{") THEN <<T("{"), Try("payload"), Mk("Payload")>> ELSE <<Absent>>
parse_payload == <<List("struct_field", "}"), T("}")>>

parse_struct_decl == <<T("struct"), K("IDENTIFIER"), Mk("StructName")>>
parse_struct_body == <<T("{"), List("struct_field", "}"), T("}")>>
parse_struct_field == <<Absent, K("IDENTIFIER"), T(":"), Call("type"), Mk("Field")>>

parse_function_decl ==
  <<IF match("extern") THEN K("extern") ELSE Absent, T("func"), K("IDENTIFIER"),
    Try("function"), Mk("FunctionDecl")>>
parse_function ==
  <<T("("), Call("params"), T(")"), Call("returns_opt"), Call("function_body")>>
parse_params == <<List("param", ")"), Mk("Params")>>
parse_function_param ==
  <<Call("mutability_prefix"), K("IDENTIFIER"), T(":"), Call("type"), Mk("Param")>>
parse_function_return_type ==
  IF match("returns")
  THEN <<T("returns"), T("("), Absent, K("IDENTIFIER"), T(":"), Call("type"), T(")"),
         Mk("ReturnVar")>>
  ELSE <<Absent>>
is_ext == values[Top.base - 1].k = "extern"
parse_function_body ==
  IF is_ext \/ match(";") THEN <<T(";"), Absent>> ELSE <<Try("body"), Mk("Block")>>

is_next_var_decl ==
  \/ match("mut") \/ match("imm")
  \/ match("IDENTIFIER") /\ (peek_next(":") \/ peek_next(":="))

StatementOf ==
  [x \in {"if", "for", "while", "switch", "read", "print", "{", "return", "break",
          "continue", "free", "error", "exit", "asm"} |-> IF x = "{" THEN "block" ELSE x]
parse_statement ==
  CASE is_next_var_decl -> <<Call("var_decl")>>
    [] ~is_next_var_decl /\ m_tokens[m_pos].t \in DOMAIN StatementOf ->
         <<Call(StatementOf[m_tokens[m_pos].t])>>
    [] OTHER -> <<Call("expression"), T(";"), Mk("ExpressionStatement")>>

parse_var_decl == <<Call("mutability_prefix"), K("IDENTIFIER"), Call("var_init")>>
parse_var_init ==
  CASE match(":") -> <<T(":"), Call("type"), Call("init_opt"), T(";"), MkWith("VarDecl", 2)>>
    [] match(":=") ->
         <<T(":="), Absent, Call("expression"), T(";"), MkWith("VarDecl", 2)>>
    [] OTHER -> <<Expected(": | :=")>>
parse_init_opt == IF match("=") THEN <<T("="), Call("expression")>> ELSE <<Absent>>

Condition == <<T("("), Call("expression"), T(")")>>
parse_if_stmt == <<T("if")>> \o Condition \o <<Call("block"), Call("else_opt"), Mk("If")>>
parse_else_opt ==
  CASE match("else") /\ peek_next("if") -> <<T("else"), Call("if"), Mk("Block")>>
    [] match("else") /\ ~peek_next("if") -> <<T("else"), Call("block")>>
    [] OTHER -> <<Absent>>

parse_for_stmt == <<T("for"), Try("for"), Mk("For")>>
parse_for == <<T("("), Call("for_init"), Opt(";"), T(";"), Opt(")"), T(")"), Call("block")>>
parse_for_init ==
  CASE match(";") -> <<Absent, T(";")>>
    [] is_next_var_decl -> <<Call("var_decl")>>
    [] OTHER -> <<Call("expression"), T(";")>>

parse_while_stmt == <<T("while")>> \o Condition \o <<Call("block"), Mk("While")>>

parse_switch_stmt ==
  <<T("switch")>> \o Condition \o <<T("{"), Call("cases"), T("}"), Mk("Switch")>>
\* Mutant: what is neither a case nor the default is left to the next round.
parse_cases_waits ==
  CASE match("}") -> <<>>
    [] match("case") -> <<T("case"), Call("case_pattern"), Call("cases")>>
    [] match("default") ->
         <<T("default"), T(":"), Call("block"), Mk("CaseDefault"), Call("cases")>>
    [] OTHER -> <<Call("cases")>>

parse_cases ==
  CASE match("}") -> <<>>
    [] match("case") -> <<T("case"), Call("case_pattern"), Call("cases")>>
    [] match("default") ->
         <<T("default"), T(":"), Call("block"), Mk("CaseDefault"), Call("cases")>>
    [] OTHER -> <<Expected("case | default")>>
parse_case_pattern ==
  IF match("IDENTIFIER") /\ peek_next("::")
  THEN <<K("IDENTIFIER"), T("::"), K("IDENTIFIER"), Call("payload_name_opt"), T(":"),
         Call("block"), Mk("CaseEnum")>>
  ELSE <<Call("expression"), T(":"), Call("block"), Mk("CaseValue")>>
parse_payload_name_opt ==
  IF match("(") THEN <<T("("), K("IDENTIFIER"), T(")")>> ELSE <<Absent>>

parse_read_stmt == <<T("read"), Call("expression"), T(";"), Mk("Read")>>
parse_print_stmt ==
  <<T("print"), Call("expression"), More("expression"), T(";"), Mk("Print")>>
parse_error_stmt ==
  <<T("error"), Call("expression"), More("expression"), T(";"), Mk("Error")>>
parse_return_stmt == <<T("return"), Opt(";"), T(";"), Mk("Return")>>
parse_exit_stmt == <<T("exit"), Opt(";"), T(";"), Mk("Exit")>>
parse_break_stmt == <<T("break"), T(";"), Mk("Break")>>
parse_continue_stmt == <<T("continue"), T(";"), Mk("Continue")>>
parse_free_stmt == <<T("free"), Call("expression"), T(";"), Mk("Free")>>
parse_asm_block == <<T("asm"), T("{"), Call("asm_body"), T("}"), T(";"), Mk("Asm")>>

parse_block == <<Try("block"), Mk("Block")>>
parse_statements ==
  IF match("EOF") \/ match("}") THEN <<>> ELSE <<Try("statement"), Call("statements")>>

\* Expressions.  parse_logic_or to parse_multiplicative differ in their operators
\* only; Level gives the order in which they call each other.
BinaryOperators == {"*", "/", "%", "+", "-", "<<", ">>", "<", ">", "<=", ">=", "==", "!=", "&",
                    "^", "|", "and", "or"}
Level ==
  [x \in BinaryOperators |->
     CASE x \in {"*", "/", "%"} -> 1 [] x \in {"+", "-"} -> 2 [] x \in {"<<", ">>"} -> 3
       [] x \in {"<", ">", "<=", ">="} -> 4 [] x \in {"==", "!="} -> 5 [] x = "&" -> 6
       [] x = "^" -> 7 [] x = "|" -> 8 [] x = "and" -> 9 [] x = "or" -> 10]

parse_assignment == <<Binary(10), Call("assign_opt")>>
parse_assign_opt ==
  IF match("=") THEN <<T("="), Call("expression"), MkWith("Assignment", 1)>> ELSE <<>>
parse_binary(level) ==
  IF level = 0 THEN <<Call("unary")>> ELSE <<Call("unary"), Operators(level)>>

parse_operators(level) ==
  LET op == m_tokens[m_pos].t
  IN  IF op \in DOMAIN Level /\ Level[op] <= level
      THEN <<K(op), Binary(Level[op] - 1), MkWith("BinaryOp", 1), Operators(level)>>
      ELSE <<>>

parse_unary ==
  CASE match("&") -> <<K("&"), Call("mutability_prefix"), Call("unary"), Mk("Unary")>>
    [] match("*") \/ match("!") \/ match("-") ->
         <<K(m_tokens[m_pos].t), Absent, Call("unary"), Mk("Unary")>>
    [] OTHER -> <<Call("primary"), Call("suffixes")>>

parse_suffixes ==
  CASE match("[") -> <<T("["), Call("expression"), T("]"), MkWith("ArrayIndex", 1),
                       Call("suffixes")>>
    [] match("(") -> <<T("("), List("expression", ")"), T(")"), MkWith("FunctionCall", 1),
                       Call("suffixes")>>
    [] match(".") -> <<T("."), K("IDENTIFIER"), MkWith("FieldAccess", 1), Call("suffixes")>>
    [] OTHER -> <<>>

Literals == {"INT_LITERAL", "FLOAT_LITERAL", "STRING_LITERAL", "CHAR_LITERAL", "true",
             "false", "null"}
IsStructName == has_struct(symtab, Name(m_tokens[m_pos]), symtab.cur)
parse_explicit_cast ==
  <<T("cast"), T("<"), Call("type"), Rangle>> \o Condition \o <<Mk("Cast")>>
parse_sizeof == <<T("sizeof"), T("<"), Call("type"), Rangle, Mk("SizeOf")>>
parse_primary ==
  CASE m_tokens[m_pos].t \in Literals -> <<K(m_tokens[m_pos].t)>>
    [] match("IDENTIFIER") -> <<Call("identifier")>>
    [] match("(") -> <<T("("), Call("expression"), T(")"), Mk("Grouped")>>
    [] match("new") -> <<Call("new_expr")>>
    [] match("cast") -> parse_explicit_cast
    [] match("sizeof") -> parse_sizeof
    [] OTHER -> <<Expected("<primary>")>>
parse_identifier ==
  CASE peek_next("::") /\ has_enum(symtab, Name(m_tokens[m_pos]), symtab.cur) ->
         <<K("IDENTIFIER"), T("::"), K("IDENTIFIER"), Call("enum_fields_opt"), Mk("EnumLiteral")>>
    [] ~(peek_next("::") /\ has_enum(symtab, Name(m_tokens[m_pos]), symtab.cur))
       /\ IsStructName -> <<Call("struct_literal")>>
    [] OTHER -> <<K("IDENTIFIER")>>
parse_struct_literal ==
  <<K("IDENTIFIER"), T("{"), List("initializer", "}"), T("}"), Mk("StructLiteral")>>
parse_enum_fields_opt ==
  IF match("{") THEN <<T("{"), List("initializer", "}"), T("}")>> ELSE <<>>
parse_initializer == <<K("IDENTIFIER"), T("="), Call("expression"), Mk("Initializer")>>

parse_new_expr ==
  <<T("new"), T("<"), Call("mutability_prefix"), Call("type"), Rangle, Call("new_rest")>>
parse_new_rest ==
  CASE match("[") -> <<T("["), Call("expression"), T("]"), MkWith("NewArray", 2)>>
    [] match("(") -> <<T("("), Call("new_init"), T(")"), MkWith("New", 2)>>
    [] OTHER -> <<Expected("[ or (")>>
parse_new_init ==
  CASE match(")") -> <<Absent>>
    [] ~match(")") /\ IsStructName -> <<Call("struct_literal")>>
    [] OTHER -> <<Call("expression")>>

parse_type ==
  CASE is_basic_type(m_tokens[m_pos].t) \/ match("IDENTIFIER") -> <<Call("type_name")>>
    [] match("ptr") ->
         <<T("ptr"), T("<"), Call("mutability_prefix"), Call("type"), Rangle, Mk("Pointer")>>
    [] match("func") -> <<T("func"), T("("), Call("param_types"), T(")"), T("->"),
                          Call("type"), Mk("FunctionType")>>
    [] OTHER -> <<Expected("<type>")>>
parse_param_types == <<List("param_type", ")"), Mk("ParamTypes")>>
parse_param_type ==
  IF match("mut") \/ match("imm")
  THEN <<Call("mutability_prefix"), T(":"), Call("type"), Mk("ParamType")>>
  ELSE <<Absent, Call("type"), Mk("ParamType")>>

CallBody(f) ==
  CASE f = "program" -> parse_program
    [] f = "mutability_prefix" -> parse_mutability_prefix
    [] f = "enum_decl" -> parse_enum_decl [] f = "variant" -> parse_variant
    [] f = "tag_opt" -> parse_tag_opt [] f = "payload_opt" -> parse_payload_opt
    [] f = "struct_decl" -> parse_struct_decl
    [] f = "struct_field" -> parse_struct_field
    [] f = "function_decl" -> parse_function_decl [] f = "params" -> parse_params
    [] f = "param" -> parse_function_param
    [] f = "returns_opt" -> parse_function_return_type
    [] f = "function_body" -> parse_function_body
    [] f = "var_decl" -> parse_var_decl [] f = "var_init" -> parse_var_init
    [] f = "init_opt" -> parse_init_opt [] f = "if" -> parse_if_stmt
    [] f = "else_opt" -> parse_else_opt [] f = "for" -> parse_for_stmt
    [] f = "for_init" -> parse_for_init [] f = "while" -> parse_while_stmt
    [] f = "switch" -> parse_switch_stmt [] f = "cases" -> parse_cases
    [] f = "case_pattern" -> parse_case_pattern
    [] f = "payload_name_opt" -> parse_payload_name_opt
    [] f = "read" -> parse_read_stmt [] f = "print" -> parse_print_stmt
    [] f = "error" -> parse_error_stmt [] f = "return" -> parse_return_stmt
    [] f = "exit" -> parse_exit_stmt [] f = "break" -> parse_break_stmt
    [] f = "continue" -> parse_continue_stmt [] f = "free" -> parse_free_stmt
    [] f = "asm" -> parse_asm_block [] f = "block" -> parse_block
    [] f = "statements" -> parse_statements [] f = "expression" -> parse_assignment
    [] f = "assign_opt" -> parse_assign_opt [] f = "unary" -> parse_unary
    [] f = "suffixes" -> parse_suffixes [] f = "primary" -> parse_primary
    [] f = "identifier" -> parse_identifier
    [] f = "struct_literal" -> parse_struct_literal
    [] f = "enum_fields_opt" -> parse_enum_fields_opt
    [] f = "initializer" -> parse_initializer [] f = "new_expr" -> parse_new_expr
    [] f = "new_rest" -> parse_new_rest [] f = "new_init" -> parse_new_init
    [] f = "type" -> parse_type [] f = "param_types" -> parse_param_types
    [] f = "param_type" -> parse_param_type
TryBody(f) ==
  CASE f = "toplevel" -> parse_toplevel_declaration
    [] f = "statement" -> parse_statement [] f = "enum_body" -> parse_enum_body
    [] f = "payload" -> parse_payload [] f = "struct_body" -> parse_struct_body
    [] f = "function" -> parse_function [] f = "for" -> parse_for
    [] f \in {"block", "body"} -> <<T("{"), Call("statements"), T("}")>>

Body(item) ==
  CASE item.op = "call" -> CallBody(item.f)
    [] item.op = "list" -> IF match(item.x) THEN <<>> ELSE <<Call(item.f), More(item.f)>>
    [] item.op = "more" -> IF match(",") THEN <<T(","), Call(item.f), More(item.f)>> ELSE <<>>
    [] item.op = "opt" -> IF match(item.x) THEN <<Absent>> ELSE <<Call(item.f)>>
    [] item.op = "binary" -> parse_binary(item.base)
    [] item.op = "operators" -> parse_operators(item.base)

-------------------------------------------------------------------------------
SyncPoints == {"EOF", "func", "if", "struct", "enum", "while", "for", "return", "read",
               "print", "{", "}"}
is_sync_point(i) == m_tokens[i].t \in SyncPoints

\* Mutant: the token that caused the panic may be the one to go on with.
synchronize_here == Min({i \in m_pos .. Len(m_tokens) : is_sync_point(i)})

\* Where synchronize stops: the next such token after the current one.
synchronize ==
  IF match("EOF") THEN m_pos
  ELSE Min({i \in m_pos + 1 .. Len(m_tokens) : is_sync_point(i)})

\* The innermost frame goes on with body instead of its next item.
Do(body) == frames' = [frames EXCEPT ![Len(frames)].work = body \o Tail(@)]
Proceed == Do(<<>>)
\* Report an error and throw a ParsePanic.
ThrowAt(kind, place) ==
  /\ errors' = Append(errors, [k |-> kind, at |-> place]) /\ mode' = "panic"
  /\ UNCHANGED <<m_tokens, frames, values>>
Throw(kind) == ThrowAt(kind, m_pos)
Crash == mode' = "crash" /\ UNCHANGED <<m_tokens, m_pos, frames, values, symtab, errors>>

Frame(f, scope, opens, work) ==
  [f |-> f, scope |-> scope, opens |-> opens, base |-> Len(values), work |-> work]

-------------------------------------------------------------------------------
Init ==
  /\ tokens \in Inputs /\ m_tokens = tokens /\ m_pos = 1 /\ values = <<>> /\ symtab = NewSymTab
  /\ errors = <<>> /\ mode = "run"
  /\ frames = <<[f |-> "program", scope |-> 0, opens |-> FALSE, base |-> 0,
                 work |-> <<Call("program")>>]>>

\* A call, a repetition or an option is replaced by the body its lookahead chooses.
Special == {"asm_body", "type_name"}
expand ==
  /\ Running /\ Next1.op \in {"call", "list", "more", "opt", "binary", "operators"}
  /\ Next1.f \notin Special
  /\ Do(Body(Next1)) /\ UNCHANGED <<m_tokens, m_pos, values, symtab, errors, mode>>

Leaf(token) == Node(token.t, token.x, symtab.cur, token.s, <<>>)
consume ==
  /\ Running /\ Next1.op \in {"token", "keep"}
  /\ IF match(Next1.f)
     THEN /\ m_pos' = m_pos + 1 /\ Proceed
          /\ values' = IF Next1.op = "keep" THEN Append(values, Leaf(m_tokens[m_pos])) ELSE values
          /\ UNCHANGED <<m_tokens, symtab, errors, mode>>
     ELSE Throw("syntax") /\ UNCHANGED <<m_pos, symtab>>


\* '>', or the first half of '>>' or '>=', whose second half stays.
consume_rangle ==
  /\ Running /\ Next1.op = "rangle"
  /\ \/ /\ match(">") /\ m_pos' = m_pos + 1 /\ Proceed
        /\ UNCHANGED <<m_tokens, values, symtab, errors, mode>>
     \/ /\ match(">>") \/ match(">=")
        /\ LET rest == IF match(">>") THEN ">" ELSE "="
           IN  m_tokens' = [m_tokens EXCEPT ![m_pos] = [@ EXCEPT !.t = rest, !.x = rest]]
        /\ Proceed /\ UNCHANGED <<m_pos, values, symtab, errors, mode>>
     \/ /\ ~match(">") /\ ~match(">>") /\ ~match(">=")
        /\ Throw("syntax") /\ UNCHANGED <<m_pos, symtab>>

absent ==
  /\ Running /\ Next1.op = "absent" /\ Proceed /\ values' = Append(values, None)
  /\ UNCHANGED <<m_tokens, m_pos, symtab, errors, mode>>

\* The loop of parse_asm_block: every token up to the brace that closes the block.
asm_body ==
  /\ Running /\ Next1.f = "asm_body"
  /\ LET braces(type, i) == Cardinality({j \in m_pos .. i : m_tokens[j].t = type})
         closing == {i \in m_pos .. Len(m_tokens) : braces("}", i) = braces("{", i) + 1}
     IN  IF closing # {}
         THEN /\ m_pos' = Min(closing) /\ Proceed
              /\ UNCHANGED <<m_tokens, values, symtab, errors, mode>>
         ELSE /\ m_pos' = Len(m_tokens)
              /\ ThrowAt("syntax", Len(m_tokens)) /\ UNCHANGED symtab

\* A basic type, or the type of that name.
type_name ==
  /\ Running /\ Next1.f = "type_name" /\ m_pos' = m_pos + 1
  /\ LET token == m_tokens[m_pos]
         string == Canonical(symtab, Pointer(FALSE, Basic("u8"), 0), 0)
         t == CASE token.t = "string" -> string
                [] token.t = "IDENTIFIER" -> lookup_type(symtab, Name(token), symtab.cur)
                [] OTHER -> Basic(token.x)
     IN  IF t = NullType THEN Throw("type") /\ UNCHANGED symtab
         ELSE /\ values' = Append(values, t) /\ Proceed
              /\ symtab' = IF token.t = "string" THEN declare_type(symtab, t) ELSE symtab
              /\ UNCHANGED <<m_tokens, errors, mode>>

-------------------------------------------------------------------------------
\* Building nodes.  The parts of a node are the values above the base of its item.
Building(kinds) == Running /\ Next1.op = "node" /\ Next1.f \in kinds
Parts == SubSeq(values, Next1.base + 1, Len(values))
Push(v) == values' = Append(SubSeq(values, 1, Next1.base), v)
ThisNode == Node(Next1.f, "", symtab.cur, NoSpan, Parts)

Declaring == {"VarDecl", "Field", "Param", "ReturnVar"}
Typing == {"Pointer", "FunctionType"}
Declarations == {"EnumName", "Payload", "EnumDecl", "StructName", "StructDecl", "FunctionDecl"}

node ==
  /\ Running /\ Next1.op = "node" /\ Next1.f \notin Declaring \cup Typing \cup Declarations
  /\ Push(ThisNode) /\ Proceed /\ UNCHANGED <<m_tokens, m_pos, symtab, errors, mode>>

\* The parts start with the prefix, the identifier and the type.
VariableOf(kind, parts) ==
  [Variable(TypeIn(parts[3]), parts[1].k = "mut" \/ kind \in {"Field", "ReturnVar"},
            parts[2].s, parts[2].span)
     EXCEPT !.ret = (kind = "ReturnVar")]

\* Variables, fields, parameters and return variables: one declaration of a name in
\* a scope.  The error of a second one comes after its last token was consumed.
declare_variable ==
  /\ Building(Declaring)
  /\ IF Declared(symtab, Name(Parts[2]), Parts[2].s)
     THEN Throw("duplicate") /\ UNCHANGED <<m_pos, symtab>>
     ELSE /\ symtab' = declare(symtab, Name(Parts[2]), VariableOf(Next1.f, Parts), Parts[2].s)
          /\ Push(ThisNode) /\ Proceed /\ UNCHANGED <<m_tokens, m_pos, errors, mode>>

\* The end of parse_type for a pointer: the type of that name, declared if need be.
pointer_type ==
  /\ Building({"Pointer"})
  /\ LET t == Canonical(symtab, Pointer(Parts[1].k = "mut", Parts[2], symtab.cur), symtab.cur)
     IN  symtab' = declare_type(symtab, t) /\ Push(t)
  /\ Proceed /\ UNCHANGED <<m_tokens, m_pos, errors, mode>>

\* The end of parse_type for a function: only a type some declaration has introduced.
ParamInfo(part) ==
  IF part.k = "Param" THEN [type |-> part.c[3], mut |-> part.c[1].k = "mut"]
  ELSE [type |-> part.c[2], mut |-> part.c[1].k = "mut"]
ParamInfos(parts) == [i \in DOMAIN parts |-> ParamInfo(parts[i])]
function_type ==
  /\ Building({"FunctionType"})
  /\ LET t == Function(ParamInfos(Parts[1].c), Parts[2])
         known == lookup_type(symtab, t.n, 0)
     IN  IF known = NullType THEN Throw("type") /\ UNCHANGED <<m_pos, symtab>>
         ELSE Push(known) /\ Proceed /\ UNCHANGED <<m_tokens, m_pos, symtab, errors, mode>>

\* The declaration of a struct or enum in the scope where lookup finds it.
UpdateDecl(tab, map, name, decl) ==
  [tab EXCEPT !.scopes[FirstWith(tab, tab.cur, map, name) + 1][map][name] = decl]
FieldsOf(parts) ==
  LET fields == SelectSeq(parts, LAMBDA v : v.k = "Field")
  IN  [i \in DOMAIN fields |-> [n |-> fields[i].c[2].x, t |-> fields[i].c[3], off |-> 0]]

\* The enum is known before its body; its variants are not.
NewEnum == [variants |-> <<>>, made |-> FALSE, bytes |-> PTR_SIZE, align |-> PTR_SIZE]
enum_name ==
  /\ Building({"EnumName"})
  /\ LET name == Name(Parts[1])
     IN  IF Declared(symtab, name, symtab.cur)
         THEN Throw("duplicate") /\ UNCHANGED <<m_pos, symtab>>
         ELSE /\ symtab' = declare_enum(declare_type(symtab, Enum(name, symtab.cur)), name,
                                        NewEnum, symtab.cur)
              /\ Proceed /\ UNCHANGED <<m_tokens, m_pos, values, errors, mode>>

\* The anonymous struct E::A of a payload, in the scope around the enum.
payload_struct ==
  /\ Building({"Payload"})
  /\ LET name == <<values[Top.base].x, "::", values[Next1.base - 1].x>>
         scope == ScopeOf(symtab, symtab.cur).parent
         decl == [fields |-> FieldsOf(Parts), complete |-> TRUE, bytes |-> 0, align |-> 0]
     IN  symtab' = declare_struct(declare_type(symtab, Named(name, scope)), name, decl, scope)
  /\ Push(ThisNode) /\ Proceed /\ UNCHANGED <<m_tokens, m_pos, errors, mode>>

\* An explicit tag, or one more than the tag before it.
TagsOf(variants) ==
  LET tag[i \in DOMAIN variants] ==
        CASE variants[i].c[2].k # "None" -> IntLiteral[variants[i].c[2].x]
          [] variants[i].c[2].k = "None" /\ i = 1 -> 0
          [] OTHER -> tag[i - 1] + 1
  IN  tag
enum_decl ==
  /\ Building({"EnumDecl"})
  /\ LET variants == Tail(Parts)
         decl == [NewEnum EXCEPT !.made = TRUE, !.variants =
                    [i \in DOMAIN variants |->
                       [n |-> variants[i].c[1].x, tag |-> TagsOf(variants)[i],
                        payload |-> variants[i].c[3].k # "None"]]]
     IN  symtab' = UpdateDecl(symtab, "enums", Name(Parts[1]), decl)
  /\ Push(ThisNode) /\ Proceed /\ UNCHANGED <<m_tokens, m_pos, errors, mode>>

\* parse_struct_decl once it has the name.  Where the name is a variable the declared
\* type is null, and where it is an enum there is no struct node: both are dereferenced.
struct_name ==
  /\ Building({"StructName"})
  /\ LET name == Name(Parts[1])
         opaque == match(";")
         known == lookup_type(symtab, name, symtab.cur)
         isStruct == has_struct(symtab, name, symtab.cur)
         isVariable == known = NullType /\ Declared(symtab, name, symtab.cur)
         fresh == [fields |-> <<>>, complete |-> FALSE, bytes |-> PTR_SIZE, align |-> PTR_SIZE]
         tab == IF known # NullType THEN symtab
                ELSE declare_struct(declare_type(symtab, Named(name, symtab.cur)), name, fresh,
                                    symtab.cur)
         decl == lookup_struct(tab, name, tab.cur)
     IN  CASE known # NullType /\ isStruct /\ decl.complete /\ ~opaque ->
                Throw("duplicate") /\ UNCHANGED <<m_pos, symtab>>
           [] ~opaque /\ (isVariable \/ (known # NullType /\ ~isStruct)) -> Crash
           [] opaque ->
                /\ symtab' = tab /\ Do(<<T(";"), MkWith("OpaqueStruct", 1)>>)
                /\ UNCHANGED <<m_tokens, m_pos, values, errors, mode>>
           [] OTHER ->
                /\ symtab' = UpdateDecl(tab, "structs", name, [decl EXCEPT !.complete = TRUE])
                /\ Do(<<Try("struct_body"), MkWith("StructDecl", 1)>>)
                /\ UNCHANGED <<m_tokens, m_pos, values, errors, mode>>
struct_decl ==
  /\ Building({"StructDecl"})
  /\ LET name == Name(Parts[1])
     IN  symtab' = UpdateDecl(symtab, "structs", name,
                     [lookup_struct(symtab, name, symtab.cur) EXCEPT !.fields = FieldsOf(Parts)])
  /\ Push(ThisNode) /\ Proceed /\ UNCHANGED <<m_tokens, m_pos, errors, mode>>

\* The end of parse_function_decl: the type of the function, then its variable, which
\* must have the same type if it is known.  Its type is null before type inference.
function_decl ==
  /\ Building({"FunctionDecl"})
  /\ LET ret == IF Parts[4].k = "None" THEN Basic("u0") ELSE Parts[4].c[3]
         t == Canonical(symtab, Function(ParamInfos(Parts[3].c), ret), 0)
         name == Name(Parts[2])
         existing == lookup(symtab, "Variable", name, 0)
         tab == declare_type(symtab, t)
     IN  CASE existing # NoSymbol /\ existing.type = NullType -> Crash
           [] existing # NoSymbol /\ existing.type # NullType /\ ~SameType(existing.type, t) ->
                Throw("signature") /\ symtab' = tab /\ UNCHANGED m_pos
           [] OTHER ->
                /\ symtab' = declare(tab, name, Variable(t, FALSE, 0, Parts[2].span), 0)
                /\ Push(ThisNode) /\ Proceed /\ UNCHANGED <<m_tokens, m_pos, errors, mode>>

-------------------------------------------------------------------------------
\* Entering and leaving try blocks.
Scoped == {"enum_body", "payload", "struct_body", "function", "for", "block"}
Enter ==
  /\ Running /\ Next1.op = "try"
  /\ LET opens == Next1.f \in Scoped
         tab == IF opens THEN enter_scope(symtab) ELSE symtab
     IN  /\ symtab' = tab
         /\ frames' = Append([frames EXCEPT ![Len(frames)].work = Tail(@)],
                             Frame(Next1.f, tab.cur, opens, TryBody(Next1.f)))
  /\ UNCHANGED <<m_tokens, m_pos, values, errors, mode>>

\* The try blocks around the innermost one.
Outer(fr) == SubSeq(fr, 1, Len(fr) - 1)

Closed == IF Top.opens THEN exit_scope(symtab) ELSE symtab

Leave ==
  /\ mode = "run" /\ Top.work = <<>> /\ Len(frames) > 1
  /\ symtab' = Closed /\ frames' = Outer(frames)
  /\ UNCHANGED <<m_tokens, m_pos, values, errors, mode>>

\* The handlers.  Most leave their scope and throw again.
Rethrowing == {"enum_body", "payload", "function", "for"}
Partial == {"struct_body", "block", "body"}
Poisoning == {"statement", "toplevel"}
Caught(handlers) == mode = "panic" /\ Top.f \in handlers

\* Mutant: the panic leaves a scope open.
rethrow_open ==
  /\ Caught(Rethrowing) /\ frames' = Outer(frames)
  /\ UNCHANGED <<m_tokens, m_pos, symtab, values, errors, mode>>

rethrow ==
  /\ Caught(Rethrowing) /\ symtab' = Closed /\ frames' = Outer(frames)
  /\ UNCHANGED <<m_tokens, m_pos, values, errors, mode>>

\* Mutant: the token to go on with is taken to be '}'.
recover_partial_past ==
  /\ Caught(Partial) /\ symtab' = Closed /\ frames' = Outer(frames)
  /\ m_pos' = synchronize + 1 /\ values' = SubSeq(values, 1, Top.base)
  /\ mode' = "run" /\ UNCHANGED <<m_tokens, errors>>

\* The fields of temp_fields come before the parts of the one that is not complete.
LastField ==
  Max({Top.base} \cup {i \in Top.base + 1 .. Len(values) : values[i].k = "Field"})
\* parse_block and parse_struct_decl return what they have, behind a '}'.
recover_partial ==
  /\ Caught(Partial) /\ symtab' = Closed /\ frames' = Outer(frames)
  /\ m_pos' = IF m_tokens[synchronize].t = "}" THEN synchronize + 1 ELSE synchronize
  /\ values' = IF Top.f = "struct_body" THEN SubSeq(values, 1, LastField) ELSE values
  /\ mode' = "run" /\ UNCHANGED <<m_tokens, errors>>

\* parse_statement and parse_toplevel_declaration return a poisoned node.
recover_poison ==
  /\ Caught(Poisoning) /\ symtab' = Closed /\ frames' = Outer(frames)
  /\ values' = Append(SubSeq(values, 1, Top.base),
                      Node("Poison", "", symtab.cur, m_tokens[m_pos].s, <<>>))
  /\ m_pos' = synchronize
  /\ mode' = "run" /\ UNCHANGED <<m_tokens, errors>>

Build == node \/ declare_variable \/ pointer_type \/ function_type \/ enum_name \/ payload_struct
         \/ enum_decl \/ struct_name \/ struct_decl \/ function_decl
Parse ==
  \/ expand \/ consume \/ consume_rangle \/ absent \/ asm_body \/ type_name \/ Build
  \/ Enter \/ Leave \/ rethrow \/ recover_partial \/ recover_poison
Next == Parse /\ UNCHANGED tokens

Spec == Init /\ [][Next]_vars
\* A single thread that is never blocked.
FairSpec == Spec /\ WF_vars(Next)

Parsed == mode = "run" /\ Len(frames) = 1 /\ Top.work = <<>>

-------------------------------------------------------------------------------
FrameNames == {"program", "toplevel", "statement", "enum_body", "payload", "struct_body",
               "function", "for", "block", "body"}
\* The current token exists whatever was skipped: a panic never runs past EOF.  Every
\* try block is one of the parser's, and begins with values that are still there.
TypeOK ==
  /\ mode \in {"run", "panic", "crash"}
  /\ m_pos \in 1 .. Len(m_tokens) /\ Len(m_tokens) = Len(tokens)
  /\ Len(frames) >= 1
  /\ \A i \in 1 .. Len(frames) :
       frames[i].f \in FrameNames /\ frames[i].opens \in BOOLEAN /\ frames[i].base <= Len(values)

\* The parent of a scope.
ParentOf(id) == ScopeOf(symtab, id).parent
\* enter_scope and exit_scope stay paired through every panic: the current scope is the
\* one of the innermost try block, a try block that opened a scope has it inside the
\* scope of the block around it, and the others share that scope.  So the parser is in
\* the global scope whenever it is back in parse_program.
ScopesBalanced ==
  /\ symtab.cur = Top.scope
  /\ frames[1].scope = 0
  /\ \A i \in 2 .. Len(frames) :
       IF frames[i].opens
       THEN frames[i].scope # 0 /\ ParentOf(frames[i].scope) = frames[i - 1].scope
       ELSE frames[i].scope = frames[i - 1].scope

\* No ParsePanic gets out of parse_program: whenever one is in flight there is a try
\* block around the parser that has a handler for it.
PanicsCaught == mode = "panic" => Top.f \in Rethrowing \cup Partial \cup Poisoning

\* Recovery makes progress: the next error that is reported lies behind the last one,
\* except that every block still open at the end of the file may miss its '}'.
PanicsAdvance ==
  \A i \in 2 .. Len(errors) :
    \/ errors[i - 1].at < errors[i].at
    \/ errors[i - 1].at = Len(m_tokens) /\ errors[i].at = Len(m_tokens)

Scopes == INSTANCE ScopeStack WITH stack <- OpenScopes(symtab), Predeclared <- GlobalScope.symbols
\* The table the parse functions share behaves as a stack of scopes: a step opens an
\* empty scope, closes the innermost one, or declares names, and no declaration that is
\* in force is ever changed or dropped.
LexicalScoping == Scopes!Spec
===============================================================================
