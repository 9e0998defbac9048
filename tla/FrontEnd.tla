------------------------------- MODULE FrontEnd -------------------------------
(***************************************************************************)
(* The compiler from tokens to IR, and the run of what it made: the parser,*)
(* the type checker and the IR generator in the order in which compile     *)
(* (driver.cpp) calls them, one after the other on the same symbol table.  *)
(* A phase that logged an error or threw ends the compilation, as          *)
(* check_diags and the catch blocks do in every stage but JSON.            *)
(***************************************************************************)
EXTENDS ParserGrammar, SourceMeaning

VARIABLE phase          \* parse, check, lower, run, done

back == <<program, next, checker, lowered, generator, machine>>
all == <<vars, back, phase>>

FrontInit ==
  /\ Init
  /\ phase = "parse"
  /\ program = <<>> /\ next = 1 /\ checker = Context(NewSymTab)
  /\ lowered = 0 /\ generator = Generator(NewSymTab)
  /\ machine = [status |-> "none"]

ParseNext == phase = "parse" /\ Next /\ UNCHANGED <<back, phase>>

\* check_diags after lexing and parsing.
Accepted == errors = <<>> /\ \A i \in DOMAIN tokens : tokens[i].t # "UNKNOWN"
EndParse ==
  /\ phase = "parse" /\ (Parsed \/ mode = "crash")
  /\ IF mode # "crash" /\ Accepted
     THEN phase' = "check" /\ program' = values /\ checker' = Context(symtab)
     ELSE phase' = "done" /\ UNCHANGED <<program, checker>>
  /\ UNCHANGED <<vars, next, lowered, generator, machine>>

CheckNext ==
  phase = "check" /\ check_program /\ UNCHANGED <<vars, phase, lowered, generator, machine>>

EndCheck ==
  /\ phase = "check" /\ (next > Len(program) \/ checker.stop # "")
  /\ IF checker.errs = {} /\ checker.stop = ""
     THEN phase' = "lower" /\ generator' = DeclareFunctions(program, Generator(checker.tab))
     ELSE phase' = "done" /\ UNCHANGED generator
  /\ UNCHANGED <<vars, program, next, checker, lowered, machine>>

LowerNext ==
  phase = "lower" /\ visit_all /\ UNCHANGED <<vars, phase, program, next, checker, machine>>

EndLower ==
  /\ phase = "lower" /\ (lowered = Len(program) \/ generator.stop # "")
  /\ IF generator.stop = "" THEN phase' = "run" /\ machine' = Loaded
     ELSE phase' = "done" /\ UNCHANGED machine
  /\ UNCHANGED <<vars, program, next, checker, lowered, generator>>

RunNext ==
  phase = "run" /\ run_slice /\ UNCHANGED <<vars, phase, program, next, checker, lowered, generator>>

EndRun == phase = "run" /\ machine.status # "run" /\ phase' = "done" /\ UNCHANGED <<vars, back>>

Compile ==
  \/ ParseNext \/ EndParse \/ CheckNext \/ EndCheck \/ LowerNext \/ EndLower
  \/ RunNext \/ EndRun
Stopped == phase = "done" /\ UNCHANGED all
FrontNext == Compile \/ Stopped

FrontSpec == FrontInit /\ [][FrontNext]_all
\* One thread, which nothing blocks: it goes on until it is done.  The second conjunct is
\* weak fairness of the phases after parsing: one of their steps is possible until phase is
\* "done", and each of them changes the state.
FrontFairSpec ==
  FrontSpec /\ WF_all(ParseNext \/ EndParse)
  /\ ([]<>(phase \in {"parse", "done"}) \/ []<><<Compile>>_all)

-------------------------------------------------------------------------------
\* The compiler comes to an end on every input, with an error, an executable or a
\* failed assertion: no recovery of the parser (synchronize, the loops of
\* parse_program, parse_block and the bodies of struct, enum and switch) can run forever.
Terminates == <>(phase = "done")


\* The nodes of the tree below n.
RECURSIVE NodesOf(_)
NodesOf(n) ==
  {n} \cup UNION {NodesOf(n.c[i]) : i \in {j \in DOMAIN n.c : "c" \in DOMAIN n.c[j]}}
ProgramNodes == UNION {NodesOf(program[i]) : i \in DOMAIN program}

\* Expressions with an address, for visit_addrof.
Addressable(n) ==
  \/ n.k \in {"IDENTIFIER", "ArrayIndex", "StructLiteral"}
  \/ n.k = "Unary" /\ n.c[1].k = "*"
  \/ n.k = "FieldAccess" /\ LET t == n.c[1].type
                            IN  (IF is_pointer_like(t) THEN t.to ELSE t).k # "Enum"
\* What the IR generator does not lower: floating-point literals, the address of what has
\* none, and the payload variables of two cases with one name.
Unsupported(n) ==
  \/ n.k = "FLOAT_LITERAL"
  \/ n.k = "Unary" /\ n.c[1].k = "&" /\ ~Addressable(n.c[3])
  \/ n.k \in {"Assignment", "Read"} /\ ~Addressable(n.c[1])
  \/ /\ n.k = "CaseEnum" /\ n.c[3].k # "None"
     /\ \E o \in ProgramNodes :
          \/ o.k = "CaseEnum" /\ o # n /\ o.c[3].x = n.c[3].x /\ o.c[4].s = n.c[4].s
          \/ o.k = "VarDecl" /\ o.c[2].x = n.c[3].x /\ o.s = n.c[4].s

\* A program that the checker accepts is lowered without a failed assertion: every name is
\* known when it is used, operands have one size, break and continue are inside a loop, no
\* tree has an ErrorType left (docs/architecture.md:25: the assertions "shouldn't ever
\* make it to the logger or user").
AcceptedLowers ==
  phase = "lower" /\ generator.stop # "" => \E n \in ProgramNodes : Unsupported(n)

\* The BEGIN_FUNC of the function an instruction is in; 0 outside functions.
FunctionAt(i) ==
  Max({0} \cup {b \in 1 .. i : /\ Instr(b).op = "BEGIN_FUNC"
                                /\ \A e \in b .. i - 1 : Instr(e).op # "END_FUNC"})
\* The operands that belong to one function: registers, labels, local variables.
Locals(i) ==
  {o \in Range(Mentioned(i)) : o.k \in {"reg", "label", "hidden"} \/ (o.k = "var" /\ o.s # 0)}
\* A function of the IR is closed: each label it jumps to is defined once and inside it, and
\* it shares no register and no local variable with another, however loops, switches,
\* short circuits and scopes are nested (new_label, new_temp_reg, make_ir_var_name).
FunctionsClosed ==
  phase = "run" /\ machine.turns = 0 =>
    LET code == generator.code
        places(label) == {i \in DOMAIN code : Instr(i).op = "LABEL" /\ Instr(i).dst = label}
        labels == {o \in UNION {Locals(i) : i \in DOMAIN code} : o.k = "label"}
        at == [i \in DOMAIN code |-> FunctionAt(i)]
        within == [f \in Range(at) |-> UNION {Locals(i) : i \in {j \in DOMAIN code : at[j] = f}}]
    IN  /\ \A l \in labels : Cardinality(places(l)) = 1
        /\ \A f, h \in DOMAIN within : f # h => within[f] \cap within[h] = {}

-------------------------------------------------------------------------------
\* Fields lie in a room of the given size one behind the other, aligned.
Fits(fields, bytes, align) ==
  LET tab == checker.tab
      l(i) == Layout(tab, fields[i].t)
  IN  /\ bytes % align = 0
      /\ \A i \in DOMAIN fields :
           /\ fields[i].off % l(i).align = 0 /\ align % l(i).align = 0
           /\ fields[i].off + l(i).bytes <= (IF i < Len(fields) THEN fields[i + 1].off ELSE bytes)
StructFits(t) == LET s == Layout(checker.tab, t) IN Fits(s.fields, s.bytes, s.align)
EnumFits(t) ==
  LET tab == checker.tab
      e == Layout(tab, t)
      payload(i) == PayloadStruct(t, e.variants[i].n)
      start == PayloadOffset(tab, t)
  IN  \A i \in DOMAIN e.variants : e.variants[i].payload =>
        /\ StructFits(payload(i))
        /\ start >= TagBytes /\ start % Layout(tab, payload(i)).align = 0
        /\ start + Bytes(tab, payload(i)) <= e.bytes
        /\ e.align % Layout(tab, payload(i)).align = 0

TypeNodes == {i \in DOMAIN program : program[i].k \in {"StructDecl", "OpaqueStruct", "EnumDecl"}}
NameAt(i) == program[i].c[1].x
DeclFits(i) ==
  CASE program[i].k = "StructDecl" -> StructFits(Named(<<NameAt(i)>>, 0))
    [] program[i].k = "EnumDecl" -> EnumFits(Enum(<<NameAt(i)>>, 0))
    [] OTHER -> TRUE
\* The layouts the later phases use, for every struct and enum of an accepted program:
\* fields aligned, apart and inside the struct, payloads behind the tag and inside the
\* enum (docs/syntax.md:113: "the padding system that C uses"), also where a type is used
\* before it is defined (parser/parser.cpp:291: "size will be re-evaluated in the type
\* checker to handle other nested struct type sizes that need to be resolved").
LayoutSound == phase = "lower" /\ lowered = 0 => \A i \in TypeNodes : DeclFits(i)

\* The types of the fields that the i-th node declares.
FieldTypes(i) == {n.c[3] : n \in {m \in NodesOf(program[i]) : m.k = "Field"}}
\* No later node declares the type again, and those it is made of come before it.
InOrder(i) ==
  /\ \A j \in TypeNodes : j > i => NameAt(j) # NameAt(i)
  /\ \A t \in FieldTypes(i), j \in TypeNodes : t.n = <<NameAt(j)>> => j < i

\* What is immutable keeps its value: no accepted program, once run, assigns a second time
\* to a variable, a parameter or an object made by new that was not declared mut, be it by
\* its name, a field of it, or a pointer (docs/syntax.md:102 "Immutable. Cannot be
\* modified."; get_lvalue_type_if_mutable and the mutability of pointers).
ImmutableKept == phase = "lower" /\ lowered = 0 => Meaning.flow # "immutable"

Behaves(m) == m.flow = "exit" => machine.status = "exit" /\ machine.out = m.out

===============================================================================
