---------------------------- MODULE ParserGrammar -----------------------------
(***************************************************************************)
(* What the parser should accept: the grammar of docs/grammar.txt and of   *)
(* the comments above the parse functions, as data, and a recogniser that  *)
(* tries every alternative instead of looking ahead.                       *)
(*                                                                         *)
(* Where the two descriptions differ the comment next to the code is used: *)
(* <Program> has <EnumDecl>, the fields of a variant are separated by      *)
(* commas, and an extern function ends with ';'.                           *)
(***************************************************************************)
EXTENDS Parser

E(op, x, c) == [op |-> op, x |-> x, c |-> c]
Tok(x) == E("token", x, <<>>)
N(x) == E("rule", x, <<>>)
Sq(c) == E("seq", "", c)
Alt(c) == E("alt", "", c)
Rep(e) == E("rep", "", <<e>>)
May(e) == E("alt", "", <<e, Sq(<<>>)>>)
Comma(e) == Sq(<<e, Rep(Sq(<<Tok(","), e>>))>>)
OneOf(xs) == Alt([i \in DOMAIN xs |-> Tok(xs[i])])
Id == Tok("IDENTIFIER")
Inits == Sq(<<Tok("{"), May(Comma(Sq(<<Id, Tok("="), N("Expr")>>))), Tok("}")>>)
Fields == Comma(Sq(<<Id, Tok(":"), N("Type")>>))
Prefix == May(OneOf(<<"mut", "imm">>))
Paren(e) == Sq(<<Tok("("), e, Tok(")")>>)
Angle(e) == Sq(<<Tok("<"), e, Tok(">")>>)

\* The binary levels as one: their precedence does not change which programs are sentences.
BinaryOps == <<"*", "/", "%", "+", "-", "<<", ">>", "<", ">", "<=", ">=",
               "==", "!=", "&", "^", "|", "and", "or">>

Rules ==
  [Program |-> Sq(<<Rep(Alt(<<N("StructDecl"), N("EnumDecl"), N("FunctionDecl"), N("Stmt")>>)),
                    Tok("EOF")>>),
   StructDecl |-> Sq(<<Tok("struct"), Id,
                       Alt(<<Sq(<<Tok("{"), May(Fields), Tok("}")>>), Tok(";")>>)>>),
   EnumDecl |-> Sq(<<Tok("enum"), Id, Tok("{"), May(Comma(N("Variant"))), Tok("}")>>),
   Variant |-> Sq(<<Id, May(Sq(<<Tok("="), Tok("INT_LITERAL")>>)),
                    May(Sq(<<Tok("{"), May(Fields), Tok("}")>>))>>),
   FunctionDecl |-> Alt(<<Sq(<<N("Signature"), Alt(<<N("Block"), Tok(";")>>)>>),
                          Sq(<<Tok("extern"), N("Signature"), Tok(";")>>)>>),
   Signature |-> Sq(<<Tok("func"), Id, Paren(May(Comma(N("Param")))),
                      May(Sq(<<Tok("returns"), Paren(Sq(<<Id, Tok(":"), N("Type")>>))>>))>>),
   Param |-> Sq(<<Prefix, Id, Tok(":"), N("Type")>>),
   Block |-> Sq(<<Tok("{"), Rep(N("Stmt")), Tok("}")>>),
   Stmt |-> Alt(<<Sq(<<N("VarDecl"), Tok(";")>>), N("If"), N("For"), N("Block"),
                  Sq(<<Tok("while"), Paren(N("Expr")), N("Block")>>), N("Switch"),
                  Sq(<<OneOf(<<"read", "free">>), N("Expr"), Tok(";")>>),
                  Sq(<<OneOf(<<"print", "error">>), Comma(N("Expr")), Tok(";")>>),
                  Sq(<<OneOf(<<"return", "exit">>), May(N("Expr")), Tok(";")>>),
                  Sq(<<OneOf(<<"break", "continue">>), Tok(";")>>),
                  Sq(<<N("Expr"), Tok(";")>>),
                  Sq(<<Tok("asm"), N("Braces"), Tok(";")>>)>>),
   Braces |-> Sq(<<Tok("{"), Rep(Alt(<<N("Braces"), Tok("any")>>)), Tok("}")>>),
   VarDecl |-> Sq(<<Prefix, Id,
                    Alt(<<Sq(<<Tok(":"), N("Type"), May(Sq(<<Tok("="), N("Expr")>>))>>),
                          Sq(<<Tok(":="), N("Expr")>>)>>)>>),
   If |-> Sq(<<Tok("if"), Paren(N("Expr")), N("Block"),
               May(Sq(<<Tok("else"), Alt(<<N("Block"), N("If")>>)>>))>>),
   For |-> Sq(<<Tok("for"), Tok("("), May(Alt(<<N("VarDecl"), N("Expr")>>)), Tok(";"),
                May(N("Expr")), Tok(";"), May(N("Expr")), Tok(")"), N("Block")>>),
   Switch |-> Sq(<<Tok("switch"), Paren(N("Expr")), Tok("{"), Rep(N("Case")), Tok("}")>>),
   Case |-> Sq(<<Alt(<<Tok("default"), Sq(<<Tok("case"), N("Pattern")>>)>>), Tok(":"),
                 N("Block")>>),
   Pattern |-> Alt(<<Sq(<<Id, Tok("::"), Id, May(Paren(Id))>>),
                     Sq(<<Tok("value"), N("Expr")>>)>>),
   Expr |-> Sq(<<N("Unary"), Rep(Sq(<<OneOf(BinaryOps), N("Unary")>>)),
                 May(Sq(<<Tok("="), N("Expr")>>))>>),
   Unary |-> Alt(<<Sq(<<Tok("&"), Prefix, N("Unary")>>),
                   Sq(<<OneOf(<<"*", "!", "-">>), N("Unary")>>),
                   Sq(<<N("Primary"), Rep(N("Suffix"))>>)>>),
   Suffix |-> Alt(<<Sq(<<Tok("."), Id>>), Paren(May(Comma(N("Expr")))),
                    Sq(<<Tok("["), N("Expr"), Tok("]")>>)>>),
   Primary |-> Alt(<<OneOf(<<"INT_LITERAL", "FLOAT_LITERAL", "STRING_LITERAL", "CHAR_LITERAL",
                             "true", "false", "null", "IDENTIFIER">>),
                     Paren(N("Expr")), Sq(<<Id, Inits>>), Sq(<<Id, Tok("::"), Id, May(Inits)>>),
                     Sq(<<Tok("new"), Angle(Sq(<<Prefix, N("Type")>>)),
                          Alt(<<Sq(<<Tok("["), N("Expr"), Tok("]")>>), Paren(May(N("Expr")))>>)>>),
                     Sq(<<Tok("cast"), Angle(N("Type")), Paren(N("Expr"))>>),
                     Sq(<<Tok("sizeof"), Angle(N("Type"))>>)>>),
   Type |-> Alt(<<Tok("basic"), Id, Sq(<<Tok("ptr"), Angle(Sq(<<Prefix, N("Type")>>))>>),
                  Sq(<<Tok("func"), Paren(May(Comma(N("TypeParam")))), Tok("->"), N("Type")>>)>>),
   TypeParam |-> Sq(<<May(Sq(<<OneOf(<<"mut", "imm">>), Tok(":")>>)), N("Type")>>)]

-------------------------------------------------------------------------------
\* "value" takes no token: it keeps an enum match from being read as an enum literal.
\* Place 2i is before token i, place 2i + 1 inside it: behind the '>' of '>>' or '>='.
Step(x, i) ==
  LET tok == tokens[i \div 2].t
      half == i % 2 = 1
  IN  CASE ~half /\ (tok = x \/ (x = "any" /\ tok \notin {"{", "}", "EOF"})
                            \/ (x = "basic" /\ is_basic_type(tok))) -> {i + 2}
        [] ~half /\ x = ">" /\ tok \in {">>", ">="} -> {i + 1}
        [] half /\ ((tok = ">>" /\ x = ">") \/ (tok = ">=" /\ x = "=")) -> {i + 1}
        [] x = "value" /\ ~(tok = "IDENTIFIER" /\ tokens[i \div 2 + 1].t = "::") -> {i}
        [] OTHER -> {}

\* A reading of the tokens so far: the place it has come to and what is to follow there.
Reading(at, work) == [at |-> at, work |-> work]
Onward(r) ==
  LET e == r.work[1]
      rest == Tail(r.work)
  IN  CASE e.op = "token" -> {Reading(i, rest) : i \in Step(e.x, r.at)}
        [] e.op = "rule" -> {Reading(r.at, <<Rules[e.x]>> \o rest)}
        [] e.op = "seq" -> {Reading(r.at, e.c \o rest)}
        [] e.op = "alt" -> {Reading(r.at, <<e.c[k]>> \o rest) : k \in DOMAIN e.c}
        [] e.op = "rep" -> {Reading(r.at, rest), Reading(r.at, <<e.c[1], e>> \o rest)}

\* All readings make a step at a time, 2^k of them; last is the last place where one of
\* them looked for a token.
RECURSIVE ReadOn(_, _)
ReadOn(s, k) ==
  LET tokensAt == {r.at : r \in {q \in s.readings : q.work[1].op = "token"}}
      on == UNION {Onward(r) : r \in s.readings}
  IN  CASE s.readings = {} -> s
        [] s.readings # {} /\ k > 0 -> ReadOn(ReadOn(s, k - 1), k - 1)
        [] OTHER -> [readings |-> {r \in on : r.work # <<>>},
                     sentence |-> s.sentence \/ \E r \in on : r.work = <<>>,
                     last |-> Max({s.last} \cup tokensAt)]

MaxSteps == 12          \* 2^MaxSteps steps are enough for every input
Recognised ==
  ReadOn([readings |-> {Reading(2, <<N("Program")>>)}, sentence |-> FALSE, last |-> 2], MaxSteps)

-------------------------------------------------------------------------------
\* An error that depends on what a name is: only a struct name starts a struct literal,
\* and only an enum name is followed by '::'.
OnName(e) ==
  /\ e.at > 1 /\ tokens[e.at - 1].t = "IDENTIFIER"
  /\ tokens[e.at].t \in {"{", "::"} \/ has_struct(symtab, Name(tokens[e.at - 1]), 0)

\* The parser agrees with the grammar on the tokens: a program without errors is a
\* sentence, and a syntax error that is reported first is at the first token that no
\* sentence has there.
Agrees ==
  LET recognised == Recognised IN
  /\ recognised.readings = {}
  /\ errors = <<>> => recognised.sentence
  /\ errors # <<>> /\ errors[1].k = "syntax" /\ ~OnName(errors[1]) =>
       ~recognised.sentence /\ errors[1].at = recognised.last \div 2
===============================================================================
