----------------------------- MODULE Preprocessor -----------------------------
(***************************************************************************)
(* Preprocessor::process and its handlers (preprocessor/preprocessor.cpp), *)
(* with SourceLoader::load_file.  process calls itself for an included     *)
(* file; calls is the stack of its activations and a step is one turn of   *)
(* the token loop of the innermost one.  Macros and the set of included    *)
(* files are shared by all activations.                                    *)
(***************************************************************************)
EXTENDS Integers, Sequences, FiniteSetsExt

CONSTANTS
  Files,        \* canonical paths; load_file gives each of them one id
  Main,         \* the file the driver has loaded and lexed
  Names,        \* names in #include directives
  Resolve,      \* find_include_file and canonical: a file, or NoFile
  NoFile,
  Idents,       \* identifiers other than define and include
  Sources       \* the contents to check: functions from Files to token sequences

ASSUME FilesAssumption == Main \in Files /\ NoFile \notin Files
ASSUME ResolveAssumption == Resolve \in [Names -> Files \cup {NoFile}]

Identifiers == Idents \cup {"define", "include"}

\* A token: type, lexeme (or string value) and the row of its span.
Token == [type : {"hash", "ident", "string", "other", "eof"},
          lexeme : Identifiers \cup Names \cup {""}, row : Nat]
EOF_TOK == [type |-> "eof", lexeme |-> "", row |-> 0]

ASSUME SourcesAssumption ==
  \A s \in Sources : /\ s \in [Files -> Seq(Token)]
                     /\ \A f \in Files : \A k \in 1 .. Len(s[f]) : s[f][k].type # "eof"

VARIABLES
  source,             \* the contents of the files
  m_macros,           \* replacement tokens of each macro, or Undefined
  m_included_files,   \* ids of the files that #include has entered
  calls,              \* activations of process, innermost last
  errors,             \* the logger has an error
  lexed,              \* how often each file has been tokenized and processed
  result              \* what the outermost process returned

vars == <<source, m_macros, m_included_files, calls, errors, lexed, result>>

Undefined == <<EOF_TOK>>        \* no replacement contains the end of a file

\* Lexer::tokenize ends every file with one EOF token.
tokenize(f) == Append(source[f], EOF_TOK)

Activation(f) == [file |-> f, i |-> 1, output |-> <<>>]

Running == calls # <<>>
Top == calls[Len(calls)]
tokens == tokenize(Top.file)
Tok(k) == IF k <= Len(tokens) THEN tokens[k] ELSE EOF_TOK
Directive == IF Tok(Top.i).type = "hash" /\ Tok(Top.i + 1).type = "ident"
             THEN Tok(Top.i + 1).lexeme ELSE "none"

\* Mutants: the loop index wraps; it goes back to the directive.
RestOfLine_wraps(k, row) == 0
RestOfLine_stuck(k, row) == Top.i

\* The loops that stop at the first token of another row or at the end.
RestOfLine(k, row) ==
  Min({j \in k .. Len(tokens) : tokens[j].type = "eof" \/ tokens[j].row # row})

\* The innermost activation goes on at token k, having appended out.
Continue(k, out) ==
  calls' = [calls EXCEPT ![Len(calls)].i = k, ![Len(calls)].output = @ \o out]

Report == errors' = TRUE /\ UNCHANGED <<source, m_macros, m_included_files, lexed, result>>

-------------------------------------------------------------------------------
Init ==
  /\ source \in Sources
  /\ m_macros = [n \in Identifiers |-> Undefined] /\ m_included_files = {}
  /\ calls = <<Activation(Main)>> /\ errors = FALSE
  /\ lexed = [f \in Files |-> IF f = Main THEN 1 ELSE 0] /\ result = <<>>

\* A `#` that starts no directive is reported and dropped.
unknown_directive ==
  /\ Running /\ Tok(Top.i).type = "hash" /\ Directive \notin {"define", "include"}
  /\ Continue(Top.i + 1, <<>>) /\ Report

\* Mutant: emplace, which keeps an earlier definition.
handle_define_keeps_first ==
  /\ Running /\ Directive = "define"
  /\ LET i == Top.i + 2
         name == Tok(i).lexeme
         end == RestOfLine(i + 1, Tok(Top.i).row)
     IN  IF Tok(i).type # "ident"
         THEN Continue(i + 1, <<>>) /\ Report
         ELSE /\ Continue(end, <<>>)
              /\ m_macros' = IF m_macros[name] # Undefined THEN m_macros
                             ELSE [m_macros EXCEPT ![name] = SubSeq(tokens, i + 1, end - 1)]
              /\ UNCHANGED <<source, m_included_files, errors, lexed, result>>

handle_define ==
  /\ Running /\ Directive = "define"
  /\ LET i == Top.i + 2
         name == Tok(i).lexeme
         end == RestOfLine(i + 1, Tok(Top.i).row)
     IN  IF Tok(i).type # "ident"
         THEN Continue(i + 1, <<>>) /\ Report
         ELSE /\ Continue(end, <<>>)
              /\ m_macros' = [m_macros EXCEPT ![name] = SubSeq(tokens, i + 1, end - 1)]
              /\ UNCHANGED <<source, m_included_files, errors, lexed, result>>

\* handle_include up to the recursive call, and without one.  The token after the
\* rest of the line is where the loop goes on once the included file is done.
bad_include ==
  /\ Running /\ Directive = "include"
  /\ Tok(Top.i + 2).type = "string" => Resolve[Tok(Top.i + 2).lexeme] = NoFile
  /\ Continue(Top.i + 3, <<>>) /\ Report

Includes(f) ==
  /\ Running /\ Directive = "include" /\ Tok(Top.i + 2).type = "string"
  /\ f = Resolve[Tok(Top.i + 2).lexeme] /\ f # NoFile
AfterInclude == RestOfLine(Top.i + 2, Tok(Top.i).row)

\* load_file fails: a file that was not loaded before cannot be opened.
failed_include ==
  /\ \E f \in Files \ (m_included_files \cup {Main}) : Includes(f)
  /\ Continue(AfterInclude, <<>>) /\ Report

repeated_include ==
  /\ \E f \in m_included_files : Includes(f)
  /\ Continue(AfterInclude, <<>>)
  /\ UNCHANGED <<source, m_macros, m_included_files, errors, lexed, result>>

\* Mutant: the file is entered in m_included_files once it has been processed.
handle_include_late ==
  \E f \in Files \ m_included_files :
    /\ Includes(f)
    /\ calls' = Append([calls EXCEPT ![Len(calls)].i = AfterInclude], Activation(f))
    /\ lexed' = [lexed EXCEPT ![f] = @ + 1]
    /\ UNCHANGED <<source, m_macros, m_included_files, errors, result>>

handle_include ==
  \E f \in Files \ m_included_files :
    /\ Includes(f)
    /\ m_included_files' = m_included_files \cup {f}
    /\ calls' = Append([calls EXCEPT ![Len(calls)].i = AfterInclude], Activation(f))
    /\ lexed' = [lexed EXCEPT ![f] = @ + 1]
    /\ UNCHANGED <<source, m_macros, errors, result>>

\* Macro expansion, without rescanning; any other token is passed through.
Expansion(t) ==
  IF t.type = "ident" /\ t.lexeme \in Identifiers /\ m_macros[t.lexeme] # Undefined
  THEN m_macros[t.lexeme] ELSE <<t>>
expand ==
  /\ Running /\ Top.i <= Len(tokens) /\ Tok(Top.i).type # "hash"
  /\ Continue(Top.i + 1, Expansion(Tok(Top.i)))
  /\ UNCHANGED <<source, m_macros, m_included_files, errors, lexed, result>>

\* Mutant: the EOF token of an included file stays.
WithoutEOF_keeps(out) == out
WithoutEOF(out) ==
  IF out # <<>> /\ out[Len(out)].type = "eof" THEN SubSeq(out, 1, Len(out) - 1) ELSE out

\* process returns, to handle_include or to the driver.
return ==
  /\ Running /\ Top.i > Len(tokens)
  /\ LET rest == SubSeq(calls, 1, Len(calls) - 1)
     IN  IF rest = <<>>
         THEN calls' = <<>> /\ result' = Top.output
         ELSE /\ calls' = [rest EXCEPT ![Len(rest)].output = @ \o WithoutEOF(Top.output)]
              /\ UNCHANGED result
  /\ UNCHANGED <<source, m_macros, m_included_files, errors, lexed>>

Next ==
  \/ unknown_directive \/ handle_define \/ bad_include \/ failed_include
  \/ repeated_include \/ handle_include \/ expand \/ return

Spec == Init /\ [][Next]_vars
\* One thread runs process until it returns.
FairSpec == Spec /\ WF_vars(Next)

-------------------------------------------------------------------------------
\* Every variable has its type, and the activations are somewhere in their files.
TypeOK ==
  /\ source \in [Files -> Seq(Token)]
  /\ m_macros \in [Identifiers -> Seq(Token)] /\ m_included_files \subseteq Files
  /\ errors \in BOOLEAN /\ lexed \in [Files -> Nat]
  /\ calls \in Seq([file : Files, i : Nat \ {0}, output : Seq(Token)])
  /\ result \in Seq(Token)

\* Idempotent inclusion: whatever cycles and diamonds the #include directives
\* form, and under whatever names they reach a file, a file other than the main
\* one is processed at most once, and a second time only the main one.
IncludedAtMostOnce ==
  \A f \in Files : lexed[f] <= IF f = Main THEN 2 ELSE 1

\* docs/architecture.md: the preprocessor "will only include a given file once,
\* without the need for guards".  No file is processed twice (handle_include).
IncludedOnce == \A f \in Files : lexed[f] <= 1

\* Without errors the parser gets one EOF token, as the last one.
EndsWithEOF ==
  ~Running /\ ~errors =>
    /\ result # <<>>
    /\ \A k \in 1 .. Len(result) : result[k].type = "eof" <=> k = Len(result)

\* process returns, cyclic includes and malformed directives notwithstanding.
Terminates == <>~Running
===============================================================================
