-------------------------- MODULE PreprocessorMeaning -------------------------
(***************************************************************************)
(* What the preprocessor's output means: the lines of the main file with   *)
(* every #include line replaced by the lines of the file, the first time   *)
(* it is reached, and then one pass over the lines that collects and       *)
(* expands the macros.                                                     *)
(***************************************************************************)
EXTENDS Preprocessor, SequencesExt

\* The lines of a file: its tokens by row.
RowsOf(ts) == {ts[k].row : k \in DOMAIN ts}
Line(ts, row) == SelectSeq(ts, LAMBDA t : t.row = row)
Lines(ts) == [k \in 1 .. Cardinality(RowsOf(ts)) |->
                Line(ts, CHOOSE r \in RowsOf(ts) :
                           Cardinality({q \in RowsOf(ts) : q <= r}) = k)]

IsDirective(line, name) == Len(line) >= 2 /\ line[1].type = "hash" /\ line[2].lexeme = name

\* Inclusion alone: lines in, lines out, and the files seen on the way.
RECURSIVE Splice(_, _, _)
Splice(lines, out, seen) ==
  IF lines = <<>> THEN [lines |-> out, seen |-> seen]
  ELSE LET line == Head(lines)
           f == Resolve[line[3].lexeme]
           inner == Splice(Lines(source[f]), <<>>, seen \cup {f})
       IN  CASE ~IsDirective(line, "include") -> Splice(Tail(lines), Append(out, line), seen)
             [] IsDirective(line, "include") /\ f \in seen -> Splice(Tail(lines), out, seen)
             [] OTHER -> Splice(Tail(lines), out \o inner.lines, inner.seen)

\* Macros alone: one pass over the lines.
ExpandLine(acc, line) ==
  IF IsDirective(line, "define")
  THEN [acc EXCEPT !.macros[line[3].lexeme] = SubSeq(line, 4, Len(line))]
  ELSE [acc EXCEPT !.out = @ \o FlattenSeq([k \in DOMAIN line |->
          IF line[k].type = "ident" /\ acc.macros[line[k].lexeme] # Undefined
          THEN acc.macros[line[k].lexeme] ELSE <<line[k]>>])]
Meaning ==
  FoldLeft(ExpandLine, [macros |-> [n \in Identifiers |-> Undefined], out |-> <<>>],
           Splice(Lines(source[Main]), <<>>, {}).lines).out

\* Sources in which each directive is alone and complete on its line.
WellFormed ==
  \A f \in Files : \A k \in DOMAIN Lines(source[f]) :
    LET line == Lines(source[f])[k]
    IN  line[1].type = "hash" =>
          /\ Len(line) >= 3
          /\ \/ IsDirective(line, "define") /\ line[3].type = "ident"
             \/ IsDirective(line, "include") /\ line[3].type = "string" /\ Len(line) = 3

\* process interleaves inclusion and expansion; its result is the same as that of
\* doing them one after the other, so that a macro is known from its definition on
\* in every file, and an included file's definitions hold in the including one.
ResultIsMeaning ==
  ~Running /\ ~errors /\ WellFormed => result = Append(Meaning, EOF_TOK)
===============================================================================
