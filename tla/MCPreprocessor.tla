---------------------------- MODULE MCPreprocessor ----------------------------
(***************************************************************************)
(* Three files, two names for one of them, one macro that is redefined.    *)
(***************************************************************************)
EXTENDS PreprocessorMeaning

CONSTANT MaxLines       \* bound: lines of the main file and of "f"

T(type, lexeme) == [type |-> type, lexeme |-> lexeme]
Hash == T("hash", "")
Inc(name) == <<Hash, T("ident", "include"), T("string", name)>>
Def == <<Hash, T("ident", "define"), T("ident", "m"), T("other", "")>>
DefN == <<Hash, T("ident", "define"), T("ident", "m"), T("ident", "n")>>
Use == <<T("ident", "m"), T("other", "")>>

LinesOfMain ==
  {Inc("f"), Inc("g"), Inc("missing"), Def, Use, <<Hash, T("ident", "include")>>,
   <<T("string", "f")>>}
LinesOfF == {Inc("main"), Inc("g"), Inc("./f"), DefN, Use, <<Hash, T("ident", "define")>>}
LinesOfG == {Inc("f"), Def, Use, <<Hash, T("other", "")>>}

\* A file from its lines: every token gets the number of its line.
File(lines) ==
  FlattenSeq([k \in DOMAIN lines |-> [j \in DOMAIN lines[k] |->
    [type |-> lines[k][j].type, lexeme |-> lines[k][j].lexeme, row |-> k]]])
FilesOf(L, n) == {File(s) : s \in UNION {[1 .. k -> L] : k \in 0 .. n}}

MCFiles == {"main", "f", "g"}
MCSources ==
  {[x \in MCFiles |-> CASE x = "main" -> a [] x = "f" -> b [] OTHER -> c] :
     a \in FilesOf(LinesOfMain, MaxLines), b \in FilesOf(LinesOfF, MaxLines),
     c \in FilesOf(LinesOfG, 1)}
MCNames == {"main", "f", "./f", "g", "missing"}
MCResolve == [n \in MCNames |-> CASE n = "./f" -> "f" [] n = "missing" -> NoFile [] OTHER -> n]
===============================================================================
