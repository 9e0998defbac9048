-------------------------- MODULE PreprocessorProofs --------------------------
(***************************************************************************)
(* Idempotent inclusion, type correctness and the one EOF token at the end *)
(* of the output, for all files, names and contents.                       *)
(***************************************************************************)
EXTENDS Preprocessor, TLAPS, WellFoundedInduction

\* Leaves that name no prover go to the SMT solver.
USE SMTT(60)

\* A file is processed once for each of the two ways into process: the driver's
\* call for the main file, and the #include that enters it in m_included_files.
Processed(f) == (IF f = Main THEN 1 ELSE 0) + (IF f \in m_included_files THEN 1 ELSE 0)
IInv == lexed \in [Files -> Nat] /\ \A f \in Files : lexed[f] = Processed(f)

\* Nothing has been included when the driver calls process.
LEMMA InitInv == Init => IInv
BY DEF Init, IInv, Processed

\* Only handle_include counts, and it counts what it enters in m_included_files.
LEMMA NextInv == IInv /\ [Next]_vars => IInv'
<1> SUFFICES ASSUME IInv, [Next]_vars PROVE IInv'
  OBVIOUS
<1>1. CASE UNCHANGED <<m_included_files, lexed>>
  BY <1>1 DEF IInv, Processed
<1>2. CASE handle_include
  <2>1. PICK f \in Files \ m_included_files :
          /\ m_included_files' = m_included_files \cup {f}
          /\ lexed' = [lexed EXCEPT ![f] = @ + 1]
    BY <1>2, Zenon DEF handle_include
  <2>2. ASSUME NEW g \in Files PROVE lexed'[g] = Processed(g)'
    <3>1. CASE g = f
      BY <2>1, <3>1 DEF IInv, Processed
    <3>2. CASE g # f
      BY <2>1, <3>2 DEF IInv, Processed
    <3> QED
      BY <3>1, <3>2
  <2>3. lexed' \in [Files -> Nat]
    BY <2>1 DEF IInv
  <2> QED
    BY <2>2, <2>3 DEF IInv
<1>3. CASE \/ unknown_directive \/ handle_define \/ bad_include \/ failed_include
           \/ repeated_include \/ expand \/ return \/ UNCHANGED vars
  BY <1>1, <1>3 DEF unknown_directive, handle_define, bad_include, failed_include,
       repeated_include, expand, return, Report, vars
<1> QED
  BY <1>2, <1>3 DEF Next

\* Whatever the files contain, #include processes no file twice, and the main file
\* at most once more.
THEOREM Idempotent == Spec => []IncludedAtMostOnce
<1>1. IInv => IncludedAtMostOnce
  BY DEF IInv, Processed, IncludedAtMostOnce
<1> QED
  BY <1>1, InitInv, NextInv, PTL DEF Spec

-------------------------------------------------------------------------------
\* A sequence without an EOF token, and one with an EOF token at its end only.
NoEOF(s) == \A k \in 1 .. Len(s) : s[k].type # "eof"
OneEOF(s) == s # <<>> /\ \A k \in 1 .. Len(s) : s[k].type = "eof" <=> k = Len(s)

\* The index of a file's EOF token.
EndOf(f) == Len(source[f]) + 1

\* An activation whose loop is at the EOF token or before it has not yet appended one;
\* the loop ends right after the EOF token, never further out.
Placed(c) ==
  /\ c.i <= EndOf(c.file) + 1
  /\ IF c.i <= EndOf(c.file) THEN NoEOF(c.output) ELSE OneEOF(c.output)

\* The activations that wait for an included file have their EOF token still to come.
Waiting == \A a \in 1 .. Len(calls) - 1 : calls[a].i <= EndOf(calls[a].file)

\* EndsWithEOF, made inductive: the files and the macros are free of EOF tokens, and
\* as long as no directive was malformed every activation is where Placed says.
Quiet ==
  /\ \A a \in 1 .. Len(calls) : Placed(calls[a])
  /\ Waiting
  /\ calls = <<>> => OneEOF(result)
EInv ==
  /\ TypeOK
  /\ \A f \in Files : NoEOF(source[f])
  /\ \A n \in Identifiers : m_macros[n] = Undefined \/ NoEOF(m_macros[n])
  /\ ~errors => Quiet

\* A set of naturals that is not empty has a least element: Min is one of the set.
LEMMA MinOf ==
  ASSUME NEW S, S \subseteq Nat, S # {}
  PROVE  Min(S) \in S /\ \A y \in S : Min(S) <= y
<1>1. \E x \in S : \A y \in S : ~(<<y, x>> \in OpToRel(<, Nat))
  <2> DEFINE R == OpToRel(<, Nat)
  <2>1. IsWellFoundedOn(R, Nat)
    BY NatLessThanWellFounded, Zenon
  <2> HIDE DEF R
  <2>2. \E x \in S : \A y \in S : ~(<<y, x>> \in R)
    BY <2>1, WFMin, Zenon
  <2> QED
    BY <2>2, Zenon DEF R
<1>2. PICK x \in S : \A y \in S : ~(<<y, x>> \in OpToRel(<, Nat))
  BY <1>1, Zenon
<1>3. \A y \in S : ~(y < x)
  BY <1>2, Zenon DEF OpToRel
<1>4. \A y \in S : x <= y
  BY <1>3
<1> QED
  BY <1>4, Zenon DEF Min

\* Appending what has no EOF token, or one at its end, to what has none.
LEMMA ConcatEOF ==
  ASSUME NEW s \in Seq(Token), NEW t \in Seq(Token), NoEOF(s)
  PROVE  /\ s \o t \in Seq(Token)
         /\ NoEOF(t) => NoEOF(s \o t)
         /\ OneEOF(t) => OneEOF(s \o t)
<1>1. /\ s \o t \in Seq(Token) /\ Len(s) \in Nat /\ Len(t) \in Nat
      /\ Len(s \o t) = Len(s) + Len(t)
      /\ \A k \in 1 .. Len(s) + Len(t) :
           (s \o t)[k] = IF k <= Len(s) THEN s[k] ELSE t[k - Len(s)]
  OBVIOUS
<1>2. ASSUME NEW k \in 1 .. Len(s) + Len(t)
      PROVE  \/ k \in 1 .. Len(s) /\ (s \o t)[k] = s[k]
             \/ k - Len(s) \in 1 .. Len(t) /\ k > Len(s) /\ (s \o t)[k] = t[k - Len(s)]
  BY <1>1
<1>3. NoEOF(t) => NoEOF(s \o t)
  BY <1>1, <1>2 DEF NoEOF
<1>4. ASSUME OneEOF(t) PROVE OneEOF(s \o t)
  <2>1. Len(t) > 0
    BY <1>1, <1>4 DEF OneEOF
  <2>2. s \o t # <<>>
    BY <1>1, <2>1
  <2>3. ASSUME NEW k \in 1 .. Len(s) + Len(t)
        PROVE  (s \o t)[k].type = "eof" <=> k = Len(s) + Len(t)
    <3>1. CASE k \in 1 .. Len(s) /\ (s \o t)[k] = s[k]
      BY <1>1, <2>1, <3>1 DEF NoEOF
    <3>2. CASE k - Len(s) \in 1 .. Len(t) /\ (s \o t)[k] = t[k - Len(s)]
      <4>1. t[k - Len(s)].type = "eof" <=> k - Len(s) = Len(t)
        BY <1>4, <3>2 DEF OneEOF
      <4> QED
        BY <1>1, <3>2, <4>1
    <3> QED
      BY <1>2, <3>1, <3>2
  <2> QED
    BY <1>1, <2>2, <2>3 DEF OneEOF
<1> QED
  BY <1>1, <1>3, <1>4

\* A part of a sequence is free of EOF tokens when they lie elsewhere.
LEMMA PartEOF ==
  ASSUME NEW s \in Seq(Token), NEW a \in Nat \ {0}, NEW b \in Nat, b <= Len(s),
         \A j \in a .. b : s[j].type # "eof"
  PROVE  SubSeq(s, a, b) \in Seq(Token) /\ NoEOF(SubSeq(s, a, b))
<1> DEFINE p == SubSeq(s, a, b)
<1>1. /\ p \in Seq(Token) /\ Len(p) = IF a <= b THEN b - a + 1 ELSE 0
      /\ \A k \in 1 .. Len(p) : p[k] = s[a + k - 1]
  OBVIOUS
<1>2. ASSUME NEW k \in 1 .. Len(p) PROVE p[k].type # "eof"
  <2> HIDE DEF p
  <2>1. a + k - 1 \in a .. b
    BY <1>1
  <2> QED
    BY <1>1, <2>1
<1> QED
  BY <1>1, <1>2 DEF NoEOF

\* A prefix of a sequence.
LEMMA PrefixSeq ==
  ASSUME NEW S, NEW s \in Seq(S), NEW m \in Nat, m <= Len(s)
  PROVE  /\ SubSeq(s, 1, m) \in Seq(S) /\ Len(SubSeq(s, 1, m)) = m
         /\ \A a \in 1 .. m : SubSeq(s, 1, m)[a] = s[a]
<1> DEFINE p == SubSeq(s, 1, m)
<1>1. p \in Seq(S) /\ Len(p) = m
  OBVIOUS
<1>2. \A a \in 1 .. m : p[a] = s[1 + a - 1]
  OBVIOUS
<1> QED
  BY <1>1, <1>2

\* handle_include takes the EOF token off what process returned.
LEMMA WithoutEOFLemma ==
  ASSUME NEW out \in Seq(Token)
  PROVE  WithoutEOF(out) \in Seq(Token) /\ (OneEOF(out) => NoEOF(WithoutEOF(out)))
<1> DEFINE n == Len(out)
<1>1. n \in Nat
  OBVIOUS
<1>2. CASE out # <<>> /\ out[n].type = "eof"
  <2>1. n >= 1 /\ WithoutEOF(out) = SubSeq(out, 1, n - 1)
    BY <1>2 DEF WithoutEOF
  <2>2. SubSeq(out, 1, n - 1) \in Seq(Token)
    BY <2>1
  <2>3. ASSUME OneEOF(out) PROVE NoEOF(WithoutEOF(out))
    <3>1. \A j \in 1 .. n - 1 : out[j].type # "eof"
      BY <1>1, <2>3 DEF OneEOF
    <3> QED
      BY <1>1, <2>1, <3>1, PartEOF
  <2> QED
    BY <2>1, <2>2, <2>3
<1>3. CASE ~(out # <<>> /\ out[n].type = "eof")
  <2>1. ~OneEOF(out)
    BY <1>1, <1>3 DEF OneEOF
  <2> QED
    BY <1>3, <2>1 DEF WithoutEOF
<1> QED
  BY <1>2, <1>3

-------------------------------------------------------------------------------
ActivationSet == [file : Files, i : Nat \ {0}, output : Seq(Token)]

\* What process iterates over: the file's tokens, and the EOF token as the last one.
LEMMA TokensLemma ==
  ASSUME EInv, Running
  PROVE  /\ Top \in ActivationSet /\ Len(calls) \in Nat \ {0}
         /\ tokens \in Seq(Token) /\ Len(tokens) \in Nat \ {0}
         /\ Len(tokens) = EndOf(Top.file)
         /\ \A k \in 1 .. Len(tokens) : tokens[k].type = "eof" <=> k = Len(tokens)
         /\ \A k \in Nat \ {0} : Tok(k) \in Token
<1>1. calls \in Seq(ActivationSet) /\ calls # <<>>
  BY DEF EInv, TypeOK, ActivationSet, Running
<1>2. Len(calls) \in Nat \ {0} /\ Top \in ActivationSet
  BY <1>1 DEF Top
<1>3. Top.file \in Files
  BY <1>2 DEF ActivationSet
<1> DEFINE s == source[Top.file]
<1>4. s \in Seq(Token) /\ NoEOF(s)
  BY <1>3 DEF EInv, TypeOK
<1>5. EOF_TOK \in Token /\ EOF_TOK.type = "eof"
  BY DEF EOF_TOK, Token
<1>6. tokens = Append(s, EOF_TOK)
  BY DEF tokens, tokenize
<1> HIDE DEF s
<1>7. /\ tokens \in Seq(Token) /\ Len(tokens) = Len(s) + 1 /\ Len(s) \in Nat
      /\ \A k \in 1 .. Len(s) : tokens[k] = s[k]
      /\ tokens[Len(s) + 1] = EOF_TOK
  BY <1>4, <1>5, <1>6
<1>8. ASSUME NEW k \in 1 .. Len(tokens) PROVE tokens[k].type = "eof" <=> k = Len(tokens)
  <2>1. CASE k \in 1 .. Len(s)
    BY <1>4, <1>7, <2>1 DEF NoEOF
  <2>2. CASE k = Len(s) + 1
    BY <1>5, <1>7, <2>2
  <2> QED
    BY <1>7, <2>1, <2>2
<1>9. ASSUME NEW k \in Nat \ {0} PROVE Tok(k) \in Token
  BY <1>5, <1>7 DEF Tok
<1>10. Len(tokens) = EndOf(Top.file)
  BY <1>7 DEF EndOf, s
<1> QED
  BY <1>2, <1>7, <1>8, <1>9, <1>10

\* A token that is not the EOF token lies before it.
LEMMA BeforeEOF ==
  ASSUME EInv, Running, NEW k \in Nat \ {0}, Tok(k).type # "eof"
  PROVE  k < Len(tokens) /\ Tok(k) = tokens[k]
<1>1. k <= Len(tokens) /\ Tok(k) = tokens[k]
  BY TokensLemma, Zenon DEF Tok, EOF_TOK
<1>2. k # Len(tokens)
  BY <1>1, TokensLemma
<1> QED
  BY <1>1, <1>2, TokensLemma

\* The loop over the rest of a line stops in the file, at the EOF token at the latest,
\* and passes over no EOF token.
LEMMA RestOfLineLemma ==
  ASSUME EInv, Running, NEW k \in Nat \ {0}, k <= Len(tokens), NEW row
  PROVE  /\ RestOfLine(k, row) \in k .. Len(tokens)
         /\ \A j \in k .. RestOfLine(k, row) - 1 : tokens[j].type # "eof"
<1> DEFINE S == {j \in k .. Len(tokens) : tokens[j].type = "eof" \/ tokens[j].row # row}
<1>1. Len(tokens) \in Nat \ {0} /\ tokens[Len(tokens)].type = "eof"
  BY TokensLemma
<1>2. S \subseteq Nat /\ Len(tokens) \in S
  BY <1>1
<1>3. RestOfLine(k, row) = Min(S)
  BY DEF RestOfLine
<1>4. Min(S) \in S /\ \A y \in S : Min(S) <= y
  <2> HIDE DEF S
  <2> QED
    BY <1>2, MinOf, Zenon
<1> DEFINE end == Min(S)
<1>5. end \in k .. Len(tokens)
  BY <1>4
<1>6. \A j \in k .. Len(tokens) : tokens[j].type = "eof" => end <= j
  BY <1>4
<1> HIDE DEF end
<1>7. ASSUME NEW j \in k .. end - 1 PROVE tokens[j].type # "eof"
  BY <1>1, <1>5, <1>6
<1> QED
  BY <1>3, <1>5, <1>7 DEF end

\* The innermost activation goes on: the others are as they were.
LEMMA ContinueLemma ==
  ASSUME EInv, Running, NEW k \in Nat \ {0}, NEW out \in Seq(Token), Continue(k, out)
  PROVE  /\ calls' \in Seq(ActivationSet) /\ Len(calls') = Len(calls)
         /\ \A a \in 1 .. Len(calls) - 1 : calls'[a] = calls[a]
         /\ calls'[Len(calls)] = [file |-> Top.file, i |-> k, output |-> Top.output \o out]
<1> DEFINE n == Len(calls)
           new == [file |-> Top.file, i |-> k, output |-> Top.output \o out]
<1>1. calls \in Seq(ActivationSet) /\ n \in Nat \ {0} /\ Top \in ActivationSet
  BY TokensLemma, Zenon DEF EInv, TypeOK, ActivationSet
<1>2. Top.output \o out \in Seq(Token) /\ Top.file \in Files
  BY <1>1 DEF ActivationSet
<1>3. new \in ActivationSet
  BY <1>2 DEF ActivationSet
<1>4. calls' = [calls EXCEPT ![n] = new]
  <2>1. calls' = [calls EXCEPT ![n] = [[calls[n] EXCEPT !.i = k] EXCEPT
                                          !.output = [calls[n] EXCEPT !.i = k].output \o out]]
    BY <1>1, Zenon DEF Continue
  <2>2. [[Top EXCEPT !.i = k] EXCEPT !.output = [Top EXCEPT !.i = k].output \o out] = new
    <3>1. ASSUME NEW c \in ActivationSet
          PROVE  [c EXCEPT !.i = k] = [file |-> c.file, i |-> k, output |-> c.output]
      BY DEF ActivationSet
    <3>2. [Top EXCEPT !.i = k] = [file |-> Top.file, i |-> k, output |-> Top.output]
      BY <1>1, <3>1
    <3>3. ASSUME NEW f, NEW o, NEW p
          PROVE  /\ [file |-> f, i |-> k, output |-> o].output = o
                 /\ [[file |-> f, i |-> k, output |-> o] EXCEPT !.output = p]
                      = [file |-> f, i |-> k, output |-> p]
      OBVIOUS
    <3> DEFINE g == Top.file
               o == Top.output
               p == o \o out
    <3>4. [[file |-> g, i |-> k, output |-> o] EXCEPT !.output = p]
            = [file |-> g, i |-> k, output |-> p]
      BY <3>3, Zenon
    <3>5. [Top EXCEPT !.i = k].output = o
      BY <3>2, <3>3
    <3> QED
      BY <3>2, <3>4, <3>5, Zenon
  <2> QED
    BY <2>1, <2>2, Zenon DEF Top
<1> HIDE DEF new
<1>5. /\ calls' \in Seq(ActivationSet) /\ Len(calls') = n
      /\ \A a \in 1 .. n - 1 : calls'[a] = calls[a]
      /\ calls'[n] = new
  BY <1>1, <1>3, <1>4
<1> QED
  BY <1>5 DEF new

\* What a turn of the loop that goes on at token k has to keep.
LEMMA ContinueKeeps ==
  ASSUME EInv, Running, NEW k \in Nat \ {0}, NEW out \in Seq(Token), Continue(k, out),
         UNCHANGED <<source, m_included_files, errors, lexed, result>>,
         m_macros' \in [Identifiers -> Seq(Token)],
         \A n \in Identifiers : m_macros'[n] = Undefined \/ NoEOF(m_macros'[n]),
         ~errors => Placed([file |-> Top.file, i |-> k, output |-> Top.output \o out])
  PROVE  EInv'
<1> DEFINE n == Len(calls)
           new == [file |-> Top.file, i |-> k, output |-> Top.output \o out]
<1>1. /\ calls' \in Seq(ActivationSet) /\ Len(calls') = n /\ n \in Nat \ {0}
      /\ \A a \in 1 .. n - 1 : calls'[a] = calls[a]
      /\ calls'[n] = new
  BY ContinueLemma, TokensLemma, Zenon
<1> HIDE DEF new
<1>2. TypeOK'
  BY <1>1, Zenon DEF EInv, TypeOK, ActivationSet
<1>3. \A f \in Files : NoEOF(source'[f])
  BY DEF EInv
<1>4. ASSUME ~errors PROVE Quiet'
  <2>1. Quiet /\ Placed(new)
    BY <1>4 DEF EInv, new
  <2>2. \A c : Placed(c)' <=> Placed(c)
    BY DEF Placed, EndOf
  <2>3. ASSUME NEW a \in 1 .. n PROVE Placed(calls'[a])
    <3>1. CASE a = n
      BY <1>1, <2>1, <3>1
    <3>2. CASE a \in 1 .. n - 1
      BY <1>1, <2>1, <3>2 DEF Quiet
    <3> QED
      BY <1>1, <3>1, <3>2
  <2>4. calls' # <<>>
    BY <1>1
  <2>5. Waiting'
    BY <1>1, <2>1, Zenon DEF Quiet, Waiting, EndOf
  <2> QED
    BY <1>1, <2>2, <2>3, <2>4, <2>5 DEF Quiet
<1> QED
  BY <1>2, <1>3, <1>4 DEF EInv

-------------------------------------------------------------------------------
\* The driver's call starts at the main file's first token.
LEMMA InitEInv == Init => EInv
<1> SUFFICES ASSUME Init PROVE EInv
  OBVIOUS
<1>1. source \in [Files -> Seq(Token)] /\ \A f \in Files : NoEOF(source[f])
  BY SourcesAssumption DEF Init, NoEOF
<1>2. Undefined \in Seq(Token)
  BY DEF Undefined, EOF_TOK, Token
<1>3. m_macros \in [Identifiers -> Seq(Token)] /\ \A n \in Identifiers : m_macros[n] = Undefined
  BY <1>2 DEF Init
<1>4. lexed \in [Files -> Nat] /\ m_included_files \subseteq Files /\ errors \in BOOLEAN
  BY Zenon DEF Init
<1> DEFINE first == Activation(Main)
<1>5. /\ first \in ActivationSet /\ first.i = 1 /\ first.file = Main /\ first.output = <<>>
  BY FilesAssumption DEF Activation, ActivationSet
<1>6. calls = <<first>> /\ result = <<>>
  BY DEF Init
<1> HIDE DEF first
<1>7. calls \in Seq(ActivationSet) /\ Len(calls) = 1 /\ calls[1] = first /\ calls # <<>>
  BY <1>5, <1>6
<1>8. Placed(first)
  <2>1. Len(source[Main]) \in Nat
    BY <1>1, FilesAssumption
  <2> QED
    BY <1>5, <2>1 DEF Placed, EndOf, NoEOF
<1>9. Quiet
  BY <1>7, <1>8 DEF Quiet, Waiting
<1>10. TypeOK
  BY <1>1, <1>3, <1>4, <1>6, <1>7 DEF TypeOK, ActivationSet
<1> QED
  BY <1>1, <1>3, <1>9, <1>10 DEF EInv

\* A reported error ends what EInv says about the activations.
LEMMA ReportKeeps ==
  ASSUME EInv, Running, NEW k \in Nat \ {0}, Continue(k, <<>>), Report
  PROVE  EInv'
<1>1. calls' \in Seq(ActivationSet)
  <2>1. <<>> \in Seq(Token)
    OBVIOUS
  <2> QED
    BY <2>1, ContinueLemma, Zenon
<1>2. errors' = TRUE /\ UNCHANGED <<source, m_macros, m_included_files, lexed, result>>
  BY DEF Report
<1>3. TypeOK'
  BY <1>1, <1>2 DEF EInv, TypeOK, ActivationSet
<1>4. /\ \A f \in Files : NoEOF(source'[f])
      /\ \A n \in Identifiers : m_macros'[n] = Undefined \/ NoEOF(m_macros'[n])
  BY <1>2 DEF EInv
<1> QED
  BY <1>2, <1>3, <1>4 DEF EInv

\* A directive leaves the output alone: it is enough that it does not jump over the
\* EOF token.
LEMMA DirectivePlaced ==
  ASSUME EInv, Running, ~errors, Top.i < Len(tokens), NEW k \in Nat \ {0}, k <= Len(tokens)
  PROVE  Placed([file |-> Top.file, i |-> k, output |-> Top.output \o <<>>])
<1>1. Placed(Top)
  BY TokensLemma DEF EInv, Quiet, Top
<1>2. /\ Top.output \in Seq(Token) /\ Top.i \in Nat \ {0}
      /\ Len(tokens) \in Nat \ {0} /\ Len(tokens) = EndOf(Top.file)
  BY TokensLemma DEF ActivationSet
<1>3. NoEOF(Top.output)
  BY <1>1, <1>2 DEF Placed
<1>4. Top.output \o <<>> = Top.output
  BY <1>2
<1> QED
  BY <1>2, <1>3, <1>4 DEF Placed

\* The types of the tokens around the loop index.
LEMMA DirectiveLemma ==
  ASSUME EInv, Running, Directive \in {"define", "include"}
  PROVE  /\ Top.i \in Nat \ {0} /\ Top.i + 1 < Len(tokens) /\ Len(tokens) \in Nat
         /\ Tok(Top.i) = tokens[Top.i]
<1>1. Top.i \in Nat \ {0} /\ Len(tokens) \in Nat
  BY TokensLemma DEF ActivationSet
<1>2. Tok(Top.i).type = "hash" /\ Tok(Top.i + 1).type = "ident"
  BY DEF Directive
<1>3. Top.i < Len(tokens) /\ Tok(Top.i) = tokens[Top.i]
  BY <1>1, <1>2, BeforeEOF
<1>4. Top.i + 1 < Len(tokens)
  <2> DEFINE k == Top.i + 1
  <2>1. k \in Nat \ {0} /\ Tok(k).type # "eof"
    BY <1>1, <1>2
  <2> HIDE DEF k
  <2>2. k < Len(tokens)
    BY <2>1, BeforeEOF
  <2> QED
    BY <2>2 DEF k
<1> QED
  BY <1>1, <1>3, <1>4

\* Only Report and the end of process change errors and result.
LEMMA UnknownKeeps == ASSUME EInv, unknown_directive PROVE EInv'
<1>1. Running /\ Continue(Top.i + 1, <<>>) /\ Report
  BY DEF unknown_directive
<1>2. Top.i + 1 \in Nat \ {0}
  BY <1>1, TokensLemma DEF ActivationSet
<1> QED
  BY <1>1, <1>2, ReportKeeps

\* An #include that names no file is reported, and skipped.
LEMMA BadIncludeKeeps == ASSUME EInv, bad_include PROVE EInv'
<1>1. Running /\ Continue(Top.i + 3, <<>>) /\ Report
  BY DEF bad_include
<1>2. Top.i + 3 \in Nat \ {0}
  BY <1>1, TokensLemma DEF ActivationSet
<1> QED
  BY <1>1, <1>2, ReportKeeps

\* The loop goes on after the #include line, at the EOF token at the latest.
LEMMA AfterIncludeLemma ==
  ASSUME EInv, NEW f, Includes(f)
  PROVE  /\ Running /\ Top.i \in Nat \ {0} /\ Len(tokens) \in Nat /\ Top.i < Len(tokens)
         /\ AfterInclude \in Nat \ {0} /\ AfterInclude <= Len(tokens)
<1>1. Running /\ Directive = "include" /\ Tok(Top.i + 2).type = "string"
  BY DEF Includes
<1>2. Top.i \in Nat \ {0} /\ Top.i + 1 < Len(tokens) /\ Len(tokens) \in Nat
  BY <1>1, DirectiveLemma
<1> DEFINE k == Top.i + 2
<1>3. k \in Nat \ {0} /\ k <= Len(tokens)
  BY <1>2
<1>4. AfterInclude = RestOfLine(k, Tok(Top.i).row)
  BY DEF AfterInclude
<1> HIDE DEF k
<1>5. AfterInclude \in k .. Len(tokens)
  BY <1>1, <1>3, <1>4, RestOfLineLemma
<1> QED
  BY <1>1, <1>2, <1>3, <1>5

\* A file that cannot be opened is reported.
LEMMA FailedIncludeKeeps == ASSUME EInv, failed_include PROVE EInv'
<1>1. PICK f : Includes(f)
  BY DEF failed_include
<1>2. Continue(AfterInclude, <<>>) /\ Report
  BY DEF failed_include
<1> QED
  BY <1>1, <1>2, AfterIncludeLemma, ReportKeeps

\* A file that was included before leaves nothing but the loop index changed.
LEMMA RepeatedIncludeKeeps == ASSUME EInv, repeated_include PROVE EInv'
<1>1. PICK f : Includes(f)
  BY DEF repeated_include
<1> DEFINE k == AfterInclude
<1>2. /\ Running /\ Len(tokens) \in Nat /\ Top.i < Len(tokens)
      /\ k \in Nat \ {0} /\ k <= Len(tokens)
  BY <1>1, AfterIncludeLemma
<1>3. /\ Continue(k, <<>>)
      /\ UNCHANGED <<source, m_macros, m_included_files, errors, lexed, result>>
  BY DEF repeated_include
<1> HIDE DEF k
<1>4. ~errors => Placed([file |-> Top.file, i |-> k, output |-> Top.output \o <<>>])
  BY <1>2, DirectivePlaced
<1>5. /\ m_macros' \in [Identifiers -> Seq(Token)]
      /\ \A n \in Identifiers : m_macros'[n] = Undefined \/ NoEOF(m_macros'[n])
  BY <1>3 DEF EInv, TypeOK
<1>6. <<>> \in Seq(Token)
  OBVIOUS
<1> QED
  BY <1>2, <1>3, <1>4, <1>5, <1>6, ContinueKeeps, Zenon

\* A macro's replacement ends before the EOF token.
LEMMA DefineKeeps == ASSUME EInv, handle_define PROVE EInv'
<1> DEFINE i == Top.i + 2
           name == Tok(i).lexeme
           end == RestOfLine(i + 1, Tok(Top.i).row)
           body == SubSeq(tokens, i + 1, end - 1)
<1>1. Running /\ Directive = "define"
  BY DEF handle_define
<1>2. Top.i \in Nat \ {0} /\ Top.i + 1 < Len(tokens) /\ Len(tokens) \in Nat
  BY <1>1, DirectiveLemma
<1>3. CASE Tok(i).type # "ident"
  <2>1. Continue(i + 1, <<>>) /\ Report
    BY <1>3 DEF handle_define
  <2>2. i + 1 \in Nat \ {0}
    BY <1>2
  <2> QED
    BY <1>1, <2>1, <2>2, ReportKeeps
<1>4. CASE Tok(i).type = "ident"
  <2>1. /\ Continue(end, <<>>)
        /\ m_macros' = [m_macros EXCEPT ![name] = body]
        /\ UNCHANGED <<source, m_included_files, errors, lexed, result>>
    BY <1>4 DEF handle_define
  <2> DEFINE k == i + 1
  <2>2. k \in Nat \ {0} /\ k <= Len(tokens) /\ k > Top.i /\ i \in Nat \ {0}
    <3>1. i \in Nat \ {0} /\ Top.i < i
      BY <1>2
    <3> HIDE DEF i
    <3>2. i < Len(tokens)
      BY <1>1, <1>4, <3>1, BeforeEOF
    <3> QED
      BY <1>2, <3>1, <3>2
  <2>3. end = RestOfLine(k, Tok(Top.i).row) /\ body = SubSeq(tokens, k, end - 1)
    OBVIOUS
  <2> HIDE DEF k, end, body, i, name
  <2>4. end \in k .. Len(tokens) /\ \A j \in k .. end - 1 : tokens[j].type # "eof"
    BY <1>1, <2>2, <2>3, RestOfLineLemma
  <2>5. body \in Seq(Token) /\ NoEOF(body)
    <3>1. end - 1 \in Nat /\ end - 1 <= Len(tokens) /\ tokens \in Seq(Token)
      BY <1>1, <1>2, <2>2, <2>4, TokensLemma
    <3> DEFINE b == end - 1
    <3>2. b \in Nat /\ b <= Len(tokens) /\ \A j \in k .. b : tokens[j].type # "eof"
      BY <2>4, <3>1
    <3> HIDE DEF b
    <3>3. SubSeq(tokens, k, b) \in Seq(Token) /\ NoEOF(SubSeq(tokens, k, b))
      BY <2>2, <3>1, <3>2, PartEOF
    <3> QED
      BY <2>3, <3>3 DEF b
  <2>6. /\ m_macros' \in [Identifiers -> Seq(Token)]
        /\ \A n \in Identifiers : m_macros'[n] = Undefined \/ NoEOF(m_macros'[n])
    <3>1. /\ m_macros \in [Identifiers -> Seq(Token)]
          /\ \A n \in Identifiers : m_macros[n] = Undefined \/ NoEOF(m_macros[n])
      BY DEF EInv, TypeOK
    <3>2. m_macros' \in [Identifiers -> Seq(Token)]
      BY <2>1, <2>5, <3>1, Zenon
    <3>3. \A n \in Identifiers : m_macros'[n] = IF n = name THEN body ELSE m_macros[n]
      BY <2>1, <3>1
    <3> QED
      BY <2>5, <3>1, <3>2, <3>3, Zenon
  <2>7. end \in Nat \ {0} /\ end <= Len(tokens) /\ Top.i < Len(tokens)
    BY <1>2, <2>2, <2>4
  <2>8. ~errors => Placed([file |-> Top.file, i |-> end, output |-> Top.output \o <<>>])
    BY <1>1, <2>7, DirectivePlaced
  <2>9. <<>> \in Seq(Token)
    OBVIOUS
  <2> QED
    BY <1>1, <2>1, <2>6, <2>7, <2>8, <2>9, ContinueKeeps, Zenon
<1> QED
  BY <1>3, <1>4

\* Expansion puts an EOF token in the output for the EOF token only.
LEMMA ExpandKeeps == ASSUME EInv, expand PROVE EInv'
<1> DEFINE t == Tok(Top.i)
           out == Expansion(t)
           k == Top.i + 1
<1>1. /\ Running /\ Top.i <= Len(tokens) /\ Continue(k, out)
      /\ UNCHANGED <<source, m_macros, m_included_files, errors, lexed, result>>
  BY DEF expand
<1>2. /\ Top.i \in Nat \ {0} /\ Len(tokens) \in Nat /\ Len(tokens) = EndOf(Top.file)
      /\ Top.output \in Seq(Token) /\ t \in Token /\ Top.i = k - 1 /\ k \in Nat \ {0}
  BY <1>1, TokensLemma DEF ActivationSet
<1>3. t.type = "eof" <=> Top.i = Len(tokens)
  BY <1>1, <1>2, TokensLemma DEF Tok
<1>4. /\ out \in Seq(Token)
      /\ t.type # "eof" => NoEOF(out)
      /\ t.type = "eof" => OneEOF(out)
  <2> HIDE DEF t
  <2>1. CASE t.type = "ident" /\ t.lexeme \in Identifiers /\ m_macros[t.lexeme] # Undefined
    <3>1. out = m_macros[t.lexeme]
      BY <2>1 DEF Expansion
    <3> QED
      BY <2>1, <3>1 DEF EInv, TypeOK
  <2>2. CASE ~(t.type = "ident" /\ t.lexeme \in Identifiers /\ m_macros[t.lexeme] # Undefined)
    <3>1. out = <<t>>
      BY <2>2, Zenon DEF Expansion
    <3>2. <<t>> \in Seq(Token) /\ Len(<<t>>) = 1 /\ <<t>>[1] = t /\ <<t>> # <<>>
      BY <1>2
    <3> QED
      BY <3>1, <3>2 DEF NoEOF, OneEOF
  <2> QED
    BY <2>1, <2>2
<1> HIDE DEF t, out, k
<1>5. ASSUME ~errors
      PROVE  Placed([file |-> Top.file, i |-> k, output |-> Top.output \o out])
  <2>1. Placed(Top)
    BY <1>1, <1>5, TokensLemma DEF EInv, Quiet, Top
  <2>2. NoEOF(Top.output)
    BY <1>1, <1>2, <2>1 DEF Placed
  <2> DEFINE o == Top.output \o out
  <2>3. /\ t.type # "eof" => NoEOF(o)
        /\ t.type = "eof" => OneEOF(o)
    BY <1>2, <1>4, <2>2, ConcatEOF
  <2> HIDE DEF o
  <2>4. /\ k <= EndOf(Top.file) + 1
        /\ IF k <= EndOf(Top.file) THEN NoEOF(o) ELSE OneEOF(o)
    BY <1>1, <1>2, <1>3, <2>3
  <2> QED
    BY <2>4 DEF Placed, o
<1>6. /\ m_macros' \in [Identifiers -> Seq(Token)]
      /\ \A n \in Identifiers : m_macros'[n] = Undefined \/ NoEOF(m_macros'[n])
  BY <1>1 DEF EInv, TypeOK
<1> QED
  BY <1>1, <1>2, <1>4, <1>5, <1>6, ContinueKeeps, Zenon

\* The included file's activation is put on top; the including one waits before its
\* EOF token.
LEMMA IncludeKeeps == ASSUME EInv, handle_include PROVE EInv'
<1>1. PICK f \in Files \ m_included_files :
        /\ Includes(f)
        /\ m_included_files' = m_included_files \cup {f}
        /\ calls' = Append([calls EXCEPT ![Len(calls)].i = AfterInclude], Activation(f))
        /\ lexed' = [lexed EXCEPT ![f] = @ + 1]
        /\ UNCHANGED <<source, m_macros, errors, result>>
  BY Zenon DEF handle_include
<1> DEFINE n == Len(calls)
           k == AfterInclude
           top == [Top EXCEPT !.i = k]
           inner == Activation(f)
           below == [calls EXCEPT ![n] = top]
<1>2. /\ Running /\ Top.i \in Nat \ {0} /\ Len(tokens) \in Nat /\ Top.i < Len(tokens)
      /\ k \in Nat \ {0} /\ k <= Len(tokens)
  BY <1>1, AfterIncludeLemma
<1>3. /\ calls \in Seq(ActivationSet) /\ n \in Nat \ {0} /\ Top \in ActivationSet
      /\ Len(tokens) = EndOf(Top.file)
  BY <1>2, TokensLemma, Zenon DEF EInv, TypeOK, ActivationSet
<1>4. calls' = Append(below, inner)
  BY <1>1 DEF Top
<1> HIDE DEF k
<1>5. /\ top \in ActivationSet /\ top.i = k /\ top.file = Top.file /\ top.output = Top.output
  BY <1>2, <1>3, Zenon DEF ActivationSet
<1>6. /\ inner \in ActivationSet /\ inner.i = 1 /\ inner.file = f /\ inner.output = <<>>
  BY <1>1 DEF Activation, ActivationSet
<1> HIDE DEF top, inner
<1>7. /\ below \in Seq(ActivationSet) /\ Len(below) = n
      /\ \A a \in 1 .. n - 1 : below[a] = calls[a]
      /\ below[n] = top
  BY <1>3, <1>5
<1> HIDE DEF below
<1>8. /\ calls' \in Seq(ActivationSet) /\ Len(calls') = n + 1
      /\ \A a \in 1 .. n : calls'[a] = below[a]
      /\ calls'[n + 1] = inner
  BY <1>3, <1>4, <1>6, <1>7
<1>9. TypeOK'
  <2>1. lexed \in [Files -> Nat] /\ f \in Files /\ lexed' = [lexed EXCEPT ![f] = @ + 1]
    BY <1>1, Zenon DEF EInv, TypeOK
  <2>2. lexed' \in [Files -> Nat]
    BY <2>1
  <2> QED
    BY <1>1, <1>8, <2>2, Zenon DEF EInv, TypeOK, ActivationSet
<1>10. /\ \A g \in Files : NoEOF(source'[g])
       /\ \A m \in Identifiers : m_macros'[m] = Undefined \/ NoEOF(m_macros'[m])
  BY <1>1 DEF EInv
<1>11. ASSUME ~errors PROVE Quiet'
  <2>1. Quiet
    BY <1>11 DEF EInv
  <2>2. \A c : (Placed(c)' <=> Placed(c)) /\ EndOf(c.file)' = EndOf(c.file)
    BY <1>1 DEF Placed, EndOf
  <2>3. Placed(inner)
    <3>1. Len(source[f]) \in Nat
      BY <1>1 DEF EInv, TypeOK
    <3> QED
      BY <1>6, <3>1 DEF Placed, EndOf, NoEOF
  <2>4. Placed(top) /\ top.i <= EndOf(top.file)
    <3>1. Placed(Top)
      BY <1>3, <2>1 DEF Quiet, Top
    <3>2. NoEOF(Top.output)
      BY <1>2, <1>3, <3>1 DEF Placed
    <3> QED
      BY <1>2, <1>3, <1>5, <3>2 DEF Placed
  <2>5. ASSUME NEW a \in 1 .. n PROVE Placed(calls'[a]) /\ calls'[a].i <= EndOf(calls'[a].file)
    <3>1. CASE a = n
      BY <1>7, <1>8, <2>4, <3>1
    <3>2. CASE a \in 1 .. n - 1
      BY <1>7, <1>8, <2>1, <3>2 DEF Quiet, Waiting
    <3> QED
      BY <1>3, <3>1, <3>2
  <2>6. \A a \in 1 .. n + 1 : Placed(calls'[a])
    BY <1>3, <1>8, <2>3, <2>5
  <2>7. Waiting'
    <3>1. Len(calls') - 1 = n
      BY <1>3, <1>8
    <3> QED
      BY <2>2, <2>5, <3>1 DEF Waiting
  <2>8. calls' # <<>>
    BY <1>3, <1>8
  <2> QED
    BY <1>8, <2>2, <2>6, <2>7, <2>8 DEF Quiet
<1> QED
  BY <1>1, <1>9, <1>10, <1>11 DEF EInv

\* What an included file leaves behind is appended without its EOF token; what the
\* main file leaves behind is the result.
LEMMA ReturnKeeps == ASSUME EInv, return PROVE EInv'
<1> DEFINE n == Len(calls)
           rest == SubSeq(calls, 1, n - 1)
<1>1. /\ Running /\ Top.i > Len(tokens)
      /\ UNCHANGED <<source, m_macros, m_included_files, errors, lexed>>
  BY DEF return
<1>2. /\ calls \in Seq(ActivationSet) /\ n \in Nat \ {0} /\ Top \in ActivationSet
      /\ Top.output \in Seq(Token) /\ Top.i \in Nat
      /\ Len(tokens) = EndOf(Top.file) /\ Len(tokens) \in Nat
  BY <1>1, TokensLemma DEF EInv, TypeOK, ActivationSet
<1>3. /\ rest \in Seq(ActivationSet) /\ Len(rest) = n - 1
      /\ \A a \in 1 .. n - 1 : rest[a] = calls[a]
  <2> DEFINE m == n - 1
  <2>1. m \in Nat /\ m <= Len(calls)
    BY <1>2
  <2> HIDE DEF m
  <2>2. /\ SubSeq(calls, 1, m) \in Seq(ActivationSet) /\ Len(SubSeq(calls, 1, m)) = m
        /\ \A a \in 1 .. m : SubSeq(calls, 1, m)[a] = calls[a]
    BY <1>2, <2>1, PrefixSeq
  <2> QED
    BY <2>2 DEF m
<1>4. ~errors => Quiet /\ OneEOF(Top.output)
  <2>1. ~errors => Quiet
    BY DEF EInv
  <2>2. Quiet => Placed(Top)
    BY <1>2 DEF Quiet, Top
  <2> QED
    BY <1>1, <1>2, <2>1, <2>2 DEF Placed
<1>5. /\ \A f \in Files : NoEOF(source'[f])
      /\ \A m \in Identifiers : m_macros'[m] = Undefined \/ NoEOF(m_macros'[m])
  BY <1>1 DEF EInv
<1> HIDE DEF rest
<1>6. CASE rest = <<>>
  <2>1. calls' = <<>> /\ result' = Top.output
    BY <1>6 DEF return, rest
  <2>2. TypeOK'
    BY <1>1, <1>2, <2>1 DEF EInv, TypeOK
  <2>3. ~errors => Quiet'
    BY <1>4, <2>1 DEF Quiet, Waiting
  <2> QED
    BY <1>1, <1>5, <2>2, <2>3 DEF EInv
<1>7. CASE rest # <<>>
  <2> DEFINE m == n - 1
             out == WithoutEOF(Top.output)
             outer == [rest[m] EXCEPT !.output = @ \o out]
  <2>1. /\ calls' = [rest EXCEPT ![Len(rest)].output = @ \o out]
        /\ result' = result
    BY <1>7 DEF return, rest
  <2>2. m \in Nat \ {0} /\ rest[m] \in ActivationSet /\ rest[m] = calls[m]
    BY <1>2, <1>3, <1>7
  <2>3. out \in Seq(Token) /\ (OneEOF(Top.output) => NoEOF(out))
    BY <1>2, WithoutEOFLemma
  <2>4. calls' = [rest EXCEPT ![m] = outer]
    BY <1>3, <2>1
  <2> HIDE DEF out
  <2>5. /\ rest[m].output \in Seq(Token) /\ rest[m].output \o out \in Seq(Token)
    BY <2>2, <2>3 DEF ActivationSet
  <2>6. /\ outer \in ActivationSet /\ outer.i = rest[m].i /\ outer.file = rest[m].file
        /\ outer.output = rest[m].output \o out
    BY <2>2, <2>5, Zenon DEF ActivationSet
  <2> HIDE DEF outer, m
  <2>7. /\ calls' \in Seq(ActivationSet) /\ Len(calls') = m
        /\ \A a \in 1 .. m - 1 : calls'[a] = rest[a]
        /\ calls'[m] = outer
    BY <1>3, <2>2, <2>4, <2>6 DEF m
  <2>8. TypeOK'
    BY <1>1, <2>1, <2>7, Zenon DEF EInv, TypeOK, ActivationSet
  <2>9. ASSUME ~errors PROVE Quiet'
    <3>1. \A c : (Placed(c)' <=> Placed(c)) /\ EndOf(c.file)' = EndOf(c.file)
      BY <1>1 DEF Placed, EndOf
    <3>2. ASSUME NEW a \in 1 .. m PROVE Placed(calls[a]) /\ calls[a].i <= EndOf(calls[a].file)
      BY <1>2, <1>4, <2>9 DEF Quiet, Waiting, m
    <3>3. Placed(outer)
      <4>1. Placed(rest[m]) /\ rest[m].i <= EndOf(rest[m].file)
        BY <2>2, <3>2
      <4>2. NoEOF(rest[m].output)
        BY <4>1 DEF Placed
      <4>3. NoEOF(outer.output)
        BY <1>4, <2>3, <2>5, <2>6, <2>9, <4>2, ConcatEOF
      <4> QED
        BY <2>6, <4>1, <4>3 DEF Placed
    <3>4. ASSUME NEW a \in 1 .. m - 1 PROVE calls'[a] = calls[a]
      BY <1>3, <2>2, <2>7 DEF m
    <3>5. \A a \in 1 .. m : Placed(calls'[a])
      BY <2>2, <2>7, <3>2, <3>3, <3>4
    <3>6. Waiting'
      BY <2>2, <2>7, <3>1, <3>2, <3>4 DEF Waiting
    <3>7. calls' # <<>>
      BY <2>2, <2>7
    <3> QED
      BY <2>7, <3>1, <3>5, <3>6, <3>7 DEF Quiet
  <2> QED
    BY <1>1, <1>5, <2>8, <2>9 DEF EInv
<1> QED
  BY <1>6, <1>7

\* Every turn of the loop and every return keeps EInv.
LEMMA NextEInv == EInv /\ [Next]_vars => EInv'
<1> SUFFICES ASSUME EInv, [Next]_vars PROVE EInv'
  OBVIOUS
<1>1. CASE UNCHANGED vars
  <2>1. UNCHANGED <<source, m_macros, m_included_files, calls, errors, lexed, result>>
    BY <1>1 DEF vars
  <2>2. TypeOK'
    BY <2>1 DEF EInv, TypeOK
  <2>3. Quiet => Quiet'
    BY <2>1 DEF Quiet, Waiting, Placed, EndOf
  <2> QED
    BY <2>1, <2>2, <2>3 DEF EInv
<1> QED
  BY <1>1, UnknownKeeps, DefineKeeps, BadIncludeKeeps, FailedIncludeKeeps,
     RepeatedIncludeKeeps, IncludeKeeps, ExpandKeeps, ReturnKeeps DEF Next

\* The loop index stays in 1 .. and every token the preprocessor stores or returns is
\* one, whatever the files contain.
THEOREM TypeCorrect == Spec => []TypeOK
<1>1. EInv => TypeOK
  BY DEF EInv
<1> QED
  BY <1>1, InitEInv, NextEInv, PTL DEF Spec

\* Without errors the parser's input ends with its only EOF token, however deep the
\* files include each other and whatever the macros expand to: handle_include takes
\* the EOF token of every included file off and no macro can contain one.
THEOREM OneEndOfFile == Spec => []EndsWithEOF
<1>1. EInv => EndsWithEOF
  BY DEF EInv, Quiet, OneEOF, EndsWithEOF, Running
<1> QED
  BY <1>1, InitEInv, NextEInv, PTL DEF Spec
===============================================================================
