------------------------- MODULE ParserRecoveryProofs -------------------------
(***************************************************************************)
(* The parser stays inside its tokens, catches every panic and gets on     *)
(* with every recovery, for every token sequence.  The invariant relates   *)
(* the plan of each try block to the values that are there, and the place  *)
(* of the last error to the place the parser is at.                        *)
(***************************************************************************)
EXTENDS ParserProofs, WellFoundedInduction

\* Leaves that name no prover go to the SMT solver.
USE SMTT(60)

\* The tokens: EOF ends them and is nowhere else.
Stream(s) ==
  /\ \E X, P : s \in Seq([t : TokenTypes, x : X, s : P])
  /\ Len(s) > 0 /\ \A i \in 1 .. Len(s) : s[i].t = "EOF" <=> i = Len(s)
Reading == Stream(m_tokens) /\ Len(m_tokens) = Len(tokens) /\ m_pos \in 1 .. Len(m_tokens)

\* A type name comes next, which is a token that can be consumed.
Naming ==
  /\ Top.work # <<>> /\ Top.work[1] = Call("type_name") /\ ~match("EOF")
  /\ Planned(Tail(Top.work), Top.base, Len(values) + 1)
\* The blocks and the values they build on.
Keeping ==
  /\ \E V : values \in Seq(V)
  /\ Blocks(frames) /\ Top.base <= Len(values)
  /\ mode = "run" => Planned(Top.work, Top.base, Len(values)) \/ Naming
  /\ mode = "panic" => Len(frames) > 1

\* PanicsAdvance, made inductive: when the parser runs it is behind its last error, or
\* both are at the end.
Reports ==
  /\ \E X : errors \in Seq([k : X, at : Nat])
  /\ PanicsAdvance
  /\ errors # <<>> =>
       /\ errors[Len(errors)].at <= m_pos
       /\ mode = "run" => \/ errors[Len(errors)].at < m_pos
                          \/ errors[Len(errors)].at = m_pos /\ m_pos = Len(m_tokens)

RInv == mode \in {"run", "panic", "crash"} /\ Reading /\ Keeping /\ Reports

\* A plan reaches up to what the frame began with at least.
LEMMA PlanBase ==
  ASSUME NEW w \in Seq(Items), NEW b \in Nat, NEW h \in Nat, Planned(w, b, h)
  PROVE  b <= h
<1>1. PICK p : IsPlan(p, w, b, h)
  BY DEF Planned
<1>2. p[1] \in Nat /\ b <= p[1] /\ p[1] <= h
  BY <1>1 DEF IsPlan
<1> QED
  BY <1>2

\* The last error is at some place.
LEMMA LastAt ==
  ASSUME NEW X, NEW s \in Seq([k : X, at : Nat]), s # <<>>
  PROVE  s[Len(s)].at \in Nat
<1>1. ASSUME NEW R, NEW r \in Seq(R), r # <<>> PROVE r[Len(r)] \in R
  BY ONLY <1>1, SMTT(60)
<1>2. s[Len(s)] \in [k : X, at : Nat]
  BY <1>1, Zenon
<1> QED
  BY <1>2

\* Steps that report nothing.
LEMMA ReportsQuiet ==
  ASSUME Reading, Reports, errors' = errors, Len(m_tokens') = Len(m_tokens),
         m_pos' \in m_pos .. Len(m_tokens),
         mode' = "run" => mode = "run" \/ m_pos < m_pos' \/ m_pos = Len(m_tokens)
  PROVE  Reports'
<1>1. PICK X : errors \in Seq([k : X, at : Nat])
  BY Zenon DEF Reports
<1>2. PanicsAdvance'
  BY DEF Reports, PanicsAdvance
<1>3. m_pos \in Nat /\ m_pos' \in Nat /\ Len(m_tokens) \in Nat /\ m_pos <= Len(m_tokens)
  <2>1. PICK Y, P : m_tokens \in Seq([t : TokenTypes, x : Y, s : P])
    BY Zenon DEF Reading, Stream
  <2> QED
    BY <2>1 DEF Reading
<1>4. ASSUME errors # <<>>
      PROVE  /\ errors[Len(errors)].at <= m_pos'
             /\ mode' = "run" => \/ errors[Len(errors)].at < m_pos'
                                 \/ errors[Len(errors)].at = m_pos' /\ m_pos' = Len(m_tokens)
  <2> DEFINE last == errors[Len(errors)].at
  <2>1. last \in Nat
    BY <1>1, <1>4, LastAt, ZenonT(60)
  <2>2. /\ last <= m_pos
        /\ mode = "run" => last < m_pos \/ (last = m_pos /\ m_pos = Len(m_tokens))
    BY <1>4 DEF Reports
  <2> HIDE DEF last
  <2>3. last <= m_pos' /\ (mode' = "run" => last < m_pos'
                                            \/ (last = m_pos' /\ m_pos' = Len(m_tokens)))
    BY <1>3, <2>1, <2>2
  <2> QED
    BY <2>3 DEF last
<1> QED
  BY <1>1, <1>2, <1>4, Zenon DEF Reports

\* Steps that throw.
LEMMA ReportsThrow ==
  ASSUME Reading, Reports, mode = "run", NEW kind, NEW place \in Nat, m_pos <= place,
         place <= m_pos', m_pos' \in 1 .. Len(m_tokens), Len(m_tokens') = Len(m_tokens),
         errors' = Append(errors, [k |-> kind, at |-> place]), mode' = "panic"
  PROVE  Reports'
<1>1. PICK X : errors \in Seq([k : X, at : Nat])
  BY ZenonT(60) DEF Reports
<1> DEFINE Y == X \cup {kind}
           new == [k |-> kind, at |-> place]
           n == Len(errors)
<1>2. errors \in Seq([k : Y, at : Nat])
  <2>1. [k : X, at : Nat] \subseteq [k : Y, at : Nat]
    OBVIOUS
  <2> QED
    BY <1>1, <2>1, SeqMonotone, Zenon
<1>3. new \in [k : Y, at : Nat] /\ new.at = place
  OBVIOUS
<1> HIDE DEF new, Y
<1>4. /\ errors' \in Seq([k : Y, at : Nat]) /\ Len(errors') = n + 1 /\ n \in Nat
      /\ errors'[n + 1] = new /\ \A i \in 1 .. n : errors'[i] = errors[i]
  BY <1>2, <1>3 DEF new
<1>5. m_pos \in Nat /\ m_pos' \in Nat /\ Len(m_tokens) \in Nat /\ place <= Len(m_tokens)
  <2>1. PICK Z, P : m_tokens \in Seq([t : TokenTypes, x : Z, s : P])
    BY ZenonT(60) DEF Reading, Stream
  <2> QED
    BY <2>1 DEF Reading
<1>6. ASSUME NEW i \in 2 .. n + 1
      PROVE  \/ errors'[i - 1].at < errors'[i].at
             \/ errors'[i - 1].at = Len(m_tokens) /\ errors'[i].at = Len(m_tokens)
  <2>1. CASE i \in 2 .. n
    <3>1. i \in 1 .. n /\ i - 1 \in 1 .. n
      BY <1>4, <2>1
    <3>2. errors'[i - 1] = errors[i - 1] /\ errors'[i] = errors[i]
      BY <1>4, <3>1
    <3> QED
      BY <2>1, <3>2, Zenon DEF Reports, PanicsAdvance
  <2>2. CASE i = n + 1
    <3> DEFINE last == errors[n].at
    <3>1. n \in 1 .. n /\ i - 1 = n /\ errors # <<>>
      BY <1>2, <1>4, <2>2
    <3>2. last \in Nat /\ (last < m_pos \/ (last = m_pos /\ m_pos = Len(m_tokens)))
      <4>1. last \in Nat
        BY <1>1, <3>1, LastAt, Zenon
      <4> QED
        BY <3>1, <4>1 DEF Reports
    <3>3. errors'[i - 1].at = last /\ errors'[i].at = place
      BY <1>3, <1>4, <2>2, <3>1
    <3> HIDE DEF last
    <3> QED
      BY <1>5, <3>2, <3>3
  <2> QED
    BY <1>4, <2>1, <2>2
<1>7. PanicsAdvance'
  BY <1>4, <1>6 DEF PanicsAdvance
<1>8. errors'[Len(errors')].at <= m_pos'
  BY <1>3, <1>4
<1> QED
  BY <1>4, <1>7, <1>8, Zenon DEF Reports

\* The innermost block.
LEMMA TopBlock ==
  ASSUME IInv, Keeping
  PROVE  /\ Stack(frames) /\ Len(frames) \in Nat /\ Len(frames) >= 1
         /\ Top.f \in FrameNames /\ Top.base \in Nat /\ Top.work \in Seq(Items)
         /\ Len(values) \in Nat
<1>1. Stack(frames) /\ Len(frames) \in Nat /\ Len(frames) >= 1
  BY StackTypes DEF IInv, Nested
<1>2. Len(values) \in Nat
  BY DEF Keeping
<1>3. Len(frames) \in 1 .. Len(frames)
  BY <1>1
<1> QED
  BY <1>1, <1>2, <1>3 DEF Keeping, Blocks, Top

\* The next item of a parser that runs: a type name, or one that its plan leads over.
LEMMA Turn ==
  ASSUME IInv, Keeping, Running
  PROVE  /\ Next1 \in Items /\ Tail(Top.work) \in Seq(Items)
         /\ Len(frames) = 1 => /\ Next1 \in Root
                               /\ \A k \in 1 .. Len(Tail(Top.work)) : Tail(Top.work)[k] \in Root
         /\ \/ Naming /\ Next1 = Call("type_name")
            \/ \E n, g \in Nat : /\ n <= Len(values) /\ Leads(Next1, Top.base, n, g)
                                 /\ Planned(Tail(Top.work), Top.base, g)
<1>1. /\ Top.base \in Nat /\ Top.work \in Seq(Items) /\ Len(values) \in Nat
      /\ Top.work # <<>> /\ mode = "run"
  BY TopBlock DEF Running
<1> DEFINE w == Top.work
<1>2. w[1] \in Items /\ Tail(w) \in Seq(Items)
  <2> HIDE DEF w
  <2>1. w \in Seq(Items) /\ w # <<>>
    BY <1>1 DEF w
  <2> QED
    BY ONLY <2>1, SMTT(60)
<1>3. ASSUME Len(frames) = 1
      PROVE  w[1] \in Root /\ \A k \in 1 .. Len(Tail(w)) : Tail(w)[k] \in Root
  <2>1. \A k \in 1 .. Len(w) : w[k] \in Root
    BY <1>3 DEF Keeping, Blocks, Top
  <2>2. w \in Seq(Items) /\ w # <<>>
    BY <1>1
  <2> HIDE DEF w
  <2>3. /\ 1 \in 1 .. Len(w)
        /\ \A k \in 1 .. Len(Tail(w)) : k + 1 \in 1 .. Len(w) /\ Tail(w)[k] = w[k + 1]
    BY ONLY <2>2, SMTT(60)
  <2> QED
    BY <2>1, <2>3
<1>4. CASE Naming
  BY <1>2, <1>3, <1>4, Zenon DEF Naming, Next1
<1>5. CASE Planned(w, Top.base, Len(values))
  <2>1. \E n, g \in Nat : n <= Len(values) /\ Leads(w[1], Top.base, n, g)
                          /\ Planned(Tail(w), Top.base, g)
    BY <1>1, <1>5, PlanHead
  <2> QED
    BY <1>2, <1>3, <2>1 DEF Next1
<1> QED
  BY <1>1, <1>4, <1>5, ZenonT(60) DEF Keeping

\* What becomes of the innermost block when it goes on with body.
LEMMA GoesOn ==
  ASSUME IInv, Keeping, Running, NEW body \in Seq(Items), Do(body),
         Len(frames) = 1 => \A k \in 1 .. Len(body) : body[k] \in Root
  PROVE  /\ Blocks(frames') /\ Len(frames') = Len(frames)
         /\ Top'.base = Top.base /\ Top'.work = body \o Tail(Top.work)
         /\ body \o Tail(Top.work) \in Seq(Items)
<1> DEFINE t == Tail(Top.work)
           w == body \o t
<1>1. t \in Seq(Items)
  BY Turn
<1>2. w \in Seq(Items)
  <2> HIDE DEF t
  <2> QED
    BY ONLY <1>1, body \in Seq(Items), SMTT(60)
<1>3. frames' = [frames EXCEPT ![Len(frames)].work = w]
  BY DEF Do, Top
<1>4. ASSUME Len(frames) = 1 PROVE \A k \in 1 .. Len(w) : w[k] \in Root
  <2>1. \A k \in 1 .. Len(t) : t[k] \in Root
    BY <1>4, Turn
  <2>2. \A k \in 1 .. Len(body) : body[k] \in Root
    BY <1>4
  <2>3. ASSUME NEW R, NEW a \in Seq(Items), NEW b \in Seq(Items),
               \A k \in 1 .. Len(a) : a[k] \in R, \A k \in 1 .. Len(b) : b[k] \in R
        PROVE  \A k \in 1 .. Len(a \o b) : (a \o b)[k] \in R
    <3> TAKE k \in 1 .. Len(a \o b)
    <3>1. CASE k <= Len(a)
      BY <2>3, <3>1
    <3>2. CASE k > Len(a)
      <4>1. k - Len(a) \in 1 .. Len(b) /\ (a \o b)[k] = b[k - Len(a)]
        BY <3>2
      <4> QED
        BY <2>3, <4>1
    <3> QED
      BY <3>1, <3>2
  <2> HIDE DEF t
  <2> QED
    BY <1>1, <2>1, <2>2, <2>3, ZenonT(60)
<1>5. Stack(frames) /\ Len(frames) >= 1 /\ Len(frames) \in Nat
  BY TopBlock
<1> HIDE DEF w
<1>6. Blocks(frames')
  BY <1>2, <1>3, <1>4, <1>5, BlocksWork, Zenon DEF Keeping
<1>7. /\ Len(frames') = Len(frames) /\ frames'[Len(frames)].work = w
      /\ frames'[Len(frames)].base = frames[Len(frames)].base
  <2>1. Len(frames) \in 1 .. Len(frames)
    BY <1>5
  <2> QED
    BY <1>3, <1>5, <2>1, SetWork
<1> QED
  BY <1>2, <1>6, <1>7 DEF w, Top

\* An item that is done with.
LEMMA KeepingProceed ==
  ASSUME IInv, Keeping, Running, NEW g \in Nat, Planned(Tail(Top.work), Top.base, g), Proceed,
         NEW V, values' \in Seq(V), g <= Len(values'), mode' = "run"
  PROVE  Keeping'
<1> DEFINE t == Tail(Top.work)
<1>1. /\ t \in Seq(Items) /\ <<>> \in Seq(Items)
      /\ \A k \in 1 .. Len(<<>>) : <<>>[k] \in Root
  BY Turn
<1>2. <<>> \o t = t
  <2> HIDE DEF t
  <2> QED
    BY ONLY <1>1, SMTT(60)
<1>3. Blocks(frames') /\ Len(frames') = Len(frames) /\ Top'.base = Top.base /\ Top'.work = t
  BY <1>1, <1>2, GoesOn, ZenonT(60) DEF Proceed
<1>4. Top.base \in Nat /\ Len(values') \in Nat
  BY TopBlock
<1>5. Top.base <= g /\ Planned(t, Top.base, Len(values'))
  BY <1>1, <1>4, PlanBase, PlanMore, Zenon
<1>6. Top'.base <= Len(values')
  BY <1>3, <1>4, <1>5
<1> QED
  BY <1>3, <1>5, <1>6 DEF Keeping

\* A panic leaves the blocks and the values to the handlers.
LEMMA KeepingThrow ==
  ASSUME IInv, Keeping, Len(frames) > 1, UNCHANGED <<frames, values>>, mode' = "panic"
  PROVE  Keeping'
BY DEF Keeping, Top

\* The end of a try block that leaves its values.
LEMMA KeepingPop ==
  ASSUME IInv, Keeping, frames' = Outer(frames), Len(frames) > 1, NEW V, values' \in Seq(V),
         Top.base <= Len(values'), mode' = "panic" => Len(frames) > 2
  PROVE  Keeping'
<1> DEFINE n == Len(frames)
<1>1. Stack(frames) /\ n \in Nat /\ Top.base \in Nat /\ Len(values') \in Nat
  BY TopBlock
<1>2. /\ Len(frames') = n - 1 /\ Blocks(frames') /\ n - 1 \in 1 .. n - 1
      /\ Planned(Top'.work, Top'.base, Top.base) /\ Top'.base <= Top.base
  BY <1>1, BlocksPop DEF Keeping, Top
<1>3. Top'.base \in Nat /\ Top'.work \in Seq(Items)
  BY <1>2 DEF Blocks, Top
<1>4. Planned(Top'.work, Top'.base, Len(values'))
  BY <1>1, <1>2, <1>3, PlanMore
<1>5. Top'.base <= Len(values')
  BY <1>1, <1>2, <1>3
<1>6. mode' = "panic" => Len(frames') > 1
  BY <1>1, <1>2
<1> QED
  BY <1>2, <1>4, <1>5, <1>6 DEF Keeping

\* The innermost block goes on with a body, which may be the name of a type.
LEMMA KeepingDo ==
  ASSUME IInv, Keeping, Running, NEW body \in Seq(Items), Do(body),
         Len(frames) = 1 => \A k \in 1 .. Len(body) : body[k] \in Root,
         UNCHANGED <<m_tokens, m_pos, values>>, mode' = "run",
         \/ Planned(body \o Tail(Top.work), Top.base, Len(values))
         \/ /\ body = <<Call("type_name")>> /\ ~match("EOF")
            /\ Planned(Tail(Top.work), Top.base, Len(values) + 1)
  PROVE  Keeping'
<1> DEFINE t == Tail(Top.work)
<1>1. /\ Blocks(frames') /\ Len(frames') = Len(frames)
      /\ Top'.base = Top.base /\ Top'.work = body \o t
  BY GoesOn
<1>2. t \in Seq(Items)
  BY Turn
<1>3. Top'.base <= Len(values')
  BY <1>1 DEF Keeping
<1>4. CASE Planned(body \o t, Top.base, Len(values))
  BY <1>1, <1>3, <1>4 DEF Keeping
<1>5. CASE /\ body = <<Call("type_name")>> /\ ~match("EOF")
           /\ Planned(t, Top.base, Len(values) + 1)
  <2> DEFINE c == Call("type_name")
  <2> HIDE DEF c, t
  <2>1. body \in Seq(Items) /\ body = <<c>>
    BY <1>5 DEF c
  <2>2. <<c>> \o t # <<>> /\ (<<c>> \o t)[1] = c /\ Tail(<<c>> \o t) = t
    BY ONLY <1>2, <2>1, SMTT(60)
  <2>3. Naming'
    BY <1>1, <1>5, <2>1, <2>2, ZenonT(60) DEF Naming, c, t, match
  <2> QED
    BY <1>1, <1>3, <2>3 DEF Keeping
<1> QED
  BY <1>4, <1>5, Zenon

\* The current token; EOF is the last.
LEMMA Current ==
  ASSUME Reading
  PROVE  /\ m_pos \in Nat /\ Len(m_tokens) \in Nat /\ m_pos \in 1 .. Len(m_tokens)
         /\ m_tokens[m_pos].t \in TokenTypes
         /\ ~match("EOF") => m_pos + 1 \in m_pos .. Len(m_tokens)
         /\ m_pos \in m_pos .. Len(m_tokens)
<1>1. PICK X, P : m_tokens \in Seq([t : TokenTypes, x : X, s : P])
  BY Zenon DEF Reading, Stream
<1>2. m_pos \in 1 .. Len(m_tokens) /\ Len(m_tokens) \in Nat
  BY <1>1 DEF Reading
<1>3. m_tokens[m_pos] \in [t : TokenTypes, x : X, s : P]
  <2> DEFINE R == [t : TokenTypes, x : X, s : P]
  <2> HIDE DEF R
  <2>1. m_tokens \in Seq(R)
    BY <1>1 DEF R
  <2>2. m_tokens[m_pos] \in R
    BY <1>2, <2>1
  <2> QED
    BY <2>2 DEF R
<1>4. m_tokens[m_pos].t \in TokenTypes
  BY <1>3
<1>5. ~match("EOF") => m_pos # Len(m_tokens)
  BY <1>2 DEF match, Reading, Stream
<1>6. m_pos \in Nat /\ m_pos \in m_pos .. Len(m_tokens)
  BY ONLY <1>2, SMTT(60)
<1>7. m_pos # Len(m_tokens) => m_pos + 1 \in m_pos .. Len(m_tokens)
  BY ONLY <1>2, SMTT(60)
<1> QED
  BY <1>2, <1>4, <1>5, <1>6, <1>7, ZenonT(60)

\* What the next item says about the place: only parse_program itself runs outside all
\* try blocks with a handler.
LEMMA Chosen ==
  ASSUME IInv, Keeping, Running
  PROVE  /\ Next1.f = "type_name" => Naming /\ Len(frames) > 1 /\ Next1.op = "call"
         /\ Next1.f # "type_name" =>
              \E n, g \in Nat : /\ n <= Len(values) /\ Leads(Next1, Top.base, n, g)
                                /\ Planned(Tail(Top.work), Top.base, g)
         /\ Next1.op \notin {"call", "try"} => Len(frames) > 1 /\ Next1.f # "type_name"
         /\ Next1.f = "asm_body" => Len(frames) > 1 /\ Next1.op = "call"
<1>1. Next1 \in Items /\ Top.base \in Nat /\ Len(frames) \in Nat /\ Len(frames) >= 1
  BY Turn, TopBlock
<1>2. \A i \in Root \cup {Call("type_name")} : i.op \in {"call", "try"} /\ i.f # "asm_body"
  BY DEF Root, Call, Try, Item
<1>3. \A i \in Root : i.f # "type_name"
  BY DEF Root, Call, Try, Item
<1>4. Call("type_name").f = "type_name" /\ Call("type_name").op = "call"
  BY DEF Call, Item
<1>5. Len(frames) = 1 \/ Len(frames) > 1
  <2>1. ASSUME NEW n \in Nat, n >= 1 PROVE n = 1 \/ n > 1
    BY ONLY <2>1, SMTT(60)
  <2> QED
    BY <1>1, <2>1, Zenon
<1>6. CASE Naming /\ Next1 = Call("type_name")
  BY <1>2, <1>3, <1>4, <1>5, <1>6, Turn, ZenonT(60)
<1>7. ASSUME NEW n \in Nat, NEW g \in Nat, n <= Len(values), Leads(Next1, Top.base, n, g),
             Planned(Tail(Top.work), Top.base, g)
      PROVE  /\ Next1.f # "type_name" /\ (Next1.f = "asm_body" => Next1.op = "call")
             /\ \E m, h \in Nat : /\ m <= Len(values) /\ Leads(Next1, Top.base, m, h)
                                  /\ Planned(Tail(Top.work), Top.base, h)
  BY <1>1, <1>7, SpecialItems
<1>8. Len(frames) = 1 => Next1 \in Root
  BY Turn
<1> QED
  BY <1>2, <1>5, <1>6, <1>7, <1>8, Turn, ZenonT(60)

\* A step that is done with an item.
LEMMA QuietStep ==
  ASSUME IInv, RInv, Running, NEW g \in Nat, Planned(Tail(Top.work), Top.base, g), Proceed,
         NEW V, values' \in Seq(V), g <= Len(values'), m_pos' \in m_pos .. Len(m_tokens),
         UNCHANGED <<tokens, m_tokens, errors, mode>>
  PROVE  RInv'
<1>1. mode' = "run" /\ mode = "run"
  BY DEF Running
<1>2. Keeping'
  BY <1>1, KeepingProceed DEF RInv
<1>3. Reports'
  BY <1>1, ReportsQuiet DEF RInv
<1>4. m_pos' \in 1 .. Len(m_tokens)
  BY Current DEF RInv
<1>5. Reading'
  BY <1>4 DEF RInv, Reading
<1> QED
  BY <1>1, <1>2, <1>3, <1>5 DEF RInv

\* A step that throws.
LEMMA ThrowStep ==
  ASSUME IInv, RInv, Running, Len(frames) > 1, NEW kind, NEW place \in Nat,
         ThrowAt(kind, place), m_pos <= place, place <= m_pos', m_pos' \in 1 .. Len(m_tokens),
         UNCHANGED tokens
  PROVE  RInv'
<1>1. /\ errors' = Append(errors, [k |-> kind, at |-> place]) /\ mode' = "panic"
      /\ UNCHANGED <<m_tokens, frames, values>> /\ mode = "run"
  BY DEF ThrowAt, Running
<1>2. Keeping'
  BY <1>1, KeepingThrow DEF RInv
<1>3. Reports'
  BY <1>1, ReportsThrow DEF RInv
<1>4. Reading'
  BY <1>1 DEF RInv, Reading
<1> QED
  BY <1>1, <1>2, <1>3, <1>4 DEF RInv

\* A throw where the parser is.
LEMMA ThrowHere ==
  ASSUME IInv, RInv, Running, Len(frames) > 1, NEW kind, Throw(kind), UNCHANGED <<m_pos, tokens>>
  PROVE  RInv'
BY Current, ThrowStep DEF Throw, RInv

\* Undefined behaviour ends the run.
LEMMA CrashStep ==
  ASSUME IInv, RInv, Crash, UNCHANGED tokens
  PROVE  RInv'
<1>1. mode' = "crash" /\ UNCHANGED <<tokens, m_tokens, m_pos, frames, values, errors>>
  BY DEF Crash
<1>2. Keeping'
  BY <1>1 DEF RInv, Keeping, Top
<1>3. Reports'
  BY <1>1, Current, ReportsQuiet DEF RInv
<1>4. Reading'
  BY <1>1 DEF RInv, Reading
<1> QED
  BY <1>1, <1>2, <1>3, <1>4 DEF RInv

-------------------------------------------------------------------------------
\* One more value.
LEMMA AppendAny ==
  ASSUME NEW V, NEW s \in Seq(V), NEW v
  PROVE  Append(s, v) \in Seq(V \cup {v}) /\ Len(Append(s, v)) = Len(s) + 1
<1>1. s \in Seq(V \cup {v})
  BY SeqMonotone
<1> QED
  BY <1>1

\* The first m values.
LEMMA PrefixAny ==
  ASSUME NEW V, NEW s \in Seq(V), NEW m \in Nat, m <= Len(s)
  PROVE  SubSeq(s, 1, m) \in Seq(V) /\ Len(SubSeq(s, 1, m)) = m
OBVIOUS

\* A call, a repetition or an option.
LEMMA ExpandStep == ASSUME IInv, RInv, expand, UNCHANGED tokens PROVE RInv'
<1> DEFINE i == Next1
           b == Top.base
           h == Len(values)
           t == Tail(Top.work)
<1>1. /\ Running /\ i.op \in {"call", "list", "more", "opt", "binary", "operators"}
      /\ i.f # "asm_body" /\ i.f # "type_name" /\ Do(Body(i))
      /\ UNCHANGED <<m_tokens, m_pos, values, errors, mode>>
  BY DEF expand, Special
<1>2. Keeping
  BY DEF RInv
<1>3. i \in Items /\ t \in Seq(Items) /\ b \in Nat /\ h \in Nat /\ mode = "run"
  BY <1>1, <1>2, Turn, TopBlock DEF Running
<1>4. PICK n \in Nat, g \in Nat : n <= h /\ Leads(i, b, n, g) /\ Planned(t, b, g)
  BY <1>1, <1>2, Chosen
<1> HIDE DEF i, b, h, t
<1>5. \/ Yields(Body(i), b, h, g)
      \/ Body(i) = <<Call("type_name")>> /\ ~match("EOF") /\ g <= h + 1
  BY <1>1, <1>3, <1>4, BodyYields, Zenon DEF h
<1>6. /\ Body(i) \in Seq(Items)
      /\ \/ Planned(Body(i) \o t, b, h)
         \/ Body(i) = <<Call("type_name")>> /\ ~match("EOF") /\ Planned(t, b, h + 1)
  <2>1. CASE Yields(Body(i), b, h, g)
    BY <1>3, <1>4, <2>1, Zenon DEF Yields
  <2>2. CASE Body(i) = <<Call("type_name")>> /\ ~match("EOF") /\ g <= h + 1
    <3>1. Call("type_name") \in Items
      <4>1. "call" \in Ops /\ "type_name" \in Words /\ NoWord \in Words /\ 0 \in Int
        BY DEF Ops, Words
      <4> QED
        BY <4>1 DEF Call, Item, Items
    <3>2. <<Call("type_name")>> \in Seq(Items)
      <4>1. ASSUME NEW S, NEW x \in S PROVE <<x>> \in Seq(S)
        OBVIOUS
      <4> QED
        BY <3>1, <4>1, Zenon
    <3>3. h + 1 \in Nat
      BY <1>3
    <3>4. Planned(t, b, h + 1)
      BY <1>3, <1>4, <2>2, <3>3, PlanMore, ZenonT(60)
    <3> QED
      BY <2>2, <3>2, <3>4, ZenonT(60)
  <2> QED
    BY <1>5, <2>1, <2>2, Zenon
<1>7. ASSUME Len(frames) = 1 PROVE \A k \in 1 .. Len(Body(i)) : Body(i)[k] \in Root
  <2>1. i \in Root
    BY <1>1, <1>2, <1>7, Turn DEF i
  <2>2. i.op = "call" /\ i.f = "program"
    <3>1. Call("program").op = "call" /\ Call("program").f = "program" /\ Try("toplevel").op = "try"
      BY DEF Call, Try, Item
    <3> QED
      BY <1>1, <2>1, <3>1 DEF Root
  <2>3. Body(i) = parse_program
    <3>1. Body(i) = CallBody("program")
      BY <2>2, Zenon DEF Body
    <3> QED
      BY <3>1, CallBodies, Zenon
  <2> DEFINE x == Try("toplevel")
             y == Call("program")
  <2>4. Body(i) = <<>> \/ Body(i) = <<x, y>>
    BY <2>3, Zenon DEF parse_program
  <2>5. x \in Root /\ y \in Root
    BY DEF Root
  <2> HIDE DEF x, y
  <2> QED
    BY <2>4, <2>5
<1>8. Keeping'
  <2>1. mode' = "run" /\ mode = "run"
    BY <1>1, <1>3
  <2> QED
    BY <1>1, <1>2, <1>6, <1>7, <2>1, KeepingDo, Zenon DEF b, h, t
<1>9. Reading /\ Reports
  BY DEF RInv
<1>10. Reports'
  BY <1>1, <1>3, <1>9, Current, ReportsQuiet
<1>11. Reading'
  BY <1>1, <1>9 DEF Reading
<1> QED
  BY <1>1, <1>8, <1>10, <1>11 DEF RInv

\* A token that is expected.
LEMMA ConsumeStep == ASSUME IInv, RInv, consume, UNCHANGED tokens PROVE RInv'
<1> DEFINE b == Top.base
           h == Len(values)
<1>1. Running /\ Next1.op \in {"token", "keep"} /\ Keeping /\ Reading
  BY DEF consume, RInv
<1>2. /\ Next1 \in Items /\ b \in Nat /\ h \in Nat
      /\ Len(frames) > 1 /\ Next1.f # "type_name"
  BY <1>1, Turn, TopBlock, Chosen
<1>3. PICK n \in Nat, g \in Nat :
        n <= h /\ Leads(Next1, b, n, g) /\ Planned(Tail(Top.work), b, g)
  BY <1>1, <1>2, Chosen
<1>4. CASE match(Next1.f)
  <2>1. /\ m_pos' = m_pos + 1 /\ Proceed
        /\ values' = IF Next1.op = "keep" THEN Append(values, Leaf(m_tokens[m_pos])) ELSE values
        /\ UNCHANGED <<m_tokens, errors, mode>>
    BY <1>4 DEF consume
  <2>2. Next1.f \notin Missing
    <3>1. m_tokens[m_pos].t \in TokenTypes
      BY <1>1, Current
    <3>2. \A x \in Missing : x \notin TokenTypes
      BY ZenonT(60) DEF Missing, TokenTypes, Keywords, BasicTypes, Punctuation
    <3> QED
      BY <1>4, <3>1, <3>2, ZenonT(60) DEF match
  <2>3. /\ Next1.f \in TokenTypes \ {"EOF"}
        /\ Next1.op = "keep" => g <= n + 1
        /\ Next1.op = "token" => g <= n
    BY <1>1, <1>2, <1>3, <2>2, ItemCases
  <2>4. m_pos' \in m_pos .. Len(m_tokens)
    <3>1. ~match("EOF")
      BY <1>4, <2>3 DEF match
    <3> QED
      BY <1>1, <2>1, <3>1, Current
  <2>5. PICK V : values \in Seq(V)
    BY <1>1 DEF Keeping
  <2>6. \E W : values' \in Seq(W) /\ g <= Len(values')
    <3>1. CASE Next1.op = "keep"
      <4>1. values' = Append(values, Leaf(m_tokens[m_pos]))
        BY <2>1, <3>1
      <4>2. values' \in Seq(V \cup {Leaf(m_tokens[m_pos])}) /\ Len(values') = h + 1
        BY <2>5, <4>1, AppendAny
      <4>3. g <= h + 1
        BY <1>2, <1>3, <2>3, <3>1
      <4> QED
        BY <4>2, <4>3
    <3>2. CASE Next1.op = "token"
      BY <1>1, <1>2, <1>3, <2>1, <2>3, <2>5, <3>2
    <3> QED
      BY <1>1, <3>1, <3>2
  <2> QED
    BY <1>1, <1>3, <2>1, <2>4, <2>6, QuietStep
<1>5. CASE ~match(Next1.f)
  BY <1>1, <1>2, <1>5, ThrowHere DEF consume
<1> QED
  BY <1>4, <1>5, ZenonT(60)

\* nullptr for a part that is not there.
LEMMA AbsentStep == ASSUME IInv, RInv, absent, UNCHANGED tokens PROVE RInv'
<1> DEFINE h == Len(values)
<1>1. /\ Running /\ Next1.op = "absent" /\ Keeping /\ Reading
      /\ Proceed /\ values' = Append(values, None)
      /\ UNCHANGED <<m_tokens, m_pos, errors, mode>>
  BY DEF absent, RInv
<1>2. Next1 \in Items /\ Top.base \in Nat /\ h \in Nat /\ Next1.f # "type_name"
  BY <1>1, Turn, TopBlock, Chosen
<1>3. PICK n \in Nat, g \in Nat :
        n <= h /\ Leads(Next1, Top.base, n, g) /\ Planned(Tail(Top.work), Top.base, g)
  BY <1>1, <1>2, Chosen
<1>4. PICK V : values \in Seq(V)
  BY <1>1 DEF Keeping
<1>5. values' \in Seq(V \cup {None}) /\ Len(values') = h + 1
  BY <1>1, <1>4, AppendAny
<1>6. g <= n + 1
  BY <1>1, <1>2, <1>3, ItemCases
<1>7. g <= Len(values')
  BY <1>2, <1>3, <1>5, <1>6
<1>8. m_pos' \in m_pos .. Len(m_tokens)
  BY <1>1, Current
<1> QED
  BY <1>1, <1>3, <1>5, <1>7, <1>8, QuietStep

\* Half a token stays a token that is not EOF.
LEMMA HalfToken ==
  ASSUME Reading, match(">>") \/ match(">="), NEW rest \in {">", "="},
         m_tokens' = [m_tokens EXCEPT ![m_pos] = [@ EXCEPT !.t = rest, !.x = rest]],
         UNCHANGED <<tokens, m_pos>>
  PROVE  Reading' /\ Len(m_tokens') = Len(m_tokens)
<1>1. PICK X, P : m_tokens \in Seq([t : TokenTypes, x : X, s : P])
  BY Zenon DEF Reading, Stream
<1> DEFINE Y == X \cup {rest}
           R == [t : TokenTypes, x : X, s : P]
           S == [t : TokenTypes, x : Y, s : P]
           n == Len(m_tokens)
           half == [m_tokens[m_pos] EXCEPT !.t = rest, !.x = rest]
<1>2. m_pos \in 1 .. n /\ n \in Nat /\ n > 0
  BY Current DEF Reading, Stream
<1>3. \A k \in 1 .. n : m_tokens[k] \in R
  <2> HIDE DEF R
  <2>1. m_tokens \in Seq(R)
    BY <1>1 DEF R
  <2> QED
    BY ONLY <2>1, SMTT(60)
<1>4. rest \in TokenTypes /\ rest # "EOF"
  BY Zenon DEF TokenTypes, Punctuation
<1>5. ASSUME NEW r \in R
      PROVE  /\ r \in S /\ [r EXCEPT !.t = rest, !.x = rest] \in S
             /\ [r EXCEPT !.t = rest, !.x = rest].t = rest
  BY <1>4, Zenon
<1>6. m_tokens' = [k \in 1 .. n |-> IF k = m_pos THEN half ELSE m_tokens[k]]
  <2>1. ASSUME NEW Q, NEW u \in Seq(Q), NEW j, NEW v
        PROVE  [u EXCEPT ![j] = v] = [k \in 1 .. Len(u) |-> IF k = j THEN v ELSE u[k]]
    BY ONLY <2>1, SMTT(60)
  <2>2. m_tokens' = [m_tokens EXCEPT ![m_pos] = half]
    OBVIOUS
  <2> HIDE DEF half, R
  <2>3. m_tokens \in Seq(R)
    BY <1>1 DEF R
  <2> QED
    BY ONLY <2>1, <2>2, <2>3, Zenon
<1>7. half \in S /\ half.t = rest
  BY <1>2, <1>3, <1>5, Zenon
<1>8. \A k \in 1 .. n : m_tokens[k] \in S
  BY <1>3, <1>5, Zenon
<1> HIDE DEF half, R, S
<1>9. /\ m_tokens' \in [1 .. n -> S]
      /\ \A k \in 1 .. n : m_tokens'[k] = IF k = m_pos THEN half ELSE m_tokens[k]
  BY <1>6, <1>7, <1>8, Zenon
<1>10. m_tokens' \in Seq(S) /\ Len(m_tokens') = n
  <2> HIDE DEF n
  <2>1. n \in Nat /\ m_tokens' \in [1 .. n -> S]
    BY <1>2, <1>9
  <2> QED
    BY ONLY <2>1, FunctionIsSeq, SMTT(60)
<1>11. m_pos # n
  BY <1>2 DEF match, Reading, Stream
<1>12. \A k \in 1 .. n : m_tokens'[k].t = "EOF" <=> k = n
  <2>1. \A k \in 1 .. n : m_tokens[k].t = "EOF" <=> k = n
    BY DEF Reading, Stream
  <2> QED
    BY <1>4, <1>7, <1>9, <1>11, <2>1, ZenonT(60)
<1>13. Stream(m_tokens')
  BY <1>2, <1>10, <1>12, Zenon DEF Stream, S
<1> QED
  BY <1>2, <1>10, <1>13 DEF Reading

\* '>' or half of a token that begins with it.
LEMMA RangleStep == ASSUME IInv, RInv, consume_rangle, UNCHANGED tokens PROVE RInv'
<1> DEFINE h == Len(values)
<1>1. Running /\ Next1.op = "rangle" /\ Keeping /\ Reading /\ Reports /\ mode = "run"
  BY DEF consume_rangle, RInv, Running
<1>2. /\ Next1 \in Items /\ Top.base \in Nat /\ h \in Nat
      /\ Len(frames) > 1 /\ Next1.f # "type_name"
  BY <1>1, Turn, TopBlock, Chosen, ZenonT(60)
<1>3. PICK n \in Nat, g \in Nat :
        n <= h /\ Leads(Next1, Top.base, n, g) /\ Planned(Tail(Top.work), Top.base, g)
  BY <1>1, <1>2, Chosen
<1>4. PICK V : values \in Seq(V)
  BY <1>1 DEF Keeping
<1>5. g <= h
  <2>1. g <= n
    BY <1>1, <1>2, <1>3, ItemCases
  <2> QED
    BY <1>2, <1>3, <2>1
<1>6. CASE match(">") /\ m_pos' = m_pos + 1 /\ Proceed
           /\ UNCHANGED <<m_tokens, values, symtab, errors, mode>>
  <2>1. m_pos' \in m_pos .. Len(m_tokens)
    <3>1. ~match("EOF")
      BY <1>6 DEF match
    <3> QED
      BY <1>1, <1>6, <3>1, Current
  <2>2. values' \in Seq(V) /\ g <= Len(values')
    BY <1>4, <1>5, <1>6
  <2> QED
    BY <1>1, <1>3, <1>6, <2>1, <2>2, QuietStep
<1>7. CASE /\ match(">>") \/ match(">=")
           /\ LET rest == IF match(">>") THEN ">" ELSE "="
              IN  m_tokens' = [m_tokens EXCEPT ![m_pos] = [@ EXCEPT !.t = rest, !.x = rest]]
           /\ Proceed /\ UNCHANGED <<m_pos, values, symtab, errors, mode>>
  <2> DEFINE rest == IF match(">>") THEN ">" ELSE "="
  <2>1. rest \in {">", "="}
    OBVIOUS
  <2>2. m_tokens' = [m_tokens EXCEPT ![m_pos] = [@ EXCEPT !.t = rest, !.x = rest]]
    BY <1>7
  <2> HIDE DEF rest
  <2>3. Reading' /\ Len(m_tokens') = Len(m_tokens)
    BY <1>1, <1>7, <2>1, <2>2, HalfToken, ZenonT(60)
  <2>4. values' \in Seq(V) /\ g <= Len(values') /\ mode' = "run" /\ errors' = errors
    BY <1>1, <1>4, <1>5, <1>7
  <2>5. Keeping'
    BY <1>1, <1>3, <1>7, <2>4, KeepingProceed
  <2>6. m_pos' \in m_pos .. Len(m_tokens)
    BY <1>1, <1>7, Current
  <2>7. Reports'
    BY <1>1, <2>3, <2>4, <2>6, ReportsQuiet
  <2> QED
    BY <2>3, <2>4, <2>5, <2>7 DEF RInv
<1>8. CASE Throw("syntax") /\ UNCHANGED <<m_pos, symtab>>
  BY <1>1, <1>2, <1>8, ThrowHere
<1> QED
  BY <1>6, <1>7, <1>8, Zenon DEF consume_rangle

\* The name of a type.
LEMMA TypeNameStep == ASSUME IInv, RInv, type_name, UNCHANGED tokens PROVE RInv'
<1> DEFINE h == Len(values)
<1>1. Running /\ Next1.f = "type_name" /\ m_pos' = m_pos + 1 /\ Keeping /\ Reading
  BY DEF type_name, RInv
<1>2. h \in Nat /\ Len(frames) > 1 /\ Naming
  BY <1>1, TopBlock, Chosen
<1>3. /\ m_pos' \in m_pos .. Len(m_tokens) /\ m_pos' \in 1 .. Len(m_tokens)
      /\ m_pos \in Nat /\ m_pos <= m_pos /\ m_pos <= m_pos'
  <2>1. /\ m_pos' \in m_pos .. Len(m_tokens) /\ m_pos \in 1 .. Len(m_tokens)
        /\ m_pos \in Nat /\ Len(m_tokens) \in Nat
    BY <1>1, <1>2, Current DEF Naming
  <2> QED
    BY <2>1
<1>4. \/ Throw("type")
      \/ \E t : /\ values' = Append(values, t) /\ Proceed
                /\ UNCHANGED <<m_tokens, errors, mode>>
  BY Zenon DEF type_name
<1>5. CASE Throw("type")
  BY <1>1, <1>2, <1>3, <1>5, ThrowStep DEF Throw
<1>6. ASSUME NEW t, values' = Append(values, t), Proceed, UNCHANGED <<m_tokens, errors, mode>>
      PROVE  RInv'
  <2>1. PICK V : values \in Seq(V)
    BY <1>1 DEF Keeping
  <2>2. values' \in Seq(V \cup {t}) /\ Len(values') = h + 1
    BY <1>6, <2>1, AppendAny
  <2>3. h + 1 \in Nat /\ h + 1 <= Len(values')
    BY <1>2, <2>2
  <2>4. Planned(Tail(Top.work), Top.base, h + 1)
    BY <1>2 DEF Naming
  <2> QED
    BY <1>1, <1>3, <1>6, <2>2, <2>3, <2>4, QuietStep
<1> QED
  BY <1>4, <1>5, <1>6

\* A set of numbers has a least element.
LEMMA MinOf ==
  ASSUME NEW S, S \subseteq Nat, S # {}
  PROVE  Min(S) \in S /\ \A y \in S : Min(S) <= y
<1>1. \E x \in S : \A y \in S : ~(<<y, x>> \in OpToRel(<, Nat))
  <2> DEFINE R == OpToRel(<, Nat)
  <2>1. IsWellFoundedOn(R, Nat)
    BY NatLessThanWellFounded, Zenon
  <2> HIDE DEF R
  <2>2. \E x \in S : \A y \in S : ~(<<y, x>> \in R)
    BY <2>1, WFMin, Zenon
  <2> QED
    BY <2>2, Zenon DEF R
<1>2. PICK x \in S : \A y \in S : ~(<<y, x>> \in OpToRel(<, Nat))
  BY <1>1, Zenon
<1>3. \A y \in S : ~(y < x)
  BY <1>2, Zenon DEF OpToRel
<1>4. \A y \in S : x <= y
  BY <1>3
<1> QED
  BY <1>4, Zenon DEF Min

\* A bounded set of numbers has a greatest element.
LEMMA MaxOf ==
  ASSUME NEW n \in Nat, NEW S, S \subseteq 0 .. n, S # {}
  PROVE  Max(S) \in S /\ \A y \in S : Max(S) >= y
<1> DEFINE D == {n - y : y \in S}
<1>1. D \subseteq Nat /\ D # {}
  <2>1. \A y \in S : n - y \in Nat
    OBVIOUS
  <2> QED
    BY <2>1, Zenon
<1>2. Min(D) \in D /\ \A d \in D : Min(D) <= d
  BY <1>1, MinOf, Zenon
<1>3. PICK x \in S : Min(D) = n - x
  BY <1>2, Zenon
<1>4. \A y \in S : n - x <= n - y
  BY <1>2, <1>3, ZenonT(60)
<1>5. \A y \in S : x >= y
  BY <1>4
<1> QED
  BY <1>5, Zenon DEF Max

\* synchronize gets past the current token unless it is EOF, and stops there at the latest.
LEMMA Synchronized ==
  ASSUME Reading
  PROVE  /\ synchronize \in m_pos .. Len(m_tokens)
         /\ m_pos < synchronize \/ m_pos = Len(m_tokens)
<1> DEFINE n == Len(m_tokens)
           S == {i \in m_pos + 1 .. n : is_sync_point(i)}
<1>1. /\ m_pos \in Nat /\ n \in Nat /\ m_pos \in 1 .. n /\ m_pos \in m_pos .. n
      /\ \A i \in 1 .. n : m_tokens[i].t = "EOF" <=> i = n
  BY Current DEF Reading, Stream
<1>2. CASE match("EOF")
  <2>1. m_pos = n
    BY <1>1, <1>2 DEF match
  <2>2. synchronize = m_pos
    BY <1>2 DEF synchronize
  <2> QED
    BY <1>1, <2>1, <2>2
<1>3. CASE ~match("EOF")
  <2>1. synchronize = Min(S)
    BY <1>3 DEF synchronize
  <2>2. n \in 1 .. n /\ n \in m_pos + 1 .. n
    <3>1. m_pos # n
      BY <1>1, <1>3 DEF match
    <3> QED
      BY ONLY <1>1, <3>1, SMTT(60)
  <2>3. n \in S
    <3>1. m_tokens[n].t = "EOF"
      BY <1>1, <2>2
    <3> QED
      BY <2>2, <3>1, Zenon DEF is_sync_point, SyncPoints
  <2>4. S \subseteq m_pos + 1 .. n
    OBVIOUS
  <2> HIDE DEF S
  <2>5. S \subseteq Nat /\ S # {}
    BY <1>1, <2>3, <2>4
  <2>6. Min(S) \in m_pos + 1 .. n
    BY <2>4, <2>5, MinOf, Zenon
  <2> QED
    BY <1>1, <2>1, <2>6
<1> QED
  BY <1>2, <1>3, ZenonT(60)

\* The text of an asm block.
LEMMA AsmStep == ASSUME IInv, RInv, asm_body, UNCHANGED tokens PROVE RInv'
<1> DEFINE braces(type, i) == Cardinality({j \in m_pos .. i : m_tokens[j].t = type})
           closing == {i \in m_pos .. Len(m_tokens) : braces("}", i) = braces("{", i) + 1}
           h == Len(values)
<1>1. Running /\ Next1.f = "asm_body" /\ Keeping /\ Reading
  BY Zenon DEF asm_body, RInv
<1>2. \/ /\ closing # {} /\ m_pos' = Min(closing) /\ Proceed
         /\ UNCHANGED <<m_tokens, values, symtab, errors, mode>>
      \/ m_pos' = Len(m_tokens) /\ ThrowAt("syntax", Len(m_tokens)) /\ UNCHANGED symtab
  BY Zenon DEF asm_body
<1>3. closing \subseteq m_pos .. Len(m_tokens)
  BY ZenonT(60)
<1> HIDE DEF closing
<1>4. /\ Next1 \in Items /\ Top.base \in Nat /\ h \in Nat
      /\ Len(frames) > 1 /\ Next1.op = "call" /\ Next1.f # "type_name"
  BY <1>1, Turn, TopBlock, Chosen
<1>5. PICK n \in Nat, g \in Nat :
        n <= h /\ Leads(Next1, Top.base, n, g) /\ Planned(Tail(Top.work), Top.base, g)
  BY <1>1, <1>4, Chosen
<1>6. m_pos \in Nat /\ Len(m_tokens) \in Nat /\ m_pos \in 1 .. Len(m_tokens)
  BY <1>1, Current
<1>7. CASE /\ closing # {} /\ m_pos' = Min(closing) /\ Proceed
           /\ UNCHANGED <<m_tokens, values, symtab, errors, mode>>
  <2>1. closing \subseteq Nat
    BY <1>3, <1>6
  <2>2. m_pos' \in m_pos .. Len(m_tokens)
    BY <1>3, <1>7, <2>1, MinOf, ZenonT(60)
  <2>3. g <= n
    <3>1. "asm_body" \notin OneValue \cup {"assign_opt", "suffixes", "var_init", "new_rest"}
      BY DEF OneValue
    <3> QED
      BY <1>1, <1>4, <1>5, <3>1, ItemCases
  <2>4. g <= Len(values')
    BY <1>4, <1>5, <1>7, <2>3
  <2>5. PICK V : values \in Seq(V)
    BY <1>1 DEF Keeping
  <2>6. values' \in Seq(V)
    BY <1>7, <2>5
  <2> QED
    BY <1>1, <1>5, <1>7, <2>2, <2>4, <2>6, QuietStep
<1>8. CASE m_pos' = Len(m_tokens) /\ ThrowAt("syntax", Len(m_tokens)) /\ UNCHANGED symtab
  <2>1. /\ m_pos <= Len(m_tokens) /\ Len(m_tokens) <= m_pos'
        /\ m_pos' \in 1 .. Len(m_tokens) /\ Len(m_tokens) \in Nat
    BY <1>6, <1>8
  <2> QED
    BY <1>1, <1>4, <1>8, <2>1, ThrowStep, ZenonT(60)
<1> QED
  BY <1>2, <1>7, <1>8

\* A node takes the place of its parts.
LEMMA PushStep ==
  ASSUME IInv, RInv, Running, Next1.op = "node", Next1.f # "EnumName", NEW v, Push(v), Proceed,
         UNCHANGED <<tokens, m_tokens, m_pos, errors, mode>>
  PROVE  RInv'
<1> DEFINE h == Len(values)
           m == Next1.base
<1>1. Keeping /\ Reading
  BY DEF RInv
<1>2. Next1 \in Items /\ Top.base \in Nat /\ h \in Nat /\ Next1.f # "type_name"
  BY <1>1, Turn, TopBlock, Chosen
<1>3. PICK n \in Nat, g \in Nat :
        n <= h /\ Leads(Next1, Top.base, n, g) /\ Planned(Tail(Top.work), Top.base, g)
  BY <1>1, <1>2, Chosen
<1>4. Top.base <= m /\ m <= n /\ g <= m + 1 /\ m \in Int
  BY <1>2, <1>3, ItemCases DEF Items
<1>5. m \in Nat /\ m <= h
  BY <1>2, <1>3, <1>4
<1>6. PICK V : values \in Seq(V)
  BY <1>1 DEF Keeping
<1>7. SubSeq(values, 1, m) \in Seq(V) /\ Len(SubSeq(values, 1, m)) = m
  BY <1>5, <1>6, PrefixAny
<1>8. values' \in Seq(V \cup {v}) /\ Len(values') = m + 1
  BY <1>7, AppendAny DEF Push
<1>9. g <= Len(values') /\ m_pos' \in m_pos .. Len(m_tokens)
  BY <1>1, <1>4, <1>8, Current
<1> QED
  BY <1>3, <1>8, <1>9, QuietStep

\* The nodes, with the declarations and the errors that come with them.
LEMMA BuildStep ==
  ASSUME IInv, RInv, UNCHANGED tokens,
         node \/ declare_variable \/ pointer_type \/ function_type \/ payload_struct
         \/ enum_decl \/ struct_decl \/ function_decl
  PROVE  RInv'
<1> DEFINE Pushed == \E v : Push(v) /\ Proceed /\ UNCHANGED <<m_tokens, m_pos, errors, mode>>
           Thrown == \E kind : Throw(kind) /\ UNCHANGED m_pos
           Base == Running /\ Next1.op = "node" /\ Next1.f # "EnumName"
<1>1. CASE node
  <2>1. Base
    BY <1>1, Zenon DEF node, Declarations
  <2>2. Pushed
    BY <1>1, ZenonT(60) DEF node
  <2> QED
    BY <2>1, <2>2, PushStep
<1>2. CASE declare_variable
  <2>1. Base
    BY <1>2, Zenon DEF declare_variable, Building, Declaring
  <2>2. Pushed \/ Thrown
    BY <1>2, ZenonT(60) DEF declare_variable
  <2>3. Len(frames) > 1
    BY <2>1, Chosen DEF RInv
  <2> QED
    BY <2>1, <2>2, <2>3, PushStep, ThrowHere
<1>3. CASE pointer_type
  <2>1. Base
    BY <1>3, Zenon DEF pointer_type, Building
  <2>2. Pushed
    BY <1>3, ZenonT(60) DEF pointer_type
  <2> QED
    BY <2>1, <2>2, PushStep
<1>4. CASE function_type
  <2>1. Base
    BY <1>4, Zenon DEF function_type, Building
  <2>2. Pushed \/ Thrown
    BY <1>4, ZenonT(60) DEF function_type
  <2>3. Len(frames) > 1
    BY <2>1, Chosen DEF RInv
  <2> QED
    BY <2>1, <2>2, <2>3, PushStep, ThrowHere
<1>5. CASE payload_struct
  <2>1. Base
    BY <1>5, Zenon DEF payload_struct, Building
  <2>2. Pushed
    BY <1>5, ZenonT(60) DEF payload_struct
  <2> QED
    BY <2>1, <2>2, PushStep
<1>6. CASE enum_decl
  <2>1. Base
    BY <1>6, Zenon DEF enum_decl, Building
  <2>2. Pushed
    BY <1>6, ZenonT(60) DEF enum_decl
  <2> QED
    BY <2>1, <2>2, PushStep
<1>7. CASE struct_decl
  <2>1. Base
    BY <1>7, Zenon DEF struct_decl, Building
  <2>2. Pushed
    BY <1>7, ZenonT(60) DEF struct_decl
  <2> QED
    BY <2>1, <2>2, PushStep
<1>8. CASE function_decl
  <2>1. Base
    BY <1>8, Zenon DEF function_decl, Building
  <2>2. Pushed \/ Thrown \/ Crash
    BY <1>8, ZenonT(60) DEF function_decl
  <2>3. Len(frames) > 1
    BY <2>1, Chosen DEF RInv
  <2> QED
    BY <2>1, <2>2, <2>3, PushStep, ThrowHere, CrashStep
<1> QED
  BY <1>1, <1>2, <1>3, <1>4, <1>5, <1>6, <1>7, <1>8

\* The name of an enum stays where it is.
LEMMA EnumNameStep == ASSUME IInv, RInv, enum_name, UNCHANGED tokens PROVE RInv'
<1> DEFINE h == Len(values)
<1>1. Running /\ Next1.op = "node" /\ Next1.f = "EnumName" /\ Keeping /\ Reading
  BY Zenon DEF enum_name, Building, RInv
<1>2. \/ Throw("duplicate") /\ UNCHANGED m_pos
      \/ Proceed /\ UNCHANGED <<m_tokens, m_pos, values, errors, mode>>
  BY ZenonT(60) DEF enum_name
<1>3. /\ Next1 \in Items /\ Top.base \in Nat /\ h \in Nat
      /\ Len(frames) > 1 /\ Next1.f # "type_name"
  BY <1>1, Turn, TopBlock, Chosen
<1>4. CASE Throw("duplicate") /\ UNCHANGED m_pos
  BY <1>1, <1>3, <1>4, ThrowHere
<1>5. CASE Proceed /\ UNCHANGED <<m_tokens, m_pos, values, errors, mode>>
  <2>1. PICK n \in Nat, g \in Nat :
          n <= h /\ Leads(Next1, Top.base, n, g) /\ Planned(Tail(Top.work), Top.base, g)
    BY <1>1, <1>3, Chosen
  <2>2. g <= n
    BY <1>1, <1>3, <2>1, ItemCases
  <2>3. PICK V : values \in Seq(V)
    BY <1>1 DEF Keeping
  <2>4. values' \in Seq(V) /\ g <= Len(values') /\ m_pos' \in m_pos .. Len(m_tokens)
    BY <1>1, <1>3, <1>5, <2>1, <2>2, <2>3, Current
  <2> QED
    BY <1>1, <1>5, <2>1, <2>4, QuietStep
<1> QED
  BY <1>2, <1>4, <1>5

\* An opaque struct, or one with a body.
LEMMA StructNameStep == ASSUME IInv, RInv, struct_name, UNCHANGED tokens PROVE RInv'
<1> DEFINE h == Len(values)
           b == Top.base
           t == Tail(Top.work)
           opaque == <<T(";"), MkWith("OpaqueStruct", 1)>>
           struct == <<Try("struct_body"), MkWith("StructDecl", 1)>>
<1>1. Running /\ Next1.op = "node" /\ Next1.f = "StructName" /\ Keeping /\ Reading /\ Reports
  BY Zenon DEF struct_name, Building, RInv
<1>2. \/ Throw("duplicate") /\ UNCHANGED m_pos
      \/ Crash
      \/ \E body \in {opaque, struct} :
           Do(body) /\ UNCHANGED <<m_tokens, m_pos, values, errors, mode>>
  BY ZenonT(60) DEF struct_name
<1>3. /\ Next1 \in Items /\ b \in Nat /\ h \in Nat /\ t \in Seq(Items) /\ mode = "run"
      /\ Len(frames) > 1 /\ Next1.f # "type_name"
  BY <1>1, Turn, TopBlock, Chosen DEF Running
<1>4. PICK n \in Nat, g \in Nat : n <= h /\ Leads(Next1, b, n, g) /\ Planned(t, b, g)
  BY <1>1, <1>3, Chosen
<1>5. b <= h - 1 /\ h - 1 \in Nat /\ g <= h
  <2>1. /\ b <= Next1.base /\ Next1.base < n /\ g <= Next1.base + 1
        /\ Next1.base \in Int
    BY <1>1, <1>3, <1>4, ItemCases DEF Items
  <2> QED
    BY <1>3, <1>4, <2>1
<1>6. ASSUME NEW i \in Plain, NEW kind \in NodeKinds
      PROVE  LET body == <<i, MkWith(kind, 1)>>
             IN  body \in Seq(Items) /\ Planned(body \o t, b, h)
  <2> DEFINE j == MkWith(kind, 1)
  <2>1. j \in Making /\ j.base = h - 1 /\ j.f # "StructName"
    BY <1>3, NodeItems
  <2>2. <<i>> \in Seq(Plain)
    BY PlainTuples
  <2> HIDE DEF j
  <2>3. j.base + 1 = h /\ b <= j.base /\ j.base <= h
    BY <1>3, <1>5, <2>1
  <2>4. Yields(<<i>> \o <<j>>, b, h, h)
    BY <1>3, <2>1, <2>2, <2>3, YieldsNode, ZenonT(60)
  <2>5. <<i, j>> = <<i>> \o <<j>>
    BY Pair, Zenon
  <2>6. Yields(<<i, j>>, b, h, g)
    BY <1>3, <1>4, <1>5, <2>4, <2>5, YieldsLess, Zenon
  <2> QED
    BY <1>3, <1>4, <2>6, ZenonT(60) DEF Yields, j
<1>7. /\ T(";") \in Plain /\ Try("struct_body") \in Plain
      /\ "OpaqueStruct" \in NodeKinds /\ "StructDecl" \in NodeKinds
  <2>1. T(";") \in Plain
    BY UsedItems, Zenon
  <2>2. "struct_body" \in FrameNames \ {"program"}
    BY DEF FrameNames
  <2>3. "OpaqueStruct" \in NodeKinds /\ "StructDecl" \in NodeKinds
    BY DEF NodeKinds, Kinds
  <2> QED
    BY <2>1, <2>2, <2>3, PlainItems, ZenonT(60)
<1>8. \A body \in {opaque, struct} : body \in Seq(Items) /\ Planned(body \o t, b, h)
  BY <1>6, <1>7, ZenonT(60)
<1> HIDE DEF opaque, struct
<1>9. CASE Throw("duplicate") /\ UNCHANGED m_pos
  BY <1>1, <1>3, <1>9, ThrowHere
<1>10. CASE Crash
  BY <1>10, CrashStep
<1>11. ASSUME NEW body \in {opaque, struct}, Do(body),
              UNCHANGED <<m_tokens, m_pos, values, errors, mode>>
       PROVE  RInv'
  <2>1. body \in Seq(Items) /\ Planned(body \o t, b, h)
    BY <1>8
  <2>2. mode' = "run" /\ Len(frames) # 1
    <3>1. \A k : k > 1 => k # 1
      OBVIOUS
    <3> QED
      BY <1>3, <1>11, <3>1, ZenonT(60)
  <2>3. Keeping'
    BY <1>1, <1>11, <2>1, <2>2, KeepingDo, ZenonT(60)
  <2>4. Reports'
    BY <1>1, <1>3, <1>11, Current, ReportsQuiet
  <2>5. Reading'
    BY <1>1, <1>11 DEF Reading
  <2> QED
    BY <2>2, <2>3, <2>4, <2>5 DEF RInv
<1> QED
  BY <1>2, <1>9, <1>10, <1>11

\* Entering a try block.
LEMMA EnterStep == ASSUME IInv, RInv, Enter, UNCHANGED tokens PROVE RInv'
<1> DEFINE h == Len(values)
           n == Len(frames)
           t == Tail(Top.work)
           f == Next1.f
           mid == [frames EXCEPT ![n].work = t]
<1>1. /\ Running /\ Next1.op = "try" /\ Keeping /\ Reading /\ Reports
      /\ UNCHANGED <<m_tokens, m_pos, values, errors, mode>>
  BY Zenon DEF Enter, RInv
<1>2. PICK scope, opens : frames' = Append(mid, Frame(f, scope, opens, TryBody(f)))
  BY ZenonT(60) DEF Enter, Top
<1>3. /\ Next1 \in Items /\ Top.base \in Nat /\ h \in Nat /\ t \in Seq(Items) /\ mode = "run"
      /\ Stack(frames) /\ n \in Nat /\ n >= 1
  BY <1>1, Turn, TopBlock DEF Running
<1>4. f # "type_name"
  BY <1>1, Chosen
<1>5. PICK m \in Nat, g \in Nat :
        m <= h /\ Leads(Next1, Top.base, m, g) /\ Planned(t, Top.base, g)
  BY <1>1, <1>4, Chosen
<1>6. f \in FrameNames \ {"program"} /\ g <= m
  BY <1>1, <1>3, <1>5, ItemCases
<1>7. Planned(t, Top.base, h) /\ Top.base <= h
  <2>1. g <= h
    BY <1>3, <1>5, <1>6
  <2> QED
    BY <1>3, <1>5, <2>1, PlanMore, PlanBase, ZenonT(60)
<1>8. TryBody(f) \in Seq(Items) /\ Planned(TryBody(f), h, h)
  BY <1>3, <1>6, TryPlanned
<1>9. n = 1 => f = "toplevel"
  <2>1. n = 1 => Next1 \in Root
    BY <1>1, Turn
  <2>2. Call("program").op = "call" /\ Try("toplevel").f = "toplevel"
    BY DEF Call, Try, Item
  <2> QED
    BY <1>1, <2>1, <2>2 DEF Root
<1> DEFINE r == Frame(f, scope, opens, TryBody(f))
<1>10. r.f = f /\ r.base = h /\ r.work = TryBody(f)
  BY DEF Frame
<1> HIDE DEF r, mid
<1>11. Stack(mid)
  BY <1>3, NestedWork, Zenon DEF IInv, mid
<1>12. Blocks(mid)
  <2>1. n = 1 => \A k \in 1 .. Len(t) : t[k] \in Root
    BY <1>1, Turn
  <2> QED
    BY <1>1, <1>3, <2>1, BlocksWork, ZenonT(60) DEF Keeping, mid
<1>13. Len(mid) = n /\ mid[n].work = t /\ mid[n].base = Top.base
  <2>1. n \in 1 .. n
    BY <1>3
  <2> QED
    BY <1>3, <2>1, SetWork DEF mid, Top
<1>14. /\ Blocks(Append(mid, r)) /\ Len(Append(mid, r)) = n + 1 /\ Append(mid, r)[n + 1] = r
  <2>1. /\ Len(mid) >= 1 /\ r.f \in FrameNames \ {"program"} /\ r.base \in Nat
        /\ Len(mid) = 1 => r.f = "toplevel"
    BY <1>3, <1>6, <1>9, <1>10, <1>13, Zenon
  <2>2. /\ r.work \in Seq(Items) /\ mid[Len(mid)].base <= r.base
        /\ Planned(mid[Len(mid)].work, mid[Len(mid)].base, r.base)
    BY <1>7, <1>8, <1>10, <1>13, Zenon
  <2>3. /\ Blocks(Append(mid, r)) /\ Len(Append(mid, r)) = Len(mid) + 1
        /\ Append(mid, r)[Len(mid) + 1] = r
    BY <1>11, <1>12, <2>1, <2>2, BlocksPush, ZenonT(60)
  <2> QED
    BY <1>13, <2>3, Zenon
<1>15. frames' = Append(mid, r)
  BY <1>2 DEF r
<1>16. Blocks(frames') /\ Top' = r /\ Len(frames') = n + 1
  BY <1>14, <1>15 DEF Top
<1>17. Keeping'
  <2>1. h <= h /\ n + 1 > 1
    BY <1>3
  <2> QED
    BY <1>1, <1>8, <1>10, <1>16, <2>1, ZenonT(60) DEF Keeping
<1>18. Reports'
  BY <1>1, <1>3, Current, ReportsQuiet
<1>19. Reading'
  BY <1>1 DEF Reading
<1> QED
  BY <1>1, <1>17, <1>18, <1>19 DEF RInv

-------------------------------------------------------------------------------
\* The ways out of a try block.
LEMMA LeaveStep == ASSUME IInv, RInv, Leave, UNCHANGED tokens PROVE RInv'
<1>1. /\ mode = "run" /\ Len(frames) > 1 /\ frames' = Outer(frames)
      /\ UNCHANGED <<m_tokens, m_pos, values, errors, mode>>
      /\ Keeping /\ Reading /\ Reports
  BY DEF Leave, RInv
<1>2. PICK V : values \in Seq(V)
  BY <1>1 DEF Keeping
<1>3. values' \in Seq(V) /\ Top.base <= Len(values') /\ mode' # "panic"
  BY <1>1, <1>2 DEF Keeping
<1>4. Keeping'
  BY <1>1, <1>3, KeepingPop
<1>5. Reports'
  BY <1>1, Current, ReportsQuiet
<1>6. Reading'
  BY <1>1 DEF Reading
<1> QED
  BY <1>1, <1>4, <1>5, <1>6 DEF RInv

\* A handler that throws again is inside another one: the outermost is that of an item of
\* the file.
LEMMA RethrowStep == ASSUME IInv, RInv, rethrow, UNCHANGED tokens PROVE RInv'
<1>1. /\ mode = "panic" /\ Top.f \in Rethrowing /\ frames' = Outer(frames)
      /\ UNCHANGED <<m_tokens, m_pos, values, errors, mode>>
      /\ Keeping /\ Reading /\ Reports
  BY DEF rethrow, Caught, RInv
<1>2. Len(frames) > 1 /\ Len(frames) \in Nat
  BY <1>1, TopBlock DEF Keeping
<1>3. Len(frames) > 2
  <2>1. Len(frames) # 2
    <3>1. Len(frames) >= 2 => frames[2].f = "toplevel"
      BY <1>1 DEF Keeping, Blocks
    <3>2. "toplevel" \notin Rethrowing
      BY DEF Rethrowing
    <3> QED
      BY <1>1, <1>2, <3>1, <3>2 DEF Top
  <2>2. ASSUME NEW n \in Nat, n > 1, n # 2 PROVE n > 2
    BY ONLY <2>2, SMTT(60)
  <2> QED
    BY <1>2, <2>1, <2>2, ZenonT(60)
<1>4. PICK V : values \in Seq(V)
  BY <1>1 DEF Keeping
<1>5. values' \in Seq(V) /\ Top.base <= Len(values')
  BY <1>1, <1>4 DEF Keeping
<1>6. Keeping'
  BY <1>1, <1>2, <1>3, <1>5, KeepingPop
<1>7. Reports'
  BY <1>1, Current, ReportsQuiet
<1>8. Reading'
  BY <1>1 DEF Reading
<1> QED
  BY <1>1, <1>6, <1>7, <1>8 DEF RInv

\* A handler that goes on behind the error.
LEMMA RecoverStep ==
  ASSUME IInv, RInv, mode = "panic", mode' = "run", frames' = Outer(frames),
         NEW V, values' \in Seq(V), Top.base <= Len(values'),
         m_pos' \in m_pos .. Len(m_tokens), m_pos < m_pos' \/ m_pos = Len(m_tokens),
         UNCHANGED <<tokens, m_tokens, errors>>
  PROVE  RInv'
<1>1. Keeping /\ Reading /\ Reports /\ Len(frames) > 1
  BY DEF RInv, Keeping
<1>2. Keeping'
  BY <1>1, KeepingPop
<1>3. Reports'
  BY <1>1, ReportsQuiet
<1>4. m_pos' \in 1 .. Len(m_tokens)
  BY <1>1, Current
<1>5. Reading'
  BY <1>1, <1>4 DEF Reading
<1> QED
  BY <1>2, <1>3, <1>5 DEF RInv

\* A block that is not complete keeps its statements, a struct its complete fields.
LEMMA PartialStep == ASSUME IInv, RInv, recover_partial, UNCHANGED tokens PROVE RInv'
<1> DEFINE h == Len(values)
           b == Top.base
           s == synchronize
           F == {b} \cup {i \in b + 1 .. h : values[i].k = "Field"}
<1>1. Keeping /\ Reading
  BY DEF RInv
<1>2. /\ mode = "panic" /\ mode' = "run" /\ frames' = Outer(frames)
      /\ UNCHANGED <<m_tokens, errors>>
      /\ values' = IF Top.f = "struct_body" THEN SubSeq(values, 1, LastField) ELSE values
  BY Zenon DEF recover_partial, Caught
<1>3. (m_pos' = s + 1 /\ m_tokens[s].t # "EOF") \/ m_pos' = s
  BY Zenon DEF recover_partial
<1>4. h \in Nat /\ b \in Nat /\ b <= h
  BY <1>1, TopBlock DEF Keeping
<1>5. PICK V : values \in Seq(V)
  BY <1>1 DEF Keeping
<1>6. LastField \in Nat /\ b <= LastField /\ LastField <= h
  <2>1. LastField = Max(F)
    BY DEF LastField
  <2>2. F \subseteq b .. h /\ F \subseteq 0 .. h /\ F # {}
    BY <1>4
  <2> HIDE DEF F
  <2>3. Max(F) \in b .. h
    BY <1>4, <2>2, MaxOf, ZenonT(60)
  <2> QED
    BY <1>4, <2>1, <2>3
<1>7. values' \in Seq(V) /\ b <= Len(values')
  <2>1. CASE Top.f = "struct_body"
    BY <1>2, <1>5, <1>6, <2>1, PrefixAny
  <2>2. CASE Top.f # "struct_body"
    BY <1>2, <1>4, <1>5, <2>2
  <2> QED
    BY <2>1, <2>2
<1>8. /\ m_pos \in Nat /\ Len(m_tokens) \in Nat /\ s \in m_pos .. Len(m_tokens)
      /\ m_pos < s \/ m_pos = Len(m_tokens)
  BY <1>1, Current, Synchronized
<1> HIDE DEF s
<1>9. m_pos' \in m_pos .. Len(m_tokens) /\ (m_pos < m_pos' \/ m_pos = Len(m_tokens))
  <2>1. CASE m_pos' = s
    BY <1>8, <2>1
  <2>2. CASE m_pos' = s + 1 /\ m_tokens[s].t # "EOF"
    <3>1. m_pos \in 1 .. Len(m_tokens)
      BY <1>1, Current
    <3>2. s \in 1 .. Len(m_tokens)
      BY <1>8, <3>1
    <3>3. s # Len(m_tokens)
      BY <1>1, <2>2, <3>2 DEF Reading, Stream
    <3> QED
      BY <1>8, <2>2, <3>3
  <2> QED
    BY <1>3, <2>1, <2>2
<1> QED
  BY <1>2, <1>7, <1>9, RecoverStep, Zenon

\* A statement or an item of the file that could not be parsed leaves one node.
LEMMA PoisonStep == ASSUME IInv, RInv, recover_poison, UNCHANGED tokens PROVE RInv'
<1> DEFINE b == Top.base
<1>1. Keeping /\ Reading
  BY DEF RInv
<1>2. /\ mode = "panic" /\ mode' = "run" /\ frames' = Outer(frames)
      /\ UNCHANGED <<m_tokens, errors>> /\ m_pos' = synchronize
  BY Zenon DEF recover_poison, Caught
<1>3. PICK v : values' = Append(SubSeq(values, 1, b), v)
  BY Zenon DEF recover_poison
<1>4. b \in Nat /\ b <= Len(values)
  BY <1>1, TopBlock DEF Keeping
<1>5. PICK V : values \in Seq(V)
  BY <1>1 DEF Keeping
<1>6. SubSeq(values, 1, b) \in Seq(V) /\ Len(SubSeq(values, 1, b)) = b
  BY <1>4, <1>5, PrefixAny
<1>7. values' \in Seq(V \cup {v}) /\ Len(values') = b + 1
  BY <1>3, <1>6, AppendAny
<1>8. b <= Len(values')
  BY <1>4, <1>7
<1>9. m_pos' \in m_pos .. Len(m_tokens) /\ (m_pos < m_pos' \/ m_pos = Len(m_tokens))
  BY <1>1, <1>2, Synchronized
<1> QED
  BY <1>2, <1>7, <1>8, <1>9, RecoverStep

-------------------------------------------------------------------------------
\* parse_program starts at the first token, with nothing pushed.
LEMMA InitRInv == Init => RInv
<1> SUFFICES ASSUME Init PROVE RInv
  OBVIOUS
<1>1. /\ tokens \in Inputs /\ m_tokens = tokens /\ m_pos = 1 /\ values = <<>>
      /\ errors = <<>> /\ mode = "run"
      /\ frames = <<[f |-> "program", scope |-> 0, opens |-> FALSE, base |-> 0,
                     work |-> <<Call("program")>>]>>
  BY DEF Init
<1>2. /\ tokens \in Seq(Tokens) /\ Len(tokens) > 0
      /\ \A i \in 1 .. Len(tokens) : tokens[i].t = "EOF" <=> i = Len(tokens)
  BY <1>1, InputsAssumption
<1>3. Stream(tokens)
  <2>1. \E X, P : Tokens = [t : TokenTypes, x : X, s : P]
    BY Zenon DEF Tokens
  <2>2. \E X, P : tokens \in Seq([t : TokenTypes, x : X, s : P])
    BY <1>2, <2>1, ZenonT(60)
  <2> QED
    BY <1>2, <2>2, Zenon DEF Stream
<1>4. Reading
  <2>1. Len(tokens) \in Nat
    BY <1>2
  <2>2. 1 \in 1 .. Len(tokens)
    BY ONLY <1>2, <2>1, SMTT(60)
  <2> QED
    BY <1>1, <1>3, <2>2 DEF Reading
<1>5. Reports
  <2>1. errors \in Seq([k : {}, at : Nat]) /\ Len(errors) = 0
    BY <1>1
  <2>2. PanicsAdvance
    BY <2>1 DEF PanicsAdvance
  <2> QED
    BY <1>1, <2>1, <2>2 DEF Reports
<1> DEFINE i == Call("program")
           work == <<i>>
           first == [f |-> "program", scope |-> 0, opens |-> FALSE, base |-> 0, work |-> work]
<1>6. i \in Plain /\ i \in Root /\ i \in Items
  <2>1. "program" \in AnyValues
    BY DEF AnyValues
  <2> QED
    BY <2>1, PlainItems DEF Root
<1> HIDE DEF i
<1>7. /\ work \in Seq(Items) /\ work \in Seq(Plain) /\ Len(work) = 1
      /\ \A k \in 1 .. Len(work) : work[k] \in Root
  BY <1>6
<1>8. Planned(work, 0, 0)
  <2>1. Planned(<<>>, 0, 0) /\ <<>> \in Seq(Items)
    BY PlanNothing
  <2>2. work \o <<>> = work
    <3> HIDE DEF work
    <3> QED
      BY ONLY <1>7, SMTT(60)
  <2> HIDE DEF work
  <2> QED
    BY <1>7, <2>1, <2>2, PlanPlain, Zenon
<1>9. first.f = "program" /\ first.base = 0 /\ first.work = work
  OBVIOUS
<1>10. frames = <<first>>
  BY <1>1 DEF i
<1> HIDE DEF first, work
<1>11. Len(frames) = 1 /\ frames[1] = first
  BY <1>10
<1>12. "program" \in FrameNames
  BY DEF FrameNames
<1>13. Blocks(frames)
  BY <1>7, <1>9, <1>11, <1>12 DEF Blocks
<1>14. Len(values) = 0 /\ values \in Seq({})
  BY <1>1
<1>15. Keeping
  BY <1>1, <1>8, <1>9, <1>11, <1>13, <1>14 DEF Keeping, Top
<1> QED
  BY <1>1, <1>4, <1>5, <1>15 DEF RInv

\* Every step of the parser keeps the invariant.
LEMMA NextRInv == IInv /\ RInv /\ [Next]_vars => RInv'
<1> SUFFICES ASSUME IInv, RInv, [Next]_vars PROVE RInv'
  OBVIOUS
<1>1. CASE UNCHANGED vars
  <2>1. UNCHANGED <<tokens, m_tokens, m_pos, frames, values, errors, mode>>
    BY <1>1 DEF vars
  <2>2. Reading' /\ mode' \in {"run", "panic", "crash"}
    BY <2>1 DEF RInv, Reading
  <2>3. Keeping'
    BY <2>1, ZenonT(60) DEF RInv, Keeping, Naming, Top, match
  <2>4. Reports'
    BY <2>1, Zenon DEF RInv, Reports, PanicsAdvance
  <2> QED
    BY <2>2, <2>3, <2>4 DEF RInv
<1>2. CASE Next
  <2>1. Parse /\ UNCHANGED tokens
    BY <1>2 DEF Next
  <2>2. CASE expand \/ consume \/ consume_rangle \/ absent \/ asm_body \/ type_name
    BY <2>1, <2>2, ExpandStep, ConsumeStep, RangleStep, AbsentStep, AsmStep, TypeNameStep,
       ZenonT(60)
  <2>3. CASE Build
    BY <2>1, <2>3, BuildStep, EnumNameStep, StructNameStep, ZenonT(60) DEF Build
  <2>4. CASE Enter \/ Leave \/ rethrow \/ recover_partial \/ recover_poison
    BY <2>1, <2>4, EnterStep, LeaveStep, RethrowStep, PartialStep, PoisonStep, ZenonT(60)
  <2> QED
    BY <2>1, <2>2, <2>3, <2>4, Zenon DEF Parse
<1> QED
  BY <1>1, <1>2

\* The parser never reads behind EOF, whatever it consumes or skips, and every try block
\* still has the values it began with when its handler cuts them back to those.
THEOREM StaysInside == Spec => []TypeOK
<1>1. IInv /\ RInv => TypeOK
  <2> SUFFICES ASSUME IInv, RInv PROVE TypeOK
    OBVIOUS
  <2>1. /\ Len(frames) \in Nat /\ Len(frames) >= 1 /\ Top.base \in Nat /\ Len(values) \in Nat
        /\ Top.base <= Len(values)
    BY TopBlock DEF RInv, Keeping
  <2>2. ASSUME NEW i \in 1 .. Len(frames)
        PROVE  frames[i].f \in FrameNames /\ frames[i].opens \in BOOLEAN
               /\ frames[i].base <= Len(values)
    <3>1. Len(frames) \in 1 .. Len(frames) /\ i <= Len(frames)
      BY <2>1
    <3>2. /\ frames[i].f \in FrameNames /\ frames[i].base \in Nat
          /\ frames[i].base <= Top.base
      BY <3>1 DEF RInv, Keeping, Blocks, Top
    <3>3. frames[i].opens \in BOOLEAN
      BY StackTypes DEF IInv
    <3>4. frames[i].base <= Len(values)
      BY <2>1, <3>2
    <3> QED
      BY <3>2, <3>3, <3>4
  <2> QED
    BY <2>1, <2>2 DEF TypeOK, RInv, Reading
<1> QED
  BY <1>1, InitInv, NextInv, InitRInv, NextRInv, PTL DEF Spec

\* Every ParsePanic is caught: whatever fails, and in whatever handler it is thrown again,
\* there is a try block around it that has a handler, so that none gets out of
\* parse_program.
THEOREM NoPanicEscapes == Spec => []PanicsCaught
<1>1. IInv /\ RInv => PanicsCaught
  <2> SUFFICES ASSUME IInv, RInv, mode = "panic"
               PROVE  Top.f \in Rethrowing \cup Partial \cup Poisoning
    BY DEF PanicsCaught
  <2>1. Len(frames) > 1 /\ Len(frames) \in Nat /\ Top.f \in FrameNames
    BY TopBlock DEF RInv, Keeping
  <2>2. Len(frames) \in 2 .. Len(frames)
    BY <2>1
  <2>3. Top.f # "program"
    BY <2>2 DEF RInv, Keeping, Blocks, Top
  <2> QED
    BY <2>1, <2>3 DEF FrameNames, Rethrowing, Partial, Poisoning
<1> QED
  BY <1>1, InitInv, NextInv, InitRInv, NextRInv, PTL DEF Spec

\* Each recovery gets the parser behind the error it recovers from: no error is reported
\* at the place of an earlier one or before it, except at EOF.
THEOREM RecoveryAdvances == Spec => []PanicsAdvance
<1>1. RInv => PanicsAdvance
  BY DEF RInv, Reports
<1> QED
  BY <1>1, InitInv, NextInv, InitRInv, NextRInv, PTL DEF Spec
===============================================================================
