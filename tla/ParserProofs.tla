----------------------------- MODULE ParserProofs -----------------------------
(***************************************************************************)
(* Scopes stay balanced for every token sequence, however many panics it   *)
(* causes and however deep its try blocks lie in each other.               *)
(*                                                                         *)
(* The second part is about what the parse functions push.  Nodes are      *)
(* built from values that the items before them have pushed, so that the   *)
(* bases of the try blocks are bounded by the values only if every parse   *)
(* function pushes what its caller builds on.  A plan gives for each place *)
(* in the work of a frame a number of values that will be there at least   *)
(* when the parser gets to it.  ParserRecoveryProofs rests on the plans.   *)
(***************************************************************************)
EXTENDS Parser, TLAPS

\* Leaves that name no prover go to the SMT solver.
USE SMTT(60)

\* The part of the symbol table that scoping is about: the current scope and who is
\* whose parent.  W holds whatever the maps of the scopes are.
ScopeRecords(W) == [parent : Nat, symbols : W, structs : W, enums : W]
IsTable(tab, W) ==
  /\ tab \in [cur : Nat, scopes : Seq(ScopeRecords(W))]
  /\ tab.cur < Len(tab.scopes)
  /\ \A i \in 1 .. Len(tab.scopes) : tab.scopes[i].parent < Len(tab.scopes)
Table(tab) == \E W : IsTable(tab, W)
SameTree(a, b) ==
  /\ b.cur = a.cur /\ Len(b.scopes) = Len(a.scopes)
  /\ \A i \in 1 .. Len(a.scopes) : b.scopes[i].parent = a.scopes[i].parent

Maps == {"symbols", "structs", "enums"}

\* A function on 1 .. n is a sequence of length n.
LEMMA FunctionIsSeq ==
  ASSUME NEW S, NEW n \in Nat, NEW s \in [1 .. n -> S]
  PROVE  s \in Seq(S) /\ Len(s) = n
OBVIOUS

\* A sequence over a set is one over a larger set.
LEMMA SeqMonotone ==
  ASSUME NEW S, NEW U, S \subseteq U, NEW s \in Seq(S)
  PROVE  s \in Seq(U)
OBVIOUS

\* Replacing one map of one scope leaves the tree of scopes alone.
LEMMA PutTree ==
  ASSUME NEW tab, Table(tab), NEW map \in Maps, NEW k, NEW value
  PROVE  LET new == [tab EXCEPT !.scopes[k][map] = value]
         IN  Table(new) /\ SameTree(tab, new)
<1>1. PICK W : IsTable(tab, W)
  BY DEF Table
<1> DEFINE V == W \cup {value}
           new == [tab EXCEPT !.scopes[k][map] = value]
           old == tab.scopes
           put == [old EXCEPT ![k] = [@ EXCEPT ![map] = value]]
<1>2. old \in Seq(ScopeRecords(W)) /\ tab.cur \in Nat
  BY <1>1 DEF IsTable
<1>3. \A i \in 1 .. Len(old) : old[i] \in ScopeRecords(W)
  BY <1>2
<1>4. ASSUME NEW r \in ScopeRecords(W)
      PROVE  /\ r \in ScopeRecords(V)
             /\ [r EXCEPT ![map] = value] \in ScopeRecords(V)
             /\ [r EXCEPT ![map] = value].parent = r.parent
  BY DEF Maps, ScopeRecords
<1>5. put = [i \in 1 .. Len(old) |-> IF i = k THEN [old[k] EXCEPT ![map] = value] ELSE old[i]]
  BY <1>2
<1>6. \A i \in 1 .. Len(old) : put[i] \in ScopeRecords(V) /\ put[i].parent = old[i].parent
  BY <1>3, <1>4, <1>5, ZenonT(60)
<1>7. put \in Seq(ScopeRecords(V)) /\ Len(put) = Len(old)
  <2> HIDE DEF put, V
  <2>1. put \in [1 .. Len(old) -> ScopeRecords(V)]
    BY ONLY <1>5, <1>6, ZenonT(60)
  <2>2. Len(old) \in Nat
    BY <1>2
  <2> QED
    BY ONLY <2>1, <2>2, FunctionIsSeq, SMTT(60)
<1>8. new = [cur |-> tab.cur, scopes |-> put]
  BY <1>1 DEF IsTable
<1>9. new.cur = tab.cur /\ new.scopes = put
  BY <1>8
<1>10. SameTree(tab, new)
  BY <1>6, <1>7, <1>9 DEF SameTree
<1>11. IsTable(new, V)
  <2>1. new \in [cur : Nat, scopes : Seq(ScopeRecords(V))]
    BY <1>2, <1>7, <1>8
  <2> QED
    BY <1>1, <1>6, <1>7, <1>9, <2>1 DEF IsTable
<1> QED
  BY <1>10, <1>11 DEF Table

\* A step that declares a name, in whatever scope, keeps the tree.
LEMMA InsertTree ==
  ASSUME NEW tab, Table(tab), NEW map \in Maps, NEW name, NEW value, NEW id
  PROVE  LET new == insert(tab, map, name, value, id) IN Table(new) /\ SameTree(tab, new)
<1>1. SameTree(tab, tab)
  BY DEF SameTree
<1> DEFINE new == [tab EXCEPT !.scopes[id + 1][map] = (name :> value) @@ @]
<1>2. Table(new) /\ SameTree(tab, new)
  BY PutTree
<1> QED
  BY <1>1, <1>2 DEF insert

\* A step that completes a declaration keeps the tree.
LEMMA UpdateTree ==
  ASSUME NEW tab, Table(tab), NEW map \in Maps, NEW name, NEW decl
  PROVE  LET new == UpdateDecl(tab, map, name, decl) IN Table(new) /\ SameTree(tab, new)
BY PutTree DEF UpdateDecl

\* The tree is kept by steps that keep it one after the other.
LEMMA TreeTransitive ==
  ASSUME NEW a, NEW b, NEW c, SameTree(a, b), SameTree(b, c)
  PROVE  SameTree(a, c)
BY DEF SameTree

\* All ways to declare keep the tree.
LEMMA DeclareTree ==
  ASSUME NEW tab, Table(tab), NEW name, NEW value, NEW id
  PROVE  /\ Table(declare(tab, name, value, id)) /\ SameTree(tab, declare(tab, name, value, id))
         /\ Table(declare_type(tab, value)) /\ SameTree(tab, declare_type(tab, value))
         /\ Table(declare_struct(tab, name, value, id))
         /\ SameTree(tab, declare_struct(tab, name, value, id))
         /\ Table(declare_enum(tab, name, value, id))
         /\ SameTree(tab, declare_enum(tab, name, value, id))
BY InsertTree DEF declare, declare_type, declare_struct, declare_enum, Maps

-------------------------------------------------------------------------------
\* The stack of try blocks; W holds what scoping is not about.
FrameRecords(W) == [f : W, scope : Nat, opens : BOOLEAN, base : W, work : W]
Stack(stack) == \E W : stack \in Seq(FrameRecords(W))

\* ScopesBalanced, made inductive: the first frame is that of parse_program, which opens
\* no scope and has no handler, and the scopes of the frames exist.
Nested(stack, tab) ==
  /\ Len(stack) >= 1
  /\ stack[1].f = "program" /\ stack[1].scope = 0
  /\ tab.cur = stack[Len(stack)].scope
  /\ \A i \in 1 .. Len(stack) : stack[i].scope < Len(tab.scopes)
  /\ \A i \in 2 .. Len(stack) :
       IF stack[i].opens
       THEN stack[i].scope # 0 /\ tab.scopes[stack[i].scope + 1].parent = stack[i - 1].scope
       ELSE stack[i].scope = stack[i - 1].scope
IInv == Table(symtab) /\ Stack(frames) /\ Nested(frames, symtab)

\* Scopes are numbers, and there are finitely many frames.
LEMMA StackTypes ==
  ASSUME NEW stack, Stack(stack)
  PROVE  /\ Len(stack) \in Nat
         /\ \A i \in 1 .. Len(stack) : stack[i].scope \in Nat /\ stack[i].opens \in BOOLEAN
<1>1. PICK W : stack \in Seq(FrameRecords(W))
  BY DEF Stack
<1>2. \A i \in 1 .. Len(stack) : stack[i] \in FrameRecords(W)
  BY <1>1
<1>3. \A r \in FrameRecords(W) : r.scope \in Nat /\ r.opens \in BOOLEAN
  BY DEF FrameRecords
<1> QED
  BY <1>1, <1>2, <1>3

\* Declarations do not disturb the nesting.
LEMMA NestedTree ==
  ASSUME NEW stack, Stack(stack), NEW a, NEW b, Table(a), SameTree(a, b), Nested(stack, a)
  PROVE  Nested(stack, b)
<1>1. \A i \in 1 .. Len(stack) : stack[i].scope \in Nat /\ stack[i].scope < Len(a.scopes)
  BY StackTypes DEF Nested
<1>2. Len(stack) \in Nat /\ Len(a.scopes) \in Nat
  BY StackTypes DEF Table, IsTable
<1>3. ASSUME NEW i \in 2 .. Len(stack)
      PROVE  b.scopes[stack[i].scope + 1].parent = a.scopes[stack[i].scope + 1].parent
  <2>1. stack[i].scope \in Nat /\ stack[i].scope < Len(a.scopes)
    BY <1>1, <1>2
  <2>2. stack[i].scope + 1 \in 1 .. Len(a.scopes)
    BY ONLY <2>1, <1>2, SMTT(60)
  <2> QED
    BY <2>2 DEF SameTree
<1>4. b.cur = a.cur /\ Len(b.scopes) = Len(a.scopes)
  BY DEF SameTree
<1> QED
  BY <1>3, <1>4 DEF Nested

\* The work of the innermost frame does not matter.
LEMMA NestedWork ==
  ASSUME NEW stack, Stack(stack), NEW tab, Nested(stack, tab), NEW work
  PROVE  LET new == [stack EXCEPT ![Len(stack)].work = work]
         IN  Stack(new) /\ Nested(new, tab)
<1>1. PICK W : stack \in Seq(FrameRecords(W))
  BY DEF Stack
<1> DEFINE V == W \cup {work}
           n == Len(stack)
           new == [stack EXCEPT ![n] = [@ EXCEPT !.work = work]]
<1>2. n \in Nat /\ n >= 1
  BY <1>1 DEF Nested
<1>3. \A i \in 1 .. n : stack[i] \in FrameRecords(W)
  BY <1>1
<1>4. ASSUME NEW r \in FrameRecords(W)
      PROVE  LET q == [r EXCEPT !.work = work]
             IN  /\ r \in FrameRecords(V) /\ q \in FrameRecords(V)
                 /\ q.f = r.f /\ q.scope = r.scope /\ q.opens = r.opens
  BY DEF FrameRecords
<1>5. new = [i \in 1 .. n |-> IF i = n THEN [stack[n] EXCEPT !.work = work] ELSE stack[i]]
  BY <1>1
<1>6. \A i \in 1 .. n : /\ new[i] \in FrameRecords(V) /\ new[i].f = stack[i].f
                        /\ new[i].scope = stack[i].scope /\ new[i].opens = stack[i].opens
  BY <1>2, <1>3, <1>4, <1>5, ZenonT(60)
<1>7. new \in Seq(FrameRecords(V)) /\ Len(new) = n
  <2> HIDE DEF new, V, n
  <2>1. new \in [1 .. n -> FrameRecords(V)]
    BY ONLY <1>5, <1>6, ZenonT(60)
  <2> QED
    BY ONLY <2>1, <1>2, FunctionIsSeq, SMTT(60)
<1>8. Nested(new, tab)
  <2> HIDE DEF new, V
  <2> QED
    BY <1>2, <1>6, <1>7 DEF Nested
<1> QED
  BY <1>7, <1>8 DEF Stack

-------------------------------------------------------------------------------
\* A new scope hangs off the current one and becomes the current one.
LEMMA EnterTable ==
  ASSUME NEW tab, Table(tab)
  PROVE  LET new == enter_scope(tab)
             n == Len(tab.scopes)
         IN  /\ Table(new) /\ n \in Nat /\ n > 0
             /\ new.cur = n /\ Len(new.scopes) = n + 1
             /\ new.scopes[n + 1].parent = tab.cur
             /\ \A i \in 1 .. n : new.scopes[i] = tab.scopes[i]
<1>1. PICK W : IsTable(tab, W)
  BY DEF Table
<1> DEFINE V == W \cup {EmptyMap}
           new == enter_scope(tab)
           old == tab.scopes
           scope == NewScope(tab.cur)
<1>2. old \in Seq(ScopeRecords(W)) /\ tab.cur \in Nat /\ tab.cur < Len(old) /\ Len(old) \in Nat
  BY <1>1 DEF IsTable
<1>3. scope \in ScopeRecords(V) /\ scope.parent = tab.cur
  BY <1>2 DEF NewScope, ScopeRecords
<1>4. ScopeRecords(W) \subseteq ScopeRecords(V)
  BY DEF ScopeRecords
<1>5. old \in Seq(ScopeRecords(V))
  BY ONLY <1>2, <1>4, SeqMonotone, ZenonT(60)
<1>6. new.cur = Len(old) /\ new.scopes = Append(old, scope)
  BY DEF enter_scope
<1> HIDE DEF scope
<1>7. /\ Append(old, scope) \in Seq(ScopeRecords(V)) /\ Len(Append(old, scope)) = Len(old) + 1
      /\ Append(old, scope)[Len(old) + 1] = scope
      /\ \A i \in 1 .. Len(old) : Append(old, scope)[i] = old[i]
  BY <1>3, <1>5
<1>8. new \in [cur : Nat, scopes : Seq(ScopeRecords(V))]
  BY <1>2, <1>7 DEF enter_scope, scope
<1>9. \A i \in 1 .. Len(new.scopes) : new.scopes[i].parent < Len(new.scopes)
  <2>1. ASSUME NEW i \in 1 .. Len(old) PROVE new.scopes[i].parent < Len(new.scopes)
    <3>1. old[i].parent < Len(old) /\ old[i] \in ScopeRecords(W)
      BY <1>1, <1>2 DEF IsTable
    <3>2. old[i].parent \in Nat
      BY <3>1 DEF ScopeRecords
    <3> QED
      BY <1>2, <1>6, <1>7, <3>1, <3>2
  <2>2. new.scopes[Len(old) + 1].parent < Len(new.scopes)
    BY <1>2, <1>3, <1>6, <1>7
  <2> QED
    BY <1>2, <1>6, <1>7, <2>1, <2>2
<1>10. IsTable(new, V)
  BY <1>2, <1>6, <1>7, <1>8, <1>9 DEF IsTable
<1> QED
  BY <1>2, <1>3, <1>6, <1>7, <1>10 DEF Table

\* What a frame on top of a stack needs for the stack to be nested.
LEMMA PushFrame ==
  ASSUME NEW stack, Stack(stack), NEW a, Table(a), Nested(stack, a),
         NEW b, Len(b.scopes) \in Nat, Len(b.scopes) >= Len(a.scopes),
         \A i \in 1 .. Len(a.scopes) : b.scopes[i].parent = a.scopes[i].parent,
         NEW f, NEW base, NEW work, NEW opens \in BOOLEAN,
         b.cur \in Nat, b.cur < Len(b.scopes),
         opens => b.cur # 0 /\ b.scopes[b.cur + 1].parent = a.cur,
         ~opens => b.cur = a.cur
  PROVE  LET frame == [f |-> f, scope |-> b.cur, opens |-> opens, base |-> base, work |-> work]
         IN  Stack(Append(stack, frame)) /\ Nested(Append(stack, frame), b)
<1>1. PICK W : stack \in Seq(FrameRecords(W))
  BY DEF Stack
<1> DEFINE V == W \cup {f, base, work}
           frame == [f |-> f, scope |-> b.cur, opens |-> opens, base |-> base, work |-> work]
           n == Len(stack)
           new == Append(stack, frame)
<1>2. frame \in FrameRecords(V) /\ FrameRecords(W) \subseteq FrameRecords(V)
  BY DEF FrameRecords
<1>3. stack \in Seq(FrameRecords(V))
  BY ONLY <1>1, <1>2, SeqMonotone, ZenonT(60)
<1>4. frame.scope = b.cur /\ frame.opens = opens
  OBVIOUS
<1> HIDE DEF frame, V
<1>5. /\ new \in Seq(FrameRecords(V)) /\ Len(new) = n + 1 /\ n \in Nat
      /\ new[n + 1] = frame
      /\ \A i \in 1 .. n : new[i] = stack[i]
  BY ONLY <1>2, <1>3, SMTT(60)
<1> HIDE DEF new
<1>6. /\ n >= 1 /\ stack[n].scope = a.cur
      /\ \A i \in 1 .. n : stack[i].scope \in Nat /\ stack[i].scope < Len(a.scopes)
  BY StackTypes DEF Nested
<1>7. Len(a.scopes) \in Nat
  BY DEF Table, IsTable
<1>8. \A i \in 1 .. n + 1 : new[i].scope < Len(b.scopes)
  <2>1. \A i \in 1 .. n : new[i].scope < Len(b.scopes)
    BY <1>5, <1>6, <1>7
  <2> QED
    BY <1>4, <1>5, <2>1
<1>9. ASSUME NEW i \in 2 .. n + 1
      PROVE  IF new[i].opens
             THEN new[i].scope # 0 /\ b.scopes[new[i].scope + 1].parent = new[i - 1].scope
             ELSE new[i].scope = new[i - 1].scope
  <2>1. CASE i = n + 1
    <3>1. new[i] = frame /\ new[i - 1].scope = a.cur
      BY <1>5, <1>6, <2>1
    <3> QED
      BY <1>4, <3>1
  <2>2. CASE i \in 2 .. n
    <3>1. new[i] = stack[i] /\ new[i - 1] = stack[i - 1]
      BY <1>5, <2>2
    <3>2. stack[i].scope + 1 \in 1 .. Len(a.scopes)
      BY <1>5, <1>6, <1>7, <2>2
    <3>3. b.scopes[stack[i].scope + 1].parent = a.scopes[stack[i].scope + 1].parent
      BY <3>2
    <3> QED
      BY <2>2, <3>1, <3>3 DEF Nested
  <2> QED
    BY <1>5, <2>1, <2>2
<1>10. new[1].f = "program" /\ new[1].scope = 0
  BY <1>5, <1>6 DEF Nested
<1>11. Nested(new, b)
  BY <1>4, <1>5, <1>6, <1>8, <1>9, <1>10 DEF Nested
<1> QED
  BY <1>5, <1>11 DEF Stack, new, frame

\* Closing the scope of the innermost frame and dropping the frame, as Leave and every
\* handler do, makes the scope of the frame below current again.
LEMMA PopFrame ==
  ASSUME IInv, Len(frames) > 1
  PROVE  Table(Closed) /\ Stack(Outer(frames)) /\ Nested(Outer(frames), Closed)
<1>1. PICK W : frames \in Seq(FrameRecords(W))
  BY DEF IInv, Stack
<1>2. PICK U : IsTable(symtab, U)
  BY DEF IInv, Table
<1> DEFINE n == Len(frames)
           new == Outer(frames)
<1>3. /\ new \in Seq(FrameRecords(W)) /\ Len(new) = n - 1 /\ n \in Nat
      /\ \A i \in 1 .. n - 1 : new[i] = frames[i]
  BY <1>1 DEF Outer
<1> HIDE DEF new
<1>4. Closed.scopes = symtab.scopes /\ Closed.cur = frames[n - 1].scope
  <2>1. symtab.cur = frames[n].scope /\ n \in 2 .. n
    BY <1>3 DEF IInv, Nested
  <2>2. CASE Top.opens
    <3>1. symtab.cur # 0 /\ symtab.scopes[symtab.cur + 1].parent = frames[n - 1].scope
      BY <2>1, <2>2 DEF IInv, Nested, Top
    <3> QED
      BY <1>2, <2>2, <3>1 DEF Closed, exit_scope, ScopeOf, IsTable
  <2>3. CASE ~Top.opens
    BY <2>1, <2>3 DEF IInv, Nested, Closed, Top
  <2> QED
    BY <2>2, <2>3
<1>5. frames[n - 1].scope \in Nat /\ frames[n - 1].scope < Len(symtab.scopes)
  BY <1>3, StackTypes DEF IInv, Nested
<1>6. Closed \in [cur : Nat, scopes : Seq(ScopeRecords(U))]
  <2>1. Closed = [cur |-> Closed.cur, scopes |-> Closed.scopes]
    BY <1>2 DEF IsTable, Closed, exit_scope
  <2> QED
    BY <1>2, <1>4, <1>5, <2>1 DEF IsTable
<1>7. IsTable(Closed, U)
  BY <1>2, <1>4, <1>5, <1>6 DEF IsTable
<1>8. Nested(new, Closed)
  BY <1>3, <1>4 DEF IInv, Nested
<1> QED
  BY <1>3, <1>7, <1>8 DEF Table, Stack, new

-------------------------------------------------------------------------------
\* A step inside a try block: it changes at most what is left to do in the innermost one,
\* and declares names.
Works == frames' = frames \/ \E w : frames' = [frames EXCEPT ![Len(frames)].work = w]
Declares == Table(symtab') /\ SameTree(symtab, symtab')

\* The ways the parse functions go on, throw or stop are such steps.
LEMMA WorkSteps ==
  /\ \A body : Do(body) => Works
  /\ \A kind, place : ThrowAt(kind, place) => Works
  /\ Crash => Works
  /\ Table(symtab) /\ UNCHANGED symtab => Declares
<1>1. ASSUME NEW body, Do(body) PROVE Works
  BY <1>1, ZenonT(60) DEF Do, Works
<1>2. ASSUME NEW kind, NEW place, ThrowAt(kind, place) PROVE Works
  BY <1>2 DEF ThrowAt, Works
<1>3. ASSUME Crash PROVE Works
  BY <1>3 DEF Crash, Works
<1>4. ASSUME Table(symtab), UNCHANGED symtab PROVE Declares
  BY <1>4 DEF Declares, SameTree
<1> QED
  BY <1>1, <1>2, <1>3, <1>4

\* Such a step keeps the scopes balanced.
LEMMA InsideInv == IInv /\ Works /\ Declares => IInv'
<1> SUFFICES ASSUME IInv, Works, Declares PROVE IInv'
  OBVIOUS
<1>1. Nested(frames, symtab') /\ Stack(frames)
  BY NestedTree DEF IInv, Declares
<1>2. Stack(frames') /\ Nested(frames', symtab')
  <2>1. CASE frames' = frames
    BY <1>1, <2>1
  <2>2. ASSUME NEW w, frames' = [frames EXCEPT ![Len(frames)].work = w]
        PROVE  Stack(frames') /\ Nested(frames', symtab')
    BY <1>1, <2>2, NestedWork, ZenonT(60)
  <2> QED
    BY <2>1, <2>2 DEF Works
<1> QED
  BY <1>2 DEF IInv, Declares

\* Reading tokens and building plain nodes declare nothing.
LEMMA ReadingInv ==
  IInv /\ (expand \/ consume \/ consume_rangle \/ absent \/ asm_body \/ node \/ function_type)
    => IInv'
<1> SUFFICES ASSUME IInv,
                    expand \/ consume \/ consume_rangle \/ absent \/ asm_body \/ node
                      \/ function_type
             PROVE  IInv'
  OBVIOUS
<1>1. UNCHANGED symtab
  BY Zenon DEF expand, consume, consume_rangle, absent, asm_body, node, function_type
<1>2. Works
  BY WorkSteps, Zenon
     DEF expand, consume, consume_rangle, absent, asm_body, node, function_type,
       Throw, Proceed
<1> QED
  BY <1>1, <1>2, WorkSteps, InsideInv DEF IInv

\* Types, variables and function types are declared in the table as it is.
LEMMA DeclaringInv ==
  IInv /\ (type_name \/ declare_variable \/ pointer_type \/ function_decl) => IInv'
<1> SUFFICES ASSUME IInv, type_name \/ declare_variable \/ pointer_type \/ function_decl
             PROVE  IInv'
  OBVIOUS
<1>1. Works
  BY WorkSteps, ZenonT(60)
     DEF type_name, declare_variable, pointer_type, function_decl, Throw, Proceed
<1>2. Table(symtab)
  BY DEF IInv
<1>3. \A t : Table(declare_type(symtab, t)) /\ SameTree(symtab, declare_type(symtab, t))
  BY <1>2, DeclareTree
<1>4. ASSUME type_name PROVE Declares
  <2>1. symtab' = symtab \/ \E t : symtab' = declare_type(symtab, t)
    BY <1>4, ZenonT(60) DEF type_name
  <2> QED
    BY <1>2, <1>3, <2>1, WorkSteps DEF Declares
<1>5. ASSUME declare_variable PROVE Declares
  <2>1. symtab' = symtab \/ \E name, v, id : symtab' = declare(symtab, name, v, id)
    BY <1>5 DEF declare_variable
  <2> QED
    BY <1>2, <2>1, DeclareTree, WorkSteps DEF Declares
<1>6. ASSUME pointer_type PROVE Declares
  BY <1>3, <1>6 DEF pointer_type, Declares
<1>7. ASSUME function_decl PROVE Declares
  <2>1. \/ symtab' = symtab
        \/ \E t : symtab' = declare_type(symtab, t)
        \/ \E t, name, v : symtab' = declare(declare_type(symtab, t), name, v, 0)
    BY <1>7, Zenon DEF function_decl, Crash
  <2>2. ASSUME NEW t, NEW name, NEW v, symtab' = declare(declare_type(symtab, t), name, v, 0)
        PROVE  Declares
    <3>1. Table(symtab') /\ SameTree(declare_type(symtab, t), symtab')
      BY <1>3, <2>2, DeclareTree
    <3> QED
      BY <1>3, <3>1, TreeTransitive DEF Declares
  <2> QED
    BY <1>2, <1>3, <2>1, <2>2, WorkSteps DEF Declares
<1> QED
  BY <1>1, <1>4, <1>5, <1>6, <1>7, InsideInv

\* A struct or enum is declared with its type, and completed later.
LEMMA StructInv ==
  IInv /\ (enum_name \/ payload_struct \/ enum_decl \/ struct_name \/ struct_decl) => IInv'
<1> SUFFICES ASSUME IInv,
                    enum_name \/ payload_struct \/ enum_decl \/ struct_name \/ struct_decl
             PROVE  IInv'
  OBVIOUS
<1>1. Works
  BY WorkSteps, Zenon
     DEF enum_name, payload_struct, enum_decl, struct_name, struct_decl, Throw, Proceed
<1>2. Table(symtab)
  BY DEF IInv
<1>3. ASSUME NEW t, NEW name, NEW decl, NEW id
      PROVE  LET struct == declare_struct(declare_type(symtab, t), name, decl, id)
                 enum == declare_enum(declare_type(symtab, t), name, decl, id)
             IN  Table(struct) /\ SameTree(symtab, struct) /\ Table(enum) /\ SameTree(symtab, enum)
  <2>1. Table(declare_type(symtab, t)) /\ SameTree(symtab, declare_type(symtab, t))
    BY <1>2, DeclareTree
  <2> QED
    BY <2>1, DeclareTree, TreeTransitive
<1>4. ASSUME NEW tab, Table(tab), SameTree(symtab, tab), NEW map \in Maps, NEW name, NEW decl
      PROVE  LET new == UpdateDecl(tab, map, name, decl) IN Table(new) /\ SameTree(symtab, new)
  BY <1>4, UpdateTree, TreeTransitive
<1>5. SameTree(symtab, symtab)
  BY DEF SameTree
<1>6. ASSUME enum_name PROVE Declares
  BY <1>2, <1>3, <1>5, <1>6 DEF enum_name, Declares
<1>7. ASSUME payload_struct PROVE Declares
  BY <1>3, <1>7 DEF payload_struct, Declares
<1>8. ASSUME enum_decl PROVE Declares
  BY <1>2, <1>4, <1>5, <1>8 DEF enum_decl, Declares, Maps
<1>9. ASSUME struct_decl PROVE Declares
  BY <1>2, <1>4, <1>5, <1>9 DEF struct_decl, Declares, Maps
<1>10. ASSUME struct_name PROVE Declares
  <2>1. \E t, name, fresh, id, decl :
          LET tab == declare_struct(declare_type(symtab, t), name, fresh, id)
          IN  \/ symtab' = symtab \/ symtab' = tab
              \/ symtab' = UpdateDecl(symtab, "structs", name, decl)
              \/ symtab' = UpdateDecl(tab, "structs", name, decl)
    BY <1>10, ZenonT(60) DEF struct_name, Crash
  <2> QED
    BY <1>2, <1>3, <1>4, <1>5, <2>1 DEF Declares, Maps
<1> QED
  BY <1>1, <1>6, <1>7, <1>8, <1>9, <1>10, InsideInv

\* Opening a try block, with a scope of its own or not.
LEMMA EnterInv == IInv /\ Enter => IInv'
<1> SUFFICES ASSUME IInv, Enter PROVE IInv'
  OBVIOUS
<1> DEFINE opens == Next1.f \in Scoped
           rest == [frames EXCEPT ![Len(frames)].work = Tail(@)]
           tab == IF opens THEN enter_scope(symtab) ELSE symtab
<1>1. /\ symtab' = tab
      /\ frames' = Append(rest, [f |-> Next1.f, scope |-> tab.cur, opens |-> opens,
                                 base |-> Len(values), work |-> TryBody(Next1.f)])
  BY DEF Enter, Frame
<1>2. Table(symtab) /\ Stack(rest) /\ Nested(rest, symtab)
  BY NestedWork, ZenonT(60) DEF IInv
<1>3. /\ Table(tab) /\ Len(tab.scopes) \in Nat /\ Len(tab.scopes) >= Len(symtab.scopes)
      /\ \A i \in 1 .. Len(symtab.scopes) : tab.scopes[i].parent = symtab.scopes[i].parent
      /\ tab.cur \in Nat /\ tab.cur < Len(tab.scopes)
      /\ opens => tab.cur # 0 /\ tab.scopes[tab.cur + 1].parent = symtab.cur
      /\ ~opens => tab.cur = symtab.cur
  <2>1. CASE opens
    BY <1>2, <2>1, EnterTable
  <2>2. CASE ~opens
    BY <1>2, <2>2 DEF Table, IsTable
  <2> QED
    BY <2>1, <2>2
<1> HIDE DEF tab, rest, opens
<1>4. opens \in BOOLEAN
  BY DEF opens
<1> QED
  BY <1>1, <1>2, <1>3, <1>4, PushFrame, ZenonT(60) DEF IInv

\* Every handler, and the normal end of a try block, closes the scope it opened.
LEMMA LeaveInv == IInv /\ (Leave \/ rethrow \/ recover_partial \/ recover_poison) => IInv'
<1> SUFFICES ASSUME IInv, Leave \/ rethrow \/ recover_partial \/ recover_poison PROVE IInv'
  OBVIOUS
<1>1. symtab' = Closed /\ frames' = Outer(frames)
  BY Zenon DEF Leave, rethrow, recover_partial, recover_poison
<1>2. Len(frames) > 1
  <2>1. CASE Leave
    BY <2>1 DEF Leave
  <2>2. CASE Top.f # "program"
    <3>1. Len(frames) \in Nat /\ Len(frames) >= 1 /\ Len(frames) # 1
      BY <2>2, StackTypes DEF IInv, Nested, Top
    <3>2. \A n \in Nat : n >= 1 /\ n # 1 => n > 1
      OBVIOUS
    <3> QED
      BY ONLY <3>1, <3>2, ZenonT(60)
  <2> QED
    BY <2>1, <2>2, ZenonT(60)
       DEF rethrow, recover_partial, recover_poison, Caught, Rethrowing, Partial,
         Poisoning
<1> QED
  BY <1>1, <1>2, PopFrame DEF IInv

\* parse_program starts in the global scope.
LEMMA InitInv == Init => IInv
<1> SUFFICES ASSUME Init PROVE IInv
  OBVIOUS
<1>1. Table(symtab)
  <2> DEFINE W == {GlobalScope.symbols, EmptyMap}
  <2>1. GlobalScope = [parent |-> 0, symbols |-> GlobalScope.symbols, structs |-> EmptyMap,
                       enums |-> EmptyMap]
    BY DEF GlobalScope, NewScope
  <2> HIDE DEF W
  <2>2. GlobalScope \in ScopeRecords(W) /\ GlobalScope.parent = 0
    BY <2>1 DEF ScopeRecords, W
  <2>3. <<GlobalScope>> \in Seq(ScopeRecords(W)) /\ Len(<<GlobalScope>>) = 1
    BY <2>2
  <2>4. symtab = [cur |-> 0, scopes |-> <<GlobalScope>>]
    BY DEF Init, NewSymTab
  <2>5. IsTable(symtab, W)
    BY <2>2, <2>3, <2>4 DEF IsTable
  <2> QED
    BY <2>5 DEF Table
<1> DEFINE work == <<Call("program")>>
           first == [f |-> "program", scope |-> 0, opens |-> FALSE, base |-> 0, work |-> work]
<1>2. frames = <<first>>
  BY DEF Init
<1>3. first \in FrameRecords({"program", 0, work})
  BY DEF FrameRecords
<1>4. first.f = "program" /\ first.scope = 0
  OBVIOUS
<1> HIDE DEF first
<1>5. Stack(frames)
  BY <1>2, <1>3 DEF Stack
<1>6. Nested(frames, symtab)
  BY <1>2, <1>4 DEF Init, NewSymTab, Nested
<1> QED
  BY <1>1, <1>5, <1>6 DEF IInv

\* Every step of the parser keeps the scopes balanced.
LEMMA NextInv == IInv /\ [Next]_vars => IInv'
<1> SUFFICES ASSUME IInv, [Next]_vars PROVE IInv'
  OBVIOUS
<1>1. CASE UNCHANGED vars
  BY <1>1 DEF vars, IInv
<1>2. CASE Next
  BY <1>2, ReadingInv, DeclaringInv, StructInv, EnterInv, LeaveInv
     DEF Next, Parse, Build
<1> QED
  BY <1>1, <1>2

\* Whatever the tokens, enter_scope and exit_scope are paired on every path through the
\* parser: in each state the current scope is that of the innermost try block, and back in
\* parse_program it is the global one.
THEOREM Balanced == Spec => []ScopesBalanced
<1>1. IInv => ScopesBalanced
  BY DEF IInv, Nested, ScopesBalanced, Top, ParentOf, ScopeOf
<1> QED
  BY <1>1, InitInv, NextInv, PTL DEF Spec

-------------------------------------------------------------------------------
\* The parse functions that push one value, and those that push any number.
OneValue ==
  {"mutability_prefix", "enum_decl", "variant", "tag_opt", "payload_opt", "struct_decl",
   "struct_field", "function_decl", "params", "param", "returns_opt", "function_body",
   "var_decl", "init_opt", "if", "else_opt", "for", "for_init", "while", "switch",
   "case_pattern", "payload_name_opt", "read", "print", "error", "return", "exit", "break",
   "continue", "free", "asm", "block", "expression", "unary", "primary", "identifier",
   "struct_literal", "initializer", "new_expr", "new_init", "type", "param_types",
   "param_type"}
AnyValues == {"program", "cases", "statements", "enum_fields_opt", "asm_body"}
\* Those that build on values that are there.
Builders == {"assign_opt", "suffixes", "var_init", "new_rest"}

\* The kinds of nodes, and what _error says it expected where no token would do.
Kinds ==
  {"Asm", "Block", "Break", "CaseDefault", "CaseEnum", "CaseValue", "Cast", "Continue",
   "EnumDecl", "EnumLiteral", "EnumName", "Error", "Exit", "ExpressionStatement", "Field",
   "For", "Free", "FunctionDecl", "FunctionType", "Grouped", "If", "Initializer", "Param",
   "ParamType", "ParamTypes", "Params", "Payload", "Pointer", "Print", "Read", "Return",
   "ReturnVar", "SizeOf", "StructLiteral", "StructName", "Switch", "Unary", "Variant",
   "While", "ArrayIndex", "Assignment", "BinaryOp", "FieldAccess", "FunctionCall", "New",
   "NewArray", "OpaqueStruct", "StructDecl", "VarDecl"}
Missing == {": | :=", "case | default", "<primary>", "[ or (", "<type>"}

Ops == {"token", "keep", "call", "try", "absent", "rangle", "list", "more", "opt", "binary",
        "operators", "node"}
Words == TokenTypes \cup OneValue \cup AnyValues \cup Builders \cup FrameNames \cup Kinds
         \cup Missing \cup {"type_name", NoWord}
Items == [op : Ops, f : Words, x : Words, base : Int]

\* Items that build on no value, and those of them that push one.  The item of Expected
\* is never passed.
Plain ==
  {i \in Items :
     \/ i.op = "token" /\ i.f \in Missing
     \/ i.op \in {"token", "keep"} /\ i.f \in TokenTypes \ {"EOF"}
     \/ i.op = "absent" /\ i.f = NoWord
     \/ i.op = "rangle" /\ i.f = ">"
     \/ i.op = "try" /\ i.f \in FrameNames \ {"program"}
     \/ i.op \in {"list", "more", "opt"} /\ i.f \in OneValue
     \/ i.op = "binary" /\ i.f = NoWord /\ i.base \in 0 .. 10
     \/ i.op = "node" /\ i.f = "EnumName"
     \/ i.op = "call" /\ i.f \in OneValue \cup AnyValues}
Giving ==
  {i \in Plain :
     \/ i.op \in {"keep", "absent", "opt", "binary"}
     \/ i.op = "call" /\ i.f \in OneValue
     \/ i.op = "token" /\ i.f \in Missing}

\* Items that build on the last value or the last two.
OnOne ==
  {i \in Items : \/ i.op = "operators" /\ i.f = NoWord /\ i.base \in 0 .. 10
                 \/ i.op = "call" /\ i.f \in {"assign_opt", "suffixes"}}
OnTwo == {i \in Items : i.op = "call" /\ i.f \in {"var_init", "new_rest"}}
\* Items that build a node.
Making == {i \in Items : i.op = "node" /\ i.f \in Kinds \ {"EnumName"}}

\* In a frame that began with b values an item that finds at least h of them leaves at
\* least g.
Leads(i, b, h, g) ==
  /\ b <= h /\ b <= g
  /\ \/ i \in Plain /\ g <= h
     \/ i \in Giving /\ g <= h + 1
     \/ i \in OnOne /\ b + 1 <= h /\ g <= h
     \/ i \in OnTwo /\ b + 2 <= h /\ g <= h - 1
     \/ /\ i \in Making /\ b <= i.base /\ i.base <= h /\ g <= i.base + 1
        /\ i.f = "StructName" => i.base < h

\* The work w of a frame that began with b values can be done when there are h.
IsPlan(p, w, b, h) ==
  /\ p \in [1 .. Len(w) + 1 -> Nat]
  /\ b <= p[1] /\ p[1] <= h
  /\ \A k \in 1 .. Len(w) : Leads(w[k], b, p[k], p[k + 1])
Planned(w, b, h) == \E p : IsPlan(p, w, b, h)

\* More values do no harm.
LEMMA PlanMore ==
  ASSUME NEW w \in Seq(Items), NEW b \in Nat, NEW h \in Nat, NEW n \in Nat, h <= n,
         Planned(w, b, h)
  PROVE  Planned(w, b, n)
<1>1. PICK p : IsPlan(p, w, b, h)
  BY DEF Planned
<1>2. p[1] \in Nat
  BY <1>1 DEF IsPlan
<1>3. IsPlan(p, w, b, n)
  BY <1>1, <1>2 DEF IsPlan
<1> QED
  BY <1>3 DEF Planned

\* Nothing to do needs no more than the frame began with.
LEMMA PlanNothing ==
  ASSUME NEW b \in Nat, NEW h \in Nat, b <= h
  PROVE  Planned(<<>>, b, h)
<1> DEFINE p == [k \in 1 .. 1 |-> h]
<1>1. Len(<<>>) + 1 = 1
  OBVIOUS
<1>2. p \in [1 .. 1 -> Nat] /\ p[1] = h
  OBVIOUS
<1>3. IsPlan(p, <<>>, b, h)
  BY <1>1, <1>2 DEF IsPlan
<1> QED
  BY <1>3 DEF Planned

\* What is known of the next item, and of the work behind it.
LEMMA PlanHead ==
  ASSUME NEW w \in Seq(Items), w # <<>>, NEW b \in Nat, NEW h \in Nat, Planned(w, b, h)
  PROVE  \E n, g \in Nat : n <= h /\ Leads(w[1], b, n, g) /\ Planned(Tail(w), b, g)
<1>1. PICK p : IsPlan(p, w, b, h)
  BY DEF Planned
<1>2. Len(w) \in Nat /\ Len(w) >= 1 /\ Len(Tail(w)) = Len(w) - 1
  OBVIOUS
<1>3. \A k \in 1 .. Len(w) - 1 : Tail(w)[k] = w[k + 1]
  OBVIOUS
<1> DEFINE q == [k \in 1 .. Len(w) |-> p[k + 1]]
<1>4. /\ p \in [1 .. Len(w) + 1 -> Nat] /\ p[1] <= h
      /\ \A k \in 1 .. Len(w) : Leads(w[k], b, p[k], p[k + 1])
  BY <1>1 DEF IsPlan
<1>5. p[1] \in Nat /\ p[2] \in Nat /\ Leads(w[1], b, p[1], p[2])
  BY <1>2, <1>4
<1>6. q \in [1 .. Len(w) -> Nat] /\ \A k \in 1 .. Len(w) : q[k] = p[k + 1]
  BY <1>2, <1>4
<1>7. b <= p[2]
  BY <1>5 DEF Leads
<1> HIDE DEF q
<1>8. ASSUME NEW k \in 1 .. Len(w) - 1 PROVE Leads(Tail(w)[k], b, q[k], q[k + 1])
  <2>1. k \in 1 .. Len(w) /\ k + 1 \in 1 .. Len(w)
    BY <1>2
  <2>2. q[k] = p[k + 1] /\ q[k + 1] = p[k + 1 + 1]
    BY <1>6, <2>1
  <2> QED
    BY <1>3, <1>4, <2>1, <2>2
<1>9. q[1] = p[2]
  BY <1>2, <1>6
<1>10. IsPlan(q, Tail(w), b, p[2])
  <2>1. Len(Tail(w)) + 1 = Len(w)
    BY <1>2
  <2> QED
    BY <1>2, <1>5, <1>6, <1>7, <1>8, <1>9, <2>1 DEF IsPlan
<1> QED
  BY <1>4, <1>5, <1>10 DEF Planned

\* A sequence with an item in front of it.
LEMMA ConsSeq ==
  ASSUME NEW S, NEW i \in S, NEW w \in Seq(S)
  PROVE  /\ <<i>> \o w \in Seq(S) /\ Len(<<i>> \o w) = Len(w) + 1
         /\ (<<i>> \o w)[1] = i /\ \A k \in 1 .. Len(w) : (<<i>> \o w)[k + 1] = w[k]
OBVIOUS

\* Work with an item in front of it.
LEMMA PlanItem ==
  ASSUME NEW i \in Items, NEW w \in Seq(Items), NEW b \in Nat, NEW h \in Nat, NEW g \in Nat,
         Leads(i, b, h, g), Planned(w, b, g)
  PROVE  <<i>> \o w \in Seq(Items) /\ Planned(<<i>> \o w, b, h)
<1>1. PICK p : IsPlan(p, w, b, g)
  BY DEF Planned
<1> DEFINE n == Len(w)
           v == <<i>> \o w
           q == [k \in 1 .. n + 2 |-> IF k = 1 THEN h ELSE p[k - 1]]
<1>2. /\ v \in Seq(Items) /\ Len(v) = n + 1 /\ n \in Nat
      /\ v[1] = i /\ \A k \in 1 .. n : v[k + 1] = w[k]
  BY ConsSeq
<1>3. /\ p \in [1 .. n + 1 -> Nat] /\ b <= p[1] /\ p[1] <= g /\ p[1] \in Nat
      /\ \A k \in 1 .. n : Leads(w[k], b, p[k], p[k + 1])
  BY <1>1, <1>2 DEF IsPlan
<1>4. /\ q \in [1 .. n + 2 -> Nat] /\ q[1] = h
      /\ \A k \in 1 .. n + 1 : q[k + 1] = p[k]
  BY <1>2, <1>3
<1>5. b <= h
  BY DEF Leads
<1>6. Leads(i, b, h, p[1])
  BY <1>3 DEF Leads, Making, Items
<1> HIDE DEF v, q
<1>7. ASSUME NEW k \in 1 .. n + 1 PROVE Leads(v[k], b, q[k], q[k + 1])
  <2>1. CASE k = 1
    BY <1>2, <1>4, <1>6, <2>1
  <2>2. CASE k # 1
    <3> DEFINE j == k - 1
    <3>1. j \in 1 .. n /\ k = j + 1 /\ j \in 1 .. n + 1 /\ j + 1 \in 1 .. n + 1
      BY <1>2, <2>2
    <3> HIDE DEF j
    <3>2. v[k] = w[j] /\ q[k] = p[j] /\ q[k + 1] = p[j + 1]
      BY <1>2, <1>4, <3>1, Zenon
    <3> QED
      BY <1>3, <3>1, <3>2
  <2> QED
    BY <2>1, <2>2
<1>8. IsPlan(q, v, b, h)
  <2>1. Len(v) + 1 = n + 2
    BY <1>2
  <2> QED
    BY <1>2, <1>4, <1>5, <1>7, <2>1 DEF IsPlan
<1> QED
  BY <1>2, <1>8 DEF Planned, v

\* Work with plain items in front of it.
LEMMA PlanPlain ==
  ASSUME NEW B \in Seq(Plain), NEW w \in Seq(Items), NEW b \in Nat, NEW h \in Nat,
         Planned(w, b, h)
  PROVE  B \o w \in Seq(Items) /\ Planned(B \o w, b, h)
<1>1. PICK p : IsPlan(p, w, b, h)
  BY DEF Planned
<1> DEFINE m == Len(B)
           n == Len(w)
           v == B \o w
           q == [k \in 1 .. m + n + 1 |-> IF k <= m THEN h ELSE p[k - m]]
<1>2. Plain \subseteq Items
  BY DEF Plain
<1>3. /\ v \in Seq(Items) /\ Len(v) = m + n /\ m \in Nat /\ n \in Nat
      /\ \A k \in 1 .. m : v[k] = B[k] /\ B[k] \in Plain
      /\ \A k \in 1 .. n : v[m + k] = w[k]
  <2>1. B \in Seq(Items)
    BY <1>2, SeqMonotone
  <2> QED
    BY <2>1
<1>4. /\ p \in [1 .. n + 1 -> Nat] /\ b <= p[1] /\ p[1] <= h /\ p[1] \in Nat
      /\ \A k \in 1 .. n : Leads(w[k], b, p[k], p[k + 1])
  BY <1>1, <1>3 DEF IsPlan
<1>5. /\ q \in [1 .. m + n + 1 -> Nat]
      /\ \A k \in 1 .. m : q[k] = h
      /\ \A k \in 1 .. n + 1 : q[m + k] = p[k]
  <2>1. ASSUME NEW k \in 1 .. m + n + 1 PROVE (IF k <= m THEN h ELSE p[k - m]) \in Nat
    <3>1. CASE k <= m
      BY <3>1
    <3>2. CASE ~(k <= m)
      <4>1. k - m \in 1 .. n + 1
        BY <1>3, <3>2
      <4> QED
        BY <1>4, <3>2, <4>1, Zenon
    <3> QED
      BY <3>1, <3>2
  <2>2. q \in [1 .. m + n + 1 -> Nat]
    BY <2>1
  <2>3. ASSUME NEW k \in 1 .. m PROVE q[k] = h
    BY <1>3
  <2>4. ASSUME NEW k \in 1 .. n + 1 PROVE q[m + k] = p[k]
    <3>1. m + k \in 1 .. m + n + 1 /\ ~(m + k <= m) /\ m + k - m = k
      BY <1>3
    <3> QED
      BY <3>1
  <2> QED
    BY <2>2, <2>3, <2>4
<1>6. \A i \in Plain : Leads(i, b, h, h) /\ Leads(i, b, h, p[1])
  BY <1>4 DEF Leads
<1> HIDE DEF v, q, m, n
<1>7. ASSUME NEW k \in 1 .. m + n PROVE Leads(v[k], b, q[k], q[k + 1])
  <2>1. CASE k \in 1 .. m - 1
    <3>1. k \in 1 .. m /\ k + 1 \in 1 .. m
      BY <1>3, <2>1
    <3> QED
      BY <1>3, <1>5, <1>6, <3>1, Zenon
  <2>2. CASE k = m
    <3>1. k \in 1 .. m /\ 1 \in 1 .. n + 1
      BY <1>3, <2>2
    <3>2. q[m + 1] = p[1]
      BY <1>5, <3>1
    <3> QED
      BY <1>3, <1>5, <1>6, <2>2, <3>1, <3>2, Zenon
  <2>3. CASE k \in m + 1 .. m + n
    <3> DEFINE j == k - m
    <3>1. j \in 1 .. n /\ k = m + j /\ j \in 1 .. n + 1 /\ j + 1 \in 1 .. n + 1
          /\ k + 1 = m + (j + 1)
      BY <1>3, <2>3
    <3> HIDE DEF j
    <3>2. v[k] = w[j] /\ q[k] = p[j] /\ q[k + 1] = p[j + 1]
      BY <1>3, <1>5, <3>1, Zenon
    <3> QED
      BY <1>4, <3>1, <3>2
  <2> QED
    BY <1>3, <2>1, <2>2, <2>3
<1>8. q[1] \in Nat /\ b <= q[1] /\ q[1] <= h
  <2>1. CASE m = 0
    BY <1>3, <1>4, <1>5, <2>1
  <2>2. CASE m # 0
    <3>1. 1 \in 1 .. m
      BY <1>3, <2>2
    <3> QED
      BY <1>4, <1>5, <3>1
  <2> QED
    BY <2>1, <2>2
<1>9. IsPlan(q, v, b, h)
  BY <1>3, <1>5, <1>7, <1>8 DEF IsPlan
<1> QED
  BY <1>3, <1>9 DEF Planned, v

\* What the items of the parse functions do.
LEMMA PlainItems ==
  /\ \A f \in TokenTypes \ {"EOF"} : T(f) \in Plain /\ K(f) \in Giving
  /\ \A f \in Missing : T(f) \in Giving
  /\ Absent \in Giving /\ Rangle \in Plain
  /\ \A f \in OneValue : Call(f) \in Giving /\ More(f) \in Plain
  /\ \A f \in OneValue, x \in TokenTypes : List(f, x) \in Plain
  /\ \A f \in AnyValues : Call(f) \in Plain
  /\ \A f \in FrameNames \ {"program"} : Try(f) \in Plain
  /\ \A x \in TokenTypes : Opt(x) \in Giving
  /\ \A l \in 0 .. 10 : Binary(l) \in Giving /\ Operators(l) \in OnOne
  /\ Giving \subseteq Plain /\ Plain \subseteq Items /\ OnOne \subseteq Items
<1>1. /\ TokenTypes \subseteq Words /\ OneValue \subseteq Words /\ AnyValues \subseteq Words
      /\ FrameNames \subseteq Words /\ Missing \subseteq Words /\ NoWord \in Words
  BY DEF Words
<1>2. ASSUME NEW op \in Ops, NEW f \in Words, NEW x \in Words, NEW base \in Int
      PROVE  LET i == Item(op, f, x, base)
             IN  i \in Items /\ i.op = op /\ i.f = f /\ i.x = x /\ i.base = base
  BY DEF Item, Items
<1>3. \A op \in {"token", "keep", "call", "try", "absent", "rangle", "list", "more", "opt",
                 "binary", "operators", "node"} : op \in Ops
  BY DEF Ops
<1>4. ASSUME NEW f \in TokenTypes \ {"EOF"} PROVE T(f) \in Plain /\ K(f) \in Giving
  BY <1>1, <1>2, <1>3 DEF T, K, Plain, Giving
<1>5. ASSUME NEW f \in Missing PROVE T(f) \in Giving
  BY <1>1, <1>2, <1>3 DEF T, Plain, Giving
<1>6. Absent \in Giving /\ Rangle \in Plain
  <2>1. ">" \in TokenTypes
    BY DEF TokenTypes, Punctuation
  <2> QED
    BY <1>1, <1>2, <1>3, <2>1 DEF Absent, Rangle, Plain, Giving
<1>7. ASSUME NEW f \in OneValue PROVE Call(f) \in Giving /\ More(f) \in Plain
  BY <1>1, <1>2, <1>3 DEF Call, More, Plain, Giving
<1>8. ASSUME NEW f \in OneValue, NEW x \in TokenTypes PROVE List(f, x) \in Plain
  BY <1>1, <1>2, <1>3 DEF List, Plain
<1>9. ASSUME NEW f \in AnyValues PROVE Call(f) \in Plain
  BY <1>1, <1>2, <1>3 DEF Call, Plain
<1>10. ASSUME NEW f \in FrameNames \ {"program"} PROVE Try(f) \in Plain
  BY <1>1, <1>2, <1>3 DEF Try, Plain
<1>11. ASSUME NEW x \in TokenTypes PROVE Opt(x) \in Giving
  <2>1. "expression" \in OneValue
    BY DEF OneValue
  <2> QED
    BY <1>1, <1>2, <1>3, <2>1 DEF Opt, Plain, Giving
<1>12. ASSUME NEW l \in 0 .. 10 PROVE Binary(l) \in Giving /\ Operators(l) \in OnOne
  BY <1>1, <1>2, <1>3 DEF Binary, Operators, Plain, Giving, OnOne
<1>13. Giving \subseteq Plain /\ Plain \subseteq Items /\ OnOne \subseteq Items
  BY DEF Giving, Plain, OnOne
<1> QED
  BY <1>4, <1>5, <1>6, <1>7, <1>8, <1>9, <1>10, <1>11, <1>12, <1>13

\* A body that finds h values leaves g of them at least to the work behind it.
Yields(B, b, h, g) ==
  /\ B \in Seq(Items)
  /\ \A w \in Seq(Items) : Planned(w, b, g) => Planned(B \o w, b, h)

\* Less may be asked of a body, and more given to it.
LEMMA YieldsLess ==
  ASSUME NEW B, NEW b \in Nat, NEW h \in Nat, NEW g \in Nat, NEW n \in Nat, n <= g,
         Yields(B, b, h, g)
  PROVE  Yields(B, b, h, n)
BY PlanMore DEF Yields

\* An item by itself.
LEMMA YieldsItem ==
  ASSUME NEW i \in Items, NEW b \in Nat, NEW h \in Nat, NEW g \in Nat, Leads(i, b, h, g)
  PROVE  Yields(<<i>>, b, h, g)
<1>1. <<i>> \in Seq(Items)
  OBVIOUS
<1> QED
  BY <1>1, PlanItem DEF Yields

\* Plain items take nothing away.
LEMMA YieldsPlain ==
  ASSUME NEW B \in Seq(Plain), NEW b \in Nat, NEW h \in Nat
  PROVE  Yields(B, b, h, h)
<1>1. B \in Seq(Items)
  <2>1. Plain \subseteq Items
    BY PlainItems
  <2> QED
    BY <2>1, SeqMonotone
<1> QED
  BY <1>1, PlanPlain DEF Yields

\* One body after another.
LEMMA YieldsThen ==
  ASSUME NEW A, NEW B, NEW b \in Nat, NEW h \in Nat, NEW m \in Nat, NEW g \in Nat,
         Yields(A, b, h, m), Yields(B, b, m, g)
  PROVE  Yields(A \o B, b, h, g)
<1>1. A \in Seq(Items) /\ B \in Seq(Items) /\ A \o B \in Seq(Items)
  BY DEF Yields
<1>2. ASSUME NEW w \in Seq(Items), Planned(w, b, g) PROVE Planned((A \o B) \o w, b, h)
  <2>1. B \o w \in Seq(Items) /\ Planned(B \o w, b, m)
    BY <1>1, <1>2 DEF Yields
  <2>2. Planned(A \o (B \o w), b, h)
    BY <2>1, Zenon DEF Yields
  <2>3. (A \o B) \o w = A \o (B \o w)
    BY <1>1
  <2> QED
    BY <2>2, <2>3
<1> QED
  BY <1>1, <1>2 DEF Yields

\* A node of c values fewer, and one more, behind plain items.
LEMMA YieldsNode ==
  ASSUME NEW A \in Seq(Plain), NEW i \in Making, NEW b \in Nat, NEW h \in Nat,
         b <= i.base, i.base <= h, i.f # "StructName"
  PROVE  Yields(A \o <<i>>, b, h, i.base + 1)
<1>1. Yields(A, b, h, h)
  BY YieldsPlain
<1>2. i \in Items /\ i.base \in Int
  BY DEF Making, Items
<1>3. i.base + 1 \in Nat /\ Leads(i, b, h, i.base + 1)
  BY <1>2 DEF Leads
<1>4. Yields(<<i>>, b, h, i.base + 1)
  BY <1>2, <1>3, YieldsItem
<1> QED
  BY <1>1, <1>3, <1>4, YieldsThen

-------------------------------------------------------------------------------
\* Nodes of every kind but the two that names of types are declared with.
NodeKinds == Kinds \ {"EnumName", "StructName"}

\* The items that build nodes, by the values that are there when the body is chosen.
LEMMA NodeItems ==
  ASSUME Len(values) \in Nat
  PROVE  /\ \A kind \in NodeKinds, n \in 0 .. 2 :
              /\ MkWith(kind, n) \in Making /\ MkWith(kind, n).base = Len(values) - n
              /\ MkWith(kind, n).f # "StructName"
         /\ \A kind : Mk(kind) = MkWith(kind, 0)
         /\ Mk("EnumName") \in Plain
         /\ Mk("StructName") \in Making /\ Mk("StructName").base = Len(values)
         /\ Mk("StructName").f = "StructName"
<1>1. Kinds \subseteq Words /\ NoWord \in Words /\ "node" \in Ops
  BY DEF Words, Ops
<1>2. "EnumName" \in Kinds /\ "StructName" \in Kinds
  BY DEF Kinds
<1>3. ASSUME NEW kind \in Kinds, NEW base \in Int
      PROVE  LET i == Item("node", kind, NoWord, base)
             IN  i \in Items /\ i.op = "node" /\ i.f = kind /\ i.base = base
  BY <1>1 DEF Item, Items
<1>4. ASSUME NEW kind \in NodeKinds, NEW n \in 0 .. 2
      PROVE  /\ MkWith(kind, n) \in Making /\ MkWith(kind, n).base = Len(values) - n
             /\ MkWith(kind, n).f # "StructName"
  BY <1>3 DEF MkWith, NodeKinds, Making
<1>5. \A kind : Mk(kind) = MkWith(kind, 0)
  BY DEF Mk, MkWith
<1>6. Mk("EnumName") \in Plain
  BY <1>2, <1>3 DEF Mk, Plain
<1>7. /\ Mk("StructName") \in Making /\ Mk("StructName").base = Len(values)
      /\ Mk("StructName").f = "StructName"
  BY <1>2, <1>3 DEF Mk, Making
<1> QED
  BY <1>4, <1>5, <1>6, <1>7

\* A pair as a concatenation.
LEMMA Pair ==
  ASSUME NEW i, NEW j
  PROVE  <<i, j>> = <<i>> \o <<j>>
<1> DEFINE w == <<j>>
           s == <<i>> \o w
<1>1. w \in Seq({i, j}) /\ Len(w) = 1 /\ w[1] = j /\ i \in {i, j}
  OBVIOUS
<1> HIDE DEF w
<1>2. s \in Seq({i, j}) /\ Len(s) = 2 /\ s[1] = i /\ \A k \in 1 .. 1 : s[k + 1] = w[k]
  BY <1>1, ConsSeq
<1> HIDE DEF s
<1>3. s[2] = j
  BY <1>1, <1>2
<1>4. s = <<i, j>>
  BY <1>2, <1>3
<1> QED
  BY <1>4, Zenon DEF s, w

\* A node behind any number of plain items.
LEMMA YieldsMk ==
  ASSUME Len(values) \in Nat, NEW b \in Nat, b <= Len(values), NEW kind \in NodeKinds,
         NEW A \in Seq(Plain)
  PROVE  Yields(A \o <<Mk(kind)>>, b, Len(values), Len(values) + 1)
<1>1. Mk(kind) \in Making /\ Mk(kind).base = Len(values) /\ Mk(kind).f # "StructName"
  BY NodeItems
<1> QED
  BY <1>1, YieldsNode

\* Up to seven plain items.
LEMMA PlainTuples ==
  /\ <<>> \in Seq(Plain)
  /\ \A i \in Plain : <<i>> \in Seq(Plain)
  /\ \A i, j \in Plain : <<i, j>> \in Seq(Plain)
  /\ \A i, j, k \in Plain : <<i, j, k>> \in Seq(Plain)
  /\ \A i, j, k, l \in Plain : <<i, j, k, l>> \in Seq(Plain)
  /\ \A i, j, k, l, m \in Plain : <<i, j, k, l, m>> \in Seq(Plain)
  /\ \A i, j, k, l, m, n, o \in Plain : <<i, j, k, l, m, n, o>> \in Seq(Plain)
OBVIOUS

\* Up to seven plain items and a node.
LEMMA NodeBodies ==
  ASSUME Len(values) \in Nat, NEW b \in Nat, b <= Len(values), NEW kind \in NodeKinds
  PROVE  LET Good(B) == Yields(B, b, Len(values), Len(values) + 1)
         IN  /\ \A i \in Plain : Good(<<i, Mk(kind)>>)
             /\ \A i, j \in Plain : Good(<<i, j, Mk(kind)>>)
             /\ \A i, j, k \in Plain : Good(<<i, j, k, Mk(kind)>>)
             /\ \A i, j, k, l \in Plain : Good(<<i, j, k, l, Mk(kind)>>)
             /\ \A i, j, k, l, m \in Plain : Good(<<i, j, k, l, m, Mk(kind)>>)
             /\ \A i, j, k, l, m, n \in Plain : Good(<<i, j, k, l, m, n, Mk(kind)>>)
             /\ \A i, j, k, l, m, n, o \in Plain : Good(<<i, j, k, l, m, n, o, Mk(kind)>>)
<1> DEFINE Good(B) == Yields(B, b, Len(values), Len(values) + 1)
           node1 == Mk(kind)
<1>1. ASSUME NEW A \in Seq(Plain) PROVE Good(A \o <<node1>>)
  BY YieldsMk
<1> HIDE DEF Good, node1
<1>2. ASSUME NEW i \in Plain PROVE Good(<<i, node1>>)
  <2>1. <<i>> \in Seq(Plain)
    OBVIOUS
  <2>2. <<i, node1>> = <<i>> \o <<node1>>
    BY Pair, Zenon
  <2> QED
    BY <1>1, <2>1, <2>2, Zenon
<1>3. ASSUME NEW i \in Plain, NEW j \in Plain PROVE Good(<<i, j, node1>>)
  <2>1. <<i, j>> \in Seq(Plain) /\ <<i, j, node1>> = <<i, j>> \o <<node1>>
    OBVIOUS
  <2> QED
    BY <1>1, <2>1, Zenon
<1>4. ASSUME NEW i \in Plain, NEW j \in Plain, NEW k \in Plain PROVE Good(<<i, j, k, node1>>)
  <2>1. <<i, j, k>> \in Seq(Plain) /\ <<i, j, k, node1>> = <<i, j, k>> \o <<node1>>
    OBVIOUS
  <2> QED
    BY <1>1, <2>1, Zenon
<1>5. ASSUME NEW i \in Plain, NEW j \in Plain, NEW k \in Plain, NEW l \in Plain
      PROVE  Good(<<i, j, k, l, node1>>)
  <2>1. <<i, j, k, l>> \in Seq(Plain) /\ <<i, j, k, l, node1>> = <<i, j, k, l>> \o <<node1>>
    OBVIOUS
  <2> QED
    BY <1>1, <2>1, Zenon
<1>6. ASSUME NEW i \in Plain, NEW j \in Plain, NEW k \in Plain, NEW l \in Plain,
             NEW m \in Plain
      PROVE  Good(<<i, j, k, l, m, node1>>)
  <2>1. /\ <<i, j, k, l, m>> \in Seq(Plain)
        /\ <<i, j, k, l, m, node1>> = <<i, j, k, l, m>> \o <<node1>>
    OBVIOUS
  <2> QED
    BY <1>1, <2>1, Zenon
<1>7. ASSUME NEW i \in Plain, NEW j \in Plain, NEW k \in Plain, NEW l \in Plain,
             NEW m \in Plain, NEW n \in Plain
      PROVE  Good(<<i, j, k, l, m, n, node1>>)
  <2>1. /\ <<i, j, k, l, m, n>> \in Seq(Plain)
        /\ <<i, j, k, l, m, n, node1>> = <<i, j, k, l, m, n>> \o <<node1>>
    OBVIOUS
  <2> QED
    BY <1>1, <2>1, Zenon
<1>8. ASSUME NEW i \in Plain, NEW j \in Plain, NEW k \in Plain, NEW l \in Plain,
             NEW m \in Plain, NEW n \in Plain, NEW o \in Plain
      PROVE  Good(<<i, j, k, l, m, n, o, node1>>)
  <2>1. /\ <<i, j, k, l, m, n, o>> \in Seq(Plain)
        /\ <<i, j, k, l, m, n, o, node1>> = <<i, j, k, l, m, n, o>> \o <<node1>>
    OBVIOUS
  <2> QED
    BY <1>1, <2>1, Zenon
<1> QED
  BY <1>2, <1>3, <1>4, <1>5, <1>6, <1>7, <1>8, ZenonT(60) DEF Good, node1

\* Two items.
LEMMA YieldsPair ==
  ASSUME NEW i, NEW j, NEW b \in Nat, NEW h \in Nat, NEW m \in Nat, NEW g \in Nat,
         Yields(<<i>>, b, h, m), Yields(<<j>>, b, m, g)
  PROVE  Yields(<<i, j>>, b, h, g)
<1>1. Yields(<<i>> \o <<j>>, b, h, g)
  BY YieldsThen, Zenon
<1>2. <<i, j>> = <<i>> \o <<j>>
  BY Pair, Zenon
<1> QED
  BY <1>1, <1>2, Zenon

\* One more item at the end.
LEMMA YieldsNext ==
  ASSUME NEW o, NEW b \in Nat, NEW h \in Nat, NEW m \in Nat, NEW g \in Nat,
         Yields(<<o>>, b, m, g)
  PROVE  /\ \A i, j : Yields(<<i, j>>, b, h, m) => Yields(<<i, j, o>>, b, h, g)
         /\ \A i, j, k : Yields(<<i, j, k>>, b, h, m) => Yields(<<i, j, k, o>>, b, h, g)
         /\ \A i, j, k, l :
              Yields(<<i, j, k, l>>, b, h, m) => Yields(<<i, j, k, l, o>>, b, h, g)
         /\ \A i, j, k, l, n :
              Yields(<<i, j, k, l, n>>, b, h, m) => Yields(<<i, j, k, l, n, o>>, b, h, g)
<1> DEFINE Before(A) == Yields(A, b, h, m)
           Good(A) == Yields(A, b, h, g)
<1>1. ASSUME NEW A, Before(A) PROVE Good(A \o <<o>>)
  BY <1>1, YieldsThen, Zenon
<1> HIDE DEF Before, Good
<1>2. ASSUME NEW i, NEW j, Before(<<i, j>>) PROVE Good(<<i, j, o>>)
  <2>1. <<i, j, o>> = <<i, j>> \o <<o>>
    OBVIOUS
  <2> QED
    BY <1>1, <1>2, <2>1, ZenonT(60)
<1>3. ASSUME NEW i, NEW j, NEW k, Before(<<i, j, k>>) PROVE Good(<<i, j, k, o>>)
  <2>1. <<i, j, k, o>> = <<i, j, k>> \o <<o>>
    OBVIOUS
  <2> QED
    BY <1>1, <1>3, <2>1, Zenon
<1>4. ASSUME NEW i, NEW j, NEW k, NEW l, Before(<<i, j, k, l>>) PROVE Good(<<i, j, k, l, o>>)
  <2>1. <<i, j, k, l, o>> = <<i, j, k, l>> \o <<o>>
    OBVIOUS
  <2> QED
    BY <1>1, <1>4, <2>1, Zenon
<1>5. ASSUME NEW i, NEW j, NEW k, NEW l, NEW n, Before(<<i, j, k, l, n>>)
      PROVE  Good(<<i, j, k, l, n, o>>)
  <2>1. <<i, j, k, l, n, o>> = <<i, j, k, l, n>> \o <<o>>
    OBVIOUS
  <2> QED
    BY <1>1, <1>5, <2>1, Zenon
<1> QED
  BY <1>2, <1>3, <1>4, <1>5, ZenonT(60) DEF Before, Good

\* A few items of which one pushes a value.
LEMMA GivingBodies ==
  ASSUME NEW b \in Nat, NEW h \in Nat, b <= h, NEW g \in Giving
  PROVE  /\ Yields(<<g>>, b, h, h + 1)
         /\ \A i \in Plain : Yields(<<g, i>>, b, h, h + 1) /\ Yields(<<i, g>>, b, h, h + 1)
         /\ \A i, j \in Plain : Yields(<<i, g, j>>, b, h, h + 1)
         /\ \A i \in OnOne : Yields(<<g, i>>, b, h, h + 1)
<1>1. g \in Items /\ g \in Plain /\ Leads(g, b, h, h + 1)
  BY PlainItems DEF Leads
<1>2. Yields(<<g>>, b, h, h + 1)
  BY <1>1, YieldsItem
<1>3. h + 1 \in Nat
  OBVIOUS
<1>4. ASSUME NEW i \in Plain
      PROVE  Yields(<<g, i>>, b, h, h + 1) /\ Yields(<<i, g>>, b, h, h + 1)
  <2>1. <<i>> \in Seq(Plain)
    OBVIOUS
  <2>2. Yields(<<i>>, b, h, h) /\ Yields(<<i>>, b, h + 1, h + 1)
    BY <1>3, <2>1, YieldsPlain, Zenon
  <2> QED
    BY <1>2, <1>3, <2>2, YieldsPair, Zenon
<1>5. ASSUME NEW i \in Plain, NEW j \in Plain PROVE Yields(<<i, g, j>>, b, h, h + 1)
  <2>1. <<j>> \in Seq(Plain)
    OBVIOUS
  <2>2. <<i, g, j>> = <<i, g>> \o <<j>>
    OBVIOUS
  <2>3. Yields(<<j>>, b, h + 1, h + 1)
    BY <1>3, <2>1, YieldsPlain, Zenon
  <2>4. Yields(<<i, g>> \o <<j>>, b, h, h + 1)
    BY <1>3, <1>4, <2>3, YieldsThen, Zenon
  <2> QED
    BY <2>2, <2>4, Zenon
<1>6. ASSUME NEW i \in OnOne PROVE Yields(<<g, i>>, b, h, h + 1)
  <2>1. i \in Items /\ Leads(i, b, h + 1, h + 1)
    BY PlainItems DEF Leads
  <2>2. Yields(<<i>>, b, h + 1, h + 1)
    BY <1>3, <2>1, YieldsItem
  <2> QED
    BY <1>2, <1>3, <2>2, YieldsPair, Zenon
<1> QED
  BY <1>2, <1>4, <1>5, <1>6

\* A node that takes the last n values with it, and what may follow it.
LEMMA BuildBodies ==
  ASSUME Len(values) \in Nat, NEW b \in Nat, NEW n \in 1 .. 2, b + n <= Len(values),
         NEW kind \in NodeKinds
  PROVE  LET Good(B) == Yields(B, b, Len(values), Len(values) - n + 1)
         IN  /\ \A i \in Plain : Good(<<i, MkWith(kind, n)>>)
             /\ \A i, j \in Plain : Good(<<i, j, MkWith(kind, n)>>)
             /\ \A i, j, k \in Plain : Good(<<i, j, k, MkWith(kind, n)>>)
             /\ \A i, j, k, l \in Plain : Good(<<i, j, k, l, MkWith(kind, n)>>)
             /\ \A i, j \in Plain, o \in OnOne : Good(<<i, j, MkWith(kind, n), o>>)
             /\ \A i, j, k \in Plain, o \in OnOne : Good(<<i, j, k, MkWith(kind, n), o>>)
<1> DEFINE Good(B) == Yields(B, b, Len(values), Len(values) - n + 1)
           node1 == MkWith(kind, n)
<1>1. Len(values) - n + 1 \in Nat /\ b + 1 <= Len(values) - n + 1
  OBVIOUS
<1>2. ASSUME NEW A \in Seq(Plain) PROVE Good(A \o <<node1>>)
  <2>1. /\ MkWith(kind, n) \in Making /\ MkWith(kind, n).base = Len(values) - n
        /\ MkWith(kind, n).f # "StructName"
    BY NodeItems
  <2>2. b <= MkWith(kind, n).base /\ MkWith(kind, n).base <= Len(values)
    BY <2>1
  <2>3. Yields(A \o <<MkWith(kind, n)>>, b, Len(values), MkWith(kind, n).base + 1)
    BY <2>1, <2>2, YieldsNode, Zenon
  <2> QED
    BY <2>1, <2>3
<1>3. ASSUME NEW A, Good(A), NEW o \in OnOne PROVE Good(A \o <<o>>)
  <2>1. o \in Items /\ Leads(o, b, Len(values) - n + 1, Len(values) - n + 1)
    BY <1>1, PlainItems DEF Leads
  <2>2. Yields(<<o>>, b, Len(values) - n + 1, Len(values) - n + 1)
    BY <1>1, <2>1, YieldsItem
  <2> QED
    BY <1>1, <1>3, <2>2, YieldsThen, Zenon
<1> HIDE DEF Good, node1
<1>4. ASSUME NEW i \in Plain PROVE Good(<<i, node1>>)
  <2>1. <<i>> \in Seq(Plain)
    OBVIOUS
  <2>2. <<i, node1>> = <<i>> \o <<node1>>
    BY Pair, Zenon
  <2> QED
    BY <1>2, <2>1, <2>2, Zenon
<1>5. ASSUME NEW i \in Plain, NEW j \in Plain PROVE Good(<<i, j, node1>>)
  <2>1. <<i, j>> \in Seq(Plain) /\ <<i, j, node1>> = <<i, j>> \o <<node1>>
    OBVIOUS
  <2> QED
    BY <1>2, <2>1, Zenon
<1>6. ASSUME NEW i \in Plain, NEW j \in Plain, NEW k \in Plain PROVE Good(<<i, j, k, node1>>)
  <2>1. <<i, j, k>> \in Seq(Plain) /\ <<i, j, k, node1>> = <<i, j, k>> \o <<node1>>
    OBVIOUS
  <2> QED
    BY <1>2, <2>1, Zenon
<1>7. ASSUME NEW i \in Plain, NEW j \in Plain, NEW k \in Plain, NEW l \in Plain
      PROVE  Good(<<i, j, k, l, node1>>)
  <2>1. <<i, j, k, l>> \in Seq(Plain) /\ <<i, j, k, l, node1>> = <<i, j, k, l>> \o <<node1>>
    OBVIOUS
  <2> QED
    BY <1>2, <2>1, Zenon
<1>8. ASSUME NEW i \in Plain, NEW j \in Plain, NEW o \in OnOne
      PROVE  Good(<<i, j, node1, o>>)
  <2>1. <<i, j, node1, o>> = <<i, j, node1>> \o <<o>>
    OBVIOUS
  <2> QED
    BY <1>3, <1>5, <2>1, Zenon
<1>9. ASSUME NEW i \in Plain, NEW j \in Plain, NEW k \in Plain, NEW o \in OnOne
      PROVE  Good(<<i, j, k, node1, o>>)
  <2>1. <<i, j, k, node1, o>> = <<i, j, k, node1>> \o <<o>>
    OBVIOUS
  <2> QED
    BY <1>3, <1>6, <2>1, Zenon
<1> QED
  BY <1>4, <1>5, <1>6, <1>7, <1>8, <1>9, Zenon DEF Good, node1

\* Two values and what builds on both, and a name with the struct it declares.
LEMMA DeclarationBodies ==
  ASSUME NEW b \in Nat, NEW h \in Nat, b <= h, NEW g \in Giving, NEW n \in Giving
  PROVE  /\ \A t \in OnTwo : Yields(<<g, n, t>>, b, h, h + 1)
         /\ \A i, j, k \in Plain, t \in OnTwo : Yields(<<i, j, g, n, k, t>>, b, h, h + 1)
         /\ \A i \in Plain, s \in Making :
              s.base = h => Yields(<<i, n, s>>, b, h, h + 1)
<1>1. h + 1 \in Nat /\ h + 2 \in Nat /\ g \in Items /\ n \in Items /\ b <= h + 1
  BY PlainItems
<1>2. Leads(g, b, h, h + 1) /\ Leads(n, b, h, h + 1) /\ Leads(n, b, h + 1, h + 2)
  BY DEF Leads
<1>3. Yields(<<g>>, b, h, h + 1) /\ Yields(<<n>>, b, h, h + 1) /\ Yields(<<n>>, b, h + 1, h + 2)
  BY <1>1, <1>2, YieldsItem, Zenon
<1>4. Yields(<<g, n>>, b, h, h + 2)
  BY <1>1, <1>3, YieldsPair, Zenon
<1>5. ASSUME NEW t \in OnTwo PROVE Yields(<<t>>, b, h + 2, h + 1)
  <2>1. t \in Items /\ Leads(t, b, h + 2, h + 1)
    BY DEF OnTwo, Leads
  <2> QED
    BY <1>1, <2>1, YieldsItem, Zenon
<1>6. ASSUME NEW i \in Plain, NEW m \in Nat PROVE Yields(<<i>>, b, m, m)
  <2>1. <<i>> \in Seq(Plain)
    OBVIOUS
  <2> QED
    BY <2>1, YieldsPlain, Zenon
<1>7. ASSUME NEW t \in OnTwo PROVE Yields(<<g, n, t>>, b, h, h + 1)
  <2>1. <<g, n, t>> = <<g, n>> \o <<t>>
    OBVIOUS
  <2>2. Yields(<<g, n>> \o <<t>>, b, h, h + 1)
    BY <1>1, <1>4, <1>5, YieldsThen, Zenon
  <2> QED
    BY <2>1, <2>2, Zenon
<1>8. ASSUME NEW i \in Plain, NEW j \in Plain, NEW k \in Plain, NEW t \in OnTwo
      PROVE  Yields(<<i, j, g, n, k, t>>, b, h, h + 1)
  <2>1. Yields(<<i, j>>, b, h, h)
    BY <1>6, YieldsPair, Zenon
  <2>2. Yields(<<i, j, g>>, b, h, h + 1)
    BY <1>1, <1>3, <2>1, YieldsNext, Zenon
  <2>3. Yields(<<i, j, g, n>>, b, h, h + 2)
    BY <1>1, <1>3, <2>2, YieldsNext, Zenon
  <2>4. Yields(<<k>>, b, h + 2, h + 2)
    BY <1>1, <1>6
  <2>5. Yields(<<i, j, g, n, k>>, b, h, h + 2)
    <3>1. \A x, y, z, u :
            Yields(<<x, y, z, u>>, b, h, h + 2) => Yields(<<x, y, z, u, k>>, b, h, h + 2)
      BY <1>1, <2>4, YieldsNext
    <3> QED
      BY <2>3, <3>1, Zenon
  <2> QED
    BY <1>1, <1>5, <2>5, YieldsNext, ZenonT(60)
<1>9. ASSUME NEW i \in Plain, NEW s \in Making, s.base = h
      PROVE  Yields(<<i, n, s>>, b, h, h + 1)
  <2>1. Yields(<<i, n>>, b, h, h + 1)
    BY <1>1, <1>3, <1>6, YieldsPair, Zenon
  <2>2. s \in Items /\ Leads(s, b, h + 1, h + 1)
    BY <1>9 DEF Making, Leads
  <2>3. Yields(<<s>>, b, h + 1, h + 1)
    BY <1>1, <2>2, YieldsItem, Zenon
  <2> QED
    BY <1>1, <2>1, <2>3, YieldsNext, Zenon
<1> QED
  BY <1>7, <1>8, <1>9

\* Items around a condition.
LEMMA Behind ==
  /\ \A i, j, k, l, m : <<i>> \o <<j, k, l>> \o <<m>> = <<i, j, k, l, m>>
  /\ \A i, j, k, l, m, n : <<i>> \o <<j, k, l>> \o <<m, n>> = <<i, j, k, l, m, n>>
  /\ \A i, j, k, l, m, n, o :
       <<i>> \o <<j, k, l>> \o <<m, n, o>> = <<i, j, k, l, m, n, o>>
<1>1. ASSUME NEW i, NEW j, NEW k, NEW l PROVE <<i, j, k, l>> = <<i>> \o <<j, k, l>>
  OBVIOUS
<1>2. ASSUME NEW i, NEW j, NEW k, NEW l, NEW m
      PROVE  <<i>> \o <<j, k, l>> \o <<m>> = <<i, j, k, l, m>>
  <2>1. <<i, j, k, l, m>> = <<i, j, k, l>> \o <<m>>
    OBVIOUS
  <2> QED
    BY <1>1, <2>1, Zenon
<1>3. ASSUME NEW i, NEW j, NEW k, NEW l, NEW m, NEW n
      PROVE  <<i>> \o <<j, k, l>> \o <<m, n>> = <<i, j, k, l, m, n>>
  <2>1. <<i, j, k, l, m, n>> = <<i, j, k, l>> \o <<m, n>>
    OBVIOUS
  <2> QED
    BY <1>1, <2>1, Zenon
<1>4. ASSUME NEW i, NEW j, NEW k, NEW l, NEW m, NEW n, NEW o
      PROVE  <<i>> \o <<j, k, l>> \o <<m, n, o>> = <<i, j, k, l, m, n, o>>
  <2>1. <<i, j, k, l, m, n, o>> = <<i, j, k, l>> \o <<m, n, o>>
    OBVIOUS
  <2> QED
    BY <1>1, <2>1, Zenon
<1> QED
  BY <1>2, <1>3, <1>4, Zenon

\* The same with four behind.
LEMMA BehindFour ==
  ASSUME NEW i, NEW j, NEW k, NEW l, NEW m, NEW n, NEW o, NEW p
  PROVE  <<i>> \o <<j, k, l>> \o <<m, n, o, p>> = <<i, j, k, l, m, n, o, p>>
<1> DEFINE front == <<i>> \o <<j, k, l>>
<1>1. <<i, j, k, l>> = front
  OBVIOUS
<1>2. <<i, j, k, l, m, n, o, p>> = <<i, j, k, l>> \o <<m, n, o, p>>
  OBVIOUS
<1> HIDE DEF front
<1>3. front \o <<m, n, o, p>> = <<i, j, k, l, m, n, o, p>>
  BY <1>1, <1>2, Zenon
<1> QED
  BY <1>3 DEF front

\* The items of the parse functions.
LEMMA UsedItems ==
  /\ \A x \in {"(", ")", ",", "->", ".", ":", "::", ":=", ";", "<", "=", "[", "]", "asm",
               "break", "case", "cast", "continue", "default", "else", "enum", "error",
               "exit", "for", "free", "func", "if", "new", "print", "ptr", "read", "return",
               "returns", "sizeof", "struct", "switch", "while", "{", "}"} : T(x) \in Plain
  /\ \A x \in {"&", "IDENTIFIER", "INT_LITERAL", "extern"} : K(x) \in Giving
  /\ \A f \in {"block", "case_pattern", "else_opt", "enum_decl", "expression", "for_init",
               "function_body", "function_decl", "identifier", "if", "init_opt",
               "mutability_prefix", "new_expr", "new_init", "param_types", "params",
               "payload_name_opt", "payload_opt", "primary", "returns_opt", "struct_decl",
               "struct_literal", "tag_opt", "type", "unary", "var_decl"} : Call(f) \in Giving
  /\ \A f \in {"program", "cases", "statements", "enum_fields_opt", "asm_body"} :
       Call(f) \in Plain
  /\ \A f \in {"assign_opt", "suffixes"} : Call(f) \in OnOne
  /\ \A f \in {"var_init", "new_rest"} : Call(f) \in OnTwo
  /\ \A f \in {"toplevel", "statement", "enum_body", "payload", "struct_body", "function",
               "for", "block", "body"} : Try(f) \in Plain
  /\ \A f \in {"expression", "param", "param_type"} : List(f, ")") \in Plain
  /\ \A f \in {"initializer", "struct_field", "variant"} : List(f, "}") \in Plain
  /\ More("expression") \in Plain /\ Opt(")") \in Giving /\ Opt(";") \in Giving
  /\ \A x \in Missing : Expected(x) \in Giving
  /\ Absent \in Giving /\ Rangle \in Plain
  /\ \A g \in Giving : g \in Plain
<1>1. {"(", ")", ",", "->", ".", ":", "::", ":=", ";", "<", "=", "[", "]", "asm", "break",
       "case", "cast", "continue", "default", "else", "enum", "error", "exit", "for", "free",
       "func", "if", "new", "print", "ptr", "read", "return", "returns", "sizeof", "struct",
       "switch", "while", "{", "}", "&", "IDENTIFIER", "INT_LITERAL", "extern"}
        \subseteq TokenTypes \ {"EOF"}
  BY DEF TokenTypes, Keywords, Punctuation
<1>2. {"block", "case_pattern", "else_opt", "enum_decl", "expression", "for_init",
       "function_body", "function_decl", "identifier", "if", "init_opt", "mutability_prefix",
       "new_expr", "new_init", "param_types", "params", "payload_name_opt", "payload_opt",
       "primary", "returns_opt", "struct_decl", "struct_literal", "tag_opt", "type", "unary",
       "var_decl", "param", "param_type", "initializer", "struct_field", "variant"}
        \subseteq OneValue
  BY DEF OneValue
<1>3. {"program", "cases", "statements", "enum_fields_opt", "asm_body"} \subseteq AnyValues
  BY DEF AnyValues
<1>4. {"toplevel", "statement", "enum_body", "payload", "struct_body", "function", "for",
       "block", "body"} \subseteq FrameNames \ {"program"}
  BY DEF FrameNames
<1>5. ASSUME NEW f \in Builders
      PROVE  Call(f) \in Items /\ Call(f).op = "call" /\ Call(f).f = f
  BY DEF Call, Item, Items, Words, Ops
<1>6. \A f \in {"assign_opt", "suffixes"} : Call(f) \in OnOne
  BY <1>5 DEF Builders, OnOne
<1>7. \A f \in {"var_init", "new_rest"} : Call(f) \in OnTwo
  BY <1>5 DEF Builders, OnTwo
<1>8. \A x \in Missing : Expected(x) \in Giving
  BY PlainItems DEF Expected
<1>9. \A x \in {"(", ")", ",", "->", ".", ":", "::", ":=", ";", "<", "=", "[", "]", "asm",
                "break", "case", "cast", "continue", "default", "else", "enum", "error",
                "exit", "for", "free", "func", "if", "new", "print", "ptr", "read", "return",
                "returns", "sizeof", "struct", "switch", "while", "{", "}"} : T(x) \in Plain
  BY <1>1, PlainItems, ZenonT(60)
<1>10. \A x \in {"&", "IDENTIFIER", "INT_LITERAL", "extern"} : K(x) \in Giving
  BY <1>1, PlainItems, Zenon
<1>11. \A f \in {"block", "case_pattern", "else_opt", "enum_decl", "expression", "for_init",
                "function_body", "function_decl", "identifier", "if", "init_opt",
                "mutability_prefix", "new_expr", "new_init", "param_types", "params",
                "payload_name_opt", "payload_opt", "primary", "returns_opt", "struct_decl",
                "struct_literal", "tag_opt", "type", "unary", "var_decl"} : Call(f) \in Giving
  BY <1>2, PlainItems
<1>12. \A f \in {"program", "cases", "statements", "enum_fields_opt", "asm_body"} :
        Call(f) \in Plain
  BY <1>3, PlainItems
<1>13. \A f \in {"toplevel", "statement", "enum_body", "payload", "struct_body", "function",
                "for", "block", "body"} : Try(f) \in Plain
  BY <1>4, PlainItems
<1>14. \A f \in {"expression", "param", "param_type"} : List(f, ")") \in Plain
  BY <1>1, <1>2, PlainItems, Zenon
<1>15. \A f \in {"initializer", "struct_field", "variant"} : List(f, "}") \in Plain
  BY <1>1, <1>2, PlainItems, Zenon
<1>16. More("expression") \in Plain /\ Opt(")") \in Giving /\ Opt(";") \in Giving
  BY <1>1, <1>2, PlainItems, Zenon
<1>17. Absent \in Giving /\ Rangle \in Plain /\ \A g \in Giving : g \in Plain
  BY PlainItems
<1> QED
  BY <1>9, <1>10, <1>11, <1>12, <1>6, <1>7, <1>13, <1>14, <1>15, <1>16, <1>8, <1>17, Zenon

\* The parse functions of declarations push one value each.
LEMMA DeclarationsGive ==
  ASSUME Len(values) \in Nat, NEW b \in Nat, b <= Len(values)
  PROVE  LET Good(B) == Yields(B, b, Len(values), Len(values) + 1)
         IN  /\ Good(parse_mutability_prefix) /\ Good(parse_enum_decl) /\ Good(parse_variant)
             /\ Good(parse_tag_opt) /\ Good(parse_payload_opt) /\ Good(parse_struct_decl)
             /\ Good(parse_struct_field) /\ Good(parse_function_decl) /\ Good(parse_params)
             /\ Good(parse_function_param) /\ Good(parse_function_return_type)
             /\ Good(parse_function_body) /\ Good(parse_var_decl) /\ Good(parse_init_opt)
<1> DEFINE Good(B) == Yields(B, b, Len(values), Len(values) + 1)
<1>1. {"EnumDecl", "Variant", "Payload", "Field", "FunctionDecl", "Params", "Param",
       "ReturnVar", "Block"} \subseteq NodeKinds
  BY DEF NodeKinds, Kinds
<1>2. Good(parse_mutability_prefix)
  <2>1. K("mut") \in Giving /\ K("imm") \in Giving
    BY PlainItems DEF TokenTypes, Keywords
  <2>2. \/ parse_mutability_prefix = <<K("mut")>> \/ parse_mutability_prefix = <<K("imm")>>
        \/ parse_mutability_prefix = <<Absent>>
    BY DEF parse_mutability_prefix, match
  <2>3. \A g \in Giving : Good(<<g>>)
    BY GivingBodies, Zenon
  <2> QED
    BY <2>1, <2>2, <2>3, UsedItems, Zenon
<1>3. Good(parse_enum_decl)
  BY <1>1, UsedItems, NodeItems, NodeBodies, ZenonT(60) DEF parse_enum_decl
<1>4. Good(parse_variant)
  BY <1>1, UsedItems, NodeBodies, Zenon DEF parse_variant
<1>5. Good(parse_tag_opt)
  BY UsedItems, GivingBodies, Zenon DEF parse_tag_opt
<1>6. Good(parse_payload_opt)
  BY <1>1, UsedItems, NodeBodies, GivingBodies, ZenonT(60) DEF parse_payload_opt
<1>7. Good(parse_struct_decl)
  BY UsedItems, NodeItems, DeclarationBodies, Zenon DEF parse_struct_decl
<1>8. Good(parse_struct_field)
  BY <1>1, UsedItems, NodeBodies, Zenon DEF parse_struct_field
<1>9. Good(parse_function_decl)
  BY <1>1, UsedItems, NodeBodies, Zenon DEF parse_function_decl
<1>10. Good(parse_params)
  BY <1>1, UsedItems, NodeBodies, Zenon DEF parse_params
<1>11. Good(parse_function_param)
  BY <1>1, UsedItems, NodeBodies, Zenon DEF parse_function_param
<1>12. Good(parse_function_return_type)
  BY <1>1, UsedItems, NodeBodies, GivingBodies, Zenon DEF parse_function_return_type
<1>13. Good(parse_function_body)
  BY <1>1, UsedItems, NodeBodies, GivingBodies, Zenon DEF parse_function_body
<1>14. Good(parse_var_decl)
  BY UsedItems, DeclarationBodies, Zenon DEF parse_var_decl
<1>15. Good(parse_init_opt)
  BY UsedItems, GivingBodies, Zenon DEF parse_init_opt
<1> QED
  BY <1>2, <1>3, <1>4, <1>5, <1>6, <1>7, <1>8, <1>9, <1>10, <1>11, <1>12, <1>13, <1>14,
     <1>15, ZenonT(60)

\* So do those of statements.
LEMMA StatementsGive ==
  ASSUME Len(values) \in Nat, NEW b \in Nat, b <= Len(values)
  PROVE  LET Good(B) == Yields(B, b, Len(values), Len(values) + 1)
         IN  /\ Good(parse_if_stmt) /\ Good(parse_else_opt) /\ Good(parse_for_stmt)
             /\ Good(parse_for_init) /\ Good(parse_while_stmt) /\ Good(parse_switch_stmt)
             /\ Good(parse_case_pattern) /\ Good(parse_payload_name_opt)
             /\ Good(parse_read_stmt) /\ Good(parse_print_stmt) /\ Good(parse_error_stmt)
             /\ Good(parse_return_stmt) /\ Good(parse_exit_stmt) /\ Good(parse_break_stmt)
             /\ Good(parse_continue_stmt) /\ Good(parse_free_stmt) /\ Good(parse_asm_block)
             /\ Good(parse_block)
<1> DEFINE Good(B) == Yields(B, b, Len(values), Len(values) + 1)
<1>1. {"If", "Block", "For", "While", "Switch", "CaseEnum", "CaseValue", "Read", "Print",
       "Error", "Return", "Exit", "Break", "Continue", "Free", "Asm"} \subseteq NodeKinds
  BY DEF NodeKinds, Kinds
<1>2. Good(parse_if_stmt)
  <2>1. parse_if_stmt = <<T("if"), T("("), Call("expression"), T(")"), Call("block"),
                          Call("else_opt"), Mk("If")>>
    BY Behind DEF parse_if_stmt, Condition
  <2> QED
    BY <1>1, <2>1, UsedItems, NodeBodies, Zenon
<1>3. Good(parse_else_opt)
  BY <1>1, UsedItems, NodeBodies, GivingBodies, Zenon DEF parse_else_opt
<1>4. Good(parse_for_stmt)
  BY <1>1, UsedItems, NodeBodies, Zenon DEF parse_for_stmt
<1>5. Good(parse_for_init)
  BY UsedItems, GivingBodies, Zenon DEF parse_for_init
<1>6. Good(parse_while_stmt)
  <2>1. parse_while_stmt = <<T("while"), T("("), Call("expression"), T(")"), Call("block"),
                             Mk("While")>>
    BY Behind DEF parse_while_stmt, Condition
  <2> QED
    BY <1>1, <2>1, UsedItems, NodeBodies, Zenon
<1>7. Good(parse_switch_stmt)
  <2> DEFINE switch == T("switch")
             open == T("(")
             value == Call("expression")
             close == T(")")
             begin == T("{")
             cases == Call("cases")
             end == T("}")
             made == Mk("Switch")
  <2>1. parse_switch_stmt = <<switch>> \o <<open, value, close>> \o <<begin, cases, end, made>>
    BY DEF parse_switch_stmt, Condition
  <2> HIDE DEF switch, open, value, close, begin, cases, end, made
  <2>2. parse_switch_stmt = <<switch, open, value, close, begin, cases, end, made>>
    BY <2>1, BehindFour
  <2> USE DEF switch, open, value, close, begin, cases, end, made
  <2> QED
    BY <1>1, <2>2, UsedItems, NodeBodies, Zenon
<1>8. Good(parse_case_pattern)
  BY <1>1, UsedItems, NodeBodies, Zenon DEF parse_case_pattern
<1>9. Good(parse_payload_name_opt)
  BY UsedItems, GivingBodies, Zenon DEF parse_payload_name_opt
<1>10. Good(parse_read_stmt) /\ Good(parse_free_stmt)
  BY <1>1, UsedItems, NodeBodies, Zenon DEF parse_read_stmt, parse_free_stmt
<1>11. Good(parse_print_stmt) /\ Good(parse_error_stmt)
  BY <1>1, UsedItems, NodeBodies, ZenonT(60) DEF parse_print_stmt, parse_error_stmt
<1>12. Good(parse_return_stmt) /\ Good(parse_exit_stmt)
  BY <1>1, UsedItems, NodeBodies, Zenon DEF parse_return_stmt, parse_exit_stmt
<1>13. Good(parse_break_stmt) /\ Good(parse_continue_stmt)
  BY <1>1, UsedItems, NodeBodies, Zenon DEF parse_break_stmt, parse_continue_stmt
<1>14. Good(parse_asm_block) /\ Good(parse_block)
  BY <1>1, UsedItems, NodeBodies, Zenon DEF parse_asm_block, parse_block
<1> QED
  BY <1>2, <1>3, <1>4, <1>5, <1>6, <1>7, <1>8, <1>9, <1>10, <1>11, <1>12, <1>13, <1>14, ZenonT(60)

\* And those of expressions and types, but for a type that is a name.
LEMMA ExpressionsGive ==
  ASSUME Len(values) \in Nat, NEW b \in Nat, b <= Len(values)
  PROVE  LET Good(B) == Yields(B, b, Len(values), Len(values) + 1)
         IN  /\ Good(parse_assignment) /\ Good(parse_unary) /\ Good(parse_primary)
             /\ Good(parse_identifier) /\ Good(parse_struct_literal) /\ Good(parse_initializer)
             /\ Good(parse_new_expr) /\ Good(parse_new_init) /\ Good(parse_param_types)
             /\ Good(parse_param_type)
             /\ Good(parse_type) \/ (parse_type = <<Call("type_name")>> /\ ~match("EOF"))
             /\ \A level \in 0 .. 10 : Good(parse_binary(level))
<1> DEFINE Good(B) == Yields(B, b, Len(values), Len(values) + 1)
<1>1. {"Unary", "Cast", "SizeOf", "Grouped", "EnumLiteral", "StructLiteral", "Initializer",
       "ParamTypes", "ParamType", "Pointer", "FunctionType"} \subseteq NodeKinds
  BY DEF NodeKinds, Kinds
<1>2. {"<primary>", "<type>"} \subseteq Missing
  BY DEF Missing
<1>3. \A g \in Giving : Good(<<g>>)
  BY GivingBodies, Zenon
<1>4. Good(parse_assignment)
  <2>1. Binary(10) \in Giving
    BY PlainItems
  <2>2. \A g \in Giving, o \in OnOne : Good(<<g, o>>)
    BY GivingBodies, Zenon
  <2> QED
    BY <2>1, <2>2, UsedItems, Zenon DEF parse_assignment
<1>5. Good(parse_unary)
  <2>1. \A x \in {"*", "!", "-"} : K(x) \in Giving
    BY PlainItems, Zenon DEF TokenTypes, Punctuation
  <2>2. \/ parse_unary = <<K("&"), Call("mutability_prefix"), Call("unary"), Mk("Unary")>>
        \/ \E x \in {"*", "!", "-"} :
             parse_unary = <<K(x), Absent, Call("unary"), Mk("Unary")>>
        \/ parse_unary = <<Call("primary"), Call("suffixes")>>
    BY DEF parse_unary, match
  <2>3. Good(<<K("&"), Call("mutability_prefix"), Call("unary"), Mk("Unary")>>)
    BY <1>1, UsedItems, NodeBodies, Zenon
  <2>4. \A x \in {"*", "!", "-"} : Good(<<K(x), Absent, Call("unary"), Mk("Unary")>>)
    BY <1>1, <2>1, UsedItems, NodeBodies, ZenonT(60)
  <2>5. \A g \in Giving, o \in OnOne : Good(<<g, o>>)
    BY GivingBodies, Zenon
  <2>6. Good(<<Call("primary"), Call("suffixes")>>)
    BY <2>5, UsedItems, Zenon
  <2> QED
    BY <2>2, <2>3, <2>4, <2>6, ZenonT(60)
<1>6. Good(parse_primary)
  <2>1. \A x \in Literals : K(x) \in Giving
    BY PlainItems DEF TokenTypes, Keywords, Literals
  <2>2. Good(parse_explicit_cast)
    <3> DEFINE head == <<T("cast"), T("<"), Call("type"), Rangle>>
               all == head \o Condition
    <3>1. head \in Seq(Plain) /\ Condition \in Seq(Plain)
      BY UsedItems, PlainTuples, Zenon DEF Condition
    <3> HIDE DEF head
    <3>2. all \in Seq(Plain)
      BY <3>1
    <3>3. parse_explicit_cast = all \o <<Mk("Cast")>>
      BY DEF parse_explicit_cast, head
    <3> HIDE DEF all
    <3> QED
      BY <1>1, <3>2, <3>3, YieldsMk
  <2>3. Good(parse_sizeof)
    BY <1>1, UsedItems, NodeBodies, ZenonT(60) DEF parse_sizeof
  <2>4. Good(<<T("("), Call("expression"), T(")"), Mk("Grouped")>>)
    BY <1>1, UsedItems, NodeBodies, Zenon
  <2>5. \A x \in Literals : Good(<<K(x)>>)
    BY <1>3, <2>1
  <2>6. Good(<<Call("identifier")>>) /\ Good(<<Call("new_expr")>>)
        /\ Good(<<Expected("<primary>")>>)
    BY <1>2, <1>3, UsedItems, Zenon
  <2> HIDE DEF Good
  <2> QED
    BY <2>2, <2>3, <2>4, <2>5, <2>6, ZenonT(60) DEF parse_primary
<1>7. Good(parse_identifier)
  <2>1. Good(<<K("IDENTIFIER"), T("::"), K("IDENTIFIER"), Call("enum_fields_opt"),
               Mk("EnumLiteral")>>)
    BY <1>1, UsedItems, NodeBodies, Zenon
  <2>2. Good(<<Call("struct_literal")>>) /\ Good(<<K("IDENTIFIER")>>)
    BY <1>3, UsedItems, Zenon
  <2> HIDE DEF Good
  <2> QED
    BY <2>1, <2>2, ZenonT(60) DEF parse_identifier
<1>8. Good(parse_struct_literal) /\ Good(parse_initializer)
  BY <1>1, UsedItems, NodeBodies, ZenonT(60) DEF parse_struct_literal, parse_initializer
<1>9. Good(parse_new_expr)
  BY UsedItems, DeclarationBodies, Zenon DEF parse_new_expr
<1>10. Good(parse_new_init)
  BY <1>3, UsedItems, Zenon DEF parse_new_init
<1>11. Good(parse_param_types) /\ Good(parse_param_type)
  BY <1>1, UsedItems, NodeBodies, Zenon DEF parse_param_types, parse_param_type
<1>12. Good(parse_type) \/ (parse_type = <<Call("type_name")>> /\ ~match("EOF"))
  <2>1. Good(<<T("ptr"), T("<"), Call("mutability_prefix"), Call("type"), Rangle,
               Mk("Pointer")>>)
    BY <1>1, UsedItems, NodeBodies, ZenonT(60)
  <2>2. Good(<<T("func"), T("("), Call("param_types"), T(")"), T("->"), Call("type"),
               Mk("FunctionType")>>)
    BY <1>1, UsedItems, NodeBodies, Zenon
  <2>3. Good(<<Expected("<type>")>>)
    BY <1>2, <1>3, UsedItems, Zenon
  <2>4. is_basic_type(m_tokens[m_pos].t) \/ match("IDENTIFIER") => ~match("EOF")
    BY DEF is_basic_type, BasicTypes, match
  <2>5. \/ parse_type = <<Call("type_name")>> /\ ~match("EOF")
        \/ parse_type = <<T("ptr"), T("<"), Call("mutability_prefix"), Call("type"), Rangle,
                          Mk("Pointer")>>
        \/ parse_type = <<T("func"), T("("), Call("param_types"), T(")"), T("->"),
                          Call("type"), Mk("FunctionType")>>
        \/ parse_type = <<Expected("<type>")>>
    <3>1. CASE is_basic_type(m_tokens[m_pos].t) \/ match("IDENTIFIER")
      BY <2>4, <3>1 DEF parse_type, is_basic_type, BasicTypes, match
    <3>2. CASE ~(is_basic_type(m_tokens[m_pos].t) \/ match("IDENTIFIER"))
      BY <3>2 DEF parse_type, match
    <3> QED
      BY <3>1, <3>2, Zenon
  <2> HIDE DEF Good
  <2> QED
    BY <2>1, <2>2, <2>3, <2>5, ZenonT(60)
<1>13. ASSUME NEW level \in 0 .. 10 PROVE Good(parse_binary(level))
  <2>1. Good(<<Call("unary")>>)
    BY <1>3, UsedItems, Zenon
  <2>2. Good(<<Call("unary"), Operators(level)>>)
    BY UsedItems, PlainItems, GivingBodies, Zenon
  <2> QED
    BY <2>1, <2>2 DEF parse_binary
<1> QED
  BY <1>4, <1>5, <1>6, <1>7, <1>8, <1>9, <1>10, <1>11, <1>12, <1>13, ZenonT(60)

\* Those that push any number of values take none away.
LEMMA RepetitionsKeep ==
  ASSUME Len(values) \in Nat, NEW b \in Nat, b <= Len(values)
  PROVE  LET Good(B) == Yields(B, b, Len(values), Len(values))
         IN  Good(parse_program) /\ Good(parse_cases) /\ Good(parse_statements)
             /\ Good(parse_enum_fields_opt)
<1> DEFINE Good(B) == Yields(B, b, Len(values), Len(values))
<1>1. ASSUME NEW B \in Seq(Plain) PROVE Good(B)
  BY YieldsPlain
<1>2. <<>> \in Seq(Plain)
  BY PlainTuples
<1>3. parse_program \in Seq(Plain) /\ parse_statements \in Seq(Plain)
  BY UsedItems, PlainTuples, Zenon DEF parse_program, parse_statements
<1>4. parse_enum_fields_opt \in Seq(Plain)
  BY UsedItems, PlainTuples, Zenon DEF parse_enum_fields_opt
<1>5. Good(<<>>) /\ Good(<<T("case"), Call("case_pattern"), Call("cases")>>)
      /\ Good(<<Expected("case | default")>>)
  <2>1. <<T("case"), Call("case_pattern"), Call("cases")>> \in Seq(Plain)
    BY UsedItems, PlainTuples, Zenon
  <2>2. <<Expected("case | default")>> \in Seq(Plain)
    BY UsedItems, PlainTuples, Zenon DEF Missing
  <2> QED
    BY <1>1, <1>2, <2>1, <2>2, Zenon
<1>6. Good(<<T("default"), T(":"), Call("block"), Mk("CaseDefault"), Call("cases")>>)
  <2> DEFINE head == <<T("default"), T(":"), Call("block"), Mk("CaseDefault")>>
  <2>1. "CaseDefault" \in NodeKinds
    BY DEF NodeKinds, Kinds
  <2>2. Yields(head, b, Len(values), Len(values) + 1)
    BY <2>1, UsedItems, NodeBodies, Zenon
  <2>3. Yields(head, b, Len(values), Len(values))
    BY <2>2, YieldsLess
  <2>4. <<Call("cases")>> \in Seq(Plain)
    BY UsedItems, PlainTuples, Zenon
  <2>5. <<T("default"), T(":"), Call("block"), Mk("CaseDefault"), Call("cases")>>
          = head \o <<Call("cases")>>
    OBVIOUS
  <2> HIDE DEF head
  <2> QED
    BY <1>1, <2>3, <2>4, <2>5, YieldsThen, Zenon
<1>7. Good(parse_cases)
  <2> HIDE DEF Good
  <2> QED
    BY <1>5, <1>6, Zenon DEF parse_cases
<1> QED
  BY <1>1, <1>3, <1>4, <1>7

\* The levels of the operators, and the operators are tokens.
LEMMA Levels ==
  \A op \in DOMAIN Level : op \in TokenTypes \ {"EOF"} /\ Level[op] - 1 \in 0 .. 10
<1>1. DOMAIN Level = BinaryOperators
  BY DEF Level
<1>2. BinaryOperators \subseteq TokenTypes \ {"EOF"}
  <2>1. ASSUME NEW op \in BinaryOperators PROVE op \in Keywords \cup Punctuation
    BY Zenon DEF BinaryOperators, Keywords, Punctuation
  <2>2. "EOF" \notin BinaryOperators
    BY DEF BinaryOperators
  <2> QED
    BY <2>1, <2>2 DEF TokenTypes
<1>3. ASSUME NEW op \in BinaryOperators PROVE Level[op] - 1 \in 0 .. 10
  BY DEF Level, BinaryOperators
<1> QED
  BY <1>1, <1>2, <1>3

\* What follows an operand, and gives a node in its place.
LEMMA SuffixesKeep ==
  ASSUME Len(values) \in Nat, NEW b \in Nat, b + 1 <= Len(values)
  PROVE  LET Good(B) == Yields(B, b, Len(values), Len(values))
         IN  /\ Good(parse_assign_opt) /\ Good(parse_suffixes)
             /\ \A level \in 0 .. 10 : Good(parse_operators(level))
<1> DEFINE Good(B) == Yields(B, b, Len(values), Len(values))
<1>1. {"Assignment", "ArrayIndex", "FunctionCall", "FieldAccess", "BinaryOp"} \subseteq NodeKinds
  BY DEF NodeKinds, Kinds
<1>2. 1 \in 1 .. 2 /\ Len(values) - 1 + 1 = Len(values)
  OBVIOUS
<1>3. ASSUME NEW kind \in NodeKinds
      PROVE  /\ \A i, j \in Plain : Good(<<i, j, MkWith(kind, 1)>>)
             /\ \A i, j \in Plain, o \in OnOne : Good(<<i, j, MkWith(kind, 1), o>>)
             /\ \A i, j, k \in Plain, o \in OnOne : Good(<<i, j, k, MkWith(kind, 1), o>>)
  BY <1>2, BuildBodies
<1>4. Good(<<>>)
  BY PlainTuples, YieldsPlain, Zenon
<1> HIDE DEF Good
<1>5. Good(parse_assign_opt)
  BY <1>1, <1>3, <1>4, UsedItems, Zenon DEF parse_assign_opt
<1>6. Good(parse_suffixes)
  <2>1. Good(<<T("["), Call("expression"), T("]"), MkWith("ArrayIndex", 1), Call("suffixes")>>)
    BY <1>1, <1>3, UsedItems, Zenon
  <2>2. Good(<<T("("), List("expression", ")"), T(")"), MkWith("FunctionCall", 1),
               Call("suffixes")>>)
    BY <1>1, <1>3, UsedItems, Zenon
  <2>3. Good(<<T("."), K("IDENTIFIER"), MkWith("FieldAccess", 1), Call("suffixes")>>)
    BY <1>1, <1>3, UsedItems, Zenon
  <2> QED
    BY <1>4, <2>1, <2>2, <2>3, Zenon DEF parse_suffixes
<1>7. ASSUME NEW level \in 0 .. 10 PROVE Good(parse_operators(level))
  <2> DEFINE op == m_tokens[m_pos].t
  <2>1. CASE op \in DOMAIN Level /\ Level[op] <= level
    <3>1. K(op) \in Plain /\ Binary(Level[op] - 1) \in Plain /\ Operators(level) \in OnOne
      BY <2>1, Levels, PlainItems
    <3>2. parse_operators(level) =
            <<K(op), Binary(Level[op] - 1), MkWith("BinaryOp", 1), Operators(level)>>
      BY <2>1, Zenon DEF parse_operators
    <3> QED
      BY <1>1, <1>3, <3>1, <3>2, ZenonT(60)
  <2>2. CASE ~(op \in DOMAIN Level /\ Level[op] <= level)
    BY <1>4, <2>2, Zenon DEF parse_operators
  <2> QED
    BY <2>1, <2>2
<1> QED
  BY <1>5, <1>6, <1>7, Zenon DEF Good

\* What follows a prefix and a name, or a type, and gives one node for both.
LEMMA EndingsKeep ==
  ASSUME Len(values) \in Nat, NEW b \in Nat, b + 2 <= Len(values)
  PROVE  LET Good(B) == Yields(B, b, Len(values), Len(values) - 1)
         IN  Good(parse_var_init) /\ Good(parse_new_rest)
<1> DEFINE Good(B) == Yields(B, b, Len(values), Len(values) - 1)
<1>1. {"VarDecl", "NewArray", "New"} \subseteq NodeKinds /\ {": | :=", "[ or ("} \subseteq Missing
  BY DEF NodeKinds, Kinds, Missing
<1>2. 2 \in 1 .. 2 /\ Len(values) - 2 + 1 = Len(values) - 1 /\ Len(values) - 1 \in Nat
      /\ Len(values) + 1 \in Nat /\ b <= Len(values) /\ Len(values) - 1 <= Len(values) + 1
  OBVIOUS
<1>3. ASSUME NEW kind \in NodeKinds
      PROVE  /\ \A i, j, k \in Plain : Good(<<i, j, k, MkWith(kind, 2)>>)
             /\ \A i, j, k, l \in Plain : Good(<<i, j, k, l, MkWith(kind, 2)>>)
  BY <1>2, BuildBodies
<1>4. ASSUME NEW x \in Missing PROVE Good(<<Expected(x)>>)
  <2>1. Expected(x) \in Giving
    BY UsedItems, Zenon
  <2>2. Yields(<<Expected(x)>>, b, Len(values), Len(values) + 1)
    BY <1>2, <2>1, GivingBodies, Zenon
  <2> QED
    BY <1>2, <2>2, YieldsLess, Zenon
<1> HIDE DEF Good
<1>5. Good(parse_var_init)
  <2>1. Good(<<T(":"), Call("type"), Call("init_opt"), T(";"), MkWith("VarDecl", 2)>>)
    BY <1>1, <1>3, UsedItems, Zenon
  <2>2. Good(<<T(":="), Absent, Call("expression"), T(";"), MkWith("VarDecl", 2)>>)
    BY <1>1, <1>3, UsedItems, Zenon
  <2>3. Good(<<Expected(": | :=")>>)
    BY <1>1, <1>4, Zenon
  <2> QED
    BY <2>1, <2>2, <2>3, Zenon DEF parse_var_init
<1>6. Good(parse_new_rest)
  <2>1. Good(<<T("["), Call("expression"), T("]"), MkWith("NewArray", 2)>>)
    BY <1>1, <1>3, UsedItems, Zenon
  <2>2. Good(<<T("("), Call("new_init"), T(")"), MkWith("New", 2)>>)
    BY <1>1, <1>3, UsedItems, Zenon
  <2>3. Good(<<Expected("[ or (")>>)
    BY <1>1, <1>4, Zenon
  <2> QED
    BY <2>1, <2>2, <2>3, Zenon DEF parse_new_rest
<1> QED
  BY <1>5, <1>6, Zenon DEF Good

\* The parse function of each call.
LEMMA CallBodies ==
  /\ CallBody("program") = parse_program
  /\ CallBody("mutability_prefix") = parse_mutability_prefix
  /\ CallBody("enum_decl") = parse_enum_decl /\ CallBody("variant") = parse_variant
  /\ CallBody("tag_opt") = parse_tag_opt /\ CallBody("payload_opt") = parse_payload_opt
  /\ CallBody("struct_decl") = parse_struct_decl
  /\ CallBody("struct_field") = parse_struct_field
  /\ CallBody("function_decl") = parse_function_decl /\ CallBody("params") = parse_params
  /\ CallBody("param") = parse_function_param
  /\ CallBody("returns_opt") = parse_function_return_type
  /\ CallBody("function_body") = parse_function_body /\ CallBody("var_decl") = parse_var_decl
  /\ CallBody("var_init") = parse_var_init /\ CallBody("init_opt") = parse_init_opt
  /\ CallBody("if") = parse_if_stmt /\ CallBody("else_opt") = parse_else_opt
  /\ CallBody("for") = parse_for_stmt /\ CallBody("for_init") = parse_for_init
  /\ CallBody("while") = parse_while_stmt /\ CallBody("switch") = parse_switch_stmt
  /\ CallBody("cases") = parse_cases /\ CallBody("case_pattern") = parse_case_pattern
  /\ CallBody("payload_name_opt") = parse_payload_name_opt /\ CallBody("read") = parse_read_stmt
  /\ CallBody("print") = parse_print_stmt /\ CallBody("error") = parse_error_stmt
  /\ CallBody("return") = parse_return_stmt /\ CallBody("exit") = parse_exit_stmt
  /\ CallBody("break") = parse_break_stmt /\ CallBody("continue") = parse_continue_stmt
  /\ CallBody("free") = parse_free_stmt /\ CallBody("asm") = parse_asm_block
  /\ CallBody("block") = parse_block /\ CallBody("statements") = parse_statements
  /\ CallBody("expression") = parse_assignment /\ CallBody("assign_opt") = parse_assign_opt
  /\ CallBody("unary") = parse_unary /\ CallBody("suffixes") = parse_suffixes
  /\ CallBody("primary") = parse_primary /\ CallBody("identifier") = parse_identifier
  /\ CallBody("struct_literal") = parse_struct_literal
  /\ CallBody("enum_fields_opt") = parse_enum_fields_opt
  /\ CallBody("initializer") = parse_initializer /\ CallBody("new_expr") = parse_new_expr
  /\ CallBody("new_rest") = parse_new_rest /\ CallBody("new_init") = parse_new_init
  /\ CallBody("type") = parse_type /\ CallBody("param_types") = parse_param_types
  /\ CallBody("param_type") = parse_param_type
<1>1. /\ CallBody("program") = parse_program
      /\ CallBody("mutability_prefix") = parse_mutability_prefix
      /\ CallBody("enum_decl") = parse_enum_decl /\ CallBody("variant") = parse_variant
  BY ZenonT(60) DEF CallBody
<1>2. /\ CallBody("tag_opt") = parse_tag_opt /\ CallBody("payload_opt") = parse_payload_opt
      /\ CallBody("struct_decl") = parse_struct_decl
      /\ CallBody("struct_field") = parse_struct_field
  BY ZenonT(60) DEF CallBody
<1>3. /\ CallBody("function_decl") = parse_function_decl /\ CallBody("params") = parse_params
      /\ CallBody("param") = parse_function_param
      /\ CallBody("returns_opt") = parse_function_return_type
  BY ZenonT(60) DEF CallBody
<1>4. /\ CallBody("function_body") = parse_function_body
      /\ CallBody("var_decl") = parse_var_decl /\ CallBody("var_init") = parse_var_init
      /\ CallBody("init_opt") = parse_init_opt
  BY ZenonT(60) DEF CallBody
<1>5. /\ CallBody("if") = parse_if_stmt /\ CallBody("else_opt") = parse_else_opt
      /\ CallBody("for") = parse_for_stmt /\ CallBody("for_init") = parse_for_init
  BY ZenonT(60) DEF CallBody
<1>6. /\ CallBody("while") = parse_while_stmt /\ CallBody("switch") = parse_switch_stmt
      /\ CallBody("cases") = parse_cases /\ CallBody("case_pattern") = parse_case_pattern
  BY ZenonT(60) DEF CallBody
<1>7. /\ CallBody("payload_name_opt") = parse_payload_name_opt
      /\ CallBody("read") = parse_read_stmt /\ CallBody("print") = parse_print_stmt
      /\ CallBody("error") = parse_error_stmt
  BY ZenonT(60) DEF CallBody
<1>8. /\ CallBody("return") = parse_return_stmt /\ CallBody("exit") = parse_exit_stmt
      /\ CallBody("break") = parse_break_stmt /\ CallBody("continue") = parse_continue_stmt
  BY ZenonT(60) DEF CallBody
<1>9. /\ CallBody("free") = parse_free_stmt /\ CallBody("asm") = parse_asm_block
      /\ CallBody("block") = parse_block /\ CallBody("statements") = parse_statements
  BY ZenonT(60) DEF CallBody
<1>10. /\ CallBody("expression") = parse_assignment /\ CallBody("assign_opt") = parse_assign_opt
      /\ CallBody("unary") = parse_unary /\ CallBody("suffixes") = parse_suffixes
  BY ZenonT(60) DEF CallBody
<1>11. /\ CallBody("primary") = parse_primary /\ CallBody("identifier") = parse_identifier
      /\ CallBody("struct_literal") = parse_struct_literal
      /\ CallBody("enum_fields_opt") = parse_enum_fields_opt
  BY ZenonT(60) DEF CallBody
<1>12. /\ CallBody("initializer") = parse_initializer /\ CallBody("new_expr") = parse_new_expr
      /\ CallBody("new_rest") = parse_new_rest /\ CallBody("new_init") = parse_new_init
  BY ZenonT(60) DEF CallBody
<1>13. /\ CallBody("type") = parse_type /\ CallBody("param_types") = parse_param_types
      /\ CallBody("param_type") = parse_param_type
  BY ZenonT(60) DEF CallBody
<1> QED
  BY <1>1, <1>2, <1>3, <1>4, <1>5, <1>6, <1>7, <1>8, <1>9, <1>10, <1>11, <1>12, <1>13, ZenonT(60)

\* Every parse function keeps the promise its callers build on.
LEMMA CallsYield ==
  ASSUME Len(values) \in Nat, NEW b \in Nat, b <= Len(values)
  PROVE  /\ \A f \in OneValue :
              \/ Yields(CallBody(f), b, Len(values), Len(values) + 1)
              \/ CallBody(f) = <<Call("type_name")>> /\ ~match("EOF")
         /\ \A f \in AnyValues \ {"asm_body"} :
              Yields(CallBody(f), b, Len(values), Len(values))
         /\ \A f \in {"assign_opt", "suffixes"} :
              b + 1 <= Len(values) => Yields(CallBody(f), b, Len(values), Len(values))
         /\ \A f \in {"var_init", "new_rest"} :
              b + 2 <= Len(values) => Yields(CallBody(f), b, Len(values), Len(values) - 1)
<1> DEFINE One(B) == Yields(B, b, Len(values), Len(values) + 1)
           Same(B) == Yields(B, b, Len(values), Len(values))
           Less(B) == Yields(B, b, Len(values), Len(values) - 1)
<1>1. /\ One(parse_mutability_prefix) /\ One(parse_enum_decl) /\ One(parse_variant)
      /\ One(parse_tag_opt) /\ One(parse_payload_opt) /\ One(parse_struct_decl)
      /\ One(parse_struct_field) /\ One(parse_function_decl) /\ One(parse_params)
      /\ One(parse_function_param) /\ One(parse_function_return_type)
      /\ One(parse_function_body) /\ One(parse_var_decl) /\ One(parse_init_opt)
  BY DeclarationsGive
<1>2. /\ One(parse_if_stmt) /\ One(parse_else_opt) /\ One(parse_for_stmt)
      /\ One(parse_for_init) /\ One(parse_while_stmt) /\ One(parse_switch_stmt)
      /\ One(parse_case_pattern) /\ One(parse_payload_name_opt)
      /\ One(parse_read_stmt) /\ One(parse_print_stmt) /\ One(parse_error_stmt)
      /\ One(parse_return_stmt) /\ One(parse_exit_stmt) /\ One(parse_break_stmt)
      /\ One(parse_continue_stmt) /\ One(parse_free_stmt) /\ One(parse_asm_block)
      /\ One(parse_block)
  BY StatementsGive
<1>3. /\ One(parse_assignment) /\ One(parse_unary) /\ One(parse_primary)
      /\ One(parse_identifier) /\ One(parse_struct_literal) /\ One(parse_initializer)
      /\ One(parse_new_expr) /\ One(parse_new_init) /\ One(parse_param_types)
      /\ One(parse_param_type)
      /\ One(parse_type) \/ (parse_type = <<Call("type_name")>> /\ ~match("EOF"))
  BY ExpressionsGive, Zenon
<1>4. /\ Same(parse_program) /\ Same(parse_cases) /\ Same(parse_statements)
      /\ Same(parse_enum_fields_opt)
  BY RepetitionsKeep
<1>5. b + 1 <= Len(values) => Same(parse_assign_opt) /\ Same(parse_suffixes)
  BY SuffixesKeep
<1>6. b + 2 <= Len(values) => Less(parse_var_init) /\ Less(parse_new_rest)
  BY EndingsKeep
<1> HIDE DEF One, Same, Less
<1>7. ASSUME NEW f \in OneValue
      PROVE  One(CallBody(f)) \/ (CallBody(f) = <<Call("type_name")>> /\ ~match("EOF"))
  <2>1. CASE f \in {"mutability_prefix", "enum_decl", "variant", "tag_opt", "payload_opt",
                    "struct_decl", "struct_field", "function_decl", "params", "param",
                    "returns_opt", "function_body", "var_decl", "init_opt"}
    BY <1>1, <2>1, CallBodies, Zenon
  <2>2. CASE f \in {"if", "else_opt", "for", "for_init", "while", "switch", "case_pattern",
                    "payload_name_opt", "read", "print", "error", "return", "exit", "break",
                    "continue", "free", "asm", "block"}
    BY <1>2, <2>2, CallBodies, Zenon
  <2>3. CASE f \in {"expression", "unary", "primary", "identifier", "struct_literal",
                    "initializer", "new_expr", "new_init", "type", "param_types", "param_type"}
    BY <1>3, <2>3, CallBodies, ZenonT(60)
  <2> QED
    BY <2>1, <2>2, <2>3, ZenonT(60) DEF OneValue
<1>8. \A f \in AnyValues \ {"asm_body"} : Same(CallBody(f))
  BY <1>4, CallBodies DEF AnyValues
<1>9. \A f \in {"assign_opt", "suffixes"} : b + 1 <= Len(values) => Same(CallBody(f))
  BY <1>5, CallBodies
<1>10. \A f \in {"var_init", "new_rest"} : b + 2 <= Len(values) => Less(CallBody(f))
  BY <1>6, CallBodies
<1> QED
  BY <1>7, <1>8, <1>9, <1>10, Zenon DEF One, Same, Less

\* What a try block begins with needs none of the values before it.
LEMMA TryPlanned ==
  ASSUME Len(values) \in Nat, NEW f \in FrameNames \ {"program"}
  PROVE  TryBody(f) \in Seq(Items) /\ Planned(TryBody(f), Len(values), Len(values))
<1> DEFINE Good(B) == Yields(B, Len(values), Len(values), Len(values))
<1>1. ASSUME NEW B \in Seq(Plain) PROVE Good(B)
  BY YieldsPlain
<1>2. \A i \in Plain : Good(<<i>>)
  BY <1>1, PlainTuples, Zenon
<1>3. Good(parse_toplevel_declaration)
  <2> HIDE DEF Good
  <2> QED
    BY <1>2, UsedItems, Zenon DEF parse_toplevel_declaration
<1>4. Good(parse_statement)
  <2>1. \A x \in DOMAIN StatementOf : StatementOf[x] \in OneValue
    BY Zenon DEF StatementOf, OneValue
  <2>2. \A x \in DOMAIN StatementOf : Good(<<Call(StatementOf[x])>>)
    BY <1>2, <2>1, PlainItems
  <2>3. Good(<<Call("var_decl")>>)
    BY <1>2, UsedItems, Zenon
  <2>4. Good(<<Call("expression"), T(";"), Mk("ExpressionStatement")>>)
    <3>1. "ExpressionStatement" \in NodeKinds
      BY DEF NodeKinds, Kinds
    <3>2. Len(values) + 1 \in Nat /\ Len(values) <= Len(values) + 1 /\ Len(values) <= Len(values)
      OBVIOUS
    <3>3. Yields(<<Call("expression"), T(";"), Mk("ExpressionStatement")>>, Len(values),
                 Len(values), Len(values) + 1)
      BY <3>1, <3>2, UsedItems, NodeBodies, Zenon
    <3> QED
      BY <3>2, <3>3, YieldsLess, Zenon
  <2> HIDE DEF Good
  <2> QED
    BY <2>2, <2>3, <2>4, Zenon DEF parse_statement
<1>5. parse_enum_body \in Seq(Plain) /\ parse_payload \in Seq(Plain)
      /\ parse_struct_body \in Seq(Plain)
  BY UsedItems, PlainTuples, Zenon DEF parse_enum_body, parse_payload, parse_struct_body
<1>6. parse_function \in Seq(Plain) /\ <<T("{"), Call("statements"), T("}")>> \in Seq(Plain)
  BY UsedItems, PlainTuples, Zenon DEF parse_function
<1>7. parse_for \in Seq(Plain)
  BY UsedItems, PlainTuples, Zenon DEF parse_for
<1>8. Good(TryBody(f))
  <2> DEFINE braces == <<T("{"), Call("statements"), T("}")>>
  <2>1. /\ Good(parse_enum_body) /\ Good(parse_payload) /\ Good(parse_struct_body)
        /\ Good(parse_function) /\ Good(parse_for) /\ Good(braces)
    BY <1>1, <1>5, <1>6, <1>7, Zenon
  <2>2. TryBody(f) =
          CASE f = "toplevel" -> parse_toplevel_declaration
            [] f = "statement" -> parse_statement [] f = "enum_body" -> parse_enum_body
            [] f = "payload" -> parse_payload [] f = "struct_body" -> parse_struct_body
            [] f = "function" -> parse_function [] f = "for" -> parse_for
            [] f \in {"block", "body"} -> braces
    BY Zenon DEF TryBody
  <2> HIDE DEF Good, braces
  <2> QED
    BY <1>3, <1>4, <2>1, <2>2 DEF FrameNames
<1>9. TryBody(f) \in Seq(Items) /\ TryBody(f) \o <<>> = TryBody(f)
  BY <1>8 DEF Yields
<1>10. Planned(<<>>, Len(values), Len(values)) /\ <<>> \in Seq(Items)
  BY PlanNothing
<1> QED
  BY <1>8, <1>9, <1>10, Zenon DEF Yields

-------------------------------------------------------------------------------
\* What a plan says of an item, by what kind of item it is.
LEMMA ItemCases ==
  ASSUME NEW i \in Items, NEW b \in Nat, NEW n \in Nat, NEW g \in Nat, Leads(i, b, n, g)
  PROVE  /\ b <= n /\ b <= g
         /\ i.op = "call" =>
              \/ i.f \in OneValue /\ g <= n + 1
              \/ i.f \in AnyValues /\ g <= n
              \/ i.f \in {"assign_opt", "suffixes"} /\ b + 1 <= n /\ g <= n
              \/ i.f \in {"var_init", "new_rest"} /\ b + 2 <= n /\ g <= n - 1
         /\ i.op \in {"list", "more"} => i.f \in OneValue /\ g <= n
         /\ i.op = "opt" => i.f \in OneValue /\ g <= n + 1
         /\ i.op = "binary" => i.base \in 0 .. 10 /\ g <= n + 1
         /\ i.op = "operators" => i.base \in 0 .. 10 /\ b + 1 <= n /\ g <= n
         /\ i.op = "token" => i.f \in Missing \/ (i.f \in TokenTypes \ {"EOF"} /\ g <= n)
         /\ i.op = "keep" => i.f \in TokenTypes \ {"EOF"} /\ g <= n + 1
         /\ i.op = "absent" => g <= n + 1
         /\ i.op = "rangle" => g <= n
         /\ i.op = "try" => i.f \in FrameNames \ {"program"} /\ g <= n
         /\ i.op = "node" =>
              \/ i.f = "EnumName" /\ g <= n
              \/ /\ i.f # "EnumName" /\ b <= i.base /\ i.base <= n /\ g <= i.base + 1
                 /\ i.f = "StructName" => i.base < n
<1>1. b <= n /\ b <= g
  BY DEF Leads
<1>2. \/ i \in Plain /\ g <= n
      \/ i \in Giving /\ g <= n + 1
      \/ i \in OnOne /\ b + 1 <= n /\ g <= n
      \/ i \in OnTwo /\ b + 2 <= n /\ g <= n - 1
      \/ /\ i \in Making /\ b <= i.base /\ i.base <= n /\ g <= i.base + 1
         /\ i.f = "StructName" => i.base < n
  BY DEF Leads
<1>3. CASE i \in Plain /\ g <= n
  <2>1. g <= n + 1
    BY <1>3
  <2> QED
    BY <1>1, <1>3, <2>1 DEF Plain
<1>4. CASE i \in Giving /\ g <= n + 1
  BY <1>1, <1>4 DEF Giving, Plain
<1>5. CASE i \in OnOne /\ b + 1 <= n /\ g <= n
  BY <1>1, <1>5 DEF OnOne
<1>6. CASE i \in OnTwo /\ b + 2 <= n /\ g <= n - 1
  BY <1>1, <1>6 DEF OnTwo
<1>7. CASE /\ i \in Making /\ b <= i.base /\ i.base <= n /\ g <= i.base + 1
           /\ i.f = "StructName" => i.base < n
  BY <1>1, <1>7 DEF Making
<1> QED
  BY <1>2, <1>3, <1>4, <1>5, <1>6, <1>7, ZenonT(60)

\* Only calls are of the two functions that read tokens themselves, and no plan has a
\* call of type_name.
LEMMA SpecialItems ==
  ASSUME NEW i \in Items, NEW b \in Nat, NEW n \in Nat, NEW g \in Nat, Leads(i, b, n, g)
  PROVE  i.f # "type_name" /\ (i.f = "asm_body" => i.op = "call")
<1> DEFINE Others == TokenTypes \cup Missing \cup FrameNames \cup OneValue \cup Builders
                     \cup Kinds \cup {NoWord}
<1>1. ASSUME NEW x \in {"asm_body", "type_name"} PROVE x \notin Others
  <2>1. x \notin TokenTypes
    BY Zenon DEF TokenTypes, Keywords, BasicTypes, Punctuation
  <2>2. x \notin FrameNames /\ x \notin OneValue /\ x \notin Builders /\ x \notin Kinds
    BY DEF FrameNames, OneValue, Builders, Kinds
  <2>3. x \notin Missing
    BY Zenon DEF Missing
  <2>4. x # NoWord
    BY Zenon DEF NoWord
  <2> QED
    BY <2>1, <2>2, <2>3, <2>4
<1>2. "EnumName" \in Kinds /\ ">" \in TokenTypes
  BY Zenon DEF Kinds, TokenTypes, Punctuation
<1>3. Plain \subseteq {j \in Items : j.f \in Others \/ (j.op = "call" /\ j.f \in AnyValues)}
  BY <1>2 DEF Plain
<1>4. Giving \subseteq Plain
  BY DEF Giving
<1>5. OnOne \cup OnTwo \cup Making \subseteq {j \in Items : j.f \in Others}
  BY DEF OnOne, OnTwo, Making, Builders
<1>6. "type_name" \notin AnyValues
  BY DEF AnyValues
<1>7. i \in Plain \cup OnOne \cup OnTwo \cup Making
  BY <1>4 DEF Leads
<1> HIDE DEF Others
<1> QED
  BY <1>1, <1>3, <1>5, <1>6, <1>7

\* The body that takes the place of a call, a repetition or an option.
LEMMA BodyYields ==
  ASSUME Len(values) \in Nat, NEW i \in Items, NEW b \in Nat, NEW n \in Nat, NEW g \in Nat,
         n <= Len(values), Leads(i, b, n, g), i.f # "asm_body",
         i.op \in {"call", "list", "more", "opt", "binary", "operators"}
  PROVE  \/ Yields(Body(i), b, Len(values), g)
         \/ Body(i) = <<Call("type_name")>> /\ ~match("EOF") /\ g <= Len(values) + 1
<1> DEFINE h == Len(values)
<1>1. b <= n /\ n <= h /\ h \in Nat /\ h + 1 \in Nat /\ b <= h
  BY ItemCases
<1>2. ASSUME NEW B, NEW m \in Nat, Yields(B, b, h, m), g <= m PROVE Yields(B, b, h, g)
  BY <1>1, <1>2, YieldsLess, Zenon
<1>3. (g <= n + 1 => g <= h + 1) /\ (g <= n => g <= h) /\ (b + 1 <= n => b + 1 <= h)
  BY <1>1
<1>4. CASE i.op = "call"
  <2>1. Body(i) = CallBody(i.f)
    BY <1>4, Zenon DEF Body
  <2>2. CASE i.f \in OneValue /\ g <= n + 1
    <3>1. \/ Yields(Body(i), b, h, h + 1)
          \/ Body(i) = <<Call("type_name")>> /\ ~match("EOF")
      BY <1>1, <2>1, <2>2, CallsYield, ZenonT(60)
    <3> QED
      BY <1>1, <1>2, <1>3, <2>2, <3>1, Zenon
  <2>3. CASE i.f \in AnyValues /\ g <= n
    <3>1. Yields(Body(i), b, h, h)
      BY <1>1, <2>1, <2>3, CallsYield, ZenonT(60)
    <3> QED
      BY <1>1, <1>2, <1>3, <2>3, <3>1, ZenonT(60)
  <2>4. CASE i.f \in {"assign_opt", "suffixes"} /\ b + 1 <= n /\ g <= n
    <3>1. Yields(Body(i), b, h, h)
      BY <1>1, <1>3, <2>1, <2>4, CallsYield, ZenonT(60)
    <3> QED
      BY <1>1, <1>2, <1>3, <2>4, <3>1, ZenonT(60)
  <2>5. CASE i.f \in {"var_init", "new_rest"} /\ b + 2 <= n /\ g <= n - 1
    <3>1. b + 2 <= h /\ h - 1 \in Nat /\ g <= h - 1
      BY <1>1, <2>5
    <3>2. Yields(Body(i), b, h, h - 1)
      BY <1>1, <2>1, <2>5, <3>1, CallsYield, ZenonT(60)
    <3> QED
      BY <1>2, <3>1, <3>2, ZenonT(60)
  <2> QED
    BY <1>4, <2>2, <2>3, <2>4, <2>5, ItemCases, Zenon
<1>5. CASE i.op \in {"list", "more"}
  <2>1. i.f \in OneValue /\ g <= n
    BY <1>5, ItemCases
  <2>2. T(",") \in Plain /\ Call(i.f) \in Plain /\ More(i.f) \in Plain
    BY <2>1, UsedItems, PlainItems, Zenon
  <2>3. Body(i) \in Seq(Plain)
    BY <1>5, <2>2, PlainTuples, Zenon DEF Body
  <2> QED
    BY <1>1, <1>2, <1>3, <2>1, <2>3, YieldsPlain, ZenonT(60)
<1>6. CASE i.op = "opt"
  <2>1. i.f \in OneValue /\ g <= n + 1
    BY <1>6, ItemCases
  <2>2. Body(i) = <<Absent>> \/ Body(i) = <<Call(i.f)>>
    BY <1>6, Zenon DEF Body
  <2>3. Absent \in Giving /\ Call(i.f) \in Giving
    BY <2>1, PlainItems
  <2>4. Yields(Body(i), b, h, h + 1)
    BY <1>1, <2>2, <2>3, GivingBodies, Zenon
  <2> QED
    BY <1>1, <1>2, <1>3, <2>1, <2>4, ZenonT(60)
<1>7. CASE i.op = "binary"
  <2>1. i.base \in 0 .. 10 /\ g <= n + 1
    BY <1>7, ItemCases
  <2>2. Body(i) = parse_binary(i.base)
    BY <1>7, ZenonT(60) DEF Body
  <2>3. Yields(Body(i), b, h, h + 1)
    BY <1>1, <2>1, <2>2, ExpressionsGive, Zenon
  <2> QED
    BY <1>1, <1>2, <1>3, <2>1, <2>3, ZenonT(60)
<1>8. CASE i.op = "operators"
  <2>1. i.base \in 0 .. 10 /\ b + 1 <= n /\ g <= n
    BY <1>8, ItemCases
  <2>2. Body(i) = parse_operators(i.base)
    BY <1>8, Zenon DEF Body
  <2>3. Yields(Body(i), b, h, h)
    BY <1>1, <2>1, <2>2, SuffixesKeep
  <2> QED
    BY <1>1, <1>2, <1>3, <2>1, <2>3, Zenon
<1> QED
  BY <1>4, <1>5, <1>6, <1>7, <1>8, Zenon

-------------------------------------------------------------------------------
\* The stack of try blocks.  parse_program has nothing to do but to parse items of the
\* file, each in a block that has a handler; what a block will do when the ones inside it
\* are done, it can do with the values it had when it entered them.
Root == {Call("program"), Try("toplevel")}
Blocks(fr) ==
  /\ \A i \in 1 .. Len(fr) :
       fr[i].f \in FrameNames /\ fr[i].base \in Nat /\ fr[i].work \in Seq(Items)
  /\ \A k \in 1 .. Len(fr[1].work) : fr[1].work[k] \in Root
  /\ Len(fr) >= 2 => fr[2].f = "toplevel"
  /\ \A i \in 2 .. Len(fr) : fr[i].f # "program"
  /\ \A i, j \in 1 .. Len(fr) : i <= j => fr[i].base <= fr[j].base
  /\ \A i \in 1 .. Len(fr) - 1 : Planned(fr[i].work, fr[i].base, fr[i + 1].base)

\* The innermost block with other work.
LEMMA SetWork ==
  ASSUME NEW fr, Stack(fr), Len(fr) >= 1, NEW w
  PROVE  LET n == Len(fr)
             new == [fr EXCEPT ![n].work = w]
         IN  /\ n \in Nat /\ Len(new) = n
             /\ new[n].work = w
             /\ \A i \in 1 .. n : new[i].f = fr[i].f /\ new[i].base = fr[i].base
             /\ \A i \in 1 .. n - 1 : new[i].work = fr[i].work
<1>1. PICK W : fr \in Seq(FrameRecords(W))
  BY DEF Stack
<1> DEFINE n == Len(fr)
           new == [fr EXCEPT ![n] = [@ EXCEPT !.work = w]]
<1>2. n \in Nat /\ n >= 1
  BY <1>1
<1>3. \A i \in 1 .. n : fr[i] \in FrameRecords(W)
  BY <1>1
<1>4. ASSUME NEW r \in FrameRecords(W)
      PROVE  LET q == [r EXCEPT !.work = w]
             IN  q.f = r.f /\ q.base = r.base /\ q.work = w
  BY DEF FrameRecords
<1>5. /\ new = [i \in 1 .. n |-> IF i = n THEN [fr[n] EXCEPT !.work = w] ELSE fr[i]]
      /\ Len(new) = n
  BY <1>1
<1>6. \A i \in 1 .. n : new[i].f = fr[i].f /\ new[i].base = fr[i].base
  BY <1>2, <1>3, <1>4, <1>5, ZenonT(60)
<1>7. n \in 1 .. n /\ \A i \in 1 .. n - 1 : i \in 1 .. n /\ i # n
  BY <1>2
<1>8. new[n].work = w /\ \A i \in 1 .. n - 1 : new[i].work = fr[i].work
  BY <1>3, <1>4, <1>5, <1>7, ZenonT(60)
<1> QED
  BY <1>2, <1>5, <1>6, <1>8

\* Giving the innermost block other work keeps the stack in order.
LEMMA BlocksWork ==
  ASSUME NEW fr, Stack(fr), Len(fr) >= 1, Blocks(fr), NEW w \in Seq(Items),
         Len(fr) = 1 => \A k \in 1 .. Len(w) : w[k] \in Root
  PROVE  Blocks([fr EXCEPT ![Len(fr)].work = w])
<1> DEFINE n == Len(fr)
           new == [fr EXCEPT ![n].work = w]
<1>1. /\ n \in Nat /\ n >= 1 /\ Len(new) = n /\ new[n].work = w
      /\ \A i \in 1 .. n : new[i].f = fr[i].f /\ new[i].base = fr[i].base
      /\ \A i \in 1 .. n - 1 : new[i].work = fr[i].work
  BY SetWork
<1> HIDE DEF new
<1>2. ASSUME NEW i \in 1 .. n
      PROVE  new[i].f \in FrameNames /\ new[i].base \in Nat /\ new[i].work \in Seq(Items)
  <2>1. new[i].f \in FrameNames /\ new[i].base \in Nat
    BY <1>1, Zenon DEF Blocks
  <2>2. CASE i = n
    BY <1>1, <2>1, <2>2
  <2>3. CASE i # n
    <3>1. i \in 1 .. n - 1
      BY <1>1, <2>3
    <3> QED
      BY <1>1, <2>1, <3>1 DEF Blocks
  <2> QED
    BY <2>2, <2>3
<1>3. \A k \in 1 .. Len(new[1].work) : new[1].work[k] \in Root
  <2>1. CASE n = 1
    <3>1. new[1].work = w
      BY <1>1, <2>1
    <3> QED
      BY <2>1, <3>1, Zenon
  <2>2. CASE n # 1
    <3>1. 1 \in 1 .. n - 1
      BY <1>1, <2>2
    <3> QED
      BY <1>1, <3>1 DEF Blocks
  <2> QED
    BY <2>1, <2>2
<1>4. /\ n >= 2 => new[2].f = "toplevel"
      /\ \A i \in 2 .. n : new[i].f # "program"
      /\ \A i, j \in 1 .. n : i <= j => new[i].base <= new[j].base
  BY <1>1 DEF Blocks
<1>5. ASSUME NEW i \in 1 .. n - 1 PROVE Planned(new[i].work, new[i].base, new[i + 1].base)
  <2>1. i \in 1 .. n /\ i + 1 \in 1 .. n
    BY <1>1
  <2>2. new[i].work = fr[i].work /\ new[i].base = fr[i].base /\ new[i + 1].base = fr[i + 1].base
    BY <1>1, <2>1
  <2> QED
    BY <2>2 DEF Blocks
<1>6. Blocks(new)
  BY <1>1, <1>2, <1>3, <1>4, <1>5 DEF Blocks
<1> QED
  BY <1>6 DEF new

\* Entering a try block keeps the stack in order.
LEMMA BlocksPush ==
  ASSUME NEW fr, Stack(fr), Len(fr) >= 1, Blocks(fr), NEW r,
         r.f \in FrameNames \ {"program"}, Len(fr) = 1 => r.f = "toplevel",
         r.base \in Nat, r.work \in Seq(Items),
         Planned(fr[Len(fr)].work, fr[Len(fr)].base, r.base), fr[Len(fr)].base <= r.base
  PROVE  Blocks(Append(fr, r)) /\ Len(Append(fr, r)) = Len(fr) + 1
         /\ Append(fr, r)[Len(fr) + 1] = r
<1>1. PICK W : fr \in Seq(FrameRecords(W))
  BY DEF Stack
<1> DEFINE n == Len(fr)
           new == Append(fr, r)
<1>2. /\ n \in Nat /\ n >= 1 /\ Len(new) = n + 1
      /\ new[n + 1] = r /\ \A i \in 1 .. n : new[i] = fr[i]
  BY <1>1
<1> HIDE DEF new
<1>3. /\ \A i \in 1 .. n :
           fr[i].f \in FrameNames /\ fr[i].base \in Nat /\ fr[i].work \in Seq(Items)
      /\ \A k \in 1 .. Len(fr[1].work) : fr[1].work[k] \in Root
      /\ n >= 2 => fr[2].f = "toplevel"
      /\ \A i \in 2 .. n : fr[i].f # "program"
      /\ \A i, j \in 1 .. n : i <= j => fr[i].base <= fr[j].base
      /\ \A i \in 1 .. n - 1 : Planned(fr[i].work, fr[i].base, fr[i + 1].base)
  BY DEF Blocks
<1>4. \A i \in 1 .. n + 1 : i \in 1 .. n \/ i = n + 1
  BY <1>2
<1>5. \A i \in 1 .. n + 1 :
        new[i].f \in FrameNames /\ new[i].base \in Nat /\ new[i].work \in Seq(Items)
  BY <1>2, <1>3, <1>4, ZenonT(60)
<1>6. \A k \in 1 .. Len(new[1].work) : new[1].work[k] \in Root
  BY <1>2, <1>3
<1>7. new[2].f = "toplevel"
  <2>1. CASE n = 1
    BY <1>2, <2>1
  <2>2. CASE n >= 2
    BY <1>2, <1>3, <2>2
  <2>3. \A x \in Nat : x >= 1 => x = 1 \/ x >= 2
    OBVIOUS
  <2> QED
    BY <1>2, <2>1, <2>2, <2>3, Zenon
<1>8. \A i \in 2 .. n + 1 : new[i].f # "program"
  <2>1. \A i \in 2 .. n + 1 : i = n + 1 \/ (i \in 2 .. n /\ i \in 1 .. n)
    BY <1>2
  <2> QED
    BY <1>2, <1>3, <2>1, Zenon
<1>9. ASSUME NEW i \in 1 .. n + 1, NEW j \in 1 .. n + 1, i <= j
      PROVE  new[i].base <= new[j].base
  <2>1. CASE j \in 1 .. n
    <3>1. i \in 1 .. n
      BY <1>2, <1>9, <2>1
    <3> QED
      BY <1>2, <1>3, <1>9, <2>1, <3>1
  <2>2. CASE i \in 1 .. n /\ j = n + 1
    <3>1. fr[i].base <= fr[n].base /\ n \in 1 .. n
      BY <1>2, <1>3, <2>2
    <3>2. fr[i].base \in Nat /\ fr[n].base \in Nat /\ fr[n].base <= r.base
      BY <1>3, <2>2, <3>1
    <3> QED
      BY <1>2, <2>2, <3>1, <3>2
  <2>3. CASE i = n + 1 /\ j = n + 1
    BY <1>5, <2>3
  <2> QED
    BY <1>2, <1>4, <1>9, <2>1, <2>2, <2>3
<1>10. ASSUME NEW i \in 1 .. n PROVE Planned(new[i].work, new[i].base, new[i + 1].base)
  <2>1. CASE i = n
    BY <1>2, <2>1
  <2>2. CASE i \in 1 .. n - 1
    <3>1. i + 1 \in 1 .. n
      BY <1>2, <2>2
    <3> QED
      BY <1>2, <1>3, <2>2, <3>1
  <2> QED
    BY <1>2, <2>1, <2>2
<1>11. Blocks(new)
  <2>1. n + 1 - 1 = n
    BY <1>2
  <2> QED
    BY <1>2, <1>5, <1>6, <1>7, <1>8, <1>9, <1>10, <2>1 DEF Blocks
<1> QED
  BY <1>2, <1>11 DEF new

\* Leaving a try block keeps the stack in order, and the block around it has what it needs.
LEMMA BlocksPop ==
  ASSUME NEW fr, Stack(fr), Len(fr) > 1, Blocks(fr)
  PROVE  LET new == Outer(fr)
             m == Len(fr) - 1
         IN  /\ m \in Nat /\ Len(new) = m /\ Blocks(new) /\ new[m] = fr[m]
             /\ Planned(new[m].work, new[m].base, fr[Len(fr)].base)
             /\ new[m].base <= fr[Len(fr)].base
<1>1. PICK W : fr \in Seq(FrameRecords(W))
  BY DEF Stack
<1> DEFINE n == Len(fr)
           new == Outer(fr)
<1>2. n \in Nat /\ Len(new) = n - 1 /\ \A i \in 1 .. n - 1 : new[i] = fr[i]
  BY <1>1 DEF Outer
<1> HIDE DEF new
<1>3. \A i \in 1 .. n - 1 : i \in 1 .. n /\ i + 1 \in 1 .. n
  BY <1>2
<1>4. 1 \in 1 .. n - 1 /\ n - 1 \in 1 .. n - 1 /\ n \in 1 .. n /\ n - 1 <= n /\ n - 1 + 1 = n
  BY <1>2
<1>5. /\ \A i \in 1 .. n - 1 :
           new[i].f \in FrameNames /\ new[i].base \in Nat /\ new[i].work \in Seq(Items)
      /\ \A k \in 1 .. Len(new[1].work) : new[1].work[k] \in Root
  BY <1>2, <1>3, <1>4 DEF Blocks
<1>6. /\ n - 1 >= 2 => new[2].f = "toplevel"
      /\ \A i \in 2 .. n - 1 : new[i].f # "program"
      /\ \A i, j \in 1 .. n - 1 : i <= j => new[i].base <= new[j].base
  BY <1>2, <1>3 DEF Blocks
<1>7. ASSUME NEW i \in 1 .. n - 1 - 1 PROVE Planned(new[i].work, new[i].base, new[i + 1].base)
  <2>1. i \in 1 .. n - 1 /\ i + 1 \in 1 .. n - 1
    BY <1>2
  <2> QED
    BY <1>2, <2>1 DEF Blocks
<1>8. Blocks(new)
  BY <1>2, <1>5, <1>6, <1>7 DEF Blocks
<1>9. Planned(fr[n - 1].work, fr[n - 1].base, fr[n].base) /\ fr[n - 1].base <= fr[n].base
  BY <1>3, <1>4 DEF Blocks
<1> QED
  BY <1>2, <1>4, <1>8, <1>9 DEF new
===============================================================================
