------------------------------ MODULE ArenaProofs -----------------------------
(***************************************************************************)
(* The arena is safe for every chunk size, every set of requests and every *)
(* placement by malloc, and implements ArenaHeap.                          *)
(***************************************************************************)
EXTENDS Arena, TLAPS

\* Leaves that name no prover go to the SMT solver.
USE SMTT(60)

\* A remainder lies below its modulus.
LEMMA ModRange ==
  ASSUME NEW x \in Int, NEW a \in Nat \ {0}
  PROVE  x % a \in 0 .. a - 1
OBVIOUS

\* A multiple of the modulus leaves no remainder.
LEMMA ModMultiple ==
  ASSUME NEW k \in Nat, NEW a \in Nat \ {0}
  PROVE  (k * a) % a = 0
OBVIOUS

\* Division with remainder.
LEMMA DivMod ==
  ASSUME NEW x \in Nat, NEW a \in Nat \ {0}
  PROVE  \E q \in Nat : x = q * a + (x % a)
OBVIOUS

\* The padding is never negative and takes an address to a multiple of align.
LEMMA PaddingAligns ==
  ASSUME NEW chunk, chunk.data \in Nat, chunk.used \in Nat, NEW a \in Nat \ {0}
  PROVE  /\ padding(chunk, a) \in Nat
         /\ (chunk.data + chunk.used + padding(chunk, a)) % a = 0
<1> DEFINE x == chunk.data + chunk.used
           r == x % a
           p == (a - r) % a
<1>1. x \in Nat
  OBVIOUS
<1> HIDE DEF x
<1>2. r \in 0 .. a - 1 /\ p \in 0 .. a - 1
  BY <1>1, ModRange
<1>3. PICK q \in Nat : x = q * a + r
  BY <1>1, DivMod, Zenon
<1>4. (x + p) % a = 0
  <2>1. CASE r = 0
    BY <1>3, <2>1, ModMultiple
  <2>2. CASE r # 0
    <3>1. p = a - r
      BY <1>2, <2>2
    <3>2. x + p = (q + 1) * a
      BY <1>2, <1>3, <3>1
    <3> QED
      BY <1>2, <3>2, ModMultiple
  <2> QED
    BY <2>1, <2>2
<1>5. padding(chunk, a) = p
  BY DEF padding, x
<1>6. chunk.data + chunk.used + p = x + p
  BY DEF x
<1> QED
  BY <1>2, <1>4, <1>5, <1>6

-------------------------------------------------------------------------------
IInv == TypeOK /\ ArenaSafe

\* The constructor establishes the invariant.
LEMMA InitInv == Init => IInv
BY ChunkSizeAssumption, MallocAssumption
   DEF Init, IInv, TypeOK, ArenaSafe, ChunksApart, BlocksInUse, BlocksApart, Chunk, NewChunk,
       None

\* A new chunk leaves every block where it was and lies apart from the others.
LEMMA NewChunkInv == IInv /\ allocate_new_chunk => IInv'
<1> SUFFICES ASSUME IInv, allocate_new_chunk PROVE IInv'
  OBVIOUS
<1> DEFINE size == GrownChunkSize(request.size)
           n == Len(m_chunks)
<1>1. size \in Nat
  BY RequestsAssumption DEF IInv, TypeOK, GrownChunkSize, allocate_new_chunk
<1>2. PICK b \in Malloc(size) : m_chunks' = Append(m_chunks, NewChunk(b, size))
  BY DEF allocate_new_chunk
<1>3. m_chunk_size' = size /\ request' = request /\ blocks' = blocks
  BY DEF allocate_new_chunk
<1> HIDE DEF size
<1>4. NewChunk(b, size) \in Chunk /\ b \in Nat
  BY <1>1, <1>2, MallocAssumption DEF Malloc, Chunk, NewChunk
<1>5. m_chunks \in Seq(Chunk) /\ n \in Nat
  BY DEF IInv, TypeOK
<1>6. /\ Len(m_chunks') = n + 1
      /\ \A k \in 1 .. n : m_chunks'[k] = m_chunks[k]
      /\ m_chunks'[n + 1] = NewChunk(b, size)
  BY <1>2, <1>4, <1>5
<1>7. TypeOK'
  BY <1>1, <1>2, <1>3, <1>4 DEF IInv, TypeOK
<1>8. \A k \in 1 .. n : m_chunks[k] \in Chunk
  BY <1>5
<1>9. ChunksApart'
  <2>1. \A k \in 1 .. n + 1 : m_chunks'[k].used <= m_chunks'[k].size
    BY <1>1, <1>4, <1>5, <1>6 DEF IInv, ArenaSafe, ChunksApart, NewChunk
  <2>2. ASSUME NEW j \in 1 .. n + 1, NEW k \in 1 .. n + 1, j # k
        PROVE  Apart(m_chunks'[j].data, m_chunks'[j].size, m_chunks'[k].data, m_chunks'[k].size)
    <3>1. CASE j \in 1 .. n /\ k \in 1 .. n
      BY <1>6, <2>2, <3>1 DEF IInv, ArenaSafe, ChunksApart
    <3>2. ASSUME NEW i \in 1 .. n
          PROVE  Apart(m_chunks[i].data, m_chunks[i].size, b, size)
      BY <1>2 DEF Malloc
    <3>3. CASE j = n + 1 /\ k \in 1 .. n
      BY <1>6, <3>2, <3>3 DEF Apart, NewChunk
    <3>4. CASE k = n + 1 /\ j \in 1 .. n
      BY <1>6, <3>2, <3>4 DEF Apart, NewChunk
    <3> QED
      BY <1>5, <2>2, <3>1, <3>3, <3>4
  <2> QED
    BY <1>6, <2>1, <2>2 DEF ChunksApart
<1>10. BlocksInUse'
  BY <1>3, <1>5, <1>6 DEF IInv, ArenaSafe, BlocksInUse
<1>11. BlocksApart'
  BY <1>3 DEF IInv, ArenaSafe, BlocksApart
<1> QED
  BY <1>7, <1>9, <1>10, <1>11 DEF IInv, ArenaSafe

\* The block that allocate returns: it is aligned, lies in the last chunk behind
\* everything that is in use there, and so apart from every block handed out.
LEMMA NewBlock ==
  ASSUME IInv, request # None, Fits(Last, request),
         NEW b, b = [at |-> Last.data + (Last.used + padding(Last, request.align)),
                     size |-> request.size, align |-> request.align]
  PROVE  /\ b \in [at : Nat, size : Sizes, align : Aligns]
         /\ b.at % b.align = 0
         /\ Last.data + Last.used <= b.at
         /\ b.at + b.size <= Last.data + Last.size
         /\ \A x \in blocks : Apart(x.at, x.size, b.at, b.size)
<1> DEFINE n == Len(m_chunks)
           p == padding(Last, request.align)
<1>1. /\ request \in [size : Sizes, align : Aligns]
      /\ request.size \in Nat /\ request.align \in Nat \ {0}
  BY RequestsAssumption, Zenon DEF IInv, TypeOK
<1>2. n \in Nat /\ n \in 1 .. n /\ \A k \in 1 .. n : m_chunks[k] \in Chunk
  BY DEF IInv, TypeOK
<1>3. /\ \A k \in 1 .. n : /\ m_chunks[k].data \in Nat
                           /\ m_chunks[k].size \in Nat
                           /\ m_chunks[k].used \in Nat
      /\ Last = m_chunks[n]
  BY <1>2, MallocAssumption, Zenon DEF Chunk, Last
<1>4. Last.data \in Nat /\ Last.used \in Nat /\ Last.size \in Nat
  BY <1>2, <1>3
<1>5. p \in Nat /\ (Last.data + Last.used + p) % request.align = 0
  BY <1>1, <1>4, PaddingAligns
<1>6. Last.used + p + request.size <= Last.size
  BY DEF Fits
<1> HIDE DEF p
<1>7. b = [at |-> Last.data + (Last.used + p), size |-> request.size, align |-> request.align]
  BY DEF p
<1>8. /\ b.at = Last.data + Last.used + p /\ b.at \in Nat
      /\ b.size = request.size /\ b.align = request.align
  BY <1>4, <1>5, <1>7
<1>9. b \in [at : Nat, size : Sizes, align : Aligns]
  BY <1>1, <1>4, <1>5, <1>7
<1>10. Last.data + Last.used <= b.at /\ b.at + b.size <= Last.data + Last.size
  BY <1>1, <1>4, <1>5, <1>6, <1>8
<1>11. ASSUME NEW x \in blocks
       PROVE  Apart(x.at, x.size, b.at, b.size)
  <2>1. PICK k \in 1 .. n : /\ m_chunks[k].data <= x.at
                            /\ x.at + x.size <= m_chunks[k].data + m_chunks[k].used
    BY DEF IInv, ArenaSafe, BlocksInUse
  <2>2. x.at \in Nat /\ x.size \in Nat
    BY RequestsAssumption, Zenon DEF IInv, TypeOK
  <2>3. CASE k = n
    BY <1>3, <1>4, <1>8, <1>10, <2>1, <2>2, <2>3 DEF Apart
  <2>4. CASE k # n
    <3>1. Apart(m_chunks[k].data, m_chunks[k].size, Last.data, Last.size)
      BY <1>2, <1>3, <2>4 DEF IInv, ArenaSafe, ChunksApart
    <3>2. m_chunks[k].used <= m_chunks[k].size
      BY DEF IInv, ArenaSafe, ChunksApart
    <3>3. /\ m_chunks[k].data \in Nat /\ m_chunks[k].size \in Nat /\ m_chunks[k].used \in Nat
          /\ b.size \in Nat /\ b.at \in Nat
      BY <1>1, <1>3, <1>8
    <3>4. Last.data <= b.at
      BY <1>4, <1>10, <3>3
    <3>5. x.at + x.size <= m_chunks[k].data + m_chunks[k].size
      BY <2>1, <2>2, <3>2, <3>3
    <3>6. x.at + x.size <= b.at \/ b.at + b.size <= x.at
      <4>1. CASE m_chunks[k].data + m_chunks[k].size <= Last.data
        <5>1. x.at + x.size <= Last.data
          BY ONLY <1>4, <2>2, <3>3, <3>5, <4>1, SMTT(60)
        <5> QED
          BY ONLY <1>4, <2>2, <3>3, <3>4, <5>1, SMTT(60)
      <4>2. CASE Last.data + Last.size <= m_chunks[k].data
        <5>1. b.at + b.size <= m_chunks[k].data
          BY ONLY <1>4, <1>10, <3>3, <4>2, SMTT(60)
        <5> QED
          BY ONLY <2>1, <2>2, <3>3, <5>1, SMTT(60)
      <4> QED
        BY <3>1, <4>1, <4>2 DEF Apart
    <3> QED
      BY <3>6 DEF Apart
  <2> QED
    BY <2>3, <2>4
<1> QED
  BY <1>5, <1>8, <1>9, <1>10, <1>11

\* Handing out a block keeps the arena safe.
LEMMA AllocateInv == IInv /\ allocate => IInv'
<1> SUFFICES ASSUME IInv, allocate PROVE IInv'
  OBVIOUS
<1> DEFINE n == Len(m_chunks)
           offset == Last.used + padding(Last, request.align)
           b == [at |-> Last.data + offset, size |-> request.size, align |-> request.align]
           used == offset + request.size
<1>1. /\ b \in [at : Nat, size : Sizes, align : Aligns]
      /\ b.at % b.align = 0
      /\ Last.data + Last.used <= b.at
      /\ b.at + b.size <= Last.data + Last.size
      /\ \A x \in blocks : Apart(x.at, x.size, b.at, b.size)
  BY NewBlock, Zenon DEF allocate
<1>2. /\ m_chunks' = [m_chunks EXCEPT ![n].used = used]
      /\ blocks' = blocks \cup {b} /\ request' = None /\ m_chunk_size' = m_chunk_size
  BY DEF allocate
<1>3. n \in Nat /\ n \in 1 .. n /\ \A k \in 1 .. n : m_chunks[k] \in Chunk
  BY DEF IInv, TypeOK
<1>4. Last = m_chunks[n] /\ Last.data \in Nat /\ Last.used \in Nat /\ Last.size \in Nat
  BY <1>3, MallocAssumption, Zenon DEF Chunk, Last
<1>5. /\ padding(Last, request.align) \in Nat /\ request.size \in Nat
      /\ used <= Last.size
  BY <1>4, PaddingAligns, RequestsAssumption DEF IInv, TypeOK, allocate, Fits
<1>6. used \in Nat /\ Last.used <= used /\ b.at + b.size = Last.data + used
  BY <1>4, <1>5
<1> HIDE DEF used, b
<1>7. /\ Len(m_chunks') = n
      /\ m_chunks'[n] = [m_chunks[n] EXCEPT !.used = used]
      /\ \A k \in 1 .. n : k # n => m_chunks'[k] = m_chunks[k]
      /\ m_chunks' \in Seq(Chunk)
  <2> DEFINE last == [m_chunks[n] EXCEPT !.used = used]
  <2>1. m_chunks' = [m_chunks EXCEPT ![n] = last]
    BY <1>2
  <2>2. last \in Chunk
    BY <1>3, <1>6 DEF Chunk
  <2>3. m_chunks \in Seq(Chunk)
    BY DEF IInv, TypeOK
  <2> HIDE DEF last
  <2>4. /\ Len(m_chunks') = n /\ m_chunks' \in Seq(Chunk) /\ m_chunks'[n] = last
        /\ \A k \in 1 .. n : k # n => m_chunks'[k] = m_chunks[k]
    BY <1>3, <2>1, <2>2, <2>3
  <2> QED
    BY <2>4 DEF last
<1>8. /\ \A k \in 1 .. n : /\ m_chunks'[k].data = m_chunks[k].data
                           /\ m_chunks'[k].size = m_chunks[k].size
      /\ m_chunks'[n].used = used
  BY <1>3, <1>7 DEF Chunk
<1>9. TypeOK'
  BY <1>1, <1>2, <1>3, <1>7 DEF IInv, TypeOK
<1>10. ChunksApart'
  BY <1>3, <1>4, <1>5, <1>7, <1>8, Zenon DEF IInv, ArenaSafe, ChunksApart
<1>11. BlocksInUse'
  <2>1. ASSUME NEW x \in blocks
        PROVE  \E k \in 1 .. n : /\ m_chunks'[k].data <= x.at
                                 /\ x.at + x.size <= m_chunks'[k].data + m_chunks'[k].used
    <3>1. PICK k \in 1 .. n : /\ m_chunks[k].data <= x.at
                              /\ x.at + x.size <= m_chunks[k].data + m_chunks[k].used
      BY DEF IInv, ArenaSafe, BlocksInUse
    <3>2. x.at \in Nat /\ x.size \in Nat
      BY RequestsAssumption, Zenon DEF IInv, TypeOK
    <3>3. CASE k = n
      BY <1>3, <1>4, <1>6, <1>8, <3>1, <3>2, <3>3
    <3>4. CASE k # n
      BY <1>7, <3>1, <3>4
    <3> QED
      BY <3>3, <3>4
  <2>2. m_chunks'[n].data <= b.at /\ b.at + b.size <= m_chunks'[n].data + m_chunks'[n].used
    BY <1>1, <1>3, <1>4, <1>6, <1>8
  <2> QED
    BY <1>2, <1>3, <1>7, <2>1, <2>2 DEF BlocksInUse
<1>12. BlocksApart'
  <2>1. \A x \in blocks : Apart(x.at, x.size, b.at, b.size) /\ Apart(b.at, b.size, x.at, x.size)
    BY <1>1 DEF Apart
  <2> QED
    BY <1>2, <2>1 DEF IInv, ArenaSafe, BlocksApart
<1> QED
  BY <1>9, <1>10, <1>11, <1>12 DEF IInv, ArenaSafe

\* reset takes every block back and empties the chunks, which stay where they are.
LEMMA ResetInv == IInv /\ reset => IInv'
<1> SUFFICES ASSUME IInv, reset PROVE IInv'
  OBVIOUS
<1> DEFINE n == Len(m_chunks)
<1>1. /\ m_chunks' = [k \in 1 .. n |-> [m_chunks[k] EXCEPT !.used = 0]]
      /\ blocks' = {} /\ request' = request /\ m_chunk_size' = m_chunk_size
  BY DEF reset
<1>2. n \in Nat /\ n # 0 /\ \A k \in 1 .. n : m_chunks[k] \in Chunk
  BY DEF IInv, TypeOK
<1>3. \A k \in 1 .. n : [m_chunks[k] EXCEPT !.used = 0] \in Chunk
  BY <1>2 DEF Chunk
<1>4. m_chunks' \in Seq(Chunk) /\ Len(m_chunks') = n
  BY <1>1, <1>2, <1>3
<1>5. \A k \in 1 .. n : /\ m_chunks'[k].data = m_chunks[k].data
                        /\ m_chunks'[k].size = m_chunks[k].size
                        /\ m_chunks'[k].used = 0
  BY <1>1, <1>2 DEF Chunk
<1>6. TypeOK'
  BY <1>1, <1>2, <1>4 DEF IInv, TypeOK
<1>7. ChunksApart'
  <2>1. \A k \in 1 .. n : m_chunks[k].size \in Nat
    BY <1>2 DEF Chunk
  <2>2. \A k \in 1 .. n : m_chunks'[k].used <= m_chunks'[k].size
    BY <1>5, <2>1
  <2>3. \A j, k \in 1 .. n : j # k => Apart(m_chunks'[j].data, m_chunks'[j].size,
                                           m_chunks'[k].data, m_chunks'[k].size)
    BY <1>5 DEF IInv, ArenaSafe, ChunksApart
  <2> QED
    BY <1>4, <2>2, <2>3 DEF ChunksApart
<1>8. BlocksInUse' /\ BlocksApart'
  BY <1>1 DEF BlocksInUse, BlocksApart
<1> QED
  BY <1>6, <1>7, <1>8 DEF IInv, ArenaSafe

\* Every step of the arena keeps the invariant.
LEMMA NextInv == IInv /\ [Next]_vars => IInv'
<1> SUFFICES ASSUME IInv, [Next]_vars PROVE IInv'
  OBVIOUS
<1>1. CASE Call
  BY <1>1 DEF Call, IInv, TypeOK, ArenaSafe, ChunksApart, BlocksInUse, BlocksApart
<1>2. CASE UNCHANGED vars
  BY <1>2 DEF vars, IInv, TypeOK, ArenaSafe, ChunksApart, BlocksInUse, BlocksApart
<1> QED
  BY <1>1, <1>2, NewChunkInv, AllocateInv, ResetInv DEF Next

\* Every variable keeps its type, whatever the requests are.
THEOREM TypeCorrect == Spec => []TypeOK
<1>1. IInv => TypeOK
  BY DEF IInv
<1> QED
  BY <1>1, InitInv, NextInv, PTL DEF Spec

\* The arena is safe: blocks lie within the chunks that malloc returned and never
\* overlap, for all chunk sizes, requests and addresses.
THEOREM Safe == Spec => []ArenaSafe
<1>1. IInv => ArenaSafe
  BY DEF IInv
<1> QED
  BY <1>1, InitInv, NextInv, PTL DEF Spec

\* A step of the arena is a step of the heap, or one that its callers do not see.
LEMMA StepRefines == IInv /\ [Next]_vars => [Heap!HandOut \/ Heap!GiveBack]_blocks
<1> SUFFICES ASSUME IInv, [Next]_vars PROVE [Heap!HandOut \/ Heap!GiveBack]_blocks
  OBVIOUS
<1>1. CASE allocate
  <2> DEFINE b == [at |-> Last.data + (Last.used + padding(Last, request.align)),
                   size |-> request.size, align |-> request.align]
  <2>1. /\ b \in [at : Nat, size : Sizes, align : Aligns]
        /\ b.at % b.align = 0
        /\ Last.data + Last.used <= b.at
        /\ b.at + b.size <= Last.data + Last.size
        /\ \A x \in blocks : Apart(x.at, x.size, b.at, b.size)
    BY <1>1, NewBlock, Zenon DEF allocate
  <2>2. blocks' = blocks \cup {b}
    BY <1>1 DEF allocate
  <2> HIDE DEF b
  <2>3. b \in blocks' /\ b.size \in Sizes /\ b.align \in Aligns
    BY <2>1, <2>2
  <2>4. \A x \in blocks : Heap!Apart(x, b)
    BY <2>1 DEF Apart, Heap!Apart
  <2> QED
    BY <2>1, <2>2, <2>3, <2>4 DEF Heap!HandOut
<1>2. CASE reset
  BY <1>2 DEF reset, Heap!GiveBack
<1>3. CASE Call \/ allocate_new_chunk \/ UNCHANGED vars
  BY <1>3 DEF Call, allocate_new_chunk, vars
<1> QED
  BY <1>1, <1>2, <1>3 DEF Next

\* The bump allocator implements the heap its callers see: every block handed out
\* is aligned and apart from those in use, and only reset takes blocks back.
THEOREM Refines == Spec => HeapSpec
<1>1. Init => blocks = {}
  BY DEF Init
<1> QED
  BY <1>1, InitInv, NextInv, StepRefines, PTL DEF Spec, HeapSpec, Heap!HeapSpec
===============================================================================
