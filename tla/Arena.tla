--------------------------------- MODULE Arena --------------------------------
(***************************************************************************)
(* ArenaAllocator (memory/arena.cpp), from which the parser and the type   *)
(* checker take every node, type and symbol.  allocate bumps a pointer in  *)
(* the last chunk; when the request does not fit it makes a new chunk and  *)
(* calls itself again, so one call may take several steps.                 *)
(***************************************************************************)
EXTENDS Integers, Sequences

CONSTANTS
  ChunkSize,      \* chunk_size of the constructor (8 MB)
  Sizes,          \* sizes that callers ask for (make, allocate_array, make_string)
  Aligns,         \* their alignments
  Addresses,      \* where malloc may place a chunk
  MaxChunks       \* bound: no request is made once there are more chunks

ASSUME ChunkSizeAssumption == ChunkSize \in Nat \ {0} /\ MaxChunks \in Nat
ASSUME RequestsAssumption == Sizes \subseteq Nat \ {0} /\ Aligns \subseteq Nat \ {0}
\* malloc aligns for max_align_t, and no alignof exceeds that.
ASSUME MallocAssumption ==
  Addresses \subseteq Nat /\ \A b \in Addresses, a \in Aligns : b % a = 0

VARIABLES
  m_chunks,       \* <<[data, size, used], ...>>
  m_chunk_size,
  request,        \* the arguments of the allocate call in progress, or None
  blocks          \* blocks returned since the last reset

vars == <<m_chunks, m_chunk_size, request, blocks>>

None == [size |-> 0, align |-> 1]

Last == m_chunks[Len(m_chunks)]

\* Two regions of memory that share no byte.
Apart(x, xsize, y, ysize) == x + xsize <= y \/ y + ysize <= x

\* malloc: an aligned region apart from every other chunk.
Malloc(size) ==
  {b \in Addresses :
     \A k \in 1 .. Len(m_chunks) : Apart(m_chunks[k].data, m_chunks[k].size, b, size)}

NewChunk(b, size) == [data |-> b, size |-> size, used |-> 0]

\* Mutants: a sign slip; no padding.
padding_negative(chunk, align) == ((chunk.data + chunk.used) % align) - align
padding_none(chunk, align) == 0
padding(chunk, align) == (align - ((chunk.data + chunk.used) % align)) % align

\* Mutant: the padding is left out of the test.
Fits_unpadded(chunk, r) == chunk.used + r.size <= chunk.size
Fits(chunk, r) == chunk.used + padding(chunk, r.align) + r.size <= chunk.size

-------------------------------------------------------------------------------
Init ==
  /\ \E b \in Addresses : m_chunks = <<NewChunk(b, ChunkSize)>>
  /\ m_chunk_size = ChunkSize /\ request = None /\ blocks = {}

\* A caller enters allocate(size, align).
Call ==
  /\ request = None /\ Len(m_chunks) <= MaxChunks
  /\ \E s \in Sizes, a \in Aligns : request' = [size |-> s, align |-> a]
  /\ UNCHANGED <<m_chunks, m_chunk_size, blocks>>

GrownChunkSize(size) == IF m_chunk_size >= size THEN m_chunk_size ELSE size

\* Mutant: the chunk is not pushed on m_chunks.
allocate_new_chunk_lost ==
  /\ request # None /\ ~Fits(Last, request)
  /\ m_chunk_size' = GrownChunkSize(request.size)
  /\ UNCHANGED <<m_chunks, request, blocks>>

allocate_new_chunk ==
  /\ request # None /\ ~Fits(Last, request)
  /\ LET size == GrownChunkSize(request.size)
     IN  /\ m_chunk_size' = size
         /\ \E b \in Malloc(size) : m_chunks' = Append(m_chunks, NewChunk(b, size))
  /\ UNCHANGED <<request, blocks>>

\* The request fits: bump the pointer and return.
allocate ==
  /\ request # None /\ Fits(Last, request)
  /\ LET offset == Last.used + padding(Last, request.align)
     IN  /\ m_chunks' = [m_chunks EXCEPT ![Len(m_chunks)].used = offset + request.size]
         /\ blocks' = blocks \cup {[at |-> Last.data + offset, size |-> request.size,
                                    align |-> request.align]}
  /\ request' = None /\ UNCHANGED m_chunk_size

reset ==
  /\ request = None
  /\ m_chunks' = [k \in 1 .. Len(m_chunks) |-> [m_chunks[k] EXCEPT !.used = 0]]
  /\ blocks' = {} /\ UNCHANGED <<m_chunk_size, request>>

Next == Call \/ allocate_new_chunk \/ allocate \/ reset

Spec == Init /\ [][Next]_vars
\* allocate is one thread's recursion: it goes on until it returns.
FairSpec == Spec /\ WF_vars(allocate_new_chunk \/ allocate)

-------------------------------------------------------------------------------
Chunk == [data : Addresses, size : Nat, used : Nat]

\* Every variable has its type.
TypeOK ==
  /\ m_chunks \in Seq(Chunk) /\ m_chunks # <<>>
  /\ m_chunk_size \in Nat
  /\ request \in [size : Sizes, align : Aligns] \cup {None}
  /\ blocks \subseteq [at : Nat, size : Sizes, align : Aligns]

\* No chunk is used beyond its size, and the chunks lie apart.
ChunksApart ==
  /\ \A k \in 1 .. Len(m_chunks) : m_chunks[k].used <= m_chunks[k].size
  /\ \A j, k \in 1 .. Len(m_chunks) :
       j # k => Apart(m_chunks[j].data, m_chunks[j].size, m_chunks[k].data, m_chunks[k].size)

\* Every block that allocate has returned since the last reset lies in the used
\* part of some chunk, whatever paddings and chunk changes came in between.
BlocksInUse ==
  \A b \in blocks : \E k \in 1 .. Len(m_chunks) :
    /\ m_chunks[k].data <= b.at
    /\ b.at + b.size <= m_chunks[k].data + m_chunks[k].used

\* The blocks that are in use never overlap.
BlocksApart ==
  \A x, y \in blocks : x # y => Apart(x.at, x.size, y.at, y.size)

\* The arena never hands out memory that it does not own, or owns twice.
ArenaSafe == ChunksApart /\ BlocksInUse /\ BlocksApart

\* A call of allocate returns: the chunk made for a request that did not fit is
\* large enough for it, so the recursion ends.
AllocateReturns == request # None ~> request = None

\* The arena implements the heap its callers see.
Heap == INSTANCE ArenaHeap WITH blocks <- blocks, Sizes <- Sizes, Aligns <- Aligns
HeapSpec == Heap!HeapSpec
===============================================================================
