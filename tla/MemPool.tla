------------------------------ MODULE MemPool ------------------------------
(***************************************************************************)
(* k2::mem_pool (k2/pool_alloc.h), thread-safe: blocks of equal chunks, a  *)
(* list of the free ones threaded through their first words, a spin lock   *)
(* (fast_lock<true>), which is used here as the abstract Lock it           *)
(* implements.  On top of it the shared_pool_allocator: one static pool for *)
(* all allocators of the same parameters, and operator new for whatever is *)
(* larger than a chunk.                                                    *)
(*                                                                         *)
(* A chunk is <<block, index>>.  grow() is one step; the statements of     *)
(* alloc() and dealloc() are steps of their own.                           *)
(***************************************************************************)
EXTENDS Integers, FiniteSets

CONSTANTS
  Threads,
  ChunkCount, ChunkBytes,   \* the template parameters
  MaxBlocks,                \* bound: then operator new throws
  Requests,                 \* how many bytes are asked for at once
  Large,                    \* memory that operator new gives for larger ones
  Null,                     \* the null pointer
  Data                      \* what a user writes over the first word

max_aligment == 1024

(* safe_alignof::constant<ChunkBytes>                                      *)
alignment == ((ChunkBytes + 7) \div 8) * 8

ASSUME CountAssumption == {ChunkCount, ChunkBytes, MaxBlocks} \subseteq Nat \ {0}
ASSUME RequestsAssumption == Requests \subseteq Nat
ASSUME AlignmentAssumption == alignment <= max_aligment   \* K2_STATIC_ASSERT

(* The chunks of a block added by alloc().                                 *)
GrowCount == IF alignment * ChunkCount > max_aligment * 4
             THEN (max_aligment * 4) \div alignment
             ELSE ChunkCount

Chunks == (1 .. MaxBlocks) \X (0 .. ChunkCount - 1)
Links  == Chunks \cup {Null}

ASSUME NamesAssumption == /\ Null \notin Chunks \cup Large
                          /\ Data \notin Links
                          /\ Large \cap Chunks = {}

VARIABLES
  word,       \* word[c]: the first word of chunk c
  blocks,     \* how many blocks were allocated
  live,       \* the blocks allocated and not yet deleted
  m_allocs, m_frees,
  holders,    \* m_lock
  pc, op,     \* where each thread is, and in which operation
  chunk,      \* chunk[t]: pchunk of alloc(), p of dealloc()
  owned,      \* owned[t]: the chunks that thread t was given
  heap,       \* the large memory that is allocated
  phase,      \* in use, in the destructor, destroyed, or out of bounds
  pchunk      \* pchunk of ~mem_pool()

pool == <<word, blocks, live, m_allocs, m_frees>>
thread == <<pc, op, chunk, owned>>
destructor == <<phase, pchunk>>
poolVars == <<pool, holders, thread, heap, destructor>>

m_lock == INSTANCE Lock

(* The chunks that block b is cut into.                                    *)
Cut(b) == {b} \X (0 .. (IF b = 1 THEN ChunkCount ELSE GrowCount) - 1)

(* The list that starts at m_frees, as far as it goes.                     *)
Free[n \in 0 .. Cardinality(Chunks)] ==
  IF n = 0 THEN m_frees
  ELSE IF Free[n - 1] \in Chunks THEN word[Free[n - 1]] ELSE Null

(* Allocators of the same parameters are equal: what one of them was given *)
(* any other may give back.                                                *)
GivenOut == UNION {owned[t] : t \in Threads}

FreeChunks == {Free[n] : n \in DOMAIN Free} \ {Null}

Goto(t, from, to) == pc[t] = from /\ pc' = [pc EXCEPT ![t] = to]

-----------------------------------------------------------------------------
(* The words of block b once its chunks 0 .. n - 1 were deposited in turn. *)
(* The first word of the first chunk held the link to the other blocks;    *)
(* the first deposit overwrites it.                                        *)
Deposited(w, b, n, frees) ==
  [c \in Chunks |-> IF c[1] = b /\ c[2] < n
                    THEN IF c[2] = 0 THEN frees ELSE <<b, c[2] - 1>>
                    ELSE w[c]]

(* mem_pool() has called grow(ChunkCount).                                 *)
PoolInit == /\ word = Deposited([c \in Chunks |-> Data], 1, ChunkCount, Null)
            /\ blocks = 1 /\ live = {1}
            /\ m_allocs = <<1, 0>>
            /\ m_frees = <<1, ChunkCount - 1>>
            /\ m_lock!Init
            /\ pc = [t \in Threads |-> "idle"]
            /\ op = [t \in Threads |-> "none"]
            /\ chunk = [t \in Threads |-> Null]
            /\ owned = [t \in Threads |-> {}]
            /\ heap = {}
            /\ phase = "in_use" /\ pchunk = Null

(* allocate() of what fits into a chunk ...                                *)
CallAlloc(t) ==
  /\ \E bytes \in Requests : bytes <= ChunkBytes
  /\ Goto(t, "idle", "lock")
  /\ op' = [op EXCEPT ![t] = "alloc"]
  /\ UNCHANGED <<pool, holders, chunk, owned, heap, destructor>>

(* ... and of more.                                                        *)
AllocateLarge(t) ==
  /\ \E bytes \in Requests : bytes > ChunkBytes
  /\ pc[t] = "idle"
  /\ \E p \in Large \ heap : /\ heap' = heap \cup {p}
                             /\ owned' = [owned EXCEPT ![t] = @ \cup {p}]
  /\ UNCHANGED <<pool, holders, pc, op, chunk, destructor>>

(* deallocate(): what is large is deleted, and all of it goes to dealloc(). *)
CallDealloc(t) ==
  /\ Goto(t, "idle", "lock")
  /\ op' = [op EXCEPT ![t] = "dealloc"]
  /\ \E c \in GivenOut :
       /\ chunk' = [chunk EXCEPT ![t] = c]
       /\ heap' = heap \ {c}
       /\ owned' = [u \in Threads |-> owned[u] \ {c}]
  /\ UNCHANGED <<pool, holders, destructor>>

(* An owner uses its chunk.                                                *)
Write(t) == /\ \E c \in owned[t] \cap Chunks : word' = [word EXCEPT ![c] = Data]
            /\ UNCHANGED <<blocks, live, m_allocs, m_frees>>
            /\ UNCHANGED <<holders, thread, heap, destructor>>

(* Mutant: dummy_lock.                                                     *)
AcquireNothing(t) == /\ Goto(t, "lock", "inside")
                     /\ UNCHANGED <<pool, holders, op, chunk, owned, heap, destructor>>

Acquire(t) == /\ m_lock!Acquire(t)
              /\ Goto(t, "lock", "inside")
              /\ UNCHANGED <<pool, op, chunk, owned, heap, destructor>>

Release(t) == /\ m_lock!Release(t)
              /\ Goto(t, "unlock", "idle")
              /\ op' = [op EXCEPT ![t] = "none"]
              /\ chunk' = [chunk EXCEPT ![t] = Null]
              /\ UNCHANGED <<pool, owned, heap, destructor>>

(* alloc() finds the list empty and adds a block ...                       *)
Grow(t) ==
  /\ pc[t] = "inside" /\ op[t] = "alloc" /\ m_frees = Null
  /\ blocks < MaxBlocks
  /\ blocks' = blocks + 1
  /\ live' = live \cup {blocks'}
  /\ word' = Deposited(word, blocks', GrowCount, Null)
  /\ m_allocs' = <<blocks', 0>>
  /\ m_frees' = <<blocks', GrowCount - 1>>
  /\ UNCHANGED <<holders, thread, heap, destructor>>

(* ... or operator new throws, and the guard releases the lock.            *)
GrowFails(t) ==
  /\ op[t] = "alloc" /\ m_frees = Null
  /\ blocks = MaxBlocks
  /\ Goto(t, "inside", "unlock")
  /\ UNCHANGED <<pool, holders, op, chunk, owned, heap, destructor>>

(* pchunk = m_frees;                                                       *)
Take(t) == /\ op[t] = "alloc" /\ m_frees # Null
           /\ Goto(t, "inside", "pop")
           /\ chunk' = [chunk EXCEPT ![t] = m_frees]
           /\ UNCHANGED <<pool, holders, op, owned, heap, destructor>>

(* Mutant: the list skips a chunk.                                         *)
PopTwo(t) ==
  /\ m_frees # Null
  /\ Goto(t, "pop", "unlock")
  /\ m_frees' = IF word[m_frees] = Null THEN Null ELSE word[word[m_frees]]
  /\ owned' = [owned EXCEPT ![t] = @ \cup {chunk[t]}]
  /\ UNCHANGED <<word, blocks, live, m_allocs, holders, op, chunk>>
  /\ UNCHANGED <<heap, destructor>>

(* m_frees = m_frees->pnext; return pchunk;                                *)
Pop(t) ==
  /\ m_frees # Null
  /\ Goto(t, "pop", "unlock")
  /\ m_frees' = word[m_frees]
  /\ owned' = [owned EXCEPT ![t] = @ \cup {chunk[t]}]
  /\ UNCHANGED <<word, blocks, live, m_allocs, holders, op, chunk>>
  /\ UNCHANGED <<heap, destructor>>

(* deposit(): pchunk->pnext = m_frees;                                     *)
Link(t) ==
  /\ op[t] = "dealloc" /\ chunk[t] \in Chunks
  /\ Goto(t, "inside", "push")
  /\ word' = [word EXCEPT ![chunk[t]] = m_frees]
  /\ UNCHANGED <<blocks, live, m_allocs, m_frees, holders, op, chunk, owned>>
  /\ UNCHANGED <<heap, destructor>>

(* The same for memory that is deleted: anything may happen from here on.  *)
LinkDeleted(t) ==
  /\ op[t] = "dealloc" /\ chunk[t] \in Large
  /\ pc[t] = "inside"
  /\ phase' = "corrupt"
  /\ UNCHANGED <<pool, holders, thread, heap, pchunk>>

(* m_frees = pchunk;                                                       *)
Push(t) ==
  /\ Goto(t, "push", "unlock")
  /\ m_frees' = chunk[t]
  /\ UNCHANGED <<word, blocks, live, m_allocs, holders, op, chunk, owned>>
  /\ UNCHANGED <<heap, destructor>>

Allocator(t) == CallAlloc(t) \/ AllocateLarge(t) \/ CallDealloc(t)

Operation(t) ==
  /\ phase = "in_use"
  /\ \/ Allocator(t) \/ Write(t) \/ Acquire(t) \/ Release(t)
     \/ Grow(t) \/ GrowFails(t) \/ Take(t) \/ Pop(t)
     \/ Link(t) \/ LinkDeleted(t) \/ Push(t)

(* ~mem_pool() starts, when every chunk was given back.                    *)
Destroy == /\ phase = "in_use"
           /\ \A t \in Threads : pc[t] = "idle" /\ owned[t] = {}
           /\ phase' = "destroying"
           /\ pchunk' = m_allocs
           /\ UNCHANGED <<pool, holders, thread, heap>>

(* pnext = pchunk->pnext; delete [] pchunk; pchunk = pnext;  What is not   *)
(* the start of a live block is not what operator new returned.            *)
DeleteBlock ==
  /\ phase = "destroying"
  /\ IF pchunk = Null
     THEN phase' = "destroyed" /\ UNCHANGED <<pchunk, live>>
     ELSE IF pchunk \in live \X {0}
          THEN /\ live' = live \ {pchunk[1]}
               /\ pchunk' = word[pchunk]
               /\ UNCHANGED phase
          ELSE phase' = "corrupt" /\ UNCHANGED <<pchunk, live>>
  /\ UNCHANGED <<word, blocks, m_allocs, m_frees, holders, thread, heap>>

Over == phase \in {"destroyed", "corrupt"} /\ UNCHANGED poolVars

PoolNext == (\E t \in Threads : Operation(t)) \/ Destroy \/ DeleteBlock \/ Over

PoolSpec == PoolInit /\ [][PoolNext]_poolVars

-----------------------------------------------------------------------------
PoolTypeOK == /\ word \in [Chunks -> Links \cup {Data}]
              /\ blocks \in 1 .. MaxBlocks /\ live \subseteq 1 .. MaxBlocks
              /\ m_allocs \in Links /\ m_frees \in Links
              /\ holders \subseteq Threads
              /\ pc \in [Threads -> {"idle", "lock", "inside", "pop", "push", "unlock"}]
              /\ op \in [Threads -> {"none", "alloc", "dealloc"}]
              /\ chunk \in [Threads -> Links \cup Large]
              /\ owned \in [Threads -> SUBSET (Chunks \cup Large)]
              /\ heap \subseteq Large
              /\ phase \in {"in_use", "destroying", "destroyed", "corrupt"}
              /\ pchunk \in Links \cup {Data}

(* No chunk is given to two owners, and none that has an owner is still on *)
(* the free list, where a write of its owner would break the list.         *)
HandedOutOnce ==
  /\ \A t, u \in Threads : t # u => owned[t] \cap owned[u] = {}
  /\ holders = {} => \A t \in Threads : owned[t] \cap FreeChunks = {}

(* Between operations every chunk of every block is on the free list, has  *)
(* an owner, or is waiting for the lock in dealloc(): none is lost, and    *)
(* the list ends.  It says nothing any more once a larger piece was given  *)
(* back, when deposit() has written to deleted memory.                     *)
Conserved ==
  holders = {} /\ phase = "in_use" =>
    LET waiting == {chunk[t] : t \in {u \in Threads : op[u] = "dealloc"}}
    IN /\ FreeChunks \cup ((GivenOut \cup waiting) \ Large)
            = UNION {Cut(b) : b \in live}
       /\ \E n \in DOMAIN Free : Free[n] = Null
=============================================================================
