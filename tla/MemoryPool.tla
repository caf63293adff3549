----------------------------- MODULE MemoryPool -----------------------------
(***************************************************************************)
(* The memory pools of the server (Memory.cpp).  A block starts with a     *)
(* header that holds the size of the allocation, 0 while the block lies in *)
(* a pool; Allocate and Deallocate find the pool by that size.  The lists  *)
(* are interlocked: an entry is pushed or popped in one step, the header   *)
(* is written in another.  m_nAlloc is left out: nobody reads it.          *)
(***************************************************************************)
EXTENDS Integers, Sequences, FiniteSets

CONSTANTS
  Threads,  \* threads that allocate
  Blocks,   \* blocks the heap can hold at once
  NoBlock

ASSUME BlockAssumption == NoBlock \notin Blocks

VARIABLES
  capacity,     \* bytes of each block, 0 for one the heap has not given out
  m_allocSize,  \* what its header says
  m_pHeader,    \* the free blocks of each pool, last pushed first
  at,           \* where each thread is in Allocate or Deallocate
  held,         \* the block it has there
  real          \* and the size with the header

memoryVars == <<capacity, m_allocSize, m_pHeader, at, held, real>>

MAX_ALLOC_SIZE == 4096
HeaderSize == 32  \* sizeof(MemoryHeader), an SLIST_ENTRY and a long

\* The sizes of the pools, from the three loops of the constructor.
PoolSizes ==
  {32 * k : k \in 1 .. 31}
  \cup {1024 + 128 * k : k \in 0 .. 7}
  \cup {2048 + 256 * k : k \in 0 .. 7}

\* The pool of a size: each pool takes the sizes above the previous one's, up
\* to its own.  Above the last pool the table keeps its null pointers.
m_memoryPoolTable(size) ==
  IF \E p \in PoolSizes : size <= p
  THEN CHOOSE p \in PoolSizes :
         size <= p /\ \A q \in PoolSizes : size <= q => p <= q
  ELSE 0

MemoryInit ==
  /\ capacity = [b \in Blocks |-> 0]
  /\ m_allocSize = [b \in Blocks |-> 0]
  /\ m_pHeader = [p \in PoolSizes |-> <<>>]
  /\ at = [t \in Threads |-> "idle"]
  /\ held = [t \in Threads |-> NoBlock]
  /\ real = [t \in Threads |-> 0]

Step(t, here, next) == at[t] = here /\ at' = [at EXCEPT ![t] = next]

\* _aligned_malloc: the header is not written yet.
Malloc(t, size) ==
  \E b \in Blocks :
    /\ capacity[b] = 0
    /\ capacity' = [capacity EXCEPT ![b] = size]
    /\ held' = [held EXCEPT ![t] = b]

\* Allocate, up to the block: a big one from the heap, the others from their
\* pool, or from the heap while that is empty.
Allocate(t, size) ==
  LET all == size + HeaderSize
      p == m_memoryPoolTable(all)
  IN /\ Step(t, "idle", "attach")
     /\ real' = [real EXCEPT ![t] = all]
     /\ IF all > MAX_ALLOC_SIZE
        THEN Malloc(t, all) /\ UNCHANGED m_pHeader
        ELSE IF m_pHeader[p] = <<>>
        THEN Malloc(t, p) /\ UNCHANGED m_pHeader
        ELSE /\ held' = [held EXCEPT ![t] = Head(m_pHeader[p])]
             /\ m_pHeader' = [m_pHeader EXCEPT ![p] = Tail(@)]
             /\ UNCHANGED capacity
     /\ UNCHANGED m_allocSize

\* A mutant: the size without the header is written.
AttachMemoryHeader_SizeOnly(t) ==
  /\ Step(t, "attach", "own")
  /\ m_allocSize' = [m_allocSize EXCEPT ![held[t]] = real[t] - HeaderSize]
  /\ UNCHANGED <<capacity, m_pHeader, held, real>>

\* The header is written, the caller has the block.
AttachMemoryHeader(t) ==
  /\ Step(t, "attach", "own")
  /\ m_allocSize' = [m_allocSize EXCEPT ![held[t]] = real[t]]
  /\ UNCHANGED <<capacity, m_pHeader, held, real>>

\* Deallocate of block b, up to the pool: the header tells which, and Push
\* resets it.
Deallocate(t, b) ==
  /\ IF m_allocSize[b] > MAX_ALLOC_SIZE
     THEN /\ capacity' = [capacity EXCEPT ![b] = 0]
          /\ UNCHANGED <<at, held, real>>
     ELSE /\ Step(t, "idle", "push")
          /\ held' = [held EXCEPT ![t] = b]
          /\ real' = [real EXCEPT ![t] = m_allocSize[b]]
          /\ UNCHANGED capacity
  /\ m_allocSize' = [m_allocSize EXCEPT ![b] = 0]
  /\ UNCHANGED m_pHeader

\* InterlockedPushEntrySList.
PushEntry(t) ==
  /\ Step(t, "push", "idle")
  /\ LET p == m_memoryPoolTable(real[t])
     IN m_pHeader' = [m_pHeader EXCEPT ![p] = <<held[t]>> \o @]
  /\ held' = [held EXCEPT ![t] = NoBlock]
  /\ real' = [real EXCEPT ![t] = 0]
  /\ UNCHANGED <<capacity, m_allocSize>>

=============================================================================
