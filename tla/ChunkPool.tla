----------------------------- MODULE ChunkPool -----------------------------
(***************************************************************************)
(* np::mmap (src/np_mmap.h, src/np_mmap.cpp), reached through              *)
(* np::global_pool: the chunks every thread allocates from.  A freed chunk *)
(* goes on a lock-free stack; a chunk is taken from that stack if it has   *)
(* one, and otherwise cut from the reserved address range at head_.        *)
(*                                                                         *)
(* A chunk is named by its index, which get_chunk_index and get_chunk_ptr  *)
(* translate to and from its address.  The steps of the stack are those of *)
(* LockFreeStack; this module adds what np::mmap does around them.         *)
(***************************************************************************)
EXTENDS LockFreeStack, Integers, FiniteSets

CONSTANTS
  Builds,       \* the builds: TRUE if it keeps assert(), FALSE with NDEBUG
  ChunkCount,   \* kDefaultChunkCount
  MinCount,     \* the smallest reservation global_pool tries, in chunks
  MaxChunk      \* bound: the last chunk index the model explores

ASSUME ThreadAssumption == IsFiniteSet(Thread)
ASSUME BuildsAssumption == Builds \subseteq BOOLEAN
ASSUME CountAssumption == ChunkCount \in Nat /\ MinCount \in Nat \ {0}
ASSUME ChunkAssumption == MaxChunk \in Nat /\ Node = 0..MaxChunk
ASSUME AddressAssumption == Null \notin 0..(MaxChunk + 1)

VARIABLES
  asserts,      \* which of the Builds this is
  size,         \* size_: the chunks reserved, 0 when nothing was
  top,          \* head_: the first chunk never handed out, Null: no reservation
  stage,        \* what each thread is doing here
  seen,         \* seen[t]: the local `head` of alloc_chunk_from_new
  count,        \* count[t]: the counter of count_free_list
  perf_alloc, perf_dealloc, perf_alloc_from_free,
  \* History variables.
  lost,         \* the chunks whose commit failed: nobody will ever use them
  due           \* due[t]: how long the list was when t's count detached it

counters == <<perf_alloc, perf_dealloc, perf_alloc_from_free>>
mmapVars == <<asserts, size, top, seen, count, counters, lost, due>>
poolVars == <<vars, asserts, size, top, stage, seen, count, counters, lost, due>>

Stages == {"out", "pop", "new", "commit", "push", "count", "aborted"}
InStage(t, s) == stage[t] = s
Enter(t, s) == stage' = [stage EXCEPT ![t] = s]

PoolTypeOK ==
  /\ TypeOK
  /\ asserts \in BOOLEAN
  /\ size \in Nat
  /\ top \in 0..(MaxChunk + 1) \union {Null}
  /\ stage \in [Thread -> Stages]
  /\ seen \in [Thread -> 0..(MaxChunk + 1) \union {Null}]
  /\ count \in [Thread -> Nat]
  /\ due \in [Thread -> Nat]
  /\ perf_alloc \in Nat /\ perf_dealloc \in Nat /\ perf_alloc_from_free \in Nat
  /\ lost \subseteq Node

\* reserve() and the loop of global_pool's constructor around it: the default
\* range, or half of it, a quarter and so on, or nothing.
Reservations ==
  {n \in MinCount..ChunkCount : \E k \in 0..ChunkCount : n = ChunkCount \div (2^k)}

PoolInit ==
  /\ EmptyStack
  /\ held = [t \in Thread |-> {}]
  /\ asserts \in Builds
  /\ size \in Reservations \union {0}
  /\ top = IF size = 0 THEN Null ELSE 0
  /\ stage = [t \in Thread |-> "out"]
  /\ seen = [t \in Thread |-> Null]
  /\ count = [t \in Thread |-> 0]
  /\ due = [t \in Thread |-> 0]
  /\ perf_alloc = 0 /\ perf_dealloc = 0 /\ perf_alloc_from_free = 0
  /\ lost = {}

-----------------------------------------------------------------------------
(* alloc_chunk *)

AllocChunk(t) ==
  /\ InStage(t, "out")
  /\ PopLoad(t)
  /\ Enter(t, "pop")
  /\ UNCHANGED mmapVars

\* The stack had a chunk.
ReuseChunk(t) ==
  /\ InStage(t, "pop")
  /\ At(t, "popped")
  /\ ptr[t] # Null
  /\ Return(t)
  /\ perf_alloc_from_free' = perf_alloc_from_free + 1
  /\ Enter(t, "out")
  /\ UNCHANGED <<asserts, size, top, seen, count, perf_alloc, perf_dealloc, lost, due>>

\* The stack was empty: alloc_chunk_from_new loads head_.
NewChunk(t) ==
  /\ InStage(t, "pop")
  /\ At(t, "popped")
  /\ ptr[t] = Null
  /\ Return(t)
  /\ seen' = [seen EXCEPT ![t] = top]
  /\ Enter(t, "new")
  /\ UNCHANGED <<asserts, size, top, count, counters, lost, due>>

\* Nothing was ever reserved: return nullptr.
NoReservation(t) ==
  /\ InStage(t, "new")
  /\ seen[t] = Null
  /\ Enter(t, "out")
  /\ UNCHANGED <<vars, mmapVars>>

\* Mutant of IndexInRange: only the first of the two.
IndexInRangeOnce(t) == seen[t] <= ChunkCount

\* The assertions of get_chunk_index(head) and get_chunk_ptr(index + 1).
IndexInRange(t) == seen[t] <= ChunkCount /\ seen[t] + 1 <= ChunkCount

AssertFails(t) ==
  /\ InStage(t, "new")
  /\ seen[t] # Null
  /\ asserts /\ ~ IndexInRange(t)
  /\ Enter(t, "aborted")
  /\ UNCHANGED <<vars, mmapVars>>

\* Mutant of NewCas: a plain store instead of the exchange.
NewStore(t) ==
  /\ InStage(t, "new")
  /\ seen[t] \in Node
  /\ asserts => IndexInRange(t)
  /\ top' = seen[t] + 1
  /\ held' = [held EXCEPT ![t] = @ \union {seen[t]}]
  /\ Enter(t, "commit")
  /\ UNCHANGED <<head, next, pc, ptrVars, walking, stack, chain>>
  /\ UNCHANGED <<asserts, size, seen, count, counters, lost, due>>

\* Nothing compares head_ with size_: the range may end before the chunk does.
NewCas(t) ==
  /\ InStage(t, "new")
  /\ seen[t] \in Node
  /\ asserts => IndexInRange(t)
  /\ top = seen[t]
  /\ top' = seen[t] + 1
  /\ held' = [held EXCEPT ![t] = @ \union {seen[t]}]
  /\ Enter(t, "commit")
  /\ UNCHANGED <<head, next, pc, ptrVars, walking, stack, chain>>
  /\ UNCHANGED <<asserts, size, seen, count, counters, lost, due>>

\* compare_exchange_weak fails, because another thread was faster or for no
\* reason, and reloads `head`.
NewCasFails(t) ==
  /\ InStage(t, "new")
  /\ seen[t] # Null
  /\ asserts => IndexInRange(t)
  /\ seen' = [seen EXCEPT ![t] = top]
  /\ UNCHANGED <<vars, asserts, size, top, stage, count, counters, lost, due>>

\* virtual_alloc, inside the reservation or not, makes the chunk writable.
Commit(t) ==
  /\ InStage(t, "commit")
  /\ perf_alloc' = perf_alloc + 1
  /\ Enter(t, "out")
  /\ UNCHANGED <<vars, asserts, size, top, seen, count, perf_dealloc, perf_alloc_from_free, lost, due>>

\* virtual_alloc fails: assert(head), or else perf_alloc counts the chunk all
\* the same and the caller is given a null pointer.
CommitFails(t) ==
  /\ InStage(t, "commit")
  /\ IF asserts
     THEN /\ Enter(t, "aborted")
          /\ UNCHANGED <<held, counters, lost>>
     ELSE /\ held' = [held EXCEPT ![t] = @ \ {seen[t]}]
          /\ lost' = lost \union {seen[t]}
          /\ perf_alloc' = perf_alloc + 1
          /\ Enter(t, "out")
          /\ UNCHANGED <<perf_dealloc, perf_alloc_from_free>>
  /\ UNCHANGED <<head, next, pc, ptrVars, walking, stack, chain>>
  /\ UNCHANGED <<asserts, size, top, seen, count, due>>

-----------------------------------------------------------------------------
(* free_chunk *)

FreeChunk(t, n) ==
  /\ InStage(t, "out")
  /\ PushLoad(t, n)
  /\ Enter(t, "push")
  /\ UNCHANGED mmapVars

\* Mutant of FreedChunk: the counter is forgotten.
FreedChunkUncounted(t) ==
  /\ InStage(t, "push")
  /\ At(t, "pushed")
  /\ Return(t)
  /\ Enter(t, "out")
  /\ UNCHANGED mmapVars

FreedChunk(t) ==
  /\ InStage(t, "push")
  /\ At(t, "pushed")
  /\ Return(t)
  /\ perf_dealloc' = perf_dealloc + 1
  /\ Enter(t, "out")
  /\ UNCHANGED <<asserts, size, top, seen, count, perf_alloc, perf_alloc_from_free, lost, due>>

-----------------------------------------------------------------------------
(* count_free_list, which debug_as_string, and so np_debug_print, calls. *)

CountFreeList(t) ==
  /\ InStage(t, "out")
  /\ EachLoad(t)
  /\ count' = [count EXCEPT ![t] = 0]
  /\ due' = [due EXCEPT ![t] = 0]
  /\ Enter(t, "count")
  /\ UNCHANGED <<asserts, size, top, seen, counters, lost>>

CountDetach(t) ==
  /\ InStage(t, "count")
  /\ EachCas(t)
  /\ due' = [due EXCEPT ![t] = Len(stack)]
  /\ UNCHANGED <<asserts, size, top, stage, seen, count, counters, lost>>

CountVisit(t) ==
  /\ InStage(t, "count")
  /\ EachVisit(t)
  /\ count' = [count EXCEPT ![t] = @ + 1]
  /\ UNCHANGED <<asserts, size, top, stage, seen, counters, lost, due>>

Counted(t) ==
  /\ InStage(t, "count")
  /\ At(t, "visited")
  /\ Return(t)
  /\ Enter(t, "out")
  /\ UNCHANGED mmapVars

-----------------------------------------------------------------------------
\* Every other step of the stack operation under way.
StackStep(t) ==
  /\ stage[t] \in {"pop", "push", "count"}
  /\ PopStep(t) \/ PushStep(t) \/ EachStep(t)
  /\ UNCHANGED <<stage, mmapVars>>

\* The owner of a chunk writes to it: tls_ps_pool keeps a pointer to another
\* of its chunks, or null, where the stack keeps the link.
UseChunk(t, n, v) ==
  /\ InStage(t, "out")
  /\ Overwrite(t, n, v)
  /\ UNCHANGED <<stage, mmapVars>>

Aborted == \E t \in Thread : InStage(t, "aborted")

\* The process has aborted, or every thread has come to a bound.
Stopped ==
  /\ \/ Aborted
     \/ \A t \in Thread :
          \/ InStage(t, "out") /\ head.aba >= MaxTag
          \/ InStage(t, "new") /\ seen[t] \notin Node \union {Null}
  /\ UNCHANGED poolVars

PoolStep(t) ==
  \/ AllocChunk(t) \/ ReuseChunk(t) \/ NewChunk(t) \/ NoReservation(t)
  \/ AssertFails(t) \/ NewCas(t) \/ NewCasFails(t) \/ Commit(t) \/ CommitFails(t)
  \/ FreedChunk(t) \/ CountFreeList(t) \/ CountDetach(t) \/ CountVisit(t) \/ Counted(t)
  \/ StackStep(t)
  \/ \E n \in held[t] : FreeChunk(t, n)
  \/ \E n \in held[t], v \in NodeOrNull : UseChunk(t, n, v)

PoolNext == (~ Aborted /\ \E t \in Thread : PoolStep(t)) \/ Stopped

PoolSpec == PoolInit /\ [][PoolNext]_poolVars

-----------------------------------------------------------------------------
(* Properties *)

Minted == IF top = Null THEN {} ELSE 0..(top - 1)

\* Every chunk ever cut from the range is on the free list, in use by one
\* thread or on its way between the two, or was lost to a failed commit.
ChunksAccountedFor ==
  /\ Placed \union lost = Minted
  /\ Placed \intersect lost = {}

\* What makes it inductive: outside the stack's operations a thread is idle
\* there, a chunk being committed is its owner's, and the assertion bounds head_.
InvStages == \A t \in Thread :
  /\ stage[t] \in {"out", "new", "commit", "aborted"} => At(t, "idle")
  /\ InStage(t, "commit") => seen[t] \in held[t]
TopInRange == asserts /\ top # Null => top <= ChunkCount
PoolInv == IInv /\ PoolTypeOK /\ InvStages /\ ChunksAccountedFor /\ TopInRange

\* With assertions on, and the default range reserved, no thread is ever given
\* a chunk outside the reservation: the assertion in get_chunk_ptr stops the
\* program at the first chunk too many.  np::mmap has no other bound check.
AssertGuardsRange ==
  asserts /\ size = ChunkCount => \A t \in Thread : held[t] \subseteq 0..(size - 1)

\* The counters agree with the lists, up to the operations that have taken
\* effect and have still to be counted.
Uncounted(s, place) == {t \in Thread : InStage(t, s) /\ At(t, place) /\ ptr[t] # Null}
Sum(f) == FoldFunction(+, 0, f)
CountersAgree == ~ Aborted =>
  /\ perf_alloc + Cardinality({t \in Thread : InStage(t, "commit")}) = Cardinality(Minted)
  /\ perf_dealloc + Cardinality(Uncounted("push", "pushed"))
       = perf_alloc_from_free + Cardinality(Uncounted("pop", "popped"))
         + Len(stack) + Sum([t \in Thread |-> Len(chain[t])])

\* count_free_list returns the length the list had when it was detached,
\* whatever is pushed and popped while it pushes the chunks back.
CountIsSnapshot == \A t \in Thread :
  InStage(t, "count") /\ At(t, "visited") => count[t] = due[t]

\* Through every interleaving of pops, pushes, walks and cuts the callers see a
\* supply that gives each chunk to one of them: np::mmap implements ChunkSupply,
\* which is all that TlsPool assumes of it.
Supply == INSTANCE ChunkSupply WITH
  Chunk <- Node,
  fresh <- Node \ Minted,
  spare <- Range(stack) \union UNION {Range(chain[t]) : t \in Thread},
  owned <- held
ImplementsSupply == Supply!Spec

\* What validate_ptr accepts: the chunk lies in the range that was reserved.
InReservation == \A t \in Thread : held[t] \subseteq 0..(size - 1)
=============================================================================
