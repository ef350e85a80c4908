------------------------- MODULE ChunkPool_proofs --------------------------
(***************************************************************************)
(* Proofs about ChunkPool, for any number of threads and chunks, with or   *)
(* without assertions, whatever was reserved.  The steps of the stack are  *)
(* not proved again: their lemmas are those of LockFreeStack_proofs.       *)
(***************************************************************************)
EXTENDS ChunkPool, LockFreeStack_proofs, ListsAndSums

-----------------------------------------------------------------------------
(* What a step of the stack does for the pool. *)

\* A thread's step in the stack moves neither the other threads nor what they
\* own, keeps the stack's invariant, and neither gains nor loses a chunk.
StackMoved(t) ==
  /\ IInv'
  /\ Placed' = Placed
  /\ \A u \in Thread \ {t} : pc'[u] = pc[u] /\ held'[u] = held[u]

LEMMA StackMoves ==
  ASSUME IInv, NEW t \in Thread, Start(t) \/ Step(t) \/ Return(t)
  PROVE  StackMoved(t)
<1>1. IInv'
  BY StartStep, StepStep, ReturnStep
<1>2. [Atomic!Next]_(Atomic!vars)
  BY StepSimulates DEF Atomic!Next, Atomic!vars, history
<1>3. Placed' = Placed
  BY <1>2, PlacedStep
<1>4. /\ pc \in [Thread -> Pcs] /\ held \in [Thread -> SUBSET Node]
  BY DEF IInv, TypeOK
<1>5. \A u \in Thread \ {t} : pc'[u] = pc[u]
  BY <1>4 DEF Start, Step, PopStep, PushStep, EachStep, PopLoad, PopEmpty, PopRead, PopCas,
     PopCasFails, PushLoad, PushLink, PushCas, PushCasFails, EachLoad, EachEmpty, EachCas,
     EachCasFails, EachVisit, EachAdvance, EachDone, Return, CasFails, Goto
<1>6. \A u \in Thread \ {t} : held'[u] = held[u]
  BY <1>4 DEF Start, Step, PopStep, PushStep, EachStep, PopLoad, PopEmpty, PopRead, PopCas,
     PopCasFails, PushLoad, PushLink, PushCas, PushCasFails, EachLoad, EachEmpty, EachCas,
     EachCasFails, EachVisit, EachAdvance, EachDone, Return, CasFails, history
<1>7. QED
  BY <1>1, <1>3, <1>5, <1>6 DEF StackMoved

\* The parts of the invariant that the stack's step leaves to the caller.
LEMMA PoolMoves ==
  ASSUME PoolInv, NEW t \in Thread, StackMoved(t), PoolTypeOK',
         UNCHANGED <<asserts, size, top, lost>>,
         \A u \in Thread \ {t} : stage'[u] = stage[u] /\ seen'[u] = seen[u],
         stage'[t] \in {"out", "new"} => pc'[t] = "idle",
         stage'[t] \notin {"commit", "aborted"}
  PROVE  PoolInv'
<1>1. IInv' /\ Placed' = Placed
  BY DEF StackMoved
<1>2. ChunksAccountedFor'
  BY <1>1 DEF PoolInv, ChunksAccountedFor, Minted
<1>3. InvStages'
  BY DEF PoolInv, InvStages, InStage, At, StackMoved
<1>4. TopInRange'
  BY DEF PoolInv, TopInRange
<1>5. QED
  BY <1>1, <1>2, <1>3, <1>4 DEF PoolInv

-----------------------------------------------------------------------------
(* Every step preserves the invariant. *)

LEMMA AllocChunkStep ==
  ASSUME PoolInv, NEW t \in Thread, AllocChunk(t)
  PROVE  PoolInv'
<1> USE DEF AllocChunk, Enter, InStage, mmapVars, counters
<1>1. StackMoved(t)
  BY StackMoves DEF PoolInv, Start
<1>2. PoolTypeOK'
  BY <1>1 DEF StackMoved, IInv, PoolInv, PoolTypeOK, Stages
<1>3. QED
  BY <1>1, <1>2, PoolMoves DEF PoolInv, PoolTypeOK

LEMMA ReuseChunkStep ==
  ASSUME PoolInv, NEW t \in Thread, ReuseChunk(t)
  PROVE  PoolInv'
<1> USE DEF ReuseChunk, Enter, InStage
<1>1. StackMoved(t)
  BY StackMoves DEF PoolInv
<1>2. PoolTypeOK'
  BY <1>1 DEF StackMoved, IInv, PoolInv, PoolTypeOK, Stages
<1>3. pc'[t] = "idle"
  BY DEF PoolInv, PoolTypeOK, TypeOK, Return, Goto
<1>4. QED
  BY <1>1, <1>2, <1>3, PoolMoves DEF PoolInv, PoolTypeOK

LEMMA NewChunkStep ==
  ASSUME PoolInv, NEW t \in Thread, NewChunk(t)
  PROVE  PoolInv'
<1> USE DEF NewChunk, Enter, InStage, counters
<1>1. StackMoved(t)
  BY StackMoves DEF PoolInv
<1>2. PoolTypeOK'
  BY <1>1 DEF StackMoved, IInv, PoolInv, PoolTypeOK, Stages
<1>3. pc'[t] = "idle"
  BY DEF PoolInv, PoolTypeOK, TypeOK, Return, Goto
<1>4. QED
  BY <1>1, <1>2, <1>3, PoolMoves DEF PoolInv, PoolTypeOK

LEMMA FreeChunkStep ==
  ASSUME PoolInv, NEW t \in Thread, NEW n \in held[t], FreeChunk(t, n)
  PROVE  PoolInv'
<1> USE DEF FreeChunk, Enter, InStage, mmapVars, counters
<1>1. StackMoved(t)
  BY StackMoves DEF PoolInv, Start
<1>2. PoolTypeOK'
  BY <1>1 DEF StackMoved, IInv, PoolInv, PoolTypeOK, Stages
<1>3. QED
  BY <1>1, <1>2, PoolMoves DEF PoolInv, PoolTypeOK

LEMMA FreedChunkStep ==
  ASSUME PoolInv, NEW t \in Thread, FreedChunk(t)
  PROVE  PoolInv'
<1> USE DEF FreedChunk, Enter, InStage
<1>1. StackMoved(t)
  BY StackMoves DEF PoolInv
<1>2. PoolTypeOK'
  BY <1>1 DEF StackMoved, IInv, PoolInv, PoolTypeOK, Stages
<1>3. pc'[t] = "idle"
  BY DEF PoolInv, PoolTypeOK, TypeOK, Return, Goto
<1>4. QED
  BY <1>1, <1>2, <1>3, PoolMoves DEF PoolInv, PoolTypeOK

LEMMA CountFreeListStep ==
  ASSUME PoolInv, NEW t \in Thread, CountFreeList(t)
  PROVE  PoolInv'
<1> USE DEF CountFreeList, Enter, InStage, counters
<1>1. StackMoved(t)
  BY StackMoves DEF PoolInv, Start
<1>2. PoolTypeOK'
  BY <1>1 DEF StackMoved, IInv, PoolInv, PoolTypeOK, Stages
<1>3. QED
  BY <1>1, <1>2, PoolMoves DEF PoolInv, PoolTypeOK

LEMMA CountDetachStep ==
  ASSUME PoolInv, NEW t \in Thread, CountDetach(t)
  PROVE  PoolInv'
<1> USE DEF CountDetach, InStage, counters
<1>1. StackMoved(t)
  BY StackMoves DEF PoolInv, Step
<1>2. PoolTypeOK'
  <2>1. Len(stack) \in Nat
    BY DEF PoolInv, PoolTypeOK, TypeOK
  <2>2. QED
    BY <1>1, <2>1 DEF StackMoved, IInv, PoolInv, PoolTypeOK, Stages
<1>3. QED
  BY <1>1, <1>2, PoolMoves DEF PoolInv, PoolTypeOK

LEMMA CountVisitStep ==
  ASSUME PoolInv, NEW t \in Thread, CountVisit(t)
  PROVE  PoolInv'
<1> USE DEF CountVisit, InStage, counters
<1>1. StackMoved(t)
  BY StackMoves DEF PoolInv, Step
<1>2. PoolTypeOK'
  BY <1>1 DEF StackMoved, IInv, PoolInv, PoolTypeOK, Stages
<1>3. QED
  BY <1>1, <1>2, PoolMoves DEF PoolInv, PoolTypeOK

LEMMA CountedStep ==
  ASSUME PoolInv, NEW t \in Thread, Counted(t)
  PROVE  PoolInv'
<1> USE DEF Counted, Enter, InStage, mmapVars, counters
<1>1. StackMoved(t)
  BY StackMoves DEF PoolInv
<1>2. PoolTypeOK'
  BY <1>1 DEF StackMoved, IInv, PoolInv, PoolTypeOK, Stages
<1>3. pc'[t] = "idle"
  BY DEF PoolInv, PoolTypeOK, TypeOK, Return, Goto
<1>4. QED
  BY <1>1, <1>2, <1>3, PoolMoves DEF PoolInv, PoolTypeOK

LEMMA StackStepStep ==
  ASSUME PoolInv, NEW t \in Thread, StackStep(t)
  PROVE  PoolInv'
<1> USE DEF StackStep, mmapVars, counters
<1>1. StackMoved(t)
  BY StackMoves DEF PoolInv, Step
<1>2. PoolTypeOK'
  BY <1>1 DEF StackMoved, IInv, PoolInv, PoolTypeOK, Stages
<1>3. QED
  BY <1>1, <1>2, PoolMoves DEF PoolInv, PoolTypeOK

\* A step outside the stack that hands no chunk out and takes none back.
LEMMA StackStays ==
  ASSUME PoolInv, NEW t \in Thread, UNCHANGED vars, PoolTypeOK',
         UNCHANGED <<asserts, size, top, lost>>,
         \A u \in Thread \ {t} : stage'[u] = stage[u] /\ seen'[u] = seen[u],
         stage[t] \in {"out", "new", "commit", "aborted"},
         stage'[t] # "commit"
  PROVE  PoolInv'
<1>1. IInv'
  BY StutterStep DEF PoolInv
<1>2. ChunksAccountedFor' /\ TopInRange'
  BY DEF PoolInv, ChunksAccountedFor, Placed, Own, Minted, TopInRange, vars
<1>3. InvStages'
  BY DEF PoolInv, InvStages, InStage, At, vars
<1>4. QED
  BY <1>1, <1>2, <1>3 DEF PoolInv

LEMMA NoReservationStep ==
  ASSUME PoolInv, NEW t \in Thread, NoReservation(t)
  PROVE  PoolInv'
<1> USE DEF NoReservation, Enter, InStage, mmapVars, counters
<1>1. PoolTypeOK'
  BY StutterStep DEF IInv, PoolInv, PoolTypeOK, Stages
<1>2. QED
  BY <1>1, StackStays DEF PoolInv, PoolTypeOK

LEMMA AssertFailsStep ==
  ASSUME PoolInv, NEW t \in Thread, AssertFails(t)
  PROVE  PoolInv'
<1> USE DEF AssertFails, Enter, InStage, mmapVars, counters
<1>1. PoolTypeOK'
  BY StutterStep DEF IInv, PoolInv, PoolTypeOK, Stages
<1>2. QED
  BY <1>1, StackStays DEF PoolInv, PoolTypeOK

LEMMA NewCasFailsStep ==
  ASSUME PoolInv, NEW t \in Thread, NewCasFails(t)
  PROVE  PoolInv'
<1> USE DEF NewCasFails, InStage, counters
<1>1. PoolTypeOK'
  BY StutterStep DEF IInv, PoolInv, PoolTypeOK, Stages
<1>2. QED
  BY <1>1, StackStays DEF PoolInv, PoolTypeOK

LEMMA CommitStep ==
  ASSUME PoolInv, NEW t \in Thread, Commit(t)
  PROVE  PoolInv'
<1> USE DEF Commit, Enter, InStage
<1>1. PoolTypeOK'
  BY StutterStep DEF IInv, PoolInv, PoolTypeOK, Stages
<1>2. QED
  BY <1>1, StackStays DEF PoolInv, PoolTypeOK

LEMMA UseChunkStep ==
  ASSUME PoolInv, NEW t \in Thread, NEW n \in held[t], NEW v \in NodeOrNull, UseChunk(t, n, v)
  PROVE  PoolInv'
<1> USE DEF UseChunk, InStage, mmapVars, counters
<1>1. IInv'
  BY OverwriteStep DEF PoolInv
<1>2. Placed' = Placed /\ UNCHANGED <<pc, held>>
  BY DEF Overwrite, Placed, Own, history
<1>3. PoolTypeOK'
  BY <1>1 DEF IInv, PoolInv, PoolTypeOK
<1>4. QED
  BY <1>1, <1>2, <1>3 DEF PoolInv, ChunksAccountedFor, Minted, InvStages, At, TopInRange

\* The owners of an idle thread's chunks change, and nothing else in the stack.
LEMMA HeldChanges ==
  ASSUME IInv, NEW t \in Thread, pc[t] = "idle", NEW S \in SUBSET Node,
         held' = [held EXCEPT ![t] = S],
         UNCHANGED <<head, next, pc, ptrVars, walking, stack, chain>>,
         S \intersect (Placed \ held[t]) = {}
  PROVE  /\ IInv'
         /\ Placed' = (Placed \ held[t]) \union S
<1> USE DEF ptrVars
<1>1. TypeOK'
  BY DEF IInv, TypeOK
<1>2. StackIsList' /\ WalkIsList' /\ CurrentViews'
  BY DEF IInv, StackIsList, WalkIsList, CurrentViews, At
<1>3. InHand'
  BY DEF IInv, TypeOK, InHand, At
<1>4. chain[t] = << >> /\ Range(chain[t]) = {} /\ Own(t) = held[t]
  BY DEF IInv, InHand, Own, Range
<1>5. \A u \in Thread : Own(u)' = IF u = t THEN S ELSE Own(u)
  BY <1>4 DEF IInv, TypeOK, Own
<1>6. /\ \A u \in Thread \ {t} : Own(u) \intersect held[t] = {}
      /\ Range(stack) \intersect held[t] = {}
  BY <1>4 DEF IInv, Exclusive
<1>7. /\ \A u \in Thread \ {t} : Own(u) \intersect S = {}
      /\ Range(stack) \intersect S = {}
  BY <1>6 DEF Placed
<1>8. Exclusive'
  <2>1. \A u \in Thread : held'[u] \intersect Range(chain'[u]) = {}
    BY <1>4 DEF IInv, TypeOK, Exclusive
  <2>2. QED
    BY <1>5, <1>7, <2>1 DEF IInv, Exclusive
<1>9. Placed' = (Placed \ held[t]) \union S
  BY <1>4, <1>5, <1>6 DEF Placed
<1>10. QED
  BY <1>1, <1>2, <1>3, <1>8, <1>9 DEF IInv

LEMMA NewCasStep ==
  ASSUME PoolInv, NEW t \in Thread, NewCas(t)
  PROVE  PoolInv'
<1> USE DEF NewCas, Enter, InStage, counters
<1> DEFINE n == seen[t]
<1>0. /\ n \in Node /\ n = top /\ top # Null /\ top \in Nat /\ n \notin Minted
      /\ n \notin Placed /\ pc[t] = "idle" /\ held[t] \subseteq Placed
  BY NullAssumption, ChunkAssumption
  DEF PoolInv, PoolTypeOK, TypeOK, ChunksAccountedFor, Minted, InvStages, At, Placed, Own
<1>1. held[t] \union {n} \in SUBSET Node
  BY <1>0 DEF PoolInv, PoolTypeOK, TypeOK
<1>2. IInv' /\ Placed' = Placed \union {n}
  <2>1. (held[t] \union {n}) \intersect (Placed \ held[t]) = {}
    BY <1>0
  <2>2. IInv' /\ Placed' = (Placed \ held[t]) \union (held[t] \union {n})
    BY <1>0, <1>1, <2>1, HeldChanges DEF PoolInv
  <2>3. QED
    BY <1>0, <2>2
<1>3. top' \in 1..(MaxChunk + 1) /\ top' # Null
  <2>1. n \in 0..MaxChunk /\ MaxChunk \in Nat
    BY <1>0, ChunkAssumption
  <2>2. top' \in 1..(MaxChunk + 1)
    BY <2>1
  <2>3. top' # Null
    BY <2>1, <2>2, AddressAssumption
  <2>4. QED
    BY <2>2, <2>3
<1>4. PoolTypeOK'
  BY <1>2, <1>3 DEF IInv, PoolInv, PoolTypeOK, Stages
<1>5. ChunksAccountedFor'
  <2>1. Minted = 0..(n - 1) /\ Minted' = 0..n
    BY <1>0, <1>3 DEF Minted
  <2>2. Minted' = Minted \union {n}
    BY <1>0, <2>1
  <2>3. QED
    BY <1>0, <1>2, <2>2 DEF PoolInv, ChunksAccountedFor
<1>6. InvStages'
  BY DEF PoolInv, PoolTypeOK, TypeOK, InvStages, At
<1>7. TopInRange'
  BY DEF TopInRange, IndexInRange
<1>8. QED
  BY <1>2, <1>4, <1>5, <1>6, <1>7 DEF PoolInv

LEMMA CommitFailsStep ==
  ASSUME PoolInv, NEW t \in Thread, CommitFails(t)
  PROVE  PoolInv'
<1> USE DEF CommitFails, Enter, InStage, counters
<1>1. CASE asserts
  <2>1. UNCHANGED vars
    BY <1>1 DEF vars, ptrVars
  <2>2. PoolTypeOK'
    BY <1>1, <2>1, StutterStep DEF IInv, PoolInv, PoolTypeOK, Stages
  <2>3. QED
    BY <1>1, <2>1, <2>2, StackStays DEF PoolInv, PoolTypeOK
<1>2. CASE ~ asserts
  <2> DEFINE n == seen[t]
  <2>0. /\ n \in held[t] /\ pc[t] = "idle" /\ held[t] \subseteq Placed /\ held[t] \subseteq Node
    BY DEF PoolInv, PoolTypeOK, TypeOK, InvStages, At, Placed, Own
  <2>1. /\ held' = [held EXCEPT ![t] = @ \ {n}] /\ lost' = lost \union {n} /\ top' = top
        /\ perf_alloc' = perf_alloc + 1 /\ stage' = [stage EXCEPT ![t] = "out"]
        /\ UNCHANGED <<perf_dealloc, perf_alloc_from_free>>
    BY <1>2
  <2>2. IInv' /\ Placed' = Placed \ {n}
    <3>1. IInv' /\ Placed' = (Placed \ held[t]) \union (held[t] \ {n})
      <4>1. held[t] \ {n} \in SUBSET Node
        BY <2>0
      <4>2. (held[t] \ {n}) \intersect (Placed \ held[t]) = {}
        OBVIOUS
      <4>3. QED
        BY <2>0, <2>1, <4>1, <4>2, HeldChanges DEF PoolInv
    <3>2. QED
      BY <2>0, <3>1
  <2>3. PoolTypeOK'
    BY <2>0, <2>1, <2>2 DEF IInv, PoolInv, PoolTypeOK, Stages
  <2>4. ChunksAccountedFor'
    BY <2>0, <2>1, <2>2 DEF PoolInv, ChunksAccountedFor, Minted
  <2>5. InvStages'
    BY <2>1 DEF PoolInv, PoolTypeOK, TypeOK, InvStages, At
  <2>6. TopInRange'
    BY <2>1 DEF PoolInv, TopInRange
  <2>7. QED
    BY <2>2, <2>3, <2>4, <2>5, <2>6 DEF PoolInv
<1>3. QED
  BY <1>1, <1>2

LEMMA PoolInitInv == PoolInit => PoolInv
<1> SUFFICES ASSUME PoolInit PROVE PoolInv
  OBVIOUS
<1> USE DEF PoolInit
<1>1. IInv /\ Placed = UNION {held[t] : t \in Thread}
  BY EmptyIInv
<1>2. Placed = {}
  BY <1>1
<1>3. size \in Nat /\ (top = Null \/ top = 0)
  BY CountAssumption DEF Reservations
<1>4. PoolTypeOK
  BY <1>1, <1>3, ChunkAssumption, BuildsAssumption DEF IInv, PoolTypeOK, Stages
<1>5. ChunksAccountedFor
  BY <1>2, <1>3 DEF ChunksAccountedFor, Minted
<1>6. InvStages /\ TopInRange
  BY <1>3, CountAssumption DEF EmptyStack, InvStages, InStage, At, TopInRange
<1>7. QED
  BY <1>1, <1>4, <1>5, <1>6 DEF PoolInv

LEMMA PoolStutterStep ==
  ASSUME PoolInv, UNCHANGED poolVars
  PROVE  PoolInv'
<1> USE DEF poolVars, counters
<1>1. IInv'
  BY StutterStep DEF PoolInv
<1>2. PoolTypeOK'
  BY <1>1 DEF IInv, PoolInv, PoolTypeOK
<1>3. QED
  BY <1>1, <1>2 DEF vars, PoolInv, ChunksAccountedFor, Placed, Own, Minted, InvStages, InStage,
     At, TopInRange

LEMMA PoolNextInv == PoolInv /\ [PoolNext]_poolVars => PoolInv'
<1> SUFFICES ASSUME PoolInv, [PoolNext]_poolVars PROVE PoolInv'
  OBVIOUS
<1>1. ASSUME NEW t \in Thread, PoolStep(t) PROVE PoolInv'
  BY <1>1, AllocChunkStep, ReuseChunkStep, NewChunkStep, NoReservationStep, AssertFailsStep,
     NewCasStep, NewCasFailsStep, CommitStep, CommitFailsStep, FreeChunkStep, FreedChunkStep,
     CountFreeListStep, CountDetachStep, CountVisitStep, CountedStep, StackStepStep, UseChunkStep
  DEF PoolStep
<1>2. CASE Stopped \/ UNCHANGED poolVars
  BY <1>2, PoolStutterStep DEF Stopped
<1>3. QED
  BY <1>1, <1>2 DEF PoolNext

-----------------------------------------------------------------------------
(* The theorems. *)

\* The inductive invariant holds of every reachable state of the pool.
THEOREM PoolInvariant == PoolSpec => []PoolInv
<1>1. QED
  BY PoolInitInv, PoolNextInv, PTL DEF PoolSpec

\* A chunk is never in two places: not with two threads, not on the free list
\* and with a thread, whether it was recycled or cut fresh from the range.
THEOREM ChunkExclusive == PoolSpec => []Exclusive
<1>1. PoolInv => Exclusive
  BY DEF PoolInv, IInv
<1>2. QED
  BY <1>1, PoolInvariant, PTL

\* No chunk below head_ is ever forgotten, except to a failed commit.
THEOREM NoChunkForgotten == PoolSpec => []ChunksAccountedFor
<1>1. PoolInv => ChunksAccountedFor
  BY DEF PoolInv
<1>2. QED
  BY <1>1, PoolInvariant, PTL

\* With assertions, and the default range reserved in full, chunks lie in it.
THEOREM RangeGuarded == PoolSpec => []AssertGuardsRange
<1>1. PoolInv => AssertGuardsRange
  <2>1. SUFFICES ASSUME PoolInv, asserts, size = ChunkCount, NEW t \in Thread, NEW n \in held[t]
                 PROVE  n \in 0..(size - 1)
    BY DEF AssertGuardsRange
  <2>2. n \in Placed
    BY <2>1 DEF Placed, Own
  <2>3. top # Null /\ n \in 0..(top - 1) /\ top <= ChunkCount /\ top \in Nat
    BY <2>1, <2>2 DEF PoolInv, PoolTypeOK, ChunksAccountedFor, Minted, TopInRange
  <2>4. QED
    BY <2>1, <2>3, CountAssumption
<1>2. QED
  BY <1>1, PoolInvariant, PTL

\* No step of np::mmap goes through a null pointer or leaves a variable with a
\* value that is not of its kind.
THEOREM PoolTypeCorrect == PoolSpec => []PoolTypeOK
<1>1. PoolInv => PoolTypeOK
  BY DEF PoolInv
<1>2. QED
  BY <1>1, PoolInvariant, PTL

-----------------------------------------------------------------------------
(* np::mmap implements the supply of chunks. *)

\* The chunks nobody has: on the free list, or on their way back to it.
Spare == Range(stack) \union UNION {Range(chain[t]) : t \in Thread}

\* What a step of the atomic stack is to those who only see the supply.
LEMMA StackSupplies ==
  ASSUME PoolInv, NEW t \in Thread, UNCHANGED <<top, lost>>,
         Atomic!Pop(t) \/ Atomic!TakeAll(t) \/ Atomic!PutBack(t)
         \/ (\E n \in held[t] : Atomic!Push(t, n))
  PROVE  (\E c \in Node : Supply!Reuse(t, c) \/ Supply!GiveBack(t, c)) \/ UNCHANGED Supply!vars
<1>0. /\ stack \in Seq(Node) /\ held \in [Thread -> SUBSET Node]
      /\ chain \in [Thread -> Seq(Node)] /\ Exclusive
  BY DEF PoolInv, IInv, TypeOK
<1>1. Minted' = Minted
  BY DEF Minted
<1>2. CASE Atomic!Pop(t)
  <2> DEFINE c == Head(stack)
  <2>1. /\ c \in Node /\ c = stack[1] /\ c \notin Range(Tail(stack))
        /\ Range(stack) = {c} \union Range(Tail(stack))
    BY <1>0, <1>2, TailFacts, TailInjective DEF Atomic!Pop, Exclusive
  <2>2. \A u \in Thread : c \notin Range(chain[u])
    BY <1>0, <2>1 DEF Exclusive, Own
  <2>3. c \in Spare /\ Spare' = Spare \ {c}
    BY <1>2, <2>1, <2>2 DEF Atomic!Pop, Spare
  <2>4. Supply!Reuse(t, c)
    BY <1>1, <1>2, <2>3 DEF Atomic!Pop, Supply!Reuse, Spare
  <2>5. QED
    BY <2>1, <2>4, SMTT(60)
<1>3. ASSUME NEW n \in held[t], Atomic!Push(t, n)
      PROVE  Supply!GiveBack(t, n) /\ n \in Node
  <2>1. n \in Node /\ Range(stack') = {n} \union Range(stack)
    BY <1>0, <1>3, ConsFacts DEF Atomic!Push
  <2>2. Spare' = Spare \union {n}
    BY <1>3, <2>1 DEF Atomic!Push, Spare
  <2>3. QED
    BY <1>1, <1>3, <2>1, <2>2 DEF Atomic!Push, Supply!GiveBack, Spare
<1>4. CASE Atomic!TakeAll(t)
  <2>1. Range(<< >>) = {} /\ Range(stack') = {} /\ Range(chain[t]) = {}
    BY <1>4 DEF Atomic!TakeAll, Range
  <2>2. \A u \in Thread : Range(chain'[u]) = IF u = t THEN Range(stack) ELSE Range(chain[u])
    BY <1>0, <1>4 DEF Atomic!TakeAll
  <2>3. Spare' = Spare
    BY <2>1, <2>2 DEF Spare
  <2>4. QED
    BY <1>1, <1>4, <2>3 DEF Atomic!TakeAll, Supply!vars, Spare
<1>5. CASE Atomic!PutBack(t)
  <2> DEFINE n == Head(chain[t])
  <2>1. /\ n = chain[t][1] /\ n \in Node
        /\ Range(chain[t]) = {n} \union Range(Tail(chain[t]))
    BY <1>0, <1>5, TailFacts DEF Atomic!PutBack
  <2>2. Range(stack') = {n} \union Range(stack)
    BY <1>0, <1>5, <2>1, ConsFacts DEF Atomic!PutBack
  <2>3. \A u \in Thread : Range(chain'[u]) \union {n} = Range(chain[u]) \union {n}
    BY <1>0, <1>5, <2>1 DEF Atomic!PutBack
  <2>4. n \in Range(chain[t])
    BY <2>1
  <2>5. Spare' = Spare
    BY <2>2, <2>3, <2>4 DEF Spare
  <2>6. QED
    BY <1>1, <1>5, <2>5 DEF Atomic!PutBack, Supply!vars, Spare
<1>6. QED
  BY <1>2, <1>3, <1>4, <1>5

\* A step of the stack, wrapped in whatever stage of np::mmap.
LEMMA StackStepSupplies ==
  ASSUME PoolInv, NEW t \in Thread, Start(t) \/ Step(t) \/ Return(t), UNCHANGED <<top, lost>>
  PROVE  (\E c \in Node : Supply!Reuse(t, c) \/ Supply!GiveBack(t, c)) \/ UNCHANGED Supply!vars
<1>1. CASE UNCHANGED history
  BY <1>1 DEF history, Supply!vars, Minted
<1>2. QED
  BY <1>1, StepSimulates, StackSupplies DEF PoolInv

LEMMA NewCasSupplies ==
  ASSUME PoolInv, NEW t \in Thread, NewCas(t)
  PROVE  Supply!Cut(t, seen[t])
<1> DEFINE n == seen[t]
<1>1. /\ n \in Node /\ n = top /\ top # Null /\ top \in Nat
      /\ n + 1 \in 1..(MaxChunk + 1) /\ n + 1 # Null
  BY NullAssumption, ChunkAssumption, AddressAssumption
  DEF NewCas, PoolInv, PoolTypeOK
<1>2. Minted = 0..(n - 1) /\ Minted' = 0..n
  BY <1>1 DEF NewCas, Minted
<1>3. n \in Node \ Minted /\ Node \ Minted' = (Node \ Minted) \ {n}
  BY <1>1, <1>2
<1>4. QED
  BY <1>3 DEF NewCas, Supply!Cut

LEMMA PoolStepSupplies ==
  ASSUME PoolInv, NEW t \in Thread, PoolStep(t)
  PROVE  (\E c \in Node : Supply!Reuse(t, c) \/ Supply!Cut(t, c) \/ Supply!Lose(t, c)
                          \/ Supply!GiveBack(t, c))
         \/ UNCHANGED Supply!vars
<1>1. CASE NewCas(t)
  BY <1>1, NewCasSupplies DEF NewCas
<1>2. CASE CommitFails(t)
  <2>1. Minted' = Minted
    BY <1>2 DEF CommitFails, Minted
  <2>2. CASE asserts
    BY <1>2, <2>1, <2>2 DEF CommitFails, Supply!vars
  <2>3. CASE ~ asserts
    <3>1. seen[t] \in held[t] /\ seen[t] \in Node
      BY <1>2 DEF CommitFails, PoolInv, PoolTypeOK, TypeOK, InvStages
    <3>2. Supply!Lose(t, seen[t])
      BY <1>2, <2>1, <2>3, <3>1 DEF CommitFails, Supply!Lose
    <3>3. QED
      BY <3>1, <3>2
  <2>4. QED
    BY <2>2, <2>3
<1>3. CASE AllocChunk(t) \/ ReuseChunk(t) \/ NewChunk(t) \/ FreedChunk(t) \/ CountFreeList(t)
           \/ CountDetach(t) \/ CountVisit(t) \/ Counted(t) \/ StackStep(t)
           \/ \E n \in held[t] : FreeChunk(t, n)
  <2>1. UNCHANGED <<top, lost>>
    BY <1>3 DEF AllocChunk, ReuseChunk, NewChunk, FreedChunk, CountFreeList, CountDetach,
       CountVisit, Counted, StackStep, FreeChunk, mmapVars
  <2>2. Start(t) \/ Step(t) \/ Return(t)
    BY <1>3 DEF AllocChunk, ReuseChunk, NewChunk, FreedChunk, CountFreeList, CountDetach,
       CountVisit, Counted, StackStep, FreeChunk, Start, Step
  <2>3. QED
    BY <2>1, <2>2, StackStepSupplies
<1>4. CASE NoReservation(t) \/ AssertFails(t) \/ NewCasFails(t) \/ Commit(t)
           \/ \E n \in held[t], v \in NodeOrNull : UseChunk(t, n, v)
  <2>1. UNCHANGED <<top, lost, history>>
    BY <1>4 DEF NoReservation, AssertFails, NewCasFails, Commit, UseChunk, Overwrite, mmapVars,
       vars, history
  <2>2. QED
    BY <2>1 DEF history, Supply!vars, Minted
<1>5. QED
  BY <1>1, <1>2, <1>3, <1>4 DEF PoolStep

LEMMA PoolNextSupplies == PoolInv /\ [PoolNext]_poolVars => [Supply!Next]_(Supply!vars)
<1> SUFFICES ASSUME PoolInv, [PoolNext]_poolVars PROVE [Supply!Next]_(Supply!vars)
  OBVIOUS
<1>1. ASSUME NEW t \in Thread, PoolStep(t) PROVE [Supply!Next]_(Supply!vars)
  BY <1>1, PoolStepSupplies DEF Supply!Next
<1>2. CASE Stopped \/ UNCHANGED poolVars
  BY <1>2 DEF Stopped, poolVars, vars, Supply!vars, Minted
<1>3. QED
  BY <1>1, <1>2 DEF PoolNext

\* Whatever the pops, the pushes, the walks and the cuts of all threads do to
\* one another, each chunk has one user at a time, who got it by one step.
THEOREM SupplyImplemented == PoolSpec => ImplementsSupply
<1>1. PoolInit => Supply!Init
  <2>1. SUFFICES ASSUME PoolInit PROVE Supply!Init
    OBVIOUS
  <2>2. Minted = {}
    BY <2>1 DEF PoolInit, Minted
  <2>3. Range(<< >>) = {}
    BY DEF Range
  <2>4. QED
    BY <2>1, <2>2, <2>3 DEF PoolInit, EmptyStack, Supply!Init
<1>2. QED
  BY <1>1, PoolInvariant, PoolNextSupplies, PTL DEF PoolSpec, ImplementsSupply, Supply!Spec

-----------------------------------------------------------------------------
(* count_free_list counts the list it detached. *)

\* Where the stack's code is in each stage, and what is left to count: the
\* chunk being pushed back is counted already, and still on the chain.
Counting(t) ==
  /\ InStage(t, "pop") => pc[t] \in {"pop_read", "pop_cas", "popped"}
  /\ InStage(t, "push") => pc[t] \in {"push_link", "push_cas", "pushed"}
  /\ InStage(t, "count") => pc[t] \in {"each_cas", "each_visit", "push_link", "push_cas",
                                       "pushed", "visited"}
  /\ walking[t] <=> InStage(t, "count") /\ pc[t] \notin {"each_cas", "visited"}
  /\ InStage(t, "count") =>
       /\ At(t, "each_cas") => count[t] = 0 /\ due[t] = 0
       /\ pc[t] \in {"each_visit", "pushed"} => count[t] + Len(chain[t]) = due[t]
       /\ pc[t] \in {"push_link", "push_cas"} => count[t] + Len(chain[t]) = due[t] + 1
       /\ At(t, "visited") => count[t] = due[t]
CountInv == \A t \in Thread : Counting(t)

\* What Counting(u) speaks of, when thread t takes a step.
OthersStay(t) ==
  \A u \in Thread \ {t} : /\ pc'[u] = pc[u] /\ walking'[u] = walking[u] /\ chain'[u] = chain[u]
                          /\ stage'[u] = stage[u] /\ count'[u] = count[u] /\ due'[u] = due[u]

LEMMA StackStaysForOthers ==
  ASSUME IInv, NEW t \in Thread, Start(t) \/ Step(t) \/ Return(t)
  PROVE  \A u \in Thread \ {t} :
           pc'[u] = pc[u] /\ walking'[u] = walking[u] /\ chain'[u] = chain[u]
<1>1. /\ pc \in [Thread -> Pcs] /\ walking \in [Thread -> BOOLEAN]
      /\ chain \in [Thread -> Seq(Node)]
  BY DEF IInv, TypeOK
<1>2. \A u \in Thread \ {t} : pc'[u] = pc[u] /\ walking'[u] = walking[u]
  BY <1>1 DEF Start, Step, PopStep, PushStep, EachStep, PopLoad, PopEmpty, PopRead, PopCas,
     PopCasFails, PushLoad, PushLink, PushCas, PushCasFails, EachLoad, EachEmpty, EachCas,
     EachCasFails, EachVisit, EachAdvance, EachDone, Return, CasFails, Goto
<1>3. \A u \in Thread \ {t} : chain'[u] = chain[u]
  BY <1>1 DEF Start, Step, PopStep, PushStep, EachStep, PopLoad, PopEmpty, PopRead, PopCas,
     PopCasFails, PushLoad, PushLink, PushCas, PushCasFails, EachLoad, EachEmpty, EachCas,
     EachCasFails, EachVisit, EachAdvance, EachDone, Return, CasFails, history
<1>4. QED
  BY <1>2, <1>3

LEMMA CountFrame ==
  ASSUME CountInv, NEW t \in Thread, OthersStay(t), Counting(t)'
  PROVE  CountInv'
BY DEF CountInv, Counting, OthersStay, InStage, At

\* The operations of the stack start and end.
LEMMA EnterCounts ==
  ASSUME PoolInv, CountInv, NEW t \in Thread,
         \/ AllocChunk(t) \/ ReuseChunk(t) \/ NewChunk(t) \/ FreedChunk(t)
         \/ CountFreeList(t) \/ Counted(t) \/ \E n \in held[t] : FreeChunk(t, n)
  PROVE  CountInv'
<1> USE DEF AllocChunk, ReuseChunk, NewChunk, FreedChunk, CountFreeList, Counted, FreeChunk,
        Enter, InStage, mmapVars
<1>1. /\ pc \in [Thread -> Pcs] /\ stage \in [Thread -> Stages]
      /\ count \in [Thread -> Nat] /\ due \in [Thread -> Nat]
  BY DEF PoolInv, PoolTypeOK, TypeOK
<1>2. OthersStay(t)
  <2>1. Start(t) \/ Return(t)
    BY DEF Start
  <2>2. \A u \in Thread \ {t} : stage'[u] = stage[u] /\ count'[u] = count[u] /\ due'[u] = due[u]
    BY <1>1
  <2>3. QED
    BY <2>1, <2>2, StackStaysForOthers DEF PoolInv, OthersStay
<1>3. Counting(t)'
  BY <1>1 DEF CountInv, Counting, PopLoad, PushLoad, EachLoad, MayStart, Return, Goto, At,
     PoolInv, PoolTypeOK, TypeOK
<1>4. QED
  BY <1>2, <1>3, CountFrame

LEMMA CountDetachCounts ==
  ASSUME PoolInv, CountInv, NEW t \in Thread, CountDetach(t)
  PROVE  CountInv'
<1> USE DEF CountDetach, InStage
<1>1. /\ pc \in [Thread -> Pcs] /\ chain \in [Thread -> Seq(Node)] /\ stack \in Seq(Node)
      /\ due \in [Thread -> Nat] /\ count[t] = 0 /\ walking \in [Thread -> BOOLEAN]
  BY DEF PoolInv, PoolTypeOK, TypeOK, CountInv, Counting, EachCas, At
<1>2. OthersStay(t)
  BY <1>1, StackStaysForOthers DEF PoolInv, OthersStay, Step
<1>3. Counting(t)'
  <2>1. chain'[t] = stack /\ due'[t] = Len(stack) /\ count'[t] = 0 /\ Len(stack) \in Nat
        /\ pc'[t] = "each_visit" /\ walking'[t] = TRUE /\ stage'[t] = "count"
    BY <1>1 DEF EachCas, Goto
  <2>2. QED
    BY <2>1 DEF Counting, At
<1>4. QED
  BY <1>2, <1>3, CountFrame

LEMMA CountVisitCounts ==
  ASSUME PoolInv, CountInv, NEW t \in Thread, CountVisit(t)
  PROVE  CountInv'
<1> USE DEF CountVisit, InStage
<1>1. /\ pc \in [Thread -> Pcs] /\ count \in [Thread -> Nat] /\ due \in [Thread -> Nat]
      /\ Len(chain[t]) \in Nat /\ count[t] + Len(chain[t]) = due[t] /\ walking[t]
  <2>1. /\ pc \in [Thread -> Pcs] /\ count \in [Thread -> Nat] /\ due \in [Thread -> Nat]
        /\ chain \in [Thread -> Seq(Node)]
    BY DEF PoolInv, PoolTypeOK, TypeOK
  <2>2. count[t] + Len(chain[t]) = due[t] /\ walking[t]
    BY DEF CountInv, Counting, EachVisit, At
  <2>3. QED
    BY <2>1, <2>2
<1>2. OthersStay(t)
  BY <1>1, StackStaysForOthers DEF PoolInv, OthersStay, Step
<1>3. Counting(t)'
  <2>1. chain'[t] = chain[t] /\ due'[t] = due[t] /\ count'[t] = count[t] + 1
        /\ pc'[t] = "push_link" /\ walking'[t] = walking[t] /\ stage'[t] = "count"
    BY <1>1 DEF EachVisit, Goto, history
  <2>2. QED
    BY <1>1, <2>1 DEF Counting, At
<1>4. QED
  BY <1>2, <1>3, CountFrame

LEMMA StackStepCounts ==
  ASSUME PoolInv, CountInv, NEW t \in Thread, StackStep(t)
  PROVE  CountInv'
<1> USE DEF InStage
<1>0. stage'[t] = stage[t] /\ count'[t] = count[t] /\ due'[t] = due[t]
      /\ stage[t] \in {"pop", "push", "count"}
  BY DEF StackStep, mmapVars
<1>1. /\ pc \in [Thread -> Pcs] /\ walking \in [Thread -> BOOLEAN]
      /\ chain \in [Thread -> Seq(Node)] /\ Len(chain[t]) \in Nat /\ Counting(t)
      /\ count[t] \in Nat /\ due[t] \in Nat
  BY DEF PoolInv, PoolTypeOK, TypeOK, CountInv
<1>2. OthersStay(t)
  BY StackStaysForOthers DEF PoolInv, OthersStay, Step, StackStep, mmapVars
<1>3. CASE PopStep(t) \/ PushLink(t) \/ PushCasFails(t) \/ EachEmpty(t) \/ EachCasFails(t) \/ EachAdvance(t)
  <2>1. Counting(t)'
    <3>1. chain'[t] = chain[t] /\ walking'[t] = walking[t]
      BY <1>3 DEF PopStep, PopEmpty, PopRead, PopCas, PopCasFails, PushLink, PushCasFails, EachEmpty,
         EachCasFails, EachAdvance, CasFails, history
    <3>2. \/ pc[t] \in {"pop_read", "pop_cas"} /\ pc'[t] \in {"pop_read", "pop_cas", "popped"}
          \/ pc[t] \in {"push_link", "push_cas"} /\ pc'[t] \in {"push_link", "push_cas"}
          \/ pc[t] = "each_cas" /\ pc'[t] \in {"each_cas", "visited"}
          \/ pc[t] = "pushed" /\ walking[t] /\ pc'[t] = "each_visit"
      BY <1>1, <1>3 DEF PopStep, PopEmpty, PopRead, PopCas, PopCasFails, PushLink, PushCasFails,
         EachEmpty, EachCasFails, EachAdvance, CasFails, At, Goto
    <3>4. CASE pc[t] \in {"pop_read", "pop_cas"}
      BY <1>1, <3>1, <1>0, <3>2, <3>4 DEF Counting, At
    <3>5. CASE pc[t] \in {"push_link", "push_cas"}
      BY <1>1, <3>1, <1>0, <3>2, <3>5 DEF Counting, At
    <3>6. CASE pc[t] \in {"each_cas", "pushed"}
      BY <1>1, <3>1, <1>0, <3>2, <3>6 DEF Counting, At
    <3>7. QED
      BY <3>2, <3>4, <3>5, <3>6
  <2>2. QED
    BY <1>2, <2>1, CountFrame
<1>4. CASE PushCas(t)
  <2>1. pc[t] = "push_cas" /\ pc'[t] = "pushed" /\ walking'[t] = walking[t]
    BY <1>1, <1>4 DEF PushCas, At, Goto
  <2>2. CASE walking[t]
    <3>1. chain[t] # << >> /\ chain'[t] = Tail(chain[t])
      BY <1>1, <1>4, <2>1, <2>2, PusherOwns DEF PushCas, Rest, PoolInv
    <3>2. Len(chain'[t]) = Len(chain[t]) - 1
      BY <1>1, <3>1, TailFacts
    <3>3. /\ stage[t] = "count" /\ count[t] + Len(chain[t]) = due[t] + 1
          /\ count[t] + Len(chain'[t]) = due[t]
      <4>1. stage[t] = "count"
        BY <1>1, <2>2 DEF Counting
      <4>2. count[t] + Len(chain[t]) = due[t] + 1
        BY <1>1, <2>1, <4>1 DEF Counting
      <4>3. count[t] \in Nat /\ due[t] \in Nat /\ Len(chain[t]) \in Nat
        BY <1>1
      <4>4. QED
        BY <3>2, <4>1, <4>2, <4>3
    <3>4. Counting(t)'
      BY <1>0, <2>1, <2>2, <3>3 DEF Counting, At
    <3>5. QED
      BY <1>2, <3>4, CountFrame
  <2>3. CASE ~ walking[t]
    <3>1. Counting(t)'
      BY <1>0, <1>1, <2>1, <2>3 DEF Counting, At
    <3>2. QED
      BY <1>2, <3>1, CountFrame
  <2>4. QED
    BY <2>2, <2>3
<1>5. CASE EachDone(t)
  <2>1. pc[t] = "each_visit" /\ pc'[t] = "visited" /\ walking[t] /\ ~ walking'[t]
        /\ chain'[t] = chain[t] /\ ptr[t] = Null
    BY <1>1, <1>5 DEF EachDone, At, Goto, history, Counting, PoolInv, IInv, InHand
  <2>2. Len(chain[t]) = 0
    <3>1. Linked(next, chain[t], Null)
      BY <2>1 DEF PoolInv, IInv, WalkIsList, At
    <3>2. QED
      BY <1>1, <3>1, NullAssumption, TailFacts DEF Linked, First
  <2>3. Counting(t)'
    BY <1>0, <1>1, <2>1, <2>2 DEF Counting, At
  <2>4. QED
    BY <1>2, <2>3, CountFrame
<1>6. QED
  BY <1>3, <1>4, <1>5 DEF StackStep, PushStep, EachStep

\* Outside the stack.
LEMMA IdleCounts ==
  ASSUME PoolInv, CountInv, NEW t \in Thread,
         \/ NoReservation(t) \/ AssertFails(t) \/ NewCas(t) \/ NewCasFails(t)
         \/ Commit(t) \/ CommitFails(t)
         \/ \E n \in held[t], v \in NodeOrNull : UseChunk(t, n, v)
  PROVE  CountInv'
<1>1. UNCHANGED <<pc, walking, chain, count, due>>
  BY DEF NoReservation, AssertFails, NewCas, NewCasFails, Commit, CommitFails, UseChunk,
     Overwrite, mmapVars, vars, history
<1>2. /\ \A u \in Thread \ {t} : stage'[u] = stage[u]
      /\ stage[t] \in {"out", "new", "commit"}
      /\ stage'[t] \in {"out", "new", "commit", "aborted"}
  BY DEF PoolInv, PoolTypeOK, NoReservation, AssertFails, NewCas, NewCasFails, Commit,
     CommitFails, UseChunk, InStage, Enter, mmapVars
<1>3. OthersStay(t) /\ Counting(t)'
  BY <1>1, <1>2 DEF OthersStay, CountInv, Counting, InStage, At
<1>4. QED
  BY <1>3, CountFrame

LEMMA CountInit == PoolInit => CountInv
BY DEF PoolInit, EmptyStack, CountInv, Counting, InStage, At

LEMMA CountNext == PoolInv /\ CountInv /\ [PoolNext]_poolVars => CountInv'
<1> SUFFICES ASSUME PoolInv, CountInv, [PoolNext]_poolVars PROVE CountInv'
  OBVIOUS
<1>1. ASSUME NEW t \in Thread, PoolStep(t) PROVE CountInv'
  BY <1>1, EnterCounts, CountDetachCounts, CountVisitCounts, StackStepCounts, IdleCounts
  DEF PoolStep
<1>2. CASE Stopped \/ UNCHANGED poolVars
  BY <1>2 DEF Stopped, poolVars, vars, CountInv, Counting, InStage, At
<1>3. QED
  BY <1>1, <1>2 DEF PoolNext

\* count_free_list reports the length the list had when it took it, although
\* other threads push and pop while it puts the chunks back.
THEOREM SnapshotCounted == PoolSpec => []CountIsSnapshot
<1>1. CountInv => CountIsSnapshot
  BY DEF CountInv, Counting, CountIsSnapshot
<1>2. QED
  BY <1>1, CountInit, CountNext, PoolInvariant, PTL DEF PoolSpec

-----------------------------------------------------------------------------
(* The counters agree with the lists. *)

Bit(p) == IF p THEN 1 ELSE 0
Pushed == Uncounted("push", "pushed")
Popped == Uncounted("pop", "popped")
Committing == {t \in Thread : InStage(t, "commit")}
Chains == [t \in Thread |-> Len(chain[t])]

AllocAgrees == perf_alloc + Cardinality(Committing) = Cardinality(Minted)
ListAgrees ==
  perf_dealloc + Cardinality(Pushed)
    = (perf_alloc_from_free + Cardinality(Popped)) + (Len(stack) + Total(Chains))
\* What FreedChunk is about to count is a chunk.
ChunkPushed(t) == InStage(t, "push") /\ At(t, "pushed") => ptr[t] # Null
AgreeInv ==
  /\ \A t \in Thread : ChunkPushed(t)
  /\ ~ Aborted => AllocAgrees /\ ListAgrees

\* Two sets of threads that differ in one thread at most.
LEMMA CardChange ==
  ASSUME NEW t \in Thread, NEW U \in SUBSET Thread, NEW V \in SUBSET Thread, U \ {t} = V \ {t}
  PROVE  /\ Cardinality(U) \in Nat /\ Cardinality(V) \in Nat
         /\ Cardinality(V) + Bit(t \in U) = Cardinality(U) + Bit(t \in V)
<1> DEFINE W == U \ {t}
<1>1. IsFiniteSet(W) /\ IsFiniteSet(U) /\ IsFiniteSet(V)
  BY ThreadAssumption, FS_Subset
<1>2. Cardinality(W) \in Nat /\ Cardinality(U) \in Nat /\ Cardinality(V) \in Nat
  BY <1>1, FS_CardinalityType
<1>3. Cardinality(W \union {t}) = Cardinality(W) + 1
  BY <1>1, FS_AddElement
<1>4. Cardinality(U) = Cardinality(W) + Bit(t \in U)
  <2>1. U = IF t \in U THEN W \union {t} ELSE W
    OBVIOUS
  <2>2. CASE t \in U
    <3>1. U = W \union {t} /\ Bit(t \in U) = 1
      BY <2>2 DEF Bit
    <3>2. QED
      BY <1>3, <3>1
  <2>3. CASE t \notin U
    <3>1. U = W /\ Bit(t \in U) = 0
      BY <2>3 DEF Bit
    <3>2. Cardinality(U) = Cardinality(W)
      BY <3>1
    <3> HIDE DEF W
    <3>3. QED
      BY <1>2, <3>1, <3>2
  <2>4. QED
    BY <2>2, <2>3
<1>5. Cardinality(V) = Cardinality(W) + Bit(t \in V)
  <2>1. W = V \ {t}
    OBVIOUS
  <2>2. CASE t \in V
    <3>1. V = W \union {t} /\ Bit(t \in V) = 1
      BY <2>1, <2>2 DEF Bit
    <3>2. QED
      BY <1>3, <3>1
  <2>3. CASE t \notin V
    <3>1. V = W /\ Bit(t \in V) = 0
      BY <2>1, <2>3 DEF Bit
    <3>2. Cardinality(V) = Cardinality(W)
      BY <3>1
    <3> HIDE DEF W
    <3>3. QED
      BY <1>2, <3>1, <3>2
  <2>4. QED
    BY <2>2, <2>3
<1> HIDE DEF W
<1>6. Bit(t \in U) \in {0, 1} /\ Bit(t \in V) \in {0, 1}
  BY DEF Bit
<1>7. QED
  BY <1>2, <1>4, <1>5, <1>6

\* What the counters speak of, when thread t takes a step.
RestStay(t) ==
  \A u \in Thread \ {t} : stage'[u] = stage[u] /\ pc'[u] = pc[u] /\ ptr'[u] = ptr[u] /\ chain'[u] = chain[u]

LEMMA ChainsTotal ==
  ASSUME PoolInv
  PROVE  /\ Chains \in [Thread -> Int] /\ Total(Chains) \in Int /\ Len(stack) \in Int
         /\ perf_alloc \in Int /\ perf_dealloc \in Int /\ perf_alloc_from_free \in Int
<1>1. /\ chain \in [Thread -> Seq(Node)] /\ stack \in Seq(Node)
      /\ perf_alloc \in Int /\ perf_dealloc \in Int /\ perf_alloc_from_free \in Int
  BY DEF PoolInv, PoolTypeOK, TypeOK
<1>2. \A t \in Thread : Len(chain[t]) \in Int
  BY <1>1
<1>3. Chains \in [Thread -> Int]
  BY <1>2 DEF Chains
<1>4. QED
  BY <1>1, <1>3, ThreadAssumption, TotalType

LEMMA NextChainsTotal ==
  ASSUME PoolInv'
  PROVE  /\ Chains' \in [Thread -> Int] /\ Len(stack') \in Int
         /\ perf_alloc' \in Int /\ perf_dealloc' \in Int /\ perf_alloc_from_free' \in Int
<1>1. /\ chain' \in [Thread -> Seq(Node)] /\ stack' \in Seq(Node)
      /\ perf_alloc' \in Int /\ perf_dealloc' \in Int /\ perf_alloc_from_free' \in Int
  BY DEF PoolInv, PoolTypeOK, TypeOK
<1>2. \A t \in Thread : Len(chain'[t]) \in Int
  BY <1>1
<1>3. QED
  BY <1>1, <1>2 DEF Chains

\* What thread t adds to one side it adds to the other.
Freed(t) == perf_dealloc + Bit(t \in Pushed)
Reused(t) == perf_alloc_from_free + Bit(t \in Popped)
Listed(t) == Len(stack) + Len(chain[t])

ListBalance(t) == Freed(t)' + (Reused(t) + Listed(t)) = Freed(t) + (Reused(t)' + Listed(t)')
AllocBalance(t) == perf_alloc' + Bit(t \in Committing') = perf_alloc + Bit(t \in Committing)

LEMMA ListStep ==
  ASSUME PoolInv, PoolInv', ListAgrees, NEW t \in Thread, RestStay(t), ListBalance(t)
  PROVE  ListAgrees'
<1>1. /\ Chains \in [Thread -> Int] /\ Chains' \in [Thread -> Int] /\ Total(Chains) \in Int
      /\ Len(stack) \in Int /\ Len(stack') \in Int
      /\ perf_dealloc \in Int /\ perf_alloc_from_free \in Int
      /\ perf_dealloc' \in Int /\ perf_alloc_from_free' \in Int
  BY ChainsTotal, NextChainsTotal
<1>2. Chains[t] = Len(chain[t]) /\ Chains'[t] = Len(chain'[t]) /\ Chains[t] \in Int /\ Chains'[t] \in Int
  BY <1>1 DEF Chains
<1>3. \A p : Bit(p) \in Int
  BY DEF Bit
<1> DEFINE x == perf_dealloc + Cardinality(Pushed)
           y == perf_alloc_from_free + Cardinality(Popped)
           z == Len(stack) + Total(Chains)
<1>4. x \in Int /\ x' = x + (Freed(t)' - Freed(t)) /\ Freed(t) \in Int /\ Freed(t)' \in Int
  <2>1. Pushed \in SUBSET Thread /\ Pushed' \in SUBSET Thread /\ Pushed \ {t} = Pushed' \ {t}
    BY DEF RestStay, Pushed, Uncounted, InStage, At
  <2>2. /\ Cardinality(Pushed) \in Nat /\ Cardinality(Pushed') \in Nat
        /\ Cardinality(Pushed') + Bit(t \in Pushed) = Cardinality(Pushed) + Bit(t \in Pushed')
    BY <2>1, CardChange
  <2>3. Bit(t \in Pushed) \in Int /\ Bit(t \in Pushed') \in Int
    BY <1>3
  <2>4. QED
    BY <1>1, <2>2, <2>3 DEF Freed
<1>5. y \in Int /\ y' = y + (Reused(t)' - Reused(t)) /\ Reused(t) \in Int /\ Reused(t)' \in Int
  <2>1. Popped \in SUBSET Thread /\ Popped' \in SUBSET Thread /\ Popped \ {t} = Popped' \ {t}
    BY DEF RestStay, Popped, Uncounted, InStage, At
  <2>2. /\ Cardinality(Popped) \in Nat /\ Cardinality(Popped') \in Nat
        /\ Cardinality(Popped') + Bit(t \in Popped) = Cardinality(Popped) + Bit(t \in Popped')
    BY <2>1, CardChange
  <2>3. Bit(t \in Popped) \in Int /\ Bit(t \in Popped') \in Int
    BY <1>3
  <2>4. QED
    BY <1>1, <2>2, <2>3 DEF Reused
<1>6. z \in Int /\ z' = z + (Listed(t)' - Listed(t)) /\ Listed(t) \in Int /\ Listed(t)' \in Int
  <2>1. \A u \in Thread \ {t} : Chains'[u] = Chains[u]
    BY DEF RestStay, Chains
  <2>2. Total(Chains') = Total(Chains) + (Chains'[t] - Chains[t])
    BY <1>1, <2>1, ThreadAssumption, TotalChange
  <2>3. Listed(t) = Len(stack) + Chains[t] /\ Listed(t)' = Len(stack') + Chains'[t]
    BY <1>2 DEF Listed
  <2>4. z \in Int /\ Listed(t) \in Int /\ Listed(t)' \in Int
    BY <1>1, <1>2, <2>3
  <2>5. z = Len(stack) + Total(Chains) /\ z' = Len(stack') + Total(Chains')
    OBVIOUS
  <2> DEFINE l == Len(stack)    l1 == Len(stack')  c == Total(Chains)  c1 == Total(Chains')
             k == Chains[t]     k1 == Chains'[t]   d == Listed(t)      d1 == Listed(t)'
  <2>6. l \in Int /\ l1 \in Int /\ c \in Int /\ k \in Int /\ k1 \in Int
    BY <1>1, <1>2
  <2>7. c1 = c + (k1 - k) /\ d = l + k /\ d1 = l1 + k1
    BY <2>2, <2>3
  <2>8. z = l + c /\ z' = l1 + c1
    BY <2>5
  <2> HIDE DEF l, l1, c, c1, k, k1, d, d1, z
  <2>9. z' = z + (d1 - d)
    BY <2>6, <2>7, <2>8
  <2>10. QED
    BY <2>4, <2>9 DEF d, d1
<1>7. ListAgrees <=> x = y + z
  BY DEF ListAgrees
<1>8. ListAgrees' <=> x' = y' + z'
  BY DEF ListAgrees
<1> HIDE DEF x, y, z
<1>9. x' = y' + z'
  BY <1>4, <1>5, <1>6, <1>7 DEF ListBalance
<1>10. QED
  BY <1>8, <1>9

LEMMA AllocStep ==
  ASSUME PoolInv, PoolInv', AllocAgrees, NEW t \in Thread, RestStay(t), top' = top,
         AllocBalance(t)
  PROVE  AllocAgrees'
<1>1. /\ Cardinality(Committing) \in Nat /\ Cardinality(Committing') \in Nat
      /\ Cardinality(Committing') + Bit(t \in Committing) = Cardinality(Committing) + Bit(t \in Committing')
  <2>1. /\ Committing \in SUBSET Thread /\ Committing' \in SUBSET Thread
        /\ Committing \ {t} = Committing' \ {t}
    BY DEF RestStay, Committing, InStage
  <2>2. QED
    BY <2>1, CardChange
<1>2. Minted' = Minted
  BY DEF Minted
<1>3. Bit(t \in Committing) \in Int /\ Bit(t \in Committing') \in Int
  BY DEF Bit
<1>4. perf_alloc \in Int /\ perf_alloc' \in Int
  BY ChainsTotal, NextChainsTotal
<1>5. perf_alloc' + Cardinality(Committing') = perf_alloc + Cardinality(Committing)
  BY <1>1, <1>3, <1>4 DEF AllocBalance
<1>6. QED
  BY <1>2, <1>5 DEF AllocAgrees

\* A thread's step leaves what the counters say of the others alone.
LEMMA RestStays ==
  ASSUME PoolInv, NEW t \in Thread, PoolStep(t)
  PROVE  RestStay(t)
<1>1. /\ stage \in [Thread -> Stages] /\ ptr \in [Thread -> NodeOrNull]
  BY DEF PoolInv, PoolTypeOK, TypeOK
<1>2. CASE AllocChunk(t) \/ ReuseChunk(t) \/ NewChunk(t) \/ FreedChunk(t) \/ CountFreeList(t)
           \/ CountDetach(t) \/ CountVisit(t) \/ Counted(t) \/ StackStep(t)
           \/ \E n \in held[t] : FreeChunk(t, n)
  <2>1. Start(t) \/ Step(t) \/ Return(t)
    BY <1>2 DEF AllocChunk, ReuseChunk, NewChunk, FreedChunk, CountFreeList, CountDetach,
       CountVisit, Counted, StackStep, FreeChunk, Start, Step
  <2>2. \A u \in Thread \ {t} : stage'[u] = stage[u]
    BY <1>1, <1>2 DEF AllocChunk, ReuseChunk, NewChunk, FreedChunk, CountFreeList, CountDetach,
       CountVisit, Counted, StackStep, FreeChunk, Enter
  <2>3. \A u \in Thread \ {t} : ptr'[u] = ptr[u]
    BY <1>1, <2>1 DEF Start, Step, PopStep, PushStep, EachStep, PopLoad, PopEmpty, PopRead, PopCas,
       PopCasFails, PushLoad, PushLink, PushCas, PushCasFails, EachLoad, EachEmpty, EachCas,
       EachCasFails, EachVisit, EachAdvance, EachDone, Return, CasFails, ptrVars
  <2>4. QED
    BY <2>1, <2>2, <2>3, StackStaysForOthers DEF PoolInv, RestStay
<1>3. CASE NoReservation(t) \/ AssertFails(t) \/ NewCas(t) \/ NewCasFails(t) \/ Commit(t)
           \/ CommitFails(t) \/ \E n \in held[t], v \in NodeOrNull : UseChunk(t, n, v)
  <2>1. UNCHANGED <<pc, ptr, chain>>
    BY <1>3 DEF NoReservation, AssertFails, NewCas, NewCasFails, Commit, CommitFails, UseChunk,
       Overwrite, ptrVars, vars, history
  <2>2. \A u \in Thread \ {t} : stage'[u] = stage[u]
    BY <1>1, <1>3 DEF NoReservation, AssertFails, NewCas, NewCasFails, Commit, CommitFails,
       UseChunk, Enter
  <2>3. QED
    BY <2>1, <2>2 DEF RestStay
<1>4. QED
  BY <1>2, <1>3 DEF PoolStep

\* Nothing of the free list changes, and no operation on it takes effect.
LEMMA ListStays ==
  ASSUME NEW t \in Thread, stack' = stack, chain'[t] = chain[t],
         Freed(t)' = Freed(t), Reused(t)' = Reused(t)
  PROVE  ListBalance(t)
BY DEF ListBalance, Listed

\* Operations start and end.
LEMMA EnterBalances ==
  ASSUME PoolInv, CountInv, NEW t \in Thread, ChunkPushed(t),
         \/ AllocChunk(t) \/ ReuseChunk(t) \/ NewChunk(t) \/ FreedChunk(t)
         \/ CountFreeList(t) \/ Counted(t) \/ \E n \in held[t] : FreeChunk(t, n)
  PROVE  ListBalance(t) /\ AllocBalance(t) /\ ChunkPushed(t)' /\ top' = top
<1>1. /\ pc \in [Thread -> Pcs] /\ stage \in [Thread -> Stages] /\ ptr \in [Thread -> NodeOrNull]
  BY DEF PoolInv, PoolTypeOK, TypeOK
<1>2. /\ UNCHANGED <<stack, chain, perf_alloc, top>>
      /\ pc'[t] \in {"idle", "pop_read", "push_link", "each_cas"}
      /\ stage[t] # "commit" /\ stage'[t] # "commit"
  BY <1>1 DEF AllocChunk, ReuseChunk, NewChunk, FreedChunk, CountFreeList, Counted, FreeChunk,
     InStage, Enter, PopLoad, PushLoad, EachLoad, Return, Goto, history, mmapVars, counters
<1>3. t \notin Pushed' /\ t \notin Popped' /\ ChunkPushed(t)'
  BY <1>2 DEF Pushed, Popped, Uncounted, InStage, At, ChunkPushed
<1>4. AllocBalance(t)
  BY <1>2 DEF AllocBalance, Committing, InStage
<1>5. perf_dealloc \in Int /\ perf_alloc_from_free \in Int
  BY ChainsTotal
<1>6. Bit(TRUE) = 1 /\ Bit(FALSE) = 0
  BY DEF Bit
<1>7. CASE FreedChunk(t)
  <2>1. /\ t \in Pushed /\ t \notin Popped /\ perf_dealloc' = perf_dealloc + 1
        /\ perf_alloc_from_free' = perf_alloc_from_free
    BY <1>7 DEF FreedChunk, ChunkPushed, Pushed, Popped, Uncounted, InStage
  <2>2. Freed(t) = perf_dealloc + 1 /\ Freed(t)' = perf_dealloc' + 0
    BY <1>3, <1>6, <2>1 DEF Freed, Bit
  <2>3. Reused(t)' = Reused(t)
    BY <1>3, <2>1 DEF Reused, Bit
  <2>4. Freed(t)' = Freed(t)
    BY <1>5, <2>1, <2>2
  <2>5. QED
    BY <1>2, <1>3, <1>4, <2>3, <2>4, ListStays
<1>8. CASE ReuseChunk(t)
  <2>1. /\ t \in Popped /\ t \notin Pushed /\ perf_alloc_from_free' = perf_alloc_from_free + 1
        /\ perf_dealloc' = perf_dealloc
    BY <1>8 DEF ReuseChunk, Pushed, Popped, Uncounted, InStage
  <2>2. Reused(t) = perf_alloc_from_free + 1 /\ Reused(t)' = perf_alloc_from_free' + 0
    BY <1>3, <1>6, <2>1 DEF Reused, Bit
  <2>3. Freed(t)' = Freed(t)
    BY <1>3, <2>1 DEF Freed, Bit
  <2>4. Reused(t)' = Reused(t)
    BY <1>5, <2>1, <2>2
  <2>5. QED
    BY <1>2, <1>3, <1>4, <2>3, <2>4, ListStays
<1>9. CASE AllocChunk(t) \/ NewChunk(t) \/ CountFreeList(t) \/ Counted(t)
           \/ \E n \in held[t] : FreeChunk(t, n)
  <2>1. /\ t \notin Popped /\ t \notin Pushed
        /\ UNCHANGED <<perf_alloc_from_free, perf_dealloc>>
    BY <1>9 DEF AllocChunk, NewChunk, CountFreeList, Counted, FreeChunk, Pushed, Popped,
       Uncounted, InStage, mmapVars, counters
  <2>2. Freed(t)' = Freed(t) /\ Reused(t)' = Reused(t)
    BY <1>3, <2>1 DEF Freed, Reused, Bit
  <2>3. QED
    BY <1>2, <1>3, <1>4, <2>2, ListStays
<1>10. QED
  BY <1>7, <1>8, <1>9

\* A step of the stack: p chunks are pushed and q popped, and neither counted.
LEMMA ListMoves ==
  ASSUME PoolInv, NEW t \in Thread, NEW p \in {0, 1}, NEW q \in {0, 1},
         UNCHANGED <<perf_dealloc, perf_alloc_from_free>>,
         Bit(t \in Pushed') = Bit(t \in Pushed) + p,
         Bit(t \in Popped') = Bit(t \in Popped) + q,
         Listed(t)' \in Int, Listed(t) + p = Listed(t)' + q
  PROVE  ListBalance(t)
<1> DEFINE l == Listed(t)      l1 == Listed(t)'   f == perf_dealloc   r == perf_alloc_from_free
           a == Bit(t \in Pushed)    a1 == Bit(t \in Pushed')
           b == Bit(t \in Popped)    b1 == Bit(t \in Popped')
<1>1. /\ l \in Int /\ l1 \in Int /\ f \in Int /\ r \in Int /\ a \in Int /\ b \in Int
  <2>1. Len(stack) \in Int /\ Len(chain[t]) \in Int
    BY DEF PoolInv, PoolTypeOK, TypeOK
  <2>2. l \in Int
    BY <2>1 DEF Listed
  <2>3. QED
    BY <2>2, ChainsTotal DEF Bit
<1>2. a1 = a + p /\ b1 = b + q /\ l + p = l1 + q
  OBVIOUS
<1>3. Freed(t) = f + a /\ Freed(t)' = f + a1 /\ Reused(t) = r + b /\ Reused(t)' = r + b1
  BY DEF Freed, Reused
<1>4. ListBalance(t) <=> (f + a1) + ((r + b) + l) = (f + a) + ((r + b1) + l1)
  BY <1>3 DEF ListBalance
<1> HIDE DEF l, l1, f, r, a, a1, b, b1
<1>5. QED
  BY <1>1, <1>2, <1>4

\* The steps inside the stack.
LEMMA StackBalances ==
  ASSUME PoolInv, CountInv, NEW t \in Thread, ChunkPushed(t),
         CountDetach(t) \/ CountVisit(t) \/ StackStep(t)
  PROVE  ListBalance(t) /\ AllocBalance(t) /\ ChunkPushed(t)' /\ top' = top
<1>1. /\ pc \in [Thread -> Pcs] /\ ptr \in [Thread -> NodeOrNull] /\ walking \in [Thread -> BOOLEAN]
      /\ chain \in [Thread -> Seq(Node)] /\ stack \in Seq(Node)
      /\ Len(chain[t]) \in Nat /\ Len(stack) \in Nat
  BY DEF PoolInv, PoolTypeOK, TypeOK
<1>2. /\ UNCHANGED <<stage, top, counters>> /\ stage[t] \in {"pop", "push", "count"}
      /\ EachCas(t) \/ EachVisit(t) \/ PopStep(t) \/ PushStep(t) \/ EachStep(t)
      /\ InStage(t, "count") \/ PopStep(t) \/ PushStep(t) \/ EachStep(t)
  BY DEF CountDetach, CountVisit, StackStep, mmapVars, InStage
<1>3. AllocBalance(t) /\ top' = top /\ UNCHANGED <<perf_dealloc, perf_alloc_from_free>>
  BY <1>2 DEF AllocBalance, Committing, InStage, counters
<1>4. Counting(t)
  BY DEF CountInv
<1>5. Bit(TRUE) = 1 /\ Bit(FALSE) = 0
  BY DEF Bit
<1>6. CASE InStage(t, "pop")
  <2>1. PopStep(t) /\ t \notin Pushed /\ t \notin Pushed' /\ ChunkPushed(t)'
    BY <1>2, <1>4, <1>6 DEF Counting, InStage, PushStep, EachStep, PushLink, PushCas, PushCasFails,
       EachEmpty, EachCasFails, EachAdvance, EachDone, EachCas, EachVisit, CasFails, At, Pushed,
       Uncounted, ChunkPushed
  <2>2. CASE PopCas(t)
    <3>1. /\ pc[t] = "pop_cas" /\ pc'[t] = "popped" /\ ptr'[t] # Null /\ chain' = chain
          /\ head = curr[t] /\ stack' = Rest(stack)
      BY <1>1, <2>2 DEF PopCas, CasHead, Goto, At, PoolInv, PoolTypeOK, TypeOK
    <3>2. stack # << >>
      BY <3>1 DEF PoolInv, IInv, TypeOK, StackIsList, Linked, First
    <3>3. Len(stack') = Len(stack) - 1
      BY <1>1, <3>1, <3>2, TailFacts DEF Rest
    <3>4. t \notin Popped /\ t \in Popped'
      BY <1>2, <1>6, <3>1 DEF Popped, Uncounted, InStage, At
    <3>5. Listed(t)' \in Int /\ Listed(t) + 0 = Listed(t)' + 1
      BY <1>1, <3>1, <3>3 DEF Listed
    <3>6. Bit(t \in Popped') = Bit(t \in Popped) + 1 /\ Bit(t \in Pushed') = Bit(t \in Pushed) + 0
      BY <1>5, <2>1, <3>4 DEF Bit
    <3>7. ListBalance(t)
      BY <1>3, <3>5, <3>6, ListMoves
    <3>8. QED
      BY <1>3, <2>1, <3>7
  <2>3. CASE PopEmpty(t) \/ PopRead(t) \/ PopCasFails(t)
    <3>1. UNCHANGED <<stack, chain>> /\ t \notin Popped /\ t \notin Popped'
      BY <1>1, <2>3 DEF PopEmpty, PopRead, PopCasFails, CasFails, Goto, At, history, Popped, Uncounted
    <3>2. Freed(t)' = Freed(t) /\ Reused(t)' = Reused(t)
      BY <1>3, <2>1, <3>1 DEF Freed, Reused, Bit
    <3>3. QED
      BY <1>3, <2>1, <3>1, <3>2, ListStays
  <2>4. QED
    BY <2>1, <2>2, <2>3 DEF PopStep
<1>7. CASE ~ InStage(t, "pop")
  <2>1. ~ PopStep(t) /\ t \notin Popped /\ t \notin Popped'
    BY <1>2, <1>4, <1>7 DEF Counting, InStage, PopStep, PopEmpty, PopRead, PopCas, PopCasFails,
       CasFails, At, Popped, Uncounted
  <2>2. CASE PushCas(t)
    <3>1. /\ pc[t] = "push_cas" /\ pc'[t] = "pushed" /\ ptr'[t] = ptr[t] /\ ptr[t] # Null
          /\ ptr[t] \in Node /\ stack' = <<ptr[t]>> \o stack
      BY <1>1, <2>2 DEF PushCas, Goto, At, PoolInv, PoolTypeOK, TypeOK, ptrVars, NodeOrNull
    <3>2. Len(stack') = Len(stack) + 1
      BY <1>1, <3>1, ConsFacts
    <3>3. t \notin Pushed /\ ChunkPushed(t)'
      BY <3>1 DEF Pushed, Uncounted, At, ChunkPushed
    <3>4. CASE walking[t]
      <4>1. InStage(t, "count") /\ t \notin Pushed'
        BY <1>2, <1>4, <3>4 DEF Counting, Pushed, Uncounted, InStage
      <4>2. chain[t] # << >> /\ chain'[t] = Tail(chain[t])
        BY <1>1, <2>2, <3>1, <3>4, PusherOwns DEF PushCas, Rest, PoolInv
      <4>3. Len(chain'[t]) = Len(chain[t]) - 1
        BY <1>1, <4>2, TailFacts
      <4>4. Listed(t)' = Listed(t)
        BY <1>1, <3>2, <4>3 DEF Listed
      <4>5. Freed(t)' = Freed(t) /\ Reused(t)' = Reused(t)
        BY <1>3, <2>1, <3>3, <4>1 DEF Freed, Reused, Bit
      <4>6. QED
        BY <1>3, <3>3, <4>4, <4>5 DEF ListBalance
    <3>5. CASE ~ walking[t]
      <4>1. stage'[t] = "push" /\ t \in Pushed'
        BY <1>2, <1>4, <1>7, <3>1, <3>5 DEF Counting, Pushed, Uncounted, InStage, At
      <4>2. chain' = chain
        BY <2>2, <3>5 DEF PushCas
      <4>3. Listed(t)' \in Int /\ Listed(t) + 1 = Listed(t)' + 0
        BY <1>1, <3>2, <4>2 DEF Listed
      <4>4. Bit(t \in Popped') = Bit(t \in Popped) + 0 /\ Bit(t \in Pushed') = Bit(t \in Pushed) + 1
        BY <1>5, <2>1, <3>3, <4>1 DEF Bit
      <4>5. ListBalance(t)
        BY <1>3, <4>3, <4>4, ListMoves
      <4>6. QED
        BY <1>3, <3>3, <4>5
    <3>6. QED
      BY <3>4, <3>5
  <2>3. CASE EachCas(t)
    <3>1. InStage(t, "count") /\ pc[t] = "each_cas" /\ t \notin Pushed /\ t \notin Pushed'
          /\ ChunkPushed(t)'
      BY <1>2, <1>4, <2>3 DEF EachCas, Counting, InStage, At, Pushed, Uncounted, ChunkPushed, PopStep, PushStep, EachStep
    <3>2. chain[t] = << >>
      BY <1>4, <3>1 DEF Counting, PoolInv, IInv, InHand
    <3>3. Len(chain[t]) = 0 /\ Len(stack') = 0 /\ chain'[t] = stack
      BY <1>1, <2>3, <3>2 DEF EachCas
    <3>4. Listed(t)' = Listed(t)
      BY <1>1, <3>3 DEF Listed
    <3>5. Freed(t)' = Freed(t) /\ Reused(t)' = Reused(t)
      BY <1>3, <2>1, <3>1 DEF Freed, Reused, Bit
    <3>6. QED
      BY <1>3, <3>1, <3>4, <3>5 DEF ListBalance
  <2>4. CASE EachVisit(t) \/ PushLink(t) \/ PushCasFails(t) \/ EachStep(t)
    <3>1. UNCHANGED <<stack, chain>>
      BY <2>4 DEF EachVisit, PushLink, PushCasFails, EachStep, EachEmpty, EachCasFails, EachAdvance,
         EachDone, CasFails, history
    <3>2. t \notin Pushed
      BY <1>4, <2>4 DEF Pushed, Uncounted, Counting, EachVisit, PushLink, PushCasFails, EachStep,
         EachEmpty, EachCasFails, EachAdvance, EachDone, CasFails, At, InStage
    <3>3. pc'[t] # "pushed"
      BY <1>1, <2>4 DEF EachVisit, PushLink, PushCasFails, EachStep, EachEmpty, EachCasFails,
         EachAdvance, EachDone, CasFails, Goto
    <3>4. t \notin Pushed' /\ ChunkPushed(t)'
      BY <3>3 DEF Pushed, Uncounted, At, ChunkPushed
    <3>5. Freed(t)' = Freed(t) /\ Reused(t)' = Reused(t)
      BY <1>3, <2>1, <3>2, <3>4 DEF Freed, Reused, Bit
    <3>6. QED
      BY <1>3, <3>1, <3>4, <3>5, ListStays
  <2>5. QED
    BY <1>2, <2>1, <2>2, <2>3, <2>4 DEF PushStep
<1>8. QED
  BY <1>6, <1>7

\* Cutting a chunk and committing it.
LEMMA CutBalances ==
  ASSUME PoolInv, PoolInv', AllocAgrees, NEW t \in Thread, NewCas(t), RestStay(t)
  PROVE  AllocAgrees'
<1>1. /\ seen[t] \in Node /\ seen[t] = top /\ top # Null /\ top \in Nat
      /\ top + 1 \in 1..(MaxChunk + 1) /\ top + 1 # Null /\ top' = top + 1
  BY NullAssumption, ChunkAssumption, AddressAssumption DEF NewCas, PoolInv, PoolTypeOK
<1>2. Minted = 0..(top - 1) /\ Minted' = 0..top
  BY <1>1 DEF Minted
<1>3. Cardinality(Minted) = top /\ Cardinality(Minted') = top + 1
  <2>1. /\ Cardinality(0..(top - 1)) = (top - 1) - 0 + 1
        /\ Cardinality(0..top) = top - 0 + 1
    BY <1>1, FS_Interval
  <2>2. QED
    BY <1>1, <1>2, <2>1
<1>4. t \notin Committing /\ t \in Committing' /\ perf_alloc' = perf_alloc
  BY DEF NewCas, Committing, InStage, Enter, counters, PoolInv, PoolTypeOK
<1>5. /\ Cardinality(Committing) \in Nat /\ Cardinality(Committing') \in Nat
      /\ Cardinality(Committing') + Bit(t \in Committing) = Cardinality(Committing) + Bit(t \in Committing')
  <2>1. /\ Committing \in SUBSET Thread /\ Committing' \in SUBSET Thread
        /\ Committing \ {t} = Committing' \ {t}
    BY DEF RestStay, Committing, InStage
  <2>2. QED
    BY <2>1, CardChange
<1>6. Cardinality(Committing') + 0 = Cardinality(Committing) + 1
  BY <1>4, <1>5 DEF Bit
<1>7. perf_alloc \in Int
  BY ChainsTotal
<1>8. QED
  BY <1>1, <1>3, <1>4, <1>5, <1>6, <1>7 DEF AllocAgrees

\* A commit that fails under assertions ends the process: only then may the
\* counters and the lists disagree.
LEMMA OutsideBalances ==
  ASSUME PoolInv, PoolInv', CountInv, NEW t \in Thread, ChunkPushed(t), AllocAgrees, RestStay(t),
         \/ NoReservation(t) \/ AssertFails(t) \/ NewCas(t) \/ NewCasFails(t)
         \/ Commit(t) \/ CommitFails(t)
         \/ \E n \in held[t], v \in NodeOrNull : UseChunk(t, n, v)
  PROVE  ListBalance(t) /\ ChunkPushed(t)' /\ (~ Aborted' => AllocAgrees')
<1>1. /\ UNCHANGED <<pc, ptr, stack, chain, perf_dealloc, perf_alloc_from_free>>
      /\ stage[t] \in {"out", "new", "commit"}
      /\ stage'[t] \in {"out", "new", "commit", "aborted"}
  BY DEF PoolInv, PoolTypeOK, NoReservation, AssertFails, NewCas, NewCasFails, Commit,
     CommitFails, UseChunk, Overwrite, InStage, Enter, mmapVars, counters, vars, ptrVars, history
<1>2. t \notin Pushed /\ t \notin Popped /\ t \notin Pushed' /\ t \notin Popped' /\ ChunkPushed(t)'
  BY <1>1 DEF Pushed, Popped, Uncounted, InStage, ChunkPushed
<1>3. Freed(t)' = Freed(t) /\ Reused(t)' = Reused(t)
  BY <1>1, <1>2 DEF Freed, Reused, Bit
<1>4. ListBalance(t)
  BY <1>1, <1>3, ListStays
<1>5. CASE NewCas(t)
  BY <1>2, <1>4, <1>5, CutBalances
<1>6. CASE Commit(t) \/ CommitFails(t)
  <2>1. CASE stage'[t] = "aborted"
    BY <1>2, <1>4, <2>1 DEF Aborted, InStage
  <2>2. CASE stage'[t] # "aborted"
    <3>1. /\ perf_alloc' = perf_alloc + 1 /\ top' = top
          /\ t \in Committing /\ t \notin Committing'
      BY <1>6, <2>2 DEF Commit, CommitFails, Committing, InStage, Enter, PoolInv, PoolTypeOK
    <3>2. perf_alloc \in Int /\ perf_alloc' + 0 = perf_alloc + 1
      BY <3>1, ChainsTotal
    <3>3. AllocBalance(t)
      BY <3>1, <3>2 DEF AllocBalance, Bit
    <3>4. QED
      BY <1>2, <1>4, <3>1, <3>3, AllocStep
  <2>3. QED
    BY <2>1, <2>2
<1>7. CASE \/ NoReservation(t) \/ AssertFails(t) \/ NewCasFails(t)
           \/ \E n \in held[t], v \in NodeOrNull : UseChunk(t, n, v)
  <2>1. perf_alloc' = perf_alloc /\ top' = top /\ t \notin Committing /\ t \notin Committing'
    BY <1>7 DEF NoReservation, AssertFails, NewCasFails, UseChunk, Committing, InStage, Enter,
       mmapVars, counters, PoolInv, PoolTypeOK
  <2>2. AllocBalance(t)
    BY <2>1 DEF AllocBalance, Bit
  <2>3. QED
    BY <1>2, <1>4, <2>1, <2>2, AllocStep
<1>8. QED
  BY <1>5, <1>6, <1>7

LEMMA AgreeStep ==
  ASSUME PoolInv, PoolInv', CountInv, AgreeInv, ~ Aborted, NEW t \in Thread, PoolStep(t)
  PROVE  AgreeInv'
<1>1. RestStay(t) /\ ChunkPushed(t) /\ AllocAgrees /\ ListAgrees
  BY RestStays DEF AgreeInv
<1>2. ListBalance(t) /\ ChunkPushed(t)' /\ (~ Aborted' => AllocAgrees')
  <2>1. CASE \/ NoReservation(t) \/ AssertFails(t) \/ NewCas(t) \/ NewCasFails(t)
             \/ Commit(t) \/ CommitFails(t)
             \/ \E n \in held[t], v \in NodeOrNull : UseChunk(t, n, v)
    BY <1>1, <2>1, OutsideBalances
  <2>2. CASE \/ AllocChunk(t) \/ ReuseChunk(t) \/ NewChunk(t) \/ FreedChunk(t)
             \/ CountFreeList(t) \/ Counted(t) \/ CountDetach(t) \/ CountVisit(t)
             \/ StackStep(t) \/ \E n \in held[t] : FreeChunk(t, n)
    <3>1. ListBalance(t) /\ AllocBalance(t) /\ ChunkPushed(t)' /\ top' = top
      BY <1>1, <2>2, EnterBalances, StackBalances
    <3>2. QED
      BY <1>1, <3>1, AllocStep
  <2>3. QED
    BY <2>1, <2>2 DEF PoolStep
<1>3. ListAgrees'
  BY <1>1, <1>2, ListStep
<1>4. \A u \in Thread : ChunkPushed(u)'
  BY <1>1, <1>2 DEF AgreeInv, RestStay, ChunkPushed, InStage, At
<1>5. QED
  BY <1>2, <1>3, <1>4 DEF AgreeInv

LEMMA AgreeNext == PoolInv /\ PoolInv' /\ CountInv /\ AgreeInv /\ [PoolNext]_poolVars => AgreeInv'
<1> SUFFICES ASSUME PoolInv, PoolInv', CountInv, AgreeInv, [PoolNext]_poolVars PROVE AgreeInv'
  OBVIOUS
<1>1. ASSUME NEW t \in Thread, ~ Aborted, PoolStep(t) PROVE AgreeInv'
  BY <1>1, AgreeStep
<1>2. CASE Stopped \/ UNCHANGED poolVars
  <2>1. UNCHANGED <<stage, pc, ptr, stack, chain, top, perf_alloc, perf_dealloc, perf_alloc_from_free>>
    BY <1>2 DEF Stopped, poolVars, counters, vars
  <2>2. Chains' = Chains /\ Pushed' = Pushed /\ Popped' = Popped /\ Committing' = Committing
        /\ Minted' = Minted /\ Aborted' = Aborted
    BY <2>1 DEF Chains, Pushed, Popped, Uncounted, Committing, Minted, Aborted, InStage, At
  <2>3. \A u \in Thread : ChunkPushed(u)' <=> ChunkPushed(u)
    BY <2>1 DEF ChunkPushed, InStage, At
  <2>4. QED
    BY <2>1, <2>2, <2>3 DEF AgreeInv, AllocAgrees, ListAgrees
<1>3. QED
  BY <1>1, <1>2 DEF PoolNext

LEMMA AgreeInit == PoolInit => AgreeInv
<1> SUFFICES ASSUME PoolInit PROVE AgreeInv
  OBVIOUS
<1>1. /\ \A t \in Thread : stage[t] = "out" /\ chain[t] = << >>
      /\ stack = << >> /\ perf_alloc = 0 /\ perf_dealloc = 0 /\ perf_alloc_from_free = 0
  BY DEF PoolInit, EmptyStack
<1>2. Pushed = {} /\ Popped = {} /\ Committing = {} /\ Minted = {}
  BY <1>1, CountAssumption DEF PoolInit, Pushed, Popped, Uncounted, Committing, Minted, InStage
<1>3. Chains \in [Thread -> Int] /\ \A t \in Thread : Chains[t] = 0
  BY <1>1 DEF Chains
<1>4. Total(Chains) = 0
  BY <1>3, ThreadAssumption, TotalZero
<1>5. Cardinality({}) = 0 /\ Len(stack) = 0
  BY <1>1, FS_EmptySet
<1>6. AllocAgrees /\ ListAgrees
  BY <1>1, <1>2, <1>4, <1>5 DEF AllocAgrees, ListAgrees
<1>7. QED
  BY <1>1, <1>6 DEF AgreeInv, ChunkPushed, InStage

LEMMA AgreeMeans == PoolInv /\ AgreeInv => CountersAgree
<1> SUFFICES ASSUME PoolInv, AgreeInv, ~ Aborted
             PROVE  /\ perf_alloc + Cardinality({t \in Thread : InStage(t, "commit")})
                         = Cardinality(Minted)
                    /\ perf_dealloc + Cardinality(Uncounted("push", "pushed"))
                         = perf_alloc_from_free + Cardinality(Uncounted("pop", "popped"))
                           + Len(stack) + Sum([t \in Thread |-> Len(chain[t])])
  BY DEF CountersAgree
<1>1. perf_alloc + Cardinality({t \in Thread : InStage(t, "commit")}) = Cardinality(Minted)
  BY DEF AgreeInv, AllocAgrees, Committing
<1>2. perf_dealloc + Cardinality(Uncounted("push", "pushed"))
        = (perf_alloc_from_free + Cardinality(Uncounted("pop", "popped")))
          + (Len(stack) + Total(Chains))
  BY DEF AgreeInv, ListAgrees, Pushed, Popped
<1>3. Sum([t \in Thread |-> Len(chain[t])]) = Total(Chains)
  BY Zenon DEF Sum, Total, Chains
<1>4. /\ perf_alloc_from_free \in Int /\ Len(stack) \in Int /\ Total(Chains) \in Int
      /\ Cardinality(Uncounted("pop", "popped")) \in Int
  <2>1. Uncounted("pop", "popped") \in SUBSET Thread
    BY DEF Uncounted
  <2>2. Cardinality(Uncounted("pop", "popped")) \in Nat
    BY <2>1, ThreadAssumption, FS_Subset, FS_CardinalityType
  <2>3. QED
    BY <2>2, ChainsTotal
<1> DEFINE x == perf_dealloc + Cardinality(Uncounted("push", "pushed"))
           a == perf_alloc_from_free    b == Cardinality(Uncounted("pop", "popped"))
           c == Len(stack)              d == Total(Chains)
           e == Sum([t \in Thread |-> Len(chain[t])])
<1>5. x = a + b + c + e
  <2>1. x = (a + b) + (c + d) /\ e = d /\ a \in Int /\ b \in Int /\ c \in Int /\ d \in Int
    BY <1>2, <1>3, <1>4
  <2> HIDE DEF x, a, b, c, d, e
  <2>2. QED
    BY <2>1
<1>6. QED
  BY <1>1, <1>5

\* What the three counters of np::mmap say: perf_alloc is the number of chunks
\* cut, and perf_dealloc less perf_alloc_from_free the length of the free list,
\* the parts being walked included, up to the operations still to be counted.
THEOREM CountersTrue == PoolSpec => []CountersAgree
BY PoolInvariant, CountInit, CountNext, AgreeInit, AgreeNext, AgreeMeans, PTL DEF PoolSpec
=============================================================================
