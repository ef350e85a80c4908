--------------------------- MODULE TlsPool_proofs ---------------------------
(***************************************************************************)
(* Proofs about TlsPool, for any number of threads, chunks and blocks.     *)
(***************************************************************************)
EXTENDS TlsPool, ListsAndSums, TLAPS

-----------------------------------------------------------------------------
(* The chunks, in any program. *)

\* A chunk is new, free, or on the list of one thread, once.  A thread that has
\* no pool yet has no chunks, and no free blocks.
InvChunks ==
  /\ newChunks \intersect freeChunks = {}
  /\ \A t \in Thread :
       /\ Distinct(pools[t])
       /\ Range(pools[t]) \intersect (newChunks \union freeChunks) = {}
       /\ phase[t] = "down" => pools[t] = << >> /\ free[t] = Null
  /\ \A t, u \in Thread : t # u => Range(pools[t]) \intersect Range(pools[u]) = {}

Inv == TypeOK /\ InvChunks

LEMMA WrapType == \A n \in Int : Wrap(n) \in 0..(2^Width - 1)
BY SizesAssumption DEF Wrap

LEMMA HandOutType ==
  ASSUME TypeOK, NEW t \in Thread, NEW b \in Block, HandOut(t, b)
  PROVE  /\ phase' \in [Thread -> {"down", "up", "walk", "return"}]
         /\ allocated' \in [Thread -> 0..(2^Width - 1)]
         /\ link' \in [Block -> Pointer]
         /\ handed' \in [Block -> Nat]
         /\ user' \in [Block -> Thread \union {Null}]
<1>1. allocated' \in [Thread -> 0..(2^Width - 1)]
  <2>1. allocated[t] + 1 \in Int
    BY SizesAssumption DEF TypeOK
  <2>2. Wrap(allocated[t] + 1) \in 0..(2^Width - 1)
    BY <2>1, WrapType
  <2>3. QED
    BY <2>2 DEF TypeOK, HandOut
<1>2. QED
  BY <1>1 DEF TypeOK, HandOut, Started, Pointer

\* A step that leaves the chunks where they are.
LEMMA SameChunks ==
  ASSUME Inv, UNCHANGED <<pools, newChunks, freeChunks>>,
         \A t \in Thread : phase'[t] = "down" => phase[t] = "down" /\ free'[t] = free[t]
  PROVE  InvChunks'
BY DEF Inv, InvChunks

LEMMA AllocStep ==
  ASSUME Inv, NEW t \in Thread, AllocFromFree(t) \/ AllocFromLocal(t) \/ AllocThroughNull(t)
  PROVE  Inv'
<1>1. CASE AllocFromFree(t)
  <2> USE <1>1 DEF AllocFromFree
  <2>1. HandOut(t, free[t]) /\ free[t] \in Block /\ SecondFree(t) \in Pointer
    BY DEF Inv, TypeOK, SecondFree
  <2>2. TypeOK'
    BY <2>1, HandOutType DEF Inv, TypeOK
  <2>3. InvChunks'
    <3>1. phase' = [phase EXCEPT ![t] = "up"] /\ free' = [free EXCEPT ![t] = SecondFree(t)]
      BY <2>1 DEF HandOut, Started
    <3>2. QED
      BY <3>1, SameChunks DEF Inv, TypeOK
  <2>4. QED
    BY <2>2, <2>3 DEF Inv
<1>2. CASE AllocFromLocal(t)
  <2> USE <1>2 DEF AllocFromLocal
  <2> DEFINE c == Head(pools[t])
             b == <<c, carved[c] + 1>>
  <2>1. c \in Chunk /\ carved[c] + 1 \in 1..Slots /\ b \in Block /\ HandOut(t, b)
    <3>1. c \in Chunk /\ carved[c] < Slots
      BY ListRest DEF Inv, TypeOK, HasRoom
    <3>2. QED
      BY <3>1, SizesAssumption DEF Inv, TypeOK, Block
  <2>2. carved' \in [Chunk -> 0..Slots]
    <3>1. carved[c] + 1 \in 0..Slots
      BY <2>1
    <3>2. QED
      BY <3>1 DEF Inv, TypeOK
  <2>3. TypeOK'
    BY <2>1, <2>2, HandOutType DEF Inv, TypeOK
  <2>4. InvChunks'
    BY <2>1, SameChunks DEF Inv, TypeOK, HandOut, Started
  <2>5. QED
    BY <2>3, <2>4 DEF Inv
<1>3. CASE AllocThroughNull(t)
  <2>1. TypeOK' /\ InvChunks'
    BY <1>3, SameChunks DEF AllocThroughNull, threadVars, Inv, TypeOK
  <2>2. QED
    BY <2>1 DEF Inv
<1>4. QED
  BY <1>1, <1>2, <1>3

LEMMA AllocFromGlobalStep ==
  ASSUME Inv, NEW t \in Thread, NEW c \in Chunk, AllocFromGlobal(t, c)
  PROVE  /\ Inv'
         /\ pools'[t] = <<c>> \o pools[t] /\ Range(pools'[t]) = Range(pools[t]) \union {c}
         /\ c \in newChunks \union freeChunks
<1> USE DEF AllocFromGlobal
<1>1. <<c, 1>> \in Block /\ HandOut(t, <<c, 1>>) /\ phase' = [phase EXCEPT ![t] = "up"]
  BY SizesAssumption DEF Block, HandOut, Started
<1>2. /\ c \in newChunks \union freeChunks
      /\ newChunks' \subseteq newChunks \ {c} /\ freeChunks' \subseteq freeChunks \ {c}
  BY DEF TakeChunk, Inv, InvChunks
<1>3. /\ pools' = [pools EXCEPT ![t] = <<c>> \o @] /\ pools[t] \in Seq(Chunk)
      /\ pools \in [Thread -> Seq(Chunk)]
  BY DEF Prepend, Inv, TypeOK
<1>4. /\ <<c>> \o pools[t] \in Seq(Chunk) /\ Distinct(<<c>> \o pools[t])
      /\ Range(<<c>> \o pools[t]) = Range(pools[t]) \union {c}
  <2>1. c \notin Range(pools[t]) /\ Distinct(pools[t])
    BY <1>2 DEF Inv, InvChunks
  <2>2. QED
    BY <1>3, <2>1, ListAdd
<1>5. /\ pools' \in [Thread -> Seq(Chunk)] /\ pools'[t] = <<c>> \o pools[t]
      /\ \A u \in Thread : u # t => pools'[u] = pools[u]
  BY <1>3, <1>4
<1>6. TypeOK'
  <2>1. carved' \in [Chunk -> 0..Slots]
    <3>1. 1 \in 0..Slots
      BY SizesAssumption
    <3>2. QED
      BY <3>1 DEF Inv, TypeOK
  <2>2. newChunks' \subseteq Chunk /\ freeChunks' \subseteq Chunk
    BY <1>2 DEF Inv, TypeOK
  <2>3. QED
    BY <1>1, <1>5, <2>1, <2>2, HandOutType DEF Inv, TypeOK
<1>7. InvChunks'
  <2>1. newChunks' \intersect freeChunks' = {}
    BY <1>2 DEF Inv, InvChunks
  <2>2. ASSUME NEW u \in Thread
        PROVE  /\ Distinct(pools'[u]) /\ Range(pools'[u]) \intersect (newChunks' \union freeChunks') = {}
               /\ phase'[u] = "down" => pools'[u] = << >> /\ free'[u] = Null
    <3>1. CASE u = t
      BY <1>1, <1>2, <1>4, <1>5, <3>1 DEF Inv, InvChunks, TypeOK
    <3>2. CASE u # t
      BY <1>1, <1>2, <1>5, <3>2 DEF Inv, InvChunks, TypeOK
    <3>3. QED
      BY <3>1, <3>2
  <2>3. \A u \in Thread : c \notin Range(pools[u])
    BY <1>2 DEF Inv, InvChunks
  <2>4. \A u, v \in Thread : u # v => Range(pools'[u]) \intersect Range(pools'[v]) = {}
    <3>1. Range(pools'[t]) = Range(pools[t]) \union {c}
      BY <1>4, <1>5
    <3>2. \A u \in Thread : u # t => pools'[u] = pools[u]
      BY <1>5
    <3>3. \A u, v \in Thread : u # v => Range(pools[u]) \intersect Range(pools[v]) = {}
      BY DEF Inv, InvChunks
    <3>4. QED
      BY <2>3, <3>1, <3>2, <3>3
  <2>5. QED
    BY <2>1, <2>2, <2>4 DEF InvChunks, Distinct
<1>8. QED
  BY <1>2, <1>4, <1>5, <1>6, <1>7 DEF Inv

LEMMA FreeStep ==
  ASSUME Inv, NEW t \in Thread, NEW b \in Block, Free(t, b)
  PROVE  Inv'
<1> USE DEF Free
<1>1. phase' = [phase EXCEPT ![t] = "up"] /\ free' = [free EXCEPT ![t] = b]
  BY DEF Started
<1>2. allocated' \in [Thread -> 0..(2^Width - 1)]
  <2>1. allocated[t] - 1 \in Int
    BY SizesAssumption DEF Inv, TypeOK
  <2>2. Uncount(allocated[t]) \in 0..(2^Width - 1)
    BY <2>1, WrapType DEF Uncount
  <2>3. QED
    BY <2>2 DEF Inv, TypeOK
<1>3. handed' \in [Block -> Nat] /\ link' \in [Block -> Pointer]
  BY DEF Inv, TypeOK, LinkFrom
<1>4. TypeOK'
  BY <1>1, <1>2, <1>3 DEF Inv, TypeOK, Pointer
<1>5. InvChunks'
  BY <1>1, SameChunks DEF Inv, TypeOK
<1>6. QED
  BY <1>4, <1>5 DEF Inv

LEMMA ExitStep ==
  ASSUME Inv, NEW t \in Thread, ExitBegin(t) \/ WalkFree(t) \/ WalkDone(t)
  PROVE  Inv'
<1>1. InvChunks'
  BY SameChunks DEF ExitBegin, WalkFree, WalkDone, Inv, TypeOK
<1>2. TypeOK'
  <2>1. CASE ExitBegin(t)
    BY <2>1 DEF ExitBegin, Inv, TypeOK
  <2>2. CASE WalkFree(t)
    <3>1. link[walk[t]] \in Pointer
      BY <2>2 DEF WalkFree, Inv, TypeOK
    <3>2. QED
      BY <2>2, <3>1 DEF WalkFree, Inv, TypeOK
  <2>3. CASE WalkDone(t)
    <3>1. handed' \in [Block -> Nat] /\ user' \in [Block -> Thread \union {Null}]
      BY <2>3 DEF WalkDone, Inv, TypeOK
    <3>2. QED
      BY <2>3, <3>1 DEF WalkDone, Inv, TypeOK
  <2>4. QED
    BY <2>1, <2>2, <2>3
<1>3. QED
  BY <1>1, <1>2 DEF Inv

LEMMA ReturnChunkStep ==
  ASSUME Inv, NEW t \in Thread, ReturnChunk(t)
  PROVE  /\ Inv'
         /\ Head(pools[t]) \in Range(pools[t]) /\ Range(pools'[t]) = Range(pools[t]) \ {Head(pools[t])}
<1> USE DEF ReturnChunk
<1>1. PICK c \in Chunk, s \in Seq(Chunk) :
        /\ c = Head(pools[t]) /\ s = Tail(pools[t]) /\ Range(pools[t]) = Range(s) \union {c}
        /\ Distinct(s) /\ c \notin Range(s)
  <2>1. pools[t] \in Seq(Chunk) /\ pools[t] # << >> /\ Distinct(pools[t])
    BY DEF Inv, TypeOK, InvChunks
  <2>2. QED
    BY <2>1, ListRest
<1>2. /\ freeChunks' = freeChunks \union {c} /\ pools'[t] = s
      /\ \A u \in Thread : u # t => pools'[u] = pools[u]
  BY <1>1 DEF Inv, TypeOK
<1>3. TypeOK'
  BY <1>1, <1>2 DEF Inv, TypeOK
<1>4. InvChunks'
  <2>1. ASSUME NEW u \in Thread
        PROVE  /\ Distinct(pools'[u]) /\ Range(pools'[u]) \intersect (newChunks' \union freeChunks') = {}
               /\ phase'[u] = "down" => pools'[u] = << >> /\ free'[u] = Null
    <3>1. CASE u = t
      BY <1>1, <1>2, <3>1 DEF Inv, InvChunks
    <3>2. CASE u # t
      BY <1>1, <1>2, <3>2 DEF Inv, InvChunks
    <3>3. QED
      BY <3>1, <3>2
  <2>2. newChunks' \intersect freeChunks' = {}
    BY <1>1, <1>2 DEF Inv, InvChunks
  <2>3. \A u, v \in Thread : u # v => Range(pools'[u]) \intersect Range(pools'[v]) = {}
    BY <1>1, <1>2 DEF Inv, InvChunks
  <2>4. QED
    BY <2>1, <2>2, <2>3 DEF InvChunks, Distinct
<1>5. QED
  BY <1>1, <1>2, <1>3, <1>4 DEF Inv

LEMMA ExitDoneStep ==
  ASSUME Inv, NEW t \in Thread, ExitDone(t)
  PROVE  Inv'
<1> USE DEF ExitDone
<1>1. TypeOK'
  <2>1. 0 \in 0..(2^Width - 1)
    BY SizesAssumption
  <2>2. QED
    BY <2>1 DEF Inv, TypeOK, Pointer
<1>2. InvChunks'
  BY DEF Inv, TypeOK, InvChunks
<1>3. QED
  BY <1>1, <1>2 DEF Inv

LEMMA StepKeepsInv == Inv /\ [Next]_vars => Inv'
<1> SUFFICES ASSUME Inv, [Next]_vars PROVE Inv'
  OBVIOUS
<1>1. CASE UNCHANGED vars
  BY <1>1 DEF vars, threadVars, Inv, TypeOK, InvChunks
<1>2. QED
  BY <1>1, AllocStep, AllocFromGlobalStep, FreeStep, ExitStep, ReturnChunkStep, ExitDoneStep
  DEF Next, Crashed

LEMMA InitInv == Init => Inv
<1> SUFFICES ASSUME Init PROVE Inv
  OBVIOUS
<1>1. TypeOK
  <2>1. 0 \in 0..(2^Width - 1) /\ 0 \in 0..Slots
    BY SizesAssumption
  <2>2. QED
    BY <2>1, EmptyList DEF Init, TypeOK, Pointer
<1>2. InvChunks
  BY EmptyList DEF Init, InvChunks
<1>3. QED
  BY <1>1, <1>2 DEF Inv

\* The types, and that no chunk is in two places, in any program.
THEOREM Invariant == Spec => []Inv
<1>1. QED
  BY InitInv, StepKeepsInv, PTL DEF Spec

THEOREM TypeCorrect == Spec => []TypeOK
<1>1. Inv => TypeOK
  BY DEF Inv
<1>2. QED
  BY <1>1, Invariant, PTL

\* A step of a thread is a step of ChunkSupply, or leaves the chunks alone.
LEMMA SupplyStep == Inv /\ [Next]_vars => [Supply!Next]_(Supply!vars)
<1> SUFFICES ASSUME Inv, [Next]_vars PROVE [Supply!Next]_(Supply!vars)
  OBVIOUS
<1> USE DEF Supply!Next, Supply!vars
<1>1. ASSUME UNCHANGED <<pools, newChunks, freeChunks>> PROVE UNCHANGED Supply!vars
  BY <1>1
<1>2. ASSUME NEW t \in Thread, NEW c \in Chunk, AllocFromGlobal(t, c)
      PROVE  Supply!Reuse(t, c) \/ Supply!Cut(t, c)
  <2>1. [u \in Thread |-> Range(pools'[u])] =
          [[u \in Thread |-> Range(pools[u])] EXCEPT ![t] = @ \union {c}]
    BY <1>2, AllocFromGlobalStep DEF AllocFromGlobal, Inv, TypeOK
  <2>2. TakeChunk(c)
    BY <1>2 DEF AllocFromGlobal
  <2>3. QED
    BY <2>1, <2>2 DEF TakeChunk, Supply!Reuse, Supply!Cut
<1>3. ASSUME NEW t \in Thread, ReturnChunk(t)
      PROVE  \E c \in Chunk : Supply!GiveBack(t, c)
  <2>1. PICK c \in Chunk :
          c = Head(pools[t]) /\ c \in Range(pools[t]) /\ Range(pools'[t]) = Range(pools[t]) \ {c}
    <3>1. Head(pools[t]) \in Chunk
      BY <1>3, ListRest DEF ReturnChunk, Inv, TypeOK
    <3>2. QED
      BY <1>3, <3>1, ReturnChunkStep
  <2>2. [u \in Thread |-> Range(pools'[u])] =
          [[u \in Thread |-> Range(pools[u])] EXCEPT ![t] = @ \ {c}]
    BY <1>3, <2>1 DEF ReturnChunk, Inv, TypeOK
  <2>3. QED
    BY <1>3, <2>1, <2>2 DEF ReturnChunk, Supply!GiveBack
<1>4. QED
  BY <1>1, <1>2, <1>3 DEF Next, vars, threadVars, AllocFromFree, AllocFromLocal, AllocThroughNull,
     Free, ExitBegin, WalkFree, WalkDone, ExitDone, Crashed

\* The threads implement ChunkSupply between them (alloc_from_global, deinit).
THEOREM SupplyUsed == Spec => UsesSupply
<1>1. Init => Supply!Init
  BY EmptyList DEF Init, Supply!Init
<1>2. QED
  BY <1>1, SupplyStep, Invariant, PTL DEF Spec, UsesSupply, Supply!Spec

-----------------------------------------------------------------------------
(* The free lists, in programs that free remotely or end threads, not both. *)

ThreadsKept == \A p \in Programs : ~ ({"remote", "exits"} \subseteq p)

\* Thread t has not given up its free list; it has carved block b.
Active(t) == phase[t] # "return"
Has(t, b) == ChunkOf(b) \in Range(pools[t]) /\ b[2] <= carved[ChunkOf(b)]

\* The links from free[t] are those of s, the last of which is null.
Chained(s, t) == RunsFrom(s, free[t], link, Null)

\* L[t] is the free list of t, and F[t] the blocks on it.
Lists(L, F) ==
  /\ L \in [Thread -> Seq(Block)] /\ F \in [Thread -> SUBSET Block]
  /\ \A t \in Thread :
       /\ F[t] = Range(L[t]) /\ Distinct(L[t])
       /\ IF Active(t) THEN Chained(L[t], t) ELSE L[t] = << >>

\* A block that an active thread has carved is in use or on one list.
Places(F) ==
  /\ \A t, u \in Thread : t # u => F[t] \intersect F[u] = {}
  /\ \A b \in Block :
       /\ handed[b] \in {0, 1}
       /\ \A t \in Thread : b \in F[t] => handed[b] = 0
       /\ handed[b] = 1 \/ (\E t \in Thread : b \in F[t])
            <=> \E t \in Thread : Active(t) /\ Has(t, b)

\* A thread that may end has its own blocks in use and on its list, and no others.
Own(F) == "exits" \in program => \A t \in Thread : \A b \in Block :
  Active(t) /\ Has(t, b) =>
    /\ handed[b] = 1 => user[b] = t
    /\ \A u \in Thread : b \in F[u] => u = t

Stay == "exits" \notin program => \A t \in Thread : phase[t] \in {"down", "up"}

FreeLists(L, F) == Lists(L, F) /\ Places(F) /\ Own(F)

IInv == Inv /\ Stay /\ \E L, F : FreeLists(L, F)

LEMMA ChainKept ==
  ASSUME NEW t \in Thread, NEW s \in Seq(Block), Chained(s, t), free'[t] = free[t],
         \A b \in Range(s) : link'[b] = link[b]
  PROVE  Chained(s, t)'
BY RunKept DEF Chained

LEMMA ChainRest ==
  ASSUME NEW t \in Thread, NEW s \in Seq(Block), Chained(s, t), Distinct(s), free[t] \in Block,
         free'[t] = link[free[t]],
         \A b \in Block : b # free[t] => link'[b] = link[b]
  PROVE  /\ s # << >> /\ free[t] = Head(s) /\ Tail(s) \in Seq(Block)
         /\ Range(s) = Range(Tail(s)) \union {free[t]} /\ free[t] \notin Range(Tail(s))
         /\ Distinct(Tail(s)) /\ Chained(Tail(s), t)'
<1>1. free[t] # Null /\ \A b \in Range(s) : b \in Block
  BY NullAssumption, RangeEquality
<1>2. QED
  BY <1>1, RunRest DEF Chained

LEMMA ChainAdd ==
  ASSUME NEW t \in Thread, NEW s \in Seq(Block), Chained(s, t), Distinct(s),
         NEW b \in Block, b \notin Range(s), free'[t] = b, link'[b] = free[t],
         \A d \in Range(s) : link'[d] = link[d]
  PROVE  /\ <<b>> \o s \in Seq(Block) /\ Range(<<b>> \o s) = Range(s) \union {b}
         /\ Distinct(<<b>> \o s) /\ Chained(<<b>> \o s, t)'
BY RunAdd DEF Chained

\* Thread t takes block b, carved by thread o, that is now on no list.
LEMMA HandOutPlaces ==
  ASSUME Inv, Stay, NEW L, NEW F, FreeLists(L, F), NEW G \in [Thread -> SUBSET Block],
         NEW t \in Thread, NEW b \in Block, NEW o \in Thread, Active(t), HandOut(t, b), program' = program,
         handed[b] = 0, \A u \in Thread : G[u] = F[u] \ {b},
         Active(o), \A u \in Thread, d \in Block : Has(u, d)' <=> Has(u, d) \/ (d = b /\ u = o),
         \A u \in Thread : Has(u, b) => u = o,
         "exits" \in program => o = t
  PROVE  Places(G)' /\ Own(G)' /\ Stay' /\ \A u \in Thread : Active(u)' <=> Active(u)
<1>1. /\ phase' = [phase EXCEPT ![t] = "up"] /\ handed'[b] = 1 /\ user'[b] = t
      /\ \A d \in Block : d # b => handed'[d] = handed[d] /\ user'[d] = user[d]
  BY DEF HandOut, Started, Inv, TypeOK
<1>2. \A u \in Thread : Active(u)' <=> Active(u)
  BY <1>1 DEF Active, Inv, TypeOK
<1>3. Stay'
  BY <1>1 DEF Stay, Inv, TypeOK
<1>4. Places(G)'
  <2>1. \A u, v \in Thread : u # v => G[u] \intersect G[v] = {}
    BY DEF FreeLists, Places
  <2>2. ASSUME NEW d \in Block
        PROVE  /\ handed'[d] \in {0, 1}
               /\ \A u \in Thread : d \in G[u] => handed'[d] = 0
               /\ handed'[d] = 1 \/ (\E u \in Thread : d \in G[u])
                    <=> \E u \in Thread : Active(u)' /\ Has(u, d)'
    <3>1. CASE d = b
      BY <1>1, <1>2, <3>1
    <3>2. CASE d # b
      <4>1. /\ handed[d] \in {0, 1}
            /\ \A u \in Thread : d \in F[u] => handed[d] = 0
            /\ handed[d] = 1 \/ (\E u \in Thread : d \in F[u])
                 <=> \E u \in Thread : Active(u) /\ Has(u, d)
        BY DEF FreeLists, Places
      <4>2. \A u \in Thread : d \in G[u] <=> d \in F[u]
        BY <3>2
      <4>3. \A u \in Thread : Active(u)' /\ Has(u, d)' <=> Active(u) /\ Has(u, d)
        BY <1>2, <3>2
      <4>4. QED
        BY <1>1, <3>2, <4>1, <4>2, <4>3
    <3>3. QED
      BY <3>1, <3>2
  <2>3. QED
    BY <2>1, <2>2 DEF Places
<1>5. Own(G)'
  <2>1. SUFFICES ASSUME "exits" \in program, NEW u \in Thread, NEW d \in Block, Active(u)', Has(u, d)'
                 PROVE  /\ handed'[d] = 1 => user'[d] = u
                        /\ \A v \in Thread : d \in G[v] => v = u
    BY DEF Own
  <2>2. CASE d = b
    BY <1>1, <2>1, <2>2
  <2>3. CASE d # b
    BY <1>1, <1>2, <2>1, <2>3 DEF FreeLists, Own
  <2>4. QED
    BY <2>2, <2>3
<1>6. QED
  BY <1>2, <1>3, <1>4, <1>5

LEMMA AllocFromFreeLists ==
  ASSUME Inv, Stay, NEW L, NEW F, FreeLists(L, F), NEW t \in Thread, AllocFromFree(t)
  PROVE  Stay' /\ \E M, G : FreeLists(M, G)'
<1> USE DEF AllocFromFree
<1>1. PICK b \in Block : b = free[t]
  OBVIOUS
<1>2. /\ Active(t) /\ HandOut(t, b) /\ free'[t] = link[b]
      /\ \A u \in Thread : u # t => free'[u] = free[u]
      /\ \A d \in Block : d # b => link'[d] = link[d]
  BY <1>1 DEF Running, Active, HandOut, SecondFree, Inv, TypeOK
<1>3. /\ L \in [Thread -> Seq(Block)] /\ F \in [Thread -> SUBSET Block]
      /\ \A u \in Thread : F[u] = Range(L[u]) /\ Distinct(L[u])
      /\ \A u \in Thread : IF Active(u) THEN Chained(L[u], u) ELSE L[u] = << >>
  BY DEF FreeLists, Lists
<1>4. PICK r \in Seq(Block) :
        F[t] = Range(r) \union {b} /\ b \notin Range(r) /\ Distinct(r) /\ Chained(r, t)'
  <2>1. L[t] \in Seq(Block) /\ Distinct(L[t]) /\ Chained(L[t], t) /\ F[t] = Range(L[t])
    BY <1>2, <1>3
  <2>2. free[t] \in Block /\ free'[t] = link[free[t]] /\ \A d \in Block : d # free[t] => link'[d] = link[d]
    BY <1>1, <1>2
  <2>3. /\ Tail(L[t]) \in Seq(Block)
        /\ Range(L[t]) = Range(Tail(L[t])) \union {free[t]} /\ free[t] \notin Range(Tail(L[t]))
        /\ Distinct(Tail(L[t])) /\ Chained(Tail(L[t]), t)'
    BY <2>1, <2>2, ChainRest, Zenon
  <2>4. QED
    BY <1>1, <2>1, <2>3, Zenon
<1> DEFINE M == [L EXCEPT ![t] = r]
           G == [F EXCEPT ![t] = @ \ {b}]
<1>5. \A u \in Thread : G[u] = F[u] \ {b}
  BY <1>3, <1>4 DEF FreeLists, Places
<1>6. handed[b] = 0 /\ \E o \in Thread : Active(o) /\ Has(o, b)
  BY <1>4 DEF FreeLists, Places
<1>7. PICK o \in Thread : Active(o) /\ Has(o, b)
  BY <1>6
<1>8. \A u \in Thread, d \in Block : Has(u, d)' <=> Has(u, d)
  BY DEF Has
<1>9. \A u \in Thread : Has(u, b) => u = o
  BY <1>7 DEF Has, Inv, InvChunks
<1>10. "exits" \in program => o = t
  BY <1>4, <1>7 DEF FreeLists, Own
<1>11. Places(G)' /\ Own(G)' /\ Stay' /\ \A u \in Thread : Active(u)' <=> Active(u)
  <2>1. G \in [Thread -> SUBSET Block]
    BY <1>3
  <2>2. \A u \in Thread, d \in Block : Has(u, d)' <=> Has(u, d) \/ (d = b /\ u = o)
    BY <1>7, <1>8
  <2> HIDE DEF G
  <2>3. QED
    BY <1>2, <1>5, <1>6, <1>7, <1>9, <1>10, <2>1, <2>2, HandOutPlaces
<1>12. Lists(M, G)'
  <2>1. ASSUME NEW u \in Thread
        PROVE  /\ G[u] = Range(M[u]) /\ Distinct(M[u])
               /\ IF Active(u)' THEN Chained(M[u], u)' ELSE M[u] = << >>
    <3>1. CASE u = t
      BY <1>2, <1>3, <1>4, <1>11, <3>1
    <3>2. CASE u # t
      <4>1. M[u] = L[u] /\ G[u] = F[u] /\ b \notin Range(L[u])
        BY <1>3, <1>5, <3>2
      <4>2. Active(u) => Chained(L[u], u)'
        BY <1>2, <1>3, <3>2, <4>1, ChainKept, RangeEquality
      <4>3. QED
        BY <1>3, <1>11, <4>1, <4>2
    <3>3. QED
      BY <3>1, <3>2
  <2>2. M \in [Thread -> Seq(Block)] /\ G \in [Thread -> SUBSET Block]
    BY <1>3, <1>4
  <2> HIDE DEF M, G
  <2>3. QED
    BY <2>1, <2>2 DEF Lists
<1> HIDE DEF M, G
<1>13. QED
  BY <1>11, <1>12 DEF FreeLists

\* Thread t cuts block b, that was not carved before, from a chunk of its own.
LEMMA CarveLists ==
  ASSUME Inv, Stay, NEW L, NEW F, FreeLists(L, F), NEW t \in Thread, NEW b \in Block, Active(t),
         HandOut(t, b), program' = program, free' = free,
         \A u \in Thread : ~ Has(u, b),
         \A u \in Thread, d \in Block : Has(u, d)' <=> Has(u, d) \/ (d = b /\ u = t)
  PROVE  Stay' /\ FreeLists(L, F)'
<1>1. /\ L \in [Thread -> Seq(Block)] /\ F \in [Thread -> SUBSET Block]
      /\ \A u \in Thread : F[u] = Range(L[u]) /\ Distinct(L[u])
      /\ \A u \in Thread : IF Active(u) THEN Chained(L[u], u) ELSE L[u] = << >>
  BY DEF FreeLists, Lists
<1>2. handed[b] = 0 /\ \A u \in Thread : b \notin F[u]
  BY DEF FreeLists, Places
<1>3. Places(F)' /\ Own(F)' /\ Stay' /\ \A u \in Thread : Active(u)' <=> Active(u)
  <2>1. \A u \in Thread : F[u] = F[u] \ {b}
    BY <1>2
  <2>2. (\A u \in Thread : Has(u, b) => u = t) /\ ("exits" \in program => t = t)
    OBVIOUS
  <2>3. F \in [Thread -> SUBSET Block] /\ handed[b] = 0
    BY <1>1, <1>2
  <2>4. QED
    BY <2>1, <2>2, <2>3, HandOutPlaces
<1>4. ASSUME NEW u \in Thread PROVE IF Active(u)' THEN Chained(L[u], u)' ELSE L[u] = << >>
  <2>1. \A d \in Range(L[u]) : link'[d] = link[d]
    BY <1>1, <1>2 DEF HandOut, Inv, TypeOK
  <2>2. Active(u) => Chained(L[u], u)'
    BY <1>1, <2>1, ChainKept
  <2>3. QED
    BY <1>1, <1>3, <2>2
<1>5. Lists(L, F)'
  BY <1>1, <1>4 DEF Lists
<1>6. QED
  BY <1>3, <1>5 DEF FreeLists

LEMMA AllocFromLocalLists ==
  ASSUME Inv, Stay, NEW L, NEW F, FreeLists(L, F), NEW t \in Thread, AllocFromLocal(t)
  PROVE  Stay' /\ FreeLists(L, F)'
<1> USE DEF AllocFromLocal
<1>1. PICK c \in Chunk : c = Head(pools[t]) /\ c \in Range(pools[t])
  <2>1. pools[t] \in Seq(Chunk) /\ pools[t] # << >>
    BY DEF HasRoom, Inv, TypeOK
  <2>2. QED
    BY <2>1, ListRest
<1>2. PICK k \in Nat : k = carved[c] /\ k + 1 \in 1..Slots
  BY <1>1, SizesAssumption DEF HasRoom, Inv, TypeOK
<1> DEFINE b == <<c, k + 1>>
<1>3. /\ b \in Block /\ b[1] = c /\ b[2] = k + 1 /\ HandOut(t, b) /\ Active(t)
      /\ carved'[c] = k + 1 /\ \A d \in Chunk : d # c => carved'[d] = carved[d]
  BY <1>1, <1>2 DEF Block, Running, Active, Inv, TypeOK
<1>4. \A u \in Thread : c \in Range(pools[u]) => u = t
  BY <1>1 DEF Inv, InvChunks
<1>5. \A u \in Thread : ~ Has(u, b)
  BY <1>2, <1>3 DEF Has, ChunkOf
<1>6. ASSUME NEW u \in Thread, NEW d \in Block
      PROVE  Has(u, d)' <=> Has(u, d) \/ (d = b /\ u = t)
  <2>1. d[1] \in Chunk /\ d[2] \in 1..Slots /\ d = <<d[1], d[2]>>
    BY DEF Block
  <2>2. CASE d[1] = c
    <3>1. Has(u, d) <=> u = t /\ d[2] <= k
      BY <1>1, <1>2, <1>4, <2>2 DEF Has, ChunkOf
    <3>2. Has(u, d)' <=> u = t /\ d[2] <= k + 1
      BY <1>1, <1>3, <1>4, <2>2 DEF Has, ChunkOf
    <3>3. d = b <=> d[2] = k + 1
      BY <1>3, <2>1, <2>2
    <3>4. d[2] <= k + 1 <=> d[2] <= k \/ d[2] = k + 1
      BY <1>2, <2>1
    <3>5. QED
      BY <3>1, <3>2, <3>3, <3>4
  <2>3. CASE d[1] # c
    <3>1. Has(u, d)' <=> Has(u, d)
      BY <1>3, <2>1, <2>3 DEF Has, ChunkOf
    <3>2. d # b
      BY <1>3, <2>3
    <3>3. QED
      BY <3>1, <3>2
  <2>4. QED
    BY <2>2, <2>3
<1> HIDE DEF b
<1>7. QED
  BY <1>3, <1>5, <1>6, CarveLists

LEMMA AllocFromGlobalLists ==
  ASSUME Inv, Stay, NEW L, NEW F, FreeLists(L, F), NEW t \in Thread, NEW c \in Chunk,
         AllocFromGlobal(t, c)
  PROVE  Stay' /\ FreeLists(L, F)'
<1> USE DEF AllocFromGlobal
<1> DEFINE b == <<c, 1>>
<1>1. /\ Range(pools'[t]) = Range(pools[t]) \union {c} /\ c \in newChunks \union freeChunks
      /\ \A u \in Thread : u # t => pools'[u] = pools[u]
  BY AllocFromGlobalStep DEF Inv, TypeOK
<1>2. /\ b \in Block /\ b[1] = c /\ b[2] = 1 /\ HandOut(t, b) /\ Active(t)
      /\ carved'[c] = 1 /\ \A d \in Chunk : d # c => carved'[d] = carved[d]
  BY SizesAssumption DEF Block, Running, Active, Inv, TypeOK
<1>3. \A u \in Thread : c \notin Range(pools[u])
  BY <1>1 DEF Inv, InvChunks
<1>4. \A u \in Thread : ~ Has(u, b)
  BY <1>2, <1>3 DEF Has, ChunkOf
<1>5. ASSUME NEW u \in Thread, NEW d \in Block
      PROVE  Has(u, d)' <=> Has(u, d) \/ (d = b /\ u = t)
  <2>1. d[1] \in Chunk /\ d[2] \in 1..Slots /\ d = <<d[1], d[2]>>
    BY DEF Block
  <2>2. CASE d[1] = c
    <3>1. ~ Has(u, d)
      BY <1>3, <2>2 DEF Has, ChunkOf
    <3>2. Has(u, d)' <=> u = t /\ d[2] <= 1
      BY <1>1, <1>2, <1>3, <2>2 DEF Has, ChunkOf
    <3>3. d = b <=> d[2] = 1
      BY <1>2, <2>1, <2>2
    <3>4. d[2] <= 1 <=> d[2] = 1
      BY <2>1
    <3>5. QED
      BY <3>1, <3>2, <3>3, <3>4
  <2>3. CASE d[1] # c
    <3>1. Has(u, d)' <=> Has(u, d)
      BY <1>1, <1>2, <2>1, <2>3 DEF Has, ChunkOf
    <3>2. d # b
      BY <1>2, <2>3
    <3>3. QED
      BY <3>1, <3>2
  <2>4. QED
    BY <2>2, <2>3
<1> HIDE DEF b
<1>6. QED
  BY <1>2, <1>4, <1>5, CarveLists

LEMMA FreeKeepsLists ==
  ASSUME ThreadsKept, Inv, Stay, NEW L, NEW F, FreeLists(L, F),
         NEW t \in Thread, NEW b \in Block, Free(t, b)
  PROVE  Stay' /\ \E M, G : FreeLists(M, G)'
<1> USE DEF Free
<1>1. /\ Active(t) /\ phase' = [phase EXCEPT ![t] = "up"]
      /\ free'[t] = b /\ \A u \in Thread : u # t => free'[u] = free[u]
      /\ link'[b] = free[t] /\ \A d \in Block : d # b => link'[d] = link[d]
      /\ \A d \in Block : d # b => handed'[d] = handed[d] /\ user'[d] = user[d]
  BY DEF Running, Active, Started, LinkFrom, Inv, TypeOK
<1>2. /\ L \in [Thread -> Seq(Block)] /\ F \in [Thread -> SUBSET Block]
      /\ \A u \in Thread : F[u] = Range(L[u]) /\ Distinct(L[u])
      /\ \A u \in Thread : IF Active(u) THEN Chained(L[u], u) ELSE L[u] = << >>
  BY DEF FreeLists, Lists
<1>3. handed[b] = 1 /\ handed'[b] = 0 /\ \A u \in Thread : b \notin F[u]
  <2>1. handed[b] = 1
    BY DEF FreeLists, Places
  <2>2. handed'[b] = 0
    BY <2>1 DEF Inv, TypeOK
  <2>3. QED
    BY <2>1, <2>2 DEF FreeLists, Places
<1>4. PICK o \in Thread : Active(o) /\ Has(o, b)
  BY <1>3 DEF FreeLists, Places
<1>5. "exits" \in program => o = t
  <2>1. SUFFICES ASSUME "exits" \in program PROVE o = t
    OBVIOUS
  <2>2. user[b] = t
    BY <2>1 DEF ThreadsKept, Inv, TypeOK
  <2>3. QED
    BY <1>3, <1>4, <2>1, <2>2 DEF FreeLists, Own
<1> DEFINE M == [L EXCEPT ![t] = <<b>> \o @]
           G == [F EXCEPT ![t] = @ \union {b}]
<1>6. /\ \A u \in Thread : Active(u)' <=> Active(u)
      /\ \A u \in Thread, d \in Block : Has(u, d)' <=> Has(u, d)
      /\ Stay'
  BY <1>1 DEF Has, Active, Stay, Inv, TypeOK
<1>7. /\ G \in [Thread -> SUBSET Block] /\ G[t] = F[t] \union {b}
      /\ \A u \in Thread : u # t => G[u] = F[u]
  BY <1>2
<1>8. Lists(M, G)'
  <2>1. /\ <<b>> \o L[t] \in Seq(Block) /\ Range(<<b>> \o L[t]) = F[t] \union {b}
        /\ Distinct(<<b>> \o L[t]) /\ Chained(<<b>> \o L[t], t)'
    <3>1. /\ L[t] \in Seq(Block) /\ Chained(L[t], t) /\ Distinct(L[t]) /\ b \notin Range(L[t])
          /\ Range(L[t]) \subseteq Block
      BY <1>1, <1>2, <1>3
    <3>2. \A d \in Range(L[t]) : link'[d] = link[d]
      BY <1>1, <1>2, <1>3, <3>1
    <3>3. PICK s \in Seq(Block) : s = L[t]
      BY <3>1
    <3>4. /\ Chained(s, t) /\ Distinct(s) /\ b \notin Range(s) /\ free'[t] = b /\ link'[b] = free[t]
          /\ \A d \in Range(s) : link'[d] = link[d]
      BY <1>1, <3>1, <3>2, <3>3
    <3>5. /\ <<b>> \o s \in Seq(Block) /\ Range(<<b>> \o s) = Range(s) \union {b}
          /\ Distinct(<<b>> \o s) /\ Chained(<<b>> \o s, t)'
      BY <3>4, ChainAdd
    <3>6. QED
      BY <1>2, <3>3, <3>5
  <2>2. ASSUME NEW u \in Thread
        PROVE  /\ G[u] = Range(M[u]) /\ Distinct(M[u])
               /\ IF Active(u)' THEN Chained(M[u], u)' ELSE M[u] = << >>
    <3>1. CASE u = t
      BY <1>1, <1>2, <1>6, <2>1, <3>1
    <3>2. CASE u # t
      <4>1. M[u] = L[u] /\ G[u] = F[u] /\ b \notin Range(L[u]) /\ Range(L[u]) \subseteq Block
        BY <1>2, <1>3, <3>2
      <4>2. Active(u) => Chained(L[u], u)'
        BY <1>1, <1>2, <3>2, <4>1, ChainKept
      <4>3. QED
        BY <1>2, <1>6, <4>1, <4>2
    <3>3. QED
      BY <3>1, <3>2
  <2>3. M \in [Thread -> Seq(Block)]
    BY <1>2, <2>1
  <2> HIDE DEF M, G
  <2>4. QED
    BY <1>7, <2>2, <2>3 DEF Lists
<1> HIDE DEF M, G
<1>9. Places(G)'
  <2>1. \A u, v \in Thread : u # v => G[u] \intersect G[v] = {}
    BY <1>3, <1>7 DEF FreeLists, Places
  <2>2. ASSUME NEW d \in Block
        PROVE  /\ handed'[d] \in {0, 1}
               /\ \A u \in Thread : d \in G[u] => handed'[d] = 0
               /\ handed'[d] = 1 \/ (\E u \in Thread : d \in G[u])
                    <=> \E u \in Thread : Active(u)' /\ Has(u, d)'
    <3>1. CASE d = b
      BY <1>3, <1>4, <1>6, <1>7, <3>1
    <3>2. CASE d # b
      <4>1. /\ handed[d] \in {0, 1}
            /\ \A u \in Thread : d \in F[u] => handed[d] = 0
            /\ handed[d] = 1 \/ (\E u \in Thread : d \in F[u])
                 <=> \E u \in Thread : Active(u) /\ Has(u, d)
        BY DEF FreeLists, Places
      <4>2. \A u \in Thread : d \in G[u] <=> d \in F[u]
        BY <1>7, <3>2
      <4>3. \A u \in Thread : Active(u)' /\ Has(u, d)' <=> Active(u) /\ Has(u, d)
        BY <1>6
      <4>4. QED
        BY <1>1, <3>2, <4>1, <4>2, <4>3
    <3>3. QED
      BY <3>1, <3>2
  <2>3. QED
    BY <2>1, <2>2 DEF Places
<1>10. Own(G)'
  <2>1. SUFFICES ASSUME "exits" \in program, NEW u \in Thread, NEW d \in Block, Active(u)', Has(u, d)'
                 PROVE  /\ handed'[d] = 1 => user'[d] = u
                        /\ \A v \in Thread : d \in G[v] => v = u
    BY DEF Own
  <2>2. CASE d = b
    <3>1. u = t
      BY <1>4, <1>5, <1>6, <2>1, <2>2 DEF Has, Inv, InvChunks
    <3>2. QED
      BY <1>3, <1>7, <2>2, <3>1
  <2>3. CASE d # b
    BY <1>1, <1>6, <1>7, <2>1, <2>3 DEF FreeLists, Own
  <2>4. QED
    BY <2>2, <2>3
<1>11. QED
  BY <1>6, <1>8, <1>9, <1>10 DEF FreeLists

\* A step that leaves the blocks where they are.
LEMMA SameLists ==
  ASSUME NEW L, NEW F, FreeLists(L, F), UNCHANGED <<program, pools, carved, free, link, handed, user>>,
         \A t \in Thread : Active(t)' <=> Active(t)
  PROVE  FreeLists(L, F)'
<1>1. \A t \in Thread, b \in Block : Has(t, b)' <=> Has(t, b)
  BY DEF Has
<1>2. Lists(L, F)'
  BY DEF FreeLists, Lists, Chained
<1>3. Places(F)' /\ Own(F)'
  BY <1>1 DEF FreeLists, Places, Own
<1>4. QED
  BY <1>2, <1>3 DEF FreeLists

LEMMA ExitBeginLists ==
  ASSUME Inv, Stay, NEW L, NEW F, FreeLists(L, F), NEW t \in Thread,
         ExitBegin(t) \/ WalkFree(t) \/ AllocThroughNull(t)
  PROVE  Stay' /\ FreeLists(L, F)'
<1>1. /\ UNCHANGED <<program, pools, carved, free, link, handed, user>>
      /\ \A u \in Thread : Active(u)' <=> Active(u)
  BY DEF ExitBegin, WalkFree, AllocThroughNull, threadVars, Active, Inv, TypeOK
<1>2. Stay'
  BY DEF ExitBegin, WalkFree, AllocThroughNull, threadVars, Stay, Inv, TypeOK
<1>3. QED
  BY <1>1, <1>2, SameLists

\* The thread's list is given up, with what the thread leaks.
LEMMA WalkDoneLists ==
  ASSUME Inv, Stay, NEW L, NEW F, FreeLists(L, F), NEW t \in Thread, WalkDone(t)
  PROVE  Stay' /\ \E M, G : FreeLists(M, G)'
<1> USE DEF WalkDone
<1> DEFINE M == [L EXCEPT ![t] = << >>]
           G == [F EXCEPT ![t] = {}]
<1>1. "exits" \in program
  BY DEF Stay
<1>2. /\ L \in [Thread -> Seq(Block)] /\ F \in [Thread -> SUBSET Block]
      /\ \A u \in Thread : F[u] = Range(L[u]) /\ Distinct(L[u])
      /\ \A u \in Thread : IF Active(u) THEN Chained(L[u], u) ELSE L[u] = << >>
  BY DEF FreeLists, Lists
<1>3. \A u \in Thread : Active(u)' <=> Active(u) /\ u # t
  BY DEF Active, Inv, TypeOK
<1>4. \A u \in Thread, b \in Block : Has(u, b)' <=> Has(u, b)
  BY DEF Has
<1>5. /\ G[t] = {} /\ M[t] = << >> /\ \A u \in Thread : u # t => G[u] = F[u] /\ M[u] = L[u]
      /\ M \in [Thread -> Seq(Block)] /\ G \in [Thread -> SUBSET Block]
  BY <1>2, EmptyList
<1> HIDE DEF M, G
<1>6. Lists(M, G)'
  <2>1. \A u \in Thread : Chained(L[u], u) => Chained(L[u], u)'
    BY DEF Chained
  <2>2. QED
    BY <1>2, <1>3, <1>5, <2>1, EmptyList DEF Lists
<1>7. \A b \in Block :
        /\ handed[b] = 1 /\ user[b] # t => handed'[b] = 1 /\ user'[b] = user[b]
        /\ ~ (handed[b] = 1 /\ user[b] # t) => handed'[b] = 0
  BY DEF LiveOf, Inv, TypeOK, FreeLists, Places
<1>8. ASSUME NEW u \in Thread, NEW b \in Block, Active(u), Has(u, b)
      PROVE  /\ handed[b] = 1 => user[b] = u
             /\ \A v \in Thread : b \in F[v] => v = u
  BY <1>1, <1>8 DEF FreeLists, Own
<1>9. Places(G)'
  <2>1. ASSUME NEW b \in Block, handed'[b] = 1 \/ \E u \in Thread : b \in G[u]
        PROVE  \E u \in Thread : Active(u)' /\ Has(u, b)'
    <3>1. PICK u \in Thread : Active(u) /\ Has(u, b)
      BY <1>5, <1>7, <2>1 DEF FreeLists, Places
    <3>2. (handed[b] = 1 => user[b] = u) /\ \A v \in Thread : b \in F[v] => v = u
      BY <1>8, <3>1
    <3>3. handed'[b] = 1 => handed[b] = 1 /\ user[b] # t
      BY <1>7
    <3>4. \A v \in Thread : b \in G[v] => v # t /\ b \in F[v]
      BY <1>5
    <3>5. u # t
      BY <2>1, <3>2, <3>3, <3>4
    <3>6. QED
      BY <1>3, <1>4, <3>1, <3>5
  <2>2. ASSUME NEW b \in Block, NEW u \in Thread, Active(u)', Has(u, b)'
        PROVE  handed'[b] = 1 \/ \E v \in Thread : b \in G[v]
    <3>1. Active(u) /\ Has(u, b) /\ u # t
      BY <1>3, <1>4, <2>2
    <3>2. handed[b] = 1 \/ \E v \in Thread : b \in F[v]
      BY <3>1 DEF FreeLists, Places
    <3>3. QED
      BY <1>5, <1>7, <1>8, <3>1, <3>2
  <2>3. \A u, v \in Thread : u # v => G[u] \intersect G[v] = {}
    BY <1>5 DEF FreeLists, Places
  <2>4. \A b \in Block : handed'[b] \in {0, 1} /\ \A u \in Thread : b \in G[u] => handed'[b] = 0
    BY <1>5, <1>7 DEF FreeLists, Places
  <2>5. QED
    BY <2>1, <2>2, <2>3, <2>4 DEF Places
<1>10. Own(G)'
  <2>1. SUFFICES ASSUME NEW u \in Thread, NEW b \in Block, Active(u)', Has(u, b)'
                 PROVE  /\ handed'[b] = 1 => user'[b] = u
                        /\ \A v \in Thread : b \in G[v] => v = u
    BY DEF Own
  <2>2. /\ handed[b] = 1 => user[b] = u
        /\ \A v \in Thread : b \in F[v] => v = u
    BY <1>3, <1>4, <1>8, <2>1
  <2>3. handed'[b] = 1 => handed[b] = 1 /\ user'[b] = user[b]
    BY <1>7
  <2>4. \A v \in Thread : b \in G[v] => b \in F[v]
    BY <1>5
  <2>5. QED
    BY <2>2, <2>3, <2>4
<1>11. Stay'
  BY <1>1 DEF Stay
<1>12. QED
  BY <1>6, <1>9, <1>10, <1>11 DEF FreeLists

\* The chunks that go back hold nothing that is in use or free.
LEMMA ReturnChunkLists ==
  ASSUME Inv, Stay, NEW L, NEW F, FreeLists(L, F), NEW t \in Thread, ReturnChunk(t)
  PROVE  Stay' /\ FreeLists(L, F)'
<1> USE DEF ReturnChunk
<1>1. \A u \in Thread : Active(u)' <=> Active(u)
  BY DEF Active
<1>2. \A u \in Thread, b \in Block : Active(u) => (Has(u, b)' <=> Has(u, b))
  BY DEF Has, Active, Inv, TypeOK
<1>3. Lists(L, F)'
  BY <1>1 DEF FreeLists, Lists, Chained
<1>4. Places(F)' /\ Own(F)' /\ Stay'
  BY <1>1, <1>2 DEF FreeLists, Places, Own, Stay
<1>5. QED
  BY <1>3, <1>4 DEF FreeLists

LEMMA ExitDoneLists ==
  ASSUME Inv, Stay, NEW L, NEW F, FreeLists(L, F), NEW t \in Thread, ExitDone(t)
  PROVE  Stay' /\ FreeLists(L, F)'
<1> USE DEF ExitDone
<1>1. \A u \in Thread : Active(u)' <=> Active(u) \/ u = t
  BY DEF Active, Inv, TypeOK
<1>2. \A u \in Thread, b \in Block : (Has(u, b)' <=> Has(u, b)) /\ ~ Has(t, b)
  BY EmptyList DEF Has
<1>3. Lists(L, F)'
  <2>1. ~ Active(t) /\ L[t] = << >>
    BY DEF Active, FreeLists, Lists
  <2>2. Chained(L[t], t)'
    BY <2>1 DEF Chained, RunsFrom, NodeAt, Inv, TypeOK
  <2>3. \A u \in Thread : u # t /\ Chained(L[u], u) => Chained(L[u], u)'
    BY DEF Chained, Inv, TypeOK
  <2>4. QED
    BY <1>1, <2>1, <2>2, <2>3 DEF FreeLists, Lists
<1>4. Places(F)' /\ Own(F)'
  BY <1>1, <1>2 DEF FreeLists, Places, Own
<1>5. Stay'
  BY DEF Stay, Inv, TypeOK
<1>6. QED
  BY <1>3, <1>4, <1>5 DEF FreeLists

LEMMA StepKeepsIInv == ThreadsKept /\ IInv /\ [Next]_vars => IInv'
<1> SUFFICES ASSUME ThreadsKept, IInv, [Next]_vars PROVE IInv'
  OBVIOUS
<1>1. Inv' /\ Inv /\ Stay
  BY StepKeepsInv DEF IInv
<1>2. PICK L, F : FreeLists(L, F)
  BY DEF IInv
<1> DEFINE Goal == Stay' /\ \E M, G : FreeLists(M, G)'
<1>3. ASSUME NEW t \in Thread, AllocFromFree(t) PROVE Goal
  BY <1>1, <1>2, <1>3, AllocFromFreeLists
<1>4. ASSUME NEW t \in Thread, AllocFromLocal(t) PROVE Goal
  BY <1>1, <1>2, <1>4, AllocFromLocalLists
<1>5. ASSUME NEW t \in Thread, NEW c \in Chunk, AllocFromGlobal(t, c) PROVE Goal
  BY <1>1, <1>2, <1>5, AllocFromGlobalLists
<1>6. ASSUME NEW t \in Thread, NEW b \in Block, Free(t, b) PROVE Goal
  BY <1>1, <1>2, <1>6, FreeKeepsLists
<1>7. ASSUME NEW t \in Thread, ExitBegin(t) \/ WalkFree(t) \/ AllocThroughNull(t) PROVE Goal
  BY <1>1, <1>2, <1>7, ExitBeginLists
<1>8. ASSUME NEW t \in Thread, WalkDone(t) PROVE Goal
  BY <1>1, <1>2, <1>8, WalkDoneLists
<1>9. ASSUME NEW t \in Thread, ReturnChunk(t) PROVE Goal
  BY <1>1, <1>2, <1>9, ReturnChunkLists
<1>10. ASSUME NEW t \in Thread, ExitDone(t) PROVE Goal
  BY <1>1, <1>2, <1>10, ExitDoneLists
<1>11. ASSUME UNCHANGED vars PROVE Goal
  <2>1. FreeLists(L, F)'
    BY <1>2, <1>11, SameLists DEF vars, threadVars, Active
  <2>2. Stay'
    BY <1>1, <1>11 DEF vars, threadVars, Stay
  <2>3. QED
    BY <2>1, <2>2
<1> HIDE DEF Goal
<1>12. Goal
  BY <1>3, <1>4, <1>5, <1>6, <1>7, <1>8, <1>9, <1>10, <1>11 DEF Next, Crashed
<1>13. QED
  BY <1>1, <1>12 DEF Goal, IInv

LEMMA InitIInv == Init => IInv
<1> SUFFICES ASSUME Init PROVE IInv
  OBVIOUS
<1> DEFINE L == [t \in Thread |-> << >>]
           F == [t \in Thread |-> {}]
<1>1. Lists(L, F)
  BY EmptyList DEF Init, Lists, Active, Chained, RunsFrom, NodeAt
<1>2. \A t \in Thread, b \in Block : ~ Has(t, b)
  BY EmptyList DEF Init, Has
<1>3. Places(F) /\ Own(F)
  BY <1>2 DEF Init, Places, Own
<1>4. Stay
  BY DEF Init, Stay
<1> HIDE DEF L, F
<1>5. QED
  BY <1>1, <1>3, <1>4, InitInv DEF IInv, FreeLists

\* The free lists are lists, and apart from each other and from what is in use,
\* if no program both frees remotely and ends threads.
THEOREM FreeListsKept ==
  ASSUME ThreadsKept
  PROVE  Spec => []IInv
<1>1. QED
  BY InitIInv, StepKeepsIInv, PTL DEF Spec

\* A block has one holder (tls_ps_pool::alloc, dealloc).
THEOREM OneHolder ==
  ASSUME ThreadsKept
  PROVE  Spec => []NoDoubleHandOut
<1>1. IInv => NoDoubleHandOut
  <2>1. ASSUME IInv, NEW b \in Block PROVE handed[b] \in {0, 1}
    BY <2>1 DEF IInv, FreeLists, Places
  <2>2. QED
    BY <2>1 DEF NoDoubleHandOut
<1>2. QED
  BY <1>1, FreeListsKept, PTL

\* The chunk of a block in use is on the list of one thread (deinit returns none
\* that another thread has blocks of).
THEOREM LiveKept ==
  ASSUME ThreadsKept
  PROVE  Spec => []LiveChunkKept
<1>1. IInv => LiveChunkKept
  <2> SUFFICES ASSUME IInv, NEW b \in Block, handed[b] > 0
               PROVE  /\ ChunkOf(b) \notin freeChunks
                      /\ Cardinality({t \in Thread : ChunkOf(b) \in Range(pools[t])}) = 1
    BY DEF LiveChunkKept
  <2>1. PICK t \in Thread : ChunkOf(b) \in Range(pools[t])
    BY DEF IInv, FreeLists, Places, Has
  <2>2. {u \in Thread : ChunkOf(b) \in Range(pools[u])} = {t}
    BY <2>1 DEF IInv, Inv, InvChunks
  <2>3. ChunkOf(b) \notin freeChunks
    BY <2>1 DEF IInv, Inv, InvChunks
  <2>4. QED
    BY <2>2, <2>3, FS_Singleton
<1>2. QED
  BY <1>1, FreeListsKept, PTL

-----------------------------------------------------------------------------
(* The report of deinit, in programs that do not free remotely. *)

InvCount == "remote" \notin program => \A t \in Thread :
  Active(t) => allocated[t] = Wrap(Cardinality(LiveOf(t)))

\* A counter of Width bits counts the blocks.
FewBlocks == Cardinality(Block) < 2^Width

LEMMA BlockFinite == IsFiniteSet(Block)
<1>1. IsFiniteSet(1..Slots)
  BY SizesAssumption, FS_Interval
<1>2. IsFiniteSet(Chunk \X (1..Slots))
  BY <1>1, ChunkAssumption, FS_Product
<1>3. QED
  BY <1>2 DEF Block

LEMMA LiveFinite ==
  ASSUME NEW t \in Thread
  PROVE  /\ IsFiniteSet(LiveOf(t)) /\ Cardinality(LiveOf(t)) \in Nat
         /\ Cardinality(LiveOf(t)) <= Cardinality(Block) /\ Cardinality(Block) \in Nat
<1>1. IsFiniteSet(Block)
  BY BlockFinite
<1>2. LiveOf(t) \in SUBSET Block
  BY DEF LiveOf
<1>3. QED
  BY <1>1, <1>2, FS_Subset, FS_CardinalityType

LEMMA WrapSame == \A n \in 0..(2^Width - 1) : Wrap(n) = n
BY SizesAssumption DEF Wrap

LEMMA WrapTwice == \A n \in Int : Wrap(Wrap(n)) = Wrap(n)
BY WrapType, WrapSame

LEMMA WrapSum == \A m, n, k, l \in Int :
  Wrap(m) = Wrap(n) /\ Wrap(k) = Wrap(l) => Wrap(m + k) = Wrap(n + l) /\ Wrap(m - k) = Wrap(n - l)
<1> SUFFICES ASSUME NEW m \in Int, NEW n \in Int, NEW k \in Int, NEW l \in Int,
                    Wrap(m) = Wrap(n), Wrap(k) = Wrap(l)
             PROVE  Wrap(m + k) = Wrap(n + l) /\ Wrap(m - k) = Wrap(n - l)
  OBVIOUS
<1> DEFINE M == 2^Width
<1>1. M \in Nat \ {0} /\ \A x : Wrap(x) = x % M
  BY SizesAssumption DEF Wrap
<1> HIDE DEF M
<1>2. m % M = n % M /\ k % M = l % M
  BY <1>1, Zenon
<1>3. (m + k) % M = (n + l) % M /\ (m - k) % M = (n - l) % M
  BY <1>1, <1>2, ModSum
<1>4. QED
  BY <1>1, <1>3, Zenon

LEMMA WrapStep == \A n, k \in Int : Wrap(Wrap(n) + k) = Wrap(n + k) /\ Wrap(Wrap(n) - k) = Wrap(n - k)
<1>1. ASSUME NEW n \in Int, NEW k \in Int, NEW w \in Int, Wrap(w) = Wrap(n)
      PROVE  Wrap(w + k) = Wrap(n + k) /\ Wrap(w - k) = Wrap(n - k)
  <2>1. ASSUME NEW l \in Int, Wrap(k) = Wrap(l)
        PROVE  Wrap(w + k) = Wrap(n + l) /\ Wrap(w - k) = Wrap(n - l)
    BY <1>1, <2>1, WrapSum
  <2>2. QED
    BY <2>1, Zenon
<1>2. ASSUME NEW n \in Int PROVE Wrap(n) \in Int /\ Wrap(Wrap(n)) = Wrap(n)
  BY WrapType, WrapTwice
<1>3. QED
  BY <1>1, <1>2, Zenon

\* A counter that goes from a to a + k, and one that n is taken from.
LEMMA WrapChange ==
  ASSUME NEW x \in Int, NEW y \in Int, NEW a \in Int, NEW k \in Int, Wrap(x) = Wrap(y)
  PROVE  Wrap(x + (Wrap(a + k) - a)) = Wrap(y + k)
<1> DEFINE d == Wrap(a + k) - a
<1>1. d \in Int /\ Wrap(d) = Wrap(k)
  <2>1. Wrap(a + k) \in Int /\ (a + k) - a = k /\ a + k \in Int
    BY WrapType
  <2>2. Wrap(Wrap(a + k) - a) = Wrap((a + k) - a)
    BY <2>1, WrapStep
  <2>3. QED
    BY <2>1, <2>2
<1> HIDE DEF d
<1>2. Wrap(x + d) = Wrap(y + k)
  BY <1>1, WrapSum
<1>3. QED
  BY <1>2 DEF d

LEMMA WrapRest ==
  ASSUME NEW x \in Int, NEW y \in Int, NEW n \in Int, Wrap(x) = Wrap(y)
  PROVE  Wrap(x - Wrap(n)) = Wrap(y - n)
<1> DEFINE d == Wrap(n)
<1>1. d \in Int /\ Wrap(d) = Wrap(n)
  BY WrapType, WrapTwice
<1> HIDE DEF d
<1>2. Wrap(x - d) = Wrap(y - n)
  BY <1>1, WrapSum
<1>3. QED
  BY <1>2 DEF d

\* allocated_ is counted up with the blocks in use.
LEMMA HandOutCount ==
  ASSUME IInv, IInv', InvCount, NEW t \in Thread, NEW b \in Block, HandOut(t, b), Active(t),
         program' = program
  PROVE  InvCount'
<1>1. /\ phase' = [phase EXCEPT ![t] = "up"] /\ user'[b] = t /\ handed'[b] = handed[b] + 1
      /\ \A d \in Block : d # b => handed'[d] = handed[d] /\ user'[d] = user[d]
      /\ allocated'[t] = Wrap(allocated[t] + 1)
      /\ \A u \in Thread : u # t => allocated'[u] = allocated[u]
  BY DEF HandOut, Started, IInv, Inv, TypeOK
<1>2. handed[b] = 0 /\ handed'[b] = 1
  <2>1. handed'[b] \in {0, 1} /\ handed[b] \in {0, 1}
    BY DEF IInv, FreeLists, Places
  <2>2. QED
    BY <1>1, <2>1
<1>3. \A u \in Thread : u # t => LiveOf(u)' = LiveOf(u)
  BY <1>1, <1>2 DEF LiveOf
<1>4. LiveOf(t)' = LiveOf(t) \union {b} /\ b \notin LiveOf(t)
  BY <1>1, <1>2 DEF LiveOf
<1>5. \A u \in Thread : Active(u)' <=> Active(u)
  BY <1>1 DEF Active, IInv, Inv, TypeOK
<1>6. Cardinality(LiveOf(t)') = Cardinality(LiveOf(t)) + 1
  BY <1>4, LiveFinite, FS_AddElement
<1>7. "remote" \notin program => allocated'[t] = Wrap(Cardinality(LiveOf(t)'))
  <2>1. SUFFICES ASSUME "remote" \notin program PROVE allocated'[t] = Wrap(Cardinality(LiveOf(t)'))
    OBVIOUS
  <2>2. allocated[t] = Wrap(Cardinality(LiveOf(t)))
    BY <2>1 DEF InvCount
  <2>3. Wrap(Wrap(Cardinality(LiveOf(t))) + 1) = Wrap(Cardinality(LiveOf(t)) + 1)
    BY LiveFinite, WrapStep
  <2>4. QED
    BY <1>1, <1>6, <2>2, <2>3
<1>8. QED
  BY <1>1, <1>3, <1>5, <1>7 DEF InvCount

LEMMA FreeCount ==
  ASSUME IInv, InvCount, NEW t \in Thread, NEW b \in Block, Free(t, b)
  PROVE  InvCount'
<1> USE DEF Free
<1>1. /\ phase' = [phase EXCEPT ![t] = "up"] /\ Active(t)
      /\ handed'[b] = handed[b] - 1
      /\ \A d \in Block : d # b => handed'[d] = handed[d] /\ user'[d] = user[d]
      /\ allocated'[t] = Uncount(allocated[t])
      /\ \A u \in Thread : u # t => allocated'[u] = allocated[u]
  BY DEF Running, Active, Started, IInv, Inv, TypeOK
<1>2. SUFFICES ASSUME "remote" \notin program
               PROVE  \A u \in Thread : Active(u)' => allocated'[u] = Wrap(Cardinality(LiveOf(u)'))
  BY DEF InvCount
<1>3. user[b] = t /\ handed[b] = 1 /\ handed'[b] = 0
  <2>1. handed[b] \in {0, 1}
    BY DEF IInv, FreeLists, Places
  <2>2. QED
    BY <1>1, <1>2, <2>1
<1>4. \A u \in Thread : u # t => LiveOf(u)' = LiveOf(u)
  BY <1>1, <1>3 DEF LiveOf
<1>5. LiveOf(t)' = LiveOf(t) \ {b} /\ b \in LiveOf(t)
  BY <1>1, <1>3 DEF LiveOf
<1>6. \A u \in Thread : Active(u)' <=> Active(u)
  BY <1>1 DEF Active, IInv, Inv, TypeOK
<1>7. Cardinality(LiveOf(t)') = Cardinality(LiveOf(t)) - 1 /\ Cardinality(LiveOf(t)') \in Nat
  <2>1. IsFiniteSet(LiveOf(t))
    BY LiveFinite
  <2>2. QED
    BY <1>5, <2>1, FS_RemoveElement, FS_CardinalityType
<1>8. allocated'[t] = Wrap(Cardinality(LiveOf(t)'))
  <2>1. allocated[t] = Wrap(Cardinality(LiveOf(t)))
    BY <1>1, <1>2 DEF InvCount
  <2>2. Wrap(Wrap(Cardinality(LiveOf(t))) - 1) = Wrap(Cardinality(LiveOf(t)) - 1)
    BY LiveFinite, WrapStep
  <2>3. QED
    BY <1>1, <1>7, <2>1, <2>2 DEF Uncount
<1>9. QED
  BY <1>1, <1>2, <1>4, <1>6, <1>8 DEF InvCount

\* A thread that has given up its blocks has none in use when it is done.
LEMMA ExitCount ==
  ASSUME IInv, InvCount, NEW t \in Thread, WalkDone(t) \/ ExitDone(t)
  PROVE  InvCount'
<1>1. ASSUME WalkDone(t) PROVE InvCount'
  <2>1. \A u \in Thread : u # t => LiveOf(u)' = LiveOf(u)
    BY <1>1 DEF WalkDone, LiveOf, IInv, Inv, TypeOK
  <2>2. \A u \in Thread : Active(u)' <=> Active(u) /\ u # t
    BY <1>1 DEF WalkDone, Active, IInv, Inv, TypeOK
  <2>3. UNCHANGED <<program, allocated>>
    BY <1>1 DEF WalkDone
  <2>4. QED
    BY <2>1, <2>2, <2>3 DEF InvCount
<1>2. ASSUME ExitDone(t) PROVE InvCount'
  <2>1. LiveOf(t) = {}
    <3>1. SUFFICES ASSUME NEW b \in Block, handed[b] > 0, user[b] = t PROVE FALSE
      BY DEF LiveOf
    <3>2. "exits" \in program
      BY <1>2 DEF ExitDone, IInv, Stay
    <3>3. PICK L, F : FreeLists(L, F)
      BY DEF IInv
    <3>4. handed[b] = 1
      BY <3>1, <3>3 DEF FreeLists, Places
    <3>5. PICK o \in Thread : Active(o) /\ Has(o, b)
      BY <3>3, <3>4 DEF FreeLists, Places
    <3>6. user[b] = o
      BY <3>2, <3>3, <3>4, <3>5 DEF FreeLists, Own
    <3>7. QED
      BY <1>2, <3>1, <3>5, <3>6 DEF ExitDone, Active
  <2>2. \A u \in Thread : LiveOf(u)' = LiveOf(u)
    BY <1>2 DEF ExitDone, LiveOf
  <2>3. /\ allocated'[t] = 0 /\ \A u \in Thread : u # t => allocated'[u] = allocated[u]
        /\ \A u \in Thread : u # t => (Active(u)' <=> Active(u))
        /\ program' = program
    BY <1>2 DEF ExitDone, Active, IInv, Inv, TypeOK
  <2>4. Cardinality(LiveOf(t)') = 0
    BY <2>1, <2>2, FS_EmptySet
  <2>5. Wrap(0) = 0
    BY SizesAssumption, WrapSame
  <2>6. QED
    BY <2>2, <2>3, <2>4, <2>5 DEF InvCount
<1>3. QED
  BY <1>1, <1>2

LEMMA StepKeepsCount ==
  ASSUME IInv, IInv', InvCount, [Next]_vars
  PROVE  InvCount'
<1>1. ASSUME NEW t \in Thread, AllocFromFree(t) PROVE InvCount'
  BY <1>1, HandOutCount DEF AllocFromFree, Running, Active
<1>2. ASSUME NEW t \in Thread, AllocFromLocal(t) PROVE InvCount'
  <2>1. <<Head(pools[t]), carved[Head(pools[t])] + 1>> \in Block
    <3>1. pools[t] \in Seq(Chunk) /\ pools[t] # << >>
      BY <1>2 DEF AllocFromLocal, HasRoom, IInv, Inv, TypeOK
    <3>2. PICK c \in Chunk : c = Head(pools[t])
      BY <3>1, ListRest
    <3>3. carved[c] + 1 \in 1..Slots
      BY <1>2, <3>2, SizesAssumption DEF AllocFromLocal, HasRoom, IInv, Inv, TypeOK
    <3>4. QED
      BY <3>2, <3>3 DEF Block
  <2>2. PICK b \in Block : HandOut(t, b)
    BY <1>2, <2>1 DEF AllocFromLocal
  <2>3. QED
    BY <1>2, <2>2, HandOutCount DEF AllocFromLocal, Running, Active
<1>3. ASSUME NEW t \in Thread, NEW c \in Chunk, AllocFromGlobal(t, c) PROVE InvCount'
  <2>1. <<c, 1>> \in Block
    BY SizesAssumption DEF Block
  <2>2. QED
    BY <1>3, <2>1, HandOutCount DEF AllocFromGlobal, Running, Active
<1>4. ASSUME UNCHANGED <<program, allocated, handed, user>>,
             \A u \in Thread : Active(u)' <=> Active(u)
      PROVE  InvCount'
  BY <1>4 DEF InvCount, LiveOf
<1>5. ASSUME NEW t \in Thread,
             ExitBegin(t) \/ WalkFree(t) \/ AllocThroughNull(t) \/ ReturnChunk(t) \/ UNCHANGED vars
      PROVE  InvCount'
  <2>1. UNCHANGED <<program, allocated, handed, user>>
    BY <1>5 DEF ExitBegin, WalkFree, AllocThroughNull, ReturnChunk, vars, threadVars
  <2>2. \A u \in Thread : Active(u)' <=> Active(u)
    BY <1>5 DEF ExitBegin, WalkFree, AllocThroughNull, ReturnChunk, vars, threadVars, Active,
       IInv, Inv, TypeOK
  <2>3. QED
    BY <1>4, <2>1, <2>2
<1>6. CASE UNCHANGED vars
  <2>1. \A u \in Thread : Active(u)' <=> Active(u)
    BY <1>6 DEF vars, threadVars, Active
  <2>2. QED
    BY <1>4, <1>6, <2>1 DEF vars, threadVars
<1>7. QED
  BY <1>1, <1>2, <1>3, <1>5, <1>6, FreeCount, ExitCount DEF Next, Crashed

LEMMA InitCount == Init => InvCount
<1> SUFFICES ASSUME Init PROVE InvCount
  OBVIOUS
<1>1. \A t \in Thread : LiveOf(t) = {}
  BY DEF Init, LiveOf
<1>2. Wrap(0) = 0
  BY SizesAssumption, WrapSame
<1>3. QED
  BY <1>1, <1>2, FS_EmptySet DEF Init, InvCount

\* What deinit reports as not freed is what the thread has in use, if no program
\* both frees remotely and ends threads and a counter does not wrap around.
THEOREM LeakReport ==
  ASSUME ThreadsKept, FewBlocks
  PROVE  Spec => LeakReportIsTrue
<1>1. FewBlocks /\ IInv /\ InvCount /\ [Next]_vars =>
        [\A t \in Thread : phase[t] = "walk" /\ phase'[t] = "return" =>
           allocated[t] = Cardinality(LiveOf(t))]_vars
  <2>1. SUFFICES ASSUME FewBlocks, IInv, InvCount, NEW t \in Thread, phase[t] = "walk"
                 PROVE  allocated[t] = Cardinality(LiveOf(t))
    OBVIOUS
  <2>2. "exits" \in program
    BY <2>1 DEF IInv, Stay
  <2>3. "remote" \notin program
    BY <2>1, <2>2 DEF ThreadsKept, IInv, Inv, TypeOK
  <2>4. allocated[t] = Wrap(Cardinality(LiveOf(t)))
    BY <2>1, <2>3 DEF InvCount, Active
  <2>5. Cardinality(LiveOf(t)) \in 0..(2^Width - 1)
    BY <2>1, LiveFinite, SizesAssumption DEF FewBlocks
  <2>6. QED
    BY <2>4, <2>5, WrapSame
<1>2. QED
  BY <1>1, InitIInv, InitCount, StepKeepsIInv, StepKeepsCount, PTL DEF Spec, LeakReportIsTrue

-----------------------------------------------------------------------------
(* The sum of the counters, in programs that free remotely or end threads, *)
(* not both.                                                               *)

Counters == [t \in Thread |-> Counted(t)]

LEMMA CountersType ==
  ASSUME Inv
  PROVE  /\ Counters \in [Thread -> Int] /\ handed \in [Block -> Int]
         /\ Total(Counters) \in Int /\ Total(handed) \in Int
         /\ AllocatedAddsUp <=> Wrap(Total(Counters)) = Wrap(Total(handed))
<1>1. Counters \in [Thread -> Int]
  BY SizesAssumption DEF Counters, Counted, Inv, TypeOK
<1>2. handed \in [Block -> Int]
  BY DEF Inv, TypeOK
<1>3. Total(Counters) \in Int /\ Total(handed) \in Int
  BY <1>1, <1>2, BlockFinite, ThreadAssumption, TotalType
<1>4. AllocatedAddsUp <=> Wrap(Total(Counters)) = Wrap(Total(handed))
  BY Zenon DEF AllocatedAddsUp, SumOver, Total, Counters
<1>5. QED
  BY <1>1, <1>2, <1>3, <1>4

LEMMA NextCountersType ==
  ASSUME Inv'
  PROVE  /\ Counters' \in [Thread -> Int] /\ handed' \in [Block -> Int]
         /\ Total(Counters') \in Int /\ Total(handed') \in Int
         /\ AllocatedAddsUp' <=> Wrap(Total(Counters')) = Wrap(Total(handed'))
<1>1. Counters' \in [Thread -> Int]
  BY SizesAssumption DEF Counters, Counted, Inv, TypeOK
<1>2. handed' \in [Block -> Int]
  BY DEF Inv, TypeOK
<1>3. Total(Counters') \in Int /\ Total(handed') \in Int
  BY <1>1, <1>2, BlockFinite, ThreadAssumption, TotalType
<1>4. AllocatedAddsUp' <=> Wrap(Total(Counters')) = Wrap(Total(handed'))
  <2>1. AllocatedAddsUp' <=> Wrap(SumOver(Counters')) = Wrap(SumOver(handed'))
    BY DEF AllocatedAddsUp, Counters
  <2>2. \A f : SumOver(f) = Total(f)
    BY Zenon DEF SumOver, Total
  <2>3. QED
    BY <2>1, <2>2
<1>5. QED
  BY <1>1, <1>2, <1>3, <1>4

\* The counter of thread t and the holders of block b change by k.
LEMMA CountStep ==
  ASSUME Inv, Inv', AllocatedAddsUp, NEW t \in Thread, NEW b \in Block, NEW k \in Int,
         Counted(t)' = Wrap(Counted(t) + k), \A u \in Thread \ {t} : Counted(u)' = Counted(u),
         handed'[b] = handed[b] + k, \A d \in Block \ {b} : handed'[d] = handed[d]
  PROVE  AllocatedAddsUp'
<1> DEFINE a == Counters[t]
<1>1. /\ Counters \in [Thread -> Int] /\ handed \in [Block -> Int]
      /\ Counters' \in [Thread -> Int] /\ handed' \in [Block -> Int]
      /\ Total(Counters) \in Int /\ Total(handed) \in Int
  BY CountersType, NextCountersType
<1>2. /\ Counters'[t] = Wrap(a + k) /\ a \in Int /\ Wrap(a + k) \in Int
      /\ \A u \in Thread \ {t} : Counters'[u] = Counters[u]
  BY <1>1, WrapType DEF Counters
<1>3. Total(Counters') = Total(Counters) + (Wrap(a + k) - a)
  BY <1>1, <1>2, ThreadAssumption, TotalChange
<1>4. Total(handed') = Total(handed) + k
  <2>1. Total(handed') = Total(handed) + (handed'[b] - handed[b])
    BY <1>1, BlockFinite, TotalChange
  <2>2. QED
    BY <1>1, <2>1
<1>5. Wrap(Total(Counters)) = Wrap(Total(handed))
  BY CountersType
<1>6. Wrap(Total(Counters) + (Wrap(a + k) - a)) = Wrap(Total(handed) + k)
  BY <1>1, <1>2, <1>5, WrapChange
<1>7. QED
  BY <1>3, <1>4, <1>6, NextCountersType

\* The thread's counter no longer counts, nor does what it has leaked.
LEMMA WalkDoneSum ==
  ASSUME IInv, Inv', InvCount, AllocatedAddsUp, NEW t \in Thread, WalkDone(t), "remote" \notin program
  PROVE  AllocatedAddsUp'
<1> DEFINE n == Cardinality(LiveOf(t))
<1>1. /\ Counters \in [Thread -> Int] /\ handed \in [Block -> Int]
      /\ Counters' \in [Thread -> Int] /\ handed' \in [Block -> Int]
      /\ Total(Counters) \in Int /\ Total(handed) \in Int
      /\ Total(Counters') \in Int /\ Total(handed') \in Int
  <2>1. Inv /\ Inv'
    BY DEF IInv
  <2>2. QED
    BY <2>1, CountersType, NextCountersType
<1>2. Counters[t] = Wrap(n) /\ n \in Int /\ Wrap(n) \in Int
  BY LiveFinite, WrapType DEF WalkDone, Counters, Counted, InvCount, Active
<1>3. Counters'[t] = 0 /\ \A u \in Thread \ {t} : Counters'[u] = Counters[u]
  BY DEF WalkDone, Counters, Counted, IInv, Inv, TypeOK
<1>4. Total(Counters') = Total(Counters) + (0 - Wrap(n))
  BY <1>1, <1>2, <1>3, ThreadAssumption, TotalChange
<1>5. Total(handed) = Total(handed') + n
  <2>1. LiveOf(t) \in SUBSET Block
    BY DEF LiveOf
  <2>2. \A b \in LiveOf(t) : handed[b] = handed'[b] + 1
    BY DEF WalkDone, LiveOf, IInv, FreeLists, Places
  <2>3. \A b \in Block \ LiveOf(t) : handed[b] = handed'[b]
    BY DEF WalkDone
  <2>4. QED
    BY <1>1, <2>1, <2>2, <2>3, BlockFinite, TotalMore
<1> HIDE DEF n
<1>6. Wrap(Total(Counters) - Wrap(n)) = Wrap(Total(handed) - n)
  <2>1. Wrap(Total(Counters)) = Wrap(Total(handed))
    BY CountersType DEF IInv
  <2>2. QED
    BY <1>1, <1>2, <2>1, WrapRest
<1>7. Total(Counters) - Wrap(n) = Total(Counters') /\ Total(handed) - n = Total(handed')
  BY <1>1, <1>2, <1>4, <1>5
<1>8. QED
  BY <1>6, <1>7, NextCountersType

LEMMA StepKeepsSum ==
  ASSUME ThreadsKept, IInv, IInv', InvCount, AllocatedAddsUp, [Next]_vars
  PROVE  AllocatedAddsUp'
<1>1. Inv /\ Inv' /\ TypeOK
  BY DEF IInv, Inv
<1>2. ASSUME NEW t \in Thread, NEW b \in Block, Running(t), HandOut(t, b) PROVE AllocatedAddsUp'
  <2>1. Counted(t)' = Wrap(Counted(t) + 1) /\ \A u \in Thread \ {t} : Counted(u)' = Counted(u)
    BY <1>1, <1>2 DEF Running, HandOut, Started, Counted, TypeOK
  <2>2. handed'[b] = handed[b] + 1 /\ \A d \in Block \ {b} : handed'[d] = handed[d]
    BY <1>1, <1>2 DEF HandOut, TypeOK
  <2>3. QED
    BY <1>1, <2>1, <2>2, CountStep
<1>3. ASSUME NEW t \in Thread, AllocFromFree(t) PROVE AllocatedAddsUp'
  BY <1>2, <1>3 DEF AllocFromFree
<1>4. ASSUME NEW t \in Thread, AllocFromLocal(t) PROVE AllocatedAddsUp'
  <2>1. PICK c \in Chunk : c = Head(pools[t])
    BY <1>1, <1>4, ListRest DEF AllocFromLocal, HasRoom, TypeOK
  <2>2. <<c, carved[c] + 1>> \in Block
    <3>1. carved[c] + 1 \in 1..Slots
      BY <1>1, <1>4, <2>1, SizesAssumption DEF AllocFromLocal, HasRoom, TypeOK
    <3>2. QED
      BY <3>1 DEF Block
  <2>3. QED
    BY <1>2, <1>4, <2>1, <2>2 DEF AllocFromLocal
<1>5. ASSUME NEW t \in Thread, NEW c \in Chunk, AllocFromGlobal(t, c) PROVE AllocatedAddsUp'
  <2>1. <<c, 1>> \in Block
    BY SizesAssumption DEF Block
  <2>2. QED
    BY <1>2, <1>5, <2>1 DEF AllocFromGlobal
<1>6. ASSUME NEW t \in Thread, NEW b \in Block, Free(t, b) PROVE AllocatedAddsUp'
  <2>1. Counted(t) \in Int /\ Counted(t) - 1 = Counted(t) + (-1) /\ handed[b] - 1 = handed[b] + (-1)
    BY <1>1, SizesAssumption DEF Counted, TypeOK
  <2>2. Counted(t)' = Wrap(Counted(t) - 1) /\ \A u \in Thread \ {t} : Counted(u)' = Counted(u)
    BY <1>1, <1>6 DEF Free, Running, Uncount, Started, Counted, TypeOK
  <2>3. handed'[b] = handed[b] - 1 /\ \A d \in Block \ {b} : handed'[d] = handed[d]
    BY <1>1, <1>6 DEF Free, TypeOK
  <2>4. QED
    BY <1>1, <2>1, <2>2, <2>3, CountStep
<1>7. ASSUME NEW t \in Thread, WalkDone(t) PROVE AllocatedAddsUp'
  <2>1. "exits" \in program /\ "remote" \notin program
    BY <1>1, <1>7 DEF WalkDone, IInv, Stay, ThreadsKept, TypeOK
  <2>2. QED
    BY <1>1, <1>7, <2>1, WalkDoneSum
<1>8. ASSUME UNCHANGED handed, \A u \in Thread : Counted(u)' = Counted(u) PROVE AllocatedAddsUp'
  <2>1. Counters' = Counters
    BY <1>8 DEF Counters
  <2>2. QED
    BY <1>1, <1>8, <2>1, CountersType, NextCountersType
<1>9. ASSUME NEW t \in Thread,
             ExitBegin(t) \/ WalkFree(t) \/ AllocThroughNull(t) \/ ReturnChunk(t) \/ ExitDone(t)
      PROVE  AllocatedAddsUp'
  <2>1. UNCHANGED handed
    BY <1>9 DEF ExitBegin, WalkFree, AllocThroughNull, ReturnChunk, ExitDone
  <2>2. \A u \in Thread : Counted(u)' = Counted(u)
    BY <1>1, <1>9 DEF ExitBegin, WalkFree, AllocThroughNull, ReturnChunk, ExitDone, threadVars,
       Counted, TypeOK
  <2>3. QED
    BY <1>8, <2>1, <2>2
<1>10. CASE UNCHANGED vars
  BY <1>8, <1>10 DEF vars, threadVars, Counted
<1>11. QED
  BY <1>3, <1>4, <1>5, <1>6, <1>7, <1>9, <1>10 DEF Next, Crashed

LEMMA InitSum == Init => AllocatedAddsUp
<1> SUFFICES ASSUME Init PROVE AllocatedAddsUp
  OBVIOUS
<1>1. Inv
  BY InitInv
<1>2. (\A t \in Thread : Counters[t] = 0) /\ \A b \in Block : handed[b] = 0
  BY DEF Init, Counters, Counted
<1>3. Total(Counters) = 0 /\ Total(handed) = 0
  BY <1>1, <1>2, CountersType, BlockFinite, ThreadAssumption, TotalZero
<1>4. QED
  BY <1>1, <1>3, CountersType

\* The counters add up to the blocks in use, whatever has wrapped around, if no
\* program both frees remotely and ends threads (++allocated_, --allocated_).
THEOREM CountersAddUp ==
  ASSUME ThreadsKept
  PROVE  Spec => []AllocatedAddsUp
<1>1. IInv /\ InvCount /\ AllocatedAddsUp /\ IInv' /\ [Next]_vars => AllocatedAddsUp'
  BY StepKeepsSum
<1>2. QED
  BY <1>1, InitIInv, InitCount, InitSum, StepKeepsIInv, StepKeepsCount, PTL DEF Spec

-----------------------------------------------------------------------------
(* The blocks on a free list. *)

\* A chained list without repetitions is what OnList finds.
LEMMA OnListFinds ==
  ASSUME NEW t \in Thread, NEW s \in Seq(Block), Chained(s, t), Distinct(s)
  PROVE  OnList(free[t]) = Range(s)
<1> DEFINE N == Cardinality(Block)
<1>1. N \in Nat /\ Len(s) \in Nat /\ Len(s) <= N
  BY BlockFinite, DistinctLength, FS_CardinalityType
<1>2. /\ \E g : Reaches(g, free[t], link, Block, N)
      /\ \A g : Reaches(g, free[t], link, Block, N) => g[N] \intersect Block = Range(s)
  <2>1. Null \notin Block /\ RunsFrom(s, free[t], link, Null)
    BY NullAssumption, Zenon DEF Chained
  <2> HIDE DEF N
  <2>2. ReachesList(s, free[t], link, Block, N)
    BY <1>1, <2>1, LinksReach
  <2>3. QED
    BY <2>2, Zenon DEF ReachesList
<1>3. \E g : Reaches(g, free[t], link, Block, N) /\ OnList(free[t]) = g[N] \intersect Block
  BY <1>2, Zenon DEF OnList, Reaches
<1>4. QED
  BY <1>2, <1>3

\* A block that a running thread has carved is in use or on the list of one
\* running thread, and not both (alloc_from_local_pool, alloc, dealloc).
THEOREM CarvedIsSomewhere ==
  ASSUME ThreadsKept
  PROVE  Spec => []CarvedOnce
<1>1. IInv => CarvedOnce
  <2> SUFFICES ASSUME IInv, NEW t \in Thread, phase[t] = "up", NEW b \in Block, Has(t, b)
               PROVE  LET lists == {u \in Thread : phase[u] = "up" /\ b \in OnList(free[u])} IN
                      handed[b] + Cardinality(lists) = 1
    BY DEF CarvedOnce, Has
  <2> DEFINE lists == {u \in Thread : phase[u] = "up" /\ b \in OnList(free[u])}
  <2>1. PICK L, F : FreeLists(L, F)
    BY DEF IInv
  <2>2. \A u \in Thread : phase[u] = "up" => OnList(free[u]) = F[u]
    <3>1. SUFFICES ASSUME NEW u \in Thread, phase[u] = "up" PROVE OnList(free[u]) = F[u]
      OBVIOUS
    <3>2. L[u] \in Seq(Block) /\ Chained(L[u], u) /\ Distinct(L[u]) /\ F[u] = Range(L[u])
      BY <2>1, <3>1 DEF FreeLists, Lists, Active
    <3>3. QED
      BY <3>2, OnListFinds
  <2>3. \A u \in Thread : b \in F[u] => phase[u] = "up"
    <3>1. SUFFICES ASSUME NEW u \in Thread, b \in F[u], phase[u] # "up" PROVE FALSE
      OBVIOUS
    <3>2. /\ L[u] \in Seq(Block) /\ F[u] = Range(L[u])
          /\ IF Active(u) THEN Chained(L[u], u) ELSE L[u] = << >>
      BY <2>1 DEF FreeLists, Lists
    <3>3. L[u] # << >> /\ Len(L[u]) \in Nat \ {0} /\ L[u][1] \in Block
      <4>1. L[u] # << >>
        BY <3>1, <3>2, EmptyList
      <4>2. QED
        BY <3>2, <4>1, EmptySeq
    <3>4. Active(u) /\ free[u] = L[u][1]
      BY <3>2, <3>3 DEF Chained, RunsFrom, NodeAt
    <3>5. phase[u] = "walk"
      BY <3>1, <3>3, <3>4, NullAssumption DEF IInv, Inv, TypeOK, InvChunks, Active
    <3>6. "exits" \in program
      BY <3>5 DEF IInv, Stay
    <3>7. u = t
      BY <2>1, <3>1, <3>6 DEF FreeLists, Own, Active
    <3>8. QED
      BY <3>1, <3>7
  <2>4. lists = {u \in Thread : b \in F[u]}
    BY <2>2, <2>3
  <2>5. /\ handed[b] \in {0, 1}
        /\ \A u \in Thread : b \in F[u] => handed[b] = 0
        /\ handed[b] = 1 \/ \E u \in Thread : b \in F[u]
        /\ \A u, v \in Thread : u # v => F[u] \intersect F[v] = {}
    BY <2>1 DEF FreeLists, Places, Active
  <2>6. CASE handed[b] = 1
    <3>1. lists = {} /\ Cardinality({}) = 0
      BY <2>4, <2>5, <2>6, FS_EmptySet
    <3>2. QED
      BY <2>6, <3>1
  <2>7. CASE handed[b] = 0
    <3>1. PICK u \in Thread : b \in F[u]
      BY <2>5, <2>7
    <3>2. lists = {u}
      BY <2>4, <2>5, <3>1
    <3>3. Cardinality({u}) = 1
      BY FS_Singleton
    <3>4. QED
      BY <2>7, <3>2, <3>3
  <2>8. QED
    BY <2>5, <2>6, <2>7
<1>2. QED
  BY <1>1, FreeListsKept, PTL
=============================================================================
