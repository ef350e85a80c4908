------------------------- MODULE BlockLayout_proofs -------------------------
(***************************************************************************)
(* Proofs about SizeTable, for every list of increasing sizes, about the   *)
(* list SizeClasses gives it, for any cache line and any largest size, and *)
(* about BlockLayout, for any sizes of blocks, chunks, headers and fences, *)
(* any requests and any numbers of chunks and blocks.                      *)
(*                                                                         *)
(* The loops of thread_local_pool::init leave a table in which each size   *)
(* finds the smallest block that holds it; get_alloc_size_list makes such  *)
(* a list, its sizes a quarter apart at most.  Blocks lie in chunks at     *)
(* distances that are multiples of their size: they do not overlap, and    *)
(* what is written to one is not written to another.                       *)
(***************************************************************************)
EXTENDS BlockLayout, ListsAndSums

-----------------------------------------------------------------------------
(* The table that init builds. *)

LEMMA SizesFacts ==
  /\ Len(Sizes) \in Nat \ {0}
  /\ Len(Sizes) \in Pools
  /\ Largest \in Nat \ {0}
  /\ \A p \in Pools : Sizes[p] \in Nat \ {0} /\ Sizes[p] <= Largest
<1>1. /\ Len(Sizes) \in Nat \ {0}
      /\ \A p \in Pools : Sizes[p] \in Nat \ {0}
  BY SizesAssumption DEF Pools
<1>2. Len(Sizes) \in Pools
  BY <1>1 DEF Pools
<1>3. \A p \in Pools : Sizes[p] <= Largest
  BY <1>1, <1>2, SizesAssumption DEF Pools, Largest
<1> QED
  BY <1>1, <1>2, <1>3 DEF Largest

LEMMA InitInv == Init => IInv
<1> SUFFICES ASSUME Init PROVE IInv
  OBVIOUS
<1>1. TypeOK
  BY SizesFacts DEF Init, TypeOK
<1>2. MaxSoFar /\ LoopsInOrder
  BY SizesFacts DEF Init, MaxSoFar, LoopsInOrder
<1>3. FilledBelow
  BY SizesFacts DEF Init, FilledBelow, Pools, Ready
<1> QED
  BY <1>1, <1>2, <1>3 DEF IInv

LEMMA MakePoolInv == ASSUME IInv, MakePool PROVE IInv'
<1>1. TypeOK'
  BY SizesFacts DEF IInv, MakePool, TypeOK, Pools
<1>2. MaxSoFar'
  <2>1. made = 0 \/ (made \in Pools /\ Sizes[made] < Sizes[made + 1])
    BY SizesFacts, SizesAssumption DEF IInv, MakePool, TypeOK, Pools
  <2>2. Sizes[made + 1] \in Nat \ {0}
    BY SizesFacts DEF IInv, MakePool, TypeOK, Pools
  <2> QED
    BY <2>1, <2>2, SizesFacts DEF IInv, MakePool, TypeOK, MaxSoFar
<1>3. LoopsInOrder' /\ FilledBelow'
  BY SizesFacts DEF IInv, MakePool, TypeOK, LoopsInOrder, FilledBelow, Pools, Ready
<1> QED
  BY <1>1, <1>2, <1>3 DEF IInv

LEMMA MakeTableInv == ASSUME IInv, MakeTable PROVE IInv'
<1>1. max_alloc_size = Largest
  BY SizesFacts DEF IInv, MakeTable, MaxSoFar, Largest
<1>2. TypeOK'
  BY <1>1, SizesFacts DEF IInv, MakeTable, TypeOK, Pools
<1>3. MaxSoFar' /\ LoopsInOrder'
  BY <1>1, SizesFacts DEF IInv, MakeTable, TypeOK, MaxSoFar, LoopsInOrder
<1>4. FilledBelow'
  <2>1. pool' = 1 /\ cur_size' = 0 /\ mapping_pool' = [s \in 0..Largest |-> None]
    BY <1>1 DEF IInv, MakeTable, LoopsInOrder
  <2>2. Sizes[1] \in Nat
    BY SizesFacts DEF Pools
  <2> QED
    BY <2>1, <2>2, SizesFacts DEF FilledBelow, Pools, Ready
<1> QED
  BY <1>2, <1>3, <1>4 DEF IInv

\* The entry Fill writes is in the table and still unwritten.
LEMMA FillFacts ==
  ASSUME IInv, Fits
  PROVE  /\ pool \in Pools /\ cur_size \in 0..Largest
         /\ Sizes[pool] \in Nat /\ cur_size <= Sizes[pool]
         /\ made = Len(Sizes) /\ DOMAIN mapping_pool = 0..Largest
         /\ mapping_pool[cur_size] = None
<1>1. pool \in Pools /\ Sizes[pool] \in Nat /\ Sizes[pool] <= Largest /\ Sizes[pool] >= cur_size
  BY SizesFacts DEF Fits
<1>2. cur_size \in 0..Largest
  BY <1>1, SizesFacts DEF IInv, TypeOK
<1>3. pool > 0
  BY <1>1 DEF Pools
<1>4. made = Len(Sizes) /\ DOMAIN mapping_pool = 0..Largest
  BY <1>3 DEF IInv, LoopsInOrder
<1>5. mapping_pool[cur_size] = None
  <2>1. ~ (cur_size < cur_size)
    BY <1>2
  <2> QED
    BY <2>1, <1>2, <1>3 DEF IInv, FilledBelow
<1> QED
  BY <1>1, <1>2, <1>4, <1>5

\* The pools before the current one are too small for it.
LEMMA FillBestFit == ASSUME IInv, Fits PROVE BestFit(cur_size, pool)
<1>1. pool \in Pools /\ cur_size \in 0..Largest /\ cur_size <= Sizes[pool]
  BY FillFacts
<1>2. ASSUME NEW q \in 1..(pool - 1) PROVE Sizes[q] < cur_size
  <2>1. q \in Pools /\ pool - 1 \in Pools /\ pool > 1
    BY <1>1, SizesFacts DEF Pools
  <2>2. Sizes[q] \in Nat /\ Sizes[pool - 1] \in Nat
    BY <2>1, SizesFacts
  <2>3. Sizes[q] <= Sizes[pool - 1]
    BY <2>1, <2>2, SizesAssumption DEF Pools
  <2>4. cur_size >= Sizes[pool - 1] + 1
    BY <2>1 DEF IInv, FilledBelow
  <2> QED
    BY <1>1, <2>2, <2>3, <2>4
<1> QED
  BY <1>1, <1>2, SizesFacts DEF BestFit

LEMMA FillInv == ASSUME IInv, Fill PROVE IInv'
<1> USE DEF Fill
<1>1. /\ pool \in Pools /\ cur_size \in 0..Largest
      /\ Sizes[pool] \in Nat /\ cur_size <= Sizes[pool]
      /\ made = Len(Sizes) /\ DOMAIN mapping_pool = 0..Largest
  BY FillFacts
<1>2. /\ DOMAIN mapping_pool' = 0..Largest
      /\ \A s \in 0..Largest :
           mapping_pool'[s] = IF s = cur_size THEN pool ELSE mapping_pool[s]
  BY <1>1
<1>3. TypeOK'
  BY <1>1, <1>2, SizesFacts DEF IInv, TypeOK
<1>4. MaxSoFar' /\ LoopsInOrder'
  BY <1>1, <1>2 DEF IInv, MaxSoFar, LoopsInOrder, Pools
<1>5. FilledBelow'
  <2>1. BestFit(cur_size, pool)
    BY FillBestFit
  <2>2. ASSUME NEW s \in 0..Largest
        PROVE  IF s < cur_size + 1
               THEN mapping_pool'[s] \in Pools /\ BestFit(s, mapping_pool'[s])
               ELSE mapping_pool'[s] = None
    <3>1. CASE s = cur_size
      BY <3>1, <1>1, <1>2, <2>1
    <3>2. CASE s # cur_size
      <4>1. mapping_pool'[s] = mapping_pool[s]
        BY <3>2, <1>2
      <4>2. s < cur_size <=> s < cur_size + 1
        BY <3>2, <1>1, SizesFacts
      <4>3. IF s < cur_size
            THEN mapping_pool[s] \in Pools /\ BestFit(s, mapping_pool[s])
            ELSE mapping_pool[s] = None
        BY <1>1 DEF IInv, FilledBelow, Pools
      <4> QED
        BY <4>1, <4>2, <4>3
    <3> QED
      BY <3>1, <3>2
  <2>3. \A s \in 0..Largest :
          IF s < cur_size'
          THEN mapping_pool'[s] \in Pools /\ BestFit(s, mapping_pool'[s])
          ELSE mapping_pool'[s] = None
    BY <2>2
  <2>4. pool' \in Pools => cur_size' <= Sizes[pool'] + 1
    BY <1>1, SizesFacts
  <2>5. pool' > 1 => cur_size' >= Sizes[pool' - 1] + 1
    <3> SUFFICES ASSUME pool > 1 PROVE cur_size + 1 >= Sizes[pool - 1] + 1
      OBVIOUS
    <3>1. cur_size >= Sizes[pool - 1] + 1 /\ pool - 1 \in Pools
      BY <1>1, SizesFacts DEF IInv, FilledBelow, Pools
    <3> QED
      BY <3>1, <1>1, SizesFacts
  <2>6. ~ Ready'
    BY <1>1, SizesFacts DEF Ready, Pools
  <2> QED
    BY <2>3, <2>4, <2>5, <2>6, SizesFacts DEF FilledBelow, BestFit, Pools, Largest
<1> QED
  BY <1>3, <1>4, <1>5 DEF IInv

LEMMA NextPoolInv == ASSUME IInv, NextPool PROVE IInv'
<1> USE DEF NextPool
<1>1. /\ pool \in Pools /\ cur_size \in Nat /\ made = Len(Sizes)
      /\ Sizes[pool] \in Nat \ {0} /\ cur_size = Sizes[pool] + 1
  <2>1. pool \in Pools /\ cur_size \in Nat /\ Sizes[pool] \in Nat \ {0}
    BY SizesFacts DEF IInv, TypeOK
  <2>2. made = Len(Sizes)
    BY <2>1 DEF IInv, LoopsInOrder, Pools
  <2>3. cur_size <= Sizes[pool] + 1
    BY <2>1 DEF IInv, FilledBelow
  <2>4. ~ (Sizes[pool] >= cur_size)
    BY <2>1 DEF Fits
  <2> QED
    BY <2>1, <2>2, <2>3, <2>4
<1>2. TypeOK' /\ MaxSoFar' /\ LoopsInOrder'
  BY <1>1, SizesFacts DEF IInv, TypeOK, MaxSoFar, LoopsInOrder, Pools
<1>3. FilledBelow'
  <2>1. pool' \in Pools => cur_size' <= Sizes[pool'] + 1
    <3> SUFFICES ASSUME pool + 1 \in Pools PROVE cur_size <= Sizes[pool + 1] + 1
      OBVIOUS
    <3>1. Sizes[pool] < Sizes[pool + 1] /\ Sizes[pool + 1] \in Nat
      BY <1>1, SizesFacts, SizesAssumption DEF Pools
    <3> QED
      BY <3>1, <1>1
  <2>2. cur_size' >= Sizes[pool' - 1] + 1
    BY <1>1, SizesFacts DEF Pools
  <2>3. Ready' => cur_size' = Largest + 1
    BY <1>1, SizesFacts DEF Ready, Largest, Pools
  <2>4. \A s \in 0..Largest :
          IF s < cur_size
          THEN mapping_pool[s] \in Pools /\ BestFit(s, mapping_pool[s])
          ELSE mapping_pool[s] = None
    BY <1>1 DEF IInv, FilledBelow, Pools
  <2> QED
    BY <2>1, <2>2, <2>3, <2>4 DEF FilledBelow, BestFit, Pools, Largest
<1> QED
  BY <1>2, <1>3 DEF IInv

LEMMA NextInv == IInv /\ [Next]_vars => IInv'
<1> SUFFICES ASSUME IInv, [Next]_vars PROVE IInv'
  OBVIOUS
<1>1. CASE MakePool
  BY <1>1, MakePoolInv
<1>2. CASE MakeTable
  BY <1>2, MakeTableInv
<1>3. CASE Fill
  BY <1>3, FillInv
<1>4. CASE NextPool
  BY <1>4, NextPoolInv
<1>5. CASE UNCHANGED vars
  BY <1>5 DEF vars, IInv, TypeOK, MaxSoFar, LoopsInOrder, FilledBelow, BestFit, Ready, Pools,
              Largest
<1> QED
  BY <1>1, <1>2, <1>3, <1>4, <1>5 DEF Next, Done

\* Every reachable state of the two loops satisfies the inductive invariant.
THEOREM TableInvariant == Spec => []IInv
  BY InitInv, NextInv, PTL DEF Spec

LEMMA ReadyMax == ASSUME IInv, Ready PROVE max_alloc_size = Largest
  BY SizesFacts DEF IInv, Ready, LoopsInOrder, MaxSoFar, Largest

\* The finished table gives, for every size alloc and dealloc look up, the
\* smallest pool that holds it (mapping_pool_[alloc_size]).
THEOREM BestFitTable == Spec => []TableIsBestFit
<1>1. ASSUME IInv PROVE TableIsBestFit
  <2> SUFFICES ASSUME Ready, NEW s \in 0..max_alloc_size
               PROVE  mapping_pool[s] \in Pools /\ BestFit(s, mapping_pool[s])
    BY DEF TableIsBestFit
  <2>1. max_alloc_size = Largest
    BY <1>1, ReadyMax
  <2>2. cur_size = Largest + 1 /\ pool > 0
    BY <1>1, SizesFacts DEF IInv, FilledBelow, Ready
  <2>3. s \in 0..Largest /\ s < cur_size
    BY <2>1, <2>2, SizesFacts
  <2> QED
    BY <1>1, <2>2, <2>3 DEF IInv, FilledBelow
<1> QED
  BY <1>1, TableInvariant, PTL

\* No store of the loop is outside the table, and none overwrites another.
THEOREM NoStrayWrite == Spec => []WritesInTable
<1>1. ASSUME IInv PROVE WritesInTable
  BY <1>1, FillFacts DEF WritesInTable
<1> QED
  BY <1>1, TableInvariant, PTL

\* assert(cur_size == (max_alloc_size_ + 1)) never fails.
THEOREM TableFull == Spec => []AssertTableFull
<1>1. ASSUME IInv PROVE AssertTableFull
  BY <1>1, ReadyMax DEF IInv, AssertTableFull, FilledBelow
<1> QED
  BY <1>1, TableInvariant, PTL

-----------------------------------------------------------------------------
(* The list of sizes that get_alloc_size_list makes.                        *)

CONSTANT MaxPayload    \* the 8192 in kMaxBlockSize

Classes == INSTANCE SizeClasses

\* The n-th size in cache lines.
Lines(n) ==
  IF n <= 4 THEN n ELSE (4 + ((n - 5) % 4)) * Classes!Pow2[(n - 5) \div 4] + 1

LEMMA PowersDouble ==
  /\ Classes!Pow2[0] = 1
  /\ \A n \in Nat : Classes!Pow2[n] \in Nat \ {0} /\ Classes!Pow2[n + 1] = 2 * Classes!Pow2[n]
<1>1. Doubles(Classes!Pow2)
  BY DoublingExists, Zenon DEF Doubles, Classes!Pow2
<1>2. QED
  BY <1>1, DoublingStep

\* From the fourth on, a size is at most a quarter larger than the one before.
LEMMA LinesGrow ==
  ASSUME NEW n \in Nat \ {0}
  PROVE  /\ Lines(n) \in Nat \ {0} /\ Lines(n + 1) \in Nat /\ Lines(n) < Lines(n + 1)
         /\ n >= 4 => 4 * (Lines(n + 1) - Lines(n)) <= Lines(n)
<1>1. CASE n < 4
  BY <1>1 DEF Lines
<1>2. CASE n = 4
  <2>1. Lines(4) = 4 /\ Lines(5) = 5
    <3>1. (5 - 5) % 4 = 0 /\ (5 - 5) \div 4 = 0
      OBVIOUS
    <3>2. QED
      BY <3>1, PowersDouble DEF Lines
  <2>2. QED
    BY <1>2, <2>1
<1>3. CASE n > 4
  <2> DEFINE i == (n - 5) \div 4
             j == (n - 5) % 4
  <2>1. i \in Nat /\ j \in 0..3 /\ n - 5 \in Nat /\ (n + 1) - 5 = (n - 5) + 1
    BY <1>3
  <2>2. PICK p \in Nat \ {0} : Classes!Pow2[i] = p /\ Classes!Pow2[i + 1] = 2 * p
    BY <2>1, PowersDouble
  <2>3. Lines(n) = (4 + j) * p + 1
    BY <1>3, <2>2 DEF Lines
  <2>4. Lines(n + 1) = (4 + (((n - 5) + 1) % 4)) * Classes!Pow2[((n - 5) + 1) \div 4] + 1
    BY <1>3, <2>1 DEF Lines
  <2>5. CASE j < 3
    <3>1. ((n - 5) + 1) % 4 = j + 1 /\ ((n - 5) + 1) \div 4 = i
      BY <2>1, <2>5
    <3>2. Lines(n + 1) = (4 + (j + 1)) * p + 1
      BY <2>2, <2>4, <3>1
    <3> HIDE DEF i, j
    <3>3. j = 0 \/ j = 1 \/ j = 2
      BY <2>1, <2>5
    <3>4. QED
      BY <2>3, <3>2, <3>3
  <2>6. CASE j = 3
    <3>1. ((n - 5) + 1) % 4 = 0 /\ ((n - 5) + 1) \div 4 = i + 1
      BY <2>1, <2>6
    <3>2. Lines(n + 1) = 4 * (2 * p) + 1 /\ Lines(n) = 7 * p + 1
      BY <2>2, <2>3, <2>4, <2>6, <3>1
    <3>3. QED
      BY <3>2
  <2>7. QED
    BY <2>1, <2>5, <2>6
<1>4. QED
  BY <1>1, <1>2, <1>3

LEMMA LinesIncrease ==
  ASSUME NEW m \in Nat \ {0}, NEW n \in Nat \ {0}, m < n
  PROVE  Lines(m) < Lines(n)
<1> DEFINE U == {k \in Nat : m < k /\ ~ (Lines(m) < Lines(k))}
<1>1. SUFFICES ASSUME U # {} PROVE FALSE
  OBVIOUS
<1>2. PICK k \in U : \A l \in U : ~ (l < k)
  <2>1. U \in SUBSET Nat
    OBVIOUS
  <2> HIDE DEF U
  <2>2. QED
    BY <1>1, <2>1, Least
<1>3. k \in Nat /\ m < k /\ ~ (Lines(m) < Lines(k)) /\ k - 1 \in Nat \ {0} /\ (k - 1) + 1 = k
  OBVIOUS
<1>4. Lines(k - 1) \in Nat /\ Lines((k - 1) + 1) \in Nat /\ Lines(k - 1) < Lines((k - 1) + 1)
      /\ Lines(m) \in Nat
  BY <1>3, LinesGrow
<1>5. CASE m = k - 1
  BY <1>3, <1>4, <1>5
<1>6. CASE m # k - 1
  <2>1. k - 1 \in Nat /\ m < k - 1 /\ k - 1 < k
    BY <1>3, <1>6
  <2>2. k - 1 \notin U
    BY <1>2, <2>1
  <2>3. Lines(m) < Lines(k - 1)
    BY <2>1, <2>2
  <2>4. Lines(k) = Lines((k - 1) + 1)
    BY <1>3
  <2> HIDE DEF U
  <2>5. QED
    BY <1>3, <1>4, <2>3, <2>4
<1>7. QED
  BY <1>5, <1>6

LEMMA SizeIsLines ==
  ASSUME NEW n \in Nat \ {0}
  PROVE  Classes!SizeAt(n) = Lines(n) * L1CacheAlignSize /\ Lines(n) \in Nat \ {0}
<1>1. L1CacheAlignSize \in Nat \ {0} /\ Lines(n) \in Nat \ {0}
  BY LineAssumption, LinesGrow
<1>2. CASE n <= 4
  BY <1>1, <1>2 DEF Lines, Classes!SizeAt
<1>3. CASE ~ (n <= 4)
  <2> DEFINE c == (4 + ((n - 5) % 4)) * Classes!Pow2[(n - 5) \div 4]
  <2>1. (n - 5) \div 4 \in Nat /\ (n - 5) % 4 \in Nat
    BY <1>3
  <2>2. c \in Nat
    BY <2>1, PowersDouble
  <2>3. Lines(n) = c + 1 /\ Classes!SizeAt(n) = c * L1CacheAlignSize + L1CacheAlignSize
    BY <1>3 DEF Lines, Classes!SizeAt
  <2> HIDE DEF c
  <2>4. \A a, b \in Nat : (a + 1) * b = a * b + b
    OBVIOUS
  <2>5. QED
    BY <1>1, <2>2, <2>3, <2>4
<1>4. QED
  BY <1>2, <1>3

\* Where the loops end.
LEMMA LastIs ==
  ASSUME DefaultAlignSize \in Nat, MaxPayload \in Nat, MaxPayload <= 448 * L1CacheAlignSize
  PROVE  Classes!Last \in 5..32
         /\ Classes!SizeAt(Classes!Last) >= Classes!MaxBlockSize + DefaultAlignSize
<1> DEFINE Enough == {n \in 5..32 : Classes!SizeAt(n) >= Classes!MaxBlockSize + DefaultAlignSize}
<1>1. Classes!Pow2[6] = 64
  <2>1. /\ Classes!Pow2[0 + 1] = 2 * Classes!Pow2[0] /\ Classes!Pow2[1 + 1] = 2 * Classes!Pow2[1]
        /\ Classes!Pow2[2 + 1] = 2 * Classes!Pow2[2] /\ Classes!Pow2[3 + 1] = 2 * Classes!Pow2[3]
        /\ Classes!Pow2[4 + 1] = 2 * Classes!Pow2[4] /\ Classes!Pow2[5 + 1] = 2 * Classes!Pow2[5]
        /\ Classes!Pow2[0] = 1
    BY PowersDouble
  <2>2. QED
    BY <2>1
<1>2. Lines(32) = 449
  <2>1. (32 - 5) % 4 = 3 /\ (32 - 5) \div 4 = 6
    OBVIOUS
  <2>2. QED
    BY <1>1, <2>1 DEF Lines
<1>3. Classes!SizeAt(32) = 449 * L1CacheAlignSize
  BY <1>2, SizeIsLines
<1>4. Classes!MaxBlockSize + DefaultAlignSize = MaxPayload + L1CacheAlignSize
  BY LineAssumption DEF Classes!MaxBlockSize
<1>5. 32 \in Enough
  BY <1>3, <1>4, LineAssumption
<1>6. PICK n \in Enough : \A m \in Enough : ~ (m < n)
  <2>1. Enough \in SUBSET Nat
    OBVIOUS
  <2> HIDE DEF Enough
  <2>2. QED
    BY <1>5, <2>1, Least
<1>7. n \in Enough /\ \A m \in Enough : n <= m
  BY <1>6
<1>8. Classes!Last = CHOOSE x \in Enough : \A y \in Enough : x <= y
  BY DEF Classes!Last, Classes!Min
<1>9. Classes!Last \in Enough
  <2> HIDE DEF Enough
  <2>1. QED
    BY <1>7, <1>8
<1>10. QED
  BY <1>9

\* For any cache line, and any kMaxBlockSize of up to 448 of them, the list is
\* what SizeTable and BlockLayout suppose of theirs: sizes that increase and are
\* whole cache lines.  Its largest is the one that ends the loops, the assertion
\* that there are at most 32 holds, and from the fourth on no size is more than a
\* quarter larger than the one before, which bounds what a block wastes.
THEOREM ListOfSizes ==
  ASSUME DefaultAlignSize \in Nat, MaxPayload \in Nat, MaxPayload <= 448 * L1CacheAlignSize
  PROVE  LET sizes == Classes!AllocSizes IN
         /\ sizes \in Seq(Nat \ {0}) /\ Len(sizes) \in 5..32
         /\ \A i, j \in 1..Len(sizes) : i < j => sizes[i] < sizes[j]
         /\ \A i \in 1..Len(sizes) : sizes[i] % L1CacheAlignSize = 0
         /\ sizes[Len(sizes)] >= Classes!MaxBlockSize + DefaultAlignSize
         /\ \A i \in 4..(Len(sizes) - 1) : 4 * (sizes[i + 1] - sizes[i]) <= sizes[i]
<1> DEFINE sizes == Classes!AllocSizes
           last == Classes!Last
           line == L1CacheAlignSize
<1>1. last \in 5..32 /\ Classes!SizeAt(last) >= Classes!MaxBlockSize + DefaultAlignSize
  BY LastIs
<1>2. line \in Nat \ {0}
  BY LineAssumption
<1>3. /\ \A n \in 1..last : Classes!SizeAt(n) = Lines(n) * line /\ Lines(n) \in Nat \ {0}
      /\ \A n \in 1..last : Lines(n) * line \in Nat \ {0}
  <2>1. \A n \in 1..last : n \in Nat \ {0}
    BY <1>1
  <2>2. \A n \in 1..last : Classes!SizeAt(n) = Lines(n) * line /\ Lines(n) \in Nat \ {0}
    BY <2>1, SizeIsLines
  <2>3. \A a, b \in Nat \ {0} : a * b \in Nat \ {0}
    OBVIOUS
  <2>4. QED
    BY <1>2, <2>2, <2>3
<1>4. sizes = [n \in 1..last |-> Lines(n) * line]
  BY <1>3 DEF Classes!AllocSizes
<1> HIDE DEF sizes, last, line
<1>5. sizes \in Seq(Nat \ {0}) /\ Len(sizes) = last /\ \A n \in 1..last : sizes[n] = Lines(n) * line
  BY <1>1, <1>3, <1>4
<1>6. ASSUME NEW i \in 1..last, NEW j \in 1..last, i < j PROVE sizes[i] < sizes[j]
  <2>1. Lines(i) < Lines(j) /\ Lines(i) \in Nat /\ Lines(j) \in Nat
    <3>1. i \in Nat \ {0} /\ j \in Nat \ {0}
      BY <1>1
    <3>2. QED
      BY <1>3, <1>6, <3>1, LinesIncrease
  <2>2. \A a, b \in Nat, c \in Nat \ {0} : a < b => a * c < b * c
    OBVIOUS
  <2>3. QED
    BY <1>2, <1>5, <2>1, <2>2
<1>7. ASSUME NEW i \in 1..last PROVE sizes[i] % line = 0
  <2>1. (line * Lines(i) + 0) % line = 0
    <3>1. 0 \in 0..(line - 1) /\ Lines(i) \in Int
      BY <1>2, <1>3
    <3>2. QED
      BY <1>2, <3>1, DivIs
  <2>2. line * Lines(i) + 0 = Lines(i) * line
    BY <1>2, <1>3
  <2>3. QED
    BY <1>5, <2>1, <2>2
<1>8. ASSUME NEW i \in 4..(last - 1) PROVE 4 * (sizes[i + 1] - sizes[i]) <= sizes[i]
  <2>1. i \in Nat \ {0} /\ i >= 4 /\ i \in 1..last /\ i + 1 \in 1..last
    BY <1>1
  <2>2. 4 * (Lines(i + 1) - Lines(i)) <= Lines(i) /\ Lines(i) \in Nat /\ Lines(i + 1) \in Nat
    BY <2>1, LinesGrow
  <2>3. \A a, b, c \in Nat : 4 * (b - a) <= a => 4 * (b * c - a * c) <= a * c
    <3>1. SUFFICES ASSUME NEW a \in Nat, NEW b \in Nat, NEW c \in Nat, 4 * (b - a) <= a
                   PROVE  4 * (b * c - a * c) <= a * c
      OBVIOUS
    <3>2. 4 * (b * c - a * c) = (4 * (b - a)) * c
      OBVIOUS
    <3>3. \A d \in Int : d <= a => d * c <= a * c
      OBVIOUS
    <3>4. 4 * (b - a) \in Int
      OBVIOUS
    <3>5. QED
      BY <3>1, <3>2, <3>3, <3>4
  <2>4. sizes[i] = Lines(i) * line /\ sizes[i + 1] = Lines(i + 1) * line
    BY <1>5, <2>1
  <2>5. QED
    BY <1>2, <2>2, <2>3, <2>4
<1>9. sizes[last] >= Classes!MaxBlockSize + DefaultAlignSize
  <2>1. last \in 1..last
    BY <1>1
  <2>2. sizes[last] = Classes!SizeAt(last)
    BY <1>3, <1>5, <2>1
  <2>3. QED
    BY <1>1, <2>2 DEF last
<1>10. QED
  BY <1>1, <1>5, <1>6, <1>7, <1>8, <1>9 DEF sizes, line

-----------------------------------------------------------------------------
(* Multiples. *)

LEMMA Multiple ==
  \A S \in Nat \ {0}, x \in Int : x % S = 0 => \E p \in Int : x = S * p
<1>1. SUFFICES ASSUME NEW S \in Nat \ {0}, NEW x \in Int, x % S = 0 PROVE \E p \in Int : x = S * p
  OBVIOUS
<1>2. x \div S \in Int /\ x = S * (x \div S) + (x % S) /\ S * (x \div S) \in Int
  BY ModSplit
<1>3. x = S * (x \div S)
  BY <1>1, <1>2
<1>4. QED
  BY <1>2, <1>3

LEMMA NextMultiple ==
  ASSUME NEW S \in Nat \ {0}, NEW x \in Int, NEW y \in Int, x % S = 0, y % S = 0, x < y
  PROVE  x + S <= y
<1>2. PICK p \in Int : x = S * p
  BY Multiple
<1>3. PICK q \in Int : y = S * q
  BY Multiple
<1>4. S * q - S * p = S * (q - p) /\ q - p \in Int /\ S * q \in Int /\ S * p \in Int
  OBVIOUS
<1>5. \A d \in Int : d <= 0 => S * d <= 0
  OBVIOUS
<1>6. q - p >= 1
  <2>1. S * (q - p) > 0
    BY <1>2, <1>3, <1>4
  <2>2. QED
    BY <2>1, <1>4, <1>5
<1>7. \A d \in Int : d >= 1 => S * d >= S
  OBVIOUS
<1>8. QED
  BY <1>2, <1>3, <1>4, <1>6, <1>7

LEMMA MultipleSum ==
  ASSUME NEW S \in Nat \ {0}, NEW x \in Int, NEW y \in Int, x % S = 0, y % S = 0
  PROVE  (x + y) % S = 0
<1>1. PICK p \in Int : x = S * p
  BY Multiple
<1>2. PICK q \in Int : y = S * q
  BY Multiple
<1>3. x + y = S * (p + q) + 0 /\ p + q \in Int /\ 0 \in Int /\ 0 % S = 0
  BY <1>1, <1>2
<1>4. (S * (p + q) + 0) % S = 0 % S
  BY <1>3, ModOfMultiple, Zenon
<1>5. QED
  BY <1>3, <1>4, Zenon

LEMMA MultipleOf ==
  ASSUME NEW S \in Nat \ {0}, NEW M \in Nat \ {0}, NEW x \in Int, x % S = 0, S % M = 0
  PROVE  x % M = 0
<1>1. 0 \in Int /\ 0 % M = 0
  OBVIOUS
<1>2. PICK p \in Int : x = S * p
  BY Multiple
<1>3. PICK q \in Int : S = M * q
  BY Multiple
<1>4. x = M * (q * p) + 0 /\ q * p \in Int
  BY <1>2, <1>3
<1>5. QED
  BY <1>1, <1>4, ModOfMultiple

-----------------------------------------------------------------------------
(* The blocks of one chunk: chunk i has given out those below address c. *)

Base(i) == i * ChunkSize
First(i) == Base(i) + PoolHeader
Fits_(i, c, S) ==
  c \in Int /\ First(i) <= c /\ c <= Base(i) + ChunkSize /\ (c - First(i)) % S = 0
BlocksTo(i, c, S) == {b \in First(i)..(c - 1) : (b - First(i)) % S = 0}

LEMMA BaseType == \A i \in Nat : Base(i) \in Nat /\ First(i) \in Nat /\ First(i) >= Base(i) + 2
BY ChunkAssumption, HeaderAssumption DEF Base, First

LEMMA ChunkType == ChunkSize \in Nat /\ ChunkSize >= 2
<1>1. PoolHeader \in Nat /\ PoolHeader >= 2 /\ Largest \in Nat
  BY HeaderAssumption, SizesFacts
<1>2. QED
  BY <1>1, ChunkAssumption

LEMMA BasesApart == \A i, j \in Nat : i < j => Base(i) + ChunkSize <= Base(j)
<1>1. SUFFICES ASSUME NEW i \in Nat, NEW j \in Nat, i < j PROVE Base(i) + ChunkSize <= Base(j)
  OBVIOUS
<1>2. /\ j * ChunkSize = i * ChunkSize + (j - i) * ChunkSize /\ j - i \in Nat \ {0}
      /\ i * ChunkSize \in Nat
  BY <1>1, ChunkAssumption
<1>3. \A d \in Nat \ {0} : d * ChunkSize >= ChunkSize
  BY ChunkAssumption
<1>4. (j - i) * ChunkSize >= ChunkSize /\ (j - i) * ChunkSize \in Nat
  BY <1>2, <1>3, ChunkAssumption
<1>5. QED
  BY <1>2, <1>4, ChunkAssumption DEF Base

LEMMA BlockFits ==
  ASSUME NEW i \in Nat, NEW S \in Nat \ {0}, NEW c, Fits_(i, c, S), NEW b \in BlocksTo(i, c, S)
  PROVE  b \in Nat /\ First(i) <= b /\ b + S <= c /\ c <= Base(i) + ChunkSize /\ c \in Nat
<1>1. First(i) \in Nat /\ Base(i) \in Nat
  BY BaseType
<1>2. /\ b \in Int /\ c \in Int /\ First(i) <= b /\ b < c /\ (b - First(i)) % S = 0
      /\ (c - First(i)) % S = 0 /\ c <= Base(i) + ChunkSize
  BY <1>1 DEF Fits_, BlocksTo
<1>3. b - First(i) < c - First(i) /\ b - First(i) \in Int /\ c - First(i) \in Int
  BY <1>1, <1>2
<1>4. (b - First(i)) + S <= c - First(i)
  BY <1>2, <1>3, NextMultiple
<1>5. QED
  BY <1>1, <1>2, <1>4

LEMMA SameChunkApart ==
  ASSUME NEW i \in Nat, NEW S \in Nat \ {0}, NEW c, Fits_(i, c, S),
         NEW a \in BlocksTo(i, c, S), NEW b \in BlocksTo(i, c, S), a < b
  PROVE  a + S <= b
<1>1. First(i) \in Nat /\ a \in Nat /\ b \in Nat
  BY BaseType, BlockFits
<1>2. (a - First(i)) % S = 0 /\ (b - First(i)) % S = 0
  BY DEF BlocksTo
<1>3. a - First(i) < b - First(i) /\ a - First(i) \in Int /\ b - First(i) \in Int
  BY <1>1
<1>4. (a - First(i)) + S <= b - First(i)
  BY <1>2, <1>3, NextMultiple
<1>5. QED
  BY <1>1, <1>4

\* A chunk gives out one block more.
LEMMA OneBlockMore ==
  ASSUME NEW i \in Nat, NEW S \in Nat \ {0}, NEW c, Fits_(i, c, S), c + S <= Base(i) + ChunkSize
  PROVE  /\ Fits_(i, c + S, S)
         /\ BlocksTo(i, c + S, S) = BlocksTo(i, c, S) \union {c}
         /\ c \notin BlocksTo(i, c, S)
<1>1. /\ First(i) \in Nat /\ c \in Int /\ First(i) <= c /\ (c - First(i)) % S = 0
      /\ c - First(i) \in Int
  BY BaseType DEF Fits_
<1>2. S % S = 0 /\ S \in Int
  <2>1. (S * 1 + 0) % S = 0 % S /\ S * 1 + 0 = S
    BY ModOfMultiple
  <2>2. QED
    BY <2>1
<1>3. ((c - First(i)) + S) % S = 0
  BY <1>1, <1>2, MultipleSum
<1>4. (c - First(i)) + S = (c + S) - First(i)
  BY <1>1
<1>5. Fits_(i, c + S, S)
  BY <1>1, <1>3, <1>4 DEF Fits_
<1>6. ASSUME NEW b \in BlocksTo(i, c + S, S), ~ (b < c), b # c PROVE FALSE
  <2>1. b \in Int /\ c < b /\ b < c + S /\ (b - First(i)) % S = 0
    BY <1>1, <1>6 DEF BlocksTo
  <2>2. c - First(i) < b - First(i) /\ b - First(i) \in Int
    BY <1>1, <2>1
  <2>3. (c - First(i)) + S <= b - First(i)
    BY <1>1, <2>1, <2>2, NextMultiple
  <2>4. QED
    BY <1>1, <2>1, <2>3
<1>7. BlocksTo(i, c + S, S) = BlocksTo(i, c, S) \union {c}
  <2>1. BlocksTo(i, c + S, S) \subseteq BlocksTo(i, c, S) \union {c}
    BY <1>1, <1>6 DEF BlocksTo
  <2>2. BlocksTo(i, c, S) \union {c} \subseteq BlocksTo(i, c + S, S)
    BY <1>1 DEF BlocksTo
  <2>3. QED
    BY <2>1, <2>2
<1>8. c \notin BlocksTo(i, c, S)
  BY <1>1 DEF BlocksTo
<1>9. QED
  BY <1>5, <1>7, <1>8

\* A new chunk has given out none.
LEMMA NoBlockYet ==
  ASSUME NEW i \in Nat, NEW S \in Nat \ {0}, S <= Largest
  PROVE  /\ Fits_(i, First(i), S) /\ BlocksTo(i, First(i), S) = {}
         /\ First(i) + S <= Base(i) + ChunkSize
<1>1. /\ Base(i) \in Nat /\ First(i) \in Nat /\ PoolHeader \in Nat
      /\ First(i) = Base(i) + PoolHeader
      /\ Largest \in Nat
  BY BaseType, HeaderAssumption, SizesFacts DEF First
<1>2. First(i) + S <= Base(i) + ChunkSize /\ ChunkSize \in Nat
  BY <1>1, ChunkAssumption
<1>3. (First(i) - First(i)) % S = 0
  BY <1>1
<1>4. Fits_(i, First(i), S)
  BY <1>1, <1>2, <1>3 DEF Fits_
<1>5. BlocksTo(i, First(i), S) = {}
  BY <1>1 DEF BlocksTo
<1>6. QED
  BY <1>2, <1>4, <1>5

-----------------------------------------------------------------------------
(* The chunks: memory m, n chunks taken, o the pools that took them. *)

Top(m, i) == m[PoolCurr(Base(i))][2]
Chunked(m, n, o) ==
  /\ n \in 0..ChunkLimit
  /\ o \in [0..(n - 1) -> Pools]
  /\ \A i \in 0..(n - 1) :
       /\ m[Next_(Base(i))][1] = "next"
       /\ m[PoolCurr(Base(i))][1] = "pool_curr"
       /\ Fits_(i, Top(m, i), Sizes[o[i]])
ChunksOf(n, o, k) == {i \in 0..(n - 1) : o[i] = k}
CarvedIn(m, n, o, k) == UNION {BlocksTo(i, Top(m, i), Sizes[k]) : i \in ChunksOf(n, o, k)}
Body(b, k) == b..(b + Sizes[k] - 1)

LEMMA SizeType == \A k \in Pools : Sizes[k] \in Nat \ {0} /\ Sizes[k] <= Largest /\ Largest \in Nat
BY SizesFacts

LEMMA ChunkFits ==
  ASSUME NEW m, NEW n, NEW o, Chunked(m, n, o), NEW i \in 0..(n - 1)
  PROVE  /\ i \in Nat /\ n \in Nat /\ o[i] \in Pools /\ Fits_(i, Top(m, i), Sizes[o[i]])
         /\ Base(i) \in Nat /\ Base(i) + ChunkSize <= ChunkLimit * ChunkSize
<1>1. n \in 0..ChunkLimit /\ ChunkLimit \in Nat /\ i \in Nat /\ i < ChunkLimit /\ n \in Nat
  BY LimitAssumption DEF Chunked
<1>2. o[i] \in Pools /\ Fits_(i, Top(m, i), Sizes[o[i]])
  BY DEF Chunked
<1>3. Base(i) \in Nat /\ Base(i) + ChunkSize <= Base(ChunkLimit)
  BY <1>1, BaseType, BasesApart
<1>4. QED
  BY <1>1, <1>2, <1>3 DEF Base

\* A block lies in a chunk of its pool, behind the chunk's header.
LEMMA InChunk ==
  ASSUME NEW m, NEW n, NEW o, Chunked(m, n, o), NEW k \in Pools, NEW b \in CarvedIn(m, n, o, k)
  PROVE  \E i \in 0..(n - 1) :
           /\ o[i] = k /\ i \in Nat
           /\ b \in BlocksTo(i, Top(m, i), Sizes[k]) /\ Fits_(i, Top(m, i), Sizes[k])
           /\ b \in Nat /\ First(i) <= b /\ b + Sizes[k] <= Base(i) + ChunkSize
           /\ Base(i) + ChunkSize <= ChunkLimit * ChunkSize
<1>1. PICK i \in 0..(n - 1) : o[i] = k /\ b \in BlocksTo(i, Top(m, i), Sizes[k])
  BY DEF CarvedIn, ChunksOf
<1>2. i \in Nat /\ Fits_(i, Top(m, i), Sizes[k]) /\ Base(i) \in Nat
      /\ Base(i) + ChunkSize <= ChunkLimit * ChunkSize
  BY <1>1, ChunkFits
<1>3. Sizes[k] \in Nat \ {0}
  BY SizeType
<1>4. /\ b \in Nat /\ First(i) <= b /\ b + Sizes[k] <= Top(m, i)
      /\ Top(m, i) <= Base(i) + ChunkSize /\ Top(m, i) \in Nat
  BY <1>1, <1>2, <1>3, BlockFits
<1>5. b + Sizes[k] <= Base(i) + ChunkSize
  BY <1>2, <1>3, <1>4, ChunkAssumption
<1>6. QED
  BY <1>1, <1>2, <1>4, <1>5

LEMMA InMemory ==
  ASSUME NEW m, NEW n, NEW o, Chunked(m, n, o), NEW k \in Pools, NEW b \in CarvedIn(m, n, o, k)
  PROVE  /\ b \in Nat /\ b \in Word /\ Body(b, k) \subseteq Word
         /\ b \in Body(b, k) /\ b + Sizes[k] <= ChunkLimit * ChunkSize
<1>1. PICK i \in 0..(n - 1) :
        /\ i \in Nat /\ b \in Nat /\ b + Sizes[k] <= Base(i) + ChunkSize
        /\ Base(i) + ChunkSize <= ChunkLimit * ChunkSize
  BY InChunk
<1>2. Sizes[k] \in Nat \ {0} /\ Base(i) \in Nat /\ ChunkSize \in Nat
      /\ ChunkLimit * ChunkSize \in Nat
  BY <1>1, SizeType, BaseType, ChunkAssumption, LimitAssumption
<1> DEFINE limit == ChunkLimit * ChunkSize
<1>3. b + Sizes[k] <= limit /\ limit \in Nat
  BY <1>1, <1>2
<1> HIDE DEF limit
<1>4. b \in 0..(limit - 1) /\ b..(b + Sizes[k] - 1) \subseteq 0..(limit - 1)
      /\ b \in b..(b + Sizes[k] - 1)
  BY <1>1, <1>2, <1>3
<1>5. QED
  BY <1>1, <1>3, <1>4 DEF Body, Word, limit

\* Blocks do not overlap.
LEMMA BlocksApart ==
  ASSUME NEW m, NEW n, NEW o, Chunked(m, n, o), NEW k \in Pools, NEW l \in Pools,
         NEW a \in CarvedIn(m, n, o, k), NEW b \in CarvedIn(m, n, o, l), a # b \/ k # l
  PROVE  a # b /\ \A w \in Body(a, k) : w \notin Body(b, l)
<1> DEFINE S == Sizes[k]
           T == Sizes[l]
<1>1. PICK i \in 0..(n - 1) :
        /\ o[i] = k /\ i \in Nat
        /\ a \in BlocksTo(i, Top(m, i), S) /\ Fits_(i, Top(m, i), S)
        /\ a \in Nat /\ First(i) <= a /\ a + S <= Base(i) + ChunkSize
  BY InChunk
<1>2. PICK j \in 0..(n - 1) :
        /\ o[j] = l /\ j \in Nat
        /\ b \in BlocksTo(j, Top(m, j), T) /\ Fits_(j, Top(m, j), T)
        /\ b \in Nat /\ First(j) <= b /\ b + T <= Base(j) + ChunkSize
  BY InChunk
<1>3. S \in Nat \ {0} /\ T \in Nat \ {0}
  BY SizeType
<1> HIDE DEF S, T
<1>4. /\ Base(i) \in Nat /\ Base(j) \in Nat /\ First(i) \in Nat /\ First(j) \in Nat
      /\ First(i) >= Base(i) + 2 /\ First(j) >= Base(j) + 2 /\ ChunkSize \in Nat
  BY <1>1, <1>2, BaseType, ChunkAssumption
<1>5. a + S <= b \/ b + T <= a
  <2>1. CASE i = j
    <3>1. k = l /\ S = T /\ a # b
      BY <1>1, <1>2, <2>1 DEF S, T
    <3>2. CASE a < b
      BY <1>1, <1>2, <1>3, <2>1, <3>1, <3>2, SameChunkApart
    <3>3. CASE b < a
      BY <1>1, <1>2, <1>3, <2>1, <3>1, <3>3, SameChunkApart
    <3>4. QED
      BY <1>1, <1>2, <3>1, <3>2, <3>3
  <2>2. CASE i < j
    <3>1. Base(i) + ChunkSize <= Base(j)
      BY <1>1, <1>2, <2>2, BasesApart
    <3>2. QED
      BY <1>1, <1>2, <1>3, <1>4, <3>1
  <2>3. CASE j < i
    <3>1. Base(j) + ChunkSize <= Base(i)
      BY <1>1, <1>2, <2>3, BasesApart
    <3>2. QED
      BY <1>1, <1>2, <1>3, <1>4, <3>1
  <2>4. QED
    BY <1>1, <1>2, <2>1, <2>2, <2>3
<1>6. a # b /\ \A w \in a..(a + S - 1) : w \notin b..(b + T - 1)
  BY <1>1, <1>2, <1>3, <1>5
<1>7. QED
  BY <1>6 DEF Body, S, T

\* Nor do they reach the header of a chunk.
LEMMA HeadersApart ==
  ASSUME NEW m, NEW n, NEW o, Chunked(m, n, o), NEW k \in Pools, NEW b \in CarvedIn(m, n, o, k),
         NEW j \in Nat
  PROVE  Next_(Base(j)) \notin Body(b, k) /\ PoolCurr(Base(j)) \notin Body(b, k)
<1> DEFINE S == Sizes[k]
<1>1. PICK i \in 0..(n - 1) :
        i \in Nat /\ b \in Nat /\ First(i) <= b /\ b + S <= Base(i) + ChunkSize
  BY InChunk
<1>2. S \in Nat \ {0}
  BY SizeType
<1> HIDE DEF S
<1>3. /\ Base(i) \in Nat /\ Base(j) \in Nat /\ First(i) \in Nat /\ First(i) >= Base(i) + 2
      /\ ChunkSize \in Nat /\ ChunkSize >= 2
  BY <1>1, BaseType, ChunkType
<1>4. Base(j) + 1 < b \/ Base(j) >= b + S
  <2>1. CASE i = j
    BY <1>1, <1>3, <2>1
  <2>2. CASE i < j
    <3>1. Base(i) + ChunkSize <= Base(j)
      BY <1>1, <2>2, BasesApart
    <3>2. QED
      BY <1>1, <1>2, <1>3, <3>1
  <2>3. CASE j < i
    <3>1. Base(j) + ChunkSize <= Base(i)
      BY <1>1, <2>3, BasesApart
    <3>2. QED
      BY <1>1, <1>2, <1>3, <3>1
  <2>4. QED
    BY <1>1, <2>1, <2>2, <2>3
<1>5. Base(j) \notin b..(b + S - 1) /\ Base(j) + 1 \notin b..(b + S - 1)
  BY <1>1, <1>2, <1>3, <1>4
<1>6. QED
  BY <1>5 DEF Body, Next_, PoolCurr, S

\* Memory that differs in no header of a chunk has the same blocks.
LEMMA SameHeaders ==
  ASSUME NEW m, NEW n, NEW o, Chunked(m, n, o), NEW r,
         \A i \in 0..(n - 1) : r[Next_(Base(i))] = m[Next_(Base(i))]
                               /\ r[PoolCurr(Base(i))] = m[PoolCurr(Base(i))]
  PROVE  Chunked(r, n, o) /\ \A k \in Pools : CarvedIn(r, n, o, k) = CarvedIn(m, n, o, k)
<1>1. \A i \in 0..(n - 1) : Top(r, i) = Top(m, i)
  BY DEF Top
<1>2. Chunked(r, n, o)
  BY <1>1 DEF Chunked
<1>3. \A k \in Pools : CarvedIn(r, n, o, k) = CarvedIn(m, n, o, k)
  BY <1>1 DEF CarvedIn, ChunksOf
<1>4. QED
  BY <1>2, <1>3

-----------------------------------------------------------------------------
(* Carving. *)

\* Pool k has block b in addition.
OneMore(m, n, o, r, p, q, k, b) ==
  /\ Chunked(r, p, q)
  /\ \A l \in Pools : /\ b \notin CarvedIn(m, n, o, l)
                      /\ CarvedIn(r, p, q, l)
                           = CarvedIn(m, n, o, l) \union (IF l = k THEN {b} ELSE {})

\* A block of one pool is not of another, and neither is what begins where a
\* chunk's blocks end.
LEMMA TopIsNew ==
  ASSUME NEW m, NEW n, NEW o, Chunked(m, n, o), NEW i \in 0..(n - 1), NEW l \in Pools,
         Top(m, i) + 1 <= Base(i) + ChunkSize
  PROVE  Top(m, i) \notin CarvedIn(m, n, o, l)
<1>1. SUFFICES ASSUME Top(m, i) \in CarvedIn(m, n, o, l) PROVE FALSE
  OBVIOUS
<1> DEFINE b == Top(m, i)
           T == Sizes[l]
<1>2. PICK j \in 0..(n - 1) :
        /\ o[j] = l /\ j \in Nat
        /\ b \in BlocksTo(j, Top(m, j), T) /\ Fits_(j, Top(m, j), T)
        /\ b \in Nat /\ First(j) <= b /\ b + T <= Base(j) + ChunkSize
  BY <1>1, InChunk
<1>3. i \in Nat /\ Fits_(i, b, Sizes[o[i]])
  BY ChunkFits
<1>4. T \in Nat \ {0}
  BY SizeType
<1>5. /\ First(i) <= b /\ Base(i) \in Nat /\ First(i) \in Nat /\ First(i) >= Base(i) + 2
      /\ Base(j) \in Nat /\ First(j) \in Nat /\ First(j) >= Base(j) + 2 /\ ChunkSize \in Nat
  BY <1>2, <1>3, BaseType, ChunkAssumption DEF Fits_
<1>6. b + 1 <= Base(i) + ChunkSize
  OBVIOUS
<1>7. i # j
  <2>1. SUFFICES ASSUME i = j PROVE FALSE
    OBVIOUS
  <2>2. b \in First(j)..(b - 1)
    BY <1>2, <2>1 DEF BlocksTo
  <2>3. QED
    BY <1>2, <2>2
<1> HIDE DEF b, T
<1>8. CASE i < j
  <2>1. Base(i) + ChunkSize <= Base(j)
    BY <1>2, <1>3, <1>8, BasesApart
  <2>2. QED
    BY <1>2, <1>4, <1>5, <1>6, <2>1
<1>9. CASE j < i
  <2>1. Base(j) + ChunkSize <= Base(i)
    BY <1>2, <1>3, <1>9, BasesApart
  <2>2. QED
    BY <1>2, <1>4, <1>5, <1>6, <2>1
<1>10. QED
  BY <1>2, <1>3, <1>7, <1>8, <1>9

\* alloc_from_local_pool moves the end of chunk i's blocks up.
LEMMA CarveHere ==
  ASSUME NEW m, NEW n, NEW o, Chunked(m, n, o), NEW i \in 0..(n - 1), NEW k \in Pools, o[i] = k,
         Top(m, i) + Sizes[k] <= Base(i) + ChunkSize,
         NEW r, r[PoolCurr(Base(i))] = <<"pool_curr", Top(m, i) + Sizes[k]>>,
         \A j \in 0..(n - 1) : r[Next_(Base(j))] = m[Next_(Base(j))],
         \A j \in 0..(n - 1) : j # i => r[PoolCurr(Base(j))] = m[PoolCurr(Base(j))]
  PROVE  OneMore(m, n, o, r, n, o, k, Top(m, i))
<1> DEFINE b == Top(m, i)
           S == Sizes[k]
<1>1. S \in Nat \ {0} /\ i \in Nat /\ Fits_(i, b, S)
  BY SizeType, ChunkFits
<1>2. /\ Fits_(i, b + S, S) /\ BlocksTo(i, b + S, S) = BlocksTo(i, b, S) \union {b}
  BY <1>1, OneBlockMore
<1>3. Top(r, i) = b + S /\ \A j \in 0..(n - 1) : j # i => Top(r, j) = Top(m, j)
  BY DEF Top
<1>4. Chunked(r, n, o)
  BY <1>2, <1>3 DEF Chunked
<1>5. ASSUME NEW l \in Pools
      PROVE  /\ b \notin CarvedIn(m, n, o, l)
             /\ CarvedIn(r, n, o, l) = CarvedIn(m, n, o, l) \union (IF l = k THEN {b} ELSE {})
  <2>1. b \notin CarvedIn(m, n, o, l)
    <3>1. b \in Int /\ b + 1 <= Base(i) + ChunkSize
      BY <1>1, BaseType, ChunkType DEF Fits_
    <3>2. QED
      BY <3>1, TopIsNew
  <2>2. CASE l = k
    <3>1. /\ i \in ChunksOf(n, o, k)
          /\ \A j \in ChunksOf(n, o, k) :
               BlocksTo(j, Top(r, j), S)
                 = BlocksTo(j, Top(m, j), S) \union (IF j = i THEN {b} ELSE {})
      BY <1>2, <1>3 DEF ChunksOf
    <3> HIDE DEF S, b
    <3>2. UNION {BlocksTo(j, Top(r, j), S) : j \in ChunksOf(n, o, k)}
            = (UNION {BlocksTo(j, Top(m, j), S) : j \in ChunksOf(n, o, k)}) \union {b}
      BY <3>1
    <3>3. QED
      BY <2>1, <2>2, <3>2 DEF CarvedIn, S
  <2>3. CASE l # k
    <3>1. \A j \in ChunksOf(n, o, l) : Top(r, j) = Top(m, j)
      BY <1>3, <2>3 DEF ChunksOf
    <3>2. CarvedIn(r, n, o, l) = CarvedIn(m, n, o, l)
      BY <3>1 DEF CarvedIn
    <3>3. QED
      BY <2>1, <2>3, <3>2
  <2>4. QED
    BY <2>2, <2>3
<1>6. QED
  BY <1>4, <1>5 DEF OneMore

\* alloc_from_global gives pool k a new chunk, and carves its first block.
LEMMA CarveNew ==
  ASSUME NEW m, NEW n, NEW o, Chunked(m, n, o), n < ChunkLimit, NEW k \in Pools,
         NEW q, q = [i \in 0..n |-> IF i = n THEN k ELSE o[i]],
         NEW r, r[Next_(Base(n))][1] = "next",
         r[PoolCurr(Base(n))] = <<"pool_curr", First(n) + Sizes[k]>>,
         \A j \in 0..(n - 1) : r[Next_(Base(j))] = m[Next_(Base(j))]
                               /\ r[PoolCurr(Base(j))] = m[PoolCurr(Base(j))]
  PROVE  OneMore(m, n, o, r, n + 1, q, k, First(n))
<1> DEFINE b == First(n)
           S == Sizes[k]
<1>1. /\ S \in Nat \ {0} /\ S <= Largest /\ n \in Nat /\ n + 1 \in 0..ChunkLimit
      /\ (n + 1) - 1 = n /\ 0..n = 0..(n - 1) \union {n} /\ n \notin 0..(n - 1)
  BY SizeType, LimitAssumption DEF Chunked
<1>2. /\ Fits_(n, b, S) /\ BlocksTo(n, b, S) = {} /\ b + S <= Base(n) + ChunkSize
  BY <1>1, NoBlockYet
<1>3. Fits_(n, b + S, S) /\ BlocksTo(n, b + S, S) = {b}
  BY <1>1, <1>2, OneBlockMore
<1>4. Top(r, n) = b + S /\ \A j \in 0..(n - 1) : Top(r, j) = Top(m, j)
  BY DEF Top
<1>5. q[n] = k /\ \A j \in 0..(n - 1) : q[j] = o[j]
  BY <1>1
<1>6. Chunked(r, n + 1, q)
  <2>1. q \in [0..n -> Pools]
    BY <1>1 DEF Chunked
  <2>2. \A i \in 0..n : /\ r[Next_(Base(i))][1] = "next" /\ r[PoolCurr(Base(i))][1] = "pool_curr"
                        /\ Fits_(i, Top(r, i), Sizes[q[i]])
    BY <1>1, <1>3, <1>4, <1>5 DEF Chunked
  <2>3. QED
    BY <1>1, <2>1, <2>2 DEF Chunked
<1>7. ASSUME NEW l \in Pools
      PROVE  /\ b \notin CarvedIn(m, n, o, l)
             /\ CarvedIn(r, n + 1, q, l) = CarvedIn(m, n, o, l) \union (IF l = k THEN {b} ELSE {})
  <2>1. b \notin CarvedIn(m, n, o, l)
    <3>1. SUFFICES ASSUME b \in CarvedIn(m, n, o, l) PROVE FALSE
      OBVIOUS
    <3>2. PICK i \in 0..(n - 1) : i \in Nat /\ b \in Nat /\ b + Sizes[l] <= Base(i) + ChunkSize
      BY <3>1, InChunk
    <3>3. Base(i) + ChunkSize <= Base(n) /\ Base(n) \in Nat /\ b >= Base(n) + 2 /\ Base(i) \in Nat
      BY <1>1, <3>2, BasesApart, BaseType
    <3>4. QED
      BY <3>2, <3>3, SizeType, ChunkType
  <2>2. /\ ChunksOf(n + 1, q, l) = ChunksOf(n, o, l) \union (IF l = k THEN {n} ELSE {})
        /\ \A j \in ChunksOf(n, o, l) : Top(r, j) = Top(m, j)
    BY <1>1, <1>4, <1>5 DEF ChunksOf
  <2>3. CASE l = k
    <3>1. /\ ChunksOf(n + 1, q, k) = ChunksOf(n, o, k) \union {n}
          /\ \A j \in ChunksOf(n, o, k) : BlocksTo(j, Top(r, j), S) = BlocksTo(j, Top(m, j), S)
          /\ BlocksTo(n, Top(r, n), S) = {b}
      BY <1>3, <1>4, <2>2, <2>3
    <3> HIDE DEF S, b
    <3>2. UNION {BlocksTo(j, Top(r, j), S) : j \in ChunksOf(n + 1, q, k)}
            = (UNION {BlocksTo(j, Top(m, j), S) : j \in ChunksOf(n, o, k)}) \union {b}
      BY <3>1
    <3>3. CarvedIn(r, n + 1, q, k) = CarvedIn(m, n, o, k) \union {b}
      BY <3>2, Zenon DEF CarvedIn, S
    <3>4. QED
      BY <2>1, <2>3, <3>3
  <2>4. CASE l # k
    <3>1. CarvedIn(r, n + 1, q, l) = CarvedIn(m, n, o, l)
      BY <2>2, <2>4 DEF CarvedIn
    <3>2. QED
      BY <2>1, <2>4, <3>1
  <2>5. QED
    BY <2>3, <2>4
<1>8. QED
  BY <1>6, <1>7 DEF OneMore

-----------------------------------------------------------------------------
(* What alloc writes into a block. *)

\* The words of a block as alloc and the program leave them.
Stamped(m, b, bytes) ==
  /\ m[b] = <<"size", bytes>>
  /\ \A w \in PrePad(b) : m[w] = <<"pre_pad">>
  /\ \A w \in PostPad(b, bytes) : m[w] = <<"post_pad">>

LEMMA StampWrites ==
  ASSUME NEW m, NEW b \in Nat, NEW bytes \in Nat, NEW S \in Nat, bytes + Overhead <= S,
         b..(b + S - 1) \subseteq Word
  PROVE  /\ Stamped(Stamp(m, b, bytes), b, bytes)
         /\ \A w \in Word : w \notin b..(b + S - 1) => Stamp(m, b, bytes)[w] = m[w]
         /\ DOMAIN Stamp(m, b, bytes) = Word
<1>1. /\ Header \in Nat /\ Header >= 3 /\ Fence \in Nat /\ Overhead = Header + 2 * Fence
      /\ UserAt(b) = b + Header + Fence
  BY HeaderAssumption DEF Overhead, UserAt
<1>2. /\ PrePad(b) = (b + Header)..(b + Header + Fence - 1)
      /\ PostPad(b, bytes) = (b + Header + Fence + bytes)..(b + Header + Fence + bytes + Fence - 1)
  BY <1>1 DEF PrePad, PostPad
<1>3. /\ PrePad(b) \subseteq b..(b + S - 1) /\ PostPad(b, bytes) \subseteq b..(b + S - 1)
      /\ b \in b..(b + S - 1) /\ (b + 1)..(b + 2) \subseteq b..(b + S - 1)
      /\ b \notin PrePad(b) /\ b \notin PostPad(b, bytes) /\ b \notin (b + 1)..(b + 2)
      /\ PrePad(b) \intersect PostPad(b, bytes) = {}
  BY <1>1, <1>2
<1>4. \A w \in Word : Stamp(m, b, bytes)[w] =
        IF w \in PostPad(b, bytes) THEN <<"post_pad">>
        ELSE IF w \in PrePad(b) THEN <<"pre_pad">>
        ELSE IF w \in (b + 1)..(b + 2) THEN <<"line, thread_id, file">>
        ELSE IF w \in {b} THEN <<"size", bytes>> ELSE m[w]
  BY DEF Stamp, Write
<1>5. DOMAIN Stamp(m, b, bytes) = Word
  BY DEF Stamp, Write
<1>6. Stamped(Stamp(m, b, bytes), b, bytes)
  BY <1>3, <1>4 DEF Stamped
<1>7. ASSUME NEW w \in Word, w \notin b..(b + S - 1) PROVE Stamp(m, b, bytes)[w] = m[w]
  BY <1>3, <1>4, <1>7
<1>8. QED
  BY <1>5, <1>6, <1>7

\* What is in a block of size S that holds these bytes.
LEMMA PartsOfBody ==
  ASSUME NEW b \in Nat, NEW bytes \in Nat, NEW S \in Nat, bytes + Overhead <= S
  PROVE  /\ b \in b..(b + S - 1) /\ PrePad(b) \subseteq b..(b + S - 1)
         /\ PostPad(b, bytes) \subseteq b..(b + S - 1) /\ User(b, bytes) \subseteq b..(b + S - 1)
         /\ b \notin User(b, bytes)
         /\ User(b, bytes) \intersect (PrePad(b) \union PostPad(b, bytes)) = {}
<1>1. /\ Header \in Nat /\ Header >= 3 /\ Fence \in Nat /\ Overhead = Header + 2 * Fence
      /\ UserAt(b) = b + Header + Fence
  BY HeaderAssumption DEF Overhead, UserAt
<1>2. /\ PrePad(b) = (b + Header)..(b + Header + Fence - 1)
      /\ User(b, bytes) = (b + Header + Fence)..(b + Header + Fence + bytes - 1)
      /\ PostPad(b, bytes) = (b + Header + Fence + bytes)..(b + Header + Fence + bytes + Fence - 1)
  BY <1>1 DEF PrePad, PostPad, User
<1>3. QED
  BY <1>1, <1>2

\* What is written into one block changes no header of a chunk and no other block.
LEMMA BodyWrite ==
  ASSUME NEW m, NEW n, NEW o, Chunked(m, n, o), NEW k \in Pools, NEW b \in CarvedIn(m, n, o, k),
         NEW r, \A w \in Word : w \notin Body(b, k) => r[w] = m[w]
  PROVE  /\ Chunked(r, n, o)
         /\ \A l \in Pools : CarvedIn(r, n, o, l) = CarvedIn(m, n, o, l)
         /\ \A l \in Pools : \A a \in CarvedIn(m, n, o, l) : a # b =>
              \A w \in Body(a, l) : r[w] = m[w]
<1>1. ASSUME NEW i \in 0..(n - 1)
      PROVE  r[Next_(Base(i))] = m[Next_(Base(i))] /\ r[PoolCurr(Base(i))] = m[PoolCurr(Base(i))]
  <2>1. i \in Nat /\ Base(i) \in Nat /\ Base(i) + ChunkSize <= ChunkLimit * ChunkSize
    BY ChunkFits
  <2>2. Next_(Base(i)) \in Word /\ PoolCurr(Base(i)) \in Word
    <3> DEFINE limit == ChunkLimit * ChunkSize
    <3>1. limit \in Nat
      BY LimitAssumption, ChunkType
    <3>2. Base(i) + ChunkSize <= limit
      BY <2>1
    <3> HIDE DEF limit
    <3>3. Base(i) \in 0..(limit - 1) /\ Base(i) + 1 \in 0..(limit - 1)
      BY <2>1, <3>1, <3>2, ChunkType
    <3>4. QED
      BY <3>3 DEF Next_, PoolCurr, Word, limit
  <2>3. Next_(Base(i)) \notin Body(b, k) /\ PoolCurr(Base(i)) \notin Body(b, k)
    BY <2>1, HeadersApart
  <2>4. QED
    BY <2>2, <2>3
<1>2. Chunked(r, n, o) /\ \A l \in Pools : CarvedIn(r, n, o, l) = CarvedIn(m, n, o, l)
  BY <1>1, SameHeaders
<1>3. ASSUME NEW l \in Pools, NEW a \in CarvedIn(m, n, o, l), a # b, NEW w \in Body(a, l)
      PROVE  r[w] = m[w]
  <2>1. w \notin Body(b, k)
    BY <1>3, BlocksApart
  <2>2. w \in Word
    BY <1>3, InMemory
  <2>3. QED
    BY <2>1, <2>2
<1>4. QED
  BY <1>2, <1>3

-----------------------------------------------------------------------------
(* The inductive invariant. *)

Cells(k) == CarvedIn(mem, chunks, owner, k)
LiveOf(k) == {y \in live : y.pool = k}
Links == [w \in Word |-> mem[w][2]]
Filled(y) ==
  /\ Stamped(mem, y.at, y.bytes)
  /\ y.used => \A w \in User(y.at, y.bytes) : mem[w] = <<"user", y.at>>

\* A pool's head_ is a chunk of its own.
InvChunks ==
  /\ DOMAIN mem = Word
  /\ Chunked(mem, chunks, owner)
  /\ head \in [Pools -> Word \union {Null}]
  /\ free \in [Pools -> Word \union {Null}]
  /\ \A k \in Pools : head[k] # Null => \E i \in 0..(chunks - 1) : owner[i] = k /\ head[k] = Base(i)

\* Blocks in use are those of the pool the table gives for their size, which
\* they fit into, and hold what was written to them.
InvLive ==
  /\ live # {} => Ready
  /\ IsFiniteSet(live)
  /\ live \subseteq [at : Int, bytes : Requests, pool : Pools \union {0}, used : BOOLEAN]
  /\ \A y \in Pooled : /\ y.pool = PoolFor(y.bytes + Overhead)
                       /\ y.bytes + Overhead <= Sizes[y.pool]
                       /\ Filled(y)
  /\ \A x, y \in Pooled : x.at = y.at => x = y

\* L[k] is the free list of pool k: what the pool carved is on it or in use, and
\* the links of it are as many as there ever were blocks in use.
InvList(s, k) ==
  /\ s \in Seq(Word) /\ Distinct(s) /\ RunsFrom(s, free[k], Links, Null)
  /\ Cells(k) = Range(s) \union InUse(k)
  /\ Range(s) \intersect InUse(k) = {}
  /\ Len(s) + Cardinality(LiveOf(k)) <= LiveLimit
InvLists(L) == \A k \in Pools : InvList(L[k], k)

LayoutInv == IInv /\ InvChunks /\ InvLive /\ \E L : InvLists(L)

\* What a size looked up in the finished table finds.
LEMMA Found ==
  ASSUME IInv, Ready, NEW s \in Nat, s <= max_alloc_size
  PROVE  PoolFor(s) \in Pools /\ s <= Sizes[PoolFor(s)]
<1>1. max_alloc_size = Largest /\ cur_size = Largest + 1 /\ pool > 0 /\ Largest \in Nat
  BY ReadyMax, SizesFacts DEF IInv, FilledBelow, Ready
<1>2. s \in 0..Largest /\ s < cur_size
  BY <1>1
<1>3. mapping_pool[s] \in Pools /\ BestFit(s, mapping_pool[s])
  BY <1>1, <1>2 DEF IInv, FilledBelow
<1>4. QED
  BY <1>3, SizeType DEF PoolFor, BestFit

\* Blocks in use are carved ones.
LEMMA LiveFacts ==
  ASSUME InvChunks, InvLive, NEW L, InvLists(L), NEW y \in Pooled
  PROVE  /\ y.at \in Nat /\ y.bytes \in Nat /\ y.pool \in Pools /\ y.at \in Cells(y.pool)
         /\ y.at \in InUse(y.pool) /\ y \in LiveOf(y.pool) /\ y.bytes + Overhead <= Sizes[y.pool]
         /\ y.at \in Word /\ Body(y.at, y.pool) \subseteq Word /\ y.at \in Body(y.at, y.pool)
         /\ Sizes[y.pool] \in Nat
<1>1. y \in live /\ y.pool \in Pools /\ y.bytes \in Nat
  BY RequestsAssumption DEF InvLive, Pooled
<1>2. y.at \in InUse(y.pool) /\ y \in LiveOf(y.pool)
  BY <1>1 DEF InUse, LiveOf
<1>3. y.at \in Cells(y.pool)
  BY <1>1, <1>2 DEF InvLists, InvList
<1>4. y.bytes + Overhead <= Sizes[y.pool]
  BY DEF InvLive
<1>5. /\ y.at \in Nat /\ y.at \in Word /\ Body(y.at, y.pool) \subseteq Word
      /\ y.at \in Body(y.at, y.pool)
  BY <1>1, <1>3, InMemory DEF Cells, InvChunks
<1>6. QED
  BY <1>1, <1>2, <1>3, <1>4, <1>5, SizeType

\* A block whose words stay keeps what was written to it.
LEMMA FilledKept ==
  ASSUME InvChunks, InvLive, NEW L, InvLists(L), NEW y \in Pooled,
         \A w \in Body(y.at, y.pool) : mem'[w] = mem[w]
  PROVE  Filled(y)'
<1> DEFINE b == y.at
           bytes == y.bytes
           S == Sizes[y.pool]
<1>1. b \in Nat /\ bytes \in Nat /\ S \in Nat /\ bytes + Overhead <= S
  BY LiveFacts
<1> HIDE DEF b, bytes, S
<1>2. /\ b \in b..(b + S - 1) /\ PrePad(b) \subseteq b..(b + S - 1)
      /\ PostPad(b, bytes) \subseteq b..(b + S - 1) /\ User(b, bytes) \subseteq b..(b + S - 1)
  BY <1>1, PartsOfBody
<1>3. \A w \in b..(b + S - 1) : mem'[w] = mem[w]
  BY DEF Body, b, S
<1>4. Filled(y)
  BY DEF InvLive
<1>5. QED
  BY <1>2, <1>3, <1>4 DEF Filled, Stamped, b, bytes

\* A list whose nodes keep their links runs as before.
LEMMA ListKept ==
  ASSUME NEW s \in Seq(Word), NEW p, RunsFrom(s, p, Links, Null),
         \A a \in Range(s) : mem'[a] = mem[a]
  PROVE  RunsFrom(s, p, Links', Null)
<1>1. \A a \in Range(s) : a \in Word
  BY RangeEquality
<1>2. \A a \in Range(s) : Links'[a] = Links[a]
  BY <1>1 DEF Links
<1>3. QED
  BY <1>2, RunKept

-----------------------------------------------------------------------------
(* A block is handed out. *)

LEMMA LiveCount ==
  ASSUME InvLive, NEW k \in Pools
  PROVE  /\ IsFiniteSet(LiveOf(k)) /\ Cardinality(LiveOf(k)) \in Nat
         /\ Cardinality(LiveOf(k)) <= Cardinality(live) /\ Cardinality(live) \in Nat
<1>1. LiveOf(k) \subseteq live /\ IsFiniteSet(live)
  BY DEF LiveOf, InvLive
<1>2. QED
  BY <1>1, FS_Subset, FS_CardinalityType

\* Block b of pool k, on no list now, is stamped and given to the program.
LEMMA HandOut ==
  ASSUME IInv, InvChunks, InvLive, NEW L, InvLists(L), Ready,
         NEW k \in Pools, NEW bytes \in Requests, Asked(bytes, k), NEW b, NEW m,
         Chunked(m, chunks', owner'), b \in CarvedIn(m, chunks', owner', k), b \notin InUse(k),
         \A l \in Pools : Cells(l) \subseteq CarvedIn(m, chunks', owner', l),
         \A l \in Pools : \A a \in Cells(l) : \A w \in Body(a, l) : m[w] = mem[w],
         mem' = Stamp(m, b, bytes), live' = live \union {Block(b, bytes, k)}, UNCHANGED vars
  PROVE  /\ DOMAIN mem' = Word /\ Chunked(mem', chunks', owner')
         /\ \A l \in Pools : Cells(l)' = CarvedIn(m, chunks', owner', l)
         /\ \A l \in Pools : \A a \in Cells(l) : a # b => mem'[a] = mem[a]
         /\ InvLive'
         /\ \A l \in Pools : InUse(l)' = InUse(l) \union (IF l = k THEN {b} ELSE {})
         /\ \A l \in Pools : Cardinality(LiveOf(l)') =
                               IF l = k THEN Cardinality(LiveOf(l)) + 1
                               ELSE Cardinality(LiveOf(l))
         /\ Cardinality(LiveOf(k)) < LiveLimit
<1> DEFINE x == Block(b, bytes, k)
           S == Sizes[k]
<1>1. /\ bytes \in Nat /\ Overhead \in Nat /\ S \in Nat /\ bytes + Overhead <= S
      /\ bytes + Overhead <= max_alloc_size /\ k = PoolFor(bytes + Overhead)
  <2>1. bytes \in Nat /\ Overhead \in Nat
    BY RequestsAssumption, HeaderAssumption DEF Overhead
  <2>2. bytes + Overhead <= max_alloc_size /\ k = PoolFor(bytes + Overhead)
    BY DEF Asked
  <2>3. bytes + Overhead <= Sizes[PoolFor(bytes + Overhead)]
    BY <2>1, <2>2, Found
  <2>4. QED
    BY <2>1, <2>2, <2>3, SizeType
<1>2. b \in Nat /\ b \in Body(b, k) /\ Body(b, k) \subseteq Word
  BY InMemory
<1>3. /\ Stamped(mem', b, bytes) /\ DOMAIN mem' = Word
      /\ \A w \in Word : w \notin Body(b, k) => mem'[w] = m[w]
  <2>1. Body(b, k) = b..(b + S - 1)
    BY DEF Body
  <2> HIDE DEF S
  <2>2. b..(b + S - 1) \subseteq Word
    BY <1>2, <2>1
  <2>3. /\ Stamped(Stamp(m, b, bytes), b, bytes)
        /\ \A w \in Word : w \notin b..(b + S - 1) => Stamp(m, b, bytes)[w] = m[w]
        /\ DOMAIN Stamp(m, b, bytes) = Word
    BY <1>1, <1>2, <2>2, StampWrites
  <2>4. QED
    BY <2>1, <2>3
<1>4. /\ Chunked(mem', chunks', owner')
      /\ \A l \in Pools : CarvedIn(mem', chunks', owner', l) = CarvedIn(m, chunks', owner', l)
      /\ \A l \in Pools : \A a \in CarvedIn(m, chunks', owner', l) : a # b =>
           \A w \in Body(a, l) : mem'[w] = m[w]
  BY <1>3, BodyWrite
<1>5. \A l \in Pools : Cells(l)' = CarvedIn(m, chunks', owner', l)
  BY <1>4 DEF Cells
<1>6. ASSUME NEW l \in Pools, NEW a \in Cells(l), a # b
      PROVE  a \in Body(a, l) /\ \A w \in Body(a, l) : mem'[w] = mem[w]
  <2>1. a \in CarvedIn(m, chunks', owner', l)
    BY <1>6
  <2>2. a \in Body(a, l)
    BY <2>1, InMemory
  <2>3. QED
    BY <1>4, <1>6, <2>1, <2>2
<1>7. \A l \in Pools : \A a \in Cells(l) : a # b => mem'[a] = mem[a]
  BY <1>6
<1>8. \A y \in Pooled : y.at # b
  <2>1. SUFFICES ASSUME NEW y \in Pooled, y.at = b PROVE FALSE
    OBVIOUS
  <2>2. y.pool \in Pools /\ y.at \in Cells(y.pool) /\ y.at \in InUse(y.pool)
    BY LiveFacts
  <2>3. y.pool # k
    BY <2>1, <2>2
  <2>4. y.at # b
    BY <2>2, <2>3, BlocksApart
  <2>5. QED
    BY <2>1, <2>4
<1>9. /\ x.at = b /\ x.bytes = bytes /\ x.pool = k /\ x.used = FALSE
      /\ x \in [at : Int, bytes : Requests, pool : Pools \union {0}, used : BOOLEAN]
  BY <1>2 DEF Block
<1>10. k # 0 /\ x \notin live
  <2>1. k # 0
    BY DEF Pools
  <2>2. x \in live => x \in Pooled
    BY <1>9, <2>1 DEF Pooled
  <2>3. QED
    BY <1>8, <1>9, <2>1, <2>2
<1> HIDE DEF x
<1>11. live' = live \union {x} /\ Pooled' = Pooled \union {x}
  BY <1>9, <1>10 DEF Pooled, x
<1>12. InvLive'
  <2>1. Ready' /\ max_alloc_size' = max_alloc_size /\ \A s : PoolFor(s)' = PoolFor(s)
    BY DEF vars, Ready, PoolFor
  <2>2. IsFiniteSet(live')
        /\ live' \subseteq [at : Int, bytes : Requests, pool : Pools \union {0}, used : BOOLEAN]
    BY <1>9, <1>11, FS_AddElement DEF InvLive
  <2>3. ASSUME NEW y \in Pooled
        PROVE  /\ y.pool = PoolFor(y.bytes + Overhead)' /\ y.bytes + Overhead <= Sizes[y.pool]
               /\ Filled(y)'
    <3>1. y.pool \in Pools /\ y.at \in Cells(y.pool)
      BY LiveFacts
    <3>2. Filled(y)'
      BY <1>6, <1>8, <3>1, FilledKept
    <3>3. QED
      BY <2>1, <3>2 DEF InvLive
  <2>4. /\ x.pool = PoolFor(x.bytes + Overhead)' /\ x.bytes + Overhead <= Sizes[x.pool]
        /\ Filled(x)'
    BY <1>1, <1>3, <1>9, <2>1 DEF Filled
  <2>5. \A y, z \in Pooled \union {x} : y.at = z.at => y = z
    BY <1>8, <1>9 DEF InvLive
  <2>6. \A y \in Pooled' : /\ y.pool = PoolFor(y.bytes + Overhead)'
                           /\ y.bytes + Overhead <= Sizes[y.pool] /\ Filled(y)'
    BY <1>11, <2>3, <2>4
  <2>7. QED
    BY <1>11, <2>1, <2>2, <2>5, <2>6 DEF InvLive
<1>13. ASSUME NEW l \in Pools
       PROVE  /\ InUse(l)' = InUse(l) \union (IF l = k THEN {b} ELSE {})
              /\ Cardinality(LiveOf(l)') =
                   IF l = k THEN Cardinality(LiveOf(l)) + 1
                   ELSE Cardinality(LiveOf(l))
  <2>1. LiveOf(l)' = LiveOf(l) \union (IF l = k THEN {x} ELSE {})
    BY <1>9, <1>11 DEF LiveOf
  <2>2. InUse(l) = {y.at : y \in LiveOf(l)} /\ InUse(l)' = {y.at : y \in LiveOf(l)'}
    BY DEF InUse, LiveOf
  <2>3. InUse(l)' = InUse(l) \union (IF l = k THEN {b} ELSE {})
    BY <1>9, <2>1, <2>2
  <2>4. CASE l = k
    <3>1. x \notin LiveOf(l) /\ IsFiniteSet(LiveOf(l)) /\ LiveOf(l)' = LiveOf(l) \union {x}
      BY <1>10, <2>1, <2>4, LiveCount DEF LiveOf
    <3>2. Cardinality(LiveOf(l)') = Cardinality(LiveOf(l)) + 1
      BY <3>1, FS_AddElement
    <3>3. QED
      BY <2>3, <2>4, <3>2
  <2>5. CASE l # k
    <3>1. LiveOf(l)' = LiveOf(l)
      BY <2>1, <2>5
    <3>2. QED
      BY <2>3, <2>5, <3>1, LiveCount
  <2>6. QED
    BY <2>4, <2>5
<1>14. Cardinality(LiveOf(k)) < LiveLimit
  BY LiveCount, LimitAssumption DEF Asked
<1>15. QED
  BY <1>3, <1>4, <1>5, <1>7, <1>12, <1>13, <1>14

-----------------------------------------------------------------------------
(* The actions. *)

LEMMA NoFreeBlock ==
  ASSUME NEW k \in Pools, NEW s, InvList(s, k), free[k] = Null
  PROVE  s = << >> /\ Range(s) = {} /\ Len(s) = 0
<1>1. s \in Seq(Word) /\ free[k] = NodeAt(s, 1, Null)
  BY DEF InvList, RunsFrom
<1>2. s = << >>
  <2>1. SUFFICES ASSUME s # << >> PROVE FALSE
    OBVIOUS
  <2>2. Len(s) \in Nat \ {0} /\ s[1] \in Word
    BY <1>1, <2>1, EmptySeq
  <2>3. NodeAt(s, 1, Null) = s[1]
    BY <2>2 DEF NodeAt
  <2>4. QED
    BY <1>1, <2>2, <2>3, NullAssumption
<1>3. QED
  BY <1>2, EmptyList

LEMMA TableStays == ASSUME IInv, UNCHANGED vars PROVE IInv'
BY DEF vars, IInv, TypeOK, MaxSoFar, LoopsInOrder, FilledBelow, BestFit, Ready, Pools, Largest

\* A list none of whose blocks is taken or written to.
LEMMA OtherList ==
  ASSUME NEW l \in Pools, NEW s, InvList(s, l), free'[l] = free[l], Cells(l)' = Cells(l),
         InUse(l)' = InUse(l), Cardinality(LiveOf(l)') = Cardinality(LiveOf(l)),
         \A a \in Cells(l) : a \in Range(s) => mem'[a] = mem[a]
  PROVE  InvList(s, l)'
<1>1. RunsFrom(s, free'[l], Links', Null)
  <2>1. s \in Seq(Word) /\ RunsFrom(s, free[l], Links, Null) /\ \A a \in Range(s) : mem'[a] = mem[a]
    BY DEF InvList
  <2>2. QED
    BY <2>1, ListKept
<1>2. QED
  BY <1>1 DEF InvList

LEMMA AllocFromFreeStep ==
  ASSUME LayoutInv, Ready, NEW k \in Pools, NEW bytes \in Requests, AllocFromFree(bytes, k),
         UNCHANGED vars
  PROVE  LayoutInv'
<1> DEFINE b == free[k]
<1>1. PICK L : InvLists(L)
  BY DEF LayoutInv
<1>2. IInv /\ InvChunks /\ InvLive
  BY DEF LayoutInv
<1> DEFINE s == L[k]
           r == Tail(s)
<1>3. /\ s \in Seq(Word) /\ Distinct(s) /\ RunsFrom(s, b, Links, Null)
      /\ Cells(k) = Range(s) \union InUse(k) /\ Range(s) \intersect InUse(k) = {}
      /\ Len(s) + Cardinality(LiveOf(k)) <= LiveLimit
  BY <1>1 DEF InvLists, InvList
<1>4. /\ b # Null /\ free' = [free EXCEPT ![k] = mem[b][2]] /\ mem' = Stamp(mem, b, bytes)
      /\ live' = live \union {Block(b, bytes, k)} /\ UNCHANGED <<chunks, owner, head>>
      /\ Asked(bytes, k)
  BY DEF AllocFromFree, SecondFree
<1> HIDE DEF b, s
<1>5. b \in Word /\ b \in Range(s)
  BY <1>3, <1>4, RunRest
<1>6. b \in Cells(k) /\ b \notin InUse(k)
  BY <1>3, <1>5
<1>7. /\ DOMAIN mem' = Word /\ Chunked(mem', chunks', owner')
      /\ \A l \in Pools : Cells(l)' = Cells(l)
      /\ \A l \in Pools : \A a \in Cells(l) : a # b => mem'[a] = mem[a]
      /\ InvLive'
      /\ \A l \in Pools : InUse(l)' = InUse(l) \union (IF l = k THEN {b} ELSE {})
      /\ \A l \in Pools : Cardinality(LiveOf(l)') =
                            IF l = k THEN Cardinality(LiveOf(l)) + 1
                            ELSE Cardinality(LiveOf(l))
  <2>1. Chunked(mem, chunks', owner')
        /\ \A l \in Pools : Cells(l) = CarvedIn(mem, chunks', owner', l)
    BY <1>2, <1>4 DEF InvChunks, Cells
  <2>2. b \in CarvedIn(mem, chunks', owner', k)
    BY <1>6, <2>1
  <2>3. QED
    BY <1>1, <1>2, <1>4, <1>6, <2>1, <2>2, HandOut
<1>8. /\ \A a \in Range(s) : a \in Word /\ (a # b => Links'[a] = Links[a])
      /\ Links[b] = mem[b][2]
  <2>1. \A a \in Range(s) : a \in Word /\ a \in Cells(k)
    BY <1>3, RangeEquality
  <2>2. QED
    BY <1>5, <1>7, <2>1 DEF Links
<1>9. /\ r \in Seq(Word) /\ Range(s) = Range(r) \union {b} /\ b \notin Range(r)
      /\ Len(r) = Len(s) - 1 /\ Distinct(r) /\ RunsFrom(r, mem[b][2], Links', Null)
  BY <1>3, <1>4, <1>8, RunRest
<1>10. mem[b][2] \in Word \union {Null} /\ free'[k] = mem[b][2]
       /\ \A l \in Pools : l # k => free'[l] = free[l]
  <2>1. free[k] \in Word \union {Null} /\ DOMAIN free = Pools
    BY <1>2 DEF InvChunks
  <2>2. mem[b][2] = NodeAt(r, 1, Null)
    BY <1>9 DEF RunsFrom
  <2> HIDE DEF r
  <2>3. NodeAt(r, 1, Null) \in Word \union {Null}
    BY <1>9 DEF NodeAt
  <2>4. QED
    BY <1>4, <2>1, <2>2, <2>3
<1>11. InvChunks'
  BY <1>2, <1>4, <1>7, <1>10 DEF InvChunks
<1>12. ASSUME NEW l \in Pools PROVE InvList(IF l = k THEN r ELSE L[l], l)'
  <2>1. CASE l = k
    <3>1. Cells(k)' = Range(r) \union InUse(k)' /\ Range(r) \intersect InUse(k)' = {}
      BY <1>3, <1>7, <1>9
    <3>2. Len(r) + Cardinality(LiveOf(k)') <= LiveLimit
      <4>1. /\ Len(s) \in Nat /\ Cardinality(LiveOf(k)) \in Nat /\ LiveLimit \in Nat
            /\ Cardinality(LiveOf(k)') = Cardinality(LiveOf(k)) + 1
        BY <1>2, <1>3, <1>7, LiveCount, LimitAssumption
      <4>2. QED
        BY <1>3, <1>9, <4>1
    <3>3. QED
      BY <1>9, <1>10, <2>1, <3>1, <3>2 DEF InvList
  <2>2. CASE l # k
    <3>1. InvList(L[l], l)
      BY <1>1 DEF InvLists
    <3>2. \A a \in Cells(l) : a # b
      BY <1>2, <1>6, <2>2, BlocksApart DEF InvChunks, Cells
    <3>3. /\ free'[l] = free[l] /\ Cells(l)' = Cells(l) /\ InUse(l)' = InUse(l)
          /\ Cardinality(LiveOf(l)') = Cardinality(LiveOf(l))
          /\ \A a \in Cells(l) : mem'[a] = mem[a]
      <4>1. Cells(l)' = Cells(l) /\ \A a \in Cells(l) : mem'[a] = mem[a]
        BY <1>7, <3>2
      <4>2. InUse(l)' = InUse(l)
        BY <1>7, <2>2
      <4>3. Cardinality(LiveOf(l)') = Cardinality(LiveOf(l))
        BY <1>7, <2>2
      <4>4. QED
        BY <1>10, <2>2, <4>1, <4>2, <4>3
    <3>4. InvList(L[l], l)'
      BY <3>1, <3>3, OtherList
    <3>5. QED
      BY <2>2, <3>4
  <2>3. QED
    BY <2>1, <2>2
<1>13. \E M : InvLists(M)'
  <2> DEFINE M == [l \in Pools |-> IF l = k THEN r ELSE L[l]]
  <2>1. \A l \in Pools : InvList(M[l], l)'
    BY <1>12
  <2> HIDE DEF M
  <2>2. QED
    BY <2>1 DEF InvLists
<1>14. IInv'
  BY <1>2, TableStays
<1>15. QED
  BY <1>7, <1>11, <1>13, <1>14 DEF LayoutInv

\* A pool without free blocks hands out one that it carves.
LEMMA CarveStep ==
  ASSUME IInv, InvChunks, InvLive, NEW L, InvLists(L), Ready,
         NEW k \in Pools, NEW bytes \in Requests, Asked(bytes, k), free[k] = Null, NEW b, NEW m,
         OneMore(mem, chunks, owner, m, chunks', owner', k, b),
         \A l \in Pools : \A a \in Cells(l) : \A w \in Body(a, l) : m[w] = mem[w],
         mem' = Stamp(m, b, bytes), live' = live \union {Block(b, bytes, k)}, free' = free,
         UNCHANGED vars
  PROVE  DOMAIN mem' = Word /\ Chunked(mem', chunks', owner') /\ InvLive' /\ InvLists(L)'
<1>1. /\ Chunked(m, chunks', owner')
      /\ \A l \in Pools : b \notin Cells(l)
      /\ \A l \in Pools :
           CarvedIn(m, chunks', owner', l) = Cells(l) \union (IF l = k THEN {b} ELSE {})
  BY DEF OneMore, Cells
<1>2. b \in CarvedIn(m, chunks', owner', k) /\ b \notin InUse(k)
  BY <1>1 DEF InvLists, InvList
<1>3. \A l \in Pools : Cells(l) \subseteq CarvedIn(m, chunks', owner', l)
  BY <1>1
<1>4. /\ DOMAIN mem' = Word /\ Chunked(mem', chunks', owner')
      /\ \A l \in Pools : Cells(l)' = CarvedIn(m, chunks', owner', l)
      /\ \A l \in Pools : \A a \in Cells(l) : a # b => mem'[a] = mem[a]
      /\ InvLive'
      /\ \A l \in Pools : InUse(l)' = InUse(l) \union (IF l = k THEN {b} ELSE {})
      /\ \A l \in Pools : Cardinality(LiveOf(l)') =
                            IF l = k THEN Cardinality(LiveOf(l)) + 1
                            ELSE Cardinality(LiveOf(l))
      /\ Cardinality(LiveOf(k)) < LiveLimit
  BY <1>1, <1>2, <1>3, HandOut
<1>5. ASSUME NEW l \in Pools PROVE InvList(L[l], l)'
  <2>1. InvList(L[l], l)
    BY DEF InvLists
  <2>2. CASE l = k
    <3>1. Range(L[k]) = {} /\ Len(L[k]) = 0 /\ L[k] = << >>
      BY <2>1, <2>2, NoFreeBlock
    <3>2. Cells(k)' = InUse(k)'
      <4>1. Cells(k) = InUse(k)
        BY <2>1, <2>2, <3>1 DEF InvList
      <4>2. Cells(k)' = Cells(k) \union {b} /\ InUse(k)' = InUse(k) \union {b}
        BY <1>1, <1>4
      <4>3. QED
        BY <4>1, <4>2, Zenon
    <3>3. 0 + Cardinality(LiveOf(k)') <= LiveLimit
      <4>1. Cardinality(LiveOf(k)) \in Nat /\ Cardinality(LiveOf(k)') = Cardinality(LiveOf(k)) + 1
        BY <1>4, LiveCount
      <4>2. QED
        BY <1>4, <4>1, LimitAssumption
    <3>4. RunsFrom(L[k], free'[k], Links', Null)
      <4>1. L[k] \in Seq(Word) /\ RunsFrom(L[k], free[k], Links, Null)
            /\ \A a \in Range(L[k]) : mem'[a] = mem[a]
        BY <2>1, <2>2, <3>1 DEF InvList
      <4>2. QED
        BY <4>1, ListKept
    <3>5. QED
      BY <2>1, <2>2, <3>1, <3>2, <3>3, <3>4 DEF InvList
  <2>3. CASE l # k
    <3>1. /\ free'[l] = free[l] /\ Cells(l)' = Cells(l) /\ InUse(l)' = InUse(l)
          /\ Cardinality(LiveOf(l)') = Cardinality(LiveOf(l))
          /\ \A a \in Cells(l) : mem'[a] = mem[a]
      <4>1. Cells(l)' = Cells(l) /\ \A a \in Cells(l) : mem'[a] = mem[a]
        BY <1>1, <1>4, <2>3
      <4>2. InUse(l)' = InUse(l)
        BY <1>4, <2>3
      <4>3. Cardinality(LiveOf(l)') = Cardinality(LiveOf(l))
        BY <1>4, <2>3
      <4>4. QED
        BY <4>1, <4>2, <4>3
    <3>2. QED
      BY <2>1, <3>1, OtherList
  <2>4. QED
    BY <2>2, <2>3
<1>6. QED
  BY <1>4, <1>5 DEF InvLists

\* The words of chunks' headers are different ones.
LEMMA HeadersDiffer ==
  ASSUME NEW i \in Nat, NEW j \in Nat, i # j
  PROVE  /\ Next_(Base(i)) # Next_(Base(j)) /\ PoolCurr(Base(i)) # PoolCurr(Base(j))
         /\ Next_(Base(i)) # PoolCurr(Base(j)) /\ PoolCurr(Base(i)) # Next_(Base(j))
<1>1. Base(i) \in Nat /\ Base(j) \in Nat /\ ChunkSize \in Nat /\ ChunkSize >= 2
  BY BaseType, ChunkType
<1>2. Base(i) + ChunkSize <= Base(j) \/ Base(j) + ChunkSize <= Base(i)
  BY BasesApart
<1>3. QED
  BY <1>1, <1>2 DEF Next_, PoolCurr

LEMMA HeaderInMemory ==
  ASSUME NEW i \in Nat, i < ChunkLimit
  PROVE  Next_(Base(i)) \in Word /\ PoolCurr(Base(i)) \in Word /\ Next_(Base(i)) # PoolCurr(Base(i))
<1> DEFINE limit == ChunkLimit * ChunkSize
<1>1. limit \in Nat /\ ChunkLimit \in Nat
  BY LimitAssumption, ChunkType
<1>2. Base(i) \in Nat /\ Base(i) + ChunkSize <= limit
  BY <1>1, BaseType, BasesApart DEF Base
<1> HIDE DEF limit
<1>3. Base(i) \in 0..(limit - 1) /\ Base(i) + 1 \in 0..(limit - 1)
  BY <1>1, <1>2, ChunkType
<1>4. QED
  BY <1>2, <1>3 DEF Next_, PoolCurr, Word, limit

LEMMA AllocFromLocalStep ==
  ASSUME LayoutInv, Ready, NEW k \in Pools, NEW bytes \in Requests, AllocFromLocal(bytes, k),
         UNCHANGED vars
  PROVE  LayoutInv'
<1>1. PICK L : InvLists(L)
  BY DEF LayoutInv
<1>2. IInv /\ InvChunks /\ InvLive
  BY DEF LayoutInv
<1>3. PICK i \in 0..(chunks - 1) : owner[i] = k /\ head[k] = Base(i)
  BY <1>2 DEF InvChunks, AllocFromLocal, HasRoom
<1> DEFINE b == Top(mem, i)
           S == Sizes[k]
           m == Write(mem, {PoolCurr(Base(i))}, <<"pool_curr", b + S>>)
<1>4. /\ mem' = Stamp(m, b, bytes) /\ live' = live \union {Block(b, bytes, k)}
      /\ UNCHANGED <<chunks, owner, head, free>> /\ Asked(bytes, k) /\ free[k] = Null
      /\ (Base(i) + ChunkSize - b) \div S > 0
  BY <1>3 DEF AllocFromLocal, Carve, HasRoom, FreeCount, Top
<1>5. /\ Chunked(mem, chunks, owner) /\ i \in Nat /\ i < ChunkLimit /\ S \in Nat \ {0} /\ b \in Int
      /\ chunks \in Nat /\ \A j \in 0..(chunks - 1) : j \in Nat /\ j < ChunkLimit
  BY <1>2, <1>3, ChunkFits, SizeType, LimitAssumption DEF InvChunks, Chunked, Fits_
<1>6. b + S <= Base(i) + ChunkSize
  <2> DEFINE x == Base(i) + ChunkSize - b
  <2>1. Base(i) \in Nat /\ ChunkSize \in Nat /\ x \in Int /\ x \div S > 0
    BY <1>4, <1>5, BaseType, ChunkType
  <2>2. x \div S \in Int /\ x = S * (x \div S) + (x % S) /\ x % S \in 0..(S - 1)
    BY <1>5, <2>1, ModSplit
  <2>3. \A d \in Int : d > 0 => S * d >= S
    BY <1>5
  <2>4. S * (x \div S) >= S /\ S * (x \div S) \in Int
    BY <1>5, <2>1, <2>2, <2>3
  <2>5. x >= S
    BY <1>5, <2>2, <2>4
  <2>6. QED
    BY <1>5, <2>1, <2>5
<1>7. \A w \in Word : m[w] = IF w = PoolCurr(Base(i)) THEN <<"pool_curr", b + S>> ELSE mem[w]
  BY DEF Write
<1> HIDE DEF m
<1>8. /\ m[PoolCurr(Base(i))] = <<"pool_curr", b + S>>
      /\ \A j \in 0..(chunks - 1) : m[Next_(Base(j))] = mem[Next_(Base(j))]
      /\ \A j \in 0..(chunks - 1) : j # i => m[PoolCurr(Base(j))] = mem[PoolCurr(Base(j))]
  BY <1>5, <1>7, HeaderInMemory, HeadersDiffer
<1>9. OneMore(mem, chunks, owner, m, chunks', owner', k, b)
  BY <1>3, <1>4, <1>5, <1>6, <1>8, CarveHere
<1>10. \A l \in Pools : \A a \in Cells(l) : \A w \in Body(a, l) : m[w] = mem[w]
  BY <1>5, <1>7, HeadersApart, InMemory DEF Cells
<1>11. DOMAIN mem' = Word /\ Chunked(mem', chunks', owner') /\ InvLive' /\ InvLists(L)'
  <2> HIDE DEF b
  <2>1. QED
    BY <1>1, <1>2, <1>4, <1>9, <1>10, CarveStep
<1>12. InvChunks'
  BY <1>2, <1>4, <1>11 DEF InvChunks
<1>13. IInv'
  BY <1>2, TableStays
<1>14. QED
  BY <1>11, <1>12, <1>13 DEF LayoutInv

LEMMA AllocFromGlobalStep ==
  ASSUME LayoutInv, Ready, NEW k \in Pools, NEW bytes \in Requests, AllocFromGlobal(bytes, k),
         UNCHANGED vars
  PROVE  LayoutInv'
<1>1. PICK L : InvLists(L)
  BY DEF LayoutInv
<1>2. IInv /\ InvChunks /\ InvLive
  BY DEF LayoutInv
<1> DEFINE c == Base(chunks)
           b == First(chunks)
           S == Sizes[k]
           m0 == Write(mem, {Next_(c)}, <<"next", head[k]>>)
           m == Write(m0, {PoolCurr(c)}, <<"pool_curr", b + S>>)
<1>3. /\ mem' = Stamp(m, b, bytes) /\ live' = live \union {Block(b, bytes, k)}
      /\ head' = [head EXCEPT ![k] = c] /\ chunks' = chunks + 1 /\ chunks < ChunkLimit
      /\ owner' = [i \in 0..chunks |-> IF i = chunks THEN k ELSE owner[i]]
      /\ free' = free /\ Asked(bytes, k) /\ free[k] = Null
  BY DEF AllocFromGlobal, Carve, Base, First
<1>4. /\ Chunked(mem, chunks, owner) /\ chunks \in Nat /\ S \in Nat \ {0}
      /\ chunks \notin 0..(chunks - 1)
      /\ \A j \in 0..(chunks - 1) : j \in Nat /\ j < ChunkLimit
  BY <1>2, <1>3, SizeType, LimitAssumption DEF InvChunks, Chunked
<1>5. /\ \A w \in Word : m0[w] = IF w = Next_(c) THEN <<"next", head[k]>> ELSE mem[w]
      /\ \A w \in Word : m[w] = IF w = PoolCurr(c) THEN <<"pool_curr", b + S>> ELSE m0[w]
  BY DEF Write
<1> HIDE DEF m, m0
<1>6. /\ m[Next_(c)] = <<"next", head[k]>> /\ m[PoolCurr(c)] = <<"pool_curr", b + S>>
      /\ \A j \in 0..(chunks - 1) : m[Next_(Base(j))] = mem[Next_(Base(j))]
                                    /\ m[PoolCurr(Base(j))] = mem[PoolCurr(Base(j))]
  <2>1. Next_(c) \in Word /\ PoolCurr(c) \in Word /\ Next_(c) # PoolCurr(c)
    BY <1>3, <1>4, HeaderInMemory
  <2>2. ASSUME NEW j \in 0..(chunks - 1)
        PROVE  /\ Next_(Base(j)) \in Word /\ PoolCurr(Base(j)) \in Word
               /\ Next_(Base(j)) # Next_(c) /\ PoolCurr(Base(j)) # PoolCurr(c)
               /\ Next_(Base(j)) # PoolCurr(c) /\ PoolCurr(Base(j)) # Next_(c)
    BY <1>4, HeaderInMemory, HeadersDiffer
  <2> HIDE DEF c
  <2>3. QED
    BY <1>5, <2>1, <2>2
<1>7. OneMore(mem, chunks, owner, m, chunks', owner', k, b)
  <2>1. m[Next_(Base(chunks))][1] = "next"
    BY <1>6
  <2>2. QED
    BY <1>3, <1>4, <1>6, <2>1, CarveNew
<1>8. \A l \in Pools : \A a \in Cells(l) : \A w \in Body(a, l) : m[w] = mem[w]
  BY <1>4, <1>5, HeadersApart, InMemory DEF Cells
<1>9. DOMAIN mem' = Word /\ Chunked(mem', chunks', owner') /\ InvLive' /\ InvLists(L)'
  <2> HIDE DEF b
  <2>1. QED
    BY <1>1, <1>2, <1>3, <1>7, <1>8, CarveStep
<1>10. InvChunks'
  <2>1. head' \in [Pools -> Word \union {Null}]
    <3>1. c \in Word
      BY <1>3, <1>4, HeaderInMemory DEF Next_
    <3>2. QED
      BY <1>2, <1>3, <3>1 DEF InvChunks
  <2>2. ASSUME NEW l \in Pools, head'[l] # Null
        PROVE  \E i \in 0..(chunks' - 1) : owner'[i] = l /\ head'[l] = Base(i)
    <3>1. chunks' - 1 = chunks /\ chunks \in 0..chunks /\ 0..(chunks - 1) \subseteq 0..chunks
          /\ DOMAIN head = Pools
      BY <1>2, <1>3, <1>4 DEF InvChunks
    <3>2. CASE l = k
      BY <1>3, <3>1, <3>2
    <3>3. CASE l # k
      <4>1. PICK i \in 0..(chunks - 1) : owner[i] = l /\ head[l] = Base(i)
        BY <1>2, <1>3, <2>2, <3>1, <3>3 DEF InvChunks
      <4>2. i \in 0..chunks /\ owner'[i] = l /\ head'[l] = Base(i)
        BY <1>3, <1>4, <3>1, <3>3, <4>1
      <4>3. QED
        BY <3>1, <4>2
    <3>4. QED
      BY <3>2, <3>3
  <2>3. QED
    BY <1>2, <1>3, <1>9, <2>1, <2>2 DEF InvChunks
<1>11. IInv'
  BY <1>2, TableStays
<1>12. QED
  BY <1>9, <1>10, <1>11 DEF LayoutInv

LEMMA UseStep ==
  ASSUME LayoutInv, Ready, NEW y \in Pooled, Use(y), UNCHANGED vars
  PROVE  LayoutInv'
<1> DEFINE b == y.at
           k == y.pool
           S == Sizes[k]
           z == [y EXCEPT !.used = TRUE]
<1>1. PICK L : InvLists(L)
  BY DEF LayoutInv
<1>2. IInv /\ InvChunks /\ InvLive
  BY DEF LayoutInv
<1>3. /\ ~ y.used /\ live' = (live \ {y}) \union {z} /\ UNCHANGED <<chunks, owner, head, free>>
      /\ mem' = Write(mem, User(b, y.bytes), <<"user", b>>) /\ k # 0 /\ y \in live
  BY DEF Use, Pooled
<1>4. /\ b \in Nat /\ y.bytes \in Nat /\ k \in Pools /\ b \in Cells(k) /\ b \in Word
      /\ y.bytes + Overhead <= S /\ Body(b, k) \subseteq Word /\ b \in Body(b, k) /\ S \in Nat
      /\ y \in [at : Int, bytes : Requests, pool : Pools \union {0}, used : BOOLEAN]
  BY <1>1, <1>2, <1>3, LiveFacts DEF InvLive
<1>5. /\ z.at = b /\ z.bytes = y.bytes /\ z.pool = k /\ z.used = TRUE /\ z # y
      /\ z \in [at : Int, bytes : Requests, pool : Pools \union {0}, used : BOOLEAN]
  BY <1>3, <1>4
<1> HIDE DEF z
<1>6. /\ PrePad(b) \subseteq Body(b, k) /\ PostPad(b, y.bytes) \subseteq Body(b, k)
      /\ User(b, y.bytes) \subseteq Body(b, k) /\ b \notin User(b, y.bytes)
      /\ User(b, y.bytes) \intersect (PrePad(b) \union PostPad(b, y.bytes)) = {}
  BY <1>4, PartsOfBody DEF Body
<1>7. /\ \A w \in Word : mem'[w] = IF w \in User(b, y.bytes) THEN <<"user", b>> ELSE mem[w]
      /\ DOMAIN mem' = Word
  BY <1>3 DEF Write
<1>8. /\ Chunked(mem', chunks', owner') /\ \A l \in Pools : Cells(l)' = Cells(l)
      /\ \A l \in Pools : \A a \in Cells(l) : a # b => \A w \in Body(a, l) : mem'[w] = mem[w]
  <2>1. \A w \in Word : w \notin Body(b, k) => mem'[w] = mem[w]
    BY <1>6, <1>7
  <2>2. Chunked(mem, chunks, owner) /\ b \in CarvedIn(mem, chunks, owner, k)
    BY <1>2, <1>4 DEF InvChunks, Cells
  <2>3. /\ Chunked(mem', chunks, owner)
        /\ \A l \in Pools : CarvedIn(mem', chunks, owner, l) = CarvedIn(mem, chunks, owner, l)
        /\ \A l \in Pools : \A a \in CarvedIn(mem, chunks, owner, l) : a # b =>
             \A w \in Body(a, l) : mem'[w] = mem[w]
    BY <1>4, <2>1, <2>2, BodyWrite
  <2>4. QED
    BY <1>3, <2>3 DEF Cells
<1>9. \A l \in Pools : \A a \in Cells(l) : mem'[a] = mem[a]
  <2>1. SUFFICES ASSUME NEW l \in Pools, NEW a \in Cells(l), a # b PROVE mem'[a] = mem[a]
    BY <1>4, <1>6, <1>7
  <2>2. a \in Body(a, l)
    BY <1>2, InMemory DEF InvChunks, Cells
  <2>3. QED
    BY <1>8, <2>1, <2>2
<1>10. Filled(z)'
  <2>1. Stamped(mem, b, y.bytes)
    BY <1>2, <1>3 DEF InvLive, Filled
  <2>2. Stamped(mem', b, y.bytes)
    BY <1>4, <1>6, <1>7, <2>1 DEF Stamped
  <2>3. \A w \in User(b, y.bytes) : mem'[w] = <<"user", b>>
    BY <1>4, <1>6, <1>7
  <2>4. QED
    BY <1>5, <2>2, <2>3 DEF Filled
<1>11. \A x \in Pooled : x # y => x.at # b
  BY <1>2 DEF InvLive
<1>12. Pooled' = (Pooled \ {y}) \union {z} /\ z \notin live
  <2>1. z \notin live
    <3>1. z \in live => z \in Pooled
      BY <1>3, <1>5 DEF Pooled
    <3>2. QED
      BY <1>5, <1>11, <3>1
  <2>2. QED
    BY <1>3, <1>5, <2>1 DEF Pooled
<1>13. InvLive'
  <2>1. Ready' /\ \A s : PoolFor(s)' = PoolFor(s)
    BY DEF vars, Ready, PoolFor
  <2>2. /\ IsFiniteSet(live')
        /\ live' \subseteq [at : Int, bytes : Requests, pool : Pools \union {0}, used : BOOLEAN]
    <3>1. IsFiniteSet(live \ {y})
      BY <1>2, FS_Subset DEF InvLive
    <3>2. QED
      BY <1>2, <1>3, <1>5, <3>1, FS_AddElement DEF InvLive
  <2>3. ASSUME NEW x \in Pooled, x # y
        PROVE  /\ x.pool = PoolFor(x.bytes + Overhead)' /\ x.bytes + Overhead <= Sizes[x.pool]
               /\ Filled(x)'
    <3>1. x.pool \in Pools /\ x.at \in Cells(x.pool) /\ x.at # b
      BY <1>1, <1>2, <1>11, <2>3, LiveFacts
    <3>2. Filled(x)'
      BY <1>1, <1>2, <1>8, <3>1, FilledKept
    <3>3. QED
      BY <1>2, <2>1, <3>2 DEF InvLive
  <2>4. /\ z.pool = PoolFor(z.bytes + Overhead)' /\ z.bytes + Overhead <= Sizes[z.pool]
        /\ Filled(z)'
    BY <1>2, <1>5, <1>10, <2>1 DEF InvLive
  <2>5. \A u, v \in Pooled' : u.at = v.at => u = v
    BY <1>2, <1>5, <1>11, <1>12 DEF InvLive
  <2>6. \A x \in Pooled' : /\ x.pool = PoolFor(x.bytes + Overhead)'
                           /\ x.bytes + Overhead <= Sizes[x.pool] /\ Filled(x)'
    BY <1>12, <2>3, <2>4
  <2>7. QED
    BY <2>1, <2>2, <2>5, <2>6 DEF InvLive
<1>14. ASSUME NEW l \in Pools
       PROVE  InUse(l)' = InUse(l) /\ Cardinality(LiveOf(l)') = Cardinality(LiveOf(l))
  <2>1. InUse(l) = {x.at : x \in LiveOf(l)} /\ InUse(l)' = {x.at : x \in LiveOf(l)'}
    BY DEF InUse, LiveOf
  <2>2. CASE l = k
    <3>1. LiveOf(l)' = (LiveOf(l) \ {y}) \union {z} /\ y \in LiveOf(l) /\ z \notin LiveOf(l)
      BY <1>3, <1>5, <1>12, <2>2 DEF LiveOf
    <3>2. InUse(l)' = InUse(l)
      BY <1>5, <2>1, <3>1
    <3>3. /\ IsFiniteSet(LiveOf(l)) /\ Cardinality(LiveOf(l)) \in Nat
      BY <1>2, LiveCount
    <3>4. /\ Cardinality(LiveOf(l) \ {y}) = Cardinality(LiveOf(l)) - 1
          /\ IsFiniteSet(LiveOf(l) \ {y})
      BY <3>1, <3>3, FS_RemoveElement
    <3>5. Cardinality((LiveOf(l) \ {y}) \union {z}) = Cardinality(LiveOf(l) \ {y}) + 1
      BY <3>1, <3>4, FS_AddElement
    <3>6. QED
      BY <3>1, <3>2, <3>3, <3>4, <3>5
  <2>3. CASE l # k
    <3>1. LiveOf(l)' = LiveOf(l)
      BY <1>3, <1>5, <2>3 DEF LiveOf
    <3>2. QED
      BY <2>1, <3>1
  <2>4. QED
    BY <2>2, <2>3
<1>15. InvLists(L)'
  <2>1. SUFFICES ASSUME NEW l \in Pools PROVE InvList(L[l], l)'
    BY DEF InvLists
  <2>2. QED
    BY <1>1, <1>3, <1>8, <1>9, <1>14, OtherList DEF InvLists
<1>16. InvChunks'
  BY <1>2, <1>3, <1>7, <1>8 DEF InvChunks
<1>17. QED
  BY <1>2, <1>13, <1>15, <1>16, TableStays DEF LayoutInv

LEMMA FreeStep ==
  ASSUME LayoutInv, Ready, NEW y \in live, Free(y), UNCHANGED vars
  PROVE  LayoutInv'
<1> DEFINE b == y.at
           k == y.pool
<1>1. PICK L : InvLists(L)
  BY DEF LayoutInv
<1>2. IInv /\ InvChunks /\ InvLive
  BY DEF LayoutInv
<1>3. y \in Pooled
  BY DEF Free, Pooled
<1>4. /\ b \in Nat /\ k \in Pools /\ b \in Cells(k) /\ b \in Word /\ b \in InUse(k)
      /\ y \in LiveOf(k)
      /\ b \in Body(b, k)
  BY <1>1, <1>2, <1>3, LiveFacts
<1>5. PoolFor(SizeFound(y)) = k
  <2>1. mem[b] = <<"size", y.bytes>> /\ k = PoolFor(y.bytes + Overhead)
    BY <1>2, <1>3 DEF InvLive, Filled, Stamped
  <2>2. QED
    BY <2>1 DEF SizeFound
<1>6. /\ mem' = Write(mem, {b}, <<"next", free[k]>>) /\ free' = [free EXCEPT ![k] = b]
      /\ live' = live \ {y} /\ UNCHANGED <<chunks, owner, head>>
  BY <1>5 DEF Free
<1> DEFINE s == L[k]
           r == <<b>> \o s
<1>7. /\ \A w \in Word : mem'[w] = IF w = b THEN <<"next", free[k]>> ELSE mem[w]
      /\ DOMAIN mem' = Word
  BY <1>6 DEF Write
<1>8. /\ Chunked(mem', chunks', owner') /\ \A l \in Pools : Cells(l)' = Cells(l)
      /\ \A l \in Pools : \A a \in Cells(l) : a # b => \A w \in Body(a, l) : mem'[w] = mem[w]
  <2>1. \A w \in Word : w \notin Body(b, k) => mem'[w] = mem[w]
    BY <1>4, <1>7
  <2>2. Chunked(mem, chunks, owner) /\ b \in CarvedIn(mem, chunks, owner, k)
    BY <1>2, <1>4 DEF InvChunks, Cells
  <2>3. /\ Chunked(mem', chunks, owner)
        /\ \A l \in Pools : CarvedIn(mem', chunks, owner, l) = CarvedIn(mem, chunks, owner, l)
        /\ \A l \in Pools : \A a \in CarvedIn(mem, chunks, owner, l) : a # b =>
             \A w \in Body(a, l) : mem'[w] = mem[w]
    BY <1>4, <2>1, <2>2, BodyWrite
  <2>4. QED
    BY <1>6, <2>3 DEF Cells
<1>9. \A l \in Pools : \A a \in Cells(l) : a # b => mem'[a] = mem[a]
  <2>1. SUFFICES ASSUME NEW l \in Pools, NEW a \in Cells(l), a # b PROVE mem'[a] = mem[a]
    OBVIOUS
  <2>2. a \in Word
    BY <1>2, InMemory DEF InvChunks, Cells
  <2>3. QED
    BY <1>7, <2>1, <2>2
<1>10. \A x \in Pooled : x # y => x.at # b
  BY <1>2, <1>3 DEF InvLive
<1>11. InvLive'
  <2>1. Ready' /\ \A n : PoolFor(n)' = PoolFor(n)
    BY DEF vars, Ready, PoolFor
  <2>2. /\ IsFiniteSet(live')
        /\ live' \subseteq [at : Int, bytes : Requests, pool : Pools \union {0}, used : BOOLEAN]
    BY <1>2, <1>6, FS_Subset DEF InvLive
  <2>3. Pooled' = Pooled \ {y}
    BY <1>6 DEF Pooled
  <2>4. ASSUME NEW x \in Pooled, x # y PROVE Filled(x)'
    <3>1. x.pool \in Pools /\ x.at \in Cells(x.pool) /\ x.at # b
      BY <1>1, <1>2, <1>10, <2>4, LiveFacts
    <3>2. QED
      BY <1>1, <1>2, <1>8, <3>1, FilledKept
  <2>5. \A x \in Pooled' : /\ x.pool = PoolFor(x.bytes + Overhead)'
                           /\ x.bytes + Overhead <= Sizes[x.pool] /\ Filled(x)'
    BY <1>2, <2>1, <2>3, <2>4 DEF InvLive
  <2>6. \A u, v \in Pooled' : u.at = v.at => u = v
    BY <1>2, <2>3 DEF InvLive
  <2>7. QED
    BY <2>1, <2>2, <2>5, <2>6 DEF InvLive
<1>12. ASSUME NEW l \in Pools
       PROVE  /\ LiveOf(l)' = IF l = k THEN LiveOf(l) \ {y} ELSE LiveOf(l)
              /\ InUse(l)' = IF l = k THEN InUse(l) \ {b} ELSE InUse(l)
  <2>1. InUse(l) = {x.at : x \in LiveOf(l)} /\ InUse(l)' = {x.at : x \in LiveOf(l)'}
    BY DEF InUse, LiveOf
  <2>2. LiveOf(l)' = IF l = k THEN LiveOf(l) \ {y} ELSE LiveOf(l)
    BY <1>6 DEF LiveOf
  <2>3. \A x \in LiveOf(l) : x # y => x.at # b
    <3>1. l # 0
      BY DEF Pools
    <3>2. QED
      BY <1>10, <3>1 DEF LiveOf, Pooled
  <2>4. QED
    BY <1>4, <2>1, <2>2, <2>3
<1>13. /\ s \in Seq(Word) /\ Distinct(s) /\ RunsFrom(s, free[k], Links, Null)
       /\ Cells(k) = Range(s) \union InUse(k) /\ Range(s) \intersect InUse(k) = {}
       /\ Len(s) + Cardinality(LiveOf(k)) <= LiveLimit /\ Len(s) \in Nat
  BY <1>1, <1>4 DEF InvLists, InvList
<1>14. /\ r \in Seq(Word) /\ Range(r) = Range(s) \union {b} /\ Len(r) = Len(s) + 1
       /\ Distinct(r) /\ RunsFrom(r, b, Links', Null)
  <2>1. b \notin Range(s)
    BY <1>4, <1>13
  <2>2. Links'[b] = free[k]
    BY <1>4, <1>7 DEF Links
  <2>3. \A a \in Range(s) : Links'[a] = Links[a]
    <3>1. SUFFICES ASSUME NEW a \in Range(s) PROVE Links'[a] = Links[a]
      OBVIOUS
    <3>2. a \in Word /\ a \in Cells(k) /\ a # b
      BY <1>13, <2>1, RangeEquality
    <3>3. QED
      BY <1>4, <1>9, <3>2 DEF Links
  <2> HIDE DEF s, b, k
  <2>4. QED
    BY <1>4, <1>13, <2>1, <2>2, <2>3, RunAdd
<1>15. DOMAIN free = Pools /\ free'[k] = b /\ \A l \in Pools : l # k => free'[l] = free[l]
  BY <1>2, <1>4, <1>6 DEF InvChunks
<1>16. ASSUME NEW l \in Pools PROVE InvList(IF l = k THEN r ELSE L[l], l)'
  <2>1. CASE l = k
    <3>1. Cells(k)' = Range(r) \union InUse(k)' /\ Range(r) \intersect InUse(k)' = {}
      BY <1>4, <1>8, <1>12, <1>13, <1>14
    <3>2. Len(r) + Cardinality(LiveOf(k)') <= LiveLimit
      <4>1. /\ Cardinality(LiveOf(k)) \in Nat /\ IsFiniteSet(LiveOf(k))
            /\ LiveOf(k)' = LiveOf(k) \ {y} /\ y \in LiveOf(k)
        BY <1>2, <1>4, <1>12, LiveCount
      <4>2. Cardinality(LiveOf(k)') = Cardinality(LiveOf(k)) - 1
        BY <4>1, FS_RemoveElement
      <4>3. QED
        BY <1>13, <1>14, <4>1, <4>2, LimitAssumption
    <3>3. QED
      BY <1>14, <1>15, <2>1, <3>1, <3>2 DEF InvList
  <2>2. CASE l # k
    <3>1. InvList(L[l], l)
      BY <1>1 DEF InvLists
    <3>2. \A a \in Cells(l) : a # b
      BY <1>2, <1>4, <2>2, BlocksApart DEF InvChunks, Cells
    <3>3. /\ free'[l] = free[l] /\ Cells(l)' = Cells(l) /\ InUse(l)' = InUse(l)
          /\ Cardinality(LiveOf(l)') = Cardinality(LiveOf(l))
          /\ \A a \in Cells(l) : mem'[a] = mem[a]
      BY <1>8, <1>9, <1>12, <1>15, <2>2, <3>2
    <3>4. InvList(L[l], l)'
      BY <3>1, <3>3, OtherList
    <3>5. QED
      BY <2>2, <3>4
  <2>3. QED
    BY <2>1, <2>2
<1>17. \E M : InvLists(M)'
  <2> DEFINE M == [l \in Pools |-> IF l = k THEN r ELSE L[l]]
  <2>1. \A l \in Pools : InvList(M[l], l)'
    BY <1>16
  <2> HIDE DEF M
  <2>2. QED
    BY <2>1 DEF InvLists
<1>18. InvChunks'
  <2>1. free' \in [Pools -> Word \union {Null}]
    BY <1>2, <1>4, <1>6 DEF InvChunks
  <2>2. DOMAIN mem' = Word /\ Chunked(mem', chunks', owner') /\ UNCHANGED <<chunks, owner, head>>
    BY <1>6, <1>7, <1>8
  <2>3. QED
    BY <1>2, <2>1, <2>2 DEF InvChunks
<1>19. QED
  BY <1>2, <1>11, <1>17, <1>18, TableStays DEF LayoutInv

\* A step that gives, takes or marks a block of malloc's only.
LEMMA BigStep ==
  ASSUME LayoutInv, Ready, IsFiniteSet(live'),
         live' \subseteq [at : Int, bytes : Requests, pool : Pools \union {0}, used : BOOLEAN],
         Pooled' = Pooled, UNCHANGED <<mem, chunks, owner, head, free, vars>>
  PROVE  LayoutInv'
<1>1. PICK L : InvLists(L)
  BY DEF LayoutInv
<1>2. IInv /\ InvChunks /\ InvLive
  BY DEF LayoutInv
<1>3. /\ UNCHANGED vars /\ mem' = mem /\ chunks' = chunks /\ owner' = owner /\ head' = head
      /\ free' = free
  OBVIOUS
<1>4. InvLive'
  <2>1. Ready' /\ \A n : PoolFor(n)' = PoolFor(n)
    BY <1>3 DEF vars, Ready, PoolFor
  <2>2. \A y \in Pooled : Filled(y)'
    BY <1>2, <1>3 DEF InvLive, Filled, Stamped
  <2>3. QED
    BY <1>2, <2>1, <2>2 DEF InvLive
<1>5. ASSUME NEW l \in Pools PROVE LiveOf(l)' = LiveOf(l)
  <2>1. l # 0
    BY DEF Pools
  <2>2. LiveOf(l) = {y \in Pooled : y.pool = l} /\ LiveOf(l)' = {y \in Pooled' : y.pool = l}
    BY <2>1 DEF LiveOf, Pooled
  <2>3. QED
    BY <2>2
<1>6. InvLists(L)'
  <2>1. SUFFICES ASSUME NEW l \in Pools PROVE InvList(L[l], l)'
    BY DEF InvLists
  <2>2. InUse(l) = {x.at : x \in LiveOf(l)} /\ InUse(l)' = {x.at : x \in LiveOf(l)'}
    BY DEF InUse, LiveOf
  <2>3. InUse(l)' = InUse(l) /\ Cardinality(LiveOf(l)') = Cardinality(LiveOf(l))
    BY <1>5, <2>2
  <2>4. Cells(l)' = Cells(l) /\ \A a \in Cells(l) : mem'[a] = mem[a]
    BY <1>3 DEF Cells
  <2>5. InvList(L[l], l)
    BY <1>1 DEF InvLists
  <2>6. QED
    BY <1>3, <2>3, <2>4, <2>5, OtherList
<1>7. InvChunks'
  BY <1>2, <1>3 DEF InvChunks
<1>8. QED
  BY <1>2, <1>3, <1>4, <1>6, <1>7, TableStays DEF LayoutInv

LEMMA AllocBigStep ==
  ASSUME LayoutInv, Ready, NEW bytes \in Requests, NEW at \in 0..(L1CacheAlignSize - 1),
         AllocBig(bytes, at), UNCHANGED vars
  PROVE  LayoutInv'
<1> DEFINE x == Block(at, bytes, 0)
<1>1. InvLive
  BY DEF LayoutInv
<1>2. live' = live \union {x} /\ UNCHANGED <<mem, chunks, owner, head, free>>
  BY DEF AllocBig
<1>3. x.pool = 0 /\ x \in [at : Int, bytes : Requests, pool : Pools \union {0}, used : BOOLEAN]
  <2>1. at \in Int
    BY LineAssumption
  <2>2. QED
    BY <2>1 DEF Block
<1> HIDE DEF x
<1>4. Pooled' = Pooled
  BY <1>2, <1>3 DEF Pooled
<1>5. /\ IsFiniteSet(live')
      /\ live' \subseteq [at : Int, bytes : Requests, pool : Pools \union {0}, used : BOOLEAN]
  BY <1>1, <1>2, <1>3, FS_AddElement DEF InvLive
<1>6. QED
  BY <1>2, <1>4, <1>5, BigStep

LEMMA UseBigStep ==
  ASSUME LayoutInv, Ready, NEW y \in live, y.pool = 0, Use(y), UNCHANGED vars
  PROVE  LayoutInv'
<1> DEFINE z == [y EXCEPT !.used = TRUE]
<1>1. InvLive
  BY DEF LayoutInv
<1>2. live' = (live \ {y}) \union {z} /\ UNCHANGED <<mem, chunks, owner, head, free>>
  BY DEF Use
<1>3. z.pool = 0 /\ z \in [at : Int, bytes : Requests, pool : Pools \union {0}, used : BOOLEAN]
  <2>1. y \in [at : Int, bytes : Requests, pool : Pools \union {0}, used : BOOLEAN]
    BY <1>1 DEF InvLive
  <2>2. QED
    BY <2>1
<1> HIDE DEF z
<1>4. Pooled' = Pooled
  BY <1>2, <1>3 DEF Pooled
<1>5. /\ IsFiniteSet(live')
      /\ live' \subseteq [at : Int, bytes : Requests, pool : Pools \union {0}, used : BOOLEAN]
  <2>1. IsFiniteSet(live \ {y})
    BY <1>1, FS_Subset DEF InvLive
  <2>2. QED
    BY <1>1, <1>2, <1>3, <2>1, FS_AddElement DEF InvLive
<1>6. QED
  BY <1>2, <1>4, <1>5, BigStep

LEMMA FreeBigStep ==
  ASSUME LayoutInv, Ready, NEW y \in live, FreeBig(y), UNCHANGED vars
  PROVE  LayoutInv'
<1>1. InvLive
  BY DEF LayoutInv
<1>2. y.pool = 0 /\ live' = live \ {y} /\ UNCHANGED <<mem, chunks, owner, head, free>>
  BY DEF FreeBig
<1>3. Pooled' = Pooled
  BY <1>2 DEF Pooled
<1>4. /\ IsFiniteSet(live')
      /\ live' \subseteq [at : Int, bytes : Requests, pool : Pools \union {0}, used : BOOLEAN]
  BY <1>1, <1>2, FS_Subset DEF InvLive
<1>5. QED
  BY <1>2, <1>3, <1>4, BigStep

\* While the table is built no block is out, and the chunks stay as they are.
LEMMA NoBlockOut ==
  ASSUME LayoutInv, IInv', UNCHANGED layoutVars, live = {}
  PROVE  LayoutInv'
<1>1. PICK L : InvLists(L)
  BY DEF LayoutInv
<1>2. InvChunks /\ InvLive
  BY DEF LayoutInv
<1>3. /\ mem' = mem /\ chunks' = chunks /\ owner' = owner /\ head' = head /\ free' = free
      /\ live' = live
  BY DEF layoutVars
<1>4. InvLive'
  BY <1>2, <1>3 DEF InvLive, Pooled
<1>5. InvLists(L)'
  <2>1. SUFFICES ASSUME NEW l \in Pools PROVE InvList(L[l], l)'
    BY DEF InvLists
  <2>2. LiveOf(l)' = LiveOf(l) /\ InUse(l)' = InUse(l)
    BY <1>3 DEF LiveOf, InUse
  <2>3. Cells(l)' = Cells(l) /\ \A a \in Cells(l) : mem'[a] = mem[a]
    BY <1>3 DEF Cells
  <2>4. InvList(L[l], l)
    BY <1>1 DEF InvLists
  <2>5. Cardinality(LiveOf(l)') = Cardinality(LiveOf(l))
    BY <2>2
  <2>6. QED
    BY <1>3, <2>2, <2>3, <2>4, <2>5, OtherList
<1>6. InvChunks'
  BY <1>2, <1>3 DEF InvChunks
<1>7. QED
  BY <1>4, <1>5, <1>6 DEF LayoutInv

LEMMA TableStep ==
  ASSUME LayoutInv, MakePool \/ MakeTable \/ Fill \/ NextPool, UNCHANGED layoutVars
  PROVE  LayoutInv'
<1>1. IInv /\ InvLive
  BY DEF LayoutInv
<1>2. IInv'
  BY <1>1, MakePoolInv, MakeTableInv, FillInv, NextPoolInv
<1>3. ~ Ready
  <2>1. Len(Sizes) \in Nat \ {0}
    BY SizesFacts
  <2>2. CASE MakePool
    <3>1. made # Len(Sizes)
      BY <1>1, <2>1, <2>2 DEF MakePool, IInv, TypeOK
    <3>2. Ready => pool > 0
      BY <2>1 DEF Ready
    <3>3. QED
      BY <1>1, <3>1, <3>2 DEF IInv, LoopsInOrder
  <2>3. CASE MakeTable
    BY <2>1, <2>3 DEF MakeTable, Ready
  <2>4. CASE Fill
    BY <2>1, <2>4 DEF Fill, Fits, Pools, Ready
  <2>5. CASE NextPool
    BY <2>1, <2>5 DEF NextPool, Pools, Ready
  <2>6. QED
    BY <2>2, <2>3, <2>4, <2>5
<1>4. live = {}
  BY <1>1, <1>3 DEF InvLive
<1>5. QED
  BY <1>2, <1>4, NoBlockOut

LEMMA LayoutInitInv == ASSUME LayoutInit PROVE LayoutInv
<1> DEFINE L == [k \in Pools |-> << >>]
<1>1. IInv
  BY InitInv DEF LayoutInit
<1>2. /\ chunks = 0 /\ live = {} /\ free = [k \in Pools |-> Null] /\ DOMAIN mem = Word
      /\ head = [k \in Pools |-> Null] /\ owner = [i \in {} |-> Null]
  BY DEF LayoutInit
<1>3. 0..(chunks - 1) = {}
  BY <1>2
<1>4. Chunked(mem, chunks, owner)
  <2>1. owner \in [{} -> Pools] /\ 0 \in 0..ChunkLimit
    BY <1>2, LimitAssumption
  <2>2. QED
    BY <1>2, <1>3, <2>1 DEF Chunked
<1>5. InvChunks
  BY <1>2, <1>4 DEF InvChunks
<1>6. InvLive
  BY <1>2, FS_EmptySet DEF InvLive, Pooled
<1>7. ASSUME NEW k \in Pools PROVE InvList(<< >>, k)
  <2>1. Cells(k) = {} /\ InUse(k) = {} /\ LiveOf(k) = {}
    BY <1>2, <1>3 DEF Cells, CarvedIn, ChunksOf, InUse, LiveOf
  <2>2. Cardinality(LiveOf(k)) = 0 /\ Len(<< >>) = 0
    BY <2>1, FS_EmptySet
  <2>3. RunsFrom(<< >>, free[k], Links, Null)
    BY <1>2 DEF RunsFrom, NodeAt
  <2>4. Len(<< >>) + Cardinality(LiveOf(k)) <= LiveLimit
    BY <2>2, LimitAssumption
  <2>5. QED
    BY <2>1, <2>3, <2>4, EmptyList DEF InvList
<1>8. InvLists(L)
  BY <1>7 DEF InvLists
<1>9. QED
  BY <1>1, <1>5, <1>6, <1>8 DEF LayoutInv

LEMMA LayoutNextInv == ASSUME LayoutInv, [LayoutNext]_<<vars, layoutVars>> PROVE LayoutInv'
<1>1. ASSUME MakePool \/ MakeTable \/ Fill \/ NextPool, UNCHANGED layoutVars PROVE LayoutInv'
  BY <1>1, TableStep
<1>2. ASSUME Ready, UNCHANGED vars, NEW bytes \in Requests, NEW k \in Pools, AllocFromFree(bytes, k)
      PROVE  LayoutInv'
  BY <1>2, AllocFromFreeStep
<1>3. ASSUME Ready, UNCHANGED vars, NEW bytes \in Requests, NEW k \in Pools,
             AllocFromLocal(bytes, k)
      PROVE  LayoutInv'
  BY <1>3, AllocFromLocalStep
<1>4. ASSUME Ready, UNCHANGED vars, NEW bytes \in Requests, NEW k \in Pools,
             AllocFromGlobal(bytes, k)
      PROVE  LayoutInv'
  BY <1>4, AllocFromGlobalStep
<1>5. ASSUME Ready, UNCHANGED vars, NEW bytes \in Requests, NEW at \in 0..(L1CacheAlignSize - 1),
             AllocBig(bytes, at)
      PROVE  LayoutInv'
  BY <1>5, AllocBigStep
<1>6. ASSUME Ready, UNCHANGED vars, NEW y \in live, Use(y) PROVE LayoutInv'
  <2>1. CASE y.pool = 0
    BY <1>6, <2>1, UseBigStep
  <2>2. CASE y.pool # 0
    <3>1. y \in Pooled
      BY <2>2 DEF Pooled
    <3>2. QED
      BY <1>6, <3>1, UseStep
  <2>3. QED
    BY <2>1, <2>2
<1>7. ASSUME Ready, UNCHANGED vars, NEW y \in live, Free(y) PROVE LayoutInv'
  BY <1>7, FreeStep
<1>8. ASSUME Ready, UNCHANGED vars, NEW y \in live, FreeBig(y) PROVE LayoutInv'
  BY <1>8, FreeBigStep
<1>9. ASSUME UNCHANGED <<vars, layoutVars>> PROVE LayoutInv'
  <2>1. InvLive /\ IInv
    BY DEF LayoutInv
  <2>2. UNCHANGED vars /\ UNCHANGED <<mem, chunks, owner, head, free>> /\ live' = live
    BY <1>9 DEF layoutVars
  <2>3. IInv'
    BY <2>1, <2>2, TableStays
  <2>4. CASE live = {}
    BY <1>9, <2>3, <2>4, NoBlockOut
  <2>5. CASE live # {}
    <3>1. Ready
      BY <2>1, <2>5 DEF InvLive
    <3>2. Pooled' = Pooled
      BY <2>2 DEF Pooled
    <3>3. /\ IsFiniteSet(live')
          /\ live' \subseteq [at : Int, bytes : Requests, pool : Pools \union {0}, used : BOOLEAN]
      BY <2>1, <2>2 DEF InvLive
    <3>4. QED
      BY <2>2, <3>1, <3>2, <3>3, BigStep
  <2>6. QED
    BY <2>4, <2>5
<1>10. QED
  BY <1>1, <1>2, <1>3, <1>4, <1>5, <1>6, <1>7, <1>8, <1>9 DEF LayoutNext

\* Every reachable state of a thread's blocks satisfies the inductive invariant.
THEOREM LayoutInvariant == LayoutSpec => []LayoutInv
<1>1. LayoutInit => LayoutInv
  BY LayoutInitInv
<1>2. LayoutInv /\ [LayoutNext]_<<vars, layoutVars>> => LayoutInv'
  BY LayoutNextInv
<1>3. QED
  BY <1>1, <1>2, PTL DEF LayoutSpec

-----------------------------------------------------------------------------
(* The properties. *)

\* The words, the chunks' headers and the lists' heads are what their types say
\* (struct pool, thread_local_pool, block_header).
THEOREM LayoutTypeCorrect == LayoutSpec => []LayoutTypeOK
<1>1. ASSUME LayoutInv PROVE LayoutTypeOK
  <2>1. IInv /\ InvChunks /\ InvLive
    BY <1>1 DEF LayoutInv
  <2>2. TypeOK
    BY <2>1 DEF IInv
  <2>3. \A b \in live : b.pool \in Pools \union {0} /\ b.bytes \in Requests
    BY <2>1 DEF InvLive
  <2>4. \A i \in 0..(chunks - 1) : /\ mem[Next_(i * ChunkSize)][1] = "next"
                                   /\ mem[PoolCurr(i * ChunkSize)][1] = "pool_curr"
    BY <2>1 DEF InvChunks, Chunked, Base
  <2>5. QED
    BY <2>1, <2>2, <2>3, <2>4 DEF LayoutTypeOK, InvChunks, Chunked
<1>2. QED
  BY <1>1, LayoutInvariant, PTL

\* dealloc finds the size that alloc wrote, and both fences whole: its asserts on
\* pre_pad and post_pad do not fail for a program that keeps to its own words.
THEOREM HeadersKept == LayoutSpec => []HeaderAndFencesKept
<1>1. ASSUME LayoutInv PROVE HeaderAndFencesKept
  BY <1>1 DEF LayoutInv, InvLive, Filled, Stamped, HeaderAndFencesKept
<1>2. QED
  BY <1>1, LayoutInvariant, PTL

\* Neither alloc, which stamps and carves, nor dealloc, which links, writes to
\* the words of a block that the program has.
THEOREM ContentsStay == LayoutSpec => []ContentsKept
<1>1. ASSUME LayoutInv PROVE ContentsKept
  BY <1>1 DEF LayoutInv, InvLive, Filled, ContentsKept
<1>2. QED
  BY <1>1, LayoutInvariant, PTL

LEMMA CarvedCells == ASSUME InvChunks, NEW k \in Pools PROVE Carved(k) = Cells(k)
<1> DEFINE I == {j \in 0..(chunks - 1) : owner[j] = k}
           Of(c) == {b \in (c + PoolHeader)..(mem[PoolCurr(c)][2] - 1) :
                       (b - c - PoolHeader) % Sizes[k] = 0}
<1>1. ASSUME NEW i \in I PROVE Of(i * ChunkSize) = BlocksTo(i, Top(mem, i), Sizes[k])
  <2>1. i \in Nat /\ Base(i) \in Nat /\ PoolHeader \in Nat /\ First(i) = Base(i) + PoolHeader
    BY BaseType, HeaderAssumption DEF First
  <2>2. Top(mem, i) \in Int
    BY ChunkFits DEF InvChunks, Fits_
  <2>3. \A b \in Int : b - Base(i) - PoolHeader = b - First(i)
    BY <2>1
  <2>4. Of(Base(i)) = {b \in First(i)..(Top(mem, i) - 1) : (b - First(i)) % Sizes[k] = 0}
    BY <2>1, <2>2, <2>3 DEF Top
  <2>5. QED
    BY <2>4 DEF Base, BlocksTo
<1>2. Carved(k) = UNION {Of(c) : c \in {i * ChunkSize : i \in I}}
  BY DEF Carved
<1>3. Cells(k) = UNION {BlocksTo(i, Top(mem, i), Sizes[k]) : i \in I}
  BY DEF Cells, CarvedIn, ChunksOf
<1> HIDE DEF Of, I
<1>4. UNION {Of(c) : c \in {i * ChunkSize : i \in I}} = UNION {Of(i * ChunkSize) : i \in I}
  OBVIOUS
<1>5. {Of(i * ChunkSize) : i \in I} = {BlocksTo(i, Top(mem, i), Sizes[k]) : i \in I}
  BY <1>1
<1>6. QED
  BY <1>2, <1>3, <1>4, <1>5

LEMMA ListedList ==
  ASSUME InvLive, NEW k \in Pools, NEW s, InvList(s, k)
  PROVE  Listed(k) = Range(s)
<1> DEFINE N == LiveLimit
           Next1(g, n) == IF n = 0 THEN {free[k]}
                          ELSE g[n - 1] \union {mem[b][2] : b \in g[n - 1] \intersect Word}
<1>1. /\ s \in Seq(Word) /\ RunsFrom(s, free[k], Links, Null) /\ N \in Nat /\ Len(s) \in Nat
      /\ Len(s) <= N
  BY LiveCount, LimitAssumption DEF InvList
<1>2. /\ \E g : Reaches(g, free[k], Links, Word, N)
      /\ \A g : Reaches(g, free[k], Links, Word, N) => g[N] \intersect Word = Range(s)
  <2> HIDE DEF N
  <2>1. Null \notin Word
    BY NullAssumption
  <2>2. ReachesList(s, free[k], Links, Word, N)
    BY <1>1, <2>1, LinksReach
  <2>3. QED
    BY <2>2, Zenon DEF ReachesList
<1>3. ASSUME NEW g
      PROVE  Reaches(g, free[k], Links, Word, N) <=> g = [n \in 0..N |-> Next1(g, n)]
  <2>1. \A n : {Links[b] : b \in g[n - 1] \intersect Word}
                 = {mem[b][2] : b \in g[n - 1] \intersect Word}
    BY DEF Links
  <2>2. QED
    BY <2>1, Zenon DEF Reaches
<1>4. \E g : g = [n \in 0..N |-> Next1(g, n)] /\ Listed(k) = g[N] \intersect Word
  <2>1. \E g : g = [n \in 0..N |-> Next1(g, n)]
    BY <1>2, <1>3
  <2>2. QED
    BY <2>1, Zenon DEF Listed
<1>5. QED
  BY <1>2, <1>3, <1>4

\* A block goes back to the pool whose size the header gives, and that is the
\* pool it was carved for: each is in use or on that pool's free list, once.
THEOREM BlocksGoHome == LayoutSpec => []FreeGoesHome
<1>1. ASSUME LayoutInv PROVE FreeGoesHome
  <2>1. PICK L : InvLists(L)
    BY <1>1 DEF LayoutInv
  <2>2. InvChunks /\ InvLive
    BY <1>1 DEF LayoutInv
  <2>3. SUFFICES ASSUME NEW k \in Pools
                 PROVE  /\ Carved(k) = Listed(k) \union InUse(k)
                        /\ Listed(k) \intersect InUse(k) = {}
    BY DEF FreeGoesHome
  <2>4. InvList(L[k], k)
    BY <2>1 DEF InvLists
  <2>5. Carved(k) = Cells(k) /\ Listed(k) = Range(L[k])
    BY <2>2, <2>4, CarvedCells, ListedList
  <2>6. QED
    BY <2>4, <2>5 DEF InvList
<1>2. QED
  BY <1>1, LayoutInvariant, PTL

\* chunk headers, block headers and block sizes make up whole cache lines: what
\* the program gets from a pool begins one.
THEOREM PooledIsAligned == LayoutSpec => []PooledAligned
<1>1. ASSUME LayoutInv PROVE PooledAligned
  <2>1. PICK L : InvLists(L)
    BY <1>1 DEF LayoutInv
  <2>2. InvChunks /\ InvLive
    BY <1>1 DEF LayoutInv
  <2>3. SUFFICES ASSUME NEW y \in Pooled PROVE UserAt(y.at) % L1CacheAlignSize = 0
    BY DEF PooledAligned
  <2> DEFINE b == y.at
             k == y.pool
             A == L1CacheAlignSize
             front == PoolHeader + Header + Fence
  <2>4. k \in Pools /\ b \in CarvedIn(mem, chunks, owner, k) /\ b \in Nat
    BY <2>1, <2>2, LiveFacts DEF Cells
  <2>5. PICK i \in 0..(chunks - 1) : i \in Nat /\ b \in BlocksTo(i, Top(mem, i), Sizes[k])
    BY <2>2, <2>4, InChunk DEF InvChunks
  <2>6. A \in Nat \ {0} /\ front \in Int /\ front % A = 0 /\ ChunkSize % A = 0 /\ Sizes[k] % A = 0
        /\ PoolHeader \in Nat /\ Header \in Nat /\ Fence \in Nat /\ ChunkSize \in Nat
    BY <2>4, LineAssumption, AlignAssumption, HeaderAssumption, ChunkAssumption
  <2>7. Base(i) \in Nat /\ First(i) \in Nat /\ First(i) = Base(i) + PoolHeader
        /\ Sizes[k] \in Nat \ {0}
    BY <2>4, <2>5, BaseType, SizeType DEF First
  <2>8. (b - First(i)) % Sizes[k] = 0 /\ b - First(i) \in Int
    BY <2>4, <2>5, <2>7 DEF BlocksTo
  <2>9. UserAt(b) = (b - First(i)) + (Base(i) + front)
    <3>1. UserAt(b) = b + Header + Fence /\ front = PoolHeader + Header + Fence
      BY DEF UserAt
    <3> HIDE DEF b, front
    <3>2. QED
      BY <2>4, <2>6, <2>7, <3>1
  <2> HIDE DEF b, k, A, front
  <2>10. (b - First(i)) % A = 0
    BY <2>6, <2>7, <2>8, MultipleOf
  <2>11. Base(i) % A = 0
    <3>1. PICK q \in Int : ChunkSize = A * q
      <4>1. A \in Nat \ {0} /\ ChunkSize \in Int /\ ChunkSize % A = 0
        BY <2>6
      <4>2. QED
        BY <4>1, Multiple, Zenon
    <3>2. Base(i) = A * (q * i) + 0 /\ q * i \in Int /\ 0 \in Int /\ 0 % A = 0
      BY <2>5, <2>6, <3>1 DEF Base
    <3>3. (A * (q * i) + 0) % A = 0 % A
      BY <2>6, <3>2, ModOfMultiple, Zenon
    <3>4. QED
      BY <3>2, <3>3, Zenon
  <2>12. (Base(i) + front) % A = 0 /\ Base(i) + front \in Int
    BY <2>6, <2>7, <2>11, MultipleSum
  <2>13. ((b - First(i)) + (Base(i) + front)) % A = 0
    BY <2>6, <2>8, <2>10, <2>12, MultipleSum
  <2>14. QED
    BY <2>9, <2>13 DEF b, A
<1>2. QED
  BY <1>1, LayoutInvariant, PTL

\* The program's requests leave the table as the first one's init built it: what
\* is proved of the table alone holds of it while blocks come and go.
THEOREM TableIsBuiltOnce == LayoutSpec => Spec
<1>1. LayoutInit => Init
  BY DEF LayoutInit
<1>2. [LayoutNext]_<<vars, layoutVars>> => [Next]_vars
  BY DEF LayoutNext, Next
<1>3. QED
  BY <1>1, <1>2, PTL DEF LayoutSpec, Spec
=============================================================================
