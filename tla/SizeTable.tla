----------------------------- MODULE SizeTable -----------------------------
(***************************************************************************)
(* thread_local_pool::init (src/np_alloc.cpp): the table that maps the     *)
(* size of a block to the pool that serves it.  The first loop makes one   *)
(* pool for each size of get_alloc_size_list and finds the largest, the    *)
(* second fills mapping_pool_ one entry at a time.                         *)
(*                                                                         *)
(* alloc and dealloc both index the finished table with a size they        *)
(* compute for themselves, without another check: an entry left out or one *)
(* too far is a wild pointer, and one too small a block that does not hold *)
(* what was asked for.                                                     *)
(***************************************************************************)
EXTENDS Integers, Sequences, FiniteSets

CONSTANTS
  Sizes,   \* get_alloc_size_list()
  None     \* an entry nobody has written

ASSUME SizesAssumption ==
  /\ Sizes \in Seq(Nat \ {0})
  /\ Len(Sizes) > 0
  /\ \A i, j \in 1..Len(Sizes) : i < j => Sizes[i] < Sizes[j]
ASSUME NoneAssumption == None \notin 1..Len(Sizes)

VARIABLES
  made,             \* the pools in tls_pool_
  max_alloc_size,   \* max_alloc_size_
  pool,             \* the pool the second loop is at, 0 before the loop
  cur_size,         \* the local cur_size: the next entry to write
  mapping_pool      \* mapping_pool_, allocated between the loops

vars == <<made, max_alloc_size, pool, cur_size, mapping_pool>>

Pools == 1..Len(Sizes)
Largest == Sizes[Len(Sizes)]

TypeOK ==
  /\ made \in 0..Len(Sizes)
  /\ max_alloc_size \in Nat
  /\ pool \in 0..(Len(Sizes) + 1)
  /\ cur_size \in Nat
  /\ DOMAIN mapping_pool \in {{}, 0..Largest}
  /\ \A s \in DOMAIN mapping_pool : mapping_pool[s] \in Pools \union {None}

Init ==
  /\ made = 0
  /\ max_alloc_size = 0
  /\ pool = 0
  /\ cur_size = 0
  /\ mapping_pool = [s \in {} |-> None]

\* The first loop.
MakePool ==
  /\ made < Len(Sizes)
  /\ made' = made + 1
  /\ max_alloc_size' = IF max_alloc_size < Sizes[made + 1] THEN Sizes[made + 1]
                       ELSE max_alloc_size
  /\ UNCHANGED <<pool, cur_size, mapping_pool>>

\* Mutant of MakeTable: the entry for the largest size is forgotten.
MakeTableShort ==
  /\ made = Len(Sizes)
  /\ pool = 0
  /\ mapping_pool' = [s \in 0..(max_alloc_size - 1) |-> None]
  /\ pool' = 1
  /\ UNCHANGED <<made, max_alloc_size, cur_size>>

\* aligned_alloc(max_alloc_size_ + 1 entries), which are not initialised.
MakeTable ==
  /\ made = Len(Sizes)
  /\ pool = 0
  /\ mapping_pool' = [s \in 0..max_alloc_size |-> None]
  /\ pool' = 1
  /\ UNCHANGED <<made, max_alloc_size, cur_size>>

\* Mutant of Fits: the entry for the pool's own size is left to the next pool.
FitsNot == pool \in Pools /\ Sizes[pool] > cur_size

\* The condition of the inner loop.
Fits == pool \in Pools /\ Sizes[pool] >= cur_size

\* mapping_pool_[cur_size++] = &pool.
Fill ==
  /\ Fits
  /\ mapping_pool' = [mapping_pool EXCEPT ![cur_size] = pool]
  /\ cur_size' = cur_size + 1
  /\ UNCHANGED <<made, max_alloc_size, pool>>

NextPool ==
  /\ pool \in Pools
  /\ ~ Fits
  /\ pool' = pool + 1
  /\ UNCHANGED <<made, max_alloc_size, cur_size, mapping_pool>>

Ready == pool = Len(Sizes) + 1
Done == Ready /\ UNCHANGED vars

Next == MakePool \/ MakeTable \/ Fill \/ NextPool \/ Done

Spec == Init /\ [][Next]_vars

-----------------------------------------------------------------------------
(* Properties *)

\* Pool p serves blocks of s bytes best: no smaller one holds them.
BestFit(s, p) == Sizes[p] >= s /\ \A q \in 1..(p - 1) : Sizes[q] < s

\* When the table is ready, alloc and dealloc find in it, for every size they
\* look up, the smallest pool that holds a block of that size.
TableIsBestFit == Ready => \A s \in 0..max_alloc_size :
  mapping_pool[s] \in Pools /\ BestFit(s, mapping_pool[s])

\* No entry is written outside the table, and none twice: each goes to the
\* first pool that comes by.
WritesInTable == Fits => cur_size \in DOMAIN mapping_pool /\ mapping_pool[cur_size] = None

\* The assertion after the loops.
AssertTableFull == Ready => cur_size = max_alloc_size + 1

-----------------------------------------------------------------------------
\* What makes these inductive.
MaxSoFar == max_alloc_size = IF made = 0 THEN 0 ELSE Sizes[made]
LoopsInOrder ==
  /\ pool = 0 => cur_size = 0 /\ mapping_pool = [s \in {} |-> None]
  /\ pool > 0 => made = Len(Sizes) /\ DOMAIN mapping_pool = 0..Largest
\* The loop has passed pools 1 to pool - 1 and is within the reach of this one.
FilledBelow ==
  /\ pool > 0 => \A s \in 0..Largest :
       IF s < cur_size
       THEN mapping_pool[s] \in Pools /\ BestFit(s, mapping_pool[s])
       ELSE mapping_pool[s] = None
  /\ pool \in Pools => cur_size <= Sizes[pool] + 1
  /\ pool > 1 => cur_size >= Sizes[pool - 1] + 1
  /\ Ready => cur_size = Largest + 1
IInv == TypeOK /\ MaxSoFar /\ LoopsInOrder /\ FilledBelow
=============================================================================
