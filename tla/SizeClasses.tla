---------------------------- MODULE SizeClasses ----------------------------
(***************************************************************************)
(* thread_local_pool::get_alloc_size_list (src/np_alloc.cpp): the sizes of *)
(* the blocks np_alloc hands out, in the order it lists them.  The first   *)
(* four are a cache line apart; after them each power of two is divided    *)
(* into four, plus one line for the header, up to the largest size asked.  *)
(***************************************************************************)
EXTENDS Integers, Sequences, FiniteSetsExt, Powers

CONSTANTS
  L1CacheAlignSize,   \* kL1CacheAlignSize
  DefaultAlignSize,   \* kDefaultAlignSize
  MaxPayload          \* the 8192 in kMaxBlockSize

MaxBlockSize == MaxPayload + L1CacheAlignSize - DefaultAlignSize

\* The n-th size to be pushed: i counts lines, then i doubles and j quarters.
SizeAt(n) ==
  IF n <= 4 THEN L1CacheAlignSize * n
  ELSE LET i == (n - 5) \div 4
           j == 4 + ((n - 5) % 4)
       IN (j * Pow2[i]) * L1CacheAlignSize + L1CacheAlignSize

\* The push after which `goto done` leaves the loops.
Last == Min({n \in 5..32 : SizeAt(n) >= MaxBlockSize + DefaultAlignSize})

AllocSizes == [n \in 1..Last |-> SizeAt(n)]
=============================================================================
