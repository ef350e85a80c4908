--------------------------- MODULE MCBlockLayout ---------------------------
(***************************************************************************)
(* Instances of BlockLayout for TLC, with the code's list of sizes for a   *)
(* smaller cache line and a smaller kMaxBlockSize.                         *)
(***************************************************************************)
EXTENDS BlockLayout

CONSTANT MaxPayload

Small == INSTANCE SizeClasses
MCSizes == Small!AllocSizes

\* The list the code makes with its own constants is one SizeTable is about,
\* and passes the assertion at the end of get_alloc_size_list.
Real == INSTANCE SizeClasses WITH
  L1CacheAlignSize <- 64, DefaultAlignSize <- 16, MaxPayload <- 8192
ASSUME RealSizesAssumption ==
  /\ Len(Real!AllocSizes) <= 32
  /\ \A i, j \in 1..Len(Real!AllocSizes) : i < j => Real!AllocSizes[i] < Real!AllocSizes[j]
  /\ \A i \in 1..Len(Real!AllocSizes) : Real!AllocSizes[i] % 64 = 0
=============================================================================
