-------------------------------- MODULE Bits --------------------------------
(***************************************************************************)
(* A word of bits as the number the code keeps it in: clz, ctz and popcnt  *)
(* of src/np_common.h, as both compilers' branches compute them, and the   *)
(* masks and shifts of np::bitset<64> (src/np_bitset.h).  The bitset       *)
(* counts positions from the most significant bit, the compilers' builtins *)
(* from the least.                                                         *)
(***************************************************************************)
EXTENDS Integers, FiniteSetsExt, Powers

CONSTANT Word    \* the bits of a word, 64

ASSUME WordAssumption == Word \in Nat \ {0}

\* << and >> of an unsigned word, n < Word.
Shl(x, n) == (x * Pow2[n]) % Pow2[Word]
Shr(x, n) == x \div Pow2[n]

\* What the builtins return, undefined for 0: the index of the highest bit and
\* of the lowest, and the numbers of zero bits above the one, below the other.
_BitScanReverse(x) == CHOOSE i \in 0..(Word - 1) : Pow2[i] <= x /\ x < Pow2[i + 1]
_BitScanForward(x) == CHOOSE i \in 0..(Word - 1) : x % Pow2[i + 1] = Pow2[i]
__builtin_clz(x) == CHOOSE n \in 0..(Word - 1) : Shr(x, Word - n) = 0 /\ Shr(x, Word - n - 1) = 1
__builtin_ctz(x) == CHOOSE n \in 0..(Word - 1) : Shl(Shr(x, n), n) = x /\ Shr(x, n) % 2 = 1

clz(x) == IF x # 0 THEN __builtin_clz(x) ELSE Word
ctz(x) == IF x # 0 THEN __builtin_ctz(x) ELSE Word
popcnt(x) == MapThenSumSet(LAMBDA i : Shr(x, i) % 2, 0..(Word - 1))

\* The same for _MSC_VER.
clz_msvc(x) == IF x # 0 THEN (Word - 1) - _BitScanReverse(x) ELSE Word
ctz_msvc(x) == IF x # 0 THEN _BitScanForward(x) ELSE Word

\* Unsigned: log2(0) wraps.
log2(x) == (Word - clz(x) - 1) % Pow2[Word]

\* get, set and clear of bitset<64>.
Mask(pos) == Shl(1, Word - 1 - pos)
RawGet(bits_, pos) == (bits_ \div Mask(pos)) % 2 > 0
RawSet(bits_, pos) == IF RawGet(bits_, pos) THEN bits_ ELSE bits_ + Mask(pos)
RawClear(bits_, pos) == IF RawGet(bits_, pos) THEN bits_ - Mask(pos) ELSE bits_

\* Mutant of RawNext: the word is not shifted back.
RawNextShifted(bits_, pos) == IF pos + 1 = Word THEN Word ELSE clz(Shl(bits_, pos + 1))

\* bitset<64>::iterator::next: shift out what lies before the new position and
\* look for the first bit in the rest.
RawNext(bits_, pos) ==
  IF pos + 1 = Word THEN Word ELSE clz(Shr(Shl(bits_, pos + 1), pos + 1))
=============================================================================
