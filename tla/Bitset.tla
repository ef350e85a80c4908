------------------------------ MODULE Bitset ------------------------------
(***************************************************************************)
(* np::bitset (src/np_bitset.h): the bits in words of 64, and above them   *)
(* index_, one word with a bit for each word that is not zero.  A word is  *)
(* the set of its positions, counted from the most significant bit; Bits   *)
(* has the numbers that stand for them.                                    *)
(*                                                                         *)
(* The class for 64 bits has one word and no index_; here it has an index_ *)
(* that nothing of its own reads.                                          *)
(***************************************************************************)
EXTENDS Bits, FiniteSets, Functions

CONSTANT Sizes    \* the TSizes a bitset is made with

ASSUME SizesAssumption == Sizes \subseteq Word..(Word * Word)

VARIABLES
  size,         \* kIndexSize
  index_,       \* index_
  sub_index_,   \* sub_index_
  emptied,      \* what the last clear returned
  pos_,         \* an iterator's pos_
  \* History variables.
  members,      \* what the set should hold
  unseen        \* what the iterator should still come to

bits == <<size, index_, sub_index_>>
vars == <<bits, emptied, pos_, members, unseen>>

SubCount == (size + Word - 1) \div Word

Init ==
  /\ size \in Sizes
  /\ index_ = {}
  /\ sub_index_ = [i \in 0..(SubCount - 1) |-> {}]
  /\ emptied = FALSE
  /\ pos_ = size
  /\ members = {}
  /\ unseen = {}

\* get_frist of one word, by clz.
First(word) == IF word = {} THEN Word ELSE Min(word)

\* Mutant of GetFrist: the least bit of the first word, empty or not.
GetFristOfFirst == First(sub_index_[0])

GetFrist ==
  LET idx == First(index_) IN
  IF idx >= SubCount THEN size ELSE idx * Word + First(sub_index_[idx])

Get(pos) == pos % Word \in sub_index_[pos \div Word]
Count == MapThenSumSet(LAMBDA i : Cardinality(sub_index_[i]), 0..(SubCount - 1))

Set(pos) ==
  /\ index_' = index_ \union {pos \div Word}
  /\ sub_index_' = [sub_index_ EXCEPT ![pos \div Word] = @ \union {pos % Word}]
  /\ members' = members \union {pos}
  /\ emptied' = FALSE
  /\ UNCHANGED <<size, pos_, unseen>>

\* Mutant of BecameZero: whatever remains in the word.
BecameZeroAlways(word) == TRUE

BecameZero(word) == word = {}

\* clear of the word says whether it is zero now; then index_ loses its bit.
Clear(pos) ==
  /\ sub_index_' = [sub_index_ EXCEPT ![pos \div Word] = @ \ {pos % Word}]
  /\ LET zero == BecameZero(sub_index_'[pos \div Word]) IN
       /\ index_' = IF zero THEN index_ \ {pos \div Word} ELSE index_
       /\ emptied' = (zero /\ index_' = {})
  /\ members' = members \ {pos}
  /\ unseen' = unseen \ {pos}
  /\ UNCHANGED <<size, pos_>>

\* set_all fills whole words.  For the sizes that do not fill index_ this sets
\* bits that no position has; the repository makes no bitset of such a size.
SetAll ==
  /\ size \in {Word, Word * Word}
  /\ index_' = 0..(SubCount - 1)
  /\ sub_index_' = [i \in 0..(SubCount - 1) |-> 0..(Word - 1)]
  /\ members' = 0..(size - 1)
  /\ emptied' = FALSE
  /\ UNCHANGED <<size, pos_, unseen>>

ClearAll ==
  /\ index_' = {}
  /\ sub_index_' = [i \in 0..(SubCount - 1) |-> {}]
  /\ members' = {}
  /\ unseen' = {}
  /\ emptied' = FALSE
  /\ UNCHANGED <<size, pos_>>

\* begin, end and at: an iterator for the members after pos.
IterateFrom(pos) ==
  /\ pos_' = pos
  /\ unseen' = {m \in members : m > pos}
  /\ UNCHANGED <<bits, emptied, members>>

\* Mutant of NextPos: only the rest of the word is looked at.
NextPosInWord ==
  LET rest == {p \in (pos_ + 1)..(size - 1) : Get(p) /\ p \div Word = pos_ \div Word}
  IN IF rest = {} THEN size ELSE Min(rest)

\* In one word, clz of what is left when the bits up to pos_ are shifted out; in
\* several, a loop over get.
NextPos ==
  IF size = Word THEN First({p \in sub_index_[0] : p > pos_})
  ELSE LET rest == {p \in (pos_ + 1)..(size - 1) : Get(p)}
       IN IF rest = {} THEN size ELSE Min(rest)

\* The program calls next until end.
IteratorNext ==
  /\ pos_ # size
  /\ pos_' = NextPos
  /\ unseen' = unseen \ {pos_'}
  /\ UNCHANGED <<bits, emptied, members>>

Next ==
  \/ \E pos \in 0..(size - 1) : Set(pos)
  \/ \E pos \in 0..(size - 1) : Clear(pos)
  \/ SetAll
  \/ ClearAll
  \/ \E pos \in 0..size : IterateFrom(pos)
  \/ IteratorNext

Spec == Init /\ [][Next]_vars

-----------------------------------------------------------------------------
(* Properties *)

\* get, get_frist, count and the result of clear are those of the set of
\* positions, for every size: the two levels never disagree.
AgreesWithMembers ==
  /\ \A pos \in 0..(size - 1) : Get(pos) = (pos \in members)
  /\ GetFrist = IF members = {} THEN size ELSE Min(members)
  /\ Count = Cardinality(members)
  /\ emptied => members = {}

\* Whatever is set and cleared meanwhile, an iterator that has come to the end
\* has stopped at every position after its first that was a member all along.
IteratorMissesNone == pos_ = size => unseen = {}

\* A word's number stands for its set: the shifts and masks, and the counting of
\* zeros in both compilers' branches, give what the sets say, in a full word, an
\* empty one and at its first and last bit too.
Raw(word) == MapThenSumSet(Mask, word)
RawBitsAgree == \A word \in {index_} \union Range(sub_index_) :
  LET x == Raw(word) IN
  /\ clz(x) = First(word) /\ clz_msvc(x) = clz(x)
  /\ ctz(x) = (IF word = {} THEN Word ELSE Word - 1 - Max(word)) /\ ctz_msvc(x) = ctz(x)
  /\ popcnt(x) = Cardinality(word)
  /\ x # 0 => Pow2[log2(x)] <= x /\ x < Pow2[log2(x) + 1]
  /\ \A p \in 0..(Word - 1) :
       /\ RawGet(x, p) = (p \in word)
       /\ RawSet(x, p) = Raw(word \union {p})
       /\ RawClear(x, p) = Raw(word \ {p})
       /\ RawNext(x, p) = First({q \in word : q > p})
=============================================================================
