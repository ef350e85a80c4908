--------------------------- MODULE Bitset_proofs ---------------------------
(***************************************************************************)
(* Proofs about Bitset, for words of any width and bitsets of any size up  *)
(* to the square of it: first the two levels and the iterator, for words   *)
(* that are sets of positions, then the numbers that the code keeps these  *)
(* words in, with their shifts, masks and counts of zeros and ones.        *)
(***************************************************************************)
EXTENDS Bitset, ListsAndSums

-----------------------------------------------------------------------------
(* Positions: bit p of word w. *)

Words == 0..(SubCount - 1)
Places == 0..(Word - 1)

LEMMA SizeFacts ==
  ASSUME size \in Sizes
  PROVE  /\ Word \in Nat \ {0} /\ size \in Nat \ {0} /\ Word <= size
         /\ SubCount \in Nat \ {0} /\ SubCount <= Word
         /\ size <= Word * SubCount /\ Word * SubCount < size + Word
<1> DEFINE c == SubCount
           r == (size + Word - 1) % Word
<1>1. Word \in Nat \ {0} /\ size \in Nat \ {0} /\ Word <= size /\ size <= Word * Word
      /\ Word * Word \in Nat
  BY WordAssumption, SizesAssumption
<1>2. c \in Int /\ size + Word - 1 = Word * c + r /\ r \in 0..(Word - 1)
  <2>1. size + Word - 1 \in Int
    BY <1>1
  <2>2. QED
    BY <1>1, <2>1, ModSplit DEF SubCount
<1> HIDE DEF c, r
<1>3. Word * c \in Int /\ size <= Word * c /\ Word * c < size + Word
  BY <1>1, <1>2
<1>4. c >= 1
  <2>1. \A d \in Int : d <= 0 => Word * d <= 0
    BY <1>1
  <2>2. QED
    BY <1>1, <1>2, <1>3, <2>1
<1>5. c <= Word
  <2>1. \A d \in Int : d >= 1 => Word * d >= Word
    BY <1>1
  <2>2. Word * c = Word * Word + Word * (c - Word) /\ c - Word \in Int
    BY <1>1, <1>2
  <2>3. Word * (c - Word) \in Int
    BY <1>1, <2>2
  <2>4. QED
    BY <1>1, <1>2, <1>3, <2>1, <2>2, <2>3
<1>6. QED
  BY <1>1, <1>2, <1>3, <1>4, <1>5 DEF c

LEMMA SamePlace ==
  ASSUME NEW w \in Int, NEW v \in Int, NEW p \in Places, NEW q \in Places,
         Word * w + p = Word * v + q
  PROVE  w = v /\ p = q
<1>1. Word \in Nat \ {0} /\ p \in Int /\ q \in Int /\ q - p < Word /\ p - q < Word
  BY WordAssumption DEF Places
<1>2. Word * (w - v) = Word * w - Word * v /\ w - v \in Int /\ Word * w \in Int /\ Word * v \in Int
  BY <1>1
<1>3. Word * (w - v) = q - p
  BY <1>1, <1>2
<1>4. \A d \in Int : (d >= 1 => Word * d >= Word) /\ (d <= -1 => Word * d <= -Word)
  BY <1>1
<1>5. w - v = 0
  BY <1>1, <1>2, <1>3, <1>4
<1>6. QED
  BY <1>1, <1>2, <1>3, <1>5

LEMMA Splits ==
  ASSUME NEW pos \in Int
  PROVE  /\ pos \div Word \in Int /\ pos % Word \in Places
         /\ pos = Word * (pos \div Word) + (pos % Word)
BY WordAssumption, ModSplit DEF Places

\* The word and the place of a bit are those of its position.
LEMMA Joined ==
  ASSUME NEW w \in Int, NEW p \in Places
  PROVE  /\ Word * w + p \in Int
         /\ (Word * w + p) \div Word = w /\ (Word * w + p) % Word = p
<1> DEFINE pos == Word * w + p
<1>1. pos \in Int
  BY WordAssumption DEF Places
<1>2. pos \div Word \in Int /\ pos % Word \in Places /\ pos = Word * (pos \div Word) + (pos % Word)
  <2> HIDE DEF pos
  <2>1. QED
    BY <1>1, Splits
<1>3. pos \div Word = w /\ pos % Word = p
  BY <1>2, SamePlace
<1>4. QED
  BY <1>1, <1>3

LEMMA PosFacts ==
  ASSUME size \in Sizes, NEW pos \in 0..(size - 1)
  PROVE  /\ pos \div Word \in Words /\ pos % Word \in Places /\ pos \in Nat
         /\ pos = Word * (pos \div Word) + (pos % Word)
<1> DEFINE w == pos \div Word
           p == pos % Word
<1>1. /\ Word \in Nat \ {0} /\ size \in Nat /\ SubCount \in Nat /\ size <= Word * SubCount
      /\ pos \in Nat /\ pos < size
  BY SizeFacts
<1>2. w \in Int /\ p \in Places /\ pos = Word * w + p
  BY <1>1, Splits
<1> HIDE DEF w, p
<1>3. p \in Nat /\ p < Word
  BY <1>1, <1>2 DEF Places
<1>4. \A d \in Int : (d <= 0 => Word * d <= 0) /\ (d <= -1 => Word * d <= -Word)
  BY <1>1
<1>5. w >= 0
  BY <1>1, <1>2, <1>3, <1>4
<1>6. w < SubCount
  <2>1. Word * (SubCount - w) = Word * SubCount - Word * w /\ SubCount - w \in Int
        /\ Word * SubCount \in Int /\ Word * w \in Int
    BY <1>1, <1>2
  <2>2. Word * (SubCount - w) > 0
    BY <1>1, <1>2, <1>3, <2>1
  <2>3. QED
    BY <1>1, <1>2, <1>4, <2>1, <2>2
<1>7. w \in Words
  BY <1>1, <1>2, <1>5, <1>6 DEF Words
<1>8. QED
  BY <1>1, <1>2, <1>7 DEF w, p

-----------------------------------------------------------------------------
(* Least members. *)

LEMMA MinIn ==
  ASSUME NEW S \in SUBSET Nat, S # {}
  PROVE  Min(S) \in S /\ \A y \in S : Min(S) <= y
<1>1. PICK n \in S : \A m \in S : ~ (m < n)
  BY Least
<1>2. n \in S /\ \A y \in S : n <= y
  BY <1>1
<1>3. QED
  BY <1>2 DEF Min

LEMMA MinIs ==
  ASSUME NEW S \in SUBSET Nat, NEW n \in S, \A y \in S : n <= y
  PROVE  Min(S) = n
<1> DEFINE m == Min(S)
<1>1. m \in S /\ \A y \in S : m <= y
  BY MinIn
<1> HIDE DEF m
<1>2. m \in Nat /\ n \in Nat
  BY <1>1
<1>3. m <= n /\ n <= m
  BY <1>1
<1>4. m = n
  BY <1>2, <1>3
<1>5. QED
  BY <1>4 DEF m

-----------------------------------------------------------------------------
(* The inductive invariant. *)

\* The places of the members of a set in word w.
InWord(set, w) == {p \in Places : Word * w + p \in set}

\* The words hold the members, index_ the words that are not empty, and what the
\* iterator has still to come to lies behind it.
BitsInv ==
  /\ size \in Sizes
  /\ members \subseteq 0..(size - 1)
  /\ sub_index_ = [w \in Words |-> InWord(members, w)]
  /\ index_ = {w \in Words : InWord(members, w) # {}}
  /\ emptied => members = {}
  /\ pos_ \in 0..size
  /\ unseen \subseteq {m \in members : m > pos_}

\* get finds a member where set has put it.
LEMMA GetIsMember ==
  ASSUME BitsInv, NEW pos \in 0..(size - 1)
  PROVE  Get(pos) <=> pos \in members
<1>1. /\ pos \div Word \in Words /\ pos % Word \in Places
      /\ pos = Word * (pos \div Word) + (pos % Word)
  BY PosFacts DEF BitsInv
<1>2. sub_index_[pos \div Word] = InWord(members, pos \div Word)
  BY <1>1 DEF BitsInv
<1>3. QED
  BY <1>1, <1>2 DEF Get, InWord

LEMMA SomeWord ==
  ASSUME BitsInv
  PROVE  index_ = {} <=> members = {}
<1>1. ASSUME NEW m \in members PROVE m \div Word \in index_
  <2>1. /\ m \div Word \in Words /\ m % Word \in Places
        /\ m = Word * (m \div Word) + (m % Word)
    BY PosFacts DEF BitsInv
  <2>2. m % Word \in InWord(members, m \div Word)
    BY <2>1 DEF InWord
  <2>3. QED
    BY <2>1, <2>2 DEF BitsInv
<1>2. ASSUME NEW w \in index_ PROVE members # {}
  BY DEF BitsInv, InWord
<1>3. QED
  BY <1>1, <1>2

\* A set with one position more, or less, differs in the word of that position.
LEMMA OnePosition ==
  ASSUME size \in Sizes, NEW pos \in 0..(size - 1)
  PROVE  /\ \A set : \A w \in Words : InWord(set \union {pos}, w) =
              IF w = pos \div Word THEN InWord(set, w) \union {pos % Word} ELSE InWord(set, w)
         /\ \A set : \A w \in Words : InWord(set \ {pos}, w) =
              IF w = pos \div Word THEN InWord(set, w) \ {pos % Word} ELSE InWord(set, w)
<1>0. SUFFICES ASSUME NEW set, NEW w \in Words
      PROVE  /\ InWord(set \union {pos}, w) =
                  IF w = pos \div Word THEN InWord(set, w) \union {pos % Word} ELSE InWord(set, w)
             /\ InWord(set \ {pos}, w) =
                  IF w = pos \div Word THEN InWord(set, w) \ {pos % Word} ELSE InWord(set, w)
  OBVIOUS
<1>1. /\ pos \div Word \in Words /\ pos % Word \in Places /\ w \in Int /\ pos \div Word \in Int
      /\ pos = Word * (pos \div Word) + (pos % Word)
  BY PosFacts, SizeFacts DEF Words
<1> DEFINE v == pos \div Word
           q == pos % Word
<1>2. \A p \in Places : Word * w + p = pos <=> w = v /\ p = q
  <2>1. v \in Int /\ q \in Places /\ pos = Word * v + q /\ w \in Int
    BY <1>1
  <2> HIDE DEF v, q
  <2>2. ASSUME NEW p \in Places, Word * w + p = pos PROVE w = v /\ p = q
    BY <2>1, <2>2, SamePlace
  <2>3. QED
    BY <2>1, <2>2
<1>3. q \in Places
  BY <1>1
<1> HIDE DEF v, q
<1>4. /\ InWord(set \union {pos}, w) = IF w = v THEN InWord(set, w) \union {q} ELSE InWord(set, w)
      /\ InWord(set \ {pos}, w) = IF w = v THEN InWord(set, w) \ {q} ELSE InWord(set, w)
  BY <1>2, <1>3 DEF InWord
<1>5. QED
  BY <1>4 DEF v, q

LEMMA InitBits == ASSUME Init PROVE BitsInv
<1>1. size \in Sizes /\ members = {} /\ index_ = {} /\ unseen = {} /\ emptied = FALSE /\ pos_ = size
      /\ sub_index_ = [w \in Words |-> {}]
  BY DEF Init, Words
<1>2. \A w : InWord({}, w) = {}
  BY DEF InWord
<1>3. pos_ \in 0..size
  BY <1>1, SizeFacts
<1>4. QED
  BY <1>1, <1>2, <1>3 DEF BitsInv

LEMMA SetStep ==
  ASSUME BitsInv, NEW pos \in 0..(size - 1), Set(pos)
  PROVE  BitsInv'
<1> DEFINE w == pos \div Word
<1>1. /\ members' = members \union {pos} /\ size' = size /\ pos_' = pos_ /\ unseen' = unseen
      /\ index_' = index_ \union {w} /\ emptied' = FALSE
      /\ sub_index_' = [sub_index_ EXCEPT ![w] = @ \union {pos % Word}]
  BY DEF Set
<1>2. Words' = Words /\ \A s, v : InWord(s, v)' = InWord(s', v)
  BY <1>1 DEF Words, SubCount, InWord
<1>3. w \in Words /\ pos % Word \in Places
  BY PosFacts DEF BitsInv
<1>4. \A v \in Words : InWord(members', v) =
        IF v = w THEN InWord(members, v) \union {pos % Word} ELSE InWord(members, v)
  <2>1. size \in Sizes
    BY DEF BitsInv
  <2>2. \A set : \A v \in Words : InWord(set \union {pos}, v) =
          IF v = w THEN InWord(set, v) \union {pos % Word} ELSE InWord(set, v)
    BY <2>1, OnePosition
  <2>3. QED
    BY <1>1, <2>2, Zenon
<1> HIDE DEF w
<1>5. sub_index_' = [v \in Words |-> InWord(members', v)]
  BY <1>1, <1>3, <1>4 DEF BitsInv
<1>6. index_' = {v \in Words : InWord(members', v) # {}}
  BY <1>1, <1>3, <1>4 DEF BitsInv
<1>7. QED
  BY <1>1, <1>2, <1>5, <1>6 DEF BitsInv

LEMMA ClearStep ==
  ASSUME BitsInv, NEW pos \in 0..(size - 1), Clear(pos)
  PROVE  BitsInv'
<1> DEFINE w == pos \div Word
<1>1. /\ members' = members \ {pos} /\ size' = size /\ pos_' = pos_ /\ unseen' = unseen \ {pos}
      /\ sub_index_' = [sub_index_ EXCEPT ![w] = @ \ {pos % Word}]
      /\ index_' = IF sub_index_'[w] = {} THEN index_ \ {w} ELSE index_
      /\ emptied' => index_' = {}
  BY DEF Clear, BecameZero
<1>2. Words' = Words /\ \A s, v : InWord(s, v)' = InWord(s', v)
  BY <1>1 DEF Words, SubCount, InWord
<1>3. w \in Words /\ pos % Word \in Places
  BY PosFacts DEF BitsInv
<1>4. \A v \in Words : InWord(members', v) =
        IF v = w THEN InWord(members, v) \ {pos % Word} ELSE InWord(members, v)
  <2>1. size \in Sizes
    BY DEF BitsInv
  <2>2. \A set : \A v \in Words : InWord(set \ {pos}, v) =
          IF v = w THEN InWord(set, v) \ {pos % Word} ELSE InWord(set, v)
    BY <2>1, OnePosition
  <2>3. QED
    BY <1>1, <2>2, Zenon
<1> HIDE DEF w
<1>5. sub_index_' = [v \in Words |-> InWord(members', v)]
  BY <1>1, <1>3, <1>4 DEF BitsInv
<1>6. index_' = {v \in Words : InWord(members', v) # {}}
  <2>1. sub_index_'[w] = InWord(members', w)
    BY <1>3, <1>5
  <2>2. \A v \in Words : v # w => InWord(members', v) = InWord(members, v)
    BY <1>4
  <2>3. InWord(members', w) # {} => InWord(members, w) # {}
    BY <1>3, <1>4
  <2>4. QED
    BY <1>1, <1>3, <2>1, <2>2, <2>3 DEF BitsInv
<1>7. emptied' => members' = {}
  <2>1. ASSUME NEW m \in members' PROVE index_' # {}
    <3>1. m \in 0..(size - 1) /\ size \in Sizes
      BY <1>1, <2>1 DEF BitsInv
    <3>2. m \div Word \in Words /\ m % Word \in Places /\ m = Word * (m \div Word) + (m % Word)
      BY <3>1, PosFacts
    <3>3. m % Word \in InWord(members', m \div Word)
      BY <2>1, <3>2 DEF InWord
    <3>4. QED
      BY <1>6, <3>2, <3>3
  <2>2. QED
    BY <1>1, <2>1
<1>8. QED
  BY <1>1, <1>2, <1>5, <1>6, <1>7 DEF BitsInv

LEMMA SetAllStep ==
  ASSUME BitsInv, SetAll
  PROVE  BitsInv'
<1>1. /\ members' = 0..(size - 1) /\ size' = size /\ pos_' = pos_ /\ unseen' = unseen
      /\ index_' = Words /\ sub_index_' = [w \in Words |-> Places] /\ emptied' = FALSE
      /\ size \in {Word, Word * Word}
  BY DEF SetAll, Words, Places
<1>2. Words' = Words /\ \A s, v : InWord(s, v)' = InWord(s', v)
  BY <1>1 DEF Words, SubCount, InWord
<1>3. /\ Word \in Nat \ {0} /\ size \in Nat \ {0} /\ SubCount \in Nat \ {0} /\ SubCount <= Word
      /\ size <= Word * SubCount /\ Word * SubCount < size + Word
  BY SizeFacts DEF BitsInv
\* The size fills the words.
<1>4. size = Word * SubCount
  <2>1. \A d \in Int : d >= 1 => Word * d >= Word
    BY <1>3
  <2>2. CASE size = Word
    <3>1. Word * SubCount = Word + Word * (SubCount - 1) /\ SubCount - 1 \in Int
      BY <1>3
    <3>2. SubCount = 1
      BY <1>3, <2>1, <2>2, <3>1
    <3>3. QED
      BY <1>3, <2>2, <3>2
  <2>3. CASE size = Word * Word
    <3>1. Word * Word = Word * SubCount + Word * (Word - SubCount) /\ Word - SubCount \in Int
          /\ Word * Word \in Int /\ Word * SubCount \in Int /\ Word * (Word - SubCount) \in Int
      BY <1>3
    <3>2. Word - SubCount = 0
      BY <1>3, <2>1, <2>3, <3>1
    <3>3. QED
      BY <1>3, <2>3, <3>2
  <2>4. QED
    BY <1>1, <2>2, <2>3
<1>5. ASSUME NEW w \in Words, NEW p \in Places PROVE Word * w + p \in 0..(size - 1)
  <2>1. w \in Nat /\ w <= SubCount - 1 /\ p \in Nat /\ p <= Word - 1
    BY <1>3 DEF Words, Places
  <2>2. Word * SubCount = Word * w + Word + Word * (SubCount - 1 - w)
        /\ SubCount - 1 - w \in Nat /\ Word * w \in Nat
    BY <1>3, <2>1
  <2>3. Word * (SubCount - 1 - w) \in Nat
    BY <1>3, <2>2
  <2>4. QED
    BY <1>3, <1>4, <2>1, <2>2, <2>3
<1>6. \A w \in Words : InWord(members', w) = Places
  BY <1>1, <1>5 DEF InWord
<1>7. Places # {}
  <2>1. 0 \in Places
    BY <1>3 DEF Places
  <2>2. QED
    BY <2>1
<1>8. unseen \subseteq {m \in members' : m > pos_}
  BY <1>1 DEF BitsInv
<1>9. sub_index_' = [w \in Words |-> InWord(members', w)]
  BY <1>1, <1>6
<1>10. index_' = {w \in Words : InWord(members', w) # {}}
  BY <1>1, <1>6, <1>7
<1>11. QED
  BY <1>1, <1>2, <1>8, <1>9, <1>10 DEF BitsInv

LEMMA ClearAllStep ==
  ASSUME BitsInv, ClearAll
  PROVE  BitsInv'
<1>1. /\ members' = {} /\ size' = size /\ pos_' = pos_ /\ unseen' = {}
      /\ index_' = {} /\ sub_index_' = [w \in Words |-> {}] /\ emptied' = FALSE
  BY DEF ClearAll, Words
<1>2. Words' = Words /\ \A s, v : InWord(s, v)' = InWord(s', v)
  BY <1>1 DEF Words, SubCount, InWord
<1>3. \A w : InWord({}, w) = {}
  BY DEF InWord
<1>4. QED
  BY <1>1, <1>2, <1>3 DEF BitsInv

\* The bits stay and the iterator moves.
LEMMA BitsStay ==
  ASSUME BitsInv, UNCHANGED <<bits, emptied, members>>, pos_' \in 0..size,
         unseen' \subseteq {m \in members : m > pos_'}
  PROVE  BitsInv'
<1>1. /\ size' = size /\ index_' = index_ /\ sub_index_' = sub_index_ /\ emptied' = emptied
      /\ members' = members
  BY DEF bits
<1>2. Words' = Words /\ \A s, v : InWord(s, v)' = InWord(s', v)
  BY <1>1 DEF Words, SubCount, InWord
<1>3. QED
  BY <1>1, <1>2 DEF BitsInv

\* next goes to the next member, or to the end if there is none.
LEMMA NextMember ==
  ASSUME BitsInv, pos_ # size
  PROVE  /\ NextPos \in 0..size
         /\ \A m \in members : m > pos_ => m >= NextPos
<1> DEFINE later == {m \in members : m > pos_}
           rest == {p \in (pos_ + 1)..(size - 1) : Get(p)}
<1>1. /\ Word \in Nat \ {0} /\ size \in Nat \ {0} /\ pos_ \in Nat /\ size \in Sizes
      /\ members \subseteq 0..(size - 1)
  BY SizeFacts DEF BitsInv
<1>2. later \in SUBSET Nat /\ \A m \in later : m \in 0..size
  <2>1. \A m \in 0..(size - 1) : m \in Nat /\ m \in 0..size
    BY <1>1
  <2>2. QED
    BY <1>1, <2>1
<1>3. NextPos = IF later = {} THEN size ELSE Min(later)
  <2>1. CASE size = Word
    <3>1. SubCount = 1
      <4>1. /\ SubCount \in Nat \ {0} /\ Word * SubCount < Word + Word
        BY <1>1, <2>1, SizeFacts
      <4>2. Word * SubCount = Word + Word * (SubCount - 1) /\ SubCount - 1 \in Int
            /\ Word * (SubCount - 1) \in Int
        BY <1>1, <4>1
      <4>3. \A d \in Int : d >= 1 => Word * d >= Word
        BY <1>1
      <4>4. QED
        BY <1>1, <4>1, <4>2, <4>3
    <3>2. sub_index_[0] = {p \in Places : Word * 0 + p \in members}
      BY <3>1 DEF BitsInv, Words, InWord
    <3>3. sub_index_[0] = members
      <4>1. \A p \in Places : p \in Int /\ Word * 0 + p = p
        BY <1>1 DEF Places
      <4>2. members \subseteq Places
        BY <1>1, <2>1 DEF Places
      <4>3. QED
        BY <3>2, <4>1, <4>2
    <3>4. NextPos = First(later)
      BY <2>1, <3>3 DEF NextPos
    <3>5. QED
      BY <2>1, <3>4 DEF First
  <2>2. CASE size # Word
    <3>1. rest = later
      <4>1. ASSUME NEW p \in (pos_ + 1)..(size - 1) PROVE p > pos_ /\ (Get(p) <=> p \in members)
        <5>1. p \in 0..(size - 1) /\ p > pos_
          BY <1>1
        <5>2. QED
          BY <5>1, GetIsMember
      <4>2. \A m \in members : m > pos_ => m \in (pos_ + 1)..(size - 1)
        BY <1>1
      <4>3. QED
        BY <4>1, <4>2
    <3>2. NextPos = IF rest = {} THEN size ELSE Min(rest)
      BY <2>2, Zenon DEF NextPos
    <3>3. QED
      BY <3>1, <3>2
  <2>3. QED
    BY <2>1, <2>2
<1>4. CASE later = {}
  BY <1>1, <1>3, <1>4
<1>5. CASE later # {}
  <2>1. Min(later) \in later /\ \A m \in later : Min(later) <= m
    BY <1>2, <1>5, MinIn
  <2>2. QED
    BY <1>1, <1>2, <1>3, <1>5, <2>1
<1>6. QED
  BY <1>4, <1>5

LEMMA IteratorStep ==
  ASSUME BitsInv, IteratorNext
  PROVE  BitsInv'
<1>1. /\ pos_ # size /\ pos_' = NextPos /\ unseen' = unseen \ {pos_'}
      /\ UNCHANGED <<bits, emptied, members>>
  BY DEF IteratorNext
<1>2. /\ pos_' \in 0..size /\ \A m \in members : m > pos_ => m >= pos_'
  BY <1>1, NextMember
<1>3. unseen' \subseteq {m \in members : m > pos_'}
  <2>1. SUFFICES ASSUME NEW m \in unseen, m # pos_' PROVE m \in members /\ m > pos_'
    BY <1>1
  <2>2. m \in members /\ m > pos_ /\ m \in Int /\ size \in Nat
    BY SizeFacts DEF BitsInv
  <2>3. m >= pos_' /\ pos_' \in Int
    BY <1>2, <2>2
  <2>4. QED
    BY <2>1, <2>2, <2>3
<1>4. QED
  BY <1>1, <1>2, <1>3, BitsStay

LEMMA BitsNext == ASSUME BitsInv, [Next]_vars PROVE BitsInv'
<1>1. ASSUME NEW pos \in 0..size, IterateFrom(pos) PROVE BitsInv'
  <2>1. /\ pos_' = pos /\ unseen' = {m \in members : m > pos}
        /\ UNCHANGED <<bits, emptied, members>>
    BY <1>1 DEF IterateFrom
  <2>2. QED
    BY <2>1, BitsStay
<1>2. ASSUME UNCHANGED vars PROVE BitsInv'
  <2>1. /\ UNCHANGED <<bits, emptied, members>> /\ pos_' = pos_ /\ unseen' = unseen
    BY <1>2 DEF vars
  <2>2. pos_' \in 0..size /\ unseen' \subseteq {m \in members : m > pos_'}
    BY <2>1 DEF BitsInv
  <2>3. QED
    BY <2>1, <2>2, BitsStay
<1>3. QED
  BY <1>1, <1>2, SetStep, ClearStep, SetAllStep, ClearAllStep, IteratorStep DEF Next

\* Every reachable state of a bitset and its iterator satisfies the inductive
\* invariant.
THEOREM BitsInvariant == Spec => []BitsInv
<1>1. Init => BitsInv
  BY InitBits
<1>2. BitsInv /\ [Next]_vars => BitsInv'
  BY BitsNext
<1>3. QED
  BY <1>1, <1>2, PTL DEF Spec

-----------------------------------------------------------------------------
(* The properties. *)

\* get_frist goes by index_ to the first word that is not empty, and in it to the
\* first bit: that is the least member.
LEMMA FristIsMin ==
  ASSUME BitsInv
  PROVE  GetFrist = IF members = {} THEN size ELSE Min(members)
<1>1. /\ Word \in Nat \ {0} /\ size \in Nat /\ size \in Sizes /\ members \in SUBSET Nat
      /\ SubCount \in Nat /\ SubCount <= Word /\ members \subseteq 0..(size - 1)
  <2>1. /\ Word \in Nat \ {0} /\ size \in Nat /\ size \in Sizes
        /\ SubCount \in Nat /\ SubCount <= Word /\ members \subseteq 0..(size - 1)
    BY SizeFacts DEF BitsInv
  <2>2. \A m \in 0..(size - 1) : m \in Nat
    BY <2>1
  <2>3. QED
    BY <2>1, <2>2
<1>2. CASE members = {}
  <2>1. First(index_) = Word
    BY <1>2, SomeWord DEF First
  <2>2. QED
    BY <1>1, <1>2, <2>1 DEF GetFrist
<1>3. CASE members # {}
  <2> DEFINE m == Min(members)
             w == m \div Word
             p == m % Word
  <2>1. m \in members /\ \A n \in members : m <= n
    BY <1>1, <1>3, MinIn
  <2>2. w \in Words /\ p \in Places /\ m = Word * w + p
    BY <1>1, <2>1, PosFacts
  <2> HIDE DEF m, w, p
  <2>3. w \in Nat /\ w < SubCount /\ p \in Nat /\ p < Word /\ m \in Int
    BY <1>1, <2>1, <2>2 DEF Words, Places
  <2>4. p \in InWord(members, w)
    BY <2>1, <2>2 DEF InWord
  <2>5. w \in index_ /\ index_ # {}
    BY <2>2, <2>4 DEF BitsInv
  <2>6. ASSUME NEW v \in index_ PROVE w <= v /\ v \in Nat
    <3>1. v \in Words /\ InWord(members, v) # {} /\ v \in Nat
      BY <1>1 DEF BitsInv, Words
    <3>2. PICK q \in Places : Word * v + q \in members
      BY <3>1 DEF InWord
    <3>3. Word * w + p <= Word * v + q /\ q \in Nat /\ q < Word
      <4>1. m <= Word * v + q
        BY <2>1, <3>2
      <4>2. q \in Nat /\ q < Word
        BY <1>1 DEF Places
      <4>3. QED
        BY <2>2, <4>1, <4>2
    <3>4. Word * (v - w) = Word * v - Word * w /\ v - w \in Int
          /\ Word * v \in Int /\ Word * w \in Int
      BY <1>1, <2>3, <3>1
    <3>5. \A d \in Int : d <= -1 => Word * d <= -Word
      BY <1>1
    <3>6. v - w >= 0
      BY <1>1, <2>3, <3>3, <3>4, <3>5
    <3>7. QED
      BY <2>3, <3>1, <3>6
  <2>7. First(index_) = w
    <3>1. index_ \in SUBSET Nat
      BY <2>6
    <3>2. QED
      BY <2>5, <2>6, <3>1, MinIs DEF First
  <2>8. First(sub_index_[w]) = p
    <3>1. sub_index_[w] = InWord(members, w)
      BY <2>2 DEF BitsInv
    <3>2. ASSUME NEW q \in InWord(members, w) PROVE p <= q /\ q \in Nat
      <4>1. q \in Nat /\ Word * w + p <= Word * w + q /\ Word * w \in Int
        BY <1>1, <2>1, <2>2, <2>3 DEF InWord, Places
      <4>2. QED
        BY <2>3, <4>1
    <3>3. InWord(members, w) \in SUBSET Nat
      BY <3>2
    <3>4. QED
      BY <2>4, <3>1, <3>2, <3>3, MinIs DEF First
  <2>9. GetFrist = w * Word + p
    BY <1>1, <2>3, <2>7, <2>8 DEF GetFrist
  <2>10. w * Word = Word * w
    BY <1>1, <2>3
  <2>11. GetFrist = m
    BY <2>2, <2>9, <2>10
  <2>12. QED
    BY <1>3, <2>11 DEF m
<1>4. QED
  BY <1>2, <1>3

\* The members in a word are as many as its bits.
LEMMA WordCount ==
  ASSUME NEW set, NEW w \in Int
  PROVE  LET here == {Word * w + p : p \in InWord(set, w)} IN
         IsFiniteSet(here) /\ Cardinality(here) = Cardinality(InWord(set, w))
         /\ Cardinality(here) \in Nat
<1> DEFINE here == {Word * w + p : p \in InWord(set, w)}
           f == [p \in InWord(set, w) |-> Word * w + p]
<1>1. IsFiniteSet(InWord(set, w))
  <2>1. IsFiniteSet(Places)
    BY WordAssumption, FS_Interval DEF Places
  <2>2. QED
    BY <2>1, FS_Subset DEF InWord
<1>2. f \in Bijection(InWord(set, w), here)
  <2>1. f \in [InWord(set, w) -> here] /\ \A x \in here : \E p \in InWord(set, w) : f[p] = x
    OBVIOUS
  <2>2. ASSUME NEW p \in InWord(set, w), NEW q \in InWord(set, w), f[p] = f[q] PROVE p = q
    <3>1. Word * w + p = Word * w + q /\ p \in Places /\ q \in Places
      BY <2>2 DEF InWord
    <3>2. QED
      BY <3>1, SamePlace
  <2> HIDE DEF f, here
  <2>3. QED
    BY <2>1, <2>2 DEF Bijection, Injection, Surjection, IsInjective
<1> HIDE DEF f
<1>3. ExistsBijection(InWord(set, w), here)
  BY <1>2 DEF ExistsBijection
<1> HIDE DEF here
<1>4. IsFiniteSet(here) /\ Cardinality(here) = Cardinality(InWord(set, w))
  BY <1>1, <1>3, FS_Bijection
<1>5. QED
  BY <1>4, FS_CardinalityType DEF here

\* count adds up the bits of the words: there are as many as members.
LEMMA CountIsMembers ==
  ASSUME BitsInv
  PROVE  Count = Cardinality(members)
<1> DEFINE g == [w \in Words |-> Cardinality(sub_index_[w])]
           Of(s) == {m \in members : m \div Word \in s}
<1>1. size \in Sizes /\ IsFiniteSet(Words) /\ IsFiniteSet(members) /\ Words \in SUBSET Int
  <2>1. size \in Int /\ SubCount \in Int /\ members \subseteq 0..(size - 1) /\ size \in Sizes
    BY SizeFacts DEF BitsInv
  <2>2. IsFiniteSet(0..(SubCount - 1)) /\ IsFiniteSet(0..(size - 1))
    BY <2>1, FS_Interval
  <2>3. IsFiniteSet(members)
    BY <2>1, <2>2, FS_Subset
  <2>4. Words \in SUBSET Int
    BY <2>1 DEF Words
  <2>5. QED
    BY <2>1, <2>2, <2>3, <2>4 DEF Words
<1>2. PICK sum : Sums(sum, g)
  <2>1. DOMAIN g = Words
    OBVIOUS
  <2> HIDE DEF g
  <2>2. QED
    BY <1>1, <2>1, SumsExist
<1>3. \E it : it = [s \in SUBSET Words |-> IF s = {} THEN 0
                      ELSE Cardinality(sub_index_[Pick(s)]) + it[s \ {Pick(s)}]]
  <2>1. \A s \in SUBSET Words : s # {} => g[Pick(s)] = Cardinality(sub_index_[Pick(s)])
    BY DEF Pick
  <2>2. DOMAIN g = Words
    OBVIOUS
  <2> HIDE DEF g
  <2>3. sum = [s \in SUBSET Words |-> IF s = {} THEN 0
                 ELSE Cardinality(sub_index_[Pick(s)]) + sum[s \ {Pick(s)}]]
    BY <1>2, <2>1, <2>2 DEF Sums
  <2>4. QED
    BY <2>3
<1>4. PICK it :
        /\ it = [s \in SUBSET Words |-> IF s = {} THEN 0
                   ELSE Cardinality(sub_index_[Pick(s)]) + it[s \ {Pick(s)}]]
        /\ Count = it[Words]
  BY <1>3, Zenon DEF Count, MapThenSumSet, MapThenFoldSet, Pick, Words
<1>5. it[{}] = 0 /\ \A s \in SUBSET Words : s # {} =>
        it[s] = Cardinality(sub_index_[Pick(s)]) + it[s \ {Pick(s)}]
  BY <1>4
<1> DEFINE T == {s \in SUBSET Words : it[s] = Cardinality(Of(s))}
<1>6. {} \in T
  <2>1. Of({}) = {} /\ Cardinality({}) = 0
    BY FS_EmptySet
  <2>2. QED
    BY <1>5, <2>1
<1>7. ASSUME NEW s \in SUBSET Words, s # {}, s \ {Pick(s)} \in T PROVE s \in T
  <2> DEFINE w == Pick(s)
             r == s \ {w}
             here == {Word * w + p : p \in InWord(members, w)}
  <2>1. w \in s /\ w \in Words /\ w \in Int /\ r \in SUBSET Words
    BY <1>1, <1>7, Picked
  <2>2. it[r] = Cardinality(Of(r)) /\ it[s] = Cardinality(sub_index_[w]) + it[r]
    BY <1>5, <1>7
  <2>3. sub_index_[w] = InWord(members, w)
    BY <2>1 DEF BitsInv
  <2>4. IsFiniteSet(here) /\ Cardinality(here) = Cardinality(InWord(members, w))
        /\ Cardinality(here) \in Nat
    BY <2>1, WordCount
  <2>5. IsFiniteSet(Of(r)) /\ Cardinality(Of(r)) \in Nat
    BY <1>1, FS_Subset, FS_CardinalityType
  <2>6. \A m \in here : m \in members /\ m \div Word = w
    BY <2>1, Joined DEF InWord
  <2>7. \A m \in members : m \div Word = w => m \in here
    <3>1. SUFFICES ASSUME NEW m \in members, m \div Word = w PROVE m \in here
      OBVIOUS
    <3>2. m % Word \in Places /\ m = Word * w + (m % Word)
      BY <1>1, <3>1, PosFacts DEF BitsInv
    <3>3. m % Word \in InWord(members, w)
      BY <3>2 DEF InWord
    <3>4. QED
      BY <3>2, <3>3
  <2> HIDE DEF here, w
  <2>8. Of(s) = Of(r) \union here /\ Of(r) \intersect here = {}
    BY <2>1, <2>6, <2>7
  <2> HIDE DEF Of, r
  <2>9. Cardinality(Of(r) \intersect here) = 0
    BY <2>8, FS_EmptySet
  <2>10. Cardinality(Of(s)) = Cardinality(Of(r)) + Cardinality(here)
    <3>1. Cardinality(Of(r) \union here)
            = Cardinality(Of(r)) + Cardinality(here) - Cardinality(Of(r) \intersect here)
      BY <2>4, <2>5, FS_Union
    <3>2. Cardinality(Of(r) \union here) = Cardinality(Of(r)) + Cardinality(here)
      BY <2>4, <2>5, <2>9, <3>1
    <3>3. QED
      BY <2>8, <3>2
  <2>11. it[s] = Cardinality(Of(s))
    BY <2>2, <2>3, <2>4, <2>5, <2>10
  <2>12. QED
    BY <2>11
<1>8. T \in SUBSET SUBSET Words
  OBVIOUS
<1>9. T = SUBSET Words
  <2> HIDE DEF T
  <2>1. QED
    BY <1>1, <1>6, <1>7, <1>8, SubsetInduction
<1>10. Of(Words) = members
  <2>1. \A m \in members : m \div Word \in Words
    BY <1>1, PosFacts DEF BitsInv
  <2>2. QED
    BY <2>1
<1>11. QED
  BY <1>4, <1>9, <1>10

\* get, get_frist, count and what clear returns are those of the set of positions
\* that set and clear name, for words of any width and any size of bitset.
THEOREM TwoLevelsAgree == Spec => []AgreesWithMembers
<1>1. ASSUME BitsInv PROVE AgreesWithMembers
  <2>1. \A pos \in 0..(size - 1) : Get(pos) = (pos \in members)
    <3>1. \A pos \in 0..(size - 1) : Get(pos) <=> pos \in members
      BY <1>1, GetIsMember
    <3>2. \A pos : Get(pos) \in BOOLEAN
      BY DEF Get
    <3>3. QED
      BY <3>1, <3>2
  <2>2. GetFrist = IF members = {} THEN size ELSE Min(members)
    BY <1>1, FristIsMin
  <2>3. Count = Cardinality(members)
    BY <1>1, CountIsMembers
  <2>4. emptied => members = {}
    BY <1>1 DEF BitsInv
  <2>5. QED
    BY <2>1, <2>2, <2>3, <2>4 DEF AgreesWithMembers
<1>2. QED
  BY <1>1, BitsInvariant, PTL

\* An iterator that has come to the end has stopped at every position after its
\* first that was a member all along, whatever was set and cleared meanwhile.
THEOREM IteratorComesToAll == Spec => []IteratorMissesNone
<1>1. ASSUME BitsInv PROVE IteratorMissesNone
  <2>1. SUFFICES ASSUME pos_ = size, NEW m \in unseen PROVE FALSE
    BY DEF IteratorMissesNone
  <2>2. m \in 0..(size - 1) /\ m > size /\ size \in Nat
    BY <1>1, <2>1, SizeFacts DEF BitsInv
  <2>3. QED
    BY <2>2
<1>2. QED
  BY <1>1, BitsInvariant, PTL
-----------------------------------------------------------------------------
(* A word's number, the sum of the masks of its bits.                       *)

LEMMA PowerFacts ==
  Pow2[0] = 1 /\ \A n \in Nat : Pow2[n] \in Nat \ {0} /\ Pow2[n + 1] = 2 * Pow2[n] /\ n < Pow2[n]
BY Pow2Doubles, DoublingStep

LEMMA PowerSum == \A m, n \in Nat : Pow2[m + n] = Pow2[m] * Pow2[n]
BY Pow2Doubles, DoublingSum

LEMMA PowerGrows == \A m, n \in Nat : m < n => 2 * Pow2[m] <= Pow2[n]
BY Pow2Doubles, DoublingGrows

\* A bit's mask is not shifted out of the word.
LEMMA MaskIs ==
  ASSUME NEW p \in Places
  PROVE  Mask(p) = Pow2[Word - 1 - p] /\ Mask(p) \in Nat \ {0}
<1>1. Word \in Nat \ {0} /\ Word - 1 - p \in Nat /\ Word - 1 - p < Word
  BY WordAssumption DEF Places
<1>2. Pow2[Word - 1 - p] \in Nat \ {0} /\ Pow2[Word] \in Nat \ {0}
      /\ 2 * Pow2[Word - 1 - p] <= Pow2[Word]
  BY <1>1, PowerFacts, PowerGrows
<1>3. \A m \in Nat \ {0}, n \in Nat \ {0} : 2 * m <= n => (1 * m) % n = m
  OBVIOUS
<1>4. QED
  BY <1>2, <1>3 DEF Mask, Shl

\* The number of no bits is 0, and any bit may be added first.
LEMMA RawSums ==
  /\ Raw({}) = 0
  /\ \A S \in SUBSET Places : Raw(S) \in Nat /\ \A p \in S : Raw(S) = Mask(p) + Raw(S \ {p})
<1> DEFINE f == [p \in Places |-> Mask(p)]
<1>1. IsFiniteSet(Places) /\ f \in [Places -> Int]
  BY WordAssumption, FS_Interval, MaskIs DEF Places
<1>2. PICK sum : Sums(sum, f)
  <2>1. DOMAIN f = Places
    OBVIOUS
  <2> HIDE DEF f
  <2>2. QED
    BY <1>1, <2>1, SumsExist
<1>3. sum[{}] = 0 /\ \A s \in SUBSET Places : s # {} => sum[s] = Mask(Pick(s)) + sum[s \ {Pick(s)}]
  <2>1. DOMAIN f = Places /\ \A s \in SUBSET Places : s # {} => f[Pick(s)] = Mask(Pick(s))
    BY DEF Pick
  <2> HIDE DEF f
  <2>2. QED
    BY <1>2, <2>1 DEF Sums
\* The fold over any word goes through the same sums.
<1>4. ASSUME NEW S \in SUBSET Places PROVE Raw(S) = sum[S]
  <2>1. \E it : it = [s \in SUBSET S |-> IF s = {} THEN 0 ELSE Mask(Pick(s)) + it[s \ {Pick(s)}]]
    <3> DEFINE it == [s \in SUBSET S |-> sum[s]]
    <3>1. \A s \in SUBSET S : it[s] = IF s = {} THEN 0 ELSE Mask(Pick(s)) + it[s \ {Pick(s)}]
      <4>1. \A s \in SUBSET S : s \in SUBSET Places /\ s \ {Pick(s)} \in SUBSET S
        OBVIOUS
      <4>2. QED
        BY <1>3, <4>1
    <3>2. it = [s \in SUBSET S |-> it[s]]
      OBVIOUS
    <3> HIDE DEF it
    <3>3. it = [s \in SUBSET S |-> IF s = {} THEN 0 ELSE Mask(Pick(s)) + it[s \ {Pick(s)}]]
      BY <3>1, <3>2
    <3>4. QED
      BY <3>3
  <2>2. PICK it :
          /\ it = [s \in SUBSET S |-> IF s = {} THEN 0 ELSE Mask(Pick(s)) + it[s \ {Pick(s)}]]
          /\ Raw(S) = it[S]
    BY <2>1, Zenon DEF Raw, MapThenSumSet, MapThenFoldSet, Pick
  <2>3. it[{}] = 0 /\ \A s \in SUBSET S : s # {} => it[s] = Mask(Pick(s)) + it[s \ {Pick(s)}]
    BY <2>2
  <2> DEFINE T == {s \in SUBSET S : it[s] = sum[s]}
  <2>4. {} \in T /\ \A s \in SUBSET S : s # {} /\ s \ {Pick(s)} \in T => s \in T
    BY <1>3, <2>3
  <2>5. IsFiniteSet(S) /\ T \in SUBSET SUBSET S
    BY <1>1, FS_Subset
  <2>6. T = SUBSET S
    <3> HIDE DEF T
    <3>1. QED
      BY <2>4, <2>5, SubsetInduction
  <2>7. QED
    BY <2>2, <2>6
<1>5. \A S \in SUBSET Places : sum[S] \in Int /\ \A p \in S : sum[S] = Mask(p) + sum[S \ {p}]
  <2>1. \A p \in Places : f[p] = Mask(p)
    OBVIOUS
  <2> HIDE DEF f
  <2>2. \A S \in SUBSET Places : sum[S] \in Int
    BY <1>1, <1>2, SumsType
  <2>3. ASSUME NEW S \in SUBSET Places, NEW p \in S PROVE sum[S] = f[p] + sum[S \ {p}]
    BY <1>1, <1>2, SumsTake
  <2>4. \A S \in SUBSET Places : \A p \in S : f[p] = Mask(p)
    BY <2>1
  <2>5. QED
    BY <2>2, <2>3, <2>4
<1> DEFINE T == {S \in SUBSET Places : sum[S] \in Nat}
<1>6. T = SUBSET Places
  <2>1. {} \in T
    BY <1>3
  <2>2. ASSUME NEW s \in SUBSET Places, s # {}, s \ {Pick(s)} \in T PROVE s \in T
    <3>1. Pick(s) \in Places
      BY <2>2 DEF Pick
    <3>2. QED
      BY <1>3, <2>2, <3>1, MaskIs
  <2>3. T \in SUBSET SUBSET Places
    OBVIOUS
  <2> HIDE DEF T
  <2>4. QED
    BY <1>1, <2>1, <2>2, <2>3, SubsetInduction
<1>7. QED
  <2>1. {} \in SUBSET Places /\ \A S \in SUBSET Places : \A p \in S : S \ {p} \in SUBSET Places
    OBVIOUS
  <2> HIDE DEF f
  <2>2. QED
    BY <1>3, <1>4, <1>5, <1>6, <2>1

\* What holds of the empty word, and of a word if it holds without its first
\* bit, holds of every word: the T of SubsetInduction for words.
LEMMA WordInduction ==
  ASSUME NEW T \in SUBSET SUBSET Places, {} \in T,
         \A S \in SUBSET Places : \A p \in S : S \ {p} \in T => S \in T
  PROVE  T = SUBSET Places
<1>1. IsFiniteSet(Places)
  BY WordAssumption, FS_Interval DEF Places
<1>2. \A s \in SUBSET Places : s # {} => Pick(s) \in s
  BY DEF Pick
<1>3. \A s \in SUBSET Places : s # {} /\ s \ {Pick(s)} \in T => s \in T
  BY <1>2
<1>4. QED
  BY <1>1, <1>3, SubsetInduction

LEMMA RawUnion ==
  ASSUME NEW A \in SUBSET Places, NEW B \in SUBSET Places, A \intersect B = {}
  PROVE  Raw(A \union B) = Raw(A) + Raw(B)
<1> DEFINE T == {S \in SUBSET Places : A \intersect S = {} => Raw(A \union S) = Raw(A) + Raw(S)}
<1>1. {} \in T
  <2>1. A \union {} = A /\ Raw(A) \in Nat /\ Raw({}) = 0
    BY RawSums
  <2>2. QED
    BY <2>1
<1>2. ASSUME NEW S \in SUBSET Places, NEW p \in S, S \ {p} \in T PROVE S \in T
  <2>1. SUFFICES ASSUME A \intersect S = {} PROVE Raw(A \union S) = Raw(A) + Raw(S)
    OBVIOUS
  <2>2. Raw(A \union (S \ {p})) = Raw(A) + Raw(S \ {p}) /\ (A \union S) \ {p} = A \union (S \ {p})
    BY <1>2, <2>1
  <2>3. A \union S \in SUBSET Places /\ p \in A \union S /\ p \in Places /\ S \ {p} \in SUBSET Places
    OBVIOUS
  <2>4. Raw(A \union S) = Mask(p) + Raw((A \union S) \ {p}) /\ Raw(S) = Mask(p) + Raw(S \ {p})
    BY <2>3, RawSums
  <2>5. Mask(p) \in Nat /\ Raw(S \ {p}) \in Nat /\ Raw(A) \in Nat
    BY <2>3, MaskIs, RawSums
  <2>6. Raw(A \union S) = Mask(p) + (Raw(A) + Raw(S \ {p}))
    BY <2>2, <2>4
  <2>7. \A m, a, b \in Nat : m + (a + b) = a + (m + b)
    OBVIOUS
  <2>8. QED
    BY <2>4, <2>5, <2>6, <2>7
<1>3. T = SUBSET Places
  <2>1. T \in SUBSET SUBSET Places
    OBVIOUS
  <2> HIDE DEF T
  <2>2. QED
    BY <1>1, <1>2, <2>1, WordInduction
<1>4. QED
  BY <1>3
-----------------------------------------------------------------------------
(* Shifts.                                                                  *)

\* The bits of a word shifted by k, those that are not shifted out, and the k
\* lowest bits.
Right(S, k) == {q \in Places : q - k \in S}
Left(S, k) == {q \in Places : q + k \in S}
Low(S, k) == {p \in S : p >= Word - k}

LEMMA LowIsSmall ==
  ASSUME NEW k \in 0..Word, NEW S \in SUBSET Places, \A p \in S : p >= Word - k
  PROVE  Raw(S) \in 0..(Pow2[k] - 1)
<1> DEFINE Fits(R, n) == \A p \in R : p >= Word - n
           U == {n \in 0..Word : \E R \in SUBSET Places : Fits(R, n) /\ ~ (Raw(R) < Pow2[n])}
<1>0. Word \in Nat \ {0} /\ \A p \in Places : p \in Nat /\ p < Word
  BY WordAssumption DEF Places
<1>1. SUFFICES ASSUME U # {} PROVE FALSE
  <2>1. ASSUME U = {} PROVE Raw(S) < Pow2[k]
    BY <2>1
  <2>2. Raw(S) \in Nat /\ Pow2[k] \in Nat
    BY <1>0, RawSums, PowerFacts
  <2>3. QED
    BY <2>1, <2>2
<1>2. PICK n \in U : \A m \in U : ~ (m < n)
  <2>1. U \in SUBSET Nat
    BY <1>0
  <2> HIDE DEF U
  <2>2. QED
    BY <1>1, <2>1, Least
<1>3. PICK R \in SUBSET Places : Fits(R, n) /\ ~ (Raw(R) < Pow2[n])
  OBVIOUS
<1>4. CASE n = 0
  <2>1. R = {}
    BY <1>0, <1>3, <1>4
  <2>2. QED
    BY <1>3, <1>4, <2>1, RawSums, PowerFacts
<1>5. CASE n # 0
  <2> DEFINE p == Word - n
             rest == R \ {p}
  <2>1. n - 1 \in 0..Word /\ n - 1 < n /\ n - 1 \in Nat /\ (n - 1) + 1 = n /\ p \in Places
    BY <1>0, <1>5 DEF Places
  <2>2. rest \in SUBSET Places /\ Fits(rest, n - 1)
    BY <1>0, <1>3, <2>1
  <2>3. Raw(rest) < Pow2[n - 1] /\ Raw(rest) \in Nat
    <3>1. n - 1 \notin U
      BY <1>2, <2>1
    <3> HIDE DEF rest, Fits
    <3>2. QED
      BY <2>1, <2>2, <3>1, RawSums
  <2>4. Pow2[n] = 2 * Pow2[n - 1] /\ Pow2[n - 1] \in Nat
    <3>1. Pow2[(n - 1) + 1] = 2 * Pow2[n - 1] /\ Pow2[n - 1] \in Nat
      BY <2>1, PowerFacts
    <3>2. QED
      BY <2>1, <3>1
  <2>5. Mask(p) = Pow2[n - 1]
    <3>1. Word - 1 - p = n - 1
      BY <1>0
    <3>2. QED
      BY <2>1, <3>1, MaskIs
  <2>6. CASE p \in R
    <3>1. Raw(R) = Mask(p) + Raw(rest)
      BY <2>6, RawSums
    <3> HIDE DEF rest, p
    <3>2. QED
      BY <1>3, <2>3, <2>4, <2>5, <3>1
  <2>7. CASE p \notin R
    <3>1. rest = R
      BY <2>7
    <3> HIDE DEF rest
    <3>2. QED
      BY <1>3, <2>3, <2>4, <3>1
  <2>8. QED
    BY <2>6, <2>7
<1>6. QED
  BY <1>4, <1>5

\* Bits that are not shifted out by k stand for Pow2[k] times less after it.
LEMMA Scaled ==
  ASSUME NEW k \in 0..Word, NEW S \in SUBSET Places, \A p \in S : p + k < Word
  PROVE  Raw(S) = Pow2[k] * Raw(Right(S, k))
<1> DEFINE T == {R \in SUBSET Places : (\A p \in R : p + k < Word)
                                         => Raw(R) = Pow2[k] * Raw(Right(R, k))}
<1>0. Word \in Nat \ {0} /\ k \in Nat /\ Pow2[k] \in Nat /\ \A p \in Places : p \in Nat /\ p < Word
  BY WordAssumption, PowerFacts DEF Places
<1>1. {} \in T
  <2>1. Right({}, k) = {} /\ Raw({}) = 0
    BY RawSums DEF Right
  <2>2. QED
    BY <1>0, <2>1
<1>2. ASSUME NEW R \in SUBSET Places, NEW p \in R, R \ {p} \in T PROVE R \in T
  <2>1. SUFFICES ASSUME \A q \in R : q + k < Word PROVE Raw(R) = Pow2[k] * Raw(Right(R, k))
    OBVIOUS
  <2> DEFINE rest == R \ {p}
             q == p + k
  <2>2. Raw(rest) = Pow2[k] * Raw(Right(rest, k)) /\ rest \in SUBSET Places
    BY <1>2, <2>1
  <2>3. p \in Places /\ q \in Places
    BY <1>0, <2>1 DEF Places
  <2>4. q \in Right(R, k) /\ Right(R, k) \ {q} = Right(rest, k) /\ Right(R, k) \in SUBSET Places
    <3>1. \A x \in Places : x - k = p <=> x = q
      BY <1>0, <2>3
    <3>2. QED
      BY <2>3, <3>1 DEF Right
  <2>5. Mask(p) = Pow2[k] * Mask(q)
    <3>1. Word - 1 - q \in Nat /\ k + (Word - 1 - q) = Word - 1 - p
      BY <1>0, <2>3 DEF Places
    <3>2. Pow2[k + (Word - 1 - q)] = Pow2[k] * Pow2[Word - 1 - q]
      BY <1>0, <3>1, PowerSum
    <3>3. Mask(p) = Pow2[Word - 1 - p] /\ Mask(q) = Pow2[Word - 1 - q]
      BY <2>3, MaskIs
    <3>4. QED
      BY <3>1, <3>2, <3>3
  <2>6. Mask(q) \in Nat /\ Raw(Right(rest, k)) \in Nat
    <3>1. Right(rest, k) \in SUBSET Places
      BY DEF Right
    <3>2. QED
      BY <2>3, <3>1, MaskIs, RawSums
  <2>7. Raw(R) = Mask(p) + Raw(rest) /\ Raw(Right(R, k)) = Mask(q) + Raw(Right(rest, k))
    <3>1. Raw(R) = Mask(p) + Raw(rest)
      BY RawSums
    <3> HIDE DEF rest, q
    <3>2. Raw(Right(R, k)) = Mask(q) + Raw(Right(R, k) \ {q})
      BY <2>4, RawSums
    <3>3. QED
      BY <2>4, <3>1, <3>2
  <2> HIDE DEF rest, q
  <2>8. \A a, b, c \in Nat : a * (b + c) = a * b + a * c
    OBVIOUS
  <2>9. QED
    BY <1>0, <2>2, <2>5, <2>6, <2>7, <2>8
<1>3. T = SUBSET Places
  <2>1. T \in SUBSET SUBSET Places
    OBVIOUS
  <2> HIDE DEF T
  <2>2. QED
    BY <1>1, <1>2, <2>1, WordInduction
<1>4. QED
  BY <1>3

LEMMA ShrIs ==
  ASSUME NEW k \in 0..Word, NEW S \in SUBSET Places
  PROVE  Shr(Raw(S), k) = Raw(Right(S, k)) /\ Raw(S) % Pow2[k] = Raw(Low(S, k))
<1> DEFINE high == S \ Low(S, k)
<1>0. Word \in Nat \ {0} /\ k \in Nat /\ Pow2[k] \in Nat \ {0} /\ \A p \in Places : p \in Nat /\ p < Word
  BY WordAssumption, PowerFacts DEF Places
<1>1. /\ high \in SUBSET Places /\ Low(S, k) \in SUBSET Places /\ high \intersect Low(S, k) = {}
      /\ high \union Low(S, k) = S
  BY DEF Low
<1>2. Raw(S) = Raw(high) + Raw(Low(S, k))
  <2> HIDE DEF high
  <2>1. QED
    BY <1>1, RawUnion
<1>3. Raw(Low(S, k)) \in 0..(Pow2[k] - 1)
  <2>1. \A p \in Low(S, k) : p >= Word - k
    BY DEF Low
  <2>2. QED
    BY <1>1, <2>1, LowIsSmall
<1>4. Raw(high) = Pow2[k] * Raw(Right(high, k))
  <2>1. \A p \in high : p + k < Word
    BY <1>0 DEF Low
  <2> HIDE DEF high
  <2>2. QED
    BY <1>1, <2>1, Scaled
<1>5. Right(high, k) = Right(S, k)
  BY <1>0 DEF Right, Low
<1>6. Raw(Right(S, k)) \in Int
  <2>1. Right(S, k) \in SUBSET Places
    BY DEF Right
  <2>2. QED
    BY <2>1, RawSums
<1>7. Raw(S) = Pow2[k] * Raw(Right(S, k)) + Raw(Low(S, k))
  BY <1>2, <1>4, <1>5
<1>8. QED
  BY <1>0, <1>3, <1>6, <1>7, DivIs DEF Shr

LEMMA ShlIs ==
  ASSUME NEW k \in 0..Word, NEW S \in SUBSET Places
  PROVE  Shl(Raw(S), k) = Raw(Left(S, k))
<1> DEFINE kept == Low(S, Word - k)
           out == S \ kept
           n == Word - k
<1>0. /\ Word \in Nat \ {0} /\ k \in Nat /\ n \in 0..Word /\ n \in Nat
      /\ \A p \in Places : p \in Nat /\ p < Word
  BY WordAssumption DEF Places
<1>1. Pow2[k] \in Nat \ {0} /\ Pow2[Word] \in Nat \ {0} /\ Pow2[Word] = Pow2[k] * Pow2[n]
      /\ Pow2[n] \in Nat
  <2>1. k + n = Word
    BY <1>0
  <2>2. Pow2[k + n] = Pow2[k] * Pow2[n]
    BY <1>0, PowerSum
  <2>3. QED
    BY <1>0, <2>1, <2>2, PowerFacts
<1>2. out \in SUBSET Places /\ kept \in SUBSET Places /\ out \intersect kept = {} /\ out \union kept = S
  BY DEF Low
<1>3. Raw(S) = Raw(out) + Raw(kept)
  <2> HIDE DEF out, kept
  <2>1. QED
    BY <1>2, RawUnion
<1>4. \E m \in Nat : Raw(out) = Pow2[n] * m
  <2>1. \A p \in out : p + n < Word
    BY <1>0 DEF Low
  <2> HIDE DEF out, n
  <2>2. Raw(out) = Pow2[n] * Raw(Right(out, n))
    BY <1>0, <1>2, <2>1, Scaled
  <2>3. Right(out, n) \in SUBSET Places
    BY DEF Right
  <2>4. QED
    BY <2>2, <2>3, RawSums
<1>5. PICK m \in Nat : Raw(out) = Pow2[n] * m
  BY <1>4
<1>6. Raw(Left(S, k)) = Pow2[k] * Raw(kept) /\ Left(S, k) \in SUBSET Places
  <2>1. Left(S, k) \in SUBSET Places
    BY DEF Left
  <2>2. \A p \in Left(S, k) : p + k < Word
    BY <1>0 DEF Left
  <2>3. Right(Left(S, k), k) = kept
    <3>1. \A q \in Places : q - k \in Int /\ (q - k) + k = q /\ (q - k \in Places <=> q >= k)
      BY <1>0 DEF Places
    <3>2. \A q \in kept : q \in Places /\ q \in S /\ q >= k
      BY <1>0 DEF Low
    <3>3. \A q \in S : q >= k => q \in kept
      BY <1>0 DEF Low
    <3>4. \A q \in Places : q - k \in Left(S, k) <=> q >= k /\ q \in S
      BY <3>1 DEF Left
    <3>5. QED
      BY <3>2, <3>3, <3>4 DEF Right
  <2> HIDE DEF kept
  <2>4. Raw(Left(S, k)) = Pow2[k] * Raw(Right(Left(S, k), k))
    BY <2>1, <2>2, Scaled
  <2>5. QED
    BY <2>1, <2>3, <2>4
<1>7. Raw(kept) \in Nat
  BY <1>2, RawSums
<1>8. Raw(Left(S, k)) \in 0..(Pow2[Word] - 1)
  <2>1. Word \in 0..Word /\ \A p \in Left(S, k) : p >= Word - Word
    BY <1>0 DEF Left
  <2>2. QED
    BY <1>6, <2>1, LowIsSmall
<1> HIDE DEF out, kept, n
<1>9. Raw(S) * Pow2[k] = Pow2[Word] * m + Raw(Left(S, k))
  <2>1. \A a, b, c, d \in Nat : (b * d + c) * a = (a * b) * d + a * c
    OBVIOUS
  <2>2. QED
    BY <1>1, <1>3, <1>5, <1>6, <1>7, <2>1
<1>10. QED
  BY <1>1, <1>8, <1>9, DivIs DEF Shl
-----------------------------------------------------------------------------
(* The counts of zeros and ones.                                            *)

LEMMA PlaceFacts ==
  /\ Word \in Nat \ {0} /\ Word - 1 \in Places
  /\ \A p \in Places : p \in Nat /\ p < Word /\ Word - 1 - p \in Places
BY WordAssumption DEF Places

LEMMA ZeroIs ==
  ASSUME NEW S \in SUBSET Places
  PROVE  Raw(S) = 0 <=> S = {}
<1>1. ASSUME NEW p \in S PROVE Raw(S) # 0
  <2>1. Raw(S) = Mask(p) + Raw(S \ {p}) /\ Mask(p) \in Nat \ {0} /\ Raw(S \ {p}) \in Nat
    <3>1. p \in Places /\ S \ {p} \in SUBSET Places
      OBVIOUS
    <3>2. QED
      BY <3>1, RawSums, MaskIs
  <2>2. QED
    BY <2>1
<1>2. QED
  BY <1>1, RawSums

\* A word that has the value of one of its bits has no other.
LEMMA OneBit ==
  ASSUME NEW S \in SUBSET Places, NEW p \in Places
  PROVE  Raw({p}) = Mask(p) /\ (p \in S /\ Raw(S) = Mask(p) => S = {p})
<1>1. \A R \in SUBSET Places : p \in R =>
        Raw(R) = Mask(p) + Raw(R \ {p}) /\ Raw(R \ {p}) \in Nat /\ (Raw(R \ {p}) = 0 <=> R \ {p} = {})
  <2>1. \A R \in SUBSET Places : R \ {p} \in SUBSET Places
    OBVIOUS
  <2>2. QED
    BY <2>1, RawSums, ZeroIs
<1>2. Mask(p) \in Nat
  BY MaskIs
<1>3. Raw({p}) = Mask(p)
  <2>1. {p} \in SUBSET Places /\ {p} \ {p} = {}
    OBVIOUS
  <2>2. QED
    BY <1>1, <1>2, <2>1, RawSums
<1>4. ASSUME p \in S, Raw(S) = Mask(p) PROVE S = {p}
  <2>1. Raw(S \ {p}) = 0
    BY <1>1, <1>2, <1>4
  <2>2. QED
    BY <1>1, <1>4, <2>1
<1>5. QED
  BY <1>3, <1>4

\* The last bit makes a number odd.
LEMMA OddIs ==
  ASSUME NEW S \in SUBSET Places
  PROVE  Raw(S) % 2 = IF Word - 1 \in S THEN 1 ELSE 0
<1>1. Pow2[1] = 2 /\ Mask(Word - 1) = 1
  <2>1. Pow2[0 + 1] = 2 * Pow2[0] /\ Pow2[0] = 1
    BY PowerFacts
  <2>2. Word - 1 - (Word - 1) = 0
    BY PlaceFacts
  <2>3. QED
    BY <2>1, <2>2, PlaceFacts, MaskIs
<1>2. Raw(S) % 2 = Raw(Low(S, 1))
  <2>1. 1 \in 0..Word
    BY PlaceFacts
  <2>2. QED
    BY <1>1, <2>1, ShrIs
<1>3. \A p \in S : p >= Word - 1 <=> p = Word - 1
  BY PlaceFacts
<1>4. Low(S, 1) = IF Word - 1 \in S THEN {Word - 1} ELSE {}
  BY <1>3 DEF Low
<1>5. Raw({Word - 1}) = 1 /\ Raw({}) = 0
  BY <1>1, OneBit, RawSums, PlaceFacts
<1>6. QED
  BY <1>2, <1>4, <1>5

LEMMA MaxIn ==
  ASSUME NEW S \in SUBSET Places, S # {}
  PROVE  Max(S) \in S /\ \A y \in S : y <= Max(S)
<1> DEFINE T == {Word - 1 - p : p \in S}
<1>1. PICK n \in T : \A m \in T : ~ (m < n)
  <2>1. T \in SUBSET Nat /\ T # {}
    BY PlaceFacts
  <2> HIDE DEF T
  <2>2. QED
    BY <2>1, Least
<1>2. PICK x \in S : n = Word - 1 - x
  BY <1>1
<1>3. ASSUME NEW y \in S PROVE x >= y
  <2>1. ~ (Word - 1 - y < Word - 1 - x)
    BY <1>1, <1>2
  <2>2. x \in Nat /\ y \in Nat /\ Word \in Nat
    BY PlaceFacts
  <2>3. QED
    BY <2>1, <2>2
<1>4. Max(S) \in S /\ \A y \in S : Max(S) >= y
  BY <1>3 DEF Max
<1>5. \A a, b \in Places : a >= b <=> b <= a
  BY PlaceFacts
<1>6. QED
  BY <1>4, <1>5

\* Between which powers of two a number lies.
LEMMA BetweenPowers ==
  ASSUME NEW x \in Nat, NEW i \in Nat, NEW j \in Nat,
         Pow2[i] <= x, x < Pow2[i + 1], Pow2[j] <= x, x < Pow2[j + 1]
  PROVE  i = j
<1>1. ASSUME NEW m \in Nat, NEW n \in Nat, Pow2[n] <= x, x < Pow2[m + 1] PROVE ~ (m < n)
  <2>1. Pow2[m + 1] = 2 * Pow2[m] /\ Pow2[n] \in Nat /\ Pow2[m] \in Nat
    BY PowerFacts
  <2>2. m < n => 2 * Pow2[m] <= Pow2[n]
    BY PowerGrows
  <2>3. QED
    BY <1>1, <2>1, <2>2
<1>2. ~ (i < j) /\ ~ (j < i)
  BY <1>1
<1>3. QED
  BY <1>2

LEMMA HighestBit ==
  ASSUME NEW S \in SUBSET Places, S # {}
  PROVE  LET i == Word - 1 - Min(S) IN
         i \in Places /\ Pow2[i] <= Raw(S) /\ Raw(S) < Pow2[i + 1]
<1> DEFINE m == Min(S)
           i == Word - 1 - m
<1>1. m \in S /\ \A y \in S : m <= y
  <2>1. S \in SUBSET Nat
    BY PlaceFacts
  <2>2. QED
    BY <2>1, MinIn
<1> HIDE DEF m
<1>2. m \in Places /\ i \in Places /\ i \in Nat /\ i + 1 \in 0..Word /\ Word - (i + 1) = m
  BY <1>1, PlaceFacts
<1>3. Raw(S) = Pow2[i] + Raw(S \ {m}) /\ Raw(S \ {m}) \in Nat /\ Pow2[i] \in Nat
  <2>1. S \ {m} \in SUBSET Places
    OBVIOUS
  <2>2. Raw(S) = Mask(m) + Raw(S \ {m}) /\ Raw(S \ {m}) \in Nat
    BY <1>1, <2>1, RawSums
  <2>3. QED
    BY <1>2, <2>2, MaskIs
<1>4. Raw(S) \in 0..(Pow2[i + 1] - 1) /\ Pow2[i + 1] \in Nat
  <2>1. \A p \in S : p >= Word - (i + 1)
    BY <1>1, <1>2, PlaceFacts
  <2>2. QED
    BY <1>2, <2>1, LowIsSmall, PowerFacts
<1> HIDE DEF i
<1>5. Pow2[i] <= Raw(S) /\ Raw(S) < Pow2[i + 1]
  BY <1>3, <1>4
<1>6. QED
  BY <1>2, <1>5 DEF i, m

\* Of the two compilers' builtins for the highest bit.
LEMMA ClzIs ==
  ASSUME NEW S \in SUBSET Places
  PROVE  clz(Raw(S)) = First(S) /\ clz_msvc(Raw(S)) = First(S)
<1>1. CASE S = {}
  <2>1. Raw(S) = 0 /\ First(S) = Word
    BY <1>1, RawSums DEF First
  <2>2. QED
    BY <2>1 DEF clz, clz_msvc
<1>2. CASE S # {}
  <2> DEFINE m == Min(S)
             x == Raw(S)
             P(n) == Shr(x, Word - n) = 0 /\ Shr(x, Word - n - 1) = 1
             Q(i) == Pow2[i] <= x /\ x < Pow2[i + 1]
  <2>1. m \in S /\ m \in Places /\ \A y \in S : m <= y
    <3>1. S \in SUBSET Nat
      BY PlaceFacts
    <3>2. QED
      BY <1>2, <3>1, MinIn
  <2>2. Word - 1 - m \in Places /\ Q(Word - 1 - m)
    BY <1>2, HighestBit
  <2>3. x # 0 /\ x \in Nat /\ First(S) = m
    BY <1>2, ZeroIs, RawSums DEF First
  <2> HIDE DEF m
  <2>4. ASSUME NEW n \in Places PROVE P(n) <=> n = m
    <3>1. /\ n \in Nat /\ n < Word /\ m \in Nat /\ m < Word
          /\ Word - n \in 0..Word /\ Word - n - 1 \in 0..Word /\ Word - n - 1 \in Nat
      BY <2>1, PlaceFacts
    <3> DEFINE above == Right(S, Word - n)
               upto == Right(S, Word - n - 1)
    <3>2. Shr(x, Word - n) = Raw(above) /\ Shr(x, Word - n - 1) = Raw(upto)
      BY <3>1, ShrIs
    <3>3. above \in SUBSET Places /\ upto \in SUBSET Places
      BY DEF Right
    <3>4. above = {} <=> n <= m
      <4>1. ASSUME NEW p \in S, p < n PROVE above # {}
        <5>1. p + (Word - n) \in Places /\ (p + (Word - n)) - (Word - n) = p
          BY <3>1, <4>1, PlaceFacts DEF Places
        <5>2. QED
          BY <5>1 DEF Right
      <4>2. ASSUME NEW q \in above PROVE q - (Word - n) \in S /\ q - (Word - n) < n
        BY <3>1, PlaceFacts DEF Right
      <4>3. \A p \in S : p \in Nat
        BY PlaceFacts
      <4> HIDE DEF above
      <4>4. above = {} => n <= m
        BY <2>1, <3>1, <4>1
      <4>5. ASSUME NEW q \in above PROVE m < n
        <5>1. PICK p \in S : p < n
          BY <4>2
        <5>2. m <= p /\ p \in Nat
          BY <2>1, <4>3
        <5>3. QED
          BY <3>1, <5>1, <5>2
      <4>6. n <= m => ~ (m < n)
        BY <3>1
      <4>7. QED
        BY <4>4, <4>5, <4>6
    <3>5. Word - 1 \in upto <=> n \in S
      <4>1. (Word - 1) - (Word - n - 1) = n /\ Word - 1 \in Places
        BY <3>1, PlaceFacts
      <4>2. QED
        BY <4>1 DEF Right
    <3>6. ASSUME n = m PROVE upto = {Word - 1}
      <4>1. ASSUME NEW q \in upto PROVE q = Word - 1
        <5>1. q \in Nat /\ q < Word /\ m <= q - (Word - n - 1)
          BY <2>1, PlaceFacts DEF Right
        <5>2. Word \in Nat
          BY PlaceFacts
        <5>3. QED
          BY <3>1, <3>6, <5>1, <5>2
      <4>2. QED
        BY <2>1, <3>5, <3>6, <4>1
    <3>7. Mask(Word - 1) = 1
      <4>1. Word - 1 - (Word - 1) = 0
        BY PlaceFacts
      <4>2. QED
        BY <4>1, PlaceFacts, MaskIs, PowerFacts
    <3>8. ASSUME Raw(upto) = 1 PROVE Word - 1 \in upto
      <4>1. Raw(upto) % 2 = IF Word - 1 \in upto THEN 1 ELSE 0
        BY <3>3, OddIs
      <4>2. 1 % 2 = 1
        OBVIOUS
      <4>3. QED
        BY <3>8, <4>1, <4>2
    <3> HIDE DEF above, upto, x
    <3>9. P(n) <=> n <= m /\ Raw(upto) = 1
      BY <3>2, <3>3, <3>4, ZeroIs
    <3>10. ASSUME P(n) PROVE n = m
      BY <2>1, <3>1, <3>5, <3>8, <3>9, <3>10
    <3>11. ASSUME n = m PROVE P(n)
      <4>1. Raw(upto) = 1
        BY <3>6, <3>7, <3>11, PlaceFacts, OneBit
      <4>2. QED
        BY <3>1, <3>9, <3>11, <4>1
    <3>12. QED
      BY <3>10, <3>11
  <2>5. ASSUME NEW i \in Places PROVE Q(i) <=> i = Word - 1 - m
    <3>1. i \in Nat /\ Word - 1 - m \in Nat
      BY <2>2, PlaceFacts
    <3> HIDE DEF x
    <3>2. QED
      BY <2>2, <2>3, <3>1, BetweenPowers
  <2>6. __builtin_clz(x) = m
    <3>1. __builtin_clz(x) = CHOOSE n \in Places : P(n)
      BY DEF __builtin_clz, Places
    <3> HIDE DEF P
    <3>2. QED
      BY <2>1, <2>4, <3>1
  <2>7. _BitScanReverse(x) = Word - 1 - m
    <3>1. _BitScanReverse(x) = CHOOSE i \in Places : Q(i)
      BY DEF _BitScanReverse, Places
    <3> HIDE DEF Q
    <3>2. QED
      BY <2>2, <2>5, <3>1
  <2> HIDE DEF x
  <2>8. clz(x) = m /\ clz_msvc(x) = m
    <3>1. (Word - 1) - (Word - 1 - m) = m
      BY <2>1, PlaceFacts
    <3>2. QED
      BY <2>3, <2>6, <2>7, <3>1 DEF clz, clz_msvc
  <2>9. QED
    BY <2>3, <2>8 DEF x
<1>3. QED
  BY <1>1, <1>2
\* The same for the lowest bit.
LEMMA CtzIs ==
  ASSUME NEW S \in SUBSET Places
  PROVE  LET n == IF S = {} THEN Word ELSE Word - 1 - Max(S) IN
         ctz(Raw(S)) = n /\ ctz_msvc(Raw(S)) = n
<1>1. CASE S = {}
  <2>1. Raw(S) = 0
    BY <1>1, RawSums
  <2>2. QED
    BY <1>1, <2>1 DEF ctz, ctz_msvc
<1>2. CASE S # {}
  <2> DEFINE m == Max(S)
             z == Word - 1 - m
             x == Raw(S)
             P(n) == Shl(Shr(x, n), n) = x /\ Shr(x, n) % 2 = 1
             Q(i) == x % Pow2[i + 1] = Pow2[i]
  <2>1. m \in S /\ m \in Places /\ \A y \in S : y <= m
    BY <1>2, MaxIn
  <2>2. x # 0 /\ x \in Nat
    BY <1>2, ZeroIs, RawSums
  <2> HIDE DEF m
  <2>3. z \in Places /\ z \in Nat
    BY <2>1, PlaceFacts
  <2>4. ASSUME NEW n \in Places
        PROVE  /\ n \in Nat /\ n \in 0..Word /\ n + 1 \in 0..Word /\ Word - 1 - n \in Places
               /\ Word - 1 - (Word - 1 - n) = n
               /\ Word - (n + 1) = Word - 1 - n /\ (Word - 1 - n = m <=> n = z)
    BY <2>1, PlaceFacts
  \* The bits below bit n, and whether there are any.
  <2>5. ASSUME NEW n \in Places
        PROVE  Low(S, n) = {} <=> z >= n
    <3>1. Word \in Nat /\ n \in Nat /\ m \in Nat /\ \A p \in S : p \in Nat
      BY <2>1, PlaceFacts
    <3>2. ASSUME NEW p \in S, p >= Word - n PROVE m >= Word - n
      BY <2>1, <3>1, <3>2
    <3>3. Low(S, n) = {} <=> ~ (m >= Word - n)
      BY <2>1, <3>2 DEF Low
    <3>4. ~ (m >= Word - n) <=> z >= n
      BY <3>1
    <3>5. QED
      BY <3>3, <3>4
  <2>6. ASSUME NEW n \in Places PROVE P(n) <=> n = z
    <3>1. Shr(x, n) = Raw(Right(S, n)) /\ Right(S, n) \in SUBSET Places
      BY <2>4, ShrIs DEF Right
    <3>2. Shl(Raw(Right(S, n)), n) = Raw(Left(Right(S, n), n))
      BY <2>4, <3>1, ShlIs
    <3>3. Left(Right(S, n), n) = S \ Low(S, n)
      <4>1. \A q \in Places : /\ q + n \in Places <=> ~ (q >= Word - n)
                              /\ (q + n) - n = q
        BY <2>4, PlaceFacts DEF Places
      <4>2. QED
        BY <4>1 DEF Left, Right, Low
    <3>4. /\ Raw(S) = Raw(S \ Low(S, n)) + Raw(Low(S, n))
          /\ Raw(S \ Low(S, n)) \in Nat /\ Raw(Low(S, n)) \in Nat
          /\ (Raw(Low(S, n)) = 0 <=> Low(S, n) = {})
      <4>1. /\ Low(S, n) \in SUBSET Places /\ S \ Low(S, n) \in SUBSET Places
            /\ (S \ Low(S, n)) \union Low(S, n) = S /\ (S \ Low(S, n)) \intersect Low(S, n) = {}
        BY DEF Low
      <4>2. QED
        BY <4>1, RawUnion, RawSums, ZeroIs
    <3>5. Shl(Shr(x, n), n) = x <=> Low(S, n) = {}
      BY <3>1, <3>2, <3>3, <3>4
    <3>6. Word - 1 \in Right(S, n) <=> Word - 1 - n \in S
      BY PlaceFacts DEF Right
    <3>7. Shr(x, n) % 2 = 1 <=> Word - 1 - n \in S
      BY <3>1, <3>6, OddIs
    <3>8. P(n) <=> z >= n /\ Word - 1 - n \in S
      BY <2>5, <3>5, <3>7
    <3>9. Word - 1 - n \in S => n >= z
      <4>1. Word - 1 - n <= m <=> n >= z
        BY <2>1, <2>4, PlaceFacts
      <4>2. QED
        BY <2>1, <4>1
    <3>10. n \in Nat /\ z \in Nat /\ (n = z => Word - 1 - n \in S)
      BY <2>1, <2>3, <2>4
    <3> HIDE DEF P, z
    <3>11. QED
      BY <3>8, <3>9, <3>10
  <2>7. ASSUME NEW i \in Places PROVE Q(i) <=> i = z
    <3> DEFINE b == Word - 1 - i
               low == Low(S, i + 1)
    <3>1. x % Pow2[i + 1] = Raw(low) /\ low \in SUBSET Places
      BY <2>4, ShrIs DEF Low
    <3>2. b \in Places /\ Mask(b) = Pow2[i]
      BY <2>4, MaskIs
    <3>3. Q(i) <=> Raw(low) = Mask(b)
      BY <3>1, <3>2
    <3>4. b \in low <=> b \in S
      BY <2>4, <3>2, PlaceFacts DEF Low
    <3>5. ASSUME i = z PROVE low = {b}
      <4>1. b = m /\ \A p \in low : p >= m /\ p \in S
        BY <2>4, <3>5 DEF Low
      <4>2. \A p \in low : p = m
        <5>1. \A p \in S : p \in Nat /\ m \in Nat /\ p <= m
          BY <2>1, PlaceFacts
        <5> HIDE DEF low
        <5>2. QED
          BY <4>1, <5>1
      <4>3. QED
        BY <2>1, <3>4, <4>1, <4>2
    <3>6. ASSUME Raw(low) = Mask(b) PROVE i = z
      <4>1. b \in low
        <5>1. SUFFICES ASSUME b \notin low PROVE FALSE
          OBVIOUS
        <5>2. \A p \in low : p >= Word - i
          <6>1. \A p \in low : p >= b /\ p # b /\ p \in Nat
            BY <2>4, <5>1, PlaceFacts DEF Low
          <6>2. QED
            BY <2>4, <6>1, PlaceFacts
        <5>3. Raw(low) \in 0..(Pow2[i] - 1)
          BY <2>4, <3>1, <5>2, LowIsSmall
        <5>4. Pow2[i] \in Nat
          BY <2>4, PowerFacts
        <5>5. QED
          BY <3>2, <3>6, <5>3, <5>4
      <4>2. low = {b}
        <5> HIDE DEF low, b
        <5>1. QED
          BY <3>1, <3>2, <3>6, <4>1, OneBit
      <4>3. b <= m
        BY <2>1, <3>4, <4>1
      <4>4. m \in low
        BY <2>1, <2>4, <4>3 DEF Low
      <4>5. QED
        BY <2>4, <4>2, <4>4
    <3>7. low = {b} => Raw(low) = Mask(b)
      BY <3>2, OneBit
    <3>8. QED
      BY <3>3, <3>5, <3>6, <3>7
  <2>8. __builtin_ctz(x) = z
    <3>1. __builtin_ctz(x) = CHOOSE n \in Places : P(n)
      BY DEF __builtin_ctz, Places
    <3> HIDE DEF P, z
    <3>2. QED
      BY <2>3, <2>6, <3>1
  <2>9. _BitScanForward(x) = z
    <3>1. _BitScanForward(x) = CHOOSE i \in Places : Q(i)
      BY DEF _BitScanForward, Places
    <3> HIDE DEF Q, z
    <3>2. QED
      BY <2>3, <2>7, <3>1
  <2> HIDE DEF x, z
  <2>10. ctz(x) = z /\ ctz_msvc(x) = z
    BY <2>2, <2>8, <2>9 DEF ctz, ctz_msvc
  <2>11. QED
    BY <1>2, <2>10 DEF x, z, m
<1>3. QED
  BY <1>1, <1>2

\* Unsigned, and still no wrap: the word has fewer bits than it has values.
LEMMA Log2Is ==
  ASSUME NEW S \in SUBSET Places, Raw(S) # 0
  PROVE  Pow2[log2(Raw(S))] <= Raw(S) /\ Raw(S) < Pow2[log2(Raw(S)) + 1]
<1>1. S # {} /\ clz(Raw(S)) = Min(S)
  BY RawSums, ClzIs DEF First
<1>2. Min(S) \in Places
  <2>1. S \in SUBSET Nat
    BY PlaceFacts
  <2>2. QED
    BY <1>1, <2>1, MinIn
<1>3. Word - Min(S) - 1 = Word - 1 - Min(S) /\ Word - 1 - Min(S) \in 0..(Pow2[Word] - 1)
  <2>1. Word < Pow2[Word] /\ Pow2[Word] \in Nat
    BY PlaceFacts, PowerFacts
  <2>2. QED
    BY <1>2, <2>1, PlaceFacts
<1>4. Pow2[Word] \in Nat \ {0}
  BY PlaceFacts, PowerFacts
<1>5. \A M \in Nat \ {0}, r \in Int : r \in 0..(M - 1) => r % M = r
  OBVIOUS
<1>6. log2(Raw(S)) = Word - 1 - Min(S)
  BY <1>1, <1>3, <1>4, <1>5 DEF log2
<1>7. QED
  BY <1>1, <1>6, HighestBit

\* popcnt looks at one bit after the other, from the last to the first.
LEMMA PopcntIs ==
  ASSUME NEW S \in SUBSET Places
  PROVE  popcnt(Raw(S)) = Cardinality(S)
<1> DEFINE x == Raw(S)
           bit(i) == Shr(x, i) % 2
           g == [i \in Places |-> bit(i)]
           Of(s) == {i \in s : Word - 1 - i \in S}
<1>1. IsFiniteSet(Places)
  BY WordAssumption, FS_Interval DEF Places
<1>2. \A i \in Places : bit(i) = IF Word - 1 - i \in S THEN 1 ELSE 0
  <2>1. ASSUME NEW i \in Places PROVE bit(i) = IF Word - 1 - i \in S THEN 1 ELSE 0
    <3>1. i \in 0..Word
      BY PlaceFacts DEF Places
    <3>2. Shr(x, i) = Raw(Right(S, i)) /\ Right(S, i) \in SUBSET Places
      BY <3>1, ShrIs DEF Right
    <3>3. Word - 1 \in Right(S, i) <=> Word - 1 - i \in S
      BY PlaceFacts DEF Right
    <3>4. QED
      BY <3>2, <3>3, OddIs
  <2>2. QED
    BY <2>1
<1>3. PICK sum : Sums(sum, g)
  <2>1. DOMAIN g = Places
    OBVIOUS
  <2> HIDE DEF g
  <2>2. QED
    BY <1>1, <2>1, SumsExist
<1>4. \E it : it = [s \in SUBSET Places |-> IF s = {} THEN 0
                      ELSE (Shr(x, Pick(s)) % 2) + it[s \ {Pick(s)}]]
  <2>1. \A s \in SUBSET Places : s # {} => g[Pick(s)] = Shr(x, Pick(s)) % 2
    BY DEF Pick
  <2>2. DOMAIN g = Places
    OBVIOUS
  <2> HIDE DEF g
  <2>3. sum = [s \in SUBSET Places |-> IF s = {} THEN 0
                 ELSE (Shr(x, Pick(s)) % 2) + sum[s \ {Pick(s)}]]
    BY <1>3, <2>1, <2>2 DEF Sums
  <2>4. QED
    BY <2>3
<1> HIDE DEF x
<1>5. PICK it :
        /\ it = [s \in SUBSET Places |-> IF s = {} THEN 0
                   ELSE (Shr(x, Pick(s)) % 2) + it[s \ {Pick(s)}]]
        /\ popcnt(x) = it[Places]
  BY <1>4, Zenon DEF popcnt, MapThenSumSet, MapThenFoldSet, Pick, Places
<1>6. it[{}] = 0 /\ \A s \in SUBSET Places : s # {} => it[s] = bit(Pick(s)) + it[s \ {Pick(s)}]
  BY <1>5
<1> DEFINE T == {s \in SUBSET Places : it[s] = Cardinality(Of(s))}
<1>7. {} \in T
  <2>1. Of({}) = {} /\ Cardinality({}) = 0
    BY FS_EmptySet
  <2>2. QED
    BY <1>6, <2>1
<1>8. ASSUME NEW s \in SUBSET Places, s # {}, s \ {Pick(s)} \in T PROVE s \in T
  <2> DEFINE i == Pick(s)
             r == s \ {i}
  <2>1. i \in s /\ i \in Places /\ r \in SUBSET Places
    BY <1>1, <1>8, Picked
  <2>2. it[r] = Cardinality(Of(r)) /\ it[s] = bit(i) + it[r]
    BY <1>6, <1>8
  <2>3. IsFiniteSet(Of(r)) /\ Cardinality(Of(r)) \in Nat /\ i \notin Of(r)
    <3>1. Of(r) \in SUBSET Places
      OBVIOUS
    <3>2. i \notin Of(r)
      OBVIOUS
    <3> HIDE DEF Of, r, i
    <3>3. QED
      BY <1>1, <3>1, <3>2, FS_Subset, FS_CardinalityType
  <2>4. CASE Word - 1 - i \in S
    <3>1. Of(s) = Of(r) \union {i}
      BY <2>1, <2>4
    <3>2. bit(i) = 1
      BY <1>2, <2>1, <2>4
    <3> HIDE DEF Of, r, i, bit
    <3>3. Cardinality(Of(s)) = Cardinality(Of(r)) + 1
      BY <2>3, <3>1, FS_AddElement
    <3>4. QED
      BY <2>2, <2>3, <3>2, <3>3
  <2>5. CASE Word - 1 - i \notin S
    <3>1. Of(s) = Of(r)
      BY <2>1, <2>5
    <3>2. bit(i) = 0
      BY <1>2, <2>1, <2>5
    <3> HIDE DEF Of, r, i, bit
    <3>3. QED
      BY <2>2, <2>3, <3>1, <3>2
  <2>6. QED
    BY <2>4, <2>5
<1>9. T = SUBSET Places
  <2>1. T \in SUBSET SUBSET Places
    OBVIOUS
  <2> HIDE DEF T
  <2>2. QED
    BY <1>1, <1>7, <1>8, <2>1, SubsetInduction
<1>10. Cardinality(Of(Places)) = Cardinality(S)
  <2> DEFINE D == Of(Places)
             f == [i \in D |-> Word - 1 - i]
  <2>1. IsFiniteSet(D)
    <3>1. D \in SUBSET Places
      OBVIOUS
    <3> HIDE DEF D
    <3>2. QED
      BY <1>1, <3>1, FS_Subset
  <2>2. f \in [D -> S]
    OBVIOUS
  <2>3. ASSUME NEW p \in S PROVE \E i \in D : f[i] = p
    <3>1. Word - 1 - p \in Places /\ Word - 1 - (Word - 1 - p) = p
      BY PlaceFacts
    <3>2. Word - 1 - p \in D
      BY <3>1
    <3>3. QED
      BY <3>1, <3>2
  <2>4. ASSUME NEW i \in D, NEW j \in D, f[i] = f[j] PROVE i = j
    <3>1. i \in Places /\ j \in Places /\ Word - 1 - i = Word - 1 - j
      BY <2>4
    <3>2. QED
      BY <3>1, PlaceFacts
  <2> HIDE DEF f, D
  <2>5. f \in Bijection(D, S)
    BY <2>2, <2>3, <2>4 DEF Bijection, Injection, Surjection, IsInjective
  <2>6. ExistsBijection(D, S)
    BY <2>5 DEF ExistsBijection
  <2>7. Cardinality(D) = Cardinality(S)
    BY <2>1, <2>6, FS_Bijection
  <2>8. QED
    BY <2>7 DEF D
<1>11. QED
  BY <1>5, <1>9, <1>10 DEF x
-----------------------------------------------------------------------------
(* get, set, clear and next of one word.                                    *)

LEMMA RawGetIs ==
  ASSUME NEW S \in SUBSET Places, NEW p \in Places
  PROVE  RawGet(Raw(S), p) = (p \in S)
<1> DEFINE k == Word - 1 - p
<1>1. k \in 0..Word /\ k \in Places /\ Word - 1 - k = p
  BY PlaceFacts DEF Places
<1>2. Raw(S) \div Mask(p) = Raw(Right(S, k)) /\ Right(S, k) \in SUBSET Places
  BY <1>1, MaskIs, ShrIs DEF Shr, Right
<1>3. Word - 1 \in Right(S, k) <=> p \in S
  <2>1. (Word - 1) - k = p
    BY PlaceFacts
  <2>2. QED
    BY <2>1, PlaceFacts DEF Right
<1> HIDE DEF k
<1>4. Raw(Right(S, k)) % 2 = IF p \in S THEN 1 ELSE 0
  BY <1>2, <1>3, OddIs
<1>5. QED
  BY <1>2, <1>4 DEF RawGet

LEMMA RawSetIs ==
  ASSUME NEW S \in SUBSET Places, NEW p \in Places
  PROVE  RawSet(Raw(S), p) = Raw(S \union {p}) /\ RawClear(Raw(S), p) = Raw(S \ {p})
<1>1. RawGet(Raw(S), p) <=> p \in S
  BY RawGetIs
<1>2. Mask(p) \in Nat /\ Raw(S) \in Nat /\ Raw(S \ {p}) \in Nat
  <2>1. S \ {p} \in SUBSET Places
    OBVIOUS
  <2>2. QED
    BY <2>1, MaskIs, RawSums
<1>3. CASE p \in S
  <2>1. S \union {p} = S /\ Raw(S) = Mask(p) + Raw(S \ {p})
    BY <1>3, RawSums
  <2>2. \A m, r \in Nat : (m + r) - m = r
    OBVIOUS
  <2>3. Raw(S) - Mask(p) = Raw(S \ {p})
    BY <1>2, <2>1, <2>2
  <2>4. QED
    BY <1>1, <1>3, <2>1, <2>3 DEF RawSet, RawClear
<1>4. CASE p \notin S
  <2>1. S \union {p} \in SUBSET Places /\ p \in S \union {p} /\ (S \union {p}) \ {p} = S /\ S \ {p} = S
    BY <1>4
  <2>2. Raw(S \union {p}) = Mask(p) + Raw((S \union {p}) \ {p})
    BY <2>1, RawSums
  <2>3. Raw(S \union {p}) = Raw(S) + Mask(p)
    BY <1>2, <2>1, <2>2
  <2>4. QED
    BY <1>1, <1>4, <2>1, <2>3 DEF RawSet, RawClear
<1>5. QED
  BY <1>3, <1>4

\* Shifted left and back, a word keeps its bits from k on.
LEMMA RawNextIs ==
  ASSUME NEW S \in SUBSET Places, NEW p \in Places
  PROVE  RawNext(Raw(S), p) = First({q \in S : q > p})
<1>1. CASE p + 1 = Word
  <2>1. ASSUME NEW q \in S PROVE ~ (q > p)
    <3>1. q \in Nat /\ q < Word /\ p \in Nat /\ Word \in Nat
      BY PlaceFacts
    <3>2. QED
      BY <1>1, <3>1
  <2>2. {q \in S : q > p} = {}
    BY <2>1
  <2>3. QED
    BY <1>1, <2>2 DEF RawNext, First
<1>2. CASE p + 1 # Word
  <2>1. p + 1 \in 0..Word
    BY PlaceFacts DEF Places
  <2>2. Shl(Raw(S), p + 1) = Raw(Left(S, p + 1)) /\ Left(S, p + 1) \in SUBSET Places
    BY <2>1, ShlIs DEF Left
  <2> DEFINE rest == Right(Left(S, p + 1), p + 1)
  <2>3. Shr(Raw(Left(S, p + 1)), p + 1) = Raw(rest) /\ rest \in SUBSET Places
    BY <2>1, <2>2, ShrIs DEF Right
  <2>4. rest = {q \in S : q > p}
    <3>1. \A q \in Places : (q - (p + 1) \in Places <=> q > p) /\ (q - (p + 1)) + (p + 1) = q
      BY PlaceFacts DEF Places
    <3>2. QED
      BY <3>1 DEF Right, Left
  <2> HIDE DEF rest
  <2>5. RawNext(Raw(S), p) = clz(Raw(rest))
    BY <1>2, <2>2, <2>3 DEF RawNext
  <2>6. QED
    BY <2>3, <2>4, <2>5, ClzIs
<1>3. QED
  BY <1>1, <1>2

LEMMA WordsFit ==
  ASSUME BitsInv
  PROVE  \A word \in {index_} \union Range(sub_index_) : word \in SUBSET Places
<1>1. Words \subseteq Places
  BY SizeFacts DEF BitsInv, Words, Places
<1>2. index_ \in SUBSET Places
  BY <1>1 DEF BitsInv
<1>3. \A word \in Range(sub_index_) : \E w \in Words : word = InWord(members, w)
  BY DEF BitsInv, Range
<1>4. QED
  BY <1>2, <1>3 DEF InWord

\* For words of any width, every word that the bitset comes to hold, kept as a
\* number and read with shifts, masks and the builtins of either compiler, gives
\* what the set of its positions says: the counts of leading and trailing zeros
\* and of ones, log2, get, set, clear and the iterator's next.
THEOREM NumbersAreWords == Spec => []RawBitsAgree
<1>1. ASSUME BitsInv PROVE RawBitsAgree
  <2>1. SUFFICES ASSUME NEW word \in {index_} \union Range(sub_index_)
        PROVE  LET x == Raw(word) IN
               /\ clz(x) = First(word) /\ clz_msvc(x) = clz(x)
               /\ ctz(x) = (IF word = {} THEN Word ELSE Word - 1 - Max(word)) /\ ctz_msvc(x) = ctz(x)
               /\ popcnt(x) = Cardinality(word)
               /\ x # 0 => Pow2[log2(x)] <= x /\ x < Pow2[log2(x) + 1]
               /\ \A p \in 0..(Word - 1) :
                    /\ RawGet(x, p) = (p \in word)
                    /\ RawSet(x, p) = Raw(word \union {p})
                    /\ RawClear(x, p) = Raw(word \ {p})
                    /\ RawNext(x, p) = First({q \in word : q > p})
    BY DEF RawBitsAgree
  <2>2. word \in SUBSET Places
    BY <1>1, WordsFit
  <2>3. clz(Raw(word)) = First(word) /\ clz_msvc(Raw(word)) = clz(Raw(word))
    BY <2>2, ClzIs
  <2>4. /\ ctz(Raw(word)) = (IF word = {} THEN Word ELSE Word - 1 - Max(word))
        /\ ctz_msvc(Raw(word)) = ctz(Raw(word))
    BY <2>2, CtzIs
  <2>5. popcnt(Raw(word)) = Cardinality(word)
    BY <2>2, PopcntIs
  <2>6. Raw(word) # 0 => Pow2[log2(Raw(word))] <= Raw(word) /\ Raw(word) < Pow2[log2(Raw(word)) + 1]
    BY <2>2, Log2Is
  <2>7. ASSUME NEW p \in 0..(Word - 1)
        PROVE  /\ RawGet(Raw(word), p) = (p \in word)
               /\ RawSet(Raw(word), p) = Raw(word \union {p})
               /\ RawClear(Raw(word), p) = Raw(word \ {p})
               /\ RawNext(Raw(word), p) = First({q \in word : q > p})
    <3>1. p \in Places
      BY DEF Places
    <3>2. QED
      BY <2>2, <3>1, RawGetIs, RawSetIs, RawNextIs
  <2>8. QED
    BY <2>3, <2>4, <2>5, <2>6, <2>7
<1>2. QED
  BY <1>1, BitsInvariant, PTL
=============================================================================
