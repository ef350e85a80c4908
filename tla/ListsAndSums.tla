---------------------------- MODULE ListsAndSums ----------------------------
(***************************************************************************)
(* Lemmas that the proofs of several modules need, about lists threaded    *)
(* through memory, about sums, division and powers of two.  The sum of a function's values over a   *)
(* finite domain is what the community module Functions defines: a fold    *)
(* that takes the elements of the domain in some fixed order.  Two         *)
(* functions on the same domain are summed in the same order, so that      *)
(* their sums can be compared element by element.  Induction is by a least *)
(* counterexample.                                                         *)
(***************************************************************************)
EXTENDS Integers, Powers, Functions, SequenceTheorems, FiniteSetTheorems, WellFoundedInduction, TLAPS

LEMMA Least ==
  ASSUME NEW T \in SUBSET Nat, T # {}
  PROVE  \E n \in T : \A m \in T : ~ (m < n)
<1>1. PICK n \in T : \A m \in T : ~ (<<m, n>> \in OpToRel(<, Nat))
  BY NatLessThanWellFounded, WFMin
<1>2. QED
  BY <1>1 DEF OpToRel

-----------------------------------------------------------------------------
(* Lists without repetitions. *)

Distinct(s) == \A i, j \in 1..Len(s) : s[i] = s[j] => i = j

LEMMA ListAdd ==
  ASSUME NEW S, NEW s \in Seq(S), NEW c \in S
  PROVE  /\ <<c>> \o s \in Seq(S)
         /\ Range(<<c>> \o s) = Range(s) \union {c}
         /\ Distinct(s) /\ c \notin Range(s) => Distinct(<<c>> \o s)
<1> DEFINE r == <<c>> \o s
<1>1. /\ r \in Seq(S) /\ Len(r) = Len(s) + 1 /\ Len(s) \in Nat
      /\ r[1] = c /\ \A i \in 2..Len(r) : r[i] = s[i - 1] /\ i - 1 \in 1..Len(s)
  OBVIOUS
<1>2. Range(r) = Range(s) \union {c}
  <2> DEFINE one == <<c>>
  <2>1. one \in Seq(S) /\ Range(one) = {c}
    BY DEF Range
  <2> HIDE DEF one
  <2>2. Range(one \o s) = Range(one) \union Range(s)
    BY <2>1, RangeConcatenation
  <2>3. QED
    BY <2>1, <2>2 DEF one
<1>3. ASSUME Distinct(s), c \notin Range(s) PROVE Distinct(r)
  <2>1. SUFFICES ASSUME NEW i \in 1..Len(r), NEW j \in 1..Len(r), i < j PROVE r[i] # r[j]
    BY <1>1 DEF Distinct
  <2>2. r[j] = s[j - 1] /\ j - 1 \in 1..Len(s) /\ s[j - 1] \in Range(s)
    <3>1. j \in 2..Len(r)
      BY <1>1, <2>1
    <3>2. QED
      BY <1>1, <3>1, RangeEquality
  <2>3. CASE i = 1
    BY <1>1, <1>3, <2>2, <2>3
  <2>4. CASE i # 1
    <3>1. i \in 2..Len(r)
      BY <1>1, <2>4
    <3>2. r[i] = s[i - 1] /\ i - 1 \in 1..Len(s) /\ i - 1 # j - 1
      BY <1>1, <2>1, <3>1
    <3>3. QED
      BY <1>3, <2>2, <3>2 DEF Distinct
  <2>5. QED
    BY <2>3, <2>4
<1>4. QED
  BY <1>1, <1>2, <1>3

LEMMA ListRest ==
  ASSUME NEW S, NEW s \in Seq(S), s # << >>
  PROVE  /\ Head(s) \in S /\ Tail(s) \in Seq(S)
         /\ Range(s) = Range(Tail(s)) \union {Head(s)}
         /\ Distinct(s) => Distinct(Tail(s)) /\ Head(s) \notin Range(Tail(s))
<1> DEFINE r == Tail(s)
<1>1. /\ Len(s) \in Nat \ {0} /\ Head(s) = s[1] /\ s[1] \in S /\ r \in Seq(S)
      /\ Len(r) = Len(s) - 1 /\ Len(r) \in Nat
      /\ \A i \in 1..Len(r) : r[i] = s[i + 1] /\ i + 1 \in 2..Len(s)
  <2>1. Len(s) \in Nat \ {0} /\ Head(s) = s[1] /\ s[1] \in S
    BY EmptySeq
  <2>2. r \in Seq(S) /\ Len(r) = Len(s) - 1 /\ \A i \in 1..Len(r) : r[i] = s[i + 1]
    BY HeadTailProperties
  <2>3. QED
    BY <2>1, <2>2
<1>2. Range(s) = {s[i] : i \in 1..Len(s)} /\ Range(r) = {r[i] : i \in 1..Len(r)}
  <2>1. Range(s) = {s[i] : i \in 1..Len(s)}
    BY RangeEquality
  <2>2. r \in Seq(S)
    BY <1>1
  <2> HIDE DEF r
  <2>3. Range(r) = {r[i] : i \in 1..Len(r)}
    BY <2>2, RangeEquality
  <2>4. QED
    BY <2>1, <2>3
<1>3. ASSUME Distinct(s) PROVE Distinct(r) /\ Head(s) \notin Range(r)
  <2>1. Distinct(r)
    BY <1>1, <1>3 DEF Distinct
  <2>2. Head(s) \notin Range(r)
    BY <1>1, <1>2, <1>3 DEF Distinct
  <2>3. QED
    BY <2>1, <2>2
<1>4. Range(s) \subseteq Range(r) \union {Head(s)}
  <2>1. SUFFICES ASSUME NEW i \in 1..Len(s), i # 1 PROVE s[i] \in Range(r)
    BY <1>1, <1>2
  <2>2. i - 1 \in 1..Len(r) /\ r[i - 1] = s[i]
    BY <1>1, <2>1
  <2>3. QED
    BY <1>2, <2>2
<1>5. Range(r) \union {Head(s)} \subseteq Range(s)
  BY <1>1, <1>2
<1>6. QED
  BY <1>1, <1>3, <1>4, <1>5

LEMMA EmptyList == Range(<< >>) = {} /\ Distinct(<< >>) /\ \A S : << >> \in Seq(S)
BY DEF Range, Distinct

\* A list without repetitions has no more members than there are.
LEMMA DistinctLength ==
  ASSUME NEW S, IsFiniteSet(S), NEW s \in Seq(S), Distinct(s)
  PROVE  Len(s) \in Nat /\ Len(s) <= Cardinality(S)
<1>1. Cardinality(S) \in Nat /\ Len(s) \in Nat
  BY FS_CardinalityType
<1>2. s \in [1..Len(s) -> S] /\ Cardinality(1..Len(s)) = Len(s) /\ IsFiniteSet(1..Len(s))
  <2>1. s \in [1..Len(s) -> S]
    OBVIOUS
  <2>2. \A n \in Nat : Cardinality(1..n) = n /\ IsFiniteSet(1..n)
    BY FS_Interval
  <2>3. QED
    BY <1>1, <2>1, <2>2
<1>3. s \in Injection(1..Len(s), S)
  BY <1>2 DEF Distinct, Injection, IsInjective
<1>4. Cardinality(1..Len(s)) <= Cardinality(S)
  BY <1>1, <1>2, <1>3, FS_Injection
<1>5. QED
  BY <1>1, <1>2, <1>4

-----------------------------------------------------------------------------
(* Linked lists: the sequence s runs from p along link and ends in null. *)

NodeAt(s, i, null) == IF i <= Len(s) THEN s[i] ELSE null
RunsFrom(s, p, link, null) ==
  p = NodeAt(s, 1, null) /\ \A i \in 1..Len(s) : link[s[i]] = NodeAt(s, i + 1, null)

LEMMA RunKept ==
  ASSUME NEW S, NEW s \in Seq(S), NEW p, NEW null, NEW f, NEW g, RunsFrom(s, p, f, null),
         \A b \in Range(s) : g[b] = f[b]
  PROVE  RunsFrom(s, p, g, null)
<1>1. \A i \in 1..Len(s) : s[i] \in Range(s)
  BY RangeEquality
<1>2. QED
  BY <1>1 DEF RunsFrom, NodeAt

\* The first node is taken off.
LEMMA RunRest ==
  ASSUME NEW S, NEW s \in Seq(S), NEW p, NEW null, NEW f, NEW g, RunsFrom(s, p, f, null),
         Distinct(s), p # null, \A b \in Range(s) : b # p => g[b] = f[b]
  PROVE  /\ s # << >> /\ p = Head(s) /\ p \in S /\ Tail(s) \in Seq(S)
         /\ Range(s) = Range(Tail(s)) \union {p} /\ p \notin Range(Tail(s))
         /\ Len(Tail(s)) = Len(s) - 1
         /\ Distinct(Tail(s)) /\ RunsFrom(Tail(s), f[p], g, null)
<1> DEFINE r == Tail(s)
<1>1. s # << >> /\ p = Head(s)
  <2>1. Len(s) \in Nat /\ (Len(s) = 0 <=> s = << >>)
    BY EmptySeq
  <2>2. 1 <= Len(s) /\ p = s[1]
    BY DEF RunsFrom, NodeAt
  <2>3. QED
    BY <2>1, <2>2
<1>2. /\ p \in S /\ r \in Seq(S) /\ Range(s) = Range(r) \union {p}
      /\ Distinct(r) /\ p \notin Range(r)
  BY <1>1, ListRest
<1>3. /\ Len(s) \in Nat \ {0} /\ Len(r) = Len(s) - 1
      /\ \A i \in 1..Len(r) : r[i] = s[i + 1] /\ r[i] \in Range(r)
  <2>1. Len(s) \in Nat \ {0}
    BY <1>1, EmptySeq
  <2>2. Len(r) = Len(s) - 1 /\ \A i \in 1..Len(r) : r[i] = s[i + 1]
    BY <1>1, HeadTailProperties
  <2>3. \A i \in 1..Len(r) : r[i] \in Range(r)
    <3>1. r \in Seq(S)
      BY <1>2
    <3> HIDE DEF r
    <3>2. QED
      BY <3>1, RangeEquality
  <2>4. QED
    BY <2>1, <2>2, <2>3
<1>4. f[p] = NodeAt(r, 1, null)
  <2>1. f[s[1]] = NodeAt(s, 2, null) /\ s[1] = p
    BY <1>1, <1>3 DEF RunsFrom
  <2>2. NodeAt(s, 2, null) = NodeAt(r, 1, null)
    BY <1>3 DEF NodeAt
  <2>3. QED
    BY <2>1, <2>2
<1>5. ASSUME NEW i \in 1..Len(r) PROVE g[r[i]] = NodeAt(r, i + 1, null)
  <2>1. g[r[i]] = f[s[i + 1]]
    <3>1. r[i] \in Range(s) /\ r[i] # p /\ r[i] = s[i + 1]
      BY <1>2, <1>3
    <3>2. QED
      BY <3>1
  <2>2. i + 1 \in 1..Len(s)
    BY <1>3
  <2>3. f[s[i + 1]] = NodeAt(s, i + 2, null)
    BY <2>2, <1>3 DEF RunsFrom
  <2>4. NodeAt(s, i + 2, null) = NodeAt(r, i + 1, null)
    BY <1>3 DEF NodeAt
  <2>5. QED
    BY <2>1, <2>3, <2>4
<1>6. QED
  BY <1>1, <1>2, <1>3, <1>4, <1>5 DEF RunsFrom

\* A node is put first.
LEMMA RunAdd ==
  ASSUME NEW S, NEW s \in Seq(S), NEW p, NEW null, NEW f, NEW g, RunsFrom(s, p, f, null),
         Distinct(s), NEW b \in S, b \notin Range(s), g[b] = p, \A d \in Range(s) : g[d] = f[d]
  PROVE  /\ <<b>> \o s \in Seq(S) /\ Range(<<b>> \o s) = Range(s) \union {b}
         /\ Len(<<b>> \o s) = Len(s) + 1
         /\ Distinct(<<b>> \o s) /\ RunsFrom(<<b>> \o s, b, g, null)
<1> DEFINE r == <<b>> \o s
<1>1. r \in Seq(S) /\ Range(r) = Range(s) \union {b} /\ Distinct(r)
  BY ListAdd
<1>2. /\ Len(s) \in Nat /\ Len(r) = Len(s) + 1 /\ r[1] = b
      /\ \A i \in 1..Len(s) : r[i + 1] = s[i] /\ s[i] \in Range(s)
  BY RangeEquality
<1>3. b = NodeAt(r, 1, null)
  BY <1>2 DEF NodeAt
<1>4. ASSUME NEW i \in 1..Len(r) PROVE g[r[i]] = NodeAt(r, i + 1, null)
  <2>1. CASE i = 1
    <3>1. NodeAt(s, 1, null) = NodeAt(r, 2, null)
      BY <1>2 DEF NodeAt
    <3>2. QED
      BY <1>2, <2>1, <3>1 DEF RunsFrom
  <2>2. CASE i # 1
    <3>1. i - 1 \in 1..Len(s) /\ r[i] = s[i - 1] /\ s[i - 1] \in Range(s)
      <4>1. i - 1 \in 1..Len(s)
        BY <1>2, <2>2
      <4>2. r[(i - 1) + 1] = s[i - 1] /\ s[i - 1] \in Range(s)
        BY <1>2, <4>1
      <4>3. QED
        BY <4>1, <4>2
    <3>2. f[s[i - 1]] = NodeAt(s, i, null)
      <4>1. f[s[i - 1]] = NodeAt(s, (i - 1) + 1, null)
        BY <3>1 DEF RunsFrom
      <4>2. QED
        BY <4>1
    <3>3. NodeAt(s, i, null) = NodeAt(r, i + 1, null)
      BY <1>2, <2>2 DEF NodeAt
    <3>4. QED
      BY <3>1, <3>2, <3>3
  <2>3. QED
    BY <2>1, <2>2
<1>5. QED
  BY <1>1, <1>2, <1>3, <1>4 DEF RunsFrom

\* The nodes that N links from p reach: in the n-th step, the first n links.
Reaches(g, p, link, S, N) ==
  g = [n \in 0..N |-> IF n = 0 THEN {p} ELSE g[n - 1] \union {link[b] : b \in g[n - 1] \intersect S}]
FirstNodes(s, n, null) == {NodeAt(s, i, null) : i \in 1..(n + 1)}

LEMMA FirstNext ==
  ASSUME NEW S, NEW s \in Seq(S), NEW p, NEW null, null \notin S, NEW f, RunsFrom(s, p, f, null),
         NEW n \in Nat \ {0}
  PROVE  FirstNodes(s, n, null)
           = FirstNodes(s, n - 1, null) \union {f[b] : b \in FirstNodes(s, n - 1, null) \intersect S}
<1> DEFINE before == FirstNodes(s, n - 1, null)
<1>1. Len(s) \in Nat /\ \A i \in 1..Len(s) : s[i] \in S
  OBVIOUS
<1>2. \A i \in Nat \ {0} : NodeAt(s, i, null) \in S <=> i <= Len(s)
  BY <1>1 DEF NodeAt
<1>3. FirstNodes(s, n, null) = before \union {NodeAt(s, n + 1, null)}
  BY DEF FirstNodes
<1>4. {f[b] : b \in before \intersect S} \subseteq FirstNodes(s, n, null)
  <2>1. SUFFICES ASSUME NEW i \in 1..n, NodeAt(s, i, null) \in S
                 PROVE  f[NodeAt(s, i, null)] \in FirstNodes(s, n, null)
    BY DEF FirstNodes
  <2>2. i \in 1..Len(s) /\ NodeAt(s, i, null) = s[i]
    BY <1>1, <1>2, <2>1 DEF NodeAt
  <2>3. f[NodeAt(s, i, null)] = NodeAt(s, i + 1, null) /\ i + 1 \in 1..(n + 1)
    BY <2>2 DEF RunsFrom
  <2>4. QED
    BY <2>3 DEF FirstNodes
<1>5. NodeAt(s, n + 1, null) \in before \union {f[b] : b \in before \intersect S}
  <2>1. n \in 1..n /\ NodeAt(s, n, null) \in before
    BY DEF FirstNodes
  <2>2. CASE n <= Len(s)
    <3>1. NodeAt(s, n, null) \in S /\ NodeAt(s, n, null) = s[n] /\ n \in 1..Len(s)
      BY <1>1, <1>2, <2>2 DEF NodeAt
    <3>2. f[NodeAt(s, n, null)] = NodeAt(s, n + 1, null)
      BY <3>1 DEF RunsFrom
    <3>3. QED
      BY <2>1, <3>1, <3>2
  <2>3. CASE ~ (n <= Len(s))
    <3>1. NodeAt(s, n, null) = NodeAt(s, n + 1, null)
      BY <1>1, <2>3 DEF NodeAt
    <3>2. QED
      BY <2>1, <3>1
  <2>4. QED
    BY <2>2, <2>3
<1>6. QED
  BY <1>3, <1>4, <1>5

\* What N links from p reach in S is the list s.
ReachesList(s, p, f, S, N) ==
  /\ \E g : Reaches(g, p, f, S, N)
  /\ \A g : Reaches(g, p, f, S, N) => g[N] \intersect S = Range(s)

\* Enough links reach the nodes of the list, and no others.
LEMMA LinksReach ==
  ASSUME NEW S, NEW s \in Seq(S), NEW p, NEW null, null \notin S, NEW f, RunsFrom(s, p, f, null),
         NEW N \in Nat, Len(s) <= N
  PROVE  ReachesList(s, p, f, S, N)
<1> DEFINE A(n) == FirstNodes(s, n, null)
<1>1. Len(s) \in Nat
  OBVIOUS
<1>2. A(0) = {p}
  BY DEF FirstNodes, RunsFrom
<1> HIDE DEF A
<1>3. \A n \in Nat \ {0} : A(n) = A(n - 1) \union {f[b] : b \in A(n - 1) \intersect S}
  BY FirstNext DEF A
<1>4. Reaches([n \in 0..N |-> A(n)], p, f, S, N)
  <2> DEFINE g == [n \in 0..N |-> A(n)]
  <2>1. ASSUME NEW n \in 0..N
        PROVE  g[n] = IF n = 0 THEN {p} ELSE g[n - 1] \union {f[b] : b \in g[n - 1] \intersect S}
    <3>1. CASE n = 0
      BY <1>2, <3>1
    <3>2. CASE n # 0
      <4>1. n - 1 \in 0..N /\ n \in Nat \ {0}
        BY <3>2
      <4>2. g[n] = A(n) /\ g[n - 1] = A(n - 1)
        BY <4>1
      <4>3. QED
        BY <3>2, <4>1, <4>2, <1>3
    <3>3. QED
      BY <3>1, <3>2
  <2>2. QED
    BY <2>1 DEF Reaches
<1>5. ASSUME NEW g, Reaches(g, p, f, S, N) PROVE g[N] = A(N)
  <2> DEFINE T == {n \in 0..N : g[n] # A(n)}
  <2>1. \A n \in 0..N : g[n] = IF n = 0 THEN {p}
                               ELSE g[n - 1] \union {f[b] : b \in g[n - 1] \intersect S}
    BY <1>5 DEF Reaches
  <2>2. SUFFICES ASSUME T # {} PROVE FALSE
    OBVIOUS
  <2>3. PICK n \in T : \A m \in T : ~ (m < n)
    <3>1. T \in SUBSET Nat
      OBVIOUS
    <3> HIDE DEF T
    <3>2. QED
      BY <2>2, <3>1, Least
  <2>4. n \in 0..N /\ g[n] # A(n) /\ n # 0
    BY <1>2, <2>1
  <2>5. n - 1 \in 0..N /\ n \in Nat \ {0} /\ g[n - 1] = A(n - 1)
    <3>1. n - 1 \in 0..N /\ n \in Nat \ {0} /\ n - 1 < n
      BY <2>4
    <3>2. n - 1 \notin T
      BY <2>3, <3>1
    <3>3. QED
      BY <3>1, <3>2
  <2>6. g[n] = A(n)
    BY <2>1, <2>4, <2>5, <1>3
  <2>7. QED
    BY <2>4, <2>6
<1>6. A(N) \intersect S = Range(s)
  <2>1. Range(s) = {s[i] : i \in 1..Len(s)} /\ \A i \in 1..Len(s) : s[i] \in S
    BY RangeEquality
  <2>2. Range(s) \subseteq A(N) \intersect S
    BY <1>1, <2>1 DEF A, FirstNodes, NodeAt
  <2>3. ASSUME NEW i \in 1..(N + 1), NodeAt(s, i, null) \in S PROVE NodeAt(s, i, null) \in Range(s)
    BY <1>1, <2>1, <2>3 DEF NodeAt
  <2>4. QED
    BY <2>2, <2>3 DEF A, FirstNodes
<1>7. QED
  BY <1>4, <1>5, <1>6, Zenon DEF ReachesList

-----------------------------------------------------------------------------
(* Sums. *)

Total(f) == FoldFunction(+, 0, f)

\* The element that the fold takes from a set, and the sums it goes through.
Pick(s) == CHOOSE x \in s : TRUE
Sums(sum, f) == sum = [s \in SUBSET DOMAIN f |->
                         IF s = {} THEN 0 ELSE f[Pick(s)] + sum[s \ {Pick(s)}]]

LEMMA Picked ==
  ASSUME NEW S, IsFiniteSet(S), NEW s \in SUBSET S, s # {}
  PROVE  /\ Pick(s) \in s /\ s \ {Pick(s)} \in SUBSET S
         /\ IsFiniteSet(s) /\ Cardinality(s) \in Nat /\ Cardinality(s \ {Pick(s)}) \in Nat
         /\ Cardinality(s \ {Pick(s)}) = Cardinality(s) - 1
         /\ Cardinality(s) <= Cardinality(S)
<1>1. Pick(s) \in s /\ s \ {Pick(s)} \in SUBSET S
  BY DEF Pick
<1>2. IsFiniteSet(s) /\ Cardinality(s) \in Nat /\ Cardinality(s) <= Cardinality(S)
  BY FS_Subset, FS_CardinalityType
<1>3. IsFiniteSet(s \ {Pick(s)}) /\ Cardinality(s \ {Pick(s)}) = Cardinality(s) - 1
  BY <1>1, <1>2, FS_RemoveElement
<1>4. QED
  BY <1>1, <1>2, <1>3, FS_CardinalityType

\* What holds of the empty set, and of a set if it holds of the rest of it,
\* holds of every subset.
LEMMA SubsetInduction ==
  ASSUME NEW S, IsFiniteSet(S), NEW T \in SUBSET SUBSET S, {} \in T,
         \A s \in SUBSET S : s # {} /\ s \ {Pick(s)} \in T => s \in T
  PROVE  T = SUBSET S
<1> DEFINE U == {n \in Nat : \E s \in SUBSET S : s \notin T /\ Cardinality(s) = n}
<1>1. SUFFICES ASSUME NEW r \in SUBSET S, r \notin T PROVE FALSE
  OBVIOUS
<1>2. Cardinality(r) \in U
  BY <1>1, Picked
<1>3. PICK n \in U : \A m \in U : ~ (m < n)
  <2>1. U \in SUBSET Nat /\ U # {}
    BY <1>2
  <2> HIDE DEF U
  <2>2. QED
    BY <2>1, Least
<1>4. PICK s \in SUBSET S : s \notin T /\ Cardinality(s) = n
  OBVIOUS
<1>5. s # {} /\ s \ {Pick(s)} \notin T
  BY <1>4
<1>6. /\ s \ {Pick(s)} \in SUBSET S /\ Cardinality(s \ {Pick(s)}) \in Nat
      /\ Cardinality(s \ {Pick(s)}) = Cardinality(s) - 1
  BY <1>5, Picked
<1>7. n - 1 \in Nat /\ n - 1 = Cardinality(s \ {Pick(s)})
  BY <1>4, <1>6
<1>8. n - 1 \in U
  BY <1>5, <1>6, <1>7
<1>9. ~ (n - 1 < n)
  BY <1>3, <1>8
<1> HIDE DEF U
<1>10. n \in Int
  BY <1>7, <1>4, <1>2, <1>3 DEF U
<1>11. QED
  BY <1>9, <1>10

LEMMA SumsExist ==
  ASSUME NEW f, IsFiniteSet(DOMAIN f)
  PROVE  \E sum : Sums(sum, f)
<1> DEFINE S == DOMAIN f
           Upto(n) == {s \in SUBSET S : Cardinality(s) <= n}
           Partial(sum, n) == \A s \in Upto(n) :
             sum[s] = IF s = {} THEN 0 ELSE f[Pick(s)] + sum[s \ {Pick(s)}]
           T == {n \in Nat : \E sum : Partial(sum, n)}
           U == Nat \ T
<1>1. \A s \in SUBSET S : Cardinality(s) \in Nat /\ Cardinality(s) <= Cardinality(S)
  BY FS_Subset, FS_CardinalityType
<1>2. 0 \in T
  <2> DEFINE sum == [s \in SUBSET S |-> 0]
  <2>1. ASSUME NEW s \in Upto(0), s # {} PROVE FALSE
    <3>1. Cardinality(s \ {Pick(s)}) \in Nat /\ Cardinality(s \ {Pick(s)}) = Cardinality(s) - 1
      BY <2>1, Picked
    <3>2. QED
      BY <2>1, <3>1, <1>1
  <2>2. Partial(sum, 0)
    BY <2>1
  <2>3. QED
    BY <2>2
<1>3. ASSUME NEW n \in T PROVE n + 1 \in T
  <2>1. PICK sum : Partial(sum, n)
    OBVIOUS
  <2> DEFINE more == [s \in SUBSET S |->
                        IF Cardinality(s) <= n THEN sum[s] ELSE f[Pick(s)] + sum[s \ {Pick(s)}]]
  <2>2. ASSUME NEW s \in Upto(n + 1)
        PROVE  more[s] = IF s = {} THEN 0 ELSE f[Pick(s)] + more[s \ {Pick(s)}]
    <3>1. CASE s = {}
      <4>1. Cardinality(s) = 0 /\ 0 <= n
        BY <3>1, FS_EmptySet
      <4>2. QED
        BY <2>1, <3>1, <4>1
    <3>2. CASE s # {}
      <4>1. /\ s \ {Pick(s)} \in SUBSET S /\ Cardinality(s \ {Pick(s)}) <= n
            /\ Cardinality(s) \in Nat
        BY <2>2, <3>2, Picked
      <4>2. more[s \ {Pick(s)}] = sum[s \ {Pick(s)}]
        BY <4>1
      <4>3. Cardinality(s) <= n => sum[s] = f[Pick(s)] + sum[s \ {Pick(s)}]
        BY <2>1, <2>2, <3>2
      <4>4. more[s] = f[Pick(s)] + sum[s \ {Pick(s)}]
        BY <2>2, <4>3
      <4>5. QED
        BY <3>2, <4>2, <4>4
    <3>3. QED
      BY <3>1, <3>2
  <2> HIDE DEF more
  <2>3. Partial(more, n + 1)
    BY <2>2
  <2>4. n + 1 \in Nat /\ \E m : Partial(m, n + 1)
    <3>1. n + 1 \in Nat
      OBVIOUS
    <3> HIDE DEF Partial
    <3>2. QED
      BY <2>3, <3>1
  <2>5. QED
    BY <2>4
<1>4. T = Nat
  <2>1. SUFFICES ASSUME U # {} PROVE FALSE
    OBVIOUS
  <2>2. PICK n \in U : \A m \in U : ~ (m < n)
    <3>1. U \in SUBSET Nat
      OBVIOUS
    <3> HIDE DEF U
    <3>2. QED
      BY <2>1, <3>1, Least
  <2> HIDE DEF T
  <2>3. n \in Nat /\ n \notin T /\ n # 0
    BY <1>2
  <2>4. n - 1 \in Nat /\ n - 1 \in T /\ (n - 1) + 1 = n
    BY <2>2, <2>3
  <2>5. QED
    BY <1>3, <2>3, <2>4
<1>5. PICK sum : Partial(sum, Cardinality(S))
  <2>1. Cardinality(S) \in T
    BY <1>4, FS_CardinalityType
  <2>2. QED
    BY <2>1
<1>6. Upto(Cardinality(S)) = SUBSET S
  BY <1>1
<1> DEFINE all == [s \in SUBSET S |-> sum[s]]
<1>7. \A s \in SUBSET S : all[s] = IF s = {} THEN 0 ELSE f[Pick(s)] + all[s \ {Pick(s)}]
  <2>1. \A s \in SUBSET S : s \ {Pick(s)} \in SUBSET S
    OBVIOUS
  <2>2. QED
    BY <1>5, <1>6, <2>1
<1>8. Sums(all, f)
  BY <1>7 DEF Sums
<1>9. QED
  BY <1>8

\* The fold is well defined.
LEMMA TotalSums ==
  ASSUME NEW f, IsFiniteSet(DOMAIN f)
  PROVE  \E sum : Sums(sum, f) /\ Total(f) = sum[DOMAIN f]
<1>1. \E sum : Sums(sum, f)
  BY SumsExist
<1>2. QED
  BY <1>1, Zenon DEF Sums, Total, FoldFunction, FoldFunctionOnSet, MapThenFoldSet, Pick

LEMMA SumsType ==
  ASSUME NEW S, IsFiniteSet(S), NEW f \in [S -> Int], NEW sum, Sums(sum, f)
  PROVE  \A s \in SUBSET S : sum[s] \in Int
<1> DEFINE T == {s \in SUBSET S : sum[s] \in Int}
<1>1. /\ sum[{}] = 0 /\ \A s \in SUBSET S : s # {} => sum[s] = f[Pick(s)] + sum[s \ {Pick(s)}]
  BY DEF Sums
<1>2. {} \in T
  BY <1>1
<1>3. ASSUME NEW s \in SUBSET S, s # {}, s \ {Pick(s)} \in T PROVE s \in T
  <2>1. f[Pick(s)] \in Int
    BY <1>3, Picked
  <2>2. sum[s] = f[Pick(s)] + sum[s \ {Pick(s)}]
    BY <1>1, <1>3
  <2>3. QED
    BY <1>3, <2>1, <2>2
<1>4. T \in SUBSET SUBSET S
  OBVIOUS
<1> HIDE DEF T
<1>5. T = SUBSET S
  BY <1>2, <1>3, <1>4, SubsetInduction
<1>6. QED
  BY <1>5 DEF T

\* Any element may be taken out of a sum first.
LEMMA SumsTake ==
  ASSUME NEW S, IsFiniteSet(S), NEW f \in [S -> Int], NEW sum, Sums(sum, f),
         NEW r \in SUBSET S, NEW a \in r
  PROVE  sum[r] = f[a] + sum[r \ {a}]
<1>1. /\ \A s \in SUBSET S : sum[s] \in Int
      /\ \A s \in SUBSET S : s # {} => sum[s] = f[Pick(s)] + sum[s \ {Pick(s)}]
  BY SumsType DEF Sums
<1> DEFINE U == {n \in Nat : \E s \in SUBSET S : Cardinality(s) = n
                               /\ \E x \in s : sum[s] # f[x] + sum[s \ {x}]}
<1>2. SUFFICES ASSUME sum[r] # f[a] + sum[r \ {a}] PROVE FALSE
  OBVIOUS
<1>3. Cardinality(r) \in U
  BY <1>2, Picked
<1>4. PICK n \in U : \A m \in U : ~ (m < n)
  <2>1. U \in SUBSET Nat /\ U # {}
    BY <1>3
  <2> HIDE DEF U
  <2>2. QED
    BY <2>1, Least
<1>5. PICK s \in SUBSET S : Cardinality(s) = n /\ \E x \in s : sum[s] # f[x] + sum[s \ {x}]
  OBVIOUS
<1>5a. PICK x \in s : sum[s] # f[x] + sum[s \ {x}]
  BY <1>5
<1> DEFINE y == Pick(s)
<1>6. y \in s /\ IsFiniteSet(s) /\ n \in Nat /\ sum[s] = f[y] + sum[s \ {y}]
  BY <1>1, <1>5, Picked
<1> HIDE DEF y
<1>7. x # y
  BY <1>5a, <1>6
\* One element less: the sum may begin with any.
<1>8. ASSUME NEW z \in s, NEW v \in s \ {z} PROVE sum[s \ {z}] = f[v] + sum[(s \ {z}) \ {v}]
  <2>1. s \ {z} \in SUBSET S /\ Cardinality(s \ {z}) = n - 1 /\ n - 1 \in Nat /\ n - 1 < n
    <3>1. Cardinality(s \ {z}) = n - 1 /\ Cardinality(s \ {z}) \in Nat
      BY <1>5, <1>6, FS_RemoveElement, FS_CardinalityType
    <3>2. QED
      BY <1>6, <3>1
  <2>2. n - 1 \notin U
    BY <1>4, <2>1
  <2>3. QED
    BY <2>1, <2>2
<1>9. (s \ {x}) \ {y} = (s \ {y}) \ {x}
  OBVIOUS
<1>10. sum[s \ {y}] = f[x] + sum[(s \ {y}) \ {x}] /\ sum[s \ {x}] = f[y] + sum[(s \ {y}) \ {x}]
  BY <1>6, <1>7, <1>8, <1>9
<1>11. f[x] \in Int /\ f[y] \in Int /\ sum[(s \ {y}) \ {x}] \in Int
  BY <1>1, <1>6
<1>12. QED
  BY <1>5a, <1>6, <1>10, <1>11

LEMMA TotalType ==
  ASSUME NEW S, IsFiniteSet(S), NEW f \in [S -> Int]
  PROVE  Total(f) \in Int
<1>1. PICK sum : Sums(sum, f) /\ Total(f) = sum[S]
  BY TotalSums
<1>2. QED
  BY <1>1, SumsType

LEMMA TotalZero ==
  ASSUME NEW S, IsFiniteSet(S), NEW f \in [S -> Int], \A x \in S : f[x] = 0
  PROVE  Total(f) = 0
<1>1. PICK sum : Sums(sum, f) /\ Total(f) = sum[S]
  BY TotalSums
<1> DEFINE T == {s \in SUBSET S : sum[s] = 0}
<1>2. /\ sum[{}] = 0 /\ \A s \in SUBSET S : s # {} => sum[s] = f[Pick(s)] + sum[s \ {Pick(s)}]
  BY <1>1 DEF Sums
<1>3. {} \in T
  BY <1>2
<1>4. ASSUME NEW s \in SUBSET S, s # {}, s \ {Pick(s)} \in T PROVE s \in T
  <2>1. f[Pick(s)] = 0
    BY <1>4, Picked
  <2>2. sum[s] = f[Pick(s)] + sum[s \ {Pick(s)}]
    BY <1>2, <1>4
  <2>3. QED
    BY <1>4, <2>1, <2>2
<1>5. T \in SUBSET SUBSET S
  OBVIOUS
<1> HIDE DEF T
<1>6. T = SUBSET S
  BY <1>3, <1>4, <1>5, SubsetInduction
<1>7. QED
  BY <1>1, <1>6 DEF T

\* A function that is one more than another on a set of arguments, and equal to
\* it elsewhere.
LEMMA TotalMore ==
  ASSUME NEW S, IsFiniteSet(S), NEW f \in [S -> Int], NEW g \in [S -> Int],
         NEW D \in SUBSET S, \A x \in D : f[x] = g[x] + 1, \A x \in S \ D : f[x] = g[x]
  PROVE  Total(f) = Total(g) + Cardinality(D)
<1>1. PICK sum : Sums(sum, f) /\ Total(f) = sum[S]
  BY TotalSums
<1>2. PICK other : Sums(other, g) /\ Total(g) = other[S]
  BY TotalSums
<1> DEFINE T == {s \in SUBSET S : sum[s] = other[s] + Cardinality(D \intersect s)}
<1>3. /\ sum[{}] = 0 /\ \A s \in SUBSET S : s # {} => sum[s] = f[Pick(s)] + sum[s \ {Pick(s)}]
      /\ other[{}] = 0 /\ \A s \in SUBSET S : s # {} => other[s] = g[Pick(s)] + other[s \ {Pick(s)}]
  BY <1>1, <1>2 DEF Sums
<1>4. \A s \in SUBSET S : sum[s] \in Int /\ other[s] \in Int
  BY <1>1, <1>2, SumsType
<1>5. {} \in T
  <2>1. D \intersect {} = {} /\ Cardinality({}) = 0
    BY FS_EmptySet
  <2>2. QED
    BY <1>3, <2>1
<1>6. ASSUME NEW s \in SUBSET S, s # {}, s \ {Pick(s)} \in T PROVE s \in T
  <2> DEFINE x == Pick(s)
             r == s \ {x}
  <2>1. x \in s /\ x \in S /\ r \in SUBSET S /\ sum[r] = other[r] + Cardinality(D \intersect r)
    BY <1>6, Picked
  <2>2. sum[s] = f[x] + sum[r] /\ other[s] = g[x] + other[r]
    BY <1>3, <1>6
  <2>3. /\ IsFiniteSet(D \intersect r) /\ Cardinality(D \intersect r) \in Int
    BY FS_Subset, FS_CardinalityType
  <2>4. sum[r] \in Int /\ other[r] \in Int /\ f[x] \in Int /\ g[x] \in Int
    BY <1>4, <2>1
  <2>5. CASE x \in D
    <3>1. D \intersect s = (D \intersect r) \union {x} /\ x \notin D \intersect r
      BY <2>1, <2>5
    <3>2. Cardinality(D \intersect s) = Cardinality(D \intersect r) + 1
      BY <2>3, <3>1, FS_AddElement
    <3>3. f[x] = g[x] + 1
      BY <2>5
    <3> HIDE DEF x, r
    <3>4. sum[s] = other[s] + Cardinality(D \intersect s)
      BY <2>1, <2>2, <2>3, <2>4, <3>2, <3>3
    <3>5. QED
      BY <3>4
  <2>6. CASE x \notin D
    <3>1. Cardinality(D \intersect s) = Cardinality(D \intersect r)
      <4>1. D \intersect s = D \intersect r
        BY <2>6
      <4>2. QED
        BY <4>1
    <3>2. f[x] = g[x]
      BY <2>1, <2>6
    <3> HIDE DEF x, r
    <3>3. sum[s] = other[s] + Cardinality(D \intersect s)
      BY <2>1, <2>2, <2>3, <2>4, <3>1, <3>2
    <3>4. QED
      BY <3>3
  <2>7. QED
    BY <2>5, <2>6
<1>7. T \in SUBSET SUBSET S
  OBVIOUS
<1>8. T = SUBSET S
  <2> HIDE DEF T
  <2>1. QED
    BY <1>5, <1>6, <1>7, SubsetInduction
<1>9. D \intersect S = D
  OBVIOUS
<1>10. QED
  BY <1>1, <1>2, <1>8, <1>9

\* Two functions that differ at one argument at most.
LEMMA TotalChange ==
  ASSUME NEW S, IsFiniteSet(S), NEW f \in [S -> Int], NEW g \in [S -> Int],
         NEW a \in S, \A x \in S \ {a} : g[x] = f[x]
  PROVE  Total(g) = Total(f) + (g[a] - f[a])
<1>1. PICK sum : Sums(sum, f) /\ Total(f) = sum[S]
  BY TotalSums
<1>2. PICK other : Sums(other, g) /\ Total(g) = other[S]
  BY TotalSums
<1> DEFINE d(s) == IF a \in s THEN g[a] - f[a] ELSE 0
           T == {s \in SUBSET S : other[s] = sum[s] + d(s)}
<1>3. /\ sum[{}] = 0 /\ \A s \in SUBSET S : s # {} => sum[s] = f[Pick(s)] + sum[s \ {Pick(s)}]
      /\ other[{}] = 0 /\ \A s \in SUBSET S : s # {} => other[s] = g[Pick(s)] + other[s \ {Pick(s)}]
  BY <1>1, <1>2 DEF Sums
<1>4. \A s \in SUBSET S : sum[s] \in Int /\ other[s] \in Int
  BY <1>1, <1>2, SumsType
<1>5. {} \in T
  BY <1>3
<1>6. ASSUME NEW s \in SUBSET S, s # {}, s \ {Pick(s)} \in T PROVE s \in T
  <2> DEFINE x == Pick(s)
             r == s \ {x}
  <2>1. x \in s /\ x \in S /\ r \in SUBSET S /\ other[r] = sum[r] + d(r)
    BY <1>6, Picked
  <2>2. sum[s] = f[x] + sum[r] /\ other[s] = g[x] + other[r]
    BY <1>3, <1>6
  <2>3. sum[r] \in Int /\ other[r] \in Int /\ f[x] \in Int /\ g[x] \in Int /\ d(r) \in Int
    BY <1>4, <2>1
  <2>4. d(s) = d(r) + (g[x] - f[x])
    <3>1. CASE x = a
      BY <2>1, <2>3, <3>1
    <3>2. CASE x # a
      <4>1. g[x] = f[x] /\ (a \in s <=> a \in r)
        BY <2>1, <3>2
      <4>2. d(s) = d(r)
        BY <4>1
      <4> HIDE DEF d
      <4>3. QED
        BY <2>3, <4>1, <4>2
    <3>3. QED
      BY <3>1, <3>2
  <2>5. other[s] = sum[s] + d(s)
    <3> HIDE DEF x, r, d
    <3>1. QED
      BY <2>1, <2>2, <2>3, <2>4
  <2>6. QED
    BY <2>5
<1>7. T \in SUBSET SUBSET S
  OBVIOUS
<1>8. T = SUBSET S
  <2> HIDE DEF T
  <2>1. QED
    BY <1>5, <1>6, <1>7, SubsetInduction
<1>9. QED
  BY <1>1, <1>2, <1>8

-----------------------------------------------------------------------------
(* Sums modulo M. *)

LEMMA ModSplit ==
  ASSUME NEW M \in Nat \ {0}, NEW n \in Int
  PROVE  n \div M \in Int /\ n = M * (n \div M) + (n % M) /\ n % M \in 0..(M - 1)
OBVIOUS

LEMMA DivIs ==
  ASSUME NEW M \in Nat \ {0}, NEW q \in Int, NEW r \in 0..(M - 1)
  PROVE  (M * q + r) \div M = q /\ (M * q + r) % M = r
OBVIOUS

LEMMA ModOfMultiple ==
  ASSUME NEW M \in Nat \ {0}, NEW n \in Int, NEW q \in Int
  PROVE  (M * q + n) % M = n % M
<1> DEFINE d == n \div M
           r == n % M
<1>1. d \in Int /\ n = M * d + r /\ r \in 0..(M - 1)
  BY ModSplit
<1> HIDE DEF d, r
<1>2. M * q + n = M * (q + d) + r /\ q + d \in Int
  BY <1>1
<1>3. \A x \in Int, y \in 0..(M - 1) : (M * x + y) % M = y
  OBVIOUS
<1>4. (M * q + n) % M = r
  BY <1>1, <1>2, <1>3
<1>5. QED
  BY <1>4 DEF r

LEMMA ModEqual ==
  ASSUME NEW M \in Nat \ {0}, NEW m \in Int, NEW n \in Int, m % M = n % M
  PROVE  \E p \in Int : m = M * p + n
<1> DEFINE a == m \div M
           b == n \div M
           r == n % M
<1>1. a \in Int /\ b \in Int /\ m = M * a + r /\ n = M * b + r /\ r \in Int
  BY ModSplit
<1> HIDE DEF a, b, r
<1>2. M * (a - b) = M * a - M * b /\ a - b \in Int /\ M * a \in Int /\ M * b \in Int
  BY <1>1
<1>3. m = M * (a - b) + n
  BY <1>1, <1>2
<1>4. QED
  BY <1>2, <1>3

LEMMA ModSum ==
  ASSUME NEW M \in Nat \ {0}, NEW m \in Int, NEW n \in Int, NEW k \in Int, NEW l \in Int,
         m % M = n % M, k % M = l % M
  PROVE  (m + k) % M = (n + l) % M /\ (m - k) % M = (n - l) % M
<1>1. PICK p \in Int : m = M * p + n
  BY ModEqual
<1>2. PICK q \in Int : k = M * q + l
  BY ModEqual
<1>3. /\ M * (p + q) = M * p + M * q /\ M * (p - q) = M * p - M * q
      /\ M * p \in Int /\ M * q \in Int /\ p + q \in Int /\ p - q \in Int
  OBVIOUS
<1>4. m + k = M * (p + q) + (n + l) /\ m - k = M * (p - q) + (n - l)
  BY <1>1, <1>2, <1>3
<1>5. n + l \in Int /\ n - l \in Int
  OBVIOUS
<1>6. \A x, y \in Int : (M * x + y) % M = y % M
  BY ModOfMultiple
<1>7. (M * (p + q) + (n + l)) % M = (n + l) % M /\ (M * (p - q) + (n - l)) % M = (n - l) % M
  BY <1>3, <1>5, <1>6, Zenon
<1>8. QED
  BY <1>4, <1>7, Zenon
-----------------------------------------------------------------------------
(* Powers of two.  Whatever doubles from one on is called so: two instances *)
(* of Powers are two functions.                                             *)

Doubles(f) == f = [n \in Nat |-> IF n = 0 THEN 1 ELSE 2 * f[n - 1]]

LEMMA DoublingExists == \E f : Doubles(f)
<1> DEFINE Partial(f, n) == \A i \in 0..n : f[i] = IF i = 0 THEN 1 ELSE 2 * f[i - 1]
           T == {n \in Nat : \E f : Partial(f, n)}
           U == Nat \ T
<1>1. 0 \in T
  <2> DEFINE f == [i \in Nat |-> 1]
  <2>1. Partial(f, 0)
    OBVIOUS
  <2> HIDE DEF f
  <2>2. QED
    BY <2>1
<1>2. ASSUME NEW n \in T PROVE n + 1 \in T
  <2>1. PICK f : Partial(f, n)
    OBVIOUS
  <2> DEFINE g == [i \in Nat |-> IF i <= n THEN f[i] ELSE 2 * f[n]]
  <2>2. Partial(g, n + 1)
    BY <2>1
  <2> HIDE DEF g
  <2>3. n + 1 \in Nat /\ \E h : Partial(h, n + 1)
    <3>1. n + 1 \in Nat
      OBVIOUS
    <3> HIDE DEF Partial
    <3>2. QED
      BY <2>2, <3>1
  <2>4. QED
    BY <2>3
<1>3. T = Nat
  <2>1. SUFFICES ASSUME U # {} PROVE FALSE
    OBVIOUS
  <2>2. PICK n \in U : \A m \in U : ~ (m < n)
    <3>1. U \in SUBSET Nat
      OBVIOUS
    <3> HIDE DEF U
    <3>2. QED
      BY <2>1, <3>1, Least
  <2> HIDE DEF T
  <2>3. n \in Nat /\ n \notin T /\ n # 0
    BY <1>1
  <2>4. n - 1 \in Nat /\ n - 1 \in T /\ (n - 1) + 1 = n
    BY <2>2, <2>3
  <2>5. QED
    BY <1>2, <2>3, <2>4
\* All that double up to n agree up to n.
<1>4. ASSUME NEW f, NEW g, NEW n \in Nat, Partial(f, n), Partial(g, n) PROVE f[n] = g[n]
  <2> DEFINE V == {i \in 0..n : f[i] # g[i]}
  <2>1. SUFFICES ASSUME V # {} PROVE FALSE
    OBVIOUS
  <2>2. PICK i \in V : \A m \in V : ~ (m < i)
    <3>1. V \in SUBSET Nat
      OBVIOUS
    <3> HIDE DEF V
    <3>2. QED
      BY <2>1, <3>1, Least
  <2>3. i \in 0..n /\ f[i] # g[i] /\ i # 0
    BY <1>4
  <2>4. i - 1 \in 0..n /\ f[i - 1] = g[i - 1]
    <3>1. i - 1 \in 0..n /\ i - 1 < i
      BY <2>3
    <3>2. QED
      BY <2>2, <3>1
  <2>5. QED
    BY <1>4, <2>3, <2>4
<1> DEFINE at(n) == CHOOSE f : Partial(f, n)
           all == [n \in Nat |-> at(n)[n]]
<1>5. \A n \in Nat : Partial(at(n), n)
  <2>1. \A n \in Nat : \E f : Partial(f, n)
    BY <1>3
  <2> HIDE DEF Partial
  <2>2. QED
    BY <2>1
<1>6. ASSUME NEW n \in Nat PROVE all[n] = IF n = 0 THEN 1 ELSE 2 * all[n - 1]
  <2>1. n = 0 => at(n)[n] = 1
    BY <1>5
  <2>2. ASSUME n # 0 PROVE at(n)[n] = 2 * at(n - 1)[n - 1]
    <3>1. n - 1 \in Nat
      BY <2>2
    <3>2. Partial(at(n), n - 1) /\ at(n)[n] = 2 * at(n)[n - 1]
      <4>1. Partial(at(n), n)
        BY <1>5
      <4> HIDE DEF at
      <4>2. QED
        BY <4>1, <2>2
    <3>3. Partial(at(n - 1), n - 1)
      BY <1>5, <3>1
    <3> HIDE DEF Partial, at
    <3>4. at(n)[n - 1] = at(n - 1)[n - 1]
      BY <1>4, <3>1, <3>2, <3>3
    <3>5. QED
      BY <3>2, <3>4
  <2> HIDE DEF at
  <2>3. QED
    BY <2>1, <2>2
<1>7. Doubles(all)
  <2>1. all = [n \in Nat |-> all[n]]
    OBVIOUS
  <2> HIDE DEF all
  <2>2. QED
    BY <1>6, <2>1 DEF Doubles
<1> HIDE DEF all
<1>8. QED
  BY <1>7

LEMMA Pow2Doubles == Doubles(Pow2)
BY DoublingExists, Zenon DEF Doubles, Pow2
LEMMA DoublingStep ==
  ASSUME NEW f, Doubles(f)
  PROVE  f[0] = 1 /\ \A n \in Nat : f[n] \in Nat \ {0} /\ f[n + 1] = 2 * f[n] /\ n < f[n]
<1>1. f[0] = 1 /\ \A n \in Nat : f[n + 1] = 2 * f[n]
  <2>1. \A n \in Nat : f[n] = IF n = 0 THEN 1 ELSE 2 * f[n - 1]
    BY DEF Doubles
  <2>2. \A n \in Nat : n + 1 \in Nat /\ n + 1 # 0 /\ (n + 1) - 1 = n
    OBVIOUS
  <2>3. QED
    BY <2>1, <2>2
<1> DEFINE U == {n \in Nat : ~ (f[n] \in Nat \ {0} /\ n < f[n])}
<1>2. SUFFICES ASSUME U # {} PROVE FALSE
  BY <1>1
<1>3. PICK n \in U : \A m \in U : ~ (m < n)
  <2>1. U \in SUBSET Nat
    OBVIOUS
  <2> HIDE DEF U
  <2>2. QED
    BY <1>2, <2>1, Least
<1>4. n \in Nat /\ n # 0
  BY <1>1
<1>5. n - 1 \in Nat /\ f[n - 1] \in Nat \ {0} /\ n - 1 < f[n - 1]
  BY <1>3, <1>4
<1>6. f[n] = 2 * f[n - 1]
  <2>1. f[(n - 1) + 1] = 2 * f[n - 1] /\ (n - 1) + 1 = n
    BY <1>1, <1>4, <1>5
  <2>2. QED
    BY <2>1
<1>7. QED
  BY <1>3, <1>4, <1>5, <1>6

LEMMA DoublingSum ==
  ASSUME NEW f, Doubles(f), NEW m \in Nat, NEW n \in Nat
  PROVE  f[m + n] = f[m] * f[n]
<1>1. f[0] = 1 /\ \A k \in Nat : f[k] \in Nat \ {0} /\ f[k + 1] = 2 * f[k]
  BY DoublingStep
<1> DEFINE U == {k \in Nat : f[m + k] # f[m] * f[k]}
<1>2. SUFFICES ASSUME U # {} PROVE FALSE
  OBVIOUS
<1>3. PICK k \in U : \A l \in U : ~ (l < k)
  <2>1. U \in SUBSET Nat
    OBVIOUS
  <2> HIDE DEF U
  <2>2. QED
    BY <1>2, <2>1, Least
<1>4. k \in Nat /\ k # 0
  <2>1. f[m] * 1 = f[m] /\ m + 0 = m
    BY <1>1
  <2>2. QED
    BY <1>1, <2>1
<1>5. k - 1 \in Nat /\ f[m + (k - 1)] = f[m] * f[k - 1]
  BY <1>3, <1>4
<1>6. f[k] = 2 * f[k - 1] /\ f[m + k] = 2 * f[m + (k - 1)]
  <2>1. (k - 1) + 1 = k /\ (m + (k - 1)) + 1 = m + k /\ m + (k - 1) \in Nat
    BY <1>4, <1>5
  <2>2. QED
    BY <1>1, <1>5, <2>1
<1>7. \A a, b \in Nat : 2 * (a * b) = a * (2 * b)
  OBVIOUS
<1>8. f[m + k] = f[m] * f[k]
  BY <1>1, <1>5, <1>6, <1>7
<1>9. QED
  BY <1>3, <1>8

LEMMA DoublingGrows ==
  ASSUME NEW f, Doubles(f), NEW m \in Nat, NEW n \in Nat, m < n
  PROVE  2 * f[m] <= f[n]
<1>1. n - m - 1 \in Nat /\ (m + 1) + (n - m - 1) = n /\ m + 1 \in Nat
  OBVIOUS
<1>2. f[n] = f[m + 1] * f[n - m - 1]
  <2>1. f[(m + 1) + (n - m - 1)] = f[m + 1] * f[n - m - 1]
    BY <1>1, DoublingSum
  <2>2. QED
    BY <1>1, <2>1
<1>3. f[m + 1] = 2 * f[m] /\ f[m + 1] \in Nat \ {0} /\ f[n - m - 1] \in Nat \ {0}
  BY <1>1, DoublingStep
<1>4. \A a, b \in Nat \ {0} : a <= a * b
  OBVIOUS
<1>5. QED
  BY <1>2, <1>3, <1>4
=============================================================================
