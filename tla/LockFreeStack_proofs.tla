----------------------- MODULE LockFreeStack_proofs ------------------------
(***************************************************************************)
(* Proofs about LockFreeStack, for any number of threads and nodes and any *)
(* bound on the aba counter.                                               *)
(***************************************************************************)
EXTENDS LockFreeStack, TLAPS

-----------------------------------------------------------------------------
(* Sequences: taking the first element off, and putting one in front. *)

\* Tail drops the first element and keeps the others in order.
LEMMA TailFacts ==
  ASSUME NEW S, NEW s \in Seq(S), s # << >>
  PROVE  /\ Tail(s) \in Seq(S)
         /\ Len(s) \in Nat \ {0}
         /\ Len(Tail(s)) = Len(s) - 1
         /\ \A i \in 1..Len(Tail(s)) : Tail(s)[i] = s[i + 1]
         /\ s[1] \in S
         /\ Range(s) = {s[1]} \union Range(Tail(s))
<1>1. /\ Tail(s) \in Seq(S)
      /\ Len(s) \in Nat \ {0}
      /\ Len(Tail(s)) = Len(s) - 1
      /\ \A i \in 1..Len(Tail(s)) : Tail(s)[i] = s[i + 1]
      /\ s[1] \in S
  OBVIOUS
<1>2. DOMAIN s = 1..Len(s) /\ DOMAIN Tail(s) = 1..Len(Tail(s))
  BY <1>1
<1>3. ASSUME NEW x \in Range(s) PROVE x \in {s[1]} \union Range(Tail(s))
  <2>1. PICK i \in 1..Len(s) : x = s[i]
    BY <1>2, <1>3 DEF Range
  <2>2. CASE i = 1
    BY <2>1, <2>2
  <2>3. CASE i # 1
    <3>1. i - 1 \in 1..Len(Tail(s)) /\ Tail(s)[i - 1] = s[i]
      BY <1>1, <2>1, <2>3
    <3>2. QED
      BY <1>2, <2>1, <3>1 DEF Range
  <2>4. QED
    BY <2>2, <2>3
<1>4. ASSUME NEW x \in {s[1]} \union Range(Tail(s)) PROVE x \in Range(s)
  <2>1. CASE x = s[1]
    BY <1>1, <1>2, <2>1 DEF Range
  <2>2. CASE x \in Range(Tail(s))
    <3>1. PICK i \in 1..Len(Tail(s)) : x = Tail(s)[i]
      BY <1>2, <2>2 DEF Range
    <3>2. i + 1 \in 1..Len(s) /\ x = s[i + 1]
      BY <1>1, <3>1
    <3>3. QED
      BY <1>2, <3>2 DEF Range
  <2>3. QED
    BY <1>4, <2>1, <2>2
<1>5. QED
  BY <1>1, <1>3, <1>4

\* Putting n in front of s.
LEMMA ConsFacts ==
  ASSUME NEW S, NEW s \in Seq(S), NEW n \in S
  PROVE  /\ <<n>> \o s \in Seq(S)
         /\ Len(<<n>> \o s) = Len(s) + 1
         /\ (<<n>> \o s)[1] = n
         /\ \A i \in 1..Len(s) : (<<n>> \o s)[i + 1] = s[i]
         /\ Range(<<n>> \o s) = {n} \union Range(s)
<1> DEFINE r == <<n>> \o s
<1>1. /\ r \in Seq(S)
      /\ Len(r) = Len(s) + 1
      /\ r[1] = n
      /\ \A i \in 1..Len(s) : r[i + 1] = s[i]
  OBVIOUS
<1>2. /\ r # << >>
      /\ Len(Tail(r)) = Len(s)
      /\ \A i \in 1..Len(s) : Tail(r)[i] = s[i]
  BY <1>1
<1>3. Tail(r) = s
  BY <1>1, <1>2
<1>4. Range(r) = {n} \union Range(s)
  BY <1>1, <1>2, <1>3, TailFacts
<1>5. QED
  BY <1>1, <1>4

\* In a list without repetitions the first element is not found again.
LEMMA TailInjective ==
  ASSUME NEW S, NEW s \in Seq(S), s # << >>, IsInjective(s)
  PROVE  IsInjective(Tail(s)) /\ s[1] \notin Range(Tail(s))
<1>1. /\ DOMAIN s = 1..Len(s) /\ DOMAIN Tail(s) = 1..(Len(s) - 1)
      /\ Len(s) \in Nat \ {0}
      /\ \A i \in 1..(Len(s) - 1) : Tail(s)[i] = s[i + 1]
  BY TailFacts
<1>2. \A i, j \in 1..Len(s) : s[i] = s[j] => i = j
  BY <1>1 DEF IsInjective
<1>3. IsInjective(Tail(s))
  <2>1. ASSUME NEW i \in 1..(Len(s) - 1), NEW j \in 1..(Len(s) - 1),
               Tail(s)[i] = Tail(s)[j]
        PROVE  i = j
    <3>1. s[i + 1] = s[j + 1] /\ i + 1 \in 1..Len(s) /\ j + 1 \in 1..Len(s)
      BY <1>1, <2>1
    <3>2. QED
      BY <1>2, <3>1
  <2>2. QED
    BY <1>1, <2>1 DEF IsInjective
<1>4. ASSUME s[1] \in Range(Tail(s)) PROVE FALSE
  <2>1. PICK i \in 1..(Len(s) - 1) : s[1] = Tail(s)[i]
    BY <1>1, <1>4 DEF Range
  <2>2. s[1] = s[i + 1] /\ i + 1 \in 1..Len(s) /\ 1 \in 1..Len(s)
    BY <1>1, <2>1
  <2>3. QED
    BY <1>2, <2>1, <2>2
<1>5. QED
  BY <1>3, <1>4

\* A new element in front keeps a list free of repetitions.
LEMMA ConsInjective ==
  ASSUME NEW S, NEW s \in Seq(S), NEW n \in S, IsInjective(s), n \notin Range(s)
  PROVE  IsInjective(<<n>> \o s)
<1> DEFINE r == <<n>> \o s
<1>1. /\ DOMAIN s = 1..Len(s) /\ DOMAIN r = 1..(Len(s) + 1)
      /\ Len(s) \in Nat
      /\ r[1] = n /\ \A i \in 1..Len(s) : r[i + 1] = s[i]
  BY ConsFacts
<1>2. \A i \in 2..(Len(s) + 1) :
        i - 1 \in 1..Len(s) /\ r[i] = s[i - 1] /\ r[i] \in Range(s)
  <2>1. ASSUME NEW i \in 2..(Len(s) + 1)
        PROVE  i - 1 \in 1..Len(s) /\ r[i] = s[i - 1]
    <3>1. i - 1 \in 1..Len(s) /\ (i - 1) + 1 = i
      BY <1>1
    <3>2. QED
      BY <1>1, <3>1
  <2>2. QED
    BY <1>1, <2>1 DEF Range
<1>3. ASSUME NEW i \in 1..(Len(s) + 1), NEW j \in 1..(Len(s) + 1), r[i] = r[j]
      PROVE  i = j
  <2>1. \A k \in 1..(Len(s) + 1) : k = 1 \/ k \in 2..(Len(s) + 1)
    BY <1>1
  <2>2. CASE i = 1 \/ j = 1
    BY <1>1, <1>2, <1>3, <2>1, <2>2
  <2>3. CASE i # 1 /\ j # 1
    <3>1. s[i - 1] = s[j - 1] /\ i - 1 \in 1..Len(s) /\ j - 1 \in 1..Len(s)
      BY <1>2, <1>3, <2>1, <2>3
    <3>2. i - 1 = j - 1
      BY <1>1, <3>1 DEF IsInjective
    <3>3. QED
      BY <3>1, <3>2
  <2>4. QED
    BY <2>2, <2>3
<1>4. QED
  BY <1>1, <1>3 DEF IsInjective

-----------------------------------------------------------------------------
(* Lists threaded through link fields. *)

\* The list without its first node starts where that node points.
LEMMA LinkedTail ==
  ASSUME NEW f \in [Node -> NodeOrNull], NEW s \in Seq(Node), NEW p,
         s # << >>, Linked(f, s, p)
  PROVE  Linked(f, Tail(s), f[p])
<1> DEFINE len == Len(s)
<1>1. /\ Tail(s) \in Seq(Node) /\ len \in Nat \ {0}
      /\ Len(Tail(s)) = len - 1
      /\ \A i \in 1..(len - 1) : Tail(s)[i] = s[i + 1]
  BY TailFacts
<1>0. Tail(s) = << >> <=> len = 1
  <2>1. \A t \in Seq(Node) : t = << >> <=> Len(t) = 0
    OBVIOUS
  <2>2. Tail(s) = << >> <=> Len(Tail(s)) = 0
    BY <1>1, <2>1, Zenon
  <2>3. Len(Tail(s)) = 0 <=> len = 1
    BY <1>1
  <2>4. QED
    BY <2>2, <2>3
<1> HIDE DEF len
<1>2. /\ p = s[1]
      /\ \A i \in 1..len : f[s[i]] = IF i = len THEN Null ELSE s[i + 1]
  BY DEF Linked, First, len
<1>3. f[p] = First(Tail(s))
  <2>1. CASE len = 1
    BY <1>0, <1>1, <1>2, <2>1 DEF First
  <2>2. CASE len # 1
    <3>1. 1 \in 1..(len - 1) /\ 1 \in 1..len
      BY <1>1, <2>2
    <3>2. Tail(s)[1] = s[2]
      BY <1>1, <3>1
    <3>3. QED
      BY <1>0, <1>2, <2>2, <3>1, <3>2 DEF First
  <2>3. QED
    BY <2>1, <2>2
<1>4. \A i \in 1..(len - 1) :
        f[Tail(s)[i]] = IF i = len - 1 THEN Null ELSE Tail(s)[i + 1]
  <2>1. ASSUME NEW i \in 1..(len - 1)
        PROVE  f[Tail(s)[i]] = IF i = len - 1 THEN Null ELSE Tail(s)[i + 1]
    <3>1. i + 1 \in 1..len /\ Tail(s)[i] = s[i + 1]
      BY <1>1
    <3>2. f[s[i + 1]] = IF i + 1 = len THEN Null ELSE s[i + 1 + 1]
      BY <1>2, <3>1
    <3>3. CASE i = len - 1
      <4>1. i + 1 = len
        BY <1>1, <3>3
      <4>2. QED
        BY <3>1, <3>2, <3>3, <4>1
    <3>4. CASE i # len - 1
      <4>1. i + 1 # len /\ i + 1 \in 1..(len - 1)
        BY <1>1, <3>4
      <4>2. Tail(s)[i + 1] = s[i + 1 + 1]
        BY <1>1, <4>1
      <4>3. QED
        BY <3>1, <3>2, <3>4, <4>1, <4>2
    <3>5. QED
      BY <3>3, <3>4
  <2>2. QED
    BY <2>1
<1>5. QED
  BY <1>1, <1>3, <1>4 DEF Linked

\* A node that points to the start of a list extends it.
LEMMA LinkedCons ==
  ASSUME NEW f \in [Node -> NodeOrNull], NEW s \in Seq(Node), NEW n \in Node,
         Linked(f, s, f[n])
  PROVE  Linked(f, <<n>> \o s, n)
<1> DEFINE r == <<n>> \o s
<1>1. /\ r \in Seq(Node) /\ Len(s) \in Nat
      /\ Len(r) = Len(s) + 1 /\ r[1] = n
      /\ \A i \in 1..Len(s) : r[i + 1] = s[i]
  BY ConsFacts
<1>2. First(r) = n
  BY <1>1 DEF First
<1>3. ASSUME NEW i \in 1..Len(r)
      PROVE  f[r[i]] = IF i = Len(r) THEN Null ELSE r[i + 1]
  <2>1. CASE i = 1
    <3>1. CASE s = << >>
      BY <1>1, <2>1, <3>1 DEF Linked, First
    <3>2. CASE s # << >>
      <4>1. f[n] = s[1] /\ Len(s) # 0
        BY <3>2 DEF Linked, First
      <4>2. r[2] = s[1]
        BY <1>1, <4>1
      <4>3. QED
        BY <1>1, <2>1, <4>1, <4>2
    <3>3. QED
      BY <3>1, <3>2
  <2>2. CASE i # 1
    <3>1. i - 1 \in 1..Len(s) /\ r[i] = s[i - 1]
      BY <1>1, <2>2
    <3>2. f[s[i - 1]] = IF i - 1 = Len(s) THEN Null ELSE s[i]
      BY <3>1 DEF Linked
    <3>3. i # Len(r) => r[i + 1] = s[i]
      BY <1>1, <2>2
    <3>4. QED
      BY <1>1, <3>1, <3>2, <3>3
  <2>3. QED
    BY <2>1, <2>2
<1>4. QED
  BY <1>2, <1>3 DEF Linked

\* A write to a node outside a list leaves the list as it is.
LEMMA LinkedFrame ==
  ASSUME NEW f, NEW g, NEW s \in Seq(Node), NEW p, Linked(f, s, p),
         \A n \in Range(s) : g[n] = f[n]
  PROVE  Linked(g, s, p)
<1>1. \A i \in 1..Len(s) : s[i] \in Range(s)
  BY DEF Range
<1>2. QED
  BY <1>1 DEF Linked
-----------------------------------------------------------------------------
(* Every step preserves the inductive invariant. *)

\* A step that touches only a thread's own locals leaves the lists alone.
LEMMA LocalStep ==
  ASSUME IInv, UNCHANGED <<head, next, history>>
  PROVE  StackIsList' /\ Exclusive'
BY DEF IInv, StackIsList, Exclusive, Linked, First, Own, history

LEMMA PopLoadStep ==
  ASSUME IInv, NEW t \in Thread, PopLoad(t)
  PROVE  IInv'
<1> USE DEF PopLoad, MayStart, LoadHead, At, Goto, history
<1>1. TypeOK'
  BY DEF IInv, TypeOK, Pcs
<1>2. StackIsList' /\ Exclusive'
  BY LocalStep
<1>3. WalkIsList'
  <2>1. ~ walking[t]
    BY DEF IInv, InHand
  <2>2. QED
    BY <2>1 DEF IInv, TypeOK, WalkIsList
<1>4. CurrentViews'
  BY DEF IInv, TypeOK, Head_t, CurrentViews
<1>5. InHand'
  BY DEF IInv, TypeOK, InHand
<1>6. QED
  BY <1>1, <1>2, <1>3, <1>4, <1>5 DEF IInv

LEMMA PopEmptyStep ==
  ASSUME IInv, NEW t \in Thread, PopEmpty(t)
  PROVE  IInv'
<1> USE DEF PopEmpty, At, Goto, history
<1>1. TypeOK'
  BY DEF IInv, TypeOK, Pcs, NodeOrNull
<1>2. StackIsList' /\ Exclusive'
  BY LocalStep
<1>3. WalkIsList'
  <2>1. ~ walking[t]
    BY DEF IInv, InHand
  <2>2. QED
    BY <2>1 DEF IInv, TypeOK, WalkIsList
<1>4. CurrentViews'
  BY DEF IInv, TypeOK, Head_t, CurrentViews
<1>5. InHand'
  BY DEF IInv, TypeOK, InHand
<1>6. QED
  BY <1>1, <1>2, <1>3, <1>4, <1>5 DEF IInv

LEMMA PopReadStep ==
  ASSUME IInv, NEW t \in Thread, PopRead(t)
  PROVE  IInv'
<1> USE DEF PopRead, At, Goto, history
<1>1. TypeOK'
  BY DEF IInv, TypeOK, Pcs, Head_t, NodeOrNull
<1>2. StackIsList' /\ Exclusive'
  BY LocalStep
<1>3. WalkIsList'
  <2>1. ~ walking[t]
    BY DEF IInv, InHand
  <2>2. QED
    BY <2>1 DEF IInv, TypeOK, WalkIsList
<1>4. CurrentViews'
  BY DEF IInv, TypeOK, Head_t, CurrentViews
<1>5. InHand'
  BY DEF IInv, TypeOK, InHand
<1>6. QED
  BY <1>1, <1>2, <1>3, <1>4, <1>5 DEF IInv

LEMMA PopCasFailsStep ==
  ASSUME IInv, NEW t \in Thread, PopCasFails(t)
  PROVE  IInv'
<1> USE DEF PopCasFails, CasFails, LoadHead, At, Goto, history
<1>1. TypeOK'
  BY DEF IInv, TypeOK, Pcs
<1>2. StackIsList' /\ Exclusive'
  BY LocalStep
<1>3. WalkIsList'
  <2>1. ~ walking[t]
    BY DEF IInv, InHand
  <2>2. QED
    BY <2>1 DEF IInv, TypeOK, WalkIsList
<1>4. CurrentViews'
  BY DEF IInv, TypeOK, Head_t, CurrentViews
<1>5. InHand'
  BY DEF IInv, TypeOK, InHand
<1>6. QED
  BY <1>1, <1>2, <1>3, <1>4, <1>5 DEF IInv

LEMMA PushLoadStep ==
  ASSUME IInv, NEW t \in Thread, NEW n \in held[t], PushLoad(t, n)
  PROVE  IInv'
<1> USE DEF PushLoad, MayStart, LoadHead, At, Goto, history
<1>1. TypeOK'
  BY NullAssumption DEF IInv, TypeOK, Pcs, NodeOrNull
<1>2. StackIsList' /\ Exclusive'
  BY LocalStep
<1>3. WalkIsList'
  <2>1. ~ walking[t]
    BY DEF IInv, InHand
  <2>2. QED
    BY <2>1 DEF IInv, TypeOK, WalkIsList
<1>4. CurrentViews'
  BY DEF IInv, TypeOK, Head_t, CurrentViews
<1>5. InHand'
  BY DEF IInv, TypeOK, InHand
<1>6. QED
  BY <1>1, <1>2, <1>3, <1>4, <1>5 DEF IInv

LEMMA PushCasFailsStep ==
  ASSUME IInv, NEW t \in Thread, PushCasFails(t)
  PROVE  IInv'
<1> USE DEF PushCasFails, CasFails, LoadHead, At, Goto, history
<1>1. TypeOK'
  BY DEF IInv, TypeOK, Pcs
<1>2. StackIsList' /\ Exclusive'
  BY LocalStep
<1>3. WalkIsList'
  BY DEF IInv, TypeOK, WalkIsList
<1>4. CurrentViews'
  BY DEF IInv, TypeOK, Head_t, CurrentViews
<1>5. InHand'
  BY DEF IInv, TypeOK, InHand
<1>6. QED
  BY <1>1, <1>2, <1>3, <1>4, <1>5 DEF IInv

LEMMA EachLoadStep ==
  ASSUME IInv, NEW t \in Thread, EachLoad(t)
  PROVE  IInv'
<1> USE DEF EachLoad, MayStart, LoadHead, At, Goto, history
<1>1. TypeOK'
  BY DEF IInv, TypeOK, Pcs
<1>2. StackIsList' /\ Exclusive'
  BY LocalStep
<1>3. WalkIsList'
  <2>1. ~ walking[t]
    BY DEF IInv, InHand
  <2>2. QED
    BY <2>1 DEF IInv, TypeOK, WalkIsList
<1>4. CurrentViews'
  BY DEF IInv, TypeOK, Head_t, CurrentViews
<1>5. InHand'
  BY DEF IInv, TypeOK, InHand
<1>6. QED
  BY <1>1, <1>2, <1>3, <1>4, <1>5 DEF IInv

LEMMA EachEmptyStep ==
  ASSUME IInv, NEW t \in Thread, EachEmpty(t)
  PROVE  IInv'
<1> USE DEF EachEmpty, ptrVars, At, Goto, history
<1>1. TypeOK'
  BY DEF IInv, TypeOK, Pcs
<1>2. StackIsList' /\ Exclusive'
  BY LocalStep
<1>3. WalkIsList'
  <2>1. ~ walking[t]
    BY DEF IInv, InHand
  <2>2. QED
    BY <2>1 DEF IInv, TypeOK, WalkIsList
<1>4. CurrentViews'
  BY DEF IInv, TypeOK, Head_t, CurrentViews
<1>5. InHand'
  BY DEF IInv, TypeOK, InHand
<1>6. QED
  BY <1>1, <1>2, <1>3, <1>4, <1>5 DEF IInv

LEMMA EachCasFailsStep ==
  ASSUME IInv, NEW t \in Thread, EachCasFails(t)
  PROVE  IInv'
<1> USE DEF EachCasFails, CasFails, LoadHead, At, Goto, history
<1>1. TypeOK'
  BY DEF IInv, TypeOK, Pcs
<1>2. StackIsList' /\ Exclusive'
  BY LocalStep
<1>3. WalkIsList'
  <2>1. ~ walking[t]
    BY DEF IInv, InHand
  <2>2. QED
    BY <2>1 DEF IInv, TypeOK, WalkIsList
<1>4. CurrentViews'
  BY DEF IInv, TypeOK, Head_t, CurrentViews
<1>5. InHand'
  BY DEF IInv, TypeOK, InHand
<1>6. QED
  BY <1>1, <1>2, <1>3, <1>4, <1>5 DEF IInv

LEMMA EachAdvanceStep ==
  ASSUME IInv, NEW t \in Thread, EachAdvance(t)
  PROVE  IInv'
<1> USE DEF EachAdvance, At, Goto, history
<1>1. TypeOK'
  BY DEF IInv, TypeOK, Pcs
<1>2. StackIsList' /\ Exclusive'
  BY LocalStep
<1>3. WalkIsList'
  BY DEF IInv, TypeOK, WalkIsList
<1>4. CurrentViews'
  BY DEF IInv, TypeOK, Head_t, CurrentViews
<1>5. InHand'
  BY DEF IInv, TypeOK, InHand
<1>6. QED
  BY <1>1, <1>2, <1>3, <1>4, <1>5 DEF IInv

LEMMA ReturnStep ==
  ASSUME IInv, NEW t \in Thread, Return(t)
  PROVE  IInv'
<1> USE DEF Return, At, Goto, history
<1>1. TypeOK'
  BY DEF IInv, TypeOK, Pcs, Head_t, NodeOrNull
<1>2. StackIsList' /\ Exclusive'
  BY LocalStep
<1>3. WalkIsList'
  BY DEF IInv, TypeOK, WalkIsList
<1>4. CurrentViews'
  BY DEF IInv, TypeOK, Head_t, CurrentViews
<1>5. InHand'
  BY DEF IInv, TypeOK, InHand
<1>6. QED
  BY <1>1, <1>2, <1>3, <1>4, <1>5 DEF IInv

LEMMA EachVisitStep ==
  ASSUME IInv, NEW t \in Thread, EachVisit(t)
  PROVE  IInv'
<1> USE DEF EachVisit, LoadHead, At, Goto, history
<1>0. /\ walking[t] /\ chain[t] \in Seq(Node)
      /\ ptr[t] \in Node /\ Linked(next, chain[t], ptr[t])
  BY DEF IInv, TypeOK, InHand, WalkIsList, NodeOrNull
<1>1. chain[t] # << >> /\ ptr[t] = First(chain[t]) /\ ptr[t] = chain[t][1]
  BY <1>0 DEF Linked, First
<1>2. TypeOK'
  BY <1>0 DEF IInv, TypeOK, Pcs, NodeOrNull
<1>3. StackIsList' /\ Exclusive'
  BY LocalStep
<1>4. WalkIsList'
  <2>1. next \in [Node -> NodeOrNull]
    BY DEF IInv, TypeOK
  <2>2. Linked(next, Tail(chain[t]), next[ptr[t]])
    BY <1>0, <1>1, <2>1, LinkedTail
  <2>3. QED
    BY <1>0, <1>1, <2>2 DEF IInv, TypeOK, WalkIsList
<1>5. CurrentViews'
  BY DEF IInv, TypeOK, Head_t, CurrentViews
<1>6. InHand'
  BY <1>0, <1>1 DEF IInv, TypeOK, InHand
<1>7. QED
  BY <1>2, <1>3, <1>4, <1>5, <1>6 DEF IInv

LEMMA EachDoneStep ==
  ASSUME IInv, NEW t \in Thread, EachDone(t)
  PROVE  IInv'
<1> USE DEF EachDone, At, Goto, history, ptrVars
<1>0. walking[t] /\ chain[t] = << >>
  <2>1. walking[t] /\ chain[t] \in Seq(Node) /\ Linked(next, chain[t], Null)
    BY DEF IInv, TypeOK, InHand, WalkIsList
  <2>2. QED
    BY <2>1, NullAssumption, TailFacts DEF Linked, First
<1>1. TypeOK'
  BY DEF IInv, TypeOK, Pcs
<1>2. StackIsList' /\ Exclusive'
  BY LocalStep
<1>3. WalkIsList'
  BY DEF IInv, TypeOK, WalkIsList
<1>4. CurrentViews'
  BY DEF IInv, TypeOK, Head_t, CurrentViews
<1>5. InHand'
  BY <1>0 DEF IInv, TypeOK, InHand
<1>6. QED
  BY <1>1, <1>2, <1>3, <1>4, <1>5 DEF IInv

\* The head moves on: no thread's view of it is current any more.
LEMMA CasStep ==
  ASSUME IInv, NEW t \in Thread, NEW new \in NodeOrNull, CasHead(t, new)
  PROVE  /\ head' \in Head_t
         /\ head'.aba = head.aba + 1
         /\ head'.ptr = new
         /\ \A u \in Thread : curr[u].aba < head'.aba
BY DEF CasHead, IInv, TypeOK, Head_t, CurrentViews

\* A compare-and-swap that succeeds leaves every view behind the head.
LEMMA ViewsAfterCas ==
  ASSUME IInv, NEW t \in Thread, NEW new \in NodeOrNull, CasHead(t, new),
         UNCHANGED <<next, curr, succ>>,
         \A u \in Thread : pc'[u] \in {"push_cas"} => pc[u] = "push_cas" /\ ptr'[u] = ptr[u]
  PROVE  CurrentViews'
<1>1. /\ head' \in Head_t
      /\ \A u \in Thread : curr[u] \in Head_t /\ curr[u].aba < head'.aba
  BY CasStep DEF IInv, TypeOK
<1>2. \A u \in Thread : /\ curr[u].aba <= head'.aba
                         /\ ~ (curr[u].aba = head'.aba \/ curr[u] = head')
  BY <1>1 DEF Head_t
<1>3. QED
  BY <1>2 DEF IInv, CurrentViews, At

LEMMA PopCasStep ==
  ASSUME IInv, NEW t \in Thread, PopCas(t)
  PROVE  IInv'
<1> USE DEF PopCas, At, Goto
<1>0. /\ curr[t].ptr \in Node /\ curr[t].ptr = head.ptr
      /\ stack \in Seq(Node) /\ stack # << >> /\ head.ptr = stack[1]
      /\ succ[t] \in NodeOrNull
  BY DEF CasHead, IInv, TypeOK, Head_t, NodeOrNull, StackIsList, Linked, First
<1>1. head' \in Head_t /\ head'.ptr = succ[t]
  BY <1>0, CasStep
<1>2. /\ stack' = Tail(stack) /\ Tail(stack) \in Seq(Node)
      /\ Range(stack) = {stack[1]} \union Range(Tail(stack))
  BY <1>0, TailFacts DEF Rest
<1>3. TypeOK'
  BY <1>0, <1>1, <1>2 DEF IInv, TypeOK, Pcs, NodeOrNull
<1>4. StackIsList'
  <2>1. succ[t] = next[head.ptr] /\ next \in [Node -> NodeOrNull]
    BY DEF CasHead, IInv, TypeOK, CurrentViews
  <2>2. Linked(next, Tail(stack), next[head.ptr])
    BY <1>0, <2>1, LinkedTail DEF IInv, StackIsList
  <2>3. QED
    BY <1>1, <1>2, <2>1, <2>2 DEF StackIsList
<1>5. WalkIsList'
  <2>1. ~ walking[t]
    BY DEF IInv, InHand
  <2>2. QED
    BY <2>1 DEF IInv, TypeOK, WalkIsList
<1>6. Exclusive'
  <2>1. IsInjective(Tail(stack)) /\ stack[1] \notin Range(Tail(stack))
    BY <1>0, TailInjective DEF IInv, Exclusive
  <2>2. held' = [held EXCEPT ![t] = @ \union {stack[1]}] /\ chain' = chain
    BY <1>0
  <2>3. \A u \in Thread : stack[1] \notin Own(u)
    BY <1>2 DEF IInv, Exclusive
  <2>4. \A u \in Thread : Own(u)' = IF u = t THEN Own(u) \union {stack[1]} ELSE Own(u)
    BY <2>2 DEF IInv, TypeOK, Own
  <2>5. \A u \in Thread : held'[u] \intersect Range(chain'[u]) = {}
    BY <2>2, <2>3 DEF IInv, TypeOK, Exclusive, Own
  <2>6. \A u \in Thread : Own(u)' \intersect Range(stack') = {}
    BY <1>2, <2>1, <2>4 DEF IInv, Exclusive
  <2>7. \A u, v \in Thread : u # v => Own(u)' \intersect Own(v)' = {}
    BY <2>3, <2>4 DEF IInv, Exclusive
  <2>8. QED
    BY <1>2, <2>1, <2>2, <2>5, <2>6, <2>7 DEF IInv, Exclusive
<1>7. CurrentViews'
  BY <1>0, ViewsAfterCas DEF IInv, TypeOK
<1>8. InHand'
  BY <1>0 DEF IInv, TypeOK, InHand
<1>9. QED
  BY <1>3, <1>4, <1>5, <1>6, <1>7, <1>8 DEF IInv

\* A thread that writes the link of a node of its own disturbs neither the
\* list on the stack nor the lists and nodes of the other threads.
OwnLinkWritten(t, n, v) ==
  /\ n \in Node
  /\ next' \in [Node -> NodeOrNull] /\ next'[n] = v
  /\ StackIsList' /\ Exclusive'
  /\ head.ptr # Null => next'[head.ptr] = next[head.ptr]
  /\ \A u \in Thread \ {t} :
       /\ \A m \in Own(u) : next'[m] = next[m]
       /\ \A p : Linked(next, chain[u], p) => Linked(next', chain[u], p)
       /\ \A p : chain[u] # << >> /\ Linked(next, Tail(chain[u]), p)
               => Linked(next', Tail(chain[u]), p)

LEMMA OwnWrite ==
  ASSUME IInv, NEW t \in Thread, NEW n \in Own(t), NEW v \in NodeOrNull,
         next' = [next EXCEPT ![n] = v], UNCHANGED <<head, history>>
  PROVE  OwnLinkWritten(t, n, v)
<1> USE DEF history
<1>0. /\ next \in [Node -> NodeOrNull] /\ stack \in Seq(Node)
      /\ held \in [Thread -> SUBSET Node] /\ chain \in [Thread -> Seq(Node)]
  BY DEF IInv, TypeOK
<1>1. n \in Node
  <2>1. chain[t] \in Seq(Node) /\ held[t] \subseteq Node
    BY <1>0
  <2>2. Range(chain[t]) \subseteq Node
    BY <2>1 DEF Range
  <2>3. QED
    BY <2>1, <2>2 DEF Own
<1>2. next' \in [Node -> NodeOrNull] /\ next'[n] = v
  BY <1>0, <1>1
<1>3. \A m \in Node : m # n => next'[m] = next[m]
  BY <1>0
<1>4. n \notin Range(stack) /\ \A u \in Thread \ {t} : n \notin Own(u)
  BY DEF IInv, Exclusive
<1>5. \A m \in Range(stack) : next'[m] = next[m]
  <2>1. Range(stack) \subseteq Node
    BY <1>0 DEF Range
  <2>2. QED
    BY <1>3, <1>4, <2>1
<1>6. Linked(next', stack, head.ptr)
  BY <1>0, <1>5, LinkedFrame DEF IInv, StackIsList
<1>7. StackIsList' /\ Exclusive'
  BY <1>6 DEF IInv, StackIsList, Exclusive, Own
<1>8. head.ptr # Null => next'[head.ptr] = next[head.ptr]
  <2>1. ASSUME head.ptr # Null PROVE head.ptr \in Range(stack)
    <3>1. stack # << >> /\ head.ptr = stack[1]
      BY <2>1 DEF IInv, StackIsList, Linked, First
    <3>2. QED
      BY <1>0, <3>1, TailFacts
  <2>2. QED
    BY <1>5, <2>1
<1>9. ASSUME NEW u \in Thread \ {t}
      PROVE  /\ \A m \in Own(u) : next'[m] = next[m]
             /\ \A p : Linked(next, chain[u], p) => Linked(next', chain[u], p)
             /\ \A p : chain[u] # << >> /\ Linked(next, Tail(chain[u]), p)
                     => Linked(next', Tail(chain[u]), p)
  <2>0. chain[u] \in Seq(Node) /\ held[u] \subseteq Node
    BY <1>0
  <2>1. Range(chain[u]) \subseteq Node
    BY <2>0 DEF Range
  <2>2. \A m \in Own(u) : next'[m] = next[m]
    BY <1>3, <1>4, <2>0, <2>1 DEF Own
  <2>3. \A m \in Range(chain[u]) : next'[m] = next[m]
    BY <2>2 DEF Own
  <2>4. \A p : Linked(next, chain[u], p) => Linked(next', chain[u], p)
    BY <2>0, <2>3, LinkedFrame
  <2>5. ASSUME chain[u] # << >>
        PROVE  Tail(chain[u]) \in Seq(Node) /\ Range(Tail(chain[u])) \subseteq Range(chain[u])
    BY <2>0, <2>5, TailFacts
  <2>6. \A p : chain[u] # << >> /\ Linked(next, Tail(chain[u]), p)
              => Linked(next', Tail(chain[u]), p)
    BY <2>3, <2>5, LinkedFrame
  <2>7. QED
    BY <2>2, <2>4, <2>6
<1>10. QED
  BY <1>1, <1>2, <1>7, <1>8, <1>9 DEF OwnLinkWritten

\* The node being linked or pushed belongs to the thread that pushes it.
LEMMA PusherOwns ==
  ASSUME IInv, NEW t \in Thread, pc[t] \in {"push_link", "push_cas"}
  PROVE  /\ ptr[t] \in Own(t)
         /\ walking[t] => /\ chain[t] # << >> /\ chain[t] \in Seq(Node)
                          /\ ptr[t] = chain[t][1]
<1>1. CASE walking[t]
  <2>1. chain[t] # << >> /\ chain[t] \in Seq(Node) /\ ptr[t] = chain[t][1]
    BY <1>1 DEF IInv, TypeOK, InHand
  <2>2. QED
    BY <2>1, TailFacts DEF Own
<1>2. CASE ~ walking[t]
  BY <1>2 DEF IInv, InHand, Own
<1>3. QED
  BY <1>1, <1>2

LEMMA PushLinkStep ==
  ASSUME IInv, NEW t \in Thread, PushLink(t)
  PROVE  IInv'
<1> USE DEF PushLink, At, Goto
<1> DEFINE n == ptr[t]
<1>0. /\ n \in Own(t) /\ curr[t].ptr \in NodeOrNull
      /\ walking[t] => chain[t] # << >> /\ chain[t] \in Seq(Node) /\ n = chain[t][1]
  BY PusherOwns DEF IInv, TypeOK, Head_t
<1>1. next' = [next EXCEPT ![n] = curr[t].ptr] /\ UNCHANGED <<head, history>>
  OBVIOUS
<1>2. OwnLinkWritten(t, n, curr[t].ptr)
  BY <1>0, <1>1, OwnWrite
<1>3. TypeOK'
  BY <1>2 DEF OwnLinkWritten, IInv, TypeOK, Pcs, history
<1>4. WalkIsList'
  <2>1. ASSUME walking[t] PROVE Linked(next', Tail(chain[t]), succ[t])
    <3>0. chain[t] # << >> /\ chain[t] \in Seq(Node) /\ n = chain[t][1]
      BY <1>0, <2>1
    <3>1. Tail(chain[t]) \in Seq(Node) /\ n \notin Range(Tail(chain[t]))
      BY <3>0, TailFacts, TailInjective DEF IInv, Exclusive
    <3>2. \A m \in Range(Tail(chain[t])) : next'[m] = next[m]
      <4>1. Range(Tail(chain[t])) \subseteq Node
        BY <3>1 DEF Range
      <4>2. QED
        BY <1>1, <3>1, <4>1 DEF IInv, TypeOK
    <3>3. Linked(next, Tail(chain[t]), succ[t])
      BY <2>1 DEF IInv, WalkIsList
    <3>4. QED
      BY <3>1, <3>2, <3>3, LinkedFrame
  <2>2. ASSUME walking[t] PROVE ptr[t] = First(chain[t])
    BY <2>2 DEF IInv, WalkIsList
  <2>3. \A u \in Thread : walking[u] /\ ~ (At(u, "each_visit") \/ At(u, "pushed"))
                         => chain[u] # << >>
    BY DEF IInv, InHand
  <2>4. QED
    BY <1>1, <1>2, <2>1, <2>2, <2>3 DEF OwnLinkWritten, IInv, TypeOK, WalkIsList, history
<1>5. CurrentViews'
  <2>1. \A u \in Thread : At(u, "push_cas") => ptr[u] \in Own(u)
    BY PusherOwns DEF At
  <2>2. \A u \in Thread : At(u, "pop_cas") /\ curr[u] = head => head.ptr # Null
    BY DEF IInv, TypeOK
  <2>3. QED
    BY <1>1, <1>2, <2>1, <2>2 DEF OwnLinkWritten, IInv, TypeOK, CurrentViews
<1>6. InHand'
  BY <1>1 DEF IInv, TypeOK, InHand, history
<1>7. QED
  BY <1>2, <1>3, <1>4, <1>5, <1>6 DEF OwnLinkWritten, IInv

LEMMA OverwriteStep ==
  ASSUME IInv, NEW t \in Thread, NEW n \in held[t], NEW v \in NodeOrNull, Overwrite(t, n, v)
  PROVE  IInv'
<1> USE DEF Overwrite, At
<1>1. /\ n \in Own(t) /\ next' = [next EXCEPT ![n] = v]
      /\ UNCHANGED <<head, history>>
  BY DEF Own
<1>2. OwnLinkWritten(t, n, v)
  BY <1>1, OwnWrite
<1>3. TypeOK'
  BY <1>2 DEF OwnLinkWritten, IInv, TypeOK, Pcs, history, ptrVars
<1>4. WalkIsList'
  <2>1. ~ walking[t]
    BY DEF IInv, InHand
  <2>2. \A u \in Thread : walking[u] /\ ~ (At(u, "each_visit") \/ At(u, "pushed"))
                         => chain[u] # << >>
    BY DEF IInv, InHand
  <2>3. QED
    BY <1>2, <2>1, <2>2 DEF OwnLinkWritten, IInv, TypeOK, WalkIsList, history, ptrVars
<1>5. CurrentViews'
  <2>1. \A u \in Thread : At(u, "push_cas") => ptr[u] \in Own(u)
    BY PusherOwns DEF At
  <2>2. \A u \in Thread : At(u, "pop_cas") /\ curr[u] = head => head.ptr # Null
    BY DEF IInv, TypeOK
  <2>3. \A u \in Thread : At(u, "push_cas") => u # t
    OBVIOUS
  <2>4. UNCHANGED <<head, pc, curr, succ, ptr>>
    BY DEF ptrVars
  <2>5. ASSUME NEW u \in Thread, At(u, "pop_cas"), curr[u] = head
        PROVE  succ[u] = next'[head.ptr]
    BY <1>2, <2>2, <2>5 DEF OwnLinkWritten, IInv, CurrentViews
  <2>6. ASSUME NEW u \in Thread, At(u, "push_cas")
        PROVE  next'[ptr[u]] = curr[u].ptr
    BY <1>2, <2>1, <2>3, <2>6 DEF OwnLinkWritten, IInv, CurrentViews
  <2>7. QED
    BY <2>4, <2>5, <2>6 DEF IInv, CurrentViews
<1>6. InHand'
  BY DEF IInv, TypeOK, InHand, history, ptrVars
<1>7. QED
  BY <1>2, <1>3, <1>4, <1>5, <1>6 DEF OwnLinkWritten, IInv

LEMMA PushCasStep ==
  ASSUME IInv, NEW t \in Thread, PushCas(t)
  PROVE  IInv'
<1> USE DEF PushCas, At, Goto, ptrVars
<1> DEFINE n == ptr[t]
<1>0. /\ n \in Own(t) /\ n \in Node /\ stack \in Seq(Node)
      /\ chain[t] \in Seq(Node) /\ held[t] \subseteq Node
      /\ walking[t] => chain[t] # << >> /\ n = chain[t][1]
      /\ ~ walking[t] => n \in held[t]
  BY PusherOwns DEF IInv, TypeOK, InHand, NodeOrNull
<1>1. /\ head' \in Head_t /\ head'.ptr = n
  BY <1>0, CasStep DEF NodeOrNull
<1>2. /\ stack' \in Seq(Node) /\ stack' = <<n>> \o stack
      /\ Range(stack') = {n} \union Range(stack)
  BY <1>0, ConsFacts
<1>3. walking[t] => /\ chain'[t] = Tail(chain[t]) /\ Tail(chain[t]) \in Seq(Node)
                    /\ Range(chain[t]) = {n} \union Range(Tail(chain[t]))
                    /\ IsInjective(Tail(chain[t]))
                    /\ n \notin Range(Tail(chain[t]))
  BY <1>0, TailFacts, TailInjective DEF IInv, TypeOK, Exclusive, Rest
<1>4. TypeOK'
  <2>1. pc' \in [Thread -> Pcs] /\ \A u \in Thread : u # t => pc'[u] = pc[u]
    BY DEF IInv, TypeOK, Pcs
  <2>2. held' \in [Thread -> SUBSET Node] /\ chain' \in [Thread -> Seq(Node)]
    <3>1. held \in [Thread -> SUBSET Node] /\ chain \in [Thread -> Seq(Node)]
      BY DEF IInv, TypeOK
    <3>2. CASE walking[t]
      <4>1. held' = held /\ chain' = [chain EXCEPT ![t] = Rest(@)] /\ Rest(chain[t]) \in Seq(Node)
        BY <1>0, <1>3, <3>2 DEF Rest
      <4>2. QED
        BY <3>1, <4>1
    <3>3. CASE ~ walking[t]
      <4>1. held' = [held EXCEPT ![t] = @ \ {n}] /\ chain' = chain
        BY <3>3
      <4>2. QED
        BY <3>1, <4>1
    <3>4. QED
      BY <3>2, <3>3
  <2>3. \A u \in Thread : pc'[u] \in {"pop_cas", "push_link", "push_cas"} => pc[u] = pc'[u]
    BY <2>1 DEF IInv, TypeOK
  <2> HIDE DEF n
  <2>4. QED
    BY <1>1, <1>2, <2>1, <2>2, <2>3 DEF IInv, TypeOK
<1>5. StackIsList'
  <2>1. next \in [Node -> NodeOrNull] /\ next[n] = head.ptr
    BY DEF CasHead, IInv, TypeOK, CurrentViews
  <2>2. Linked(next, stack', n)
    BY <1>0, <1>2, <2>1, LinkedCons DEF IInv, StackIsList
  <2>3. QED
    BY <1>1, <2>2 DEF StackIsList
<1>6. WalkIsList'
  <2>1. walking[t] => Linked(next, chain'[t], succ[t])
    BY <1>3 DEF IInv, TypeOK, WalkIsList
  <2>2. \A u \in Thread \ {t} : chain'[u] = chain[u] /\ pc'[u] = pc[u]
    BY DEF IInv, TypeOK
  <2>3. pc'[t] = "pushed"
    BY DEF IInv, TypeOK
  <2>4. QED
    BY <2>1, <2>2, <2>3 DEF IInv, WalkIsList
<1>7. Exclusive'
  <2>1. \A u \in Thread : n \in Own(u) => u = t
    BY <1>0 DEF IInv, Exclusive
  <2>2. n \notin Range(stack)
    BY <1>0 DEF IInv, Exclusive
  <2>3. IsInjective(stack')
    BY <1>0, <1>2, <2>2, ConsInjective DEF IInv, Exclusive
  <2>4. /\ IsInjective(chain'[t])
        /\ held'[t] \intersect Range(chain'[t]) = {}
        /\ held'[t] \union Range(chain'[t]) = Own(t) \ {n}
    <3>1. CASE walking[t]
      <4>1. chain'[t] = Tail(chain[t]) /\ held'[t] = held[t]
        BY <1>3, <3>1
      <4>2. held[t] \intersect Range(chain[t]) = {}
        BY DEF IInv, Exclusive
      <4>3. QED
        BY <1>3, <3>1, <4>1, <4>2 DEF Own
    <3>2. CASE ~ walking[t]
      BY <1>0, <3>2 DEF IInv, TypeOK, Exclusive, Own
    <3>3. QED
      BY <3>1, <3>2
  <2>5. \A u \in Thread \ {t} : chain'[u] = chain[u] /\ held'[u] = held[u]
    BY DEF IInv, TypeOK
  <2>6. \A u \in Thread : Own(u)' = Own(u) \ {n}
    BY <2>1, <2>4, <2>5 DEF Own
  <2>7. QED
    BY <1>2, <2>3, <2>4, <2>5, <2>6 DEF IInv, Exclusive
<1>8. CurrentViews'
  BY <1>0, ViewsAfterCas DEF IInv, TypeOK, NodeOrNull
<1>9. InHand'
  BY <1>0, <1>3 DEF IInv, TypeOK, InHand
<1>10. QED
  BY <1>4, <1>5, <1>6, <1>7, <1>8, <1>9 DEF IInv

LEMMA EachCasStep ==
  ASSUME IInv, NEW t \in Thread, EachCas(t)
  PROVE  IInv'
<1> USE DEF EachCas, At, Goto
<1>0. /\ ~ walking[t] /\ chain[t] = << >> /\ stack \in Seq(Node)
      /\ curr[t].ptr = head.ptr /\ head.ptr \in NodeOrNull
      /\ Linked(next, stack, head.ptr) /\ IsInjective(stack)
  BY DEF CasHead, IInv, TypeOK, Head_t, InHand, StackIsList, Exclusive
<1>1. head' \in Head_t /\ head'.ptr = Null
  BY CasStep DEF NodeOrNull
<1>2. << >> \in Seq(Node) /\ Range(<< >>) = {} /\ IsInjective(<< >>)
  BY DEF Range, IsInjective
<1>3. TypeOK'
  BY <1>0, <1>1, <1>2 DEF IInv, TypeOK, Pcs
<1>4. StackIsList'
  BY <1>1 DEF StackIsList, Linked, First
<1>5. WalkIsList'
  BY <1>0 DEF IInv, TypeOK, WalkIsList
<1>6. Exclusive'
  <2>1. chain'[t] = stack /\ \A u \in Thread \ {t} : chain'[u] = chain[u]
    BY DEF IInv, TypeOK
  <2>2. \A u \in Thread :
          Own(u)' = IF u = t THEN held[t] \union Range(stack) ELSE Own(u)
    BY <2>1 DEF Own
  <2>3. \A u \in Thread : Own(u) \intersect Range(stack) = {} /\ held[u] \subseteq Own(u)
    BY DEF IInv, Exclusive, Own
  <2>4. \A u, v \in Thread : u # v => Own(u)' \intersect Own(v)' = {}
    BY <2>2, <2>3 DEF IInv, Exclusive
  <2>5. \A u \in Thread : /\ IsInjective(chain'[u])
                           /\ held'[u] \intersect Range(chain'[u]) = {}
                           /\ Own(u)' \intersect Range(stack') = {}
    BY <1>0, <1>2, <2>1, <2>3 DEF IInv, Exclusive
  <2>6. QED
    BY <1>2, <2>4, <2>5 DEF Exclusive
<1>7. CurrentViews'
  BY ViewsAfterCas DEF IInv, TypeOK, NodeOrNull
<1>8. InHand'
  BY <1>0 DEF IInv, TypeOK, InHand
<1>9. QED
  BY <1>3, <1>4, <1>5, <1>6, <1>7, <1>8 DEF IInv

LEMMA StartStep ==
  ASSUME IInv, NEW t \in Thread, Start(t)
  PROVE  IInv'
BY PopLoadStep, PushLoadStep, EachLoadStep DEF Start

LEMMA StepStep ==
  ASSUME IInv, NEW t \in Thread, Step(t)
  PROVE  IInv'
BY PopEmptyStep, PopReadStep, PopCasStep, PopCasFailsStep,
   PushLinkStep, PushCasStep, PushCasFailsStep,
   EachEmptyStep, EachCasStep, EachCasFailsStep,
   EachVisitStep, EachAdvanceStep, EachDoneStep DEF Step, PopStep, PushStep, EachStep

LEMMA StutterStep ==
  ASSUME IInv, UNCHANGED vars
  PROVE  IInv'
<1>1. TypeOK' /\ InHand'
  BY DEF IInv, vars, TypeOK, InHand, At
<1>2. StackIsList' /\ Exclusive'
  BY LocalStep DEF vars, history
<1>3. WalkIsList'
  BY DEF IInv, vars, WalkIsList, At
<1>4. CurrentViews'
  BY DEF IInv, vars, CurrentViews, At
<1>5. QED
  BY <1>1, <1>2, <1>3, <1>4 DEF IInv

LEMMA EmptyIInv ==
  ASSUME EmptyStack, held \in [Thread -> SUBSET Node],
         \A t, u \in Thread : t # u => held[t] \intersect held[u] = {}
  PROVE  IInv /\ Placed = UNION {held[t] : t \in Thread}
<1> USE DEF EmptyStack
<1>1. << >> \in Seq(Node) /\ Range(<< >>) = {} /\ IsInjective(<< >>) /\ Len(<< >>) = 0
  BY DEF Range, IsInjective
<1>2. TypeOK
  BY <1>1 DEF TypeOK, Head_t, NodeOrNull, Pcs
<1>3. StackIsList
  BY <1>1 DEF StackIsList, Linked, First
<1>4. WalkIsList
  BY DEF WalkIsList
<1>5. \A t \in Thread : Own(t) = held[t]
  BY <1>1 DEF Own
<1>6. Exclusive
  BY <1>1, <1>5 DEF Exclusive
<1>7. CurrentViews /\ InHand
  BY DEF CurrentViews, InHand, At
<1>8. Placed = UNION {held[t] : t \in Thread}
  BY <1>1, <1>5 DEF Placed
<1>9. QED
  BY <1>2, <1>3, <1>4, <1>6, <1>7, <1>8 DEF IInv

LEMMA InitIInv == Init => IInv /\ Placed = Node
<1> SUFFICES ASSUME Init PROVE IInv /\ Placed = Node
  OBVIOUS
<1>1. PICK owner \in [Node -> Thread] :
        held = [t \in Thread |-> {n \in Node : owner[n] = t}]
  BY DEF Init
<1>2. IInv /\ Placed = UNION {held[t] : t \in Thread}
  BY <1>1, EmptyIInv DEF Init
<1>3. Node = UNION {held[t] : t \in Thread}
  BY <1>1
<1>4. QED
  BY <1>2, <1>3

LEMMA NextIInv == IInv /\ [Next]_vars => IInv'
<1> SUFFICES ASSUME IInv, [Next]_vars PROVE IInv'
  OBVIOUS
<1>1. CASE \E t \in Thread : Start(t) \/ Step(t) \/ Return(t)
  BY <1>1, StartStep, StepStep, ReturnStep
<1>2. CASE \E t \in Thread : \E n \in held[t], v \in NodeOrNull : Overwrite(t, n, v)
  BY <1>2, OverwriteStep
<1>3. CASE Terminated \/ UNCHANGED vars
  BY <1>3, StutterStep DEF Terminated
<1>4. QED
  BY <1>1, <1>2, <1>3 DEF Next

\* The inductive invariant holds of every reachable state.
THEOREM Invariant == Spec => []IInv
<1>1. QED
  BY InitIInv, NextIInv, PTL DEF Spec

\* No step of the lock-free code ever goes through a null pointer or leaves
\* the types of its variables.
THEOREM TypeCorrect == Spec => []TypeOK
<1>1. IInv => TypeOK
  BY DEF IInv
<1>2. QED
  BY <1>1, Invariant, PTL

\* For any number of threads and nodes: what the links say is exactly what was
\* pushed and not popped, in order; the aba counter rules out the stale pop.
THEOREM ListIntact == Spec => []StackIsList
<1>1. IInv => StackIsList
  BY DEF IInv
<1>2. QED
  BY <1>1, Invariant, PTL

\* No node is handed to two threads, or to one while it is on the stack.
THEOREM NoDoubleHandOut == Spec => []Exclusive
<1>1. IInv => Exclusive
  BY DEF IInv
<1>2. QED
  BY <1>1, Invariant, PTL

\* A list that for_each has detached stays whole until it is pushed back.
THEOREM WalkIntact == Spec => []WalkIsList
<1>1. IInv => WalkIsList
  BY DEF IInv
<1>2. QED
  BY <1>1, Invariant, PTL

-----------------------------------------------------------------------------
(* Every step moves nodes the way a step of the atomic stack does. *)

LEMMA StepSimulates ==
  ASSUME IInv, NEW t \in Thread, Start(t) \/ Step(t) \/ Return(t)
  PROVE  Atomic!Pop(t) \/ Atomic!TakeAll(t) \/ Atomic!PutBack(t)
         \/ (\E n \in held[t] : Atomic!Push(t, n))
         \/ UNCHANGED history
<1>1. CASE PopCas(t)
  <2>1. stack \in Seq(Node) /\ stack # << >> /\ stack[1] = curr[t].ptr
    BY <1>1 DEF PopCas, At, CasHead, IInv, TypeOK, StackIsList, Linked, First
  <2>2. Head(stack) = curr[t].ptr
    BY <2>1
  <2>3. QED
    BY <1>1, <2>1, <2>2 DEF PopCas, Rest, Atomic!Pop
<1>2. CASE PushCas(t)
  <2>1. CASE walking[t]
    <3>1. chain[t] \in Seq(Node) /\ chain[t] # << >> /\ ptr[t] = chain[t][1]
      BY <1>2, <2>1, PusherOwns DEF PushCas, At
    <3>2. Head(chain[t]) = ptr[t]
      BY <3>1
    <3>3. QED
      BY <1>2, <2>1, <3>1, <3>2 DEF PushCas, Rest, Atomic!PutBack
  <2>2. CASE ~ walking[t]
    BY <1>2, <2>2 DEF PushCas, At, IInv, InHand, Atomic!Push
  <2>3. QED
    BY <2>1, <2>2
<1>3. CASE EachCas(t)
  BY <1>3 DEF EachCas, At, IInv, InHand, Atomic!TakeAll
<1>4. CASE ~ (PopCas(t) \/ PushCas(t) \/ EachCas(t))
  BY <1>4 DEF Start, Step, PopStep, PushStep, EachStep, PopLoad, PopEmpty, PopRead, PopCasFails, PushLoad, PushLink,
     PushCasFails, EachLoad, EachEmpty, EachCasFails, EachVisit, EachAdvance, EachDone,
     Return, CasFails
<1>5. QED
  BY <1>1, <1>2, <1>3, <1>4

LEMMA NextSimulates == IInv /\ [Next]_vars => [Atomic!Next]_(Atomic!vars)
<1> SUFFICES ASSUME IInv, [Next]_vars PROVE [Atomic!Next]_(Atomic!vars)
  OBVIOUS
<1>1. CASE \E t \in Thread : Start(t) \/ Step(t) \/ Return(t)
  BY <1>1, StepSimulates DEF Atomic!Next, Atomic!vars, history
<1>2. CASE ~ \E t \in Thread : Start(t) \/ Step(t) \/ Return(t)
  BY <1>2 DEF Next, Overwrite, Terminated, vars, history, Atomic!vars
<1>3. QED
  BY <1>1, <1>2

\* lf_stack implements the atomic stack: the linearisation points of pop, push
\* and for_each are their successful compare-and-swaps.
THEOREM Refinement == Spec => ImplementsAtomicStack
<1>1. Init => Atomic!Init
  BY InitIInv DEF Init, EmptyStack, Atomic!Init, IInv, TypeOK
<1>2. QED
  BY <1>1, Invariant, NextSimulates, PTL DEF Spec, ImplementsAtomicStack, Atomic!Spec

-----------------------------------------------------------------------------
(* No node is lost. *)

\* A step of the atomic stack keeps the set of the nodes that are somewhere.
LEMMA PlacedStep ==
  ASSUME IInv, [Atomic!Next]_(Atomic!vars)
  PROVE  Placed' = Placed
<1> USE DEF Placed, Own
<1>0. /\ stack \in Seq(Node) /\ held \in [Thread -> SUBSET Node]
      /\ chain \in [Thread -> Seq(Node)]
  BY DEF IInv, TypeOK
<1>1. ASSUME NEW t \in Thread, Atomic!Pop(t) PROVE Placed' = Placed
  <2>1. /\ Range(stack) = {stack[1]} \union Range(Tail(stack)) /\ Head(stack) = stack[1]
    BY <1>0, <1>1, TailFacts DEF Atomic!Pop
  <2>2. \A u \in Thread :
          Own(u)' = IF u = t THEN Own(u) \union {stack[1]} ELSE Own(u)
    BY <1>0, <1>1, <2>1 DEF Atomic!Pop
  <2>3. QED
    BY <1>1, <2>1, <2>2 DEF Atomic!Pop
<1>2. ASSUME NEW t \in Thread, NEW n \in held[t], Atomic!Push(t, n) PROVE Placed' = Placed
  <2>1. Range(stack') = {n} \union Range(stack)
    BY <1>0, <1>2, ConsFacts DEF Atomic!Push
  <2>2. \A u \in Thread :
          /\ Own(u)' \union {n} = IF u = t THEN Own(u) ELSE Own(u) \union {n}
    BY <1>0, <1>2 DEF Atomic!Push
  <2>3. QED
    BY <2>1, <2>2
<1>3. ASSUME NEW t \in Thread, Atomic!TakeAll(t) PROVE Placed' = Placed
  <2>1. Range(<< >>) = {} /\ Range(stack') = {} /\ Range(chain[t]) = {}
    BY <1>3 DEF Atomic!TakeAll, Range
  <2>2. \A u \in Thread :
          Own(u)' = IF u = t THEN Own(u) \union Range(stack) ELSE Own(u)
    BY <1>0, <1>3, <2>1 DEF Atomic!TakeAll
  <2>3. QED
    BY <2>1, <2>2
<1>4. ASSUME NEW t \in Thread, Atomic!PutBack(t) PROVE Placed' = Placed
  <2>1. /\ chain[t] # << >> /\ chain[t] \in Seq(Node)
        /\ Range(chain[t]) = {chain[t][1]} \union Range(Tail(chain[t]))
        /\ Head(chain[t]) = chain[t][1] /\ chain[t][1] \in Node
    BY <1>0, <1>4, TailFacts DEF Atomic!PutBack
  <2>2. Range(stack') = {chain[t][1]} \union Range(stack)
    BY <1>0, <1>4, <2>1, ConsFacts DEF Atomic!PutBack
  <2>3. \A u \in Thread : Own(u)' \union {chain[t][1]} = Own(u) \union {chain[t][1]}
    BY <1>0, <1>4, <2>1 DEF Atomic!PutBack
  <2>4. chain[t][1] \in Own(t)
    BY <2>1
  <2>5. QED
    BY <2>2, <2>3, <2>4
<1>5. CASE UNCHANGED Atomic!vars
  BY <1>5 DEF Atomic!vars
<1>6. QED
  BY <1>1, <1>2, <1>3, <1>4, <1>5 DEF Atomic!Next

\* Pushes, pops and walks that overlap in any way lose no node.
THEOREM NoneLost == Spec => []NothingLost
<1>1. Init => Placed = Node
  BY InitIInv
<1>2. IInv /\ Placed = Node /\ [Next]_vars => (Placed = Node)'
  BY NextSimulates, PlacedStep
<1>3. IInv /\ Placed = Node => NothingLost
  <2>1. SUFFICES ASSUME IInv, Placed = Node, NEW n \in Node, n \notin Range(stack)
                 PROVE  \E t \in Thread : n \in held[t] \/ (walking[t] /\ n \in Range(chain[t]))
    BY DEF NothingLost
  <2>2. PICK t \in Thread : n \in Own(t)
    BY <2>1 DEF Placed
  <2>3. CASE n \in Range(chain[t])
    <3>1. chain[t] # << >>
      BY <2>3 DEF Range
    <3>2. QED
      BY <2>1, <2>3, <3>1 DEF IInv, InHand
  <2>4. QED
    BY <2>2, <2>3 DEF Own
<1>4. QED
  BY <1>1, <1>2, <1>3, Invariant, PTL DEF Spec

-----------------------------------------------------------------------------
(* Who delays whom. *)

Loses(t) == PopCasFails(t) \/ PushCasFails(t) \/ EachCasFails(t)

\* The counter counts the successful exchanges, and whoever finds the head other
\* than it was when last read finds it further on.
Contention ==
  /\ head' = head \/ (CasWins /\ head'.aba = head.aba + 1)
  /\ \A t \in Thread : Loses(t) /\ curr[t] # head => curr[t].aba < head.aba

LEMMA OnlyCasMovesHead ==
  ASSUME IInv, [Next]_vars
  PROVE  head' = head \/ (CasWins /\ head'.aba = head.aba + 1)
<1>1. ASSUME NEW t \in Thread, PopCas(t) \/ PushCas(t) \/ EachCas(t)
      PROVE  CasWins /\ head'.aba = head.aba + 1
  <2>1. CasWins
    BY <1>1 DEF CasWins
  <2>2. head'.aba = head.aba + 1
    BY <1>1 DEF PopCas, PushCas, EachCas, CasHead
  <2>3. QED
    BY <2>1, <2>2
<1>2. ASSUME NEW t \in Thread, Start(t) \/ Step(t) \/ Return(t),
             ~ (PopCas(t) \/ PushCas(t) \/ EachCas(t))
      PROVE  head' = head
  BY <1>2 DEF Start, Step, PopStep, PushStep, EachStep, PopLoad, PopEmpty, PopRead, PopCasFails,
     PushLoad, PushLink, PushCasFails, EachLoad, EachEmpty, EachCasFails, EachVisit,
     EachAdvance, EachDone, Return, CasFails
<1>3. CASE ~ \E t \in Thread : Start(t) \/ Step(t) \/ Return(t)
  BY <1>3 DEF Next, Overwrite, Terminated, vars
<1>4. QED
  BY <1>1, <1>2, <1>3

\* The stack is lock-free as far as steps can say it: an exchange that loses,
\* unless the weak form failed for no reason, loses to another operation that
\* took effect since the head was read.  Nothing else ever moves the head, a
\* slow reader and a thread stopped inside an operation in particular.
THEOREM OnlyRivalsDelay == Spec => [][Contention]_vars
<1>1. ASSUME IInv, [Next]_vars PROVE Contention
  <2>1. ASSUME NEW t \in Thread, Loses(t), curr[t] # head
        PROVE  curr[t].aba < head.aba
    <3>1. pc[t] \in {"pop_cas", "push_cas", "each_cas"}
      BY <2>1 DEF Loses, PopCasFails, PushCasFails, EachCasFails, CasFails, At
    <3>2. curr[t].aba <= head.aba /\ curr[t].aba # head.aba
      BY <1>1, <2>1, <3>1 DEF IInv, CurrentViews
    <3>3. curr[t].aba \in Nat /\ head.aba \in Nat
      BY <1>1 DEF IInv, TypeOK, Head_t
    <3>4. QED
      BY <3>2, <3>3
  <2>2. QED
    BY <1>1, <2>1, OnlyCasMovesHead DEF Contention
<1>2. QED
  BY <1>1, Invariant, PTL DEF Spec
=============================================================================
