------------------------ MODULE ThreadAtexit_proofs ------------------------
(***************************************************************************)
(* Proofs about ThreadAtexit, for any number of threads and callbacks.     *)
(* Callbacks are numbered as they are registered, and a list is run last   *)
(* in, first out, so that the numbers fall along it: what is said of the   *)
(* order of a list is said of the numbers of its members.                  *)
(***************************************************************************)
EXTENDS ThreadAtexit, SequenceTheorems, FiniteSetTheorems, TLAPS

-----------------------------------------------------------------------------
(* The inductive invariant. *)

Callback == [id : 1..Limit, what : {"pool", "early", "late", "flag"}]

TypeOK ==
  /\ tls_caller \in [Thread -> {"none", "live", "deleted"}]
  /\ call_list \in [Thread -> Seq(Callback)]
  /\ s_pool \in [Thread -> {"null", "live", "deleted"}]
  /\ phase \in [Thread -> {"none", "running", "test", "invoke", "callback", "gone"}]
  /\ cb \in [Thread -> Callback \union {None}]
  /\ starter \in [Thread -> Thread \union {None}]
  /\ joining \in [Thread -> Thread \union {None}]
  /\ s_set_test \in [Thread -> {None, FALSE, TRUE}]
  /\ owner \in Seq(Thread)
  /\ ran \in [1..Limit -> {0, 1}]

\* There is a number left for the callback of every test that has begun.
Testing == {c \in Thread : phase[c] = "test"}
InvRoom == IsFiniteSet(Testing) /\ Len(owner) + Cardinality(Testing) <= Limit

\* The numbers fall along a list.
Falling(s) == \A i, j \in 1..Len(s) : i < j => s[j].id < s[i].id

\* The callbacks of t not yet begun, and those not yet over.
Waiting(t) == Range(call_list[t])
Pending(t) == Waiting(t) \union {c \in {cb[t]} : phase[t] = "callback"}

\* A callback is pending, once, in the thread that registered it, until it has run.
InvIds ==
  /\ \A t \in Thread : Falling(call_list[t])
  /\ \A t \in Thread : \A c \in Pending(t) :
       c \in Callback /\ c.id <= Len(owner) /\ owner[c.id] = t /\ ran[c.id] = 0
  /\ \A t \in Thread : phase[t] = "callback" => \A c \in Waiting(t) : c.id # cb[t].id
  /\ \A t \in Thread : \A n \in 1..Len(owner) :
       owner[n] = t /\ ran[n] = 0 => \E c \in Pending(t) : c.id = n
  /\ \A n \in 1..Limit : n > Len(owner) => ran[n] = 0

\* A live pool has one callback that deletes it, and the callbacks registered
\* after that one come before it.
InvPool == \A t \in Thread :
  /\ s_pool[t] = "live" <=> \E c \in Pending(t) : c.what = "pool"
  /\ \A c, d \in Pending(t) : c.what = "pool" /\ d.what = "pool" => c = d
  /\ \A c \in Waiting(t) : c.what = "late" =>
       \E d \in Waiting(t) : d.what = "pool" /\ d.id < c.id
  /\ phase[t] = "callback" /\ cb[t].what = "late" => \E d \in Waiting(t) : d.what = "pool"

\* A thread without a caller, and one that is over, has no callbacks.
InvEnds == \A t \in Thread :
  /\ phase[t] \in {"none", "test"} => tls_caller[t] = "none"
  /\ tls_caller[t] = "none" \/ phase[t] = "gone" => call_list[t] = << >>

\* The thread that will set s_set_test, and the thread that waits for it.
IsTest(c) == phase[c] = "test" \/ \E d \in Pending(c) : d.what = "flag"
InvTest ==
  /\ \A c \in Thread : IsTest(c) =>
       starter[c] \in Thread /\ joining[starter[c]] = c /\ s_set_test[starter[c]] = FALSE
  /\ \A t \in Thread : s_set_test[t] # None => joining[t] \in Thread
  /\ \A t, c \in Thread : s_set_test[t] # None /\ joining[t] = c => s_set_test[t] = TRUE \/ IsTest(c)
  /\ \A c \in Thread : \A d, e \in Pending(c) : d.what = "flag" /\ e.what = "flag" => d = e
  /\ \A c \in Thread : \A d \in Pending(c) : d.what = "flag" => phase[c] # "test"

\* Only its starter joins a thread.
InvJoin ==
  /\ \A t, c \in Thread : joining[t] = c => starter[c] = t
  /\ \A c \in Thread : starter[c] \in Thread => phase[c] # "none"

IInv == TypeOK /\ InvRoom /\ InvIds /\ InvPool /\ InvEnds /\ InvTest /\ InvJoin

-----------------------------------------------------------------------------
(* Lists of callbacks. *)

LEMMA ListAdd ==
  ASSUME NEW s \in Seq(Callback), Falling(s), NEW c \in Callback, \A d \in Range(s) : d.id < c.id
  PROVE  /\ <<c>> \o s \in Seq(Callback) /\ <<c>> \o s # << >>
         /\ Range(<<c>> \o s) = Range(s) \union {c}
         /\ Falling(<<c>> \o s)
<1> DEFINE r == <<c>> \o s
<1>1. /\ r \in Seq(Callback) /\ r # << >> /\ Len(r) = Len(s) + 1 /\ Len(s) \in Nat
      /\ r[1] = c /\ \A i \in 2..Len(r) : r[i] = s[i - 1] /\ i - 1 \in 1..Len(s)
  OBVIOUS
<1>2. Range(r) = Range(s) \union {c}
  <2> DEFINE one == <<c>>
  <2>1. one \in Seq(Callback) /\ Range(one) = {c}
    BY DEF Range
  <2> HIDE DEF one
  <2>2. Range(one \o s) = Range(one) \union Range(s)
    BY <2>1, RangeConcatenation
  <2>3. QED
    BY <2>1, <2>2 DEF one
<1>3. Falling(r)
  <2>1. SUFFICES ASSUME NEW i \in 1..Len(r), NEW j \in 1..Len(r), i < j PROVE r[j].id < r[i].id
    BY DEF Falling
  <2>2. r[j] = s[j - 1] /\ j - 1 \in 1..Len(s) /\ s[j - 1] \in Range(s)
    <3>1. j \in 2..Len(r)
      BY <1>1, <2>1
    <3>2. QED
      BY <1>1, <3>1, RangeEquality
  <2>3. CASE i = 1
    BY <1>1, <2>2, <2>3
  <2>4. CASE i # 1
    <3>1. i \in 2..Len(r)
      BY <1>1, <2>4
    <3>2. r[i] = s[i - 1] /\ i - 1 \in 1..Len(s) /\ i - 1 < j - 1
      BY <1>1, <2>1, <3>1
    <3>3. QED
      BY <2>2, <3>2 DEF Falling
  <2>5. QED
    BY <2>3, <2>4
<1>4. QED
  BY <1>1, <1>2, <1>3

LEMMA ListRest ==
  ASSUME NEW s \in Seq(Callback), Falling(s), s # << >>
  PROVE  /\ Head(s) \in Callback /\ Tail(s) \in Seq(Callback) /\ Falling(Tail(s))
         /\ Range(s) = Range(Tail(s)) \union {Head(s)}
         /\ \A d \in Range(Tail(s)) : d.id < Head(s).id
<1> DEFINE r == Tail(s)
<1>1. /\ Len(s) \in Nat \ {0} /\ Head(s) = s[1] /\ s[1] \in Callback /\ r \in Seq(Callback)
      /\ Len(r) = Len(s) - 1 /\ Len(r) \in Nat
      /\ \A i \in 1..Len(r) : r[i] = s[i + 1] /\ i + 1 \in 2..Len(s)
  <2>1. Len(s) \in Nat \ {0} /\ Head(s) = s[1] /\ s[1] \in Callback
    BY EmptySeq
  <2>2. r \in Seq(Callback) /\ Len(r) = Len(s) - 1 /\ \A i \in 1..Len(r) : r[i] = s[i + 1]
    BY HeadTailProperties
  <2>3. QED
    BY <2>1, <2>2
<1>2. Range(s) = {s[i] : i \in 1..Len(s)} /\ Range(r) = {r[i] : i \in 1..Len(r)}
  <2>1. Range(s) = {s[i] : i \in 1..Len(s)}
    BY RangeEquality
  <2>2. r \in Seq(Callback)
    BY <1>1
  <2> HIDE DEF r
  <2>3. Range(r) = {r[i] : i \in 1..Len(r)}
    BY <2>2, RangeEquality
  <2>4. QED
    BY <2>1, <2>3
<1>3. Falling(r)
  BY <1>1 DEF Falling
<1>4. \A d \in Range(r) : d.id < Head(s).id
  BY <1>1, <1>2 DEF Falling
<1>5. Range(s) \subseteq Range(r) \union {Head(s)}
  <2>1. SUFFICES ASSUME NEW i \in 1..Len(s), i # 1 PROVE s[i] \in Range(r)
    BY <1>1, <1>2
  <2>2. i - 1 \in 1..Len(r) /\ r[i - 1] = s[i]
    BY <1>1, <2>1
  <2>3. QED
    BY <1>2, <2>2
<1>6. Range(r) \union {Head(s)} \subseteq Range(s)
  BY <1>1, <1>2
<1>7. QED
  BY <1>1, <1>3, <1>4, <1>5, <1>6

LEMMA EmptyList == Range(<< >>) = {} /\ Falling(<< >>) /\ \A S : << >> \in Seq(S)
BY DEF Range, Falling

-----------------------------------------------------------------------------
(* What the steps have in common. *)

\* A step that neither registers, begins nor ends a callback.
CallsKept ==
  /\ UNCHANGED <<call_list, owner, cb, ran>>
  /\ \A t \in Thread : phase'[t] = "callback" <=> phase[t] = "callback"

LEMMA KeptStep ==
  ASSUME IInv, CallsKept
  PROVE  /\ \A t \in Thread : Pending(t)' = Pending(t) /\ Waiting(t)' = Waiting(t)
         /\ InvIds'
<1>1. \A t \in Thread : Pending(t)' = Pending(t) /\ Waiting(t)' = Waiting(t)
  BY DEF CallsKept, Pending, Waiting
<1>2. InvIds'
  BY <1>1 DEF CallsKept, IInv, InvIds
<1>3. QED
  BY <1>1, <1>2

\* If the pools stay as well, so does what is said of them.
LEMMA KeptPool ==
  ASSUME IInv, CallsKept, UNCHANGED s_pool
  PROVE  InvPool'
BY KeptStep DEF CallsKept, IInv, InvPool

\* A step that neither starts nor joins a thread.
LEMMA KeptJoin ==
  ASSUME IInv, UNCHANGED <<starter, joining>>,
         \A t \in Thread : phase'[t] = "none" => phase[t] = "none"
  PROVE  InvJoin'
BY DEF IInv, InvJoin

\* A step that registers a callback.
New(what) == [id |-> Len(owner) + 1, what |-> what]

LEMMA AddStep ==
  ASSUME IInv, NEW t \in Thread, NEW what \in {"pool", "early", "late", "flag"},
         AddCallback(t, what), Len(owner) < Limit, UNCHANGED <<cb, ran>>,
         \A u \in Thread : phase'[u] = "callback" <=> phase[u] = "callback"
  PROVE  /\ New(what) \in Callback
         /\ tls_caller' = [tls_caller EXCEPT ![t] = "live"]
         /\ owner' \in Seq(Thread) /\ Len(owner') = Len(owner) + 1
         /\ call_list' \in [Thread -> Seq(Callback)] /\ call_list'[t] # << >>
         /\ \A u \in Thread : u # t => call_list'[u] = call_list[u]
         /\ Waiting(t)' = Waiting(t) \union {New(what)}
         /\ Pending(t)' = Pending(t) \union {New(what)}
         /\ \A u \in Thread : u # t => Waiting(u)' = Waiting(u) /\ Pending(u)' = Pending(u)
         /\ \A u \in Thread : \A c \in Pending(u) : c.id < New(what).id
         /\ InvIds'
<1> DEFINE n == Len(owner) + 1
           c == New(what)
<1>1. /\ owner \in Seq(Thread) /\ Len(owner) \in Nat /\ Limit \in Nat
      /\ call_list \in [Thread -> Seq(Callback)]
  BY LimitAssumption DEF IInv, TypeOK
<1>2. c \in Callback /\ c.id = n /\ c.what = what /\ n \in 1..Limit
  BY <1>1 DEF New, Callback
<1>3. /\ owner' \in Seq(Thread) /\ Len(owner') = n /\ owner'[n] = t
      /\ \A i \in 1..Len(owner) : owner'[i] = owner[i]
  BY <1>1 DEF AddCallback
<1>4. \A u \in Thread : \A d \in Pending(u) : d \in Callback /\ d.id <= Len(owner) /\ d.id < n
  BY <1>1 DEF IInv, InvIds, Callback
<1>5. \A d \in Waiting(t) : d.id < c.id
  BY <1>2, <1>4 DEF Pending
<1>6. /\ <<c>> \o call_list[t] \in Seq(Callback) /\ <<c>> \o call_list[t] # << >>
      /\ Range(<<c>> \o call_list[t]) = Waiting(t) \union {c}
      /\ Falling(<<c>> \o call_list[t])
  BY <1>1, <1>2, <1>5, ListAdd DEF Waiting, IInv, InvIds
<1>7. call_list' = [call_list EXCEPT ![t] = <<c>> \o @]
  BY DEF AddCallback, Add, New
<1>8. /\ call_list' \in [Thread -> Seq(Callback)] /\ call_list'[t] = <<c>> \o call_list[t]
      /\ \A u \in Thread : u # t => call_list'[u] = call_list[u]
  BY <1>1, <1>6, <1>7
<1>9. /\ Waiting(t)' = Waiting(t) \union {c} /\ Pending(t)' = Pending(t) \union {c}
      /\ \A u \in Thread : u # t => Waiting(u)' = Waiting(u) /\ Pending(u)' = Pending(u)
  BY <1>6, <1>8 DEF Waiting, Pending
<1>10. InvIds'
  <2>1. \A u \in Thread : Falling(call_list[u])'
    BY <1>6, <1>8 DEF IInv, InvIds, Falling
  <2>2. ASSUME NEW u \in Thread, NEW d \in Pending(u)'
        PROVE  d \in Callback /\ d.id <= Len(owner') /\ owner'[d.id] = u /\ ran'[d.id] = 0
    <3>1. CASE d = c /\ u = t
      BY <1>1, <1>2, <1>3, <3>1 DEF IInv, InvIds
    <3>2. CASE d \in Pending(u)
      <4>1. d \in Callback /\ d.id <= Len(owner) /\ owner[d.id] = u /\ ran[d.id] = 0
        BY <3>2 DEF IInv, InvIds
      <4>2. d.id \in 1..Len(owner)
        BY <1>1, <4>1 DEF Callback
      <4>3. QED
        BY <1>1, <1>3, <4>1, <4>2
    <3>3. QED
      BY <1>9, <2>2, <3>1, <3>2
  <2>3. ASSUME NEW u \in Thread, phase'[u] = "callback", NEW d \in Waiting(u)'
        PROVE  d.id # cb'[u].id
    <3>1. phase[u] = "callback" /\ cb'[u] = cb[u] /\ cb[u] \in Pending(u)
      BY <2>3 DEF Pending
    <3>2. CASE d = c
      <4>1. cb[u].id \in Nat /\ cb[u].id < n
        BY <1>4, <3>1 DEF Callback
      <4>2. QED
        BY <1>1, <1>2, <3>1, <3>2, <4>1
    <3>3. CASE d \in Waiting(u)
      BY <3>1, <3>3 DEF IInv, InvIds
    <3>4. QED
      BY <1>9, <2>3, <3>2, <3>3
  <2>4. ASSUME NEW u \in Thread, NEW i \in 1..Len(owner'), owner'[i] = u, ran'[i] = 0
        PROVE  \E d \in Pending(u)' : d.id = i
    <3>1. CASE i = n
      BY <1>2, <1>3, <1>9, <2>4, <3>1
    <3>2. CASE i # n
      <4>1. i \in 1..Len(owner) /\ owner[i] = u
        BY <1>1, <1>3, <2>4, <3>2
      <4>2. PICK d \in Pending(u) : d.id = i
        BY <2>4, <4>1 DEF IInv, InvIds
      <4>3. QED
        BY <1>9, <4>2
    <3>3. QED
      BY <3>1, <3>2
  <2>5. \A i \in 1..Limit : i > Len(owner') => ran'[i] = 0
    BY <1>1, <1>3 DEF IInv, InvIds
  <2>6. QED
    BY <2>1, <2>2, <2>3, <2>4, <2>5 DEF InvIds
<1>11. tls_caller' = [tls_caller EXCEPT ![t] = "live"]
  BY DEF AddCallback
<1>12. QED
  BY <1>2, <1>3, <1>4, <1>6, <1>8, <1>9, <1>10, <1>11

-----------------------------------------------------------------------------
(* Every step preserves the invariant. *)

\* The program registers a callback, with or without making its pool.
ProgramAdds(t, what) ==
  /\ InProgram(t) /\ Room
  /\ AddCallback(t, what)
  /\ UNCHANGED <<joinVars, phase, cb, ran>>

LEMMA ProgramAddsStep ==
  ASSUME IInv, NEW t \in Thread, NEW what \in {"pool", "early", "late"}, ProgramAdds(t, what),
         s_pool' \in [Thread -> {"null", "live", "deleted"}]
  PROVE  InvIds' /\ InvRoom' /\ InvEnds' /\ InvTest' /\ TypeOK'
<1> USE DEF ProgramAdds, joinVars
<1>1. /\ phase[t] \in {"running", "callback"} /\ owner \in Seq(Thread)
      /\ IsFiniteSet(Testing) /\ Len(owner) + Cardinality(Testing) < Limit
  BY DEF InProgram, Room, IInv, InvRoom, TypeOK, Testing
<1>2. Cardinality(Testing) \in Nat /\ Len(owner) \in Nat /\ Limit \in Nat
  BY <1>1, FS_CardinalityType, LimitAssumption
<1>3. Len(owner) < Limit
  BY <1>1, <1>2
<1>4. /\ tls_caller' = [tls_caller EXCEPT ![t] = "live"]
      /\ owner' \in Seq(Thread) /\ Len(owner') = Len(owner) + 1
      /\ call_list' \in [Thread -> Seq(Callback)]
      /\ \A u \in Thread : u # t => call_list'[u] = call_list[u]
      /\ Pending(t)' = Pending(t) \union {New(what)}
      /\ \A u \in Thread : u # t => Pending(u)' = Pending(u)
      /\ InvIds'
  BY <1>3, AddStep
<1>5. InvRoom'
  <2>1. Testing' = Testing
    BY DEF Testing
  <2>2. QED
    BY <1>1, <1>2, <1>4, <2>1 DEF InvRoom
<1>6. TypeOK'
  BY <1>4 DEF IInv, TypeOK
<1>7. InvEnds'
  BY <1>1, <1>4 DEF IInv, TypeOK, InvEnds
<1>8. InvTest'
  <2>1. New(what).what # "flag"
    BY DEF New
  <2>2. \A u \in Thread : \A d : d.what = "flag" => (d \in Pending(u)' <=> d \in Pending(u))
    BY <1>4, <2>1
  <2>3. \A u \in Thread : IsTest(u)' <=> IsTest(u)
    BY <2>2 DEF IsTest
  <2>4. QED
    BY <2>2, <2>3 DEF IInv, InvTest
<1>9. QED
  BY <1>4, <1>5, <1>6, <1>7, <1>8

LEMMA RegisterStep ==
  ASSUME IInv, NEW t \in Thread, Register(t)
  PROVE  IInv'
<1> DEFINE what == IF s_pool[t] = "live" THEN "late" ELSE "early"
           c == New(what)
<1>1. ProgramAdds(t, what) /\ UNCHANGED s_pool /\ what \in {"early", "late"}
  BY DEF Register, ProgramAdds
<1>2. InvIds' /\ InvRoom' /\ InvEnds' /\ InvTest' /\ TypeOK'
  BY <1>1, ProgramAddsStep DEF IInv, TypeOK
<1>3. /\ Pending(t)' = Pending(t) \union {c} /\ Waiting(t)' = Waiting(t) \union {c}
      /\ \A u \in Thread : u # t => Waiting(u)' = Waiting(u) /\ Pending(u)' = Pending(u)
      /\ \A u \in Thread : \A d \in Pending(u) : d.id < c.id
      /\ c.what = what
  <2>1. Len(owner) < Limit
    <3>1. Len(owner) \in Nat /\ Cardinality(Testing) \in Nat /\ Len(owner) + Cardinality(Testing) < Limit
      BY <1>1, FS_CardinalityType DEF ProgramAdds, Room, Testing, IInv, InvRoom, TypeOK
    <3>2. QED
      BY <3>1, LimitAssumption
  <2>2. QED
    BY <1>1, <2>1, AddStep DEF ProgramAdds, New
<1>4. InvPool'
  <2>1. \A u \in Thread : \A d : d.what = "pool" => (d \in Pending(u)' <=> d \in Pending(u))
    BY <1>1, <1>3
  <2>2. UNCHANGED <<s_pool, phase, cb>>
    BY <1>1 DEF ProgramAdds
  <2>3. ASSUME NEW u \in Thread, NEW d \in Waiting(u)', d.what = "late"
        PROVE  \E e \in Waiting(u)' : e.what = "pool" /\ e.id < d.id
    <3>1. CASE d \in Waiting(u)
      BY <1>3, <2>3, <3>1 DEF IInv, InvPool
    <3>2. CASE u = t /\ d = c
      <4>1. s_pool[t] = "live"
        BY <1>3, <2>3, <3>2
      <4>2. PICK e \in Pending(t) : e.what = "pool"
        BY <4>1 DEF IInv, InvPool
      <4>3. e \in Waiting(t)
        BY <1>1, <4>2 DEF ProgramAdds, InProgram, Pending
      <4>4. QED
        BY <1>3, <3>2, <4>2, <4>3
    <3>3. QED
      BY <1>3, <2>3, <3>1, <3>2
  <2>4. \A u \in Thread : Waiting(u) \subseteq Waiting(u)'
    BY <1>3
  <2>5. QED
    BY <2>1, <2>2, <2>3, <2>4 DEF IInv, InvPool
<1>5. InvJoin'
  BY <1>1, KeptJoin DEF ProgramAdds, joinVars
<1>6. QED
  BY <1>2, <1>4, <1>5 DEF IInv

LEMMA FirstUseStep ==
  ASSUME IInv, NEW t \in Thread, FirstUse(t)
  PROVE  IInv'
<1> DEFINE c == New("pool")
<1>1. ProgramAdds(t, "pool") /\ s_pool' = [s_pool EXCEPT ![t] = "live"] /\ s_pool[t] = "null"
  BY DEF FirstUse, ProgramAdds
<1>2. InvIds' /\ InvRoom' /\ InvEnds' /\ InvTest' /\ TypeOK'
  BY <1>1, ProgramAddsStep DEF IInv, TypeOK
<1>3. /\ Pending(t)' = Pending(t) \union {c} /\ Waiting(t)' = Waiting(t) \union {c}
      /\ \A u \in Thread : u # t => Waiting(u)' = Waiting(u) /\ Pending(u)' = Pending(u)
      /\ c.what = "pool"
  <2>1. Len(owner) < Limit
    <3>1. Len(owner) \in Nat /\ Cardinality(Testing) \in Nat /\ Len(owner) + Cardinality(Testing) < Limit
      BY <1>1, FS_CardinalityType DEF ProgramAdds, Room, Testing, IInv, InvRoom, TypeOK
    <3>2. QED
      BY <3>1, LimitAssumption
  <2>2. QED
    BY <1>1, <2>1, AddStep DEF ProgramAdds, New
<1>4. InvPool'
  <2>1. UNCHANGED <<phase, cb>> /\ s_pool \in [Thread -> {"null", "live", "deleted"}]
    BY <1>1 DEF ProgramAdds, IInv, TypeOK
  <2>2. \A d \in Pending(t) : d.what # "pool"
    BY <1>1 DEF IInv, InvPool
  <2>3. (\A d \in Waiting(t) : d.what # "late") /\ ~ (phase[t] = "callback" /\ cb[t].what = "late")
    BY <2>2 DEF IInv, InvPool, Pending
  <2>4. QED
    BY <1>1, <1>3, <2>1, <2>2, <2>3 DEF IInv, InvPool
<1>5. InvJoin'
  BY <1>1, KeptJoin DEF ProgramAdds, joinVars
<1>6. QED
  BY <1>2, <1>4, <1>5 DEF IInv

\* The steps that only start, join and end threads.
LEMMA RegisterNothingStep ==
  ASSUME IInv, NEW t \in Thread, RegisterNothing(t)
  PROVE  IInv'
<1> USE DEF RegisterNothing, joinVars
<1>1. CallsKept /\ UNCHANGED s_pool
  BY DEF CallsKept
<1>2. phase[t] \in {"running", "callback"}
  BY DEF InProgram
<1>3. TypeOK' /\ InvRoom'
  BY DEF IInv, TypeOK, InvRoom, Testing
<1>4. InvEnds'
  BY <1>2 DEF IInv, TypeOK, InvEnds
<1>5. InvTest'
  <2>1. \A u \in Thread : Pending(u)' = Pending(u) /\ (IsTest(u)' <=> IsTest(u))
    BY <1>1, KeptStep DEF IsTest
  <2>2. QED
    BY <2>1 DEF IInv, InvTest
<1>6. InvJoin'
  BY KeptJoin
<1>7. QED
  BY <1>1, <1>3, <1>4, <1>5, <1>6, KeptStep, KeptPool DEF IInv

LEMMA StartStep ==
  ASSUME IInv, NEW t \in Thread, NEW c \in Thread, Start(t, c)
  PROVE  IInv'
<1> USE DEF Start, NewThread, callVars
<1>1. /\ phase \in [Thread -> {"none", "running", "test", "invoke", "callback", "gone"}]
      /\ starter \in [Thread -> Thread \union {None}]
      /\ phase[c] = "none" /\ call_list[c] = << >> /\ tls_caller[c] = "none"
  BY DEF IInv, TypeOK, InvEnds
<1>2. CallsKept /\ UNCHANGED s_pool
  BY <1>1 DEF CallsKept
<1>3. TypeOK'
  BY DEF IInv, TypeOK
<1>4. InvRoom'
  <2>1. Testing' = Testing
    BY <1>1 DEF Testing
  <2>2. QED
    BY <2>1 DEF IInv, InvRoom
<1>5. InvEnds'
  BY <1>1 DEF IInv, InvEnds
<1>6. InvTest'
  <2>1. \A u \in Thread : Pending(u)' = Pending(u)
    BY <1>2, KeptStep
  <2>2. Pending(c) = {}
    BY <1>1, EmptyList DEF Pending, Waiting
  <2>3. ~ IsTest(c) /\ \A u \in Thread : IsTest(u)' <=> IsTest(u)
    BY <1>1, <2>1, <2>2 DEF IsTest
  <2>4. QED
    BY <1>1, <2>1, <2>2, <2>3 DEF IInv, InvTest
<1>7. InvJoin'
  <2>1. starter[c] \notin Thread /\ \A u \in Thread : joining[u] # c
    BY <1>1 DEF IInv, InvJoin
  <2>2. starter'[c] = t /\ \A u \in Thread : u # c => starter'[u] = starter[u]
    BY <1>1
  <2>3. phase'[c] # "none" /\ \A u \in Thread : u # c => phase'[u] = phase[u]
    BY <1>1
  <2>4. QED
    BY <2>1, <2>2, <2>3 DEF IInv, InvJoin
<1>8. QED
  BY <1>2, <1>3, <1>4, <1>5, <1>6, <1>7, KeptStep, KeptPool DEF IInv

LEMMA JoinStep ==
  ASSUME IInv, NEW t \in Thread, NEW c \in Thread, Join(t, c)
  PROVE  IInv'
<1> USE DEF Join, callVars
<1>1. CallsKept /\ UNCHANGED s_pool
  BY DEF CallsKept
<1>2. TypeOK' /\ InvRoom' /\ InvEnds'
  BY DEF IInv, TypeOK, InvRoom, Testing, InvEnds
<1>3. InvTest'
  <2>1. \A u \in Thread : Pending(u)' = Pending(u) /\ (IsTest(u)' <=> IsTest(u))
    BY <1>1, KeptStep DEF IsTest
  <2>2. joining[t] \notin Thread /\ s_set_test[t] = None
    BY ThreadAssumption DEF InProgram, IInv, InvTest
  <2>3. joining \in [Thread -> Thread \union {None}]
    BY DEF IInv, TypeOK
  <2>4. \A d \in Thread : IsTest(d) => starter[d] # t
    BY <2>2 DEF IInv, InvTest
  <2>5. QED
    BY <2>1, <2>2, <2>3, <2>4 DEF IInv, InvTest
<1>4. InvJoin'
  BY DEF IInv, TypeOK, InvJoin
<1>5. QED
  BY <1>1, <1>2, <1>3, <1>4, KeptStep, KeptPool DEF IInv

\* A thread that has ended is no test's any more.
LEMMA GoneIsNoTest ==
  ASSUME IInv, NEW c \in Thread, phase[c] = "gone"
  PROVE  Pending(c) = {} /\ ~ IsTest(c)
<1>1. call_list[c] = << >>
  BY DEF IInv, InvEnds
<1>2. QED
  BY <1>1, EmptyList DEF Pending, Waiting, IsTest

LEMMA JoinReturnsStep ==
  ASSUME IInv, NEW t \in Thread, JoinReturns(t) \/ TestReturns(t)
  PROVE  IInv'
<1> USE DEF JoinReturns, TestReturns, Ended, callVars
<1>1. CallsKept /\ UNCHANGED s_pool
  BY DEF CallsKept
<1>2. TypeOK' /\ InvRoom' /\ InvEnds'
  <2>1. /\ joining' \in [Thread -> Thread \union {None}]
        /\ starter' \in [Thread -> Thread \union {None}]
        /\ s_set_test' \in [Thread -> {None, FALSE, TRUE}]
    BY DEF IInv, TypeOK
  <2>2. UNCHANGED <<callVars, s_pool, phase, ran>>
    OBVIOUS
  <2>3. TypeOK'
    BY <2>1, <2>2 DEF IInv, TypeOK
  <2>4. InvRoom'
    BY <2>2 DEF IInv, InvRoom, Testing
  <2>5. InvEnds'
    BY <2>2 DEF IInv, InvEnds
  <2>6. QED
    BY <2>3, <2>4, <2>5
<1>3. InvTest'
  <2> DEFINE c == joining[t]
  <2>1. \A u \in Thread : Pending(u)' = Pending(u) /\ (IsTest(u)' <=> IsTest(u))
    BY <1>1, KeptStep DEF IsTest
  <2>2. /\ c \in Thread /\ joining \in [Thread -> Thread \union {None}]
        /\ starter \in [Thread -> Thread \union {None}]
        /\ s_set_test \in [Thread -> {None, FALSE, TRUE}]
    BY DEF IInv, TypeOK
  <2>3. ~ IsTest(c)
    BY <2>2, GoneIsNoTest
  <2>4. \A d \in Thread : IsTest(d) => d # c /\ starter[d] # t
    BY <2>3 DEF IInv, InvTest
  <2>5. /\ joining' = [joining EXCEPT ![t] = None]
        /\ starter' = [starter EXCEPT ![c] = None]
        /\ s_set_test'[t] = None /\ \A u \in Thread : u # t => s_set_test'[u] = s_set_test[u]
    BY <2>2
  <2>6. \A d \in Thread : IsTest(d)' =>
          starter'[d] \in Thread /\ joining'[starter'[d]] = d /\ s_set_test'[starter'[d]] = FALSE
    <3>1. SUFFICES ASSUME NEW d \in Thread, IsTest(d)
                   PROVE  starter'[d] \in Thread /\ joining'[starter'[d]] = d
                          /\ s_set_test'[starter'[d]] = FALSE
      BY <2>1
    <3>2. starter[d] \in Thread /\ joining[starter[d]] = d /\ s_set_test[starter[d]] = FALSE
      BY <3>1 DEF IInv, InvTest
    <3>3. starter'[d] = starter[d] /\ starter[d] # t
      BY <2>2, <2>4, <2>5, <3>1
    <3>4. QED
      BY <2>2, <2>5, <3>2, <3>3
  <2>7. /\ \A u \in Thread : s_set_test'[u] # None => joining'[u] \in Thread
        /\ \A u, d \in Thread : s_set_test'[u] # None /\ joining'[u] = d =>
             s_set_test'[u] = TRUE \/ IsTest(d)'
    BY <2>1, <2>2, <2>5 DEF IInv, InvTest
  <2>8. QED
    BY <2>1, <2>6, <2>7 DEF IInv, InvTest
<1>4. InvJoin'
  <2>1. /\ joining[t] \in Thread /\ joining \in [Thread -> Thread \union {None}]
        /\ starter \in [Thread -> Thread \union {None}]
    BY DEF IInv, TypeOK
  <2>2. /\ joining'[t] = None /\ \A u \in Thread : u # t => joining'[u] = joining[u]
        /\ starter'[joining[t]] = None
        /\ \A u \in Thread : u # joining[t] => starter'[u] = starter[u]
    BY <2>1
  <2>3. \A u \in Thread : joining[u] = joining[t] => u = t
    BY <2>1 DEF IInv, InvJoin
  <2>4. UNCHANGED phase
    OBVIOUS
  <2>5. QED
    BY <2>1, <2>2, <2>3, <2>4, ThreadAssumption DEF IInv, InvJoin
<1>5. QED
  BY <1>1, <1>2, <1>3, <1>4, KeptStep, KeptPool DEF IInv

LEMMA TestBeginStep ==
  ASSUME IInv, NEW t \in Thread, NEW c \in Thread, TestBegin(t, c)
  PROVE  IInv'
<1> USE DEF TestBegin, NewThread, callVars
<1>1. /\ phase \in [Thread -> {"none", "running", "test", "invoke", "callback", "gone"}]
      /\ starter \in [Thread -> Thread \union {None}]
      /\ joining \in [Thread -> Thread \union {None}]
      /\ s_set_test \in [Thread -> {None, FALSE, TRUE}]
      /\ phase[c] = "none" /\ call_list[c] = << >> /\ tls_caller[c] = "none"
  BY DEF IInv, TypeOK, InvEnds
<1>2. CallsKept /\ UNCHANGED s_pool
  BY <1>1 DEF CallsKept
<1>3. TypeOK'
  BY DEF IInv, TypeOK
<1>4. InvRoom'
  <2>1. Testing' = Testing \union {c} /\ c \notin Testing
    BY <1>1 DEF Testing
  <2>2. /\ IsFiniteSet(Testing) /\ Len(owner) \in Nat
        /\ Len(owner) + Cardinality(Testing) < Limit
    BY DEF Room, Testing, IInv, InvRoom, TypeOK
  <2>3. IsFiniteSet(Testing') /\ Cardinality(Testing') = Cardinality(Testing) + 1
    BY <2>1, <2>2, FS_AddElement
  <2>4. Cardinality(Testing) \in Nat /\ Limit \in Nat
    BY <2>2, FS_CardinalityType, LimitAssumption
  <2>5. QED
    BY <2>2, <2>3, <2>4 DEF InvRoom
<1>5. InvEnds'
  BY <1>1 DEF IInv, InvEnds
<1>6. InvTest'
  <2>1. \A u \in Thread : Pending(u)' = Pending(u)
    BY <1>2, KeptStep
  <2>2. Pending(c) = {}
    BY <1>1, EmptyList DEF Pending, Waiting
  <2>3. ~ IsTest(c) /\ IsTest(c)' /\ \A u \in Thread : u # c => (IsTest(u)' <=> IsTest(u))
    BY <1>1, <2>1, <2>2 DEF IsTest
  <2>4. joining[t] \notin Thread /\ s_set_test[t] = None
    BY ThreadAssumption DEF InProgram, IInv, InvTest
  <2>5. \A d \in Thread : IsTest(d) => d # c /\ starter[d] # t
    BY <2>3, <2>4 DEF IInv, InvTest
  <2>6. /\ starter'[c] = t /\ joining'[t] = c /\ s_set_test'[t] = FALSE
         /\ \A u \in Thread : u # t => joining'[u] = joining[u] /\ s_set_test'[u] = s_set_test[u]
         /\ \A d \in Thread : d # c => starter'[d] = starter[d]
    BY <1>1
  <2>7. \A d \in Thread : IsTest(d)' =>
          starter'[d] \in Thread /\ joining'[starter'[d]] = d /\ s_set_test'[starter'[d]] = FALSE
    <3>1. SUFFICES ASSUME NEW d \in Thread, d # c, IsTest(d)
                   PROVE  starter'[d] \in Thread /\ joining'[starter'[d]] = d
                          /\ s_set_test'[starter'[d]] = FALSE
      <4>1. starter'[c] \in Thread /\ joining'[starter'[c]] = c /\ s_set_test'[starter'[c]] = FALSE
        BY <2>6, Zenon
      <4>2. QED
        BY <2>3, <4>1, Zenon
    <3>2. /\ starter[d] \in Thread /\ joining[starter[d]] = d /\ s_set_test[starter[d]] = FALSE
          /\ starter[d] # t
      BY <2>5, <3>1 DEF IInv, InvTest
    <3>3. QED
      BY <2>6, <3>1, <3>2
  <2>8. ASSUME NEW u \in Thread, s_set_test'[u] # None PROVE joining'[u] \in Thread
    <3>1. CASE u = t
      BY <2>6, <3>1
    <3>2. CASE u # t
      <4>1. joining'[u] = joining[u] /\ s_set_test[u] # None
        BY <2>6, <2>8, <3>2
      <4>2. QED
        BY <4>1 DEF IInv, InvTest
    <3>3. QED
      BY <3>1, <3>2
  <2>9. ASSUME NEW u \in Thread, NEW d \in Thread, s_set_test'[u] # None, joining'[u] = d
        PROVE  s_set_test'[u] = TRUE \/ IsTest(d)'
    <3>1. CASE u = t
      BY <2>3, <2>6, <2>9, <3>1
    <3>2. CASE u # t
      <4>1. s_set_test'[u] = s_set_test[u] /\ joining[u] = d /\ s_set_test[u] # None
        BY <2>6, <2>9, <3>2
      <4>2. s_set_test[u] = TRUE \/ IsTest(d)
        BY <4>1 DEF IInv, InvTest
      <4>3. IsTest(d) => IsTest(d)'
        BY <2>3
      <4>4. QED
        BY <4>1, <4>2, <4>3
    <3>3. QED
      BY <3>1, <3>2
  <2>10. \A d \in Thread : \A e \in Pending(d)' : e.what = "flag" => phase'[d] # "test"
    BY <1>1, <2>1, <2>2 DEF IInv, InvTest
  <2>11. \A u \in Thread : \A d, e \in Pending(u)' : d.what = "flag" /\ e.what = "flag" => d = e
    BY <2>1 DEF IInv, InvTest
  <2>12. QED
    BY <2>7, <2>8, <2>9, <2>10, <2>11 DEF InvTest
<1>7. InvJoin'
  <2>1. starter[c] \notin Thread /\ \A u \in Thread : joining[u] # c
    BY <1>1 DEF IInv, InvJoin
  <2>2. starter'[c] = t /\ \A u \in Thread : u # c => starter'[u] = starter[u]
    BY <1>1
  <2>3. phase'[c] # "none" /\ \A u \in Thread : u # c => phase'[u] = phase[u]
    BY <1>1
  <2>4. joining'[t] = c /\ \A u \in Thread : u # t => joining'[u] = joining[u]
    BY <1>1
  <2>5. QED
    BY <2>1, <2>2, <2>3, <2>4 DEF IInv, InvJoin
<1>8. QED
  BY <1>2, <1>3, <1>4, <1>5, <1>6, <1>7, KeptStep, KeptPool DEF IInv

LEMMA EndStep ==
  ASSUME IInv, NEW t \in Thread, End(t) \/ InvokeDone(t)
  PROVE  IInv'
<1> USE DEF End, InvokeDone, callVars, joinVars
<1>1. /\ phase \in [Thread -> {"none", "running", "test", "invoke", "callback", "gone"}]
      /\ tls_caller \in [Thread -> {"none", "live", "deleted"}]
      /\ phase[t] \in {"running", "invoke"} /\ phase'[t] \in {"gone", "invoke"}
      /\ \A u \in Thread : u # t => phase'[u] = phase[u]
  BY DEF IInv, TypeOK
<1>2. CallsKept /\ UNCHANGED s_pool
  BY <1>1 DEF CallsKept
<1>3. TypeOK'
  BY DEF IInv, TypeOK
<1>4. InvRoom'
  <2>1. Testing' = Testing
    BY <1>1 DEF Testing
  <2>2. QED
    BY <2>1 DEF IInv, InvRoom
<1>5. InvEnds'
  BY <1>1 DEF IInv, InvEnds
<1>6. InvTest'
  <2>1. \A u \in Thread : Pending(u)' = Pending(u)
    BY <1>2, KeptStep
  <2>2. \A u \in Thread : IsTest(u)' <=> IsTest(u)
    BY <1>1, <2>1 DEF IsTest
  <2>3. \A u \in Thread : phase'[u] = "test" => phase[u] = "test"
    BY <1>1
  <2>4. QED
    BY <2>1, <2>2, <2>3 DEF IInv, InvTest
<1>7. InvJoin'
  BY <1>1, KeptJoin
<1>8. QED
  BY <1>2, <1>3, <1>4, <1>5, <1>6, <1>7, KeptStep, KeptPool DEF IInv

LEMMA TestBodyStep ==
  ASSUME IInv, NEW t \in Thread, TestBody(t)
  PROVE  IInv'
<1> USE DEF TestBody, joinVars
<1> DEFINE c == New("flag")
<1>1. /\ phase \in [Thread -> {"none", "running", "test", "invoke", "callback", "gone"}]
      /\ tls_caller \in [Thread -> {"none", "live", "deleted"}]
      /\ phase[t] = "test" /\ call_list[t] = << >>
      /\ phase'[t] = "invoke" /\ \A u \in Thread : u # t => phase'[u] = phase[u]
  BY DEF IInv, TypeOK, InvEnds
<1>2. /\ IsFiniteSet(Testing) /\ Len(owner) \in Nat /\ Limit \in Nat
      /\ Cardinality(Testing) \in Nat /\ Len(owner) + Cardinality(Testing) <= Limit
  BY FS_CardinalityType, LimitAssumption DEF IInv, InvRoom, TypeOK
<1>3. /\ t \in Testing /\ Testing' = Testing \ {t}
      /\ IsFiniteSet(Testing') /\ Cardinality(Testing') = Cardinality(Testing) - 1
      /\ Cardinality(Testing') \in Nat
  <2>1. t \in Testing /\ Testing' = Testing \ {t}
    BY <1>1 DEF Testing
  <2>2. IsFiniteSet(Testing') /\ Cardinality(Testing') = Cardinality(Testing) - 1
    BY <1>2, <2>1, FS_RemoveElement
  <2>3. QED
    BY <2>1, <2>2, FS_CardinalityType
<1>4. Len(owner) < Limit
  BY <1>2, <1>3
<1>5. /\ tls_caller' = [tls_caller EXCEPT ![t] = "live"]
      /\ owner' \in Seq(Thread) /\ Len(owner') = Len(owner) + 1
      /\ call_list' \in [Thread -> Seq(Callback)]
      /\ \A u \in Thread : u # t => call_list'[u] = call_list[u]
      /\ Waiting(t)' = Waiting(t) \union {c} /\ Pending(t)' = Pending(t) \union {c}
      /\ \A u \in Thread : u # t => Waiting(u)' = Waiting(u) /\ Pending(u)' = Pending(u)
      /\ InvIds'
  BY <1>1, <1>4, AddStep
<1>6. Waiting(t) = {} /\ Pending(t) = {} /\ c.what = "flag"
  BY <1>1, EmptyList DEF Pending, Waiting, New
<1>7. TypeOK'
  BY <1>5 DEF IInv, TypeOK
<1>8. InvRoom'
  BY <1>2, <1>3, <1>5 DEF InvRoom
<1>9. InvPool'
  <2>1. \A u \in Thread : \A d : d.what # "flag" =>
          (d \in Pending(u)' <=> d \in Pending(u)) /\ (d \in Waiting(u)' <=> d \in Waiting(u))
    BY <1>5, <1>6
  <2>2. UNCHANGED <<s_pool, cb>> /\ \A u \in Thread : phase'[u] = "callback" => phase[u] = "callback"
    BY <1>1
  <2>3. QED
    BY <2>1, <2>2 DEF IInv, InvPool
<1>10. InvEnds'
  BY <1>1, <1>5 DEF IInv, InvEnds
<1>11. InvTest'
  <2>1. IsTest(t) /\ IsTest(t)'
    BY <1>1, <1>5, <1>6 DEF IsTest
  <2>2. \A u \in Thread : IsTest(u)' <=> IsTest(u)
    BY <1>1, <1>5, <2>1 DEF IsTest
  <2>3. \A u \in Thread : \A d, e \in Pending(u)' : d.what = "flag" /\ e.what = "flag" => d = e
    <3>1. Pending(t)' = {c} /\ \A u \in Thread : u # t => Pending(u)' = Pending(u)
      BY <1>5, <1>6
    <3>2. QED
      BY <3>1 DEF IInv, InvTest
  <2>4. \A u \in Thread : \A d \in Pending(u)' : d.what = "flag" => phase'[u] # "test"
    BY <1>1, <1>5 DEF IInv, InvTest
  <2>5. QED
    BY <2>2, <2>3, <2>4 DEF IInv, InvTest
<1>12. InvJoin'
  BY <1>1, KeptJoin
<1>13. QED
  BY <1>5, <1>7, <1>8, <1>9, <1>10, <1>11, <1>12 DEF IInv

LEMMA InvokeStep ==
  ASSUME IInv, NEW t \in Thread, Invoke(t)
  PROVE  IInv'
<1> USE DEF Invoke, joinVars
<1> DEFINE c == Head(call_list[t])
<1>1. /\ phase \in [Thread -> {"none", "running", "test", "invoke", "callback", "gone"}]
      /\ call_list \in [Thread -> Seq(Callback)] /\ Falling(call_list[t])
      /\ phase[t] = "invoke" /\ call_list[t] # << >>
      /\ phase'[t] = "callback" /\ \A u \in Thread : u # t => phase'[u] = phase[u]
  BY DEF IInv, TypeOK, InvIds
<1>2. /\ c \in Callback /\ Tail(call_list[t]) \in Seq(Callback) /\ Falling(Tail(call_list[t]))
      /\ Waiting(t) = Range(Tail(call_list[t])) \union {c}
      /\ \A d \in Range(Tail(call_list[t])) : d.id < c.id
  BY <1>1, ListRest DEF Waiting
<1>3. /\ call_list' \in [Thread -> Seq(Callback)] /\ call_list'[t] = Tail(call_list[t])
      /\ cb' \in [Thread -> Callback \union {None}] /\ cb'[t] = c
      /\ \A u \in Thread : u # t => call_list'[u] = call_list[u] /\ cb'[u] = cb[u]
  BY <1>1, <1>2 DEF Rest, IInv, TypeOK
<1>4. PICK W : W = Range(Tail(call_list[t]))
  OBVIOUS
<1>5. /\ Waiting(t)' = W /\ Waiting(t) = W \union {c} /\ \A d \in W : d.id < c.id
      /\ \A u \in Thread : u # t => Waiting(u)' = Waiting(u) /\ Pending(u)' = Pending(u)
  BY <1>1, <1>2, <1>3, <1>4 DEF Waiting, Pending
<1>6. \A u \in Thread : Pending(u)' = Pending(u)
  <2>1. Pending(t) = W \union {c} /\ Pending(t)' = W \union {c}
    BY <1>1, <1>3, <1>5 DEF Pending
  <2>2. QED
    BY <1>5, <2>1
<1>7. TypeOK'
  BY <1>3 DEF IInv, TypeOK
<1>8. InvRoom'
  <2>1. Testing' = Testing
    BY <1>1 DEF Testing
  <2>2. QED
    BY <2>1 DEF IInv, InvRoom
<1>9. InvEnds'
  BY <1>1, <1>3 DEF IInv, InvEnds
<1>10. InvIds'
  <2>1. ASSUME NEW u \in Thread PROVE Falling(call_list[u])'
    <3>1. CASE u = t
      BY <1>2, <1>3, <3>1, Zenon DEF Falling
    <3>2. CASE u # t
      <4>1. call_list'[u] = call_list[u] /\ Falling(call_list[u])
        BY <1>3, <3>2, Zenon DEF IInv, InvIds
      <4>2. QED
        BY <4>1, Zenon DEF Falling
    <3>3. QED
      BY <3>1, <3>2
  <2>2. \A u \in Thread : \A d \in Pending(u)' :
          d \in Callback /\ d.id <= Len(owner) /\ owner[d.id] = u /\ ran[d.id] = 0
    BY <1>6 DEF IInv, InvIds
  <2>3. ASSUME NEW u \in Thread, phase'[u] = "callback", NEW d \in Waiting(u)'
        PROVE  d.id # cb'[u].id
    <3>1. CASE u = t
      <4>1. d \in W /\ d \in Callback /\ d.id < c.id
        <5>1. d \in W /\ d \in Waiting(t)
          BY <1>5, <2>3, <3>1
        <5>2. QED
          BY <1>5, <5>1 DEF Pending, IInv, InvIds
      <4>2. d.id \in Nat /\ c.id \in Nat
        BY <1>2, <4>1, LimitAssumption DEF Callback
      <4>3. QED
        BY <1>3, <3>1, <4>1, <4>2
    <3>2. CASE u # t
      BY <1>1, <1>3, <1>5, <2>3, <3>2 DEF IInv, InvIds
    <3>3. QED
      BY <3>1, <3>2
  <2>4. \A u \in Thread : \A n \in 1..Len(owner) :
          owner[n] = u /\ ran[n] = 0 => \E d \in Pending(u)' : d.id = n
    BY <1>6 DEF IInv, InvIds
  <2>5. QED
    BY <2>1, <2>2, <2>3, <2>4 DEF IInv, InvIds
<1>11. InvPool'
  <2>1. \A d \in W : d \in Callback /\ d.id \in Nat /\ ~ (c.id < d.id)
    <3>1. \A d \in W : d \in Callback
      BY <1>5 DEF Pending, IInv, InvIds
    <3>2. QED
      BY <1>2, <1>5, <3>1, LimitAssumption DEF Callback
  <2>2. \A d \in W : d.what = "late" => \E e \in W : e.what = "pool" /\ e.id < d.id
    <3>1. SUFFICES ASSUME NEW d \in W, d.what = "late"
                   PROVE  \E e \in W : e.what = "pool" /\ e.id < d.id
      OBVIOUS
    <3>2. PICK e \in Waiting(t) : e.what = "pool" /\ e.id < d.id
      BY <1>5, <3>1 DEF IInv, InvPool
    <3>3. e # c
      BY <2>1, <3>1, <3>2
    <3>4. QED
      BY <1>5, <3>2, <3>3
  <2>3. c.what = "late" => \E e \in W : e.what = "pool"
    <3>1. SUFFICES ASSUME c.what = "late" PROVE \E e \in W : e.what = "pool"
      OBVIOUS
    <3>2. PICK e \in Waiting(t) : e.what = "pool"
      BY <1>5, <3>1 DEF IInv, InvPool
    <3>3. QED
      BY <1>5, <3>1, <3>2
  <2>4. \A u \in Thread : \A d \in Waiting(u)' : d.what = "late" =>
          \E e \in Waiting(u)' : e.what = "pool" /\ e.id < d.id
    BY <1>5, <2>2 DEF IInv, InvPool
  <2>5. \A u \in Thread : phase'[u] = "callback" /\ cb'[u].what = "late" =>
          \E e \in Waiting(u)' : e.what = "pool"
    BY <1>1, <1>3, <1>5, <2>3 DEF IInv, InvPool
  <2>6. QED
    BY <1>6, <2>4, <2>5 DEF IInv, InvPool
<1>12. InvTest'
  <2>1. \A u \in Thread : IsTest(u)' <=> IsTest(u)
    BY <1>1, <1>6 DEF IsTest
  <2>2. \A u \in Thread : phase'[u] = "test" => phase[u] = "test"
    BY <1>1
  <2>3. QED
    BY <1>6, <2>1, <2>2 DEF IInv, InvTest
<1>13. InvJoin'
  BY <1>1, KeptJoin
<1>14. QED
  BY <1>7, <1>8, <1>9, <1>10, <1>11, <1>12, <1>13 DEF IInv

LEMMA CallbackReturnsStep ==
  ASSUME IInv, NEW t \in Thread, CallbackReturns(t)
  PROVE  IInv'
<1> USE DEF CallbackReturns, callVars
<1> DEFINE c == cb[t]
<1>1. /\ phase \in [Thread -> {"none", "running", "test", "invoke", "callback", "gone"}]
      /\ s_pool \in [Thread -> {"null", "live", "deleted"}]
      /\ s_set_test \in [Thread -> {None, FALSE, TRUE}]
      /\ ran \in [1..Limit -> {0, 1}] /\ Limit \in Nat
      /\ cb \in [Thread -> Callback \union {None}]
      /\ phase[t] = "callback" /\ phase'[t] = "invoke"
      /\ \A u \in Thread : u # t => phase'[u] = phase[u] /\ cb'[u] = cb[u]
  BY LimitAssumption DEF IInv, TypeOK
<1>2. /\ c \in Pending(t) /\ Pending(t) = Waiting(t) \union {c}
      /\ \A d \in Waiting(t) : d.id # c.id
  BY <1>1 DEF Pending, IInv, InvIds
<1>3. /\ c \in Callback /\ c.id \in 1..Limit /\ owner[c.id] = t /\ ran[c.id] = 0
      /\ c.id \in 1..Len(owner)
  <2>1. c \in Callback /\ c.id <= Len(owner) /\ owner[c.id] = t /\ ran[c.id] = 0
    BY <1>2 DEF IInv, InvIds
  <2>2. Len(owner) \in Nat
    BY DEF IInv, TypeOK
  <2>3. QED
    BY <1>1, <2>1, <2>2 DEF Callback
<1>4. /\ \A u \in Thread : Waiting(u)' = Waiting(u)
      /\ Pending(t)' = Waiting(t) /\ c \notin Waiting(t)
      /\ \A u \in Thread : u # t => Pending(u)' = Pending(u)
  <2>1. \A u \in Thread : Waiting(u)' = Waiting(u)
    BY DEF Waiting
  <2>2. QED
    BY <1>1, <1>2, <2>1 DEF Pending
<1>5. /\ ran' \in [1..Limit -> {0, 1}] /\ ran'[c.id] = 1
      /\ \A n \in 1..Limit : n # c.id => ran'[n] = ran[n]
  BY <1>1, <1>3
<1>6. /\ \A u \in Thread : u # t => s_pool'[u] = s_pool[u]
      /\ s_pool' \in [Thread -> {"null", "live", "deleted"}]
      /\ s_pool'[t] = "live" <=> s_pool[t] = "live" /\ c.what # "pool"
  BY <1>1
<1>7. InvRoom'
  <2>1. Testing' = Testing
    BY <1>1 DEF Testing
  <2>2. QED
    BY <2>1 DEF IInv, InvRoom
<1>8. InvEnds'
  BY <1>1 DEF IInv, InvEnds
<1>9. InvIds'
  <2>1. ASSUME NEW u \in Thread, NEW d \in Pending(u)'
        PROVE  d \in Callback /\ d.id <= Len(owner) /\ owner[d.id] = u /\ ran'[d.id] = 0
    <3>1. d \in Pending(u)
      BY <1>2, <1>4, <2>1
    <3>2. d \in Callback /\ d.id <= Len(owner) /\ owner[d.id] = u /\ ran[d.id] = 0
      BY <3>1 DEF IInv, InvIds
    <3>3. d.id # c.id
      BY <1>2, <1>3, <1>4, <2>1, <3>2
    <3>4. QED
      BY <1>5, <3>2, <3>3 DEF Callback
  <2>2. \A u \in Thread : phase'[u] = "callback" => \A d \in Waiting(u)' : d.id # cb'[u].id
    BY <1>1, <1>4 DEF IInv, InvIds
  <2>3. ASSUME NEW u \in Thread, NEW n \in 1..Len(owner), owner[n] = u, ran'[n] = 0
        PROVE  \E d \in Pending(u)' : d.id = n
    <3>1. n # c.id
      BY <1>5, <2>3
    <3>2. ran[n] = 0
      <4>1. Len(owner) <= Limit
        <5>1. Len(owner) \in Nat /\ Cardinality(Testing) \in Nat /\ Len(owner) + Cardinality(Testing) <= Limit
          BY FS_CardinalityType DEF IInv, InvRoom, TypeOK
        <5>2. QED
          BY <1>1, <5>1
      <4>2. n \in 1..Limit
        BY <1>1, <4>1
      <4>3. QED
        BY <1>5, <2>3, <3>1, <4>2
    <3>3. PICK d \in Pending(u) : d.id = n
      BY <2>3, <3>2 DEF IInv, InvIds
    <3>4. d \in Pending(u)'
      BY <1>2, <1>4, <3>1, <3>3
    <3>5. QED
      BY <3>3, <3>4
  <2>4. \A n \in 1..Limit : n > Len(owner) => ran'[n] = 0
    <3>1. SUFFICES ASSUME NEW n \in 1..Limit, n > Len(owner) PROVE ran'[n] = 0
      OBVIOUS
    <3>2. n # c.id /\ ran[n] = 0
      <4>1. Len(owner) \in Nat
        BY DEF IInv, TypeOK
      <4>2. n # c.id
        BY <1>1, <1>3, <3>1, <4>1
      <4>3. QED
        BY <3>1, <4>2 DEF IInv, InvIds
    <3>3. QED
      BY <1>5, <3>1, <3>2
  <2>5. \A u \in Thread : Falling(call_list[u])'
    BY DEF IInv, InvIds, Falling
  <2>6. QED
    BY <2>1, <2>2, <2>3, <2>4, <2>5 DEF InvIds
<1>10. InvPool'
  <2>1. s_pool'[t] = "live" <=> \E d \in Waiting(t) : d.what = "pool"
    BY <1>2, <1>4, <1>6 DEF IInv, InvPool
  <2>2. \A u \in Thread : s_pool'[u] = "live" <=> \E d \in Pending(u)' : d.what = "pool"
    BY <1>4, <1>6, <2>1 DEF IInv, InvPool
  <2>3. \A u \in Thread : Pending(u)' \subseteq Pending(u)
    BY <1>2, <1>4
  <2>4. \A u \in Thread : \A d, e \in Pending(u)' : d.what = "pool" /\ e.what = "pool" => d = e
    BY <2>3 DEF IInv, InvPool
  <2>5. \A u \in Thread : \A d \in Waiting(u)' : d.what = "late" =>
          \E e \in Waiting(u)' : e.what = "pool" /\ e.id < d.id
    BY <1>4 DEF IInv, InvPool
  <2>6. \A u \in Thread : phase'[u] = "callback" /\ cb'[u].what = "late" =>
          \E e \in Waiting(u)' : e.what = "pool"
    BY <1>1, <1>4 DEF IInv, InvPool
  <2>7. QED
    BY <2>2, <2>4, <2>5, <2>6 DEF InvPool
<1>11. InvTest'
  <2>1. \A u \in Thread : u # t => (IsTest(u)' <=> IsTest(u))
    BY <1>1, <1>4 DEF IsTest
  <2>2. \A u \in Thread : Pending(u)' \subseteq Pending(u)
    BY <1>2, <1>4
  <2>3. \A u \in Thread : \A d, e \in Pending(u)' : d.what = "flag" /\ e.what = "flag" => d = e
    BY <2>2 DEF IInv, InvTest
  <2>4. \A u \in Thread : \A d \in Pending(u)' : d.what = "flag" => phase'[u] # "test"
    BY <1>1, <2>2 DEF IInv, InvTest
  <2>5. CASE c.what # "flag"
    <3>1. IsTest(t)' <=> IsTest(t)
      BY <1>1, <1>2, <1>4, <2>5 DEF IsTest
    <3>2. QED
      BY <2>1, <2>3, <2>4, <2>5, <3>1 DEF IInv, InvTest
  <2>6. CASE c.what = "flag"
    <3> DEFINE v == starter[t]
    <3>1. IsTest(t) /\ ~ IsTest(t)'
      BY <1>1, <1>2, <1>4, <2>6 DEF IInv, InvTest, IsTest
    <3>2. v \in Thread /\ joining[v] = t /\ s_set_test[v] = FALSE
      BY <3>1 DEF IInv, InvTest
    <3>3. s_set_test'[v] = TRUE /\ \A u \in Thread : u # v => s_set_test'[u] = s_set_test[u]
      BY <1>1, <2>6, <3>2
    <3>4. ASSUME NEW d \in Thread, IsTest(d)'
          PROVE  starter[d] \in Thread /\ joining[starter[d]] = d /\ s_set_test'[starter[d]] = FALSE
      <4>1. d # t /\ IsTest(d)
        BY <2>1, <3>1, <3>4
      <4>2. starter[d] \in Thread /\ joining[starter[d]] = d /\ s_set_test[starter[d]] = FALSE
        BY <4>1 DEF IInv, InvTest
      <4>3. starter[d] # v
        BY <3>2, <4>1, <4>2
      <4>4. QED
        BY <3>3, <4>2, <4>3
    <3>5. \A u \in Thread : s_set_test'[u] # None => joining[u] \in Thread
      BY <3>2, <3>3 DEF IInv, InvTest
    <3>6. ASSUME NEW u \in Thread, NEW d \in Thread, s_set_test'[u] # None, joining[u] = d
          PROVE  s_set_test'[u] = TRUE \/ IsTest(d)'
      <4>1. CASE u = v
        BY <3>3, <4>1
      <4>2. CASE u # v
        <5>1. d # t
          BY <3>6, <4>2 DEF IInv, InvJoin
        <5>2. s_set_test'[u] = s_set_test[u]
          BY <3>3, <4>2
        <5>3. s_set_test[u] = TRUE \/ IsTest(d)
          BY <3>6, <5>2 DEF IInv, InvTest
        <5>4. IsTest(d)' <=> IsTest(d)
          BY <2>1, <5>1
        <5>5. QED
          BY <5>2, <5>3, <5>4
      <4>3. QED
        BY <4>1, <4>2
    <3>7. QED
      BY <2>3, <2>4, <3>4, <3>5, <3>6 DEF InvTest
  <2>7. QED
    BY <2>5, <2>6
<1>12. TypeOK'
  <2>1. s_set_test' \in [Thread -> {None, FALSE, TRUE}] /\ cb' \in [Thread -> Callback \union {None}]
    BY <1>1
  <2>2. phase' \in [Thread -> {"none", "running", "test", "invoke", "callback", "gone"}]
    BY <1>1
  <2>3. QED
    BY <1>5, <1>6, <2>1, <2>2 DEF IInv, TypeOK
<1>13. InvJoin'
  BY <1>1, KeptJoin
<1>14. QED
  BY <1>7, <1>8, <1>9, <1>10, <1>11, <1>12, <1>13 DEF IInv

LEMMA StepKeepsIInv == IInv /\ [Next]_vars => IInv'
<1> SUFFICES ASSUME IInv, [Next]_vars PROVE IInv'
  OBVIOUS
<1>1. ASSUME NEW t \in Thread, Register(t) PROVE IInv'
  BY <1>1, RegisterStep
<1>2. ASSUME NEW t \in Thread, RegisterNothing(t) PROVE IInv'
  BY <1>2, RegisterNothingStep
<1>3. ASSUME NEW t \in Thread, FirstUse(t) PROVE IInv'
  BY <1>3, FirstUseStep
<1>4. ASSUME NEW t \in Thread, NEW c \in Thread, Start(t, c) PROVE IInv'
  BY <1>4, StartStep
<1>5. ASSUME NEW t \in Thread, NEW c \in Thread, Join(t, c) PROVE IInv'
  BY <1>5, JoinStep
<1>6. ASSUME NEW t \in Thread, NEW c \in Thread, TestBegin(t, c) PROVE IInv'
  BY <1>6, TestBeginStep
<1>7. ASSUME NEW t \in Thread, JoinReturns(t) \/ TestReturns(t) PROVE IInv'
  BY <1>7, JoinReturnsStep
<1>8. ASSUME NEW t \in Thread, TestBody(t) PROVE IInv'
  BY <1>8, TestBodyStep
<1>9. ASSUME NEW t \in Thread, Invoke(t) PROVE IInv'
  BY <1>9, InvokeStep
<1>10. ASSUME NEW t \in Thread, End(t) \/ InvokeDone(t) PROVE IInv'
  BY <1>10, EndStep
<1>11. ASSUME NEW t \in Thread, CallbackReturns(t) PROVE IInv'
  BY <1>11, CallbackReturnsStep
<1>12. CASE UNCHANGED vars
  <2> USE <1>12 DEF vars, callVars, joinVars
  <2>1. CallsKept /\ UNCHANGED s_pool
    BY DEF CallsKept
  <2>2. TypeOK' /\ InvRoom' /\ InvEnds' /\ InvJoin'
    BY DEF IInv, TypeOK, InvRoom, Testing, InvEnds, InvJoin
  <2>3. \A t \in Thread : Pending(t)' = Pending(t) /\ (IsTest(t)' <=> IsTest(t))
    BY <2>1, KeptStep DEF IsTest
  <2>4. InvTest'
    BY <2>3 DEF IInv, InvTest
  <2>5. QED
    BY <2>1, <2>2, <2>4, KeptStep, KeptPool DEF IInv
<1>13. QED
  BY <1>1, <1>2, <1>3, <1>4, <1>5, <1>6, <1>7, <1>8, <1>9, <1>10, <1>11, <1>12
  DEF Next, Library, Other

LEMMA InitIInv == Init => IInv
<1> SUFFICES ASSUME Init PROVE IInv
  OBVIOUS
<1> USE DEF Init
<1>1. \A t \in Thread : Waiting(t) = {} /\ Pending(t) = {} /\ Falling(call_list[t])
  BY EmptyList DEF Waiting, Pending
<1>2. TypeOK
  BY EmptyList, ThreadAssumption DEF TypeOK
<1>3. InvRoom
  <2>1. Testing = {}
    BY DEF Testing
  <2>2. QED
    BY <2>1, FS_EmptySet, LimitAssumption DEF InvRoom
<1>4. InvIds
  BY <1>1 DEF InvIds
<1>5. InvPool /\ InvEnds /\ InvJoin
  BY <1>1, ThreadAssumption DEF InvPool, InvEnds, InvJoin
<1>6. InvTest
  BY <1>1 DEF InvTest, IsTest
<1>7. QED
  BY <1>2, <1>3, <1>4, <1>5, <1>6 DEF IInv

-----------------------------------------------------------------------------
(* The theorems. *)

\* Whatever the threads do, in any order, the invariant holds.
THEOREM Invariant == Spec => []IInv
<1>1. QED
  BY InitIInv, StepKeepsIInv, PTL DEF Spec

\* A callback runs at most once, and once exactly when its thread is gone; its
\* thread's pool is then deleted (thread_atexit_caller::invoke).
THEOREM CallbacksRunOnce == Spec => []EveryCallbackOnce
<1>1. IInv => EveryCallbackOnce
  <2> SUFFICES ASSUME IInv PROVE EveryCallbackOnce
    OBVIOUS
  <2>1. \A n \in 1..Limit : ran[n] <= 1
    <3>1. \A n \in 1..Limit : ran[n] \in {0, 1}
      BY DEF IInv, TypeOK
    <3>2. QED
      BY <3>1
  <2>2. Len(owner) <= Limit /\ Len(owner) \in Nat /\ Limit \in Nat
    <3>1. Len(owner) \in Nat /\ Cardinality(Testing) \in Nat /\ Len(owner) + Cardinality(Testing) <= Limit
      BY FS_CardinalityType DEF IInv, InvRoom, TypeOK
    <3>2. QED
      BY <3>1, LimitAssumption
  <2>3. ASSUME NEW t \in Thread, phase[t] = "gone", NEW n \in 1..Len(owner), owner[n] = t
        PROVE  ran[n] = 1
    <3>1. Pending(t) = {}
      BY <2>3, GoneIsNoTest
    <3>2. ran[n] # 0
      BY <2>3, <3>1 DEF IInv, InvIds
    <3>3. n \in 1..Limit
      BY <2>2, <2>3
    <3>4. QED
      BY <3>2, <3>3 DEF IInv, TypeOK
  <2>4. ASSUME NEW t \in Thread, phase[t] = "gone" PROVE s_pool[t] # "live"
    BY <2>4, GoneIsNoTest DEF IInv, InvPool
  <2>5. QED
    BY <2>1, <2>3, <2>4 DEF EveryCallbackOnce
<1>2. QED
  BY <1>1, Invariant, PTL

\* The pool is there for each callback registered after it
\* (thread_local_pool::get, thread_atexit_caller::add).
THEOREM PoolGoesLast == Spec => []PoolOutlivesCallbacks
<1>1. IInv => PoolOutlivesCallbacks
  BY DEF IInv, InvPool, Pending, PoolOutlivesCallbacks
<1>2. QED
  BY <1>1, Invariant, PTL

\* The callback of thread_test_atexit finds the frame it writes to, and has
\* written when the thread it waits for is gone.
THEOREM TestPasses == Spec => []TestAtexitPasses
<1>1. IInv => TestAtexitPasses
  <2> SUFFICES ASSUME IInv PROVE TestAtexitPasses
    OBVIOUS
  <2>1. ASSUME NEW c \in Thread, phase[c] = "callback", cb[c].what = "flag"
        PROVE  \E t \in Thread : starter[c] = t /\ joining[t] = c /\ s_set_test[t] # None
    <3>1. IsTest(c)
      BY <2>1 DEF IsTest, Pending
    <3>2. starter[c] \in Thread /\ joining[starter[c]] = c /\ s_set_test[starter[c]] = FALSE
      BY <3>1 DEF IInv, InvTest
    <3>3. QED
      BY <3>2, NoneAssumption
  <2>2. ASSUME NEW t \in Thread, s_set_test[t] # None, phase[joining[t]] = "gone"
        PROVE  s_set_test[t] = TRUE
    <3>1. PICK c \in Thread : c = joining[t]
      BY <2>2 DEF IInv, InvTest
    <3>2. ~ IsTest(c)
      BY <2>2, <3>1, GoneIsNoTest
    <3>3. QED
      BY <2>2, <3>1, <3>2 DEF IInv, InvTest
  <2>3. QED
    BY <2>1, <2>2 DEF TestAtexitPasses
<1>2. QED
  BY <1>1, Invariant, PTL
=============================================================================
