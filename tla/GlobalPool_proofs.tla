------------------------- MODULE GlobalPool_proofs -------------------------
(***************************************************************************)
(* Proofs about GlobalPool, for any number of threads and pools.  What is  *)
(* said of the creation of the pool and of its handler holds of every      *)
(* program; what is said of deinit, of those that end all other threads    *)
(* before main returns (the run singleton_detached refutes it of others).  *)
(***************************************************************************)
EXTENDS GlobalPool, SequenceTheorems, TLAPS

-----------------------------------------------------------------------------
(* The inductive invariant. *)

Mine(t) == pc[t] \in {"cas", "dispose"}

\* A pool just created is its creator's alone until it is published or deleted.
InvOwnPool ==
  /\ \A t \in Thread : Mine(t) => new_pool[t] \in Pool /\ Live(new_pool[t]) /\ new_pool[t] # g_pool
  /\ \A t, u \in Thread : Mine(t) /\ Mine(u) /\ t # u => new_pool[t] # new_pool[u]
  /\ \A t \in Thread : Mine(t) /\ exit = "deleting" => new_pool[t] # doomed

\* The published pool is live; it and its handler come and go together.
InvGlobal ==
  /\ g_pool # Null => Live(g_pool)
  /\ exit = "deleting" => doomed \in Pool /\ Live(doomed) /\ doomed # g_pool
  /\ g_pool = Null => handlers = 0
  /\ g_pool # Null => handlers = IF \E t \in Thread : At(t, "register") THEN 0 ELSE 1
  /\ \A t \in Thread : At(t, "register") => g_pool # Null /\ new_pool[t] = g_pool
  /\ \A t, u \in Thread : At(t, "register") /\ At(u, "register") => t = u

\* A thread is given a pool, and frees only what it has.
InvGiven == \A t \in Thread :
  /\ pc[t] \in {"dispose", "use"} => ptr[t] \in Pool
  /\ task[t] = "free" /\ pc[t] \in {"load", "create", "cas", "register", "dispose", "use"} =>
       chunks[t] # << >>

IInv == TypeOK /\ InvOwnPool /\ InvGlobal /\ InvGiven /\ NoPoolForgotten

\* Where no thread outlives main, there is one pool until all of them are gone,
\* and none when main's own callbacks would run.
InvOnePool ==
  /\ exit = "running" => \A t \in Thread :
       /\ pc[t] \in {"dispose", "use"} => ptr[t] = g_pool
       /\ \A p \in Range(chunks[t]) : p = g_pool
  /\ exit # "running" => \A t \in Thread :
       /\ pc[t] \in {"out", "gone"}
       /\ t # Main => At(t, "gone")
  /\ exit = "over" => g_pool = Null

-----------------------------------------------------------------------------
(* The lists of chunks. *)

LEMMA FirstChunk ==
  ASSUME NEW S, NEW s \in Seq(S), s # << >>
  PROVE  Head(s) \in Range(s) /\ Tail(s) \in Seq(S) /\ Range(Tail(s)) \subseteq Range(s)
<1>1. /\ Len(s) \in Nat \ {0} /\ Head(s) = s[1] /\ Tail(s) \in Seq(S)
      /\ Len(Tail(s)) = Len(s) - 1 /\ \A i \in 1..Len(Tail(s)) : Tail(s)[i] = s[i + 1]
  BY HeadTailProperties, EmptySeq
<1>2. Range(s) = {s[i] : i \in 1..Len(s)}
  BY RangeEquality
<1>3. Range(Tail(s)) = {Tail(s)[i] : i \in 1..Len(Tail(s))}
  BY <1>1, RangeEquality
<1>4. QED
  BY <1>1, <1>2, <1>3

LEMMA NewChunk ==
  ASSUME NEW S, NEW s \in Seq(S), NEW c \in S
  PROVE  <<c>> \o s \in Seq(S) /\ <<c>> \o s # << >> /\ Range(<<c>> \o s) = {c} \union Range(s)
<1> DEFINE one == <<c>>
<1>1. one \in Seq(S) /\ Range(one) = {c}
  BY DEF Range
<1>2. one \o s \in Seq(S) /\ one \o s # << >>
  BY ConcatProperties
<1> HIDE DEF one
<1>3. Range(one \o s) = Range(one) \union Range(s)
  BY <1>1, RangeConcatenation
<1>4. QED
  BY <1>1, <1>2, <1>3 DEF one

-----------------------------------------------------------------------------
(* Every step preserves the invariant. *)

\* A step of one thread that neither makes, publishes nor deletes a pool.
LEMMA LocalStep ==
  ASSUME IInv, NEW t \in Thread, NEW place, Goto(t, place),
         UNCHANGED <<g_pool, life, new_pool, exitVars>>,
         {pc[t], place} \intersect {"cas", "dispose", "register"} = {}
  PROVE  InvOwnPool' /\ InvGlobal' /\ NoPoolForgotten'
<1> USE DEF Goto, exitVars
<1>1. \A u \in Thread : u # t => pc'[u] = pc[u]
  BY DEF IInv, TypeOK
<1>2. pc'[t] = place
  BY DEF IInv, TypeOK
<1>3. \A u \in Thread : (Mine(u)' <=> Mine(u)) /\ (At(u, "register")' <=> At(u, "register"))
  BY <1>1, <1>2 DEF Mine, At
<1>4. InvOwnPool'
  BY <1>3 DEF IInv, InvOwnPool, Live
<1>5. InvGlobal'
  BY <1>3 DEF IInv, InvGlobal, Live
<1>6. NoPoolForgotten'
  BY <1>3 DEF IInv, NoPoolForgotten, Mine, Live
<1>7. QED
  BY <1>4, <1>5, <1>6

LEMMA CallStep ==
  ASSUME IInv, NEW t \in Thread, NEW what \in {"size", "alloc", "print"}, Call(t, what)
  PROVE  IInv'
<1> USE DEF Call, At
<1>1. InvOwnPool' /\ InvGlobal' /\ NoPoolForgotten'
  BY LocalStep
<1>2. TypeOK'
  BY DEF IInv, TypeOK, Goto, exitVars
<1>3. InvGiven'
  BY DEF IInv, TypeOK, InvGiven, Goto
<1>4. QED
  BY <1>1, <1>2, <1>3 DEF IInv

LEMMA LoadStep ==
  ASSUME IInv, NEW t \in Thread, Load(t)
  PROVE  IInv'
<1> USE DEF Load, At
<1>1. InvOwnPool' /\ InvGlobal' /\ NoPoolForgotten'
  BY LocalStep
<1>2. TypeOK'
  BY DEF IInv, TypeOK, Goto, exitVars
<1>3. InvGiven'
  BY DEF IInv, TypeOK, InvGiven, Goto, PoolOrNull
<1>4. QED
  BY <1>1, <1>2, <1>3 DEF IInv

LEMMA UseStepStep ==
  ASSUME IInv, NEW t \in Thread, UseStep(t)
  PROVE  IInv'
<1> USE DEF At
<1>1. InvOwnPool' /\ InvGlobal' /\ NoPoolForgotten'
  BY LocalStep DEF UseStep, UseSize, UsePrint, UseAlloc, UseFree
<1>2. ptr[t] \in Pool /\ chunks[t] \in Seq(Pool)
  BY DEF IInv, TypeOK, InvGiven, UseStep, UseSize, UsePrint, UseAlloc, UseFree
<1>3. TypeOK' /\ InvGiven'
  <2>1. CASE UseSize(t) \/ UsePrint(t)
    BY <2>1 DEF IInv, TypeOK, InvGiven, UseSize, UsePrint, Goto, exitVars
  <2>2. CASE UseAlloc(t)
    BY <1>2, <2>2, NewChunk DEF IInv, TypeOK, InvGiven, UseAlloc, Goto, exitVars
  <2>3. CASE UseFree(t)
    <3>1. Tail(chunks[t]) \in Seq(Pool)
      BY <1>2, <2>3, FirstChunk DEF IInv, InvGiven, UseFree
    <3>2. QED
      BY <2>3, <3>1 DEF IInv, TypeOK, InvGiven, UseFree, Goto, exitVars
  <2>4. QED
    BY <2>1, <2>2, <2>3 DEF UseStep
<1>4. QED
  BY <1>1, <1>3 DEF IInv

LEMMA DeinitStepStep ==
  ASSUME IInv, NEW t \in Thread, DeinitStep(t)
  PROVE  IInv'
<1> USE DEF DeinitStep, Deinit, WalkFree, ReturnNext, ReturnDone, MayEnd, At
<1>1. InvOwnPool' /\ InvGlobal' /\ NoPoolForgotten'
  BY LocalStep
<1>2. TypeOK'
  BY DEF IInv, TypeOK, Goto, exitVars
<1>3. InvGiven'
  BY DEF IInv, TypeOK, InvGiven, Goto
<1>4. QED
  BY <1>1, <1>2, <1>3 DEF IInv

LEMMA CreateStep ==
  ASSUME IInv, NEW t \in Thread, NEW p \in Pool, Create(t, p)
  PROVE  IInv'
<1> USE DEF Create, Goto, At, exitVars
<1>0. /\ p # g_pool /\ (exit = "deleting" => p # doomed)
      /\ \A u \in Thread : Mine(u) => new_pool[u] # p
  BY NullAssumption DEF IInv, InvOwnPool, InvGlobal, Live
<1>1. TypeOK'
  BY DEF IInv, TypeOK, PoolOrNull
<1>2. InvOwnPool'
  BY <1>0 DEF IInv, TypeOK, InvOwnPool, Mine, Live
<1>3. InvGlobal'
  BY DEF IInv, TypeOK, InvGlobal, Live
<1>4. InvGiven'
  BY DEF IInv, TypeOK, InvGiven
<1>5. NoPoolForgotten'
  BY DEF IInv, TypeOK, NoPoolForgotten, Live
<1>6. QED
  BY <1>1, <1>2, <1>3, <1>4, <1>5 DEF IInv

LEMMA CasWinsStep ==
  ASSUME IInv, NEW t \in Thread, CasWins(t)
  PROVE  IInv'
<1> USE DEF CasWins, Goto, At, exitVars
<1>0. new_pool[t] \in Pool /\ Live(new_pool[t])
  BY DEF IInv, InvOwnPool, Mine
<1>1. TypeOK'
  BY <1>0 DEF IInv, TypeOK, PoolOrNull
<1>2. InvOwnPool'
  BY <1>0 DEF IInv, TypeOK, InvOwnPool, Mine, Live
<1>3. InvGlobal'
  BY <1>0, NullAssumption DEF IInv, TypeOK, InvOwnPool, InvGlobal, Mine, Live
<1>4. InvGiven'
  BY DEF IInv, TypeOK, InvGiven
<1>5. NoPoolForgotten'
  BY NullAssumption DEF IInv, TypeOK, NoPoolForgotten, Live
<1>6. QED
  BY <1>1, <1>2, <1>3, <1>4, <1>5 DEF IInv

LEMMA RegisterStep ==
  ASSUME IInv, NEW t \in Thread, Register(t)
  PROVE  IInv'
<1> USE DEF Register, AtExit, Created, Goto, At
<1>0. /\ new_pool[t] = g_pool /\ g_pool # Null /\ g_pool \in Pool /\ handlers = 0
      /\ \A u \in Thread : pc'[u] # "register"
  BY DEF IInv, TypeOK, InvGlobal, PoolOrNull
<1>1. TypeOK'
  BY DEF IInv, TypeOK
<1>2. InvOwnPool'
  BY DEF IInv, TypeOK, InvOwnPool, Mine, Live
<1>3. InvGlobal'
  BY <1>0 DEF IInv, TypeOK, InvGlobal, Live
<1>4. InvGiven'
  BY <1>0 DEF IInv, TypeOK, InvGiven
<1>5. NoPoolForgotten'
  BY DEF IInv, TypeOK, NoPoolForgotten, Live
<1>6. QED
  BY <1>1, <1>2, <1>3, <1>4, <1>5 DEF IInv

LEMMA CasLosesStep ==
  ASSUME IInv, NEW t \in Thread, CasLoses(t)
  PROVE  IInv'
<1> USE DEF CasLoses, Winner, Goto, At, exitVars
<1>1. TypeOK'
  BY DEF IInv, TypeOK
<1>2. InvOwnPool'
  BY DEF IInv, TypeOK, InvOwnPool, Mine, Live
<1>3. InvGlobal'
  BY DEF IInv, TypeOK, InvGlobal, Live
<1>4. InvGiven'
  BY DEF IInv, TypeOK, InvGiven, PoolOrNull
<1>5. NoPoolForgotten'
  BY DEF IInv, TypeOK, NoPoolForgotten, Live
<1>6. QED
  BY <1>1, <1>2, <1>3, <1>4, <1>5 DEF IInv

LEMMA DisposeStep ==
  ASSUME IInv, NEW t \in Thread, Dispose(t)
  PROVE  IInv'
<1> USE DEF Dispose, Destroy, Goto, At, exitVars
<1>0. new_pool[t] \in Pool /\ new_pool[t] # g_pool /\ (exit = "deleting" => new_pool[t] # doomed)
  BY DEF IInv, InvOwnPool, Mine
<1>1. TypeOK'
  BY <1>0 DEF IInv, TypeOK
<1>2. InvOwnPool'
  BY DEF IInv, TypeOK, InvOwnPool, Mine, Live
<1>3. InvGlobal'
  BY <1>0 DEF IInv, TypeOK, InvGlobal, Live, PoolOrNull
<1>4. InvGiven'
  BY DEF IInv, TypeOK, InvGiven
<1>5. NoPoolForgotten'
  BY <1>0 DEF IInv, TypeOK, NoPoolForgotten, Live
<1>6. QED
  BY <1>1, <1>2, <1>3, <1>4, <1>5 DEF IInv

LEMMA ExitStep ==
  ASSUME IInv, Exit \/ ExitOver
  PROVE  IInv'
BY DEF Exit, ExitOver, IInv, TypeOK, InvOwnPool, InvGlobal, InvGiven, NoPoolForgotten, Mine,
   Live, At, getVars

LEMMA DelExchangeStep ==
  ASSUME IInv, DelExchange
  PROVE  IInv'
<1> USE DEF DelExchange, getVars
<1>0. handlers = 1 /\ g_pool # Null /\ g_pool \in Pool /\ \A t \in Thread : pc[t] # "register"
  BY DEF IInv, TypeOK, InvGlobal, At, PoolOrNull
<1>1. TypeOK' /\ InvGiven'
  BY <1>0 DEF IInv, TypeOK, InvGiven, PoolOrNull
<1>2. InvOwnPool'
  BY <1>0, NullAssumption DEF IInv, InvOwnPool, Mine, Live
<1>3. InvGlobal'
  BY <1>0 DEF IInv, InvGlobal, Live, At
<1>4. NoPoolForgotten'
  BY <1>0 DEF IInv, NoPoolForgotten, Live
<1>5. QED
  BY <1>1, <1>2, <1>3, <1>4 DEF IInv

LEMMA DelPoolStep ==
  ASSUME IInv, DelPool
  PROVE  IInv'
<1> USE DEF DelPool, Destroy, getVars
<1>0. doomed \in Pool /\ doomed # g_pool
  BY DEF IInv, InvGlobal
<1>1. TypeOK' /\ InvGiven'
  BY DEF IInv, TypeOK, InvGiven
<1>2. InvOwnPool'
  BY DEF IInv, TypeOK, InvOwnPool, Mine, Live
<1>3. InvGlobal'
  BY <1>0 DEF IInv, TypeOK, InvGlobal, Live, At, PoolOrNull
<1>4. NoPoolForgotten'
  BY <1>0 DEF IInv, TypeOK, NoPoolForgotten, Live
<1>5. QED
  BY <1>1, <1>2, <1>3, <1>4 DEF IInv

LEMMA InitIInv == Init => IInv
BY DEF Init, IInv, TypeOK, PoolOrNull, InvOwnPool, InvGlobal, InvGiven, NoPoolForgotten, Mine,
   Live, At

LEMMA NextIInv == IInv /\ [Next]_vars => IInv'
<1> SUFFICES ASSUME IInv, [Next]_vars PROVE IInv'
  OBVIOUS
<1>1. ASSUME NEW t \in Thread, GetStep(t) PROVE IInv'
  BY <1>1, CallStep, LoadStep, CreateStep, CasWinsStep, RegisterStep, CasLosesStep, DisposeStep
  DEF GetStep
<1>2. CASE Stopped \/ UNCHANGED vars
  BY <1>2 DEF Stopped, vars, getVars, exitVars, IInv, TypeOK, InvOwnPool, InvGlobal, InvGiven,
     NoPoolForgotten, Mine, Live, At
<1>3. QED
  BY <1>1, <1>2, UseStepStep, DeinitStepStep, ExitStep, DelExchangeStep, DelPoolStep DEF Next

-----------------------------------------------------------------------------
(* Programs whose other threads have ended before main returns. *)

\* The thread steps while the process runs.
LEMMA RunningOnePool ==
  ASSUME IInv, InvOnePool, exit = "running", NEW t \in Thread,
         GetStep(t) \/ UseStep(t) \/ DeinitStep(t)
  PROVE  InvOnePool'
<1> USE DEF At, Goto, exitVars
<1>0. /\ exit' = "running" /\ pc \in [Thread -> {"out", "load", "create", "cas", "register",
                                                  "dispose", "use", "walk", "return", "gone"}]
      /\ ptr \in [Thread -> PoolOrNull] /\ chunks \in [Thread -> Seq(Pool)]
  BY DEF GetStep, UseStep, DeinitStep, Call, Load, Create, CasWins, Register, CasLoses, Dispose,
     UseSize, UsePrint, UseAlloc, UseFree, Deinit, WalkFree, ReturnNext, ReturnDone, IInv, TypeOK
<1>1. CASE CasWins(t)
  <2>1. \A u \in Thread : pc[u] \notin {"dispose", "use"} /\ Range(chunks[u]) = {}
    <3>1. TAKE u \in Thread
    <3>2. pc[u] \notin {"dispose", "use"}
      BY <1>1, NullAssumption DEF CasWins, InvOnePool, IInv, InvGiven
    <3>3. Range(chunks[u]) \in SUBSET Pool
      BY <1>0, RangeOfSeq
    <3>4. QED
      BY <1>1, <3>2, <3>3, NullAssumption DEF CasWins, InvOnePool
  <2>2. QED
    BY <1>0, <1>1, <2>1 DEF CasWins, InvOnePool
<1>2. CASE UseAlloc(t)
  <2>1. ptr[t] \in Pool /\ ptr[t] = g_pool
    BY <1>2 DEF UseAlloc, IInv, InvGiven, InvOnePool
  <2>2. Range(<<ptr[t]>> \o chunks[t]) = {g_pool} \union Range(chunks[t])
    BY <1>0, <2>1, NewChunk
  <2>3. QED
    BY <1>0, <1>2, <2>2 DEF UseAlloc, InvOnePool
<1>3. CASE UseFree(t)
  <2>1. Range(Tail(chunks[t])) \subseteq Range(chunks[t])
    BY <1>0, <1>3, FirstChunk DEF UseFree, IInv, InvGiven
  <2>2. QED
    BY <1>0, <1>3, <2>1 DEF UseFree, InvOnePool
<1>4. CASE Register(t)
  BY <1>0, <1>4 DEF Register, Created, IInv, InvGlobal, InvOnePool
<1>5. CASE \/ Load(t) \/ CasLoses(t) \/ Dispose(t)
           \/ \E what \in {"size", "alloc", "print"} : Call(t, what)
           \/ \E q \in Pool : Create(t, q)
           \/ UseSize(t) \/ UsePrint(t) \/ DeinitStep(t)
  <2>1. /\ UNCHANGED <<g_pool, chunks>>
        /\ \A u \in Thread : pc'[u] \in {"dispose", "use"} => ptr'[u] = g_pool
    BY <1>0, <1>5 DEF Load, CasLoses, Winner, Dispose, Call, Create, UseSize, UsePrint,
       DeinitStep, Deinit, WalkFree, ReturnNext, ReturnDone, InvOnePool
  <2>2. QED
    BY <1>0, <2>1 DEF InvOnePool
<1>6. QED
  BY <1>1, <1>2, <1>3, <1>4, <1>5 DEF GetStep, UseStep

LEMMA NextOnePool ==
  ASSUME ~ Detached
  PROVE  IInv /\ InvOnePool /\ [Next]_vars => InvOnePool'
<1> SUFFICES ASSUME IInv, InvOnePool, [Next]_vars PROVE InvOnePool'
  OBVIOUS
<1> USE DEF At
<1>1. ASSUME NEW t \in Thread, GetStep(t) \/ UseStep(t) \/ DeinitStep(t), exit # "running"
      PROVE  InvOnePool'
  <2>1. pc[t] \in {"out", "gone"} /\ (t # Main => pc[t] = "gone")
    BY <1>1 DEF InvOnePool
  <2>2. Deinit(t) /\ t = Main /\ exit = "over" /\ g_pool = Null
    BY <1>1, <2>1 DEF GetStep, UseStep, DeinitStep, Call, Load, Create, CasWins, Register,
       CasLoses, Dispose, UseSize, UsePrint, UseAlloc, UseFree, Deinit, WalkFree, ReturnNext,
       ReturnDone, MayEnd, InvOnePool
  <2>3. QED
    BY <1>1, <2>2 DEF Deinit, PoolAlive, Goto, exitVars, InvOnePool, IInv, TypeOK
<1>2. CASE Exit
  BY <1>2 DEF Exit, getVars, InvOnePool, IInv, TypeOK
<1>3. CASE DelExchange \/ DelPool
  BY <1>3 DEF DelExchange, DelPool, getVars, InvOnePool
<1>4. CASE ExitOver
  <2>1. \A t \in Thread : pc[t] # "register"
    BY <1>4 DEF ExitOver, InvOnePool
  <2>2. g_pool = Null
    BY <1>4, <2>1 DEF ExitOver, IInv, InvGlobal
  <2>3. QED
    BY <1>4, <2>2 DEF ExitOver, getVars, InvOnePool
<1>5. CASE Stopped \/ UNCHANGED vars
  BY <1>5 DEF Stopped, vars, getVars, exitVars, InvOnePool
<1>6. QED
  BY <1>1, <1>2, <1>3, <1>4, <1>5, RunningOnePool DEF Next

LEMMA InitOnePool == Init => InvOnePool
BY DEF Init, InvOnePool, Range

-----------------------------------------------------------------------------
(* The theorems. *)

\* The inductive invariant holds of every reachable state.
THEOREM Invariant == Spec => []IInv
<1>1. QED
  BY InitIInv, NextIInv, PTL DEF Spec

\* Nothing leaves its type: nobody is handed a null pool, nobody frees from an
\* empty list.
THEOREM TypeCorrect == Spec => []TypeOK
<1>1. IInv => TypeOK
  BY DEF IInv
<1>2. QED
  BY <1>1, Invariant, PTL

\* However many threads race in get_global_pool, whatever del_global_pool does
\* meanwhile: a pool that is still live is within somebody's reach.
THEOREM NoPoolLeaks == Spec => []NoPoolForgotten
<1>1. IInv => NoPoolForgotten
  BY DEF IInv
<1>2. QED
  BY <1>1, Invariant, PTL

\* The published pool is live and will be deleted by a handler.
THEOREM PoolWillGo == Spec => []HandlerToCome
<1>1. IInv => HandlerToCome
  BY DEF IInv, InvGlobal, HandlerToCome
<1>2. QED
  BY <1>1, Invariant, PTL

\* If every thread has ended when main returns, none uses a deleted pool, and
\* deinit touches mapped memory only.
THEOREM NoneUsesDeleted ==
  ASSUME ~ Detached
  PROVE  Spec => []NoUseAfterDelete
<1>1. IInv /\ InvOnePool => NoUseAfterDelete
  <2>1. SUFFICES ASSUME IInv, InvOnePool, NEW t \in Thread, pc[t] \in {"use", "walk", "return"}
                 PROVE  /\ At(t, "use") => Live(ptr[t])
                        /\ At(t, "walk") => \A p \in Range(chunks[t]) : Live(p)
                        /\ At(t, "return") /\ chunks[t] # << >> => Live(Head(chunks[t]))
                        /\ At(t, "use") /\ task[t] = "free" => Live(Head(chunks[t]))
    BY DEF NoUseAfterDelete, DeinitSafe, At
  <2>2. /\ exit = "running" /\ chunks[t] \in Seq(Pool)
        /\ \A p \in Range(chunks[t]) : p = g_pool
    BY <2>1 DEF InvOnePool, IInv, TypeOK
  <2>3. \A p \in Range(chunks[t]) : Live(p)
    <3>1. Range(chunks[t]) \in SUBSET Pool
      BY <2>2, RangeOfSeq
    <3>2. QED
      BY <2>1, <2>2, <3>1, NullAssumption DEF IInv, InvGlobal
  <2>4. chunks[t] # << >> => Live(Head(chunks[t]))
    BY <2>2, <2>3, FirstChunk
  <2>5. At(t, "use") => Live(ptr[t]) /\ (task[t] = "free" => chunks[t] # << >>)
    BY <2>1, <2>2, NullAssumption DEF At, IInv, InvGlobal, InvGiven, InvOnePool
  <2>6. QED
    BY <2>3, <2>4, <2>5
<1>2. QED
  BY <1>1, Invariant, InitOnePool, NextOnePool, PTL DEF Spec

\* In those programs a chunk also goes back to the very pool it was cut from.
THEOREM ChunksGoHome ==
  ASSUME ~ Detached
  PROVE  Spec => []ChunkGoesHome
<1>1. IInv /\ InvOnePool => ChunkGoesHome
  <2>1. SUFFICES ASSUME IInv, InvOnePool, NEW t \in Thread, At(t, "use"), task[t] = "free"
                 PROVE  ptr[t] = Head(chunks[t])
    BY DEF ChunkGoesHome
  <2>2. exit = "running" /\ ptr[t] = g_pool /\ chunks[t] \in Seq(Pool) /\ chunks[t] # << >>
    BY <2>1 DEF At, IInv, TypeOK, InvGiven, InvOnePool
  <2>3. Head(chunks[t]) \in Range(chunks[t])
    BY <2>2, FirstChunk
  <2>4. QED
    BY <2>1, <2>2, <2>3 DEF InvOnePool
<1>2. QED
  BY <1>1, Invariant, InitOnePool, NextOnePool, PTL DEF Spec
=============================================================================
