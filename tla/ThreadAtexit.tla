---------------------------- MODULE ThreadAtexit ----------------------------
(***************************************************************************)
(* np::thread_atexit (src/np_thread.cpp): the callbacks of each thread,    *)
(* and its thread_local_pool, which one of them deletes                    *)
(* (thread_local_pool::get in src/np_alloc.cpp).  The key's destructor     *)
(* runs them when the thread ends; a callback may use the allocator and    *)
(* register further callbacks.  Threads start and join others, as those of *)
(* src/main.cpp do, and call thread_test_atexit, which joins a thread of   *)
(* its own whose callback writes into the caller's frame.                  *)
(***************************************************************************)
EXTENDS Integers, Sequences, FiniteSets

CONSTANTS
  Thread,  \* the threads: Main and others, numbered in the order they start
  Main,    \* the thread that runs main: its callbacks never run
  Limit,   \* bound: the callbacks that the threads register
  None     \* no thread, no callback

ASSUME ThreadAssumption == Thread \subseteq Nat /\ Main \in Thread /\ None \notin Thread
ASSUME LimitAssumption == Limit \in Nat
ASSUME NoneAssumption == None \notin BOOLEAN

VARIABLES
  tls_caller,   \* thread -> its thread_atexit_caller: none, live or deleted
  call_list,    \* thread -> the call_list_ of it
  s_pool,       \* thread -> what s_pool points to: null, a live pool, a deleted one
  phase,        \* thread -> none (not started), running, test, invoke, callback, gone
  cb,           \* thread -> the callback that invoke runs
  starter,      \* thread -> the thread that may still join it
  joining,      \* thread -> the thread whose end it waits for
  s_set_test,   \* thread -> s_set_test of its call of thread_test_atexit; None: not in one
  \* History variables.
  owner,        \* the threads that registered a callback, in the order of registration
  ran           \* ran[n]: how often the n-th of those callbacks has run; 2 is twice or more

callVars == <<tls_caller, call_list, owner>>
joinVars == <<starter, joining, s_set_test>>
vars == <<callVars, joinVars, s_pool, phase, cb, ran>>

Init ==
  /\ tls_caller = [t \in Thread |-> "none"]
  /\ call_list = [t \in Thread |-> << >>]
  /\ s_pool = [t \in Thread |-> "null"]
  /\ phase = [t \in Thread |-> IF t = Main THEN "running" ELSE "none"]
  /\ cb = [t \in Thread |-> None]
  /\ starter = [t \in Thread |-> None]
  /\ joining = [t \in Thread |-> None]
  /\ s_set_test = [t \in Thread |-> None]
  /\ owner = << >>
  /\ ran = [n \in 1..Limit |-> 0]

\* Mutants of Add: the list is run first in, first out; cb->next stays null.
AddLast(list, c) == Append(list, c)
AddUnlinked(list, c) == <<c>>

\* thread_atexit_caller::add
Add(list, c) == <<c>> \o list

\* thread_atexit.  A callback is the one that deletes the pool, one that sets
\* s_set_test of the thread that waits, or one of the program's: late if the
\* thread has a pool when it is registered, or early.
AddCallback(t, what) ==
  /\ tls_caller' = [tls_caller EXCEPT ![t] = "live"]
  /\ owner' = Append(owner, t)
  /\ call_list' = [call_list EXCEPT ![t] = Add(@, [id |-> Len(owner) + 1, what |-> what])]

\* The program registers while there is room, also for the callbacks of the
\* tests it has begun.
Room == Len(owner) + Cardinality({c \in Thread : phase[c] = "test"}) < Limit

\* The program's code runs, in the thread or in one of its own callbacks.
InProgram(t) ==
  /\ joining[t] = None
  /\ phase[t] = "running" \/ (phase[t] = "callback" /\ cb[t].what \in {"early", "late"})

Register(t) ==
  /\ InProgram(t) /\ Room
  /\ AddCallback(t, IF s_pool[t] = "live" THEN "late" ELSE "early")
  /\ UNCHANGED <<joinVars, s_pool, phase, cb, ran>>

\* An empty std::function is not added.
RegisterNothing(t) ==
  /\ InProgram(t)
  /\ tls_caller[t] = "none"
  /\ tls_caller' = [tls_caller EXCEPT ![t] = "live"]
  /\ UNCHANGED <<call_list, owner, joinVars, s_pool, phase, cb, ran>>

\* The first np_alloc or np_free makes the pool and registers its deletion.
\* Nothing sets s_pool again: it goes on pointing to the pool that was deleted.
FirstUse(t) ==
  /\ InProgram(t) /\ Room
  /\ s_pool[t] = "null"
  /\ AddCallback(t, "pool")
  /\ s_pool' = [s_pool EXCEPT ![t] = "live"]
  /\ UNCHANGED <<joinVars, phase, cb, ran>>

-----------------------------------------------------------------------------
(* Threads *)

\* The next thread to start.
NewThread(c) ==
  /\ phase[c] = "none"
  /\ \A d \in Thread : d < c => phase[d] # "none"

\* std::thread, whose function may do all of the above.  A thread that its
\* starter never joins has been detached.
Start(t, c) ==
  /\ InProgram(t)
  /\ NewThread(c)
  /\ phase' = [phase EXCEPT ![c] = "running"]
  /\ starter' = [starter EXCEPT ![c] = t]
  /\ UNCHANGED <<callVars, joining, s_set_test, s_pool, cb, ran>>

Join(t, c) ==
  /\ InProgram(t)
  /\ starter[c] = t
  /\ joining' = [joining EXCEPT ![t] = c]
  /\ UNCHANGED <<callVars, starter, s_set_test, s_pool, phase, cb, ran>>

\* Mutant of Ended: join does not wait.
EndedAlways(c) == TRUE

\* A key's destructors run before the thread has ended for who joins it.
Ended(c) == phase[c] = "gone"

JoinReturns(t) ==
  /\ joining[t] # None /\ s_set_test[t] = None
  /\ Ended(joining[t])
  /\ joining' = [joining EXCEPT ![t] = None]
  /\ starter' = [starter EXCEPT ![joining[t]] = None]
  /\ UNCHANGED <<callVars, s_set_test, s_pool, phase, cb, ran>>

\* thread_test_atexit starts a thread and joins it.
TestBegin(t, c) ==
  /\ InProgram(t) /\ Room
  /\ NewThread(c)
  /\ phase' = [phase EXCEPT ![c] = "test"]
  /\ starter' = [starter EXCEPT ![c] = t]
  /\ joining' = [joining EXCEPT ![t] = c]
  /\ s_set_test' = [s_set_test EXCEPT ![t] = FALSE]
  /\ UNCHANGED <<callVars, s_pool, cb, ran>>

\* All that the thread does is to register the callback.
TestBody(c) ==
  /\ phase[c] = "test"
  /\ AddCallback(c, "flag")
  /\ phase' = [phase EXCEPT ![c] = "invoke"]
  /\ UNCHANGED <<joinVars, s_pool, cb, ran>>

\* It returns true if the exchange of s_set_test succeeds.
TestReturns(t) ==
  /\ joining[t] # None /\ s_set_test[t] # None
  /\ Ended(joining[t])
  /\ joining' = [joining EXCEPT ![t] = None]
  /\ starter' = [starter EXCEPT ![joining[t]] = None]
  /\ s_set_test' = [s_set_test EXCEPT ![t] = None]
  /\ UNCHANGED <<callVars, s_pool, phase, cb, ran>>

\* The thread ends: the key's destructor runs if the key has a value.
End(t) ==
  /\ t # Main
  /\ phase[t] = "running" /\ joining[t] = None
  /\ phase' = [phase EXCEPT ![t] = IF tls_caller[t] = "none" THEN "gone" ELSE "invoke"]
  /\ UNCHANGED <<callVars, joinVars, s_pool, cb, ran>>

-----------------------------------------------------------------------------
(* thread_atexit_caller::invoke *)

\* Mutant of Rest: call_list_ is not advanced.
RestAll(list) == list

Rest(list) == Tail(list)

\* One turn of the loop of invoke: the list is advanced before the call.
Invoke(t) ==
  /\ phase[t] = "invoke"
  /\ call_list[t] # << >>
  /\ cb' = [cb EXCEPT ![t] = Head(call_list[t])]
  /\ call_list' = [call_list EXCEPT ![t] = Rest(@)]
  /\ phase' = [phase EXCEPT ![t] = "callback"]
  /\ UNCHANGED <<tls_caller, owner, joinVars, s_pool, ran>>

CallbackReturns(t) ==
  /\ phase[t] = "callback" /\ joining[t] = None
  /\ s_pool' = IF cb[t].what = "pool" THEN [s_pool EXCEPT ![t] = "deleted"] ELSE s_pool
  /\ s_set_test' =
       IF cb[t].what = "flag" THEN [s_set_test EXCEPT ![starter[t]] = TRUE] ELSE s_set_test
  /\ ran' = [ran EXCEPT ![cb[t].id] = IF @ = 2 THEN 2 ELSE @ + 1]
  /\ cb' = [cb EXCEPT ![t] = None]
  /\ phase' = [phase EXCEPT ![t] = "invoke"]
  /\ UNCHANGED <<callVars, starter, joining>>

InvokeDone(t) ==
  /\ phase[t] = "invoke"
  /\ call_list[t] = << >>
  /\ tls_caller' = [tls_caller EXCEPT ![t] = "deleted"]
  /\ phase' = [phase EXCEPT ![t] = "gone"]
  /\ UNCHANGED <<call_list, owner, joinVars, s_pool, cb, ran>>

\* What main does besides, when it waits for no thread.
Other == joining[Main] = None /\ UNCHANGED vars

Library(t) ==
  TestBody(t) \/ JoinReturns(t) \/ TestReturns(t) \/ Invoke(t) \/ InvokeDone(t)

Next ==
  \/ \E t \in Thread :
       \/ Register(t) \/ RegisterNothing(t) \/ FirstUse(t)
       \/ \E c \in Thread : Start(t, c) \/ Join(t, c) \/ TestBegin(t, c)
       \/ Library(t) \/ End(t) \/ CallbackReturns(t)
  \/ Other

Spec == Init /\ [][Next]_vars

\* Threads run, and the program's functions and callbacks return.
Fairness ==
  \A t \in Thread : WF_vars(Library(t)) /\ WF_vars(End(t)) /\ WF_vars(CallbackReturns(t))

FairSpec == Spec /\ Fairness

-----------------------------------------------------------------------------
(* Properties *)

\* No callback runs twice, and when its thread is gone every one has run, those
\* that callbacks registered too; so the thread's pool has been deleted, also
\* when a callback was the first to need it.
EveryCallbackOnce ==
  /\ \A n \in 1..Limit : ran[n] <= 1
  /\ \A t \in Thread : phase[t] = "gone" =>
       s_pool[t] # "live" /\ \A n \in 1..Len(owner) : owner[n] = t => ran[n] = 1

\* A callback that the program registered while the thread had its pool still
\* finds it there, and may allocate and free: the pool goes after it.
PoolOutlivesCallbacks ==
  \A t \in Thread : phase[t] = "callback" /\ cb[t].what = "late" => s_pool[t] = "live"

\* A callback that sets s_set_test finds it: it lives in the frame of the
\* thread_test_atexit that waits for the callback's thread.  And when that wait
\* is over the callback has run, so that thread_test_atexit returns true.
TestAtexitPasses ==
  /\ \A c \in Thread : phase[c] = "callback" /\ cb[c].what = "flag" =>
       \E t \in Thread : starter[c] = t /\ joining[t] = c /\ s_set_test[t] # None
  /\ \A t \in Thread :
       s_set_test[t] # None /\ phase[joining[t]] = "gone" => s_set_test[t] = TRUE

\* A thread that has begun to run its callbacks comes to the end of them,
\* although they register others and start, join and test threads; and every
\* join returns.
ThreadsGo ==
  \A t \in Thread :
    /\ phase[t] = "invoke" ~> phase[t] = "gone"
    /\ joining[t] # None ~> joining[t] = None
=============================================================================
