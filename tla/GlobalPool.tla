---------------------------- MODULE GlobalPool ----------------------------
(***************************************************************************)
(* The lifetime of np::global_pool (src/np_alloc.cpp, namespace internal): *)
(* the first thread that needs it creates it, several may try at once, a   *)
(* handler registered with std::atexit deletes it, and the threads'        *)
(* tls_ps_pools return their chunks to it, perhaps later than that.        *)
(*                                                                         *)
(* The chunks of a global_pool live in its memory mapping: deleting the    *)
(* pool unmaps them.  What the pool does with a chunk is ChunkPool's       *)
(* business; here a chunk is the pool it came from.                        *)
(***************************************************************************)
EXTENDS Integers, Sequences, FiniteSets, Functions

CONSTANTS
  Thread,
  Main,        \* the thread that returns from main
  Pool,        \* bound: the global_pools that can ever be created
  Null,
  Detached,    \* TRUE: the program may exit while other threads still run
  ChunkLimit   \* bound: the chunks of one thread

ASSUME MainAssumption == Main \in Thread
ASSUME NullAssumption == Null \notin Pool
ASSUME DetachedAssumption == Detached \in BOOLEAN
ASSUME LimitAssumption == ChunkLimit \in Nat \ {0}

VARIABLES
  g_pool,     \* g_pool
  life,       \* life[p]: none, live or deleted
  pc,         \* where each thread is
  task,       \* task[t]: what get_global_pool was called for
  ptr,        \* ptr[t]: its local ptr, and its result
  new_pool,   \* new_pool[t]: its local new_pool
  chunks,     \* chunks[t]: head_, the pools that the chunks of t came from
  handlers,   \* how many calls of del_global_pool std::exit has still to make
  exit,       \* the process: running, exiting, deleting, over
  doomed      \* the local ptr of del_global_pool

getVars == <<pc, task, ptr, new_pool>>
exitVars == <<handlers, exit, doomed>>
vars == <<g_pool, life, getVars, chunks, exitVars>>

PoolOrNull == Pool \union {Null}

TypeOK ==
  /\ g_pool \in PoolOrNull
  /\ life \in [Pool -> {"none", "live", "deleted"}]
  /\ pc \in [Thread -> {"out", "load", "create", "cas", "register", "dispose", "use",
                        "walk", "return", "gone"}]
  /\ task \in [Thread -> {"size", "alloc", "free", "print"}]
  /\ ptr \in [Thread -> PoolOrNull]
  /\ new_pool \in [Thread -> PoolOrNull]
  /\ chunks \in [Thread -> Seq(Pool)]
  /\ handlers \in Nat
  /\ exit \in {"running", "exiting", "deleting", "over"}
  /\ doomed \in PoolOrNull

Init ==
  /\ g_pool = Null
  /\ life = [p \in Pool |-> "none"]
  /\ pc = [t \in Thread |-> "out"]
  /\ task = [t \in Thread |-> "size"]
  /\ ptr = [t \in Thread |-> Null]
  /\ new_pool = [t \in Thread |-> Null]
  /\ chunks = [t \in Thread |-> << >>]
  /\ handlers = 0
  /\ exit = "running"
  /\ doomed = Null

At(t, place) == pc[t] = place
Goto(t, place) == pc' = [pc EXCEPT ![t] = place]

\* Mutant of Destroy: the pool stays.
DestroyNot(p) == UNCHANGED life

\* ~global_pool, and with it ~mmap, which unmaps all its chunks.
Destroy(p) == life' = [life EXCEPT ![p] = "deleted"]

-----------------------------------------------------------------------------
(* get_global_pool *)

\* A tls_ps_pool is made, which asks for the chunk size, or needs a chunk, or the
\* program calls np_debug_print.  Main runs none of it once it has called exit.
Call(t, what) ==
  /\ At(t, "out")
  /\ t = Main => exit = "running"
  /\ what = "alloc" => Len(chunks[t]) < ChunkLimit
  /\ task' = [task EXCEPT ![t] = what]
  /\ Goto(t, "load")
  /\ UNCHANGED <<g_pool, life, ptr, new_pool, chunks, exitVars>>

Load(t) ==
  /\ At(t, "load")
  /\ ptr' = [ptr EXCEPT ![t] = g_pool]
  /\ Goto(t, IF g_pool = Null THEN "create" ELSE "use")
  /\ UNCHANGED <<g_pool, life, task, new_pool, chunks, exitVars>>

Create(t, p) ==
  /\ At(t, "create")
  /\ life[p] = "none"
  /\ life' = [life EXCEPT ![p] = "live"]
  /\ new_pool' = [new_pool EXCEPT ![t] = p]
  /\ Goto(t, "cas")
  /\ UNCHANGED <<g_pool, task, ptr, chunks, exitVars>>

CasWins(t) ==
  /\ At(t, "cas")
  /\ g_pool = Null
  /\ g_pool' = new_pool[t]
  /\ Goto(t, "register")
  /\ UNCHANGED <<life, task, ptr, new_pool, chunks, exitVars>>

\* Mutants of AtExit and of Created: std::atexit is not called; ptr is left as it
\* was loaded.
AtExitNot(n) == n
CreatedNot(t) == ptr[t]

\* std::atexit(del_global_pool), and ptr = new_pool.
AtExit(n) == n + 1
Created(t) == new_pool[t]
Register(t) ==
  /\ At(t, "register")
  /\ handlers' = AtExit(handlers)
  /\ ptr' = [ptr EXCEPT ![t] = Created(t)]
  /\ Goto(t, "use")
  /\ UNCHANGED <<g_pool, life, task, new_pool, chunks, exit, doomed>>

\* Mutant of Winner: the result is the thread's own pool.
WinnerIsOwn(t) == new_pool[t]

\* The failed exchange loads g_pool into ptr.
Winner(t) == g_pool
CasLoses(t) ==
  /\ At(t, "cas")
  /\ g_pool # Null
  /\ ptr' = [ptr EXCEPT ![t] = Winner(t)]
  /\ Goto(t, "dispose")
  /\ UNCHANGED <<g_pool, life, task, new_pool, chunks, exitVars>>

Dispose(t) ==
  /\ At(t, "dispose")
  /\ Destroy(new_pool[t])
  /\ Goto(t, "use")
  /\ UNCHANGED <<g_pool, task, ptr, new_pool, chunks, exitVars>>

-----------------------------------------------------------------------------
(* What the caller does with the pool it was given. *)

UseSize(t) ==
  /\ At(t, "use")
  /\ task[t] = "size"
  /\ Goto(t, "out")
  /\ UNCHANGED <<g_pool, life, task, ptr, new_pool, chunks, exitVars>>

\* debug_as_string.
UsePrint(t) ==
  /\ At(t, "use")
  /\ task[t] = "print"
  /\ Goto(t, "out")
  /\ UNCHANGED <<g_pool, life, task, ptr, new_pool, chunks, exitVars>>

\* alloc_chunk, and the chunk becomes the first of the list.
UseAlloc(t) ==
  /\ At(t, "use")
  /\ task[t] = "alloc"
  /\ chunks' = [chunks EXCEPT ![t] = <<ptr[t]>> \o @]
  /\ Goto(t, "out")
  /\ UNCHANGED <<g_pool, life, task, ptr, new_pool, exitVars>>

\* free_chunk, and on to the next chunk of the list.
UseFree(t) ==
  /\ At(t, "use")
  /\ task[t] = "free"
  /\ chunks' = [chunks EXCEPT ![t] = Tail(@)]
  /\ Goto(t, "return")
  /\ UNCHANGED <<g_pool, life, task, ptr, new_pool, exitVars>>

-----------------------------------------------------------------------------
(* deinit, in a callback of thread_atexit: when a thread ends, and for the *)
(* thread that called exit, where its callbacks run at all, after the      *)
(* handlers of std::atexit.                                                *)

MayEnd(t) == At(t, "out") /\ (t = Main => exit = "over")

\* Mutant of PoolAlive: it is not asked.
PoolAliveAlways == TRUE

\* is_pool_alive
PoolAlive == g_pool # Null

\* Bail out early when the pool is gone.
Deinit(t) ==
  /\ MayEnd(t)
  /\ Goto(t, IF PoolAlive THEN "walk" ELSE "gone")
  /\ UNCHANGED <<g_pool, life, task, ptr, new_pool, chunks, exitVars>>

\* The loop over free_ reads blocks of the chunks.
WalkFree(t) ==
  /\ At(t, "walk")
  /\ Goto(t, "return")
  /\ UNCHANGED <<g_pool, life, task, ptr, new_pool, chunks, exitVars>>

\* head_ = head_->next reads the chunk; get_global_pool is called once more.
ReturnNext(t) ==
  /\ At(t, "return")
  /\ chunks[t] # << >>
  /\ task' = [task EXCEPT ![t] = "free"]
  /\ Goto(t, "load")
  /\ UNCHANGED <<g_pool, life, ptr, new_pool, chunks, exitVars>>

ReturnDone(t) ==
  /\ At(t, "return")
  /\ chunks[t] = << >>
  /\ Goto(t, "gone")
  /\ UNCHANGED <<g_pool, life, task, ptr, new_pool, chunks, exitVars>>

-----------------------------------------------------------------------------
(* exit *)

Exit ==
  /\ exit = "running"
  /\ At(Main, "out")
  /\ Detached \/ \A t \in Thread \ {Main} : At(t, "gone")
  /\ exit' = "exiting"
  /\ UNCHANGED <<g_pool, life, getVars, chunks, handlers, doomed>>

\* del_global_pool: the exchange, and the deletion of what it returned.
DelExchange ==
  /\ exit = "exiting"
  /\ handlers > 0
  /\ handlers' = handlers - 1
  /\ doomed' = g_pool
  /\ g_pool' = Null
  /\ exit' = IF g_pool = Null THEN "exiting" ELSE "deleting"
  /\ UNCHANGED <<life, getVars, chunks>>

DelPool ==
  /\ exit = "deleting"
  /\ Destroy(doomed)
  /\ exit' = "exiting"
  /\ UNCHANGED <<g_pool, getVars, chunks, handlers, doomed>>

ExitOver ==
  /\ exit = "exiting"
  /\ handlers = 0
  /\ exit' = "over"
  /\ UNCHANGED <<g_pool, life, getVars, chunks, handlers, doomed>>

\* The process ends whenever the system comes round to it.
Stopped == exit = "over" /\ UNCHANGED vars

GetStep(t) ==
  \/ \E what \in {"size", "alloc", "print"} : Call(t, what)
  \/ \E p \in Pool : Create(t, p)
  \/ Load(t) \/ CasWins(t) \/ Register(t) \/ CasLoses(t) \/ Dispose(t)
UseStep(t) == UseSize(t) \/ UsePrint(t) \/ UseAlloc(t) \/ UseFree(t)
DeinitStep(t) == Deinit(t) \/ WalkFree(t) \/ ReturnNext(t) \/ ReturnDone(t)

Next ==
  \/ \E t \in Thread : GetStep(t) \/ UseStep(t) \/ DeinitStep(t)
  \/ Exit \/ DelExchange \/ DelPool \/ ExitOver \/ Stopped

Spec == Init /\ [][Next]_vars

-----------------------------------------------------------------------------
(* Properties *)

Live(p) == life[p] = "live"

\* deinit reads and writes chunks, and calls the pool, only while their memory
\* is mapped.
DeinitSafe == \A t \in Thread :
  /\ At(t, "walk") => \A p \in Range(chunks[t]) : Live(p)
  /\ At(t, "return") /\ chunks[t] # << >> => Live(Head(chunks[t]))
  /\ At(t, "use") /\ task[t] = "free" => Live(ptr[t]) /\ Live(Head(chunks[t]))

\* Nobody uses a pool that was deleted: neither through a pointer loaded before,
\* nor by touching a chunk in deinit.
NoUseAfterDelete == DeinitSafe /\ \A t \in Thread : At(t, "use") => Live(ptr[t])

\* A chunk goes back to the pool whose memory it is.
ChunkGoesHome == \A t \in Thread :
  At(t, "use") /\ task[t] = "free" => ptr[t] = Head(chunks[t])

\* Of the pools that racing threads create all but one are deleted, and at exit
\* that one: no live pool is out of everybody's reach.
NoPoolForgotten == \A p \in Pool : Live(p) =>
  \/ p = g_pool
  \/ \E t \in Thread : new_pool[t] = p /\ pc[t] \in {"cas", "dispose"}
  \/ exit = "deleting" /\ doomed = p

\* The pool in g_pool is one that a handler still to be called, or about to be
\* registered, will delete.
HandlerToCome ==
  g_pool # Null => Live(g_pool) /\ (handlers > 0 \/ \E t \in Thread : At(t, "register"))
=============================================================================
