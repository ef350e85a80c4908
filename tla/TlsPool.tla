------------------------------ MODULE TlsPool ------------------------------
(***************************************************************************)
(* np::tls_ps_pool (src/np_alloc.cpp), one per thread and size class, and  *)
(* the part of thread_local_pool that creates it, uses it and destroys it  *)
(* when the thread exits.  Each thread carves blocks out of chunks of its  *)
(* own; a freed block goes on the free list of the thread that frees it,   *)
(* whoever carved it.  The free list is threaded through the blocks, whose *)
(* first word the header of the next allocation overwrites.  At exit the   *)
(* chunks go back to the global pool and are carved again by others.       *)
(*                                                                         *)
(* One size class.  The global pool is what ChunkSupply promises, which    *)
(* ChunkPool is shown to implement.                                        *)
(***************************************************************************)
EXTENDS Integers, Sequences, FiniteSets, Functions

CONSTANTS
  Thread,
  Chunk,        \* bound: the chunks that can be cut from the reservation
  Slots,        \* the blocks one chunk has room for
  Null, Junk,   \* no block; a first word that is a header and not a link
  Width,        \* the bits of allocated_ (64 in the code)
  Programs      \* the programs that use the allocator, as sets of what they
                \*   do besides: "remote", free blocks in threads other than
                \*   the one that allocated them; "exits", end threads and start
                \*   others in their place; "exhausts", take the last chunk

ASSUME SizesAssumption == Slots \in Nat \ {0} /\ Width \in Nat \ {0} /\ 2^Width \in Nat \ {0}
ASSUME ThreadAssumption == IsFiniteSet(Thread)
ASSUME ChunkAssumption == IsFiniteSet(Chunk)
ASSUME ProgramsAssumption == Programs \subseteq SUBSET {"remote", "exits", "exhausts"}

Block == Chunk \X (1..Slots)
Pointer == Block \union {Null, Junk}
ASSUME NullAssumption == Null # Junk /\ Null \notin Block /\ Junk \notin Block
ChunkOf(b) == b[1]

VARIABLES
  program,      \* which of the Programs this is
  phase,        \* phase[t]: down (no pool yet), up, walk and return (deinit)
  pools,        \* pools[t]: the chunks in the list head_, newest first
  carved,       \* carved[c]: the blocks cut from c so far (pool_curr)
  free,         \* free[t]: free_
  link,         \* link[b]: the first word of block b
  allocated,    \* allocated[t]: allocated_
  walk,         \* walk[t]: the local f of deinit
  freeChunks,   \* the chunks given back to the global pool
  newChunks,    \* the chunks never handed out
  crashed,      \* a null pointer was written through
  \* History variables.
  handed,       \* handed[b]: how many holders block b has
  user          \* user[b]: the thread its holder got it in

threadVars == <<phase, pools, free, allocated, walk>>
vars == <<program, threadVars, carved, link, freeChunks, newChunks, crashed, handed, user>>

TypeOK ==
  /\ program \in Programs
  /\ phase \in [Thread -> {"down", "up", "walk", "return"}]
  /\ pools \in [Thread -> Seq(Chunk)]
  /\ carved \in [Chunk -> 0..Slots]
  /\ free \in [Thread -> Pointer]
  /\ link \in [Block -> Pointer]
  /\ allocated \in [Thread -> 0..(2^Width - 1)]
  /\ walk \in [Thread -> Pointer]
  /\ freeChunks \subseteq Chunk
  /\ newChunks \subseteq Chunk
  /\ crashed \in BOOLEAN
  /\ handed \in [Block -> Nat]
  /\ user \in [Block -> Thread \union {Null}]

Init ==
  /\ program \in Programs
  /\ phase = [t \in Thread |-> "down"]
  /\ pools = [t \in Thread |-> << >>]
  /\ carved = [c \in Chunk |-> 0]
  /\ free = [t \in Thread |-> Null]
  /\ link = [b \in Block |-> Junk]
  /\ allocated = [t \in Thread |-> 0]
  /\ walk = [t \in Thread |-> Null]
  /\ freeChunks = {}
  /\ newChunks = Chunk
  /\ crashed = FALSE
  /\ handed = [b \in Block |-> 0]
  /\ user = [b \in Block |-> Null]

\* Mutant of Wrap: a counter without a width.
WrapNot(n) == n

\* uint64 arithmetic.
Wrap(n) == n % 2^Width

\* The first use in a thread creates its pool (thread_local_pool::get).
Running(t) == ~ crashed /\ phase[t] \in {"down", "up"}
Started(t) == phase' = [phase EXCEPT ![t] = "up"]

-----------------------------------------------------------------------------
(* np_alloc *)

\* ++allocated_, and thread_local_pool::alloc writes the header into the block.
HandOut(t, b) ==
  /\ Started(t)
  /\ allocated' = [allocated EXCEPT ![t] = Wrap(@ + 1)]
  /\ link' = [link EXCEPT ![b] = Junk]
  /\ handed' = [handed EXCEPT ![b] = @ + 1]
  /\ user' = [user EXCEPT ![b] = t]

\* Mutant of SecondFree: free_ stays where it was.
FirstFree(t) == free[t]

\* free_->next
SecondFree(t) == link[free[t]]

AllocFromFree(t) ==
  /\ Running(t)
  /\ free[t] \in Block
  /\ free' = [free EXCEPT ![t] = SecondFree(t)]
  /\ HandOut(t, free[t])
  /\ UNCHANGED <<program, pools, carved, walk, freeChunks, newChunks, crashed>>

\* alloc_from_local_pool when the newest chunk has room.
HasRoom(t) == pools[t] # << >> /\ carved[Head(pools[t])] < Slots
AllocFromLocal(t) ==
  /\ Running(t)
  /\ free[t] = Null
  /\ HasRoom(t)
  /\ LET c == Head(pools[t]) IN
       /\ carved' = [carved EXCEPT ![c] = @ + 1]
       /\ HandOut(t, <<c, carved[c] + 1>>)
  /\ UNCHANGED <<program, pools, free, walk, freeChunks, newChunks, crashed>>

\* global_pool::alloc_chunk: a freed chunk or a new one.
TakeChunk(c) ==
  \/ /\ c \in freeChunks
     /\ freeChunks' = freeChunks \ {c}
     /\ UNCHANGED newChunks
  \/ /\ c \in newChunks
     /\ newChunks' = newChunks \ {c}
     /\ UNCHANGED freeChunks

\* Mutant of Prepend: new_pool->next = head_ is missing.
PrependUnlinked(c, list) == <<c>>

\* new_pool->next = head_; head_ = new_pool
Prepend(c, list) == <<c>> \o list

\* alloc_from_global, and the first block of the new chunk.
AllocFromGlobal(t, c) ==
  /\ Running(t)
  /\ free[t] = Null /\ ~ HasRoom(t)
  /\ TakeChunk(c)
  /\ pools' = [pools EXCEPT ![t] = Prepend(c, @)]
  /\ carved' = [carved EXCEPT ![c] = 1]
  /\ HandOut(t, <<c, 1>>)
  /\ UNCHANGED <<program, free, walk, crashed>>

\* The range is used up and pop has found no free chunk: new_pool->pool_curr is
\* written all the same.
AllocThroughNull(t) ==
  /\ "exhausts" \in program
  /\ Running(t)
  /\ free[t] = Null /\ ~ HasRoom(t)
  /\ newChunks = {}
  /\ crashed' = TRUE
  /\ UNCHANGED <<program, threadVars, carved, link, freeChunks, newChunks, handed,
                 user>>

-----------------------------------------------------------------------------
(* np_free *)

\* Mutant of LinkFrom: the block is not linked to the rest of the list.
LinkFromNone(t) == Null

\* Mutant of Uncount: allocated_ is not counted down.
UncountNot(n) == n

\* fh->next = free_, and --allocated_
LinkFrom(t) == free[t]
Uncount(n) == Wrap(n - 1)

\* dealloc in the pool of the calling thread.
Free(t, b) ==
  /\ Running(t)
  /\ handed[b] > 0
  /\ "remote" \in program \/ user[b] = t
  /\ Started(t)
  /\ allocated' = [allocated EXCEPT ![t] = Uncount(@)]
  /\ link' = [link EXCEPT ![b] = LinkFrom(t)]
  /\ free' = [free EXCEPT ![t] = b]
  /\ handed' = [handed EXCEPT ![b] = @ - 1]
  /\ user' = [user EXCEPT ![b] = Null]
  /\ UNCHANGED <<program, pools, carved, walk, freeChunks, newChunks, crashed>>

-----------------------------------------------------------------------------
(* deinit, when the thread exits *)

LiveOf(t) == {b \in Block : handed[b] > 0 /\ user[b] = t}

ExitBegin(t) ==
  /\ ~ crashed
  /\ "exits" \in program
  /\ phase[t] = "up"
  /\ phase' = [phase EXCEPT ![t] = "walk"]
  /\ walk' = [walk EXCEPT ![t] = free[t]]
  /\ UNCHANGED <<program, pools, carved, free, link, allocated, freeChunks, newChunks,
                 crashed, handed, user>>

\* The loop that counts the free blocks.
WalkFree(t) ==
  /\ ~ crashed
  /\ phase[t] = "walk"
  /\ walk[t] \in Block
  /\ walk' = [walk EXCEPT ![t] = link[walk[t]]]
  /\ UNCHANGED <<program, phase, pools, carved, free, link, allocated, freeChunks,
                 newChunks, crashed, handed, user>>

\* The loop is over; allocated_ is reported unless it is 0.  What the thread
\* has not freed by now is leaked: nobody uses it again.
WalkDone(t) ==
  /\ ~ crashed
  /\ phase[t] = "walk"
  /\ walk[t] = Null
  /\ phase' = [phase EXCEPT ![t] = "return"]
  /\ handed' = [b \in Block |-> IF b \in LiveOf(t) THEN 0 ELSE handed[b]]
  /\ user' = [b \in Block |-> IF b \in LiveOf(t) THEN Null ELSE user[b]]
  /\ UNCHANGED <<program, pools, carved, free, link, allocated, walk, freeChunks,
                 newChunks, crashed>>

\* One chunk goes back to the global pool; what it held is gone with it.
ReturnChunk(t) ==
  /\ ~ crashed
  /\ phase[t] = "return"
  /\ pools[t] # << >>
  /\ freeChunks' = freeChunks \union {Head(pools[t])}
  /\ pools' = [pools EXCEPT ![t] = Tail(@)]
  /\ UNCHANGED <<program, phase, carved, free, link, allocated, walk, newChunks,
                 crashed, handed, user>>

\* The pool is deleted; the next thread to come starts with none.
ExitDone(t) ==
  /\ ~ crashed
  /\ phase[t] = "return"
  /\ pools[t] = << >>
  /\ phase' = [phase EXCEPT ![t] = "down"]
  /\ free' = [free EXCEPT ![t] = Null]
  /\ allocated' = [allocated EXCEPT ![t] = 0]
  /\ UNCHANGED <<program, pools, carved, link, walk, freeChunks, newChunks, crashed,
                 handed, user>>

\* A null pointer was written through: the process is gone.
Crashed == crashed /\ UNCHANGED vars

Next ==
  \/ \E t \in Thread :
       \/ AllocFromFree(t) \/ AllocFromLocal(t) \/ AllocThroughNull(t)
       \/ \E c \in Chunk : AllocFromGlobal(t, c)
       \/ \E b \in Block : Free(t, b)
       \/ ExitBegin(t) \/ WalkFree(t) \/ WalkDone(t) \/ ReturnChunk(t) \/ ExitDone(t)
  \/ Crashed

Spec == Init /\ [][Next]_vars

-----------------------------------------------------------------------------
(* Properties *)

\* A block has one holder at a time.
NoDoubleHandOut == \A b \in Block : handed[b] <= 1

\* A block in use lies in a chunk of exactly one running thread: the chunk was
\* neither returned to the global pool nor dropped from its owner's list.
LiveChunkKept == \A b \in Block : handed[b] > 0 =>
  /\ ChunkOf(b) \notin freeChunks
  /\ Cardinality({t \in Thread : ChunkOf(b) \in Range(pools[t])}) = 1

\* The allocated_ of the threads add up to the blocks in use, although a block
\* freed elsewhere makes one of them too big and another wrap around.  A thread
\* that has given up what it leaked no longer counts.
SumOver(f) == FoldFunction(+, 0, f)
Counted(t) == IF phase[t] = "return" THEN 0 ELSE allocated[t]
AllocatedAddsUp == Wrap(SumOver([t \in Thread |-> Counted(t)])) = Wrap(SumOver(handed))

\* The blocks on the list that starts at p.
OnList(p) ==
  LET reach[n \in 0..Cardinality(Block)] ==
        IF n = 0 THEN {p} ELSE reach[n - 1] \union {link[b] : b \in reach[n - 1] \intersect Block}
  IN reach[Cardinality(Block)] \intersect Block

\* Every block a running thread has carved is either in use or on exactly one
\* free list: none is lost, and none is in use and free at the same time.
CarvedOnce == \A t \in Thread : phase[t] = "up" =>
  \A b \in Block : ChunkOf(b) \in Range(pools[t]) /\ b[2] <= carved[ChunkOf(b)] =>
    LET lists == {u \in Thread : phase[u] = "up" /\ b \in OnList(free[u])} IN
    handed[b] + Cardinality(lists) = 1

\* The report of deinit, "has allocated and not freed: N units", gives the
\* number of blocks the thread has in use, and is not made when it has none.
LeakReportIsTrue ==
  [][\A t \in Thread :
       phase[t] = "walk" /\ phase'[t] = "return" => allocated[t] = Cardinality(LiveOf(t))]_vars

\* The threads keep to ChunkSupply between them: each chunk is on the list of one
\* thread or at the global pool, is given back once, by the thread that has it,
\* and none drops out.
Supply == INSTANCE ChunkSupply WITH
  fresh <- newChunks,
  spare <- freeChunks,
  owned <- [t \in Thread |-> Range(pools[t])],
  lost <- {}
UsesSupply == Supply!Spec

\* np_alloc survives a global pool that has nothing left.
NoNullWrite == ~ crashed
=============================================================================
