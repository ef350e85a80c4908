---------------------------- MODULE BlockLayout ----------------------------
(***************************************************************************)
(* thread_local_pool::alloc and dealloc (src/np_alloc.cpp) down to the     *)
(* words they write.  A block is                                           *)
(*                                                                         *)
(*    header | pre_pad | what the program asked for | post_pad | slack     *)
(*                                                                         *)
(* and lies in a chunk that begins with its own header, struct pool.       *)
(* Nothing but the header says how long a block is and so which pool it    *)
(* goes back to; a free block keeps the link of its free list in the same  *)
(* word.  One thread, which first builds the table of SizeTable and then   *)
(* uses it.  Sizes and addresses are counted in words of 8 bytes.          *)
(***************************************************************************)
EXTENDS SizeTable

CONSTANTS
  L1CacheAlignSize, DefaultAlignSize,
  ChunkSize,    \* kDefaultChunkSize
  PoolHeader,   \* sizeof(pool)
  Header,       \* header_size
  Fence,        \* the words of pre_pad, and of post_pad
  Requests,     \* the values of `bytes`
  Null,         \* no block, no chunk
  ChunkLimit,   \* bound: the chunks that the global pool gives
  LiveLimit     \* bound: the blocks in use at the same time

Overhead == Header + 2 * Fence

PoolFor(alloc_size) == mapping_pool[alloc_size]

Word == 0..(ChunkLimit * ChunkSize - 1)

\* A header has room for its fields, and a chunk for a block of any size.
ASSUME HeaderAssumption == PoolHeader \in Nat \ 0..1 /\ Header \in Nat \ 0..2 /\ Fence \in Nat
ASSUME ChunkAssumption == ChunkSize \in Nat /\ PoolHeader + Largest <= ChunkSize
ASSUME RequestsAssumption == Requests \subseteq Nat
ASSUME LimitAssumption == ChunkLimit \in Nat /\ LiveLimit \in Nat
ASSUME NullAssumption == Null \notin Word

ASSUME LineAssumption == L1CacheAlignSize \in Nat \ {0}
\* With both fences, what comes before the program's words is a cache line.
ASSUME AlignAssumption ==
  /\ ChunkSize % L1CacheAlignSize = 0
  /\ (PoolHeader + Header + Fence) % L1CacheAlignSize = 0
  /\ \A k \in Pools : Sizes[k] % L1CacheAlignSize = 0

VARIABLES
  mem,      \* the words of the chunks, each with what was last written to it
  chunks,   \* the chunks taken from the global pool
  owner,    \* history: the pools that took them, by chunk
  head,     \* head[k]: head_ of pool k
  free,     \* free[k]: free_ of pool k
  live      \* the blocks the program has and the pool each was carved for

layoutVars == <<mem, chunks, owner, head, free, live>>

\* Mutant of UserAt: pre_pad is left out.
UserAtHeader(b) == b + Header

\* The fields of a chunk's header and of a block's.
UserAt(b) == b + Header + Fence
Next_(c) == c
PoolCurr(c) == c + 1
PrePad(b) == (b + Header)..(b + Header + Fence - 1)
User(b, bytes) == UserAt(b)..(UserAt(b) + bytes - 1)
PostPad(b, bytes) == (UserAt(b) + bytes)..(UserAt(b) + bytes + Fence - 1)

LayoutTypeOK ==
  /\ TypeOK
  /\ DOMAIN mem = Word
  /\ \A i \in 0..(chunks - 1) :
       /\ mem[Next_(i * ChunkSize)][1] = "next"
       /\ mem[PoolCurr(i * ChunkSize)][1] = "pool_curr"
  /\ chunks \in 0..ChunkLimit
  /\ owner \in [0..(chunks - 1) -> Pools]
  /\ head \in [Pools -> Word \union {Null}]
  /\ free \in [Pools -> Word \union {Null}]
  /\ \A b \in live : b.pool \in Pools \union {0} /\ b.bytes \in Requests

LayoutInit ==
  /\ Init
  /\ mem = [w \in Word |-> <<"zero">>]
  /\ chunks = 0
  /\ owner = [i \in {} |-> Null]
  /\ head = [k \in Pools |-> Null]
  /\ free = [k \in Pools |-> Null]
  /\ live = {}

Write(m, words, value) == [w \in Word |-> IF w \in words THEN value ELSE m[w]]

\* The header and the fences that alloc writes around the program's words.
Stamp(m, b, bytes) ==
  LET m1 == Write(m, {b}, <<"size", bytes>>)
      m2 == Write(m1, (b + 1)..(b + 2), <<"line, thread_id, file">>)
      m3 == Write(m2, PrePad(b), <<"pre_pad">>)
  IN Write(m3, PostPad(b, bytes), <<"post_pad">>)

Block(b, bytes, k) == [at |-> b, bytes |-> bytes, pool |-> k, used |-> FALSE]
Pooled == {b \in live : b.pool # 0}

-----------------------------------------------------------------------------
(* np_alloc *)

Asked(bytes, k) ==
  /\ Cardinality(live) < LiveLimit
  /\ bytes + Overhead <= max_alloc_size
  /\ k = PoolFor(bytes + Overhead)

\* Mutant of SecondFree: free_ stays where it was.
FirstFree(k) == free[k]

\* free_->next
SecondFree(k) == mem[free[k]][2]

AllocFromFree(bytes, k) ==
  /\ Asked(bytes, k)
  /\ free[k] # Null
  /\ free' = [free EXCEPT ![k] = SecondFree(k)]
  /\ mem' = Stamp(mem, free[k], bytes)
  /\ live' = live \union {Block(free[k], bytes, k)}
  /\ UNCHANGED <<chunks, owner, head>>

\* Mutant of FreeCount: what is left of the last block is rounded up.
FreeCountUp(k) == (head[k] + ChunkSize - mem[PoolCurr(head[k])][2] + Sizes[k] - 1)
                    \div Sizes[k]

\* get_free_count: the blocks that still fit before the chunk's end.
FreeCount(k) == (head[k] + ChunkSize - mem[PoolCurr(head[k])][2]) \div Sizes[k]

HasRoom(k) == head[k] # Null /\ FreeCount(k) > 0

\* alloc_from_local_pool moves pool_curr up by one block.
Carve(m, c, b, bytes, k) ==
  /\ mem' = Stamp(Write(m, {PoolCurr(c)}, <<"pool_curr", b + Sizes[k]>>), b, bytes)
  /\ live' = live \union {Block(b, bytes, k)}

AllocFromLocal(bytes, k) ==
  /\ Asked(bytes, k)
  /\ free[k] = Null
  /\ HasRoom(k)
  /\ Carve(mem, head[k], mem[PoolCurr(head[k])][2], bytes, k)
  /\ UNCHANGED <<chunks, owner, head, free>>

\* alloc_from_global writes the header of a new chunk first.
AllocFromGlobal(bytes, k) ==
  /\ Asked(bytes, k)
  /\ free[k] = Null
  /\ ~ HasRoom(k)
  /\ chunks < ChunkLimit
  /\ LET c == chunks * ChunkSize IN
       /\ Carve(Write(mem, {Next_(c)}, <<"next", head[k]>>), c, c + PoolHeader, bytes, k)
       /\ head' = [head EXCEPT ![k] = c]
  /\ chunks' = chunks + 1
  /\ owner' = [i \in 0..chunks |-> IF i = chunks THEN k ELSE owner[i]]
  /\ UNCHANGED free

\* malloc, whose result is aligned for any type; one such block at a time, and
\* of its address only the place in the cache line.
AllocBig(bytes, at) ==
  /\ Cardinality(live) < LiveLimit
  /\ bytes + Overhead > max_alloc_size
  /\ Pooled = live
  /\ at % DefaultAlignSize = 0
  /\ live' = live \union {Block(at, bytes, 0)}
  /\ UNCHANGED <<mem, chunks, owner, head, free>>

-----------------------------------------------------------------------------
(* The program writes all it asked for, and np_free *)

Use(b) ==
  /\ ~ b.used
  /\ live' = (live \ {b}) \union {[b EXCEPT !.used = TRUE]}
  /\ mem' = IF b.pool = 0 THEN mem ELSE Write(mem, User(b.at, b.bytes), <<"user", b.at>>)
  /\ UNCHANGED <<chunks, owner, head, free>>

\* Mutant of SizeFound: the program's bytes alone.
BytesFound(b) == mem[b.at][2]

\* The size dealloc computes from the header it finds.
SizeFound(b) == mem[b.at][2] + Overhead

Free(b) ==
  /\ b.pool # 0
  /\ LET k == PoolFor(SizeFound(b)) IN
       /\ mem' = Write(mem, {b.at}, <<"next", free[k]>>)
       /\ free' = [free EXCEPT ![k] = b.at]
  /\ live' = live \ {b}
  /\ UNCHANGED <<chunks, owner, head>>

FreeBig(b) ==
  /\ b.pool = 0
  /\ live' = live \ {b}
  /\ UNCHANGED <<mem, chunks, owner, head, free>>

\* The first np_alloc of a thread runs init to its end; then come the requests.
LayoutNext ==
  \/ MakePool /\ UNCHANGED layoutVars
  \/ MakeTable /\ UNCHANGED layoutVars
  \/ Fill /\ UNCHANGED layoutVars
  \/ NextPool /\ UNCHANGED layoutVars
  \/ Ready /\ (\E bytes \in Requests, k \in Pools : AllocFromFree(bytes, k)) /\ UNCHANGED vars
  \/ Ready /\ (\E bytes \in Requests, k \in Pools : AllocFromLocal(bytes, k)) /\ UNCHANGED vars
  \/ Ready /\ (\E bytes \in Requests, k \in Pools : AllocFromGlobal(bytes, k)) /\ UNCHANGED vars
  \/ Ready /\ (\E bytes \in Requests, at \in 0..(L1CacheAlignSize - 1) : AllocBig(bytes, at))
           /\ UNCHANGED vars
  \/ Ready /\ (\E b \in live : Use(b)) /\ UNCHANGED vars
  \/ Ready /\ (\E b \in live : Free(b)) /\ UNCHANGED vars
  \/ Ready /\ (\E b \in live : FreeBig(b)) /\ UNCHANGED vars

LayoutSpec == LayoutInit /\ [][LayoutNext]_<<vars, layoutVars>>

-----------------------------------------------------------------------------
(* Properties *)

\* dealloc finds what alloc wrote: the size in the header and both fences.  Its
\* assertions do not fail for a program that keeps to the words it asked for.
HeaderAndFencesKept == \A b \in Pooled :
  /\ mem[b.at] = <<"size", b.bytes>>
  /\ \A w \in PrePad(b.at) : mem[w] = <<"pre_pad">>
  /\ \A w \in PostPad(b.at, b.bytes) : mem[w] = <<"post_pad">>

\* What the program wrote is there until it frees the block, whatever else it
\* allocates and frees in between.
ContentsKept == \A b \in Pooled :
  b.used => \A w \in User(b.at, b.bytes) : mem[w] = <<"user", b.at>>

\* The blocks of pool k: on its free list, in use, carved from its chunks.
Listed(k) ==
  LET reach[n \in 0..LiveLimit] ==
        IF n = 0 THEN {free[k]}
        ELSE reach[n - 1] \union {mem[b][2] : b \in reach[n - 1] \intersect Word}
  IN reach[LiveLimit] \intersect Word
InUse(k) == {b.at : b \in {x \in live : x.pool = k}}
Carved(k) ==
  UNION {{b \in (c + PoolHeader)..(mem[PoolCurr(c)][2] - 1) :
             (b - c - PoolHeader) % Sizes[k] = 0} :
          c \in {i * ChunkSize : i \in {j \in 0..(chunks - 1) : owner[j] = k}}}

\* A block is in use or on the free list of the pool it was carved for, once:
\* dealloc never hands it to a pool of another size, and none gets lost.
FreeGoesHome == \A k \in Pools :
  /\ Carved(k) = Listed(k) \union InUse(k)
  /\ Listed(k) \intersect InUse(k) = {}

\* What the program gets from a pool begins a cache line.
PooledAligned == \A b \in Pooled : UserAt(b.at) % L1CacheAlignSize = 0

\* And whatever it gets from np_alloc does.
AllAligned == \A b \in live : UserAt(b.at) % L1CacheAlignSize = 0
=============================================================================
