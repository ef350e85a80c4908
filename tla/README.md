# np_alloc in TLA+

A formal model of [np_alloc](../src/README.md), a per-thread memory allocator over a
lock-free pool of chunks. The modules are translated from the C++ in `src/src`; TLC checks
them on small instances and TLAPS proves the central invariants for every value of the
constants. `PROJECT.json` lists the components, the runs, the mutants that show each
property to be sensitive, the lines each definition stands for, the findings, the hazards
and the theorems.

    tlc -workers 2 -config stack.cfg         MCLockFreeStack.tla    # a run
    tlapm LockFreeStack_proofs.tla                                 # the proofs

## The system

| component | source | state | operations | hard part |
|---|---|---|---|---|
| lock-free stack | `np_lf_stack.h` | `head_` = (aba, ptr), links in the nodes | `pop`, `push`, `for_each`, `count_free_list`, `debug_free_list` | interleavings, ABA, links overwritten by the node's owner |
| chunk pool | `np_mmap.h/.cpp`, `global_pool.h` | reservation, `head_`, free stack, three counters | `reserve`, `alloc_chunk`, `free_chunk`, `count_free_list`, `debug_as_string` | races on `head_`, exhaustion, failed commits, counters that lag |
| global pool singleton | `np_alloc.cpp:52-90` | `g_pool`, atexit handlers | `get_global_pool`, `is_pool_alive`, `del_global_pool`, `np_debug_print` | racing creators, threads that outlive `exit` |
| per-size pool | `np_alloc.cpp:92-217` | `head_`, `free_`, `allocated_` per thread and size | `alloc`, `dealloc`, `deinit` | blocks freed by other threads, exits, wrap of `allocated_` |
| size classes and table | `np_alloc.cpp:335-387` | `mapping_pool_` | `get_alloc_size_list`, `init` | off-by-one at every boundary |
| block layout | `np_alloc.cpp:219-333` | headers, fences, links in memory | `alloc`, `dealloc` | `dealloc` recomputes what `alloc` computed; overlap |
| thread exit | `np_thread.h/.cpp` | list of callbacks per thread | `thread_atexit`, `thread_test_atexit` | order of callbacks, stale pointers, joins |
| bit counting | `np_common.h:62-119` | none | `clz`, `ctz`, `popcnt`, `log2` | zero, one branch per compiler |
| bitset | `np_bitset.h` | two levels of 64-bit words | set, clear, first, count, iterator | sizes that are no multiple of 64 |
| clients | `main.cpp`, `bench`, `test`, `np_alloc_test` | | | |

`np_alloc` and `np_free` go to the calling thread's `thread_local_pool`, which looks up the
size in `mapping_pool_` and calls the `tls_ps_pool` of that size. That takes a block from
its own free list, carves one from its newest chunk, or asks `get_global_pool()` for a
chunk. The global pool wraps one `np::mmap`, which pops a freed chunk from the `lf_stack`
or cuts a new one from the reserved range. Only the last two and `g_pool` are shared by
threads. When a thread ends, `thread_atexit` destroys its pools, and their `deinit` pushes
the chunks back. When the process ends, a handler of `std::atexit` deletes the global pool
and its mapping.

What makes each part correct: the stack is a list of exactly the nodes pushed and not
popped, each node has one owner and every operation is atomic; a chunk has one owner and
none is lost; one global pool lives from its creation to the exit and nobody uses it after;
a block has one holder, stays on one list, and does not overlap another; each size finds
the smallest pool that holds it; a thread's callbacks run once each, last registered first,
before whoever joins the thread goes on.

## Modules

| module | models | state and actions |
|---|---|---|
| `LockFreeStack` | `lf_stack` | one action per access to shared memory; `curr`, `succ`, `ptr` are the locals of the function a thread is in, `pc` its place there. `stack`, `held`, `chain` are history: what the stack should hold, who owns what, what a `for_each` has still to push back |
| `AtomicStack` | what `lf_stack` promises | `Pop`, `Push`, `TakeAll` and `PutBack`, one step each |
| `ChunkPool` | `np::mmap` through `global_pool` | extends `LockFreeStack`: its steps run inside `alloc_chunk`, `free_chunk` and `count_free_list`. `top` is `head_`, a chunk is its index. `asserts` is the build, with or without `NDEBUG`, chosen at the start |
| `ChunkSupply` | what `global_pool` promises its callers | `Reuse`, `Cut`, `Lose`, `GiveBack`, one step each, over the sets of chunks never cut, given back, in use and lost |
| `TlsPool` | `tls_ps_pool` of one size in every thread, and `thread_local_pool` creating and destroying it | one action per branch of `alloc`, one for `dealloc`, one per loop iteration of `deinit`. `program` is what the program does besides allocating: free remotely, end threads, take the last chunk. The global pool here is what `ChunkSupply` promises: any chunk given back, or a new one |
| `GlobalPool` | `g_pool` from creation to exit | one action per access to `g_pool` in `get_global_pool`, `del_global_pool` and `deinit`; `task` is what the caller wants of the pool: its chunk size, a chunk, to give one back, or to print; a chunk is the pool it came from |
| `SizeClasses` | `get_alloc_size_list` | the n-th size in closed form, and the list |
| `SizeTable` | `thread_local_pool::init` | the two loops, one action per iteration, for any list of increasing sizes |
| `BlockLayout` | `thread_local_pool::alloc` and `dealloc` | extends `SizeTable`: `init` runs first and `PoolFor` reads the table it built. Memory word by word: chunk headers, block headers, fences, contents, links. `dealloc` finds the size where `alloc` wrote it |
| `ThreadAtexit` | `thread_atexit`, the destructor of its key, `thread_test_atexit`, `thread_local_pool::get`, in threads that start and join others as those of `main.cpp` do | one action per call of the program and per turn of the loop of `invoke`; a callback is the pool's deletion, the one that sets the flag of `thread_test_atexit`, or the program's, and the program's may do anything the thread may |
| `Bits` | `clz`, `ctz`, `popcnt`, `log2`, and the shifts and masks of `bitset<64>` | operators on the number a word is |
| `Powers` | powers of two, for the shifts in `Bits` and the sizes in `SizeClasses` | `Pow2`, a recursive function, so that proofs can use its equation |
| `Bitset` | `np::bitset` of 64 bits and of more, with its iterators | extends `Bits`; one action per operation; a word is the set of its positions. `members` and `unseen` are history |

How they fit together: `LockFreeStack` implements `AtomicStack`; `ChunkPool`, which runs
the steps of `LockFreeStack`, implements `ChunkSupply` (`ImplementsSupply`); `TlsPool`
takes its chunks from `ChunkSupply` and keeps to it (`UsesSupply`). So what `tls` shows of
blocks rests on the free list as it is, with its races: a thread may get a new chunk
although another was just given back.

`MC*` modules give TLC its symmetry sets and the constant lists; `*_proofs` modules hold the
proofs, and `ListsAndSums` the lemmas that several of them share. Every safety invariant,
action property and refinement that a passing run checks is also a theorem.

Conventions: a variable or action has the name of the field or function it stands for
where TLA+ allows it. Operators that begin with *Mutant of* in their comment are not part of
the model: each is a plausible bug, and TLC finds the property it is listed with violated
when it takes the original's place.

### Abstractions

* Memory accesses interleave in one order (sequential consistency). The acquire and release
  orders in the code are not modelled, nor is the head's double-width atomic falling back to
  a lock where the compiler does not inline it.
* The aba counter has 64 bits and does not wrap; an operation begins only while it is below
  `MaxTag`.
* A node's first word holds a link, null, or any other link its owner writes there. Owners
  write values that look like links because those are the worst: a stale link that is a
  valid node is what makes ABA dangerous.
* Addresses of chunks are indices. `reserve` always succeeds with the default size, half of
  it and so on down to the smallest, or not at all.
* Output, file names, line numbers and thread ids are left out.

## What the runs show

All bounds are constants of the `.cfg` files.

| run | question | instance |
|---|---|---|
| `stack` | Is the stack always a list of what was pushed, with one owner for each node; does every operation, a walk too, take effect at one step, and return? | 2 threads, 2 nodes, 6 successful exchanges, fairness |
| `pool` | With and without assertions, and with commits that fail: one owner per chunk, none forgotten, none handed out beyond a full reservation where assertions are kept, counters that agree with the lists between any two steps, `count_free_list` a snapshot, and all of it a `ChunkSupply`? | 2 threads, chunks 0 to 1 of a range of 1, 6 exchanges, both builds |
| `tls` | Do blocks have one holder and stay on one list, chunks stay with their owner, `allocated_` and the exit report agree with the truth, threads keep to `ChunkSupply`, both for programs that free remotely and for programs whose threads come and go? | 3 threads, 2 chunks of 2 blocks, `allocated_` of 3 bits, two programs |
| `block_layout` | Is the table `init` builds complete and best-fit, and do headers, fences and contents survive any use of the blocks found through it? | sizes of 8 to 40 words for a cache line of 8, 2 chunks of 48, 5 requests, 3 blocks in use |
| `singleton_joined` | One pool, deleted once, not used after | 3 threads, 3 pools, 2 chunks per thread |
| `thread_atexit` | Does every callback run once and before its thread is joined, the pool go last of what may rely on it, `thread_test_atexit` pass without a write into a frame that is gone, and every exit and join end? | 3 threads, one of them `main`'s, 4 callbacks, fairness |
| `bitset` | Do both levels agree with the set they stand for, does an iterator miss nothing while the set changes, and do the words' numbers give what their sets say? | words of 3 bits, sizes 3, 4, 5, 6 and 9 |

Five more runs show the code doing other than what the repository says of it; each has an
entry under "findings":

| run | what is violated |
|---|---|
| `pool_reservation` | `global_pool` falls back to a smaller reservation, but nothing compares `head_` with it |
| `tls_exhausted` | `alloc_from_global` writes through the null pointer its callers are ready to return |
| `tls_leak_report` | the report at thread exit names blocks that were freed, when another thread freed them |
| `block_alignment` | a block from `malloc` is not aligned to a cache line |
| `singleton_detached` | a thread passes `is_pool_alive`, and the exiting thread then unmaps the memory it walks |

### Bounds

An ABA needs a thread between its read and its exchange while another pops that node,
pops or pushes a second one and pushes the first back: 3 exchanges, one rival and two
nodes. `stack` has twice the exchanges, so a whole cycle fits after an earlier one; that
no third thread or node makes a difference is what the proofs show, and not this run.
For the pool, one chunk more than the range has shows what happens beyond its end, and 6
exchanges let every thread free, walk and reuse while the other is in each place. In
`tls` the threads of a program either free remotely or end, not both (`Disciplined`): a
chunk that a thread gives back is carved again under the blocks others hold of it. A
chunk of two blocks has a first, a last and a full state, and two chunks give a thread a
list of two or each of two threads a chunk. Three bits let `allocated_` wrap within the
run; it wraps the same way in 64. The layout keeps the proportions of the code (header
32 bytes, fences 16, chunk header 16, cache line 64, all in words) and makes the chunk
small enough to be filled by one block of the largest size or by two of the second, with
a remainder that is less than a block, as in the code. In `thread_atexit`
the 4 callbacks are shared out among the threads in every way: one may have the pool's own
with callbacks before, after and inside it, or two a test each within one. Threads are
numbered as they start. Words of three bits give a bitset a first, a
middle and a last word and position; the sizes are one word, one bit more than a word, a
bit less than two, two, and the full square.

### Fairness

`stack` and `thread_atexit` assume some (`FairSpec`). In the stack every thread inside an
operation keeps running (weak fairness of its steps: no code path blocks there), and a
compare-and-swap that could succeed infinitely often succeeds infinitely often
(strong fairness of `CasWins`): `compare_exchange_weak` fails spuriously only now and then.
That an operation returns also relies on its rivals' successes being finitely many, which
`MaxTag` makes so: the stack is lock-free and not wait-free, and `Completes` claims no more.

In `thread_atexit` what the library runs goes on (`Library`), a thread's function comes to
its end and a callback returns, each with weak fairness: the library blocks in `join` only,
and `ThreadsGo` shows that nobody waits there for ever. That callbacks return is the
program's part. `Limit` stands for the other thing the program owes: a callback that always
registers another would keep its thread for ever. No fairness makes a thread register,
start or join anything, and nothing makes `main` end.

## What is proved

For any numbers of threads, nodes, chunks, callbacks and sizes, and any bounds. Each module
proves an inductive invariant first and draws the properties from it:

* `LockFreeStack_proofs`. The inductive invariant adds two things to the properties.
  `CurrentViews`: the counter never falls, so a thread whose copy of it is current has a
  current pointer too, and a pop whose exchange can still succeed has read the link that is
  there now. This is the whole argument that the counter prevents ABA. `InHand`: where the
  node being pushed comes from. From it follow `TypeCorrect`, `ListIntact`,
  `NoDoubleHandOut`, `WalkIntact`, `NoneLost`, and `Refinement`: every step of
  `LockFreeStack` is a step of `AtomicStack` or leaves it unchanged. `OnlyRivalsDelay` is
  what steps can say of lock-freedom: only a successful exchange moves the head, by one
  count, and an exchange loses, unless spuriously, to one that succeeded since its thread
  read the head.
* `ChunkPool_proofs`. Every step of `np::mmap` around the stack preserves the stack's
  invariant, and the chunks cut so far are those placed or lost: `PoolTypeCorrect`,
  `ChunkExclusive`, `NoChunkForgotten`, `RangeGuarded`. `SupplyImplemented` is the
  refinement of `ChunkSupply`: the exchange that pops a chunk is `Reuse`, the one that
  pushes it `GiveBack`, the one that moves `head_` is `Cut`, a failed commit is `Lose`; the
  stack's walk moves chunks between places that are spare to the abstract supply. For
  `SnapshotCounted` (`CountIsSnapshot`) the invariant says how much of the detached chain is
  counted at each place of the walk. For `CountersTrue` (`CountersAgree`) the three
  counters, the chunks whose counting is still due and the lengths of the stack and of all
  detached chains balance; every step moves both sides by the same amount.
* `TlsPool_proofs`. The pools' lists of chunks are apart from each other and from the free
  chunks: `TypeCorrect`, and `SupplyUsed`, the steps of every thread are steps of
  `ChunkSupply`. The rest concerns the blocks. `FreeListsKept` says there are sequences L[t]
  such that `free[t]` and the links run along L[t] and end in null, no block occurs twice on
  them, and a block that an active thread has carved is in use or on one of them.
  `NoDoubleHandOut`, `LiveChunkKept` and `CarvedOnce` follow (`OneHolder`, `LiveKept`,
  `CarvedIsSomewhere`). `CountersAddUp` shows that `allocated_` of all threads adds up to
  the blocks in use, modulo 2^Width, though a remote free takes any one of them below zero;
  `LeakReport`, that the report at thread exit is exact where nothing is freed remotely. All
  that concerns blocks supposes that no program both frees remotely and ends threads
  (`ThreadsKept`, which `Disciplined` in `MCTlsPool` satisfies), and `LeakReport` that a
  counter can count all blocks (`FewBlocks`).
* `GlobalPool_proofs`. A pool just created is its creator's alone until it is published or
  deleted; the published one is live and comes and goes with its handler: `TypeCorrect`,
  `NoPoolLeaks`, `PoolWillGo`. Where no thread outlives `main` (`~ Detached`), there is one
  pool until all threads are gone: `NoneUsesDeleted`, `ChunksGoHome`. The hypothesis is
  needed: `singleton_detached` shows what happens without it.
* `ThreadAtexit_proofs`. Callbacks are numbered as they are registered and the numbers fall
  along every list; a callback is pending, once, in the thread that registered it, until it
  ran; a live pool has one callback, and the callbacks registered after it are before it; a
  thread whose flag is awaited is about to set it: `CallbacksRunOnce`, `PoolGoesLast`,
  `TestPasses`.
* `BlockLayout_proofs`, first about the table of `SizeTable`. For every list of increasing
  sizes the loop has, below `cur_size`, the best fit for each entry, and above it nothing:
  `BestFitTable`, `NoStrayWrite` and `TableFull`. `ListOfSizes`: for any cache line, and any
  `kMaxBlockSize` that 32 sizes can reach, `get_alloc_size_list` makes such a list, of whole
  cache lines and with steps of at most a quarter, up to a size that holds the largest
  request. It rests on the list in cache lines, where `2^i` doubles from one group of four
  to the next just where the step does. That the code's own constants give 25 such sizes TLC
  evaluates too (`RealSizesAssumption` in `MCBlockLayout`).
* `BlockLayout_proofs`, about the blocks. Chunk i has its header at `Base(i)` and behind it
  blocks at distances that are multiples of their size, up to the `pool_curr` its header
  holds; so blocks reach neither each other nor a header, and what alloc, dealloc and the
  program write into one block leaves the others as they were. On this rests the inductive
  invariant (`LayoutInvariant`): the free list of each pool is a sequence of blocks that the
  links in memory spell; what was carved for the pool is on it or in use, once; a block in
  use is of the pool the table gives for its size and holds its header, fences and contents.
  `HeadersKept`, `ContentsStay` and `BlocksGoHome` follow, and `LayoutTypeCorrect`. The last
  needs that a block goes back where its header says, and so the header's being intact and
  the table's being the same at both ends: the three cannot be proved one without the
  others. `PooledIsAligned` needs besides that chunk header, block header and first fence
  make up whole cache lines, and block sizes too (`AlignAssumption`, true of a build with
  fences). `TableIsBuiltOnce`: requests leave the table alone.
* `Bitset_proofs`. Position `pos` is bit `pos % Word` of word `pos \div Word` and of no
  other, and a size is covered by the words there are, of which index_ has a bit for each.
  The inductive invariant (`BitsInvariant`) gives the words and index_ as functions of the
  members, and says that what the iterator should still come to are members behind its
  position. `TwoLevelsAgree` follows: the least member is found by way of index_, and the
  bits of all words, a sum over a fold, are as many as the members; and
  `IteratorComesToAll`. `set_all` keeps the invariant because the two sizes for which it is
  called fill their words.
* `Bitset_proofs`, about numbers (`NumbersAreWords`). The number of a word is the sum of the
  masks of its bits. Sums of disjoint words add, the last k positions together are worth
  less than `2^k` (`LowIsSmall`), and a word without its last k positions is worth `2^k`
  times what it is when moved k positions on (`Scaled`). So shifting right drops the low
  bits (`ShrIs`) and shifting left the high ones (`ShlIs`), and a word lies between its
  highest bit and twice that (`HighestBit`). With these the builtins that `Bits` describes
  by what they look for find it, and nothing else, in every word; `popcnt` is the size of
  the set; get, set, clear and next do to the number what `Bitset` does to the set.
* `ListsAndSums` has the lemmas about threaded lists, sums and powers of two. The sum of a function
  is the fold of the community module `Functions`; that it exists, is an integer, and
  changes as the function does at one argument is shown by taking a least counterexample,
  since the library's induction theorems are beyond the installed provers. So are the laws
  of `Pow2`, after a proof that a function with its equation exists: it is put together
  from partial ones (`DoublingExists`).

The assumptions are named in the modules: null is not a node (`NullAssumption`), `MaxTag`
and the counts are naturals, chunk indices are `0..MaxChunk` and null is none of them
(`ChunkAssumption`, `AddressAssumption`), threads, and chunks of `TlsPool`, are finitely
many (`ThreadAssumption`), a counter of `Width` bits has a positive number of values
(`SizesAssumption`), sizes increase. None of the proofs depends on the value of a bound.

Only model-checked: `Completes` and `ThreadsGo`. Liveness under fairness needs ENABLED,
which is beyond the prover; of `Completes` the part that is about steps is `OnlyRivalsDelay`.

## What is not modelled

* A callback registered before the thread's first `np_alloc` that allocates or frees after
  the pool was deleted: `s_pool` still points to it. Code that runs in a thread after the
  destructor of the key, which leaves `tls_caller` pointing to what it deleted. The Windows
  side of `thread_atexit` (fiber-local storage). The callbacks of the main thread, which on
  POSIX do not run when `main` returns.
* `set_all` of bitsets of other sizes than 64 and 4096 bits.
* Requests within 64 bytes of the largest `size_t`, for which `alloc_size` wraps, and
  `malloc` returning null for large requests.
* Programs that free remotely and also end threads: `deinit` gives chunks back although
  others may hold blocks of them. `tls` separates the two, as the
  repository's own programs do.
* Code that runs in `main`'s thread after its handlers of `std::atexit` other than `deinit`.
* `virtual_free`, `validate_ptr`, `get_alloc_header` and the member `alloc_chunk_index_`,
  which nothing that runs calls or reads; `virtual_release` and the probing of addresses in
  `reserve`, of which only success or failure is kept.
* `util.*`, `local_new.h` and the shims in `linux`, which keep no state; the `test`,
  `np_alloc_test` and `bench` programs, clients whose calls are among those the programs of
  `TlsPool` make: the threads of `np_bench` fill and empty vectors of their own, which is a
  program that frees locally and ends its threads. Of `main.cpp` what it prints is left
  out. Vendored libraries.

## Plan

1. `LockFreeStack`, `AtomicStack`, `ChunkPool` and their proofs: done.
2. `TlsPool`, `SizeClasses`, `SizeTable` with proof, `BlockLayout`, `GlobalPool`: done.
3. `ThreadAtexit`, `Bitset`, `Bits`: done.
4. `ChunkSupply`, with `ChunkPool` shown to implement it and `TlsPool` to use it: done.
5. Proofs of `ImplementsSupply`, `CountIsSnapshot` and `CountersAgree` in `ChunkPool`, of all
   invariants of `TlsPool`, `GlobalPool` and `ThreadAtexit`, and of `UsesSupply`: done.
6. Proofs of all invariants of `BlockLayout` and of `Bitset`, of the numbers of `Bits`, of
   the sizes of `SizeClasses` and of `OnlyRivalsDelay`: done.

What could be added: the destructor of `mmap` and a second pool in `ChunkPool`, should the
code ever use two pools; proofs of `Completes` and `ThreadsGo`, with a prover for ENABLED.
