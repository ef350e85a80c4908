--------------------------- MODULE LockFreeStack ---------------------------
(***************************************************************************)
(* np::lf_stack<T> (src/np_lf_stack.h): the Treiber stack np_alloc keeps   *)
(* its free chunks on.  The head is a pair (aba counter, pointer) replaced *)
(* by one double-width compare-and-swap; the links are plain `next` fields *)
(* inside the nodes themselves, so whoever owns a popped node overwrites   *)
(* the very word that a slower thread may still be reading.                *)
(*                                                                         *)
(* One action per access to shared memory: a load of the head, a read or a *)
(* write of a `next` field, a compare-and-swap.  Steps that touch only     *)
(* locals are folded into the access that follows or precedes them.        *)
(* Interleavings are sequentially consistent.                              *)
(***************************************************************************)
EXTENDS Naturals, Sequences, Functions

CONSTANTS
  Thread,    \* the threads that share one stack
  Node,      \* the nodes (T*), e.g. the chunks of np::mmap
  Null,      \* nullptr
  MaxTag     \* bound: no operation starts once the aba counter reaches it

ASSUME NullAssumption == Null \notin Node
ASSUME MaxTagAssumption == MaxTag \in Nat

VARIABLES
  head,      \* head_: the atomic pair [aba, ptr]
  next,      \* next[n]: the `next` field of node n
  pc,        \* where each thread is inside its operation
  curr,      \* curr[t]: the local `curr`, the head as t last saw it
  succ,      \* succ[t]: the local next.ptr of pop, the local `next` of for_each
  ptr,       \* ptr[t]: pop's result, push's argument, for_each's position
  walking,   \* walking[t]: t is inside the loop of for_each
  \* History variables: no guard and no other variable depends on them.
  stack,     \* the nodes on the stack, the top first
  held,      \* held[t]: the nodes only t may use (popped, or not yet pushed)
  chain      \* chain[t]: the nodes for_each took and has not pushed back

ptrVars == <<curr, succ, ptr>>
history == <<stack, held, chain>>
vars == <<head, next, pc, curr, succ, ptr, walking, stack, held, chain>>

NodeOrNull == Node \union {Null}
Head_t == [aba : Nat, ptr : NodeOrNull]
Pcs == {"idle", "pop_read", "pop_cas", "popped", "push_link", "push_cas",
        "pushed", "each_cas", "each_visit", "visited"}

TypeOK ==
  /\ head \in Head_t
  /\ next \in [Node -> NodeOrNull]
  /\ pc \in [Thread -> Pcs]
  /\ curr \in [Thread -> Head_t]
  /\ succ \in [Thread -> NodeOrNull]
  /\ ptr \in [Thread -> NodeOrNull]
  /\ walking \in [Thread -> BOOLEAN]
  /\ stack \in Seq(Node)
  /\ held \in [Thread -> SUBSET Node]
  /\ chain \in [Thread -> Seq(Node)]
  \* Nobody is about to go through a null pointer.
  /\ \A t \in Thread : pc[t] = "pop_cas" => curr[t].ptr # Null
  /\ \A t \in Thread : pc[t] \in {"push_link", "push_cas"} => ptr[t] # Null

\* A stack just constructed, and no thread inside it.
EmptyStack ==
  /\ head = [aba |-> 0, ptr |-> Null]
  /\ next = [n \in Node |-> Null]
  /\ pc = [t \in Thread |-> "idle"]
  /\ curr = [t \in Thread |-> [aba |-> 0, ptr |-> Null]]
  /\ succ = [t \in Thread |-> Null]
  /\ ptr = [t \in Thread |-> Null]
  /\ walking = [t \in Thread |-> FALSE]
  /\ stack = << >>
  /\ chain = [t \in Thread |-> << >>]

\* Every node belongs to some thread.
Init ==
  /\ EmptyStack
  /\ \E owner \in [Node -> Thread] :
       held = [t \in Thread |-> {n \in Node : owner[n] = t}]

At(t, place) == pc[t] = place
Goto(t, place) == pc' = [pc EXCEPT ![t] = place]
MayStart(t) == At(t, "idle") /\ head.aba < MaxTag
LoadHead(t) == curr' = [curr EXCEPT ![t] = head]

\* What the histories keep of a list whose first node is taken.
Rest(s) == IF s = << >> THEN s ELSE Tail(s)

\* Mutant of CasHead: the counter is not bumped.
CasHeadWithoutAba(t, new) ==
  /\ head = curr[t]
  /\ head' = [curr[t] EXCEPT !.ptr = new]

\* compare_exchange_weak(curr, <curr.aba + 1, new>) when it succeeds.
CasHead(t, new) ==
  /\ head = curr[t]
  /\ head' = [aba |-> curr[t].aba + 1, ptr |-> new]

\* compare_exchange_weak when it fails: `curr` is reloaded.  The weak form
\* may fail although the head is still equal to `curr`.
CasFails(t, from, retry) ==
  /\ At(t, from)
  /\ LoadHead(t)
  /\ Goto(t, retry)
  /\ UNCHANGED <<head, next, succ, ptr, walking, history>>

-----------------------------------------------------------------------------
(* pop *)

PopLoad(t) ==
  /\ MayStart(t)
  /\ LoadHead(t)
  /\ Goto(t, "pop_read")
  /\ UNCHANGED <<head, next, succ, ptr, walking, history>>

PopEmpty(t) ==
  /\ At(t, "pop_read")
  /\ curr[t].ptr = Null
  /\ ptr' = [ptr EXCEPT ![t] = Null]
  /\ Goto(t, "popped")
  /\ UNCHANGED <<head, next, curr, succ, walking, history>>

\* Mutant of PopRead: the loop does not stop at an empty list.
PopReadUnchecked(t) ==
  /\ At(t, "pop_read")
  /\ succ' = [succ EXCEPT ![t] = IF curr[t].ptr = Null THEN Null ELSE next[curr[t].ptr]]
  /\ Goto(t, "pop_cas")
  /\ UNCHANGED <<head, next, curr, ptr, walking, history>>

\* The node may have been popped, and overwritten, by another thread by now.
PopRead(t) ==
  /\ At(t, "pop_read")
  /\ curr[t].ptr # Null
  /\ succ' = [succ EXCEPT ![t] = next[curr[t].ptr]]
  /\ Goto(t, "pop_cas")
  /\ UNCHANGED <<head, next, curr, ptr, walking, history>>

PopCas(t) ==
  /\ At(t, "pop_cas")
  /\ CasHead(t, succ[t])
  /\ ptr' = [ptr EXCEPT ![t] = curr[t].ptr]
  /\ Goto(t, "popped")
  /\ stack' = Rest(stack)
  /\ held' = [held EXCEPT ![t] = @ \union {curr[t].ptr}]
  /\ UNCHANGED <<next, curr, succ, walking, chain>>

\* Mutant of PopCasFails: the failed exchange does not reload the head.
PopCasFailsKeepsHead(t) ==
  /\ At(t, "pop_cas")
  /\ Goto(t, "pop_read")
  /\ UNCHANGED <<head, next, ptrVars, walking, history>>

PopCasFails(t) == CasFails(t, "pop_cas", "pop_read")

-----------------------------------------------------------------------------
(* push *)

PushLoad(t, n) ==
  /\ MayStart(t)
  /\ n \in held[t]
  /\ ptr' = [ptr EXCEPT ![t] = n]
  /\ LoadHead(t)
  /\ Goto(t, "push_link")
  /\ UNCHANGED <<head, next, succ, walking, history>>

PushLink(t) ==
  /\ At(t, "push_link")
  /\ next' = [next EXCEPT ![ptr[t]] = curr[t].ptr]
  /\ Goto(t, "push_cas")
  /\ UNCHANGED <<head, curr, succ, ptr, walking, history>>

PushCas(t) ==
  /\ At(t, "push_cas")
  /\ CasHead(t, ptr[t])
  /\ Goto(t, "pushed")
  /\ stack' = <<ptr[t]>> \o stack
  /\ IF walking[t]
     THEN /\ chain' = [chain EXCEPT ![t] = Rest(@)]
          /\ held' = held
     ELSE /\ held' = [held EXCEPT ![t] = @ \ {ptr[t]}]
          /\ chain' = chain
  /\ UNCHANGED <<next, ptrVars, walking>>

\* Mutant of PushCasFails: the link is written before the loop only.
PushCasFailsKeepsLink(t) == CasFails(t, "push_cas", "push_cas")

PushCasFails(t) == CasFails(t, "push_cas", "push_link")

-----------------------------------------------------------------------------
(* for_each, and with it count_free_list and debug_free_list: take the whole *)
(* list with one compare-and-swap, then push its nodes back one by one.      *)

EachLoad(t) ==
  /\ MayStart(t)
  /\ LoadHead(t)
  /\ Goto(t, "each_cas")
  /\ UNCHANGED <<head, next, succ, ptr, walking, history>>

EachEmpty(t) ==
  /\ At(t, "each_cas")
  /\ curr[t].ptr = Null
  /\ Goto(t, "visited")
  /\ UNCHANGED <<head, next, ptrVars, walking, history>>

EachCas(t) ==
  /\ At(t, "each_cas")
  /\ curr[t].ptr # Null
  /\ CasHead(t, Null)
  /\ ptr' = [ptr EXCEPT ![t] = curr[t].ptr]
  /\ walking' = [walking EXCEPT ![t] = TRUE]
  /\ Goto(t, "each_visit")
  /\ chain' = [chain EXCEPT ![t] = stack]
  /\ stack' = << >>
  /\ UNCHANGED <<next, curr, succ, held>>

EachCasFails(t) ==
  /\ curr[t].ptr # Null
  /\ CasFails(t, "each_cas", "each_cas")

\* fun(ptr); next = ptr->next; then push(ptr), whose first step loads the head.
EachVisit(t) ==
  /\ At(t, "each_visit")
  /\ ptr[t] # Null
  /\ succ' = [succ EXCEPT ![t] = next[ptr[t]]]
  /\ LoadHead(t)
  /\ Goto(t, "push_link")
  /\ UNCHANGED <<head, next, ptr, walking, history>>

\* Mutant of EachAdvance: the link is read after the node was pushed back.
EachAdvanceReadsLate(t) ==
  /\ At(t, "pushed")
  /\ walking[t]
  /\ ptr' = [ptr EXCEPT ![t] = next[ptr[t]]]
  /\ Goto(t, "each_visit")
  /\ UNCHANGED <<head, next, curr, succ, walking, history>>

\* push has returned: ptr = next.
EachAdvance(t) ==
  /\ At(t, "pushed")
  /\ walking[t]
  /\ ptr' = [ptr EXCEPT ![t] = succ[t]]
  /\ Goto(t, "each_visit")
  /\ UNCHANGED <<head, next, curr, succ, walking, history>>

EachDone(t) ==
  /\ At(t, "each_visit")
  /\ ptr[t] = Null
  /\ walking' = [walking EXCEPT ![t] = FALSE]
  /\ Goto(t, "visited")
  /\ UNCHANGED <<head, next, ptrVars, history>>

-----------------------------------------------------------------------------
(* The callers *)

\* An operation has returned to its caller, and its locals are gone.
Return(t) ==
  /\ pc[t] \in {"popped", "pushed", "visited"}
  /\ ~ walking[t]
  /\ Goto(t, "idle")
  /\ curr' = [curr EXCEPT ![t] = [aba |-> 0, ptr |-> Null]]
  /\ succ' = [succ EXCEPT ![t] = Null]
  /\ ptr' = [ptr EXCEPT ![t] = Null]
  /\ UNCHANGED <<head, next, walking, history>>

\* The owner of a node uses its memory and overwrites the link with data.
Overwrite(t, n, v) ==
  /\ At(t, "idle")
  /\ n \in held[t]
  /\ next' = [next EXCEPT ![n] = v]
  /\ UNCHANGED <<head, pc, ptrVars, walking, history>>

\* The steps of an operation under way (a thread never stops inside one).
PopStep(t) == PopEmpty(t) \/ PopRead(t) \/ PopCas(t) \/ PopCasFails(t)
PushStep(t) == PushLink(t) \/ PushCas(t) \/ PushCasFails(t)
EachStep(t) == EachEmpty(t) \/ EachCasFails(t) \/ EachAdvance(t) \/ EachDone(t)
Step(t) == PopStep(t) \/ PushStep(t) \/ EachStep(t) \/ EachCas(t) \/ EachVisit(t)

Start(t) ==
  \/ PopLoad(t)
  \/ \E n \in held[t] : PushLoad(t, n)
  \/ EachLoad(t)

\* Every thread has come to the bound between two operations.
Terminated ==
  /\ head.aba >= MaxTag
  /\ \A t \in Thread : At(t, "idle")
  /\ UNCHANGED vars

Next ==
  \/ \E t \in Thread : Start(t) \/ Step(t) \/ Return(t)
  \/ \E t \in Thread : \E n \in held[t], v \in NodeOrNull : Overwrite(t, n, v)
  \/ Terminated

Spec == Init /\ [][Next]_vars

\* A running thread keeps taking steps, and a compare-and-swap that some
\* thread could win infinitely often is won infinitely often: the weak form
\* fails spuriously only now and then.
CasWins == \E t \in Thread : PopCas(t) \/ PushCas(t) \/ EachCas(t)
Fairness ==
  /\ \A t \in Thread : WF_vars(Step(t) \/ Return(t))
  /\ SF_vars(CasWins)
FairSpec == Spec /\ Fairness

-----------------------------------------------------------------------------
(* Properties *)

\* List s is threaded through the link fields f, starting at pointer p.
First(s) == IF s = << >> THEN Null ELSE s[1]
Linked(f, s, p) ==
  /\ p = First(s)
  /\ \A i \in 1..Len(s) : f[s[i]] = IF i = Len(s) THEN Null ELSE s[i + 1]

\* The nodes only thread t can reach.
Own(t) == held[t] \union Range(chain[t])

\* Following the links from head_ always yields exactly the nodes that were
\* pushed and not popped since, in order: no stale pop (ABA), late push or
\* overwritten link ever corrupts the list.
StackIsList == Linked(next, stack, head.ptr)

\* The list for_each took stays intact while the other threads push and pop.
WalkIsList == \A t \in Thread :
  walking[t] => IF At(t, "each_visit") THEN Linked(next, chain[t], ptr[t])
                ELSE IF At(t, "pushed") THEN Linked(next, chain[t], succ[t])
                ELSE /\ ptr[t] = First(chain[t])
                     /\ Linked(next, Tail(chain[t]), succ[t])

\* A node is never handed to two threads, nor owned while it is on the stack.
Exclusive ==
  /\ IsInjective(stack)
  /\ \A t \in Thread :
       /\ IsInjective(chain[t])
       /\ held[t] \intersect Range(chain[t]) = {}
       /\ Own(t) \intersect Range(stack) = {}
  /\ \A t, u \in Thread : t # u => Own(t) \intersect Own(u) = {}

\* What makes the above inductive.  The aba counter never falls, so a thread
\* whose copy of it is current has a current pointer as well, and a pop whose
\* compare-and-swap can still succeed read the link after the top last changed.
CurrentViews == \A t \in Thread :
  /\ curr[t].aba <= head.aba
  /\ /\ pc[t] \in {"pop_read", "pop_cas", "push_link", "push_cas", "each_cas"}
     /\ curr[t].aba = head.aba
     => curr[t] = head
  /\ At(t, "pop_cas") /\ curr[t] = head => succ[t] = next[head.ptr]
  /\ At(t, "push_cas") => next[ptr[t]] = curr[t].ptr

\* The node being pushed is the caller's, or the first that for_each has left.
InHand == \A t \in Thread :
  /\ chain[t] # << >> => walking[t]
  /\ walking[t] => pc[t] \in {"each_visit", "push_link", "push_cas", "pushed"}
  /\ At(t, "each_visit") => walking[t]
  /\ pc[t] \in {"push_link", "push_cas"} =>
       IF walking[t] THEN chain[t] # << >> /\ ptr[t] = chain[t][1]
       ELSE ptr[t] \in held[t]

\* The inductive invariant: TypeOK and the named parts.
IInv ==
  /\ TypeOK
  /\ StackIsList
  /\ WalkIsList
  /\ Exclusive
  /\ CurrentViews
  /\ InHand

Placed == Range(stack) \union UNION {Own(t) : t \in Thread}

\* No interleaving of pushes, pops and walks loses a node: each is on the
\* stack, with an owner, or in the part of the list a running for_each has yet
\* to push back.
NothingLost == \A n \in Node :
  \/ n \in Range(stack)
  \/ \E t \in Thread : n \in held[t] \/ (walking[t] /\ n \in Range(chain[t]))

\* A free-list operation that was started returns, whatever its rivals do: a
\* failed compare-and-swap means that another operation succeeded, and the
\* number of those is bounded here by MaxTag.
Completes == \A t \in Thread : ~ At(t, "idle") ~> At(t, "idle")

\* lf_stack implements the atomic stack: every operation takes effect at its
\* successful compare-and-swap and nowhere else.
Atomic == INSTANCE AtomicStack
ImplementsAtomicStack == Atomic!Spec
=============================================================================
