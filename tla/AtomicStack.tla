---------------------------- MODULE AtomicStack ----------------------------
(***************************************************************************)
(* What lf_stack promises its callers: every operation takes effect in one *)
(* step.  pop takes the top node, push makes a node the top, and for_each  *)
(* is one step that takes all the nodes followed by one push for each of   *)
(* them, first taken first pushed; between these steps the taken nodes are *)
(* out of everybody else's reach.                                          *)
(***************************************************************************)
EXTENDS Naturals, Sequences

CONSTANTS Thread, Node

VARIABLES
  stack,     \* the nodes on the stack, the top first
  held,      \* held[t]: the nodes thread t owns
  chain      \* chain[t]: the nodes t's for_each has still to put back

vars == <<stack, held, chain>>

Init ==
  /\ stack = << >>
  /\ held \in [Thread -> SUBSET Node]
  /\ chain = [t \in Thread |-> << >>]

Pop(t) ==
  /\ stack # << >>
  /\ stack' = Tail(stack)
  /\ held' = [held EXCEPT ![t] = @ \union {Head(stack)}]
  /\ UNCHANGED chain

Push(t, n) ==
  /\ n \in held[t]
  /\ stack' = <<n>> \o stack
  /\ held' = [held EXCEPT ![t] = @ \ {n}]
  /\ UNCHANGED chain

TakeAll(t) ==
  /\ chain[t] = << >>
  /\ chain' = [chain EXCEPT ![t] = stack]
  /\ stack' = << >>
  /\ UNCHANGED held

PutBack(t) ==
  /\ chain[t] # << >>
  /\ stack' = <<Head(chain[t])>> \o stack
  /\ chain' = [chain EXCEPT ![t] = Tail(@)]
  /\ UNCHANGED held

Next == \E t \in Thread :
  \/ Pop(t) \/ TakeAll(t) \/ PutBack(t)
  \/ \E n \in held[t] : Push(t, n)

Spec == Init /\ [][Next]_vars
=============================================================================
