---------------------------- MODULE ChunkSupply ----------------------------
(***************************************************************************)
(* What global_pool promises the tls_ps_pools that call alloc_chunk and    *)
(* free_chunk: a chunk has one user at a time, who alone may give it back, *)
(* and what was given back may be given out again.  Which free chunk that  *)
(* is, and whether a new one is cut although some are free, is open: pop   *)
(* may have found the list empty before another thread's push.             *)
(***************************************************************************)
CONSTANTS Thread, Chunk

VARIABLES
  fresh,   \* the chunks never cut from the reservation
  spare,   \* the chunks given back and not in use again
  owned,   \* owned[t]: the chunks of thread t
  lost     \* the chunks whose commit failed

vars == <<fresh, spare, owned, lost>>

Init ==
  /\ fresh = Chunk
  /\ spare = {}
  /\ owned = [t \in Thread |-> {}]
  /\ lost = {}

\* alloc_chunk: a chunk that was freed, or a new one.
Reuse(t, c) ==
  /\ c \in spare
  /\ spare' = spare \ {c}
  /\ owned' = [owned EXCEPT ![t] = @ \union {c}]
  /\ UNCHANGED <<fresh, lost>>

Cut(t, c) ==
  /\ c \in fresh
  /\ fresh' = fresh \ {c}
  /\ owned' = [owned EXCEPT ![t] = @ \union {c}]
  /\ UNCHANGED <<spare, lost>>

\* The system had no memory for the chunk: the caller gets null.
Lose(t, c) ==
  /\ c \in owned[t]
  /\ lost' = lost \union {c}
  /\ owned' = [owned EXCEPT ![t] = @ \ {c}]
  /\ UNCHANGED <<fresh, spare>>

\* free_chunk.
GiveBack(t, c) ==
  /\ c \in owned[t]
  /\ spare' = spare \union {c}
  /\ owned' = [owned EXCEPT ![t] = @ \ {c}]
  /\ UNCHANGED <<fresh, lost>>

Next == \E t \in Thread, c \in Chunk :
  Reuse(t, c) \/ Cut(t, c) \/ Lose(t, c) \/ GiveBack(t, c)

Spec == Init /\ [][Next]_vars
=============================================================================
