----------------------------- MODULE MCLatchPool -----------------------------
(***************************************************************************)
(* Model checking of async_latch and of the thread pool, the two that a    *)
(* program's own threads share: one of them is in use, the other stays in  *)
(* its initial state.                                                      *)
(***************************************************************************)
EXTENDS AsyncLatch, ThreadPool

VARIABLE used      \* "latch" or "pool"

LatchPoolInit == used \in {"latch", "pool"} /\ LatchInit /\ Init

LatchPoolNext ==
    \/ used = "latch" /\ LatchNext /\ UNCHANGED <<used, vars>>
    \/ used = "pool" /\ Next /\ UNCHANGED <<used, latchVars>>

\* The fairness of AsyncLatch and of ThreadPool, each of the one in use.
LatchPoolFairness ==
    /\ \A c \in Waiters : WF_latchVars(used = "latch" /\ Waiting(c))
    /\ \A k \in Counters : WF_latchVars(used = "latch" /\ Counting(k))
    /\ \A x \in Clients : WF_vars(used = "pool" /\ Coroutine(x))
    /\ \A w \in Workers : WF_vars(used = "pool" /\ WorkLoop(w))
    /\ \A x \in Executors : SF_vars(used = "pool" /\ Enter(x))
    /\ \A c \in Joiners : WF_vars(used = "pool" /\ Shutdown(c))

LatchPoolSpec ==
    /\ LatchPoolInit /\ [][LatchPoolNext]_<<used, latchVars, vars>>
    /\ LatchPoolFairness
=============================================================================
