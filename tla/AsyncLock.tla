------------------------------ MODULE AsyncLock ------------------------------
(***************************************************************************)
(* async_lock (primitives/async-lock).  The word `state` is NOT_LOCKED,    *)
(* LOCKED_NO_WAITERS, or the address of the newest of the awaiters that    *)
(* suspended since the last transfer (a stack).  release() moves that      *)
(* stack, reversed, to the queue `awaiters`, which only the lock's holder  *)
(* touches, and resumes the head of the queue on its own stack.            *)
(*                                                                         *)
(* await_suspend stores prev_state, cast to a pointer, in next_awaiter.    *)
(* For the first awaiter prev_state is LOCKED_NO_WAITERS, which is 1: the  *)
(* link is WILD, a pointer that is not null and that cannot be             *)
(* dereferenced.  release() takes null for the end of the stack, so it     *)
(* follows WILD and the process dies: the hand-over is modelled, and no    *)
(* contended release() gets that far.                                      *)
(***************************************************************************)
EXTENDS Awaiters, Naturals

CONSTANTS
    Coroutines,        \* coroutines that use the lock
    NOT_LOCKED,
    LOCKED_NO_WAITERS,
    WILD               \* the address 0x1

ASSUME LockAssumption ==
    /\ NOT_LOCKED # LOCKED_NO_WAITERS
    /\ NULL # WILD
    /\ {NOT_LOCKED, LOCKED_NO_WAITERS, NULL, WILD} \cap Coroutines = {}

VARIABLES
    state,          \* async_lock::state
    prev_state,     \* await_suspend's local prev_state
    awaiters_head,  \* release's local awaiters_head
    current,        \* release's local current_awaiter
    crashed         \* the process was killed by an invalid memory access

vars == <<state, awaiters, pc, prev_state, next_awaiter, awaiters_head,
          current, runs, crashed>>

Word == Coroutines \cup {NOT_LOCKED, LOCKED_NO_WAITERS}
Pointer == Coroutines \cup {NULL, WILD}

TypeOK ==
    /\ state \in Word
    /\ awaiters \in Pointer
    /\ pc \in [Coroutines -> {"idle", "trying", "suspended", "holding",
                              "unlocking", "taking", "reversing", "handoff",
                              "finished"}]
    /\ prev_state \in [Coroutines -> Word]
    /\ next_awaiter \in [Coroutines -> Pointer]
    /\ awaiters_head \in [Coroutines -> Pointer]
    /\ current \in [Coroutines -> Pointer]
    /\ runs \in [Coroutines -> Coroutines \cup {NULL}]
    /\ crashed \in BOOLEAN

Init ==
    /\ state = NOT_LOCKED
    /\ awaiters = NULL
    /\ pc = [c \in Coroutines |-> "idle"]
    /\ prev_state = [c \in Coroutines |-> NOT_LOCKED]
    /\ next_awaiter = [c \in Coroutines |-> NULL]
    /\ awaiters_head = [c \in Coroutines |-> NULL]
    /\ current = [c \in Coroutines |-> NULL]
    /\ runs = [c \in Coroutines |-> NULL]
    /\ crashed = FALSE

-----------------------------------------------------------------------------
\* reinterpret_cast<async_lock_awaiter*>(w), for w # NOT_LOCKED.
AsPointer(w) == IF w = LOCKED_NO_WAITERS THEN WILD ELSE w

\* c executes code: the process lives and no resume() of c is in progress.
Active(c) == ~crashed /\ runs[c] = NULL

\* co_await lock.acquire(): await_ready is false; await_suspend loads state.
Acquire(c) ==
    /\ Active(c)
    /\ pc[c] = "idle"
    /\ prev_state' = [prev_state EXCEPT ![c] = state]
    /\ pc' = [pc EXCEPT ![c] = "trying"]
    /\ UNCHANGED <<state, awaiters, next_awaiter, awaiters_head, current, runs,
                   crashed>>

\* Fault: the free lock is taken by a store, not by a compare-exchange.
TakeFreeByStore(c) ==
    /\ Active(c)
    /\ pc[c] = "trying"
    /\ prev_state[c] = NOT_LOCKED
    /\ state' = LOCKED_NO_WAITERS
    /\ pc' = [pc EXCEPT ![c] = "holding"]
    /\ UNCHANGED <<awaiters, prev_state, next_awaiter, awaiters_head, current,
                   runs, crashed>>

\* The lock was free and the compare-exchange takes it; await_suspend returns
\* false and await_resume makes the guard.
TakeFree(c) ==
    /\ Active(c)
    /\ pc[c] = "trying"
    /\ prev_state[c] = NOT_LOCKED
    /\ state = NOT_LOCKED
    /\ state' = LOCKED_NO_WAITERS
    /\ pc' = [pc EXCEPT ![c] = "holding"]
    /\ UNCHANGED <<awaiters, prev_state, next_awaiter, awaiters_head, current,
                   runs, crashed>>

\* Fault: the awaiter is pushed by a store, not by a compare-exchange.
EnqueueByStore(c) ==
    /\ Active(c)
    /\ pc[c] = "trying"
    /\ prev_state[c] # NOT_LOCKED
    /\ next_awaiter' = [next_awaiter EXCEPT ![c] = AsPointer(prev_state[c])]
    /\ state' = c
    /\ pc' = [pc EXCEPT ![c] = "suspended"]
    /\ ReturnToResumer(c)
    /\ UNCHANGED <<awaiters, prev_state, awaiters_head, current, crashed>>

\* The lock was held and the compare-exchange pushes the awaiter on the stack.
Enqueue(c) ==
    /\ Active(c)
    /\ pc[c] = "trying"
    /\ prev_state[c] # NOT_LOCKED
    /\ state = prev_state[c]
    /\ next_awaiter' = [next_awaiter EXCEPT ![c] = AsPointer(prev_state[c])]
    /\ state' = c
    /\ pc' = [pc EXCEPT ![c] = "suspended"]
    /\ ReturnToResumer(c)
    /\ UNCHANGED <<awaiters, prev_state, awaiters_head, current, crashed>>

\* Either compare-exchange fails, for good or spuriously, and reloads.
RetryAcquire(c) ==
    /\ Active(c)
    /\ pc[c] = "trying"
    /\ next_awaiter' = IF prev_state[c] = NOT_LOCKED THEN next_awaiter
                       ELSE [next_awaiter EXCEPT ![c] = AsPointer(prev_state[c])]
    /\ prev_state' = [prev_state EXCEPT ![c] = state]
    /\ UNCHANGED <<state, awaiters, pc, awaiters_head, current, runs, crashed>>

-----------------------------------------------------------------------------
\* ~async_lock_guard calls release(), which reads the queue first.
BeginRelease(c) ==
    /\ Active(c)
    /\ pc[c] = "holding"
    /\ awaiters_head' = [awaiters_head EXCEPT ![c] = awaiters]
    /\ pc' = [pc EXCEPT ![c] = IF awaiters = NULL THEN "unlocking" ELSE "handoff"]
    /\ UNCHANGED <<state, awaiters, prev_state, next_awaiter, current, runs,
                   crashed>>

\* No queue: try to free the lock; fails when an awaiter snuck in.
Unlock(c) ==
    /\ Active(c)
    /\ pc[c] = "unlocking"
    /\ state' = IF state = LOCKED_NO_WAITERS THEN NOT_LOCKED ELSE state
    /\ pc' = [pc EXCEPT ![c] =
                IF state = LOCKED_NO_WAITERS THEN "idle" ELSE "taking"]
    /\ UNCHANGED <<awaiters, prev_state, next_awaiter, awaiters_head, current,
                   runs, crashed>>

\* Fault: the stack becomes the queue as it is, newest first.
TakeListUnreversed(c) ==
    /\ Active(c)
    /\ pc[c] = "taking"
    /\ awaiters_head' = [awaiters_head EXCEPT ![c] = AsPointer(state)]
    /\ state' = LOCKED_NO_WAITERS
    /\ pc' = [pc EXCEPT ![c] = "handoff"]
    /\ UNCHANGED <<awaiters, prev_state, next_awaiter, current, runs, crashed>>

\* Exchange the stack for LOCKED_NO_WAITERS.
TakeList(c) ==
    /\ Active(c)
    /\ pc[c] = "taking"
    /\ current' = [current EXCEPT ![c] = AsPointer(state)]
    /\ state' = LOCKED_NO_WAITERS
    /\ pc' = [pc EXCEPT ![c] = "reversing"]
    /\ UNCHANGED <<awaiters, prev_state, next_awaiter, awaiters_head, runs,
                   crashed>>

\* One turn of the do-while loop that reverses the stack into awaiters_head.
ReverseStep(c) ==
    /\ Active(c)
    /\ pc[c] = "reversing"
    /\ current[c] \in Coroutines
    /\ next_awaiter' = [next_awaiter EXCEPT ![current[c]] = awaiters_head[c]]
    /\ awaiters_head' = [awaiters_head EXCEPT ![c] = current[c]]
    /\ current' = [current EXCEPT ![c] = next_awaiter[current[c]]]
    /\ pc' = [pc EXCEPT ![c] =
                IF next_awaiter[current[c]] = NULL THEN "handoff" ELSE "reversing"]
    /\ UNCHANGED <<state, awaiters, prev_state, runs, crashed>>

\* The lock, still locked, passes to the head of the queue, which is resumed.
HandOff(c) ==
    /\ Active(c)
    /\ pc[c] = "handoff"
    /\ awaiters_head[c] \in Coroutines
    /\ awaiters' = next_awaiter[awaiters_head[c]]
    /\ pc' = [pc EXCEPT ![c] = "idle", ![awaiters_head[c]] = "holding"]
    /\ runs' = [runs EXCEPT ![c] = awaiters_head[c]]
    /\ UNCHANGED <<state, prev_state, next_awaiter, awaiters_head, current,
                   crashed>>

\* The pointer release() is about to dereference.
Dereferenced(c) ==
    IF pc[c] = "reversing" THEN current[c] ELSE awaiters_head[c]

\* release() reads next_awaiter through a pointer to no awaiter.
Crash(c) ==
    /\ Active(c)
    /\ pc[c] \in {"reversing", "handoff"}
    /\ Dereferenced(c) \notin Coroutines
    /\ crashed' = TRUE
    /\ UNCHANGED <<state, awaiters, pc, prev_state, next_awaiter, awaiters_head,
                   current, runs>>

\* release() follows its pointer at the end of the reversal or of the queue.
HandOffOrCrash(c) ==
    IF Dereferenced(c) \in Coroutines THEN HandOff(c) ELSE Crash(c)

\* The coroutine, which holds no guard, ends.
Finish(c) ==
    /\ Active(c)
    /\ pc[c] = "idle"
    /\ pc' = [pc EXCEPT ![c] = "finished"]
    /\ ReturnToResumer(c)
    /\ UNCHANGED <<state, awaiters, prev_state, next_awaiter, awaiters_head,
                   current, crashed>>

-----------------------------------------------------------------------------
Locking(c) == Acquire(c) \/ TakeFree(c) \/ Enqueue(c) \/ RetryAcquire(c)

Releasing(c) ==
    \/ BeginRelease(c)
    \/ Unlock(c)
    \/ TakeList(c)
    \/ ReverseStep(c)
    \/ HandOffOrCrash(c)

Next == \E c \in Coroutines : Locking(c) \/ Releasing(c) \/ Finish(c)

Spec == Init /\ [][Next]_vars

\* A coroutine that holds the lock releases it and completes the release().
Fairness == \A c \in Coroutines : WF_vars(Releasing(c))

FairSpec == Spec /\ Fairness

-----------------------------------------------------------------------------
\* The coroutines between await_resume and the end of release().
Holds(c) ==
    pc[c] \in {"holding", "unlocking", "taking", "reversing", "handoff"}

\* At most one coroutine holds the lock, across the hand-over in release()
\* (which never frees the word) and the races of await_suspend for a free lock;
\* and while one does, the word does not say NOT_LOCKED.
MutualExclusion ==
    /\ \A c, d \in Coroutines : Holds(c) /\ Holds(d) => c = d
    /\ \A c \in Coroutines : Holds(c) => state # NOT_LOCKED

\* A coroutine suspended on the lock eventually holds it: release() "resumes
\* next awaiter, if available".
WaiterGetsLock ==
    \A c \in Coroutines : (pc[c] = "suspended") ~> (pc[c] = "holding")
=============================================================================
