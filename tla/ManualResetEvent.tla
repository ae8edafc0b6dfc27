-------------------------- MODULE ManualResetEvent --------------------------
(***************************************************************************)
(* manual_reset_event (primitives/manual-reset-event): one atomic word     *)
(* that is either the address of the event itself (SET), or the head of an *)
(* intrusive, lock-free stack of suspended awaiters (NULL when empty).     *)
(*                                                                         *)
(* Every consumer coroutine has one awaiter, in its frame, so an awaiter   *)
(* is named by its coroutine.  Each atomic access is a step of its own.    *)
(* set() runs the coroutines it resumes on its own stack: a setter takes   *)
(* no step while a coroutine it resumed has neither suspended nor ended.   *)
(***************************************************************************)
EXTENDS Naturals

CONSTANTS
    Consumers,   \* coroutines that co_await the event
    Setters,     \* threads that call set()
    SET,         \* the address of the event: the event is set
    NULL,        \* nullptr
    MaxAwaits,   \* bound: co_awaits of one coroutine
    MaxCalls     \* bound: calls of set() and reset() together

ASSUME EventAssumption ==
    /\ SET # NULL
    /\ {SET, NULL} \cap (Consumers \cup Setters) = {}
    /\ Consumers \cap Setters = {}
    /\ MaxAwaits \in Nat
    /\ MaxCalls \in Nat

VARIABLES
    state,         \* manual_reset_event::state
    pc,            \* where each coroutine stands
    old_val,       \* await_suspend's local old_val
    next_awaiter,  \* awaiter::next_awaiter
    awaits,        \* co_awaits begun by each coroutine
    waiter,        \* set's local `waiter`: head of the part still to resume
    runs,          \* the coroutine running inside a setter's resume(), or NULL
    calls          \* set() and reset() calls made

vars == <<state, pc, old_val, next_awaiter, awaits, waiter, runs, calls>>

Address == Consumers \cup {SET, NULL}

TypeOK ==
    /\ state \in Address
    /\ pc \in [Consumers -> {"running", "suspending", "linking", "suspended",
                             "finished"}]
    /\ old_val \in [Consumers -> Address]
    /\ next_awaiter \in [Consumers -> Consumers \cup {NULL}]
    /\ awaits \in [Consumers -> 0..MaxAwaits]
    /\ waiter \in [Setters -> Consumers \cup {NULL}]
    /\ runs \in [Setters -> Consumers \cup {NULL}]
    /\ calls \in 0..MaxCalls

\* The event is constructed unset (init = false) or set (init = true).
Init ==
    /\ state \in {NULL, SET}
    /\ pc = [c \in Consumers |-> "running"]
    /\ old_val = [c \in Consumers |-> NULL]
    /\ next_awaiter = [c \in Consumers |-> NULL]
    /\ awaits = [c \in Consumers |-> 0]
    /\ waiter = [s \in Setters |-> NULL]
    /\ runs = [s \in Setters |-> NULL]
    /\ calls = 0

-----------------------------------------------------------------------------
\* c gave up its thread: the resume() that was running it, if any, returns.
ReturnToResumer(c) ==
    runs' = [s \in Setters |-> IF runs[s] = c THEN NULL ELSE runs[s]]

\* co_await event: await_ready reads the state once; the coroutine goes on
\* when the event is set and enters await_suspend otherwise.
AwaitReady(c) ==
    /\ pc[c] = "running"
    /\ awaits[c] < MaxAwaits
    /\ awaits' = [awaits EXCEPT ![c] = @ + 1]
    /\ pc' = [pc EXCEPT ![c] = IF state = SET THEN "running" ELSE "suspending"]
    /\ UNCHANGED <<state, old_val, next_awaiter, waiter, runs, calls>>

\* await_suspend, the load of state into old_val.
LoadState(c) ==
    /\ pc[c] = "suspending"
    /\ old_val' = [old_val EXCEPT ![c] = state]
    /\ pc' = [pc EXCEPT ![c] = "linking"]
    /\ UNCHANGED <<state, next_awaiter, awaits, waiter, runs, calls>>

\* await_suspend returns false: the event was set when old_val was read.
DontSuspend(c) ==
    /\ pc[c] = "linking"
    /\ old_val[c] = SET
    /\ pc' = [pc EXCEPT ![c] = "running"]
    /\ UNCHANGED <<state, old_val, next_awaiter, awaits, waiter, runs, calls>>

\* Fault: a plain store instead of the compare-exchange.
LinkByStore(c) ==
    /\ pc[c] = "linking"
    /\ old_val[c] # SET
    /\ next_awaiter' = [next_awaiter EXCEPT ![c] = old_val[c]]
    /\ state' = c
    /\ pc' = [pc EXCEPT ![c] = "suspended"]
    /\ ReturnToResumer(c)
    /\ UNCHANGED <<old_val, awaits, waiter, calls>>

\* The compare-exchange succeeds: c heads the list and is suspended.
Link(c) ==
    /\ pc[c] = "linking"
    /\ old_val[c] # SET
    /\ state = old_val[c]
    /\ next_awaiter' = [next_awaiter EXCEPT ![c] = old_val[c]]
    /\ state' = c
    /\ pc' = [pc EXCEPT ![c] = "suspended"]
    /\ ReturnToResumer(c)
    /\ UNCHANGED <<old_val, awaits, waiter, calls>>

\* The compare-exchange fails, for good or spuriously, and reloads old_val.
Retry(c) ==
    /\ pc[c] = "linking"
    /\ old_val[c] # SET
    /\ next_awaiter' = [next_awaiter EXCEPT ![c] = old_val[c]]
    /\ old_val' = [old_val EXCEPT ![c] = state]
    /\ UNCHANGED <<state, pc, awaits, waiter, runs, calls>>

\* The coroutine body ends; final_suspend never suspends, so the frame and the
\* awaiter in it are gone.
Finish(c) ==
    /\ pc[c] = "running"
    /\ pc' = [pc EXCEPT ![c] = "finished"]
    /\ ReturnToResumer(c)
    /\ UNCHANGED <<state, old_val, next_awaiter, awaits, waiter, calls>>

-----------------------------------------------------------------------------
Idle(s) == waiter[s] = NULL /\ runs[s] = NULL

\* Fault: set() loads the list and leaves it in place when it is not empty.
SetByLoad(s) ==
    /\ Idle(s)
    /\ calls < MaxCalls
    /\ calls' = calls + 1
    /\ state' = IF state \in Consumers THEN state ELSE SET
    /\ waiter' = [waiter EXCEPT ![s] = IF state = SET THEN NULL ELSE state]
    /\ UNCHANGED <<pc, old_val, next_awaiter, awaits, runs>>

\* set(): exchange the state for SET and take the whole list.
Set(s) ==
    /\ Idle(s)
    /\ calls < MaxCalls
    /\ calls' = calls + 1
    /\ state' = SET
    /\ waiter' = [waiter EXCEPT ![s] = IF state = SET THEN NULL ELSE state]
    /\ UNCHANGED <<pc, old_val, next_awaiter, awaits, runs>>

\* Fault: only the head of the list is resumed.
ResumeHeadOnly(s) ==
    /\ runs[s] = NULL
    /\ waiter[s] # NULL
    /\ waiter' = [waiter EXCEPT ![s] = NULL]
    /\ pc' = [pc EXCEPT ![waiter[s]] = "running"]
    /\ runs' = [runs EXCEPT ![s] = waiter[s]]
    /\ UNCHANGED <<state, old_val, next_awaiter, awaits, calls>>

\* One turn of set's loop: read next_awaiter, then resume the coroutine.
ResumeWaiter(s) ==
    /\ runs[s] = NULL
    /\ waiter[s] # NULL
    /\ waiter' = [waiter EXCEPT ![s] = next_awaiter[waiter[s]]]
    /\ pc' = [pc EXCEPT ![waiter[s]] = "running"]
    /\ runs' = [runs EXCEPT ![s] = waiter[s]]
    /\ UNCHANGED <<state, old_val, next_awaiter, awaits, calls>>

\* Fault: reset() stores nullptr whatever the state.
ResetAlways ==
    /\ calls < MaxCalls
    /\ calls' = calls + 1
    /\ state' = NULL
    /\ UNCHANGED <<pc, old_val, next_awaiter, awaits, waiter, runs>>

\* reset(): a strong compare-exchange of SET for nullptr.
Reset ==
    /\ calls < MaxCalls
    /\ calls' = calls + 1
    /\ state' = IF state = SET THEN NULL ELSE state
    /\ UNCHANGED <<pc, old_val, next_awaiter, awaits, waiter, runs>>

-----------------------------------------------------------------------------
Consumer(c) ==
    \/ AwaitReady(c)
    \/ LoadState(c)
    \/ DontSuspend(c)
    \/ Link(c)
    \/ Retry(c)
    \/ Finish(c)

Next ==
    \/ \E c \in Consumers : Consumer(c)
    \/ \E s \in Setters : Set(s) \/ ResumeWaiter(s)
    \/ Reset

Spec == Init /\ [][Next]_vars

\* Threads inside set() and inside a coroutine keep running; nobody is obliged
\* to call set() or reset().
Fairness ==
    /\ \A c \in Consumers : WF_vars(Consumer(c))
    /\ \A s \in Setters : WF_vars(ResumeWaiter(s))

FairSpec == Spec /\ Fairness

-----------------------------------------------------------------------------
(***************************************************************************)
(* The pointers that can still lead to an awaiter: the event's word, the   *)
(* `waiter` of every set() in progress, and the next_awaiter of every      *)
(* awaiter that is itself linked in.                                       *)
(***************************************************************************)
EventWord == SET
Sources == {EventWord} \cup Setters \cup Consumers

Target(x) ==
    IF x = EventWord THEN state
    ELSE IF x \in Setters THEN waiter[x]
    ELSE IF pc[x] = "suspended" THEN next_awaiter[x] ELSE NULL

\* No pointer that set() or await_suspend may follow leads to an awaiter whose
\* coroutine is running or whose frame is gone: set() reads next_awaiter before
\* resume() and two set() calls never walk the same list.
NoDanglingWaiter ==
    \A x \in Sources : Target(x) \in Consumers => pc[Target(x)] = "suspended"

\* Every suspended coroutine can be reached through exactly one pointer: none
\* is lost by a race of await_suspend with set(), and none is resumed twice.
ReferencedOnce ==
    \A c \in Consumers : pc[c] = "suspended" =>
        /\ \E x \in Sources : Target(x) = c
        /\ \A x, y \in Sources : Target(x) = c /\ Target(y) = c => x = y

-----------------------------------------------------------------------------
(***************************************************************************)
(* What the event promises to its users, AbstractEvent, and where its      *)
(* state is found in the pointers: a coroutine waits while it is linked    *)
(* from the event's word, directly or not, and is released once set() has  *)
(* taken the list it is in.                                                *)
(***************************************************************************)

\* S contains the head of the event's list and, with an awaiter, the next one.
Chain(S) ==
    /\ state \in Consumers => state \in S
    /\ \A c \in S : next_awaiter[c] \in Consumers => next_awaiter[c] \in S

Suspended == {c \in Consumers : pc[c] = "suspended"}

\* The coroutines in the event's list: the least such set.
InList == {c \in Suspended : \A S \in SUBSET Suspended : Chain(S) => c \in S}

PhaseOf(c) ==
    IF pc[c] = "finished" THEN "finished"
    ELSE IF pc[c] # "suspended" THEN "running"
    ELSE IF c \in InList THEN "waiting" ELSE "released"

Abstract == INSTANCE AbstractEvent WITH
    isSet <- (state = SET),
    phase <- [c \in Consumers |-> PhaseOf(c)]

\* manual_reset_event implements AbstractEvent: the exchange in set() releases
\* all waiters at once, nobody is linked in while the event is set, reset()
\* never forgets a waiter, and set() resumes only coroutines it has released.
ImplementsEvent == Abstract!Spec

\* A set() in progress resumes everyone who was suspended when the event was
\* set, however set(), reset() and later co_awaits interleave with its walk:
\* every released coroutine is woken although set() resumes them one at a time
\* on its own stack.
SuspendedWhenSetIsResumed ==
    /\ \A c \in Consumers :
          (pc[c] = "suspended" /\ state = SET) ~> (pc[c] # "suspended")
    /\ Abstract!Fairness

=============================================================================
