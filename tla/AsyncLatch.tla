------------------------------ MODULE AsyncLatch ------------------------------
(***************************************************************************)
(* async_latch (primitives/async-latch): an atomic count and an intrusive  *)
(* lock-free stack of the coroutines that wait for it to reach zero.  The  *)
(* two words are read and written separately: await_suspend loads the head *)
(* of the stack, tests the count, and only then pushes; count_down brings  *)
(* the count to zero first and loads the head, which it leaves in place,   *)
(* afterwards.  The wrapped difference old_count - n that count_down forms *)
(* before its test n > old_count is overwritten before any use.            *)
(***************************************************************************)
EXTENDS Awaiters, Integers

CONSTANTS
    Waiters,      \* coroutines that co_await the latch, once each
    Counters,     \* threads that call count_down(n)
    Count,        \* the latch's initial count
    Decrements,   \* the arguments n of count_down
    MaxCalls      \* bound: calls of count_down

ASSUME LatchAssumption ==
    /\ Count \in Nat \ {0}
    /\ Decrements \subseteq Nat
    /\ NULL \notin Waiters
    /\ Waiters \cap Counters = {}
    /\ MaxCalls \in Nat

VARIABLES
    count,         \* async_latch::count
    old_head,      \* await_suspend's local old_head
    step,          \* where each thread stands in count_down
    n,             \* count_down's argument
    old_count,     \* count_down's local old_count
    awaiter,       \* count_down's local awaiter
    calls          \* calls of count_down made

waiterVars == <<pc, old_head, next_awaiter>>
counterVars == <<step, n, old_count, awaiter, calls>>
latchVars == <<count, awaiters, waiterVars, counterVars, runs>>

LatchPointer == Waiters \cup {NULL}

LatchTypeOK ==
    /\ count \in 0..Count
    /\ awaiters \in LatchPointer
    /\ pc \in [Waiters -> {"starting", "loading", "checking", "linking",
                           "suspended", "passed", "finished"}]
    /\ old_head \in [Waiters -> LatchPointer]
    /\ next_awaiter \in [Waiters -> LatchPointer]
    /\ step \in [Counters -> {"idle", "subtracting", "releasing", "walking"}]
    /\ n \in [Counters -> Decrements \cup {0}]
    /\ old_count \in [Counters -> 0..Count]
    /\ awaiter \in [Counters -> LatchPointer]
    /\ runs \in [Counters -> LatchPointer]
    /\ calls \in 0..MaxCalls

LatchInit ==
    /\ count = Count
    /\ awaiters = NULL
    /\ pc = [c \in Waiters |-> "starting"]
    /\ old_head = [c \in Waiters |-> NULL]
    /\ next_awaiter = [c \in Waiters |-> NULL]
    /\ step = [k \in Counters |-> "idle"]
    /\ n = [k \in Counters |-> 0]
    /\ old_count = [k \in Counters |-> 0]
    /\ awaiter = [k \in Counters |-> NULL]
    /\ runs = [k \in Counters |-> NULL]
    /\ calls = 0

-----------------------------------------------------------------------------
Goto(c, p) == pc' = [pc EXCEPT ![c] = p]

expired == count = 0

\* co_await latch: await_ready.
AwaitReady(c) ==
    /\ pc[c] = "starting"
    /\ Goto(c, IF expired THEN "passed" ELSE "loading")
    /\ UNCHANGED <<count, awaiters, old_head, next_awaiter, counterVars, runs>>

\* await_suspend loads the head of the stack.
LoadHead(c) ==
    /\ pc[c] = "loading"
    /\ old_head' = [old_head EXCEPT ![c] = awaiters]
    /\ Goto(c, "checking")
    /\ UNCHANGED <<count, awaiters, next_awaiter, counterVars, runs>>

\* The body of the loop: return false when expired, prepare the link otherwise.
CheckExpired(c) ==
    /\ pc[c] = "checking"
    /\ Goto(c, IF expired THEN "passed" ELSE "linking")
    /\ next_awaiter' = IF expired THEN next_awaiter
                       ELSE [next_awaiter EXCEPT ![c] = old_head[c]]
    /\ UNCHANGED <<count, awaiters, old_head, counterVars, runs>>

\* The compare-exchange pushes the awaiter; await_suspend returns true.
Link(c) ==
    /\ pc[c] = "linking"
    /\ awaiters = old_head[c]
    /\ awaiters' = c
    /\ Goto(c, "suspended")
    /\ UNCHANGED <<count, old_head, next_awaiter, counterVars, runs>>

\* It fails, for good or spuriously: reload old_head and loop.
RetryLink(c) ==
    /\ pc[c] = "linking"
    /\ old_head' = [old_head EXCEPT ![c] = awaiters]
    /\ Goto(c, "checking")
    /\ UNCHANGED <<count, awaiters, next_awaiter, counterVars, runs>>

\* The coroutine runs to its end; its frame, and the awaiter in it, are gone.
FinishWaiter(c) ==
    /\ pc[c] = "passed"
    /\ Goto(c, "finished")
    /\ ReturnToResumer(c)
    /\ UNCHANGED <<count, awaiters, old_head, next_awaiter, counterVars>>

-----------------------------------------------------------------------------
\* count_down(m): load the count.
CountDown(k, m) ==
    /\ step[k] = "idle"
    /\ calls < MaxCalls
    /\ calls' = calls + 1
    /\ n' = [n EXCEPT ![k] = m]
    /\ old_count' = [old_count EXCEPT ![k] = count]
    /\ step' = [step EXCEPT ![k] = "subtracting"]
    /\ UNCHANGED <<count, awaiters, waiterVars, awaiter, runs>>

\* The count is smaller than n: return without effect.
TooMany(k) ==
    /\ step[k] = "subtracting"
    /\ n[k] > old_count[k]
    /\ step' = [step EXCEPT ![k] = "idle"]
    /\ UNCHANGED <<count, awaiters, waiterVars, n, old_count, awaiter, runs, calls>>

\* Fault: the difference is stored without the test n > old_count.
SubtractUnchecked(k) ==
    /\ step[k] = "subtracting"
    /\ count = old_count[k]
    /\ count' = old_count[k] - n[k]
    /\ step' = [step EXCEPT ![k] = IF count' = 0 THEN "releasing" ELSE "idle"]
    /\ UNCHANGED <<awaiters, waiterVars, n, old_count, awaiter, runs, calls>>

\* Fault: the thread decides to release from a second read of the count, made
\* when another thread may have released the latch already.
SubtractThenTest(k) ==
    /\ step[k] = "subtracting"
    /\ count' = IF count = old_count[k] /\ n[k] <= old_count[k]
                THEN old_count[k] - n[k] ELSE count
    /\ step' = [step EXCEPT ![k] = IF count' = 0 THEN "releasing" ELSE "idle"]
    /\ UNCHANGED <<awaiters, waiterVars, n, old_count, awaiter, runs, calls>>

\* The compare-exchange takes n off the count; whoever makes it zero releases.
Subtract(k) ==
    /\ step[k] = "subtracting"
    /\ n[k] <= old_count[k]
    /\ count = old_count[k]
    /\ count' = old_count[k] - n[k]
    /\ step' = [step EXCEPT ![k] = IF count' = 0 THEN "releasing" ELSE "idle"]
    /\ UNCHANGED <<awaiters, waiterVars, n, old_count, awaiter, runs, calls>>

\* It fails, for good or spuriously, and reloads old_count.
RetrySubtract(k) ==
    /\ step[k] = "subtracting"
    /\ n[k] <= old_count[k]
    /\ old_count' = [old_count EXCEPT ![k] = count]
    /\ UNCHANGED <<count, awaiters, waiterVars, step, n, awaiter, runs, calls>>

\* The releasing thread loads the head of the stack.
LoadAwaiters(k) ==
    /\ step[k] = "releasing"
    /\ awaiter' = [awaiter EXCEPT ![k] = awaiters]
    /\ step' = [step EXCEPT ![k] = "walking"]
    /\ UNCHANGED <<count, awaiters, waiterVars, n, old_count, runs, calls>>

\* Fault: only the head of the stack is resumed.
ResumeHeadOnly(k) ==
    /\ step[k] = "walking"
    /\ runs[k] = NULL
    /\ awaiter[k] # NULL
    /\ awaiter' = [awaiter EXCEPT ![k] = NULL]
    /\ runs' = [runs EXCEPT ![k] = awaiter[k]]
    /\ Goto(awaiter[k], "passed")
    /\ UNCHANGED <<count, awaiters, old_head, next_awaiter, step, n, old_count, calls>>

\* One turn of the loop: read next_awaiter, then resume the coroutine.
ResumeAwaiter(k) ==
    /\ step[k] = "walking"
    /\ runs[k] = NULL
    /\ awaiter[k] # NULL
    /\ awaiter' = [awaiter EXCEPT ![k] = next_awaiter[awaiter[k]]]
    /\ runs' = [runs EXCEPT ![k] = awaiter[k]]
    /\ Goto(awaiter[k], "passed")
    /\ UNCHANGED <<count, awaiters, old_head, next_awaiter, step, n, old_count, calls>>

\* The end of the stack: count_down returns.
EndWalk(k) ==
    /\ step[k] = "walking"
    /\ runs[k] = NULL
    /\ awaiter[k] = NULL
    /\ step' = [step EXCEPT ![k] = "idle"]
    /\ UNCHANGED <<count, awaiters, waiterVars, n, old_count, awaiter, runs, calls>>

-----------------------------------------------------------------------------
Waiting(c) ==
    \/ AwaitReady(c)
    \/ LoadHead(c)
    \/ CheckExpired(c)
    \/ Link(c)
    \/ RetryLink(c)
    \/ FinishWaiter(c)

Counting(k) ==
    \/ TooMany(k)
    \/ Subtract(k)
    \/ RetrySubtract(k)
    \/ LoadAwaiters(k)
    \/ ResumeAwaiter(k)
    \/ EndWalk(k)

LatchNext ==
    \/ \E c \in Waiters : Waiting(c)
    \/ \E k \in Counters : Counting(k) \/ \E m \in Decrements : CountDown(k, m)

LatchSpec == LatchInit /\ [][LatchNext]_latchVars

\* Every thread keeps running; nobody is obliged to call count_down.
LatchFairness ==
    /\ \A c \in Waiters : WF_latchVars(Waiting(c))
    /\ \A k \in Counters : WF_latchVars(Counting(k))

LatchFairSpec == LatchSpec /\ LatchFairness

-----------------------------------------------------------------------------
\* The thread that released the latch only ever holds pointers to suspended
\* coroutines: it is alone, although the stack is left in place for any other
\* thread to load, and it reads next_awaiter before the frame can go.
WalkIsSafe ==
    \A k \in Counters : awaiter[k] # NULL => pc[awaiter[k]] = "suspended"

\* Nobody gets past co_await before the last count_down took effect.
PassedMeansExpired ==
    \A c \in Waiters : pc[c] \in {"passed", "finished"} => expired

\* Everyone pushed on the stack before the releasing thread loads it is resumed,
\* including a coroutine that saw the latch not yet expired and was pushed after
\* the count reached zero.
InTimeIsResumed ==
    \A c \in Waiters :
        (pc[c] = "suspended" /\ \E k \in Counters : step[k] = "releasing")
            ~> (pc[c] = "passed")

\* "The coroutine should proceed immediately if the latch is already expired":
\* no coroutine stays suspended on an expired latch.
ExpiredHoldsNobody ==
    \A c \in Waiters : (expired /\ pc[c] = "suspended") ~> (pc[c] = "passed")

=============================================================================
