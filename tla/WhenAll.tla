-------------------------------- MODULE WhenAll --------------------------------
(***************************************************************************)
(* when_all (algorithms/when-all) over coro::task<void> (libcoro).         *)
(*                                                                         *)
(* A parent coroutine creates the tasks, whose bodies start at once, and   *)
(* co_awaits when_all: for each task an intermediary coroutine, made by    *)
(* make_when_all_task, is started, co_awaits the task, and reports to the  *)
(* counter when it ends; whoever brings the counter to zero continues the  *)
(* parent.  A task and the coroutine that awaits it meet in the atomic     *)
(* flag `state` of the task's promise.                                     *)
(*                                                                         *)
(* A body may suspend and leave its handle with a source (task_scheduler,  *)
(* a pool, a timer) that resumes it later, on a thread of its own.  The    *)
(* first suspension of a body that is not eager is a plain suspend_always: *)
(* nobody has its handle before the task is awaited.  await_suspend        *)
(* resumes the body whatever it is suspended on.                           *)
(***************************************************************************)
EXTENDS Naturals, FiniteSets

CONSTANTS
    N,            \* the number of tasks
    MaxSuspends   \* bound: suspensions of one body

ASSUME WhenAllAssumption == N \in Nat /\ MaxSuspends \in Nat

Tasks == 1..N

VARIABLES
    eager,          \* tasks whose first suspension is on a source
    parent,         \* where the parent coroutine stands
    i,              \* the task the parent's loop is at
    body,           \* where each task's body stands
    runner,         \* who resumed the body and gets control back
    suspends,       \* suspensions of each body
    threw,          \* promise.exception is set
    pending,        \* handles of the body that sources hold
    state,          \* task_promise_base::state
    sub,            \* where each make_when_all_task coroutine stands
    on_parent,      \* that coroutine runs on the stack of the parent's loop
    count,          \* counter::count
    awaiting_coro,  \* counter::awaiting_coro is set
    stolen,         \* history: tasks awaited while a source had their body
    fate            \* of the program: running, terminated, undefined

taskVars == <<body, runner, suspends, threw, pending, state>>
vars == <<eager, parent, i, taskVars, sub, on_parent, count, awaiting_coro,
          stolen, fate>>

TypeOK ==
    /\ eager \subseteq Tasks
    /\ parent \in {"creating", "starting", "counting", "suspended",
                   "resumed", "left"}
    /\ i \in 1..(N + 1)
    /\ body \in [Tasks -> {"unborn", "running", "parked", "registered",
                           "finishing", "done", "destroyed"}]
    /\ runner \in [Tasks -> {"creator", "awaiter", "source"}]
    /\ suspends \in [Tasks -> 0..MaxSuspends]
    /\ threw \in [Tasks -> BOOLEAN]
    /\ pending \in [Tasks -> 0..MaxSuspends]
    /\ state \in [Tasks -> BOOLEAN]
    /\ sub \in [Tasks -> {"initial", "awaiting", "linking", "suspended",
                          "resuming", "final", "ended"}]
    /\ on_parent \in [Tasks -> BOOLEAN]
    /\ count \in 0..(N + 1)
    /\ awaiting_coro \in BOOLEAN
    /\ stolen \subseteq Tasks
    /\ fate \in {"running", "terminated", "undefined"}

\* Fault: the counter does not count the parent itself.
TasksOnly == N

\* One for each task and one for the parent's call of try_await.
InitialCount == N + 1

Init ==
    /\ eager \in SUBSET Tasks
    /\ parent = "creating"
    /\ i = 1
    /\ body = [t \in Tasks |-> "unborn"]
    /\ runner = [t \in Tasks |-> "creator"]
    /\ suspends = [t \in Tasks |-> 0]
    /\ threw = [t \in Tasks |-> FALSE]
    /\ pending = [t \in Tasks |-> 0]
    /\ state = [t \in Tasks |-> FALSE]
    /\ sub = [t \in Tasks |-> "initial"]
    /\ on_parent = [t \in Tasks |-> TRUE]
    /\ count = InitialCount
    /\ awaiting_coro = FALSE
    /\ stolen = {}
    /\ fate = "running"

-----------------------------------------------------------------------------
(***************************************************************************)
(* The bodies of the tasks.                                                *)
(***************************************************************************)

\* The body of t gave up its thread: whoever resumed it goes on.
BodyReturns(t) ==
    /\ i' = IF runner[t] = "creator" THEN i + 1 ELSE i
    /\ sub' = IF runner[t] = "awaiter" THEN [sub EXCEPT ![t] = "linking"] ELSE sub

\* tasks.push_back(bar()): initial_suspend does not suspend, the body runs.
CreateTask ==
    /\ parent = "creating" /\ i \in Tasks /\ body[i] = "unborn"
    /\ body' = [body EXCEPT ![i] = "running"]
    /\ UNCHANGED <<eager, parent, i, runner, suspends, threw, pending, state, sub,
                   on_parent, count, awaiting_coro, stolen, fate>>

\* co_await suspend_always{}.
Park(t) ==
    /\ body[t] = "running" /\ suspends[t] = 0 /\ t \notin eager
    /\ suspends[t] < MaxSuspends
    /\ body' = [body EXCEPT ![t] = "parked"]
    /\ suspends' = [suspends EXCEPT ![t] = 1]
    /\ BodyReturns(t)
    /\ UNCHANGED <<eager, parent, runner, threw, pending, state, on_parent, count,
                   awaiting_coro, stolen, fate>>

\* co_await defer_on(scheduler), or any source that takes the handle.
Register(t) ==
    /\ body[t] = "running" /\ (suspends[t] > 0 \/ t \in eager)
    /\ suspends[t] < MaxSuspends
    /\ body' = [body EXCEPT ![t] = "registered"]
    /\ suspends' = [suspends EXCEPT ![t] = @ + 1]
    /\ pending' = [pending EXCEPT ![t] = @ + 1]
    /\ BodyReturns(t)
    /\ UNCHANGED <<eager, parent, runner, threw, state, on_parent, count,
                   awaiting_coro, stolen, fate>>

\* The body returns, or an exception leaves it and is kept in the promise.
EndBody(t) ==
    /\ body[t] = "running"
    /\ body' = [body EXCEPT ![t] = "finishing"]
    /\ \E x \in BOOLEAN : threw' = [threw EXCEPT ![t] = x]
    /\ UNCHANGED <<eager, parent, i, runner, suspends, pending, state, sub,
                   on_parent, count, awaiting_coro, stolen, fate>>

\* final_awaitable::await_suspend: the exchange finds out whether a coroutine
\* has been registered as the continuation, and resumes it then.
FinalSuspend(t) ==
    /\ body[t] = "finishing"
    /\ body' = [body EXCEPT ![t] = "done"]
    /\ state' = [state EXCEPT ![t] = TRUE]
    /\ IF state[t]
       THEN /\ sub' = [sub EXCEPT ![t] = "resuming"]
            /\ on_parent' = [on_parent EXCEPT ![t] = FALSE]
            /\ fate' = IF sub[t] = "suspended" THEN fate ELSE "undefined"
            /\ UNCHANGED i
       ELSE /\ BodyReturns(t)
            /\ UNCHANGED <<on_parent, fate>>
    /\ UNCHANGED <<eager, parent, runner, suspends, threw, pending, count,
                   awaiting_coro, stolen>>

\* A source resumes the handle it was left.
Fire(t) ==
    /\ pending[t] > 0
    /\ pending' = [pending EXCEPT ![t] = @ - 1]
    /\ IF body[t] = "registered"
       THEN /\ body' = [body EXCEPT ![t] = "running"]
            /\ runner' = [runner EXCEPT ![t] = "source"]
            /\ UNCHANGED fate
       ELSE /\ fate' = "undefined"
            /\ UNCHANGED <<body, runner>>
    /\ UNCHANGED <<eager, parent, i, suspends, threw, state, sub, on_parent, count,
                   awaiting_coro, stolen>>

-----------------------------------------------------------------------------
(***************************************************************************)
(* The intermediary coroutines: co_await the task, then report.            *)
(***************************************************************************)

\* The coroutine for t gave up the parent's thread: the loop goes on.
LoopReturns == i' = i + 1

\* start() resumes the coroutine for t, which comes to its co_await.
Starting(t) == parent = "starting" /\ i = t /\ sub[t] = "initial"

\* await_ready finds the task complete:
\* done() is true from the final suspension, before final_awaitable has run ...
StartReady ==
    /\ i \in Tasks /\ Starting(i)
    /\ body[i] \in {"finishing", "done"}
    /\ sub' = [sub EXCEPT ![i] = "resuming"]
    /\ stolen' = IF body[i] = "done" THEN stolen ELSE stolen \cup {i}
    /\ UNCHANGED <<eager, parent, i, taskVars, on_parent, count, awaiting_coro,
                   fate>>

\* ... or await_suspend resumes the body, on whatever it is suspended, and
\* even if it runs already.
StartPending ==
    /\ i \in Tasks /\ Starting(i)
    /\ body[i] # "done"
    /\ body' = [body EXCEPT ![i] = "running"]
    /\ runner' = [runner EXCEPT ![i] = "awaiter"]
    /\ sub' = [sub EXCEPT ![i] = "awaiting"]
    /\ stolen' = IF body[i] = "parked" THEN stolen ELSE stolen \cup {i}
    /\ fate' = IF body[i] \in {"parked", "registered"} THEN fate ELSE "undefined"
    /\ UNCHANGED <<eager, parent, i, suspends, threw, pending, state, on_parent,
                   count, awaiting_coro>>

\* Fault: the coroutine suspends although the task completed meanwhile.
TrySetContinuationBlind(t) ==
    /\ sub[t] = "linking"
    /\ state' = [state EXCEPT ![t] = TRUE]
    /\ sub' = [sub EXCEPT ![t] = "suspended"]
    /\ LoopReturns
    /\ UNCHANGED <<eager, parent, body, runner, suspends, threw, pending, on_parent,
                   count, awaiting_coro, stolen, fate>>

\* The exchange finds out whether the body completed meanwhile.
try_set_continuation(t) ==
    /\ sub[t] = "linking"
    /\ state' = [state EXCEPT ![t] = TRUE]
    /\ sub' = [sub EXCEPT ![t] = IF state[t] THEN "resuming" ELSE "suspended"]
    /\ i' = IF state[t] THEN i ELSE i + 1
    /\ UNCHANGED <<eager, parent, body, runner, suspends, threw, pending, on_parent,
                   count, awaiting_coro, stolen, fate>>

\* await_resume: an exception of the task reaches unhandled_exception of the
\* intermediary, which terminates the program.
AwaitResume(t) ==
    /\ sub[t] = "resuming"
    /\ sub' = [sub EXCEPT ![t] = "final"]
    /\ fate' = IF threw[t] THEN "terminated" ELSE fate
    /\ UNCHANGED <<eager, parent, i, taskVars, on_parent, count, awaiting_coro,
                   stolen>>

\* Fault: an intermediary that ends on the parent's stack is not counted.
NotifySkipped(t) ==
    /\ sub[t] = "final"
    /\ sub' = [sub EXCEPT ![t] = "ended"]
    /\ count' = IF on_parent[t] THEN count ELSE count - 1
    /\ i' = IF on_parent[t] THEN i + 1 ELSE i
    /\ parent' = IF count = 1 /\ ~on_parent[t] THEN "resumed" ELSE parent
    /\ UNCHANGED <<eager, taskVars, on_parent, awaiting_coro, stolen, fate>>

\* final_suspend: the last one resumes the parent.
notify_task_completion(t) ==
    /\ sub[t] = "final"
    /\ sub' = [sub EXCEPT ![t] = "ended"]
    /\ count' = count - 1
    /\ i' = IF on_parent[t] THEN i + 1 ELSE i
    /\ IF count = 1
       THEN /\ parent' = "resumed"
            /\ fate' = IF parent = "suspended" /\ awaiting_coro THEN fate
                       ELSE "undefined"
       ELSE UNCHANGED <<parent, fate>>
    /\ UNCHANGED <<eager, taskVars, on_parent, awaiting_coro, stolen>>

-----------------------------------------------------------------------------
(***************************************************************************)
(* The parent.                                                             *)
(***************************************************************************)

\* All tasks exist: co_await when_all(std::move(tasks)).
BeginStart ==
    /\ parent = "creating" /\ i = N + 1
    /\ parent' = "starting"
    /\ i' = 1
    /\ UNCHANGED <<eager, taskVars, sub, on_parent, count, awaiting_coro, stolen, fate>>

\* All were started: try_await stores the parent's handle ...
StoreHandle ==
    /\ parent = "starting" /\ i = N + 1
    /\ parent' = "counting"
    /\ awaiting_coro' = TRUE
    /\ UNCHANGED <<eager, i, taskVars, sub, on_parent, count, stolen, fate>>

\* Fault: the parent goes on while one task is still running.
TryAwaitEarly ==
    /\ parent = "counting"
    /\ count' = count - 1
    /\ parent' = IF count > 2 THEN "suspended" ELSE "resumed"
    /\ UNCHANGED <<eager, i, taskVars, sub, on_parent, awaiting_coro, stolen, fate>>

\* ... and counts itself out; it suspends when tasks remain.
try_await ==
    /\ parent = "counting"
    /\ count' = count - 1
    /\ parent' = IF count > 1 THEN "suspended" ELSE "resumed"
    /\ UNCHANGED <<eager, i, taskVars, sub, on_parent, awaiting_coro, stolen, fate>>

\* The end of the co_await expression destroys the awaiter, the intermediaries
\* in it and the tasks in their parameters.
DestroyTasks ==
    /\ parent = "resumed"
    /\ parent' = "left"
    /\ body' = [t \in Tasks |-> "destroyed"]
    /\ fate' = IF \A t \in Tasks : body[t] = "done" THEN fate ELSE "undefined"
    /\ UNCHANGED <<eager, i, runner, suspends, threw, pending, state, sub, on_parent,
                   count, awaiting_coro, stolen>>

-----------------------------------------------------------------------------
Parent == CreateTask \/ BeginStart \/ StartReady \/ StartPending \/ StoreHandle
             \/ try_await \/ DestroyTasks

Body(t) == Park(t) \/ Register(t) \/ EndBody(t) \/ FinalSuspend(t)

Intermediary(t) ==
    try_set_continuation(t) \/ AwaitResume(t) \/ notify_task_completion(t)

Next ==
    /\ fate = "running"
    /\ \/ Parent
       \/ \E t \in Tasks : Body(t) \/ Fire(t) \/ Intermediary(t)

Spec == Init /\ [][Next]_vars

\* Every thread keeps running, and a source resumes every handle it was left.
Fairness ==
    /\ WF_vars(fate = "running" /\ Parent)
    /\ \A t \in Tasks :
         /\ WF_vars(fate = "running" /\ Body(t))
         /\ WF_vars(fate = "running" /\ Fire(t))
         /\ WF_vars(fate = "running" /\ Intermediary(t))

FairSpec == Spec /\ Fairness

-----------------------------------------------------------------------------
\* A coroutine is only ever resumed while it is suspended, the parent only once
\* its handle is stored, and nobody meets a body that is gone, unless a task was
\* awaited while its body was suspended on a source or running there.
OnlyStolenBreaks == fate = "undefined" => stolen # {}

\* The counter is the number of intermediaries still to report, plus one until
\* the parent counted itself out: however the two exchanges on each promise
\* fall, every task reports exactly once.
CountIsExact ==
    /\ TypeOK
    /\ count = Cardinality({t \in Tasks : sub[t] # "ended"})
                 + (IF parent \in {"suspended", "resumed", "left"} THEN 0 ELSE 1)

\* The parent goes on only when every task has completed and every intermediary
\* is at its final suspension: what DestroyTasks destroys is not in use, but for
\* a task awaited while its body ended on a source.
ResumedAfterAll ==
    parent = "resumed" /\ fate = "running" =>
        \A t \in Tasks : sub[t] = "ended" /\ (body[t] = "done" \/ t \in stolen)

\* The co_await on when_all comes to an end: no completion is missed on the way
\* from a body through its continuation to the counter and the parent.
WhenAllEnds == (parent = "starting") ~> (parent = "left" \/ fate # "running")

=============================================================================
