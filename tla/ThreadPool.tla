------------------------------ MODULE ThreadPool ------------------------------
(***************************************************************************)
(* thread_pool and its queue (applications/threadpool).  A coroutine that  *)
(* awaits schedule() enters the pool by a compare-exchange on pool_state   *)
(* (bit 0: closed, the rest: outstanding awaiters), then pushes itself on  *)
(* the queue; a worker pops it, resumes it and leaves the pool for it.     *)
(* shutdown() sets the closed flag, pushes one sentinel per worker and     *)
(* joins the workers.                                                      *)
(*                                                                         *)
(* A critical section of the queue's mutex is one step; the notify_one     *)
(* calls made after the unlock are steps of their own.  A worker in the    *)
(* condition variable's wait set leaves it when notified, or spuriously,   *)
(* and tests its predicate again.                                          *)
(***************************************************************************)
EXTENDS Naturals, Sequences, FiniteSets

CONSTANTS
    NThreads,      \* n_threads
    Clients,       \* threads outside the pool that launch tasks
    Tasks,         \* coroutines
    Closers,       \* threads that call shutdown(), once each
    DTOR,          \* the thread that destroys the pool
    SENTINEL,      \* SENTINEL_AWAITER
    NONE,          \* no coroutine
    MaxSchedules   \* bound: schedule() calls

Workers == 1..NThreads

ASSUME PoolAssumption ==
    /\ NThreads \in Nat
    /\ IsFiniteSet(Clients) /\ Clients \cap Workers = {}
    /\ DTOR \notin Closers
    /\ {SENTINEL, NONE} \cap Tasks = {}
    /\ SENTINEL # NONE
    /\ MaxSchedules \in Nat

Executors == Workers \cup Clients
Joiners == Closers \cup {DTOR}

VARIABLES
    pool_state,  \* thread_pool::pool_state
    buffer,      \* queue::buffer
    at,          \* where each executor stands
    task,        \* the coroutine an executor is running, or NONE
    state,       \* try_awaiter_enter's local state
    launched,    \* the tasks that were started
    schedules,   \* schedule() calls made
    closing,     \* where each closer stands in shutdown(), DTOR in ~thread_pool
    loop,        \* notify_one calls left, then the next thread to join
    joined       \* the workers that were joined

execVars == <<at, task, state, launched, schedules>>
closeVars == <<closing, loop, joined>>
vars == <<pool_state, buffer, execVars, closeVars>>

CLOSED_FLAG == 1
NEW_AWAITER_INCREMENT == 2

closed(s) == s % 2 = CLOSED_FLAG
outstanding(s) == s \div NEW_AWAITER_INCREMENT

TypeOK ==
    /\ pool_state \in Nat
    /\ buffer \in Seq(Tasks \cup {SENTINEL})
    /\ at \in [Executors -> {"idle", "waiting", "running", "entering", "pushing",
                             "notifying", "leaving", "exited"}]
    /\ task \in [Executors -> Tasks \cup {NONE}]
    /\ state \in [Executors -> Nat]
    /\ launched \subseteq Tasks
    /\ schedules \in 0..MaxSchedules
    /\ closing \in [Joiners -> {"open", "batching", "notifying", "joining",
                                "returned", "threw"}]
    /\ loop \in [Joiners -> 0..NThreads + 1]
    /\ joined \subseteq Workers

Init ==
    /\ pool_state = 0
    /\ buffer = <<>>
    /\ at = [x \in Executors |-> "idle"]
    /\ task = [x \in Executors |-> NONE]
    /\ state = [x \in Executors |-> 0]
    /\ launched = {}
    /\ schedules = 0
    /\ closing = [c \in Joiners |-> "open"]
    /\ loop = [c \in Joiners |-> 0]
    /\ joined = {}

-----------------------------------------------------------------------------
(***************************************************************************)
(* A coroutine, run by executor x: a client launched it or a worker        *)
(* resumed it.                                                             *)
(***************************************************************************)

\* A client starts a task, whose body runs on the client's stack.
Launch(x, t) ==
    /\ x \in Clients /\ closing[DTOR] = "open"
    /\ at[x] = "idle"
    /\ t \notin launched
    /\ at' = [at EXCEPT ![x] = "running"]
    /\ task' = [task EXCEPT ![x] = t]
    /\ launched' = launched \cup {t}
    /\ UNCHANGED <<pool_state, buffer, state, schedules, closeVars>>

\* The coroutine no longer runs here: a worker goes on to notify_awaiter_leave.
AfterTask(x) == IF x \in Workers THEN "leaving" ELSE "idle"

\* co_await pool.schedule(): try_awaiter_enter loads pool_state.
Schedule(x) ==
    /\ at[x] = "running"
    /\ schedules < MaxSchedules
    /\ schedules' = schedules + 1
    /\ state' = [state EXCEPT ![x] = pool_state]
    /\ at' = [at EXCEPT ![x] = "entering"]
    /\ UNCHANGED <<pool_state, buffer, task, launched, closeVars>>

\* The pool is closed: await_suspend returns false, the coroutine goes on here.
Refused(x) ==
    /\ at[x] = "entering"
    /\ closed(state[x])
    /\ at' = [at EXCEPT ![x] = "running"]
    /\ UNCHANGED <<pool_state, buffer, task, state, launched, schedules,
                   closeVars>>

\* Fault: the increment is a load and a store.
EnterByStore(x) ==
    /\ at[x] = "entering"
    /\ ~closed(state[x])
    /\ pool_state' = state[x] + NEW_AWAITER_INCREMENT
    /\ at' = [at EXCEPT ![x] = "pushing"]
    /\ UNCHANGED <<buffer, task, state, launched, schedules,
                   closeVars>>

\* The compare-exchange counts the awaiter in.
Enter(x) ==
    /\ at[x] = "entering"
    /\ ~closed(state[x])
    /\ pool_state = state[x]
    /\ pool_state' = state[x] + NEW_AWAITER_INCREMENT
    /\ at' = [at EXCEPT ![x] = "pushing"]
    /\ UNCHANGED <<buffer, task, state, launched, schedules,
                   closeVars>>

\* It fails, for good or spuriously, and reloads.
RetryEnter(x) ==
    /\ at[x] = "entering"
    /\ ~closed(state[x])
    /\ state' = [state EXCEPT ![x] = pool_state]
    /\ UNCHANGED <<pool_state, buffer, at, task, launched, schedules, closeVars>>

\* Fault: the value is queued and nobody is notified.
PushSilently(x) ==
    /\ at[x] = "pushing"
    /\ buffer' = Append(buffer, task[x])
    /\ task' = [task EXCEPT ![x] = NONE]
    /\ at' = [at EXCEPT ![x] = AfterTask(x)]
    /\ UNCHANGED <<pool_state, state, launched, schedules, closeVars>>

\* push, up to the unlock.  From here on any worker may resume the coroutine.
Push(x) ==
    /\ at[x] = "pushing"
    /\ buffer' = Append(buffer, task[x])
    /\ task' = [task EXCEPT ![x] = NONE]
    /\ at' = [at EXCEPT ![x] = "notifying"]
    /\ UNCHANGED <<pool_state, state, launched, schedules, closeVars>>

\* The executors after x moved to p and then called notify_one().
Notified(x, p) ==
    LET moved == [at EXCEPT ![x] = p]
        waiting == {w \in Workers : at[w] = "waiting"}
    IN  IF waiting = {} THEN {moved}
        ELSE {[moved EXCEPT ![w] = "idle"] : w \in waiting}

\* push calls notify_one after the unlock, await_suspend returns true.
NotifyOne(x) ==
    /\ at[x] = "notifying"
    /\ at' \in Notified(x, AfterTask(x))
    /\ UNCHANGED <<pool_state, buffer, task, state, launched, schedules,
                   closeVars>>

\* The coroutine runs to its end.
Complete(x) ==
    /\ at[x] = "running"
    /\ task' = [task EXCEPT ![x] = NONE]
    /\ at' = [at EXCEPT ![x] = AfterTask(x)]
    /\ UNCHANGED <<pool_state, buffer, state, launched, schedules, closeVars>>

Coroutine(x) ==
    \/ Schedule(x)
    \/ Refused(x)
    \/ Enter(x)
    \/ RetryEnter(x)
    \/ Push(x)
    \/ NotifyOne(x)
    \/ Complete(x)

-----------------------------------------------------------------------------
(***************************************************************************)
(* A worker, in work_loop.                                                 *)
(***************************************************************************)

\* pop finds the queue empty and waits on the condition variable.
Wait(w) ==
    /\ at[w] = "idle"
    /\ buffer = <<>>
    /\ at' = [at EXCEPT ![w] = "waiting"]
    /\ UNCHANGED <<pool_state, buffer, task, state, launched, schedules,
                   closeVars>>

SpuriousWake(w) ==
    /\ at[w] = "waiting"
    /\ at' = [at EXCEPT ![w] = "idle"]
    /\ UNCHANGED <<pool_state, buffer, task, state, launched, schedules,
                   closeVars>>

\* Fault: the value is read and left in the queue when it is not a sentinel.
PopByFront(w) ==
    /\ at[w] = "idle"
    /\ buffer # <<>>
    /\ buffer' = IF Head(buffer) = SENTINEL THEN Tail(buffer) ELSE buffer
    /\ task' = [task EXCEPT ![w] =
                  IF Head(buffer) = SENTINEL THEN NONE ELSE Head(buffer)]
    /\ at' = [at EXCEPT ![w] =
                IF Head(buffer) = SENTINEL THEN "exited" ELSE "running"]
    /\ UNCHANGED <<pool_state, state, launched, schedules, closeVars>>

\* pop takes the front: a sentinel ends the thread, a coroutine is resumed.
Pop(w) ==
    /\ at[w] = "idle"
    /\ buffer # <<>>
    /\ buffer' = Tail(buffer)
    /\ task' = [task EXCEPT ![w] =
                  IF Head(buffer) = SENTINEL THEN NONE ELSE Head(buffer)]
    /\ at' = [at EXCEPT ![w] =
                IF Head(buffer) = SENTINEL THEN "exited" ELSE "running"]
    /\ UNCHANGED <<pool_state, state, launched, schedules, closeVars>>

\* notify_awaiter_leave.
Leave(w) ==
    /\ at[w] = "leaving"
    /\ pool_state' = pool_state - NEW_AWAITER_INCREMENT
    /\ at' = [at EXCEPT ![w] = "idle"]
    /\ UNCHANGED <<buffer, task, state, launched, schedules,
                   closeVars>>

WorkLoop(w) == Wait(w) \/ Pop(w) \/ Leave(w) \/ Coroutine(w)

-----------------------------------------------------------------------------
(***************************************************************************)
(* shutdown().                                                             *)
(***************************************************************************)

\* fetch_or of the closed flag; only the first closer sends the sentinels.
Close(c) ==
    /\ closing[c] = "open" /\ closing[DTOR] = "open"
    /\ pool_state' = IF closed(pool_state) THEN pool_state
                     ELSE pool_state + CLOSED_FLAG
    /\ closing' = [closing EXCEPT ![c] =
                     IF closed(pool_state) THEN "joining" ELSE "batching"]
    /\ loop' = [loop EXCEPT ![c] = IF closed(pool_state) THEN 1 ELSE 0]
    /\ UNCHANGED <<buffer, execVars, joined>>

\* Fault: one sentinel too few.
PushBatchShort(c) ==
    /\ closing[c] = "batching"
    /\ buffer' = buffer \o [i \in 1..(NThreads - 1) |-> SENTINEL]
    /\ closing' = [closing EXCEPT ![c] = "notifying"]
    /\ loop' = [loop EXCEPT ![c] = NThreads]
    /\ UNCHANGED <<pool_state, execVars, joined>>

\* Fault: the whole batch is announced by one notify_one.
PushBatchNotifyOnce(c) ==
    /\ closing[c] = "batching"
    /\ buffer' = buffer \o [i \in Workers |-> SENTINEL]
    /\ closing' = [closing EXCEPT ![c] = "notifying"]
    /\ loop' = [loop EXCEPT ![c] = 1]
    /\ UNCHANGED <<pool_state, execVars, joined>>

\* push_batch of the sentinels, up to the unlock.
PushBatch(c) ==
    /\ closing[c] = "batching"
    /\ buffer' = buffer \o [i \in Workers |-> SENTINEL]
    /\ closing' = [closing EXCEPT ![c] = "notifying"]
    /\ loop' = [loop EXCEPT ![c] = NThreads]
    /\ UNCHANGED <<pool_state, execVars, joined>>

\* One turn of push_batch's loop of notify_one calls.
NotifyBatch(c) ==
    /\ closing[c] = "notifying"
    /\ loop[c] > 0
    /\ loop' = [loop EXCEPT ![c] = @ - 1]
    /\ \/ \E w \in Workers :
            /\ at[w] = "waiting"
            /\ at' = [at EXCEPT ![w] = "idle"]
       \/ /\ \A w \in Workers : at[w] # "waiting"
          /\ UNCHANGED at
    /\ UNCHANGED <<pool_state, buffer, task, state, launched, schedules,
                   closing, joined>>

BeginJoin(c) ==
    /\ closing[c] = "notifying"
    /\ loop[c] = 0
    /\ closing' = [closing EXCEPT ![c] = "joining"]
    /\ loop' = [loop EXCEPT ![c] = 1]
    /\ UNCHANGED <<pool_state, buffer, execVars, joined>>

\* Join the next thread, which must have ended.
Join(c) ==
    /\ closing[c] = "joining"
    /\ loop[c] \in Workers \ joined
    /\ at[loop[c]] = "exited"
    /\ joined' = joined \cup {loop[c]}
    /\ loop' = [loop EXCEPT ![c] = @ + 1]
    /\ UNCHANGED <<pool_state, buffer, execVars, closing>>

\* std::thread::join on a thread that is not joinable any more throws.
JoinThrows(c) ==
    /\ closing[c] = "joining"
    /\ loop[c] \in joined
    /\ closing' = [closing EXCEPT ![c] = "threw"]
    /\ UNCHANGED <<pool_state, buffer, execVars, loop, joined>>

\* Every thread was joined: shutdown returns.
Return(c) ==
    /\ closing[c] = "joining"
    /\ loop[c] = NThreads + 1
    /\ closing' = [closing EXCEPT ![c] = "returned"]
    /\ UNCHANGED <<pool_state, buffer, execVars, loop, joined>>

\* ~thread_pool, when no client or closer uses the pool any more: it joins the
\* threads unless a shutdown() has, and sends no sentinels.
Destroy ==
    /\ closing[DTOR] = "open"
    /\ \A x \in Clients : at[x] = "idle"
    /\ \A c \in Closers : closing[c] \in {"open", "returned", "threw"}
    /\ closing' = [closing EXCEPT ![DTOR] =
                     IF \E c \in Closers : closing[c] = "returned" THEN "returned"
                     ELSE "joining"]
    /\ loop' = [loop EXCEPT ![DTOR] = 1]
    /\ UNCHANGED <<pool_state, buffer, execVars, joined>>

\* What is left of shutdown(), or of ~thread_pool.
Shutdown(c) ==
    \/ PushBatch(c) \/ NotifyBatch(c) \/ BeginJoin(c)
    \/ Join(c) \/ JoinThrows(c) \/ Return(c)

-----------------------------------------------------------------------------
Next ==
    \/ \E x \in Clients : Coroutine(x) \/ \E t \in Tasks : Launch(x, t)
    \/ \E w \in Workers : WorkLoop(w) \/ SpuriousWake(w)
    \/ \E c \in Closers : Close(c)
    \/ \E c \in Joiners : Shutdown(c)
    \/ Destroy

Spec == Init /\ [][Next]_vars

(***************************************************************************)
(* Threads keep running, and a thread that retries its compare-exchange    *)
(* for ever gets it through in the end.  Nobody is obliged to launch a     *)
(* task or to call shutdown(), and no spurious wakeup is counted on.       *)
(***************************************************************************)
Fairness ==
    /\ \A x \in Clients : WF_vars(Coroutine(x))
    /\ \A w \in Workers : WF_vars(WorkLoop(w))
    /\ \A x \in Executors : SF_vars(Enter(x))
    /\ \A c \in Joiners : WF_vars(Shutdown(c))

FairSpec == Spec /\ Fairness

-----------------------------------------------------------------------------
\* The occurrences of t in the queue.
Queued(t) == {i \in DOMAIN buffer : buffer[i] = t}

\* The slots of the pool that were entered and not left: an executor about to
\* push, a coroutine in the queue, a worker on its way from pop to leave.
Slots ==
    Cardinality({x \in Executors : at[x] = "pushing"})
      + Cardinality({i \in DOMAIN buffer : buffer[i] # SENTINEL})
      + Cardinality({w \in Workers : at[w] \notin {"idle", "waiting", "exited"}})

\* pool_state counts the outstanding awaiters exactly, across the races of
\* try_awaiter_enter, shutdown's fetch_or and notify_awaiter_leave and the
\* coroutines that schedule themselves again from a worker.
CountIsExact == TypeOK /\ outstanding(pool_state) = Slots

\* A coroutine is never in two places at once: queued twice, queued while it
\* runs, or resumed by two workers.  The thread that pushed it may still be in
\* push() when another one resumes it.
TaskInOnePlace ==
    \A t \in Tasks :
        Cardinality(Queued(t)) + Cardinality({x \in Executors : task[x] = t}) <= 1

\* When the queue is not empty, not every worker that could serve it sleeps,
\* unless a notify_one is still to come: the notifications made after the
\* unlock and the predicate of the wait lose no wakeup.
NoLostWakeup ==
    (buffer # <<>> /\ \E w \in Workers : at[w] = "waiting")
        => \/ \E w \in Workers : at[w] \notin {"waiting", "exited"}
           \/ \E x \in Clients : at[x] = "notifying"
           \/ \E c \in Closers : closing[c] = "notifying" /\ loop[c] > 0

\* A coroutine that is in the queue, ahead of the sentinels, while a worker is
\* left is resumed by a worker, whatever shutdown() does meanwhile.
QueuedAheadIsResumed ==
    \A t \in Tasks :
        (/\ \E i \in Queued(t) : \A j \in 1..i : buffer[j] # SENTINEL
         /\ \E w \in Workers : at[w] # "exited")
            ~> (\E w \in Workers : task[w] = t)

\* shutdown() comes to an end: every worker finds its sentinel and is joined; and
\* ~thread_pool then has nothing left to join, whatever number of shutdown() calls
\* raced and threw.  Without one it waits for workers that nobody told to stop.
ShutdownEnds ==
    /\ \A c \in Closers :
          (closing[c] = "batching") ~> (closing[c] \in {"returned", "threw"})
    /\ [](closing[DTOR] # "open" =>
             closing[DTOR] = IF closed(pool_state) THEN "returned" ELSE "joining")

=============================================================================
