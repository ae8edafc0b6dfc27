------------------------------ MODULE TimerService ------------------------------
(***************************************************************************)
(* timer_service (applications/timers/win-iocp): requests posted by any    *)
(* thread go through a queue to the service's worker, which arms a system  *)
(* timer for each; an expired timer queues an APC to the worker, the APC   *)
(* posts the request to the completion port, and a thread in run(), a      *)
(* reactor, takes it from there and calls the handler.                     *)
(*                                                                         *)
(* The word n_active_reactors is a closed flag and a count of reactors.    *)
(* An APC runs only while the worker is in an alertable wait: in pop, in   *)
(* try_pop and in SleepEx.  The wait then returns, and pop and try_pop do  *)
(* not look why: they go on without the queue's mutex.  What the worker    *)
(* does with the mutex is one step; what it does without may meet a push() *)
(* that is not over.  Every request has a timer of its own.                *)
(***************************************************************************)
EXTENDS Naturals, Sequences, FiniteSets

CONSTANTS
    Reactors,        \* threads that call run()
    Posts,           \* requests: calls of post, post_with_handle or co_await
    Closers,         \* threads that call shutdown() outside a handler
    Uninitialized,   \* what the constructor may leave in n_inflight_timers
    InflightModulus, \* values of n_inflight_timers; 2^32 in the code
    CountModulus,    \* values of the count of reactors; 2^31 in the code
    SHUTDOWN         \* on_shutdown_request in the APC queue, SHUTDOWN_KEY in the port

ASSUME TimerAssumption ==
    /\ InflightModulus \in Nat
    /\ IsFiniteSet(Posts) /\ Cardinality(Posts) < InflightModulus
    /\ Uninitialized \subseteq 0..(InflightModulus - 1) /\ 0 \in Uninitialized
    /\ CountModulus \in Nat \ {0}
    /\ SHUTDOWN \notin Posts
    /\ Reactors \cap Closers = {}

Callers == Closers \cup Reactors

VARIABLES
    closed,     \* CLOSED_FLAG of n_active_reactors
    count,      \* the other bits of n_active_reactors
    base,       \* what n_inflight_timers held after construction
    inflight,   \* n_inflight_timers
    requests,   \* the queue
    apcs,       \* the worker's APC queue
    port,       \* the completion port
    at,         \* where each request is
    worker,     \* where process_requests, or on_shutdown_request in it, stands;
                \* "undefined" once its behaviour is
    reactor,    \* where each reactor stands
    seen,       \* `state` in try_enter_reactor
    req,        \* the request a reactor handles
    caller,     \* where each call of shutdown() stands
    quiet       \* history: shutdown() found no request under way

word == <<closed, count>>
reactorVars == <<reactor, seen, req>>
vars == <<closed, count, base, inflight, requests, apcs, port, at, worker,
          reactorVars, caller, quiet>>

TypeOK ==
    /\ closed \in BOOLEAN
    /\ count \in 0..(CountModulus - 1)
    /\ base \in Uninitialized
    /\ inflight \in 0..(InflightModulus - 1)
    /\ requests \in Seq(Posts)
    /\ apcs \in Seq(Posts \cup {SHUTDOWN})
    /\ port \in Seq(Posts \cup {SHUTDOWN})
    /\ at \in [Posts -> {"idle", "checked", "counted", "pushing", "queued", "armed",
                         "expired", "posted", "dequeued", "handling", "done", "denied"}]
    /\ worker \in {"locking", "testing", "waiting", "draining", "trying", "checking",
                   "sleeping", "exited", "undefined"}
    /\ reactor \in [Reactors -> {"outside", "trying", "waiting", "removing",
                                 "handling", "leaving", "left", "refused"}]
    /\ seen \in [Reactors -> BOOLEAN \X (0..(CountModulus - 1))]
    /\ req \in [Reactors -> Posts \cup {SHUTDOWN}]
    /\ caller \in [Callers -> {"out", "closed", "waiting", "returned"}]
    /\ quiet \in BOOLEAN

\* `state` while it is not read any more.
Unseen == <<FALSE, 0>>

\* The constructor starts the worker before it makes the queue: a worker that is
\* faster meets a queue that is not there.
Init ==
    /\ closed = FALSE /\ count = 0
    /\ base \in Uninitialized
    /\ inflight = base
    /\ requests = <<>> /\ apcs = <<>> /\ port = <<>>
    /\ at = [p \in Posts |-> "idle"]
    /\ worker \in {"locking", "undefined"}
    /\ reactor = [r \in Reactors |-> "outside"]
    /\ seen = [r \in Reactors |-> Unseen]
    /\ req = [r \in Reactors |-> SHUTDOWN]
    /\ caller = [c \in Callers |-> "out"]
    /\ quiet = FALSE

-----------------------------------------------------------------------------
(***************************************************************************)
(* Posting a request.                                                      *)
(***************************************************************************)

\* Nothing is started once the behaviour is undefined.
Defined == worker # "undefined"

\* The flag is loaded: a request is denied once shutdown() was called.
CheckClosed(p) ==
    /\ Defined /\ at[p] = "idle"
    /\ at' = [at EXCEPT ![p] = IF closed THEN "denied" ELSE "checked"]
    /\ UNCHANGED <<word, base, inflight, requests, apcs, port, worker, reactorVars,
                   caller, quiet>>

\* Modulo 2^32, from whatever the constructor left in the word.
add_inflight_timer(p) ==
    /\ at[p] = "checked"
    /\ inflight' = (inflight + 1) % InflightModulus
    /\ at' = [at EXCEPT ![p] = "counted"]
    /\ UNCHANGED <<word, base, requests, apcs, port, worker, reactorVars, caller,
                   quiet>>

\* No push() is between its wait for the mutex and its ReleaseMutex.
LockFree == \A p \in Posts : at[p] # "pushing"

\* The manual-reset event: the first push() sets it, and nothing resets it.
non_empty ==
    \E p \in Posts :
        at[p] \in {"queued", "armed", "expired", "posted", "dequeued", "handling", "done"}

BeginPush(p) ==
    /\ at[p] = "counted" /\ LockFree
    /\ at' = [at EXCEPT ![p] = "pushing"]
    /\ UNCHANGED <<word, base, inflight, requests, apcs, port, worker, reactorVars,
                   caller, quiet>>

\* buffer.push, ReleaseMutex and SetEvent.
Push(p) ==
    /\ at[p] = "pushing"
    /\ requests' = Append(requests, p)
    /\ at' = [at EXCEPT ![p] = "queued"]
    /\ UNCHANGED <<word, base, inflight, apcs, port, worker, reactorVars, caller,
                   quiet>>

-----------------------------------------------------------------------------
(***************************************************************************)
(* The worker.                                                             *)
(***************************************************************************)

\* The request at the head of the queue is popped, SetWaitableTimer arms its
\* timer, and the worker goes on at `next`.
Arm(next) ==
    /\ requests # <<>>
    /\ requests' = Tail(requests)
    /\ at' = [at EXCEPT ![Head(requests)] = "armed"]
    /\ worker' = next
    /\ UNCHANGED <<word, base, inflight, apcs, port, reactorVars, caller, quiet>>

\* The queue is empty.
FindEmpty(next) ==
    /\ requests = <<>>
    /\ worker' = next
    /\ UNCHANGED <<word, base, inflight, requests, apcs, port, at, reactorVars, caller,
                   quiet>>

\* pop, with the mutex: SignalObjectAndWait releases it.
pop == worker = "locking" /\ LockFree /\ (Arm("locking") \/ FindEmpty("waiting"))

\* pop, without: SignalObjectAndWait cannot release what the worker does not own,
\* fails, and the worker waits for the mutex again.
PopUnlocked == worker = "testing" /\ (Arm("locking") \/ FindEmpty("locking"))

\* The wait for the event is over.
Wake ==
    /\ worker = "waiting" /\ non_empty
    /\ worker' = "locking"
    /\ UNCHANGED <<word, base, inflight, requests, apcs, port, at, reactorVars, caller,
                   quiet>>

\* The worker reads or pops the buffer while a push() changes it: the outcome is
\* what it would be before the push(), or anything.
Race ==
    /\ worker \in {"testing", "trying"} /\ ~LockFree
    /\ worker' = "undefined"
    /\ UNCHANGED <<word, base, inflight, requests, apcs, port, at, reactorVars, caller,
                   quiet>>

\* The system: the timer expires and its APC is queued to the worker.
Expire(p) ==
    /\ at[p] = "armed"
    /\ at' = [at EXCEPT ![p] = "expired"]
    /\ apcs' = Append(apcs, p)
    /\ UNCHANGED <<word, base, inflight, requests, port, worker, reactorVars, caller,
                   quiet>>

\* The waits in which APCs are run, and where each of them returns to.
Alertable == worker \in {"locking", "waiting", "draining", "sleeping"}

Returned ==
    CASE worker = "locking"  -> "testing"
      [] worker = "waiting"  -> "locking"
      [] worker = "draining" -> "trying"
      [] worker = "sleeping" -> "checking"

\* A wait returns after the last APC that is queued.
AfterApc == IF Len(apcs) = 1 THEN Returned ELSE worker

on_timer_expiration ==
    /\ Alertable /\ apcs # <<>> /\ Head(apcs) # SHUTDOWN
    /\ apcs' = Tail(apcs)
    /\ port' = Append(port, Head(apcs))
    /\ at' = [at EXCEPT ![Head(apcs)] = "posted"]
    /\ worker' = AfterApc
    /\ UNCHANGED <<word, base, inflight, requests, reactorVars, caller, quiet>>

\* on_shutdown_request starts, and never returns to pop.
BeginDrain ==
    /\ worker \in {"locking", "waiting"} /\ apcs # <<>> /\ Head(apcs) = SHUTDOWN
    /\ apcs' = Tail(apcs)
    /\ worker' = "draining"
    /\ UNCHANGED <<word, base, inflight, requests, port, at, reactorVars, caller,
                   quiet>>

\* Fault: the worker leaves what is in the queue.
try_pop_once ==
    /\ worker = "draining" /\ LockFree
    /\ worker' = "checking"
    /\ UNCHANGED <<word, base, inflight, requests, apcs, port, at, reactorVars, caller,
                   quiet>>

\* What is left in the queue is armed, with the mutex ...
try_pop == worker = "draining" /\ LockFree /\ (Arm("draining") \/ FindEmpty("checking"))

\* ... and without.
TryPopUnlocked == worker = "trying" /\ (Arm("draining") \/ FindEmpty("checking"))

\* Fault: the worker leaves when no APC is pending.
CheckApcs ==
    /\ worker = "checking"
    /\ worker' = IF apcs # <<>> THEN "sleeping" ELSE "exited"
    /\ UNCHANGED <<word, base, inflight, requests, apcs, port, at, reactorVars, caller,
                   quiet>>

\* Fault: the worker always sleeps once more.
CheckAfterSleep ==
    /\ worker = "checking"
    /\ worker' = "sleeping"
    /\ UNCHANGED <<word, base, inflight, requests, apcs, port, at, reactorVars, caller,
                   quiet>>

\* Then the worker sleeps, waking for APCs, until no timer is in flight.
CheckInflight ==
    /\ worker = "checking"
    /\ worker' = IF inflight > 0 THEN "sleeping" ELSE "exited"
    /\ UNCHANGED <<word, base, inflight, requests, apcs, port, at, reactorVars, caller,
                   quiet>>

-----------------------------------------------------------------------------
(***************************************************************************)
(* The reactors: run().                                                    *)
(***************************************************************************)

\* try_enter_reactor loads the word.
Enter(r) ==
    /\ Defined /\ reactor[r] = "outside"
    /\ reactor' = [reactor EXCEPT ![r] = "trying"]
    /\ seen' = [seen EXCEPT ![r] = word]
    /\ UNCHANGED <<word, base, inflight, requests, apcs, port, at, worker, req, caller,
                   quiet>>

Refuse(r) ==
    /\ reactor[r] = "trying" /\ seen[r][1]
    /\ reactor' = [reactor EXCEPT ![r] = "refused"]
    /\ seen' = [seen EXCEPT ![r] = Unseen]
    /\ UNCHANGED <<word, base, inflight, requests, apcs, port, at, worker, req, caller,
                   quiet>>

\* The exchange counts the reactor, and the loop goes on: its condition is the
\* success of the exchange.
CasSucceeds(r) ==
    /\ reactor[r] = "trying" /\ ~seen[r][1] /\ seen[r] = word
    /\ count' = (count + 1) % CountModulus
    /\ UNCHANGED <<closed, base, inflight, requests, apcs, port, at, worker,
                   reactorVars, caller, quiet>>

\* The exchange fails, perhaps spuriously, which ends the loop: the reactor is in,
\* whether it was counted or not, and whatever the word is now.
CasFails(r) ==
    /\ reactor[r] = "trying" /\ ~seen[r][1]
    /\ reactor' = [reactor EXCEPT ![r] = "waiting"]
    /\ seen' = [seen EXCEPT ![r] = Unseen]
    /\ UNCHANGED <<word, base, inflight, requests, apcs, port, at, worker, req, caller,
                   quiet>>

\* GetQueuedCompletionStatus.
Dequeue(r) ==
    /\ reactor[r] = "waiting" /\ port # <<>>
    /\ port' = Tail(port)
    /\ IF Head(port) = SHUTDOWN
       THEN /\ reactor' = [reactor EXCEPT ![r] = "leaving"]
            /\ UNCHANGED <<at, req>>
       ELSE /\ reactor' = [reactor EXCEPT ![r] = "removing"]
            /\ req' = [req EXCEPT ![r] = Head(port)]
            /\ at' = [at EXCEPT ![Head(port)] = "dequeued"]
    /\ UNCHANGED <<word, base, inflight, requests, apcs, worker, seen, caller,
                   quiet>>

remove_inflight_timer(r) ==
    /\ reactor[r] = "removing"
    /\ inflight' = (inflight + InflightModulus - 1) % InflightModulus
    /\ at' = [at EXCEPT ![req[r]] = "handling"]
    /\ reactor' = [reactor EXCEPT ![r] = "handling"]
    /\ UNCHANGED <<word, base, requests, apcs, port, worker, seen, req, caller,
                   quiet>>

\* The completion handler returns, and so has any shutdown() it called.
EndHandler(r) ==
    /\ reactor[r] = "handling" /\ caller[r] \in {"out", "returned"}
    /\ reactor' = [reactor EXCEPT ![r] = "waiting"]
    /\ at' = [at EXCEPT ![req[r]] = "done"]
    /\ req' = [req EXCEPT ![r] = SHUTDOWN]
    /\ UNCHANGED <<word, base, inflight, requests, apcs, port, worker, seen, caller,
                   quiet>>

leave_reactor(r) ==
    /\ reactor[r] = "leaving"
    /\ count' = (count + CountModulus - 1) % CountModulus
    /\ reactor' = [reactor EXCEPT ![r] = "left"]
    /\ UNCHANGED <<closed, base, inflight, requests, apcs, port, at, worker, seen, req,
                   caller, quiet>>

-----------------------------------------------------------------------------
(***************************************************************************)
(* shutdown().                                                             *)
(***************************************************************************)

\* A request is between the load in post and the handler.
UnderWay(p) == at[p] \notin {"idle", "handling", "done", "denied"}

\* fetch_or: only the first call goes on.
Close(c) ==
    /\ Defined /\ caller[c] = "out"
    /\ c \in Reactors => reactor[c] = "handling"
    /\ closed' = TRUE
    /\ caller' = [caller EXCEPT ![c] = IF closed THEN "returned" ELSE "closed"]
    /\ quiet' = IF closed THEN quiet ELSE ~ \E p \in Posts : UnderWay(p)
    /\ UNCHANGED <<count, base, inflight, requests, apcs, port, at, worker,
                   reactorVars>>

\* Fault: the worker is not told.
QueueApcLost(c) ==
    /\ caller[c] = "closed"
    /\ caller' = [caller EXCEPT ![c] = "waiting"]
    /\ UNCHANGED <<word, base, inflight, requests, apcs, port, at, worker, reactorVars,
                   quiet>>

QueueApc(c) ==
    /\ caller[c] = "closed"
    /\ apcs' = Append(apcs, SHUTDOWN)
    /\ caller' = [caller EXCEPT ![c] = "waiting"]
    /\ UNCHANGED <<word, base, inflight, requests, port, at, worker, reactorVars,
                   quiet>>

\* The worker has exited: as many keys are posted as the word says, which is
\* twice the count of reactors and one for the flag.
PostKeys(c) ==
    /\ caller[c] = "waiting" /\ worker = "exited"
    /\ port' = port \o [k \in 1..(2 * count + 1) |-> SHUTDOWN]
    /\ caller' = [caller EXCEPT ![c] = "returned"]
    /\ UNCHANGED <<word, base, inflight, requests, apcs, at, worker, reactorVars,
                   quiet>>

-----------------------------------------------------------------------------
Posting(p) == add_inflight_timer(p) \/ BeginPush(p) \/ Push(p)

\* process_requests, and on_shutdown_request.
Worker ==
    \/ pop \/ PopUnlocked \/ Wake
    \/ try_pop \/ TryPopUnlocked \/ CheckInflight
    \/ Race

Apc == on_timer_expiration \/ BeginDrain

Reactor(r) ==
    \/ Refuse(r) \/ CasSucceeds(r) \/ CasFails(r) \/ Dequeue(r)
    \/ remove_inflight_timer(r) \/ EndHandler(r) \/ leave_reactor(r)

Closing(c) == QueueApc(c) \/ PostKeys(c)

Next ==
    \/ \E p \in Posts : CheckClosed(p) \/ Posting(p) \/ Expire(p)
    \/ Worker \/ Apc
    \/ \E r \in Reactors : Enter(r) \/ Reactor(r)
    \/ \E c \in Callers : Close(c) \/ Closing(c)

Spec == Init /\ [][Next]_vars

\* Every thread that is inside the service keeps running, timers expire, and
\* the system runs the pending APCs of a worker whose waits are all alertable.
\* Nobody need post, run a reactor or shut down.
Fairness ==
    /\ \A p \in Posts : WF_vars(Posting(p)) /\ WF_vars(Expire(p))
    /\ WF_vars(Worker) /\ WF_vars(Apc)
    /\ \A r \in Reactors : WF_vars(Reactor(r))
    /\ \A c \in Callers : WF_vars(Closing(c))

FairSpec == Spec /\ Fairness

-----------------------------------------------------------------------------
\* A request is counted: from add_inflight_timer to remove_inflight_timer.
Counted(p) ==
    at[p] \in {"counted", "pushing", "queued", "armed", "expired", "posted", "dequeued"}

\* n_inflight_timers counts, above what it was left with and modulo 2^32, the
\* requests from their addition by post to their removal by a reactor, whoever
\* interleaves.
InflightIsExact ==
    inflight = (base + Cardinality({p \in Posts : Counted(p)})) % InflightModulus

\* The word cannot wrap to 0 with a request counted.
NoWrap == base + Cardinality(Posts) < InflightModulus

\* The worker, to whose APC queue timers expire, exits only when no timer is
\* armed and no request is on its way to a reactor, as on_shutdown_request
\* intends; only a post that passed its check before the flag can come later.  A
\* word that was left so high that it wraps defeats this.
WorkerOutlivesTimers ==
    worker = "exited" /\ NoWrap =>
        \A p \in Posts : at[p] \notin {"armed", "expired", "posted", "dequeued"}

\* The two halves of the worker's shutdown: the count it tests is the number of
\* requests under way, and it leaves when none can reach it any more.
ServedUntilIdle == TypeOK /\ InflightIsExact /\ WorkerOutlivesTimers

\* The handler of a request that is queued before on_shutdown_request has emptied
\* the queue is called, even by a service that is shutting down and a worker that
\* an APC has sent past the mutex, as long as a reactor is in its loop and does
\* not itself go into shutdown() from a handler, the count does not wrap and the
\* worker does not meet a push() in the buffer.
AcceptedIsHandled ==
    \A p \in Posts, r \in Reactors :
        (/\ at[p] = "queued" /\ reactor[r] = "waiting" /\ NoWrap
         /\ worker \in {"locking", "testing", "waiting", "draining", "trying"})
            ~> (at[p] \in {"handling", "done"} \/ caller[r] # "out" \/ ~Defined)

\* The call of shutdown() that set the flag waits for the worker.
ShuttingDown == \E c \in Callers : caller[c] = "waiting"

\* shutdown() returns when it found no request under way, as in the drivers.
QuietShutdownReturns ==
    (ShuttingDown /\ quiet /\ base = 0) ~> (~ShuttingDown \/ ~Defined)

\* shutdown() that does not return waits for a worker asleep for ever: a request
\* counts as in flight, and neither a timer nor an APC is left to wake it.
OnlySleepHangs ==
    ShuttingDown ~>
        \/ ~ShuttingDown
        \/ ~Defined
        \/ /\ worker = "sleeping" /\ apcs = <<>>
           /\ \A p \in Posts : at[p] # "armed"

=============================================================================
