----------------------------- MODULE TimerReactor -----------------------------
(***************************************************************************)
(* The awaitable timers of applications/timers that one reactor serves:    *)
(* timerfd with epoll, kqueue, and the Windows thread pool with its        *)
(* io_context, awaited by coroutines that are eager_tasks (libcoro).       *)
(*                                                                         *)
(* main starts the tasks, whose bodies run at once until they suspend on a *)
(* timer, and then runs the reactor: on timerfd and kqueue a loop of main  *)
(* that takes as many events as the tasks await, on the pool a thread of   *)
(* its own, while main waits for the shutdown event.  A timer is known to  *)
(* the kernel by a key (its descriptor, its ident, its handle) and comes   *)
(* back as a pointer to the async_context that holds the handle of the     *)
(* coroutine to resume.                                                    *)
(*                                                                         *)
(* Before it runs the reactor main may also co_await a task from a further *)
(* coroutine, the joiner, or let go of one.  Undefined behaviour ends the  *)
(* run and is named in `undefined`.                                        *)
(***************************************************************************)
EXTENDS Naturals, FiniteSets

CONSTANTS
    NCoros,        \* the most tasks
    NTimers,       \* awaitable_timer objects
    n_expirations  \* awaits in the body of one task

ASSUME TimerReactorAssumption ==
    NCoros \in Nat \ {0} /\ NTimers \in Nat /\ n_expirations \in Nat \ {0}

Coros == 1..NCoros
Timers == 1..NTimers
NULL == 0

VARIABLES
    platform,       \* "timerfd", "kqueue" or "pool"
    tasks,          \* the tasks of this program
    owner,          \* the coroutine in whose frame each timer is
    ident,          \* the key of each timer
    main,           \* where main stands
    task,           \* each task: its coroutine and its promise
    awaiting_coro,  \* the handle in the context the kernel knows of
    moved,          \* timers that were moved from since
    gone,           \* those of them whose object moved from is no more
    kernel,         \* by key: what the kernel has of a timer
    count,          \* the reactor's loop counter
    shutdown_event, \* of the io_context
    joiner,         \* where the joiner stands
    joined,         \* the task it awaits
    early,          \* history: resumed by a timer they did not wait for
    excuse,         \* history: what may keep the reactor from its count
    undefined       \* the undefined behaviour met, or "none"

setup == <<platform, tasks, owner, ident>>
timerVars == <<awaiting_coro, moved, gone, kernel>>
loop == <<count, shutdown_event>>
join == <<joiner, joined>>
ghosts == <<early, excuse, undefined>>
vars == <<setup, main, task, timerVars, loop, join, ghosts>>

ResultType == {"empty", "value", "exception"}

\* body: where the coroutine is; thread: who runs it; reps: its loop counter;
\* awaits: the timer it is suspended on; state and result_type: of the promise.
Task == [body : {"unborn", "running", "suspended", "ending", "final", "destroyed"},
         thread : {"main", "pool"}, reps : 0..n_expirations,
         awaits : Timers \cup {NULL}, state : BOOLEAN, result_type : ResultType]

NewTask == [body |-> "unborn", thread |-> "main", reps |-> 0, awaits |-> NULL,
            state |-> FALSE, result_type |-> "empty"]

Kevent == [st : {"none", "idle", "armed", "fired"}, udata : Timers]

TypeOK ==
    /\ platform \in {"timerfd", "kqueue", "pool"}
    /\ tasks \subseteq Coros /\ owner \in [Timers -> tasks] /\ ident \in [Timers -> Timers]
    /\ main \in {"starting", "reactor", "closing", "leaving", "left", "terminated"}
    /\ task \in [Coros -> Task]
    /\ awaiting_coro \in [Timers -> Coros \cup {NULL}]
    /\ moved \subseteq Timers /\ gone \subseteq moved
    /\ kernel \in [Timers -> Kevent]
    /\ count \in 0..(NCoros * n_expirations) /\ shutdown_event \in BOOLEAN
    /\ joiner \in {"none", "resuming", "linking", "suspended", "resumed", "done"}
    /\ joined \in tasks \cup {NULL}
    /\ early \subseteq tasks
    /\ excuse \subseteq {"arm", "ctor", "error", "drop", "join", "collision"}
    /\ undefined \in {"none", "null handle", "not suspended", "dangling context",
                      "closed timer", "released twice", "destroyed running"}

Init ==
    /\ platform \in {"timerfd", "kqueue", "pool"}
    /\ \E n \in Coros : tasks = 1..n
    /\ owner \in {f \in [Timers -> tasks] : \A c \in tasks : \E t \in Timers : f[t] = c}
    /\ ident \in IF platform = "kqueue" THEN {[t \in Timers |-> 1], [t \in Timers |-> t]}
                 ELSE {[t \in Timers |-> t]}
    /\ main = "starting"
    /\ task = [c \in Coros |-> NewTask]
    /\ awaiting_coro = [t \in Timers |-> NULL]
    /\ moved = {} /\ gone = {}
    /\ kernel = [t \in Timers |-> [st |-> "none", udata |-> t]]
    /\ count = 0 /\ shutdown_event = FALSE
    /\ joiner = "none" /\ joined = NULL
    /\ early = {} /\ excuse = {} /\ undefined = "none"

-----------------------------------------------------------------------------
Running(c) == task[c].body \in {"running", "ending"}

\* The locals of the coroutine are alive.
Alive(c) == task[c].body \in {"running", "suspended", "ending"}

\* Nothing runs on top of main, or of the thread of the pool.
Free(th) ==
    /\ \A c \in tasks : Running(c) => task[c].thread # th
    /\ th = "main" => joiner \notin {"resuming", "linking", "resumed"}

TimersOf(c) == {t \in Timers : owner[t] = c}

\* Undefined behaviour: nothing is known of the program any more.
Undefined(what) ==
    /\ undefined' = what
    /\ UNCHANGED <<setup, main, task, timerVars, loop, join, early>>

\* The coroutine is resumed where it awaited a timer.
Resumed(c, th) ==
    task' = [task EXCEPT ![c].body = "running", ![c].thread = th,
                         ![c].reps = @ + 1, ![c].awaits = NULL]

-----------------------------------------------------------------------------
(***************************************************************************)
(* The timers.                                                             *)
(***************************************************************************)

WithTimersOf(c, st) ==
    [t \in Timers |-> IF owner[t] = c THEN [st |-> st, udata |-> t] ELSE kernel[t]]

\* timerfd: the descriptor is registered with the address of the context.
Register(c) == kernel' = WithTimersOf(c, "idle")

\* The callback of the pool's timer is given the address of the context.
CreateThreadpoolTimer(c) == kernel' = WithTimersOf(c, "idle")

\* timerfd_settime: what expired before is forgotten.
rearm(t) == kernel' = [kernel EXCEPT ![t].st = "armed"]

\* EV_ADD | EV_ONESHOT: takes the place of whatever has the same ident.
arm_timer(t) == kernel' = [kernel EXCEPT ![ident[t]] = [st |-> "armed", udata |-> t]]

SetThreadpoolTimer(t) == kernel' = [kernel EXCEPT ![t].st = "armed"]

\* ~awaitable_timer of timerfd: the descriptor leaves the epoll set.
close(c) == kernel' = WithTimersOf(c, "none")

\* unique_handle's close: no further callback, but one that is due still comes.
CloseThreadpoolTimer(c) ==
    kernel' = [t \in Timers |-> IF kernel[t].st = "fired" THEN kernel[t]
                                ELSE WithTimersOf(c, "none")[t]]

\* The locals of c are destroyed.  The timer of kqueue has no destructor.
DestroyLocals(c) ==
    \/ platform = "timerfd" /\ close(c)
    \/ platform = "pool" /\ CloseThreadpoolTimer(c)
    \/ platform = "kqueue" /\ UNCHANGED kernel

\* The timer moved to has the descriptor; the kernel keeps the address of the
\* context in the timer moved from.
MoveTimer(t) ==
    /\ task[owner[t]].body = "running" /\ t \notin moved
    /\ moved' = moved \cup {t}
    /\ UNCHANGED <<setup, main, task, awaiting_coro, gone, kernel, loop, join, ghosts>>

MoveTimerfd(t) == platform = "timerfd" /\ MoveTimer(t)
MovePoolTimer(t) == platform = "pool" /\ MoveTimer(t)

\* The timer moved from, a temporary or a local of some scope, is destroyed before
\* the frame: it has no descriptor to close any more.
EndScope(t) ==
    /\ task[owner[t]].body = "running" /\ t \in moved \ gone
    /\ gone' = gone \cup {t}
    /\ UNCHANGED <<setup, main, task, awaiting_coro, moved, kernel, loop, join, ghosts>>

-----------------------------------------------------------------------------
(***************************************************************************)
(* The bodies of the tasks, and their promises.                            *)
(***************************************************************************)

\* main is at the call that creates task c.
AtCreation(c) ==
    /\ main = "starting" /\ Free("main")
    /\ task[c].body = "unborn" /\ \A d \in 1..(c - 1) : task[d].body # "unborn"

\* initial_suspend does not suspend; the timers are constructed.
StartTask(c) ==
    /\ AtCreation(c)
    /\ task' = [task EXCEPT ![c].body = "running"]
    /\ \/ platform = "timerfd" /\ Register(c)
       \/ platform = "pool" /\ CreateThreadpoolTimer(c)
       \/ platform = "kqueue" /\ UNCHANGED kernel
    /\ UNCHANGED <<setup, main, awaiting_coro, moved, gone, loop, join, ghosts>>

\* A constructor throws: unhandled_exception keeps it, final_suspend follows.
StartFails(c) ==
    /\ AtCreation(c) /\ platform # "kqueue"
    /\ task' = [task EXCEPT ![c].body = "final", ![c].result_type = "exception",
                            ![c].state = TRUE]
    /\ excuse' = excuse \cup {"ctor"}
    /\ UNCHANGED <<setup, main, timerVars, loop, join, early, undefined>>

\* co_await timer: the handle goes to the context of the object awaited.
Awaits(c, t) ==
    /\ task[c].body = "running" /\ task[c].reps < n_expirations /\ owner[t] = c
    /\ awaiting_coro' = IF t \in moved THEN awaiting_coro
                        ELSE [awaiting_coro EXCEPT ![t] = c]
    /\ UNCHANGED <<setup, main, moved, gone, loop, joined, early, undefined>>

\* Arming t takes the event of another timer that has the same ident.
Collides(t) ==
    /\ kernel[ident[t]].st # "none"
    /\ kernel[ident[t]].udata # t

\* await_suspend arms the timer, and control is back with the resumer: with the
\* joiner, in its await_suspend, if that resumed c.
CoAwait(c, t) ==
    /\ Awaits(c, t)
    /\ \/ platform = "timerfd" /\ rearm(t)
       \/ platform = "kqueue" /\ arm_timer(t)
       \/ platform = "pool" /\ main # "closing" /\ SetThreadpoolTimer(t)
    /\ task' = [task EXCEPT ![c].body = "suspended", ![c].awaits = t]
    /\ joiner' = IF joiner = "resuming" /\ joined = c THEN "linking" ELSE joiner
    /\ excuse' = IF Collides(t) THEN excuse \cup {"collision"} ELSE excuse

\* The call fails, await_suspend returns false: the loop goes on at once.
ArmFails(c, t) ==
    /\ platform # "pool"
    /\ Awaits(c, t)
    /\ task' = [task EXCEPT ![c].reps = @ + 1]
    /\ excuse' = excuse \cup {"arm"}
    /\ UNCHANGED <<kernel, joiner>>

\* SetThreadpoolTimer on a timer that wait_close has released.
ArmClosed(c) ==
    /\ platform = "pool" /\ main = "closing"
    /\ task[c].body = "running" /\ task[c].reps < n_expirations
    /\ Undefined("closed timer") /\ UNCHANGED excuse

\* start_timer: ioc.shutdown(), while the timer is still there.
Shutdown(c) ==
    /\ platform = "pool" /\ task[c].body = "running" /\ task[c].reps = n_expirations
    /\ task' = [task EXCEPT ![c].body = "ending"]
    /\ shutdown_event' = TRUE
    /\ UNCHANGED <<setup, main, timerVars, count, join, ghosts>>

\* final_awaitable: the promise had a continuation before, which is resumed.
FinalSuspend(c) ==
    joiner' = IF joiner = "resuming" /\ joined = c THEN "linking"
              ELSE IF task[c].state THEN "resumed" ELSE joiner

\* The end of the body: the result is set, the timers are destroyed.
EndBody(c) ==
    /\ IF platform = "pool" THEN task[c].body = "ending"
       ELSE task[c].body = "running" /\ task[c].reps = n_expirations
    /\ task' = [task EXCEPT ![c].body = "final", ![c].result_type = "value",
                            ![c].state = TRUE]
    /\ DestroyLocals(c)
    /\ FinalSuspend(c)
    /\ UNCHANGED <<setup, main, awaiting_coro, moved, gone, loop, joined, ghosts>>

\* Timers are destroyed that wait_close releases, or has released: this may come
\* to nothing, or not.
ReleaseTwice(c) ==
    /\ platform = "pool"
    /\ \/ main = "closing" /\ task[c].body = "ending"
       \/ main = "leaving" /\ task[c].body = "suspended"
    /\ Undefined("released twice") /\ UNCHANGED excuse

-----------------------------------------------------------------------------
(***************************************************************************)
(* The reactor.                                                            *)
(***************************************************************************)

Expire(k) ==
    /\ kernel[k].st = "armed" /\ main \notin {"left", "terminated"}
    /\ kernel' = [kernel EXCEPT ![k].st = "fired"]
    /\ UNCHANGED <<setup, main, task, awaiting_coro, moved, gone, loop, join, ghosts>>

\* What is wrong with the context of timer u, if anything is.
WrongContext(u) ==
    LET c == awaiting_coro[u]
    IN  IF ~Alive(owner[u]) \/ u \in gone THEN "dangling context"
        ELSE IF c = NULL THEN "null handle"
        ELSE IF task[c].body # "suspended" THEN "not suspended"
        ELSE "none"

\* on_timer_expire: the coroutine in the context of timer u is resumed.
OnTimerExpire(u, th) ==
    LET c == awaiting_coro[u]
    IN  /\ WrongContext(u) = "none"
        /\ Resumed(c, th)
        /\ early' = IF task[c].awaits = u THEN early ELSE early \cup {c}
        /\ UNCHANGED <<setup, main, awaiting_coro, moved, gone, shutdown_event, join,
                       excuse, undefined>>

\* Fault: the loop takes one event more than the tasks await.
QuotaAndOne == Cardinality(tasks) * n_expirations + 1

\* The events the reactor's loop takes: as many as the tasks await.
Quota == Cardinality(tasks) * n_expirations

\* The wait for events can return with this one.
Pending(k) ==
    /\ kernel[k].st = "fired"
    /\ IF platform = "pool" THEN main \in {"starting", "reactor", "closing"} /\ Free("pool")
       ELSE main = "reactor" /\ Free("main") /\ count < Quota

\* epoll_wait is level-triggered and nobody reads the descriptor: it stays ready
\* until the timer is armed again.
EpollReactor(k) ==
    /\ platform = "timerfd" /\ Pending(k)
    /\ OnTimerExpire(k, "main")
    /\ count' = count + 1
    /\ UNCHANGED kernel

\* Fault: the event is not one-shot.
KqueuePeriodic(k) ==
    /\ platform = "kqueue" /\ Pending(k)
    /\ OnTimerExpire(kernel[k].udata, "main")
    /\ count' = count + 1
    /\ kernel' = [kernel EXCEPT ![k].st = "armed"]

\* kevent: the one-shot event is removed as it is delivered.
KqueueReactor(k) ==
    /\ platform = "kqueue" /\ Pending(k)
    /\ OnTimerExpire(kernel[k].udata, "main")
    /\ count' = count + 1
    /\ kernel' = [kernel EXCEPT ![k].st = "none"]

\* on_timer_expiration, on the thread of the pool.
PoolCallback(k) ==
    /\ platform = "pool" /\ Pending(k)
    /\ OnTimerExpire(k, "pool")
    /\ kernel' = [kernel EXCEPT ![k].st = "idle"]
    /\ UNCHANGED count

\* The context is not what on_timer_expire takes it for.
BadEvent(k) ==
    /\ Pending(k) /\ WrongContext(kernel[k].udata) # "none"
    /\ Undefined(WrongContext(kernel[k].udata)) /\ UNCHANGED excuse

-----------------------------------------------------------------------------
(***************************************************************************)
(* main, and the joiner.                                                   *)
(***************************************************************************)

\* main is between two statements, the reactor not yet running.
AtWill == main = "starting" /\ Free("main")

JoinFrame == UNCHANGED <<setup, main, timerVars, loop, early, undefined>>

\* The joiner co_awaits a task that is done.
JoinReady(c) ==
    /\ AtWill /\ joiner = "none" /\ task[c].body = "final"
    /\ joiner' = "resumed" /\ joined' = c
    /\ JoinFrame /\ UNCHANGED <<task, excuse>>

\* Or one that is suspended: await_suspend resumes its body, whatever timer it
\* waits for.
JoinResume(c) ==
    /\ AtWill /\ joiner = "none" /\ task[c].body = "suspended"
    /\ Resumed(c, "main")
    /\ joiner' = "resuming" /\ joined' = c
    /\ excuse' = excuse \cup {"join"}
    /\ JoinFrame

\* main calls resume() on a task that is suspended.
ResumeTask(c) ==
    /\ AtWill /\ task[c].body = "suspended"
    /\ Resumed(c, "main")
    /\ excuse' = excuse \cup {"join"}
    /\ JoinFrame /\ UNCHANGED join

\* Or awaits one that a callback is running.
JoinRunning(c) ==
    /\ AtWill /\ joiner = "none" /\ Running(c)
    /\ Undefined("not suspended") /\ excuse' = excuse \cup {"join"}

\* Fault: await_suspend resumes the joiner when the exchange finds no flag.
LinkSwapped ==
    /\ joiner = "linking"
    /\ joiner' = IF task[joined].state THEN "suspended" ELSE "resumed"
    /\ task' = [task EXCEPT ![joined].state = TRUE]
    /\ JoinFrame /\ UNCHANGED <<joined, excuse>>

\* The rest of await_suspend: the second of the two exchanges goes on.
TrySetContinuation ==
    /\ joiner = "linking"
    /\ joiner' = IF task[joined].state THEN "resumed" ELSE "suspended"
    /\ task' = [task EXCEPT ![joined].state = TRUE]
    /\ JoinFrame /\ UNCHANGED <<joined, excuse>>

\* await_resume takes the result, and the joiner ends.
JoinResult ==
    /\ joiner = "resumed"
    /\ joiner' = "done"
    /\ JoinFrame /\ UNCHANGED <<task, joined, excuse>>

\* A task is assigned to, or was a temporary: its frame is destroyed.
DropTask(c) ==
    /\ AtWill /\ joined # c
    /\ task[c].body \in {"suspended", "final"}
    /\ task' = [task EXCEPT ![c].body = "destroyed"]
    /\ IF task[c].body = "final" THEN UNCHANGED kernel ELSE DestroyLocals(c)
    /\ excuse' = excuse \cup {"drop"}
    /\ UNCHANGED <<setup, main, awaiting_coro, moved, gone, loop, join, early, undefined>>

\* ... while a callback runs it.
DropRunning(c) ==
    /\ AtWill /\ joined # c /\ Running(c)
    /\ Undefined("destroyed running") /\ excuse' = excuse \cup {"drop"}

MainGoes(to) ==
    /\ main' = to
    /\ UNCHANGED <<setup, task, awaiting_coro, moved, gone, loop, join, early, undefined>>

\* main calls reactor(), or ioc.run().
RunReactor ==
    /\ AtWill /\ \A c \in tasks : task[c].body # "unborn"
    /\ MainGoes("reactor") /\ UNCHANGED <<kernel, excuse>>

\* The loop has its count.
ReactorReturns ==
    /\ platform # "pool" /\ main = "reactor" /\ Free("main") /\ count = Quota
    /\ MainGoes("leaving") /\ UNCHANGED <<kernel, excuse>>

\* The wait is interrupted: timerfd's reactor throws, kqueue's breaks its loop.
ReactorError ==
    /\ platform # "pool" /\ main = "reactor" /\ Free("main") /\ count < Quota
    /\ MainGoes(IF platform = "timerfd" THEN "terminated" ELSE "leaving")
    /\ excuse' = excuse \cup {"error"}
    /\ UNCHANGED kernel

\* run() returns and wait_close() releases the timers: none is armed any more.
BeginClose ==
    /\ platform = "pool" /\ main = "reactor" /\ shutdown_event
    /\ MainGoes("closing")
    /\ kernel' = [k \in Timers |-> IF kernel[k].st = "armed"
                                   THEN [kernel[k] EXCEPT !.st = "idle"] ELSE kernel[k]]
    /\ UNCHANGED excuse

\* Fault: wait_close does not wait.
CloseAtOnce ==
    /\ platform = "pool" /\ main = "closing"
    /\ MainGoes("leaving") /\ UNCHANGED <<kernel, excuse>>

\* It returns when no callback runs or is due.
EndClose ==
    /\ platform = "pool" /\ main = "closing"
    /\ Free("pool") /\ \A k \in Timers : kernel[k].st # "fired"
    /\ MainGoes("leaving") /\ UNCHANGED <<kernel, excuse>>

\* main returns: the tasks are destroyed, and the reactor with its registrations.
Leave ==
    /\ main = "leaving"
    /\ IF \E c \in tasks : Running(c)
       THEN Undefined("destroyed running") /\ UNCHANGED excuse
       ELSE /\ main' = "left"
            /\ task' = [c \in Coros |-> IF c \in tasks
                            THEN [task[c] EXCEPT !.body = "destroyed"] ELSE task[c]]
            /\ kernel' = [k \in Timers |-> [kernel[k] EXCEPT !.st = "none"]]
            /\ UNCHANGED <<setup, awaiting_coro, moved, gone, loop, join, ghosts>>

-----------------------------------------------------------------------------
\* The steps a thread takes by itself, without the program's choosing.
ThreadStep ==
    \/ \E c \in tasks :
          \/ StartTask(c) \/ Shutdown(c) \/ EndBody(c)
          \/ ArmClosed(c) \/ ReleaseTwice(c)
          \/ \E t \in Timers : CoAwait(c, t)
    \/ \E k \in Timers :
          EpollReactor(k) \/ KqueueReactor(k) \/ PoolCallback(k) \/ BadEvent(k)
    \/ TrySetContinuation \/ JoinResult
    \/ ReactorReturns \/ BeginClose \/ EndClose \/ Leave

Next ==
    /\ undefined = "none"
    /\ \/ ThreadStep
       \/ RunReactor
       \/ ReactorError
       \/ \E k \in Timers : Expire(k) \/ MoveTimerfd(k) \/ MovePoolTimer(k) \/ EndScope(k)
       \/ \E c \in tasks :
             \/ StartFails(c) \/ \E t \in Timers : ArmFails(c, t)
             \/ JoinReady(c) \/ JoinResume(c) \/ ResumeTask(c) \/ JoinRunning(c)
             \/ DropTask(c) \/ DropRunning(c)

Spec == Init /\ [][Next]_vars

\* Threads go on, main gets to its reactor, and a timer that is armed expires.
FairSpec ==
    /\ Spec
    /\ WF_vars(undefined = "none" /\ ThreadStep)
    /\ WF_vars(undefined = "none" /\ RunReactor)
    /\ \A k \in Timers : WF_vars(undefined = "none" /\ Expire(k))

-----------------------------------------------------------------------------
\* A program with one task to a pool, which moves no timer and neither resumes nor
\* drops a task that is suspended, resumes nothing that is gone or running, and
\* releases a timer twice only as its last task ends under wait_close; and on
\* timerfd, where timers leave the reactor with their frame, a null handle is all
\* that a program meets whose timers are moved between objects that last.
OnlyMisuseBreaks ==
    /\ TypeOK
    /\ undefined # "none" =>
           \/ moved # {}
           \/ excuse \cap {"join", "drop"} # {}
           \/ platform = "pool" /\ Cardinality(tasks) > 1
           \/ undefined = "released twice" /\ main = "closing"
    /\ platform = "timerfd" /\ gone = {} => undefined \in {"none", "null handle"}

\* A coroutine is resumed by the timer it waits for: another one resumes it only
\* if that was left armed when its task was resumed by others, or on timerfd, where
\* the descriptor of a timer that fired stays ready while its owner awaits another.
ResumedByItsTimer ==
    \A c \in early :
        \/ "join" \in excuse
        \/ platform = "timerfd" /\ Cardinality(TimersOf(c)) > 1

\* The joiner gets past co_await only when the task has ended and left a result.
JoinedMeansEnded ==
    joiner \in {"resumed", "done"} => task[joined].result_type # "empty"

\* A main that has started a task returns with all the work done (on the pool: with
\* that of the task that called shutdown), unless a timer could not be made or
\* armed, a wait was interrupted, a task was dropped or resumed, or two timers have
\* one ident.
MainReturns ==
    task[1].body # "unborn" ~>
       \/ /\ main = "left"
          /\ LET done == {c \in tasks : task[c].reps = n_expirations}
             IN  done = tasks \/ (platform = "pool" /\ done # {})
       \/ undefined # "none"
       \/ excuse # {}

=============================================================================
