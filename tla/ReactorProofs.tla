---------------------------- MODULE ReactorProofs ----------------------------
(***************************************************************************)
(* The reactors of the applications: first that of the awaitable timers,   *)
(* then that of the pipes, each proved on its own.                         *)
(*                                                                         *)
(* The timers, for any number of tasks and timers: what a program must do  *)
(* to resume something that is gone, which timer resumes a coroutine, and  *)
(* what a joiner finds.                                                    *)
(***************************************************************************)
EXTENDS TimerReactor, PipeReactor, FiniteSetTheorems, SequenceTheorems, TLAPS

\* The tasks are numbered; only kqueue's timers can share a key, and only there
\* does the kernel's event belong to another timer than its key says.
SetupInv ==
    /\ \E n \in Coros : tasks = 1..n
    /\ platform # "kqueue" => \A t \in Timers : ident[t] = t /\ kernel[t].udata = t

\* A coroutine is suspended on a timer of its own, with awaits left; it has a
\* result when it is at its final suspension, and none before.
TaskInv ==
    \A c \in tasks :
        /\ task[c].body = "suspended" =>
              /\ task[c].reps < n_expirations
              /\ task[c].awaits \in Timers /\ owner[task[c].awaits] = c
        /\ task[c].body = "final" => task[c].result_type # "empty"
        /\ task[c].body \in {"unborn", "running", "suspended", "ending"} =>
              task[c].result_type = "empty"

\* Who runs what: without a pool main does, with one main runs nothing after the
\* tasks were started; nothing runs when main returns.
ThreadInv ==
    \A c \in tasks :
        /\ platform # "pool" => task[c].thread = "main"
        /\ platform = "pool" /\ main # "starting" /\ Running(c) =>
              task[c].thread = "pool"
        /\ main \in {"leaving", "left"} => ~Running(c)

\* wait_close is called after a task has called shutdown().
CloseInv ==
    /\ platform = "pool" /\ main \notin {"starting", "reactor"} => shutdown_event
    /\ shutdown_event =>
          \E c \in tasks : task[c].body \in {"ending", "final", "destroyed"}

Due(k) == kernel[k].st \in {"armed", "fired"}

\* The handle in a context is that of the owner, once it awaited the timer.
HandleInv ==
    /\ \A t \in Timers : awaiting_coro[t] \in {NULL, owner[t]}
    /\ \A k \in Timers : Due(k) /\ kernel[k].udata \notin moved =>
          awaiting_coro[kernel[k].udata] = owner[kernel[k].udata]

\* A descriptor that is registered belongs to a frame that is alive.
RegisteredInv ==
    platform = "timerfd" =>
        \A k \in Timers : kernel[k].st # "none" => Alive(owner[k])

\* On the others an event that is due is the one its owner waits for, unless the
\* task was dropped, or resumed by others.
AwaitedInv ==
    platform # "timerfd" /\ "join" \notin excuse =>
        \A k \in Timers : Due(k) =>
            LET u == kernel[k].udata
                c == owner[u]
            IN  /\ ident[u] = k
                /\ \/ task[c].body = "suspended" /\ task[c].awaits = u
                   \/ task[c].body = "destroyed" /\ "drop" \in excuse

\* The flag of the promise is set by its final suspension or by the joiner.
JoinInv ==
    /\ joiner # "none" => joined \in tasks
    /\ \A c \in tasks : task[c].state =>
          \/ task[c].result_type # "empty"
          \/ c = joined /\ joiner \in {"suspended", "resumed", "done"}

IInv ==
    /\ OnlyMisuseBreaks /\ ResumedByItsTimer /\ JoinedMeansEnded
    /\ SetupInv /\ TaskInv /\ ThreadInv /\ CloseInv
    /\ HandleInv /\ RegisteredInv /\ AwaitedInv /\ JoinInv

-----------------------------------------------------------------------------
\* The types, and what else every step needs.
Base ==
    /\ platform \in {"timerfd", "kqueue", "pool"}
    /\ tasks \subseteq Coros /\ NULL \notin Coros
    /\ owner \in [Timers -> tasks] /\ ident \in [Timers -> Timers]
    /\ main \in {"starting", "reactor", "closing", "leaving", "left", "terminated"}
    /\ task \in [Coros -> Task]
    /\ awaiting_coro \in [Timers -> Coros \cup {NULL}]
    /\ moved \subseteq Timers /\ gone \subseteq moved /\ kernel \in [Timers -> Kevent]
    /\ count \in 0..(NCoros * n_expirations) /\ shutdown_event \in BOOLEAN
    /\ joiner \in {"none", "resuming", "linking", "suspended", "resumed", "done"}
    /\ joined \in tasks \cup {NULL}
    /\ early \subseteq tasks
    /\ excuse \subseteq {"arm", "ctor", "error", "drop", "join", "collision"}

\* The types in the invariant are those.
LEMMA BaseHolds == IInv => Base
<1>1. NULL \notin Coros
  BY TimerReactorAssumption DEF NULL, Coros
<1> QED BY <1>1 DEF IInv, OnlyMisuseBreaks, TypeOK, Base

\* A step that meets no undefined behaviour.
Goal ==
    /\ Base' /\ undefined' = "none"
    /\ ResumedByItsTimer' /\ JoinedMeansEnded'
    /\ SetupInv' /\ TaskInv' /\ ThreadInv' /\ CloseInv'
    /\ HandleInv' /\ RegisteredInv' /\ AwaitedInv' /\ JoinInv'

\* That is all there is to show: undefined behaviour is not met.
LEMMA GoalSuffices == Goal => IInv'
BY DEF Goal, IInv, OnlyMisuseBreaks, TypeOK, Base

Defined == IInv /\ undefined = "none"

\* A step that changes no task: the kernel's, main's or the joiner's.
LEMMA TimerSteps ==
    ASSUME Defined, NEW k \in Timers,
           Expire(k) \/ MoveTimerfd(k) \/ MovePoolTimer(k) \/ EndScope(k)
    PROVE  Goal
<1>0. Base /\ IInv /\ undefined = "none"
  BY BaseHolds DEF Defined
<1>1. /\ UNCHANGED <<platform, tasks, owner, ident, main, task, awaiting_coro, count,
                     shutdown_event, joiner, joined, early, excuse, undefined>>
      /\ moved \subseteq moved' /\ moved' \subseteq Timers /\ gone' \subseteq moved'
      /\ kernel' \in [Timers -> Kevent]
      /\ \A j \in Timers : /\ kernel'[j].udata = kernel[j].udata
                           /\ kernel'[j].st = "none" <=> kernel[j].st = "none"
                           /\ Due(j)' <=> Due(j)
  <2>1. CASE Expire(k)
    BY <1>0, <2>1 DEF Expire, setup, loop, join, ghosts, Base, Kevent, Due
  <2>2. CASE MoveTimerfd(k) \/ MovePoolTimer(k) \/ EndScope(k)
    BY <1>0, <2>2 DEF MoveTimerfd, MovePoolTimer, MoveTimer, EndScope, setup, loop, join,
       ghosts, Base, Due
  <2> QED BY <2>1, <2>2
<1>2. Base' /\ undefined' = "none"
  BY <1>0, <1>1 DEF Base
<1>3. ResumedByItsTimer' /\ JoinedMeansEnded' /\ TaskInv' /\ CloseInv'
  BY <1>0, <1>1 DEF IInv, ResumedByItsTimer, TimersOf, JoinedMeansEnded, TaskInv, CloseInv
<1>4. SetupInv' /\ JoinInv'
  BY <1>0, <1>1 DEF IInv, SetupInv, JoinInv
<1>5. ThreadInv'
  BY <1>0, <1>1 DEF IInv, ThreadInv, Running
<1>6. HandleInv'
  BY <1>0, <1>1 DEF IInv, HandleInv
<1>7. RegisteredInv' /\ AwaitedInv'
  BY <1>0, <1>1 DEF IInv, RegisteredInv, AwaitedInv, Alive
<1> QED BY <1>2, <1>3, <1>4, <1>5, <1>6, <1>7 DEF Goal

\* main goes on: it leaves nothing running on the thread it takes on, or lets go of.
LEMMA MainSteps ==
    ASSUME Defined,
           RunReactor \/ ReactorReturns \/ ReactorError \/ BeginClose \/ EndClose
    PROVE  Goal
<1>0. Base /\ IInv /\ undefined = "none"
  BY BaseHolds DEF Defined
<1>1. /\ UNCHANGED <<platform, tasks, owner, ident, task, awaiting_coro, moved, gone, count,
                     shutdown_event, joiner, joined, early, undefined>>
      /\ kernel' \in [Timers -> Kevent]
      /\ \A j \in Timers : /\ kernel'[j].udata = kernel[j].udata
                           /\ kernel'[j].st = "none" <=> kernel[j].st = "none"
                           /\ Due(j)' => Due(j)
      /\ excuse' = excuse \/ excuse' = excuse \cup {"error"}
  <2>1. CASE BeginClose
    BY <1>0, <2>1 DEF BeginClose, MainGoes, setup, loop, join, Base, Kevent, Due
  <2>2. CASE RunReactor \/ ReactorReturns \/ ReactorError \/ EndClose
    BY <1>0, <2>2 DEF RunReactor, ReactorReturns, ReactorError, EndClose, MainGoes, setup,
       loop, join, Base, Due
  <2> QED BY <2>1, <2>2
<1>2. Base' /\ undefined' = "none"
  <2>1. main' \in {"reactor", "leaving", "terminated", "closing"}
    BY DEF RunReactor, ReactorReturns, ReactorError, BeginClose, EndClose, MainGoes
  <2> QED BY <1>0, <1>1, <2>1 DEF Base
<1>3. ResumedByItsTimer' /\ JoinedMeansEnded' /\ TaskInv'
  BY <1>0, <1>1 DEF IInv, ResumedByItsTimer, TimersOf, JoinedMeansEnded, TaskInv
<1>4. CloseInv'
  BY <1>0, <1>1 DEF IInv, CloseInv, RunReactor, ReactorReturns, ReactorError, BeginClose,
     EndClose, MainGoes
<1>5. SetupInv' /\ JoinInv'
  BY <1>0, <1>1 DEF IInv, SetupInv, JoinInv
<1>6. ThreadInv'
  <2>1. \A c \in tasks : task[c].thread \in {"main", "pool"}
    BY <1>0 DEF Base, Task
  <2>2. \A c \in tasks : Running(c)' <=> Running(c)
    BY <1>1 DEF Running
  <2>3. CASE RunReactor
    BY <1>0, <1>1, <2>1, <2>2, <2>3 DEF IInv, ThreadInv, RunReactor, AtWill, Free, MainGoes
  <2>4. CASE ReactorReturns \/ ReactorError
    BY <1>0, <1>1, <2>1, <2>2, <2>4
       DEF IInv, ThreadInv, ReactorReturns, ReactorError, Free, MainGoes
  <2>5. CASE BeginClose \/ EndClose
    BY <1>0, <1>1, <2>1, <2>2, <2>5 DEF IInv, ThreadInv, BeginClose, EndClose, Free, MainGoes
  <2> QED BY <2>3, <2>4, <2>5
<1>7. HandleInv'
  BY <1>0, <1>1 DEF IInv, HandleInv
<1>8. RegisteredInv' /\ AwaitedInv'
  BY <1>0, <1>1 DEF IInv, RegisteredInv, AwaitedInv, Alive
<1> QED BY <1>2, <1>3, <1>4, <1>5, <1>6, <1>7, <1>8 DEF Goal

\* The joiner finds a task that has ended, or takes its result.
LEMMA JoinerSteps ==
    ASSUME Defined, NEW c \in tasks, JoinReady(c) \/ JoinResult
    PROVE  Goal
<1>0. Base /\ IInv /\ undefined = "none"
  BY BaseHolds DEF Defined
<1>1. /\ UNCHANGED <<platform, tasks, owner, ident, main, task, awaiting_coro, moved, gone,
                     kernel, count, shutdown_event, early, excuse, undefined>>
      /\ \/ /\ joiner = "none" /\ task[c].body = "final"
            /\ joiner' = "resumed" /\ joined' = c
         \/ joiner = "resumed" /\ joiner' = "done" /\ joined' = joined
  BY DEF JoinReady, JoinResult, JoinFrame, setup, timerVars, loop
<1>2. Base' /\ undefined' = "none"
  BY <1>0, <1>1 DEF Base
<1>3. ResumedByItsTimer' /\ TaskInv' /\ CloseInv' /\ SetupInv'
  BY <1>0, <1>1 DEF IInv, ResumedByItsTimer, TimersOf, TaskInv, CloseInv, SetupInv
<1>4. JoinedMeansEnded' /\ JoinInv'
  BY <1>0, <1>1 DEF IInv, TaskInv, JoinedMeansEnded, JoinInv
<1>5. ThreadInv'
  BY <1>0, <1>1 DEF IInv, ThreadInv, Running
<1>6. HandleInv' /\ RegisteredInv' /\ AwaitedInv'
  BY <1>0, <1>1 DEF IInv, HandleInv, RegisteredInv, AwaitedInv, Alive, Due
<1> QED BY <1>2, <1>3, <1>4, <1>5, <1>6 DEF Goal

\* Undefined behaviour ends the run, and changes nothing that the program has.
LEMMA UndefinedStep ==
    ASSUME Defined, NEW what, Undefined(what),
           excuse' = excuse \/ \E e \in {"join", "drop"} : excuse' = excuse \cup {e},
           what \in {"null handle", "not suspended", "dangling context",
                     "closed timer", "released twice", "destroyed running"},
           \/ moved # {}
           \/ excuse' \cap {"join", "drop"} # {}
           \/ platform = "pool" /\ Cardinality(tasks) > 1
           \/ what = "released twice" /\ main = "closing",
           platform = "timerfd" /\ gone = {} => what = "null handle"
    PROVE  IInv'
<1>0. Base /\ IInv
  BY BaseHolds DEF Defined
<1>1. /\ UNCHANGED <<platform, tasks, owner, ident, main, task, awaiting_coro, moved, gone,
                     kernel, count, shutdown_event, joiner, joined, early>>
      /\ undefined' = what /\ excuse \subseteq excuse'
      /\ excuse' \subseteq {"arm", "ctor", "error", "drop", "join", "collision"}
  BY <1>0 DEF Undefined, setup, timerVars, loop, join, Base
<1>2. OnlyMisuseBreaks'
  <2>1. TypeOK'
    BY <1>0, <1>1, ZenonT(60) DEF Base, TypeOK
  <2>2. \/ moved' # {}
        \/ excuse' \cap {"join", "drop"} # {}
        \/ platform' = "pool" /\ Cardinality(tasks') > 1
        \/ undefined' = "released twice" /\ main' = "closing"
    BY <1>1
  <2>3. platform' = "timerfd" /\ gone' = {} => undefined' = "null handle"
    BY <1>1
  <2> QED BY <2>1, <2>2, <2>3 DEF OnlyMisuseBreaks
<1>3. ResumedByItsTimer'
  <2>1. \A c \in early : TimersOf(c)' = TimersOf(c)
    BY <1>1 DEF TimersOf
  <2> QED BY <1>0, <1>1, <2>1 DEF IInv, ResumedByItsTimer
<1>4. JoinedMeansEnded' /\ JoinInv'
  BY <1>0, <1>1 DEF IInv, JoinedMeansEnded, JoinInv
<1>5. ThreadInv'
  BY <1>0, <1>1 DEF IInv, ThreadInv, Running
<1>6. HandleInv' /\ RegisteredInv' /\ AwaitedInv'
  BY <1>0, <1>1 DEF IInv, HandleInv, RegisteredInv, AwaitedInv, Alive, Due
<1>7. TaskInv' /\ SetupInv'
  BY <1>0, <1>1 DEF IInv, TaskInv, SetupInv
<1>8. CloseInv'
  BY <1>0, <1>1 DEF IInv, CloseInv
<1> QED BY <1>2, <1>3, <1>4, <1>5, <1>6, <1>7, <1>8 DEF IInv

\* wait_close is called when a task has called shutdown(): one that goes on then
\* is another one.
LEMMA TwoTasks ==
    ASSUME IInv, NEW c \in tasks, platform = "pool", main \in {"closing", "leaving"},
           task[c].body \in {"running", "suspended"}
    PROVE  Cardinality(tasks) > 1
<1>1. PICK d \in tasks : task[d].body \in {"ending", "final", "destroyed"}
  BY DEF IInv, CloseInv
<1>2. d # c
  BY <1>1
<1>3. PICK n \in Coros : tasks = 1..n
  BY DEF IInv, SetupInv
<1>4. n \in Nat /\ Cardinality(tasks) = n
  BY <1>3, FS_Interval, TimerReactorAssumption DEF Coros
<1>5. n # 1
  BY <1>2, <1>3, <1>4
<1> QED BY <1>3, <1>4, <1>5

\* With one task, which has called shutdown(), none is left to arm a timer that
\* wait_close has released, or to be destroyed while it awaits one; the one that
\* ends may release its timer twice.
LEMMA ClosedSteps ==
    ASSUME Defined, NEW c \in tasks, ArmClosed(c) \/ ReleaseTwice(c)
    PROVE  IInv'
<1>0. Base /\ IInv
  BY BaseHolds DEF Defined
<1>1. CASE ArmClosed(c)
  <2>1. /\ platform = "pool" /\ main = "closing" /\ task[c].body = "running"
        /\ Undefined("closed timer") /\ excuse' = excuse
    BY <1>1 DEF ArmClosed
  <2>2. Cardinality(tasks) > 1
    BY <1>0, <2>1, TwoTasks
  <2> QED BY <2>1, <2>2, UndefinedStep
<1>2. CASE ReleaseTwice(c)
  <2>1. /\ platform = "pool" /\ Undefined("released twice") /\ excuse' = excuse
        /\ main = "closing" \/ (main = "leaving" /\ task[c].body = "suspended")
    BY <1>2 DEF ReleaseTwice
  <2>2. main = "closing" \/ Cardinality(tasks) > 1
    BY <1>0, <2>1, TwoTasks
  <2> QED BY <2>1, <2>2, UndefinedStep
<1> QED BY <1>1, <1>2

\* An event for a context that is gone, or for a coroutine that is not suspended,
\* is the doing of a move, of a resumption by others or of a drop; on timerfd a
\* frame takes its descriptors out of the reactor, which leaves the move, and if
\* the timer moved from is still there, the null handle in it.
LEMMA BadEventStep ==
    ASSUME Defined, NEW k \in Timers, BadEvent(k)
    PROVE  IInv'
<1>0. Base /\ IInv
  BY BaseHolds DEF Defined
<1> DEFINE u == kernel[k].udata
           c == owner[u]
<1>1. /\ kernel[k].st = "fired" /\ WrongContext(u) # "none"
      /\ Undefined(WrongContext(u)) /\ excuse' = excuse
      /\ platform # "pool" => Free("main")
  BY DEF BadEvent, Pending
<1>2. u \in Timers /\ c \in tasks /\ c # NULL /\ awaiting_coro[u] \in {NULL, c}
  BY <1>0 DEF Base, Kevent, IInv, HandleInv
<1>3. WrongContext(u) \in {"none", "null handle", "not suspended", "dangling context"}
  BY DEF WrongContext
<1>4. u \notin moved => awaiting_coro[u] = c
  BY <1>0, <1>1 DEF IInv, HandleInv, Due
<1>5. CASE platform = "timerfd"
  <2>1. u = k
    BY <1>0, <1>5 DEF IInv, SetupInv
  <2>2. Alive(c)
    BY <1>0, <1>1, <1>5, <2>1 DEF IInv, RegisteredInv
  <2>3. ~Running(c)
    BY <1>0, <1>1, <1>2, <1>5 DEF IInv, ThreadInv, Free
  <2>4. task[c].body = "suspended"
    BY <2>2, <2>3 DEF Alive, Running
  <2>5. u \in gone \/ (WrongContext(u) = "null handle" /\ awaiting_coro[u] = NULL)
    BY <1>1, <1>2, <2>2, <2>4 DEF WrongContext
  <2>6. u \in moved
    BY <1>0, <1>2, <1>4, <2>5 DEF Base
  <2>7. gone = {} => WrongContext(u) = "null handle"
    BY <2>5
  <2> HIDE DEF u
  <2> QED BY <1>1, <1>3, <2>6, <2>7, UndefinedStep
<1>6. CASE platform # "timerfd"
  <2>1. moved # {} \/ excuse \cap {"join", "drop"} # {}
    <3> SUFFICES ASSUME moved = {}, "join" \notin excuse, "drop" \notin excuse
                 PROVE  FALSE
      OBVIOUS
    <3>1. task[c].body = "suspended"
      BY <1>0, <1>1, <1>6 DEF IInv, AwaitedInv, Due
    <3>2. WrongContext(u) = "none"
      BY <1>0, <1>2, <1>4, <3>1 DEF WrongContext, Alive, Base
    <3> QED BY <1>1, <3>2
  <2> HIDE DEF u
  <2> QED BY <1>1, <1>3, <1>6, <2>1, UndefinedStep
<1> QED BY <1>5, <1>6

\* main awaits or drops a task that a callback is running: not without a pool.
LEMMA MisuseSteps ==
    ASSUME Defined, NEW c \in tasks, JoinRunning(c) \/ DropRunning(c)
    PROVE  IInv'
<1>0. Base /\ IInv
  BY BaseHolds DEF Defined
<1>1. AtWill /\ Running(c)
  BY DEF JoinRunning, DropRunning
<1>2. platform # "timerfd"
  BY <1>0, <1>1 DEF IInv, ThreadInv, AtWill, Free
<1>3. CASE JoinRunning(c)
  BY <1>2, <1>3, UndefinedStep DEF JoinRunning
<1>4. CASE DropRunning(c)
  BY <1>2, <1>4, UndefinedStep DEF DropRunning
<1> QED BY <1>3, <1>4

\* main returns when nothing runs.
LEMMA LeaveStep ==
    ASSUME Defined, Leave
    PROVE  Goal
<1>0. Base /\ IInv /\ undefined = "none"
  BY BaseHolds DEF Defined
<1>1. \A c \in tasks : ~Running(c)
  BY <1>0 DEF IInv, ThreadInv, Leave
<1>2. /\ main' = "left" /\ main = "leaving"
      /\ task' = [c \in Coros |-> IF c \in tasks
                            THEN [task[c] EXCEPT !.body = "destroyed"] ELSE task[c]]
      /\ kernel' = [k \in Timers |-> [kernel[k] EXCEPT !.st = "none"]]
      /\ UNCHANGED <<platform, tasks, owner, ident, awaiting_coro, moved, gone, count,
                     shutdown_event, joiner, joined, early, excuse, undefined>>
  BY <1>1 DEF Leave, setup, loop, join, ghosts
<1>3. /\ kernel' \in [Timers -> Kevent]
      /\ \A k \in Timers : kernel'[k].st = "none" /\ kernel'[k].udata = kernel[k].udata
  <2>1. \A k \in Timers : /\ kernel[k] \in Kevent
                          /\ kernel'[k] = [kernel[k] EXCEPT !.st = "none"]
    BY <1>0, <1>2 DEF Base
  <2>2. \A k \in Timers : /\ kernel'[k] \in Kevent /\ kernel'[k].st = "none"
                          /\ kernel'[k].udata = kernel[k].udata
    BY <2>1, ZenonT(60) DEF Kevent
  <2>3. kernel' = [k \in Timers |-> kernel'[k]]
    BY <1>2
  <2> QED BY <2>2, <2>3
<1>4. task' \in [Coros -> Task]
  <2>0. \A c \in Coros : /\ task[c] \in Task
                         /\ \/ task'[c] = task[c]
                            \/ task'[c] = [task[c] EXCEPT !.body = "destroyed"]
    BY <1>0, <1>2 DEF Base
  <2>1. \A c \in Coros : task'[c] \in Task
    BY <2>0, ZenonT(60) DEF Task
  <2>2. task' = [c \in Coros |-> task'[c]]
    BY <1>2
  <2> QED BY <2>1, <2>2
<1>5. \A c \in tasks : /\ task'[c].body = "destroyed" /\ task'[c].thread = task[c].thread
                       /\ task'[c].result_type = task[c].result_type
                       /\ task'[c].state = task[c].state
  BY <1>0, <1>2 DEF Base, Task
<1>6. Base' /\ undefined' = "none"
  BY <1>0, <1>2, <1>3, <1>4 DEF Base
<1>7. ResumedByItsTimer' /\ TaskInv' /\ SetupInv'
  BY <1>0, <1>2, <1>3, <1>5 DEF IInv, ResumedByItsTimer, TimersOf, TaskInv, SetupInv
<1>8. CloseInv'
  BY <1>0, <1>2, <1>5 DEF IInv, CloseInv
<1>9. JoinedMeansEnded' /\ JoinInv'
  BY <1>0, <1>2, <1>5 DEF IInv, JoinedMeansEnded, JoinInv
<1>10. ThreadInv'
  BY <1>0, <1>2, <1>5 DEF IInv, ThreadInv, Running
<1>11. HandleInv' /\ RegisteredInv' /\ AwaitedInv'
  BY <1>0, <1>2, <1>3 DEF IInv, HandleInv, RegisteredInv, AwaitedInv, Due
<1> QED BY <1>6, <1>7, <1>8, <1>9, <1>10, <1>11 DEF Goal

-----------------------------------------------------------------------------
\* A step changes no task but c.
Only(c) ==
    /\ task' \in [Coros -> Task]
    /\ \A d \in Coros : d # c => task'[d] = task[d]

\* No event becomes due, and none changes hands.
NoneDue ==
    /\ kernel' \in [Timers -> Kevent]
    /\ \A k \in Timers : /\ Due(k)' => Due(k)
                         /\ kernel'[k].udata = kernel[k].udata

\* Where no event becomes due, each is still awaited, unless its owner was dropped.
LEMMA StillAwaited ==
    ASSUME Base, AwaitedInv, NEW c \in tasks, Only(c), NoneDue,
           UNCHANGED <<platform, tasks, owner, ident>>, excuse \subseteq excuse',
           \/ task[c].body \notin {"suspended", "destroyed"}
           \/ task'[c].body = "destroyed" /\ "drop" \in excuse'
    PROVE  AwaitedInv'
<1> SUFFICES ASSUME platform # "timerfd", "join" \notin excuse', NEW k \in Timers, Due(k)',
                    NEW u, u = kernel'[k].udata
             PROVE  /\ ident[u] = k
                    /\ \/ task'[owner[u]].body = "suspended" /\ task'[owner[u]].awaits = u
                       \/ task'[owner[u]].body = "destroyed" /\ "drop" \in excuse'
  BY DEF AwaitedInv
<1>1. Due(k) /\ u = kernel[k].udata /\ "join" \notin excuse
  BY DEF NoneDue
<1>2. u \in Timers /\ owner[u] \in Coros
  BY <1>1 DEF Base, Kevent
<1>3. /\ ident[u] = k
      /\ \/ task[owner[u]].body = "suspended" /\ task[owner[u]].awaits = u
         \/ task[owner[u]].body = "destroyed" /\ "drop" \in excuse
  BY <1>1 DEF AwaitedInv
<1> QED BY <1>2, <1>3 DEF Only

\* The coroutine that is resumed goes on where it awaited, on the resumer's thread.
LEMMA ResumedTask ==
    ASSUME task \in [Coros -> Task], NEW c \in Coros, NEW th \in {"main", "pool"},
           task[c].reps < n_expirations, Resumed(c, th)
    PROVE  /\ Only(c)
           /\ task'[c].body = "running" /\ task'[c].thread = th
           /\ task'[c].state = task[c].state
           /\ task'[c].result_type = task[c].result_type
<1>1. /\ task[c] \in Task
      /\ task'[c] = [task[c] EXCEPT !.body = "running", !.thread = th,
                                    !.reps = task[c].reps + 1, !.awaits = NULL]
      /\ \A d \in Coros : d # c => task'[d] = task[d]
      /\ task' = [d \in Coros |-> task'[d]]
  BY DEF Resumed
<1>2. task[c].reps + 1 \in 0..n_expirations
  BY <1>1, TimerReactorAssumption DEF Task
<1>3. task'[c] \in Task
  BY <1>1, <1>2 DEF Task
<1>4. \A d \in Coros : task'[d] \in Task
  BY <1>1, <1>3
<1>5. task' \in [Coros -> Task]
  BY <1>1, <1>4
<1> QED BY <1>1, <1>5 DEF Only, Task

\* The timers of a frame that is destroyed are closed with it, where they have a
\* destructor; on the pool those whose callback is due are not.
LEMMA LocalsDestroyed ==
    ASSUME Base, SetupInv, NEW c \in tasks, DestroyLocals(c)
    PROVE  /\ NoneDue
           /\ \A k \in Timers : kernel'[k].st # "none" => kernel[k].st # "none"
           /\ platform = "timerfd" =>
                 \A k \in Timers : owner[k] = c => kernel'[k].st = "none"
<1>0. \A k \in Timers : kernel[k] \in Kevent
  BY DEF Base
<1>1. CASE platform = "kqueue" /\ UNCHANGED kernel
  BY <1>1 DEF NoneDue, Base, Due
<1>2. CASE platform # "kqueue" /\ (close(c) \/ CloseThreadpoolTimer(c))
  <2>1. \A k \in Timers :
           /\ kernel[k].udata = k
           /\ \/ kernel'[k] = kernel[k]
              \/ kernel'[k] = [st |-> "none", udata |-> k]
    BY <1>2 DEF close, CloseThreadpoolTimer, WithTimersOf, SetupInv
  <2>2. \A k \in Timers :
           /\ kernel'[k] \in Kevent /\ kernel'[k].udata = k
           /\ kernel'[k].st = kernel[k].st \/ kernel'[k].st = "none"
    <3> TAKE k \in Timers
    <3>1. CASE kernel'[k] = kernel[k]
      BY <1>0, <2>1, <3>1
    <3>2. CASE kernel'[k] = [st |-> "none", udata |-> k]
      BY <3>2 DEF Kevent
    <3> QED BY <2>1, <3>1, <3>2
  <2>3. kernel' = [k \in Timers |-> kernel'[k]]
    BY <1>2 DEF close, CloseThreadpoolTimer, WithTimersOf
  <2>4. kernel' \in [Timers -> Kevent]
    BY <2>2, <2>3
  <2>5. platform = "timerfd" => \A k \in Timers : owner[k] = c => kernel'[k].st = "none"
    BY <1>2 DEF DestroyLocals, close, WithTimersOf
  <2> QED BY <2>1, <2>2, <2>4, <2>5 DEF NoneDue, Due
<1> QED BY <1>1, <1>2 DEF DestroyLocals

\* A task is created: nothing of it was known before.
LEMMA StartSteps ==
    ASSUME Defined, NEW c \in tasks, StartTask(c) \/ StartFails(c)
    PROVE  Goal
<1>0. Base /\ IInv /\ undefined = "none" /\ c \in Coros
  BY BaseHolds DEF Defined, Base
<1>1. /\ UNCHANGED <<platform, tasks, owner, ident, main, awaiting_coro, moved, gone, count,
                     shutdown_event, joiner, joined, early, undefined>>
      /\ main = "starting" /\ task[c].body = "unborn"
      /\ excuse' = excuse \/ excuse' = excuse \cup {"ctor"}
  BY DEF StartTask, StartFails, AtCreation, setup, timerVars, loop, join, ghosts
<1>2. /\ Only(c) /\ task'[c].body \in {"running", "final"}
      /\ task'[c].thread = task[c].thread
      /\ task'[c].body = "running" => /\ task'[c].result_type = task[c].result_type
                                      /\ task'[c].state = task[c].state
      /\ task'[c].body = "final" => task'[c].result_type = "exception"
  <2>1. /\ task[c] \in Task
        /\ \/ task'[c] = [task[c] EXCEPT !.body = "running"]
           \/ task'[c] = [task[c] EXCEPT !.body = "final", !.result_type = "exception",
                                         !.state = TRUE]
        /\ \A d \in Coros : d # c => task'[d] = task[d]
        /\ task' = [d \in Coros |-> task'[d]]
    BY <1>0 DEF Base, StartTask, StartFails
  <2>2. task'[c] \in Task
    BY <2>1 DEF Task, ResultType
  <2>3. task' \in [Coros -> Task]
    <3>1. \A d \in Coros : task'[d] \in Task
      BY <1>0, <2>1, <2>2 DEF Base
    <3> QED BY <2>1, <3>1
  <2> QED BY <2>1, <2>3 DEF Only, Task
<1>3. /\ NoneDue
      /\ \A k \in Timers : kernel'[k].st # kernel[k].st =>
            owner[k] = c /\ task'[c].body = "running"
  <2>0. \A k \in Timers : kernel[k] \in Kevent
    BY <1>0 DEF Base
  <2>1. CASE UNCHANGED kernel
    BY <1>0, <2>1 DEF NoneDue, Base, Due
  <2>2. CASE StartTask(c) /\ platform # "kqueue" /\ kernel' = WithTimersOf(c, "idle")
    <3>1. \A k \in Timers :
             /\ kernel[k].udata = k
             /\ \/ kernel'[k] = kernel[k]
                \/ owner[k] = c /\ kernel'[k] = [st |-> "idle", udata |-> k]
      BY <1>0, <2>2 DEF WithTimersOf, IInv, SetupInv
    <3>2. \A k \in Timers : /\ kernel'[k] \in Kevent /\ kernel'[k].udata = k
                            /\ Due(k)' => Due(k)
      <4> TAKE k \in Timers
      <4>1. CASE kernel'[k] = kernel[k]
        BY <2>0, <3>1, <4>1 DEF Due
      <4>2. CASE kernel'[k] = [st |-> "idle", udata |-> k]
        BY <4>2 DEF Kevent, Due
      <4> QED BY <3>1, <4>1, <4>2
    <3>3. kernel' = [k \in Timers |-> kernel'[k]]
      BY <2>2 DEF WithTimersOf
    <3>4. kernel' \in [Timers -> Kevent]
      BY <3>2, <3>3
    <3>5. task'[c].body = "running"
      BY <1>0, <2>2 DEF StartTask, Base, Task
    <3> QED BY <3>1, <3>2, <3>4, <3>5 DEF NoneDue
  <2> QED BY <2>1, <2>2 DEF StartTask, StartFails, timerVars, Register, CreateThreadpoolTimer
<1>4. Base' /\ undefined' = "none"
  BY <1>0, <1>1, <1>2, <1>3 DEF Base, Only, NoneDue
<1>5. ResumedByItsTimer' /\ SetupInv'
  <2>1. \A d \in early : TimersOf(d)' = TimersOf(d)
    BY <1>1 DEF TimersOf
  <2> QED BY <1>0, <1>1, <1>3, <2>1 DEF IInv, ResumedByItsTimer, SetupInv, NoneDue
<1>6. TaskInv'
  BY <1>0, <1>1, <1>2 DEF IInv, TaskInv, Only, Base
<1>7. ThreadInv'
  BY <1>0, <1>1, <1>2 DEF IInv, ThreadInv, Only, Base
<1>8. CloseInv'
  BY <1>0, <1>1, <1>2 DEF IInv, CloseInv, Only, Base
<1>9. JoinedMeansEnded' /\ JoinInv'
  BY <1>0, <1>1, <1>2 DEF IInv, JoinedMeansEnded, JoinInv, Only, Base
<1>10. HandleInv'
  BY <1>0, <1>1, <1>3 DEF IInv, HandleInv, NoneDue
<1>11. RegisteredInv'
  BY <1>0, <1>1, <1>2, <1>3 DEF IInv, RegisteredInv, Only, Alive, Base
<1>12. AwaitedInv'
  BY <1>0, <1>1, <1>2, <1>3, StillAwaited DEF IInv
<1> QED BY <1>4, <1>5, <1>6, <1>7, <1>8, <1>9, <1>10, <1>11, <1>12 DEF Goal

\* A coroutine awaits a timer of its own: whatever has its key, its own event is
\* due then, for the handle that await_suspend has just stored.
LEMMA CoAwaitStep ==
    ASSUME Defined, NEW c \in tasks, NEW t \in Timers, CoAwait(c, t)
    PROVE  Goal
<1>0. Base /\ IInv /\ undefined = "none" /\ c \in Coros
  BY BaseHolds DEF Defined, Base
<1>1. /\ UNCHANGED <<platform, tasks, owner, ident, main, moved, gone, count,
                     shutdown_event, joined, early, undefined>>
      /\ task[c].body = "running" /\ task[c].reps < n_expirations /\ owner[t] = c
      /\ joiner' = joiner \/ (joiner = "resuming" /\ joiner' = "linking")
      /\ excuse' = excuse \/ excuse' = excuse \cup {"collision"}
  BY DEF CoAwait, Awaits, setup, loop
<1>2. /\ Only(c) /\ task'[c].body = "suspended" /\ task'[c].awaits = t
      /\ task'[c].thread = task[c].thread /\ task'[c].reps = task[c].reps
      /\ task'[c].result_type = task[c].result_type /\ task'[c].state = task[c].state
  <2>1. /\ task[c] \in Task
        /\ task'[c] = [task[c] EXCEPT !.body = "suspended", !.awaits = t]
        /\ \A d \in Coros : d # c => task'[d] = task[d]
        /\ task' = [d \in Coros |-> task'[d]]
    BY <1>0 DEF Base, CoAwait
  <2>2. task'[c] \in Task
    BY <2>1 DEF Task
  <2>3. \A d \in Coros : task'[d] \in Task
    BY <1>0, <2>1, <2>2 DEF Base
  <2>4. task' \in [Coros -> Task]
    BY <2>1, <2>3
  <2> QED BY <2>1, <2>4 DEF Only, Task
<1>3. /\ kernel' \in [Timers -> Kevent] /\ ident[t] \in Timers
      /\ kernel'[ident[t]].st = "armed" /\ kernel'[ident[t]].udata = t
      /\ \A k \in Timers : k # ident[t] => kernel'[k] = kernel[k]
  <2>1. ident[t] \in Timers
    BY <1>0 DEF Base
  <2>2. CASE platform = "kqueue"
    <3>1. [st |-> "armed", udata |-> t] \in Kevent
      BY DEF Kevent
    <3> QED BY <1>0, <2>1, <2>2, <3>1 DEF Base, CoAwait, arm_timer
  <2>3. CASE platform # "kqueue"
    <3>1. /\ ident[t] = t /\ kernel[t].udata = t /\ kernel[t] \in Kevent
          /\ kernel' = [kernel EXCEPT ![t].st = "armed"]
      BY <1>0, <2>3 DEF IInv, SetupInv, Base, CoAwait, rearm, SetThreadpoolTimer
    <3>2. /\ kernel'[t] = [kernel[t] EXCEPT !.st = "armed"]
          /\ \A k \in Timers : k # t => kernel'[k] = kernel[k]
          /\ kernel' = [k \in Timers |-> kernel'[k]]
      BY <1>0, <3>1 DEF Base
    <3>3. kernel'[t] \in Kevent /\ kernel'[t].st = "armed" /\ kernel'[t].udata = t
      BY <3>1, <3>2 DEF Kevent
    <3>4. \A k \in Timers : kernel'[k] \in Kevent
      BY <1>0, <3>2, <3>3 DEF Base
    <3> QED BY <3>1, <3>2, <3>3, <3>4
  <2> QED BY <2>2, <2>3
<1>4. /\ awaiting_coro' \in [Timers -> Coros \cup {NULL}]
      /\ \A s \in Timers : \/ awaiting_coro'[s] = awaiting_coro[s]
                           \/ s = t /\ awaiting_coro'[s] = c
      /\ t \notin moved => awaiting_coro'[t] = c
  BY <1>0 DEF Base, CoAwait, Awaits
<1>5. Base' /\ undefined' = "none"
  BY <1>0, <1>1, <1>2, <1>3, <1>4, ZenonT(60) DEF Base, Only
<1>6. ResumedByItsTimer' /\ SetupInv'
  <2>1. \A d \in early : TimersOf(d)' = TimersOf(d)
    BY <1>1 DEF TimersOf
  <2>2. platform # "kqueue" => \A k \in Timers : kernel'[k].udata = k
    BY <1>0, <1>3 DEF IInv, SetupInv
  <2> QED BY <1>0, <1>1, <2>1, <2>2 DEF IInv, ResumedByItsTimer, SetupInv
<1>7. TaskInv'
  BY <1>0, <1>1, <1>2 DEF IInv, TaskInv, Only, Base
<1>8. ThreadInv'
  BY <1>0, <1>1, <1>2 DEF IInv, ThreadInv, Running, Only, Base
<1>9. CloseInv'
  BY <1>0, <1>1, <1>2 DEF IInv, CloseInv, Only, Base
<1>10. JoinedMeansEnded' /\ JoinInv'
  BY <1>0, <1>1, <1>2 DEF IInv, JoinedMeansEnded, JoinInv, Only, Base
<1>11. HandleInv'
  <2>1. \A s \in Timers : awaiting_coro'[s] \in {NULL, owner[s]}
    BY <1>0, <1>1, <1>4 DEF IInv, HandleInv
  <2>2. ASSUME NEW k \in Timers, Due(k)', kernel'[k].udata \notin moved
        PROVE  awaiting_coro'[kernel'[k].udata] = owner[kernel'[k].udata]
    <3>1. CASE k = ident[t]
      BY <1>1, <1>3, <1>4, <2>2, <3>1
    <3>2. CASE k # ident[t]
      <4>1. Due(k) /\ kernel'[k].udata = kernel[k].udata /\ kernel[k].udata \in Timers
        BY <1>0, <1>3, <2>2, <3>2 DEF Due, Base, Kevent
      <4>2. awaiting_coro[kernel[k].udata] = owner[kernel[k].udata]
        BY <1>0, <2>2, <4>1 DEF IInv, HandleInv
      <4> QED BY <1>1, <1>4, <4>1, <4>2
    <3> QED BY <3>1, <3>2
  <2> QED BY <1>1, <2>1, <2>2 DEF HandleInv
<1>12. RegisteredInv'
  <2> SUFFICES ASSUME platform = "timerfd", NEW k \in Timers, kernel'[k].st # "none"
               PROVE  task'[owner[k]].body \in {"running", "suspended", "ending"}
    BY <1>1 DEF RegisteredInv, Alive
  <2>1. ident[t] = t
    BY <1>0 DEF IInv, SetupInv
  <2>2. CASE k = t
    BY <1>1, <1>2, <2>2
  <2>3. CASE k # t
    <3>1. kernel[k].st # "none" /\ owner[k] \in Coros
      BY <1>0, <1>3, <2>1, <2>3 DEF Base
    <3>2. task[owner[k]].body \in {"running", "suspended", "ending"}
      BY <1>0, <3>1 DEF IInv, RegisteredInv, Alive
    <3> QED BY <1>2, <3>1, <3>2 DEF Only
  <2> QED BY <2>2, <2>3
<1>13. AwaitedInv'
  <2> SUFFICES ASSUME platform # "timerfd", "join" \notin excuse, NEW k \in Timers, Due(k)',
                      NEW u, u = kernel'[k].udata
               PROVE  /\ ident[u] = k
                      /\ \/ task'[owner[u]].body = "suspended" /\ task'[owner[u]].awaits = u
                         \/ task'[owner[u]].body = "destroyed" /\ "drop" \in excuse'
    BY <1>1 DEF AwaitedInv
  <2>1. CASE k = ident[t]
    BY <1>1, <1>2, <1>3, <2>1
  <2>2. CASE k # ident[t]
    <3>1. Due(k) /\ u = kernel[k].udata /\ u \in Timers /\ owner[u] \in Coros
      BY <1>0, <1>3, <2>2 DEF Due, Base, Kevent
    <3>2. /\ ident[u] = k
          /\ \/ task[owner[u]].body = "suspended" /\ task[owner[u]].awaits = u
             \/ task[owner[u]].body = "destroyed" /\ "drop" \in excuse
      BY <1>0, <3>1 DEF IInv, AwaitedInv
    <3> QED BY <1>1, <1>2, <3>1, <3>2 DEF Only
  <2> QED BY <2>1, <2>2
<1> QED BY <1>5, <1>6, <1>7, <1>8, <1>9, <1>10, <1>11, <1>12, <1>13 DEF Goal

\* The timer cannot be armed, or the task is past its last await: it goes on.
LEMMA RunsOnSteps ==
    ASSUME Defined, NEW c \in tasks, Shutdown(c) \/ \E t \in Timers : ArmFails(c, t)
    PROVE  Goal
<1>0. Base /\ IInv /\ undefined = "none" /\ c \in Coros
  BY BaseHolds DEF Defined, Base
<1>1. /\ UNCHANGED <<platform, tasks, owner, ident, main, moved, gone, kernel, count,
                     joiner, joined, early, undefined>>
      /\ task[c].body = "running"
      /\ excuse' = excuse \/ excuse' = excuse \cup {"arm"}
  BY DEF Shutdown, ArmFails, Awaits, setup, timerVars, loop, join, ghosts
<1>2. /\ Only(c) /\ task'[c].body \in {"running", "ending"}
      /\ task'[c].thread = task[c].thread
      /\ task'[c].result_type = task[c].result_type /\ task'[c].state = task[c].state
  <2>1. /\ task[c] \in Task
        /\ \/ task'[c] = [task[c] EXCEPT !.body = "ending"]
           \/ /\ task[c].reps < n_expirations
              /\ task'[c] = [task[c] EXCEPT !.reps = task[c].reps + 1]
        /\ \A d \in Coros : d # c => task'[d] = task[d]
        /\ task' = [d \in Coros |-> task'[d]]
    BY <1>0 DEF Base, Shutdown, ArmFails, Awaits
  <2>2. task[c].reps < n_expirations => task[c].reps + 1 \in 0..n_expirations
    BY <2>1, TimerReactorAssumption DEF Task
  <2>3. task'[c] \in Task
    BY <2>1, <2>2 DEF Task
  <2>4. \A d \in Coros : task'[d] \in Task
    BY <1>0, <2>1, <2>3 DEF Base
  <2>5. task' \in [Coros -> Task]
    BY <2>1, <2>4
  <2> QED BY <1>1, <2>1, <2>5 DEF Only, Task
<1>3. \/ shutdown_event' = shutdown_event
      \/ shutdown_event' = TRUE /\ task'[c].body = "ending"
  BY <1>0 DEF Shutdown, ArmFails, Awaits, loop, Base, Task
<1>4. /\ awaiting_coro' \in [Timers -> Coros \cup {NULL}]
      /\ \A s \in Timers : \/ awaiting_coro'[s] = awaiting_coro[s]
                           \/ awaiting_coro'[s] = owner[s]
  BY <1>0 DEF Base, Shutdown, ArmFails, Awaits, timerVars
<1>5. Base' /\ undefined' = "none"
  <2>1. shutdown_event' \in BOOLEAN
    BY <1>0, <1>3 DEF Base
  <2> QED BY <1>0, <1>1, <1>2, <1>4, <2>1 DEF Base, Only
<1>6. ResumedByItsTimer' /\ SetupInv'
  <2>1. \A d \in early : TimersOf(d)' = TimersOf(d)
    BY <1>1 DEF TimersOf
  <2> QED BY <1>0, <1>1, <2>1 DEF IInv, ResumedByItsTimer, SetupInv
<1>7. TaskInv'
  BY <1>0, <1>1, <1>2 DEF IInv, TaskInv, Only, Base
<1>8. ThreadInv'
  BY <1>0, <1>1, <1>2 DEF IInv, ThreadInv, Running, Only, Base
<1>9. CloseInv'
  BY <1>0, <1>1, <1>2, <1>3 DEF IInv, CloseInv, Only, Base
<1>10. JoinedMeansEnded' /\ JoinInv'
  BY <1>0, <1>1, <1>2 DEF IInv, JoinedMeansEnded, JoinInv, Only, Base
<1>11. HandleInv'
  BY <1>0, <1>1, <1>4 DEF IInv, HandleInv, Due, Base, Kevent
<1>12. RegisteredInv'
  BY <1>0, <1>1, <1>2 DEF IInv, RegisteredInv, Only, Alive, Base
<1>13. AwaitedInv'
  BY <1>0, <1>1, <1>2 DEF IInv, AwaitedInv, Due, Only, Base, Kevent
<1> QED BY <1>5, <1>6, <1>7, <1>8, <1>9, <1>10, <1>11, <1>12, <1>13 DEF Goal

\* The body ends: it leaves a result, and takes its timers with it where they have
\* a destructor; the joiner that is resumed is one that awaits this task.
LEMMA EndBodyStep ==
    ASSUME Defined, NEW c \in tasks, EndBody(c)
    PROVE  Goal
<1>0. Base /\ IInv /\ undefined = "none" /\ c \in Coros
  BY BaseHolds DEF Defined, Base
<1>1. /\ UNCHANGED <<platform, tasks, owner, ident, main, awaiting_coro, moved, gone, count,
                     shutdown_event, joined, early, excuse, undefined>>
      /\ task[c].body \in {"running", "ending"} /\ DestroyLocals(c) /\ FinalSuspend(c)
  BY DEF EndBody, setup, loop, ghosts
<1>2. /\ Only(c) /\ task'[c].body = "final" /\ task'[c].result_type = "value"
      /\ task'[c].thread = task[c].thread
  <2>1. /\ task[c] \in Task
        /\ task'[c] = [task[c] EXCEPT !.body = "final", !.result_type = "value",
                                      !.state = TRUE]
        /\ \A d \in Coros : d # c => task'[d] = task[d]
        /\ task' = [d \in Coros |-> task'[d]]
    BY <1>0 DEF Base, EndBody
  <2>2. task'[c] \in Task
    BY <2>1 DEF Task, ResultType
  <2>3. \A d \in Coros : task'[d] \in Task
    BY <1>0, <2>1, <2>2 DEF Base
  <2>4. task' \in [Coros -> Task]
    BY <2>1, <2>3
  <2> QED BY <2>1, <2>4 DEF Only, Task
<1>3. /\ NoneDue
      /\ \A k \in Timers : kernel'[k].st # "none" => kernel[k].st # "none"
      /\ platform = "timerfd" => \A k \in Timers : owner[k] = c => kernel'[k].st = "none"
  BY <1>0, <1>1, LocalsDestroyed DEF IInv
<1>4. /\ joiner' \in {"none", "resuming", "linking", "suspended", "resumed", "done"}
      /\ \/ joiner' = joiner
         \/ joined = c /\ joiner' \in {"linking", "resumed"}
  <2>1. task[c].state => c = joined
    BY <1>0, <1>1 DEF IInv, TaskInv, JoinInv
  <2>2. joiner \in {"none", "resuming", "linking", "suspended", "resumed", "done"}
    BY <1>0 DEF Base
  <2> QED BY <1>1, <2>1, <2>2 DEF FinalSuspend
<1>5. Base' /\ undefined' = "none"
  BY <1>0, <1>1, <1>2, <1>3, <1>4 DEF Base, Only, NoneDue
<1>6. ResumedByItsTimer' /\ SetupInv'
  <2>1. \A d \in early : TimersOf(d)' = TimersOf(d)
    BY <1>1 DEF TimersOf
  <2> QED BY <1>0, <1>1, <1>3, <2>1 DEF IInv, ResumedByItsTimer, SetupInv, NoneDue
<1>7. TaskInv'
  BY <1>0, <1>1, <1>2 DEF IInv, TaskInv, Only, Base
<1>8. ThreadInv'
  BY <1>0, <1>1, <1>2 DEF IInv, ThreadInv, Running, Only, Base
<1>9. CloseInv'
  BY <1>0, <1>1, <1>2 DEF IInv, CloseInv, Only, Base
<1>10. JoinedMeansEnded'
  BY <1>0, <1>1, <1>2, <1>4 DEF IInv, JoinedMeansEnded, JoinInv, Only, Base
<1>11. JoinInv'
  BY <1>0, <1>1, <1>2, <1>4 DEF IInv, JoinInv, Only, Base
<1>12. HandleInv'
  BY <1>0, <1>1, <1>3 DEF IInv, HandleInv, NoneDue
<1>13. RegisteredInv'
  BY <1>0, <1>1, <1>2, <1>3 DEF IInv, RegisteredInv, Only, Alive, Base
<1>14. AwaitedInv'
  BY <1>0, <1>1, <1>2, <1>3, StillAwaited DEF IInv
<1> QED BY <1>5, <1>6, <1>7, <1>8, <1>9, <1>10, <1>11, <1>12, <1>13, <1>14 DEF Goal

\* main resumes a task, or awaits one that is suspended.
LEMMA ResumeSteps ==
    ASSUME Defined, NEW c \in tasks, JoinResume(c) \/ ResumeTask(c)
    PROVE  Goal
<1>0. Base /\ IInv /\ undefined = "none" /\ c \in Coros
  BY BaseHolds DEF Defined, Base
<1>1. /\ UNCHANGED <<platform, tasks, owner, ident, main, awaiting_coro, moved, gone, kernel,
                     count, shutdown_event, early, undefined>>
      /\ main = "starting" /\ task[c].body = "suspended" /\ Resumed(c, "main")
      /\ excuse' = excuse \cup {"join"}
      /\ \/ joiner = "none" /\ joiner' = "resuming" /\ joined' = c
         \/ joiner' = joiner /\ joined' = joined
  BY DEF JoinResume, ResumeTask, JoinFrame, AtWill, setup, timerVars, loop, join
<1>2. /\ Only(c)
      /\ task'[c].body = "running" /\ task'[c].thread = "main"
      /\ task'[c].state = task[c].state /\ task'[c].result_type = task[c].result_type
  <2>1. task \in [Coros -> Task] /\ task[c].reps < n_expirations
    BY <1>0, <1>1 DEF Base, IInv, TaskInv
  <2> QED BY <1>0, <1>1, <2>1, ResumedTask
<1>3. Base' /\ undefined' = "none"
  BY <1>0, <1>1, <1>2 DEF Base, Only
<1>4. ResumedByItsTimer' /\ SetupInv' /\ AwaitedInv'
  BY <1>0, <1>1 DEF IInv, ResumedByItsTimer, SetupInv, AwaitedInv
<1>5. TaskInv'
  BY <1>0, <1>1, <1>2 DEF IInv, TaskInv, Only, Base
<1>6. ThreadInv'
  BY <1>0, <1>1, <1>2 DEF IInv, ThreadInv, Running, Only, Base
<1>7. CloseInv'
  BY <1>0, <1>1, <1>2 DEF IInv, CloseInv, Only, Base
<1>8. JoinedMeansEnded' /\ JoinInv'
  BY <1>0, <1>1, <1>2 DEF IInv, JoinedMeansEnded, JoinInv, Only, Base
<1>9. HandleInv'
  BY <1>0, <1>1 DEF IInv, HandleInv, Due
<1>10. RegisteredInv'
  BY <1>0, <1>1, <1>2 DEF IInv, RegisteredInv, Only, Alive, Base
<1> QED BY <1>3, <1>4, <1>5, <1>6, <1>7, <1>8, <1>9, <1>10 DEF Goal

\* The second of the two exchanges finds the flag only of a task that has ended.
LEMMA ContinuationStep ==
    ASSUME Defined, TrySetContinuation
    PROVE  Goal
<1>0. Base /\ IInv /\ undefined = "none" /\ joined \in tasks /\ joined \in Coros
  BY BaseHolds DEF Defined, Base, IInv, JoinInv, TrySetContinuation
<1>1. /\ UNCHANGED <<platform, tasks, owner, ident, main, awaiting_coro, moved, gone, kernel,
                     count, shutdown_event, joined, early, excuse, undefined>>
      /\ joiner = "linking" /\ joiner' \in {"resumed", "suspended"}
      /\ joiner' = "resumed" => task[joined].state
  BY DEF TrySetContinuation, JoinFrame, setup, timerVars, loop
<1>2. /\ Only(joined) /\ task'[joined].body = task[joined].body
      /\ task'[joined].awaits = task[joined].awaits
      /\ task'[joined].reps = task[joined].reps
      /\ task'[joined].thread = task[joined].thread
      /\ task'[joined].result_type = task[joined].result_type
  <2>1. /\ task[joined] \in Task
        /\ task'[joined] = [task[joined] EXCEPT !.state = TRUE]
        /\ \A d \in Coros : d # joined => task'[d] = task[d]
        /\ task' = [d \in Coros |-> task'[d]]
    BY <1>0 DEF Base, TrySetContinuation
  <2>2. task'[joined] \in Task
    BY <2>1 DEF Task
  <2>3. \A d \in Coros : task'[d] \in Task
    BY <1>0, <2>1, <2>2 DEF Base
  <2>4. task' \in [Coros -> Task]
    BY <2>1, <2>3
  <2> QED BY <2>1, <2>4 DEF Only, Task
<1>3. \A d \in tasks : /\ task'[d].body = task[d].body /\ task'[d].awaits = task[d].awaits
                       /\ task'[d].reps = task[d].reps /\ task'[d].thread = task[d].thread
                       /\ task'[d].result_type = task[d].result_type
  BY <1>0, <1>2 DEF Only, Base
<1>4. Base' /\ undefined' = "none"
  BY <1>0, <1>1, <1>2 DEF Base, Only
<1>5. ResumedByItsTimer' /\ SetupInv'
  <2>1. \A d \in early : TimersOf(d)' = TimersOf(d)
    BY <1>1 DEF TimersOf
  <2> QED BY <1>0, <1>1, <2>1 DEF IInv, ResumedByItsTimer, SetupInv
<1>6. TaskInv' /\ CloseInv'
  BY <1>0, <1>1, <1>3 DEF IInv, TaskInv, CloseInv
<1>7. ThreadInv'
  BY <1>0, <1>1, <1>3 DEF IInv, ThreadInv, Running
<1>8. JoinedMeansEnded'
  BY <1>0, <1>1, <1>3 DEF IInv, JoinedMeansEnded, JoinInv
<1>9. JoinInv'
  BY <1>0, <1>1, <1>2 DEF IInv, JoinInv, Only, Base
<1>10. HandleInv'
  BY <1>0, <1>1 DEF IInv, HandleInv, Due
<1>11. RegisteredInv' /\ AwaitedInv'
  BY <1>0, <1>1, <1>3 DEF IInv, RegisteredInv, AwaitedInv, Alive, Due, Base, Kevent
<1> QED BY <1>4, <1>5, <1>6, <1>7, <1>8, <1>9, <1>10, <1>11 DEF Goal

\* main lets go of a task that is suspended, or has ended.
LEMMA DropStep ==
    ASSUME Defined, NEW c \in tasks, DropTask(c)
    PROVE  Goal
<1>0. Base /\ IInv /\ undefined = "none" /\ c \in Coros
  BY BaseHolds DEF Defined, Base
<1>1. /\ UNCHANGED <<platform, tasks, owner, ident, main, awaiting_coro, moved, gone, count,
                     shutdown_event, joiner, joined, early, undefined>>
      /\ task[c].body \in {"suspended", "final"}
      /\ excuse' = excuse \cup {"drop"}
      /\ \/ task[c].body = "final" /\ UNCHANGED kernel
         \/ DestroyLocals(c)
  BY DEF DropTask, setup, loop, join
<1>2. /\ Only(c) /\ task'[c].body = "destroyed" /\ task'[c].thread = task[c].thread
      /\ task'[c].result_type = task[c].result_type /\ task'[c].state = task[c].state
  <2>1. /\ task[c] \in Task
        /\ task'[c] = [task[c] EXCEPT !.body = "destroyed"]
        /\ \A d \in Coros : d # c => task'[d] = task[d]
        /\ task' = [d \in Coros |-> task'[d]]
    BY <1>0 DEF Base, DropTask
  <2>2. task'[c] \in Task
    BY <2>1 DEF Task
  <2>3. \A d \in Coros : task'[d] \in Task
    BY <1>0, <2>1, <2>2 DEF Base
  <2>4. task' \in [Coros -> Task]
    BY <2>1, <2>3
  <2> QED BY <2>1, <2>4 DEF Only, Task
<1>3. /\ NoneDue
      /\ \A k \in Timers : kernel'[k].st # "none" => kernel[k].st # "none"
      /\ platform = "timerfd" => \A k \in Timers : owner[k] = c => kernel'[k].st = "none"
  <2>1. CASE DestroyLocals(c)
    BY <1>0, <2>1, LocalsDestroyed DEF IInv
  <2>2. CASE task[c].body = "final" /\ UNCHANGED kernel
    BY <1>0, <2>2 DEF NoneDue, Due, Base, IInv, RegisteredInv, Alive
  <2> QED BY <1>1, <2>1, <2>2
<1>4. Base' /\ undefined' = "none"
  BY <1>0, <1>1, <1>2, <1>3 DEF Base, Only, NoneDue
<1>5. ResumedByItsTimer' /\ SetupInv'
  <2>1. \A d \in early : TimersOf(d)' = TimersOf(d)
    BY <1>1 DEF TimersOf
  <2> QED BY <1>0, <1>1, <1>3, <2>1 DEF IInv, ResumedByItsTimer, SetupInv, NoneDue
<1>6. TaskInv'
  BY <1>0, <1>1, <1>2 DEF IInv, TaskInv, Only, Base
<1>7. ThreadInv'
  BY <1>0, <1>1, <1>2 DEF IInv, ThreadInv, Running, Only, Base
<1>8. CloseInv'
  BY <1>0, <1>1, <1>2 DEF IInv, CloseInv, Only, Base
<1>9. JoinedMeansEnded' /\ JoinInv'
  BY <1>0, <1>1, <1>2 DEF IInv, JoinedMeansEnded, JoinInv, Only, Base
<1>10. HandleInv'
  BY <1>0, <1>1, <1>3 DEF IInv, HandleInv, NoneDue
<1>11. RegisteredInv'
  BY <1>0, <1>1, <1>2, <1>3 DEF IInv, RegisteredInv, Only, Alive, Base
<1>12. AwaitedInv'
  BY <1>0, <1>1, <1>2, <1>3, StillAwaited DEF IInv
<1> QED BY <1>4, <1>5, <1>6, <1>7, <1>8, <1>9, <1>10, <1>11, <1>12 DEF Goal

\* The reactor resumes the owner of the timer: the one it waits for, but on timerfd,
\* and then no other event of that coroutine is due.
LEMMA TimerReactorStep ==
    ASSUME Defined, NEW k \in Timers, EpollReactor(k) \/ KqueueReactor(k) \/ PoolCallback(k)
    PROVE  Goal
<1>0. Base /\ IInv /\ undefined = "none"
  BY BaseHolds DEF Defined
<1> DEFINE u == kernel[k].udata
           c == owner[u]
           th == IF platform = "pool" THEN "pool" ELSE "main"
<1>1. u \in Timers /\ c \in tasks /\ c \in Coros /\ c # NULL /\ awaiting_coro[u] \in {NULL, c}
  BY <1>0 DEF Base, Kevent, IInv, HandleInv
<1>2. OnTimerExpire(u, th) /\ Pending(k)
  <2>1. platform # "kqueue" => u = k
    BY <1>0 DEF IInv, SetupInv
  <2> QED BY <2>1 DEF EpollReactor, KqueueReactor, PoolCallback
<1>3. awaiting_coro[u] = c /\ task[c].body = "suspended"
  BY <1>1, <1>2 DEF OnTimerExpire, WrongContext
<1>4. /\ UNCHANGED <<platform, tasks, owner, ident, main, awaiting_coro, moved, gone,
                     shutdown_event, joiner, joined, excuse, undefined>>
      /\ Resumed(c, th) /\ kernel[k].st = "fired"
      /\ early' = IF task[c].awaits = u THEN early ELSE early \cup {c}
      /\ main \in {"starting", "reactor", "closing"}
  BY <1>2, <1>3 DEF OnTimerExpire, Pending, setup, join
<1>5. /\ task[c].reps < n_expirations /\ task[c].awaits \in Timers
      /\ owner[task[c].awaits] = c
  BY <1>0, <1>1, <1>3 DEF IInv, TaskInv
<1>6. /\ Only(c)
      /\ task'[c].body = "running" /\ task'[c].thread = th
      /\ task'[c].state = task[c].state /\ task'[c].result_type = task[c].result_type
  <2>1. task \in [Coros -> Task] /\ th \in {"main", "pool"}
    BY <1>0 DEF Base
  <2> HIDE DEF c, th
  <2> QED BY <1>1, <1>4, <1>5, <2>1, ResumedTask
<1>7. /\ NoneDue
      /\ \A j \in Timers : j # k => kernel'[j] = kernel[j]
      /\ platform = "timerfd" => kernel' = kernel
      /\ platform # "timerfd" => ~Due(k)'
  <2>1. CASE platform = "timerfd"
    BY <1>0, <2>1 DEF EpollReactor, KqueueReactor, PoolCallback, NoneDue, Base, Due
  <2>2. CASE platform # "timerfd"
    <3>1. /\ kernel[k] \in Kevent
          /\ \/ kernel'[k] = [kernel[k] EXCEPT !.st = "none"]
             \/ kernel'[k] = [kernel[k] EXCEPT !.st = "idle"]
          /\ \A j \in Timers : j # k => kernel'[j] = kernel[j]
          /\ kernel' = [j \in Timers |-> kernel'[j]]
      BY <1>0, <2>2 DEF EpollReactor, KqueueReactor, PoolCallback, Base
    <3>2. kernel'[k] \in Kevent /\ kernel'[k].udata = kernel[k].udata /\ ~Due(k)'
      BY <3>1 DEF Kevent, Due
    <3>3. \A j \in Timers : kernel'[j] \in Kevent
      BY <1>0, <3>1, <3>2 DEF Base
    <3>4. kernel' \in [Timers -> Kevent]
      BY <3>1, <3>3
    <3> QED BY <2>2, <3>1, <3>2, <3>4 DEF NoneDue, Due
  <2> QED BY <2>1, <2>2
<1>8. count' \in 0..(NCoros * n_expirations)
  <2>1. count' = count \/ (count' = count + 1 /\ count < Quota)
    BY DEF EpollReactor, KqueueReactor, PoolCallback, Pending
  <2>2. PICK n \in Coros : tasks = 1..n
    BY <1>0 DEF IInv, SetupInv
  <2>3. n \in Nat /\ n <= NCoros /\ Cardinality(tasks) = n
    BY <2>2, FS_Interval, TimerReactorAssumption DEF Coros
  <2>4. n * n_expirations <= NCoros * n_expirations /\ n * n_expirations \in Nat
    <3>1. \A x \in Nat : x + n = NCoros => NCoros * n_expirations = x * n_expirations + n * n_expirations
      BY <2>3, TimerReactorAssumption
    <3>2. NCoros - n \in Nat /\ (NCoros - n) + n = NCoros
      BY <2>3, TimerReactorAssumption
    <3>3. (NCoros - n) * n_expirations \in Nat /\ n * n_expirations \in Nat
          /\ NCoros * n_expirations \in Nat
      BY <2>3, <3>2, TimerReactorAssumption
    <3> QED BY <3>1, <3>2, <3>3
  <2> QED BY <1>0, <2>1, <2>3, <2>4, TimerReactorAssumption DEF Quota, Base
<1>9. early \subseteq early' /\ early' \subseteq early \cup {c}
  BY <1>4
<1> HIDE DEF c, th
<1>10. Base' /\ undefined' = "none"
  BY <1>0, <1>1, <1>4, <1>6, <1>7, <1>8, <1>9 DEF Base, Only, NoneDue
<1>11. ResumedByItsTimer'
  <2>1. \A d \in tasks : TimersOf(d)' = TimersOf(d)
    BY <1>4 DEF TimersOf
  <2>2. ASSUME task[c].awaits # u
        PROVE  \/ "join" \in excuse
               \/ platform = "timerfd" /\ Cardinality(TimersOf(c)) > 1
    <3>1. CASE platform # "timerfd"
      BY <1>0, <1>3, <1>4, <2>2, <3>1 DEF IInv, AwaitedInv, Due, c
    <3>2. CASE platform = "timerfd"
      <4>1. u \in TimersOf(c) /\ task[c].awaits \in TimersOf(c)
        BY <1>1, <1>5 DEF TimersOf, c
      <4>2. IsFiniteSet(TimersOf(c))
        <5>1. IsFiniteSet(Timers)
          BY FS_Interval, TimerReactorAssumption DEF Timers
        <5> QED BY <5>1, FS_Subset DEF TimersOf
      <4>3. IsFiniteSet({u, task[c].awaits}) /\ Cardinality({u, task[c].awaits}) = 2
        <5>1. IsFiniteSet({u}) /\ Cardinality({u}) = 1
          BY FS_Singleton
        <5>2. {u} \cup {task[c].awaits} = {u, task[c].awaits} /\ task[c].awaits \notin {u}
          BY <2>2
        <5>3. Cardinality({u} \cup {task[c].awaits}) = Cardinality({u}) + 1
          BY <5>1, <5>2, FS_AddElement
        <5>4. IsFiniteSet({u} \cup {task[c].awaits})
          BY <5>1, FS_AddElement
        <5> QED BY <5>1, <5>2, <5>3, <5>4
      <4>4. Cardinality({u, task[c].awaits}) <= Cardinality(TimersOf(c))
        BY <4>1, <4>2, FS_Subset
      <4>5. Cardinality(TimersOf(c)) \in Nat
        BY <4>2, FS_CardinalityType
      <4> QED BY <3>2, <4>3, <4>4, <4>5
    <3> QED BY <3>1, <3>2
  <2> QED BY <1>0, <1>1, <1>4, <2>1, <2>2 DEF IInv, ResumedByItsTimer, Base
<1>12. SetupInv'
  BY <1>0, <1>4, <1>7 DEF IInv, SetupInv, NoneDue
<1>13. TaskInv'
  BY <1>0, <1>1, <1>3, <1>4, <1>6 DEF IInv, TaskInv, Only, Base
<1>14. ThreadInv'
  <2>1. platform # "pool" => th = "main"
    BY DEF th
  <2>2. platform = "pool" => th = "pool"
    BY DEF th
  <2> QED BY <1>0, <1>1, <1>4, <1>6, <2>1, <2>2 DEF IInv, ThreadInv, Running, Only, Base
<1>15. CloseInv'
  BY <1>0, <1>1, <1>3, <1>4, <1>6 DEF IInv, CloseInv, Only, Base
<1>16. JoinedMeansEnded' /\ JoinInv'
  BY <1>0, <1>1, <1>4, <1>6 DEF IInv, JoinedMeansEnded, JoinInv, Only, Base
<1>17. HandleInv'
  BY <1>0, <1>4, <1>7 DEF IInv, HandleInv, NoneDue
<1>18. RegisteredInv'
  BY <1>0, <1>1, <1>3, <1>4, <1>6, <1>7 DEF IInv, RegisteredInv, Only, Alive, Base
<1>19. AwaitedInv'
  <2> SUFFICES ASSUME platform # "timerfd", "join" \notin excuse, NEW j \in Timers, Due(j)',
                      NEW v, v = kernel'[j].udata
               PROVE  /\ ident[v] = j
                      /\ \/ task'[owner[v]].body = "suspended" /\ task'[owner[v]].awaits = v
                         \/ task'[owner[v]].body = "destroyed" /\ "drop" \in excuse
    BY <1>4 DEF AwaitedInv
  <2>1. j # k /\ Due(j) /\ v = kernel[j].udata /\ v \in Timers /\ owner[v] \in Coros
    BY <1>0, <1>7 DEF NoneDue, Base, Kevent
  <2>2. /\ ident[v] = j
        /\ \/ task[owner[v]].body = "suspended" /\ task[owner[v]].awaits = v
           \/ task[owner[v]].body = "destroyed" /\ "drop" \in excuse
    BY <1>0, <2>1 DEF IInv, AwaitedInv
  <2>3. ident[u] = k /\ task[c].awaits = u
    BY <1>0, <1>3, <1>4 DEF IInv, AwaitedInv, Due, c
  <2>4. owner[v] # c
    BY <1>3, <2>1, <2>2, <2>3
  <2> QED BY <1>6, <2>1, <2>2, <2>4 DEF Only
<1> QED BY <1>10, <1>11, <1>12, <1>13, <1>14, <1>15, <1>16, <1>17, <1>18, <1>19 DEF Goal

-----------------------------------------------------------------------------
\* No task was created, no timer armed.
LEMMA InitInv == Init => IInv
<1> SUFFICES ASSUME Init PROVE IInv
  OBVIOUS
<1>1. /\ main = "starting" /\ count = 0 /\ shutdown_event = FALSE /\ joiner = "none"
      /\ joined = NULL /\ early = {} /\ excuse = {} /\ undefined = "none" /\ moved = {}
      /\ gone = {}
      /\ platform \in {"timerfd", "kqueue", "pool"}
      /\ \E n \in Coros : tasks = 1..n
      /\ owner \in [Timers -> tasks]
  BY DEF Init
<1>2. tasks \subseteq Coros
  BY <1>1, TimerReactorAssumption DEF Coros
<1>3. ident \in [Timers -> Timers] /\ (platform # "kqueue" => \A t \in Timers : ident[t] = t)
  <2>1. \A t \in Timers : 1 \in Timers
    BY TimerReactorAssumption DEF Timers
  <2> QED BY <2>1 DEF Init
<1>4. /\ task \in [Coros -> Task]
      /\ \A c \in Coros : /\ task[c].body = "unborn" /\ task[c].result_type = "empty"
                          /\ task[c].thread = "main" /\ task[c].state = FALSE
  <2>1. NewTask \in Task
    BY TimerReactorAssumption DEF NewTask, Task, ResultType, NULL
  <2>2. task = [c \in Coros |-> NewTask]
    BY DEF Init
  <2> QED BY <2>1, <2>2 DEF NewTask
<1>5. /\ awaiting_coro \in [Timers -> Coros \cup {NULL}]
      /\ \A t \in Timers : awaiting_coro[t] = NULL
  BY DEF Init
<1>6. /\ kernel \in [Timers -> Kevent]
      /\ \A t \in Timers : kernel[t].st = "none" /\ kernel[t].udata = t
  <2>1. \A t \in Timers : [st |-> "none", udata |-> t] \in Kevent
    BY DEF Kevent
  <2> QED BY <2>1 DEF Init
<1>7. count \in 0..(NCoros * n_expirations)
  <2>1. NCoros * n_expirations \in Nat
    BY TimerReactorAssumption
  <2> QED BY <1>1, <2>1
<1>8. shutdown_event \in BOOLEAN
  BY <1>1, Zenon
<1>9. OnlyMisuseBreaks
  BY <1>1, <1>2, <1>3, <1>4, <1>5, <1>6, <1>7, <1>8 DEF OnlyMisuseBreaks, TypeOK
<1>10. ResumedByItsTimer /\ JoinedMeansEnded /\ SetupInv
  BY <1>1, <1>3, <1>6 DEF ResumedByItsTimer, JoinedMeansEnded, SetupInv
<1>11. TaskInv /\ ThreadInv /\ CloseInv /\ JoinInv
  BY <1>1, <1>2, <1>4 DEF TaskInv, ThreadInv, Running, CloseInv, JoinInv
<1>12. HandleInv /\ RegisteredInv /\ AwaitedInv
  BY <1>1, <1>5, <1>6 DEF HandleInv, RegisteredInv, AwaitedInv, Due
<1> QED BY <1>9, <1>10, <1>11, <1>12 DEF IInv

\* Every step preserves the invariant.
LEMMA InvStep == IInv /\ [Next]_vars => IInv'
<1> SUFFICES ASSUME IInv, [Next]_vars PROVE IInv'
  OBVIOUS
<1>1. CASE UNCHANGED vars
  <2>1. UNCHANGED <<platform, tasks, owner, ident, main, task, awaiting_coro, moved, gone, kernel,
                    count, shutdown_event, joiner, joined, early, excuse, undefined>>
    BY <1>1 DEF vars, setup, timerVars, loop, join, ghosts
  <2>2. OnlyMisuseBreaks'
    <3>1. TypeOK'
      BY <2>1, ZenonT(60) DEF IInv, OnlyMisuseBreaks, TypeOK
    <3>2. OnlyMisuseBreaks
      BY DEF IInv
    <3> QED BY <2>1, <3>1, <3>2 DEF OnlyMisuseBreaks
  <2>3. ResumedByItsTimer' /\ ThreadInv'
    BY <2>1 DEF IInv, ResumedByItsTimer, TimersOf, ThreadInv, Running
  <2>4. HandleInv' /\ RegisteredInv' /\ AwaitedInv'
    BY <2>1 DEF IInv, HandleInv, RegisteredInv, AwaitedInv, Alive, Due
  <2>5. JoinedMeansEnded' /\ SetupInv' /\ TaskInv' /\ CloseInv' /\ JoinInv'
    BY <2>1 DEF IInv, JoinedMeansEnded, SetupInv, TaskInv, CloseInv, JoinInv
  <2> QED BY <2>2, <2>3, <2>4, <2>5 DEF IInv
<1>2. CASE Next
  <2>0. Defined
    BY <1>2 DEF Next, Defined
  <2>1. ASSUME NEW c \in tasks,
               \/ StartTask(c) \/ Shutdown(c) \/ EndBody(c) \/ ArmClosed(c)
               \/ ReleaseTwice(c)
               \/ \E t \in Timers : CoAwait(c, t)
        PROVE  IInv'
    BY <2>0, <2>1, StartSteps, RunsOnSteps, EndBodyStep, ClosedSteps, CoAwaitStep,
       GoalSuffices
  <2>2. ASSUME NEW k \in Timers,
               EpollReactor(k) \/ KqueueReactor(k) \/ PoolCallback(k) \/ BadEvent(k)
        PROVE  IInv'
    BY <2>0, <2>2, TimerReactorStep, BadEventStep, GoalSuffices
  <2>3. ASSUME TrySetContinuation \/ JoinResult \/ Leave
        PROVE  IInv'
    <3>1. JoinResult => joined \in tasks
      BY DEF JoinResult, IInv, JoinInv
    <3> QED BY <2>0, <2>3, <3>1, ContinuationStep, JoinerSteps, LeaveStep, GoalSuffices
  <2>4. ASSUME ReactorReturns \/ BeginClose \/ EndClose \/ RunReactor \/ ReactorError
        PROVE  IInv'
    BY <2>0, <2>4, MainSteps, GoalSuffices
  <2>5. ASSUME NEW k \in Timers,
               Expire(k) \/ MoveTimerfd(k) \/ MovePoolTimer(k) \/ EndScope(k)
        PROVE  IInv'
    BY <2>0, <2>5, TimerSteps, GoalSuffices
  <2>6. ASSUME NEW c \in tasks,
               \/ StartFails(c) \/ \E t \in Timers : ArmFails(c, t)
               \/ JoinReady(c) \/ JoinResume(c) \/ ResumeTask(c) \/ JoinRunning(c)
               \/ DropTask(c) \/ DropRunning(c)
        PROVE  IInv'
    BY <2>0, <2>6, StartSteps, RunsOnSteps, JoinerSteps, ResumeSteps, MisuseSteps, DropStep,
       GoalSuffices
  <2> QED BY <1>2, <2>1, <2>2, <2>3, <2>4, <2>5, <2>6 DEF Next, ThreadStep
<1> QED BY <1>1, <1>2

\* The invariant holds throughout.
LEMMA Invariance == Spec => []IInv
BY InitInv, InvStep, PTL DEF Spec

\* Only a timer that was moved, a task that was resumed or dropped while it was
\* suspended, or a second task on one pool brings the reactor to a frame that is gone
\* or a coroutine that is not suspended, and without them a timer is released twice
\* only in wait_close; on timerfd only a null handle is met as long as what timers
\* are moved from is there.
THEOREM MisuseOnly == Spec => []OnlyMisuseBreaks
<1>1. IInv => OnlyMisuseBreaks
  BY DEF IInv
<1> QED BY <1>1, Invariance, PTL

\* await_suspend stores the handle and arms the timer; on_timer_expire resumes that
\* handle: the coroutine awaits this very timer, unless others resumed it meanwhile,
\* or its descriptor, one of several, was still ready.
THEOREM OwnTimerResumes == Spec => []ResumedByItsTimer
<1>1. IInv => ResumedByItsTimer
  BY DEF IInv
<1> QED BY <1>1, Invariance, PTL

\* try_set_continuation and final_suspend exchange one flag: whichever comes second
\* resumes the joiner, and await_resume finds a result.
THEOREM JoinFindsResult == Spec => []JoinedMeansEnded
<1>1. IInv => JoinedMeansEnded
  BY DEF IInv
<1> QED BY <1>1, Invariance, PTL

-----------------------------------------------------------------------------
(***************************************************************************)
(* The pipes, for any capacity, size of the buffer and max_events: which   *)
(* events can find their awaiter gone, and when a read can overrun.        *)
(***************************************************************************)
\* A coroutine that may still await its pipe has its end in the epoll set; only
\* the writer tries before it suspends; a closed writer is through.
CoroPlace ==
    /\ \A e \in Ends : coro[e] \notin {"none", "ended"} => e \in registered
    /\ coro["r"] \notin {"none", "trying", "written"}
    /\ "w" \notin open => coro["w"] \in {"none", "ended"}

\* set_awaiter stores the awaiter and erases the interest in one call.
NoInterest == mask \cap awaiter = {}

\* So an event that carries an awaiter reports a hang-up, and open ends never
\* come back while it waits to be handled.
AwaiterMeansHangup ==
    \A k \in 1..Len(events) : events[k].awaiter => Hangup(events[k].end)

\* The consumer is resumed, and reads, when the producer is gone.
ReadsAfterHangup == coro["r"] = "resumed" => "w" \notin open

\* driver1: the reactor runs once the consumer awaits, and knows only its end.
DriverAwaits ==
    setting = "driver1" =>
        /\ coro["w"] = "none" /\ registered = {"r"} /\ "r" \in open
        /\ coro["r"] = "suspended" \/ reactor = "on" => "r" \in awaiter
        /\ \A k \in 1..Len(events) : events[k].awaiter

PipeInv == OnlyHangupsBreak /\ ReadsAfterHangup /\ CoroPlace /\ NoInterest
           /\ AwaiterMeansHangup /\ DriverAwaits

-----------------------------------------------------------------------------
\* A coroutine is called.
LEMMA StartStep ==
    ASSUME PipeInv, fate = "running", NEW e \in Ends, Start(e)
    PROVE  PipeInv'
<1> USE PipeAssumption DEF Start, Becomes, PipeInv, OnlyHangupsBreak, epoll, pipe, Garbage
<1>1. PipeTypeOK'
  BY DEF PipeTypeOK, Ends, CoroPlace
<1>2. OnlyHangupsBreak'
  BY <1>1
<1>3. ReadsAfterHangup'
  BY DEF ReadsAfterHangup, PipeTypeOK, CoroPlace, Ends
<1>4. CoroPlace'
  BY DEF CoroPlace, PipeTypeOK, Ends
<1>5. NoInterest'
  BY DEF NoInterest
<1>6. AwaiterMeansHangup'
  BY DEF AwaiterMeansHangup, Hangup, Other
<1>7. DriverAwaits'
  BY DEF DriverAwaits, PipeTypeOK, Ends
<1> QED BY <1>2, <1>3, <1>4, <1>5, <1>6, <1>7

\* The pipe object is moved under its awaiter.
LEMMA MovePipeStep ==
    ASSUME PipeInv, fate = "running", NEW e \in Ends, MovePipe(e)
    PROVE  PipeInv'
<1> USE PipeAssumption DEF MovePipe, Becomes, PipeInv, OnlyHangupsBreak, epoll, pipe,
       Garbage
<1>1. PipeTypeOK'
  BY DEF PipeTypeOK, Ends, CoroPlace
<1>2. OnlyHangupsBreak'
  BY <1>1
<1>3. ReadsAfterHangup'
  BY DEF ReadsAfterHangup, PipeTypeOK, CoroPlace, Ends
<1>4. CoroPlace'
  BY DEF CoroPlace, PipeTypeOK, Ends
<1>5. NoInterest'
  BY DEF NoInterest
<1>6. AwaiterMeansHangup'
  BY DEF AwaiterMeansHangup, Hangup, Other
<1>7. DriverAwaits'
  BY DEF DriverAwaits, PipeTypeOK, Ends
<1> QED BY <1>2, <1>3, <1>4, <1>5, <1>6, <1>7

\* set_awaiter throws.
LEMMA AwaitThrowsStep ==
    ASSUME PipeInv, fate = "running", NEW e \in Ends, AwaitThrows(e)
    PROVE  PipeInv'
<1> USE PipeAssumption DEF AwaitThrows, Becomes, ConsumerEnds, PipeInv,
       OnlyHangupsBreak, epoll, pipe, Garbage
<1>1. PipeTypeOK'
  BY DEF PipeTypeOK, Ends, CoroPlace
<1>2. OnlyHangupsBreak'
  BY <1>1
<1>3. ReadsAfterHangup'
  BY DEF ReadsAfterHangup, PipeTypeOK, CoroPlace, Ends
<1>4. CoroPlace'
  BY DEF CoroPlace, PipeTypeOK, Ends
<1>5. NoInterest'
  BY DEF NoInterest
<1>6. AwaiterMeansHangup'
  BY DEF AwaiterMeansHangup, Hangup, Other
<1>7. DriverAwaits'
  BY DEF DriverAwaits, PipeTypeOK, Ends
<1> QED BY <1>2, <1>3, <1>4, <1>5, <1>6, <1>7

\* read_some stores the awaiter and drops the interest.
LEMMA AwaitReadStep ==
    ASSUME PipeInv, fate = "running", AwaitRead
    PROVE  PipeInv'
<1> USE PipeAssumption DEF AwaitRead, Becomes, set_awaiter, PipeInv, OnlyHangupsBreak,
       epoll, pipe, Garbage
<1>1. PipeTypeOK'
  BY DEF PipeTypeOK, Ends, CoroPlace
<1>2. OnlyHangupsBreak'
  BY <1>1
<1>3. ReadsAfterHangup'
  BY DEF ReadsAfterHangup, PipeTypeOK, CoroPlace, Ends
<1>4. CoroPlace'
  BY DEF CoroPlace, PipeTypeOK, Ends
<1>5. NoInterest'
  BY DEF NoInterest
<1>6. AwaiterMeansHangup'
  BY DEF AwaiterMeansHangup, Hangup, Other
<1>7. DriverAwaits'
  BY DEF DriverAwaits, PipeTypeOK, Ends
<1> QED BY <1>2, <1>3, <1>4, <1>5, <1>6, <1>7

\* The consumer reads, and may overrun its frame: the producer is gone.
LEMMA ResumeReadStep ==
    ASSUME PipeInv, fate = "running", NEW bytes_xfer \in Garbage, NEW len \in Garbage,
           ResumeRead(bytes_xfer, len)
    PROVE  PipeInv'
<1> USE PipeAssumption DEF ResumeRead, Read, Becomes, ConsumerEnds, PipeInv,
       OnlyHangupsBreak, epoll, pipe, Garbage
<1>1. PipeTypeOK'
  <2>1. bytes' \in 0..Capacity
    BY DEF PipeTypeOK
  <2>2. "r" \in Ends /\ "w" \in Ends
    BY DEF Ends
  <2>3. coro' \in [Ends -> {"none", "unborn", "running", "suspended", "trying",
                           "written", "resumed", "ended"}]
    BY <2>2 DEF PipeTypeOK
  <2> QED BY <2>1, <2>3 DEF PipeTypeOK
<1>2. OnlyHangupsBreak'
  <2>1. "w" \notin open /\ open' = open
    BY DEF ReadsAfterHangup
  <2> QED BY <1>1, <2>1
<1>3. ReadsAfterHangup'
  BY DEF ReadsAfterHangup, PipeTypeOK, CoroPlace, Ends
<1>4. CoroPlace'
  BY DEF CoroPlace, PipeTypeOK, Ends
<1>5. NoInterest'
  BY DEF NoInterest
<1>6. AwaiterMeansHangup'
  BY DEF AwaiterMeansHangup, Hangup, Other
<1>7. DriverAwaits'
  BY DEF DriverAwaits, PipeTypeOK, Ends
<1> QED BY <1>2, <1>3, <1>4, <1>5, <1>6, <1>7

\* ~readable_pipe.
LEMMA CloseReaderStep ==
    ASSUME PipeInv, fate = "running", CloseReader
    PROVE  PipeInv'
<1> USE PipeAssumption DEF CloseReader, Becomes, Close, PipeInv, OnlyHangupsBreak,
       epoll, pipe, Garbage
<1>1. PipeTypeOK'
  BY DEF PipeTypeOK, Ends, CoroPlace
<1>2. OnlyHangupsBreak'
  BY <1>1
<1>3. ReadsAfterHangup'
  BY DEF ReadsAfterHangup, PipeTypeOK, CoroPlace, Ends
<1>4. CoroPlace'
  BY DEF CoroPlace, PipeTypeOK, Ends
<1>5. NoInterest'
  BY DEF NoInterest
<1>6. AwaiterMeansHangup'
  BY DEF AwaiterMeansHangup, Hangup, Other
<1>7. DriverAwaits'
  BY DEF DriverAwaits, PipeTypeOK, Ends
<1> QED BY <1>2, <1>3, <1>4, <1>5, <1>6, <1>7

\* driver1's writer: the pipe has a reader and is open.
LEMMA PlainWriteStep ==
    ASSUME PipeInv, fate = "running", PlainWrite
    PROVE  PipeInv'
<1> USE PipeAssumption DEF PlainWrite, Produces, Becomes, PipeInv, OnlyHangupsBreak,
       epoll, pipe, Garbage
<1>1. PipeTypeOK'
  BY DEF PipeTypeOK, Ends, CoroPlace
<1>2. OnlyHangupsBreak'
  BY <1>1
<1>3. ReadsAfterHangup'
  BY DEF ReadsAfterHangup, PipeTypeOK, CoroPlace, Ends
<1>4. CoroPlace'
  BY DEF CoroPlace, PipeTypeOK, Ends
<1>5. NoInterest'
  BY DEF NoInterest
<1>6. AwaiterMeansHangup'
  BY DEF AwaiterMeansHangup, Hangup, Other
<1>7. DriverAwaits'
  BY DEF DriverAwaits, PipeTypeOK, Ends
<1> QED BY <1>2, <1>3, <1>4, <1>5, <1>6, <1>7

\* write_some stores the awaiter before it tries.
LEMMA AwaitWriteStep ==
    ASSUME PipeInv, fate = "running", AwaitWrite
    PROVE  PipeInv'
<1> USE PipeAssumption DEF AwaitWrite, Becomes, set_awaiter, PipeInv, OnlyHangupsBreak,
       epoll, pipe, Garbage
<1>1. PipeTypeOK'
  BY DEF PipeTypeOK, Ends, CoroPlace
<1>2. OnlyHangupsBreak'
  BY <1>1
<1>3. ReadsAfterHangup'
  BY DEF ReadsAfterHangup, PipeTypeOK, CoroPlace, Ends
<1>4. CoroPlace'
  BY DEF CoroPlace, PipeTypeOK, Ends
<1>5. NoInterest'
  BY DEF NoInterest
<1>6. AwaiterMeansHangup'
  BY DEF AwaiterMeansHangup, Hangup, Other
<1>7. DriverAwaits'
  BY DEF DriverAwaits, PipeTypeOK, Ends
<1> QED BY <1>2, <1>3, <1>4, <1>5, <1>6, <1>7

\* await_suspend returns false.
LEMMA WriteDoneStep ==
    ASSUME PipeInv, fate = "running", WriteDone
    PROVE  PipeInv'
<1> USE PipeAssumption DEF WriteDone, Becomes, PipeInv, OnlyHangupsBreak, epoll, pipe,
       Garbage
<1>1. PipeTypeOK'
  BY DEF PipeTypeOK, Ends, CoroPlace
<1>2. OnlyHangupsBreak'
  BY <1>1
<1>3. ReadsAfterHangup'
  BY DEF ReadsAfterHangup, PipeTypeOK, CoroPlace, Ends
<1>4. CoroPlace'
  BY DEF CoroPlace, PipeTypeOK, Ends
<1>5. NoInterest'
  BY DEF NoInterest
<1>6. AwaiterMeansHangup'
  BY DEF AwaiterMeansHangup, Hangup, Other
<1>7. DriverAwaits'
  BY DEF DriverAwaits, PipeTypeOK, Ends
<1> QED BY <1>2, <1>3, <1>4, <1>5, <1>6, <1>7

\* The writer is through when its end is closed.
LEMMA CloseWriterStep ==
    ASSUME PipeInv, fate = "running", CloseWriter
    PROVE  PipeInv'
<1> USE PipeAssumption DEF CloseWriter, Becomes, Close, PipeInv, OnlyHangupsBreak,
       epoll, pipe, Garbage
<1>1. PipeTypeOK'
  BY DEF PipeTypeOK, Ends, CoroPlace
<1>2. OnlyHangupsBreak'
  BY <1>1
<1>3. ReadsAfterHangup'
  BY DEF ReadsAfterHangup, PipeTypeOK, CoroPlace, Ends
<1>4. CoroPlace'
  BY DEF CoroPlace, PipeTypeOK, Ends
<1>5. NoInterest'
  BY DEF NoInterest
<1>6. AwaiterMeansHangup'
  BY DEF AwaiterMeansHangup, Hangup, Other
<1>7. DriverAwaits'
  BY DEF DriverAwaits, PipeTypeOK, Ends
<1> QED BY <1>2, <1>3, <1>4, <1>5, <1>6, <1>7

\* ::write from await_suspend.
LEMMA TryWriteStep ==
    ASSUME PipeInv, fate = "running", NEW len \in Garbage, TryWrite(len)
    PROVE  PipeInv'
<1> USE PipeAssumption DEF TryWrite, Becomes, Write, PipeInv, OnlyHangupsBreak, epoll,
       pipe, Garbage
<1>1. PipeTypeOK'
  <2>1. bytes' \in 0..Capacity
    BY DEF PipeTypeOK
  <2>2. "r" \in Ends /\ "w" \in Ends
    BY DEF Ends
  <2>3. coro' \in [Ends -> {"none", "unborn", "running", "suspended", "trying",
                           "written", "resumed", "ended"}]
    BY <2>2 DEF PipeTypeOK
  <2> QED BY <2>1, <2>3 DEF PipeTypeOK
<1>2. OnlyHangupsBreak'
  BY <1>1
<1>3. ReadsAfterHangup'
  BY DEF ReadsAfterHangup, PipeTypeOK, CoroPlace, Ends
<1>4. CoroPlace'
  BY DEF CoroPlace, PipeTypeOK, Ends
<1>5. NoInterest'
  BY DEF NoInterest
<1>6. AwaiterMeansHangup'
  BY DEF AwaiterMeansHangup, Hangup, Other
<1>7. DriverAwaits'
  BY DEF DriverAwaits, PipeTypeOK, Ends
<1> QED BY <1>2, <1>3, <1>4, <1>5, <1>6, <1>7

\* ::write from await_resume.
LEMMA ResumeWriteStep ==
    ASSUME PipeInv, fate = "running", NEW bytes_xfer \in Garbage, NEW len \in Garbage,
           ResumeWrite(bytes_xfer, len)
    PROVE  PipeInv'
<1> USE PipeAssumption DEF ResumeWrite, Becomes, Write, PipeInv, OnlyHangupsBreak,
       epoll, pipe, Garbage
<1>1. PipeTypeOK'
  <2>1. bytes' \in 0..Capacity
    BY DEF PipeTypeOK
  <2>2. "r" \in Ends /\ "w" \in Ends
    BY DEF Ends
  <2>3. coro' \in [Ends -> {"none", "unborn", "running", "suspended", "trying",
                           "written", "resumed", "ended"}]
    BY <2>2 DEF PipeTypeOK
  <2> QED BY <2>1, <2>3 DEF PipeTypeOK
<1>2. OnlyHangupsBreak'
  BY <1>1
<1>3. ReadsAfterHangup'
  BY DEF ReadsAfterHangup, PipeTypeOK, CoroPlace, Ends
<1>4. CoroPlace'
  BY DEF CoroPlace, PipeTypeOK, Ends
<1>5. NoInterest'
  BY DEF NoInterest
<1>6. AwaiterMeansHangup'
  BY DEF AwaiterMeansHangup, Hangup, Other
<1>7. DriverAwaits'
  BY DEF DriverAwaits, PipeTypeOK, Ends
<1> QED BY <1>2, <1>3, <1>4, <1>5, <1>6, <1>7

\* process_events is called.
LEMMA StartReactorStep ==
    ASSUME PipeInv, fate = "running", StartReactor
    PROVE  PipeInv'
<1> USE PipeAssumption DEF StartReactor, Becomes, PipeInv, OnlyHangupsBreak, epoll,
       pipe, Garbage
<1>1. PipeTypeOK'
  BY DEF PipeTypeOK, Ends, CoroPlace
<1>2. OnlyHangupsBreak'
  BY <1>1
<1>3. ReadsAfterHangup'
  BY DEF ReadsAfterHangup, PipeTypeOK, CoroPlace, Ends
<1>4. CoroPlace'
  BY DEF CoroPlace, PipeTypeOK, Ends
<1>5. NoInterest'
  BY DEF NoInterest
<1>6. AwaiterMeansHangup'
  BY DEF AwaiterMeansHangup, Hangup, Other
<1>7. DriverAwaits'
  BY DEF DriverAwaits, PipeTypeOK, Ends
<1> QED BY <1>2, <1>3, <1>4, <1>5, <1>6, <1>7

\* epoll_wait fails.
LEMMA ReactorErrorStep ==
    ASSUME PipeInv, fate = "running", WaitError
    PROVE  PipeInv'
<1> USE PipeAssumption DEF WaitError, Becomes, PipeInv, OnlyHangupsBreak, epoll, pipe,
       Garbage
<1>1. PipeTypeOK'
  BY DEF PipeTypeOK, Ends, CoroPlace
<1>2. OnlyHangupsBreak'
  BY <1>1
<1>3. ReadsAfterHangup'
  BY DEF ReadsAfterHangup, PipeTypeOK, CoroPlace, Ends
<1>4. CoroPlace'
  BY DEF CoroPlace, PipeTypeOK, Ends
<1>5. NoInterest'
  BY DEF NoInterest
<1>6. AwaiterMeansHangup'
  BY DEF AwaiterMeansHangup, Hangup, Other
<1>7. DriverAwaits'
  BY DEF DriverAwaits, PipeTypeOK, Ends
<1> QED BY <1>2, <1>3, <1>4, <1>5, <1>6, <1>7

\* What epoll_wait reports of an end.
LEMMA ReportFields ==
    \A e : Report(e).end = e /\ (Report(e).awaiter <=> e \in awaiter)
BY Zenon DEF Report

\* epoll_wait reports an end that has an awaiter only for a hang-up, because the
\* interest in data is gone.
LEMMA EpollWaitStep ==
    ASSUME PipeInv, fate = "running", EpollWait
    PROVE  PipeInv'
<1> USE PipeAssumption DEF PipeInv, OnlyHangupsBreak, epoll, pipe
<1>0. PICK n \in 1..max_events :
        \E s \in [1..n -> {e \in registered : Ready(e) \/ Hangup(e)}] :
            events' = [k \in 1..n |-> Report(s[k])]
  BY DEF EpollWait, Injection
<1>1. PICK s \in [1..n -> {e \in registered : Ready(e) \/ Hangup(e)}] :
        events' = [k \in 1..n |-> Report(s[k])]
  BY <1>0
<1>2. /\ UNCHANGED <<setting, epoll, pipe, coro, on_reactor, reactor, future, fate>>
      /\ reactor = "on"
  BY DEF EpollWait, Idle
<1>3. events' \in Seq(Event) /\ Len(events') = n
  <2>1. \A k \in 1..n : Report(s[k]) \in Event
    BY DEF Report, Event, PipeTypeOK
  <2>2. n \in Nat
    OBVIOUS
  <2> QED BY <1>1, <2>1, <2>2, IsASeq
<1>4. \A k \in 1..n : /\ events'[k] = Report(s[k])
                      /\ s[k] \in registered
                      /\ Ready(s[k]) \/ Hangup(s[k])
  BY <1>1
<1>a. \A k \in 1..n : /\ events'[k].end = s[k]
                      /\ events'[k].awaiter <=> s[k] \in awaiter
  BY <1>4, ReportFields, Zenon
<1>5. PipeTypeOK'
  BY <1>2, <1>3 DEF PipeTypeOK
<1>6. OnlyHangupsBreak'
  BY <1>2, <1>5
<1>7. ReadsAfterHangup' /\ CoroPlace' /\ NoInterest'
  BY <1>2 DEF ReadsAfterHangup, CoroPlace, NoInterest
<1>8. AwaiterMeansHangup'
  <2> SUFFICES ASSUME NEW k \in 1..n, events'[k].awaiter
               PROVE  Other(events'[k].end) \notin open
    BY <1>2, <1>3 DEF AwaiterMeansHangup, Hangup
  <2>1. s[k] \in awaiter /\ events'[k].end = s[k]
    BY <1>a
  <2>2. s[k] \notin mask
    BY <2>1 DEF NoInterest
  <2> QED BY <2>1, <2>2, <1>4 DEF Ready, Hangup
<1>9. DriverAwaits'
  <2>1. setting = "driver1" => \A k \in 1..n : events'[k].awaiter
    BY <1>2, <1>4, <1>a DEF DriverAwaits
  <2> QED BY <2>1, <1>2, <1>3 DEF DriverAwaits
<1> QED BY <1>6, <1>7, <1>8, <1>9

\* The event that is handled is one of those that were reported, and so are the
\* ones left.
LEMMA HeadAndTail ==
    ASSUME PipeTypeOK, events # <<>>
    PROVE  /\ 1 \in 1..Len(events) /\ Head(events) = events[1]
           /\ Head(events) \in Event
           /\ Tail(events) \in Seq(Event) /\ Len(Tail(events)) <= max_events
           /\ \A k \in 1..Len(Tail(events)) :
                 k + 1 \in 1..Len(events) /\ Tail(events)[k] = events[k + 1]
<1>1. events \in Seq(Event) /\ Len(events) <= max_events
  BY DEF PipeTypeOK
<1>2. /\ Tail(events) \in Seq(Event) /\ Head(events) \in Event
      /\ Len(Tail(events)) = Len(events) - 1
      /\ \A k \in 1..Len(Tail(events)) : Tail(events)[k] = events[k + 1]
  BY <1>1, HeadTailProperties
<1>3. Len(events) \in Nat /\ Len(events) # 0
  BY <1>1, EmptySeq, LenProperties
<1> QED BY <1>1, <1>2, <1>3, PipeAssumption

\* process_n_events resumes the coroutine of the next event.
LEMMA HandleEventStep ==
    ASSUME PipeInv, fate = "running", HandleEvent
    PROVE  PipeInv'
<1> USE DEF PipeInv, OnlyHangupsBreak, epoll, pipe
<1> DEFINE ev == Head(events)
<1>1. /\ events # <<>> /\ events' = Tail(events) /\ Callback(ev)
      /\ UNCHANGED <<setting, epoll, pipe, reactor, future>>
  BY DEF HandleEvent
<1>2. /\ 1 \in 1..Len(events) /\ ev = events[1] /\ ev \in Event
      /\ Tail(events) \in Seq(Event) /\ Len(Tail(events)) <= max_events
      /\ \A k \in 1..Len(Tail(events)) :
            k + 1 \in 1..Len(events) /\ Tail(events)[k] = events[k + 1]
  BY <1>1, HeadAndTail
<1>3. ev.end \in Ends
  BY <1>2 DEF Event
<1>4. ev.awaiter => Hangup(ev.end)
  BY <1>2 DEF AwaiterMeansHangup
<1> HIDE DEF ev
<1>5. \/ ~ev.awaiter /\ fate' = "null awaiter" /\ coro' = coro /\ on_reactor' = on_reactor
      \/ /\ ev.awaiter /\ coro[ev.end] = "suspended" /\ fate' = fate
         /\ coro' = [coro EXCEPT ![ev.end] = "resumed"]
         /\ on_reactor' = on_reactor \cup {ev.end}
      \/ /\ ev.awaiter /\ coro[ev.end] # "suspended" /\ coro' = coro
         /\ on_reactor' = on_reactor
         /\ fate' = IF coro[ev.end] \in {"trying", "written"} THEN "double run"
                    ELSE "stale awaiter"
  BY <1>1 DEF Callback, Becomes
<1>6. PipeTypeOK'
  BY <1>1, <1>2, <1>3, <1>5 DEF PipeTypeOK
<1>7. OnlyHangupsBreak'
  <2>1. fate' = "null awaiter" => setting = "make_pipe"
    BY <1>2, <1>5 DEF PipeTypeOK, DriverAwaits
  <2>2. fate' = "stale awaiter" => open # Ends
    BY <1>3, <1>4, <1>5 DEF Hangup, Other, Ends
  <2>3. fate' = "double run" => "r" \notin open
    BY <1>3, <1>4, <1>5 DEF Hangup, Other, Ends, CoroPlace
  <2>4. fate' # "overrun"
    BY <1>5
  <2> QED BY <1>1, <1>6, <2>1, <2>2, <2>3, <2>4
<1>8. ReadsAfterHangup' /\ NoInterest'
  <2>1. coro'["r"] = "resumed" => coro["r"] = "resumed" \/ (ev.awaiter /\ ev.end = "r")
    BY <1>3, <1>5 DEF PipeTypeOK, Ends
  <2>2. ReadsAfterHangup'
    BY <1>1, <1>4, <2>1 DEF ReadsAfterHangup, Hangup, Other
  <2> QED BY <1>1, <2>2 DEF NoInterest
<1>9. CoroPlace'
  BY <1>1, <1>3, <1>5 DEF CoroPlace, PipeTypeOK, Ends
<1>10. AwaiterMeansHangup'
  BY <1>1, <1>2 DEF AwaiterMeansHangup, Hangup
<1>11. DriverAwaits'
  BY <1>1, <1>2, <1>3, <1>5 DEF DriverAwaits, PipeTypeOK, Ends
<1> QED BY <1>7, <1>8, <1>9, <1>10, <1>11

-----------------------------------------------------------------------------
\* The initial states satisfy the inductive invariant.
LEMMA PipeInitInv == PipeInit => PipeInv
<1> SUFFICES ASSUME PipeInit PROVE PipeInv
  OBVIOUS
<1> USE PipeAssumption DEF PipeInit
<1>1. events \in Seq(Event) /\ Len(events) = 0
  BY EmptySeq
<1>2. PipeTypeOK
  <2>1. registered \subseteq Ends /\ mask = registered /\ awaiter \subseteq registered
    BY DEF Ends
  <2>2. coro \in [Ends -> {"unborn", "none"}]
    OBVIOUS
  <2>3. 0 \in 0..Capacity /\ 0 <= max_events
    OBVIOUS
  <2> QED BY <1>1, <2>1, <2>2, <2>3 DEF PipeTypeOK
<1>3. OnlyHangupsBreak /\ ReadsAfterHangup /\ NoInterest
  <2>1. coro["r"] # "resumed"
    BY DEF Ends
  <2> QED BY <1>2, <2>1 DEF OnlyHangupsBreak, ReadsAfterHangup, NoInterest
<1>4. CoroPlace
  BY DEF CoroPlace, Ends
<1>5. AwaiterMeansHangup /\ DriverAwaits
  BY <1>1 DEF AwaiterMeansHangup, DriverAwaits, Ends
<1> QED BY <1>3, <1>4, <1>5 DEF PipeInv

\* Every step keeps the inductive invariant.
LEMMA PipeInvStep == PipeInv /\ [PipeNext]_pipeVars => PipeInv'
<1> SUFFICES ASSUME PipeInv, [PipeNext]_pipeVars PROVE PipeInv'
  OBVIOUS
<1>1. CASE PipeNext
  <2>0. fate = "running"
    BY <1>1 DEF PipeNext
  <2>1. ASSUME NEW e \in Ends, Start(e) \/ MovePipe(e) \/ AwaitThrows(e) PROVE PipeInv'
    BY <2>0, <2>1, StartStep, MovePipeStep, AwaitThrowsStep
  <2>2. CASE ConsumerStep \/ CloseReader
    BY <2>0, <2>2, AwaitReadStep, ResumeReadStep, CloseReaderStep DEF ConsumerStep
  <2>3. CASE PlainWrite \/ AwaitWrite \/ WriteDone \/ CloseWriter
    BY <2>0, <2>3, PlainWriteStep, AwaitWriteStep, WriteDoneStep, CloseWriterStep
  <2>4. ASSUME NEW len \in Garbage, TryWrite(len) PROVE PipeInv'
    BY <2>0, <2>4, TryWriteStep
  <2>5. ASSUME NEW bytes_xfer \in Garbage, NEW len \in Garbage,
           ResumeWrite(bytes_xfer, len)
        PROVE  PipeInv'
    BY <2>0, <2>5, ResumeWriteStep
  <2>6. CASE StartReactor \/ ReactorStep \/ WaitError
    BY <2>0, <2>6, StartReactorStep, EpollWaitStep, HandleEventStep, ReactorErrorStep
       DEF ReactorStep
  <2> QED BY <1>1, <2>1, <2>2, <2>3, <2>4, <2>5, <2>6 DEF PipeNext
<1>2. CASE UNCHANGED pipeVars
  BY <1>2, ZenonT(60) DEF pipeVars, epoll, pipe, PipeInv, OnlyHangupsBreak, PipeTypeOK, ReadsAfterHangup,
     CoroPlace, NoInterest, AwaiterMeansHangup, Hangup, DriverAwaits
<1> QED BY <1>1, <1>2

\* The invariant holds in every reachable state.
LEMMA PipeInvariance == PipeSpec => []PipeInv
BY PipeInitInv, PipeInvStep, PTL DEF PipeSpec

\* For any capacity, size of the buffers and max_events: an event meets a null
\* awaiter only if the reactor was started before its coroutine awaited, a stale
\* one only once an end was closed, and one in the middle of await_suspend only
\* once the read end was; a read overruns the consumer's frame only once the write
\* end was.
THEOREM BreaksOnlyOnHangup == PipeSpec => []OnlyHangupsBreak
BY PipeInvariance, PTL DEF PipeInv
=============================================================================
