----------------------------- MODULE PipeReactor -----------------------------
(***************************************************************************)
(* Asynchronous pipes over epoll (applications/pipes/nix-pipe): the        *)
(* io_context with its reactor, readable_pipe and writeable_pipe, and the  *)
(* std::future coroutines that await them.                                 *)
(*                                                                         *)
(* Two settings.  "driver1": main registers the read end, calls the        *)
(* consumer, which runs up to its first await, starts a thread that writes *)
(* to the plain descriptor, and processes events.  "make_pipe": both ends  *)
(* are pipes of the library, and the two coroutines and the reactor start  *)
(* on threads of their own.  Once resumed, a coroutine runs on the         *)
(* reactor's thread.                                                       *)
(*                                                                         *)
(* An awaiter lives while its coroutine is in the co_await; what is read   *)
(* of it uninitialized is any value: bytes_xfer and, since the constructor *)
(* initializes len with itself, len.                                       *)
(***************************************************************************)
EXTENDS Naturals, Sequences, Functions

CONSTANTS
    Capacity,     \* bytes the pipe holds
    BUFFER_SIZE,  \* of the buffers of producer and consumer
    max_events    \* the argument of io_context

ASSUME PipeAssumption ==
    Capacity \in Nat \ {0} /\ BUFFER_SIZE \in Nat \ {0} /\ max_events \in Nat \ {0}

Ends == {"r", "w"}
Other(e) == IF e = "r" THEN "w" ELSE "r"

VARIABLES
    setting,      \* "driver1" or "make_pipe"
    registered,   \* the ends in the epoll set
    mask,         \* those whose EPOLLIN or EPOLLOUT is asked for
    awaiter,      \* those whose data.ptr is not null
    open,         \* the ends that are open
    detached,     \* those whose pipe object was moved from during an await
    bytes,        \* in the pipe
    coro,         \* where the coroutine at each end stands
    on_reactor,   \* coroutines that run on the reactor's thread
    reactor,      \* "off" or "on"
    events,       \* what epoll_wait returned and is not handled yet
    future,       \* the consumer's
    fate          \* of the program

epoll == <<registered, mask, awaiter>>
pipe == <<open, detached, bytes>>
pipeVars == <<setting, epoll, pipe, coro, on_reactor, reactor, events, future, fate>>

Event == [end : Ends, awaiter : BOOLEAN, hangup : BOOLEAN]

PipeTypeOK ==
    /\ setting \in {"driver1", "make_pipe"}
    /\ registered \subseteq Ends /\ mask \subseteq registered
    /\ awaiter \subseteq registered
    /\ open \subseteq Ends /\ detached \subseteq Ends /\ bytes \in 0..Capacity
    /\ coro \in [Ends -> {"none", "unborn", "running", "suspended", "trying", "written",
                          "resumed", "ended"}]
    /\ on_reactor \subseteq Ends
    /\ reactor \in {"off", "on"}
    /\ events \in Seq(Event) /\ Len(events) <= max_events
    /\ future \in {"none", "value", "exception"}
    /\ fate \in {"running", "terminated", "null awaiter", "stale awaiter", "double run",
                 "overrun"}

PipeInit ==
    /\ setting \in {"driver1", "make_pipe"}
    /\ registered = IF setting = "driver1" THEN {"r"} ELSE Ends
    /\ mask = registered /\ awaiter = {}
    /\ open = Ends /\ detached = {} /\ bytes = 0
    /\ coro = [e \in Ends |-> IF e \in registered THEN "unborn" ELSE "none"]
    /\ on_reactor = {}
    /\ reactor = "off" /\ events = <<>>
    /\ future = "none"
    /\ fate = "running"

-----------------------------------------------------------------------------
Becomes(e, at) == coro' = [coro EXCEPT ![e] = at]

\* The coroutine has a thread: its own, or that of the reactor.
Active(e) == coro[e] \in {"running", "trying", "written", "resumed"}

\* EPOLL_CTL_MOD with no events: the interest is gone, hang-ups remain.
set_awaiter(e) ==
    /\ awaiter' = awaiter \cup {e}
    /\ mask' = mask \ {e}
    /\ UNCHANGED registered

\* unregister_handle, and the descriptor is closed.
Close(e) ==
    /\ registered' = registered \ {e}
    /\ mask' = mask \ {e}
    /\ awaiter' = awaiter \ {e}
    /\ open' = open \ {e}

\* Fault: initial_suspend suspends.
StartLazily(e) ==
    /\ coro[e] = "unborn"
    /\ Becomes(e, "suspended")
    /\ UNCHANGED <<setting, epoll, pipe, on_reactor, reactor, events, future, fate>>

\* A coroutine is called: initial_suspend does not suspend.
Start(e) ==
    /\ coro[e] = "unborn"
    /\ Becomes(e, "running")
    /\ UNCHANGED <<setting, epoll, pipe, on_reactor, reactor, events, future, fate>>

-----------------------------------------------------------------------------
(***************************************************************************)
(* The consumer.                                                           *)
(***************************************************************************)

\* co_await pipe.read_some(...): no attempt to read.
AwaitRead ==
    /\ coro["r"] = "running" /\ "r" \notin detached
    /\ set_awaiter("r")
    /\ Becomes("r", "suspended")
    /\ UNCHANGED <<setting, pipe, on_reactor, reactor, events, future, fate>>

\* The coroutine ends and its frame is destroyed; the future is ready.
ConsumerEnds(how) == Becomes("r", "ended") /\ future' = how

\* ... on a pipe that was moved from: set_awaiter has no descriptor and throws.
AwaitThrows(e) ==
    /\ coro[e] = "running" /\ e \in detached
    /\ IF e = "r" THEN ConsumerEnds("exception")
       ELSE Becomes(e, "ended") /\ UNCHANGED future
    /\ UNCHANGED <<setting, epoll, pipe, on_reactor, reactor, events, fate>>

\* ::read of len bytes: nothing to read is an end or EAGAIN, a buffer that would
\* reach out of the address space EFAULT, and what does not fit overruns the frame.
Read(len) ==
    LET n == IF len < bytes THEN len ELSE bytes
    IN  \/ /\ n = 0
           /\ ConsumerEnds(IF len > 0 /\ "w" \in open THEN "exception" ELSE "value")
           /\ UNCHANGED <<bytes, fate>>
        \/ /\ n \in 1..BUFFER_SIZE
           /\ bytes' = bytes - n
           /\ Becomes("r", "running") /\ UNCHANGED <<future, fate>>
        \/ /\ n > BUFFER_SIZE
           /\ fate' = "overrun" /\ UNCHANGED <<bytes, coro, future>>
        \/ /\ len > BUFFER_SIZE
           /\ ConsumerEnds("exception") /\ UNCHANGED <<bytes, fate>>

\* await_resume, and the consumer's loop up to the next await: a bytes_xfer that is
\* not zero is taken for that of a read, and a pipe moved from has no descriptor.
ResumeRead(bytes_xfer, len) ==
    /\ coro["r"] = "resumed"
    /\ \/ /\ bytes_xfer > 0
          /\ Becomes("r", "running") /\ UNCHANGED <<bytes, future, fate>>
       \/ /\ bytes_xfer = 0 /\ "r" \in detached
          /\ ConsumerEnds("exception") /\ UNCHANGED <<bytes, fate>>
       \/ bytes_xfer = 0 /\ "r" \notin detached /\ Read(len)
    /\ UNCHANGED <<setting, epoll, open, detached, on_reactor, reactor, events>>

\* ~readable_pipe, when the consumer is through with it or was never called.
CloseReader ==
    /\ setting = "make_pipe" /\ "r" \in open /\ coro["r"] \in {"unborn", "ended"}
    /\ Close("r")
    /\ Becomes("r", "ended")
    /\ UNCHANGED <<setting, detached, bytes, on_reactor, reactor, events, future, fate>>

-----------------------------------------------------------------------------
(***************************************************************************)
(* The producer.                                                           *)
(***************************************************************************)

\* main has called the consumer, and starts the producer's thread.
Produces == coro["w"] = "none" /\ (coro["r"] = "suspended" \/ reactor = "on")

\* driver1: ::write on the plain descriptor, all or nothing; a full pipe is not
\* noticed.
PlainWrite ==
    /\ Produces
    /\ "w" \in open /\ bytes + BUFFER_SIZE <= Capacity
    /\ bytes' = bytes + BUFFER_SIZE
    /\ UNCHANGED <<setting, epoll, open, detached, coro, on_reactor, reactor, events,
                   future, fate>>

\* co_await pipe.write_some(...), up to the write.
AwaitWrite ==
    /\ coro["w"] = "running" /\ "w" \notin detached
    /\ set_awaiter("w")
    /\ Becomes("w", "trying")
    /\ UNCHANGED <<setting, pipe, on_reactor, reactor, events, future, fate>>

\* ::write of len bytes, in part when there is not room for all and EAGAIN when there
\* is for none, or when the kernel does not split a write so small; EFAULT when the
\* buffer would reach out of the address space; and SIGPIPE ends the program when
\* nobody can read.
Write(len, atEnd, atFull) ==
    \/ /\ "r" \notin open /\ len > 0
       /\ fate' = "terminated" /\ UNCHANGED <<bytes, coro>>
    \/ /\ "r" \in open /\ bytes + len > Capacity
       /\ Becomes("w", atFull) /\ UNCHANGED <<bytes, fate>>
    \/ /\ len > 0 => "r" \in open /\ bytes < Capacity
       /\ bytes' \in bytes..Capacity /\ bytes' <= bytes + len
       /\ bytes' = bytes => len = 0
       /\ Becomes("w", atEnd) /\ UNCHANGED fate
    \/ /\ len > BUFFER_SIZE
       /\ Becomes("w", "ended") /\ UNCHANGED <<bytes, fate>>

\* The write of await_suspend; EAGAIN suspends the coroutine.
TryWrite(len) ==
    /\ coro["w"] = "trying"
    /\ Write(len, "written", "suspended")
    /\ UNCHANGED <<setting, epoll, open, detached, on_reactor, reactor, events, future>>

\* await_suspend returns false: the coroutine goes on.
WriteDone ==
    /\ coro["w"] = "written"
    /\ Becomes("w", "running")
    /\ UNCHANGED <<setting, epoll, pipe, on_reactor, reactor, events, future, fate>>

\* await_resume of a write that was suspended.
ResumeWrite(bytes_xfer, len) ==
    /\ coro["w"] = "resumed"
    /\ \/ bytes_xfer > 0 /\ Becomes("w", "running") /\ UNCHANGED <<bytes, fate>>
       \/ /\ bytes_xfer = 0 /\ "w" \in detached
          /\ Becomes("w", "ended") /\ UNCHANGED <<bytes, fate>>
       \/ bytes_xfer = 0 /\ "w" \notin detached /\ Write(len, "running", "ended")
    /\ UNCHANGED <<setting, epoll, open, detached, on_reactor, reactor, events, future>>

\* The producer leaves its loop, which driver1's need never do, and ends: ::close,
\* or ~writeable_pipe.
CloseWriter ==
    /\ "w" \in open /\ coro["w"] \in {"none", "running", "ended"}
    /\ coro["w"] = "none" => Produces
    /\ Close("w")
    /\ coro' = [coro EXCEPT !["w"] = IF @ = "none" THEN @ ELSE "ended"]
    /\ UNCHANGED <<setting, detached, bytes, on_reactor, reactor, events, future, fate>>

\* The pipe is moved to another object while the awaiter has its address.
MovePipe(e) ==
    /\ coro[e] = "suspended" /\ e \notin detached
    /\ detached' = detached \cup {e}
    /\ UNCHANGED <<setting, epoll, open, bytes, coro, on_reactor, reactor, events, future,
                   fate>>

-----------------------------------------------------------------------------
(***************************************************************************)
(* The reactor.                                                            *)
(***************************************************************************)

\* process_events is called.
StartReactor ==
    /\ reactor = "off"
    /\ setting = "driver1" => coro["r"] = "suspended"
    /\ reactor' = "on"
    /\ on_reactor' = IF setting = "driver1" THEN {"r"} ELSE on_reactor
    /\ UNCHANGED <<setting, epoll, pipe, coro, events, future, fate>>

\* What epoll has to report of an end: readiness only if asked for, a closed
\* other end always.
Ready(e) == e \in mask /\ IF e = "r" THEN bytes > 0 ELSE bytes < Capacity
Hangup(e) == Other(e) \notin open

Report(e) == [end |-> e, awaiter |-> e \in awaiter, hangup |-> ~Ready(e)]

Idle == reactor = "on" /\ \A e \in on_reactor : ~Active(e)

\* epoll_wait returns: some order of what is ready, at most max_events of it.
EpollWait ==
    /\ Idle /\ events = <<>>
    /\ \E n \in 1..max_events :
         \E s \in Injection(1..n, {e \in registered : Ready(e) \/ Hangup(e)}) :
            events' = [i \in 1..n |-> Report(s[i])]
    /\ UNCHANGED <<setting, epoll, pipe, coro, on_reactor, reactor, future, fate>>

\* io_ready_callback: the awaiter's coroutine is resumed.
Callback(ev) ==
    IF ~ev.awaiter THEN fate' = "null awaiter" /\ UNCHANGED <<coro, on_reactor>>
    ELSE IF coro[ev.end] = "suspended"
    THEN /\ Becomes(ev.end, "resumed")
         /\ on_reactor' = on_reactor \cup {ev.end}
         /\ UNCHANGED fate
    ELSE /\ fate' = IF coro[ev.end] \in {"trying", "written"} THEN "double run"
                    ELSE "stale awaiter"
         /\ UNCHANGED <<coro, on_reactor>>

\* Fault: hang-ups are not passed on.
HandleReadyOnly ==
    /\ Idle /\ events # <<>>
    /\ events' = Tail(events)
    /\ IF Head(events).hangup THEN UNCHANGED <<coro, on_reactor, fate>>
       ELSE Callback(Head(events))
    /\ UNCHANGED <<setting, epoll, pipe, reactor, future>>

\* process_n_events, one turn: readiness and hang-ups are treated alike.
HandleEvent ==
    /\ Idle /\ events # <<>>
    /\ events' = Tail(events)
    /\ Callback(Head(events))
    /\ UNCHANGED <<setting, epoll, pipe, reactor, future>>

\* epoll_wait fails: process_events throws and nobody catches it.
WaitError ==
    /\ Idle /\ events = <<>>
    /\ fate' = "terminated"
    /\ UNCHANGED <<setting, epoll, pipe, coro, on_reactor, reactor, events, future>>

ReactorStep == EpollWait \/ HandleEvent

\* The values an uninitialized size may have, the last for all that exceed the
\* buffer.
Garbage == 0..(BUFFER_SIZE + 1)

ConsumerStep ==
    AwaitRead \/ \E bytes_xfer, len \in Garbage : ResumeRead(bytes_xfer, len)

PipeNext ==
    /\ fate = "running"
    /\ \/ \E e \in Ends : Start(e) \/ MovePipe(e) \/ AwaitThrows(e)
       \/ ConsumerStep \/ CloseReader
       \/ PlainWrite \/ AwaitWrite \/ WriteDone \/ CloseWriter
       \/ \E len \in Garbage : TryWrite(len)
       \/ \E bytes_xfer, len \in Garbage : ResumeWrite(bytes_xfer, len)
       \/ StartReactor \/ ReactorStep \/ WaitError

PipeSpec == PipeInit /\ [][PipeNext]_pipeVars

\* The reactor is started and keeps taking events, the consumer runs.
PipeFairSpec ==
    /\ PipeSpec
    /\ WF_pipeVars(fate = "running" /\ (StartReactor \/ ReactorStep))
    /\ WF_pipeVars(fate = "running" /\ (Start("r") \/ AwaitThrows("r") \/ ConsumerStep))
    /\ WF_pipeVars(fate = "running" /\ (WriteDone \/ \E bytes_xfer, len \in Garbage :
                                        ResumeWrite(bytes_xfer, len)))

-----------------------------------------------------------------------------
\* As long as nobody closes an end, and every coroutine has awaited its pipe
\* before events are processed, as in driver1, no event finds its awaiter gone:
\* a null one is met only when the reactor has a thread of its own, one whose
\* coroutine has ended or gone on only after a hang-up, and one in the middle of
\* await_suspend only when the read end is closed.  Nor does a read overrun the
\* consumer's frame before the producer is gone.
OnlyHangupsBreak ==
    /\ PipeTypeOK
    /\ fate = "null awaiter" => setting = "make_pipe"
    /\ fate = "stale awaiter" => open # Ends
    /\ fate = "double run" => "r" \notin open
    /\ fate = "overrun" => "w" \notin open

\* A consumer is woken once the producer is gone.
HangupWakesConsumer ==
    (coro["r"] = "suspended" /\ "w" \notin open)
        ~> (coro["r"] # "suspended" \/ fate # "running")

\* A consumer is woken when there is data to read, as process_n_events has it where
\* it says "read / write ready", and await_resume where it relies on the reactor's
\* notification.
DataWakesConsumer ==
    (coro["r"] = "suspended" /\ bytes > 0)
        ~> (coro["r"] # "suspended" \/ fate # "running")

=============================================================================
