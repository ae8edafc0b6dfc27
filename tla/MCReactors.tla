----------------------------- MODULE MCReactors -----------------------------
(***************************************************************************)
(* Model checking of the two reactor applications: a program has timers or *)
(* it has pipes, and what it has not stays in its initial state.           *)
(***************************************************************************)
EXTENDS TimerReactor, PipeReactor

VARIABLE app       \* "timers" or "pipes"

ReactorsInit ==
    /\ Init /\ PipeInit
    /\ \/ app = "timers" /\ setting = "driver1"
       \/ app = "pipes" /\ platform = "timerfd" /\ tasks = {1}

ReactorsNext ==
    \/ app = "timers" /\ Next /\ UNCHANGED <<app, pipeVars>>
    \/ app = "pipes" /\ PipeNext /\ UNCHANGED <<app, vars>>

\* The fairness of TimerReactor and of PipeReactor, each of its own application.
ReactorsFairness ==
    /\ WF_vars(app = "timers" /\ undefined = "none" /\ ThreadStep)
    /\ WF_vars(app = "timers" /\ undefined = "none" /\ RunReactor)
    /\ \A k \in Timers : WF_vars(app = "timers" /\ undefined = "none" /\ Expire(k))
    /\ WF_pipeVars(app = "pipes" /\ fate = "running" /\ (StartReactor \/ ReactorStep))
    /\ WF_pipeVars(app = "pipes" /\ fate = "running"
                     /\ (Start("r") \/ AwaitThrows("r") \/ ConsumerStep))
    /\ WF_pipeVars(app = "pipes" /\ fate = "running"
                     /\ (WriteDone \/ \E bytes_xfer, len \in Garbage :
                                          ResumeWrite(bytes_xfer, len)))

ReactorsSpec ==
    ReactorsInit /\ [][ReactorsNext]_<<app, vars, pipeVars>> /\ ReactorsFairness
=============================================================================
