---------------------------- MODULE AbstractEvent ----------------------------
(***************************************************************************)
(* What a manual-reset event promises: set() releases, in one step, every  *)
(* coroutine waiting at that moment; a coroutine waits only while the      *)
(* event is unset; a released coroutine runs again even if the event is    *)
(* reset before its turn comes.                                            *)
(***************************************************************************)
CONSTANT Consumers

VARIABLES
    isSet,   \* the event is in the set state
    phase    \* "running", "waiting", "released" or "finished"

avars == <<isSet, phase>>

Init ==
    /\ isSet \in BOOLEAN
    /\ phase = [c \in Consumers |-> "running"]

Wait(c) ==
    /\ phase[c] = "running"
    /\ ~isSet
    /\ phase' = [phase EXCEPT ![c] = "waiting"]
    /\ UNCHANGED isSet

SetEvent ==
    /\ isSet' = TRUE
    /\ phase' = [c \in Consumers |->
                    IF phase[c] = "waiting" THEN "released" ELSE phase[c]]

ResetEvent ==
    /\ isSet' = FALSE
    /\ isSet
    /\ UNCHANGED phase

Wake(c) ==
    /\ phase[c] = "released"
    /\ phase' = [phase EXCEPT ![c] = "running"]
    /\ UNCHANGED isSet

Finish(c) ==
    /\ phase[c] = "running"
    /\ phase' = [phase EXCEPT ![c] = "finished"]
    /\ UNCHANGED isSet

Next ==
    \/ \E c \in Consumers : Wait(c) \/ Wake(c) \/ Finish(c)
    \/ SetEvent
    \/ ResetEvent

Spec == Init /\ [][Next]_avars

\* A released coroutine is not left behind.
Fairness == \A c \in Consumers : WF_avars(Wake(c))
=============================================================================
