----------------------------- MODULE MCAsyncLock -----------------------------
(***************************************************************************)
(* Model checking of AsyncLock: the waiting line as a sequence.            *)
(***************************************************************************)
EXTENDS AsyncLock, FiniteSets, SequencesExt

\* A program has finitely many coroutines.
ASSUME FiniteAssumption == IsFiniteSet(Coroutines)

\* The awaiters linked from pointer p, following next_awaiter; at most
\* Cardinality(Coroutines) + 1 of them, so that a cycle shows as a duplicate.
Chain(p) ==
    LET walk[n \in Nat] ==
            IF n = 0 THEN IF p \in Coroutines THEN <<p>> ELSE <<>>
            ELSE LET q == walk[n - 1]
                 IN  IF q # <<>> /\ next_awaiter[Last(q)] \in Coroutines
                     THEN Append(q, next_awaiter[Last(q)])
                     ELSE q
    IN  walk[Cardinality(Coroutines)]

\* The queue proper: while a release() has transferred or is about to replace
\* it, that is its local list, preceded by what is still to be reversed.
QueueOf(c) ==
    IF pc[c] = "reversing" THEN Reverse(Chain(current[c])) \o Chain(awaiters_head[c])
    ELSE Chain(awaiters_head[c])

Queue ==
    IF \E c \in Coroutines : pc[c] \in {"reversing", "handoff"}
    THEN QueueOf(CHOOSE c \in Coroutines : pc[c] \in {"reversing", "handoff"})
    ELSE Chain(awaiters)

\* Everyone who waits for the lock, in the order they will get it.
WaitingLine == Queue \o Reverse(Chain(state))

\* The waiting line holds every suspended coroutine, once, and nobody else: no
\* awaiter is lost between the stack, the reversal and the queue, none is
\* linked twice, and no pointer leads to a coroutine that runs.
WaitingLineIsExact ==
    /\ ToSet(WaitingLine) = {c \in Coroutines : pc[c] = "suspended"}
    /\ IsInjective(WaitingLine)

\* Coroutines stand in line in the order in which await_suspend pushed them: the
\* line grows at its end and shrinks at its front, whatever release() is in the
\* middle of: the reversal, while others push, lets nobody overtake.
FifoOrder ==
    [][ \/ WaitingLine' = WaitingLine
        \/ \E c \in Coroutines : WaitingLine' = Append(WaitingLine, c)
        \/ WaitingLine # <<>> /\ WaitingLine' = Tail(WaitingLine) ]_vars
=============================================================================
