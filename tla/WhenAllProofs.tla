---------------------------- MODULE WhenAllProofs ----------------------------
(***************************************************************************)
(* For any number of tasks and any bound on their suspensions: the counter *)
(* is exact, the parent goes on only after every task, and a coroutine is  *)
(* resumed wrongly only where a task was awaited while a source had it.    *)
(***************************************************************************)
EXTENDS WhenAll, FiniteSetTheorems, TLAPS

Active == {"running", "finishing"}

\* A body has been created once the parent's first loop is past it, and is gone
\* only when the parent left the co_await.
BodyPlace ==
    \A t \in Tasks :
        /\ body[t] = "unborn" =>
              parent = "creating" /\ i <= t /\ runner[t] = "creator"
        /\ parent = "creating" => sub[t] = "initial"
        /\ body[t] = "destroyed" => parent = "left"

\* Whoever resumed a body is still below it on the stack.
RunnerWaits ==
    \A t \in Tasks :
        /\ body[t] \in Active /\ runner[t] = "creator" => parent = "creating" /\ i = t
        /\ body[t] \in Active /\ runner[t] = "awaiter" => sub[t] = "awaiting"
        /\ sub[t] = "awaiting" => body[t] \in Active /\ runner[t] = "awaiter"

\* The parent's second loop: the coroutine it is at runs on its stack, those
\* before have suspended or ended, those behind are not started.
LoopPlace ==
    /\ parent \notin {"creating", "starting"} => i = N + 1
    /\ parent # "creating" =>
         \A t \in Tasks :
            /\ t < i => \/ sub[t] \in {"suspended", "ended"}
                        \/ sub[t] \in {"resuming", "final"} /\ ~on_parent[t]
            /\ t = i => \/ sub[t] \in {"initial", "awaiting", "linking"}
                        \/ sub[t] \in {"resuming", "final"} /\ on_parent[t]
            /\ t > i => sub[t] = "initial"
    /\ \A t \in Tasks : sub[t] \in {"initial", "awaiting", "linking"} => on_parent[t]

\* The flag of a promise: set by the body that completed, or by the coroutine
\* that suspended before it did.
FlagMeans ==
    \A t \in Tasks :
        /\ body[t] \in {"done", "destroyed"} => state[t]
        /\ state[t] => body[t] \in {"done", "destroyed"} \/ sub[t] = "suspended"
        /\ sub[t] = "suspended" => state[t] /\ body[t] # "done"

\* A coroutine that got past its co_await did so because the task completed.
PastMeansDone ==
    \A t \in Tasks : sub[t] \in {"resuming", "final", "ended"} =>
        body[t] \in {"done", "destroyed"} \/ t \in stolen

\* A source holds the handle of a body exactly while the body is suspended on
\* it, unless the task was awaited meanwhile.
HandleMeansRegistered ==
    \A t \in Tasks :
        /\ pending[t] <= suspends[t]
        /\ t \notin stolen /\ body[t] # "registered" => pending[t] = 0
        /\ t \notin stolen /\ body[t] = "registered" => pending[t] = 1

ParentPlace ==
    /\ awaiting_coro <=> parent \notin {"creating", "starting"}
    /\ parent \in {"resumed", "left"} => \A t \in Tasks : sub[t] = "ended"

\* What holds until the program terminates or its behaviour is undefined.
Orderly == BodyPlace /\ RunnerWaits /\ LoopPlace /\ FlagMeans /\ PastMeansDone
              /\ HandleMeansRegistered /\ ParentPlace

IInv == CountIsExact /\ OnlyStolenBreaks /\ (fate = "running" => Orderly)

-----------------------------------------------------------------------------
\* A step after which the same intermediaries have ended keeps the count.
LEMMA SameCount ==
    ASSUME CountIsExact, TypeOK', count' = count,
           \A t \in Tasks : sub'[t] = "ended" <=> sub[t] = "ended",
           parent' \in {"suspended", "resumed", "left"} <=>
              parent \in {"suspended", "resumed", "left"}
    PROVE  CountIsExact'
<1>1. {t \in Tasks : sub'[t] # "ended"} = {t \in Tasks : sub[t] # "ended"}
  OBVIOUS
<1> QED BY <1>1 DEF CountIsExact

\* The number of intermediaries that have not ended.
LEMMA OpenCount ==
    /\ IsFiniteSet({t \in Tasks : sub[t] # "ended"})
    /\ Cardinality({t \in Tasks : sub[t] # "ended"}) \in Nat
<1>1. IsFiniteSet(Tasks)
  BY FS_Interval, WhenAllAssumption DEF Tasks
<1>2. IsFiniteSet({t \in Tasks : sub[t] # "ended"})
  BY <1>1, FS_Subset
<1> QED BY <1>2, FS_CardinalityType

\* A body that gives up its thread returns to the loop that created it, or to
\* the intermediary that awaits it, or to a source.
LEMMA ReturnCases ==
    ASSUME IInv, fate = "running", NEW t \in Tasks, body[t] \in Active, BodyReturns(t)
    PROVE  \/ /\ runner[t] = "creator" /\ parent = "creating" /\ i = t
              /\ i' = i + 1 /\ sub' = sub
           \/ /\ runner[t] = "awaiter" /\ sub[t] = "awaiting"
              /\ i' = i /\ sub' = [sub EXCEPT ![t] = "linking"]
           \/ runner[t] = "source" /\ i' = i /\ sub' = sub
BY DEF IInv, Orderly, RunnerWaits, BodyReturns, CountIsExact, TypeOK

\* tasks.push_back(bar()) starts the body on the parent's stack.
LEMMA CreateTaskStep ==
    ASSUME IInv, fate = "running", CreateTask
    PROVE  IInv'
<1> USE WhenAllAssumption
       DEF CreateTask, IInv, Orderly, CountIsExact, TypeOK, taskVars
<1>1. TypeOK'
  BY DEF Tasks, BodyPlace, LoopPlace
<1>2. CountIsExact'
  BY <1>1, SameCount
<1>3. OnlyStolenBreaks'
  BY DEF OnlyStolenBreaks
<1>4. ASSUME fate' = "running" PROVE Orderly'
  <2>1. BodyPlace'
    BY <1>4 DEF BodyPlace, Tasks
  <2>2. RunnerWaits'
    BY <1>4 DEF RunnerWaits, Active, BodyPlace, Tasks
  <2>3. LoopPlace'
    BY <1>4 DEF LoopPlace, Tasks
  <2>4. FlagMeans'
    BY <1>4 DEF FlagMeans
  <2>5. PastMeansDone'
    BY <1>4 DEF PastMeansDone
  <2>6. HandleMeansRegistered'
    BY <1>4 DEF HandleMeansRegistered
  <2>7. ParentPlace'
    BY <1>4 DEF ParentPlace
  <2> QED BY <2>1, <2>2, <2>3, <2>4, <2>5, <2>6, <2>7
<1> QED BY <1>2, <1>3, <1>4

\* A body returns to the intermediary that resumed it, on the parent's stack.
LEMMA AwaiterBack ==
    ASSUME TypeOK, LoopPlace, NEW t \in Tasks,
           sub[t] = "awaiting", sub' = [sub EXCEPT ![t] = "linking"],
           UNCHANGED <<i, parent, on_parent>>
    PROVE  LoopPlace'
BY DEF TypeOK, LoopPlace

\* A body that completes resumes an intermediary the loop has left behind.
LEMMA Continued ==
    ASSUME TypeOK, LoopPlace, NEW t \in Tasks,
           sub[t] = "suspended", sub' = [sub EXCEPT ![t] = "resuming"],
           on_parent' = [on_parent EXCEPT ![t] = FALSE],
           UNCHANGED <<i, parent>>
    PROVE  LoopPlace'
BY DEF TypeOK, LoopPlace

\* A body parks: whoever resumed it goes on.
LEMMA ParkStep ==
    ASSUME IInv, fate = "running", NEW t \in Tasks, Park(t)
    PROVE  IInv'
<1> USE WhenAllAssumption
       DEF Park, IInv, Orderly, CountIsExact, TypeOK, taskVars
<1>0. \/ /\ runner[t] = "creator" /\ parent = "creating" /\ i = t
         /\ i' = i + 1 /\ sub' = sub
      \/ /\ runner[t] = "awaiter" /\ sub[t] = "awaiting"
         /\ i' = i /\ sub' = [sub EXCEPT ![t] = "linking"]
      \/ runner[t] = "source" /\ i' = i /\ sub' = sub
  BY ReturnCases DEF Active
<1>1. TypeOK'
  <2>0. i \in 1..(N + 1) /\ t \in 1..N
    BY DEF Tasks
  <2>1. i' \in 1..(N + 1)
    BY <1>0, <2>0
  <2>9. sub' \in [Tasks -> {"initial", "awaiting", "linking", "suspended",
                          "resuming", "final", "ended"}]
    BY <1>0
  <2>2. suspends' \in [Tasks -> 0..MaxSuspends]
    OBVIOUS
  <2> QED BY <2>1, <2>2, <2>9
<1>2. CountIsExact'
  BY <1>0, <1>1, SameCount
<1>3. OnlyStolenBreaks'
  BY DEF OnlyStolenBreaks
<1>4. ASSUME fate' = "running" PROVE Orderly'
  <2>1. BodyPlace'
    BY <1>0, <1>4, SMTT(30) DEF BodyPlace, Tasks
  <2>2. RunnerWaits'
    BY <1>0, <1>4 DEF RunnerWaits, Active
  <2>3. LoopPlace'
    <3>1. CASE runner[t] = "creator"
      BY <1>0, <1>4, <3>1 DEF LoopPlace, Tasks
    <3>2. CASE runner[t] = "awaiter"
      <4>1. LoopPlace /\ TypeOK /\ UNCHANGED <<i, parent, on_parent>>
            /\ sub[t] = "awaiting" /\ sub' = [sub EXCEPT ![t] = "linking"]
        BY <1>0, <3>2
      <4> HIDE DEF TypeOK
      <4> QED BY <4>1, AwaiterBack
    <3>3. CASE runner[t] = "source"
      BY <1>0, <1>4, <3>3 DEF LoopPlace, Tasks
    <3> QED BY <3>1, <3>2, <3>3
  <2>4. FlagMeans'
    BY <1>0, <1>4 DEF FlagMeans
  <2>5. PastMeansDone'
    BY <1>0, <1>4 DEF PastMeansDone
  <2>6. HandleMeansRegistered'
    BY <1>0, <1>4 DEF HandleMeansRegistered
  <2>7. ParentPlace'
    BY <1>0, <1>4 DEF ParentPlace
  <2> QED BY <2>1, <2>2, <2>3, <2>4, <2>5, <2>6, <2>7
<1> QED BY <1>2, <1>3, <1>4

\* A body leaves its handle with a source.
LEMMA RegisterStep ==
    ASSUME IInv, fate = "running", NEW t \in Tasks, Register(t)
    PROVE  IInv'
<1> USE WhenAllAssumption
       DEF Register, IInv, Orderly, CountIsExact, TypeOK, taskVars
<1>0. \/ /\ runner[t] = "creator" /\ parent = "creating" /\ i = t
         /\ i' = i + 1 /\ sub' = sub
      \/ /\ runner[t] = "awaiter" /\ sub[t] = "awaiting"
         /\ i' = i /\ sub' = [sub EXCEPT ![t] = "linking"]
      \/ runner[t] = "source" /\ i' = i /\ sub' = sub
  BY ReturnCases DEF Active
<1>1. TypeOK'
  <2>0. i \in 1..(N + 1) /\ t \in 1..N
    BY DEF Tasks
  <2>1. i' \in 1..(N + 1)
    BY <1>0, <2>0
  <2>9. sub' \in [Tasks -> {"initial", "awaiting", "linking", "suspended",
                          "resuming", "final", "ended"}]
    BY <1>0
  <2>2. suspends' \in [Tasks -> 0..MaxSuspends]
    OBVIOUS
  <2>3. pending' \in [Tasks -> 0..MaxSuspends]
    BY DEF HandleMeansRegistered
  <2> QED BY <2>1, <2>2, <2>3, <2>9
<1>2. CountIsExact'
  BY <1>0, <1>1, SameCount
<1>3. OnlyStolenBreaks'
  BY DEF OnlyStolenBreaks
<1>4. ASSUME fate' = "running" PROVE Orderly'
  <2>1. BodyPlace'
    <3>1. CASE runner[t] = "creator"
      BY <1>0, <1>4, <3>1 DEF BodyPlace, Tasks
    <3>2. CASE runner[t] = "awaiter"
      BY <1>0, <1>4, <3>2 DEF BodyPlace, Tasks
    <3>3. CASE runner[t] = "source"
      BY <1>0, <1>4, <3>3 DEF BodyPlace, Tasks
    <3> QED BY <3>1, <3>2, <3>3
  <2>2. RunnerWaits'
    BY <1>0, <1>4 DEF RunnerWaits, Active
  <2>3. LoopPlace'
    BY <1>0, <1>4 DEF LoopPlace, Tasks
  <2>4. FlagMeans'
    BY <1>0, <1>4 DEF FlagMeans
  <2>5. PastMeansDone'
    BY <1>0, <1>4 DEF PastMeansDone
  <2>6. HandleMeansRegistered'
    BY <1>0, <1>4 DEF HandleMeansRegistered
  <2>7. ParentPlace'
    BY <1>0, <1>4 DEF ParentPlace
  <2> QED BY <2>1, <2>2, <2>3, <2>4, <2>5, <2>6, <2>7
<1> QED BY <1>2, <1>3, <1>4

\* A body ends, and has yet to meet its continuation.
LEMMA EndBodyStep ==
    ASSUME IInv, fate = "running", NEW t \in Tasks, EndBody(t)
    PROVE  IInv'
<1> USE WhenAllAssumption
       DEF EndBody, IInv, Orderly, CountIsExact, TypeOK, taskVars
<1>1. TypeOK'
  BY DEF Tasks, BodyPlace, LoopPlace
<1>2. CountIsExact'
  BY <1>1, SameCount
<1>3. OnlyStolenBreaks'
  BY DEF OnlyStolenBreaks
<1>4. ASSUME fate' = "running" PROVE Orderly'
  <2>1. BodyPlace'
    BY <1>4 DEF BodyPlace, Tasks
  <2>2. RunnerWaits'
    BY <1>4 DEF RunnerWaits, Active
  <2>3. LoopPlace'
    BY <1>4 DEF LoopPlace, Tasks
  <2>4. FlagMeans'
    BY <1>4 DEF FlagMeans
  <2>5. PastMeansDone'
    BY <1>4 DEF PastMeansDone
  <2>6. HandleMeansRegistered'
    BY <1>4 DEF HandleMeansRegistered
  <2>7. ParentPlace'
    BY <1>4 DEF ParentPlace
  <2> QED BY <2>1, <2>2, <2>3, <2>4, <2>5, <2>6, <2>7
<1> QED BY <1>2, <1>3, <1>4

\* The exchange of final_awaitable: a flag that is already set was set by the
\* intermediary that suspended.
LEMMA FinalSuspendStep ==
    ASSUME IInv, fate = "running", NEW t \in Tasks, FinalSuspend(t)
    PROVE  IInv'
<1> USE WhenAllAssumption
       DEF FinalSuspend, IInv, Orderly, CountIsExact, TypeOK, taskVars
<1>0. \/ /\ state[t] /\ sub[t] = "suspended" /\ i' = i /\ fate' = fate
         /\ sub' = [sub EXCEPT ![t] = "resuming"]
         /\ on_parent' = [on_parent EXCEPT ![t] = FALSE]
      \/ /\ ~state[t] /\ on_parent' = on_parent /\ fate' = fate
         /\ \/ /\ runner[t] = "creator" /\ parent = "creating" /\ i = t
               /\ i' = i + 1 /\ sub' = sub
            \/ /\ runner[t] = "awaiter" /\ sub[t] = "awaiting"
               /\ i' = i /\ sub' = [sub EXCEPT ![t] = "linking"]
            \/ runner[t] = "source" /\ i' = i /\ sub' = sub
  <2>1. CASE state[t]
    BY <2>1 DEF FlagMeans
  <2>2. CASE ~state[t]
    BY <2>2, ReturnCases DEF Active
  <2> QED BY <2>1, <2>2
<1>1. TypeOK'
  <2>0. i \in 1..(N + 1) /\ t \in 1..N
    BY DEF Tasks
  <2>1. i' \in 1..(N + 1)
    BY <1>0, <2>0
  <2>9. sub' \in [Tasks -> {"initial", "awaiting", "linking", "suspended",
                          "resuming", "final", "ended"}]
    BY <1>0
  <2> QED BY <2>1, <2>9
<1>2. CountIsExact'
  BY <1>0, <1>1, SameCount DEF FlagMeans
<1>3. OnlyStolenBreaks'
  BY DEF OnlyStolenBreaks, FlagMeans
<1>4. ASSUME fate' = "running" PROVE Orderly'
  <2>1. BodyPlace'
    <3>0. CASE state[t]
      BY <1>0, <1>4, <3>0 DEF BodyPlace, Tasks
    <3>1. CASE ~state[t] /\ runner[t] = "creator"
      BY <1>0, <1>4, <3>1 DEF BodyPlace, Tasks
    <3>2. CASE ~state[t] /\ runner[t] = "awaiter"
      BY <1>0, <1>4, <3>2 DEF BodyPlace, Tasks
    <3>3. CASE ~state[t] /\ runner[t] = "source"
      BY <1>0, <1>4, <3>3, SMTT(30) DEF BodyPlace, Tasks
    <3> QED BY <3>0, <3>1, <3>2, <3>3
  <2>2. RunnerWaits'
    BY <1>0, <1>4 DEF RunnerWaits, Active
  <2>3. LoopPlace'
    <3>0. CASE state[t]
      <4>1. LoopPlace /\ TypeOK /\ UNCHANGED <<i, parent>> /\ sub[t] = "suspended"
            /\ sub' = [sub EXCEPT ![t] = "resuming"]
            /\ on_parent' = [on_parent EXCEPT ![t] = FALSE]
        BY <1>0, <3>0
      <4> HIDE DEF TypeOK
      <4> QED BY <4>1, Continued
    <3>1. CASE ~state[t] /\ runner[t] = "creator"
      BY <1>0, <1>4, <3>1 DEF LoopPlace, Tasks
    <3>2. CASE ~state[t] /\ runner[t] = "awaiter"
      <4>1. LoopPlace /\ TypeOK /\ UNCHANGED <<i, parent, on_parent>>
            /\ sub[t] = "awaiting" /\ sub' = [sub EXCEPT ![t] = "linking"]
        BY <1>0, <3>2
      <4> HIDE DEF TypeOK
      <4> QED BY <4>1, AwaiterBack
    <3>3. CASE ~state[t] /\ runner[t] = "source"
      BY <1>0, <1>4, <3>3 DEF LoopPlace, Tasks
    <3> QED BY <3>0, <3>1, <3>2, <3>3
  <2>4. FlagMeans'
    BY <1>0, <1>4 DEF FlagMeans
  <2>5. PastMeansDone'
    BY <1>0, <1>4 DEF PastMeansDone
  <2>6. HandleMeansRegistered'
    BY <1>0, <1>4 DEF HandleMeansRegistered
  <2>7. ParentPlace'
    BY <1>0, <1>4 DEF ParentPlace
  <2> QED BY <2>1, <2>2, <2>3, <2>4, <2>5, <2>6, <2>7
<1> QED BY <1>2, <1>3, <1>4

\* A source resumes a handle: wrongly only if the task was awaited meanwhile.
LEMMA FireStep ==
    ASSUME IInv, fate = "running", NEW t \in Tasks, Fire(t)
    PROVE  IInv'
<1> USE WhenAllAssumption
       DEF Fire, IInv, Orderly, CountIsExact, TypeOK, taskVars
<1>1. TypeOK'
  <2>1. pending' \in [Tasks -> 0..MaxSuspends]
    OBVIOUS
  <2> QED BY <2>1
<1>2. CountIsExact'
  BY <1>1, SameCount
<1>3. OnlyStolenBreaks'
  BY DEF OnlyStolenBreaks, HandleMeansRegistered
<1>4. ASSUME fate' = "running" PROVE Orderly'
  <2>1. BodyPlace'
    BY <1>4, SMTT(30) DEF BodyPlace, Tasks
  <2>2. RunnerWaits'
    BY <1>4 DEF RunnerWaits, Active
  <2>3. LoopPlace'
    BY <1>4 DEF LoopPlace, Tasks
  <2>4. FlagMeans'
    BY <1>4 DEF FlagMeans
  <2>5. PastMeansDone'
    BY <1>4 DEF PastMeansDone
  <2>6. HandleMeansRegistered'
    BY <1>4 DEF HandleMeansRegistered
  <2>7. ParentPlace'
    BY <1>4 DEF ParentPlace
  <2> QED BY <2>1, <2>2, <2>3, <2>4, <2>5, <2>6, <2>7
<1> QED BY <1>2, <1>3, <1>4

\* The intermediary finds its task complete.
LEMMA StartReadyStep ==
    ASSUME IInv, fate = "running", StartReady
    PROVE  IInv'
<1> USE WhenAllAssumption
       DEF StartReady, Starting, IInv, Orderly, CountIsExact, TypeOK, taskVars
<1>1. TypeOK'
  BY DEF Tasks, BodyPlace, LoopPlace
<1>2. CountIsExact'
  BY <1>1, SameCount
<1>3. OnlyStolenBreaks'
  BY DEF OnlyStolenBreaks
<1>4. ASSUME fate' = "running" PROVE Orderly'
  <2>1. BodyPlace'
    BY <1>4 DEF BodyPlace, Tasks
  <2>2. RunnerWaits'
    BY <1>4 DEF RunnerWaits, Active
  <2>3. LoopPlace'
    BY <1>4 DEF LoopPlace, Tasks
  <2>4. FlagMeans'
    BY <1>4 DEF FlagMeans
  <2>5. PastMeansDone'
    BY <1>4 DEF PastMeansDone
  <2>6. HandleMeansRegistered'
    BY <1>4 DEF HandleMeansRegistered
  <2>7. ParentPlace'
    BY <1>4 DEF ParentPlace
  <2> QED BY <2>1, <2>2, <2>3, <2>4, <2>5, <2>6, <2>7
<1> QED BY <1>2, <1>3, <1>4

\* The intermediary resumes the body.
LEMMA StartPendingStep ==
    ASSUME IInv, fate = "running", StartPending
    PROVE  IInv'
<1> USE WhenAllAssumption
       DEF StartPending, Starting, IInv, Orderly, CountIsExact, TypeOK, taskVars
<1>1. TypeOK'
  BY DEF Tasks, BodyPlace, LoopPlace
<1>2. CountIsExact'
  BY <1>1, SameCount
<1>3. OnlyStolenBreaks'
  BY DEF OnlyStolenBreaks
<1>4. ASSUME fate' = "running" PROVE Orderly'
  <2>1. BodyPlace'
    BY <1>4 DEF BodyPlace, Tasks
  <2>2. RunnerWaits'
    BY <1>4 DEF RunnerWaits, Active
  <2>3. LoopPlace'
    BY <1>4 DEF LoopPlace, Tasks
  <2>4. FlagMeans'
    BY <1>4 DEF FlagMeans
  <2>5. PastMeansDone'
    BY <1>4 DEF PastMeansDone
  <2>6. HandleMeansRegistered'
    BY <1>4 DEF HandleMeansRegistered
  <2>7. ParentPlace'
    BY <1>4 DEF ParentPlace
  <2> QED BY <2>1, <2>2, <2>3, <2>4, <2>5, <2>6, <2>7
<1> QED BY <1>2, <1>3, <1>4

\* The exchange of try_set_continuation: a flag that is already set was set by
\* the body that completed.
LEMMA TrySetContinuationStep ==
    ASSUME IInv, fate = "running", NEW t \in Tasks, try_set_continuation(t)
    PROVE  IInv'
<1> USE WhenAllAssumption
       DEF try_set_continuation, IInv, Orderly, CountIsExact, TypeOK, taskVars
<1>1. TypeOK'
  <2>1. i \in Tasks
    BY SMTT(30) DEF BodyPlace, LoopPlace, Tasks
  <2>2. i' \in 1..(N + 1)
    BY <2>1 DEF Tasks
  <2> QED BY <2>2
<1>2. CountIsExact'
  BY <1>1, SameCount
<1>3. OnlyStolenBreaks'
  BY DEF OnlyStolenBreaks
<1>4. ASSUME fate' = "running" PROVE Orderly'
  <2>1. BodyPlace'
    BY <1>4 DEF BodyPlace, Tasks
  <2>2. RunnerWaits'
    <3>1. CASE state[t]
      BY <1>4, <3>1 DEF RunnerWaits, Active
    <3>2. CASE ~state[t]
      <4>1. sub' = [sub EXCEPT ![t] = "suspended"] /\ body' = body
            /\ runner' = runner /\ parent' = parent /\ sub[t] = "linking"
            /\ i' = IF parent = "creating" THEN i ELSE i + 1
        BY <3>2 DEF BodyPlace
      <4> QED BY <4>1 DEF RunnerWaits, Active
    <3> QED BY <3>1, <3>2
  <2>3. LoopPlace'
    <3>1. CASE state[t]
      BY <1>4, <3>1 DEF LoopPlace, Tasks, BodyPlace
    <3>2. CASE ~state[t]
      <4>0. /\ sub[t] = "linking" /\ BodyPlace /\ LoopPlace
            /\ i \in 1..(N + 1) /\ t \in 1..N
        BY DEF Tasks
      <4>1. parent # "creating" /\ t = i /\ i \in Nat
        <5> HIDE DEF try_set_continuation, IInv, Orderly, CountIsExact, TypeOK, taskVars
        <5>1. parent # "creating"
          BY <4>0 DEF BodyPlace
        <5>2. ~(t < i) /\ ~(t > i)
          BY <4>0, <5>1 DEF LoopPlace
        <5> QED BY <4>0, <5>1, <5>2
      <4>2. /\ i' = i + 1 /\ parent' = parent /\ on_parent' = on_parent
            /\ sub'[t] = "suspended" /\ \A u \in Tasks : u # t => sub'[u] = sub[u]
            /\ sub[t] = "linking"
        BY <3>2
      <4>3. parent = "starting"
        BY <4>1 DEF LoopPlace, Tasks
      <4>4. LoopPlace
        OBVIOUS
      <4> HIDE DEF try_set_continuation, IInv, Orderly, CountIsExact, TypeOK, taskVars
      <4> QED BY <4>1, <4>2, <4>3, <4>4 DEF LoopPlace, Tasks
    <3> QED BY <3>1, <3>2
  <2>4. FlagMeans'
    BY <1>4 DEF FlagMeans
  <2>5. PastMeansDone'
    <3>1. CASE state[t]
      BY <1>4, <3>1 DEF PastMeansDone, FlagMeans
    <3>2. CASE ~state[t]
      BY <1>4, <3>2 DEF PastMeansDone, FlagMeans
    <3> QED BY <3>1, <3>2
  <2>6. HandleMeansRegistered'
    BY <1>4 DEF HandleMeansRegistered
  <2>7. ParentPlace'
    BY <1>4 DEF ParentPlace
  <2> QED BY <2>1, <2>2, <2>3, <2>4, <2>5, <2>6, <2>7
<1> QED BY <1>2, <1>3, <1>4

\* await_resume of the intermediary.
LEMMA AwaitResumeStep ==
    ASSUME IInv, fate = "running", NEW t \in Tasks, AwaitResume(t)
    PROVE  IInv'
<1> USE WhenAllAssumption
       DEF AwaitResume, IInv, Orderly, CountIsExact, TypeOK, taskVars
<1>1. TypeOK'
  BY DEF Tasks, BodyPlace, LoopPlace
<1>2. CountIsExact'
  BY <1>1, SameCount
<1>3. OnlyStolenBreaks'
  BY DEF OnlyStolenBreaks
<1>4. ASSUME fate' = "running" PROVE Orderly'
  <2>1. BodyPlace'
    BY <1>4 DEF BodyPlace, Tasks
  <2>2. RunnerWaits'
    BY <1>4 DEF RunnerWaits, Active
  <2>3. LoopPlace'
    BY <1>4 DEF LoopPlace, Tasks
  <2>4. FlagMeans'
    BY <1>4 DEF FlagMeans
  <2>5. PastMeansDone'
    BY <1>4 DEF PastMeansDone
  <2>6. HandleMeansRegistered'
    BY <1>4 DEF HandleMeansRegistered
  <2>7. ParentPlace'
    BY <1>4 DEF ParentPlace
  <2> QED BY <2>1, <2>2, <2>3, <2>4, <2>5, <2>6, <2>7
<1> QED BY <1>2, <1>3, <1>4

\* The parent begins to start the intermediaries.
LEMMA BeginStartStep ==
    ASSUME IInv, fate = "running", BeginStart
    PROVE  IInv'
<1> USE WhenAllAssumption
       DEF BeginStart, IInv, Orderly, CountIsExact, TypeOK, taskVars
<1>1. TypeOK'
  BY DEF Tasks, BodyPlace, LoopPlace
<1>2. CountIsExact'
  BY <1>1, SameCount
<1>3. OnlyStolenBreaks'
  BY DEF OnlyStolenBreaks
<1>4. ASSUME fate' = "running" PROVE Orderly'
  <2>1. BodyPlace'
    BY <1>4 DEF BodyPlace, Tasks
  <2>2. RunnerWaits'
    BY <1>4 DEF RunnerWaits, Active, Tasks
  <2>3. LoopPlace'
    BY <1>4 DEF LoopPlace, Tasks, BodyPlace
  <2>4. FlagMeans'
    BY <1>4 DEF FlagMeans
  <2>5. PastMeansDone'
    BY <1>4 DEF PastMeansDone
  <2>6. HandleMeansRegistered'
    BY <1>4 DEF HandleMeansRegistered
  <2>7. ParentPlace'
    BY <1>4 DEF ParentPlace
  <2> QED BY <2>1, <2>2, <2>3, <2>4, <2>5, <2>6, <2>7
<1> QED BY <1>2, <1>3, <1>4

\* The parent stores its handle.
LEMMA StoreHandleStep ==
    ASSUME IInv, fate = "running", StoreHandle
    PROVE  IInv'
<1> USE WhenAllAssumption
       DEF StoreHandle, IInv, Orderly, CountIsExact, TypeOK, taskVars
<1>1. TypeOK'
  BY DEF Tasks, BodyPlace, LoopPlace
<1>2. CountIsExact'
  BY <1>1, SameCount
<1>3. OnlyStolenBreaks'
  BY DEF OnlyStolenBreaks
<1>4. ASSUME fate' = "running" PROVE Orderly'
  <2>1. BodyPlace'
    BY <1>4 DEF BodyPlace, Tasks
  <2>2. RunnerWaits'
    BY <1>4 DEF RunnerWaits, Active
  <2>3. LoopPlace'
    BY <1>4 DEF LoopPlace, Tasks
  <2>4. FlagMeans'
    BY <1>4 DEF FlagMeans
  <2>5. PastMeansDone'
    BY <1>4 DEF PastMeansDone
  <2>6. HandleMeansRegistered'
    BY <1>4 DEF HandleMeansRegistered
  <2>7. ParentPlace'
    BY <1>4 DEF ParentPlace
  <2> QED BY <2>1, <2>2, <2>3, <2>4, <2>5, <2>6, <2>7
<1> QED BY <1>2, <1>3, <1>4

\* The parent leaves the co_await.
LEMMA DestroyTasksStep ==
    ASSUME IInv, fate = "running", DestroyTasks
    PROVE  IInv'
<1> USE WhenAllAssumption
       DEF DestroyTasks, IInv, Orderly, CountIsExact, TypeOK, taskVars
<1>1. TypeOK'
  BY DEF Tasks, BodyPlace, LoopPlace
<1>2. CountIsExact'
  BY <1>1, SameCount
<1>3. OnlyStolenBreaks'
  <2>1. \A t \in Tasks : body[t] = "done" \/ t \in stolen
    BY DEF PastMeansDone, ParentPlace, BodyPlace
  <2> QED BY <2>1 DEF OnlyStolenBreaks
<1>4. ASSUME fate' = "running" PROVE Orderly'
  <2>1. BodyPlace'
    BY <1>4 DEF BodyPlace, Tasks
  <2>2. RunnerWaits'
    BY <1>4 DEF RunnerWaits, Active
  <2>3. LoopPlace'
    BY <1>4 DEF LoopPlace, Tasks
  <2>4. FlagMeans'
    BY <1>4 DEF FlagMeans
  <2>5. PastMeansDone'
    BY <1>4 DEF PastMeansDone
  <2>6. HandleMeansRegistered'
    BY <1>4 DEF HandleMeansRegistered
  <2>7. ParentPlace'
    BY <1>4 DEF ParentPlace
  <2> QED BY <2>1, <2>2, <2>3, <2>4, <2>5, <2>6, <2>7
<1> QED BY <1>2, <1>3, <1>4

\* notify_task_completion counts one intermediary out; the one that brings the
\* counter to zero finds the parent suspended, its handle stored.
LEMMA NotifyStep ==
    ASSUME IInv, fate = "running", NEW t \in Tasks, notify_task_completion(t)
    PROVE  IInv'
<1> USE WhenAllAssumption DEF IInv, Orderly, TypeOK
<1> DEFINE Open == {x \in Tasks : sub[x] # "ended"}
<1>0. /\ sub[t] = "final"
      /\ sub' = [sub EXCEPT ![t] = "ended"]
      /\ count' = count - 1
      /\ i' = IF on_parent[t] THEN i + 1 ELSE i
      /\ UNCHANGED <<eager, taskVars, on_parent, awaiting_coro, stolen>>
  BY DEF notify_task_completion
<1>1. /\ IsFiniteSet(Open) /\ Cardinality(Open) \in Nat /\ t \in Open
      /\ Cardinality(Open \ {t}) = Cardinality(Open) - 1
      /\ Cardinality(Open \ {t}) \in Nat
  <2>1. IsFiniteSet(Open) /\ Cardinality(Open) \in Nat
    BY OpenCount
  <2>2. t \in Open
    BY <1>0 DEF CountIsExact
  <2> HIDE DEF Open
  <2> QED BY <2>1, <2>2, FS_RemoveElement, FS_CardinalityType
<1>2. Open' = Open \ {t}
  BY <1>0 DEF CountIsExact
<1>3. count = Cardinality(Open)
        + (IF parent \in {"suspended", "resumed", "left"} THEN 0 ELSE 1)
  BY DEF CountIsExact
<1>4. parent \notin {"resumed", "left"}
  BY <1>0 DEF ParentPlace
<1>5. CASE count = 1
  <2>0. parent' = "resumed"
        /\ fate' = IF parent = "suspended" /\ awaiting_coro THEN fate ELSE "undefined"
    BY <1>5 DEF notify_task_completion
  <2>1. Cardinality(Open) = 1 /\ parent = "suspended"
    <3> HIDE DEF Open
    <3> QED BY <1>1, <1>3, <1>4, <1>5
  <2>2. awaiting_coro /\ fate' = "running" /\ i = N + 1
    BY <2>0, <2>1 DEF ParentPlace, LoopPlace
  <2>3. \A x \in Tasks : sub'[x] = "ended"
    <3>1. Cardinality(Open \ {t}) = 0
      BY <1>1, <2>1
    <3>2. IsFiniteSet(Open \ {t})
      BY <1>1, FS_Subset
    <3>3. Open \ {t} = {}
      BY <3>1, <3>2, FS_EmptySet
    <3> QED BY <3>3, <1>2
  <2>4. ~on_parent[t]
    BY <1>0, <2>1, <2>2, SMTT(30) DEF LoopPlace, CountIsExact, Tasks
  <2>5. i' = i
    BY <2>4, <1>0
  <2>6. CountIsExact'
    <3>1. count' = Cardinality(Open')
      <4> HIDE DEF Open
      <4> QED BY <1>0, <1>1, <1>2, <1>5, <2>1
    <3>2. TypeOK'
      BY <1>0, <1>5, <2>0, <2>2, <2>5 DEF CountIsExact, taskVars
    <3> QED BY <3>1, <3>2, <2>0 DEF CountIsExact
  <2>7. OnlyStolenBreaks'
    BY <2>2 DEF OnlyStolenBreaks
  <2>8. BodyPlace'
    BY <1>0, <2>0, <2>1, <2>3, <2>5 DEF BodyPlace, CountIsExact, taskVars
  <2>9. RunnerWaits'
    BY <1>0, <2>0, <2>1, <2>3, <2>5 DEF RunnerWaits, taskVars, Active, CountIsExact
  <2>10. LoopPlace'
    BY <1>0, <2>0, <2>2, <2>3, <2>5 DEF LoopPlace, Tasks
  <2>11. FlagMeans' /\ PastMeansDone'
    BY <1>0, <2>3 DEF FlagMeans, PastMeansDone, taskVars, CountIsExact
  <2>12. HandleMeansRegistered'
    BY <1>0 DEF HandleMeansRegistered, taskVars
  <2>13. ParentPlace'
    BY <1>0, <2>0, <2>2, <2>3 DEF ParentPlace
  <2> QED BY <2>6, <2>7, <2>8, <2>9, <2>10, <2>11, <2>12, <2>13
<1>6. CASE count # 1
  <2>0. parent' = parent /\ fate' = fate
    BY <1>6 DEF notify_task_completion
  <2>1. parent # "creating"
    BY <1>0 DEF BodyPlace
  <2>2. i' \in 1..(N + 1) /\ (on_parent[t] => i = t) /\ (~on_parent[t] => t < i)
    <3>1. on_parent[t] => i = t
      BY <1>0, <2>1, SMTT(30) DEF LoopPlace, Tasks, CountIsExact
    <3>2. ~on_parent[t] => t < i
      BY <1>0, <2>1, SMTT(30) DEF LoopPlace, Tasks, CountIsExact
    <3>3. i' \in 1..(N + 1)
      BY <1>0, <3>1 DEF CountIsExact, Tasks
    <3> QED BY <3>1, <3>2, <3>3
  <2>3. CountIsExact'
    <3>1. count' = Cardinality(Open')
           + (IF parent \in {"suspended", "resumed", "left"} THEN 0 ELSE 1)
      <4> HIDE DEF Open
      <4> QED BY <1>0, <1>1, <1>2, <1>3
    <3>2. count' \in 0..(N + 1)
      <4>1. count \in 0..(N + 1) /\ count - 1 \in Nat
        <5>1. count \in 0..(N + 1)
          BY DEF CountIsExact
        <5> HIDE DEF Open
        <5> QED BY <5>1, <1>1, <1>3
      <4> QED BY <4>1, <1>0
    <3>3. TypeOK'
      BY <1>0, <2>0, <2>2, <3>2 DEF CountIsExact, taskVars
    <3> QED BY <3>1, <3>3, <2>0 DEF CountIsExact
  <2>7. OnlyStolenBreaks'
    BY <2>0 DEF OnlyStolenBreaks
  <2>8. BodyPlace'
    BY <1>0, <2>0, <2>1 DEF BodyPlace, taskVars
  <2>9. RunnerWaits'
    BY <1>0, <2>0, <2>1 DEF RunnerWaits, taskVars, Active, CountIsExact
  <2>10. LoopPlace'
    <3>1. parent \notin {"creating", "starting"} => i' = N + 1
      BY <1>0, <2>2 DEF LoopPlace, Tasks
    <3>2. \A x \in Tasks : x # t => sub'[x] = sub[x]
      BY <1>0 DEF CountIsExact
    <3>3. sub'[t] = "ended" /\ t < i'
      BY <1>0, <2>2 DEF CountIsExact, Tasks
    <3>4. \A x \in Tasks : x < i' /\ x # t => x < i
      BY <1>0, <2>2 DEF Tasks, CountIsExact
    <3>5. \A x \in Tasks : x >= i' /\ x # t => x >= i /\ (x > i' => x > i)
      BY <1>0, <2>2 DEF Tasks, CountIsExact
    <3>6. \A x \in Tasks : x = i' =>
             \/ sub[x] \in {"initial", "awaiting", "linking"}
             \/ sub[x] \in {"resuming", "final"} /\ on_parent[x]
      <4>1. CASE on_parent[t]
        BY <4>1, <1>0, <2>1, <2>2 DEF Tasks, LoopPlace, CountIsExact
      <4>2. CASE ~on_parent[t]
        BY <4>2, <1>0, <2>1 DEF LoopPlace
      <4> QED BY <4>1, <4>2
    <3> QED BY <1>0, <2>0, <2>1, <3>1, <3>2, <3>3, <3>4, <3>5, <3>6 DEF LoopPlace, Tasks
  <2>11. FlagMeans' /\ PastMeansDone'
    BY <1>0 DEF FlagMeans, PastMeansDone, taskVars, CountIsExact
  <2>12. HandleMeansRegistered'
    BY <1>0 DEF HandleMeansRegistered, taskVars
  <2>13. ParentPlace'
    BY <1>0, <1>4, <2>0 DEF ParentPlace
  <2> QED BY <2>3, <2>7, <2>8, <2>9, <2>10, <2>11, <2>12, <2>13
<1> QED BY <1>5, <1>6

\* try_await counts the parent out: it goes on at once only if every
\* intermediary has reported.
LEMMA TryAwaitStep ==
    ASSUME IInv, fate = "running", try_await
    PROVE  IInv'
<1> USE WhenAllAssumption DEF IInv, Orderly, TypeOK
<1> DEFINE Open == {x \in Tasks : sub[x] # "ended"}
<1>0. /\ parent = "counting"
      /\ count' = count - 1
      /\ parent' = IF count > 1 THEN "suspended" ELSE "resumed"
      /\ UNCHANGED <<eager, i, taskVars, sub, on_parent, awaiting_coro, stolen, fate>>
  BY DEF try_await
<1>1. IsFiniteSet(Open) /\ Cardinality(Open) \in Nat /\ Open' = Open
  BY <1>0, OpenCount
<1>2. count = Cardinality(Open) + 1
  BY <1>0 DEF CountIsExact
<1>3. CountIsExact'
  <2>1. count' = Cardinality(Open')
    <3> HIDE DEF Open
    <3> QED BY <1>0, <1>1, <1>2
  <2>2. count' \in 0..(N + 1)
    <3>1. count \in 0..(N + 1)
      BY DEF CountIsExact
    <3> HIDE DEF Open
    <3> QED BY <1>0, <1>1, <1>2, <3>1
  <2>3. TypeOK'
    BY <1>0, <2>2 DEF CountIsExact, taskVars
  <2> QED BY <1>0, <2>1, <2>3 DEF CountIsExact
<1>4. OnlyStolenBreaks'
  BY <1>0 DEF OnlyStolenBreaks
<1>5. parent' = "resumed" => \A x \in Tasks : sub[x] = "ended"
  <2>1. parent' = "resumed" => Cardinality(Open) = 0
    <3> HIDE DEF Open
    <3> QED BY <1>0, <1>1, <1>2
  <2>2. Cardinality(Open) = 0 => Open = {}
    BY <1>1, FS_EmptySet
  <2> QED BY <2>1, <2>2
<1>6. BodyPlace' /\ RunnerWaits' /\ FlagMeans' /\ PastMeansDone'
  BY <1>0 DEF BodyPlace, RunnerWaits, FlagMeans, PastMeansDone, taskVars, Active
<1>7. LoopPlace'
  BY <1>0 DEF LoopPlace
<1>8. HandleMeansRegistered'
  BY <1>0 DEF HandleMeansRegistered, taskVars
<1>9. ParentPlace'
  BY <1>0, <1>5 DEF ParentPlace
<1> QED BY <1>3, <1>4, <1>6, <1>7, <1>8, <1>9

-----------------------------------------------------------------------------
\* The initial states satisfy the inductive invariant.
LEMMA InitInv == Init => IInv
<1> SUFFICES ASSUME Init PROVE IInv
  OBVIOUS
<1> USE WhenAllAssumption DEF Init, InitialCount
<1>1. TypeOK
  <2>1. 1 \in 1..(N + 1) /\ 0 \in 0..MaxSuspends /\ N + 1 \in 0..(N + 1)
    OBVIOUS
  <2> QED BY <2>1 DEF TypeOK
<1>2. CountIsExact
  <2>1. {t \in Tasks : sub[t] # "ended"} = 1..N
    BY DEF Tasks
  <2>2. Cardinality(1..N) = N
    BY FS_Interval
  <2> QED BY <1>1, <2>1, <2>2 DEF CountIsExact
<1>3. OnlyStolenBreaks
  BY DEF OnlyStolenBreaks
<1>4. BodyPlace /\ RunnerWaits /\ FlagMeans /\ PastMeansDone
  BY DEF BodyPlace, RunnerWaits, FlagMeans, PastMeansDone, Active, Tasks
<1>5. LoopPlace
  BY DEF LoopPlace
<1>6. HandleMeansRegistered /\ ParentPlace
  BY DEF HandleMeansRegistered, ParentPlace
<1> QED BY <1>2, <1>3, <1>4, <1>5, <1>6 DEF IInv, Orderly

\* Every step keeps the inductive invariant.
LEMMA InvStep == IInv /\ [Next]_vars => IInv'
<1> SUFFICES ASSUME IInv, [Next]_vars PROVE IInv'
  OBVIOUS
<1>1. CASE Next
  <2>0. fate = "running"
    BY <1>1 DEF Next
  <2>1. CASE Parent
    BY <2>0, <2>1, CreateTaskStep, BeginStartStep, StartReadyStep,
       StartPendingStep, StoreHandleStep, TryAwaitStep, DestroyTasksStep DEF Parent
  <2>2. ASSUME NEW t \in Tasks, Body(t) PROVE IInv'
    BY <2>0, <2>2, ParkStep, RegisterStep, EndBodyStep, FinalSuspendStep DEF Body
  <2>3. ASSUME NEW t \in Tasks, Fire(t) PROVE IInv'
    BY <2>0, <2>3, FireStep
  <2>4. ASSUME NEW t \in Tasks, Intermediary(t) PROVE IInv'
    BY <2>0, <2>4, TrySetContinuationStep, AwaitResumeStep, NotifyStep
       DEF Intermediary
  <2> QED BY <1>1, <2>1, <2>2, <2>3, <2>4 DEF Next
<1>2. CASE UNCHANGED vars
  <2>1. CountIsExact' /\ OnlyStolenBreaks'
    BY <1>2 DEF IInv, CountIsExact, TypeOK, OnlyStolenBreaks, vars, taskVars
  <2>2. Orderly' <=> Orderly
    BY <1>2 DEF Orderly, BodyPlace, RunnerWaits, LoopPlace, FlagMeans, PastMeansDone,
       HandleMeansRegistered, ParentPlace, Active, vars, taskVars
  <2> QED BY <1>2, <2>1, <2>2 DEF IInv, vars
<1> QED BY <1>1, <1>2

\* The invariant holds in every reachable state.
LEMMA Invariance == Spec => []IInv
BY InitInv, InvStep, PTL DEF Spec

\* For any number of tasks and suspensions: when_all's counter is the number of
\* intermediaries still to report plus the parent, and every variable has its
\* type, however bodies, sources, intermediaries and the parent interleave.
THEOREM CounterExact == Spec => []CountIsExact
BY Invariance, PTL DEF IInv

\* Undefined behaviour is only reached from a task that was awaited while a
\* source held its body: neither exchange on a promise, nor the counter, nor
\* the destruction of the tasks resumes or frees a coroutine in use.
THEOREM BreaksOnlyIfStolen == Spec => []OnlyStolenBreaks
BY Invariance, PTL DEF IInv

\* The parent is resumed when every intermediary has ended and every task that
\* was awaited properly is done.
THEOREM ParentAfterAll == Spec => []ResumedAfterAll
<1>1. IInv => ResumedAfterAll
  BY DEF IInv, Orderly, ParentPlace, PastMeansDone, BodyPlace, ResumedAfterAll
<1> QED BY <1>1, Invariance, PTL
=============================================================================
