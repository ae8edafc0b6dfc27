-------------------------- MODULE ThreadPoolProofs --------------------------
(***************************************************************************)
(* For any number of workers, clients, tasks and closers: pool_state       *)
(* counts the awaiters exactly, a coroutine is in one place, and no        *)
(* wakeup is lost, before and during a shutdown.                           *)
(***************************************************************************)
EXTENDS ThreadPool, FiniteSetTheorems, SequenceTheorems, TLAPS

\* An executor has a coroutine from the launch or the pop to the push, or the
\* end of the coroutine.
TaskPlace ==
    \A x \in Executors :
        task[x] # NONE <=> at[x] \in {"running", "entering", "pushing"}

\* How often t is queued or held by an executor.
Holders(t) == {x \in Executors : task[x] = t}
Copies(t) == Cardinality(Queued(t)) + Cardinality(Holders(t))

FreshTasks == \A t \in Tasks \ launched : Copies(t) = 0

\* The sentinels are in the queue, or were there: the first closer has pushed
\* its batch.
Batched == closed(pool_state) /\ \A c \in Closers : closing[c] # "batching"

Sentinels == {i \in DOMAIN buffer : buffer[i] = SENTINEL}
Live == {w \in Workers : at[w] # "exited"}
Waiting == {w \in Workers : at[w] = "waiting"}

\* One closer sends the sentinels.
OneBatcher ==
    /\ closing[DTOR] \notin {"batching", "notifying"}
    /\ \A c \in Closers : closing[c] # "open" => closed(pool_state)
    /\ \A c, d \in Closers :
          closing[c] \in {"batching", "notifying"}
             /\ closing[d] \in {"batching", "notifying"} => c = d

\* Before the batch nobody leaves, and someone sees to what is in the queue.
BeforeBatch ==
    ~Batched =>
        /\ Sentinels = {} /\ Live = Workers
        /\ buffer # <<>> /\ Waiting # {} =>
              Waiting # Workers \/ \E x \in Clients : at[x] = "notifying"

\* From then on there is a sentinel for every worker that has not exited, so that
\* nobody goes to sleep, and a notify_one to come for everyone who still sleeps.
AfterBatch ==
    Batched =>
        /\ Cardinality(Sentinels) = Cardinality(Live)
        /\ Waiting # {} => \E c \in Closers : closing[c] = "notifying"
        /\ \A c \in Closers : closing[c] = "notifying" =>
              Cardinality(Waiting) <= loop[c]

BatchInv == OneBatcher /\ BeforeBatch /\ AfterBatch

IInv == CountIsExact /\ TaskInOnePlace /\ TaskPlace /\ FreshTasks /\ BatchInv

-----------------------------------------------------------------------------
(***************************************************************************)
(* Counting.                                                               *)
(***************************************************************************)

\* The size of a set after at most x entered or left it.
LEMMA MoveOne ==
    ASSUME NEW A, NEW B, NEW x, IsFiniteSet(A), B \ {x} = A \ {x}
    PROVE  /\ IsFiniteSet(B)
           /\ x \in A /\ x \notin B => Cardinality(B) = Cardinality(A) - 1
           /\ x \notin A /\ x \in B => Cardinality(B) = Cardinality(A) + 1
           /\ (x \in A <=> x \in B) => Cardinality(B) = Cardinality(A)
           /\ Cardinality(A) \in Nat /\ Cardinality(B) \in Nat
<1>1. CASE x \in A <=> x \in B
  <2>1. A = B
    BY <1>1
  <2> QED BY <2>1, <1>1, FS_CardinalityType
<1>2. CASE x \in A /\ x \notin B
  <2>1. B = A \ {x}
    BY <1>2
  <2>2. IsFiniteSet(B) /\ Cardinality(B) = Cardinality(A) - 1
    BY <2>1, <1>2, FS_RemoveElement
  <2> QED BY <2>2, <1>2, FS_CardinalityType
<1>3. CASE x \notin A /\ x \in B
  <2>1. B = A \cup {x}
    BY <1>3
  <2>2. IsFiniteSet(B) /\ Cardinality(B) = Cardinality(A) + 1
    BY <2>1, <1>3, FS_AddElement
  <2> QED BY <2>2, <1>3, FS_CardinalityType
<1> QED BY <1>1, <1>2, <1>3

\* The places in b where an element of V stands.
Indices(b, V) == {i \in DOMAIN b : b[i] \in V}

\* There are finitely many, since b is finite.
LEMMA IndicesFinite ==
    ASSUME NEW T, NEW b \in Seq(T), NEW V
    PROVE  IsFiniteSet(Indices(b, V)) /\ Cardinality(Indices(b, V)) \in Nat
<1>1. DOMAIN b = 1..Len(b) /\ Len(b) \in Nat
  BY LenProperties
<1>2. IsFiniteSet(1..Len(b))
  BY <1>1, FS_Interval
<1>3. IsFiniteSet(Indices(b, V))
  BY <1>1, <1>2, FS_Subset DEF Indices
<1> QED BY <1>3, FS_CardinalityType

\* Append adds one place.
LEMMA IndicesAppend ==
    ASSUME NEW T, NEW b \in Seq(T), NEW e \in T, NEW V
    PROVE  /\ e \in V =>
                Cardinality(Indices(Append(b, e), V)) = Cardinality(Indices(b, V)) + 1
           /\ e \notin V => Indices(Append(b, e), V) = Indices(b, V)
<1>1. /\ DOMAIN b = 1..Len(b) /\ Len(b) \in Nat
      /\ DOMAIN Append(b, e) = 1..(Len(b) + 1)
      /\ \A i \in 1..Len(b) : Append(b, e)[i] = b[i]
      /\ Append(b, e)[Len(b) + 1] = e
  BY LenProperties, AppendProperties
<1>2. /\ Indices(Append(b, e), V) \ {Len(b) + 1} = Indices(b, V) \ {Len(b) + 1}
      /\ Len(b) + 1 \notin Indices(b, V)
      /\ Len(b) + 1 \in Indices(Append(b, e), V) <=> e \in V
  BY <1>1 DEF Indices
<1>3. e \notin V => Indices(Append(b, e), V) = Indices(b, V)
  BY <1>2
<1> QED BY <1>2, <1>3, IndicesFinite, MoveOne

\* Tail removes the first place and shifts the others.
LEMMA IndicesTail ==
    ASSUME NEW T, NEW b \in Seq(T), b # <<>>, NEW V
    PROVE  /\ Head(b) \in V =>
                Cardinality(Indices(Tail(b), V)) = Cardinality(Indices(b, V)) - 1
           /\ Head(b) \notin V =>
                Cardinality(Indices(Tail(b), V)) = Cardinality(Indices(b, V))
<1> DEFINE B == Indices(b, V) \ {1}
           C == Indices(Tail(b), V)
           f == [i \in C |-> i + 1]
<1>1. /\ DOMAIN b = 1..Len(b) /\ Len(b) \in Nat /\ Len(b) > 0
      /\ DOMAIN Tail(b) = 1..(Len(b) - 1)
      /\ \A i \in 1..(Len(b) - 1) : Tail(b)[i] = b[i + 1]
      /\ Head(b) = b[1]
  BY LenProperties, EmptySeq, HeadTailProperties
<1>2. C \subseteq Nat /\ \A i \in C : i + 1 \in B
  BY <1>1 DEF Indices
<1>3. \A j \in B : j - 1 \in C
  BY <1>1 DEF Indices
<1>4. f \in Bijection(C, B)
  <2>1. f \in [C -> B]
    BY <1>2
  <2>2. \A i, j \in C : f[i] = f[j] => i = j
    BY <1>2
  <2>3. B \subseteq Nat
    BY <1>1 DEF Indices
  <2>4. \A j \in B : \E i \in C : f[i] = j
    <3> TAKE j \in B
    <3>1. j - 1 \in C /\ f[j - 1] = j
      BY <1>3, <2>3
    <3> QED BY <3>1
  <2> HIDE DEF f, B, C
  <2> QED BY <2>1, <2>2, <2>4 DEF Bijection, Injection, Surjection, IsInjective
<1>5. Cardinality(B) = Cardinality(C)
  <2>1. ExistsBijection(C, B)
    BY <1>4 DEF ExistsBijection
  <2>2. IsFiniteSet(C)
    <3>1. Tail(b) \in Seq(T)
      BY HeadTailProperties
    <3> QED BY <3>1, IndicesFinite
  <2> QED BY <2>1, <2>2, FS_Bijection
<1>6. 1 \in Indices(b, V) <=> Head(b) \in V
  BY <1>1 DEF Indices
<1>7. IsFiniteSet(Indices(b, V))
  BY IndicesFinite
<1> QED BY <1>5, <1>6, <1>7, FS_RemoveElement

\* A batch of n times e at the end.
LEMMA IndicesBatch ==
    ASSUME NEW T, NEW b \in Seq(T), NEW e \in T, NEW n \in Nat,
           NEW d \in Seq(T), Len(d) = n, \A i \in 1..n : d[i] = e
    PROVE  /\ b \o d \in Seq(T)
           /\ \A V : e \notin V => Indices(b \o d, V) = Indices(b, V)
           /\ \A V : e \in V /\ Indices(b, V) = {} =>
                        Cardinality(Indices(b \o d, V)) = n
<1>2. /\ b \o d \in Seq(T) /\ Len(b) \in Nat /\ DOMAIN b = 1..Len(b)
      /\ DOMAIN (b \o d) = 1..(Len(b) + n)
      /\ \A i \in 1..Len(b) : (b \o d)[i] = b[i]
      /\ \A i \in (Len(b) + 1)..(Len(b) + n) : (b \o d)[i] = e
  <2>1. /\ b \o d \in Seq(T) /\ Len(b \o d) = Len(b) + n /\ Len(b) \in Nat
        /\ DOMAIN b = 1..Len(b)
        /\ \A i \in 1..(Len(b) + n) :
             (b \o d)[i] = IF i <= Len(b) THEN b[i] ELSE d[i - Len(b)]
    BY ConcatProperties, LenProperties
  <2>2. DOMAIN (b \o d) = 1..(Len(b) + n)
    BY <2>1, LenProperties
  <2>3. \A i \in (Len(b) + 1)..(Len(b) + n) : i - Len(b) \in 1..n /\ ~(i <= Len(b))
                                              /\ i \in 1..(Len(b) + n)
    BY <2>1
  <2>4. \A i \in (Len(b) + 1)..(Len(b) + n) : (b \o d)[i] = e
    BY <2>1, <2>3
  <2> QED BY <2>1, <2>2, <2>4
<1>3. ASSUME NEW V, e \notin V PROVE Indices(b \o d, V) = Indices(b, V)
  BY <1>2, <1>3 DEF Indices
<1>4. ASSUME NEW V, e \in V, Indices(b, V) = {}
      PROVE  Indices(b \o d, V) = (Len(b) + 1)..(Len(b) + n)
  BY <1>2, <1>4 DEF Indices
<1>5. Cardinality((Len(b) + 1)..(Len(b) + n)) = n
  BY <1>2, FS_Interval
<1> QED BY <1>2, <1>3, <1>4, <1>5

\* The two halves of pool_state.
LEMMA PoolStateArithmetic ==
    ASSUME NEW p \in Nat
    PROVE  /\ outstanding(p) \in Nat
           /\ outstanding(p + 2) = outstanding(p) + 1 /\ (closed(p + 2) <=> closed(p))
           /\ outstanding(p) >= 1 =>
                /\ p - 2 \in Nat /\ outstanding(p - 2) = outstanding(p) - 1
                /\ closed(p - 2) <=> closed(p)
           /\ ~closed(p) => outstanding(p + 1) = outstanding(p) /\ closed(p + 1)
BY DEF outstanding, closed, NEW_AWAITER_INCREMENT, CLOSED_FLAG

\* The threads of the pool and its clients are finitely many.
LEMMA FiniteThreads ==
    IsFiniteSet(Workers) /\ IsFiniteSet(Executors) /\ Cardinality(Workers) = NThreads
<1>1. IsFiniteSet(Workers) /\ Cardinality(Workers) = NThreads
  BY PoolAssumption, FS_Interval DEF Workers
<1> QED BY <1>1, PoolAssumption, FS_Union DEF Executors

Pushers == {x \in Executors : at[x] = "pushing"}
QueuedTasks == {i \in DOMAIN buffer : buffer[i] # SENTINEL}
Busy == {w \in Workers : at[w] \notin {"idle", "waiting", "exited"}}

\* Slots adds up what is being pushed, what is queued and what a worker has.
LEMMA SlotSets ==
    ASSUME TypeOK
    PROVE  /\ IsFiniteSet(Pushers) /\ Cardinality(Pushers) \in Nat
           /\ QueuedTasks = Indices(buffer, Tasks) /\ Cardinality(QueuedTasks) \in Nat
           /\ IsFiniteSet(Busy) /\ Cardinality(Busy) \in Nat
           /\ Slots = Cardinality(Pushers) + Cardinality(QueuedTasks) + Cardinality(Busy)
<1>1. IsFiniteSet(Pushers) /\ Cardinality(Pushers) \in Nat
  BY FiniteThreads, FS_Subset, FS_CardinalityType DEF Pushers
<1>2. IsFiniteSet(Busy) /\ Cardinality(Busy) \in Nat
  BY FiniteThreads, FS_Subset, FS_CardinalityType DEF Busy
<1>3. QueuedTasks = Indices(buffer, Tasks)
  BY PoolAssumption, ElementOfSeq, LenProperties DEF TypeOK, QueuedTasks, Indices
<1>4. Cardinality(QueuedTasks) \in Nat
  BY <1>3, IndicesFinite DEF TypeOK
<1> QED BY <1>1, <1>2, <1>3, <1>4 DEF Slots, Pushers, QueuedTasks, Busy

\* push_batch puts one sentinel per worker behind what is queued, and no task.
LEMMA SentinelBatch ==
    ASSUME TypeOK, NEW c, PushBatch(c)
    PROVE  /\ buffer' \in Seq(Tasks \cup {SENTINEL})
           /\ \A V : SENTINEL \notin V => Indices(buffer', V) = Indices(buffer, V)
           /\ Indices(buffer, {SENTINEL}) = {} =>
                Cardinality(Indices(buffer', {SENTINEL})) = NThreads
<1> DEFINE T == Tasks \cup {SENTINEL}
           d == [i \in 1..NThreads |-> SENTINEL]
<1>1. buffer' = buffer \o d /\ buffer \in Seq(T) /\ SENTINEL \in T /\ NThreads \in Nat
  BY PoolAssumption DEF PushBatch, Workers, TypeOK
<1>2. d \in Seq(T) /\ Len(d) = NThreads /\ \A i \in 1..NThreads : d[i] = SENTINEL
  <2>1. d \in Seq(T)
    BY <1>1, IsASeq
  <2> QED BY <1>1, <2>1, LenProperties
<1> HIDE DEF d, T
<1>3. /\ buffer \o d \in Seq(T)
      /\ \A V : SENTINEL \notin V => Indices(buffer \o d, V) = Indices(buffer, V)
      /\ \A V : SENTINEL \in V /\ Indices(buffer, V) = {} =>
                   Cardinality(Indices(buffer \o d, V)) = NThreads
  BY <1>1, <1>2, IndicesBatch
<1>4. SENTINEL \in {SENTINEL}
  OBVIOUS
<1> QED BY <1>1, <1>3, <1>4 DEF T

\* Every executor that is pushing has a coroutine, which is no sentinel.
LEMMA PushesTask ==
    ASSUME TypeOK, TaskPlace, NEW x \in Executors, at[x] = "pushing"
    PROVE  task[x] \in Tasks
BY DEF TypeOK, TaskPlace

-----------------------------------------------------------------------------
(***************************************************************************)
(* The count.                                                              *)
(***************************************************************************)

\* A step of an executor that enters or leaves no slot.
LEMMA QuietCount ==
    ASSUME CountIsExact, Pushers' = Pushers, Busy' = Busy,
           UNCHANGED <<pool_state, buffer>>
    PROVE  outstanding(pool_state)' = Slots'
<1>1. Slots' = Slots
  BY DEF Slots, Pushers, Busy
<1> QED BY <1>1 DEF CountIsExact, outstanding

\* A coroutine on an executor keeps the count: the awaiter is counted in by the
\* compare-exchange and not counted twice when it is pushed.
LEMMA CoroutineCount ==
    ASSUME IInv, NEW x \in Executors, Coroutine(x)
    PROVE  outstanding(pool_state)' = Slots'
<1> USE DEF IInv
<1>0. TypeOK /\ x \in Executors
  BY DEF CountIsExact
<1>1. CASE Schedule(x) \/ Refused(x) \/ RetryEnter(x) \/ Complete(x)
  <2>1. Pushers' = Pushers /\ Busy' = Busy
    BY <1>0, <1>1, PoolAssumption DEF TypeOK, Schedule, Refused, RetryEnter, Complete,
       AfterTask, Pushers, Busy, Executors
  <2> QED BY <1>1, <2>1, QuietCount DEF Schedule, Refused, RetryEnter, Complete
<1>2. CASE Enter(x)
  <2>1. /\ pool_state' = pool_state + 2 /\ buffer' = buffer
        /\ at[x] = "entering" /\ at' = [at EXCEPT ![x] = "pushing"]
    BY <1>2 DEF Enter, NEW_AWAITER_INCREMENT
  <2>2. Busy' = Busy
    BY <1>0, <2>1 DEF Busy, TypeOK
  <2>3. Pushers' \ {x} = Pushers \ {x} /\ x \notin Pushers /\ x \in Pushers'
    BY <1>0, <2>1 DEF Pushers, TypeOK
  <2>4. Cardinality(Pushers') = Cardinality(Pushers) + 1
    BY <1>0, <2>3, MoveOne, SlotSets
  <2>5. Slots' = Cardinality(Pushers') + Cardinality(QueuedTasks) + Cardinality(Busy)
    BY <2>1, <2>2 DEF Slots, Pushers, QueuedTasks, Busy
  <2>6. outstanding(pool_state') = outstanding(pool_state) + 1
        /\ outstanding(pool_state) \in Nat
    BY <1>0, <2>1, PoolStateArithmetic DEF TypeOK
  <2> QED BY <1>0, <2>4, <2>5, <2>6, SlotSets DEF CountIsExact, outstanding
<1>3. CASE Push(x)
  <2>1. /\ pool_state' = pool_state /\ buffer' = Append(buffer, task[x])
        /\ at[x] = "pushing" /\ at' = [at EXCEPT ![x] = "notifying"]
    BY <1>3 DEF Push
  <2>2. Busy' = Busy
    BY <1>0, <2>1 DEF Busy, TypeOK
  <2>3. Pushers' \ {x} = Pushers \ {x} /\ x \in Pushers /\ x \notin Pushers'
    BY <1>0, <2>1 DEF Pushers, TypeOK
  <2>4. Cardinality(Pushers') = Cardinality(Pushers) - 1
    BY <1>0, <2>3, MoveOne, SlotSets
  <2>5. task[x] \in Tasks
    BY <1>0, <2>1, PushesTask
  <2>6. Cardinality(Indices(buffer', Tasks)) = Cardinality(Indices(buffer, Tasks)) + 1
    BY <1>0, <2>1, <2>5, IndicesAppend DEF TypeOK
  <2>7. QueuedTasks' = Indices(buffer', Tasks)
    <3>1. buffer' \in Seq(Tasks \cup {SENTINEL})
      BY <1>0, <2>1, <2>5, AppendProperties DEF TypeOK
    <3> QED BY <3>1, PoolAssumption, ElementOfSeq, LenProperties
            DEF QueuedTasks, Indices
  <2>8. Slots' = Cardinality(Pushers') + Cardinality(QueuedTasks') + Cardinality(Busy)
    BY <2>2 DEF Slots, Pushers, QueuedTasks, Busy
  <2> QED BY <1>0, <2>1, <2>4, <2>6, <2>7, <2>8, SlotSets DEF CountIsExact, outstanding
<1>4. CASE NotifyOne(x)
  <2>1. Pushers' = Pushers /\ Busy' = Busy
    <3>1. CASE {w \in Workers : at[w] = "waiting"} = {}
      <4>1. at' = [at EXCEPT ![x] = AfterTask(x)] /\ at[x] = "notifying"
        BY <1>4, <3>1 DEF NotifyOne, Notified
      <4> QED BY <1>0, <4>1, PoolAssumption
              DEF TypeOK, AfterTask, Pushers, Busy, Executors
    <3>2. CASE {w \in Workers : at[w] = "waiting"} # {}
      <4>1. PICK w \in Workers : /\ at[w] = "waiting" /\ at[x] = "notifying"
                                 /\ at' = [[at EXCEPT ![x] = AfterTask(x)]
                                              EXCEPT ![w] = "idle"]
        BY <1>4, <3>2 DEF NotifyOne, Notified
      <4> QED BY <1>0, <4>1, PoolAssumption
              DEF TypeOK, AfterTask, Pushers, Busy, Executors
    <3> QED BY <3>1, <3>2
  <2> QED BY <1>4, <2>1, QuietCount DEF NotifyOne
<1> QED BY <1>1, <1>2, <1>3, <1>4 DEF Coroutine

\* A pop moves the slot from the queue to the worker, notify_awaiter_leave gives
\* it back.
LEMMA WorkerCount ==
    ASSUME IInv, NEW w \in Workers,
           Wait(w) \/ SpuriousWake(w) \/ Pop(w) \/ Leave(w)
    PROVE  outstanding(pool_state)' = Slots'
<1> USE DEF IInv
<1>0. TypeOK /\ w \in Executors
  BY DEF CountIsExact, Executors
<1>1. CASE Wait(w) \/ SpuriousWake(w)
  <2>1. Pushers' = Pushers /\ Busy' = Busy
    <3>1. /\ at[w] \in {"idle", "waiting"}
          /\ \E p \in {"idle", "waiting"} : at' = [at EXCEPT ![w] = p]
      BY <1>1 DEF Wait, SpuriousWake
    <3> QED BY <1>0, <3>1 DEF TypeOK, Pushers, Busy
  <2> QED BY <1>1, <2>1, QuietCount DEF Wait, SpuriousWake
<1>2. CASE Pop(w)
  <2>1. /\ pool_state' = pool_state /\ buffer # <<>> /\ buffer' = Tail(buffer)
        /\ at[w] = "idle"
        /\ at' = [at EXCEPT ![w] =
                    IF Head(buffer) = SENTINEL THEN "exited" ELSE "running"]
    BY <1>2 DEF Pop
  <2>2. Pushers' = Pushers
    BY <1>0, <2>1 DEF Pushers, TypeOK
  <2>3. /\ Busy' \ {w} = Busy \ {w} /\ w \notin Busy
        /\ w \in Busy' <=> Head(buffer) # SENTINEL
    BY <1>0, <2>1 DEF Busy, TypeOK
  <2>4. /\ Head(buffer) # SENTINEL => Cardinality(Busy') = Cardinality(Busy) + 1
        /\ Head(buffer) = SENTINEL => Cardinality(Busy') = Cardinality(Busy)
    BY <1>0, <2>3, MoveOne, SlotSets
  <2>5. /\ Head(buffer) \in Tasks \cup {SENTINEL}
        /\ buffer' \in Seq(Tasks \cup {SENTINEL})
    BY <1>0, <2>1, HeadTailProperties DEF TypeOK
  <2>6. /\ Head(buffer) # SENTINEL =>
             Cardinality(Indices(buffer', Tasks)) = Cardinality(Indices(buffer, Tasks)) - 1
        /\ Head(buffer) = SENTINEL =>
             Cardinality(Indices(buffer', Tasks)) = Cardinality(Indices(buffer, Tasks))
    BY <1>0, <2>1, <2>5, IndicesTail, PoolAssumption DEF TypeOK
  <2>7. QueuedTasks' = Indices(buffer', Tasks)
    BY <2>5, PoolAssumption, ElementOfSeq, LenProperties DEF QueuedTasks, Indices
  <2>8. Slots' = Cardinality(Pushers) + Cardinality(QueuedTasks') + Cardinality(Busy')
    BY <2>2 DEF Slots, Pushers, QueuedTasks, Busy
  <2> QED BY <1>0, <2>1, <2>4, <2>6, <2>7, <2>8, SlotSets DEF CountIsExact, outstanding
<1>3. CASE Leave(w)
  <2>1. /\ pool_state' = pool_state - 2 /\ buffer' = buffer
        /\ at[w] = "leaving" /\ at' = [at EXCEPT ![w] = "idle"]
    BY <1>3 DEF Leave, NEW_AWAITER_INCREMENT
  <2>2. Pushers' = Pushers
    BY <1>0, <2>1 DEF Pushers, TypeOK
  <2>3. Busy' \ {w} = Busy \ {w} /\ w \in Busy /\ w \notin Busy'
    BY <1>0, <2>1 DEF Busy, TypeOK
  <2>4. Cardinality(Busy') = Cardinality(Busy) - 1 /\ Cardinality(Busy') \in Nat
    BY <1>0, <2>3, MoveOne, SlotSets
  <2>5. Slots' = Cardinality(Pushers) + Cardinality(QueuedTasks) + Cardinality(Busy')
    BY <2>1, <2>2 DEF Slots, Pushers, QueuedTasks, Busy
  <2>6. outstanding(pool_state) >= 1 /\ pool_state \in Nat
    BY <1>0, <2>4, SlotSets DEF CountIsExact, TypeOK
  <2>7. outstanding(pool_state') = outstanding(pool_state) - 1
    BY <2>1, <2>6, PoolStateArithmetic
  <2> QED BY <1>0, <2>4, <2>5, <2>7, SlotSets DEF CountIsExact, outstanding
<1> QED BY <1>1, <1>2, <1>3

\* A leaving worker has a slot to give back.
LEMMA LeaveHasSlot ==
    ASSUME CountIsExact, NEW w \in Workers, at[w] = "leaving"
    PROVE  outstanding(pool_state) >= 1
<1>0. TypeOK
  BY DEF CountIsExact
<1>1. w \in Busy
  BY DEF Busy
<1>2. Cardinality(Busy) # 0
  BY <1>0, <1>1, SlotSets, FS_EmptySet
<1> QED BY <1>0, <1>2, SlotSets DEF CountIsExact

\* The closed flag and the sentinels are not counted.
LEMMA CloserCount ==
    ASSUME IInv, NEW c \in Joiners, Close(c) \/ Shutdown(c) \/ Destroy
    PROVE  outstanding(pool_state)' = Slots'
<1> USE DEF IInv
<1>0. TypeOK
  BY DEF CountIsExact
<1>1. CASE Close(c)
  <2>1. UNCHANGED <<buffer, at>>
    BY <1>1 DEF Close, execVars
  <2>2. Slots' = Slots
    BY <2>1 DEF Slots
  <2>3. outstanding(pool_state') = outstanding(pool_state)
    BY <1>0, <1>1, PoolStateArithmetic DEF TypeOK, Close, CLOSED_FLAG
  <2> QED BY <2>2, <2>3 DEF CountIsExact, outstanding
<1>2. CASE PushBatch(c)
  <2>1. /\ buffer' = buffer \o [i \in 1..NThreads |-> SENTINEL]
        /\ UNCHANGED <<pool_state, at>>
    BY <1>2 DEF PushBatch, execVars, Workers
  <2>2. /\ Indices(buffer', Tasks) = Indices(buffer, Tasks)
        /\ buffer' \in Seq(Tasks \cup {SENTINEL})
    BY <1>0, <1>2, SentinelBatch, PoolAssumption
  <2>3. QueuedTasks' = Indices(buffer', Tasks)
    BY <2>2, PoolAssumption, ElementOfSeq, LenProperties DEF QueuedTasks, Indices
  <2>4. QueuedTasks' = QueuedTasks
    BY <1>0, <2>2, <2>3, SlotSets
  <2>5. Slots' = Slots
    BY <2>1, <2>4 DEF Slots, QueuedTasks
  <2> QED BY <2>1, <2>5 DEF CountIsExact, outstanding
<1>3. CASE NotifyBatch(c)
  <2>1. Pushers' = Pushers /\ Busy' = Busy
    BY <1>0, <1>3 DEF NotifyBatch, Pushers, Busy, TypeOK, Executors
  <2> QED BY <1>3, <2>1, QuietCount DEF NotifyBatch
<1>4. CASE BeginJoin(c) \/ Join(c) \/ JoinThrows(c) \/ Return(c) \/ Destroy
  <2>1. UNCHANGED <<pool_state, buffer, at>>
    BY <1>4 DEF BeginJoin, Join, JoinThrows, Return, Destroy, execVars
  <2>2. Pushers' = Pushers /\ Busy' = Busy
    BY <2>1 DEF Pushers, Busy
  <2> QED BY <2>1, <2>2, QuietCount
<1> QED BY <1>1, <1>2, <1>3, <1>4 DEF Shutdown

-----------------------------------------------------------------------------
\* Every variable keeps its type: pool_state does not underflow, and what is
\* pushed is a coroutine.
LEMMA TypeStep == IInv /\ [Next]_vars => TypeOK'
<1> SUFFICES ASSUME IInv, [Next]_vars PROVE TypeOK'
  OBVIOUS
<1>0. TypeOK /\ TaskPlace /\ CountIsExact
  BY DEF IInv, CountIsExact
<1> USE PoolAssumption DEF TypeOK
<1>1. ASSUME NEW x \in Executors, Coroutine(x) PROVE TypeOK'
  <2>1. CASE Schedule(x)
    BY <1>0, <2>1 DEF Schedule, closeVars
  <2>2. CASE Refused(x)
    BY <1>0, <2>2 DEF Refused, closeVars
  <2>3. CASE Enter(x)
    BY <1>0, <2>3 DEF Enter, closeVars, NEW_AWAITER_INCREMENT
  <2>4. CASE RetryEnter(x)
    BY <1>0, <2>4 DEF RetryEnter, closeVars
  <2>5. CASE Push(x)
    <3>1. buffer' \in Seq(Tasks \cup {SENTINEL})
      <4>1. task[x] \in Tasks
        BY <1>0, <2>5, PushesTask DEF Push
      <4> QED BY <1>0, <2>5, <4>1, AppendProperties DEF Push
    <3> QED BY <1>0, <2>5, <3>1 DEF Push, closeVars
  <2>6. CASE NotifyOne(x)
    BY <1>0, <2>6, ZenonT(60) DEF NotifyOne, Notified, AfterTask, closeVars, Executors
  <2>7. CASE Complete(x)
    BY <1>0, <2>7 DEF Complete, AfterTask, closeVars
  <2> QED BY <1>1, <2>1, <2>2, <2>3, <2>4, <2>5, <2>6, <2>7 DEF Coroutine
<1>2. ASSUME NEW x \in Clients, NEW t \in Tasks, Launch(x, t) PROVE TypeOK'
  BY <1>0, <1>2 DEF Launch, closeVars, Executors
<1>3. ASSUME NEW w \in Workers, Wait(w) \/ SpuriousWake(w) PROVE TypeOK'
  BY <1>0, <1>3 DEF Wait, SpuriousWake, closeVars, Executors
<1>4. ASSUME NEW w \in Workers, Pop(w) PROVE TypeOK'
  <2>1. /\ Head(buffer) \in Tasks \cup {SENTINEL}
        /\ buffer' \in Seq(Tasks \cup {SENTINEL})
    BY <1>0, <1>4, HeadTailProperties DEF Pop
  <2> QED BY <1>0, <1>4, <2>1 DEF Pop, closeVars, Executors
<1>5. ASSUME NEW w \in Workers, Leave(w) PROVE TypeOK'
  <2>1. pool_state' \in Nat
    BY <1>0, <1>5, LeaveHasSlot, PoolStateArithmetic DEF Leave, NEW_AWAITER_INCREMENT
  <2> QED BY <1>0, <1>5, <2>1 DEF Leave, closeVars, Executors
<1>6. ASSUME NEW c \in Closers, Close(c) PROVE TypeOK'
  BY <1>0, <1>6 DEF Close, Joiners, execVars, CLOSED_FLAG
<1>7. ASSUME NEW c \in Joiners, Shutdown(c) PROVE TypeOK'
  <2>1. CASE PushBatch(c)
    <3>1. buffer' \in Seq(Tasks \cup {SENTINEL})
      BY <1>0, <2>1, SentinelBatch
    <3> QED BY <1>0, <2>1, <3>1 DEF PushBatch, execVars
  <2>2. CASE NotifyBatch(c)
    <3>1. loop' \in [Joiners -> 0..NThreads + 1]
      <4>1. loop[c] \in 1..(NThreads + 1) /\ loop' = [loop EXCEPT ![c] = loop[c] - 1]
        BY <1>0, <2>2 DEF NotifyBatch
      <4>2. loop[c] - 1 \in 0..(NThreads + 1)
        BY <4>1
      <4> QED BY <1>0, <4>1, <4>2
    <3>2. at' \in [Executors -> {"idle", "waiting", "running", "entering", "pushing",
                                "notifying", "leaving", "exited"}]
      BY <1>0, <2>2 DEF NotifyBatch
    <3> QED BY <1>0, <2>2, <3>1, <3>2 DEF NotifyBatch
  <2>3. CASE BeginJoin(c)
    BY <1>0, <2>3 DEF BeginJoin, execVars
  <2>4. CASE Join(c)
    <3>1. loop[c] \in Workers /\ loop' = [loop EXCEPT ![c] = loop[c] + 1]
          /\ joined' = joined \cup {loop[c]}
      BY <1>0, <2>4 DEF Join
    <3>2. loop[c] + 1 \in 0..(NThreads + 1)
      BY <3>1 DEF Workers
    <3>3. loop' \in [Joiners -> 0..NThreads + 1] /\ joined' \subseteq Workers
      BY <1>0, <3>1, <3>2
    <3> QED BY <1>0, <2>4, <3>3 DEF Join, execVars
  <2>5. CASE JoinThrows(c) \/ Return(c)
    BY <1>0, <2>5 DEF JoinThrows, Return, execVars
  <2> QED BY <1>7, <2>1, <2>2, <2>3, <2>4, <2>5 DEF Shutdown
<1>8. CASE Destroy
  BY <1>0, <1>8 DEF Destroy, Joiners, execVars
<1>9. CASE UNCHANGED vars
  BY <1>0, <1>9 DEF vars, execVars, closeVars
<1> QED BY <1>1, <1>2, <1>3, <1>4, <1>5, <1>6, <1>7, <1>8, <1>9
        DEF Next, WorkLoop, Executors

-----------------------------------------------------------------------------
(***************************************************************************)
(* Where a coroutine is.                                                   *)
(***************************************************************************)

\* The two sets that are counted.
LEMMA PlaceSets ==
    ASSUME TypeOK, NEW t \in Tasks
    PROVE  /\ Queued(t) = Indices(buffer, {t}) /\ Cardinality(Queued(t)) \in Nat
           /\ IsFiniteSet(Holders(t)) /\ Cardinality(Holders(t)) \in Nat
<1>1. Queued(t) = Indices(buffer, {t})
  BY DEF Queued, Indices
<1>2. Cardinality(Queued(t)) \in Nat
  BY <1>1, IndicesFinite DEF TypeOK
<1>3. IsFiniteSet(Holders(t)) /\ Cardinality(Holders(t)) \in Nat
  BY FiniteThreads, FS_Subset, FS_CardinalityType DEF Holders
<1> QED BY <1>1, <1>2, <1>3

\* What executor x held is replaced by v.
LEMMA HoldersMove ==
    ASSUME TypeOK, NEW x \in Executors, NEW v, task' = [task EXCEPT ![x] = v],
           NEW t \in Tasks
    PROVE  /\ Cardinality(Holders(t)') \in Nat
           /\ task[x] = t /\ v # t => Cardinality(Holders(t)') = Cardinality(Holders(t)) - 1
           /\ task[x] # t /\ v = t => Cardinality(Holders(t)') = Cardinality(Holders(t)) + 1
           /\ (task[x] = t <=> v = t) => Cardinality(Holders(t)') = Cardinality(Holders(t))
<1>1. /\ Holders(t)' \ {x} = Holders(t) \ {x}
      /\ x \in Holders(t) <=> task[x] = t
      /\ x \in Holders(t)' <=> v = t
  BY DEF Holders, TypeOK
<1>2. IsFiniteSet(Holders(t))
  BY PlaceSets
<1> HIDE DEF Holders
<1> QED BY <1>1, <1>2, MoveOne

\* A step makes no copy of a task, and a first one only when it is launched.
LEMMA CopiesStep ==
    ASSUME IInv, [Next]_vars, NEW k \in Tasks
    PROVE  /\ launched \subseteq launched' /\ Copies(k)' \in Nat
           /\ \/ Copies(k)' <= Copies(k)
              \/ k \notin launched /\ k \in launched' /\ Copies(k)' <= 1
<1>0. /\ TypeOK /\ TaskPlace /\ FreshTasks
      /\ SENTINEL # k /\ NONE # k
  BY PoolAssumption DEF IInv, CountIsExact
<1>n. Cardinality(Queued(k)) \in Nat /\ Cardinality(Holders(k)) \in Nat
  BY <1>0, PlaceSets
<1> DEFINE Goal == /\ launched \subseteq launched' /\ Copies(k)' \in Nat
                   /\ \/ Copies(k)' <= Copies(k)
                      \/ k \notin launched /\ k \in launched' /\ Copies(k)' <= 1
<1>q. ASSUME buffer' = buffer PROVE Queued(k)' = Queued(k)
  BY <1>q DEF Queued
<1>u. ASSUME UNCHANGED <<buffer, task, launched>> PROVE Goal
  <2>1. Queued(k)' = Queued(k) /\ Holders(k)' = Holders(k)
    BY <1>u, <1>q DEF Holders
  <2> QED BY <1>n, <1>u, <2>1 DEF Copies
<1>1. ASSUME NEW x \in Executors, Coroutine(x) PROVE Goal
  <2>1. CASE Schedule(x) \/ Refused(x) \/ Enter(x) \/ RetryEnter(x) \/ NotifyOne(x)
    BY <2>1, <1>u DEF Schedule, Refused, Enter, RetryEnter, NotifyOne
  <2>2. CASE Push(x)
    <3>1. /\ buffer' = Append(buffer, task[x]) /\ task' = [task EXCEPT ![x] = NONE]
          /\ launched' = launched /\ at[x] = "pushing"
      BY <2>2 DEF Push
    <3>2. task[x] \in Tasks
      BY <1>0, <3>1, PushesTask
    <3>3. Queued(k)' = Indices(buffer', {k}) /\ Queued(k) = Indices(buffer, {k})
      BY DEF Queued, Indices
    <3>4. /\ task[x] = k => Cardinality(Indices(buffer', {k}))
                              = Cardinality(Indices(buffer, {k})) + 1
          /\ task[x] # k => Indices(buffer', {k}) = Indices(buffer, {k})
      <4> DEFINE V == {k}
      <4>1. task[x] \in V <=> task[x] = k
        OBVIOUS
      <4> HIDE DEF V
      <4>2. /\ task[x] = k => Cardinality(Indices(buffer', V))
                                = Cardinality(Indices(buffer, V)) + 1
            /\ task[x] # k => Indices(buffer', V) = Indices(buffer, V)
        <5>1. buffer \in Seq(Tasks \cup {SENTINEL}) /\ task[x] \in Tasks \cup {SENTINEL}
          BY <1>0, <3>2 DEF TypeOK
        <5>2. /\ task[x] \in V => Cardinality(Indices(Append(buffer, task[x]), V))
                                    = Cardinality(Indices(buffer, V)) + 1
              /\ task[x] \notin V => Indices(Append(buffer, task[x]), V)
                                       = Indices(buffer, V)
          BY <5>1, IndicesAppend
        <5> QED BY <3>1, <4>1, <5>2
      <4> QED BY <4>2 DEF V
    <3>5. /\ Cardinality(Holders(k)') \in Nat
          /\ task[x] = k => Cardinality(Holders(k)') = Cardinality(Holders(k)) - 1
          /\ task[x] # k => Cardinality(Holders(k)') = Cardinality(Holders(k))
      BY <1>0, <3>1, HoldersMove
    <3>6. Copies(k)' = Cardinality(Queued(k)') + Cardinality(Holders(k)')
      BY DEF Copies
    <3> QED BY <1>n, <3>1, <3>3, <3>4, <3>5, <3>6 DEF Copies
  <2>3. CASE Complete(x)
    <3>1. /\ buffer' = buffer /\ task' = [task EXCEPT ![x] = NONE]
          /\ launched' = launched
      BY <2>3 DEF Complete
    <3>2. /\ Cardinality(Holders(k)') \in Nat
          /\ \/ Cardinality(Holders(k)') = Cardinality(Holders(k)) - 1
             \/ Cardinality(Holders(k)') = Cardinality(Holders(k))
      BY <1>0, <3>1, HoldersMove
    <3>3. Copies(k)' = Cardinality(Queued(k)) + Cardinality(Holders(k)')
      BY <1>q, <3>1 DEF Copies
    <3> QED BY <1>n, <3>1, <3>2, <3>3 DEF Copies
  <2> QED BY <1>1, <2>1, <2>2, <2>3 DEF Coroutine
<1>2. ASSUME NEW x \in Clients, NEW s \in Tasks, Launch(x, s) PROVE Goal
  <2>1. /\ buffer' = buffer /\ task' = [task EXCEPT ![x] = s] /\ x \in Executors
        /\ s \notin launched /\ launched' = launched \cup {s} /\ at[x] = "idle"
    BY <1>2 DEF Launch, Executors
  <2>2. task[x] = NONE
    BY <1>0, <2>1 DEF TaskPlace
  <2>3. /\ Cardinality(Holders(k)') \in Nat
        /\ s = k => Cardinality(Holders(k)') = Cardinality(Holders(k)) + 1
        /\ s # k => Cardinality(Holders(k)') = Cardinality(Holders(k))
    BY <1>0, <2>1, <2>2, HoldersMove
  <2>4. Copies(k)' = Cardinality(Queued(k)) + Cardinality(Holders(k)')
    BY <1>q, <2>1 DEF Copies
  <2>5. s = k => Copies(k) = 0
    BY <1>0, <2>1 DEF FreshTasks
  <2> QED BY <1>n, <2>1, <2>3, <2>4, <2>5 DEF Copies
<1>3. ASSUME NEW w \in Workers, Wait(w) \/ SpuriousWake(w) \/ Leave(w) PROVE Goal
  BY <1>3, <1>u DEF Wait, SpuriousWake, Leave
<1>4. ASSUME NEW w \in Workers, Pop(w) PROVE Goal
  <2> DEFINE h == Head(buffer)
             v == IF h = SENTINEL THEN NONE ELSE h
  <2>1. /\ buffer' = Tail(buffer) /\ buffer # <<>> /\ w \in Executors
        /\ task' = [task EXCEPT ![w] = v] /\ launched' = launched /\ at[w] = "idle"
    BY <1>4 DEF Pop, Executors
  <2>2. task[w] = NONE
    BY <1>0, <2>1 DEF TaskPlace
  <2>3. v = k <=> h = k
    BY <1>0
  <2> HIDE DEF v, h
  <2>4. /\ Cardinality(Holders(k)') \in Nat
        /\ h = k => Cardinality(Holders(k)') = Cardinality(Holders(k)) + 1
        /\ h # k => Cardinality(Holders(k)') = Cardinality(Holders(k))
    BY <1>0, <2>1, <2>2, <2>3, HoldersMove
  <2>5. Queued(k)' = Indices(buffer', {k}) /\ Queued(k) = Indices(buffer, {k})
    BY DEF Queued, Indices
  <2>6. /\ h = k => Cardinality(Indices(buffer', {k}))
                      = Cardinality(Indices(buffer, {k})) - 1
        /\ h # k => Cardinality(Indices(buffer', {k}))
                      = Cardinality(Indices(buffer, {k}))
    BY <1>0, <2>1, IndicesTail DEF TypeOK, h
  <2>7. Cardinality(Indices(buffer', {k})) \in Nat
    <3>1. buffer' \in Seq(Tasks \cup {SENTINEL})
      BY <1>0, <2>1, HeadTailProperties DEF TypeOK
    <3> QED BY <3>1, IndicesFinite
  <2>8. Copies(k)' = Cardinality(Queued(k)') + Cardinality(Holders(k)')
    BY DEF Copies
  <2> QED BY <1>n, <2>1, <2>4, <2>5, <2>6, <2>7, <2>8 DEF Copies
<1>5. ASSUME NEW c \in Joiners, PushBatch(c) PROVE Goal
  <2>1. Indices(buffer', {k}) = Indices(buffer, {k})
    BY <1>0, <1>5, SentinelBatch
  <2>2. Queued(k)' = Queued(k)
    BY <2>1 DEF Queued, Indices
  <2>3. Holders(k)' = Holders(k) /\ launched' = launched
    BY <1>5 DEF PushBatch, execVars, Holders
  <2> QED BY <1>n, <2>2, <2>3 DEF Copies
<1>6. ASSUME NEW c \in Joiners,
             \/ Close(c) \/ NotifyBatch(c) \/ BeginJoin(c)
             \/ Join(c) \/ JoinThrows(c) \/ Return(c) \/ Destroy
      PROVE  Goal
  BY <1>6, <1>u DEF Close, NotifyBatch, BeginJoin, Join, JoinThrows, Return, Destroy,
     execVars
<1>7. CASE UNCHANGED vars
  BY <1>7, <1>u DEF vars, execVars
<1>8. Closers \subseteq Joiners /\ DTOR \in Joiners
  BY DEF Joiners
<1>9. ASSUME NEW c \in Joiners, Shutdown(c) PROVE Goal
  BY <1>5, <1>6, <1>9 DEF Shutdown
<1>10. Goal
  <2>1. CASE \E x \in Clients : Coroutine(x) \/ \E s \in Tasks : Launch(x, s)
    BY <1>1, <1>2, <2>1 DEF Executors
  <2>2. CASE \E w \in Workers : WorkLoop(w) \/ SpuriousWake(w)
    BY <1>1, <1>3, <1>4, <2>2 DEF WorkLoop, Executors
  <2>3. CASE \/ \E c \in Closers : Close(c)
             \/ \E c \in Joiners : Shutdown(c)
             \/ Destroy
    BY <1>6, <1>8, <1>9, <2>3
  <2>4. Next \/ UNCHANGED vars
    OBVIOUS
  <2> QED BY <1>7, <2>1, <2>2, <2>3, <2>4 DEF Next
<1> QED BY <1>10

\* No copy is made, and a task that was not launched is nowhere.
LEMMA CopiesInv == IInv /\ [Next]_vars => TaskInOnePlace' /\ FreshTasks'
<1> SUFFICES ASSUME IInv, [Next]_vars PROVE TaskInOnePlace' /\ FreshTasks'
  OBVIOUS
<1>1. \A t \in Tasks : Copies(t) <= 1 /\ (t \notin launched => Copies(t) = 0)
                       /\ Copies(t) \in Nat
  <2>0. TypeOK
    BY DEF IInv, CountIsExact
  <2>1. ASSUME NEW t \in Tasks PROVE Copies(t) \in Nat
    <3>1. Cardinality(Queued(t)) \in Nat /\ Cardinality(Holders(t)) \in Nat
      BY <2>0, PlaceSets
    <3> QED BY <3>1 DEF Copies
  <2> QED BY <2>1 DEF IInv, TaskInOnePlace, FreshTasks, Copies, Holders
<1>2. \A t \in Tasks : /\ launched \subseteq launched' /\ Copies(t)' \in Nat
                       /\ \/ Copies(t)' <= Copies(t)
                          \/ t \notin launched /\ t \in launched' /\ Copies(t)' <= 1
  BY CopiesStep
<1>3. \A t \in Tasks : Copies(t)' <= 1 /\ (t \notin launched' => Copies(t)' = 0)
  BY <1>1, <1>2
<1> QED BY <1>3 DEF TaskInOnePlace, FreshTasks, Copies, Holders

\* An executor holds a coroutine in the same three places.
LEMMA TaskPlaceStep == IInv /\ [Next]_vars => TaskPlace'
<1> SUFFICES ASSUME IInv, [Next]_vars PROVE TaskPlace'
  OBVIOUS
<1>0. TypeOK /\ TaskPlace
  BY DEF IInv, CountIsExact
<1> USE PoolAssumption DEF TaskPlace, TypeOK
<1>1. ASSUME NEW x \in Executors, Coroutine(x) PROVE TaskPlace'
  <2>1. CASE Schedule(x) \/ Refused(x) \/ Enter(x) \/ RetryEnter(x)
    BY <1>0, <2>1 DEF Schedule, Refused, Enter, RetryEnter
  <2>2. CASE Push(x) \/ Complete(x)
    BY <1>0, <2>2 DEF Push, Complete, AfterTask
  <2>3. CASE NotifyOne(x)
    BY <1>0, <2>3 DEF NotifyOne, Notified, AfterTask, Executors
  <2> QED BY <1>1, <2>1, <2>2, <2>3 DEF Coroutine
<1>2. ASSUME NEW x \in Clients, NEW s \in Tasks, Launch(x, s) PROVE TaskPlace'
  BY <1>0, <1>2 DEF Launch
<1>3. ASSUME NEW w \in Workers, Wait(w) \/ SpuriousWake(w) \/ Leave(w) PROVE TaskPlace'
  BY <1>0, <1>3 DEF Wait, SpuriousWake, Leave
<1>4. ASSUME NEW w \in Workers, Pop(w) PROVE TaskPlace'
  <2>1. Head(buffer) \in Tasks \cup {SENTINEL}
    BY <1>0, <1>4, HeadTailProperties DEF Pop
  <2> QED BY <1>0, <1>4, <2>1 DEF Pop
<1>5. ASSUME NEW c \in Joiners, Close(c) \/ Shutdown(c) \/ Destroy PROVE TaskPlace'
  BY <1>0, <1>5 DEF Close, Shutdown, PushBatch, NotifyBatch, BeginJoin, Join,
     JoinThrows, Return, Destroy, execVars
<1>6. CASE UNCHANGED vars
  BY <1>0, <1>6 DEF vars, execVars
<1> HIDE DEF TaskPlace, TypeOK
<1>7. Closers \subseteq Joiners /\ DTOR \in Joiners
  BY DEF Joiners
<1> QED BY <1>1, <1>2, <1>3, <1>4, <1>5, <1>6, <1>7 DEF Next, WorkLoop, Executors

-----------------------------------------------------------------------------
(***************************************************************************)
(* The sentinels and the notifications.                                    *)
(***************************************************************************)

\* The sets that are counted.
LEMMA BatchSets ==
    ASSUME TypeOK
    PROVE  /\ Sentinels = Indices(buffer, {SENTINEL})
           /\ IsFiniteSet(Sentinels) /\ Cardinality(Sentinels) \in Nat
           /\ Live \subseteq Workers /\ IsFiniteSet(Live) /\ Cardinality(Live) \in Nat
           /\ Waiting \subseteq Workers /\ IsFiniteSet(Waiting)
           /\ Cardinality(Waiting) \in Nat /\ Cardinality(Waiting) <= NThreads
<1>1. Sentinels = Indices(buffer, {SENTINEL})
  BY DEF Sentinels, Indices
<1>2. IsFiniteSet(Sentinels) /\ Cardinality(Sentinels) \in Nat
  BY <1>1, IndicesFinite DEF TypeOK
<1>3. Live \subseteq Workers /\ Waiting \subseteq Workers
  BY DEF Live, Waiting
<1>4. IsFiniteSet(Live) /\ Cardinality(Live) \in Nat
  BY <1>3, FiniteThreads, FS_Subset, FS_CardinalityType
<1>5. IsFiniteSet(Waiting) /\ Cardinality(Waiting) \in Nat
      /\ Cardinality(Waiting) <= NThreads
  BY <1>3, FiniteThreads, FS_Subset, FS_CardinalityType
<1> QED BY <1>1, <1>2, <1>3, <1>4, <1>5

\* A step of an executor or of a notification: the closers stand where they
\* stood, and nobody falls asleep.
LEMMA ExecutorFrame ==
    ASSUME IInv, TypeOK', UNCHANGED <<closing, loop>>,
           closed(pool_state)' <=> closed(pool_state),
           Cardinality(Sentinels)' = Cardinality(Sentinels), Live' = Live,
           Waiting' \subseteq Waiting,
           ~Batched /\ buffer' # <<>> /\ Waiting' # {} =>
              \/ Waiting' # Workers
              \/ \E x \in Clients : at'[x] = "notifying"
    PROVE  BatchInv'
<1>0. TypeOK /\ BatchInv
  BY DEF IInv, CountIsExact
<1>1. OneBatcher' /\ (Batched' <=> Batched)
  BY <1>0 DEF BatchInv, OneBatcher, Batched
<1>2. Sentinels = {} => Sentinels' = {}
  <2>1. buffer' \in Seq(Tasks \cup {SENTINEL})
    BY DEF TypeOK
  <2>2. IsFiniteSet(Indices(buffer', {SENTINEL}))
    BY <2>1, IndicesFinite
  <2>3. IsFiniteSet(Sentinels')
    BY <2>2 DEF Sentinels, Indices
  <2> QED BY <2>3, FS_EmptySet
<1>3. BeforeBatch'
  BY <1>0, <1>1, <1>2 DEF BatchInv, BeforeBatch
<1>4. Cardinality(Waiting') \in Nat /\ Cardinality(Waiting') <= Cardinality(Waiting)
  BY <1>0, BatchSets, FS_Subset, FS_CardinalityType
<1>5. ASSUME Batched' PROVE /\ Cardinality(Sentinels)' = Cardinality(Live)'
                            /\ (Waiting # {})' => (\E c \in Closers : closing[c] = "notifying")'
                            /\ \A c \in Closers : closing'[c] = "notifying" =>
                                  Cardinality(Waiting') <= loop'[c]
  <2>1. /\ Cardinality(Sentinels) = Cardinality(Live)
        /\ Waiting # {} => \E c \in Closers : closing[c] = "notifying"
        /\ \A c \in Closers : closing[c] = "notifying" =>
                                  Cardinality(Waiting) <= loop[c]
    BY <1>0, <1>1, <1>5 DEF BatchInv, AfterBatch
  <2>2. \A c \in Closers : loop[c] \in Nat
    BY <1>0, PoolAssumption DEF TypeOK, Joiners
  <2>3. Cardinality(Waiting) \in Nat
    BY <1>0, BatchSets
  <2> QED BY <1>4, <2>1, <2>2, <2>3
<1> QED BY <1>1, <1>3, <1>5 DEF BatchInv, AfterBatch

\* Enter and Leave keep the closed flag.
LEMMA FlagKept ==
    ASSUME CountIsExact, NEW x \in Executors, Enter(x) \/ (x \in Workers /\ Leave(x))
    PROVE  closed(pool_state)' <=> closed(pool_state)
<1>1. CASE Enter(x)
  BY <1>1, PoolStateArithmetic DEF CountIsExact, TypeOK, Enter, NEW_AWAITER_INCREMENT, closed
<1>2. CASE x \in Workers /\ Leave(x)
  BY <1>2, LeaveHasSlot, PoolStateArithmetic
     DEF CountIsExact, TypeOK, Leave, NEW_AWAITER_INCREMENT, closed
<1> QED BY <1>1, <1>2

\* A coroutine announces what it pushes: until then its executor is not asleep.
LEMMA CoroutineBatch ==
    ASSUME IInv, TypeOK', NEW x \in Executors, Coroutine(x)
    PROVE  BatchInv'
<1>0. TypeOK /\ TaskPlace /\ BatchInv /\ CountIsExact
  BY DEF IInv, CountIsExact
<1>1. CASE Schedule(x) \/ Refused(x) \/ RetryEnter(x) \/ Enter(x) \/ Complete(x)
  <2>1. /\ at[x] \in {"running", "entering"}
        /\ \E p \in {"running", "entering", "pushing", "leaving", "idle"} :
              at' = [at EXCEPT ![x] = p]
        /\ UNCHANGED <<buffer, closing, loop>>
    <3>1. CASE RetryEnter(x)
      BY <1>0, <3>1 DEF RetryEnter, closeVars, TypeOK
    <3> QED BY <1>1, <3>1 DEF Schedule, Refused, Enter, Complete, AfterTask, closeVars
  <2>2. closed(pool_state)' <=> closed(pool_state)
    BY <1>0, <1>1, FlagKept DEF Schedule, Refused, RetryEnter, Complete
  <2>3. /\ Sentinels' = Sentinels /\ Live' = Live /\ Waiting' = Waiting
        /\ \A y \in Clients : at[y] = "notifying" => at'[y] = "notifying"
    BY <1>0, <2>1 DEF TypeOK, Sentinels, Live, Waiting, Executors
  <2>4. ~Batched /\ buffer' # <<>> /\ Waiting' # {} =>
              \/ Waiting' # Workers
              \/ \E y \in Clients : at'[y] = "notifying"
    BY <1>0, <2>1, <2>3 DEF BatchInv, BeforeBatch
  <2> QED BY <2>1, <2>2, <2>3, <2>4, ExecutorFrame
<1>2. CASE Push(x)
  <2>1. /\ at[x] = "pushing" /\ at' = [at EXCEPT ![x] = "notifying"]
        /\ buffer' = Append(buffer, task[x]) /\ task[x] \in Tasks
        /\ UNCHANGED <<pool_state, closing, loop>>
    BY <1>0, <1>2, PushesTask DEF Push, closeVars
  <2>2. Live' = Live /\ Waiting' = Waiting /\ at'[x] = "notifying" /\ x \notin Waiting
    BY <1>0, <2>1 DEF TypeOK, Live, Waiting
  <2>3. Indices(buffer', {SENTINEL}) = Indices(buffer, {SENTINEL})
    <3>1. /\ buffer \in Seq(Tasks \cup {SENTINEL})
          /\ task[x] \in Tasks \cup {SENTINEL} /\ task[x] \notin {SENTINEL}
      BY <1>0, <2>1, PoolAssumption DEF TypeOK
    <3>2. Indices(Append(buffer, task[x]), {SENTINEL}) = Indices(buffer, {SENTINEL})
      BY <3>1, IndicesAppend
    <3> QED BY <2>1, <3>2
  <2>4. Sentinels' = Sentinels
    BY <2>3 DEF Sentinels, Indices
  <2>5. Waiting' # Workers \/ \E y \in Clients : at'[y] = "notifying"
    BY <2>2 DEF Executors
  <2> QED BY <2>1, <2>2, <2>4, <2>5, ExecutorFrame DEF closed
<1>3. CASE NotifyOne(x)
  <2>1. at[x] = "notifying" /\ UNCHANGED <<pool_state, buffer, closing, loop>>
    BY <1>3 DEF NotifyOne, closeVars
  <2>2. /\ Live' = Live /\ Waiting' \subseteq Waiting
        /\ Waiting' # {} => Waiting' # Workers
    <3>1. CASE Waiting = {}
      <4>1. at' = [at EXCEPT ![x] = AfterTask(x)]
        BY <1>3, <3>1 DEF NotifyOne, Notified, Waiting
      <4>2. Live' = Live /\ Waiting' = Waiting
        BY <1>0, <2>1, <4>1 DEF TypeOK, AfterTask, Live, Waiting
      <4> QED BY <3>1, <4>2
    <3>2. CASE Waiting # {}
      <4>1. PICK w \in Workers : /\ at[w] = "waiting"
                                 /\ at' = [[at EXCEPT ![x] = AfterTask(x)]
                                              EXCEPT ![w] = "idle"]
        BY <1>3, <3>2 DEF NotifyOne, Notified, Waiting
      <4>2. w \in Executors /\ w # x
        BY <2>1, <4>1 DEF Executors
      <4>3. Live' = Live /\ Waiting' = Waiting \ {w}
        <5>1. /\ at'[w] = "idle" /\ at'[x] \in {"leaving", "idle"}
              /\ \A y \in Executors \ {x, w} : at'[y] = at[y]
          BY <1>0, <4>1, <4>2 DEF TypeOK, AfterTask
        <5>2. Workers \subseteq Executors
          BY DEF Executors
        <5> QED BY <2>1, <4>1, <5>1, <5>2 DEF Live, Waiting
      <4> QED BY <4>1, <4>3
    <3> QED BY <3>1, <3>2
  <2>3. Sentinels' = Sentinels
    BY <2>1 DEF Sentinels
  <2> QED BY <2>1, <2>2, <2>3, ExecutorFrame DEF closed
<1> QED BY <1>1, <1>2, <1>3 DEF Coroutine

\* A launch touches neither the queue nor the workers.
LEMMA LaunchBatch ==
    ASSUME IInv, TypeOK', NEW x \in Clients, NEW t \in Tasks, Launch(x, t)
    PROVE  BatchInv'
<1>0. TypeOK /\ BatchInv
  BY DEF IInv, CountIsExact
<1>1. /\ at[x] = "idle" /\ at' = [at EXCEPT ![x] = "running"]
      /\ UNCHANGED <<pool_state, buffer, closing, loop>>
  BY DEF Launch, closeVars
<1>2. /\ Sentinels' = Sentinels /\ Live' = Live /\ Waiting' = Waiting
      /\ \A y \in Clients : at[y] = "notifying" => at'[y] = "notifying"
  BY <1>0, <1>1, PoolAssumption DEF TypeOK, Sentinels, Live, Waiting, Executors
<1>3. ~Batched /\ buffer' # <<>> /\ Waiting' # {} =>
            \/ Waiting' # Workers
            \/ \E y \in Clients : at'[y] = "notifying"
  BY <1>0, <1>1, <1>2 DEF BatchInv, BeforeBatch
<1> QED BY <1>1, <1>2, <1>3, ExecutorFrame DEF closed

\* A worker: it sleeps on an empty queue only, so never while its sentinel is
\* there, and takes a sentinel with it when it exits.
LEMMA WorkerBatch ==
    ASSUME IInv, TypeOK', NEW w \in Workers,
           Wait(w) \/ SpuriousWake(w) \/ Pop(w) \/ Leave(w)
    PROVE  BatchInv'
<1>0. TypeOK /\ BatchInv /\ CountIsExact /\ w \in Executors
  BY DEF IInv, CountIsExact, Executors
<1>1. CASE Wait(w)
  <2>1. /\ at[w] = "idle" /\ buffer = <<>> /\ at' = [at EXCEPT ![w] = "waiting"]
        /\ UNCHANGED <<pool_state, buffer, closing, loop>>
    BY <1>1 DEF Wait, closeVars
  <2>2. Sentinels = {} /\ Sentinels' = Sentinels /\ Live' = Live /\ w \in Live
    BY <1>0, <2>1 DEF TypeOK, Sentinels, Live
  <2>3. ~Batched
    <3>1. Cardinality(Live) # 0
      BY <1>0, <2>2, BatchSets, FS_EmptySet
    <3>2. Cardinality(Sentinels) = 0
      BY <2>2, FS_EmptySet
    <3> QED BY <1>0, <3>1, <3>2 DEF BatchInv, AfterBatch
  <2>4. OneBatcher' /\ ~Batched'
    BY <1>0, <2>1, <2>3 DEF BatchInv, OneBatcher, Batched, closed
  <2> QED BY <1>0, <2>1, <2>2, <2>3, <2>4 DEF BatchInv, BeforeBatch, AfterBatch
<1>2. CASE SpuriousWake(w) \/ Leave(w)
  <2>1. /\ at[w] \in {"waiting", "leaving"} /\ at' = [at EXCEPT ![w] = "idle"]
        /\ UNCHANGED <<buffer, closing, loop>>
    BY <1>2 DEF SpuriousWake, Leave, closeVars
  <2>2. closed(pool_state)' <=> closed(pool_state)
    BY <1>0, <1>2, FlagKept DEF SpuriousWake, closed
  <2>3. /\ Sentinels' = Sentinels /\ Live' = Live /\ Waiting' \subseteq Waiting
        /\ w \notin Waiting'
    BY <1>0, <2>1 DEF TypeOK, Sentinels, Live, Waiting
  <2> QED BY <2>1, <2>2, <2>3, ExecutorFrame
<1>3. CASE Pop(w) /\ Head(buffer) # SENTINEL
  <2>1. /\ at[w] = "idle" /\ buffer # <<>> /\ buffer' = Tail(buffer)
        /\ at' = [at EXCEPT ![w] = "running"]
        /\ UNCHANGED <<pool_state, closing, loop>>
    BY <1>3 DEF Pop, closeVars
  <2>2. Live' = Live /\ Waiting' = Waiting /\ w \notin Waiting
    BY <1>0, <2>1 DEF TypeOK, Live, Waiting
  <2>3. Cardinality(Indices(buffer', {SENTINEL})) = Cardinality(Indices(buffer, {SENTINEL}))
    <3>1. buffer \in Seq(Tasks \cup {SENTINEL}) /\ Head(buffer) \notin {SENTINEL}
      BY <1>0, <1>3 DEF TypeOK
    <3> QED BY <2>1, <3>1, IndicesTail
  <2>4. Cardinality(Sentinels') = Cardinality(Sentinels)
    BY <2>3 DEF Sentinels, Indices
  <2> QED BY <2>1, <2>2, <2>4, ExecutorFrame DEF closed
<1>4. CASE Pop(w) /\ Head(buffer) = SENTINEL
  <2>1. /\ at[w] = "idle" /\ buffer # <<>> /\ buffer' = Tail(buffer)
        /\ at' = [at EXCEPT ![w] = "exited"]
        /\ UNCHANGED <<pool_state, closing, loop>>
    BY <1>4 DEF Pop, closeVars
  <2>2. Live' \ {w} = Live \ {w} /\ w \in Live /\ w \notin Live' /\ Waiting' = Waiting
    BY <1>0, <2>1 DEF TypeOK, Live, Waiting
  <2>3. Cardinality(Live') = Cardinality(Live) - 1
    BY <1>0, <2>2, BatchSets, MoveOne
  <2>4. 1 \in Sentinels
    BY <1>0, <1>4, <2>1, LenProperties, EmptySeq, HeadTailProperties DEF TypeOK, Sentinels
  <2>5. Batched
    BY <1>0, <2>4 DEF BatchInv, BeforeBatch
  <2>6. Cardinality(Indices(buffer', {SENTINEL}))
          = Cardinality(Indices(buffer, {SENTINEL})) - 1
    <3>1. buffer \in Seq(Tasks \cup {SENTINEL}) /\ Head(buffer) \in {SENTINEL}
      BY <1>0, <1>4 DEF TypeOK
    <3> QED BY <2>1, <3>1, IndicesTail
  <2>7. Cardinality(Sentinels') = Cardinality(Sentinels) - 1
    BY <2>6 DEF Sentinels, Indices
  <2>8. OneBatcher' /\ Batched'
    BY <1>0, <2>1, <2>5 DEF BatchInv, OneBatcher, Batched, closed
  <2>9. Cardinality(Sentinels') = Cardinality(Live')
    BY <1>0, <2>3, <2>5, <2>7 DEF BatchInv, AfterBatch
  <2> QED BY <1>0, <2>1, <2>2, <2>5, <2>8, <2>9 DEF BatchInv, BeforeBatch, AfterBatch
<1> QED BY <1>1, <1>2, <1>3, <1>4

\* A step of a closer that leaves the executors, the flag and the one who sends
\* the sentinels alone.
LEMMA CloserFrame ==
    ASSUME IInv, UNCHANGED <<buffer, at>>, closed(pool_state)' <=> closed(pool_state),
           closing'[DTOR] \notin {"batching", "notifying"},
           \A d \in Closers : closing'[d] # "open" => closed(pool_state),
           \A d \in Closers : \A p \in {"batching", "notifying"} :
              closing'[d] = p <=> closing[d] = p,
           \A d \in Closers : closing[d] = "notifying" => loop'[d] = loop[d]
    PROVE  BatchInv'
<1>0. BatchInv
  BY DEF IInv
<1>1. OneBatcher' /\ (Batched' <=> Batched)
  BY <1>0 DEF BatchInv, OneBatcher, Batched
<1>2. Sentinels' = Sentinels /\ Live' = Live /\ Waiting' = Waiting
  BY DEF Sentinels, Live, Waiting
<1>3. BeforeBatch'
  BY <1>0, <1>1, <1>2 DEF BatchInv, BeforeBatch
<1>4. AfterBatch'
  BY <1>0, <1>1, <1>2 DEF BatchInv, AfterBatch
<1> QED BY <1>1, <1>3, <1>4 DEF BatchInv

\* The first closer is to push the batch; the others join at once.
LEMMA CloseBatch ==
    ASSUME IInv, NEW c \in Closers, Close(c)
    PROVE  BatchInv'
<1>0. TypeOK /\ BatchInv /\ c \in Joiners /\ c # DTOR
  BY PoolAssumption DEF IInv, CountIsExact, Joiners
<1>1. closing[c] = "open" /\ UNCHANGED <<buffer, at>> /\ Closers \subseteq Joiners
  BY DEF Close, execVars, Joiners
<1>2. CASE closed(pool_state)
  <2>1. /\ pool_state' = pool_state /\ closing' = [closing EXCEPT ![c] = "joining"]
        /\ loop' = [loop EXCEPT ![c] = 1]
    BY <1>2 DEF Close
  <2>2. /\ closing'[c] = "joining"
        /\ \A d \in Joiners \ {c} : closing'[d] = closing[d] /\ loop'[d] = loop[d]
    BY <1>0, <2>1 DEF TypeOK
  <2>3. closing'[DTOR] \notin {"batching", "notifying"}
    BY <1>0, <2>2 DEF BatchInv, OneBatcher, Joiners
  <2>4. closed(pool_state)' <=> closed(pool_state)
    BY <2>1 DEF closed
  <2> QED BY <1>1, <1>2, <2>2, <2>3, <2>4, CloserFrame
<1>3. CASE ~closed(pool_state)
  <2>1. /\ pool_state' = pool_state + 1 /\ closing' = [closing EXCEPT ![c] = "batching"]
    BY <1>3 DEF Close, CLOSED_FLAG
  <2>2. closed(pool_state')
    BY <1>0, <1>3, <2>1, PoolStateArithmetic DEF TypeOK
  <2>3. /\ closing'[c] = "batching" /\ closing'[DTOR] \notin {"batching", "notifying"}
        /\ \A d \in Closers \ {c} : closing'[d] = "open"
    BY <1>0, <1>1, <1>3, <2>1 DEF BatchInv, OneBatcher, TypeOK, Joiners
  <2>4. OneBatcher'
    BY <2>2, <2>3 DEF OneBatcher, closed
  <2>5. ~Batched /\ ~Batched'
    BY <1>3, <2>3 DEF Batched
  <2>6. Sentinels' = Sentinels /\ Live' = Live /\ Waiting' = Waiting
    BY <1>1 DEF Sentinels, Live, Waiting
  <2>7. BeforeBatch'
    BY <1>0, <1>1, <2>5, <2>6 DEF BatchInv, BeforeBatch
  <2> QED BY <2>4, <2>5, <2>7 DEF BatchInv, AfterBatch
<1> QED BY <1>2, <1>3

\* The batch has a sentinel for every worker, and its notifications are enough
\* for everyone who sleeps.
LEMMA PushBatchBatch ==
    ASSUME IInv, NEW c \in Joiners, PushBatch(c)
    PROVE  BatchInv'
<1>0. TypeOK /\ BatchInv
  BY DEF IInv, CountIsExact
<1>1. /\ closing[c] = "batching" /\ closing' = [closing EXCEPT ![c] = "notifying"]
      /\ loop' = [loop EXCEPT ![c] = NThreads] /\ UNCHANGED <<pool_state, at>>
  BY DEF PushBatch, execVars
<1>2. c \in Closers /\ c # DTOR /\ Closers \subseteq Joiners /\ DTOR \in Joiners
  BY <1>0, <1>1 DEF BatchInv, OneBatcher, Joiners
<1>3. closed(pool_state) /\ ~Batched
  BY <1>0, <1>1, <1>2 DEF BatchInv, OneBatcher, Batched
<1>4. /\ closing'[c] = "notifying" /\ loop'[c] = NThreads
      /\ closing'[DTOR] \notin {"batching", "notifying"}
      /\ \A d \in Closers \ {c} : closing'[d] = closing[d]
      /\ \A d \in Closers \ {c} : closing[d] \notin {"batching", "notifying"}
  BY <1>0, <1>1, <1>2 DEF BatchInv, OneBatcher, TypeOK
<1>5. OneBatcher' /\ Batched'
  BY <1>0, <1>1, <1>3, <1>4 DEF BatchInv, OneBatcher, Batched, closed
<1>6. Sentinels = {} /\ Live' = Workers /\ Waiting' = Waiting
  BY <1>0, <1>1, <1>3 DEF BatchInv, BeforeBatch, Live, Waiting
<1>7. Cardinality(Sentinels') = NThreads
  <2>1. Indices(buffer, {SENTINEL}) = {}
    BY <1>0, <1>6, BatchSets
  <2>2. Cardinality(Indices(buffer', {SENTINEL})) = NThreads
    BY <1>0, <2>1, SentinelBatch
  <2> QED BY <2>2 DEF Sentinels, Indices
<1>8. Cardinality(Live') = NThreads /\ Cardinality(Waiting') <= NThreads
  BY <1>0, <1>6, FiniteThreads, BatchSets
<1>9. \A d \in Closers : closing'[d] = "notifying" => d = c
  BY <1>4
<1>10. AfterBatch'
  BY <1>2, <1>4, <1>7, <1>8, <1>9 DEF AfterBatch
<1> QED BY <1>5, <1>10 DEF BatchInv, BeforeBatch

\* A notify_one of the batch wakes one of the sleepers it is for.
LEMMA NotifyBatchBatch ==
    ASSUME IInv, TypeOK', NEW c \in Joiners, NotifyBatch(c)
    PROVE  BatchInv'
<1>0. TypeOK /\ BatchInv
  BY DEF IInv, CountIsExact
<1>1. /\ closing[c] = "notifying" /\ loop[c] > 0 /\ loop' = [loop EXCEPT ![c] = loop[c] - 1]
      /\ UNCHANGED <<pool_state, buffer, closing>>
  BY DEF NotifyBatch
<1>2. c \in Closers /\ Closers \subseteq Joiners
  BY <1>0, <1>1 DEF BatchInv, OneBatcher, Joiners
<1>3. /\ closed(pool_state) /\ \A d \in Closers : closing[d] # "batching"
      /\ \A d \in Closers : closing[d] = "notifying" => d = c
  BY <1>0, <1>1, <1>2 DEF BatchInv, OneBatcher
<1>4. Batched /\ Batched' /\ OneBatcher'
  BY <1>0, <1>1, <1>3 DEF BatchInv, OneBatcher, Batched, closed
<1>5. loop[c] \in Nat /\ loop'[c] = loop[c] - 1 /\ Cardinality(Waiting) <= loop[c]
  BY <1>0, <1>1, <1>2, <1>4, PoolAssumption DEF TypeOK, BatchInv, AfterBatch
<1>6. Live' = Live /\ Cardinality(Waiting') <= loop'[c]
  <2>1. ASSUME NEW w \in Workers, at[w] = "waiting", at' = [at EXCEPT ![w] = "idle"]
        PROVE  Live' = Live /\ Cardinality(Waiting') <= loop'[c]
    <3>1. /\ Live' = Live /\ Waiting' \ {w} = Waiting \ {w}
          /\ w \in Waiting /\ w \notin Waiting'
      BY <1>0, <2>1 DEF TypeOK, Live, Waiting, Executors
    <3>2. Cardinality(Waiting') = Cardinality(Waiting) - 1 /\ Cardinality(Waiting) \in Nat
      BY <1>0, <3>1, BatchSets, MoveOne
    <3> QED BY <1>5, <3>1, <3>2
  <2>2. ASSUME \A w \in Workers : at[w] # "waiting", at' = at
        PROVE  Live' = Live /\ Cardinality(Waiting') <= loop'[c]
    <3>1. Live' = Live /\ Waiting' = {}
      BY <2>2 DEF Live, Waiting
    <3>2. Cardinality(Waiting') = 0
      BY <3>1, FS_EmptySet
    <3> QED BY <1>1, <1>5, <3>1, <3>2
  <2> QED BY <2>1, <2>2 DEF NotifyBatch
<1>7. Sentinels' = Sentinels
  BY <1>1 DEF Sentinels
<1>8. AfterBatch'
  <2>1. Cardinality(Sentinels') = Cardinality(Live')
    BY <1>0, <1>4, <1>6, <1>7 DEF BatchInv, AfterBatch
  <2> QED BY <1>1, <1>2, <1>3, <1>6, <2>1 DEF AfterBatch
<1> QED BY <1>4, <1>8 DEF BatchInv, BeforeBatch

\* The joins begin when nobody sleeps any more, and change no executor.
LEMMA JoinBatch ==
    ASSUME IInv, NEW c \in Joiners,
           BeginJoin(c) \/ Join(c) \/ JoinThrows(c) \/ Return(c) \/ Destroy
    PROVE  BatchInv'
<1>0. /\ TypeOK /\ BatchInv
      /\ Closers \subseteq Joiners /\ DTOR \in Joiners \ Closers
  BY PoolAssumption DEF IInv, CountIsExact, Joiners
<1>1. CASE BeginJoin(c)
  <2>1. /\ closing[c] = "notifying" /\ loop[c] = 0
        /\ closing' = [closing EXCEPT ![c] = "joining"]
        /\ UNCHANGED <<pool_state, buffer, at>>
    BY <1>1 DEF BeginJoin, execVars
  <2>2. c \in Closers
    BY <1>0, <2>1 DEF BatchInv, OneBatcher, Joiners
  <2>3. /\ closed(pool_state) /\ closing'[DTOR] \notin {"batching", "notifying"}
        /\ closing'[c] = "joining"
        /\ \A d \in Closers \ {c} : closing'[d] = closing[d]
        /\ \A d \in Closers \ {c} : closing[d] \notin {"batching", "notifying"}
    BY <1>0, <2>1, <2>2 DEF BatchInv, OneBatcher, TypeOK
  <2>4. Batched /\ Batched' /\ OneBatcher'
    BY <1>0, <2>1, <2>2, <2>3 DEF BatchInv, OneBatcher, Batched, closed
  <2>5. Waiting = {}
    <3>1. Cardinality(Waiting) <= 0
      BY <1>0, <2>1, <2>2, <2>4 DEF BatchInv, AfterBatch
    <3> QED BY <1>0, <3>1, BatchSets, FS_EmptySet
  <2>6. Sentinels' = Sentinels /\ Live' = Live /\ Waiting' = {}
    BY <2>1, <2>5 DEF Sentinels, Live, Waiting
  <2>7. AfterBatch'
    <3>1. \A d \in Closers : closing'[d] # "notifying"
      BY <2>3
    <3>2. Cardinality(Sentinels') = Cardinality(Live')
      BY <1>0, <2>4, <2>6 DEF BatchInv, AfterBatch
    <3> QED BY <2>6, <3>1, <3>2 DEF AfterBatch
  <2> QED BY <2>4, <2>7 DEF BatchInv, BeforeBatch
<1>2. CASE Join(c) \/ JoinThrows(c) \/ Return(c)
  <2>1. /\ closing[c] = "joining" /\ UNCHANGED <<pool_state, buffer, at>>
        /\ closing' = closing \/ \E p \in {"threw", "returned"} :
                                    closing' = [closing EXCEPT ![c] = p]
        /\ loop' = loop \/ loop' = [loop EXCEPT ![c] = @ + 1]
    BY <1>2 DEF Join, JoinThrows, Return, execVars
  <2>2. /\ closing'[c] \in {"joining", "threw", "returned"}
        /\ \A d \in Joiners \ {c} : closing'[d] = closing[d] /\ loop'[d] = loop[d]
    BY <1>0, <2>1 DEF TypeOK
  <2>3. /\ closing'[DTOR] \notin {"batching", "notifying"}
        /\ \A d \in Closers : closing'[d] # "open" => closed(pool_state)
    BY <1>0, <2>1, <2>2 DEF BatchInv, OneBatcher
  <2>4. closed(pool_state)' <=> closed(pool_state)
    BY <2>1 DEF closed
  <2>5. \A d \in Closers : \A p \in {"batching", "notifying"} :
              closing'[d] = p <=> closing[d] = p
    BY <1>0, <2>1, <2>2
  <2>6. \A d \in Closers : closing[d] = "notifying" => loop'[d] = loop[d]
    BY <1>0, <2>1, <2>2
  <2> QED BY <2>1, <2>3, <2>4, <2>5, <2>6, CloserFrame
<1>3. CASE Destroy
  <2>1. /\ UNCHANGED <<pool_state, buffer, at>>
        /\ \E p \in {"joining", "returned"} : closing' = [closing EXCEPT ![DTOR] = p]
        /\ loop' = [loop EXCEPT ![DTOR] = 1]
    BY <1>3 DEF Destroy, execVars
  <2>2. /\ closing'[DTOR] \notin {"batching", "notifying"}
        /\ \A d \in Closers : closing'[d] = closing[d] /\ loop'[d] = loop[d]
    BY <1>0, <2>1 DEF TypeOK
  <2>3. \A d \in Closers : closing'[d] # "open" => closed(pool_state)
    BY <1>0, <2>2 DEF BatchInv, OneBatcher
  <2>4. closed(pool_state)' <=> closed(pool_state)
    BY <2>1 DEF closed
  <2> QED BY <2>1, <2>2, <2>3, <2>4, CloserFrame
<1> QED BY <1>1, <1>2, <1>3

-----------------------------------------------------------------------------
\* The inductive invariant holds at the start, where the pool is open and empty.
LEMMA InitInv == Init => IInv
<1> SUFFICES ASSUME Init PROVE IInv
  OBVIOUS
<1>0. TypeOK
  BY PoolAssumption, EmptySeq DEF Init, TypeOK
<1>1. Pushers = {} /\ QueuedTasks = {} /\ Busy = {} /\ Sentinels = {} /\ Waiting = {}
  BY DEF Init, Pushers, QueuedTasks, Busy, Sentinels, Waiting, Executors
<1>2. CountIsExact
  <2>1. Slots = 0
    BY <1>0, <1>1, SlotSets, FS_EmptySet
  <2>2. outstanding(pool_state) = 0
    BY DEF Init, outstanding, NEW_AWAITER_INCREMENT
  <2> QED BY <1>0, <2>1, <2>2 DEF CountIsExact
<1>3. \A t \in Tasks : Copies(t) = 0
  <2> TAKE t \in Tasks
  <2>1. Queued(t) = {} /\ Holders(t) = {}
    BY PoolAssumption DEF Init, Queued, Holders
  <2> QED BY <2>1, FS_EmptySet DEF Copies
<1>4. TaskInOnePlace /\ FreshTasks
  BY <1>3 DEF TaskInOnePlace, FreshTasks, Copies, Holders
<1>5. TaskPlace
  BY DEF Init, TaskPlace
<1>6. ~closed(pool_state) /\ \A c \in Joiners : closing[c] = "open"
  BY DEF Init, closed, CLOSED_FLAG
<1>7. OneBatcher /\ ~Batched
  BY <1>6 DEF OneBatcher, Batched, Joiners
<1>8. Live = Workers
  BY DEF Init, Live, Executors
<1>9. BatchInv
  BY <1>1, <1>7, <1>8 DEF BatchInv, BeforeBatch, AfterBatch
<1> QED BY <1>2, <1>4, <1>5, <1>9 DEF IInv

\* Every step keeps it.
LEMMA InvStep == IInv /\ [Next]_vars => IInv'
<1> SUFFICES ASSUME IInv, [Next]_vars PROVE IInv'
  OBVIOUS
<1>1. TypeOK' /\ TaskInOnePlace' /\ FreshTasks' /\ TaskPlace'
  BY TypeStep, CopiesInv, TaskPlaceStep
<1>2. ASSUME NEW x \in Executors, Coroutine(x)
      PROVE  outstanding(pool_state)' = Slots' /\ BatchInv'
  BY <1>1, <1>2, CoroutineCount, CoroutineBatch
<1>3. ASSUME NEW x \in Clients, NEW t \in Tasks, Launch(x, t)
      PROVE  outstanding(pool_state)' = Slots' /\ BatchInv'
  <2>1. TypeOK /\ CountIsExact
    BY DEF IInv, CountIsExact
  <2>2. Pushers' = Pushers /\ Busy' = Busy /\ UNCHANGED <<pool_state, buffer>>
    BY <1>3, <2>1, PoolAssumption DEF Launch, TypeOK, Pushers, Busy, Executors
  <2> QED BY <1>1, <1>3, <2>1, <2>2, QuietCount, LaunchBatch
<1>4. ASSUME NEW w \in Workers, Wait(w) \/ SpuriousWake(w) \/ Pop(w) \/ Leave(w)
      PROVE  outstanding(pool_state)' = Slots' /\ BatchInv'
  BY <1>1, <1>4, WorkerCount, WorkerBatch
<1>5. ASSUME NEW c \in Closers, Close(c)
      PROVE  outstanding(pool_state)' = Slots' /\ BatchInv'
  BY <1>5, CloserCount, CloseBatch DEF Joiners
<1>6. ASSUME NEW c \in Joiners, Shutdown(c) \/ Destroy
      PROVE  outstanding(pool_state)' = Slots' /\ BatchInv'
  <2>1. outstanding(pool_state)' = Slots'
    BY <1>6, CloserCount
  <2>2. BatchInv'
    BY <1>1, <1>6, PushBatchBatch, NotifyBatchBatch, JoinBatch DEF Shutdown
  <2> QED BY <2>1, <2>2
<1>7. ASSUME UNCHANGED vars PROVE outstanding(pool_state)' = Slots' /\ BatchInv'
  <2>1. UNCHANGED <<pool_state, buffer, at, closing, loop>>
    BY <1>7 DEF vars, execVars, closeVars
  <2>2. Slots' = Slots /\ BatchInv'
    BY <2>1 DEF IInv, Slots, BatchInv, OneBatcher, BeforeBatch, AfterBatch, Batched,
       Sentinels, Live, Waiting, closed
  <2> QED BY <2>1, <2>2 DEF IInv, CountIsExact, outstanding
<1>8. outstanding(pool_state)' = Slots' /\ BatchInv'
  <2>1. CASE \E x \in Clients : Coroutine(x) \/ \E t \in Tasks : Launch(x, t)
    BY <1>2, <1>3, <2>1 DEF Executors
  <2>2. CASE \E w \in Workers : WorkLoop(w) \/ SpuriousWake(w)
    BY <1>2, <1>4, <2>2 DEF WorkLoop, Executors
  <2>3. CASE \/ \E c \in Closers : Close(c)
             \/ \E c \in Joiners : Shutdown(c)
             \/ Destroy
    BY <1>5, <1>6, <2>3 DEF Joiners
  <2> QED BY <1>7, <2>1, <2>2, <2>3 DEF Next
<1> QED BY <1>1, <1>8 DEF IInv, CountIsExact

\* It is an invariant.
LEMMA Invariance == Spec => []IInv
BY InitInv, InvStep, PTL DEF Spec

\* pool_state counts the outstanding awaiters exactly, for any number of
\* executors that enter, leave and close the pool at once.
THEOREM PoolCounts == Spec => []CountIsExact
<1>1. IInv => CountIsExact
  BY DEF IInv
<1> QED BY <1>1, Invariance, PTL

\* A coroutine is queued once or runs on one executor, never both: no two workers
\* resume it, and it is not resumed while it still runs.
THEOREM OneResumer == Spec => []TaskInOnePlace
<1>1. IInv => TaskInOnePlace
  BY DEF IInv
<1> QED BY <1>1, Invariance, PTL

\* No wakeup is lost, in operation and when the sentinels are sent: while something
\* is queued and a worker sleeps, someone is awake who could serve the queue or is
\* about to call notify_one.
THEOREM NoWakeupLost == Spec => []NoLostWakeup
<1>1. IInv => NoLostWakeup
  <2> SUFFICES ASSUME IInv, buffer # <<>>, NEW w \in Workers, at[w] = "waiting"
               PROVE  \/ \E v \in Workers : at[v] \notin {"waiting", "exited"}
                      \/ \E x \in Clients : at[x] = "notifying"
                      \/ \E c \in Closers : closing[c] = "notifying" /\ loop[c] > 0
    BY DEF NoLostWakeup
  <2>0. TypeOK /\ BatchInv
    BY DEF IInv, CountIsExact
  <2>1. w \in Waiting
    BY DEF Waiting
  <2>2. CASE ~Batched
    BY <2>0, <2>1, <2>2 DEF BatchInv, BeforeBatch, Live, Waiting
  <2>3. CASE Batched
    <3>1. PICK c \in Closers : closing[c] = "notifying" /\ Cardinality(Waiting) <= loop[c]
      BY <2>0, <2>1, <2>3 DEF BatchInv, AfterBatch
    <3>2. Cardinality(Waiting) # 0 /\ Cardinality(Waiting) \in Nat
      BY <2>0, <2>1, BatchSets, FS_EmptySet
    <3>3. loop[c] \in Nat
      BY <2>0, PoolAssumption DEF TypeOK, Joiners
    <3> QED BY <3>1, <3>2, <3>3
  <2> QED BY <2>2, <2>3
<1> QED BY <1>1, Invariance, PTL
=============================================================================
