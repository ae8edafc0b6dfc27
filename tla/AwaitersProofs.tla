-------------------------- MODULE AwaitersProofs --------------------------
(***************************************************************************)
(* The primitives that keep their waiters in a list `awaiters`: first      *)
(* async_latch, then async_lock, each proved on its own.  What they share  *)
(* (Awaiters) stands for that of the primitive a statement is about.       *)
(***************************************************************************)
EXTENDS AsyncLatch, MCAsyncLock, FiniteSetTheorems, SequenceTheorems,
        WellFoundedInduction, TLAPS

-----------------------------------------------------------------------------
(***************************************************************************)
(* The release of async_latch is safe for any number of coroutines and     *)
(* threads, any initial count and any positive decrements.                 *)
(*                                                                         *)
(* The argument has two halves.  Until the releasing thread has loaded the *)
(* stack (Unreleased) nobody was resumed, and the stack that hangs from    *)
(* `awaiters` consists of suspended coroutines: StackOK.  Afterwards the   *)
(* stack may hold pointers to frames that are gone, but the releasing      *)
(* thread, which is alone (OneReleaser), walks a chain that is closed      *)
(* under next_awaiter, suspended throughout and visited once: ChainOK.     *)
(* The chain is an existentially quantified set, so that no induction over *)
(* the list is needed.                                                     *)
(***************************************************************************)
Releases(k) == step[k] \in {"releasing", "walking"}

OneReleaser ==
    /\ \A k \in Counters : Releases(k) => count = 0
    /\ \A j, k \in Counters : Releases(j) /\ Releases(k) => j = k
    /\ \A k \in Counters : awaiter[k] # NULL => step[k] = "walking"

Unreleased == count > 0 \/ \E k \in Counters : step[k] = "releasing"

LinkPrepared ==
    \A c \in Waiters : pc[c] = "linking" => next_awaiter[c] = old_head[c]

StackOK ==
    /\ awaiters # NULL => pc[awaiters] = "suspended"
    /\ \A c \in Waiters :
         pc[c] \in {"checking", "linking"} /\ old_head[c] # NULL
            => pc[old_head[c]] = "suspended"
    /\ \A c \in Waiters :
         pc[c] = "suspended" /\ next_awaiter[c] # NULL
            => pc[next_awaiter[c]] = "suspended" /\ next_awaiter[c] # awaiters
    /\ \A c, d \in Waiters :
         (/\ pc[c] = "suspended" /\ pc[d] = "suspended"
          /\ next_awaiter[c] # NULL /\ next_awaiter[c] = next_awaiter[d])
            => c = d

\* S holds the rest of the chain from a on.
WalkedChain(S, a) ==
    /\ a \in S
    /\ \A c \in S :
         /\ pc[c] = "suspended"
         /\ next_awaiter[c] \in S \cup {NULL}
         /\ next_awaiter[c] # a
    /\ \A c, d \in S : next_awaiter[c] # NULL /\ next_awaiter[c] = next_awaiter[d]
                          => c = d

ChainOK ==
    \A k \in Counters : awaiter[k] # NULL =>
        \E S \in SUBSET Waiters : WalkedChain(S, awaiter[k])

ArgumentKept ==
    \A k \in Counters : step[k] = "subtracting" => n[k] \in Decrements

LatchInv ==
    /\ LatchTypeOK
    /\ ArgumentKept
    /\ OneReleaser
    /\ PassedMeansExpired
    /\ LinkPrepared
    /\ (Unreleased => StackOK)
    /\ ChainOK

\* What a step of a waiter that leaves the resumer alone keeps: only the waiter
\* itself changes, and it is not one that was suspended.
LEMMA WaitingStep ==
    ASSUME LatchInv, NEW c \in Waiters, Waiting(c)
    PROVE  LatchInv'
<1> USE LatchAssumption DEF Goto
<1>1. LatchTypeOK'
  <2>1. CASE Link(c)
    BY <2>1 DEF LatchInv, LatchTypeOK, Link, LatchPointer, counterVars
  <2>2. CASE FinishWaiter(c)
    BY <2>2 DEF LatchInv, LatchTypeOK, FinishWaiter, ReturnToResumer,
        LatchPointer, counterVars
  <2>3. CASE AwaitReady(c)
    BY <2>3 DEF LatchInv, LatchTypeOK, AwaitReady, LatchPointer,
        counterVars
  <2>4. CASE LoadHead(c)
    BY <2>4 DEF LatchInv, LatchTypeOK, LoadHead, LatchPointer, counterVars
  <2>5. CASE CheckExpired(c)
    BY <2>5 DEF LatchInv, LatchTypeOK, CheckExpired, LatchPointer,
        counterVars
  <2>6. CASE RetryLink(c)
    BY <2>6 DEF LatchInv, LatchTypeOK, RetryLink, LatchPointer,
        counterVars
  <2> QED BY <2>1, <2>2, <2>3, <2>4, <2>5, <2>6 DEF Waiting
<1>2. UNCHANGED <<count, step, awaiter, n>>
  BY DEF Waiting, AwaitReady, LoadHead, CheckExpired,
      Link, RetryLink, FinishWaiter,
         counterVars
<1>3. OneReleaser' /\ ArgumentKept'
  BY <1>2 DEF LatchInv, OneReleaser, Releases, ArgumentKept
<1>4. /\ pc[c] # "suspended"
      /\ \A d \in Waiters \ {c} : pc'[d] = pc[d]
      /\ \A d \in Waiters \ {c} : next_awaiter'[d] = next_awaiter[d]
      /\ \A d \in Waiters \ {c} : old_head'[d] = old_head[d]
  BY DEF LatchInv, LatchTypeOK, Waiting, AwaitReady, LoadHead,
      CheckExpired, Link,
         RetryLink, FinishWaiter
<1>5. PassedMeansExpired'
  BY <1>2, <1>4 DEF LatchInv, LatchTypeOK, PassedMeansExpired, expired,
      Waiting,
         AwaitReady, LoadHead, CheckExpired, Link,
         RetryLink, FinishWaiter
<1>6. LinkPrepared'
  BY <1>4 DEF LatchInv, LatchTypeOK, LinkPrepared, Waiting,
         AwaitReady, LoadHead, CheckExpired, Link,
         RetryLink, FinishWaiter
<1>7. ASSUME Unreleased' PROVE StackOK'
  <2>1. Unreleased
    BY <1>2, <1>7 DEF Unreleased
  <2>2. StackOK
    BY <2>1 DEF LatchInv
  <2> USE <2>2
  <2>3. CASE Link(c)
    BY <2>3, <1>4 DEF LatchInv, LatchTypeOK, LinkPrepared, Link, StackOK,
        LatchPointer
  <2>4. CASE LoadHead(c)
    BY <2>4, <1>4 DEF LatchInv, LatchTypeOK, LoadHead, StackOK, LatchPointer
  <2>5. CASE RetryLink(c)
    BY <2>5, <1>4 DEF LatchInv, LatchTypeOK, RetryLink, StackOK, LatchPointer
  <2>6. CASE CheckExpired(c)
    BY <2>6, <1>4 DEF LatchInv, LatchTypeOK, CheckExpired, StackOK, LatchPointer
  <2>7. CASE AwaitReady(c)
    BY <2>7, <1>4 DEF LatchInv, LatchTypeOK, AwaitReady, StackOK, LatchPointer
  <2>8. CASE FinishWaiter(c)
    BY <2>8, <1>4 DEF LatchInv, LatchTypeOK, FinishWaiter, StackOK, LatchPointer
  <2> QED BY <2>3, <2>4, <2>5, <2>6, <2>7, <2>8 DEF Waiting
<1>8. ChainOK'
  <2> SUFFICES ASSUME NEW k \in Counters, awaiter'[k] # NULL
               PROVE  \E S \in SUBSET Waiters : WalkedChain(S, awaiter[k])'
    BY DEF ChainOK
  <2>1. PICK S \in SUBSET Waiters : WalkedChain(S, awaiter[k])
    BY <1>2 DEF LatchInv, ChainOK
  <2>2. c \notin S
    BY <2>1, <1>4 DEF WalkedChain
  <2>3. WalkedChain(S, awaiter[k])'
    BY <2>1, <2>2, <1>2, <1>4 DEF WalkedChain
  <2> QED BY <2>3
<1> QED BY <1>1, <1>3, <1>5, <1>6, <1>7, <1>8 DEF LatchInv

\* The steps of count_down before the walk: no coroutine changes, and the count
\* does not leave zero, so a second releaser cannot appear.
LEMMA CountingStep ==
    ASSUME LatchInv, 0 \notin Decrements, NEW k \in Counters,
           \/ \E m \in Decrements : CountDown(k, m)
           \/ TooMany(k) \/ Subtract(k) \/ RetrySubtract(k)
           \/ EndWalk(k)
    PROVE  LatchInv'
<1> USE LatchAssumption
<1>0. UNCHANGED <<awaiters, pc, old_head, next_awaiter, awaiter, runs>>
  BY DEF CountDown, TooMany, Subtract, RetrySubtract,
      EndWalk, waiterVars
<1>1. LatchTypeOK'
  <2>1. CASE \E m \in Decrements : CountDown(k, m)
    BY <2>1 DEF LatchInv, LatchTypeOK, CountDown, waiterVars
  <2>2. CASE TooMany(k)
    BY <2>2 DEF LatchInv, LatchTypeOK, TooMany, waiterVars
  <2>3. CASE Subtract(k)
    <3>0. old_count[k] \in 0..Count /\ n[k] \in Decrements \cup {0}
      BY DEF LatchInv, LatchTypeOK
    <3>1. n[k] \in Nat
      <4>1. CASE n[k] \in Decrements
        BY <4>1, LatchAssumption
      <4>2. CASE n[k] = 0
        BY <4>2
      <4> QED BY <3>0, <4>1, <4>2
    <3>2. count' \in 0..Count
      BY <2>3, <3>0, <3>1 DEF Subtract
    <3>3. step' \in [Counters -> {"idle", "subtracting", "releasing", "walking"}]
      BY <2>3 DEF LatchInv, LatchTypeOK, Subtract
    <3> QED BY <2>3, <3>2, <3>3 DEF LatchInv, LatchTypeOK, Subtract,
        waiterVars
  <2>4. CASE RetrySubtract(k)
    BY <2>4 DEF LatchInv, LatchTypeOK, RetrySubtract, waiterVars
  <2>5. CASE EndWalk(k)
    BY <2>5 DEF LatchInv, LatchTypeOK, EndWalk, waiterVars
  <2> QED BY <2>1, <2>2, <2>3, <2>4, <2>5
<1>2. ArgumentKept'
  BY DEF LatchInv, LatchTypeOK, ArgumentKept, CountDown, TooMany,
      Subtract,
         RetrySubtract, EndWalk
<1>3. /\ count = 0 => count' = 0
      /\ \A j \in Counters : step'[j] = "releasing" =>
            step[j] = "releasing" \/ (count > 0 /\ count' = 0 /\ j = k)
      /\ \A j \in Counters : step'[j] = "walking" => step[j] = "walking"
      /\ \A j \in Counters : step[j] = "releasing" => step'[j] = "releasing"
      /\ \A j \in Counters : step[j] = "walking" /\ step'[j] # "walking"
            => awaiter[j] = NULL
      /\ count' > 0 => count > 0
  <2>1. CASE \E m \in Decrements : CountDown(k, m)
    BY <2>1 DEF LatchInv, LatchTypeOK, CountDown
  <2>2. CASE TooMany(k)
    BY <2>2 DEF LatchInv, LatchTypeOK, TooMany
  <2>3. CASE Subtract(k)
    <3>0. n[k] \in Decrements
      BY <2>3 DEF LatchInv, ArgumentKept, Subtract
    <3>1. n[k] \in Nat \ {0} /\ count \in Nat /\ old_count[k] \in Nat
      <4>1. n[k] \in Nat \ {0}
        BY <3>0, LatchAssumption
      <4>2. count \in 0..Count /\ old_count[k] = count
        BY <2>3 DEF LatchInv, LatchTypeOK, Subtract
      <4> QED BY <4>1, <4>2
    <3>2. count > 0 /\ count' = count - n[k] /\ n[k] <= count
      BY <2>3, <3>1 DEF Subtract
    <3> QED BY <2>3, <3>1, <3>2 DEF LatchInv, LatchTypeOK, Subtract
  <2>4. CASE RetrySubtract(k)
    BY <2>4 DEF LatchInv, LatchTypeOK, RetrySubtract
  <2>5. CASE EndWalk(k)
    BY <2>5 DEF LatchInv, LatchTypeOK, EndWalk
  <2> QED BY <2>1, <2>2, <2>3, <2>4, <2>5
<1>4. OneReleaser'
  <2>1. count \in Nat /\ count' \in Nat
    BY <1>1 DEF LatchInv, LatchTypeOK
  <2> QED BY <1>0, <1>3, <2>1 DEF LatchInv, OneReleaser, Releases
<1>5. PassedMeansExpired'
  BY <1>0, <1>3 DEF LatchInv, PassedMeansExpired, expired
<1>6. LinkPrepared'
  BY <1>0 DEF LatchInv, LinkPrepared
<1>7. Unreleased' => StackOK'
  BY <1>0, <1>3 DEF LatchInv, Unreleased, StackOK
<1>8. ChainOK'
  BY <1>0 DEF LatchInv, ChainOK, WalkedChain
<1> QED BY <1>1, <1>2, <1>4, <1>5, <1>6, <1>7, <1>8 DEF LatchInv

\* The releasing thread loads the stack: from here on it owns the chain of the
\* coroutines suspended at this moment.
LEMMA LoadStep ==
    ASSUME LatchInv, NEW k \in Counters, LoadAwaiters(k)
    PROVE  LatchInv'
<1> USE LatchAssumption
<1>1. LatchTypeOK' /\ ArgumentKept'
  BY DEF LatchInv, LatchTypeOK, ArgumentKept, LoadAwaiters, waiterVars
<1>2. UNCHANGED <<count, awaiters, pc, old_head, next_awaiter>>
  BY DEF LoadAwaiters, waiterVars
<1>3. OneReleaser'
  BY DEF LatchInv, LatchTypeOK, OneReleaser, Releases, LoadAwaiters
<1>4. PassedMeansExpired' /\ LinkPrepared'
  BY <1>2 DEF LatchInv, PassedMeansExpired, LinkPrepared, expired
<1>5. ~Unreleased'
  BY DEF LatchInv, LatchTypeOK, OneReleaser, Releases, LoadAwaiters, Unreleased
<1>6. StackOK
  BY DEF LatchInv, Unreleased, LoadAwaiters
<1>7. ChainOK'
  <2> SUFFICES ASSUME NEW j \in Counters, awaiter'[j] # NULL
               PROVE  \E S \in SUBSET Waiters : WalkedChain(S, awaiter[j])'
    BY DEF ChainOK
  <2>1. j = k /\ awaiter'[j] = awaiters
    BY DEF LatchInv, LatchTypeOK, OneReleaser, Releases, LoadAwaiters
  <2>2. PICK S \in SUBSET Waiters : S = {c \in Waiters : pc[c] = "suspended"}
    OBVIOUS
  <2>3. WalkedChain(S, awaiter[j])'
    BY <1>2, <1>6, <2>1, <2>2 DEF WalkedChain, StackOK, LatchInv, LatchTypeOK,
        LatchPointer
  <2> QED BY <2>3
<1> QED BY <1>1, <1>3, <1>4, <1>5, <1>7 DEF LatchInv

\* One turn of the walk: the chain loses its first coroutine.
LEMMA WalkStep ==
    ASSUME LatchInv, NEW k \in Counters, ResumeAwaiter(k)
    PROVE  LatchInv'
<1> USE LatchAssumption DEF Goto
<1>1. PICK a \in Waiters : a = awaiter[k]
  BY DEF LatchInv, LatchTypeOK, LatchPointer, ResumeAwaiter
<1>2. PICK S \in SUBSET Waiters : WalkedChain(S, a)
  BY <1>1 DEF LatchInv, ChainOK, ResumeAwaiter
<1>3. /\ UNCHANGED <<count, awaiters, old_head, next_awaiter, step, n>>
      /\ pc' = [pc EXCEPT ![a] = "passed"]
      /\ awaiter' = [awaiter EXCEPT ![k] = next_awaiter[a]]
  BY <1>1 DEF ResumeAwaiter
<1>4. LatchTypeOK' /\ ArgumentKept'
  BY <1>1, <1>3 DEF LatchInv, LatchTypeOK, ArgumentKept, ResumeAwaiter,
      LatchPointer
<1>5. OneReleaser'
  BY <1>1, <1>3 DEF LatchInv, LatchTypeOK, OneReleaser, Releases, ResumeAwaiter
<1>6. count = 0
  BY DEF LatchInv, OneReleaser, Releases, ResumeAwaiter
<1>7. PassedMeansExpired' /\ LinkPrepared'
  BY <1>3, <1>6 DEF LatchInv, LatchTypeOK, PassedMeansExpired, LinkPrepared,
      expired
<1>8. ~Unreleased'
  BY <1>3, <1>6 DEF LatchInv, OneReleaser, Releases, ResumeAwaiter, Unreleased
<1>9. ChainOK'
  <2> SUFFICES ASSUME NEW j \in Counters, awaiter'[j] # NULL
               PROVE  \E R \in SUBSET Waiters : WalkedChain(R, awaiter[j])'
    BY DEF ChainOK
  <2>1. j = k
    BY <1>3 DEF LatchInv, LatchTypeOK, OneReleaser, Releases, ResumeAwaiter
  <2>2. awaiter'[j] = next_awaiter[a]
    BY <1>3, <2>1 DEF LatchInv, LatchTypeOK
  <2>3. PICK R \in SUBSET Waiters : R = S \ {a}
    OBVIOUS
  <2>4. next_awaiter[a] \in R
    BY <1>2, <2>2, <2>3 DEF WalkedChain
  <2>5. \A c \in R : pc'[c] = "suspended"
    BY <1>2, <1>3, <2>3 DEF WalkedChain, LatchInv, LatchTypeOK
  <2>6. \A c \in R : next_awaiter[c] \in R \cup {NULL}
    BY <1>2, <2>3 DEF WalkedChain
  <2>7. \A c \in R : next_awaiter[c] # next_awaiter[a]
    BY <1>2, <2>2, <2>3 DEF WalkedChain
  <2>8. \A c, d \in R : next_awaiter[c] # NULL /\ next_awaiter[c] = next_awaiter[d]
                            => c = d
    BY <1>2, <2>3 DEF WalkedChain
  <2>9. WalkedChain(R, awaiter[j])'
    BY <1>3, <2>2, <2>4, <2>5, <2>6, <2>7, <2>8 DEF WalkedChain
  <2> QED BY <2>9
<1> QED BY <1>4, <1>5, <1>7, <1>8, <1>9 DEF LatchInv

\* The invariant holds in every reachable state.
LEMMA LatchInvariance ==
    ASSUME 0 \notin Decrements
    PROVE  LatchSpec => []LatchInv
<1>1. LatchInit => LatchInv
  <2> SUFFICES ASSUME LatchInit PROVE LatchInv
    OBVIOUS
  <2>1. LatchTypeOK
    <3>1. Count \in 0..Count /\ 0 \in 0..Count /\ 0 \in 0..MaxCalls
      BY LatchAssumption
    <3> QED BY <3>1 DEF LatchInit, LatchTypeOK, LatchPointer
  <2>2. ArgumentKept /\ OneReleaser /\ LinkPrepared /\ ChainOK
    BY DEF LatchInit, ArgumentKept, OneReleaser, Releases, LinkPrepared, ChainOK
  <2>3. \A c \in Waiters : pc[c] = "starting"
    BY DEF LatchInit
  <2>4. awaiters = NULL
    BY DEF LatchInit
  <2>5. PassedMeansExpired
    BY <2>3 DEF PassedMeansExpired
  <2>6. StackOK
    BY <2>3, <2>4 DEF StackOK
  <2> QED BY <2>1, <2>2, <2>5, <2>6 DEF LatchInv
<1>2. LatchInv /\ [LatchNext]_latchVars => LatchInv'
  <2> SUFFICES ASSUME LatchInv,
      [LatchNext]_latchVars PROVE LatchInv'
    OBVIOUS
  <2>1. ASSUME NEW c \in Waiters, Waiting(c) PROVE LatchInv'
    BY <2>1, WaitingStep
  <2>2. ASSUME NEW k \in Counters, Counting(k) PROVE LatchInv'
    BY <2>2, CountingStep, LoadStep, WalkStep DEF Counting
  <2>3. ASSUME NEW k \in Counters, NEW m \in Decrements, CountDown(k, m)
        PROVE  LatchInv'
    BY <2>3, CountingStep
  <2>4. CASE UNCHANGED latchVars
    BY <2>4 DEF latchVars, waiterVars, counterVars, LatchInv,
        LatchTypeOK, ArgumentKept,
       OneReleaser, Releases, PassedMeansExpired, expired, LinkPrepared,
       Unreleased, StackOK, ChainOK, WalkedChain
  <2> QED BY <2>1, <2>2, <2>3, <2>4 DEF LatchNext
<1> QED BY <1>1, <1>2, PTL DEF LatchSpec

\* With positive decrements the count of async_latch never wraps, and
\* count_down only follows pointers to coroutines that are suspended, for any
\* number of coroutines and threads.
THEOREM LatchSafe ==
    ASSUME 0 \notin Decrements
    PROVE  LatchSpec => [](LatchTypeOK /\ WalkIsSafe)
<1>1. LatchInv => LatchTypeOK /\ WalkIsSafe
  BY DEF LatchInv, ChainOK, WalkedChain, WalkIsSafe
<1> QED BY <1>1, LatchInvariance, PTL

\* Nobody gets past co_await on the latch before the last count_down, whatever
\* the order of the count_downs, their decrements and the co_awaits.
THEOREM LatchHolds ==
    ASSUME 0 \notin Decrements
    PROVE  LatchSpec => []PassedMeansExpired
<1>1. LatchInv => PassedMeansExpired
  BY DEF LatchInv
<1> QED BY <1>1, LatchInvariance, PTL

-----------------------------------------------------------------------------
(***************************************************************************)
(* Mutual exclusion of async_lock, for any set of coroutines.  TypeOK and  *)
(* MutualExclusion are inductive together: the word tells whether someone  *)
(* holds the lock, so a compare-exchange from NOT_LOCKED cannot succeed    *)
(* while one does; and the type of the pointers release() makes out of the *)
(* word needs that the word is not NOT_LOCKED then.                        *)
(***************************************************************************)
LockInv == TypeOK /\ MutualExclusion

\* The steps of await_suspend and the end of a coroutine keep LockInv.
LEMMA LockingStep ==
    ASSUME LockInv, NEW c \in Coroutines, Locking(c) \/ Finish(c)
    PROVE  LockInv'
<1> USE LockAssumption
<1>1. CASE Acquire(c)
  BY <1>1 DEF Acquire, LockInv, TypeOK, MutualExclusion, Holds,
      Word, Pointer
<1>2. CASE TakeFree(c)
  <2>1. \A d \in Coroutines : ~Holds(d)
    BY <1>2 DEF TakeFree, LockInv, MutualExclusion
  <2>2. TypeOK'
    BY <1>2 DEF TakeFree, LockInv, TypeOK, Word, Pointer
  <2>3. MutualExclusion'
    BY <1>2, <2>1 DEF TakeFree, LockInv, TypeOK, MutualExclusion,
        Holds
  <2> QED BY <2>2, <2>3 DEF LockInv
<1>3. CASE Enqueue(c)
  <2>1. AsPointer(prev_state[c]) \in Pointer
    BY <1>3 DEF Enqueue, AsPointer, LockInv, TypeOK, Word,
        Pointer
  <2>2. TypeOK'
    BY <1>3, <2>1 DEF Enqueue, ReturnToResumer, LockInv, TypeOK,
        Word
  <2>3. MutualExclusion'
    BY <1>3 DEF Enqueue, LockInv, TypeOK, MutualExclusion, Holds
  <2> QED BY <2>2, <2>3 DEF LockInv
<1>4. CASE RetryAcquire(c)
  <2>1. prev_state[c] # NOT_LOCKED => AsPointer(prev_state[c]) \in Pointer
    BY DEF AsPointer, LockInv, TypeOK, Word, Pointer
  <2>2. TypeOK'
    BY <1>4, <2>1 DEF RetryAcquire, LockInv, TypeOK
  <2>3. MutualExclusion'
    BY <1>4 DEF RetryAcquire, LockInv, MutualExclusion, Holds
  <2> QED BY <2>2, <2>3 DEF LockInv
<1>5. CASE Finish(c)
  BY <1>5 DEF Finish, ReturnToResumer, LockInv, TypeOK,
      MutualExclusion, Holds
<1> QED BY <1>1, <1>2, <1>3, <1>4, <1>5 DEF Locking

\* The steps of release() keep LockInv: only the holder takes them.
LEMMA ReleasingStep ==
    ASSUME LockInv, NEW c \in Coroutines, Releasing(c)
    PROVE  LockInv'
<1> USE LockAssumption
<1>1. CASE BeginRelease(c)
  BY <1>1 DEF BeginRelease, LockInv, TypeOK, MutualExclusion, Holds
<1>2. CASE Unlock(c)
  <2>1. Holds(c)
    BY <1>2 DEF Unlock, Holds
  <2>2. TypeOK'
    BY <1>2 DEF Unlock, LockInv, TypeOK, Word
  <2>3. MutualExclusion'
    BY <1>2, <2>1 DEF Unlock, LockInv, TypeOK, MutualExclusion,
        Holds
  <2> QED BY <2>2, <2>3 DEF LockInv
<1>3. CASE TakeList(c)
  <2>1. Holds(c)
    BY <1>3 DEF TakeList, Holds
  <2>2. AsPointer(state) \in Pointer
    BY <2>1 DEF AsPointer, LockInv, TypeOK, MutualExclusion,
        Word, Pointer
  <2>3. TypeOK'
    BY <1>3, <2>2 DEF TakeList, LockInv, TypeOK, Word
  <2>4. MutualExclusion'
    BY <1>3, <2>1 DEF TakeList, LockInv, TypeOK, MutualExclusion,
        Holds
  <2> QED BY <2>3, <2>4 DEF LockInv
<1>4. CASE ReverseStep(c)
  <2>1. Holds(c)
    BY <1>4 DEF ReverseStep, Holds
  <2>2. TypeOK'
    BY <1>4 DEF ReverseStep, LockInv, TypeOK, Pointer
  <2>3. MutualExclusion'
    BY <1>4, <2>1 DEF ReverseStep, LockInv, TypeOK, MutualExclusion,
        Holds
  <2> QED BY <2>2, <2>3 DEF LockInv
<1>5. CASE HandOff(c)
  <2>1. Holds(c)
    BY <1>5 DEF HandOff, Holds
  <2>2. PICK h \in Coroutines : h = awaiters_head[c]
    BY <1>5 DEF HandOff
  <2>3. TypeOK'
    BY <1>5, <2>2 DEF HandOff, LockInv, TypeOK, Pointer
  <2>4. \A d \in Coroutines : Holds(d)' => d = h
    BY <1>5, <2>1, <2>2 DEF HandOff, LockInv, TypeOK, MutualExclusion,
        Holds
  <2>5. state' # NOT_LOCKED
    BY <1>5, <2>1 DEF HandOff, LockInv, MutualExclusion
  <2>6. MutualExclusion'
    BY <2>4, <2>5 DEF MutualExclusion
  <2> QED BY <2>3, <2>6 DEF LockInv
<1>6. CASE Crash(c)
  BY <1>6 DEF Crash, LockInv, TypeOK, MutualExclusion, Holds
<1> QED BY <1>1, <1>2, <1>3, <1>4, <1>5, <1>6 DEF Releasing, HandOffOrCrash

\* LockInv is inductive.
LEMMA LockInductive ==
    /\ Init => LockInv
    /\ LockInv /\ [Next]_vars => LockInv'
<1>1. Init => LockInv
  BY LockAssumption DEF Init, LockInv, TypeOK, MutualExclusion,
      Holds, Word, Pointer
<1>2. LockInv /\ [Next]_vars => LockInv'
  <2> SUFFICES ASSUME LockInv, [Next]_vars PROVE LockInv'
    OBVIOUS
  <2>1. CASE Next
    BY <2>1, LockingStep, ReleasingStep DEF Next
  <2>2. CASE UNCHANGED vars
    BY <2>2 DEF vars, LockInv, TypeOK, MutualExclusion, Holds
  <2> QED BY <2>1, <2>2
<1> QED BY <1>1, <1>2

\* async_lock never has two holders, for any number of coroutines, even though
\* release() hands the lock over without freeing it and await_suspend races
\* with it for the word; every pointer it stores has its type.
THEOREM LockSafe == Spec => [](TypeOK /\ MutualExclusion)
<1>1. LockInv => TypeOK /\ MutualExclusion
  BY DEF LockInv
<1> QED BY <1>1, LockInductive, PTL DEF Spec

-----------------------------------------------------------------------------
(***************************************************************************)
(* The waiting line of async_lock.  The stack behind `state`, the part of  *)
(* it that release() has still to reverse and the queue are linked lists;  *)
(* the line is read off them by a recursion over next_awaiter.             *)
(***************************************************************************)

\* What holds of 0 and passes from each number to the next holds of all.
LEMMA Induction ==
    ASSUME NEW T, 0 \in T, \A m \in Nat : m \in T => m + 1 \in T
    PROVE  \A m \in Nat : m \in T
<1>1. PICK S : S = {m \in Nat : m \notin T}
  OBVIOUS
<1> SUFFICES ASSUME S # {} PROVE FALSE
  BY <1>1
<1>2. IsWellFoundedOn(OpToRel(<, Nat), Nat) /\ S \subseteq Nat
  BY <1>1, NatLessThanWellFounded
<1>3. PICK least \in S : \A m \in Nat : <<m, least>> \in OpToRel(<, Nat) => ~(m \in S)
  BY <1>2, WFMin, Zenon
<1>4. least \in Nat /\ least \notin T /\ least # 0
  BY <1>1
<1>5. least - 1 \in Nat /\ least - 1 < least
  BY <1>4
<1>6. <<least - 1, least>> \in OpToRel(<, Nat)
  BY <1>4, <1>5 DEF OpToRel
<1>7. least - 1 \in T
  BY <1>1, <1>3, <1>5, <1>6
<1> QED BY <1>4, <1>5, <1>7

\* s is the list that starts with the pointer p and goes on along nx; no awaiter
\* occurs twice, and the last one's link leads to none.
Linked(p, s, nx) ==
    /\ s \in Seq(Coroutines)
    /\ \A i, j \in 1..Len(s) : s[i] = s[j] => i = j
    /\ p \in Coroutines => s # <<>> /\ s[1] = p
    /\ p \notin Coroutines => s = <<>>
    /\ \A i \in 1..(Len(s) - 1) : nx[s[i]] = s[i + 1]
    /\ s # <<>> => nx[s[Len(s)]] \notin Coroutines

\* A list without repetition is no longer than there are coroutines.
LEMMA ShortList ==
    ASSUME IsFiniteSet(Coroutines), NEW s \in Seq(Coroutines),
           \A i, j \in 1..Len(s) : s[i] = s[j] => i = j
    PROVE  Len(s) <= Cardinality(Coroutines) /\ Cardinality(Coroutines) \in Nat
<1>1. Len(s) \in Nat /\ s \in [1..Len(s) -> Coroutines] /\ DOMAIN s = 1..Len(s)
  OBVIOUS
<1>2. IsFiniteSet(1..Len(s)) /\ Cardinality(1..Len(s)) = Len(s)
  <2>1. 1 \in Int /\ Len(s) \in Int
    BY <1>1
  <2>2. /\ IsFiniteSet(1..Len(s))
        /\ Cardinality(1..Len(s)) = IF 1 > Len(s) THEN 0 ELSE Len(s) - 1 + 1
    BY <2>1, FS_Interval, Zenon
  <2> QED BY <1>1, <2>2
<1>3. s \in Injection(1..Len(s), Coroutines)
  BY <1>1 DEF Injection, IsInjective
<1>4. Cardinality(1..Len(s)) <= Cardinality(Coroutines)
  BY <1>3, FS_Injection, Zenon
<1> QED BY <1>2, <1>4, FS_CardinalityType

\* One step along the links, and what the first m + 1 awaiters of a list are.
Further(q) ==
    IF q # <<>> /\ next_awaiter[q[Len(q)]] \in Coroutines
    THEN Append(q, next_awaiter[q[Len(q)]]) ELSE q
Upto(s, m) == SubSeq(s, 1, IF m + 1 <= Len(s) THEN m + 1 ELSE Len(s))

\* The first awaiters of a list are found step by step.
LEMMA UptoSteps ==
    ASSUME NEW p, NEW s, Linked(p, s, next_awaiter)
    PROVE  /\ Upto(s, 0) = IF p \in Coroutines THEN <<p>> ELSE <<>>
           /\ \A m \in Nat \ {0} : Upto(s, m) = Further(Upto(s, m - 1))
           /\ \A m \in Nat : Len(s) <= m => Upto(s, m) = s
<1>1. s \in Seq(Coroutines) /\ Len(s) \in Nat /\ s \in [1..Len(s) -> Coroutines]
  BY DEF Linked
<1>2. \A m \in Nat : Len(s) <= m => Upto(s, m) = s
  <2> TAKE m \in Nat
  <2> HAVE Len(s) <= m
  <2>1. ~(m + 1 <= Len(s))
    BY <1>1
  <2>2. Upto(s, m) = SubSeq(s, 1, Len(s))
    BY <2>1, Zenon DEF Upto
  <2> QED BY <1>1, <2>2
<1>3. Upto(s, 0) = IF p \in Coroutines THEN <<p>> ELSE <<>>
  <2>1. CASE p \in Coroutines
    <3>1. Len(s) # 0 /\ s[1] = p
      BY <1>1, <2>1 DEF Linked
    <3>2. Upto(s, 0) = SubSeq(s, 1, 1)
      BY <1>1, <3>1 DEF Upto
    <3>3. SubSeq(s, 1, 1) = <<s[1]>>
      <4>1. PICK a, b : a = SubSeq(s, 1, 1) /\ b = <<s[1]>>
        OBVIOUS
      <4>2. a \in Seq(Coroutines) /\ Len(a) = 1 /\ a[1] = s[1]
        BY <1>1, <3>1, <4>1
      <4>3. b \in Seq(Coroutines) /\ Len(b) = 1 /\ b[1] = s[1]
        BY <1>1, <3>1, <4>1
      <4>4. Len(a) = Len(b) /\ \A i \in 1..Len(a) : a[i] = b[i]
        BY <4>2, <4>3
      <4> QED BY <4>1, <4>2, <4>3, <4>4, SeqEqual
    <3> QED BY <2>1, <3>1, <3>2, <3>3
  <2>2. CASE p \notin Coroutines
    <3>1. s = <<>>
      BY <2>2 DEF Linked
    <3> QED BY <1>2, <2>2, <3>1
  <2> QED BY <2>1, <2>2
<1>4. ASSUME NEW m \in Nat \ {0} PROVE Upto(s, m) = Further(Upto(s, m - 1))
  <2>1. CASE m + 1 <= Len(s)
    <3>1. PICK q : q = SubSeq(s, 1, m)
      OBVIOUS
    <3>2. Upto(s, m - 1) = q /\ Upto(s, m) = SubSeq(s, 1, m + 1)
      <4>1. (m - 1) + 1 = m /\ m <= Len(s)
        BY <1>1, <2>1
      <4> QED BY <2>1, <3>1, <4>1, Zenon DEF Upto
    <3>3. q \in Seq(Coroutines) /\ Len(q) = m /\ \A i \in 1..m : q[i] = s[i]
      BY <1>1, <2>1, <3>1
    <3>4. next_awaiter[s[m]] = s[m + 1] /\ s[m + 1] \in Coroutines
      BY <1>1, <2>1 DEF Linked
    <3>5. q # <<>> /\ q[Len(q)] = s[m]
      BY <3>3
    <3>6. Further(q) = Append(q, s[m + 1])
      BY <3>4, <3>5 DEF Further
    <3>7. SubSeq(s, 1, m + 1) = Append(q, s[m + 1])
      BY <1>1, <2>1, <3>3, <3>4
    <3> QED BY <3>2, <3>6, <3>7
  <2>2. CASE ~(m + 1 <= Len(s))
    <3>1. Len(s) <= m
      BY <1>1, <2>2
    <3>2. Upto(s, m) = s
      BY <1>2, <3>1
    <3>3. Upto(s, m - 1) = s
      <4>1. (m - 1) + 1 = m /\ (m <= Len(s) => m = Len(s))
        <5>1. Len(s) \in Nat /\ m \in Nat
          BY <1>1
        <5> QED BY ONLY <3>1, <5>1
      <4>2. Upto(s, m - 1) = SubSeq(s, 1, Len(s))
        BY <4>1, Zenon DEF Upto
      <4> QED BY <1>1, <4>2
    <3>4. Further(s) = s
      BY DEF Further, Linked
    <3> QED BY <3>2, <3>3, <3>4
  <2> QED BY <2>1, <2>2
<1> QED BY <1>2, <1>3, <1>4

\* Chain computes the list.
LEMMA ChainIs ==
    ASSUME NEW p, NEW s, Linked(p, s, next_awaiter)
    PROVE  Chain(p) = s
<1>1. IsFiniteSet(Coroutines)
  BY FiniteAssumption
<1>2. PICK N : N = Cardinality(Coroutines) /\ N \in Nat /\ Len(s) <= N
  BY <1>1, ShortList DEF Linked
<1> DEFINE Base == IF p \in Coroutines THEN <<p>> ELSE <<>>
           Rec(f) == f = [m \in Nat |-> IF m = 0 THEN Base ELSE Further(f[m - 1])]
<1>3. Chain(p) = (CHOOSE f : Rec(f))[N]
  BY <1>1, <1>2 DEF Chain, Last, Further
<1>4. PICK g : g = [m \in Nat |-> Upto(s, m)]
  OBVIOUS
<1>5. /\ Upto(s, 0) = Base
      /\ \A m \in Nat \ {0} : Upto(s, m) = Further(Upto(s, m - 1))
      /\ Upto(s, N) = s
  BY <1>2, UptoSteps
<1> HIDE DEF Base
<1>6. Rec(g)
  <2>1. \A m \in Nat : g[m] = IF m = 0 THEN Base ELSE Further(g[m - 1])
    BY <1>4, <1>5
  <2> QED BY <1>4, <2>1
<1>7. PICK f : f = CHOOSE h : Rec(h)
  OBVIOUS
<1>8. Rec(f)
  <2> HIDE DEF Rec
  <2> QED BY <1>6, <1>7
<1>9. PICK T : T = {m \in Nat : f[m] = g[m]}
  OBVIOUS
<1>10. f[0] = Base /\ \A m \in Nat : f[m + 1] = Further(f[m])
  <2>1. \A m \in Nat : f[m] = IF m = 0 THEN Base ELSE Further(f[m - 1])
    BY <1>8, Zenon
  <2> QED BY <2>1
<1>11. g[0] = Base /\ \A m \in Nat : g[m + 1] = Further(g[m])
  <2>1. \A m \in Nat : g[m] = IF m = 0 THEN Base ELSE Further(g[m - 1])
    BY <1>6, Zenon
  <2> QED BY <2>1
<1>12. 0 \in T /\ \A m \in Nat : m \in T => m + 1 \in T
  BY <1>9, <1>10, <1>11
<1>13. f[N] = g[N]
  <2>1. \A m \in Nat : m \in T
    BY <1>12, Induction, Zenon
  <2> QED BY <1>2, <1>9, <2>1, Zenon
<1> QED BY <1>2, <1>3, <1>4, <1>5, <1>7, <1>13

\* x occurs in s.
In(x, s) == \E i \in 1..Len(s) : s[i] = x

\* An awaiter and those behind it in a list.
Ahead(x, s) == <<x>> \o s

\* One awaiter in front of a list.
LEMMA AheadFacts ==
    ASSUME NEW x \in Coroutines, NEW s \in Seq(Coroutines), NEW r, r = <<x>> \o s
    PROVE  /\ r \in Seq(Coroutines) /\ Len(r) = Len(s) + 1 /\ Len(s) \in Nat /\ r # <<>>
           /\ r[1] = x /\ \A i \in 1..Len(s) : r[i + 1] = s[i]
           /\ \A i \in 2..Len(r) : r[i] = s[i - 1] /\ i - 1 \in 1..Len(s)
           /\ \A y : In(y, r) <=> y = x \/ In(y, s)
<1>1. PICK o : o = <<x>>
  OBVIOUS
<1>2. o \in Seq(Coroutines) /\ Len(o) = 1 /\ o[1] = x /\ Len(s) \in Nat
  BY <1>1
<1>3. /\ r \in Seq(Coroutines) /\ Len(r) = 1 + Len(s)
      /\ \A i \in 1..(1 + Len(s)) : r[i] = IF i <= 1 THEN o[i] ELSE s[i - 1]
  BY <1>1, <1>2, ConcatProperties
<1>4. Len(r) = Len(s) + 1 /\ r # <<>> /\ r[1] = x /\ \A i \in 1..Len(s) : r[i + 1] = s[i]
  BY <1>2, <1>3
<1>5. \A i \in 2..Len(r) : r[i] = s[i - 1] /\ i - 1 \in 1..Len(s)
  BY <1>2, <1>3
<1>6. \A y : In(y, r) <=> y = x \/ In(y, s)
  <2> TAKE y
  <2>1. ASSUME In(y, r) PROVE y = x \/ In(y, s)
    <3>1. PICK i \in 1..Len(r) : r[i] = y
      BY <2>1 DEF In
    <3>2. i = 1 \/ i \in 2..Len(r)
      BY <1>2, <1>4
    <3> QED BY <1>4, <1>5, <3>1, <3>2 DEF In
  <2>2. In(x, r)
    <3>1. 1 \in 1..Len(r)
      BY <1>2, <1>4
    <3> QED BY <1>4, <3>1 DEF In
  <2>3. ASSUME In(y, s) PROVE In(y, r)
    <3>1. PICK i \in 1..Len(s) : s[i] = y
      BY <2>3 DEF In
    <3>2. i + 1 \in 1..Len(r) /\ r[i + 1] = y
      BY <1>2, <1>4, <3>1
    <3> QED BY <3>2 DEF In
  <2> QED BY <2>1, <2>2, <2>3
<1> QED BY <1>2, <1>3, <1>4, <1>5, <1>6

\* A list whose links are left alone stays as it is.
LEMMA LinkedKept ==
    ASSUME NEW p, NEW s, NEW nx, NEW nz, NEW q, Linked(p, s, nx),
           \A x : In(x, s) => nz[x] = nx[x],
           q = p \/ (q \notin Coroutines /\ p \notin Coroutines)
    PROVE  Linked(q, s, nz)
<1>1. s \in Seq(Coroutines) /\ Len(s) \in Nat
  BY DEF Linked
<1>2. \A i \in 1..Len(s) : nz[s[i]] = nx[s[i]]
  BY DEF In
<1>3. \A i \in 1..(Len(s) - 1) : nz[s[i]] = s[i + 1]
  BY <1>1, <1>2 DEF Linked
<1>4. s # <<>> => nz[s[Len(s)]] \notin Coroutines
  BY <1>1, <1>2 DEF Linked
<1> QED BY <1>1, <1>3, <1>4 DEF Linked

\* An awaiter that is linked to a list stands at its front.
LEMMA LinkedPush ==
    ASSUME NEW p, NEW s, NEW nx, NEW nz, NEW x \in Coroutines, NEW r, r = <<x>> \o s,
           Linked(p, s, nx), ~In(x, s),
           \A y : In(y, s) => nz[y] = nx[y],
           nz[x] = p \/ (nz[x] \notin Coroutines /\ p \notin Coroutines)
    PROVE  Linked(x, r, nz)
<1>1. s \in Seq(Coroutines) /\ Len(s) \in Nat
  BY DEF Linked
<1>2. /\ r \in Seq(Coroutines) /\ Len(r) = Len(s) + 1 /\ r # <<>>
      /\ r[1] = x /\ \A i \in 1..Len(s) : r[i + 1] = s[i]
      /\ \A i \in 2..Len(r) : r[i] = s[i - 1] /\ i - 1 \in 1..Len(s)
  BY <1>1, AheadFacts
<1>3. \A i, j \in 1..Len(r) : r[i] = r[j] => i = j
  <2>1. \A i \in 2..Len(r) : r[i] # x
    BY <1>2 DEF In
  <2>2. \A i, j \in 2..Len(r) : r[i] = r[j] => i - 1 = j - 1
    BY <1>2 DEF Linked
  <2>3. \A i \in 1..Len(r) : i = 1 \/ i \in 2..Len(r)
    BY <1>1, <1>2
  <2>4. \A i, j \in 2..Len(r) : i - 1 = j - 1 => i = j
    BY <1>1, <1>2
  <2> QED BY <1>2, <2>1, <2>2, <2>3, <2>4
<1>4. Linked(p, s, nz)
  BY LinkedKept
<1>5. \A i \in 1..(Len(r) - 1) : nz[r[i]] = r[i + 1]
  <2> TAKE i \in 1..(Len(r) - 1)
  <2>1. CASE i = 1
    <3>1. s # <<>> /\ 1 \in 1..Len(s)
      BY <1>1, <1>2, <2>1
    <3>2. p \in Coroutines /\ s[1] = p
      BY <3>1 DEF Linked
    <3>3. nz[x] = p /\ r[1 + 1] = s[1]
      BY <1>2, <3>1, <3>2
    <3> QED BY <1>2, <2>1, <3>2, <3>3
  <2>2. CASE i # 1
    <3>1. i \in 2..Len(r) /\ i - 1 \in 1..(Len(s) - 1) /\ i \in 1..Len(s) /\ (i - 1) + 1 = i
      BY <1>1, <1>2, <2>2
    <3>2. r[i] = s[i - 1] /\ r[i + 1] = s[i]
      BY <1>2, <3>1
    <3>3. nz[s[i - 1]] = s[(i - 1) + 1]
      BY <1>4, <3>1 DEF Linked
    <3> QED BY <3>1, <3>2, <3>3
  <2> QED BY <2>1, <2>2
<1>6. nz[r[Len(r)]] \notin Coroutines
  <2>1. CASE s = <<>>
    <3>1. p \notin Coroutines
      BY <2>1 DEF Linked
    <3>2. Len(r) = 1
      BY <1>2, <2>1
    <3> QED BY <1>2, <3>1, <3>2
  <2>2. CASE s # <<>>
    <3>1. Len(s) \in 1..Len(s)
      BY <1>1, <2>2
    <3>2. r[Len(r)] = s[Len(s)]
      BY <1>2, <3>1
    <3> QED BY <1>4, <2>2, <3>2 DEF Linked
  <2> QED BY <2>1, <2>2
<1> QED BY <1>2, <1>3, <1>5, <1>6 DEF Linked

\* The list behind the first awaiter.
LEMMA LinkedPop ==
    ASSUME NEW p \in Coroutines, NEW s, NEW nx, Linked(p, s, nx)
    PROVE  \E r \in Seq(Coroutines) :
               s = <<p>> \o r /\ ~In(p, r) /\ Linked(nx[p], r, nx)
<1>1. s \in Seq(Coroutines) /\ Len(s) \in Nat /\ s # <<>> /\ s[1] = p
  BY DEF Linked
<1>2. PICK r : r = Tail(s)
  OBVIOUS
<1>3. /\ r \in Seq(Coroutines) /\ Len(r) = Len(s) - 1 /\ Len(r) \in Nat
      /\ \A i \in 1..Len(r) : r[i] = s[i + 1] /\ i + 1 \in 1..Len(s)
  BY <1>1, <1>2, HeadTailProperties
<1>4. s = <<p>> \o r
  <2>1. PICK t : t = <<p>> \o r
    OBVIOUS
  <2>2. /\ t \in Seq(Coroutines) /\ Len(t) = Len(s) /\ t[1] = p
        /\ \A i \in 2..Len(t) : t[i] = r[i - 1] /\ i - 1 \in 1..Len(r)
    BY <1>3, <2>1, AheadFacts
  <2>3. \A i \in 1..Len(s) : s[i] = t[i]
    <3> TAKE i \in 1..Len(s)
    <3>1. CASE i = 1
      BY <1>1, <2>2, <3>1
    <3>2. CASE i # 1
      <4>1. i \in 2..Len(t) /\ (i - 1) + 1 = i
        BY <1>1, <2>2, <3>2
      <4> QED BY <1>3, <2>2, <4>1
    <3> QED BY <3>1, <3>2
  <2> QED BY <1>1, <2>1, <2>2, <2>3, SeqEqual
<1>5. ~In(p, r)
  <2> SUFFICES ASSUME NEW i \in 1..Len(r), r[i] = p PROVE FALSE
    BY DEF In
  <2>1. s[i + 1] = s[1] /\ i + 1 \in 1..Len(s) /\ 1 \in 1..Len(s)
    BY <1>1, <1>3
  <2>2. i + 1 = 1
    BY <2>1 DEF Linked
  <2> QED BY <2>2
<1>6. \A i, j \in 1..Len(r) : r[i] = r[j] => i = j
  <2> TAKE i \in 1..Len(r)
  <2> TAKE j \in 1..Len(r)
  <2> HAVE r[i] = r[j]
  <2>1. i + 1 = j + 1
    BY <1>3 DEF Linked
  <2> QED BY <2>1
<1>7. \A i \in 1..(Len(r) - 1) : nx[r[i]] = r[i + 1]
  <2> TAKE i \in 1..(Len(r) - 1)
  <2>1. i \in 1..Len(r) /\ i + 1 \in 1..Len(r) /\ i + 1 \in 1..(Len(s) - 1)
    BY <1>3
  <2> QED BY <1>3, <2>1 DEF Linked
<1>8. CASE r = <<>>
  <2>1. Len(s) = 1
    BY <1>1, <1>3, <1>8
  <2>2. nx[p] \notin Coroutines
    BY <1>1, <2>1 DEF Linked
  <2> QED BY <1>3, <1>4, <1>5, <1>6, <1>7, <1>8, <2>2 DEF Linked
<1>9. CASE r # <<>>
  <2>1. 1 \in 1..Len(r) /\ Len(r) \in 1..Len(r) /\ 1 \in 1..(Len(s) - 1)
    BY <1>1, <1>3, <1>9
  <2>2. nx[p] = r[1] /\ r[1] \in Coroutines
    BY <1>1, <1>3, <2>1 DEF Linked
  <2>3. r[Len(r)] = s[Len(s)]
    BY <1>1, <1>3, <2>1
  <2>4. nx[r[Len(r)]] \notin Coroutines
    BY <1>1, <2>3 DEF Linked
  <2>5. Linked(nx[p], r, nx)
    BY <1>3, <1>6, <1>7, <1>9, <2>2, <2>4 DEF Linked
  <2> QED BY <1>3, <1>4, <1>5, <2>5
<1> QED BY <1>8, <1>9

\* The line made of what is still to be reversed, the queue and the stack.
Line(T, H, S) == (Reverse(T) \o H) \o Reverse(S)

\* A list reversed.
LEMMA Reversed ==
    ASSUME NEW s \in Seq(Coroutines), NEW r, r = Reverse(s)
    PROVE  /\ r \in Seq(Coroutines) /\ Len(r) = Len(s) /\ Len(s) \in Nat
           /\ \A i \in 1..Len(s) : r[i] = s[Len(s) - i + 1] /\ Len(s) - i + 1 \in 1..Len(s)
<1>1. Len(s) \in Nat /\ s \in [1..Len(s) -> Coroutines]
  OBVIOUS
<1>2. PICK l : l = Len(s) /\ l \in Nat
  BY <1>1
<1>3. r = [i \in 1..l |-> s[(l - i) + 1]]
  BY <1>2 DEF Reverse
<1>4. \A i \in 1..l : l - i + 1 \in 1..l
  BY <1>2
<1>5. r \in [1..l -> Coroutines] /\ \A i \in 1..l : r[i] = s[l - i + 1]
  BY <1>1, <1>2, <1>3, <1>4
<1>6. r \in Seq(Coroutines)
  BY <1>2, <1>5, SeqDef
<1>7. Len(r) = l
  <2>1. DOMAIN r = 1..l /\ DOMAIN r = 1..Len(r) /\ Len(r) \in Nat
    BY <1>5, <1>6
  <2> QED BY <1>2, <2>1
<1> QED BY <1>2, <1>4, <1>5, <1>6, <1>7

\* Who stands where in the line z.
Standing(z, T, H, S, a, b, c) ==
    /\ z \in Seq(Coroutines) /\ Len(z) = a + b + c
    /\ \A i \in 1..(a + b + c) :
           z[i] = IF i <= a THEN T[a - i + 1]
                  ELSE IF i <= a + b THEN H[i - a] ELSE S[a + b + c - i + 1]

\* The length of a list is a number.
LEMMA Lengths == \A s \in Seq(Coroutines) : Len(s) \in Nat
OBVIOUS

\* Where everyone stands.
LEMMA LineIndex ==
    ASSUME NEW T \in Seq(Coroutines), NEW H \in Seq(Coroutines), NEW S \in Seq(Coroutines),
           NEW a, NEW b, NEW c, a = Len(T), b = Len(H), c = Len(S),
           NEW z, z = Line(T, H, S)
    PROVE  Standing(z, T, H, S, a, b, c)
<1>1. a \in Nat /\ b \in Nat /\ c \in Nat
  BY Lengths
<1>2. PICK t, u : t = Reverse(T) /\ u = Reverse(S)
  OBVIOUS
<1>3. /\ t \in Seq(Coroutines) /\ Len(t) = a /\ \A i \in 1..a : t[i] = T[a - i + 1]
  <2>1. /\ t \in Seq(Coroutines) /\ Len(t) = Len(T)
        /\ \A i \in 1..Len(T) : t[i] = T[Len(T) - i + 1]
    BY <1>2, Reversed, Zenon
  <2> QED BY <2>1
<1>4. /\ u \in Seq(Coroutines) /\ Len(u) = c /\ \A i \in 1..c : u[i] = S[c - i + 1]
  <2>1. /\ u \in Seq(Coroutines) /\ Len(u) = Len(S)
        /\ \A i \in 1..Len(S) : u[i] = S[Len(S) - i + 1]
    BY <1>2, Reversed, Zenon
  <2> QED BY <2>1
<1>5. PICK q : q = t \o H
  OBVIOUS
<1>6. /\ q \in Seq(Coroutines) /\ Len(q) = a + b
      /\ \A i \in 1..(a + b) : q[i] = IF i <= a THEN t[i] ELSE H[i - a]
  <2>1. /\ q \in Seq(Coroutines) /\ Len(q) = Len(t) + Len(H)
        /\ \A i \in 1..(Len(t) + Len(H)) :
               q[i] = IF i <= Len(t) THEN t[i] ELSE H[i - Len(t)]
    BY <1>3, <1>5, ConcatProperties
  <2> QED BY <1>3, <2>1
<1>7. z = q \o u
  BY <1>2, <1>5 DEF Line
<1>8. /\ z \in Seq(Coroutines) /\ Len(z) = (a + b) + c
      /\ \A i \in 1..((a + b) + c) : z[i] = IF i <= a + b THEN q[i] ELSE u[i - (a + b)]
  <2>1. q \in Seq(Coroutines) /\ u \in Seq(Coroutines)
    BY <1>4, <1>6
  <2>2. /\ z \in Seq(Coroutines) /\ Len(z) = Len(q) + Len(u)
        /\ \A i \in 1..(Len(q) + Len(u)) :
               z[i] = IF i <= Len(q) THEN q[i] ELSE u[i - Len(q)]
    BY ONLY <1>7, <2>1, ConcatProperties
  <2> QED BY <1>4, <1>6, <2>2
<1>9. ASSUME NEW i \in 1..(a + b + c)
      PROVE  z[i] = IF i <= a THEN T[a - i + 1]
                    ELSE IF i <= a + b THEN H[i - a] ELSE S[a + b + c - i + 1]
  <2>1. CASE i <= a
    <3>1. i \in 1..a /\ i \in 1..(a + b) /\ i <= a + b
      BY <1>1, <2>1
    <3> QED BY <1>3, <1>6, <1>8, <2>1, <3>1
  <2>2. CASE ~(i <= a) /\ i <= a + b
    <3>1. i \in 1..(a + b)
      BY <1>1, <2>2
    <3> QED BY <1>6, <1>8, <2>2, <3>1
  <2>3. CASE ~(i <= a) /\ ~(i <= a + b)
    <3>1. i - (a + b) \in 1..c /\ c - (i - (a + b)) + 1 = a + b + c - i + 1
      BY <1>1, <2>3
    <3> QED BY <1>4, <1>8, <2>3, <3>1
  <2> QED BY <2>1, <2>2, <2>3
<1> QED BY <1>8, <1>9 DEF Standing

\* z is y with x at its end.
Joined(y, x, z) == z = Append(y, x)

\* await_suspend pushes an awaiter on the stack: it joins the line at its end.
LEMMA LineJoined ==
    ASSUME NEW T \in Seq(Coroutines), NEW H \in Seq(Coroutines), NEW S \in Seq(Coroutines),
           NEW x \in Coroutines, NEW R, R = Ahead(x, S)
    PROVE  Joined(Line(T, H, S), x, Line(T, H, R))
<1>1. PICK a, b, c : /\ a = Len(T) /\ b = Len(H) /\ c = Len(S)
                     /\ a \in Nat /\ b \in Nat /\ c \in Nat
  BY Lengths, Zenon
<1>2. /\ R \in Seq(Coroutines) /\ Len(R) = c + 1
      /\ R[1] = x /\ \A i \in 1..c : R[i + 1] = S[i]
  BY <1>1, AheadFacts DEF Ahead
<1>3. PICK y, z : y = Line(T, H, S) /\ z = Line(T, H, R)
  OBVIOUS
<1>4. /\ y \in Seq(Coroutines) /\ Len(y) = a + b + c
      /\ \A i \in 1..(a + b + c) :
             y[i] = IF i <= a THEN T[a - i + 1]
                    ELSE IF i <= a + b THEN H[i - a] ELSE S[a + b + c - i + 1]
  <2>1. Standing(y, T, H, S, a, b, c)
    BY <1>1, <1>3, LineIndex
  <2> QED BY <2>1 DEF Standing
<1>5. /\ z \in Seq(Coroutines) /\ Len(z) = a + b + (c + 1)
      /\ \A i \in 1..(a + b + (c + 1)) :
             z[i] = IF i <= a THEN T[a - i + 1]
                    ELSE IF i <= a + b THEN H[i - a] ELSE R[a + b + (c + 1) - i + 1]
  <2>1. Standing(z, T, H, R, a, b, c + 1)
    BY <1>1, <1>2, <1>3, LineIndex
  <2> QED BY <2>1 DEF Standing
<1>6. PICK w : w = Append(y, x)
  OBVIOUS
<1>7. /\ w \in Seq(Coroutines) /\ Len(w) = a + b + c + 1 /\ w[a + b + c + 1] = x
      /\ \A i \in 1..(a + b + c) : w[i] = y[i]
  BY <1>4, <1>6
<1>8. \A i \in 1..Len(z) : z[i] = w[i]
  <2> TAKE i \in 1..Len(z)
  <2>1. CASE i = a + b + c + 1
    <3>1. ~(i <= a) /\ ~(i <= a + b) /\ a + b + (c + 1) - i + 1 = 1 /\ i \in 1..(a + b + (c + 1))
      BY <1>1, <2>1
    <3>2. z[i] = R[1]
      BY <1>5, <3>1
    <3> QED BY <1>2, <1>7, <2>1, <3>2
  <2>2. CASE i # a + b + c + 1
    <3>1. i \in 1..(a + b + c) /\ i \in 1..(a + b + (c + 1))
      <4>1. i \in 1..(a + b + (c + 1))
        BY <1>5
      <4>2. a \in Nat /\ b \in Nat /\ c \in Nat
        BY <1>1
      <4> QED BY ONLY <2>2, <4>1, <4>2
    <3>2. CASE i <= a + b
      BY <1>4, <1>5, <1>7, <3>1, <3>2
    <3>3. CASE ~(i <= a + b)
      <4>1. /\ ~(i <= a) /\ a + b + c - i + 1 \in 1..c
            /\ (a + b + c - i + 1) + 1 = a + b + (c + 1) - i + 1
        BY <1>1, <3>1, <3>3
      <4>2. z[i] = R[(a + b + c - i + 1) + 1]
        BY <1>5, <3>1, <3>3, <4>1
      <4>3. w[i] = S[a + b + c - i + 1]
        BY <1>4, <1>7, <3>1, <3>3, <4>1
      <4> QED BY <1>2, <4>1, <4>2, <4>3
    <3> QED BY <3>2, <3>3
  <2> QED BY <2>1, <2>2
<1>9. Len(z) = Len(w)
  BY <1>1, <1>5, <1>7
<1>10. z = w
  BY <1>5, <1>7, <1>8, <1>9, SeqEqual
<1> QED BY <1>3, <1>6, <1>10, Zenon DEF Joined

\* release() reverses one awaiter: the line stays as it is.
LEMMA LineShifted ==
    ASSUME NEW T \in Seq(Coroutines), NEW H \in Seq(Coroutines), NEW S \in Seq(Coroutines),
           NEW x \in Coroutines, NEW R, R = Ahead(x, T), NEW G, G = Ahead(x, H)
    PROVE  Line(T, G, S) = Line(R, H, S)
<1>1. PICK a, b, c : /\ a = Len(T) /\ b = Len(H) /\ c = Len(S)
                     /\ a \in Nat /\ b \in Nat /\ c \in Nat
  BY Lengths, Zenon
<1>2. /\ R \in Seq(Coroutines) /\ Len(R) = a + 1
      /\ R[1] = x /\ \A i \in 1..a : R[i + 1] = T[i]
      /\ G \in Seq(Coroutines) /\ Len(G) = b + 1
      /\ G[1] = x /\ \A i \in 1..b : G[i + 1] = H[i]
  BY <1>1, AheadFacts DEF Ahead
<1>3. PICK y, z : y = Line(T, G, S) /\ z = Line(R, H, S)
  OBVIOUS
<1>4. /\ y \in Seq(Coroutines) /\ Len(y) = a + (b + 1) + c
      /\ \A i \in 1..(a + (b + 1) + c) :
             y[i] = IF i <= a THEN T[a - i + 1]
                    ELSE IF i <= a + (b + 1) THEN G[i - a] ELSE S[a + (b + 1) + c - i + 1]
  <2>1. Standing(y, T, G, S, a, b + 1, c)
    BY <1>1, <1>2, <1>3, LineIndex
  <2> QED BY <2>1 DEF Standing
<1>5. /\ z \in Seq(Coroutines) /\ Len(z) = (a + 1) + b + c
      /\ \A i \in 1..((a + 1) + b + c) :
             z[i] = IF i <= a + 1 THEN R[(a + 1) - i + 1]
                    ELSE IF i <= (a + 1) + b THEN H[i - (a + 1)]
                    ELSE S[(a + 1) + b + c - i + 1]
  <2>1. Standing(z, R, H, S, a + 1, b, c)
    BY <1>1, <1>2, <1>3, LineIndex
  <2> QED BY <2>1 DEF Standing
<1>6. Len(y) = Len(z)
  BY <1>1, <1>4, <1>5
<1>7. \A i \in 1..Len(y) : y[i] = z[i]
  <2> TAKE i \in 1..Len(y)
  <2>1. i \in 1..(a + (b + 1) + c) /\ i \in 1..((a + 1) + b + c)
    BY <1>1, <1>4
  <2>2. CASE i <= a
    <3>1. i <= a + 1 /\ (a - i + 1) + 1 = (a + 1) - i + 1 /\ a - i + 1 \in 1..a
      BY <1>1, <2>1, <2>2
    <3>2. y[i] = T[a - i + 1]
      BY <1>4, <2>1, <2>2
    <3>3. z[i] = R[(a - i + 1) + 1]
      BY <1>5, <2>1, <3>1
    <3> QED BY <1>2, <3>1, <3>2, <3>3
  <2>3. CASE i = a + 1
    <3>1. ~(i <= a) /\ i <= a + (b + 1) /\ i - a = 1 /\ i <= a + 1 /\ (a + 1) - i + 1 = 1
      BY <1>1, <2>3
    <3>2. y[i] = G[1]
      BY <1>4, <2>1, <3>1
    <3>3. z[i] = R[1]
      BY <1>5, <2>1, <3>1
    <3> QED BY <1>2, <3>2, <3>3
  <2>4. CASE ~(i <= a + 1) /\ i <= a + 1 + b
    <3>1. /\ ~(i <= a) /\ i <= a + (b + 1) /\ i - (a + 1) \in 1..b
          /\ (i - (a + 1)) + 1 = i - a
      BY <1>1, <2>4
    <3>2. y[i] = G[(i - (a + 1)) + 1]
      BY <1>4, <2>1, <3>1
    <3>3. z[i] = H[i - (a + 1)]
      BY <1>5, <2>1, <2>4
    <3> QED BY <1>2, <3>1, <3>2, <3>3
  <2>5. CASE ~(i <= a + 1 + b)
    <3>1. /\ ~(i <= a) /\ ~(i <= a + (b + 1)) /\ ~(i <= a + 1)
          /\ a + (b + 1) + c - i + 1 = (a + 1) + b + c - i + 1
      BY <1>1, <2>5
    <3> QED BY <1>4, <1>5, <2>1, <2>5, <3>1
  <2>6. i \in Int
    OBVIOUS
  <2> QED BY <1>1, <2>2, <2>3, <2>4, <2>5, <2>6
<1> QED BY <1>3, <1>4, <1>5, <1>6, <1>7, SeqEqual

\* release() takes the stack over: the line stays as it is.
LEMMA LineTaken ==
    ASSUME NEW S \in Seq(Coroutines)
    PROVE  Line(S, <<>>, <<>>) = Line(<<>>, <<>>, S)
<1>1. PICK e : e = <<>> /\ e \in Seq(Coroutines) /\ Len(e) = 0
  BY EmptySeq
<1>2. PICK y, z : y = Line(S, e, e) /\ z = Line(e, e, S)
  OBVIOUS
<1>3. PICK c : c = Len(S) /\ c \in Nat
  OBVIOUS
<1>4. /\ y \in Seq(Coroutines) /\ Len(y) = c + 0 + 0
      /\ \A i \in 1..(c + 0 + 0) :
             y[i] = IF i <= c THEN S[c - i + 1]
                    ELSE IF i <= c + 0 THEN e[i - c] ELSE e[c + 0 + 0 - i + 1]
  <2>1. Standing(y, S, e, e, c, 0, 0)
    BY <1>1, <1>2, <1>3, LineIndex
  <2> QED BY <2>1 DEF Standing
<1>5. /\ z \in Seq(Coroutines) /\ Len(z) = 0 + 0 + c
      /\ \A i \in 1..(0 + 0 + c) :
             z[i] = IF i <= 0 THEN e[0 - i + 1]
                    ELSE IF i <= 0 + 0 THEN e[i - 0] ELSE S[0 + 0 + c - i + 1]
  <2>1. Standing(z, e, e, S, 0, 0, c)
    BY <1>1, <1>2, <1>3, LineIndex
  <2> QED BY <2>1 DEF Standing
<1>6. Len(y) = Len(z) /\ Len(y) = c
  BY <1>3, <1>4, <1>5
<1>7. \A i \in 1..Len(y) : y[i] = z[i]
  <2> TAKE i \in 1..Len(y)
  <2>1. /\ i \in 1..(c + 0 + 0) /\ i \in 1..(0 + 0 + c) /\ i <= c /\ ~(i <= 0)
        /\ ~(i <= 0 + 0) /\ 0 + 0 + c - i + 1 = c - i + 1
    BY <1>3, <1>6
  <2> QED BY <1>4, <1>5, <2>1
<1> QED BY <1>1, <1>2, <1>4, <1>5, <1>6, <1>7, SeqEqual

\* z is y without its first.
Left(y, z) == y # <<>> /\ z = Tail(y)

\* release() resumes the head of the queue: it leaves the line at its front.
LEMMA LineLeft ==
    ASSUME NEW H \in Seq(Coroutines), NEW S \in Seq(Coroutines),
           NEW x \in Coroutines, NEW G, G = Ahead(x, H)
    PROVE  Left(Line(<<>>, G, S), Line(<<>>, H, S))
<1>1. PICK e : e = <<>> /\ e \in Seq(Coroutines) /\ Len(e) = 0
  BY EmptySeq
<1>2. PICK y, z : y = Line(e, G, S) /\ z = Line(e, H, S)
  OBVIOUS
<1>3. PICK b, c : b = Len(H) /\ c = Len(S) /\ b \in Nat /\ c \in Nat
  BY Lengths, Zenon
<1>4. /\ G \in Seq(Coroutines) /\ Len(G) = b + 1
      /\ \A i \in 1..b : G[i + 1] = H[i]
  BY <1>3, AheadFacts DEF Ahead
<1>5. /\ y \in Seq(Coroutines) /\ Len(y) = 0 + (b + 1) + c
      /\ \A i \in 1..(0 + (b + 1) + c) :
             y[i] = IF i <= 0 THEN e[0 - i + 1]
                    ELSE IF i <= 0 + (b + 1) THEN G[i - 0] ELSE S[0 + (b + 1) + c - i + 1]
  <2>1. Standing(y, e, G, S, 0, b + 1, c)
    BY <1>1, <1>2, <1>3, <1>4, LineIndex
  <2> QED BY <2>1 DEF Standing
<1>6. /\ z \in Seq(Coroutines) /\ Len(z) = 0 + b + c
      /\ \A i \in 1..(0 + b + c) :
             z[i] = IF i <= 0 THEN e[0 - i + 1]
                    ELSE IF i <= 0 + b THEN H[i - 0] ELSE S[0 + b + c - i + 1]
  <2>1. Standing(z, e, H, S, 0, b, c)
    BY <1>1, <1>2, <1>3, LineIndex
  <2> QED BY <2>1 DEF Standing
<1>7. y # <<>>
  BY <1>3, <1>5
<1>8. PICK t : t = Tail(y)
  OBVIOUS
<1>9. /\ t \in Seq(Coroutines) /\ Len(t) = b + c
      /\ \A i \in 1..(b + c) : t[i] = y[i + 1]
  <2>1. /\ t \in Seq(Coroutines) /\ Len(t) = Len(y) - 1
        /\ \A i \in 1..Len(t) : t[i] = y[i + 1]
    BY <1>5, <1>7, <1>8, HeadTailProperties
  <2>2. Len(t) = b + c
    BY <1>3, <1>5, <2>1
  <2> QED BY <2>1, <2>2
<1>10. \A i \in 1..Len(z) : z[i] = t[i]
  <2> TAKE i \in 1..Len(z)
  <2>1. /\ i \in 1..(b + c) /\ i \in 1..(0 + b + c) /\ i + 1 \in 1..(0 + (b + 1) + c)
        /\ ~(i <= 0) /\ ~(i + 1 <= 0) /\ i - 0 = i /\ (i + 1) - 0 = i + 1
        /\ 0 + (b + 1) + c - (i + 1) + 1 = 0 + b + c - i + 1
        /\ (i <= 0 + b <=> i + 1 <= 0 + (b + 1))
        /\ (i <= 0 + b => i \in 1..b)
    BY <1>3, <1>6
  <2>2. t[i] = y[i + 1]
    BY <1>9, <2>1
  <2>3. CASE i <= 0 + b
    <3>1. z[i] = H[i]
      BY <1>6, <2>1, <2>3
    <3>2. y[i + 1] = G[i + 1]
      BY <1>5, <2>1, <2>3
    <3> QED BY <1>4, <2>1, <2>2, <2>3, <3>1, <3>2
  <2>4. CASE ~(i <= 0 + b)
    <3>1. z[i] = S[0 + b + c - i + 1]
      BY <1>6, <2>1, <2>4
    <3>2. y[i + 1] = S[0 + (b + 1) + c - (i + 1) + 1]
      BY <1>5, <2>1, <2>4
    <3> QED BY <2>1, <2>2, <3>1, <3>2
  <2> QED BY <2>3, <2>4
<1>11. Len(z) = Len(t)
  BY <1>3, <1>6, <1>9
<1>12. z = t
  BY <1>6, <1>9, <1>10, <1>11, SeqEqual
<1> QED BY <1>1, <1>2, <1>7, <1>8, <1>12, Zenon DEF Left

\* Nobody is in two of the lists.
Apart(T, H, S) ==
    \A x : ~(In(x, T) /\ In(x, H)) /\ ~(In(x, T) /\ In(x, S)) /\ ~(In(x, H) /\ In(x, S))

\* No awaiter occurs twice in a list.
Once(s) == \A i, j \in 1..Len(s) : s[i] = s[j] => i = j

\* Everyone in the lists is in the line, once.
LEMMA LineExact ==
    ASSUME NEW T \in Seq(Coroutines), NEW H \in Seq(Coroutines), NEW S \in Seq(Coroutines),
           Once(T), Once(H), Once(S), Apart(T, H, S), NEW z, z = Line(T, H, S)
    PROVE  /\ IsInjective(z)
           /\ \A x : x \in ToSet(z) <=> In(x, T) \/ In(x, H) \/ In(x, S)
<1>1. PICK a, b, c : /\ a = Len(T) /\ b = Len(H) /\ c = Len(S)
                     /\ a \in Nat /\ b \in Nat /\ c \in Nat
  BY Lengths, Zenon
<1>2. Standing(z, T, H, S, a, b, c)
  BY <1>1, LineIndex
<1>3. z \in Seq(Coroutines) /\ DOMAIN z = 1..(a + b + c)
  BY <1>2 DEF Standing
<1>4. \A i \in 1..(a + b + c) :
          \/ i \in 1..a /\ a - i + 1 \in 1..a /\ z[i] = T[a - i + 1]
          \/ i \in (a + 1)..(a + b) /\ i - a \in 1..b /\ z[i] = H[i - a]
          \/ /\ i \in (a + b + 1)..(a + b + c) /\ a + b + c - i + 1 \in 1..c
             /\ z[i] = S[a + b + c - i + 1]
  <2> TAKE i \in 1..(a + b + c)
  <2>1. CASE i <= a
    <3>1. i \in 1..a /\ a - i + 1 \in 1..a
      BY <1>1, <2>1
    <3> QED BY <1>2, <2>1, <3>1 DEF Standing
  <2>2. CASE ~(i <= a) /\ i <= a + b
    <3>1. i \in (a + 1)..(a + b) /\ i - a \in 1..b
      BY <1>1, <2>2
    <3> QED BY <1>2, <2>2, <3>1 DEF Standing
  <2>3. CASE ~(i <= a) /\ ~(i <= a + b)
    <3>1. i \in (a + b + 1)..(a + b + c) /\ a + b + c - i + 1 \in 1..c
      BY <1>1, <2>3
    <3> QED BY <1>2, <2>3, <3>1 DEF Standing
  <2> QED BY <2>1, <2>2, <2>3
<1>5. IsInjective(z)
  <2> SUFFICES ASSUME NEW i \in 1..(a + b + c), NEW j \in 1..(a + b + c), z[i] = z[j]
               PROVE  i = j
    BY <1>3 DEF IsInjective
  <2>1. CASE i \in 1..a /\ a - i + 1 \in 1..a /\ z[i] = T[a - i + 1]
    <3>1. In(z[j], T)
      BY <1>1, <2>1 DEF In
    <3>2. a - j + 1 \in 1..a /\ z[j] = T[a - j + 1]
      BY <1>1, <1>4, <3>1 DEF Apart, In
    <3>3. a - i + 1 = a - j + 1
      BY <1>1, <2>1, <3>2 DEF Once
    <3> QED BY <1>1, <3>3
  <2>2. CASE i \in (a + 1)..(a + b) /\ i - a \in 1..b /\ z[i] = H[i - a]
    <3>1. In(z[j], H)
      BY <1>1, <2>2 DEF In
    <3>2. j - a \in 1..b /\ z[j] = H[j - a]
      BY <1>1, <1>4, <3>1 DEF Apart, In
    <3>3. i - a = j - a
      BY <1>1, <2>2, <3>2 DEF Once
    <3> QED BY <1>1, <3>3
  <2>3. CASE /\ a + b + c - i + 1 \in 1..c
             /\ z[i] = S[a + b + c - i + 1]
    <3>1. In(z[j], S)
      BY <1>1, <2>3 DEF In
    <3>2. a + b + c - j + 1 \in 1..c /\ z[j] = S[a + b + c - j + 1]
      BY <1>1, <1>4, <3>1 DEF Apart, In
    <3>3. a + b + c - i + 1 = a + b + c - j + 1
      BY <1>1, <2>3, <3>2 DEF Once
    <3> QED BY <1>1, <3>3
  <2> QED BY <1>4, <2>1, <2>2, <2>3
<1>6. ASSUME NEW x PROVE x \in ToSet(z) <=> In(x, T) \/ In(x, H) \/ In(x, S)
  <2>1. x \in ToSet(z) <=> \E i \in 1..(a + b + c) : z[i] = x
    BY <1>3 DEF ToSet
  <2>2. ASSUME NEW i \in 1..(a + b + c), z[i] = x PROVE In(x, T) \/ In(x, H) \/ In(x, S)
    BY <1>1, <1>4, <2>2 DEF In
  <2>3. ASSUME In(x, T) PROVE \E i \in 1..(a + b + c) : z[i] = x
    <3>1. PICK k \in 1..a : T[k] = x
      BY <1>1, <2>3 DEF In
    <3>2. PICK i : /\ i = a - k + 1 /\ i \in 1..(a + b + c) /\ i \in 1..a /\ i <= a
                   /\ a - i + 1 = k
      <4>1. PICK i : i = a - k + 1
        OBVIOUS
      <4>2. /\ i \in 1..(a + b + c) /\ i \in 1..a /\ i <= a /\ a - i + 1 = k
        BY <1>1, <3>1, <4>1
      <4> QED BY <4>1, <4>2
    <3>3. z[i] = T[a - i + 1]
      BY <1>2, <3>2 DEF Standing
    <3> QED BY <3>1, <3>2, <3>3
  <2>4. ASSUME In(x, H) PROVE \E i \in 1..(a + b + c) : z[i] = x
    <3>1. PICK k \in 1..b : H[k] = x
      BY <1>1, <2>4 DEF In
    <3>2. PICK i : /\ i = a + k /\ i \in 1..(a + b + c) /\ ~(i <= a) /\ i <= a + b
                   /\ i - a = k
      BY <1>1, <3>1
    <3>3. z[i] = H[i - a]
      BY <1>2, <3>2 DEF Standing
    <3> QED BY <3>1, <3>2, <3>3
  <2>5. ASSUME In(x, S) PROVE \E i \in 1..(a + b + c) : z[i] = x
    <3>1. PICK k \in 1..c : S[k] = x
      BY <1>1, <2>5 DEF In
    <3>2. PICK i : /\ i = a + b + c - k + 1 /\ i \in 1..(a + b + c) /\ ~(i <= a)
                   /\ ~(i <= a + b) /\ a + b + c - i + 1 = k
      BY <1>1, <3>1
    <3>3. z[i] = S[a + b + c - i + 1]
      BY <1>2, <3>2 DEF Standing
    <3> QED BY <3>1, <3>2, <3>3
  <2> QED BY <2>1, <2>2, <2>3, <2>4, <2>5
<1> QED BY <1>5, <1>6

\* What an awaiter in front of a list means for the members of the list.
LEMMA AheadIn ==
    ASSUME NEW x \in Coroutines, NEW s \in Seq(Coroutines)
    PROVE  \A y : In(y, Ahead(x, s)) <=> y = x \/ In(y, s)
<1>1. PICK r : r = <<x>> \o s
  OBVIOUS
<1>2. \A y : In(y, r) <=> y = x \/ In(y, s)
  BY <1>1, AheadFacts
<1> QED BY <1>1, <1>2, Zenon DEF Ahead

\* ... and for its links.
LEMMA AheadLinked ==
    ASSUME NEW p, NEW s, NEW nx, NEW nz, NEW x \in Coroutines,
           Linked(p, s, nx), ~In(x, s),
           \A y : In(y, s) => nz[y] = nx[y],
           nz[x] = p \/ (nz[x] \notin Coroutines /\ p \notin Coroutines)
    PROVE  Linked(x, Ahead(x, s), nz)
<1>1. PICK r : r = <<x>> \o s
  OBVIOUS
<1>2. Linked(x, r, nz)
  BY <1>1, LinkedPush
<1> QED BY <1>1, <1>2, Zenon DEF Ahead

\* The first of a list, taken off it.
LEMMA AheadPop ==
    ASSUME NEW x \in Coroutines, NEW s, NEW nx, Linked(x, s, nx)
    PROVE  \E r \in Seq(Coroutines) : s = Ahead(x, r) /\ ~In(x, r) /\ Linked(nx[x], r, nx)
BY LinkedPop DEF Ahead

-----------------------------------------------------------------------------
\* Where the two lists outside `state` start: in the locals of the release() that
\* is about to replace the queue, or else the queue is all there is.
Ends(p, h) ==
    /\ \A c \in Coroutines :
           /\ pc[c] = "reversing" => p = current[c] /\ h = awaiters_head[c]
           /\ pc[c] = "handoff" => p \notin Coroutines /\ h = awaiters_head[c]
    /\ (\A c \in Coroutines : pc[c] \notin {"reversing", "handoff"})
           => p \notin Coroutines /\ h = awaiters

\* The three lists, and that those in them are the suspended coroutines.  A
\* release() that found no queue has none to lose when it takes the stack over.
Lists(p, h, T, H, S) ==
    /\ Ends(p, h)
    /\ Linked(p, T, next_awaiter) /\ Linked(h, H, next_awaiter) /\ Linked(state, S, next_awaiter)
    /\ Apart(T, H, S)
    /\ \A c \in Coroutines : pc[c] = "suspended" <=> In(c, T) \/ In(c, H) \/ In(c, S)
    /\ \A c \in Coroutines : pc[c] \in {"unlocking", "taking"}
           => awaiters = NULL /\ awaiters_head[c] = NULL

\* Nothing reversed is nothing.
LEMMA ReversedNothing == Reverse(<<>>) = <<>>
<1>1. PICK e : e = <<>> /\ e \in Seq(Coroutines) /\ Len(e) = 0
  BY EmptySeq
<1>2. PICK r : r = Reverse(e)
  OBVIOUS
<1>3. r \in Seq(Coroutines) /\ Len(r) = 0
  BY <1>1, <1>2, Reversed
<1>4. r = <<>>
  BY <1>3
<1> QED BY <1>1, <1>2, <1>4

\* The line that the model reads off the links.
LEMMA LineIs ==
    ASSUME NEW p, NEW h, NEW T, NEW H, NEW S, Lists(p, h, T, H, S)
    PROVE  WaitingLine = Line(T, H, S)
<1>1. /\ Linked(p, T, next_awaiter) /\ Linked(h, H, next_awaiter)
      /\ Linked(state, S, next_awaiter)
  BY DEF Lists
<1>2. Chain(p) = T /\ Chain(h) = H /\ Chain(state) = S
  BY <1>1, ChainIs
<1>3. H \in Seq(Coroutines)
  BY <1>1 DEF Linked
<1>4. p \notin Coroutines => Reverse(T) \o H = H
  <2> SUFFICES ASSUME p \notin Coroutines PROVE Reverse(T) \o H = H
    OBVIOUS
  <2>1. T = <<>>
    BY <1>1 DEF Linked
  <2>2. Reverse(T) = <<>>
    BY <2>1, ReversedNothing, Zenon
  <2> QED BY <1>3, <2>2, ConcatEmptySeq
<1>5. Queue = Reverse(T) \o H
  <2>1. CASE \E c \in Coroutines : pc[c] \in {"reversing", "handoff"}
    <3>1. PICK c : c = CHOOSE d \in Coroutines : pc[d] \in {"reversing", "handoff"}
      OBVIOUS
    <3>2. c \in Coroutines /\ pc[c] \in {"reversing", "handoff"}
      BY <2>1, <3>1
    <3>3. Queue = QueueOf(c)
      BY <2>1, <3>1, Zenon DEF Queue
    <3>4. CASE pc[c] = "reversing"
      <4>1. p = current[c] /\ h = awaiters_head[c]
        BY <3>2, <3>4 DEF Lists, Ends
      <4> QED BY <1>2, <3>3, <3>4, <4>1 DEF QueueOf
    <3>5. CASE pc[c] = "handoff"
      <4>1. p \notin Coroutines /\ h = awaiters_head[c]
        BY <3>2, <3>5 DEF Lists, Ends
      <4>2. QueueOf(c) = H
        BY <1>2, <3>5, <4>1 DEF QueueOf
      <4> QED BY <1>4, <3>3, <4>1, <4>2
    <3> QED BY <3>2, <3>4, <3>5
  <2>2. CASE ~ \E c \in Coroutines : pc[c] \in {"reversing", "handoff"}
    <3>1. p \notin Coroutines /\ h = awaiters
      BY <2>2 DEF Lists, Ends
    <3>2. Queue = H
      BY <1>2, <2>2, <3>1 DEF Queue
    <3> QED BY <1>4, <3>1, <3>2
  <2> QED BY <2>1, <2>2
<1> QED BY <1>2, <1>5, Zenon DEF WaitingLine, Line

\* From one line to the next: as it is, longer at the end, or shorter at the front.
Moves(y, z) ==
    \/ z = y
    \/ \E c \in Coroutines : Joined(y, c, z)
    \/ Left(y, z)

\* What a step makes of the lists and of the line.
ListsMove(T, H, S) ==
    \E q, g, U, G, R : Lists(q, g, U, G, R)' /\ Moves(Line(T, H, S), Line(U, G, R))

\* Those in a list are coroutines.
LEMMA ListMember ==
    ASSUME NEW p, NEW s, NEW nx, Linked(p, s, nx), NEW x, In(x, s) PROVE x \in Coroutines
BY DEF Linked, In

\* A step that moves neither the ends of the lists nor a waiter leaves the line alone.
LEMMA QuietLine ==
    ASSUME NEW p, NEW h, NEW T, NEW H, NEW S, Lists(p, h, T, H, S),
           \A d \in Coroutines :
               /\ pc'[d] = "suspended" <=> pc[d] = "suspended"
               /\ pc'[d] = "reversing" <=> pc[d] = "reversing"
               /\ pc'[d] = "handoff" <=> pc[d] = "handoff"
               /\ pc'[d] \in {"unlocking", "taking"} => pc[d] \in {"unlocking", "taking"}
               /\ pc[d] = "suspended" => next_awaiter'[d] = next_awaiter[d],
           awaiters' = awaiters, awaiters_head' = awaiters_head, current' = current,
           state' = state \/ (state \notin Coroutines /\ state' \notin Coroutines)
    PROVE  ListsMove(T, H, S)
<1>1. /\ Linked(p, T, next_awaiter) /\ Linked(h, H, next_awaiter)
      /\ Linked(state, S, next_awaiter)
  BY DEF Lists
<1>2. \A x : In(x, T) \/ In(x, H) \/ In(x, S) => next_awaiter'[x] = next_awaiter[x]
  BY <1>1, ListMember DEF Lists
<1>3. /\ Linked(p, T, next_awaiter') /\ Linked(h, H, next_awaiter')
      /\ Linked(state', S, next_awaiter')
  BY <1>1, <1>2, LinkedKept
<1>4. Ends(p, h)'
  BY DEF Lists, Ends
<1>5. /\ \A c \in Coroutines : pc'[c] = "suspended" <=> In(c, T) \/ In(c, H) \/ In(c, S)
      /\ \A c \in Coroutines : pc'[c] \in {"unlocking", "taking"}
             => awaiters' = NULL /\ awaiters_head'[c] = NULL
      /\ Apart(T, H, S)
  BY DEF Lists
<1>6. Lists(p, h, T, H, S)'
  BY <1>3, <1>4, <1>5 DEF Lists
<1> QED BY <1>6 DEF ListsMove, Moves

\* await_suspend, and the end of a coroutine: only a push on the stack changes the
\* line, and the coroutine that links itself is in none of the lists.
LEMMA LockingLine ==
    ASSUME TypeOK, NEW c \in Coroutines,
           Locking(c) \/ Finish(c),
           NEW p, NEW h, NEW T, NEW H, NEW S, Lists(p, h, T, H, S)
    PROVE  ListsMove(T, H, S)
<1>1. pc \in [Coroutines -> {"idle", "trying", "suspended", "holding", "unlocking", "taking",
                             "reversing", "handoff", "finished"}]
      /\ next_awaiter \in [Coroutines -> Pointer]
  BY DEF TypeOK
<1>2. NOT_LOCKED \notin Coroutines /\ LOCKED_NO_WAITERS \notin Coroutines
  BY LockAssumption
<1>3. CASE Acquire(c)
  BY <1>1, <1>3, QuietLine DEF Acquire
<1>4. CASE TakeFree(c)
  BY <1>1, <1>2, <1>4, QuietLine DEF TakeFree
<1>5. CASE RetryAcquire(c)
  <2>1. /\ pc[c] = "trying" /\ pc' = pc /\ state' = state /\ awaiters' = awaiters
        /\ awaiters_head' = awaiters_head /\ current' = current
    BY <1>5 DEF RetryAcquire
  <2>2. \A d \in Coroutines : d # c => next_awaiter'[d] = next_awaiter[d]
    BY <1>1, <1>5 DEF RetryAcquire
  <2> QED BY <2>1, <2>2, QuietLine
<1>6. CASE Finish(c)
  BY <1>1, <1>6, QuietLine DEF Finish
<1>7. CASE Enqueue(c)
  <2>1. /\ pc[c] = "trying" /\ state # NOT_LOCKED /\ state' = c
        /\ pc' = [pc EXCEPT ![c] = "suspended"]
        /\ next_awaiter' = [next_awaiter EXCEPT ![c] = AsPointer(state)]
        /\ awaiters' = awaiters /\ awaiters_head' = awaiters_head /\ current' = current
    BY <1>7 DEF Enqueue
  <2>2. /\ Linked(p, T, next_awaiter) /\ Linked(h, H, next_awaiter)
        /\ Linked(state, S, next_awaiter) /\ Apart(T, H, S)
        /\ T \in Seq(Coroutines) /\ H \in Seq(Coroutines) /\ S \in Seq(Coroutines)
    BY DEF Lists, Linked
  <2>3. ~In(c, T) /\ ~In(c, H) /\ ~In(c, S)
    BY <2>1 DEF Lists
  <2>4. next_awaiter'[c] = AsPointer(state)
    BY <1>1, <2>1
  <2>5. \A x : In(x, T) \/ In(x, H) \/ In(x, S) => next_awaiter'[x] = next_awaiter[x]
    BY <1>1, <2>1, <2>2, <2>3, ListMember
  <2>6. Linked(p, T, next_awaiter') /\ Linked(h, H, next_awaiter')
    BY <2>2, <2>5, LinkedKept
  <2>7. next_awaiter'[c] = state \/ (next_awaiter'[c] \notin Coroutines /\ state \notin Coroutines)
    BY <2>1, <2>4, LockAssumption DEF AsPointer, TypeOK
  <2>8. PICK R : R = Ahead(c, S)
    OBVIOUS
  <2>9. Linked(c, R, next_awaiter')
    BY <2>2, <2>3, <2>5, <2>7, <2>8, AheadLinked
  <2>10. \A x : In(x, R) <=> x = c \/ In(x, S)
    BY <2>2, <2>8, AheadIn
  <2>11. Joined(Line(T, H, S), c, Line(T, H, R))
    BY <2>2, <2>8, LineJoined
  <2>12. Apart(T, H, R)
    BY <2>2, <2>3, <2>10 DEF Apart
  <2>13. Ends(p, h)'
    <3>1. /\ \A d \in Coroutines : pc'[d] = "reversing" <=> pc[d] = "reversing"
          /\ \A d \in Coroutines : pc'[d] = "handoff" <=> pc[d] = "handoff"
      BY <1>1, <2>1
    <3> QED BY <2>1, <3>1 DEF Lists, Ends
  <2>14. \A d \in Coroutines : pc'[d] = "suspended" <=> In(d, T) \/ In(d, H) \/ In(d, R)
    <3>1. \A d \in Coroutines : pc'[d] = "suspended" <=> d = c \/ pc[d] = "suspended"
      BY <1>1, <2>1
    <3> QED BY <2>10, <3>1 DEF Lists
  <2>15. \A d \in Coroutines : pc'[d] \in {"unlocking", "taking"}
             => awaiters' = NULL /\ awaiters_head'[d] = NULL
    BY <1>1, <2>1 DEF Lists
  <2>16. Lists(p, h, T, H, R)'
    BY <2>1, <2>6, <2>9, <2>12, <2>13, <2>14, <2>15 DEF Lists
  <2> QED BY <2>11, <2>16 DEF ListsMove, Moves
<1> QED BY <1>3, <1>4, <1>5, <1>6, <1>7 DEF Locking

\* The releasing coroutine is alone in release().
LEMMA OneRelease ==
    ASSUME MutualExclusion, NEW c \in Coroutines, Holds(c)
    PROVE  \A d \in Coroutines : d # c =>
               pc[d] \notin {"holding", "unlocking", "taking", "reversing", "handoff"}
BY DEF MutualExclusion, Holds

\* The steps of release(): only the hand-over changes the line, by its first.
LEMMA ReleasingLine ==
    ASSUME TypeOK, MutualExclusion, NEW c \in Coroutines,
           Releasing(c),
           NEW p, NEW h, NEW T, NEW H, NEW S, Lists(p, h, T, H, S)
    PROVE  ListsMove(T, H, S)
<1>1. /\ pc \in [Coroutines -> {"idle", "trying", "suspended", "holding", "unlocking", "taking",
                                "reversing", "handoff", "finished"}]
      /\ next_awaiter \in [Coroutines -> Pointer]
      /\ awaiters_head \in [Coroutines -> Pointer]
      /\ current \in [Coroutines -> Pointer]
  BY DEF TypeOK
<1>2. /\ NOT_LOCKED \notin Coroutines /\ LOCKED_NO_WAITERS \notin Coroutines
      /\ NULL \notin Coroutines
  BY LockAssumption
<1>3. /\ Linked(p, T, next_awaiter) /\ Linked(h, H, next_awaiter)
      /\ Linked(state, S, next_awaiter) /\ Apart(T, H, S) /\ Ends(p, h)
      /\ T \in Seq(Coroutines) /\ H \in Seq(Coroutines) /\ S \in Seq(Coroutines)
      /\ \A d \in Coroutines : pc[d] = "suspended" <=> In(d, T) \/ In(d, H) \/ In(d, S)
      /\ \A d \in Coroutines : pc[d] \in {"unlocking", "taking"}
             => awaiters = NULL /\ awaiters_head[d] = NULL
  BY DEF Lists, Linked
<1>4. CASE BeginRelease(c)
  <2>1. /\ pc[c] = "holding" /\ state' = state /\ awaiters' = awaiters /\ current' = current
        /\ next_awaiter' = next_awaiter
        /\ awaiters_head' = [awaiters_head EXCEPT ![c] = awaiters]
        /\ pc' = [pc EXCEPT ![c] = IF awaiters = NULL THEN "unlocking" ELSE "handoff"]
    BY <1>4 DEF BeginRelease
  <2>2. \A d \in Coroutines : d # c =>
            pc[d] \notin {"holding", "unlocking", "taking", "reversing", "handoff"}
    BY <2>1, OneRelease DEF Holds
  <2>3. p \notin Coroutines /\ h = awaiters
    BY <1>3, <2>1, <2>2 DEF Ends
  <2>4. /\ \A d \in Coroutines : d # c => pc'[d] = pc[d] /\ awaiters_head'[d] = awaiters_head[d]
        /\ awaiters_head'[c] = awaiters
        /\ awaiters = NULL => pc'[c] = "unlocking"
        /\ awaiters # NULL => pc'[c] = "handoff"
    BY <1>1, <2>1
  <2>5. Ends(p, h)'
    BY <2>1, <2>2, <2>3, <2>4 DEF Ends
  <2>6. /\ \A d \in Coroutines : pc'[d] = "suspended" <=> pc[d] = "suspended"
        /\ \A d \in Coroutines : pc'[d] \in {"unlocking", "taking"}
               => awaiters' = NULL /\ awaiters_head'[d] = NULL
    BY <2>1, <2>2, <2>4
  <2>7. Lists(p, h, T, H, S)'
    BY <1>3, <2>1, <2>5, <2>6 DEF Lists
  <2> QED BY <2>7 DEF ListsMove, Moves
<1>5. CASE Unlock(c)
  <2>1. /\ pc[c] = "unlocking" /\ next_awaiter' = next_awaiter /\ awaiters' = awaiters
        /\ awaiters_head' = awaiters_head /\ current' = current
        /\ state' = state \/ (state = LOCKED_NO_WAITERS /\ state' = NOT_LOCKED)
        /\ \A d \in Coroutines : d # c => pc'[d] = pc[d]
        /\ pc'[c] \in {"idle", "taking"}
    BY <1>1, <1>5 DEF Unlock
  <2> QED BY <1>2, <2>1, QuietLine
<1>6. CASE TakeList(c)
  <2>1. /\ pc[c] = "taking" /\ next_awaiter' = next_awaiter /\ awaiters' = awaiters
        /\ awaiters_head' = awaiters_head /\ state' = LOCKED_NO_WAITERS
        /\ current' = [current EXCEPT ![c] = AsPointer(state)]
        /\ pc' = [pc EXCEPT ![c] = "reversing"]
    BY <1>6 DEF TakeList
  <2>2. \A d \in Coroutines : d # c =>
            pc[d] \notin {"holding", "unlocking", "taking", "reversing", "handoff"}
    BY <2>1, OneRelease DEF Holds
  <2>3. p \notin Coroutines /\ h = NULL /\ awaiters_head[c] = NULL
    BY <1>3, <2>1, <2>2 DEF Ends
  <2>4. T = <<>> /\ H = <<>>
    BY <1>2, <1>3, <2>3 DEF Linked
  <2>5. PICK q, e : q = AsPointer(state) /\ e = <<>>
    OBVIOUS
  <2>6. q = state \/ (q \notin Coroutines /\ state \notin Coroutines)
    BY <1>2, <2>5, LockAssumption DEF AsPointer, TypeOK
  <2>7. Linked(q, S, next_awaiter)
    BY <1>3, <2>6, LinkedKept
  <2>8. \A x : ~In(x, e)
    BY <2>5 DEF In
  <2>9. Linked(h, e, next_awaiter) /\ Linked(state', e, next_awaiter)
    <3>1. Linked(h, e, next_awaiter)
      BY <1>3, <2>4, <2>5
    <3> QED BY <1>2, <2>1, <2>3, <2>8, <3>1, LinkedKept
  <2>10. Line(S, e, e) = Line(T, H, S)
    BY <1>3, <2>4, <2>5, LineTaken, Zenon
  <2>11. Apart(S, e, e)
    BY <2>8 DEF Apart
  <2>12. /\ \A d \in Coroutines : d # c => pc'[d] = pc[d] /\ current'[d] = current[d]
         /\ pc'[c] = "reversing" /\ current'[c] = q
    BY <1>1, <2>1, <2>5
  <2>13. Ends(q, h)'
    BY <2>1, <2>2, <2>3, <2>12 DEF Ends
  <2>14. \A d \in Coroutines : pc'[d] = "suspended" <=> In(d, S) \/ In(d, e) \/ In(d, e)
    BY <1>3, <2>1, <2>4, <2>5, <2>8, <2>12
  <2>15. \A d \in Coroutines : pc'[d] \in {"unlocking", "taking"}
             => awaiters' = NULL /\ awaiters_head'[d] = NULL
    BY <2>2, <2>12
  <2>16. Lists(q, h, S, e, e)'
    BY <2>1, <2>7, <2>9, <2>11, <2>13, <2>14, <2>15 DEF Lists
  <2> QED BY <2>10, <2>16 DEF ListsMove, Moves
<1>7. CASE ReverseStep(c)
  <2>1. PICK x : x = current[c] /\ x \in Coroutines
    BY <1>7 DEF ReverseStep
  <2>2. /\ pc[c] = "reversing" /\ state' = state /\ awaiters' = awaiters
        /\ next_awaiter' = [next_awaiter EXCEPT ![x] = awaiters_head[c]]
        /\ awaiters_head' = [awaiters_head EXCEPT ![c] = x]
        /\ current' = [current EXCEPT ![c] = next_awaiter[x]]
        /\ pc' = [pc EXCEPT ![c] = IF next_awaiter[x] = NULL THEN "handoff" ELSE "reversing"]
    BY <1>7, <2>1 DEF ReverseStep
  <2>3. \A d \in Coroutines : d # c =>
            pc[d] \notin {"holding", "unlocking", "taking", "reversing", "handoff"}
    BY <2>2, OneRelease DEF Holds
  <2>4. p = x /\ h = awaiters_head[c]
    BY <1>3, <2>1, <2>2 DEF Ends
  <2>5. PICK U \in Seq(Coroutines) :
            T = Ahead(x, U) /\ ~In(x, U) /\ Linked(next_awaiter[x], U, next_awaiter)
    BY <1>3, <2>1, <2>4, AheadPop
  <2>6. \A y : In(y, T) <=> y = x \/ In(y, U)
    BY <2>1, <2>5, AheadIn
  <2>7. PICK q, G : q = next_awaiter[x] /\ G = Ahead(x, H)
    OBVIOUS
  <2>8. \A y : In(y, G) <=> y = x \/ In(y, H)
    BY <1>3, <2>1, <2>7, AheadIn
  <2>9. ~In(x, H) /\ ~In(x, S)
    BY <1>3, <2>6 DEF Apart
  <2>10. /\ next_awaiter'[x] = h
         /\ \A y \in Coroutines : y # x => next_awaiter'[y] = next_awaiter[y]
    BY <1>1, <2>1, <2>2, <2>4
  <2>11. \A y : In(y, U) \/ In(y, H) \/ In(y, S) => next_awaiter'[y] = next_awaiter[y]
    BY <1>3, <2>5, <2>9, <2>10, ListMember
  <2>12. Linked(q, U, next_awaiter') /\ Linked(state', S, next_awaiter')
    BY <1>3, <2>2, <2>5, <2>7, <2>11, LinkedKept
  <2>13. Linked(x, G, next_awaiter')
    BY <1>3, <2>1, <2>7, <2>9, <2>10, <2>11, AheadLinked
  <2>14. Line(U, G, S) = Line(T, H, S)
    BY <1>3, <2>1, <2>5, <2>7, LineShifted
  <2>15. Apart(U, G, S)
    BY <1>3, <2>5, <2>6, <2>8, <2>9 DEF Apart
  <2>16. /\ \A d \in Coroutines : d # c => /\ pc'[d] = pc[d] /\ current'[d] = current[d]
                                           /\ awaiters_head'[d] = awaiters_head[d]
         /\ current'[c] = q /\ awaiters_head'[c] = x
         /\ pc'[c] = "reversing" \/ (pc'[c] = "handoff" /\ q = NULL)
    BY <1>1, <2>2, <2>7
  <2>17. Ends(q, x)'
    BY <1>2, <2>3, <2>16 DEF Ends
  <2>18. \A d \in Coroutines : pc'[d] = "suspended" <=> In(d, U) \/ In(d, G) \/ In(d, S)
    BY <1>3, <2>2, <2>6, <2>8, <2>16
  <2>19. \A d \in Coroutines : pc'[d] \in {"unlocking", "taking"}
             => awaiters' = NULL /\ awaiters_head'[d] = NULL
    BY <2>3, <2>16
  <2>20. Lists(q, x, U, G, S)'
    BY <2>12, <2>13, <2>15, <2>17, <2>18, <2>19 DEF Lists
  <2> QED BY <2>14, <2>20 DEF ListsMove, Moves
<1>8. CASE HandOff(c)
  <2>1. PICK x : x = awaiters_head[c] /\ x \in Coroutines
    BY <1>8 DEF HandOff
  <2>2. /\ pc[c] = "handoff" /\ state' = state /\ next_awaiter' = next_awaiter
        /\ awaiters_head' = awaiters_head /\ current' = current
        /\ awaiters' = next_awaiter[x]
        /\ pc' = [pc EXCEPT ![c] = "idle", ![x] = "holding"]
    BY <1>8, <2>1 DEF HandOff
  <2>3. \A d \in Coroutines : d # c =>
            pc[d] \notin {"holding", "unlocking", "taking", "reversing", "handoff"}
    BY <2>2, OneRelease DEF Holds
  <2>4. p \notin Coroutines /\ h = x
    BY <1>3, <2>1, <2>2 DEF Ends
  <2>5. T = <<>>
    BY <1>3, <2>4 DEF Linked
  <2>6. PICK G \in Seq(Coroutines) :
            H = Ahead(x, G) /\ ~In(x, G) /\ Linked(next_awaiter[x], G, next_awaiter)
    BY <1>3, <2>1, <2>4, AheadPop
  <2>7. \A y : In(y, H) <=> y = x \/ In(y, G)
    BY <2>1, <2>6, AheadIn
  <2>8. PICK g : g = next_awaiter[x]
    OBVIOUS
  <2>9. Left(Line(T, H, S), Line(T, G, S))
    BY <1>3, <2>1, <2>5, <2>6, LineLeft
  <2>10. Apart(T, G, S)
    BY <1>3, <2>7 DEF Apart
  <2>11. In(x, H) /\ ~In(x, S) /\ ~In(x, T)
    BY <1>3, <2>7 DEF Apart
  <2>12. pc[x] = "suspended" /\ x # c
    BY <1>3, <2>1, <2>2, <2>11
  <2>13. /\ \A d \in Coroutines : d # c /\ d # x => pc'[d] = pc[d]
         /\ pc'[c] = "idle" /\ pc'[x] = "holding"
    BY <1>1, <2>1, <2>2, <2>12
  <2>14. Ends(p, g)'
    BY <2>2, <2>3, <2>4, <2>8, <2>13 DEF Ends
  <2>15. \A d \in Coroutines : pc'[d] = "suspended" <=> In(d, T) \/ In(d, G) \/ In(d, S)
    BY <1>3, <2>2, <2>6, <2>7, <2>11, <2>13
  <2>16. \A d \in Coroutines : pc'[d] \notin {"unlocking", "taking"}
    BY <2>3, <2>13
  <2>17. Lists(p, g, T, G, S)'
    BY <1>3, <2>2, <2>6, <2>8, <2>10, <2>14, <2>15, <2>16 DEF Lists
  <2> QED BY <2>9, <2>17 DEF ListsMove, Moves
<1>9. CASE Crash(c)
  BY <1>9, QuietLine DEF Crash
<1> QED BY <1>4, <1>5, <1>6, <1>7, <1>8, <1>9 DEF Releasing, HandOffOrCrash

-----------------------------------------------------------------------------
\* The lists exist, beside what mutual exclusion needs.
LineInv == LockInv /\ \E p, h, T, H, S : Lists(p, h, T, H, S)

\* What a step makes of the line, whatever the lists are.
LineMoves ==
    \A p, h, T, H, S : Lists(p, h, T, H, S) => ListsMove(T, H, S)

\* Initially nobody waits.
LEMMA LineInit ==
    ASSUME Init
    PROVE  \E p, h, T, H, S : Lists(p, h, T, H, S)
<1>1. PICK e : e = <<>> /\ e \in Seq(Coroutines) /\ Len(e) = 0
  BY EmptySeq
<1>2. /\ state \notin Coroutines /\ NULL \notin Coroutines /\ awaiters = NULL
      /\ \A c \in Coroutines : pc[c] = "idle"
  BY LockAssumption DEF Init
<1>3. \A x : ~In(x, e)
  BY <1>1 DEF In
<1>4. Linked(NULL, e, next_awaiter) /\ Linked(state, e, next_awaiter)
  BY <1>1, <1>2 DEF Linked
<1>5. Ends(NULL, NULL)
  BY <1>2 DEF Ends
<1>6. Lists(NULL, NULL, e, e, e)
  BY <1>2, <1>3, <1>4, <1>5 DEF Lists, Apart
<1> QED BY <1>6

\* Every step keeps the lists, and grows the line at its end or shrinks it at its
\* front, if it changes it at all.
LEMMA LineStep ==
    ASSUME LockInv, [Next]_vars
    PROVE  LineMoves
<1> SUFFICES ASSUME NEW p, NEW h, NEW T, NEW H, NEW S, Lists(p, h, T, H, S)
             PROVE  ListsMove(T, H, S)
  BY DEF LineMoves
<1>1. TypeOK /\ MutualExclusion
  BY DEF LockInv
<1>2. CASE UNCHANGED vars
  <2>1. /\ pc' = pc /\ next_awaiter' = next_awaiter /\ awaiters' = awaiters
        /\ awaiters_head' = awaiters_head /\ current' = current /\ state' = state
    BY <1>2 DEF vars
  <2> QED BY <2>1, QuietLine
<1>3. CASE Next
  <2>1. PICK c \in Coroutines : Locking(c) \/ Releasing(c) \/ Finish(c)
    BY <1>3 DEF Next
  <2>2. CASE Locking(c) \/ Finish(c)
    BY <1>1, <2>2, LockingLine
  <2>3. CASE Releasing(c)
    BY <1>1, <2>3, ReleasingLine
  <2> QED BY <2>1, <2>2, <2>3
<1> QED BY <1>2, <1>3

\* LineInv is inductive.
LEMMA LineInvariance == Spec => []LineInv
<1>1. Init => LineInv
  BY LineInit, LockInductive DEF LineInv
<1>2. LineInv /\ [Next]_vars => LineInv'
  <2> SUFFICES ASSUME LineInv, [Next]_vars PROVE LineInv'
    OBVIOUS
  <2>1. LockInv /\ \E p, h, T, H, S : Lists(p, h, T, H, S)
    BY DEF LineInv
  <2>2. LineMoves
    BY <2>1, LineStep
  <2>3. \E p, h, T, H, S : Lists(p, h, T, H, S)'
    BY <2>1, <2>2 DEF LineMoves, ListsMove
  <2>4. LockInv'
    BY <2>1, LockInductive
  <2> QED BY <2>3, <2>4 DEF LineInv
<1> QED BY <1>1, <1>2, PTL DEF Spec

\* However many coroutines race for async_lock, the waiting line holds every
\* suspended one exactly once and nobody else: release() loses no awaiter between
\* taking the stack, reversing it and handing the lock over.
THEOREM LockLineExact == Spec => []WaitingLineIsExact
<1>1. LineInv => WaitingLineIsExact
  <2> SUFFICES ASSUME LineInv PROVE WaitingLineIsExact
    OBVIOUS
  <2>1. PICK p, h, T, H, S : Lists(p, h, T, H, S)
    BY DEF LineInv
  <2>2. /\ T \in Seq(Coroutines) /\ H \in Seq(Coroutines) /\ S \in Seq(Coroutines)
        /\ Once(T) /\ Once(H) /\ Once(S) /\ Apart(T, H, S)
    BY <2>1 DEF Lists, Linked, Once
  <2>3. PICK z : z = Line(T, H, S)
    OBVIOUS
  <2>4. WaitingLine = z
    BY <2>1, <2>3, LineIs
  <2>5. /\ IsInjective(z)
        /\ \A x : x \in ToSet(z) <=> In(x, T) \/ In(x, H) \/ In(x, S)
    BY <2>2, <2>3, LineExact
  <2>6. \A x : In(x, T) \/ In(x, H) \/ In(x, S) => x \in Coroutines
    BY <2>1, ListMember DEF Lists
  <2>7. \A c \in Coroutines : pc[c] = "suspended" <=> In(c, T) \/ In(c, H) \/ In(c, S)
    BY <2>1 DEF Lists
  <2>8. ToSet(z) = {c \in Coroutines : pc[c] = "suspended"}
    BY <2>5, <2>6, <2>7
  <2> QED BY <2>4, <2>5, <2>8, Zenon DEF WaitingLineIsExact
<1> QED BY <1>1, LineInvariance, PTL

\* The line is what the lists say.
LineSeen == \A p, h, T, H, S : Lists(p, h, T, H, S) => WaitingLine = Line(T, H, S)

\* Coroutines stand in line for async_lock in the order in which await_suspend
\* pushed them, for any number of coroutines: no step of release() or of a racing
\* await_suspend lets one overtake another.
THEOREM LockIsFifo == Spec => FifoOrder
<1>1. LineSeen
  BY LineIs DEF LineSeen
<1>2. LineSeen'
  BY <1>1, PTL
<1>3. LineInv /\ [Next]_vars
      => Moves(WaitingLine, WaitingLine')
  <2> SUFFICES ASSUME LineInv, [Next]_vars
               PROVE  Moves(WaitingLine, WaitingLine')
    OBVIOUS
  <2>1. PICK p, h, T, H, S : Lists(p, h, T, H, S)
    BY DEF LineInv
  <2>2. LineMoves
    BY LineStep DEF LineInv
  <2>3. PICK q, g, U, G, R : Lists(q, g, U, G, R)' /\ Moves(Line(T, H, S), Line(U, G, R))
    BY <2>1, <2>2 DEF LineMoves, ListsMove
  <2>4. WaitingLine = Line(T, H, S)
    BY <1>1, <2>1 DEF LineSeen
  <2>5. WaitingLine' = Line(U, G, R)
    BY <1>2, <2>3 DEF LineSeen
  <2> QED BY <2>3, <2>4, <2>5
<1>4. LineInv /\ [Next]_vars =>
        [ \/ WaitingLine' = WaitingLine
          \/ \E c \in Coroutines : WaitingLine' = Append(WaitingLine, c)
          \/ WaitingLine # <<>> /\ WaitingLine' = Tail(WaitingLine)
        ]_vars
  BY <1>3, Zenon DEF Moves, Joined, Left
<1> QED BY <1>4, LineInvariance, PTL DEF Spec, FifoOrder
=============================================================================
