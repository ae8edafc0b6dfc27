----------------------- MODULE ManualResetEventProofs -----------------------
(***************************************************************************)
(* manual_reset_event, for any number of consumers and setters and any     *)
(* bounds: set() follows only pointers to suspended coroutines, every      *)
(* suspended coroutine is referenced exactly once, and the event           *)
(* implements AbstractEvent.                                               *)
(***************************************************************************)
EXTENDS ManualResetEvent, TLAPS

\* The two properties need each other: a coroutine about to link itself is
\* referenced by nobody (NoDanglingWaiter), and when set() resumes a coroutine
\* no second pointer to it stays behind (ReferencedOnce).
IInv == TypeOK /\ NoDanglingWaiter /\ ReferencedOnce

\* Every variable keeps its type: in particular next_awaiter never holds the
\* address of the event, which await_suspend tests for before storing it.
LEMMA TypeStep == TypeOK /\ [Next]_vars => TypeOK'
<1> SUFFICES ASSUME TypeOK, [Next]_vars PROVE TypeOK'
  OBVIOUS
<1> USE EventAssumption DEF TypeOK, Address
<1>1. ASSUME NEW c \in Consumers, Consumer(c) PROVE TypeOK'
  <2>1. CASE AwaitReady(c)  BY <2>1 DEF AwaitReady
  <2>2. CASE LoadState(c)   BY <2>2 DEF LoadState
  <2>3. CASE DontSuspend(c) BY <2>3 DEF DontSuspend
  <2>4. CASE Link(c)        BY <2>4 DEF Link, ReturnToResumer
  <2>5. CASE Retry(c)       BY <2>5 DEF Retry
  <2>6. CASE Finish(c)      BY <2>6 DEF Finish, ReturnToResumer
  <2> QED BY <1>1, <2>1, <2>2, <2>3, <2>4, <2>5, <2>6 DEF Consumer
<1>2. ASSUME NEW s \in Setters, Set(s) PROVE TypeOK'
  BY <1>2 DEF Set, Idle
<1>3. ASSUME NEW s \in Setters, ResumeWaiter(s) PROVE TypeOK'
  BY <1>3 DEF ResumeWaiter
<1>4. CASE Reset  BY <1>4 DEF Reset
<1>5. CASE UNCHANGED vars  BY <1>5 DEF vars
<1> QED BY <1>1, <1>2, <1>3, <1>4, <1>5 DEF Next

\* A step that moves no pointer and suspends or resumes nobody.
LEMMA QuietStep ==
    ASSUME NoDanglingWaiter, ReferencedOnce,
           \A x \in Sources : Target(x)' \in Consumers => Target(x)' = Target(x),
           \A x \in Sources : Target(x) \in Consumers => Target(x)' = Target(x),
           \A c \in Consumers : pc'[c] = "suspended" <=> pc[c] = "suspended"
    PROVE  NoDanglingWaiter' /\ ReferencedOnce'
BY DEF NoDanglingWaiter, ReferencedOnce, Sources, EventWord

\* await_suspend publishes c: nobody referenced c before, and the awaiter that
\* headed the list is now referenced by c instead of by the event.
LEMMA LinkStep ==
    ASSUME IInv, NEW c \in Consumers, Link(c)
    PROVE  NoDanglingWaiter' /\ ReferencedOnce'
<1> USE EventAssumption DEF IInv, TypeOK, Address
<1>1. /\ pc' = [pc EXCEPT ![c] = "suspended"]
      /\ pc[c] = "linking"
      /\ state' = c
      /\ state \in Consumers \cup {NULL}
      /\ next_awaiter' = [next_awaiter EXCEPT ![c] = state]
      /\ waiter' = waiter
  BY DEF Link
<1>2. \A x \in Sources : Target(x) # c
  BY <1>1 DEF NoDanglingWaiter
<1>3. /\ Target(EventWord)' = c
      /\ Target(c)' = Target(EventWord)
      /\ Target(EventWord) = state
      /\ Target(c) = NULL
  BY <1>1 DEF Target, EventWord
<1>4. \A x \in Sources \ {EventWord, c} : Target(x)' = Target(x)
  BY <1>1 DEF Target, EventWord, Sources
<1>5. EventWord \in Sources /\ c \in Sources /\ c # EventWord
  BY DEF Sources, EventWord
<1>6. NoDanglingWaiter'
  <2> SUFFICES ASSUME NEW x \in Sources, Target(x)' \in Consumers
               PROVE  pc'[Target(x)'] = "suspended"
    BY DEF NoDanglingWaiter, Sources, EventWord
  <2> QED BY <1>1, <1>3, <1>4, <1>5 DEF NoDanglingWaiter
<1>7. ReferencedOnce'
  <2> SUFFICES ASSUME NEW d \in Consumers, pc'[d] = "suspended"
               PROVE  /\ \E x \in Sources : Target(x)' = d
                      /\ \A x, y \in Sources :
                            Target(x)' = d /\ Target(y)' = d => x = y
    BY DEF ReferencedOnce, Sources, EventWord
  <2>1. CASE d = c
    BY <2>1, <1>2, <1>3, <1>4, <1>5
  <2>2. CASE d # c
    <3>1. pc[d] = "suspended"
      BY <2>2, <1>1
    <3>2. PICK x0 \in Sources : Target(x0) = d
      BY <3>1 DEF ReferencedOnce
    <3>3. \A x, y \in Sources : Target(x) = d /\ Target(y) = d => x = y
      BY <3>1 DEF ReferencedOnce
    <3>4. \E x \in Sources : Target(x)' = d
      BY <3>2, <1>3, <1>4, <1>5
    <3>5. \A x, y \in Sources : Target(x)' = d /\ Target(y)' = d => x = y
      BY <2>2, <3>3, <1>3, <1>4, <1>5
    <3> QED BY <3>4, <3>5
  <2> QED BY <2>1, <2>2
<1> QED BY <1>6, <1>7

\* set() resumes the coroutine its `waiter` points to: it was suspended, its
\* only reference moves on to its successor.
LEMMA ResumeStep ==
    ASSUME IInv, NEW s \in Setters, ResumeWaiter(s)
    PROVE  NoDanglingWaiter' /\ ReferencedOnce'
<1> USE EventAssumption DEF IInv, TypeOK, Address
<1>0. PICK w \in Consumers : w = waiter[s]
  BY DEF ResumeWaiter
<1>1. /\ w = waiter[s]
      /\ waiter' = [waiter EXCEPT ![s] = next_awaiter[w]]
      /\ pc' = [pc EXCEPT ![w] = "running"]
      /\ state' = state
      /\ next_awaiter' = next_awaiter
  BY <1>0 DEF ResumeWaiter
<1>2. s \in Sources /\ w \in Sources /\ s # w /\ s # EventWord /\ w # EventWord
      /\ w \notin Setters
  BY <1>1 DEF Sources, EventWord
<1>3. Target(s) = w /\ pc[w] = "suspended"
  BY <1>1, <1>2 DEF Target, NoDanglingWaiter
<1>4. Target(s)' = Target(w) /\ Target(w)' = NULL
  BY <1>1, <1>2, <1>3 DEF Target
<1>5. \A x \in Sources \ {s, w} : Target(x)' = Target(x)
  BY <1>1 DEF Target, EventWord, Sources
<1>6. \A x \in Sources : Target(x) = w => x = s
  BY <1>1, <1>2, <1>3 DEF ReferencedOnce
<1>7. NoDanglingWaiter'
  <2> SUFFICES ASSUME NEW x \in Sources, Target(x)' \in Consumers
               PROVE  pc'[Target(x)'] = "suspended"
    BY DEF NoDanglingWaiter, Sources, EventWord
  <2>1. Target(x)' # w
    BY <1>2, <1>4, <1>5, <1>6, <1>1
  <2> QED BY <2>1, <1>1, <1>2, <1>4, <1>5 DEF NoDanglingWaiter
<1>8. ReferencedOnce'
  <2> SUFFICES ASSUME NEW d \in Consumers, pc'[d] = "suspended"
               PROVE  /\ \E x \in Sources : Target(x)' = d
                      /\ \A x, y \in Sources :
                            Target(x)' = d /\ Target(y)' = d => x = y
    BY DEF ReferencedOnce, Sources, EventWord
  <2>1. d # w /\ pc[d] = "suspended"
    BY <1>1
  <2>2. PICK x0 \in Sources : Target(x0) = d
    BY <2>1 DEF ReferencedOnce
  <2>3. \A x, y \in Sources : Target(x) = d /\ Target(y) = d => x = y
    BY <2>1 DEF ReferencedOnce
  <2>4. \E x \in Sources : Target(x)' = d
    BY <2>1, <2>2, <1>2, <1>3, <1>4, <1>5
  <2>5. \A x, y \in Sources : Target(x)' = d /\ Target(y)' = d => x = y
    BY <2>1, <2>3, <1>1, <1>2, <1>4, <1>5
  <2> QED BY <2>4, <2>5
<1> QED BY <1>7, <1>8

\* set() takes the list: the reference to its head moves from the event to the
\* setter.
LEMMA SetStep ==
    ASSUME IInv, NEW s \in Setters, Set(s)
    PROVE  NoDanglingWaiter' /\ ReferencedOnce'
<1> USE EventAssumption DEF IInv, TypeOK, Address
<1>1. /\ state' = SET
      /\ waiter[s] = NULL
      /\ waiter' = [waiter EXCEPT ![s] = IF state = SET THEN NULL ELSE state]
      /\ pc' = pc
      /\ next_awaiter' = next_awaiter
  BY DEF Set, Idle
<1>2. EventWord \in Sources /\ s \in Sources /\ s # EventWord
  BY DEF Sources, EventWord
<1>3. /\ Target(EventWord) = state
      /\ Target(EventWord)' = SET
      /\ Target(s) = NULL
      /\ Target(s)' = IF state = SET THEN NULL ELSE state
  BY <1>1, <1>2 DEF Target, EventWord
<1>4. \A x \in Sources \ {EventWord, s} : Target(x)' = Target(x)
  BY <1>1 DEF Target, EventWord, Sources
<1>5. NoDanglingWaiter'
  <2> SUFFICES ASSUME NEW x \in Sources, Target(x)' \in Consumers
               PROVE  pc'[Target(x)'] = "suspended"
    BY DEF NoDanglingWaiter, Sources, EventWord
  <2> QED BY <1>1, <1>2, <1>3, <1>4 DEF NoDanglingWaiter
<1>6. ReferencedOnce'
  <2> SUFFICES ASSUME NEW d \in Consumers, pc'[d] = "suspended"
               PROVE  /\ \E x \in Sources : Target(x)' = d
                      /\ \A x, y \in Sources :
                            Target(x)' = d /\ Target(y)' = d => x = y
    BY DEF ReferencedOnce, Sources, EventWord
  <2>1. PICK x0 \in Sources : Target(x0) = d
    BY <1>1 DEF ReferencedOnce
  <2>2. \A x, y \in Sources : Target(x) = d /\ Target(y) = d => x = y
    BY <1>1 DEF ReferencedOnce
  <2>3. d # SET /\ d # NULL
    OBVIOUS
  <2>4. \E x \in Sources : Target(x)' = d
    BY <2>1, <2>3, <1>2, <1>3, <1>4
  <2>5. \A x, y \in Sources : Target(x)' = d /\ Target(y)' = d => x = y
    BY <2>2, <2>3, <1>2, <1>3, <1>4
  <2> QED BY <2>4, <2>5
<1> QED BY <1>5, <1>6

\* The invariant is inductive.
LEMMA InvStep == IInv /\ [Next]_vars => IInv'
<1> SUFFICES ASSUME IInv, [Next]_vars PROVE IInv'
  OBVIOUS
<1>1. TypeOK'
  BY TypeStep DEF IInv
<1>2. NoDanglingWaiter' /\ ReferencedOnce'
  <2> USE EventAssumption DEF IInv, TypeOK, Address
  <2>1. ASSUME NEW c \in Consumers, Consumer(c)
        PROVE  NoDanglingWaiter' /\ ReferencedOnce'
    <3>1. CASE Link(c)  BY <3>1, LinkStep
    <3>2. CASE AwaitReady(c) \/ LoadState(c) \/ DontSuspend(c) \/ Finish(c)
      <4>1. /\ state' = state /\ waiter' = waiter
            /\ next_awaiter' = next_awaiter
            /\ \A d \in Consumers : pc'[d] = "suspended" <=> pc[d] = "suspended"
        BY <3>2 DEF AwaitReady, LoadState, DontSuspend, Finish
      <4>2. \A x \in Sources : Target(x)' = Target(x)
        BY <4>1 DEF Target, Sources, EventWord
      <4> QED BY <4>1, <4>2, QuietStep
    <3>3. CASE Retry(c)
      <4>1. /\ state' = state /\ waiter' = waiter /\ pc' = pc
            /\ \A d \in Consumers : pc[d] = "suspended" =>
                    next_awaiter'[d] = next_awaiter[d]
        BY <3>3 DEF Retry
      <4>2. \A x \in Sources : Target(x)' = Target(x)
        BY <4>1 DEF Target, Sources, EventWord
      <4> QED BY <4>1, <4>2, QuietStep
    <3> QED BY <2>1, <3>1, <3>2, <3>3 DEF Consumer
  <2>2. ASSUME NEW s \in Setters, Set(s)
        PROVE  NoDanglingWaiter' /\ ReferencedOnce'
    BY <2>2, SetStep
  <2>3. ASSUME NEW s \in Setters, ResumeWaiter(s)
        PROVE  NoDanglingWaiter' /\ ReferencedOnce'
    BY <2>3, ResumeStep
  <2>4. CASE Reset
    <3>1. /\ waiter' = waiter /\ pc' = pc /\ next_awaiter' = next_awaiter
          /\ state' = state \/ (state = SET /\ state' = NULL)
      BY <2>4 DEF Reset
    <3>2. \A x \in Sources : Target(x)' = Target(x) \/
                             (Target(x) = SET /\ Target(x)' = NULL)
      BY <3>1 DEF Target, Sources, EventWord
    <3> QED BY <3>1, <3>2, QuietStep
  <2>5. CASE UNCHANGED vars
    <3>1. /\ state' = state /\ waiter' = waiter /\ pc' = pc
          /\ next_awaiter' = next_awaiter
      BY <2>5 DEF vars
    <3>2. \A x \in Sources : Target(x)' = Target(x)
      BY <3>1 DEF Target, Sources, EventWord
    <3> QED BY <3>1, <3>2, QuietStep
  <2> QED BY <2>1, <2>2, <2>3, <2>4, <2>5 DEF Next
<1> QED BY <1>1, <1>2 DEF IInv

\* The invariant holds in every reachable state.
LEMMA Invariance == Spec => []IInv
<1>1. Init => IInv
  <2> SUFFICES ASSUME Init PROVE IInv
    OBVIOUS
  <2> USE EventAssumption
  <2>1. TypeOK
    BY DEF Init, TypeOK, Address
  <2>2. \A x \in Sources : Target(x) \in {NULL, SET}
    BY DEF Init, Target, Sources, EventWord
  <2>3. NoDanglingWaiter
    BY <2>2 DEF NoDanglingWaiter
  <2>4. ReferencedOnce
    BY DEF ReferencedOnce, Init
  <2> QED BY <2>1, <2>3, <2>4 DEF IInv
<1>2. IInv /\ [Next]_vars => IInv'
  BY InvStep
<1>3. QED
  BY <1>1, <1>2, PTL DEF Spec

\* set() and await_suspend follow only pointers to suspended coroutines, for any
\* number of coroutines and setters, any bounds, and any interleaving of
\* co_await, set() and reset().
THEOREM EventFollowsSuspended == Spec => []NoDanglingWaiter
BY Invariance, PTL DEF IInv

\* Every variable of the event keeps its type, and every suspended coroutine is
\* referenced exactly once: none is lost by a race of await_suspend with set(),
\* and none is resumed twice.
THEOREM EventSafe == Spec => [](TypeOK /\ ReferencedOnce)
BY Invariance, PTL DEF IInv

-----------------------------------------------------------------------------
(***************************************************************************)
(* The refinement of AbstractEvent.  InList is the least chain, so that it *)
(* contains a coroutine is shown for every chain, and that it does not by  *)
(* a chain without it.                                                     *)
(***************************************************************************)

\* A step that leaves the event's list and its members alone.
LEMMA SameList ==
    ASSUME state' = state \/ (state \notin Consumers /\ state' \notin Consumers),
           Suspended' = Suspended,
           \A d \in Suspended : next_awaiter'[d] = next_awaiter[d]
    PROVE  InList' = InList
<1>1. \A S \in SUBSET Suspended : Chain(S)' <=> Chain(S)
  BY DEF Chain
<1> QED BY <1>1 DEF InList

\* await_suspend's compare-exchange adds c to the event's list.
LEMMA LinkList ==
    ASSUME IInv, NEW c \in Consumers, Link(c)
    PROVE  InList' = InList \cup {c}
<1> USE EventAssumption DEF IInv, TypeOK, Address
<1>1. /\ pc' = [pc EXCEPT ![c] = "suspended"]
      /\ pc[c] = "linking"
      /\ state' = c
      /\ state \in Consumers \cup {NULL}
      /\ next_awaiter' = [next_awaiter EXCEPT ![c] = state]
  BY DEF Link
<1>2. Suspended' = Suspended \cup {c} /\ c \notin Suspended
  BY <1>1 DEF Suspended
<1>3. state # c /\ \A d \in Suspended : next_awaiter[d] # c
  <2>1. \A x \in Sources : Target(x) # c
    BY <1>1 DEF NoDanglingWaiter
  <2>2. Target(EventWord) = state /\ EventWord \in Sources
    BY DEF Target, EventWord, Sources
  <2>3. \A d \in Suspended : d \in Sources /\ Target(d) = next_awaiter[d]
    BY DEF Target, EventWord, Sources, Suspended
  <2> QED BY <2>1, <2>2, <2>3
<1>4. Suspended \subseteq Consumers
  BY DEF Suspended
<1>5. c \in InList'
  BY <1>1, <1>2 DEF InList, Chain
<1>6. ASSUME NEW x \in InList PROVE x \in InList'
  <2> SUFFICES ASSUME NEW S \in SUBSET Suspended', Chain(S)'  PROVE x \in S
    BY <1>2 DEF InList
  <2>1. S \ {c} \in SUBSET Suspended
    BY <1>2
  <2>2. c \in S
    BY <1>1 DEF Chain
  <2>3. state \in Consumers => state \in S \ {c}
    BY <2>2, <1>1, <1>3 DEF Chain
  <2>4. ASSUME NEW d \in S \ {c}, next_awaiter[d] \in Consumers
        PROVE  next_awaiter[d] \in S \ {c}
    BY <2>1, <2>4, <1>1, <1>3, <1>4 DEF Chain
  <2>5. Chain(S \ {c})
    BY <2>3, <2>4 DEF Chain
  <2> QED BY <2>1, <2>5 DEF InList
<1>7. ASSUME NEW x \in InList', x # c PROVE x \in InList
  <2>1. x \in Suspended
    BY <1>7, <1>2 DEF InList
  <2> SUFFICES ASSUME NEW S \in SUBSET Suspended, Chain(S)  PROVE x \in S
    BY <2>1 DEF InList
  <2>2. S \cup {c} \in SUBSET Suspended'
    BY <1>2
  <2>3. Chain(S \cup {c})'
    BY <1>1, <1>2, <1>4 DEF Chain
  <2> QED BY <2>2, <2>3, <1>7 DEF InList
<1> QED BY <1>5, <1>6, <1>7

\* set() empties the event's list: the event then holds its own address.
LEMMA SetList == ASSUME state' = SET PROVE InList' = {}
<1>1. Chain({})'
  BY EventAssumption DEF Chain
<1> QED BY <1>1 DEF InList

\* The coroutine that set() resumes is no longer in the event's list, which may
\* already hold coroutines that suspended after a reset(), and stays as it is.
LEMMA ResumeList ==
    ASSUME IInv, NEW s \in Setters, ResumeWaiter(s)
    PROVE  /\ waiter[s] \in Suspended \ InList
           /\ InList' = InList
<1> USE EventAssumption DEF IInv, TypeOK, Address
<1>0. PICK w \in Consumers : w = waiter[s]
  BY DEF ResumeWaiter
<1>1. /\ pc' = [pc EXCEPT ![w] = "running"]
      /\ state' = state
      /\ next_awaiter' = next_awaiter
  BY <1>0 DEF ResumeWaiter
<1>2. s \in Sources /\ s # EventWord /\ EventWord \in Sources /\ Target(s) = w
  BY <1>0 DEF Sources, EventWord, Target
<1>3. w \in Suspended
  BY <1>2 DEF NoDanglingWaiter, Suspended
<1>4. \A d \in Suspended : d \in Sources /\ d # s /\ Target(d) = next_awaiter[d]
  BY DEF Target, EventWord, Sources, Suspended
<1>5. state # w /\ \A d \in Suspended : next_awaiter[d] # w
  <2>1. \A x \in Sources : Target(x) = w => x = s
    BY <1>2, <1>3 DEF ReferencedOnce, Suspended
  <2>2. Target(EventWord) = state
    BY DEF Target, EventWord
  <2> QED BY <2>1, <2>2, <1>2, <1>4
<1>6. ASSUME NEW S \in SUBSET Suspended, Chain(S) PROVE Chain(S \ {w})
  BY <1>5, <1>6 DEF Chain
<1>7. Chain(Suspended)
  <2>1. state \in Consumers => state \in Suspended
    BY <1>2 DEF NoDanglingWaiter, Target, EventWord, Suspended
  <2>2. ASSUME NEW d \in Suspended, next_awaiter[d] \in Consumers
        PROVE  next_awaiter[d] \in Suspended
    BY <2>2, <1>4 DEF NoDanglingWaiter, Suspended
  <2> QED BY <2>1, <2>2 DEF Chain
<1>8. w \notin InList
  BY <1>6, <1>7 DEF InList
<1>9. Suspended' = Suspended \ {w}
  BY <1>1 DEF Suspended
<1>10. \A S : Chain(S)' <=> Chain(S)
  BY <1>1 DEF Chain
<1>11. ASSUME NEW x \in InList PROVE x \in InList'
  BY <1>8, <1>9, <1>10 DEF InList
<1>12. ASSUME NEW x \in InList' PROVE x \in InList
  <2> SUFFICES ASSUME NEW S \in SUBSET Suspended, Chain(S)  PROVE x \in S
    BY <1>9 DEF InList
  <2>1. S \ {w} \in SUBSET Suspended' /\ Chain(S \ {w})'
    BY <1>6, <1>9, <1>10
  <2> QED BY <2>1 DEF InList
<1> QED BY <1>0, <1>3, <1>8, <1>11, <1>12

\* The abstract state of a coroutine follows from its place and the list.
LEMMA SamePhase ==
    ASSUME InList' = InList, state' = state \/ (state # SET /\ state' # SET),
           \A d \in Consumers :
              \/ pc'[d] = pc[d]
              \/ pc[d] \notin {"suspended", "finished"} /\
                 pc'[d] \notin {"suspended", "finished"}
    PROVE  UNCHANGED Abstract!avars
<1>1. \A d \in Consumers : PhaseOf(d)' = PhaseOf(d)
  BY DEF PhaseOf
<1>2. (state = SET)' = (state = SET)
  OBVIOUS
<1> QED BY <1>1, <1>2 DEF Abstract!avars

\* Every step of the event is a step of AbstractEvent or changes nothing there.
LEMMA EventStep == IInv /\ [Next]_vars => [Abstract!Next]_(Abstract!avars)
<1> SUFFICES ASSUME IInv, [Next]_vars PROVE [Abstract!Next]_(Abstract!avars)
  OBVIOUS
<1> USE EventAssumption DEF IInv, TypeOK, Address
<1>1. ASSUME NEW c \in Consumers,
             AwaitReady(c) \/ LoadState(c) \/ DontSuspend(c) \/ Retry(c)
      PROVE  UNCHANGED Abstract!avars
  <2>1. /\ state' = state
        /\ Suspended' = Suspended
        /\ \A d \in Suspended : next_awaiter'[d] = next_awaiter[d]
        /\ \A d \in Consumers :
              \/ pc'[d] = pc[d]
              \/ pc[d] \notin {"suspended", "finished"} /\
                 pc'[d] \notin {"suspended", "finished"}
    BY <1>1 DEF AwaitReady, LoadState, DontSuspend, Retry, Suspended
  <2>2. InList' = InList
    BY <2>1, SameList
  <2> QED BY <2>1, <2>2, SamePhase
<1>2. ASSUME NEW c \in Consumers, Link(c) PROVE Abstract!Wait(c)
  <2>1. /\ pc[c] = "linking" /\ pc' = [pc EXCEPT ![c] = "suspended"]
        /\ state # SET /\ state' = c
    BY <1>2 DEF Link
  <2>2. InList' = InList \cup {c}
    BY <1>2, LinkList
  <2>3. PhaseOf(c) = "running" /\ PhaseOf(c)' = "waiting"
    BY <2>1, <2>2 DEF PhaseOf
  <2>4. \A d \in Consumers \ {c} : PhaseOf(d)' = PhaseOf(d)
    BY <2>1, <2>2 DEF PhaseOf
  <2> QED BY <2>1, <2>3, <2>4 DEF Abstract!Wait
<1>3. ASSUME NEW c \in Consumers, Finish(c) PROVE Abstract!Finish(c)
  <2>1. /\ pc[c] = "running" /\ pc' = [pc EXCEPT ![c] = "finished"]
        /\ state' = state /\ next_awaiter' = next_awaiter
    BY <1>3 DEF Finish
  <2>2. InList' = InList
    BY <2>1, SameList DEF Suspended
  <2>3. PhaseOf(c) = "running" /\ PhaseOf(c)' = "finished"
    BY <2>1 DEF PhaseOf
  <2>4. \A d \in Consumers \ {c} : PhaseOf(d)' = PhaseOf(d)
    BY <2>1, <2>2 DEF PhaseOf
  <2> QED BY <2>1, <2>3, <2>4 DEF Abstract!Finish
<1>4. ASSUME NEW s \in Setters, Set(s) PROVE Abstract!SetEvent
  <2>1. state' = SET /\ pc' = pc
    BY <1>4 DEF Set
  <2>2. InList' = {}
    BY <2>1, SetList
  <2>3. \A d \in Consumers :
           PhaseOf(d)' = IF PhaseOf(d) = "waiting" THEN "released" ELSE PhaseOf(d)
    BY <2>1, <2>2 DEF PhaseOf
  <2> QED BY <2>1, <2>3 DEF Abstract!SetEvent
<1>5. ASSUME NEW s \in Setters, ResumeWaiter(s)
      PROVE  Abstract!Wake(waiter[s]) /\ waiter[s] \in Consumers
  <2>1. /\ waiter[s] \in Consumers
        /\ pc' = [pc EXCEPT ![waiter[s]] = "running"]
        /\ state' = state
    BY <1>5 DEF ResumeWaiter
  <2>2. waiter[s] \in Suspended \ InList /\ InList' = InList
    BY <1>5, ResumeList
  <2>3. PhaseOf(waiter[s]) = "released"
    BY <2>2 DEF PhaseOf, Suspended
  <2>4. \A d \in Consumers :
           PhaseOf(d)' = IF d = waiter[s] THEN "running" ELSE PhaseOf(d)
    BY <2>1, <2>2 DEF PhaseOf
  <2> QED BY <2>1, <2>3, <2>4 DEF Abstract!Wake
<1>6. CASE Reset
  <2>1. /\ pc' = pc /\ next_awaiter' = next_awaiter
        /\ state' = IF state = SET THEN NULL ELSE state
    BY <1>6 DEF Reset
  <2>2. InList' = InList
    BY <2>1, SameList DEF Suspended
  <2>3. \A d \in Consumers : PhaseOf(d)' = PhaseOf(d)
    BY <2>1, <2>2 DEF PhaseOf
  <2>4. CASE state = SET
    BY <2>1, <2>3, <2>4 DEF Abstract!Next, Abstract!ResetEvent
  <2>5. CASE state # SET
    BY <2>1, <2>2, <2>5, SamePhase
  <2> QED BY <2>4, <2>5
<1>7. CASE UNCHANGED vars
  <2>1. state' = state /\ pc' = pc /\ next_awaiter' = next_awaiter
    BY <1>7 DEF vars
  <2>2. InList' = InList
    BY <2>1, SameList DEF Suspended
  <2> QED BY <2>1, <2>2, SamePhase
<1> QED
  BY <1>1, <1>2, <1>3, <1>4, <1>5, <1>6, <1>7 DEF Next, Consumer, Abstract!Next

\* manual_reset_event implements the safety part of AbstractEvent, for any
\* number of coroutines and setters: set()'s exchange releases every waiter in
\* one step, nobody waits on a set event, reset() forgets no waiter.
THEOREM EventImplements == Spec => ImplementsEvent
<1>1. Init => Abstract!Init
  BY EventAssumption DEF Init, Abstract!Init, PhaseOf
<1>2. IInv /\ [Next]_vars => [Abstract!Next]_(Abstract!avars)
  BY EventStep
<1> QED
  BY <1>1, <1>2, Invariance, PTL DEF Spec, ImplementsEvent, Abstract!Spec
=============================================================================
