-------------------------- MODULE TimerServiceProofs --------------------------
(***************************************************************************)
(* The worker of timer_service outlives the timers: n_inflight_timers, the *)
(* count it tests before it exits, is exact, because a request is in one   *)
(* queue at a time and handled by one reactor.                             *)
(***************************************************************************)
EXTENDS TimerService, FiniteSetTheorems, SequenceTheorems, TLAPS

\* What stands in queue q is in place st, and stands there once.
Line(q, a, st) ==
    /\ \A n \in DOMAIN q : q[n] # SHUTDOWN => a[q[n]] = st
    /\ \A m, n \in DOMAIN q : q[m] = q[n] /\ q[m] # SHUTDOWN => m = n

\* Each request in a queue is where its place says.
Lines ==
    /\ Line(requests, at, "queued")
    /\ Line(apcs, at, "expired")
    /\ Line(port, at, "posted")

\* A reactor that took a request from the port has it for itself.
Handled ==
    /\ \A r \in Reactors : reactor[r] = "removing" =>
          req[r] \in Posts /\ at[req[r]] = "dequeued"
    /\ \A r \in Reactors : reactor[r] = "handling" =>
          req[r] \in Posts /\ at[req[r]] = "handling"
    /\ \A r, s \in Reactors :
          {reactor[r], reactor[s]} \subseteq {"removing", "handling"} /\ req[r] = req[s]
             => r = s

IInv == ServedUntilIdle /\ Lines /\ Handled

-----------------------------------------------------------------------------
(***************************************************************************)
(* Queues.                                                                 *)
(***************************************************************************)

\* Who moves to st may be appended, unless it is there already.
LEMMA LineAppend ==
    ASSUME NEW T, NEW q \in Seq(T), NEW e \in T, NEW a, NEW b, NEW st, Line(q, a, st),
           e # SHUTDOWN => a[e] # st /\ b[e] = st,
           \A p \in T : p # e /\ p # SHUTDOWN => b[p] = a[p]
    PROVE  Append(q, e) \in Seq(T) /\ Line(Append(q, e), b, st)
<1>1. /\ DOMAIN q = 1..Len(q) /\ Len(q) \in Nat
      /\ \A n \in DOMAIN q : q[n] \in T
      /\ Append(q, e) \in Seq(T)
      /\ DOMAIN Append(q, e) = 1..(Len(q) + 1)
      /\ \A n \in 1..Len(q) : Append(q, e)[n] = q[n]
      /\ Append(q, e)[Len(q) + 1] = e
  BY LenProperties, ElementOfSeq, AppendProperties
<1>2. \A n \in 1..(Len(q) + 1) : n \in 1..Len(q) \/ n = Len(q) + 1
  BY <1>1
<1>3. \A n \in 1..Len(q) : q[n] # SHUTDOWN => q[n] # e /\ b[q[n]] = st
  BY <1>1 DEF Line
<1> QED BY <1>1, <1>2, <1>3 DEF Line

\* The head may move on.
LEMMA LineTail ==
    ASSUME NEW T, NEW q \in Seq(T), q # <<>>, NEW a, NEW b, NEW st, Line(q, a, st),
           \A p \in T : p # Head(q) /\ p # SHUTDOWN => b[p] = a[p]
    PROVE  Tail(q) \in Seq(T) /\ Line(Tail(q), b, st)
<1>1. /\ DOMAIN q = 1..Len(q) /\ Len(q) \in Nat /\ Len(q) > 0
      /\ \A n \in DOMAIN q : q[n] \in T
      /\ Head(q) = q[1]
      /\ Tail(q) \in Seq(T)
      /\ DOMAIN Tail(q) = 1..(Len(q) - 1)
      /\ \A n \in 1..(Len(q) - 1) : Tail(q)[n] = q[n + 1]
  BY LenProperties, EmptySeq, ElementOfSeq, HeadTailProperties
<1>2. \A n \in 1..(Len(q) - 1) : n + 1 \in 1..Len(q) /\ n + 1 # 1
  BY <1>1
<1>3. \A n \in 1..(Len(q) - 1) : q[n + 1] # SHUTDOWN => b[q[n + 1]] = st
  BY <1>1, <1>2 DEF Line
<1>4. \A m, n \in 1..(Len(q) - 1) :
         q[m + 1] = q[n + 1] /\ q[m + 1] # SHUTDOWN => m = n
  BY <1>1, <1>2 DEF Line
<1> QED BY <1>1, <1>3, <1>4 DEF Line

\* The head of a line that is no SHUTDOWN is in the line's place.
LEMMA LineHead ==
    ASSUME NEW T, NEW q \in Seq(T), q # <<>>, NEW a, NEW st, Line(q, a, st)
    PROVE  Head(q) \in T /\ (Head(q) # SHUTDOWN => a[Head(q)] = st)
<1>1. DOMAIN q = 1..Len(q) /\ Len(q) \in Nat /\ Len(q) > 0 /\ Head(q) = q[1]
  BY LenProperties, EmptySeq, HeadTailProperties
<1>2. Head(q) \in T
  BY <1>1, ElementOfSeq
<1> QED BY <1>1, <1>2 DEF Line

\* A line stays when nobody leaves its place.
LEMMA LineKept ==
    ASSUME NEW T, NEW q \in Seq(T), NEW a, NEW b, NEW st, Line(q, a, st),
           \A p \in T : p # SHUTDOWN /\ a[p] = st => b[p] = st
    PROVE  Line(q, b, st)
<1>1. \A n \in DOMAIN q : q[n] \in T
  BY LenProperties, ElementOfSeq
<1> QED BY <1>1 DEF Line

\* The keys that end a reactor's loop.
LEMMA LineKeys ==
    ASSUME NEW T, SHUTDOWN \in T, NEW q \in Seq(T), NEW k \in Nat, NEW a, NEW st,
           Line(q, a, st), NEW d \in Seq(T), Len(d) = k, \A n \in 1..k : d[n] = SHUTDOWN
    PROVE  q \o d \in Seq(T) /\ Line(q \o d, a, st)
<1>1. /\ DOMAIN q = 1..Len(q) /\ Len(q) \in Nat
      /\ q \o d \in Seq(T) /\ Len(q \o d) = Len(q) + k
      /\ \A n \in 1..(Len(q) + k) :
           (q \o d)[n] = IF n <= Len(q) THEN q[n] ELSE d[n - Len(q)]
  BY ConcatProperties, LenProperties
<1>2. DOMAIN (q \o d) = 1..(Len(q) + k)
  BY <1>1, LenProperties
<1>3. \A n \in 1..(Len(q) + k) : n <= Len(q) => n \in 1..Len(q)
  BY <1>1
<1>4. \A n \in 1..(Len(q) + k) : ~(n <= Len(q)) => n - Len(q) \in 1..k
  BY <1>1
<1>5. \A n \in 1..(Len(q) + k) : (q \o d)[n] # SHUTDOWN => n \in 1..Len(q) /\ (q \o d)[n] = q[n]
  BY <1>1, <1>3, <1>4
<1> QED BY <1>1, <1>2, <1>5 DEF Line

-----------------------------------------------------------------------------
(***************************************************************************)
(* The count.                                                              *)
(***************************************************************************)

Inflight == {"counted", "pushing", "queued", "armed", "expired", "posted", "dequeued"}
Places == {"idle", "checked", "handling", "done", "denied"} \cup Inflight

CountedSet == {p \in Posts : at[p] \in Inflight}

\* The count is finite and at most that of the requests.
LEMMA CountedFinite ==
    /\ IsFiniteSet(CountedSet) /\ Cardinality(CountedSet) \in Nat
    /\ Cardinality(Posts) \in Nat /\ Cardinality(CountedSet) <= Cardinality(Posts)
<1>1. CountedSet \subseteq Posts
  BY DEF CountedSet
<1> QED BY <1>1, TimerAssumption, FS_Subset, FS_CardinalityType

\* One request moves from its place to v.
LEMMA CountedMove ==
    ASSUME TypeOK, NEW p \in Posts, NEW v, at' = [at EXCEPT ![p] = v]
    PROVE  /\ at[p] \in Inflight /\ v \in Inflight =>
                Cardinality(CountedSet') = Cardinality(CountedSet)
           /\ at[p] \notin Inflight /\ v \notin Inflight =>
                Cardinality(CountedSet') = Cardinality(CountedSet)
           /\ at[p] \notin Inflight /\ v \in Inflight =>
                Cardinality(CountedSet') = Cardinality(CountedSet) + 1
           /\ at[p] \in Inflight /\ v \notin Inflight =>
                Cardinality(CountedSet') = Cardinality(CountedSet) - 1
<1>1. at'[p] = v /\ \A o \in Posts \ {p} : at'[o] = at[o]
  BY DEF TypeOK
<1>2. CASE at[p] \in Inflight <=> v \in Inflight
  <2>1. CountedSet' = CountedSet
    BY <1>1, <1>2 DEF CountedSet
  <2> QED BY <1>2, <2>1
<1>3. CASE at[p] \notin Inflight /\ v \in Inflight
  <2>1. CountedSet' = CountedSet \cup {p} /\ p \notin CountedSet
    BY <1>1, <1>3 DEF CountedSet
  <2> QED BY <1>3, <2>1, CountedFinite, FS_AddElement
<1>4. CASE at[p] \in Inflight /\ v \notin Inflight
  <2>1. CountedSet' = CountedSet \ {p} /\ p \in CountedSet
    BY <1>1, <1>4 DEF CountedSet
  <2> QED BY <1>4, <2>1, CountedFinite, FS_RemoveElement
<1> QED BY <1>2, <1>3, <1>4

\* InflightIsExact, by the name given to the set.
LEMMA ExactByCounted ==
    InflightIsExact <=> inflight = (base + Cardinality(CountedSet)) % InflightModulus
<1>1. {p \in Posts : Counted(p)} = CountedSet
  BY DEF Counted, CountedSet, Inflight
<1> QED BY <1>1 DEF InflightIsExact

\* The word one addition or one removal later: the sum wraps at most once.
LEMMA InflightWraps ==
    ASSUME NEW b \in 0..(InflightModulus - 1), NEW k \in Nat, k < InflightModulus
    PROVE  /\ (b + k) % InflightModulus \in 0..(InflightModulus - 1)
           /\ b + k < InflightModulus => (b + k) % InflightModulus = b + k
           /\ k + 1 < InflightModulus =>
                (((b + k) % InflightModulus) + 1) % InflightModulus
                   = (b + (k + 1)) % InflightModulus
           /\ k > 0 =>
                (((b + k) % InflightModulus) + InflightModulus - 1) % InflightModulus
                   = (b + (k - 1)) % InflightModulus
<1>1. InflightModulus \in Nat /\ InflightModulus > 0
  BY TimerAssumption
<1>2. ASSUME NEW M \in Nat, NEW x \in Nat, x < M PROVE x % M = x
  BY <1>2
<1>3. ASSUME NEW M \in Nat, NEW x \in Nat, M > 0, M <= x, x < 2 * M PROVE x % M = x - M
  BY <1>3
<1> PICK M : M = InflightModulus
  OBVIOUS
<1>4. \A x \in Nat : /\ x < M => x % M = x
                     /\ M <= x /\ x < 2 * M => x % M = x - M
  BY <1>1, <1>2, <1>3
<1>5. CASE b + k < M
  BY <1>1, <1>4, <1>5
<1>6. CASE M <= b + k
  BY <1>1, <1>4, <1>6
<1> QED BY <1>1, <1>5, <1>6

-----------------------------------------------------------------------------
(***************************************************************************)
(* The places of the requests.                                             *)
(***************************************************************************)

\* Every line but that of the place it leaves does without the one who moves.
LEMMA OtherLines ==
    ASSUME TypeOK, Lines, NEW p \in Posts, NEW v, at' = [at EXCEPT ![p] = v]
    PROVE  /\ at[p] # "queued" => Line(requests, at', "queued")
           /\ at[p] # "expired" => Line(apcs, at', "expired")
           /\ at[p] # "posted" => Line(port, at', "posted")
<1>1. /\ requests \in Seq(Posts)
      /\ apcs \in Seq(Posts \cup {SHUTDOWN}) /\ port \in Seq(Posts \cup {SHUTDOWN})
  BY DEF TypeOK
<1>2. \A o \in Posts : o # p => at'[o] = at[o]
  BY DEF TypeOK
<1>3. ASSUME NEW T, T \subseteq Posts \cup {SHUTDOWN}, NEW q \in Seq(T), NEW st,
             Line(q, at, st), at[p] # st
      PROVE  Line(q, at', st)
  <2>1. \A o \in T : o # SHUTDOWN /\ at[o] = st => at'[o] = st
    BY <1>2, <1>3
  <2> QED BY <1>3, <2>1, LineKept
<1>4. /\ Line(requests, at, "queued") /\ Line(apcs, at, "expired")
      /\ Line(port, at, "posted")
  BY DEF Lines
<1> QED BY <1>1, <1>3, <1>4

\* What a step makes of the lines and of the place of one request.
LinesNext ==
    /\ Line(requests', at', "queued")
    /\ Line(apcs', at', "expired")
    /\ Line(port', at', "posted")

\* The steps that move a request from one queue or place to the next.
LEMMA MoveLines ==
    ASSUME TypeOK, Lines, NEW p \in Posts,
           CheckClosed(p) \/ Posting(p) \/ Expire(p)
    PROVE  LinesNext
<1>1. CASE CheckClosed(p) \/ add_inflight_timer(p) \/ BeginPush(p)
  <2>1. /\ at[p] \in {"idle", "checked", "counted"} /\ UNCHANGED <<requests, apcs, port>>
        /\ \E v \in {"denied", "checked", "counted", "pushing"} :
              at' = [at EXCEPT ![p] = v]
    BY <1>1 DEF CheckClosed, add_inflight_timer, BeginPush
  <2> QED BY <2>1, OtherLines DEF LinesNext
<1>2. CASE Push(p)
  <2>1. /\ at[p] = "pushing" /\ at' = [at EXCEPT ![p] = "queued"]
        /\ requests' = Append(requests, p) /\ UNCHANGED <<apcs, port>>
    BY <1>2 DEF Push
  <2>2. requests \in Seq(Posts) /\ at'[p] = "queued"
        /\ \A o \in Posts : o # p => at'[o] = at[o]
    BY <2>1 DEF TypeOK
  <2>3. Line(requests, at, "queued") /\ at[p] # "queued"
    BY <2>1 DEF Lines
  <2>4. Line(Append(requests, p), at', "queued")
    BY <2>2, <2>3, LineAppend
  <2>5. Line(apcs, at', "expired") /\ Line(port, at', "posted")
    BY <2>1, OtherLines
  <2> QED BY <2>1, <2>4, <2>5 DEF LinesNext
<1>3. CASE Expire(p)
  <2>1. /\ at[p] = "armed" /\ at' = [at EXCEPT ![p] = "expired"]
        /\ apcs' = Append(apcs, p) /\ UNCHANGED <<requests, port>>
    BY <1>3 DEF Expire
  <2>2. /\ apcs \in Seq(Posts \cup {SHUTDOWN}) /\ p \in Posts \cup {SHUTDOWN}
        /\ at'[p] = "expired"
    BY <2>1 DEF TypeOK
  <2>3. Line(apcs, at, "expired") /\ at[p] # "expired"
    BY <2>1 DEF Lines
  <2>4. \A o \in Posts \cup {SHUTDOWN} : o # p /\ o # SHUTDOWN => at'[o] = at[o]
    BY <2>1 DEF TypeOK
  <2>5. Line(Append(apcs, p), at', "expired")
    BY <2>2, <2>3, <2>4, LineAppend
  <2>6. Line(requests, at', "queued") /\ Line(port, at', "posted")
    BY <2>1, OtherLines
  <2> QED BY <2>1, <2>5, <2>6 DEF LinesNext
<1> QED BY <1>1, <1>2, <1>3 DEF Posting

WorkerPlaces == {"locking", "testing", "waiting", "draining", "trying", "checking",
                 "sleeping", "exited", "undefined"}

\* The steps in which the worker moves and nothing else does.
WorkerMoves ==
    /\ worker' \in WorkerPlaces
    /\ worker' = "exited" => ~(inflight > 0)
    /\ UNCHANGED <<closed, count, base, inflight, requests, apcs, port, at, reactor,
                   seen, req, caller, quiet>>

\* With the mutex or without, the worker arms what it pops, or moves on.
LEMMA WorkerCases ==
    ASSUME Worker
    PROVE  WorkerMoves \/ \E next \in {"locking", "draining"} : Arm(next)
<1>1. ASSUME NEW next \in {"locking", "waiting", "checking"}, FindEmpty(next)
      PROVE  WorkerMoves
  BY <1>1 DEF FindEmpty, WorkerMoves, WorkerPlaces, word, reactorVars
<1>2. CASE pop \/ PopUnlocked \/ try_pop \/ TryPopUnlocked
  BY <1>1, <1>2 DEF pop, PopUnlocked, try_pop, TryPopUnlocked
<1>3. CASE Wake \/ CheckInflight \/ Race
  BY <1>3 DEF Wake, CheckInflight, Race, WorkerMoves, WorkerPlaces, word, reactorVars
<1> QED BY <1>2, <1>3 DEF Worker

\* A wait that returns leads the worker to one of its places, and never out.
LEMMA ReturnsInside ==
    ASSUME worker \in WorkerPlaces, Alertable
    PROVE  AfterApc \in WorkerPlaces \ {"exited"}
BY DEF Alertable, AfterApc, Returned, WorkerPlaces

\* The worker takes the head of the queue, or of its APCs.
LEMMA WorkerLines ==
    ASSUME TypeOK, Lines, Worker \/ Apc
    PROVE  LinesNext
<1>0. /\ Line(requests, at, "queued") /\ Line(apcs, at, "expired")
      /\ Line(port, at, "posted")
      /\ requests \in Seq(Posts) /\ at \in [Posts -> Places]
      /\ apcs \in Seq(Posts \cup {SHUTDOWN}) /\ port \in Seq(Posts \cup {SHUTDOWN})
  BY DEF Lines, TypeOK, Places, Inflight
<1>1. CASE \E next \in {"locking", "draining"} : Arm(next)
  <2>1. /\ requests # <<>> /\ requests' = Tail(requests)
        /\ at' = [at EXCEPT ![Head(requests)] = "armed"] /\ UNCHANGED <<apcs, port>>
    BY <1>1 DEF Arm
  <2>2. Head(requests) \in Posts /\ at[Head(requests)] = "queued"
    <3>1. /\ Head(requests) \in Posts
          /\ Head(requests) # SHUTDOWN => at[Head(requests)] = "queued"
      BY <1>0, <2>1, LineHead
    <3> QED BY <3>1, TimerAssumption
  <2>3. \A o \in Posts : o # Head(requests) /\ o # SHUTDOWN => at'[o] = at[o]
    BY <1>0, <2>1
  <2>4. Line(Tail(requests), at', "queued")
    BY <1>0, <2>1, <2>3, LineTail
  <2>5. Line(apcs, at', "expired") /\ Line(port, at', "posted")
    BY <2>1, <2>2, OtherLines
  <2> QED BY <2>1, <2>4, <2>5 DEF LinesNext
<1>2. CASE WorkerMoves
  BY <1>0, <1>2 DEF WorkerMoves, LinesNext
<1>3. CASE on_timer_expiration
  <2>1. /\ apcs # <<>> /\ Head(apcs) # SHUTDOWN /\ apcs' = Tail(apcs)
        /\ port' = Append(port, Head(apcs))
        /\ at' = [at EXCEPT ![Head(apcs)] = "posted"] /\ UNCHANGED requests
    BY <1>3 DEF on_timer_expiration
  <2>2. Head(apcs) \in Posts /\ at[Head(apcs)] = "expired"
    <3>1. /\ Head(apcs) \in Posts \cup {SHUTDOWN}
          /\ Head(apcs) # SHUTDOWN => at[Head(apcs)] = "expired"
      BY <1>0, <2>1, LineHead
    <3> QED BY <2>1, <3>1
  <2>3. /\ at'[Head(apcs)] = "posted"
        /\ \A o \in Posts \cup {SHUTDOWN} : o # Head(apcs) /\ o # SHUTDOWN => at'[o] = at[o]
    BY <1>0, <2>1, <2>2
  <2>4. Line(Tail(apcs), at', "expired")
    BY <1>0, <2>1, <2>3, LineTail
  <2>5. Line(Append(port, Head(apcs)), at', "posted")
    <3>1. Head(apcs) \in Posts \cup {SHUTDOWN} /\ at[Head(apcs)] # "posted"
      BY <2>2
    <3> QED BY <1>0, <2>3, <3>1, LineAppend
  <2>6. Line(requests, at', "queued")
    BY <2>1, <2>2, OtherLines
  <2> QED BY <2>1, <2>4, <2>5, <2>6 DEF LinesNext
<1>4. CASE BeginDrain
  <2>1. apcs # <<>> /\ apcs' = Tail(apcs) /\ UNCHANGED <<requests, port, at>>
    BY <1>4 DEF BeginDrain
  <2>2. Line(Tail(apcs), at, "expired")
    BY <1>0, <2>1, LineTail
  <2> QED BY <1>0, <2>1, <2>2 DEF LinesNext
<1> QED BY <1>1, <1>2, <1>3, <1>4, WorkerCases DEF Apc

\* A reactor takes the head of the port, and has the request until it is done.
LEMMA ReactorLines ==
    ASSUME TypeOK, Lines, Handled, NEW r \in Reactors, Enter(r) \/ Reactor(r)
    PROVE  LinesNext
<1>0. /\ Line(requests, at, "queued") /\ Line(apcs, at, "expired")
      /\ Line(port, at, "posted")
      /\ port \in Seq(Posts \cup {SHUTDOWN}) /\ at \in [Posts -> Places]
  BY DEF Lines, TypeOK, Places, Inflight
<1>1. CASE Enter(r) \/ Refuse(r) \/ CasSucceeds(r) \/ CasFails(r) \/ leave_reactor(r)
  BY <1>0, <1>1 DEF Enter, Refuse, CasSucceeds, CasFails, leave_reactor, LinesNext
<1>2. CASE Dequeue(r) /\ Head(port) = SHUTDOWN
  <2>1. port # <<>> /\ port' = Tail(port) /\ UNCHANGED <<requests, apcs, at>>
    BY <1>2 DEF Dequeue
  <2>2. Line(Tail(port), at, "posted")
    BY <1>0, <2>1, LineTail
  <2> QED BY <1>0, <2>1, <2>2 DEF LinesNext
<1>3. CASE Dequeue(r) /\ Head(port) # SHUTDOWN
  <2>1. /\ port # <<>> /\ port' = Tail(port) /\ UNCHANGED <<requests, apcs>>
        /\ at' = [at EXCEPT ![Head(port)] = "dequeued"]
    BY <1>3 DEF Dequeue
  <2>2. Head(port) \in Posts /\ at[Head(port)] = "posted"
    <3>1. /\ Head(port) \in Posts \cup {SHUTDOWN}
          /\ Head(port) # SHUTDOWN => at[Head(port)] = "posted"
      BY <1>0, <2>1, LineHead
    <3> QED BY <1>3, <3>1
  <2>3. \A o \in Posts \cup {SHUTDOWN} : o # Head(port) /\ o # SHUTDOWN => at'[o] = at[o]
    BY <1>0, <2>1
  <2>4. Line(Tail(port), at', "posted")
    BY <1>0, <2>1, <2>3, LineTail
  <2>5. Line(requests, at', "queued") /\ Line(apcs, at', "expired")
    BY <2>1, <2>2, OtherLines
  <2> QED BY <2>1, <2>4, <2>5 DEF LinesNext
<1>4. CASE remove_inflight_timer(r) \/ EndHandler(r)
  <2>1. /\ req[r] \in Posts /\ at[req[r]] \in {"dequeued", "handling"}
        /\ \E v \in {"handling", "done"} : at' = [at EXCEPT ![req[r]] = v]
        /\ UNCHANGED <<requests, apcs, port>>
    BY <1>4 DEF remove_inflight_timer, EndHandler, Handled
  <2> QED BY <2>1, OtherLines DEF LinesNext
<1> QED BY <1>1, <1>2, <1>3, <1>4 DEF Reactor

\* shutdown() queues its APC, and its keys at the end.
LEMMA CloserLines ==
    ASSUME TypeOK, Lines, NEW c \in Callers, Close(c) \/ Closing(c)
    PROVE  LinesNext /\ apcs' \in Seq(Posts \cup {SHUTDOWN})
                     /\ port' \in Seq(Posts \cup {SHUTDOWN})
<1>0. /\ Line(requests, at, "queued") /\ Line(apcs, at, "expired")
      /\ Line(port, at, "posted")
      /\ apcs \in Seq(Posts \cup {SHUTDOWN}) /\ port \in Seq(Posts \cup {SHUTDOWN})
      /\ SHUTDOWN \in Posts \cup {SHUTDOWN}
  BY DEF Lines, TypeOK
<1>1. CASE Close(c)
  BY <1>0, <1>1 DEF Close, LinesNext
<1>2. CASE QueueApc(c)
  <2>1. apcs' = Append(apcs, SHUTDOWN) /\ UNCHANGED <<requests, port, at>>
    BY <1>2 DEF QueueApc
  <2>2. /\ Line(Append(apcs, SHUTDOWN), at, "expired")
        /\ Append(apcs, SHUTDOWN) \in Seq(Posts \cup {SHUTDOWN})
    BY <1>0, LineAppend
  <2> QED BY <1>0, <2>1, <2>2 DEF LinesNext
<1>3. CASE PostKeys(c)
  <2> DEFINE k == 2 * count + 1
             d == [n \in 1..k |-> SHUTDOWN]
             T == Posts \cup {SHUTDOWN}
  <2>1. port' = port \o d /\ UNCHANGED <<requests, apcs, at>>
    BY <1>3 DEF PostKeys
  <2>2. k \in Nat
    BY TimerAssumption DEF TypeOK
  <2> HIDE DEF k
  <2>3. d \in Seq(T) /\ Len(d) = k /\ \A n \in 1..k : d[n] = SHUTDOWN
    <3>1. d \in Seq(T)
      BY <2>2, IsASeq
    <3> QED BY <2>2, <3>1, LenProperties
  <2> HIDE DEF d, T
  <2>4. port \o d \in Seq(T) /\ Line(port \o d, at, "posted")
    <3>1. SHUTDOWN \in T /\ port \in Seq(T)
      BY <1>0 DEF T
    <3> QED BY <1>0, <2>2, <2>3, <3>1, LineKeys
  <2> QED BY <1>0, <2>1, <2>4 DEF LinesNext, T
<1> QED BY <1>1, <1>2, <1>3 DEF Closing

\* Every request stays in one line.
LEMMA LinesStep == TypeOK /\ Lines /\ Handled /\ [Next]_vars => Lines'
<1> SUFFICES ASSUME TypeOK, Lines, Handled, [Next]_vars PROVE LinesNext
  BY DEF Lines, LinesNext, Line
<1>1. CASE UNCHANGED vars
  BY <1>1 DEF vars, Lines, LinesNext
<1>2. CASE \E p \in Posts : CheckClosed(p) \/ Posting(p) \/ Expire(p)
  BY <1>2, MoveLines
<1>3. CASE Worker \/ Apc
  BY <1>3, WorkerLines
<1>4. CASE \E r \in Reactors : Enter(r) \/ Reactor(r)
  BY <1>4, ReactorLines
<1>5. CASE \E c \in Callers : Close(c) \/ Closing(c)
  BY <1>5, CloserLines
<1> QED BY <1>1, <1>2, <1>3, <1>4, <1>5 DEF Next

\* The steps of those who have no request in hand: they take none that a reactor has.
LEMMA HandledKept ==
    ASSUME TypeOK, Handled, UNCHANGED <<reactor, req>>,
           at' = at \/ \E p \in Posts : \E v :
              at[p] \notin {"dequeued", "handling"} /\ at' = [at EXCEPT ![p] = v]
    PROVE  Handled'
<1>1. \A o \in Posts : at[o] \in {"dequeued", "handling"} => at'[o] = at[o]
  BY DEF TypeOK
<1> QED BY <1>1 DEF Handled

\* A request is handled by one reactor.
LEMMA HandledStep == TypeOK /\ Lines /\ Handled /\ [Next]_vars => Handled'
<1> SUFFICES ASSUME TypeOK, Lines, Handled, [Next]_vars PROVE Handled'
  OBVIOUS
<1>0. /\ Line(requests, at, "queued") /\ Line(apcs, at, "expired")
      /\ Line(port, at, "posted")
      /\ requests \in Seq(Posts) /\ at \in [Posts -> Places]
      /\ apcs \in Seq(Posts \cup {SHUTDOWN}) /\ port \in Seq(Posts \cup {SHUTDOWN})
      /\ reactor \in [Reactors -> {"outside", "trying", "waiting", "removing",
                                   "handling", "leaving", "left", "refused"}]
      /\ req \in [Reactors -> Posts \cup {SHUTDOWN}]
  BY DEF Lines, TypeOK, Places, Inflight
<1>1. CASE \E p \in Posts : CheckClosed(p) \/ Posting(p) \/ Expire(p)
  <2>1. PICK p \in Posts : CheckClosed(p) \/ Posting(p) \/ Expire(p)
    BY <1>1
  <2>2. /\ UNCHANGED <<reactor, req>> /\ at[p] \notin {"dequeued", "handling"}
        /\ \E v : at' = [at EXCEPT ![p] = v]
    BY <2>1 DEF CheckClosed, Posting, add_inflight_timer, BeginPush, Push, Expire,
       reactorVars
  <2> QED BY <2>2, HandledKept
<1>2. CASE Worker \/ Apc
  <2>1. CASE \E next \in {"locking", "draining"} : Arm(next)
    <3>1. /\ requests # <<>> /\ at' = [at EXCEPT ![Head(requests)] = "armed"]
          /\ UNCHANGED <<reactor, req>>
      BY <2>1 DEF Arm, reactorVars
    <3>2. /\ Head(requests) \in Posts
          /\ Head(requests) # SHUTDOWN => at[Head(requests)] = "queued"
      BY <1>0, <3>1, LineHead
    <3> QED BY <3>1, <3>2, TimerAssumption, HandledKept
  <2>2. CASE on_timer_expiration
    <3>1. /\ apcs # <<>> /\ at' = [at EXCEPT ![Head(apcs)] = "posted"]
          /\ Head(apcs) # SHUTDOWN /\ UNCHANGED <<reactor, req>>
      BY <2>2 DEF on_timer_expiration, reactorVars
    <3>2. /\ Head(apcs) \in Posts \cup {SHUTDOWN}
          /\ Head(apcs) # SHUTDOWN => at[Head(apcs)] = "expired"
      BY <1>0, <3>1, LineHead
    <3> QED BY <3>1, <3>2, HandledKept
  <2>3. CASE WorkerMoves \/ BeginDrain
    BY <2>3, HandledKept DEF WorkerMoves, BeginDrain, reactorVars
  <2> QED BY <1>2, <2>1, <2>2, <2>3, WorkerCases DEF Apc
<1>3. ASSUME NEW r \in Reactors, Enter(r) \/ Reactor(r) PROVE Handled'
  <2>1. CASE Enter(r) \/ Refuse(r) \/ CasSucceeds(r) \/ CasFails(r) \/ leave_reactor(r)
    <3>1. /\ UNCHANGED <<at, req>>
          /\ reactor' = reactor \/ \E v \in {"trying", "refused", "waiting", "left"} :
                                      reactor' = [reactor EXCEPT ![r] = v]
      BY <2>1 DEF Enter, Refuse, CasSucceeds, CasFails, leave_reactor, reactorVars
    <3> QED BY <1>0, <3>1, SMTT(30) DEF Handled
  <2>2. CASE Dequeue(r) /\ Head(port) = SHUTDOWN
    <3>1. UNCHANGED <<at, req>> /\ reactor' = [reactor EXCEPT ![r] = "leaving"]
      BY <2>2 DEF Dequeue
    <3> QED BY <1>0, <3>1 DEF Handled
  <2>3. CASE Dequeue(r) /\ Head(port) # SHUTDOWN
    <3> DEFINE p == Head(port)
    <3>1. /\ port # <<>> /\ at' = [at EXCEPT ![p] = "dequeued"]
          /\ reactor' = [reactor EXCEPT ![r] = "removing"]
          /\ req' = [req EXCEPT ![r] = p]
      BY <2>3 DEF Dequeue
    <3>2. p \in Posts \cup {SHUTDOWN} /\ (p # SHUTDOWN => at[p] = "posted")
      BY <1>0, <3>1, LineHead
    <3>3. p \in Posts /\ at[p] = "posted"
      BY <2>3, <3>2
    <3> HIDE DEF p
    <3>4. /\ \A o \in Posts : at[o] \in {"dequeued", "handling"} => at'[o] = at[o]
          /\ at'[p] = "dequeued" /\ req'[r] = p /\ reactor'[r] = "removing"
          /\ \A s \in Reactors \ {r} : req'[s] = req[s] /\ reactor'[s] = reactor[s]
      BY <1>0, <3>1, <3>3
    <3>5. \A s \in Reactors : reactor[s] \in {"removing", "handling"} => req[s] # p
      BY <3>3 DEF Handled
    <3> QED BY <3>3, <3>4, <3>5 DEF Handled
  <2>4. CASE remove_inflight_timer(r) \/ EndHandler(r)
    <3> DEFINE p == req[r]
    <3>1. /\ p \in Posts /\ reactor[r] \in {"removing", "handling"}
          /\ \/ /\ at' = [at EXCEPT ![p] = "handling"]
                /\ reactor' = [reactor EXCEPT ![r] = "handling"] /\ req' = req
             \/ /\ \E v : at' = [at EXCEPT ![p] = v]
                /\ reactor' = [reactor EXCEPT ![r] = "waiting"]
                /\ req' = [req EXCEPT ![r] = SHUTDOWN]
      BY <2>4 DEF remove_inflight_timer, EndHandler, Handled
    <3>2. \A s \in Reactors \ {r} : reactor[s] \in {"removing", "handling"} => req[s] # p
      BY <3>1 DEF Handled
    <3> HIDE DEF p
    <3>3. /\ \A o \in Posts \ {p} : at'[o] = at[o]
          /\ \A s \in Reactors \ {r} : req'[s] = req[s] /\ reactor'[s] = reactor[s]
          /\ \/ reactor'[r] = "handling" /\ req'[r] = p /\ at'[p] = "handling"
             \/ reactor'[r] = "waiting"
      BY <1>0, <3>1 DEF p
    <3> QED BY <3>1, <3>2, <3>3 DEF Handled
  <2> QED BY <1>3, <2>1, <2>2, <2>3, <2>4 DEF Reactor
<1>4. CASE \E c \in Callers : Close(c) \/ Closing(c)
  BY <1>4, HandledKept DEF Close, Closing, QueueApc, PostKeys, reactorVars
<1>5. CASE UNCHANGED vars
  BY <1>5, HandledKept DEF vars, reactorVars
<1> QED BY <1>1, <1>2, <1>3, <1>4, <1>5 DEF Next

-----------------------------------------------------------------------------
(***************************************************************************)
(* The count, and what the worker makes of it.                             *)
(***************************************************************************)

\* The head of each queue, when it is a request, is in the place of that queue.
LEMMA Heads ==
    ASSUME TypeOK, Lines
    PROVE  /\ requests # <<>> =>
                Head(requests) \in Posts /\ at[Head(requests)] = "queued"
           /\ apcs # <<>> /\ Head(apcs) # SHUTDOWN =>
                Head(apcs) \in Posts /\ at[Head(apcs)] = "expired"
           /\ port # <<>> /\ Head(port) # SHUTDOWN =>
                Head(port) \in Posts /\ at[Head(port)] = "posted"
<1>0. /\ Line(requests, at, "queued") /\ Line(apcs, at, "expired")
      /\ Line(port, at, "posted") /\ requests \in Seq(Posts)
      /\ apcs \in Seq(Posts \cup {SHUTDOWN}) /\ port \in Seq(Posts \cup {SHUTDOWN})
  BY DEF Lines, TypeOK
<1>1. requests # <<>> => /\ Head(requests) \in Posts
                         /\ Head(requests) # SHUTDOWN => at[Head(requests)] = "queued"
  BY <1>0, LineHead
<1>2. apcs # <<>> => /\ Head(apcs) \in Posts \cup {SHUTDOWN}
                     /\ Head(apcs) # SHUTDOWN => at[Head(apcs)] = "expired"
  BY <1>0, LineHead
<1>3. port # <<>> => /\ Head(port) \in Posts \cup {SHUTDOWN}
                     /\ Head(port) # SHUTDOWN => at[Head(port)] = "posted"
  BY <1>0, LineHead
<1> QED BY <1>1, <1>2, <1>3, TimerAssumption

\* What one step may do to the places and to the count.
LEMMA OneMoves ==
    ASSUME TypeOK, Lines, Handled, [Next]_vars
    PROVE  \/ UNCHANGED <<at, inflight, base>>
           \/ /\ base' = base
              /\ \E p \in Posts : \E v \in Places :
                    /\ at' = [at EXCEPT ![p] = v]
                    /\ \/ /\ inflight' = inflight
                          /\ at[p] \in Inflight <=> v \in Inflight
                       \/ /\ inflight' = (inflight + 1) % InflightModulus
                          /\ at[p] \notin Inflight /\ v \in Inflight
                       \/ /\ inflight' = (inflight + InflightModulus - 1) % InflightModulus
                          /\ at[p] \in Inflight /\ v \notin Inflight
<1> USE DEF Places, Inflight
<1>1. CASE \E p \in Posts : CheckClosed(p) \/ Posting(p) \/ Expire(p)
  BY <1>1 DEF CheckClosed, Posting, add_inflight_timer, BeginPush, Push, Expire
<1>2. CASE Worker \/ Apc
  <2>1. CASE \E next \in {"locking", "draining"} : Arm(next)
    BY <2>1, Heads DEF Arm
  <2>2. CASE on_timer_expiration
    BY <2>2, Heads DEF on_timer_expiration
  <2>3. CASE WorkerMoves \/ BeginDrain
    BY <2>3 DEF WorkerMoves, BeginDrain
  <2> QED BY <1>2, <2>1, <2>2, <2>3, WorkerCases DEF Apc
<1>3. ASSUME NEW r \in Reactors, Enter(r) \/ Reactor(r)
      PROVE  \/ UNCHANGED <<at, inflight, base>>
             \/ /\ base' = base
                /\ \E p \in Posts : \E v \in Places :
                      /\ at' = [at EXCEPT ![p] = v]
                      /\ \/ /\ inflight' = inflight
                            /\ at[p] \in Inflight <=> v \in Inflight
                         \/ /\ inflight' = (inflight + InflightModulus - 1) % InflightModulus
                            /\ at[p] \in Inflight /\ v \notin Inflight
  <2>1. CASE Enter(r) \/ Refuse(r) \/ CasSucceeds(r) \/ CasFails(r) \/ leave_reactor(r)
    BY <2>1 DEF Enter, Refuse, CasSucceeds, CasFails, leave_reactor
  <2>2. CASE Dequeue(r)
    BY <2>2, Heads DEF Dequeue
  <2>3. CASE remove_inflight_timer(r) \/ EndHandler(r)
    BY <2>3 DEF remove_inflight_timer, EndHandler, Handled
  <2> QED BY <1>3, <2>1, <2>2, <2>3 DEF Reactor
<1>4. CASE \E c \in Callers : Close(c) \/ Closing(c)
  BY <1>4 DEF Close, Closing, QueueApc, PostKeys
<1>5. CASE UNCHANGED vars
  BY <1>5 DEF vars
<1> HIDE DEF Places, Inflight
<1> QED BY <1>1, <1>2, <1>3, <1>4, <1>5 DEF Next

\* n_inflight_timers stays exact: a step moves one request, and counts it when it
\* enters or leaves the places that are counted.
LEMMA CountStep == IInv /\ [Next]_vars => InflightIsExact'
<1> SUFFICES ASSUME IInv, [Next]_vars PROVE InflightIsExact'
  OBVIOUS
<1>0. /\ TypeOK /\ Lines /\ Handled
      /\ inflight = (base + Cardinality(CountedSet)) % InflightModulus
  BY ExactByCounted DEF IInv, ServedUntilIdle
<1>1. inflight' = (base' + Cardinality(CountedSet')) % InflightModulus
  <2>1. CASE UNCHANGED <<at, inflight, base>>
    BY <1>0, <2>1 DEF CountedSet
  <2>2. CASE ~UNCHANGED <<at, inflight, base>>
    <3>1. PICK p \in Posts : \E v \in Places :
                    /\ at' = [at EXCEPT ![p] = v] /\ base' = base
                    /\ \/ /\ inflight' = inflight
                          /\ at[p] \in Inflight <=> v \in Inflight
                       \/ /\ inflight' = (inflight + 1) % InflightModulus
                          /\ at[p] \notin Inflight /\ v \in Inflight
                       \/ /\ inflight' = (inflight + InflightModulus - 1) % InflightModulus
                          /\ at[p] \in Inflight /\ v \notin Inflight
      BY <1>0, <2>2, OneMoves
    <3>2. /\ base \in 0..(InflightModulus - 1) /\ Cardinality(CountedSet) \in Nat
          /\ Cardinality(CountedSet) < InflightModulus
          /\ Cardinality(CountedSet') \in Nat /\ Cardinality(CountedSet') < InflightModulus
      <4>1. /\ Cardinality(CountedSet') \in Nat
            /\ Cardinality(CountedSet') <= Cardinality(Posts)
        <5>1. CountedSet' \subseteq Posts
          BY DEF CountedSet
        <5> QED BY <5>1, TimerAssumption, FS_Subset, FS_CardinalityType
      <4> QED BY <1>0, <4>1, CountedFinite, TimerAssumption DEF TypeOK
    <3>3. PICK v \in Places :
                    /\ at' = [at EXCEPT ![p] = v] /\ base' = base
                    /\ \/ /\ inflight' = inflight
                          /\ at[p] \in Inflight <=> v \in Inflight
                       \/ /\ inflight' = (inflight + 1) % InflightModulus
                          /\ at[p] \notin Inflight /\ v \in Inflight
                       \/ /\ inflight' = (inflight + InflightModulus - 1) % InflightModulus
                          /\ at[p] \in Inflight /\ v \notin Inflight
      BY <3>1
    <3>4. /\ at[p] \in Inflight /\ v \in Inflight =>
               Cardinality(CountedSet') = Cardinality(CountedSet)
          /\ at[p] \notin Inflight /\ v \notin Inflight =>
               Cardinality(CountedSet') = Cardinality(CountedSet)
          /\ at[p] \notin Inflight /\ v \in Inflight =>
               Cardinality(CountedSet') = Cardinality(CountedSet) + 1
          /\ at[p] \in Inflight /\ v \notin Inflight =>
               Cardinality(CountedSet') = Cardinality(CountedSet) - 1
      BY <1>0, <3>3, CountedMove
    <3>5. \A k \in Nat : k < InflightModulus =>
             /\ k + 1 < InflightModulus =>
                  (((base + k) % InflightModulus) + 1) % InflightModulus
                     = (base + (k + 1)) % InflightModulus
             /\ k > 0 =>
                  (((base + k) % InflightModulus) + InflightModulus - 1) % InflightModulus
                     = (base + (k - 1)) % InflightModulus
      BY <3>2, InflightWraps
    <3> PICK C, D : C = Cardinality(CountedSet) /\ D = Cardinality(CountedSet')
      OBVIOUS
    <3>6. CASE inflight' = inflight /\ (at[p] \in Inflight <=> v \in Inflight)
      BY <1>0, <3>3, <3>4, <3>6
    <3>7. CASE at[p] \notin Inflight /\ v \in Inflight
      <4>1. D = C + 1 /\ inflight' = (inflight + 1) % InflightModulus
        BY <3>3, <3>4, <3>7
      <4>2. C \in Nat /\ C < InflightModulus /\ C + 1 < InflightModulus
        BY <3>2, <4>1
      <4>3. (((base + C) % InflightModulus) + 1) % InflightModulus
               = (base + (C + 1)) % InflightModulus
        BY <3>5, <4>2
      <4> QED BY <1>0, <3>3, <4>1, <4>3
    <3>8. CASE at[p] \in Inflight /\ v \notin Inflight
      <4>1. D = C - 1 /\ inflight' = (inflight + InflightModulus - 1) % InflightModulus
        BY <3>3, <3>4, <3>8
      <4>2. C \in Nat /\ C < InflightModulus /\ C > 0
        BY <3>2, <4>1
      <4>3. (((base + C) % InflightModulus) + InflightModulus - 1) % InflightModulus
               = (base + (C - 1)) % InflightModulus
        BY <3>5, <4>2
      <4> QED BY <1>0, <3>3, <4>1, <4>3
    <3> QED BY <3>3, <3>6, <3>7, <3>8
  <2> QED BY <2>1, <2>2
<1>2. {p \in Posts : Counted(p)}' = CountedSet'
  BY DEF Counted, CountedSet, Inflight
<1> QED BY <1>1, <1>2 DEF InflightIsExact

\* The worker exits when the count is zero, and what it does not arm afterwards
\* neither expires nor comes to a reactor.
LEMMA OutlivesStep == IInv /\ [Next]_vars => WorkerOutlivesTimers'
<1> SUFFICES ASSUME IInv, [Next]_vars PROVE WorkerOutlivesTimers'
  OBVIOUS
<1>0. /\ TypeOK /\ Lines /\ Handled /\ WorkerOutlivesTimers
      /\ inflight = (base + Cardinality(CountedSet)) % InflightModulus
      /\ (NoWrap)' = NoWrap
  <2>1. /\ TypeOK /\ Lines /\ Handled /\ WorkerOutlivesTimers
        /\ inflight = (base + Cardinality(CountedSet)) % InflightModulus
    BY ExactByCounted DEF IInv, ServedUntilIdle
  <2>2. base' = base
    BY <2>1, OneMoves
  <2> QED BY <2>1, <2>2 DEF NoWrap
<1> USE DEF WorkerOutlivesTimers
<1>1. CASE \E p \in Posts : CheckClosed(p) \/ Posting(p) \/ Expire(p)
  BY <1>0, <1>1 DEF TypeOK, CheckClosed, Posting, add_inflight_timer, BeginPush, Push,
     Expire
<1>2. CASE WorkerMoves
  <2>1. UNCHANGED at /\ (worker' = "exited" => ~(inflight > 0))
    BY <1>2 DEF WorkerMoves
  <2>2. /\ inflight \in Nat /\ base \in 0..(InflightModulus - 1)
        /\ Cardinality(CountedSet) \in Nat
        /\ Cardinality(CountedSet) <= Cardinality(Posts) /\ Cardinality(Posts) \in Nat
        /\ Cardinality(CountedSet) < InflightModulus
    BY <1>0, CountedFinite, TimerAssumption DEF TypeOK
  <2>3. NoWrap => base + Cardinality(CountedSet) < InflightModulus
    BY <2>2, TimerAssumption DEF NoWrap
  <2>4. NoWrap => inflight = base + Cardinality(CountedSet)
    BY <1>0, <2>2, <2>3, InflightWraps
  <2>5. worker' = "exited" /\ NoWrap => CountedSet = {}
    <3>1. worker' = "exited" /\ NoWrap => Cardinality(CountedSet) = 0
      BY <2>1, <2>2, <2>4
    <3> QED BY <3>1, CountedFinite, FS_EmptySet
  <2> QED BY <1>0, <2>1, <2>5 DEF CountedSet, Inflight
<1>3. CASE Apc \/ \E next \in {"locking", "draining"} : Arm(next)
  <2>1. worker' # "exited"
    <3>1. worker \in WorkerPlaces
      BY <1>0 DEF TypeOK, WorkerPlaces
    <3> QED BY <1>3, <3>1, ReturnsInside DEF Arm, Apc, on_timer_expiration, BeginDrain
  <2> QED BY <2>1
<1>4. ASSUME NEW r \in Reactors, Enter(r) \/ Reactor(r) PROVE WorkerOutlivesTimers'
  <2>1. CASE Enter(r) \/ Refuse(r) \/ CasSucceeds(r) \/ CasFails(r) \/ leave_reactor(r)
    BY <1>0, <2>1 DEF Enter, Refuse, CasSucceeds, CasFails, leave_reactor
  <2>2. CASE Dequeue(r)
    BY <1>0, <2>2, Heads DEF Dequeue, TypeOK
  <2>3. CASE remove_inflight_timer(r) \/ EndHandler(r)
    BY <1>0, <2>3 DEF remove_inflight_timer, EndHandler, Handled, TypeOK
  <2> QED BY <1>4, <2>1, <2>2, <2>3 DEF Reactor
<1>5. CASE \E c \in Callers : Close(c) \/ Closing(c)
  BY <1>0, <1>5 DEF Close, Closing, QueueApc, PostKeys
<1>6. CASE UNCHANGED vars
  BY <1>0, <1>6 DEF vars
<1> HIDE DEF WorkerOutlivesTimers
<1> QED BY <1>1, <1>2, <1>3, <1>4, <1>5, <1>6, WorkerCases DEF Next

-----------------------------------------------------------------------------
\* The count of reactors wraps around within its width.
LEMMA CountWraps ==
    ASSUME NEW k \in 0..(CountModulus - 1)
    PROVE  /\ (k + 1) % CountModulus \in 0..(CountModulus - 1)
           /\ (k + CountModulus - 1) % CountModulus \in 0..(CountModulus - 1)
BY TimerAssumption

\* The variables that do not count requests.
RestOK ==
    /\ closed \in BOOLEAN /\ count \in 0..(CountModulus - 1)
    /\ requests \in Seq(Posts)
    /\ apcs \in Seq(Posts \cup {SHUTDOWN}) /\ port \in Seq(Posts \cup {SHUTDOWN})
    /\ worker \in WorkerPlaces
    /\ reactor \in [Reactors -> {"outside", "trying", "waiting", "removing",
                                 "handling", "leaving", "left", "refused"}]
    /\ seen \in [Reactors -> BOOLEAN \X (0..(CountModulus - 1))]
    /\ req \in [Reactors -> Posts \cup {SHUTDOWN}]
    /\ caller \in [Callers -> {"out", "closed", "waiting", "returned"}]
    /\ quiet \in BOOLEAN

\* What `seen` holds between two loads.
LEMMA UnseenType == Unseen \in BOOLEAN \X (0..(CountModulus - 1))
<1>1. FALSE \in BOOLEAN /\ 0 \in 0..(CountModulus - 1)
  BY TimerAssumption
<1> QED BY <1>1 DEF Unseen

\* They keep their types.
LEMMA RestStep == TypeOK /\ Lines /\ Handled /\ [Next]_vars => RestOK'
<1> SUFFICES ASSUME TypeOK, Lines, Handled, [Next]_vars PROVE RestOK'
  OBVIOUS
<1>0. RestOK
  BY DEF TypeOK, RestOK, WorkerPlaces
<1> USE DEF RestOK, word, reactorVars
<1>1. ASSUME NEW p \in Posts, CheckClosed(p) \/ Posting(p) \/ Expire(p) PROVE RestOK'
  <2>1. CASE CheckClosed(p) \/ add_inflight_timer(p) \/ BeginPush(p)
    BY <1>0, <2>1 DEF CheckClosed, add_inflight_timer, BeginPush
  <2>2. CASE Push(p)
    BY <1>0, <2>2, AppendProperties DEF Push
  <2>3. CASE Expire(p)
    BY <1>0, <2>3, AppendProperties DEF Expire
  <2> QED BY <1>1, <2>1, <2>2, <2>3 DEF Posting
<1>2. CASE Worker \/ Apc
  <2>1. CASE \E next \in {"locking", "draining"} : Arm(next)
    <3>1. requests # <<>> /\ requests' = Tail(requests)
      BY <2>1 DEF Arm
    <3>2. requests' \in Seq(Posts)
      BY <1>0, <3>1, HeadTailProperties
    <3> QED BY <1>0, <2>1, <3>2 DEF Arm, WorkerPlaces
  <2>2. CASE on_timer_expiration
    <3>1. worker' \in WorkerPlaces
      BY <1>0, <2>2, ReturnsInside DEF on_timer_expiration
    <3> QED BY <1>0, <2>2, <3>1, HeadTailProperties, AppendProperties
            DEF on_timer_expiration
  <2>3. CASE BeginDrain
    BY <1>0, <2>3, HeadTailProperties DEF BeginDrain, WorkerPlaces
  <2>4. CASE WorkerMoves
    BY <1>0, <2>4 DEF WorkerMoves
  <2> QED BY <1>2, <2>1, <2>2, <2>3, <2>4, WorkerCases DEF Apc
<1>3. ASSUME NEW r \in Reactors, Enter(r) \/ Reactor(r) PROVE RestOK'
  <2>1. CASE Enter(r)
    BY <1>0, <2>1 DEF Enter
  <2>2. CASE Refuse(r) \/ CasFails(r)
    BY <1>0, <2>2, UnseenType, ZenonT(60) DEF Refuse, CasFails
  <2>3. CASE CasSucceeds(r)
    BY <1>0, <2>3, CountWraps DEF CasSucceeds
  <2>4. CASE Dequeue(r)
    <3>1. port # <<>> /\ port' = Tail(port)
      BY <2>4 DEF Dequeue
    <3>2. port' \in Seq(Posts \cup {SHUTDOWN}) /\ Head(port) \in Posts \cup {SHUTDOWN}
      BY <1>0, <3>1, HeadTailProperties
    <3>3. /\ reactor' \in [Reactors -> {"outside", "trying", "waiting", "removing",
                                        "handling", "leaving", "left", "refused"}]
          /\ req' \in [Reactors -> Posts \cup {SHUTDOWN}]
      BY <1>0, <2>4, <3>2 DEF Dequeue
    <3> QED BY <1>0, <2>4, <3>2, <3>3 DEF Dequeue
  <2>5. CASE remove_inflight_timer(r) \/ EndHandler(r)
    BY <1>0, <2>5 DEF remove_inflight_timer, EndHandler
  <2>6. CASE leave_reactor(r)
    BY <1>0, <2>6, CountWraps DEF leave_reactor
  <2> QED BY <1>3, <2>1, <2>2, <2>3, <2>4, <2>5, <2>6 DEF Reactor
<1>4. ASSUME NEW c \in Callers, Close(c) \/ Closing(c) PROVE RestOK'
  <2>1. CASE Close(c)
    BY <1>0, <2>1 DEF Close
  <2>2. CASE QueueApc(c) \/ PostKeys(c)
    <3>1. /\ apcs' \in Seq(Posts \cup {SHUTDOWN})
          /\ port' \in Seq(Posts \cup {SHUTDOWN})
      BY <2>2, CloserLines DEF Closing
    <3> QED BY <1>0, <2>2, <3>1 DEF QueueApc, PostKeys
  <2> QED BY <1>4, <2>1, <2>2 DEF Closing
<1>5. CASE UNCHANGED vars
  BY <1>0, <1>5 DEF vars
<1> QED BY <1>1, <1>2, <1>3, <1>4, <1>5 DEF Next

\* Every variable keeps its type, n_inflight_timers within its width.
LEMMA TypeStep == IInv /\ [Next]_vars => TypeOK'
<1> SUFFICES ASSUME IInv, [Next]_vars PROVE TypeOK'
  OBVIOUS
<1>0. TypeOK /\ Lines /\ Handled
  BY DEF IInv, ServedUntilIdle
<1>1. base' = base /\ inflight' \in 0..(InflightModulus - 1)
  <2>1. base' = base /\ base \in 0..(InflightModulus - 1)
    BY <1>0, OneMoves, TimerAssumption DEF TypeOK
  <2>2. inflight' = (base' + Cardinality({p \in Posts : Counted(p)}')) % InflightModulus
    BY CountStep DEF InflightIsExact
  <2>3. /\ Cardinality({p \in Posts : Counted(p)}') \in Nat
        /\ Cardinality({p \in Posts : Counted(p)}') < InflightModulus
    <3>1. {p \in Posts : Counted(p)}' \subseteq Posts
      OBVIOUS
    <3> QED BY <3>1, TimerAssumption, FS_Subset, FS_CardinalityType
  <2> QED BY <2>1, <2>2, <2>3, InflightWraps
<1>2. at' \in [Posts -> Places]
  BY <1>0, OneMoves DEF TypeOK, Places, Inflight
<1>3. RestOK'
  BY <1>0, RestStep
<1> QED BY <1>0, <1>1, <1>2, <1>3 DEF TypeOK, RestOK, Places, Inflight, WorkerPlaces

-----------------------------------------------------------------------------
\* At the start nothing is posted, and the count is what the constructor left.
LEMMA InitInv == Init => IInv
<1> SUFFICES ASSUME Init PROVE IInv
  OBVIOUS
<1>1. CountedSet = {}
  BY DEF Init, CountedSet, Inflight
<1>2. InflightIsExact
  <2>1. inflight = base /\ base \in 0..(InflightModulus - 1)
    BY TimerAssumption DEF Init
  <2>2. Cardinality(CountedSet) = 0
    BY <1>1, FS_EmptySet
  <2>3. inflight = (base + 0) % InflightModulus
    <3>1. InflightModulus \in Nat /\ 0 < InflightModulus
      BY TimerAssumption
    <3>2. base + 0 < InflightModulus
      BY <2>1, <3>1
    <3>3. (base + 0) % InflightModulus = base + 0
      BY <2>1, <3>1, <3>2, InflightWraps
    <3> QED BY <2>1, <3>1, <3>3
  <2> QED BY <2>2, <2>3, ExactByCounted
<1>3. TypeOK
  <2>1. RestOK
    <3>1. \A S : <<>> \in Seq(S)
      BY EmptySeq
    <3>2. closed \in BOOLEAN /\ quiet \in BOOLEAN
      BY Zenon DEF Init
    <3>3. seen \in [Reactors -> BOOLEAN \X (0..(CountModulus - 1))]
      BY UnseenType DEF Init
    <3>4. /\ requests \in Seq(Posts) /\ apcs \in Seq(Posts \cup {SHUTDOWN})
          /\ port \in Seq(Posts \cup {SHUTDOWN})
      BY <3>1 DEF Init
    <3>5. count \in 0..(CountModulus - 1)
      <4>1. count = 0
        BY DEF Init
      <4> QED BY <4>1, TimerAssumption
    <3> QED BY <3>2, <3>3, <3>4, <3>5 DEF Init, RestOK, WorkerPlaces
  <2>2. base \in Uninitialized /\ inflight \in 0..(InflightModulus - 1)
    BY TimerAssumption DEF Init
  <2>3. at \in [Posts -> Places]
    BY DEF Init, Places
  <2> QED BY <2>1, <2>2, <2>3 DEF TypeOK, RestOK, Places, Inflight, WorkerPlaces
<1>4. WorkerOutlivesTimers /\ Lines /\ Handled
  BY DEF Init, WorkerOutlivesTimers, Lines, Line, Handled
<1> QED BY <1>2, <1>3, <1>4 DEF IInv, ServedUntilIdle

\* Every step keeps the inductive invariant.
LEMMA InvStep == IInv /\ [Next]_vars => IInv'
<1> SUFFICES ASSUME IInv, [Next]_vars PROVE IInv'
  OBVIOUS
<1>1. TypeOK /\ Lines /\ Handled
  BY DEF IInv, ServedUntilIdle
<1> QED BY <1>1, TypeStep, CountStep, OutlivesStep, LinesStep, HandledStep
        DEF IInv, ServedUntilIdle

\* n_inflight_timers is exact modulo its width whoever posts, handles and shuts
\* down at once, so that the worker, unless the word was left so high that it
\* wraps, exits when no timer is armed and none is on its way: for any width and
\* any number of requests, reactors and callers of shutdown().
THEOREM WorkerServesUntilIdle == Spec => []ServedUntilIdle
<1>1. IInv => ServedUntilIdle
  BY DEF IInv
<1> QED BY <1>1, InitInv, InvStep, PTL DEF Spec
=============================================================================
