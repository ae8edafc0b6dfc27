------------------------------ MODULE BinarySearch ------------------------------
(***************************************************************************)
(* applications/binary-search: many lookups in one sorted dataset, by a    *)
(* hand-written state machine over an array of frames ("sm") or by         *)
(* coroutines that hand control to each other through the scheduler's ring *)
(* ("coro"), repeated as the driver repeats them.  Both suspend a search   *)
(* where it reads the dataset, at its middle, and count the keys found, as *)
(* does the plain loop of test_vanilla.                                    *)
(*                                                                         *)
(* A step runs one search from one read to the next.  All coroutine frames *)
(* have one size, so that tcalloc reuses any free block.                   *)
(***************************************************************************)
EXTENDS Naturals, Sequences, FiniteSets

CONSTANTS
    MaxCount,    \* bound: size of the dataset
    NKeys,       \* the number of lookups
    Streams,     \* numbers of streams
    QueueDepth,  \* scheduler_queue::N
    MaxRepeat    \* bound: repetitions, n_repeat of the driver

ASSUME SearchAssumption ==
    /\ MaxCount \in Nat \ {0} /\ NKeys \in Nat /\ MaxRepeat \in Nat \ {0}
    /\ Streams \subseteq 1..(NKeys + 1)
    /\ QueueDepth \in Nat /\ \A n \in Streams : n < QueueDepth

VARIABLES
    algo,         \* the algorithm asked for
    count,        \* State::count, the size of the dataset
    lookups,      \* State::lookups
    n_streams,    \* State::n_streams
    mode,         \* where the multi lookup stands
    next,         \* the lookup the loop over the keys is at
    search,       \* sm: Frames; coro: the locals of each coroutine
    found,        \* `result` of sm, found_count of coro
    not_found,    \* coro: not_found_count
    results,      \* what each repetition returned
    i,            \* sm: the frame in hand
    more_work,    \* sm: a frame of this sweep was not done
    arr, head, tail,   \* scheduler_queue
    limit,        \* throttler::limit
    running,      \* the coroutine running, or 0
    root,         \* tcalloc: the free blocks
    block,        \* the block of each coroutine's frame, or 0
    alloc_count   \* tcalloc: blocks taken from malloc

input == <<algo, count, lookups, n_streams>>
smVars == <<i, more_work>>
heap == <<root, block, alloc_count>>
coroVars == <<arr, head, tail, limit, running, not_found, heap>>
vars == <<input, mode, next, search, found, results, smVars, coroVars>>

Keys == 1..NKeys

\* dataset.push_back(i + i)
At(k) == k + k

Dataset == {At(k) : k \in 0..(count - 1)}

Frame == [state : {"KEEP_GOING", "FOUND", "NOT_FOUND", "EMPTY"}, val : Nat,
          first : 0..MaxCount, len : 0..MaxCount, half : 0..MaxCount,
          middle : 0..MaxCount]

Empty(key) ==
    [state |-> "EMPTY", val |-> key, first |-> 0, len |-> 0, half |-> 0, middle |-> 0]

TypeOK ==
    /\ algo \in {"sm", "coro"}
    /\ count \in 1..MaxCount
    /\ lookups \in [Keys -> 0..(2 * count)]
    /\ n_streams \in Streams
    /\ mode \in {"looking", "cycling", "sweeping", "making_room", "running", "done"}
    /\ next \in 1..(NKeys + 1)
    /\ search \in [0..NKeys -> Frame]
    /\ found \in 0..NKeys /\ not_found \in 0..NKeys
    /\ results \in Seq(0..NKeys)
    /\ i \in 0..n_streams /\ more_work \in BOOLEAN
    /\ arr \in [0..(QueueDepth - 1) -> 0..NKeys]
    /\ head \in 0..(QueueDepth - 1) /\ tail \in 0..(QueueDepth - 1)
    /\ limit \in 0..n_streams
    /\ running \in 0..NKeys
    /\ root \in Seq(Nat) /\ block \in [Keys -> Nat] /\ alloc_count \in Nat

Init ==
    /\ algo \in {"sm", "coro"}
    /\ count \in 1..MaxCount
    /\ lookups \in [Keys -> 0..(2 * count)]
    /\ n_streams \in Streams
    /\ mode = "looking" /\ next = 1
    /\ search = [k \in 0..NKeys |-> Empty(0)]
    /\ found = 0 /\ not_found = 0 /\ results = <<>>
    /\ i = n_streams - 1 /\ more_work = FALSE
    /\ arr = [k \in 0..(QueueDepth - 1) |-> 0] /\ head = 0 /\ tail = 0
    /\ limit = n_streams
    /\ running = 0
    /\ root = <<>> /\ block = [k \in Keys |-> 0] /\ alloc_count = 0

-----------------------------------------------------------------------------
(***************************************************************************)
(* The search itself.                                                      *)
(***************************************************************************)

\* vanilla_binary_search, as a function of what is left of the dataset.
vanilla_binary_search(val) ==
    LET loop[first \in Nat, len \in Nat] ==
            IF len = 0 THEN FALSE
            ELSE LET half == len \div 2
                     middle_key == At(first + half)
                 IN  \/ middle_key = val
                     \/ middle_key < val /\ loop[first + half + 1, len - half - 1]
                     \/ middle_key > val /\ loop[first, half]
    IN  loop[0, count]

test_vanilla == Cardinality({k \in Keys : vanilla_binary_search(lookups[k])})

\* The next value to read.
Probe(f) == [f EXCEPT !.half = f.len \div 2, !.middle = f.first + f.len \div 2]

\* Frame::init, and the coroutine up to its first co_await.
Begin(key) ==
    IF count = 0 THEN [Empty(key) EXCEPT !.state = "NOT_FOUND"]
    ELSE Probe([Empty(key) EXCEPT !.state = "KEEP_GOING", !.len = count])

\* Fault: the middle, which was too small, stays in the upper part.
NarrowShort(f) ==
    IF At(f.middle) < f.val
    THEN [f EXCEPT !.first = f.middle + 1, !.len = f.len - f.half]
    ELSE [f EXCEPT !.len = f.half]

Narrow(f) ==
    IF At(f.middle) < f.val
    THEN [f EXCEPT !.first = f.middle + 1, !.len = f.len - f.half - 1]
    ELSE [f EXCEPT !.len = f.half]

\* Frame::run, and the coroutine from one co_await to the next or to its end.
Run(f) ==
    LET g == Narrow(f)
    IN  IF At(f.middle) = f.val THEN [g EXCEPT !.state = "FOUND"]
        ELSE IF g.len > 0 THEN Probe(g)
        ELSE [g EXCEPT !.state = "NOT_FOUND"]

Going(f) == f.state = "KEEP_GOING"

\* found, after search f has ended.
Counted(f) == IF f.state = "FOUND" THEN found + 1 ELSE found

-----------------------------------------------------------------------------
(***************************************************************************)
(* state_machine_multi_lookup.                                             *)
(***************************************************************************)

\* i = (0 == i) ? N : i - 1
Turn == i' = IF i = 0 THEN n_streams - 1 ELSE i - 1

\* The frame in hand is idle: it takes the next key.
InitFrame ==
    /\ algo = "sm" /\ mode = "looking" /\ next \in Keys /\ ~Going(search[i])
    /\ search' = [search EXCEPT ![i] = Begin(lookups[next])]
    /\ next' = next + 1
    /\ Turn
    /\ UNCHANGED <<input, mode, found, results, more_work, coroVars>>

\* All are busy: run them in turn until one ends, and give it the key.
RunFrame ==
    /\ algo = "sm" /\ next \in Keys
    /\ \/ mode = "cycling"
       \/ mode = "looking" /\ Going(search[i])
    /\ LET f == Run(search[i])
       IN  IF Going(f)
           THEN /\ search' = [search EXCEPT ![i] = f]
                /\ mode' = "cycling"
                /\ UNCHANGED <<next, found>>
           ELSE /\ search' = [search EXCEPT ![i] = Begin(lookups[next])]
                /\ mode' = "looking"
                /\ next' = next + 1
                /\ found' = Counted(f)
    /\ Turn
    /\ UNCHANGED <<input, results, more_work, coroVars>>

BeginSweep ==
    /\ algo = "sm" /\ mode = "looking" /\ next = NKeys + 1
    /\ mode' = "sweeping"
    /\ i' = 0 /\ more_work' = FALSE
    /\ UNCHANGED <<input, next, search, found, results, coroVars>>

\* The searches still open: every frame is run once ...
Sweep ==
    /\ mode = "sweeping" /\ i < n_streams
    /\ i' = i + 1
    /\ IF Going(search[i])
       THEN /\ more_work' = TRUE
            /\ search' = [search EXCEPT ![i] = Run(@)]
            /\ found' = Counted(Run(search[i]))
       ELSE UNCHANGED <<more_work, search, found>>
    /\ UNCHANGED <<input, mode, next, results, coroVars>>

\* Fault: one sweep is made, whatever is left.
EndSweepAtOnce ==
    /\ mode = "sweeping" /\ i = n_streams
    /\ i' = 0 /\ more_work' = FALSE
    /\ mode' = "done"
    /\ results' = Append(results, found)
    /\ UNCHANGED <<input, next, search, found, coroVars>>

\* ... until none was open.
EndSweep ==
    /\ mode = "sweeping" /\ i = n_streams
    /\ i' = 0 /\ more_work' = FALSE
    /\ mode' = IF more_work THEN mode ELSE "done"
    /\ results' = IF more_work THEN results ELSE Append(results, found)
    /\ UNCHANGED <<input, next, search, found, coroVars>>

-----------------------------------------------------------------------------
(***************************************************************************)
(* coro_multi_lookup.                                                      *)
(***************************************************************************)

Succ(k) == (k + 1) % QueueDepth

push_back(c) ==
    /\ arr' = [arr EXCEPT ![head] = c]
    /\ head' = Succ(head)

\* tcalloc::alloc for the frame of coroutine c.
alloc(c) ==
    IF root # <<>>
    THEN /\ block' = [block EXCEPT ![c] = Head(root)]
         /\ root' = Tail(root)
         /\ UNCHANGED alloc_count
    ELSE /\ alloc_count' = alloc_count + 1
         /\ block' = [block EXCEPT ![c] = alloc_count + 1]
         /\ UNCHANGED root

\* Fault: the block is not put on the list.
Leak(c) ==
    /\ block' = [block EXCEPT ![c] = 0]
    /\ UNCHANGED <<root, alloc_count>>

\* tcalloc::free, when the frame of c is destroyed.
free(c) ==
    /\ root' = <<block[c]>> \o root
    /\ block' = [block EXCEPT ![c] = 0]
    /\ UNCHANGED alloc_count

\* The coroutine for the next key is created, suspended, and handed to spawn(),
\* which queues it if there is room and otherwise resumes the oldest one first.
Spawn ==
    /\ algo = "coro" /\ mode = "looking" /\ next \in Keys
    /\ alloc(next)
    /\ search' = [search EXCEPT ![next] = Empty(lookups[next])]
    /\ IF limit = 0
       THEN /\ mode' = "making_room"
            /\ running' = arr[tail]
            /\ tail' = Succ(tail)
            /\ UNCHANGED <<arr, head, limit, next>>
       ELSE /\ push_back(next)
            /\ limit' = limit - 1
            /\ next' = next + 1
            /\ UNCHANGED <<mode, running, tail>>
    /\ UNCHANGED <<input, found, not_found, results, smVars>>

\* What a resumed coroutine makes of its search.
Resumed(c) == IF search[c].state = "EMPTY" THEN Begin(search[c].val) ELSE Run(search[c])

\* It suspends at its next read: it queues itself and transfers to the oldest.
Suspend ==
    /\ running # 0 /\ Going(Resumed(running))
    /\ search' = [search EXCEPT ![running] = Resumed(running)]
    /\ push_back(running)
    /\ running' = arr'[tail]
    /\ tail' = Succ(tail)
    /\ UNCHANGED <<input, mode, next, found, not_found, results, smVars, limit, heap>>

\* Or it ends, and control is back where resume() was called.
Complete ==
    /\ running # 0 /\ ~Going(Resumed(running))
    /\ search' = [search EXCEPT ![running] = Resumed(running)]
    /\ found' = Counted(Resumed(running))
    /\ not_found' = not_found + 1 - (found' - found)
    /\ limit' = limit + 1
    /\ free(running)
    /\ running' = 0
    /\ UNCHANGED <<input, mode, next, results, smVars, arr, head, tail>>

\* The rest of spawn().
EndSpawn ==
    /\ mode = "making_room" /\ running = 0
    /\ push_back(next)
    /\ limit' = limit - 1
    /\ next' = next + 1
    /\ mode' = "looking"
    /\ UNCHANGED <<input, search, found, not_found, results, smVars, tail, running,
                   heap>>

BeginRun ==
    /\ algo = "coro" /\ mode = "looking" /\ next = NKeys + 1
    /\ mode' = "running"
    /\ UNCHANGED <<input, next, search, found, results, smVars, coroVars>>

\* scheduler_queue::run
RunNext ==
    /\ mode = "running" /\ running = 0 /\ head # tail
    /\ running' = arr[tail]
    /\ tail' = Succ(tail)
    /\ UNCHANGED <<input, mode, next, search, found, not_found, results, smVars, arr,
                   head, limit, heap>>

\* The assertion, which aborts the program if it fails; the counters are static
\* and are reset for the next call.
EndRun ==
    /\ mode = "running" /\ running = 0 /\ head = tail
    /\ found + not_found = NKeys
    /\ mode' = "done"
    /\ results' = Append(results, found)
    /\ found' = 0 /\ not_found' = 0
    /\ UNCHANGED <<input, next, search, smVars, arr, head, tail, limit, running, heap>>

\* The driver's next repetition: new frames, a new throttler, the same scheduler
\* and allocator.
Repeat ==
    /\ mode = "done" /\ Len(results) < MaxRepeat
    /\ mode' = "looking" /\ next' = 1
    /\ search' = [k \in 0..NKeys |-> Empty(0)]
    /\ i' = n_streams - 1
    /\ limit' = n_streams
    /\ found' = IF algo = "sm" THEN 0 ELSE found
    /\ UNCHANGED <<input, not_found, results, more_work, arr, head, tail, running,
                   heap>>

-----------------------------------------------------------------------------
Next ==
    \/ InitFrame \/ RunFrame \/ BeginSweep \/ Sweep \/ EndSweep
    \/ Spawn \/ Suspend \/ Complete \/ EndSpawn \/ BeginRun \/ RunNext \/ EndRun
    \/ Repeat

Spec == Init /\ [][Next]_vars

\* One thread, which keeps running.
FairSpec == Spec /\ WF_vars(Next)

-----------------------------------------------------------------------------
\* A suspended search will read inside the dataset, and its range still holds its
\* key if the dataset does: no halving loses an element.
SearchIsSound ==
    TypeOK /\ \A k \in 0..NKeys :
        LET f == search[k]
            range == f.first..(f.first + f.len - 1)
        IN  Going(f) => /\ f.middle \in range
                        /\ range \subseteq 0..(count - 1)
                        /\ f.val \in Dataset => f.val \in {At(p) : p \in range}

\* The frames of coroutines that are alive and the free list have each a block of
\* their own, and no more blocks are ever taken than there are streams, and one
\* for the coroutine that waits in spawn().
FramesRecycled ==
    /\ \A c, d \in Keys : block[c] = block[d] /\ block[c] # 0 => c = d
    /\ \A k \in DOMAIN root : \A c \in Keys : root[k] # block[c]
    /\ alloc_count <= n_streams + 1

\* Every repetition ends, and returns what the sequential search returns, which
\* is the number of keys the dataset holds.
AllThreeAgree ==
    <>(/\ mode = "done"
       /\ test_vanilla = Cardinality({k \in Keys : lookups[k] \in Dataset})
       /\ results = [n \in 1..MaxRepeat |-> test_vanilla])

=============================================================================
