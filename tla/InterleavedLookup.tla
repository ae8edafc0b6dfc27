-------------------------- MODULE InterleavedLookup --------------------------
(***************************************************************************)
(* Map::interleaved_multilookup (applications/map), over the map itself.   *)
(* A caller builds a map with any operations and then looks up a range of  *)
(* keys, which a generator (libcoro) yields and may fail to yield: the     *)
(* throttler spawns a coroutine per key, at most n_streams at a time, on a *)
(* scheduler that keeps suspended coroutines in a ring buffer              *)
(* of QueueDepth handles.  A lookup that prefetches an entry of its chain  *)
(* schedules itself and transfers to the coroutine at the tail of the      *)
(* ring; one that ends returns to whoever resumed the chain of transfers:  *)
(* spawn() or run().  Frames come from the program's one recycling         *)
(* allocator, whose blocks outlive a call; another instantiation of        *)
(* lookup_task has frames of another size.                                 *)
(*                                                                         *)
(* Coroutines are named by the position of their key; handles that were    *)
(* never stored are NULL = 0.                                              *)
(***************************************************************************)
EXTENDS Map, Integers, FiniteSets

CONSTANTS
    QueueDepth,   \* the scheduler's template argument
    Streams,      \* the values of n_streams considered
    KeyLists,     \* the ranges of keys considered
    FrameSizes,   \* the sizes of a lookup_task frame
    MaxCalls      \* bound: calls of interleaved_multilookup

ASSUME LookupAssumption ==
    /\ QueueDepth \in Nat \ {0}
    /\ Streams \subseteq Nat \ {0}
    /\ KeyLists \subseteq Seq(Keys)
    /\ FrameSizes \subseteq Nat \ {0}
    /\ MaxCalls \in Nat

\* The caller's duty, which the scheduler does not check: the ring has a slot for
\* every stream, and one that stays free.
ASSUME StreamsAssumption == \A n \in Streams : n < QueueDepth

NULL == 0
Slots == 0..(QueueDepth - 1)

VARIABLES
    calls,      \* calls begun
    mode,       \* where interleaved_multilookup stands
    keys,       \* the range it was given
    n_streams,  \* its argument
    frame_size, \* of its coroutines
    limit,      \* Throttler::limit
    next,       \* the position of key_iter: how many keys were yielded
    thrown,     \* the generator threw
    entry,      \* where in its chain each lookup is, 0 before its first entry
    running,    \* the coroutine that executes, or NULL
    results,    \* what was stored through begin_results, and by which lookup
    head, tail, buffer,  \* StaticQueueScheduler
    root,       \* RecyclingAllocator: the free blocks
    block,      \* the true size of the block each frame is in, 0 if none
    sizes       \* history: the frame sizes allocated

ring == <<head, tail, buffer>>
heap == <<root, block, sizes>>
args == <<calls, keys, n_streams, frame_size>>
callVars == <<args, mode, limit, next, thrown, entry, running, results, ring, heap>>

Lookups == DOMAIN keys

\* A free block: its true size, and the size of the frame freed last.
Free == [true : FrameSizes, size : FrameSizes]

LookupTypeOK ==
    /\ calls \in 0..MaxCalls
    /\ mode \in {"idle", "spawning", "making_room", "made_room", "draining", "done"}
    /\ keys \in KeyLists \cup {<<>>}
    /\ n_streams \in Streams \cup {0} /\ frame_size \in FrameSizes \cup {0}
    /\ limit \in 0..n_streams /\ next \in 1..(Len(keys) + 1) /\ thrown \in BOOLEAN
    /\ entry \in [Lookups -> Nat]
    /\ running \in Lookups \cup {NULL}
    /\ results \in Seq(Lookups \X Result)
    /\ head \in Slots /\ tail \in Slots /\ buffer \in [Slots -> Nat]
    /\ root \in Seq(Free)
    /\ block \in [Lookups -> FrameSizes \cup {0}]
    /\ sizes \subseteq FrameSizes

LookupInit ==
    /\ Init
    /\ calls = 0 /\ mode = "idle" /\ keys = <<>> /\ n_streams = 0 /\ frame_size = 0
    /\ limit = 0 /\ next = 1 /\ thrown = FALSE /\ entry = <<>> /\ running = NULL /\ results = <<>>
    /\ head = 0 /\ tail = 0 /\ buffer = [i \in Slots |-> NULL]
    /\ root = <<>> /\ block = <<>> /\ sizes = {}

-----------------------------------------------------------------------------
\* An operation of the map; bound: the map is built before the first call.
MapStep == calls = 0 /\ Next /\ UNCHANGED callVars

\* generator::begin resumes the generator up to its first key, or its end.
begin(ks) == keys' = ks /\ next' = 1

\* iter == end(): the generator is done.
AtEnd == next \notin Lookups

\* ++iter: the generator yields the next key, ends or throws; the exception leaves
\* interleaved_multilookup, and ~Throttler runs what was spawned.
Advance ==
    /\ next' = next + 1
    /\ \/ mode' = "spawning" /\ UNCHANGED thrown
       \/ mode' = "draining" /\ thrown' = TRUE

\* interleaved_multilookup is called with a scheduler of its own; the throttler
\* is constructed.
BeginCall ==
    /\ mode = "idle" /\ ~crashed /\ calls < MaxCalls
    /\ mode' = "spawning"
    /\ calls' = calls + 1
    /\ \E ks \in KeyLists, n \in Streams, s \in FrameSizes :
        /\ begin(ks) /\ n_streams' = n /\ frame_size' = s /\ limit' = n
        /\ entry' = [i \in DOMAIN ks |-> 0]
        /\ block' = [i \in DOMAIN ks |-> 0]
    /\ result' = Nothing
    /\ UNCHANGED <<n_items, capacity, buckets, dropped, crashed>>
    /\ UNCHANGED <<thrown, running, results, ring, root, sizes>>

-----------------------------------------------------------------------------
(***************************************************************************)
(* StaticQueueScheduler and RecyclingAllocator.                            *)
(***************************************************************************)

Succ(i) == (i + 1) % QueueDepth

schedule(t) ==
    /\ buffer' = [buffer EXCEPT ![head] = t]
    /\ head' = Succ(head)

\* scheduler.remove_next_task(), resumed.
ResumeNext ==
    /\ running' = buffer[tail]
    /\ tail' = Succ(tail)

\* Fault: a block of the very size is passed over.
AllocStrict(c) ==
    /\ IF root # <<>> /\ Head(root).size < frame_size
       THEN /\ block' = [block EXCEPT ![c] = Head(root).true]
            /\ root' = Tail(root)
       ELSE /\ block' = [block EXCEPT ![c] = frame_size]
            /\ UNCHANGED root
    /\ sizes' = sizes \cup {frame_size}

\* alloc: the first free block, when it is not larger than what is asked for.
alloc(c) ==
    /\ IF root # <<>> /\ Head(root).size <= frame_size
       THEN /\ block' = [block EXCEPT ![c] = Head(root).true]
            /\ root' = Tail(root)
       ELSE /\ block' = [block EXCEPT ![c] = frame_size]
            /\ UNCHANGED root
    /\ sizes' = sizes \cup {frame_size}

\* free: the block is known by the size of the frame it held.
free(c) ==
    /\ root' = <<[true |-> block[c], size |-> frame_size]>> \o root
    /\ block' = [block EXCEPT ![c] = 0]
    /\ UNCHANGED sizes

-----------------------------------------------------------------------------
(***************************************************************************)
(* The throttler.                                                          *)
(***************************************************************************)

\* The end of spawn(): the coroutine, made but not started, is scheduled.
AddTask ==
    /\ schedule(next)
    /\ limit' = limit - 1
    /\ Advance
    /\ UNCHANGED <<args, entry, tail, running, results>>

\* lookup_task is called for the next key and spawned, below the limit.
Spawn ==
    /\ mode = "spawning" /\ ~AtEnd /\ limit # 0
    /\ alloc(next)
    /\ AddTask
    /\ UNCHANGED vars

\* At the limit: resume the next coroutine and, when that returns, add the new
\* one without another look at the limit.
MakeRoom ==
    /\ mode = "spawning" /\ ~AtEnd /\ limit = 0
    /\ alloc(next)
    /\ ResumeNext
    /\ mode' = "making_room"
    /\ UNCHANGED <<vars, args, limit, next, thrown, entry, results, head, buffer>>

SpawnInRoom ==
    /\ mode = "made_room"
    /\ AddTask
    /\ UNCHANGED <<vars, heap>>

-----------------------------------------------------------------------------
(***************************************************************************)
(* lookup_task.                                                            *)
(***************************************************************************)

chain(c) == BucketOf(keys[c]).chain

\* It has been resumed after a prefetch of a bucket.first that is null.
AtNull(c) == entry[c] > Len(chain(c))

\* It stands at the entry of its key.
Hit(c) == entry[c] > 0 /\ chain(c)[entry[c]].key = keys[c]

\* Fault: it stops at the first entry, whatever its key.
GoesOnNever(c) == entry[c] = 0 /\ BucketOf(keys[c]).n_items # 0

\* It has an entry to prefetch: bucket.first, or entry->next.
GoesOn(c) ==
    IF entry[c] = 0 THEN BucketOf(keys[c]).n_items # 0
    ELSE ~Hit(c) /\ entry[c] < Len(chain(c))

\* Fault: the next coroutine is taken off the ring before this one is queued.
SuspendSwapped ==
    /\ running # NULL /\ ~AtNull(running) /\ GoesOn(running)
    /\ entry' = [entry EXCEPT ![running] = @ + 1]
    /\ ResumeNext
    /\ schedule(running)
    /\ UNCHANGED <<vars, args, mode, limit, next, thrown, results, heap>>

\* co_await prefetch_and_schedule_on: queue oneself, transfer to the tail.
Suspend ==
    /\ running # NULL /\ ~AtNull(running) /\ GoesOn(running)
    /\ entry' = [entry EXCEPT ![running] = @ + 1]
    /\ schedule(running)
    /\ running' = buffer'[tail]
    /\ tail' = Succ(tail)
    /\ UNCHANGED <<vars, args, mode, limit, next, thrown, results, heap>>

\* on_found or on_not_found stores the result, return_void tells the throttler,
\* the frame is destroyed and resume() returns.
Complete ==
    /\ running # NULL /\ ~AtNull(running) /\ ~GoesOn(running)
    /\ results' = Append(results, <<running,
            IF Hit(running) THEN [ok |-> TRUE, entry |-> chain(running)[entry[running]]]
            ELSE Nothing>>)
    /\ limit' = limit + 1
    /\ free(running)
    /\ running' = NULL
    /\ mode' = IF mode = "making_room" THEN "made_room" ELSE mode
    /\ UNCHANGED <<vars, args, next, thrown, entry, ring>>

\* It reads entry->key of a null entry.
CrashInLookup ==
    /\ ~crashed /\ running # NULL /\ AtNull(running)
    /\ crashed' = TRUE
    /\ UNCHANGED <<n_items, capacity, buckets, result, dropped, callVars>>

-----------------------------------------------------------------------------
\* The keys are used up: throttler.run().
BeginRun ==
    /\ mode = "spawning" /\ AtEnd
    /\ mode' = "draining"
    /\ UNCHANGED <<vars, args, limit, next, thrown, entry, running, results, ring, heap>>

\* StaticQueueScheduler::run, one turn.
RunNext ==
    /\ mode = "draining" /\ running = NULL /\ head # tail
    /\ ResumeNext
    /\ UNCHANGED <<vars, args, mode, limit, next, thrown, entry, results, head, buffer,
                   heap>>

\* The ring is, or looks, empty: interleaved_multilookup returns.  The run() of
\* the throttler's destructor finds the same.
EndRun ==
    /\ mode = "draining" /\ running = NULL /\ head = tail
    /\ mode' = "done"
    /\ UNCHANGED <<vars, args, limit, next, thrown, entry, running, results, ring, heap>>

\* The caller has taken the results; only the allocator's blocks are left.
EndCall ==
    /\ mode = "done"
    /\ mode' = "idle" /\ keys' = <<>> /\ n_streams' = 0 /\ frame_size' = 0
    /\ limit' = 0 /\ next' = 1 /\ thrown' = FALSE /\ entry' = <<>> /\ results' = <<>>
    /\ head' = 0 /\ tail' = 0 /\ buffer' = [i \in Slots |-> NULL]
    /\ block' = <<>>
    /\ UNCHANGED <<vars, calls, running, root, sizes>>

CallStep ==
    \/ Spawn \/ MakeRoom \/ SpawnInRoom
    \/ Suspend \/ Complete \/ CrashInLookup
    \/ BeginRun \/ RunNext \/ EndRun \/ EndCall

LookupSpec ==
    /\ LookupInit
    /\ [][MapStep \/ BeginCall \/ CallStep]_<<vars, callVars>>

\* The one thread keeps running once it has called.
FairLookupSpec == LookupSpec /\ WF_<<vars, callVars>>(CallStep)

-----------------------------------------------------------------------------
Answered == {results[i][1] : i \in DOMAIN results}

\* The coroutines spawned that have not ended.
Live == (1..(next - 1)) \ Answered

\* The slots from tail to head.
Occupied == {i \in Slots : (i - tail) % QueueDepth < (head - tail) % QueueDepth}

\* The ring holds exactly the coroutines that are suspended, each once: no
\* handle is overwritten, and none of a coroutine that ended is left.
RingIsExact ==
    /\ {buffer[i] : i \in Occupied} = Live \ {running}
    /\ \A i, j \in Occupied : buffer[i] = buffer[j] => i = j

\* The throttler's limit and the coroutines alive add up to n_streams, and
\* resume() returns to spawn() only when that made room for exactly one.
LimitIsExact ==
    /\ limit + Cardinality(Live) = n_streams
    /\ mode = "made_room" => limit = 1

\* Scheduler and throttler agree on the coroutines there are.
StreamsAreExact == LookupTypeOK /\ RingIsExact /\ LimitIsExact

\* alloc reuses a block that is at most as large as the frame, so a frame may
\* overflow its block: only once smaller frames have been allocated before.  As
\* long as all have one size, frames are recycled: no more blocks are taken than
\* there are streams, and one for the coroutine that waits in spawn().
FramesFit ==
    LET used == {c \in Lookups : block[c] # 0}
    IN  /\ \A c \in used : block[c] < frame_size => \E s \in sizes : s < frame_size
        /\ Cardinality(sizes) = 1 =>
               Len(root) + Cardinality(used) <= Max(Streams) + 1

\* sequential_multilookup, by the position of the key.
sequential_multilookup ==
    [c \in Lookups |-> IF Found(keys[c])
                       THEN [ok |-> TRUE, entry |-> FoundEntry(keys[c])]
                       ELSE Nothing]

\* Every key that was yielded has one answer, the one that the sequential lookups
\* would give.
AnswersAsSequential ==
    /\ Len(results) = next - 1
    /\ \A c \in 1..(next - 1) : <<c, sequential_multilookup[c]>> \in Range(results)
    /\ AtEnd \/ thrown

\* "Perform a lookup operation for each key in the range, inserting the result
\* of each lookup operation": interleaved_multilookup comes to an end with the
\* answers of sequential_multilookup, an exception in the range of keys drops no
\* lookup that was spawned, and so for a map built by any operations, collisions,
\* resizes and faulty removals included, unless it follows the null pointer that
\* such a removal left.
MultilookupReturns ==
    (mode # "idle") ~> \/ mode = "done" /\ AnswersAsSequential
                       \/ crashed /\ dropped

=============================================================================
