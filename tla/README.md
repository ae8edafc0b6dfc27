# TLA+ models of the coroutines repository

The repository is a collection of coroutine building blocks in C++: synchronisation
primitives (`primitives/`), a task library (`libcoro/`), algorithms over tasks
(`algorithms/`) and small applications (`applications/`: a thread pool, a hash map with
interleaved lookups, binary search, timer services, pipes). There is no single program; each
directory is a component with its own protocol, and most of what can go wrong is in a few
dozen lines of atomics, intrusive lists and hand-over of coroutine handles. This directory
models those protocols, checks them with TLC and proves the safety of all of them with TLAPS: every
invariant, action property and refinement that a run shows to hold is also a theorem.

## 1. Inventory

| component | state | operations | what is hard |
|---|---|---|---|
| `manual_reset_event` | one atomic word: the address of the event (set), null, or the head of a stack of awaiters; `next_awaiter` in each awaiter | `co_await`, `set()`, `reset()` | awaiters link themselves by compare-exchange while `set()` takes the stack and resumes it on its own stack frame; a resumed coroutine may await again or free its awaiter |
| `async_lock` | atomic word (not locked, locked, head of a stack of new awaiters) and a plain list `awaiters` owned by the holder | `acquire()`, guard destructor / `release()` | the lock is handed over without being freed; the stack is reversed to give FIFO order |
| `async_latch` | an atomic count and an atomic stack, separately | `wait()`, `count_down(n)` | count and stack are two words, tested and changed in two steps |
| `thread_pool` | atomic word (closed flag, coroutines inside), mutex-protected queue with a condition variable, threads | `schedule()`, `shutdown()`, worker loop | enter and push are two steps; sentinels; notifications after the unlock |
| `Map` | buckets of singly linked entries, counts, capacity | `lookup`, `insert`, `update`, `remove`, resize | rehashing in place, trust in cached counts, unlinking from the middle of a chain |
| interleaved lookups | `Throttler` limit, ring of handles (`StaticQueueScheduler`), one coroutine per key | `interleaved_multilookup` | coroutines resume each other through the ring by symmetric transfer; the limit must match |
| `when_all` and `task` | a counter with the parent's handle; per task an atomic flag and a continuation | `co_await when_all(tasks)`, task creation, completion | completion on other threads races with the registration of the continuation and with the parent's own decrement |
| `timer_service` (win-iocp) | atomic word (closed flag, reactors), atomic in-flight count, request queue, APC queue of the worker, completion port | `post`, `co_await post_awaitable`, `run()`, `shutdown()` | a chain of three threads per request; shutdown must find them all idle |
| single-reactor timers (`nix-timerfd`, `osx-kqueue`, `win-pool`) and `eager_task` | one descriptor, ident or handle per timer, known to the kernel with the address of a context; the promise of each task | make, move, arm, await, reactor loop or pool callback, `shutdown()`; `co_await`, `resume()` and destruction of a task | a call fails and the reactor still counts on its event; the kernel keeps an address after a move; a task resumed by two parties |
| pipes (`nix-pipe`, `win-pipe`) | epoll registrations with mask and awaiter, the two ends, the consumer's future | read, write, move, close, reactor | `set_awaiter` erases the interest; awaiters go stale when their coroutine goes on; uninitialised lengths. The Windows completion path is commented out |
| binary search | N suspended searches, scheduler queue, throttler | vanilla, coroutine and state-machine lookups | the three must agree |
| recycling allocator | free list of coroutine frames, for the whole program | `alloc`, `free` | the size test of a reused block, across calls with frames of different sizes |
| generator | promise of one coroutine, pointer to the value it yields | `begin`, `++`, test for the end | the exception comes out of `++`, in the middle of whoever iterates |
| lazy, maybe | promise of one coroutine | get | lifetime of the frame |
| resource wrappers, benchmarks, teaching examples | - | - | sequential; no protocol |

Components interact by calls and by handles: any of the event sources (pool, timers, pipes,
event, latch, lock) may be what a `task`'s body is suspended on, and `when_all` composes tasks
without knowing which. Data passes by value; the only shared state is that listed above.

What makes each correct: no awaiter is lost, resumed twice or resumed after its frame is gone;
who is released was entitled to be (set, count zero, lock free); counts equal what they count;
everyone who may proceed eventually does; `shutdown()` ends and what was accepted before it is
done; the map is a dictionary, and an interleaved lookup answers each key once.

## 2. Modules

One module per component, run directly, or through an `MC` module where the model checker
needs more definitions (hash functions, sequences read off linked lists). The theorems about `M`
and their proofs are in `MProofs`, except that `AwaitersProofs` is about the latch and the lock,
`ReactorProofs` about the timers and the pipes, and `MapProofs` about the map and the multilookup
over it. So that one module can extend both, the latch and the pipes name their specification
`LatchSpec` and `PipeSpec`, and likewise its parts. `MCReactors` and `MCLatchPool` check two such
components in one run: a behaviour chooses one of them and leaves the other in its initial state, and
the fairness of each is guarded by that choice.

| module | models | runs |
|---|---|---|
| `ManualResetEvent`, `AbstractEvent`, `ManualResetEventProofs` | `primitives/manual-reset-event` | `event` |
| `AsyncLock`, `MCAsyncLock`, `Awaiters`, `AwaitersProofs` | `primitives/async-lock` | `lock`, `lock_contended_release` |
| `AsyncLatch`, `MCLatchPool`, `Awaiters`, `AwaitersProofs` | `primitives/async-latch` | `latch_and_pool`, `latch_lost_wakeup` |
| `ThreadPool`, `MCLatchPool`, `ThreadPoolProofs` | `applications/threadpool` | `latch_and_pool` |
| `Map`, `AbstractMap`, `MapProofs` | `applications/map/map.hpp` | `map`, `map_remove` |
| `InterleavedLookup`, `MCMap`, `MapProofs` | the map composed with `throttler.hpp`, `scheduler.hpp`, `prefetch.hpp`, `recycling_allocator.hpp`, the lookup tasks and `libcoro/generator.hpp` | `map` |
| `WhenAll`, `WhenAllProofs` | `algorithms/when-all`, `libcoro/task.hpp` | `when_all` |
| `TimerService`, `TimerServiceProofs` | `applications/timers/win-iocp` | `timers` |
| `TimerReactor`, `MCReactors`, `ReactorProofs` | `applications/timers/nix-timerfd`, `osx-kqueue`, `win-pool`, with `libcoro/eager_task.hpp` | `reactors` |
| `PipeReactor`, `MCReactors`, `ReactorProofs` | `applications/pipes/nix-pipe` | `reactors`, `pipe_readiness` |
| `BinarySearch`, `BinarySearchProofs` | `applications/binary-search` | `search_algorithms` |

Conventions. Every atomic access that another thread can observe is a step of its own; what a
thread does between two of them is joined to the one before or after. Memory is sequentially
consistent: the acquire and release orders of the source are taken to be enough, and no claim
is made about them. `compare_exchange_weak` may fail spuriously. An operator whose comment
begins with *Fault* is a wrong version of the operator that follows it; no specification uses
it, it shows that a property can fail. A module's type invariant is proved, or is a conjunct of one
of the invariants that its run checks. Undefined behaviour (a
dereferenced tag, a resumed frame that is not suspended) is a state from which the model does
not go on.

### ManualResetEvent
`state` is the event's word, `next_awaiter` the links, `pc` where each coroutine stands;
`waiter` is the local of a thread in `set()`. `ResumeWaiter` reads the link, then resumes: the
coroutine runs on the setter's stack (`runs`) until it suspends or ends, and meanwhile that
setter does nothing else. `AbstractEvent` is an event without a list: `set()`
releases everyone who waits in one step. `ImplementsEvent` says that the detailed one is
that (`PhaseOf` maps the coroutines: one counts as released from the moment its stack was taken).

### AsyncLock
The lock and the latch both extend `Awaiters`, which has what they share: a list linked through the
awaiters in the coroutines' frames, and a thread that resumes coroutines on its own stack. `state` and `awaiters` are the two fields; `next_awaiter`, `current`, `awaiters_head` the links
and the locals of `release()`. The first awaiter keeps the old value of the word,
`LOCKED_NO_WAITERS`, as its link (line 137): 1, cast to a pointer, here `WILD`. `release()` follows it
at the end of its reversal, and the process dies (`Crash`). The hand-over behind it is modelled as
the code has it (`HandOffOrCrash`), but a release that finds waiters never gets there: what the
invariants say of the lock, they say up to the first contended release. `WaitingLine` in `MCAsyncLock` reads the whole queue off the links,
through a reversal half done, and `FifoOrder` says it only grows at its end and shrinks at its
front.

### AsyncLatch
`count` and `awaiters` are separate words; `await_suspend` tests one and changes the other in
separate steps, `count_down` likewise. `MaxCalls` bounds the calls of each counting thread.

### ThreadPool
The pool's word, the buffer under its mutex, the condition variable (waiting set, `notify_one`
after the unlock, spurious wakeups), workers, one client thread and two callers of `shutdown()`.
A second caller joins threads already joined: `JoinThrows`, after `std::thread::join`. `Destroy` is
the destructor, by a thread of its own (`DTOR`) once nobody else is in a call: it joins unless a
`shutdown()` has, and with no sentinel in the queue that join never ends.
`MaxSchedules` bounds the calls of `schedule()` in a behaviour.

### Map, AbstractMap
One action per operation, on chains as sequences: the walk from `bucket.first`, the test of
`n_items` before it, the resize after it, rehashing entry by entry in the order of the source.
`remove()` follows the code, which never advances `prev`; `dropped` records the first removal
that loses other entries. A resize takes the chains of the old table in order and keeps, for each new
bucket, the entries that hash to it (`Rehashed`, `Kept`). An `InsertKVResult` holds
addresses: after an insertion that of `insert`'s own parameter, so that the value its caller reads is
`DANGLING`. `AbstractMap` is a dictionary with the documented answers, except that it leaves the value
in the answer to an insertion open; `Contents` is the dictionary that lookups see. `ImplementsMap` says
that with it the table implements `AbstractMap`, which `remove()` refutes; `ImplementsLossyMap` allows a
removal to lose keys of the bucket it removes from (`RemoveLosing`, `BucketMates`), and holds.

### InterleavedLookup
Extends `Map`: any operations build a table (`MapStep`), then `interleaved_multilookup` is called
(`BeginCall`), and called again. A lookup coroutine walks the chain of its key in that table,
suspending in the ring at every entry (`Suspend`, the symmetric transfer to the ring's tail) until it
is at its key or at the end (`Complete`). `Spawn`, `MakeRoom` and `SpawnInRoom` are
`Throttler::spawn` below and at the limit. The keys come from a generator: `Advance` is `++`, which
yields, ends or throws, and in the last case the throttler's destructor drains the ring. `alloc` and
`free` are the recycling allocator: `block` is the true size of the block of each frame, `root` the
free list, which outlives the call; each call has frames of one of two sizes, as two instantiations
of `lookup_task` have. After a removal that dropped entries, a bucket may count items and have no
first: `CrashInLookup`. Results come in the order of completion, not of the keys; the model keeps
them so.

### WhenAll
The parent creates the tasks, whose bodies start at once because `initial_suspend` is
`suspend_never`, and starts one intermediary coroutine for each. Where a body is suspended
matters: on a plain `suspend_always`, nobody else holds its handle; on a source
(`task_scheduler`, or any other), the source resumes it later on its own thread. `await_suspend`
resumes the body in both cases. `stolen` records the tasks awaited while a source had their
body; `fate` becomes `undefined` when a handle is resumed that must not be.

### TimerService
A request passes through `requests` (queue), the worker (`armed`), `apcs` (`expired`), `port`
(`posted`) and a reactor; `at[p]` says where it is. `try_enter_reactor` is modelled as written:
its loop goes on while the exchange succeeds. `base` is what the constructor leaves in
`n_inflight_timers`, which it does not initialise, and the word counts modulo `InflightModulus` from
there. `CountModulus` is the number of values that the count of reactors in its word can take.
The worker's waits are alertable. They return after an APC, also the wait for the queue's mutex, and
`pop` and `try_pop` do not test why: `PopUnlocked` and `TryPopUnlocked` go on without the mutex, and
when a `push()` is inside the buffer at that moment, `Race`, the worker is `undefined`. The event
`non_empty` is set by the first `push()` and never reset. A worker that is faster than the
constructor, which starts it before it makes the queue, is `undefined` from the start. `quiet` records that `shutdown()` found no
request between the load in `post` and its handler.

### TimerReactor
`kernel` is what the kernel has of a timer, by descriptor, ident or handle, and which object's context
it will come back with (`udata`); `awaiting_coro` is the handle in that context. On timerfd the
registration lasts as long as the timer and a descriptor that fired stays ready until it is armed
again; on kqueue each arming registers a one-shot event, replacing one with the same ident; in the
pool the callback runs on another thread, beside `main`. `task` holds each `eager_task` with its
promise: `TrySetContinuation` and `FinalSuspend` are the two exchanges on `state`. Tasks may fail in a
constructor (`StartFails`), a timer may not be armed (`ArmFails`), a wait may be interrupted
(`ReactorError`), a timer may be moved, a task awaited, resumed or dropped while it is suspended. The
object that a timer was moved from may be destroyed before the frame (`EndScope`, `gone`), and its
context is then dangling. In the pool, `wait_close` releases the timers that the frames still own: the
second release, by the frame, may come to nothing or not (`EndBody`, `ReleaseTwice`), and this is so
in the shipped driver, whose task signals `shutdown()` before it ends.
`excuse` records which of these happened and `undefined` what undefined behaviour was met.

### PipeReactor
`mask` and `awaiter` are the epoll registration of each end: `set_awaiter` puts the awaiter in and,
since its event mask is empty, takes the interest out. `coro` says where the coroutine of each end
stands: a write is tried in `await_suspend`, after the awaiter was registered (`trying`, `written`),
a read only in `await_resume`. The pipe holds `bytes`. What the code does not initialise (`len`, which
is initialised with itself, and `bytes_xfer`) is any value of `Garbage`: zero, a length within the
buffer, or one above it, for which a read overruns the buffer if there is as much to read (fate
`overrun`) or fails with `EFAULT`. Writes may be partial. Two settings: `driver1`, where the consumer suspends
before the producer and the reactor start, and `make_pipe`, where both ends are asynchronous and
everything starts on threads of its own.

### BinarySearch
A search is a record with the fields of `Frame`; `Begin` and `Run` take it from one read of the
dataset to the next, for the state machine and for the coroutines, whose loop is the same code
cut at the same place. `algo` says which of the two a behaviour runs. The state machine keeps the
searches in an array and visits them in turn (`InitFrame`, `RunFrame`), then sweeps what is open
(`Sweep`, `EndSweep`). The coroutines have a ring (`arr`, `head`, `tail`), a throttler (`limit`) and a
free list of frames (`root`, `block`); ring and free list outlive a repetition, as the globals of the
program do. The sequential search is the function `vanilla_binary_search`, with which both are
compared, and it with membership in the dataset.

## 3. What the runs show

All passing runs explore the complete state space of their instance.

| run | instance | what it checks |
|---|---|---|
| `event` | 2 consumers that await twice, 2 setters, 4 calls | no dangling or doubly linked awaiter; refinement of `AbstractEvent`; whoever waits when `set()` takes the stack runs again |
| `lock` | 4 coroutines | mutual exclusion; exact waiting line; FIFO, through the races for the word and the reversal of the stack |
| `lock_contended_release` | 3 coroutines | **violated**: a waiter never gets the lock, because `release()` dereferences the tag |
| `latch_lost_wakeup` | 2 waiters, count 1 | **violated**: a coroutine that tested the count before the last `count_down` links itself after the walk and sleeps for ever |
| `latch_and_pool` | a latch of 3 with 2 waiters, 2 threads, 3 calls, decrements 1 and 2; a pool of 2 workers, 1 client, 2 tasks, 2 closers, 2 schedules | the latch: the releasing thread only touches suspended coroutines; nobody passes early; whoever is on the stack in time is resumed; the count does not wrap. The pool: exact count; a coroutine in one place; no lost wakeup; what is ahead of the sentinels is resumed; `shutdown()` ends, and the destructor then has nothing to wait for |
| `map` | 4 keys (all colliding until a resize parts one), 2 values, 4 to 8 buckets; 2 multilookups of 3 keys on 2 streams, ring of 3, frames of 2 sizes | counts and places of entries; load; a dictionary but for removals that lose keys of one bucket and insertions that answer with a dangling value; ring and limit exact; a frame overflows its block only after smaller ones were allocated; the multilookup ends with the answers of the sequential one, for every key that the range yielded before it ended or threw |
| `map_remove` | as `map` | **violated**: the removal of a key behind others of its chain loses those |
| `when_all` | 2 tasks, up to 2 suspensions each, returning or throwing | counter exact; the parent continues once, after all; only a stolen body leads to undefined behaviour; the `co_await` ends |
| `timers` | 2 reactors, 2 requests, 1 closer or a closing handler, a count of reactors modulo 8, an in-flight word modulo 5 left at 0 or 4 | in-flight count exact, modulo the word; the worker outlives its timers unless the word may wrap; a request queued before the worker has drained the queue is handled; quiet shutdown returns; otherwise it hangs only in the last sleep |
| `reactors` | timers: 1 or 2 tasks, 2 timers, 3 awaits each, on each of the three platforms; pipes: 5 bytes, buffers of 2, 2 events per wait, both settings | timers: undefined behaviour only by misuse (a moved timer, a task resumed or dropped while it is suspended, two tasks that share a pool) or by the double release of a pool timer under `wait_close`, on timerfd at most a null handle as long as what is moved from lasts; a coroutine is resumed by the timer it awaits, up to the level-triggered descriptor; a joiner continues after the end; `main` returns with the work done, unless a named fault happened. Pipes: awaiters are stale, null or run twice only around a closed end or an early reactor, and a read overruns its buffer only after the producer is gone; a hang-up wakes the consumer |
| `pipe_readiness` | 5 bytes, buffers of 2, both settings | **violated**: a consumer whose pipe has data is never woken, because `set_awaiter` registers no interest in it |
| `search_algorithms` | datasets of 1 to 3 elements, 3 keys of any value, 1 and 2 streams, ring of 3, 2 repetitions | no halving loses an element or leaves the dataset; frames are recycled; all three algorithms return the same number, in every repetition |

Why the bounds are enough. The hazards are races of two or three threads on one word, and the
instances have one more actor than the race needs: two setters and two consumers for hand-over
and re-awaiting, four lock contenders for a holder, two queued awaiters to be reversed and a late one,
two counting threads and two waiters for the latch (a stack with a link in it, or one awaiter in time
and a late one; the safety of the walk is proved for any number). The in-flight word is left at 0, from which two requests
do not wrap it, and at the highest value, from which one does. The rings wrap around (3 lookups that suspend several times on 3 slots, 6 in two repetitions). The
map's hash puts all four keys in one bucket of 4 and parts them in 8, so that chains have a first, a
middle and a last entry and a resize splits one; three keys on two streams spawn the last one at
the limit, and the second multilookup meets the blocks of the first. Two timers let one task await
another timer than the one that fired, or two tasks collide, and three awaits leave a first, a middle
and a last; a pipe of five bytes is empty, full and in between, has no room for a whole third buffer, and
holds more than a buffer for a read to overrun. Two tasks in `when_all` let one end on the parent's stack and
the other on a thread of its own.

Fairness. Every thread inside an operation keeps running (weak fairness of its steps); nobody
is obliged to call `set()`, `count_down`, `schedule()`, `shutdown()`, to post or to run a
reactor. In `WhenAll` a source resumes every handle it was given, as `task_scheduler::run`
does until it is empty; in `TimerService` timers expire and pending APCs are run while the worker
waits alertably. In `TimerReactor` an armed timer expires and `main` reaches its reactor, but no
call has to fail; in `PipeReactor` the reactor keeps taking events and a resumed coroutine runs, and
nobody is obliged to write or to close. A thread in `interleaved_multilookup` keeps running. Strong fairness is stated once, of the
compare-exchange by which a coroutine enters the thread pool: other threads change the word as well, and
the attempt is not enabled all the time. The loop is lock-free and not wait-free; what is
assumed is that the others do not win for ever against a thread that retries. The other lock-free loops need none: an exchange
fails for good only as often as another thread makes progress, and a spurious failure changes nothing,
so that it is a stuttering step and weak fairness asks for more.
Deadlock checking is off where a behaviour may end: every client has finished, or nobody calls.

## 4. Disagreements with the source's own words

* `async_lock.hpp:47`, "Release the lock and resume next awaiter, if available": `release()` follows
  the tag stored as the first awaiter's link (`lock_contended_release`).
* `async_latch.hpp:78`, "The coroutine should proceed immediately if the latch is already expired":
  test and push are two steps (`latch_lost_wakeup`).
* `map.hpp:106`, "Remove a key / value pair from the map": `remove()` never advances `prev`, so that
  removing an entry behind the first loses those before it and may leave a bucket that counts items and
  has no first (`map_remove`). `ImplementsLossyMap` and `TableIsExact` say that this is the only
  departure from a dictionary, `MultilookupReturns` what it leads to.
* `io_context.hpp:168`, "read / write ready", and `readable_pipe.hpp:118`, "the reactor notification
  ensures us this call will not block now": `set_awaiter` erases the interest the read end was registered
  with, so that data never wakes the consumer (`pipe_readiness`). The producer's loop in `driver1.cpp` has
  no end after which it would close its own end, which would.

Seen while modelling and kept out of the runs, or described by a property that says what holds
instead:

* `insert` and `update` answer an insertion with the address of their own parameter (`map.hpp:539`, `570`,
  `594`, `627`): the value in the answer cannot be read. No caller in the repository reads it.
* `count_down(0)` on an expired latch walks the stale list again; `LatchSafe` assumes positive
  decrements.
* A coroutine that entered the thread pool and pushes itself behind the sentinels is never
  resumed, although `shutdown()` says it waits for outstanding work; `QueuedAheadIsResumed` is what
  the queue does guarantee.
* A map with maximum capacity 1 has no buckets; a ring with as many suspended lookups as slots
  looks empty. The driver of the binary search accepts such a number of streams (256 or more), and
  the assertion of `coroutine.hpp:86` then fails.
* Both frame allocators reuse a free block that is at most as large as the request
  (`coro_infra.hpp:129`, `recycling_allocator.hpp:45`): `FramesFit` says that frames overflow only
  when different sizes are mixed.
* `eager_task.hpp:9-11` says that it differs from `task` in that it does not suspend initially;
  `task.hpp:70-73` does not either, and the `await_suspend` of both resumes the body as if it had:
  `co_await` of a task that is suspended on a timer resumes it ahead of the timer.
* `driver2.cpp` includes a header that is not in the repository.
* `lazy::get()` reads and destroys a frame that `final_suspend` (`suspend_never`) has already let
  go, although its comment says that the coroutine suspends at `co_return` (`lazy.hpp:40`).
* `task` is described as lazy (`task.hpp:245`, `when_all.hpp:138` and `206`) and is not. The example
  of `when_all`, whose bodies wait for a scheduler, therefore resumes them early
  (`OnlyStolenBreaks` says that this is the only way to undefined behaviour), and `main` also resumes
  the parent.
* `timer_service::shutdown()` may hang: the worker sleeps until an APC comes although the last
  request has already left its queue (`OnlySleepHangs`). Reactors may enter uncounted, and enter
  a closed service (line 413); `shutdown()` posts more keys than reactors, which hides it for a few.
  `n_inflight_timers` is not initialised: any value but 0 keeps the worker asleep, and one near 2^32
  wraps to 0 while a timer is armed. The waits of `queue.hpp` can return without the mutex.
* A timer moved from leaves its address with the kernel (`nix-timerfd/awaitable_timer.hpp:57`,
  `win-pool/awaitable_timer.hpp:74`), null at best and dangling if it was a temporary; the pool timer of
  `win-pool/awaitable.cpp` may be released by `wait_close` and then by its frame.
* `readable_pipe.hpp:85` initialises `len` with itself: a read may overrun the buffer.

## 5. What is proved

By TLAPS, for every value of the constants: any number of coroutines, threads, tasks, timers and
calls, and not just those of the runs. For each component one inductive invariant (`IInv`;
`LatchInv` of the latch, `LockInv` and over it `LineInv` of the lock, `PipeInv` of the pipes, `MapInv` of
the map, `LookupInv` of the multilookup) holds initially, is kept by every action, one lemma for each,
and implies the properties; TLC checked it on the instance of the run first.

| theorem | states | besides the property, the inductive invariant needs |
|---|---|---|
| `EventFollowsSuspended`, `EventSafe` | `NoDanglingWaiter`, `TypeOK` and `ReferencedOnce` of the event | nothing: each suspended coroutine is referenced exactly once, by the word, by a link of a suspended coroutine or by a thread in `set()`, so that resuming it leaves no pointer to it |
| `EventImplements` | `ImplementsEvent`: the event implements `AbstractEvent` | that invariant; every action maps to an abstract one or to a stutter. `set()`'s exchange is the abstract `set()`, because whoever waits is on the stack it takes or was released before |
| `LockSafe` | `TypeOK`, `MutualExclusion` of the lock | `Holds` counts the releaser as holder until the very step in which it resumes its successor |
| `LockLineExact`, `LockIsFifo` | `WaitingLineIsExact`, and the action property `FifoOrder` | three sequences without repetition and with no member in common: the stack behind the word, what `release()` has still to reverse of the stack it took, and the queue, each of which the links run through (`Lists`); and that a release that takes the stack has no queue to lose. `ChainIs` shows that the recursion over `next_awaiter`, which stops after as many links as there are coroutines, finds just these sequences; `LineJoined`, `LineShifted`, `LineTaken` and `LineLeft` say what a push, a turn of the reversal, the taking of the stack and the hand-over make of the line |
| `LatchSafe`, `LatchHolds` | `LatchTypeOK`, `WalkIsSafe` and `PassedMeansExpired` of the latch | three periods: until the releasing thread loads the stack, some set of suspended coroutines is closed under `next_awaiter` and holds the head (`StackOK`); while it walks, some such set holds its pointer (`ChainOK`); at most one thread ever releases (`OneReleaser`). The stack is left in place and goes stale, so nothing is true of it at all times; stating it as a closed set avoids induction over its length |
| `PoolCounts`, `OneResumer`, `NoWakeupLost` | `CountIsExact`, `TaskInOnePlace`, `NoLostWakeup` of the pool | who has a coroutine in hand (`TaskPlace`); until the batch of sentinels nobody exits and an unserved queue has somebody awake or about to notify (`BeforeBatch`); from then on there are as many sentinels as workers left, so that none goes to sleep again, and a notification to come for each that sleeps (`AfterBatch`) |
| `CounterExact`, `BreaksOnlyIfStolen`, `ParentAfterAll` | `CountIsExact`, `OnlyStolenBreaks`, `ResumedAfterAll` of `when_all` | where the parent's two loops stand (`BodyPlace`, `LoopPlace`), who is below a running body on the stack (`RunnerWaits`), what the flag of a promise means (`FlagMeans`), and that a source has the handle exactly of a body suspended on it (`HandleMeansRegistered`) |
| `TableStaysExact`, `MapImplements` | `TableIsExact` and `ImplementsLossyMap` of the map: types, counts, places and load, and the refinement of `AbstractMap` with removals that lose keys of one bucket | what the table holds, as a set (`Held`, in `MapInv`): an operation adds, replaces or takes out an entry, and a resize leaves the set as it is (`Kept` and `Rehashed` are characterised by their members). After a removal has dropped entries, `n_items` is not exact but never less than the number of entries, which is why it does not go below zero |
| `StreamsStayExact`, `FramesStayFit` | `StreamsAreExact` and `FramesFit` of the multilookup | at which stage of a call a coroutine may run (`Stages`); the slots between tail and head hold the suspended coroutines and are as many (`RingHolds`), which leaves a slot free because the limit bounds the coroutines alive; every block is of a size that was asked for before, and belongs to a live coroutine, to the one that waits in `spawn()` or to the free list (`HeapHolds`) |
| `HalvingIsSound`, `FramesAreRecycled` | `SearchIsSound` and `FramesRecycled` of the binary search | the invariant of the loop (`Sound`); that only frames that search are run (`StateMachine`, `Places`), and the accounting of limit, ring and blocks (`Counts`, `Heap`) |
| `WorkerServesUntilIdle` | `ServedUntilIdle` of the timer service | a request stands in the one queue that its place names, once (`Lines`), and one reactor has it (`Handled`): the word is then what it was left with plus the requests counted, modulo its width, and with no wrap it is 0 only when there are none |
| `MisuseOnly`, `OwnTimerResumes`, `JoinFindsResult` | `OnlyMisuseBreaks`, `ResumedByItsTimer`, `JoinedMeansEnded` of the single-reactor timers | the handle in the context of an event that is due is its owner's (`HandleInv`); a registered descriptor has its frame (`RegisteredInv`), and only a timer that was moved has lost its context before (`gone`); elsewhere what is due is what its owner awaits (`AwaitedInv`); a coroutine runs on the thread that may run it (`ThreadInv`), `wait_close` follows a `shutdown()` (`CloseInv`), and the flag of a promise means a result or the joiner (`JoinInv`) |
| `BreaksOnlyOnHangup` | `OnlyHangupsBreak` of the pipes | no end has both an awaiter and an interest (`NoInterest`), so that an event that carries an awaiter reports a hang-up, and does so still when it is handled, ends being never reopened (`AwaiterMeansHangup`); a consumer that was resumed therefore reads when the producer is gone |

Assumptions. Tags, coroutines, threads and requests are distinct; bounds are natural numbers. The
proofs that count need that clients of the pool and requests of the timer service are finitely many
(`IsFiniteSet` in `PoolAssumption` and `TimerAssumption`), and the waiting line that there are finitely
many coroutines (`FiniteAssumption` in `MCAsyncLock`, needed only by `LockLineExact` and `LockIsFifo`),
which a running program guarantees. The map starts with a bucket, and with no more than its maximum
(`CapacityAssumption`), which is so for every maximum but 1; the ring has more slots than there are
streams (`StreamsAssumption`, and in `SearchAssumption`). The code checks neither (section 4). The
theorems on the latch assume positive decrements, in their statements: with 0 the walk is not safe (section 4).
`CountModulus` may be any positive number, and `InflightModulus` any above the number of requests, so
that the wrap-around of both words is within the theorem.

Only model-checked, and why:

* Liveness: everything stated with `~>` or `<>` (`SuspendedWhenSetIsResumed`, `WaiterGetsLock`,
  `InTimeIsResumed`, `ExpiredHoldsNobody`, `QueuedAheadIsResumed`,
  `ShutdownEnds`, `WhenAllEnds`, `AcceptedIsHandled`, `QuietShutdownReturns`, `OnlySleepHangs`,
  `MainReturns`, `HangupWakesConsumer`, `DataWakesConsumer`, `MultilookupReturns`, `AllThreeAgree`). The prover has no
  rules for fairness and `ENABLED`.

That is all. `MultilookupReturns` and `AllThreeAgree` also say what is returned, the answers of the
sequential lookups and the number of keys found; as eventualities they stay with TLC.

Induction. The library's induction theorems have an operator as a parameter and cannot be used here.
Where a property is about a recursion (the walk along `next_awaiter`, the rehashing of a table), the
proofs use that a set of natural numbers that is not empty has a least element, on the set of those
for which the claim fails (`Induction` in `AwaitersProofs`, `Least` and what follows it in
`MapProofs`), and that a function with the equations of the recursion exists is proved with it
(`Recursion`, `UptoSteps`).

## 6. Plan

Done, in this order: `ManualResetEvent`, `AsyncLock`, `AsyncLatch`, `ThreadPool`, `Map`,
`WhenAll`, `TimerService`, `BinarySearch`, `InterleavedLookup` with the map, the allocator and the
generator, `TimerReactor` with `eager_task`, `PipeReactor`; then the proofs, the primitives first,
then the pool, `when_all`, pipes and timers, then binary search, the map, the multilookup and the
lock's waiting line.

Next, by importance:

1. The results of the multilookups as invariants of their own (each answer so far is the sequential
   one), which would take the liveness properties down to termination.
2. A timer service with shared timer handles and more reactors, whose uncounted entries the spare
   keys of `shutdown()` hide in the present instance.

## 7. Not modelled

* Memory orders weaker than sequential consistency.
* `shutdown()` of a pool from one of its own workers, which joins the thread it runs on; no driver
  does it.
* Move construction of guards and tasks, which transfers ownership within one thread.
* The value that a `task<T>` or `eager_task<T>` carries; `task::resume()` (that of `eager_task`, the
  same code, is in `TimerReactor`).
* What a write of a garbage length reads beyond the writer's buffer; what a program does after undefined
  behaviour.
* A map with maximum capacity 1, and rings with as many streams as slots.
* Moving and swapping generators; a generator that throws before its first key, which `begin()`
  rethrows to the caller before any lookup exists.
* The blocking timer drivers (`vanilla.cpp`), which have no coroutines; `lazy`.
* Shared timer handles of the timer service.
* Reading of arguments and timing in the drivers of the binary search; `state_machine_binary_search`
  of a single key.
* Map statistics, benchmarks, stress drivers, resource wrappers, teaching examples; `maybe`
  (incomplete), `async-rwlock` (a build file only), `win-pipe` (completion handling commented out).
