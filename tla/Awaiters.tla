------------------------------ MODULE Awaiters ------------------------------
(***************************************************************************)
(* What async_latch and async_lock have in common: a list of suspended     *)
(* coroutines, linked through the awaiters in their frames, so that an     *)
(* awaiter is named by its coroutine, and a thread that resumes them on    *)
(* its own stack.                                                          *)
(***************************************************************************)
CONSTANT NULL      \* nullptr

VARIABLES
    awaiters,      \* async_latch::awaiters, async_lock::awaiters
    pc,            \* where each coroutine stands
    next_awaiter,  \* latch_awaiter::next_awaiter, async_lock_awaiter::next_awaiter
    runs           \* the coroutine running inside a resume() of each thread, or NULL

\* c gave up its thread: the resume() that was running it, if any, returns.
ReturnToResumer(c) ==
    runs' = [k \in DOMAIN runs |-> IF runs[k] = c THEN NULL ELSE runs[k]]
=============================================================================
