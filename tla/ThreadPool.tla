----------------------------- MODULE ThreadPool -----------------------------
(***************************************************************************)
(* The thread pool of src/support/threadpool: one requests queue           *)
(* (requests_queue.c), a list of handler threads (handler_threads_pool.c), *)
(* the loop each handler thread runs (handler_thread.c) and the interface  *)
(* the service's main thread calls (thread_pool.c).                        *)
(*                                                                         *)
(* One mutex (pool->request_mutex, recursive) protects the queue; one      *)
(* condition variable (pool->got_request) wakes the handler threads.  Main *)
(* takes and releases the mutex within one call, so each of its critical   *)
(* sections is one step that needs the mutex to be free; a handler thread  *)
(* keeps the mutex across the decisions of its loop, so it is a variable.  *)
(* lwfs_exit_now() (signal/lwfs_signal.c) is read without any lock.        *)
(***************************************************************************)
EXTENDS Integers, Sequences

CONSTANTS
  MinArg, MaxArg, InitialArg,  \* lwfs_thread_pool_args as the caller set them
  LowArg, HighArg,
  MaxRequests                  \* bound: requests added in one behaviour

ASSUME PoolAssumption ==
  /\ MinArg \in Int /\ MaxArg \in Int /\ InitialArg \in Int
  /\ LowArg \in Int /\ HighArg \in Int
  /\ MaxRequests \in Nat

MIN_HANDLER_THREADS == 3
MAX_HANDLER_THREADS == 14
LOW_WATERMARK == 3
HIGH_WATERMARK == 15

-----------------------------------------------------------------------------
(* lwfs_thread_pool_init: the arguments after they have been made sane.    *)

min_thread_count == IF MinArg < 1 THEN MIN_HANDLER_THREADS ELSE MinArg

max_thread_count ==
  IF MaxArg < min_thread_count
    THEN min_thread_count + (MAX_HANDLER_THREADS - MIN_HANDLER_THREADS)
    ELSE MaxArg

initial_thread_count ==
  IF InitialArg < min_thread_count THEN min_thread_count
  ELSE IF InitialArg > max_thread_count THEN max_thread_count
  ELSE InitialArg

low_watermark == IF LowArg < 1 THEN LOW_WATERMARK ELSE LowArg

high_watermark ==
  IF HighArg < low_watermark
    THEN low_watermark + (HIGH_WATERMARK - LOW_WATERMARK)
    ELSE HighArg

-----------------------------------------------------------------------------
Threads  == 1 .. max_thread_count    \* handler threads by rank (thr_id + 1)
Requests == 1 .. MaxRequests         \* requests in the order they are added
None     == 0                        \* no thread, or no request

VARIABLES
  requests,       \* the queue's linked list
  mutex,          \* the handler thread that holds request_mutex, or None
  pc,             \* where each handler thread is in handle_requests_loop
  a_request,      \* the request a handler thread took and has not freed
  max_thr_id,     \* handler threads created so far
  joined,         \* handler threads removed from the list and joined
  shutdown_now,   \* pool->shutdown_now
  exit_now,       \* lwfs_exit_now()
  main,           \* where the owner of the pool is
  added,          \* requests handed to lwfs_thread_pool_add_request
  handled,        \* requests whose handler returned
  discarded       \* requests delete_requests_queue freed unhandled

queueVars  == <<requests, added, handled, discarded>>
threadVars == <<mutex, pc, a_request>>
poolVars   == <<max_thr_id, joined>>
flagVars   == <<shutdown_now, exit_now>>
vars == <<queueVars, threadVars, poolVars, flagVars, main>>

num_threads == max_thr_id - joined   \* length of the handler_threads list

\* "lock" is every place where a thread is about to acquire the mutex at the
\* head of the loop: when it starts, when its handler returned, and when
\* pthread_cond_wait was woken.
ThreadStates == {"none", "lock", "loop", "handle", "wait", "exited"}
MainStates == {"serve", "grow", "join", "done"}

TypeOK ==
  /\ requests \in Seq(Requests)
  /\ mutex \in Threads \cup {None}
  /\ pc \in [Threads -> ThreadStates]
  /\ a_request \in [Threads -> Requests \cup {None}]
  /\ max_thr_id \in initial_thread_count .. max_thread_count
  /\ joined \in 0 .. max_thr_id
  /\ shutdown_now \in BOOLEAN
  /\ exit_now \in BOOLEAN
  /\ main \in MainStates
  /\ added \in 0 .. MaxRequests
  /\ handled \in SUBSET Requests
  /\ discarded \in SUBSET Requests

\* lwfs_thread_pool_init has created the initial threads.
Init ==
  /\ requests = <<>>
  /\ mutex = None
  /\ pc = [t \in Threads |-> IF t <= initial_thread_count THEN "lock" ELSE "none"]
  /\ a_request = [t \in Threads |-> None]
  /\ max_thr_id = initial_thread_count
  /\ joined = 0
  /\ shutdown_now = FALSE
  /\ exit_now = FALSE
  /\ main = "serve"
  /\ added = 0
  /\ handled = {}
  /\ discarded = {}

-----------------------------------------------------------------------------
(* The owner of the pool.                                                  *)

\* pthread_cond_signal wakes one waiting thread, if there is one.
Signal ==
  \/ \E t \in Threads : pc[t] = "wait" /\ pc' = [pc EXCEPT ![t] = "lock"]
  \/ (\A t \in Threads : pc[t] # "wait") /\ UNCHANGED pc

\* pthread_cond_broadcast wakes them all.
Broadcast ==
  pc' = [t \in Threads |-> IF pc[t] = "wait" THEN "lock" ELSE pc[t]]

\* Mutants of AddRequest: the empty-list case taken with one request queued,
\* the signal forgotten, and the request linked in at the wrong end.
AddRequestBy(list, wake) ==
  /\ main = "serve"
  /\ added < MaxRequests
  /\ mutex = None
  /\ added' = added + 1
  /\ requests' = list
  /\ wake
  /\ main' = "grow"
  /\ UNCHANGED <<handled, discarded, mutex, a_request, poolVars, flagVars>>

AddRequestDropsFirst ==
  AddRequestBy(IF Len(requests) <= 1 THEN <<added + 1>>
                                     ELSE Append(requests, added + 1), Signal)
AddRequestNoSignal == AddRequestBy(Append(requests, added + 1), UNCHANGED pc)
AddRequestAtHead == AddRequestBy(<<added + 1>> \o requests, Signal)

\* lwfs_thread_pool_add_request, first half: add_request.
AddRequest ==
  /\ main = "serve"
  /\ added < MaxRequests
  /\ mutex = None
  /\ added' = added + 1
  /\ requests' = Append(requests, added + 1)
  /\ Signal
  /\ main' = "grow"
  /\ UNCHANGED <<handled, discarded, mutex, a_request, poolVars, flagVars>>

\* Mutant of GrowPool: a thread is added without regard to max_thread_count.
GrowPoolUnbounded ==
  /\ main = "grow"
  /\ mutex = None
  /\ IF Len(requests) > high_watermark
       THEN /\ max_thr_id' = max_thr_id + 1
            /\ pc' = [pc EXCEPT ![max_thr_id + 1] = "lock"]
       ELSE UNCHANGED <<max_thr_id, pc>>
  /\ main' = "serve"
  /\ UNCHANGED <<queueVars, mutex, a_request, joined, flagVars>>

\* Second half: the length is read in a critical section of its own, after the
\* queue may have been drained, and a thread is created when it is too long.
\* (The branch that would cancel a thread at the low watermark only logs.)
GrowPool ==
  /\ main = "grow"
  /\ mutex = None
  /\ IF Len(requests) > high_watermark /\ num_threads < max_thread_count
       THEN /\ max_thr_id' = max_thr_id + 1
            /\ pc' = [pc EXCEPT ![max_thr_id + 1] = "lock"]
       ELSE UNCHANGED <<max_thr_id, pc>>
  /\ main' = "serve"
  /\ UNCHANGED <<queueVars, mutex, a_request, joined, flagVars>>

\* Mutant of CancelThreads: one thread is signalled instead of all.
CancelThreadsSignalsOne ==
  /\ main = "serve"
  /\ mutex = None
  /\ shutdown_now' = TRUE
  /\ Signal
  /\ main' = "join"
  /\ UNCHANGED <<queueVars, mutex, a_request, poolVars, exit_now>>

\* lwfs_thread_pool_fini / cancel_handler_threads: flag and broadcast.
CancelThreads ==
  /\ main = "serve"
  /\ mutex = None
  /\ shutdown_now' = TRUE
  /\ Broadcast
  /\ main' = "join"
  /\ UNCHANGED <<queueVars, mutex, a_request, poolVars, exit_now>>

\* Mutant of JoinThread: the thread is removed from the list but not joined.
JoinThreadNoWait ==
  /\ main = "join"
  /\ num_threads > 0
  /\ joined' = joined + 1
  /\ UNCHANGED <<queueVars, threadVars, max_thr_id, flagVars, main>>

\* cancel_handler_threads: remove the first thread of the list and join it.
JoinThread ==
  /\ main = "join"
  /\ num_threads > 0
  /\ pc[joined + 1] = "exited"
  /\ joined' = joined + 1
  /\ UNCHANGED <<queueVars, threadVars, max_thr_id, flagVars, main>>

\* delete_requests_queue and delete_handler_threads_pool: everything is freed,
\* the requests still queued with it.
DeletePool ==
  /\ main = "join"
  /\ num_threads = 0
  /\ discarded' = discarded \cup {requests[i] : i \in DOMAIN requests}
  /\ requests' = <<>>
  /\ main' = "done"
  /\ UNCHANGED <<added, handled, threadVars, poolVars, flagVars>>

-----------------------------------------------------------------------------
(* handle_requests_loop, run by handler thread t.                          *)

LockMutex(t) ==
  /\ pc[t] = "lock"
  /\ mutex = None
  /\ mutex' = t
  /\ pc' = [pc EXCEPT ![t] = "loop"]
  /\ UNCHANGED <<queueVars, a_request, poolVars, flagVars, main>>

\* A thread at the head of its loop leaves with the mutex released.
LeaveLoop(t, next) ==
  /\ pc[t] = "loop"
  /\ mutex' = None
  /\ pc' = [pc EXCEPT ![t] = next]

\* while (!lwfs_exit_now()) fails: pending requests are left in the queue.
ExitNow(t) ==
  /\ exit_now
  /\ LeaveLoop(t, "exited")
  /\ UNCHANGED <<queueVars, a_request, poolVars, flagVars, main>>

\* get_request, then the mutex is released for the handler to run.
TakeRequest(t) ==
  /\ ~exit_now
  /\ requests # <<>>
  /\ a_request' = [a_request EXCEPT ![t] = Head(requests)]
  /\ requests' = Tail(requests)
  /\ LeaveLoop(t, "handle")
  /\ UNCHANGED <<added, handled, discarded, poolVars, flagVars, main>>

\* Mutant of ShutdownExit: the flag is looked at before the queue.
ShutdownExitEarly(t) ==
  /\ ~exit_now
  /\ shutdown_now
  /\ LeaveLoop(t, "exited")
  /\ UNCHANGED <<queueVars, a_request, poolVars, flagVars, main>>

\* The queue is empty and no new requests are going to be generated.
ShutdownExit(t) ==
  /\ ~exit_now
  /\ requests = <<>>
  /\ shutdown_now
  /\ LeaveLoop(t, "exited")
  /\ UNCHANGED <<queueVars, a_request, poolVars, flagVars, main>>

\* pthread_cond_wait releases the mutex.
CondWait(t) ==
  /\ ~exit_now
  /\ requests = <<>>
  /\ ~shutdown_now
  /\ LeaveLoop(t, "wait")
  /\ UNCHANGED <<queueVars, a_request, poolVars, flagVars, main>>

\* POSIX lets pthread_cond_wait return without a signal.
SpuriousWakeup(t) ==
  /\ pc[t] = "wait"
  /\ pc' = [pc EXCEPT ![t] = "lock"]
  /\ UNCHANGED <<queueVars, mutex, a_request, poolVars, flagVars, main>>

\* The handler returns and the request is freed.
HandlerReturn(t) ==
  /\ pc[t] = "handle"
  /\ handled' = handled \cup {a_request[t]}
  /\ a_request' = [a_request EXCEPT ![t] = None]
  /\ pc' = [pc EXCEPT ![t] = "lock"]
  /\ UNCHANGED <<requests, added, discarded, mutex, poolVars, flagVars, main>>

-----------------------------------------------------------------------------
\* A signal, or a handler that calls lwfs_abort, at any time.
Abort ==
  /\ ~exit_now
  /\ exit_now' = TRUE
  /\ UNCHANGED <<queueVars, threadVars, poolVars, shutdown_now, main>>

\* The pool is gone; nothing else happens.
Finished == main = "done" /\ UNCHANGED vars

HandlerStep(t) ==
  LockMutex(t) \/ ExitNow(t) \/ TakeRequest(t) \/ ShutdownExit(t)
    \/ CondWait(t) \/ HandlerReturn(t)

OwnerStep == AddRequest \/ GrowPool \/ CancelThreads \/ JoinThread \/ DeletePool

Next ==
  \/ OwnerStep
  \/ \E t \in Threads : HandlerStep(t) \/ SpuriousWakeup(t)
  \/ Abort
  \/ Finished

Spec == Init /\ [][Next]_vars

\* Threads run, handlers return, and a call of the interface that has begun is
\* carried on.  Nothing obliges the owner to add requests, to call fini, or
\* the implementation to wake a thread spuriously.
Fairness ==
  /\ \A t \in Threads : WF_vars(HandlerStep(t))
  /\ WF_vars(JoinThread \/ DeletePool)

FairSpec == Spec /\ Fairness

-----------------------------------------------------------------------------
(* Properties.                                                             *)

Queued  == {requests[i] : i \in DOMAIN requests}
Running == {a_request[t] : t \in {u \in Threads : pc[u] = "handle"}}

\* Every request that was added is in exactly one place: waiting in the queue,
\* in the hands of one handler thread, handled, or freed with the queue.  No
\* interleaving of add_request, get_request and the handlers' returns loses or
\* duplicates one.
EachRequestOnce ==
  /\ 1 .. added = Queued \cup Running \cup handled \cup discarded
  /\ Queued \cap (Running \cup handled \cup discarded) = {}
  /\ Running \cap (handled \cup discarded) = {}
  /\ handled \cap discarded = {}
  /\ \A i, j \in DOMAIN requests : requests[i] = requests[j] => i = j
  /\ \A t, u \in Threads :
       pc[t] = "handle" /\ pc[u] = "handle" /\ a_request[t] = a_request[u] => t = u

\* No lost wakeup: while requests are queued and no exit was asked for, some
\* handler thread is on its way to the head of its loop; add_request's single
\* pthread_cond_signal is enough.
NoLostWakeup ==
  requests # <<>> /\ ~exit_now =>
    \E t \in Threads : pc[t] \in {"lock", "loop", "handle"}

\* lwfs_thread_pool_fini drains the queue: if it discards a request unhandled
\* then lwfs_exit_now() was true.
DrainedUnlessExit == discarded # {} => exit_now

\* When fini has freed the queue and the threads' parameters, every thread
\* that was ever created has left its loop.
NoThreadOutlivesPool ==
  main = "done" => \A t \in Threads : pc[t] \in {"none", "exited"}

\* Every request that is added is handled, unless the service is told to exit.
RequestsGetHandled ==
  \A r \in Requests : (r <= added) ~> (r \in handled \/ exit_now)

\* lwfs_thread_pool_fini returns: no handler thread is left asleep in
\* pthread_cond_wait when it is joined.
FiniReturns == (main = "join") ~> (main = "done")

\* The pool gets on: what lwfs_thread_pool_add_request accepts is handled, and
\* lwfs_thread_pool_fini returns.
PoolGetsOn == RequestsGetHandled /\ FiniReturns

\* What thread_pool.h says of low_watermark, "request queue size at which we
\* start killing threads": the check made after adding a request with few
\* requests queued and more threads than the minimum removes a thread.
LowWatermarkShrinksPool ==
  [][ (GrowPool /\ Len(requests) < low_watermark /\ num_threads > min_thread_count)
        => num_threads' < num_threads ]_vars

-----------------------------------------------------------------------------
(* The pool implements the abstract work queue.                            *)

status == [r \in Requests |->
  IF r \in discarded THEN "dropped"
  ELSE IF r \in handled THEN "done"
  ELSE IF r \in Running THEN "running"
  ELSE IF r \in Queued THEN "queued"
  ELSE "new"]

WQ == INSTANCE WorkQueue WITH aborted <- exit_now, closed <- (main = "done")

\* The pool is a work queue: requests start in the order they were added, each
\* is run at most once, fini waits for running handlers, and requests are
\* dropped only after an exit request.
ImplementsWorkQueue == WQ!WQSpec
=============================================================================
