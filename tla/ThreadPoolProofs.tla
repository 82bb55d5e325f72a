-------------------------- MODULE ThreadPoolProofs --------------------------
(***************************************************************************)
(* Proofs about the thread pool, for every setting of the pool's arguments *)
(* and any number of requests.                                             *)
(***************************************************************************)
EXTENDS ThreadPool, TLAPS

(***************************************************************************)
(* The inductive invariant, in named parts.                                *)
(***************************************************************************)

\* The thread at the head of its loop is the one that holds the mutex.
MutexInv == \A t \in Threads : pc[t] = "loop" <=> mutex = t

\* Exactly the threads that run a handler have a request.
HandlerInv == \A t \in Threads : pc[t] = "handle" <=> a_request[t] # None

\* The list of threads is joined + 1 .. max_thr_id, and joining waits.
ListInv ==
  /\ \A t \in Threads : pc[t] = "none" <=> t > max_thr_id
  /\ \A t \in Threads : t <= joined => pc[t] = "exited"

\* How far the owner is.
OwnerInv ==
  /\ main \in {"serve", "grow"} <=> ~shutdown_now
  /\ ~shutdown_now => joined = 0
  /\ main # "done" => discarded = {}
  /\ main = "done" => requests = <<>> /\ joined = max_thr_id

\* A thread leaves an open pool, or a queue with requests, only on exit_now.
ExitInv ==
  \A t \in Threads : pc[t] = "exited" /\ ~exit_now => requests = <<>> /\ shutdown_now

\* The queue holds the youngest requests, in order.
QueueInv ==
  /\ Len(requests) <= added
  /\ \A i \in 1 .. Len(requests) : requests[i] = added - Len(requests) + i

\* Requests that left the queue are with one thread, handled, or discarded.
PlaceInv ==
  /\ \A r \in Requests :
       r <= added - Len(requests) <=>
         r \in handled \/ r \in discarded \/ \E t \in Threads : a_request[t] = r
  /\ \A t \in Threads : a_request[t] \notin handled \cup discarded
  /\ handled \cap discarded = {}
  /\ \A t, u \in Threads : a_request[t] = a_request[u] /\ a_request[t] # None => t = u

IInv ==
  /\ TypeOK
  /\ MutexInv
  /\ HandlerInv
  /\ ListInv
  /\ OwnerInv
  /\ ExitInv
  /\ QueueInv
  /\ PlaceInv
  /\ NoLostWakeup
  /\ DrainedUnlessExit

-----------------------------------------------------------------------------
(* The arguments after lwfs_thread_pool_init.                              *)

\* Whatever the caller passed, the pool starts with at least one thread and
\* with no more than its maximum (the clamping at the head of
\* lwfs_thread_pool_init).
LEMMA PoolArgsSane ==
  /\ min_thread_count \in Nat /\ min_thread_count >= 1
  /\ max_thread_count \in Nat /\ max_thread_count >= min_thread_count
  /\ initial_thread_count \in min_thread_count .. max_thread_count
  /\ low_watermark \in Nat /\ high_watermark \in Nat /\ high_watermark >= low_watermark
<1>1. min_thread_count \in Nat /\ min_thread_count >= 1
  BY PoolAssumption DEF min_thread_count, MIN_HANDLER_THREADS
<1>2. max_thread_count \in Nat /\ max_thread_count >= min_thread_count
  BY <1>1, PoolAssumption DEF max_thread_count, MIN_HANDLER_THREADS, MAX_HANDLER_THREADS
<1>3. initial_thread_count \in min_thread_count .. max_thread_count
  BY <1>1, <1>2, PoolAssumption DEF initial_thread_count
<1>4. low_watermark \in Nat
  BY PoolAssumption DEF low_watermark, LOW_WATERMARK
<1>5. high_watermark \in Nat /\ high_watermark >= low_watermark
  BY <1>4, PoolAssumption DEF high_watermark, LOW_WATERMARK, HIGH_WATERMARK
<1> QED BY <1>1, <1>2, <1>3, <1>4, <1>5

\* Thread numbers are positive, so they differ from None; thread 1 exists.
LEMMA ThreadsFacts ==
  /\ Threads \subseteq Nat \ {None}
  /\ 1 \in Threads
  /\ Requests \subseteq Nat \ {None}
BY PoolArgsSane, PoolAssumption DEF Threads, Requests, None

\* The initial state satisfies the invariant.
LEMMA InitInv == Init => IInv
<1> SUFFICES ASSUME Init PROVE IInv
  OBVIOUS
<1>1. TypeOK
  <2>1. pc \in [Threads -> ThreadStates] /\ a_request \in [Threads -> Requests \cup {None}]
    BY DEF Init, ThreadStates
  <2>2. max_thr_id \in initial_thread_count .. max_thread_count /\ joined \in 0 .. max_thr_id
    BY PoolArgsSane DEF Init
  <2>3. requests \in Seq(Requests) /\ added \in 0 .. MaxRequests
    BY PoolAssumption DEF Init
  <2> QED BY <2>1, <2>2, <2>3 DEF Init, TypeOK, MainStates
<1>2. MutexInv /\ HandlerInv /\ OwnerInv /\ ExitInv /\ DrainedUnlessExit /\ NoLostWakeup
  BY ThreadsFacts DEF Init, MutexInv, HandlerInv, OwnerInv, ExitInv, DrainedUnlessExit, NoLostWakeup
<1>3. ListInv
  BY PoolArgsSane DEF Init, ListInv, Threads
<1>4. QueueInv
  BY DEF Init, QueueInv
<1>5. PlaceInv
  BY ThreadsFacts DEF Init, PlaceInv, None
<1> QED BY <1>1, <1>2, <1>3, <1>4, <1>5 DEF IInv

-----------------------------------------------------------------------------
(* The steps of the owner.                                                 *)

\* pthread_cond_signal and pthread_cond_broadcast only move sleeping threads
\* back to the lock, and signal moves one whenever there is one.
LEMMA WakeFacts ==
  ASSUME pc \in [Threads -> ThreadStates], Signal \/ Broadcast
  PROVE  /\ pc' \in [Threads -> ThreadStates]
         /\ \A t \in Threads : pc[t] # "wait" => pc'[t] = pc[t]
         /\ \A t \in Threads : pc[t] = "wait" => pc'[t] \in {"wait", "lock"}
         /\ (\E t \in Threads : pc[t] = "wait") => \E t \in Threads : pc'[t] = "lock"
<1>1. CASE Signal
  <2>1. CASE \E t \in Threads : pc[t] = "wait" /\ pc' = [pc EXCEPT ![t] = "lock"]
    BY <2>1 DEF ThreadStates
  <2>2. CASE (\A t \in Threads : pc[t] # "wait") /\ UNCHANGED pc
    BY <2>2
  <2> QED BY <1>1, <2>1, <2>2 DEF Signal
<1>2. CASE Broadcast
  BY <1>2 DEF Broadcast, ThreadStates
<1> QED BY <1>1, <1>2

\* Waking threads disturbs no part of the invariant that speaks of pc alone.
LEMMA WakeInv ==
  ASSUME TypeOK, Signal \/ Broadcast,
         UNCHANGED <<mutex, a_request, max_thr_id, joined>>,
         MutexInv, HandlerInv, ListInv
  PROVE  MutexInv' /\ HandlerInv' /\ ListInv'
<1>1. pc \in [Threads -> ThreadStates]
  BY DEF TypeOK
<1>2. \A t \in Threads : \A s \in {"loop", "handle", "none"} : pc'[t] = s <=> pc[t] = s
  BY <1>1, WakeFacts
<1>3. \A t \in Threads : pc[t] = "exited" => pc'[t] = "exited"
  BY <1>1, WakeFacts
<1>4. MutexInv'
  BY <1>2 DEF MutexInv
<1>5. HandlerInv'
  BY <1>2 DEF HandlerInv
<1>6. ListInv'
  BY <1>2, <1>3 DEF ListInv
<1> QED BY <1>4, <1>5, <1>6

\* add_request preserves the invariant: the request goes to the end of the
\* queue and, if every thread is asleep, one is woken.
LEMMA AddRequestInv == ASSUME IInv, AddRequest PROVE IInv'
<1> USE DEF IInv
<1>1. pc \in [Threads -> ThreadStates] /\ (Signal \/ Broadcast)
  BY DEF TypeOK, AddRequest
<1>2. added \in Nat /\ added + 1 \in Requests /\ requests \in Seq(Requests)
  BY PoolAssumption DEF TypeOK, AddRequest, Requests
<1>3. /\ requests' \in Seq(Requests)
      /\ Len(requests') = Len(requests) + 1
      /\ \A i \in 1 .. Len(requests) : requests'[i] = requests[i]
      /\ requests'[Len(requests) + 1] = added + 1
  BY <1>2 DEF AddRequest
<1>4. TypeOK'
  BY <1>1, <1>2, <1>3, WakeFacts, PoolAssumption
  DEF TypeOK, AddRequest, poolVars, flagVars, MainStates
<1>5. MutexInv' /\ HandlerInv' /\ ListInv'
  BY WakeInv DEF AddRequest, poolVars
<1>6. OwnerInv' /\ DrainedUnlessExit'
  BY DEF OwnerInv, DrainedUnlessExit, AddRequest, poolVars, flagVars
<1>7. \A t \in Threads : pc[t] = "exited" => exit_now
  BY DEF ExitInv, OwnerInv, AddRequest
<1>8. ExitInv'
  <2> SUFFICES ASSUME NEW t \in Threads, pc'[t] = "exited" PROVE exit_now'
    BY DEF ExitInv
  <2>1. pc[t] = "exited"
    BY <1>1, WakeFacts
  <2> QED BY <1>7, <2>1 DEF AddRequest, flagVars
<1>9. QueueInv'
  <2>1. Len(requests) \in Nat /\ added' = added + 1
    BY <1>2 DEF AddRequest
  <2>2. Len(requests') <= added'
    BY <1>2, <1>3, <2>1 DEF QueueInv
  <2>3. ASSUME NEW i \in 1 .. Len(requests')
        PROVE  requests'[i] = added' - Len(requests') + i
    <3>1. CASE i = Len(requests) + 1
      BY <1>2, <1>3, <2>1, <3>1
    <3>2. CASE i # Len(requests) + 1
      BY <1>2, <1>3, <2>1, <2>3, <3>2 DEF QueueInv
    <3> QED BY <3>1, <3>2
  <2> QED BY <2>2, <2>3 DEF QueueInv
<1>10. PlaceInv'
  <2>1. added' - Len(requests') = added - Len(requests)
    BY <1>2, <1>3 DEF AddRequest
  <2> QED BY <2>1 DEF PlaceInv, AddRequest
<1>11. NoLostWakeup'
  <2> SUFFICES ASSUME ~exit_now
               PROVE  \E t \in Threads : pc'[t] \in {"lock", "loop", "handle"}
    BY DEF NoLostWakeup, AddRequest, flagVars
  <2>1. CASE \E t \in Threads : pc[t] = "wait"
    BY <1>1, <2>1, WakeFacts
  <2>2. CASE \A t \in Threads : pc[t] # "wait"
    <3>1. pc[1] \notin {"none", "exited", "wait"}
      BY <1>7, <2>2, ThreadsFacts, PoolArgsSane DEF ListInv, TypeOK
    <3> QED BY <1>1, <2>2, <3>1, ThreadsFacts, WakeFacts DEF ThreadStates
  <2> QED BY <2>1, <2>2
<1> QED BY <1>4, <1>5, <1>6, <1>8, <1>9, <1>10, <1>11

\* lwfs_thread_pool_add_request's second half preserves the invariant: the new
\* thread's number is fresh and within max_thread_count.
LEMMA GrowPoolInv == ASSUME IInv, GrowPool PROVE IInv'
<1> USE DEF IInv
<1>0. UNCHANGED <<queueVars, mutex, a_request, joined, flagVars>>
  BY DEF GrowPool
<1>1. CASE UNCHANGED <<max_thr_id, pc>>
  <2>1. OwnerInv' /\ TypeOK'
    BY <1>0, <1>1 DEF OwnerInv, TypeOK, GrowPool, MainStates, queueVars, flagVars
  <2>2. MutexInv' /\ HandlerInv' /\ ListInv' /\ ExitInv'
    BY <1>0, <1>1 DEF MutexInv, HandlerInv, ListInv, ExitInv, queueVars, flagVars
  <2>3. QueueInv' /\ PlaceInv' /\ NoLostWakeup' /\ DrainedUnlessExit'
    BY <1>0, <1>1 DEF QueueInv, PlaceInv, NoLostWakeup, DrainedUnlessExit, queueVars, flagVars
  <2> QED BY <2>1, <2>2, <2>3
<1>2. CASE /\ num_threads < max_thread_count
           /\ max_thr_id' = max_thr_id + 1
           /\ pc' = [pc EXCEPT ![max_thr_id + 1] = "lock"]
  <2>1. main = "grow" /\ main' = "serve" /\ ~shutdown_now /\ joined = 0
    BY DEF GrowPool, OwnerInv
  <2>2. max_thr_id + 1 \in Threads /\ pc[max_thr_id + 1] = "none"
    BY <1>2, <2>1, PoolArgsSane DEF TypeOK, num_threads, Threads, ListInv
  <2>3. /\ \A t \in Threads : pc'[t] = IF t = max_thr_id + 1 THEN "lock" ELSE pc[t]
        /\ pc' \in [Threads -> ThreadStates]
    BY <1>2, <2>2 DEF TypeOK, ThreadStates
  <2>4. max_thr_id' \in initial_thread_count .. max_thread_count /\ joined' \in 0 .. max_thr_id'
    BY <1>0, <1>2, <2>1, PoolArgsSane DEF TypeOK, num_threads
  <2>5. TypeOK'
    BY <1>0, <2>1, <2>3, <2>4 DEF TypeOK, MainStates, queueVars, flagVars
  <2>6. OwnerInv'
    BY <1>0, <2>1 DEF OwnerInv, queueVars, flagVars
  <2>7. MutexInv' /\ HandlerInv' /\ ExitInv'
    BY <1>0, <2>2, <2>3 DEF MutexInv, HandlerInv, ExitInv, queueVars, flagVars
  <2>8. ListInv'
    BY <1>0, <1>2, <2>1, <2>2, <2>3, PoolArgsSane DEF ListInv, TypeOK, Threads
  <2>9. QueueInv' /\ PlaceInv' /\ DrainedUnlessExit'
    BY <1>0 DEF QueueInv, PlaceInv, DrainedUnlessExit, queueVars, flagVars
  <2>10. NoLostWakeup'
    BY <1>0, <2>2, <2>3 DEF NoLostWakeup, queueVars, flagVars
  <2> QED BY <2>5, <2>6, <2>7, <2>8, <2>9, <2>10
<1> QED BY <1>1, <1>2 DEF GrowPool

\* cancel_handler_threads' flag and broadcast preserve the invariant.
LEMMA CancelThreadsInv == ASSUME IInv, CancelThreads PROVE IInv'
<1> USE DEF IInv
<1>0. UNCHANGED <<queueVars, mutex, a_request, poolVars, exit_now>>
  BY DEF CancelThreads
<1>1. pc \in [Threads -> ThreadStates] /\ (Signal \/ Broadcast)
  BY DEF TypeOK, CancelThreads
<1>2. TypeOK'
  BY <1>0, <1>1, WakeFacts DEF TypeOK, CancelThreads, MainStates, queueVars, poolVars
<1>3. MutexInv' /\ HandlerInv' /\ ListInv'
  BY <1>0, <1>1, WakeInv DEF poolVars
<1>4. OwnerInv' /\ QueueInv' /\ PlaceInv' /\ DrainedUnlessExit'
  BY <1>0 DEF OwnerInv, QueueInv, PlaceInv, DrainedUnlessExit, CancelThreads, queueVars, poolVars
<1>5. ExitInv'
  BY <1>0, <1>1, WakeFacts DEF ExitInv, CancelThreads, queueVars
<1>6. NoLostWakeup'
  <2> SUFFICES ASSUME ~exit_now, requests # <<>>
               PROVE  \E t \in Threads : pc'[t] \in {"lock", "loop", "handle"}
    BY <1>0 DEF NoLostWakeup, queueVars
  <2>1. PICK t \in Threads : pc[t] \in {"lock", "loop", "handle"}
    BY DEF NoLostWakeup
  <2> QED BY <1>1, <2>1, WakeFacts
<1> QED BY <1>2, <1>3, <1>4, <1>5, <1>6

\* Joining a thread preserves the invariant: it has left its loop.
LEMMA JoinThreadInv == ASSUME IInv, JoinThread PROVE IInv'
<1> USE DEF IInv
<1>0. UNCHANGED <<queueVars, threadVars, max_thr_id, flagVars, main>>
  BY DEF JoinThread
<1>1. joined' = joined + 1 /\ joined \in Nat /\ max_thr_id \in Nat /\ joined < max_thr_id
  BY PoolArgsSane DEF JoinThread, TypeOK, num_threads
<1>2. TypeOK'
  BY <1>0, <1>1 DEF TypeOK, queueVars, threadVars, flagVars
<1>3. MutexInv' /\ HandlerInv' /\ ExitInv'
  BY <1>0 DEF MutexInv, HandlerInv, ExitInv, queueVars, threadVars, flagVars
<1>4. ListInv'
  BY <1>0, <1>1 DEF ListInv, JoinThread, threadVars, Threads
<1>5. OwnerInv'
  BY <1>0 DEF OwnerInv, JoinThread, queueVars, flagVars
<1>6. QueueInv' /\ PlaceInv' /\ NoLostWakeup' /\ DrainedUnlessExit'
  BY <1>0 DEF QueueInv, PlaceInv, NoLostWakeup, DrainedUnlessExit, queueVars, threadVars, flagVars
<1> QED BY <1>2, <1>3, <1>4, <1>5, <1>6

\* Freeing the queue preserves the invariant: thread 1 left its loop, so either
\* the queue is empty or exit_now is true.
LEMMA DeletePoolInv == ASSUME IInv, DeletePool PROVE IInv'
<1> USE DEF IInv
<1>0. UNCHANGED <<added, handled, threadVars, poolVars, flagVars>>
  BY DEF DeletePool
<1>1. discarded = {} /\ shutdown_now /\ joined = max_thr_id
  BY PoolArgsSane DEF OwnerInv, DeletePool, num_threads, TypeOK
<1>2. 1 \in Threads /\ pc[1] = "exited"
  BY <1>1, ThreadsFacts, PoolArgsSane DEF ListInv, TypeOK
<1>3. requests # <<>> => exit_now
  BY <1>2 DEF ExitInv
<1>4. discarded' = {requests[i] : i \in DOMAIN requests} /\ requests' = <<>> /\ main' = "done"
  BY <1>1 DEF DeletePool
<1>5. requests \in Seq(Requests) /\ DOMAIN requests = 1 .. Len(requests) /\ Len(requests) \in Nat
  BY DEF TypeOK
<1>6. TypeOK'
  BY <1>0, <1>4, <1>5 DEF TypeOK, MainStates, threadVars, poolVars, flagVars
<1>7. MutexInv' /\ HandlerInv' /\ ListInv'
  BY <1>0 DEF MutexInv, HandlerInv, ListInv, threadVars, poolVars
<1>8. OwnerInv' /\ ExitInv'
  BY <1>0, <1>1, <1>4 DEF OwnerInv, ExitInv, threadVars, poolVars, flagVars
<1>9. QueueInv' /\ NoLostWakeup'
  BY <1>0, <1>4, <1>5 DEF QueueInv, NoLostWakeup, TypeOK
<1>10. DrainedUnlessExit'
  BY <1>0, <1>3, <1>4 DEF DrainedUnlessExit, flagVars
<1>11. PlaceInv'
  <2>1. added \in Nat /\ Len(requests) <= added /\ Len(requests') = 0
    BY <1>4, PoolAssumption DEF TypeOK, QueueInv
  <2>2. \A r \in Requests :
          r \in discarded' <=> r > added - Len(requests) /\ r <= added
    <3> SUFFICES ASSUME NEW r \in Requests
                 PROVE  r \in discarded' <=> r > added - Len(requests) /\ r <= added
      OBVIOUS
    <3>1. ASSUME r \in discarded' PROVE r > added - Len(requests) /\ r <= added
      BY <1>4, <1>5, <2>1, <3>1 DEF QueueInv
    <3>2. ASSUME r > added - Len(requests), r <= added PROVE r \in discarded'
      <4> DEFINE i == r - (added - Len(requests))
      <4>1. i \in 1 .. Len(requests)
        BY <1>5, <2>1, <3>2, ThreadsFacts
      <4>2. requests[i] = r
        BY <1>5, <2>1, <4>1, ThreadsFacts DEF QueueInv
      <4> QED BY <1>4, <1>5, <4>1, <4>2
    <3> QED BY <3>1, <3>2
  <2>3. \A r \in Requests : r \in handled \/ (\E t \in Threads : a_request[t] = r)
                              <=> r <= added - Len(requests)
    BY <1>1 DEF PlaceInv
  <2>4. UNCHANGED <<added, handled, a_request>>
    BY <1>0 DEF threadVars
  <2>5. \A r \in Requests : r \in discarded' => ~(r <= added - Len(requests))
    <3> SUFFICES ASSUME NEW r \in Requests, r > added - Len(requests)
                 PROVE  ~(r <= added - Len(requests))
      BY <2>2
    <3>1. r \in Nat /\ added - Len(requests) \in Int
      BY <1>5, <2>1, ThreadsFacts
    <3> QED BY <3>1
  <2>6. \A r \in Requests :
          r <= added' - Len(requests') <=>
            r \in handled' \/ r \in discarded' \/ \E t \in Threads : a_request'[t] = r
    BY <1>5, <2>1, <2>2, <2>3, <2>4, ThreadsFacts
  <2>7. \A t \in Threads : a_request'[t] \notin handled' \cup discarded'
    <3> SUFFICES ASSUME NEW t \in Threads, a_request[t] \in discarded' PROVE FALSE
      BY <2>4 DEF PlaceInv
    <3>1. a_request[t] \in Requests
      BY <1>4, <1>5
    <3> QED BY <2>3, <2>5, <3>1
  <2>8. handled' \cap discarded' = {}
    BY <2>3, <2>4, <2>5 DEF TypeOK
  <2> QED BY <2>4, <2>6, <2>7, <2>8 DEF PlaceInv
<1> QED BY <1>6, <1>7, <1>8, <1>9, <1>10, <1>11

-----------------------------------------------------------------------------
(* The steps of a handler thread.                                          *)

\* Acquiring the mutex at the head of the loop preserves the invariant.
LEMMA LockMutexInv == ASSUME IInv, NEW t \in Threads, LockMutex(t) PROVE IInv'
<1> USE DEF IInv
<1>0. UNCHANGED <<queueVars, a_request, poolVars, flagVars, main>>
  BY DEF LockMutex
<1>1. /\ pc[t] = "lock" /\ mutex = None /\ mutex' = t
      /\ pc' \in [Threads -> ThreadStates]
      /\ \A u \in Threads : pc'[u] = IF u = t THEN "loop" ELSE pc[u]
  BY DEF LockMutex, TypeOK, ThreadStates
<1>2. TypeOK'
  BY <1>0, <1>1 DEF TypeOK, queueVars, poolVars, flagVars
<1>3. MutexInv'
  BY <1>1, ThreadsFacts DEF MutexInv
<1>4. HandlerInv' /\ ListInv' /\ ExitInv' /\ NoLostWakeup'
  BY <1>0, <1>1 DEF HandlerInv, ListInv, ExitInv, NoLostWakeup, queueVars, poolVars, flagVars
<1>5. OwnerInv' /\ QueueInv' /\ PlaceInv' /\ DrainedUnlessExit'
  BY <1>0 DEF OwnerInv, QueueInv, PlaceInv, DrainedUnlessExit, queueVars, poolVars, flagVars
<1> QED BY <1>2, <1>3, <1>4, <1>5

\* What leaving the head of the loop does to the threads' states.
LEMMA LeaveLoopFacts ==
  ASSUME TypeOK, MutexInv, NEW t \in Threads,
         NEW next \in {"exited", "wait", "handle"}, LeaveLoop(t, next)
  PROVE  /\ pc[t] = "loop"
         /\ pc' \in [Threads -> ThreadStates]
         /\ mutex' \in Threads \cup {None}
         /\ \A u \in Threads : pc'[u] = IF u = t THEN next ELSE pc[u]
         /\ MutexInv'
<1>1. /\ pc[t] = "loop"
      /\ pc' \in [Threads -> ThreadStates]
      /\ mutex' = None
      /\ \A u \in Threads : pc'[u] = IF u = t THEN next ELSE pc[u]
  BY DEF TypeOK, LeaveLoop, ThreadStates
<1>2. MutexInv'
  BY <1>1, ThreadsFacts DEF MutexInv
<1> QED BY <1>1, <1>2

\* A thread that stops or goes to sleep with the requests untouched preserves
\* the invariant, when the queue is empty or exit_now is true.
LEMMA IdleInv ==
  ASSUME IInv, NEW t \in Threads, NEW next \in {"exited", "wait"},
         LeaveLoop(t, next),
         UNCHANGED <<queueVars, a_request, poolVars, flagVars, main>>,
         requests = <<>> \/ exit_now,
         next = "exited" => exit_now \/ shutdown_now
  PROVE  IInv'
<1> USE DEF IInv
<1>1. /\ pc[t] = "loop"
      /\ pc' \in [Threads -> ThreadStates]
      /\ mutex' \in Threads \cup {None}
      /\ \A u \in Threads : pc'[u] = IF u = t THEN next ELSE pc[u]
      /\ MutexInv'
  BY LeaveLoopFacts
<1>2. TypeOK'
  BY <1>1 DEF TypeOK, queueVars, poolVars, flagVars
<1>3. HandlerInv' /\ ListInv' /\ ExitInv' /\ NoLostWakeup'
  BY <1>1 DEF HandlerInv, ListInv, ExitInv, NoLostWakeup, queueVars, poolVars, flagVars
<1>4. OwnerInv' /\ QueueInv' /\ PlaceInv' /\ DrainedUnlessExit'
  BY DEF OwnerInv, QueueInv, PlaceInv, DrainedUnlessExit, queueVars, poolVars, flagVars
<1> QED BY <1>1, <1>2, <1>3, <1>4

\* get_request preserves the invariant: the oldest request goes to this thread
\* and to no other.
LEMMA TakeRequestInv == ASSUME IInv, NEW t \in Threads, TakeRequest(t) PROVE IInv'
<1> USE DEF IInv
<1>0. UNCHANGED <<added, handled, discarded, poolVars, flagVars, main>> /\ ~exit_now
  BY DEF TakeRequest
<1>1. /\ pc[t] = "loop"
      /\ pc' \in [Threads -> ThreadStates]
      /\ mutex' \in Threads \cup {None}
      /\ \A u \in Threads : pc'[u] = IF u = t THEN "handle" ELSE pc[u]
      /\ MutexInv'
  BY LeaveLoopFacts DEF TakeRequest
<1>2. requests \in Seq(Requests) /\ requests # <<>> /\ Len(requests) \in Nat \ {0} /\ added \in Nat
  BY PoolAssumption DEF TypeOK, TakeRequest
<1>3. /\ requests' \in Seq(Requests)
      /\ Len(requests') = Len(requests) - 1
      /\ \A i \in 1 .. Len(requests') : requests'[i] = requests[i + 1]
  BY <1>2 DEF TakeRequest
<1>4. requests[1] \in Requests /\ requests[1] = added - Len(requests) + 1
  BY <1>2 DEF QueueInv
<1>5. /\ a_request' \in [Threads -> Requests \cup {None}]
      /\ \A u \in Threads : a_request'[u] = IF u = t THEN requests[1] ELSE a_request[u]
      /\ a_request[t] = None
  BY <1>1, <1>2, <1>4 DEF TypeOK, TakeRequest, HandlerInv
<1>6. TypeOK'
  BY <1>0, <1>1, <1>3, <1>5 DEF TypeOK, poolVars, flagVars
<1>7. HandlerInv'
  BY <1>1, <1>4, <1>5, ThreadsFacts DEF HandlerInv
<1>8. ListInv' /\ ExitInv' /\ NoLostWakeup'
  <2>1. \A u \in Threads : pc[u] # "exited" \/ (requests = <<>> /\ shutdown_now)
    BY <1>0 DEF ExitInv
  <2> QED BY <1>0, <1>1, <1>2, <2>1 DEF ListInv, ExitInv, NoLostWakeup, poolVars, flagVars
<1>9. OwnerInv'
  BY <1>0, <1>2 DEF OwnerInv, poolVars, flagVars
<1>10. DrainedUnlessExit'
  BY <1>0 DEF DrainedUnlessExit, flagVars
<1>11. QueueInv'
  <2>1. Len(requests') <= added'
    BY <1>0, <1>2, <1>3 DEF QueueInv
  <2>2. ASSUME NEW i \in 1 .. Len(requests')
        PROVE  requests'[i] = added' - Len(requests') + i
    <3>1. requests[i + 1] = added - Len(requests) + (i + 1)
      BY <1>2, <1>3 DEF QueueInv
    <3> QED BY <1>0, <1>2, <1>3, <3>1
  <2> QED BY <2>1, <2>2 DEF QueueInv
<1>12. PlaceInv'
  <2>1. \A r \in Requests :
          r <= added' - Len(requests') <=> r <= added - Len(requests) \/ r = requests[1]
    <3> TAKE r \in Requests
    <3>1. r \in Nat /\ Len(requests') = Len(requests) - 1 /\ added' = added
      BY <1>0, <1>3, ThreadsFacts
    <3>2. r <= added - (Len(requests) - 1) <=> r <= added - Len(requests) \/ r = added - Len(requests) + 1
      BY <1>2, <3>1
    <3> QED BY <1>4, <3>1, <3>2
  <2>2. requests[1] \notin handled \cup discarded /\ \A u \in Threads : a_request[u] # requests[1]
    <3>1. ~(requests[1] <= added - Len(requests))
      BY <1>2, <1>4
    <3> QED BY <1>4, <3>1 DEF PlaceInv
  <2>3. \A r \in Requests :
          (\E u \in Threads : a_request'[u] = r)
            <=> r = requests[1] \/ \E u \in Threads : a_request[u] = r
    BY <1>5, ThreadsFacts
  <2>4. \A u \in Threads : a_request'[u] \notin handled' \cup discarded'
    BY <1>0, <1>5, <2>2 DEF PlaceInv
  <2>5. \A u, v \in Threads : a_request'[u] = a_request'[v] /\ a_request'[u] # None => u = v
    BY <1>5, <2>2 DEF PlaceInv
  <2>6. \A r \in Requests :
          r <= added' - Len(requests') <=>
            r \in handled' \/ r \in discarded' \/ \E u \in Threads : a_request'[u] = r
    BY <1>0, <2>1, <2>3 DEF PlaceInv
  <2>7. handled' \cap discarded' = {}
    BY <1>0 DEF PlaceInv
  <2> QED BY <2>4, <2>5, <2>6, <2>7 DEF PlaceInv
<1> QED BY <1>1, <1>6, <1>7, <1>8, <1>9, <1>10, <1>11, <1>12

\* A spurious wakeup preserves the invariant.
LEMMA SpuriousWakeupInv == ASSUME IInv, NEW t \in Threads, SpuriousWakeup(t) PROVE IInv'
<1> USE DEF IInv
<1>0. UNCHANGED <<queueVars, mutex, a_request, poolVars, flagVars, main>>
  BY DEF SpuriousWakeup
<1>1. /\ pc[t] = "wait"
      /\ pc' \in [Threads -> ThreadStates]
      /\ \A u \in Threads : pc'[u] = IF u = t THEN "lock" ELSE pc[u]
  BY DEF SpuriousWakeup, TypeOK, ThreadStates
<1>2. TypeOK' /\ MutexInv'
  BY <1>0, <1>1 DEF TypeOK, MutexInv, queueVars, poolVars, flagVars
<1>3. HandlerInv' /\ ListInv' /\ ExitInv' /\ NoLostWakeup'
  BY <1>0, <1>1 DEF HandlerInv, ListInv, ExitInv, NoLostWakeup, queueVars, poolVars, flagVars
<1>4. OwnerInv' /\ QueueInv' /\ PlaceInv' /\ DrainedUnlessExit'
  BY <1>0 DEF OwnerInv, QueueInv, PlaceInv, DrainedUnlessExit, queueVars, poolVars, flagVars
<1> QED BY <1>2, <1>3, <1>4

\* The return of a handler preserves the invariant.
LEMMA HandlerReturnInv == ASSUME IInv, NEW t \in Threads, HandlerReturn(t) PROVE IInv'
<1> USE DEF IInv
<1>0. UNCHANGED <<requests, added, discarded, mutex, poolVars, flagVars, main>>
  BY DEF HandlerReturn
<1>1. /\ pc[t] = "handle"
      /\ pc' \in [Threads -> ThreadStates]
      /\ \A u \in Threads : pc'[u] = IF u = t THEN "lock" ELSE pc[u]
  BY DEF HandlerReturn, TypeOK, ThreadStates
<1>2. a_request[t] \in Requests
  BY <1>1 DEF HandlerInv, TypeOK
<1>3. /\ a_request' \in [Threads -> Requests \cup {None}]
      /\ \A u \in Threads : a_request'[u] = IF u = t THEN None ELSE a_request[u]
      /\ handled' = handled \cup {a_request[t]}
  BY DEF HandlerReturn, TypeOK
<1>4. TypeOK'
  BY <1>0, <1>1, <1>2, <1>3 DEF TypeOK, poolVars, flagVars
<1>5. MutexInv' /\ ListInv' /\ ExitInv' /\ NoLostWakeup'
  BY <1>0, <1>1 DEF MutexInv, ListInv, ExitInv, NoLostWakeup, poolVars, flagVars
<1>6. HandlerInv'
  BY <1>1, <1>3 DEF HandlerInv
<1>7. OwnerInv' /\ QueueInv' /\ DrainedUnlessExit'
  BY <1>0 DEF OwnerInv, QueueInv, DrainedUnlessExit, poolVars, flagVars
<1>8. PlaceInv'
  <2>1. \A r \in Requests :
          (\E u \in Threads : a_request[u] = r)
            <=> r = a_request[t] \/ \E u \in Threads : a_request'[u] = r
    BY <1>2, <1>3, ThreadsFacts
  <2>2. \A r \in Requests :
          r <= added' - Len(requests') <=>
            r \in handled' \/ r \in discarded' \/ \E u \in Threads : a_request'[u] = r
    BY <1>0, <1>3, <2>1 DEF PlaceInv
  <2>3. \A u \in Threads : a_request'[u] \notin handled' \cup discarded'
    <3> TAKE u \in Threads
    <3>1. CASE u = t
      BY <1>0, <1>2, <1>3, <3>1, ThreadsFacts DEF TypeOK
    <3>2. CASE u # t
      BY <1>0, <1>2, <1>3, <3>2, ThreadsFacts DEF PlaceInv
    <3> QED BY <3>1, <3>2
  <2>4. handled' \cap discarded' = {}
    BY <1>0, <1>3 DEF PlaceInv
  <2>5. \A u, v \in Threads : a_request'[u] = a_request'[v] /\ a_request'[u] # None => u = v
    BY <1>3 DEF PlaceInv
  <2> QED BY <2>2, <2>3, <2>4, <2>5 DEF PlaceInv
<1> QED BY <1>4, <1>5, <1>6, <1>7, <1>8

-----------------------------------------------------------------------------
(* The invariant holds, and with it the safety properties.                 *)

\* Every step of the pool preserves the invariant.
LEMMA NextInv == IInv /\ [Next]_vars => IInv'
<1> SUFFICES ASSUME IInv, [Next]_vars PROVE IInv'
  OBVIOUS
<1>1. CASE AddRequest
  BY <1>1, AddRequestInv
<1>2. CASE GrowPool
  BY <1>2, GrowPoolInv
<1>3. CASE CancelThreads
  BY <1>3, CancelThreadsInv
<1>4. CASE JoinThread
  BY <1>4, JoinThreadInv
<1>5. CASE DeletePool
  BY <1>5, DeletePoolInv
<1>6. ASSUME NEW t \in Threads, LockMutex(t) PROVE IInv'
  BY <1>6, LockMutexInv
<1>7. ASSUME NEW t \in Threads, ExitNow(t) PROVE IInv'
  BY <1>7, IdleInv DEF ExitNow
<1>8. ASSUME NEW t \in Threads, TakeRequest(t) PROVE IInv'
  BY <1>8, TakeRequestInv
<1>9. ASSUME NEW t \in Threads, ShutdownExit(t) PROVE IInv'
  BY <1>9, IdleInv DEF ShutdownExit
<1>10. ASSUME NEW t \in Threads, CondWait(t) PROVE IInv'
  BY <1>10, IdleInv DEF CondWait
<1>11. ASSUME NEW t \in Threads, HandlerReturn(t) PROVE IInv'
  BY <1>11, HandlerReturnInv
<1>12. ASSUME NEW t \in Threads, SpuriousWakeup(t) PROVE IInv'
  BY <1>12, SpuriousWakeupInv
<1>13. CASE Abort
  BY <1>13 DEF Abort, IInv, TypeOK, MutexInv, HandlerInv, ListInv, OwnerInv, ExitInv, QueueInv,
     PlaceInv, NoLostWakeup, DrainedUnlessExit, queueVars, threadVars, poolVars
<1>14. CASE UNCHANGED vars
  BY <1>14 DEF vars, IInv, TypeOK, MutexInv, HandlerInv, ListInv, OwnerInv, ExitInv, QueueInv,
     PlaceInv, NoLostWakeup, DrainedUnlessExit, queueVars, threadVars, poolVars, flagVars
<1> QED BY <1>1, <1>2, <1>3, <1>4, <1>5, <1>6, <1>7, <1>8, <1>9, <1>10, <1>11, <1>12, <1>13, <1>14
    DEF Next, OwnerStep, HandlerStep, Finished

\* The inductive invariant holds in every reachable state.
LEMMA Invariance == Spec => []IInv
BY InitInv, NextInv, PTL DEF Spec

-----------------------------------------------------------------------------
(* What the inductive invariant says of each request.                      *)

\* The queue is the interval of the youngest request numbers.
QueuedView ==
  /\ added \in Nat /\ Len(requests) \in Nat
  /\ \A r \in Requests : r \in Queued <=> added - Len(requests) < r /\ r <= added
  /\ Queued \subseteq Requests

\* A request is running when some thread holds it.
RunningView ==
  /\ \A r \in Requests : r \in Running <=> \E t \in Threads : a_request[t] = r
  /\ Running \subseteq Requests

\* The places a request can be in once it left the queue.
PlaceView ==
  /\ \A r \in Requests : r \in Running \cup handled \cup discarded <=> r <= added - Len(requests)
  /\ Running \cap (handled \cup discarded) = {}
  /\ handled \cap discarded = {}

\* The invariant determines the queue's content from the two counters.
LEMMA QueuedFacts == IInv => QueuedView
<1> SUFFICES ASSUME IInv PROVE QueuedView
  OBVIOUS
<1> USE DEF QueuedView
<1>1. /\ added \in Nat /\ Len(requests) \in Nat /\ requests \in Seq(Requests)
      /\ DOMAIN requests = 1 .. Len(requests)
  BY PoolAssumption DEF IInv, TypeOK
<1>2. Len(requests) <= added /\ \A i \in 1 .. Len(requests) : requests[i] = added - Len(requests) + i
  BY DEF IInv, QueueInv
<1>3. ASSUME NEW r \in Requests, added - Len(requests) < r, r <= added
      PROVE  r \in Queued
  <2> DEFINE i == r - (added - Len(requests))
  <2>1. i \in 1 .. Len(requests) /\ added - Len(requests) + i = r
    BY <1>1, <1>2, <1>3, ThreadsFacts
  <2> QED BY <1>1, <1>2, <2>1 DEF Queued
<1>4. ASSUME NEW r \in Queued
      PROVE  r \in Requests /\ added - Len(requests) < r /\ r <= added
  <2>1. PICK i \in 1 .. Len(requests) : requests[i] = r
    BY <1>1 DEF Queued
  <2> QED BY <1>1, <1>2, <2>1
<1> QED BY <1>1, <1>3, <1>4

\* The invariant determines which requests are running.
LEMMA RunningFacts == IInv => RunningView
<1> SUFFICES ASSUME IInv PROVE RunningView
  OBVIOUS
<1> USE DEF RunningView
<1>1. \A t \in Threads : pc[t] = "handle" <=> a_request[t] # None
  BY DEF IInv, HandlerInv
<1>2. \A t \in Threads : a_request[t] \in Requests \cup {None}
  BY DEF IInv, TypeOK
<1> QED BY <1>1, <1>2, ThreadsFacts DEF Running

\* The four places are disjoint and cover what was added.
LEMMA PlaceFacts == IInv => PlaceView
<1> SUFFICES ASSUME IInv PROVE PlaceView
  OBVIOUS
<1> USE DEF PlaceView
<1>1. \A r \in Requests : r \in Running \cup handled \cup discarded <=> r <= added - Len(requests)
  BY RunningFacts DEF RunningView, IInv, PlaceInv
<1>2. Running \cap (handled \cup discarded) = {}
  <2> SUFFICES ASSUME NEW r \in Running PROVE r \notin handled \cup discarded
    OBVIOUS
  <2>1. PICK t \in Threads : a_request[t] = r
    BY RunningFacts DEF RunningView
  <2> QED BY <2>1 DEF IInv, PlaceInv
<1> QED BY <1>1, <1>2 DEF IInv, PlaceInv

\* The invariant gives the properties the runs check.
LEMMA EachRequestOnceInv == IInv => EachRequestOnce
<1> SUFFICES ASSUME IInv PROVE EachRequestOnce
  OBVIOUS
<1>1. /\ added \in 0 .. MaxRequests /\ Requests = 1 .. MaxRequests
      /\ handled \subseteq Requests /\ discarded \subseteq Requests
  BY DEF IInv, TypeOK, Requests
<1>2. 1 .. added = Queued \cup Running \cup handled \cup discarded
  <2>1. 1 .. added \subseteq Requests
    BY <1>1, PoolAssumption
  <2>2. ASSUME NEW r \in Requests
        PROVE  r \in 1 .. added <=> r \in Queued \/ r \in Running \cup handled \cup discarded
    <3>1. r \in Nat /\ r >= 1 /\ added - Len(requests) \in Int /\ Len(requests) \in Nat /\ added \in Nat
      BY QueuedFacts, ThreadsFacts DEF QueuedView, None
    <3>2. r <= added <=> (added - Len(requests) < r /\ r <= added) \/ r <= added - Len(requests)
      BY <3>1
    <3> QED BY <3>1, <3>2, QueuedFacts, PlaceFacts DEF QueuedView, PlaceView
  <2> QED BY <1>1, <2>1, <2>2, QueuedFacts, RunningFacts DEF QueuedView, RunningView
<1>3. Queued \cap (Running \cup handled \cup discarded) = {}
  <2> SUFFICES ASSUME NEW r \in Queued PROVE r \notin Running \cup handled \cup discarded
    OBVIOUS
  <2>1. r \in Requests /\ r \in Nat
    BY QueuedFacts, ThreadsFacts DEF QueuedView
  <2>2. added - Len(requests) \in Int
    BY QueuedFacts DEF QueuedView
  <2>3. added - Len(requests) < r
    BY <2>1, QueuedFacts DEF QueuedView
  <2>4. ~(r <= added - Len(requests))
    BY <2>1, <2>2, <2>3
  <2> QED BY <2>1, <2>4, PlaceFacts DEF PlaceView
<1>4. \A i, j \in DOMAIN requests : requests[i] = requests[j] => i = j
  <2>1. DOMAIN requests = 1 .. Len(requests) /\ added - Len(requests) \in Int
    BY QueuedFacts DEF QueuedView, IInv, TypeOK
  <2> QED BY <2>1 DEF IInv, QueueInv
<1>5. \A t, u \in Threads :
        pc[t] = "handle" /\ pc[u] = "handle" /\ a_request[t] = a_request[u] => t = u
  BY DEF IInv, HandlerInv, PlaceInv
<1> QED BY <1>2, <1>3, <1>4, <1>5, PlaceFacts DEF PlaceView, EachRequestOnce

\* When the pool is gone every thread has been joined.
LEMMA NoThreadOutlivesPoolInv == IInv => NoThreadOutlivesPool
<1> SUFFICES ASSUME IInv, main = "done", NEW t \in Threads PROVE pc[t] \in {"none", "exited"}
  BY DEF NoThreadOutlivesPool
<1>1. joined = max_thr_id /\ max_thr_id \in Nat /\ t \in Nat
  BY ThreadsFacts, PoolArgsSane DEF IInv, OwnerInv, TypeOK
<1>2. CASE t <= max_thr_id
  BY <1>1, <1>2 DEF IInv, ListInv
<1>3. CASE t > max_thr_id
  BY <1>3 DEF IInv, ListInv
<1> QED BY <1>1, <1>2, <1>3

\* Type correctness of the pool, for any arguments: in particular it never has
\* more than max_thread_count handler threads.
THEOREM TypeCorrect == Spec => []TypeOK
BY Invariance, PTL DEF IInv

\* No interleaving loses or duplicates a request.
THEOREM RequestsAreConserved == Spec => []EachRequestOnce
BY Invariance, EachRequestOnceInv, PTL

\* One pthread_cond_signal per request is enough, for any number of threads.
THEOREM NoWakeupIsLost == Spec => []NoLostWakeup
BY Invariance, PTL DEF IInv

\* lwfs_thread_pool_fini drains the queue unless lwfs_exit_now().
THEOREM FiniDrains == Spec => []DrainedUnlessExit
BY Invariance, PTL DEF IInv

\* No thread touches the pool after lwfs_thread_pool_fini freed it.
THEOREM FiniJoinsEveryThread == Spec => []NoThreadOutlivesPool
BY Invariance, NoThreadOutlivesPoolInv, PTL

-----------------------------------------------------------------------------
(* The pool implements the work queue.                                     *)

\* The abstract status of a request, by the counters.
StatusView ==
  /\ status \in [Requests -> WQ!Status]
  /\ \A r \in Requests :
       /\ status[r] = "new" <=> r > added
       /\ status[r] = "queued" <=> added - Len(requests) < r /\ r <= added
       /\ status[r] = "running" <=> r \in Running
       /\ status[r] = "done" <=> r \in handled
       /\ status[r] = "dropped" <=> r \in discarded

\* The invariant determines the abstract status.
LEMMA StatusFacts == IInv => StatusView
<1> SUFFICES ASSUME IInv PROVE StatusView
  OBVIOUS
<1> USE DEF StatusView
<1>1. status \in [Requests -> WQ!Status]
  BY DEF status, WQ!Status
<1>2. ASSUME NEW r \in Requests
      PROVE  /\ status[r] = "new" <=> r > added
             /\ status[r] = "queued" <=> added - Len(requests) < r /\ r <= added
             /\ status[r] = "running" <=> r \in Running
             /\ status[r] = "done" <=> r \in handled
             /\ status[r] = "dropped" <=> r \in discarded
  <2>1. r \in Queued <=> added - Len(requests) < r /\ r <= added
    BY QueuedFacts DEF QueuedView
  <2>2. r \in Running \cup handled \cup discarded <=> r <= added - Len(requests)
    BY PlaceFacts DEF PlaceView
  <2>3. r \in Nat /\ added \in Nat /\ Len(requests) \in Nat /\ Len(requests) <= added
    BY QueuedFacts, ThreadsFacts DEF QueuedView, IInv, QueueInv
  <2>4. /\ r > added <=> ~(r \in Queued \/ r \in Running \cup handled \cup discarded)
        /\ ~(r \in Queued /\ r \in Running \cup handled \cup discarded)
    BY <2>1, <2>2, <2>3
  <2> QED BY <2>1, <2>4, PlaceFacts DEF PlaceView, status
<1> QED BY <1>1, <1>2

\* The same in the state after a step.
LEMMA NextViews ==
  IInv' => QueuedView' /\ RunningView' /\ PlaceView' /\ StatusView' /\ NoThreadOutlivesPool'
BY QueuedFacts, RunningFacts, PlaceFacts, StatusFacts, NoThreadOutlivesPoolInv, PTL

\* The initial pool is an empty work queue.
LEMMA RefinementInit == Init => WQ!WQInit
<1> SUFFICES ASSUME Init PROVE WQ!WQInit
  OBVIOUS
<1>1. Queued = {} /\ Running = {}
  BY DEF Init, Queued, Running
<1>2. status = [r \in Requests |-> "new"]
  BY <1>1 DEF Init, status
<1> QED BY <1>2 DEF Init, WQ!WQInit

\* A step that moves no request is a stuttering step of the work queue.
LEMMA StutterStep ==
  ASSUME UNCHANGED <<queueVars, a_request, exit_now>>, Running' = Running,
         (main' = "done") <=> (main = "done")
  PROVE  UNCHANGED WQ!wqVars
<1>1. Queued' = Queued
  BY DEF Queued, queueVars
<1>2. status' = status
  BY <1>1 DEF status, queueVars
<1> QED BY <1>2 DEF WQ!wqVars

\* add_request adds the next request.
LEMMA AddRefines == ASSUME IInv, IInv', AddRequest PROVE WQ!WQNext
<1> DEFINE r0 == added + 1
<1>1. r0 \in Requests /\ added \in Nat
  BY PoolAssumption DEF AddRequest, IInv, TypeOK, Requests
<1>2. Len(requests') = Len(requests) + 1 /\ added' = added + 1 /\ Len(requests) \in Nat
  BY DEF AddRequest, IInv, TypeOK
<1>3. UNCHANGED <<handled, discarded, exit_now>> /\ main = "serve" /\ main' = "grow"
  BY DEF AddRequest, flagVars
<1>4. \A r \in Requests : r \in Running' <=> r \in Running
  <2>1. a_request' = a_request
    BY DEF AddRequest
  <2>2. \A r \in Requests : r \in Running' <=> \E t \in Threads : a_request'[t] = r
    BY RunningFacts, NextViews DEF RunningView
  <2> QED BY <2>1, <2>2, RunningFacts DEF RunningView
<1>5. \A r \in Requests : r # r0 => status'[r] = status[r]
  <2> SUFFICES ASSUME NEW r \in Requests, r # r0 PROVE status'[r] = status[r]
    OBVIOUS
  <2>1. /\ r \in Queued <=> added - Len(requests) < r /\ r <= added
        /\ r \in Queued' <=> added' - Len(requests') < r /\ r <= added'
    BY QueuedFacts, NextViews DEF QueuedView
  <2>2. r \in Queued' <=> r \in Queued
    BY <1>1, <1>2, <2>1, ThreadsFacts
  <2> QED BY <1>3, <1>4, <2>2 DEF status
<1>6. status[r0] = "new" /\ status'[r0] = "queued"
  <2>1. status[r0] = "new"
    BY <1>1, StatusFacts DEF StatusView
  <2>2. status'[r0] = "queued" <=> added' - Len(requests') < r0 /\ r0 <= added'
    BY <1>1, NextViews DEF StatusView
  <2> QED BY <1>1, <1>2, <2>1, <2>2
<1>7. status' = [status EXCEPT ![r0] = "queued"]
  BY <1>1, <1>5, <1>6, StatusFacts, NextViews DEF StatusView, WQ!Status
<1>8. \A s \in Requests : s < r0 => status[s] # "new"
  BY <1>1, StatusFacts, ThreadsFacts DEF StatusView
<1>9. WQ!Add(r0)
  BY <1>1, <1>3, <1>6, <1>7, <1>8 DEF WQ!Add
<1> QED BY <1>1, <1>9 DEF WQ!WQNext

\* get_request starts the oldest queued request.
LEMMA TakeRefines == ASSUME IInv, IInv', NEW t \in Threads, TakeRequest(t) PROVE WQ!WQNext
<1> DEFINE r0 == requests[1]
<1>1. /\ requests \in Seq(Requests) /\ Len(requests) \in Nat \ {0} /\ added \in Nat
      /\ Len(requests) <= added
  BY PoolAssumption DEF TakeRequest, IInv, TypeOK, QueueInv
<1>2. r0 \in Requests /\ r0 = added - Len(requests) + 1 /\ r0 \in Nat
  BY <1>1 DEF IInv, QueueInv
<1>3. Len(requests') = Len(requests) - 1 /\ added' = added
  BY <1>1 DEF TakeRequest
<1>4. UNCHANGED <<handled, discarded, exit_now, main>>
  BY DEF TakeRequest, flagVars
<1>5. /\ a_request[t] = None
      /\ \A u \in Threads : a_request'[u] = IF u = t THEN r0 ELSE a_request[u]
  BY <1>1 DEF TakeRequest, LeaveLoop, IInv, TypeOK, HandlerInv
<1>6. \A r \in Requests : r \in Running' <=> r \in Running \/ r = r0
  <2>1. \A r \in Requests : r \in Running' <=> \E u \in Threads : a_request'[u] = r
    BY NextViews DEF RunningView
  <2> QED BY <1>5, <2>1, RunningFacts, ThreadsFacts DEF RunningView
<1>7. \A r \in Requests : r # r0 => status'[r] = status[r]
  <2> SUFFICES ASSUME NEW r \in Requests, r # r0 PROVE status'[r] = status[r]
    OBVIOUS
  <2>1. /\ r \in Queued <=> added - Len(requests) < r /\ r <= added
        /\ r \in Queued' <=> added' - Len(requests') < r /\ r <= added'
    BY QueuedFacts, NextViews DEF QueuedView
  <2>2. r \in Queued' <=> r \in Queued
    BY <1>1, <1>2, <1>3, <2>1, ThreadsFacts
  <2> QED BY <1>4, <1>6, <2>2 DEF status
<1>8. status[r0] = "queued"
  BY <1>1, <1>2, StatusFacts DEF StatusView
<1>9. status'[r0] = "running"
  BY <1>2, <1>6, NextViews DEF RunningView, StatusView
<1>10. status' = [status EXCEPT ![r0] = "running"]
  BY <1>2, <1>7, <1>9, StatusFacts, NextViews DEF StatusView, WQ!Status
<1>11. \A s \in Requests : s < r0 => status[s] \notin {"new", "queued"}
  <2> SUFFICES ASSUME NEW s \in Requests, s < r0
               PROVE  ~(s > added) /\ ~(added - Len(requests) < s)
    BY StatusFacts DEF StatusView
  <2> QED BY <1>1, <1>2, ThreadsFacts
<1>12. main # "done"
  BY <1>1 DEF IInv, OwnerInv
<1>13. WQ!Start(r0)
  BY <1>4, <1>8, <1>10, <1>11, <1>12 DEF WQ!Start
<1> QED BY <1>2, <1>13 DEF WQ!WQNext

\* A handler's return finishes its request.
LEMMA ReturnRefines == ASSUME IInv, IInv', NEW t \in Threads, HandlerReturn(t) PROVE WQ!WQNext
<1> DEFINE r0 == a_request[t]
<1>1. r0 \in Requests /\ r0 \in Running
  BY DEF HandlerReturn, IInv, TypeOK, HandlerInv, Running
<1>2. /\ UNCHANGED <<requests, added, discarded, exit_now, main>>
      /\ handled' = handled \cup {r0}
      /\ \A u \in Threads : a_request'[u] = IF u = t THEN None ELSE a_request[u]
  BY DEF HandlerReturn, flagVars, IInv, TypeOK
<1>3. \A r \in Requests : r # r0 => (r \in Running' <=> r \in Running)
  <2>1. \A r \in Requests : r \in Running' <=> \E u \in Threads : a_request'[u] = r
    BY NextViews DEF RunningView
  <2> QED BY <1>2, <2>1, RunningFacts, ThreadsFacts DEF RunningView
<1>4. \A r \in Requests : r # r0 => status'[r] = status[r]
  <2>1. Queued' = Queued
    BY <1>2 DEF Queued
  <2> QED BY <1>2, <1>3, <2>1 DEF status
<1>5. status[r0] = "running" /\ status'[r0] = "done"
  BY <1>1, <1>2, StatusFacts, NextViews DEF StatusView
<1>6. status' = [status EXCEPT ![r0] = "done"]
  BY <1>1, <1>4, <1>5, StatusFacts, NextViews DEF StatusView, WQ!Status
<1>7. WQ!Finish(r0)
  BY <1>2, <1>5, <1>6 DEF WQ!Finish
<1> QED BY <1>1, <1>7 DEF WQ!WQNext

\* Freeing the pool closes the queue.
LEMMA DeleteRefines == ASSUME IInv, IInv', DeletePool PROVE WQ!WQNext
<1>1. NoThreadOutlivesPool' /\ DrainedUnlessExit'
  BY NextViews DEF IInv
<1>2. /\ UNCHANGED <<added, handled, exit_now, pc>>
      /\ main # "done" /\ main' = "done"
  BY DEF DeletePool, flagVars, threadVars
<1>3. Running = {} /\ Running' = {}
  BY <1>1, <1>2 DEF NoThreadOutlivesPool, Running
<1>4. discarded = {} /\ discarded' = Queued /\ requests' = <<>>
  BY DEF DeletePool, Queued, IInv, OwnerInv
<1>5. Queued' = {}
  BY <1>4 DEF Queued
<1>6. \A r \in Requests : ~(r \in Queued /\ r \in handled)
  BY <1>4, NextViews, <1>2 DEF PlaceView
<1>7. status' = [r \in Requests |-> IF status[r] = "queued" THEN "dropped" ELSE status[r]]
  BY <1>2, <1>3, <1>4, <1>5, <1>6 DEF status
<1>8. \A r \in Requests : status[r] # "running"
  BY <1>3, StatusFacts DEF StatusView
<1>9. (\E r \in Requests : status[r] = "queued") => exit_now
  <2> SUFFICES ASSUME NEW r \in Requests, status[r] = "queued" PROVE exit_now
    OBVIOUS
  <2>1. r \in Queued
    BY StatusFacts, QueuedFacts DEF QueuedView, StatusView
  <2> QED BY <1>1, <1>2, <1>4, <2>1 DEF DrainedUnlessExit
<1>10. WQ!Close
  BY <1>2, <1>7, <1>8, <1>9 DEF WQ!Close
<1> QED BY <1>10 DEF WQ!WQNext

\* The remaining steps move no request.
LEMMA RunningUnchanged ==
  ASSUME IInv, IInv', UNCHANGED a_request PROVE Running' = Running
<1>1. \A r \in Requests : r \in Running' <=> \E u \in Threads : a_request'[u] = r
  BY NextViews DEF RunningView
<1>2. \A r \in Requests : r \in Running <=> \E u \in Threads : a_request[u] = r
  BY RunningFacts DEF RunningView
<1>3. Running \subseteq Requests /\ Running' \subseteq Requests
  BY RunningFacts, NextViews DEF RunningView
<1> QED BY <1>1, <1>2, <1>3

\* Every step of the pool is a step of the work queue or changes nothing in it.
LEMMA RefinementNext == IInv /\ IInv' /\ [Next]_vars => [WQ!WQNext]_(WQ!wqVars)
<1> SUFFICES ASSUME IInv, IInv', [Next]_vars
             PROVE  WQ!WQNext \/ UNCHANGED WQ!wqVars
  OBVIOUS
<1>1. CASE AddRequest
  BY <1>1, AddRefines
<1>2. CASE GrowPool \/ CancelThreads \/ JoinThread
  <2>1. UNCHANGED <<queueVars, a_request, exit_now>> /\ main # "done" /\ main' # "done"
    BY <1>2 DEF GrowPool, CancelThreads, JoinThread, flagVars, threadVars
  <2> QED BY <2>1, RunningUnchanged, StutterStep
<1>3. CASE DeletePool
  BY <1>3, DeleteRefines
<1>4. ASSUME NEW t \in Threads, TakeRequest(t) PROVE WQ!WQNext
  BY <1>4, TakeRefines
<1>5. ASSUME NEW t \in Threads, HandlerReturn(t) PROVE WQ!WQNext
  BY <1>5, ReturnRefines
<1>6. ASSUME NEW t \in Threads,
             LockMutex(t) \/ ExitNow(t) \/ ShutdownExit(t) \/ CondWait(t) \/ SpuriousWakeup(t)
      PROVE  UNCHANGED WQ!wqVars
  <2>1. UNCHANGED <<queueVars, a_request, exit_now, main>>
    BY <1>6 DEF LockMutex, ExitNow, ShutdownExit, CondWait, SpuriousWakeup, flagVars
  <2> QED BY <2>1, RunningUnchanged, StutterStep
<1>7. CASE Abort
  <2>1. UNCHANGED <<queueVars, a_request, main>> /\ exit_now' = TRUE
    BY <1>7 DEF Abort, threadVars
  <2>2. Queued' = Queued /\ Running' = Running
    BY <2>1, RunningUnchanged DEF Queued, queueVars
  <2>3. status' = status
    BY <2>1, <2>2 DEF status, queueVars
  <2>4. WQ!Abort
    BY <2>1, <2>3 DEF WQ!Abort
  <2> QED BY <2>4 DEF WQ!WQNext
<1>8. CASE UNCHANGED vars
  <2>1. UNCHANGED <<queueVars, a_request, exit_now, main>>
    BY <1>8 DEF vars, threadVars, flagVars
  <2> QED BY <2>1, RunningUnchanged, StutterStep
<1> QED BY <1>1, <1>2, <1>3, <1>4, <1>5, <1>6, <1>7, <1>8
    DEF Next, OwnerStep, HandlerStep, Finished

\* The thread pool implements the work queue, for any pool arguments.
THEOREM PoolImplementsWorkQueue == Spec => ImplementsWorkQueue
<1>1. Init => WQ!WQInit
  BY RefinementInit
<1>2. IInv /\ IInv' /\ [Next]_vars => [WQ!WQNext]_(WQ!wqVars)
  BY RefinementNext
<1> QED BY <1>1, <1>2, Invariance, PTL DEF Spec, ImplementsWorkQueue, WQ!WQSpec
=============================================================================
