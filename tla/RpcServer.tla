------------------------------ MODULE RpcServer ------------------------------
(***************************************************************************)
(* One RPC service: server/rpc_server/rpc_server.c.                        *)
(*                                                                         *)
(* The main thread (lwfs_service_start) posts two request buffers, takes   *)
(* the events of arriving requests from one event queue, and hands each    *)
(* request to the thread pool or processes it itself.  A worker            *)
(* (process_request) decodes the request IN PLACE in the request buffer,   *)
(* fetches long arguments from the client, runs the operation and sends    *)
(* the result (send_result).  When main has dispatched as many requests    *)
(* from a buffer as it holds, it posts the buffer again.                   *)
(*                                                                         *)
(* The pool is taken at its abstraction, WorkQueue.tla, which              *)
(* ThreadPool.tla implements; PoolIsWorkQueue checks that it is used so.   *)
(* lwfs_ptl_lock is recursive; ptl_lock is the worker that keeps it while  *)
(* other threads may run, and every step that takes and releases it needs  *)
(* it to be free.                                                          *)
(***************************************************************************)
EXTENDS Integers, Sequences, SequencesExt, FiniteSets

CONSTANTS
  ReqsPerQueue,   \* reqs_per_queue (10000 in the code)
  EqSlots,        \* capacity of the event queue (reqs_per_queue in the code)
  NumWorkers,     \* threads of the pool; one when there is no pool
  UseThreads,     \* pool_args # NULL
  MaxReqs,        \* svc->max_reqs; negative means no maximum
  MemLimited,     \* max_mem_allowed > 0
  NetTimeouts,    \* transfers may take longer than MIN_TIMEOUT
  Kinds,          \* the kinds of request that clients send
  MaxMsgs         \* bound: requests that reach the service in one behaviour

AllKinds == {"short", "longargs", "longres", "unknown", "kill"}

ASSUME ServerAssumption ==
  /\ ReqsPerQueue \in Nat \ {0}
  /\ EqSlots \in Nat \ {0}
  /\ NumWorkers \in Nat \ {0}
  /\ UseThreads \in BOOLEAN
  /\ MaxReqs \in Int
  /\ MemLimited \in BOOLEAN
  /\ NetTimeouts \in BOOLEAN
  /\ Kinds \subseteq AllKinds
  /\ MaxMsgs \in Nat

Queues   == 1 .. 2                  \* NUM_QUEUES
Slots    == 1 .. ReqsPerQueue
Workers  == 1 .. NumWorkers
Messages == 1 .. MaxMsgs
None     == 0                       \* no message, no worker, no data

VARIABLES
  kind,         \* what each request that has arrived asks for
  buf,          \* the request buffers: req_queue[q], by slot
  md,           \* puts that the memory descriptor of each buffer still accepts
  meList,       \* the match entries on the request portal, in matching order
  eq,           \* the event queue
  lost,         \* requests whose PUT_END event found the event queue full
  queue_count,  \* requests dispatched from each buffer since it was posted
  req_count,    \* requests dispatched
  main,         \* where lwfs_service_start is
  index,        \* the buffer main took the last request from
  freed,        \* request buffers that were freed
  pool,         \* requests waiting in the thread pool
  wk,           \* the workers
  ptl_lock,     \* the worker that holds lwfs_ptl_lock across steps, or None
  exit_now,     \* lwfs_exit_now()
  ran,          \* operations run: for which request, on which header and arguments
  ended,        \* requests whose process_request returned
  delivered,    \* requests whose client received a result, or a long result's header
  fetched,      \* requests whose client fetched its long result
  stale,        \* requests whose long result was freed while it was still posted
  readFreed,    \* a worker decoded a request buffer after it was freed
  overMemory    \* a request was given up because of max_mem_allowed

netVars   == <<kind, buf, md, meList, eq, lost>>
mainVars  == <<queue_count, req_count, main, index, freed>>
replyVars == <<delivered, fetched, stale>>
workVars  == <<pool, wk, ptl_lock, ran, ended, readFreed, overMemory>>
vars == <<netVars, mainVars, replyVars, workVars, exit_now>>

\* thr_request: where the request is; msg is the message that was put there.
Item == [q : Queues, s : Slots, msg : Messages]
NoItem == [q |-> None, s |-> None, msg |-> None]
IdleWorker == [pc |-> "idle", item |-> NoItem, hdr |-> None, args |-> None]

WorkerStates == {"idle", "decode", "args", "op", "send", "await"}
MainStates == {"top", "wait", "inline", "reset", "attach", "cleanup", "fini",
               "done", "aborted"}

Init ==
  /\ kind = <<>>
  /\ buf = [q \in Queues |-> [s \in Slots |-> None]]
  /\ md = [q \in Queues |-> ReqsPerQueue]
  /\ meList = <<1, 2>>
  /\ eq = <<>>
  /\ lost = {}
  /\ queue_count = [q \in Queues |-> 0]
  /\ req_count = 0
  /\ main = "top"
  /\ index = 1
  /\ freed = {}
  /\ pool = <<>>
  /\ wk = [w \in Workers |-> IdleWorker]
  /\ ptl_lock = None
  /\ exit_now = FALSE
  /\ ran = {} /\ ended = {} /\ delivered = {} /\ fetched = {} /\ stale = {}
  /\ readFreed = FALSE
  /\ overMemory = FALSE

-----------------------------------------------------------------------------
(* The clients and the Portals interface (external).                       *)

\* The request portal delivers a put to the first match entry whose memory
\* descriptor is active; a put that finds none is dropped and changes nothing.
Accepting == {i \in DOMAIN meList : md[meList[i]] > 0}

\* A request arrives: it is written to the next slot of the buffer, and the
\* START and END events are queued as far as the event queue has room.
ClientPut(k) ==
  /\ main # "aborted"
  /\ Len(kind) < MaxMsgs
  /\ Accepting # {}
  /\ LET q    == meList[CHOOSE i \in Accepting : \A j \in Accepting : i <= j]
         item == [q |-> q, s |-> ReqsPerQueue - md[q] + 1, msg |-> Len(kind) + 1]
         room == EqSlots - Len(eq)
     IN  /\ kind' = Append(kind, k)
         /\ buf' = [buf EXCEPT ![q][item.s] = item.msg]
         /\ md' = [md EXCEPT ![q] = @ - 1]
         /\ eq' = eq \o SubSeq(<<[type |-> "start", item |-> item],
                                 [type |-> "end", item |-> item]>>,
                               1, IF room > 2 THEN 2 ELSE room)
         /\ lost' = IF room < 2 THEN lost \cup {item} ELSE lost
  /\ UNCHANGED <<meList, mainVars, replyVars, workVars, exit_now>>

\* A client that received the header of a long result gets the result; the
\* match entry is still linked when send_result gave up waiting.
ClientGet(m) ==
  /\ m \in delivered \ fetched
  /\ kind[m] = "longres"
  /\ fetched' = fetched \cup {m}
  /\ UNCHANGED <<netVars, mainVars, delivered, stale, workVars, exit_now>>

\* SIGINT or SIGTERM.
Signal ==
  /\ main # "aborted"
  /\ ~exit_now
  /\ exit_now' = TRUE
  /\ UNCHANGED <<netVars, mainVars, replyVars, workVars>>

-----------------------------------------------------------------------------
(* The main thread: lwfs_service_start.                                    *)

MaxReached == MaxReqs >= 0 /\ req_count >= MaxReqs

\* The head of the event loop, and of the loop in lwfs_ptl_eq_poll.
LoopHead ==
  /\ main = "top"
  /\ main' = IF exit_now \/ MaxReached THEN "cleanup" ELSE "wait"
  /\ UNCHANGED <<netVars, queue_count, req_count, index, freed, replyVars,
                 workVars, exit_now>>

\* PtlEQPoll times out, or returns a START event: back to wait for another.
PollAgain ==
  /\ main = "wait"
  /\ ptl_lock = None
  /\ \/ eq = <<>> /\ UNCHANGED eq
     \/ eq # <<>> /\ Head(eq).type = "start" /\ eq' = Tail(eq)
  /\ main' = "top"
  /\ UNCHANGED <<kind, buf, md, meList, lost, queue_count, req_count, index,
                 freed, replyVars, workVars, exit_now>>

\* A PUT_END event: the request is counted and given to the pool, or to the
\* main thread itself, which then is "worker" 1.
TakeRequest ==
  /\ main = "wait"
  /\ ptl_lock = None
  /\ eq # <<>>
  /\ Head(eq).type = "end"
  /\ LET item == Head(eq).item
     IN  /\ index' = item.q
         /\ queue_count' = [queue_count EXCEPT ![item.q] = @ + 1]
         /\ IF UseThreads
              THEN pool' = Append(pool, item) /\ main' = "reset" /\ UNCHANGED wk
              ELSE /\ wk' = [wk EXCEPT ![1] = [IdleWorker EXCEPT !.pc = "decode", !.item = item]]
                   /\ main' = "inline"
                   /\ UNCHANGED pool
  /\ eq' = Tail(eq)
  /\ req_count' = req_count + 1
  /\ UNCHANGED <<kind, buf, md, meList, lost, freed, replyVars, ptl_lock, ran,
                 ended, readFreed, overMemory, exit_now>>

\* Mutant of InlineDone: the main thread does not wait for process_request.
InlineDoneEarly ==
  /\ main = "inline"
  /\ main' = "reset"
  /\ UNCHANGED <<netVars, queue_count, req_count, index, freed, replyVars,
                 workVars, exit_now>>

\* process_request returns to the main thread.
InlineDone ==
  /\ main = "inline"
  /\ wk[1].pc = "idle"
  /\ main' = "reset"
  /\ UNCHANGED <<netVars, queue_count, req_count, index, freed, replyVars,
                 workVars, exit_now>>

\* The match list without the entry of a buffer, which is on it once.
WithoutQueue(q) == RemoveAt(meList, CHOOSE i \in DOMAIN meList : meList[i] = q)

\* Mutants of UnlinkME: one request too late, and without the unlink.
UnlinkMEWhen(used, list) ==
  /\ main = "reset"
  /\ IF used
       THEN meList' = list /\ main' = "attach"
       ELSE UNCHANGED meList /\ main' = "top"
  /\ UNCHANGED <<kind, buf, md, eq, lost, queue_count, req_count, index, freed,
                 replyVars, workVars, exit_now>>

UnlinkMELate == UnlinkMEWhen(queue_count[index] > ReqsPerQueue, WithoutQueue(index))
UnlinkMEKeeps == UnlinkMEWhen(queue_count[index] >= ReqsPerQueue, meList)

\* The buffer's match entry is unlinked when queue_count says it is used up ...
UnlinkME ==
  /\ main = "reset"
  /\ IF queue_count[index] >= ReqsPerQueue
       THEN meList' = WithoutQueue(index) /\ main' = "attach"
       ELSE UNCHANGED meList /\ main' = "top"
  /\ UNCHANGED <<kind, buf, md, eq, lost, queue_count, req_count, index, freed,
                 replyVars, workVars, exit_now>>

\* Mutant of AttachMD: the count is not reset.
AttachMDNoReset ==
  /\ main = "attach"
  /\ meList' = Append(meList, index)
  /\ md' = [md EXCEPT ![index] = ReqsPerQueue]
  /\ main' = "top"
  /\ UNCHANGED <<kind, buf, eq, lost, queue_count, req_count, index, freed,
                 replyVars, workVars, exit_now>>

\* ... and attached again, at the end of the list, with a fresh descriptor.
AttachMD ==
  /\ main = "attach"
  /\ meList' = Append(meList, index)
  /\ md' = [md EXCEPT ![index] = ReqsPerQueue]
  /\ queue_count' = [queue_count EXCEPT ![index] = 0]
  /\ main' = "top"
  /\ UNCHANGED <<kind, buf, eq, lost, req_count, index, freed, replyVars,
                 workVars, exit_now>>

\* cleanup: each memory descriptor is unlinked and its buffer freed, ...
FreeQueue ==
  /\ main = "cleanup"
  /\ ptl_lock = None
  /\ \E q \in Queues \ freed :
       /\ \A p \in Queues \ freed : q <= p
       /\ meList' = WithoutQueue(q)
       /\ freed' = freed \cup {q}
  /\ UNCHANGED <<kind, buf, md, eq, lost, queue_count, req_count, main, index,
                 replyVars, workVars, exit_now>>

\* ... then the event queue, ...
FreeEq ==
  /\ main = "cleanup"
  /\ ptl_lock = None
  /\ freed = Queues
  /\ eq' = <<>>
  /\ main' = "fini"
  /\ UNCHANGED <<kind, buf, md, meList, lost, queue_count, req_count, index,
                 freed, replyVars, workVars, exit_now>>

\* ... and only then does lwfs_thread_pool_fini wait for the workers.  They
\* leave queued requests alone only when lwfs_exit_now() is true.
PoolFini ==
  /\ main = "fini"
  /\ \A w \in Workers : wk[w].pc = "idle"
  /\ pool # <<>> => exit_now
  /\ pool' = <<>>
  /\ main' = "done"
  /\ UNCHANGED <<netVars, queue_count, req_count, index, freed, replyVars, wk,
                 ptl_lock, ran, ended, readFreed, overMemory, exit_now>>

-----------------------------------------------------------------------------
(* A worker: process_request.                                              *)

At(w, pc) == main # "aborted" /\ wk[w].pc = pc

Set(w, f) == wk' = [wk EXCEPT ![w] = f]

\* process_request returns; the thread goes back to the pool.
Return(w) ==
  /\ Set(w, IdleWorker)
  /\ ended' = ended \cup {wk[w].item.msg}

\* Mutant of StartRequest: the newest request is taken.
StartRequestNewest(w) ==
  /\ UseThreads
  /\ main # "done"
  /\ ~exit_now
  /\ At(w, "idle")
  /\ pool # <<>>
  /\ Set(w, [IdleWorker EXCEPT !.pc = "decode", !.item = pool[Len(pool)]])
  /\ pool' = SubSeq(pool, 1, Len(pool) - 1)
  /\ UNCHANGED <<netVars, mainVars, replyVars, ptl_lock, ran, ended, readFreed,
                 overMemory, exit_now>>

\* A pool thread takes the oldest request.
StartRequest(w) ==
  /\ UseThreads
  /\ main # "done"
  /\ ~exit_now
  /\ At(w, "idle")
  /\ pool # <<>>
  /\ Set(w, [IdleWorker EXCEPT !.pc = "decode", !.item = Head(pool)])
  /\ pool' = Tail(pool)
  /\ UNCHANGED <<netVars, mainVars, replyVars, ptl_lock, ran, ended, readFreed,
                 overMemory, exit_now>>

\* The memory in use is over max_mem_allowed: the request is given up.
MemoryExceeded(w) ==
  /\ MemLimited
  /\ At(w, "decode")
  /\ overMemory' = TRUE
  /\ Return(w)
  /\ UNCHANGED <<netVars, mainVars, replyVars, pool, ptl_lock, ran, readFreed, exit_now>>

\* The request header is decoded from the buffer and the operation is looked
\* up; without one the request ends, and the client gets no answer.
DecodeHeader(w) ==
  LET it == wk[w].item
      m  == buf[it.q][it.s]
  IN  /\ At(w, "decode")
      /\ IF kind[m] = "unknown"
           THEN Return(w)
           ELSE Set(w, [wk[w] EXCEPT !.pc = "args", !.hdr = m]) /\ UNCHANGED ended
      /\ readFreed' = (readFreed \/ it.q \in freed)
      /\ UNCHANGED <<netVars, mainVars, replyVars, pool, ptl_lock, ran, overMemory, exit_now>>

\* A header read from freed memory may be garbage: xdr fails and the process
\* aborts, or the operation is not found.
DecodeGarbage(w) ==
  /\ At(w, "decode")
  /\ wk[w].item.q \in freed
  /\ \/ main' = "aborted" /\ UNCHANGED <<wk, ended>>
     \/ Return(w) /\ UNCHANGED main
  /\ readFreed' = TRUE
  /\ UNCHANGED <<netVars, queue_count, req_count, index, freed, replyVars, pool,
                 ptl_lock, ran, overMemory, exit_now>>

\* Short arguments are decoded from the request buffer, behind the header;
\* what freed memory holds is not a request any more.
DecodeArgs(w) ==
  LET it == wk[w].item
  IN  /\ At(w, "args")
      /\ kind[wk[w].hdr] # "longargs"
      /\ \/ Set(w, [wk[w] EXCEPT !.pc = "op", !.args = buf[it.q][it.s]]) /\ UNCHANGED ended
         \/ it.q \in freed /\ Return(w)
      /\ readFreed' = (readFreed \/ it.q \in freed)
      /\ UNCHANGED <<netVars, mainVars, replyVars, pool, ptl_lock, ran, overMemory, exit_now>>

\* fetch_args: lwfs_ptl_get fails when the reply takes longer than MIN_TIMEOUT
\* or lwfs_exit_now() is set; fetch_args returns LWFS_OK all the same.
FetchArgs(w) ==
  /\ At(w, "args")
  /\ kind[wk[w].hdr] = "longargs"
  /\ ptl_lock = None
  /\ \/ ~exit_now /\ Set(w, [wk[w] EXCEPT !.pc = "op", !.args = wk[w].hdr])
     \/ (exit_now \/ NetTimeouts) /\ Set(w, [wk[w] EXCEPT !.pc = "op", !.args = None])
  /\ UNCHANGED <<netVars, mainVars, replyVars, pool, ptl_lock, ran, ended,
                 readFreed, overMemory, exit_now>>

\* The operation; rpc_kill_service calls lwfs_abort.
RunOp(w) ==
  /\ At(w, "op")
  /\ ran' = ran \cup {[msg |-> wk[w].item.msg, hdr |-> wk[w].hdr, args |-> wk[w].args]}
  /\ exit_now' = (exit_now \/ kind[wk[w].hdr] = "kill")
  /\ Set(w, [wk[w] EXCEPT !.pc = "send"])
  /\ UNCHANGED <<netVars, mainVars, replyVars, pool, ptl_lock, ended, readFreed, overMemory>>

\* send_result with lwfs_ptl_lock held.  The put to the client is acknowledged;
\* for a long result the worker then waits, and keeps the lock.
SendResult(w) ==
  /\ At(w, "send")
  /\ ptl_lock = None
  /\ ~exit_now
  /\ delivered' = delivered \cup {wk[w].hdr}
  /\ IF kind[wk[w].hdr] = "longres"
       THEN Set(w, [wk[w] EXCEPT !.pc = "await"]) /\ ptl_lock' = w /\ UNCHANGED ended
       ELSE Return(w) /\ UNCHANGED ptl_lock
  /\ UNCHANGED <<netVars, mainVars, fetched, stale, pool, ran, readFreed,
                 overMemory, exit_now>>

\* The put fails for the server: no acknowledgement within MIN_TIMEOUT, or
\* lwfs_exit_now().  The data may reach the client all the same.  A posted long
\* result is freed but not unlinked.
SendFails(w) ==
  /\ At(w, "send")
  /\ ptl_lock = None
  /\ exit_now \/ NetTimeouts
  /\ delivered' \in {delivered, delivered \cup {wk[w].hdr}}
  /\ stale' = IF kind[wk[w].hdr] = "longres" THEN stale \cup {wk[w].hdr} ELSE stale
  /\ Return(w)
  /\ UNCHANGED <<netVars, mainVars, fetched, pool, ptl_lock, ran, readFreed,
                 overMemory, exit_now>>

\* Mutant of AwaitFetch: it does not wait.
AwaitFetchNot(w) ==
  /\ At(w, "await")
  /\ stale' = IF wk[w].hdr \in fetched THEN stale ELSE stale \cup {wk[w].hdr}
  /\ ptl_lock' = None
  /\ Return(w)
  /\ UNCHANGED <<netVars, mainVars, delivered, fetched, pool, ran, readFreed,
                 overMemory, exit_now>>

\* The GET completed, or lwfs_ptl_eq_wait gave up because of lwfs_exit_now().
AwaitFetch(w) ==
  /\ At(w, "await")
  /\ wk[w].hdr \in fetched \/ exit_now
  /\ stale' = IF wk[w].hdr \in fetched THEN stale ELSE stale \cup {wk[w].hdr}
  /\ ptl_lock' = None
  /\ Return(w)
  /\ UNCHANGED <<netVars, mainVars, delivered, fetched, pool, ran, readFreed,
                 overMemory, exit_now>>

-----------------------------------------------------------------------------
MainStep ==
  \/ LoopHead \/ PollAgain \/ TakeRequest \/ InlineDone \/ UnlinkME \/ AttachMD
  \/ FreeQueue \/ FreeEq \/ PoolFini

WorkerStep(w) ==
  \/ StartRequest(w) \/ MemoryExceeded(w) \/ DecodeHeader(w) \/ DecodeGarbage(w)
  \/ DecodeArgs(w) \/ FetchArgs(w) \/ RunOp(w) \/ SendResult(w) \/ SendFails(w)
  \/ AwaitFetch(w)

\* lwfs_service_start returned, or the process aborted; clients may still fetch.
Finished == main \in {"done", "aborted"} /\ UNCHANGED vars

Next ==
  \/ MainStep
  \/ \E w \in Workers : WorkerStep(w)
  \/ Signal
  \/ \E k \in Kinds : ClientPut(k)
  \/ \E m \in Messages : ClientGet(m)
  \/ Finished

Spec == Init /\ [][Next]_vars

\* Threads run and a client fetches a long result once it has its header.
\* Nothing obliges clients to send requests or a signal to arrive.
Fairness ==
  /\ WF_vars(MainStep)
  /\ \A w \in Workers : WF_vars(WorkerStep(w))
  /\ \A m \in Messages : WF_vars(ClientGet(m))

FairSpec == Spec /\ Fairness

-----------------------------------------------------------------------------
(* Properties.                                                             *)

\* The type invariant.  It bounds what the service counts: the match list holds
\* a buffer at most once, the event queue stays within its capacity, and
\* queue_count never passes the size of a buffer.
TypeOK ==
  /\ kind \in Seq(Kinds) /\ Len(kind) <= MaxMsgs
  /\ buf \in [Queues -> [Slots -> Messages \cup {None}]]
  /\ md \in [Queues -> 0 .. ReqsPerQueue]
  /\ meList \in Seq(Queues) /\ Len(meList) <= 2
  /\ eq \in Seq([type : {"start", "end"}, item : Item]) /\ Len(eq) <= EqSlots
  /\ lost \subseteq Item
  /\ queue_count \in [Queues -> 0 .. ReqsPerQueue]
  /\ req_count \in 0 .. MaxMsgs
  /\ main \in MainStates
  /\ index \in Queues
  /\ freed \subseteq Queues
  /\ pool \in Seq(Item)
  /\ wk \in [Workers -> [pc : WorkerStates, item : Item \cup {NoItem},
                         hdr : Messages \cup {None}, args : Messages \cup {None}]]
  /\ ptl_lock \in Workers \cup {None}
  /\ exit_now \in BOOLEAN
  /\ ran \subseteq [msg : Messages, hdr : Messages, args : Messages \cup {None}]
  /\ ended \subseteq Messages
  /\ delivered \subseteq Messages /\ fetched \subseteq Messages
  /\ stale \subseteq Messages
  /\ readFreed \in BOOLEAN /\ overMemory \in BOOLEAN

Pending(q) == Cardinality({i \in DOMAIN eq : eq[i].type = "end" /\ eq[i].item.q = q})
Lost(q) == Cardinality({item \in lost : item.q = q})

\* The counters that decide when a buffer is posted again agree with what the
\* network did: every put a posted descriptor has taken was dispatched, is
\* waiting in the event queue, or its event was lost.  So a reset never throws
\* away a request that was not dispatched.
BufferAccounting ==
  \A i \in DOMAIN meList :
    LET q == meList[i]
    IN  ReqsPerQueue - md[q] = queue_count[q] + Pending(q) + Lost(q)

\* An operation runs on the header and the arguments of the request that was
\* dispatched, not of one that was put over it in the request buffer.
AnswersOwnRequest ==
  \A r \in ran : r.hdr = r.msg /\ r.args \in {r.msg, None}

\* No request buffer is read after lwfs_service_start freed it.
DecodesLiveBuffer == ~readFreed

\* What process_request decodes is what the client of this request put there,
\* however often lwfs_service_start posts its buffers again.
DecodesWhatCame == AnswersOwnRequest /\ DecodesLiveBuffer

\* send_result: "if the client has to fetch the results, we need to wait for
\* the GET to complete".  A long result is freed before its client fetched it
\* only when the service was told to exit.
ResultOutlivesFetch == stale # {} => exit_now

\* A request was served: its operation ran on its own header and arguments, and its client
\* has the result, a long one too.
Served(m) ==
  /\ [msg |-> m, hdr |-> m, args |-> m] \in ran
  /\ m \in delivered
  /\ kind[m] = "longres" => m \in fetched

\* It was given up for its memory, before its operation ran.
GivenUp(m) == overMemory /\ \A r \in ran : r.msg # m

\* Unless it is told to exit the service ends no request early: when process_request returns
\* the request was served, unless it has no operation or exceeds the memory; and when
\* lwfs_service_start begins to clean up, at max_reqs or at an exit, process_request has
\* returned for every request that it took.
NothingCutShort ==
  /\ exit_now \/ \A m \in ended : kind[m] = "unknown" \/ Served(m) \/ GivenUp(m)
  /\ main \in {"cleanup", "fini", "done", "aborted"} => Cardinality(ended) = req_count

\* "Each md can recv reqs_per_queue messages": no request that was put into a
\* buffer goes unseen.
EveryRequestSeen == lost = {}

\* An operation is not run when its arguments could not be fetched.
OpNotRunWithoutArgs == \A r \in ran : r.args # None

\* "If memory in use is greater than maximum memory allowed, then exit."
MemoryLimitExits == overMemory => exit_now

\* Every request that arrives is processed, unless the service stops.
RequestsEnd ==
  \A m \in Messages :
    (m <= Len(kind)) ~> (m \in ended \/ main \in {"done", "aborted"})

\* When both buffers are full the service makes room again: a client whose put
\* was refused may try again.
AcceptsAgain ==
  (Accepting = {}) ~> (Accepting # {} \/ main \in {"done", "aborted"})

\* lwfs_exit_now() stops the service, also while a worker holds lwfs_ptl_lock
\* and waits for its client to fetch a result.
StopsOnExit == exit_now ~> (main \in {"done", "aborted"})

\* The service gets on: a request is processed, a full service takes requests
\* again, and lwfs_exit_now() ends it.
ServiceGetsOn == RequestsEnd /\ AcceptsAgain /\ StopsOnExit

-----------------------------------------------------------------------------
(* The pool, as the service uses it, is the work queue that ThreadPool      *)
(* implements.                                                              *)

\* Requests are dispatched in the order they arrived when no event is lost.
status == [m \in Messages |->
  IF m > req_count THEN "new"
  ELSE IF m \in ended THEN "done"
  ELSE IF \E w \in Workers : wk[w].item.msg = m THEN "running"
  ELSE IF main = "done" THEN "dropped"
  ELSE "queued"]

WQ == INSTANCE WorkQueue WITH
        Requests <- Messages, aborted <- exit_now, closed <- (main = "done")

\* What this module assumes of the thread pool is what ThreadPool implements:
\* FIFO starts, one run per request, a fini that waits for running requests.
PoolIsWorkQueue == WQ!WQSpec
=============================================================================
