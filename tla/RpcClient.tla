------------------------------ MODULE RpcClient ------------------------------
(***************************************************************************)
(* The client side of a call: lwfs_call_rpc and lwfs_waitany of            *)
(* rpc_client.c, with the transfers of lwfs_ptls.c they use, against one   *)
(* service.  A call posts match entries for its bulk data, its short       *)
(* result and its long arguments, puts the request, and the service works  *)
(* on the entries by their match bits alone.  The bits come from counters  *)
(* shared by the threads of the process (a storage or naming server with a *)
(* pool is such a client of the authorization service).                    *)
(***************************************************************************)
EXTENDS Integers, Sequences, SequencesExt, FiniteSets

CONSTANTS
    Threads,       \* threads of the client process
    Kinds,         \* what the calls are: a subset of AllKinds
    MaxCalls,      \* bound on the calls of a behaviour
    Late,          \* transfers and answers may take longer than a timeout
    GarbageValid,  \* the memory before a request may look like a live event queue
    None

AllKinds == {"short", "data", "longargs", "longres", "service", "unknown"}

ASSUME ClientAssumption ==
    /\ Kinds \subseteq AllKinds /\ MaxCalls \in Nat
    /\ Late \in BOOLEAN /\ GarbageValid \in BOOLEAN

Calls == 1..MaxCalls
Outcomes == {"OK", "remote error", "ERR_RPC", "failed"}   \* what the caller is told

ASSUME NoneAssumption == None \notin Calls /\ None \notin Kinds /\ None \notin Outcomes
Portals == {"data", "res", "args"}   \* LWFS_DATA_, LWFS_RES_, LWFS_LONG_ARGS_PT_INDEX

VARIABLES
    counter,   \* the static counters that make match bits, one per portal
    reg,       \* what a thread has loaded from a counter
    entries,   \* the match entries, in matching order
    req,       \* the lwfs_request of each call, once it is made
    pc, cur,   \* where a thread is, and the call it is in
    waiting,   \* the requests a thread waits for, and the one it has an event of
    which,
    svc,       \* how far the service is with each request
    inbox,     \* what the short result buffer of a request has received
    argsTaken, \* requests whose long arguments were fetched
    touched,   \* history: <<r, q>> when the service, for request r, used an entry of q
    told,      \* history: what the wait for a request returned
    stray      \* history: requests whose fetch buffer was freed with a get outstanding

netVars == <<entries, svc, inbox, argsTaken, touched>>
vars == <<counter, reg, req, pc, cur, waiting, which, netVars, told, stray>>

NoCall == [kind |-> None, status |-> "none", queues |-> {}, bits |-> [p \in Portals |-> 0]]
Nothing == [of |-> None, rc |-> "none", got |-> "nothing"]

Init ==
    /\ counter = [p \in Portals |-> 0]
    /\ reg = [t \in Threads |-> 0]
    /\ entries = <<>>
    /\ req = [r \in Calls |-> NoCall]
    /\ pc = [t \in Threads |-> "idle"]
    /\ cur = [t \in Threads |-> None]
    /\ waiting = [t \in Threads |-> {}]
    /\ which = [t \in Threads |-> None]
    /\ svc = [r \in Calls |-> "none"]
    /\ inbox = [r \in Calls |-> Nothing]
    /\ argsTaken = {} /\ touched = {}
    /\ told = [r \in Calls |-> None]
    /\ stray = {}

Goto(t, label) == pc' = [pc EXCEPT ![t] = label]

\* The first entry of a portal that matches.
Matching(p, bits) ==
    {i \in DOMAIN entries :
        /\ entries[i].portal = p /\ entries[i].bits = bits
        /\ \A j \in 1..(i - 1) : ~(entries[j].portal = p /\ entries[j].bits = bits)}

\* A request has at most one entry at a portal.
Posted(p, r) == {i \in DOMAIN entries : entries[i].portal = p /\ entries[i].req = r}
Unlink(p, r) ==
    IF Posted(p, r) = {} THEN entries
    ELSE RemoveAt(entries, CHOOSE i \in Posted(p, r) : TRUE)
-----------------------------------------------------------------------------
(* lwfs_call_rpc *)

Call(t, r, k) ==
    /\ pc[t] = "idle"
    /\ req[r] = NoCall /\ (r > 1 => req[r - 1] # NoCall)
    /\ req' = [req EXCEPT ![r].kind = k, ![r].status = "SENDING_REQUEST"]
    /\ cur' = [cur EXCEPT ![t] = r]
    /\ Goto(t, "data")
    /\ UNCHANGED <<counter, reg, waiting, which, netVars, told, stray>>

Counted(t, p) == pc[t] = p /\ (p = "args" => req[cur[t]].kind = "longargs")

\* Where a thread is with the counter of a portal.
StoreAt == [data |-> "store_data", res |-> "store_res", args |-> "store_args"]
PostAt == [data |-> "post_data", res |-> "post_res", args |-> "post_args"]

\* Every counter is incremented without a lock: it is loaded ...
LoadCounter(t, p) ==
    /\ Counted(t, p)
    /\ reg' = [reg EXCEPT ![t] = counter[p]]
    /\ Goto(t, StoreAt[p])
    /\ UNCHANGED <<counter, req, cur, waiting, which, netVars, told, stray>>

\* A slip: the counter stays as it was.
StoreCounterSame(t, p) ==
    /\ pc[t] = StoreAt[p]
    /\ Goto(t, PostAt[p])
    /\ UNCHANGED <<counter, reg, req, cur, waiting, which, netVars, told, stray>>

\* ... and stored.
StoreCounter(t, p) ==
    /\ pc[t] = StoreAt[p]
    /\ counter' = [counter EXCEPT ![p] = reg[t] + 1]
    /\ Goto(t, PostAt[p])
    /\ UNCHANGED <<reg, req, cur, waiting, which, netVars, told, stray>>

NextPortal == [data |-> "res", res |-> "args", args |-> "put"]

\* The bits of data and results are read from the counter again; those of arguments are
\* the value it had before.  post_data_md counts also when there is no data.
Post(t, p) ==
    LET r == cur[t]
        bits == IF p = "args" THEN reg[t] ELSE counter[p]
    IN  /\ pc[t] = PostAt[p]
        /\ IF p = "data" /\ req[r].kind # "data"
           THEN UNCHANGED <<req, entries>>
           ELSE /\ req' = [req EXCEPT ![r].bits[p] = bits, ![r].queues = @ \cup {p}]
                /\ entries' = Append(entries, [portal |-> p, bits |-> bits, req |-> r])
        /\ Goto(t, NextPortal[p])
        /\ UNCHANGED <<counter, reg, cur, waiting, which, svc, inbox, argsTaken, touched,
                       told, stray>>

ShortArgs(t) ==
    /\ pc[t] = "args" /\ req[cur[t]].kind # "longargs"
    /\ Goto(t, "put")
    /\ UNCHANGED <<counter, reg, req, cur, waiting, which, netVars, told, stray>>

\* lwfs_ptl_put of the request: it has all its events, or the first of them comes too late.
PutRequest(t) ==
    LET r == cur[t]
    IN  /\ pc[t] = "put"
        /\ \/ /\ req' = [req EXCEPT ![r].status = "PROCESSING_REQUEST"]
              /\ svc' = [svc EXCEPT ![r] = "sent"]
              /\ UNCHANGED told
           \/ /\ Late                    \* what was posted stays posted
              /\ svc' \in {svc, [svc EXCEPT ![r] = "sent"]}
              /\ told' = [told EXCEPT ![r] = "failed"]
              /\ UNCHANGED req
        /\ Goto(t, "idle")
        /\ cur' = [cur EXCEPT ![t] = None]
        /\ UNCHANGED <<counter, reg, waiting, which, entries, inbox, argsTaken, touched, stray>>
-----------------------------------------------------------------------------
(* The service, and the network below it.  It reaches an entry by its portal and bits.     *)

\* fetch_args
FetchArgs(r) ==
    /\ svc[r] = "sent"
    /\ \/ /\ req[r].kind # "longargs" /\ UNCHANGED <<entries, argsTaken, touched>>
       \/ /\ req[r].kind = "longargs"
          /\ \E i \in Matching("args", req[r].bits["args"]) :
                /\ entries' = RemoveAt(entries, i)
                /\ argsTaken' = argsTaken \cup {entries[i].req}
                /\ touched' = touched \cup {<<r, entries[i].req>>}
    /\ svc' = [svc EXCEPT ![r] = IF req[r].kind = "unknown" THEN "dropped" ELSE "called"]
    /\ UNCHANGED <<counter, reg, req, pc, cur, waiting, which, inbox, told, stray>>

\* The operation, with its lwfs_get_data or lwfs_put_data.
RunOp(r) ==
    /\ svc[r] = "called"
    /\ touched' = touched \cup (IF req[r].kind # "data" THEN {}
                                ELSE {<<r, entries[i].req>> :
                                          i \in Matching("data", req[r].bits["data"])})
    /\ svc' = [svc EXCEPT ![r] = "ran"]
    /\ UNCHANGED <<counter, reg, req, pc, cur, waiting, which, entries, inbox, argsTaken,
                   told, stray>>

\* send_result: the start of the put reaches the buffer that matches ...
ResultStart(r, code) ==
    /\ svc[r] = "ran"
    /\ \E i \in Matching("res", req[r].bits["res"]) :
          LET q == entries[i].req
          IN  /\ inbox' = [inbox EXCEPT ![q] = [of |-> r, rc |-> code, got |-> "start"]]
              /\ touched' = touched \cup {<<r, q>>}
              /\ entries' = RemoveAt(entries, i)
    /\ svc' = [svc EXCEPT ![r] = "answered"]
    /\ UNCHANGED <<counter, reg, req, pc, cur, waiting, which, argsTaken, told, stray>>

\* ... and then all of it, and the entry is unlinked.
ResultEnd(q) ==
    /\ inbox[q].of # None /\ inbox[q].got = "start"
    /\ inbox' = [inbox EXCEPT ![q].got = "all"]
    /\ UNCHANGED <<counter, reg, req, pc, cur, waiting, which, entries, svc, argsTaken, touched,
                   told, stray>>
-----------------------------------------------------------------------------
(* lwfs_waitany; lwfs_wait and lwfs_timedwait are the case of one request *)

Wait(t, S) ==
    /\ pc[t] = "idle"
    /\ S # {} /\ \A r \in S : told[r] = None /\ req[r].status = "PROCESSING_REQUEST"
                              /\ \A u \in Threads : cur[u] # r /\ r \notin waiting[u]
    /\ (\E r \in S : req[r].kind = "service") => Cardinality(S) = 1
    /\ waiting' = [waiting EXCEPT ![t] = S]
    /\ Goto(t, "poll")
    /\ UNCHANGED <<counter, reg, req, cur, which, netVars, told, stray>>

\* A slip: which is not initialized again.
FinishKeepsWhich(t, r, code) ==
    /\ told' = [told EXCEPT ![r] = code]
    /\ Goto(t, "idle")
    /\ waiting' = [waiting EXCEPT ![t] = {}]
    /\ UNCHANGED which

Finish(t, r, code) ==
    /\ told' = [told EXCEPT ![r] = code]
    /\ Goto(t, "idle")
    /\ waiting' = [waiting EXCEPT ![t] = {}]
    /\ which' = [which EXCEPT ![t] = None]

\* A slip: only the queue of the first request is polled.
PollFirstSlot(t, r) ==
    /\ pc[t] = "poll" /\ which[t] = None
    /\ r \in waiting[t] /\ \A q \in waiting[t] : r <= q
    /\ "res" \in req[r].queues /\ inbox[r].of # None
    /\ which' = [which EXCEPT ![t] = r]
    /\ UNCHANGED <<counter, reg, req, pc, cur, waiting, netVars, told, stray>>

\* The first event chooses the request.
PollFirst(t, r) ==
    /\ pc[t] = "poll" /\ which[t] = None
    /\ r \in waiting[t] /\ "res" \in req[r].queues /\ inbox[r].of # None
    /\ which' = [which EXCEPT ![t] = r]
    /\ UNCHANGED <<counter, reg, req, pc, cur, waiting, netVars, told, stray>>

PollRest(t) ==
    /\ pc[t] = "poll" /\ which[t] # None /\ inbox[which[t]].got = "all"
    /\ req' = [req EXCEPT ![which[t]].status = "PROCESSING_RESULT"]
    /\ Goto(t, "result")
    /\ UNCHANGED <<counter, reg, cur, waiting, which, netVars, told, stray>>

\* No event in time, before any came: *which is still -1, and the queue that
\* req_array[-1] names is freed.  It is no queue, or whichever queue is named.
TimeOutEarly(t) ==
    /\ Late /\ pc[t] = "poll" /\ which[t] = None
    /\ \E r \in waiting[t] :
          /\ req[r].kind = "service"
          /\ \/ Finish(t, r, "ERR_RPC") /\ UNCHANGED req
             \/ /\ GarbageValid
                /\ \E q \in Calls, p \in Portals, code \in {"OK", "ERR_RPC"} :
                      /\ p \in req[q].queues
                      /\ req' = [req EXCEPT ![q].queues = @ \ {p}]
                      /\ Finish(t, r, code)
    /\ UNCHANGED <<counter, reg, cur, netVars, stray>>

\* No event in time after the first: the queue is freed, and the status is not a final one.
TimeOutHalfway(t) ==
    /\ Late /\ pc[t] = "poll" /\ which[t] # None
    /\ req[which[t]].kind = "service"
    /\ req' = [req EXCEPT ![which[t]].queues = @ \ {"res"}]
    /\ Finish(t, which[t], "ERR_RPC")
    /\ UNCHANGED <<counter, reg, cur, netVars, stray>>

\* A slip: the code in the header is not looked at.
ProcessResultBlind(t) ==
    LET r == which[t]
    IN  /\ pc[t] = "result"
        /\ req' = [req EXCEPT ![r].status = "REQUEST_COMPLETE"]
        /\ Goto(t, "cleanup")
        /\ UNCHANGED <<counter, reg, cur, waiting, which, netVars, told, stray>>

\* process_result.  A long result is fetched with lwfs_ptl_get, whose first event may come
\* too late: the buffer is freed although the get is outstanding, and the wait gives up.
ProcessResult(t) ==
    LET r == which[t]
    IN  /\ pc[t] = "result"
        /\ \/ /\ inbox[r].rc # "OK"
              /\ req' = [req EXCEPT ![r].status = "REQUEST_ERROR"]
              /\ Goto(t, "cleanup") /\ UNCHANGED <<waiting, which, told, stray>>
           \/ /\ inbox[r].rc = "OK"
              /\ req' = [req EXCEPT ![r].status = "REQUEST_COMPLETE"]
              /\ Goto(t, "cleanup") /\ UNCHANGED <<waiting, which, told, stray>>
           \/ /\ Late /\ inbox[r].rc = "OK" /\ req[r].kind = "longres"
              /\ stray' = stray \cup {r}
              /\ Finish(t, r, "ERR_RPC") /\ UNCHANGED req
        /\ UNCHANGED <<counter, reg, cur, netVars>>

\* cleanup_long_args waits until the arguments were fetched; then the queues are freed
\* and the entry of the data is unlinked.
CleanUp(t) ==
    LET r == which[t]
    IN  /\ pc[t] = "cleanup"
        /\ ("args" \in req[r].queues => r \in argsTaken)
        /\ req' = [req EXCEPT ![r].queues = {}]
        /\ entries' = Unlink("data", r)
        /\ Finish(t, r, IF req[r].status = "REQUEST_ERROR" THEN "remote error" ELSE "OK")
        /\ UNCHANGED <<counter, reg, cur, svc, inbox, argsTaken, touched, stray>>
-----------------------------------------------------------------------------
Step(t) ==
    \/ \E p \in Portals : LoadCounter(t, p) \/ StoreCounter(t, p) \/ Post(t, p)
    \/ ShortArgs(t) \/ PutRequest(t)
    \/ (\E r \in Calls : PollFirst(t, r)) \/ PollRest(t)
    \/ ProcessResult(t) \/ CleanUp(t)

Serve(r) ==
    \/ FetchArgs(r) \/ RunOp(r) \/ (\E code \in {"OK", "ERR"} : ResultStart(r, code))
    \/ ResultEnd(r)

Next ==
    \/ \E t \in Threads :
          \/ \E r \in Calls, k \in Kinds : Call(t, r, k)
          \/ \E S \in SUBSET Calls : Wait(t, S)
          \/ Step(t) \/ TimeOutEarly(t) \/ TimeOutHalfway(t)
    \/ \E r \in Calls : Serve(r)

\* Threads run, and the service and the network get on with every request.
Fairness ==
    /\ \A t \in Threads : WF_vars(Step(t))
    /\ \A r \in Calls : WF_vars(Serve(r))

Spec == Init /\ [][Next]_vars
FairSpec == Spec /\ Fairness
-----------------------------------------------------------------------------
Statuses == {"none", "SENDING_REQUEST", "PROCESSING_REQUEST", "PROCESSING_RESULT",
             "REQUEST_COMPLETE", "REQUEST_ERROR"}

TypeOK ==
    /\ counter \in [Portals -> 0..MaxCalls] /\ reg \in [Threads -> 0..MaxCalls]
    /\ \A i \in DOMAIN entries : entries[i].portal \in Portals /\ entries[i].req \in Calls
    /\ \A r \in Calls : req[r].status \in Statuses /\ req[r].queues \subseteq Portals
    /\ \A t \in Threads : cur[t] # None <=> pc[t] \notin {"idle", "poll", "result", "cleanup"}
    /\ \A t \in Threads : which[t] # None => which[t] \in waiting[t]
    /\ touched \subseteq Calls \X Calls /\ argsTaken \subseteq Calls

\* The service takes arguments from, moves data to, and answers into the buffers of the
\* request it works on, although nothing but match bits tells them apart; also after calls
\* that failed and left their entries posted.
OwnBuffers == \A pair \in touched : pair[1] = pair[2]

\* A wait says that a request succeeded, or failed remotely, when the service said so in
\* answer to that request; and it leaves nothing of the request posted.
WaitTellsTruth ==
    \A r \in Calls : told[r] \in {"OK", "remote error"} =>
        /\ inbox[r].of = r /\ inbox[r].got = "all"
        /\ (told[r] = "OK") = (inbox[r].rc = "OK")
        /\ req[r].queues = {} /\ \A i \in DOMAIN entries : entries[i].req # r

\* The memory that a get of the network writes to is not freed before the get is over.
NoStrayReply == stray = {}

\* A call whose failure was reported is not carried out later with the caller's buffers.
FailedCallsAreOver ==
    [][\A r \in Calls : told[r] = "failed" => {p \in touched' : p[2] = r} \subseteq touched]_vars

\* A wait for a request that the service knows returns.
WaitsReturn ==
    \A r \in Calls :
        (req[r].kind # "unknown" /\ \E t \in Threads : r \in waiting[t])
            ~> (\A t \in Threads : r \notin waiting[t])
=============================================================================
