-------------------------- MODULE RpcServerProofs --------------------------
(***************************************************************************)
(* Proofs about the RPC service, for any sizes of its buffers and of its   *)
(* event queue, any number of workers and any kinds of requests.           *)
(***************************************************************************)
EXTENDS RpcServer, SequenceTheorems, FiniteSetTheorems, TLAPS

(***************************************************************************)
(* The inductive invariant, in named parts.                                *)
(***************************************************************************)

Event == [type : {"start", "end"}, item : Item]
Worker == [pc : WorkerStates, item : Item \cup {NoItem}, hdr : Messages \cup {None},
           args : Messages \cup {None}]

Types ==
  /\ kind \in Seq(Kinds) /\ Len(kind) <= MaxMsgs
  /\ buf \in [Queues -> [Slots -> Messages \cup {None}]]
  /\ md \in [Queues -> 0 .. ReqsPerQueue]
  /\ meList \in Seq(Queues)
  /\ eq \in Seq(Event) /\ Len(eq) <= EqSlots
  /\ lost \subseteq Item /\ IsFiniteSet(lost)
  /\ queue_count \in [Queues -> 0 .. ReqsPerQueue]
  /\ req_count \in Nat
  /\ main \in MainStates
  /\ index \in Queues
  /\ freed \subseteq Queues
  /\ pool \in Seq(Item)
  /\ wk \in [Workers -> Worker]
  /\ ptl_lock \in Workers \cup {None}
  /\ exit_now \in BOOLEAN
  /\ ran \subseteq [msg : Messages, hdr : Messages, args : Messages \cup {None}]
  /\ ended \subseteq Messages
  /\ delivered \subseteq Messages /\ fetched \subseteq Messages
  /\ stale \subseteq Messages
  /\ readFreed \in BOOLEAN /\ overMemory \in BOOLEAN

\* A buffer is on the match list once, unless it was freed or is being attached again.
LinkInv ==
  /\ \A i, j \in DOMAIN meList : meList[i] = meList[j] => i = j
  /\ \A q \in Queues :
       (\E i \in DOMAIN meList : meList[i] = q) <=> q \notin freed /\ ~(main = "attach" /\ q = index)

\* Buffers are freed at the end only; one is attached again when it was used up.
PhaseInv ==
  /\ freed # {} => main \in {"cleanup", "fini", "done", "aborted"}
  /\ main \in {"fini", "done"} => freed = Queues
  /\ main = "attach" => queue_count[index] = ReqsPerQueue

\* What the network put into a buffer was dispatched, waits in the event queue or was lost.
CountInv ==
  /\ freed # Queues =>
       /\ \A q \in Queues : ReqsPerQueue - md[q] = queue_count[q] + Pending(q) + Lost(q)
       /\ req_count + Pending(1) + Pending(2) <= Len(kind)
  /\ req_count <= Len(kind)

Came == {item \in Item : item.msg <= Len(kind) /\ buf[item.q][item.s] # None}

\* Whatever is dispatched has come.
CameInv ==
  /\ \A i \in DOMAIN eq : eq[i].item \in Came
  /\ \A i \in DOMAIN pool : pool[i] \in Came
  /\ \A item \in lost : item.msg <= Len(kind)
  /\ \A w \in Workers :
       IF wk[w].pc = "idle" THEN wk[w] = IdleWorker
       ELSE wk[w].item \in Came /\ (wk[w].pc # "decode" => wk[w].hdr # None)

IInv == Types /\ LinkInv /\ PhaseInv /\ CountInv /\ CameInv
-----------------------------------------------------------------------------
(* Counting the events of a queue.                                         *)

IsEnd(e, q) == e.type = "end" /\ e.item.q = q
Ends(s, q) == {i \in DOMAIN s : IsEnd(s[i], q)}

LEMMA EndsFinite ==
  ASSUME NEW s \in Seq(Event), NEW q
  PROVE  IsFiniteSet(Ends(s, q)) /\ Cardinality(Ends(s, q)) \in Nat
<1>1. Ends(s, q) \in SUBSET (1 .. Len(s))
  BY DEF Ends
<1>2. IsFiniteSet(1 .. Len(s))
  BY FS_Interval
<1>3. IsFiniteSet(Ends(s, q))
  BY <1>1, <1>2, FS_Subset
<1> QED BY <1>3, FS_CardinalityType

\* An event more at the end ...
LEMMA EndsAppend ==
  ASSUME NEW s \in Seq(Event), NEW e \in Event, NEW q
  PROVE  Cardinality(Ends(Append(s, e), q)) =
           Cardinality(Ends(s, q)) + (IF IsEnd(e, q) THEN 1 ELSE 0)
<1>1. CASE IsEnd(e, q)
  <2>1. Ends(Append(s, e), q) = Ends(s, q) \cup {Len(s) + 1} /\ Len(s) + 1 \notin Ends(s, q)
    BY <1>1 DEF Ends
  <2> QED BY <1>1, <2>1, EndsFinite, FS_AddElement
<1>2. CASE ~IsEnd(e, q)
  <2>1. Ends(Append(s, e), q) = Ends(s, q)
    BY <1>2 DEF Ends
  <2> QED BY <1>2, <2>1, EndsFinite
<1> QED BY <1>1, <1>2

\* ... and one less at the head.
LEMMA EndsTail ==
  ASSUME NEW s \in Seq(Event), s # <<>>, NEW q
  PROVE  Cardinality(Ends(s, q)) =
           Cardinality(Ends(Tail(s), q)) + (IF IsEnd(Head(s), q) THEN 1 ELSE 0)
<1> DEFINE rest == Ends(s, q) \ {1}
           shift == [i \in Ends(Tail(s), q) |-> i + 1]
<1>1. Tail(s) \in Seq(Event) /\ Len(Tail(s)) = Len(s) - 1 /\ Len(s) \in Nat \ {0}
  OBVIOUS
<1>2. \A i \in 1 .. Len(s) - 1 : Tail(s)[i] = s[i + 1]
  OBVIOUS
<1>3. shift \in Bijection(Ends(Tail(s), q), rest)
  <2>1. ASSUME NEW i \in Ends(Tail(s), q) PROVE i \in Nat /\ i + 1 \in rest
    BY <1>1, <1>2, <2>1 DEF Ends
  <2>2. ASSUME NEW j \in rest PROVE j - 1 \in Ends(Tail(s), q) /\ shift[j - 1] = j
    <3>1. j \in 2 .. Len(s) /\ IsEnd(s[j], q)
      BY <1>1, <2>2 DEF Ends
    <3>2. j - 1 \in 1 .. Len(s) - 1 /\ (j - 1) + 1 = j
      BY <1>1, <3>1
    <3>3. Tail(s)[j - 1] = s[j]
      BY <1>2, <3>2
    <3>4. j - 1 \in Ends(Tail(s), q)
      BY <1>1, <3>1, <3>2, <3>3 DEF Ends
    <3> QED BY <3>2, <3>4
  <2>3. shift \in Injection(Ends(Tail(s), q), rest)
    BY <2>1 DEF Injection, IsInjective
  <2>4. shift \in Surjection(Ends(Tail(s), q), rest)
    <3>1. \A j \in rest : \E i \in Ends(Tail(s), q) : shift[i] = j
      BY <2>2
    <3> QED BY <2>1, <3>1 DEF Surjection
  <2> QED BY <2>3, <2>4 DEF Bijection
<1>4. Cardinality(rest) = Cardinality(Ends(Tail(s), q))
  <2>1. ExistsBijection(Ends(Tail(s), q), rest)
    BY <1>3 DEF ExistsBijection
  <2>2. IsFiniteSet(Ends(Tail(s), q))
    BY <1>1, EndsFinite
  <2> QED BY <2>1, <2>2, FS_Bijection
<1>5. 1 \in Ends(s, q) <=> IsEnd(Head(s), q)
  BY <1>1 DEF Ends
<1> HIDE DEF rest
<1>6. Cardinality(rest) = IF 1 \in Ends(s, q) THEN Cardinality(Ends(s, q)) - 1
                          ELSE Cardinality(Ends(s, q))
  BY EndsFinite, FS_RemoveElement DEF rest
<1> QED BY <1>1, <1>4, <1>5, <1>6, EndsFinite

LEMMA PendingIs == \A q : Pending(q) = Cardinality(Ends(eq, q))
BY DEF Pending, Ends, IsEnd

OfQueue(s, q) == {item \in s : item.q = q}

LEMMA LostCard ==
  ASSUME NEW s \in SUBSET Item, IsFiniteSet(s), NEW q
  PROVE  IsFiniteSet(OfQueue(s, q)) /\ Cardinality(OfQueue(s, q)) \in Nat
<1>1. OfQueue(s, q) \in SUBSET s
  BY DEF OfQueue
<1>2. IsFiniteSet(OfQueue(s, q))
  BY <1>1, FS_Subset
<1> QED BY <1>2, FS_CardinalityType

LEMMA LostAdd ==
  ASSUME NEW s \in SUBSET Item, IsFiniteSet(s), NEW x \in Item, x \notin s, NEW q
  PROVE  Cardinality(OfQueue(s \cup {x}, q)) =
           Cardinality(OfQueue(s, q)) + (IF x.q = q THEN 1 ELSE 0)
<1>1. CASE x.q = q
  <2>1. OfQueue(s \cup {x}, q) = OfQueue(s, q) \cup {x} /\ x \notin OfQueue(s, q)
    BY <1>1 DEF OfQueue
  <2> QED BY <1>1, <2>1, LostCard, FS_AddElement
<1>2. CASE x.q # q
  <2>1. OfQueue(s \cup {x}, q) = OfQueue(s, q)
    BY <1>2 DEF OfQueue
  <2> QED BY <1>2, <2>1, LostCard
<1> QED BY <1>1, <1>2

LEMMA LostIs == \A q : Lost(q) = Cardinality(OfQueue(lost, q))
BY DEF Lost, OfQueue

\* The match list has at most an entry for each buffer.
LEMMA ListShort ==
  ASSUME IInv
  PROVE  meList \in Seq(Queues) /\ Len(meList) <= 2
<1>1. meList \in Seq(Queues) /\ \A i, j \in DOMAIN meList : meList[i] = meList[j] => i = j
  BY DEF IInv, Types, LinkInv
<1>2. ASSUME Len(meList) > 2 PROVE FALSE
  <2>1. {1, 2, 3} \subseteq DOMAIN meList
    BY <1>1, <1>2
  <2>2. meList[1] \in {1, 2} /\ meList[2] \in {1, 2} /\ meList[3] \in {1, 2}
    BY <1>1, <2>1 DEF Queues
  <2> QED BY <1>1, <2>1, <2>2
<1> QED BY <1>1, <1>2

\* A put goes to a buffer that is posted and has room.
LEMMA AcceptingFirst ==
  ASSUME IInv, Accepting # {},
         NEW i, i = CHOOSE j \in Accepting : \A n \in Accepting : j <= n
  PROVE  i \in DOMAIN meList /\ meList[i] \in Queues /\ md[meList[i]] \in 1 .. ReqsPerQueue
<1>1. Accepting \subseteq {1, 2}
  BY ListShort DEF Accepting
<1>2. \E n \in Accepting : \A j \in Accepting : n <= j
  <2>1. CASE 1 \in Accepting
    BY <1>1, <2>1
  <2>2. CASE 1 \notin Accepting
    <3>1. Accepting = {2}
      BY <1>1, <2>2
    <3> QED BY <3>1
  <2> QED BY <2>1, <2>2
<1>3. i \in Accepting
  BY <1>2
<1>4. i \in DOMAIN meList /\ meList[i] \in Queues /\ md[meList[i]] > 0
  BY <1>3, ListShort DEF Accepting
<1>5. md \in [Queues -> 0 .. ReqsPerQueue]
  BY DEF IInv, Types
<1> QED BY <1>4, <1>5, ServerAssumption

\* An event queue with room takes both events of a put, one with less the first ones.
LEMMA SomeOfTwo ==
  ASSUME NEW s \in Seq(Event), NEW a \in Event, NEW b \in Event
  PROVE  /\ s \o SubSeq(<<a, b>>, 1, 0) = s
         /\ s \o SubSeq(<<a, b>>, 1, 1) = Append(s, a)
         /\ s \o SubSeq(<<a, b>>, 1, 2) = Append(Append(s, a), b)
OBVIOUS
-----------------------------------------------------------------------------
LEMMA InitInv == Init => IInv
<1> SUFFICES ASSUME Init PROVE IInv
  OBVIOUS
<1>1. Types
  <2>1. /\ kind \in Seq(Kinds) /\ meList \in Seq(Queues) /\ eq \in Seq(Event) /\ pool \in Seq(Item)
        /\ Len(kind) <= MaxMsgs /\ Len(eq) <= EqSlots
    BY ServerAssumption DEF Init, Queues
  <2>2. /\ buf \in [Queues -> [Slots -> Messages \cup {None}]]
        /\ md \in [Queues -> 0 .. ReqsPerQueue] /\ queue_count \in [Queues -> 0 .. ReqsPerQueue]
    BY ServerAssumption DEF Init
  <2>3. wk \in [Workers -> Worker]
    BY DEF Init, IdleWorker, WorkerStates, Worker
  <2>4. IsFiniteSet(lost)
    BY FS_EmptySet DEF Init
  <2>5. req_count \in Nat /\ index \in Queues /\ freed \subseteq Queues /\ main \in MainStates
    BY DEF Init, Queues, MainStates
  <2> QED BY <2>1, <2>2, <2>3, <2>4, <2>5 DEF Init, Types
<1>2. LinkInv /\ PhaseInv
  BY DEF Init, LinkInv, PhaseInv, Queues
<1>3. CountInv
  <2>1. \A q : Pending(q) = 0 /\ Lost(q) = 0
    <3>1. \A q : Ends(eq, q) = {} /\ {item \in lost : item.q = q} = {}
      BY DEF Init, Ends
    <3> QED BY <3>1, PendingIs, FS_EmptySet DEF Lost
  <2>2. Len(kind) = 0 /\ ReqsPerQueue \in Nat
    BY ServerAssumption DEF Init
  <2> QED BY <2>1, <2>2 DEF Init, CountInv
<1>4. CameInv
  BY DEF Init, CameInv, IdleWorker
<1> QED BY <1>1, <1>2, <1>3, <1>4 DEF IInv
-----------------------------------------------------------------------------
(* Steps that leave the network and the buffers alone.                     *)

LEMMA NetKept ==
  ASSUME IInv, UNCHANGED <<kind, md, meList, eq, lost, queue_count, req_count, index, freed>>,
         \/ main' = main
         \/ main # "attach" /\ main' \in {"top", "wait", "inline", "reset"} /\ freed = {}
         \/ main # "attach" /\ main' \in {"cleanup", "aborted"}
  PROVE  LinkInv' /\ PhaseInv' /\ CountInv'
<1>1. CountInv'
  BY DEF IInv, CountInv, Pending, Lost
<1>2. LinkInv'
  BY DEF IInv, LinkInv
<1>3. PhaseInv'
  BY DEF IInv, PhaseInv
<1> QED BY <1>1, <1>2, <1>3

LEMMA IdleFacts == IdleWorker \in Worker /\ IdleWorker.pc = "idle"
BY DEF IdleWorker, Worker, WorkerStates

\* What a worker is about to do is with a request that came.
LEMMA WorkerKept ==
  ASSUME IInv, NEW w \in Workers, NEW f \in Worker, wk' = [wk EXCEPT ![w] = f],
         f = IdleWorker \/ (f.pc # "idle" /\ f.item \in Came /\ (f.pc # "decode" => f.hdr # None)),
         UNCHANGED <<kind, buf, eq, lost>>, pool' = pool \/ (pool # <<>> /\ pool' = Tail(pool))
  PROVE  CameInv' /\ wk' \in [Workers -> Worker] /\ pool' \in Seq(Item)
<1>1. \A i \in DOMAIN pool' : pool'[i] \in Came
  <2>1. CASE pool' = pool
    BY <2>1 DEF IInv, CameInv
  <2>2. CASE pool # <<>> /\ pool' = Tail(pool)
    <3>1. pool \in Seq(Item)
      BY DEF IInv, Types
    <3>2. \A i \in DOMAIN pool' : i + 1 \in DOMAIN pool /\ pool'[i] = pool[i + 1]
      BY <2>2, <3>1
    <3> QED BY <3>2 DEF IInv, CameInv
  <2> QED BY <2>1, <2>2
<1>2. pool' \in Seq(Item)
  <2>1. pool \in Seq(Item)
    BY DEF IInv, Types
  <2> QED BY <2>1
<1>3. wk' \in [Workers -> Worker]
  BY DEF IInv, Types
<1>4. Came' = Came
  BY DEF Came
<1>5. \A u \in Workers : IF wk'[u].pc = "idle" THEN wk'[u] = IdleWorker
        ELSE wk'[u].item \in Came /\ (wk'[u].pc # "decode" => wk'[u].hdr # None)
  BY IdleFacts DEF IInv, Types, CameInv
<1> QED BY <1>1, <1>2, <1>3, <1>4, <1>5 DEF IInv, CameInv

\* What holds of a busy worker.
LEMMA BusyFacts ==
  ASSUME IInv, NEW w \in Workers, wk[w].pc # "idle"
  PROVE  /\ wk[w] \in Worker /\ wk[w].item \in Item /\ wk[w].item \in Came
         /\ wk[w].item.q \in Queues /\ wk[w].item.s \in Slots /\ wk[w].item.msg \in Messages
         /\ buf[wk[w].item.q][wk[w].item.s] \in Messages
         /\ wk[w].pc # "decode" => wk[w].hdr \in Messages
<1>1. wk[w] \in Worker /\ wk[w].item \in Came /\ (wk[w].pc # "decode" => wk[w].hdr # None)
  BY DEF IInv, Types, CameInv
<1>2. wk[w].item \in Item
  BY <1>1 DEF Came
<1> QED BY <1>1, <1>2 DEF Item, Came, Worker, IInv, Types

LEMMA StartRequestStep ==
  ASSUME IInv, NEW w \in Workers, StartRequest(w)
  PROVE  IInv'
<1> DEFINE f == [IdleWorker EXCEPT !.pc = "decode", !.item = Head(pool)]
<1>1. pool \in Seq(Item) /\ pool # <<>> /\ Head(pool) \in Item /\ Head(pool) = pool[1] /\ 1 \in DOMAIN pool
  BY DEF StartRequest, IInv, Types
<1>2. f \in Worker /\ f.pc = "decode" /\ f.item = Head(pool)
  BY <1>1 DEF IdleWorker, Worker, WorkerStates
<1>3. f.item \in Came
  BY <1>1, <1>2 DEF IInv, CameInv
<1> HIDE DEF f
<1>4. wk' = [wk EXCEPT ![w] = f] /\ pool' = Tail(pool)
  BY DEF StartRequest, Set, f
<1>5. UNCHANGED <<netVars, mainVars, replyVars, ptl_lock, ran, ended, readFreed, overMemory,
                  exit_now>>
  BY DEF StartRequest
<1>6. CameInv' /\ wk' \in [Workers -> Worker] /\ pool' \in Seq(Item)
  BY <1>1, <1>2, <1>3, <1>4, <1>5, WorkerKept DEF netVars
<1>7. Types'
  BY <1>5, <1>6 DEF IInv, Types, netVars, mainVars, replyVars
<1> QED BY <1>5, <1>6, <1>7, NetKept DEF IInv, netVars, mainVars

\* The steps of a worker with its request: it goes on with it, or returns.
LEMMA WorkStep ==
  ASSUME IInv, NEW w \in Workers,
         \/ MemoryExceeded(w) \/ DecodeHeader(w) \/ DecodeGarbage(w) \/ DecodeArgs(w)
         \/ FetchArgs(w) \/ RunOp(w) \/ SendResult(w) \/ SendFails(w) \/ AwaitFetch(w)
  PROVE  IInv'
<1> DEFINE it == wk[w].item
           m == buf[it.q][it.s]
<1>1. /\ wk[w].pc # "idle" /\ UNCHANGED <<netVars, queue_count, req_count, index, freed, pool>>
      /\ main' = main \/ (main' = "aborted" /\ it.q \in freed)
  BY DEF MemoryExceeded, DecodeHeader, DecodeGarbage, DecodeArgs, FetchArgs, RunOp, SendResult,
         SendFails, AwaitFetch, At, mainVars
<1>2. /\ wk[w] \in Worker /\ it \in Item /\ it \in Came /\ it.q \in Queues /\ it.msg \in Messages
      /\ m \in Messages /\ (wk[w].pc # "decode" => wk[w].hdr \in Messages)
  BY <1>1, BusyFacts
<1> HIDE DEF it, m
<1>3. \/ wk' = [wk EXCEPT ![w] = IdleWorker]
      \/ wk' = wk
      \/ wk' = [wk EXCEPT ![w] = [wk[w] EXCEPT !.pc = "args", !.hdr = m]]
      \/ \E a \in Messages \cup {None} :
            /\ wk[w].pc = "args"
            /\ wk' = [wk EXCEPT ![w] = [wk[w] EXCEPT !.pc = "op", !.args = a]]
      \/ \E l \in {"send", "await"} :
            /\ wk[w].pc \in {"op", "send"}
            /\ wk' = [wk EXCEPT ![w] = [wk[w] EXCEPT !.pc = l]]
  <2>1. CASE MemoryExceeded(w) \/ SendFails(w) \/ AwaitFetch(w) \/ DecodeGarbage(w)
    BY <2>1 DEF MemoryExceeded, SendFails, AwaitFetch, DecodeGarbage, Return, Set
  <2>2. CASE DecodeHeader(w)
    BY <2>2 DEF DecodeHeader, Return, Set, it, m
  <2>3. CASE DecodeArgs(w)
    BY <1>2, <2>3 DEF DecodeArgs, Return, Set, At, it, m
  <2>4. CASE FetchArgs(w)
    BY <1>2, <2>4 DEF FetchArgs, Set, At
  <2>5. CASE RunOp(w)
    BY <2>5 DEF RunOp, Set, At
  <2>6. CASE SendResult(w)
    BY <2>6 DEF SendResult, Return, Set, At
  <2> QED BY <2>1, <2>2, <2>3, <2>4, <2>5, <2>6
<1>4. CameInv' /\ wk' \in [Workers -> Worker]
  <2>1. ASSUME NEW f \in Worker, wk' = [wk EXCEPT ![w] = f],
               f = IdleWorker \/ (f.pc # "idle" /\ f.item = it /\ (f.pc # "decode" => f.hdr # None))
        PROVE  CameInv' /\ wk' \in [Workers -> Worker]
    BY <1>1, <1>2, <2>1, WorkerKept DEF netVars
  <2>2. CASE wk' = [wk EXCEPT ![w] = IdleWorker]
    BY <2>1, <2>2, IdleFacts
  <2>3. CASE wk' = wk
    <3>1. wk' = [wk EXCEPT ![w] = wk[w]]
      BY <2>3 DEF IInv, Types
    <3>2. wk[w].pc # "decode" => wk[w].hdr # None
      BY <1>1 DEF IInv, CameInv
    <3> QED BY <1>1, <1>2, <2>1, <3>1, <3>2 DEF it
  <2>4. CASE wk' = [wk EXCEPT ![w] = [wk[w] EXCEPT !.pc = "args", !.hdr = m]]
    <3> DEFINE f == [wk[w] EXCEPT !.pc = "args", !.hdr = m]
    <3>1. f \in Worker /\ f.pc = "args" /\ f.item = it /\ f.hdr = m
      BY <1>2 DEF Worker, WorkerStates, it
    <3>2. m # None
      BY <1>2 DEF Messages, None
    <3> HIDE DEF f
    <3>3. wk' = [wk EXCEPT ![w] = f]
      BY <2>4 DEF f
    <3> QED BY <2>1, <3>1, <3>2, <3>3
  <2>5. ASSUME NEW a \in Messages \cup {None}, wk[w].pc = "args",
               wk' = [wk EXCEPT ![w] = [wk[w] EXCEPT !.pc = "op", !.args = a]]
        PROVE  CameInv' /\ wk' \in [Workers -> Worker]
    <3> DEFINE f == [wk[w] EXCEPT !.pc = "op", !.args = a]
    <3>1. f \in Worker /\ f.pc = "op" /\ f.item = it /\ f.hdr = wk[w].hdr
      BY <1>2, <2>5 DEF Worker, WorkerStates, it
    <3>2. f.hdr # None
      BY <1>2, <2>5, <3>1 DEF Messages, None
    <3> HIDE DEF f
    <3>3. wk' = [wk EXCEPT ![w] = f]
      BY <2>5 DEF f
    <3> QED BY <2>1, <3>1, <3>2, <3>3
  <2>6. ASSUME NEW l \in {"send", "await"}, wk[w].pc \in {"op", "send"},
               wk' = [wk EXCEPT ![w] = [wk[w] EXCEPT !.pc = l]]
        PROVE  CameInv' /\ wk' \in [Workers -> Worker]
    <3> DEFINE f == [wk[w] EXCEPT !.pc = l]
    <3>1. f \in Worker /\ f.pc = l /\ f.item = it /\ f.hdr = wk[w].hdr
      BY <1>2, <2>6 DEF Worker, WorkerStates, it
    <3>2. f.pc # "idle" /\ f.hdr # None
      BY <1>2, <2>6, <3>1 DEF Messages, None
    <3> HIDE DEF f
    <3>3. wk' = [wk EXCEPT ![w] = f]
      BY <2>6 DEF f
    <3> QED BY <2>1, <3>1, <3>2, <3>3
  <2> QED BY <1>3, <2>2, <2>3, <2>4, <2>5, <2>6
<1>5. main' \in MainStates
  BY <1>1 DEF IInv, Types, MainStates
<1>6. ended' \subseteq Messages /\ delivered' \subseteq Messages /\ stale' \subseteq Messages
      /\ UNCHANGED fetched /\ ptl_lock' \in Workers \cup {None}
  BY <1>2 DEF MemoryExceeded, DecodeHeader, DecodeGarbage, DecodeArgs, FetchArgs, RunOp,
       SendResult, SendFails, AwaitFetch, At, Return, mainVars, replyVars, IInv, Types, it
<1>7. ran' \subseteq [msg : Messages, hdr : Messages, args : Messages \cup {None}]
  <2>1. CASE RunOp(w)
    BY <1>2, <2>1, SMTT(30) DEF RunOp, At, IInv, Types, Worker, it
  <2>2. CASE UNCHANGED ran
    BY <2>2 DEF IInv, Types
  <2> QED BY <2>1, <2>2 DEF MemoryExceeded, DecodeHeader, DecodeGarbage, DecodeArgs, FetchArgs,
               SendResult, SendFails, AwaitFetch
<1>8. exit_now' \in BOOLEAN /\ readFreed' \in BOOLEAN /\ overMemory' \in BOOLEAN
  BY DEF MemoryExceeded, DecodeHeader, DecodeGarbage, DecodeArgs, FetchArgs, RunOp,
       SendResult, SendFails, AwaitFetch, IInv, Types
<1>9. Types'
  BY <1>1, <1>4, <1>5, <1>6, <1>7, <1>8 DEF IInv, Types, netVars
<1>10. main' = main \/ (main # "attach" /\ main' = "aborted")
  BY <1>1 DEF IInv, PhaseInv
<1> QED BY <1>1, <1>4, <1>9, <1>10, NetKept DEF IInv, netVars

\* What a put leaves behind: item is the request that came.
Put(item) ==
  /\ item.msg = Len(kind) + 1 /\ Len(kind') = Len(kind) + 1
  /\ md[item.q] \in 1 .. ReqsPerQueue /\ item.s = ReqsPerQueue - md[item.q] + 1
  /\ buf' = [buf EXCEPT ![item.q][item.s] = item.msg]
  /\ md' = [md EXCEPT ![item.q] = @ - 1]
  /\ \A e \in DOMAIN eq' :
       \/ e \in DOMAIN eq /\ eq'[e] = eq[e]
       \/ eq'[e].item = item /\ (eq'[e].type = "end" => e = Len(eq'))
  /\ Len(eq') <= Len(eq) + 2 /\ \A e \in DOMAIN eq : e \in DOMAIN eq' /\ eq'[e] = eq[e]
  /\ Len(eq) + 2 <= EqSlots =>
       Len(eq') \in DOMAIN eq' /\ eq'[Len(eq')] = [type |-> "end", item |-> item]
  /\ UNCHANGED <<meList, mainVars, replyVars, workVars, exit_now>>

LEMMA ClientPutStep ==
  ASSUME IInv, NEW k \in Kinds, ClientPut(k)
  PROVE  IInv' /\ \E item \in Item : Put(item)
<1>a. PICK i : i = CHOOSE j \in Accepting : \A n \in Accepting : j <= n
  OBVIOUS
<1>b. PICK q : q = meList[i]
  OBVIOUS
<1>c. PICK item : item = [q |-> q, s |-> ReqsPerQueue - md[q] + 1, msg |-> Len(kind) + 1]
  OBVIOUS
<1> DEFINE room == EqSlots - Len(eq)
           start == [type |-> "start", item |-> item]
           end == [type |-> "end", item |-> item]
<1>1. i \in DOMAIN meList /\ q \in Queues /\ md[q] \in 1 .. ReqsPerQueue
  BY <1>a, <1>b, AcceptingFirst DEF ClientPut
<1>2. q \notin freed /\ freed # Queues
  BY <1>1, <1>b DEF IInv, LinkInv
<1>3. kind \in Seq(Kinds) /\ Len(kind) \in Nat /\ MaxMsgs \in Nat /\ Len(kind) < MaxMsgs
  BY ServerAssumption DEF IInv, Types, ClientPut
<1>4. item \in Item /\ item.q = q /\ item.s \in Slots /\ item.msg = Len(kind) + 1
  BY <1>1, <1>3, <1>c, ServerAssumption DEF Item, Slots, Messages
<1>5. start \in Event /\ end \in Event /\ start.item = item /\ end.item = item
      /\ \A p : ~IsEnd(start, p) /\ (IsEnd(end, p) <=> p = q)
  BY <1>4 DEF Event, IsEnd
<1> HIDE DEF start, end
<1>6. /\ kind' = Append(kind, k)
      /\ buf' = [buf EXCEPT ![q][item.s] = item.msg]
      /\ md' = [md EXCEPT ![q] = @ - 1]
      /\ eq' = eq \o SubSeq(<<start, end>>, 1, IF room > 2 THEN 2 ELSE room)
      /\ lost' = IF room < 2 THEN lost \cup {item} ELSE lost
      /\ UNCHANGED <<meList, mainVars, replyVars, workVars, exit_now>>
  BY <1>a, <1>b, <1>c DEF ClientPut, room, start, end
<1>7. kind' \in Seq(Kinds) /\ Len(kind') = Len(kind) + 1
  BY <1>3, <1>6
<1>8. eq \in Seq(Event) /\ Len(eq) \in Nat /\ Len(eq) <= EqSlots /\ room \in Nat /\ EqSlots \in Nat
  BY ServerAssumption DEF IInv, Types
<1>9. eq' = IF room = 0 THEN eq
            ELSE IF room = 1 THEN Append(eq, start)
            ELSE Append(Append(eq, start), end)
  <2>1. CASE room = 0
    <3>1. eq' = eq \o SubSeq(<<start, end>>, 1, 0)
      BY <1>6, <2>1
    <3> QED BY <1>5, <1>8, <2>1, <3>1, SomeOfTwo
  <2>2. CASE room = 1
    <3>1. eq' = eq \o SubSeq(<<start, end>>, 1, 1)
      BY <1>6, <2>2
    <3> QED BY <1>5, <1>8, <2>2, <3>1, SomeOfTwo
  <2>3. CASE room \in Nat /\ room # 0 /\ room # 1
    <3>1. eq' = eq \o SubSeq(<<start, end>>, 1, 2)
      BY <1>6, <2>3, SMTT(30)
    <3> QED BY <1>5, <1>8, <2>3, <3>1, SomeOfTwo
  <2> QED BY <1>8, <2>1, <2>2, <2>3
<1>10. eq' \in Seq(Event) /\ Len(eq') <= EqSlots
       /\ \A e \in DOMAIN eq' : eq'[e].item = item \/ (e \in DOMAIN eq /\ eq'[e] = eq[e])
  BY <1>5, <1>8, <1>9
<1>11. \A p : Cardinality(Ends(eq', p)) =
                Cardinality(Ends(eq, p)) + (IF p = q /\ room >= 2 THEN 1 ELSE 0)
  <2> TAKE p
  <2>1. Append(eq, start) \in Seq(Event)
    BY <1>5, <1>8
  <2>2. /\ Cardinality(Ends(Append(eq, start), p)) = Cardinality(Ends(eq, p))
        /\ Cardinality(Ends(Append(Append(eq, start), end), p)) =
             Cardinality(Ends(eq, p)) + (IF p = q THEN 1 ELSE 0)
    <3>1. Cardinality(Ends(Append(eq, start), p)) =
            Cardinality(Ends(eq, p)) + (IF IsEnd(start, p) THEN 1 ELSE 0)
      BY <1>5, <1>8, EndsAppend
    <3>2. Cardinality(Ends(Append(Append(eq, start), end), p)) =
            Cardinality(Ends(Append(eq, start), p)) + (IF IsEnd(end, p) THEN 1 ELSE 0)
      BY <1>5, <2>1, EndsAppend
    <3>3. Cardinality(Ends(eq, p)) \in Nat
      BY <1>8, EndsFinite
    <3> QED BY <1>5, <3>1, <3>2, <3>3
  <2> QED BY <1>8, <1>9, <2>2, EndsFinite
<1>12. lost \subseteq Item /\ IsFiniteSet(lost) /\ item \notin lost
  <2>1. \A x \in lost : x.msg <= Len(kind)
    BY DEF IInv, CameInv
  <2>2. ~(item.msg <= Len(kind))
    BY <1>3, <1>4
  <2>3. lost \subseteq Item /\ IsFiniteSet(lost)
    BY DEF IInv, Types
  <2> QED BY <2>1, <2>2, <2>3
<1>13. lost' \subseteq Item /\ IsFiniteSet(lost')
  BY <1>4, <1>6, <1>12, FS_AddElement
<1>14. \A p : Cardinality(OfQueue(lost', p)) =
                Cardinality(OfQueue(lost, p)) + (IF p = q /\ room < 2 THEN 1 ELSE 0)
  <2> TAKE p
  <2>1. Cardinality(OfQueue(lost \cup {item}, p)) =
          Cardinality(OfQueue(lost, p)) + (IF p = q THEN 1 ELSE 0)
    BY <1>4, <1>12, LostAdd
  <2> QED BY <1>6, <1>12, <2>1, LostCard
<1>15. buf' \in [Queues -> [Slots -> Messages \cup {None}]]
  BY <1>1, <1>4, <1>6 DEF IInv, Types, Item
<1>16. md' \in [Queues -> 0 .. ReqsPerQueue] /\ md'[q] = md[q] - 1
       /\ \A p \in Queues : p # q => md'[p] = md[p]
  <2>1. md \in [Queues -> 0 .. ReqsPerQueue] /\ ReqsPerQueue \in Nat
    BY ServerAssumption DEF IInv, Types
  <2>2. md[q] - 1 \in 0 .. ReqsPerQueue
    BY <1>1, <2>1
  <2> QED BY <1>1, <1>6, <2>1, <2>2
<1>17. Types'
  <2>1. Len(kind') <= MaxMsgs
    BY <1>3, <1>7
  <2> QED BY <1>6, <1>7, <1>10, <1>13, <1>15, <1>16, <2>1
       DEF IInv, Types, mainVars, replyVars, workVars
<1>18. LinkInv' /\ PhaseInv'
  BY <1>6 DEF IInv, LinkInv, PhaseInv, mainVars
<1>19. CountInv'
  <2>1. \A p : /\ Pending(p) = Cardinality(Ends(eq, p)) /\ Pending(p)' = Cardinality(Ends(eq', p))
               /\ Lost(p) = Cardinality(OfQueue(lost, p))
               /\ Lost(p)' = Cardinality(OfQueue(lost', p))
    BY DEF Pending, Ends, IsEnd, Lost, OfQueue
  <2>2. \A p : Cardinality(Ends(eq, p)) \in Nat /\ Cardinality(OfQueue(lost, p)) \in Nat
    BY <1>8, <1>12, EndsFinite, LostCard
  <2>3. md \in [Queues -> 0 .. ReqsPerQueue] /\ queue_count \in [Queues -> 0 .. ReqsPerQueue]
        /\ req_count \in Nat /\ ReqsPerQueue \in Nat
    BY ServerAssumption DEF IInv, Types
  <2>4. UNCHANGED <<queue_count, req_count, freed>>
    BY <1>6 DEF mainVars
  <2>5. \A p \in Queues : ReqsPerQueue - md[p] = queue_count[p] + Pending(p) + Lost(p)
    BY <1>2 DEF IInv, CountInv
  <2>6. req_count + Pending(1) + Pending(2) <= Len(kind)
    BY <1>2 DEF IInv, CountInv
  <2>7. \A p \in Queues : ReqsPerQueue - md'[p] = queue_count'[p] + Pending(p)' + Lost(p)'
    <3> TAKE p \in Queues
    <3>1. CASE p = q
      <4>1. /\ Pending(p)' = Pending(p) + (IF room >= 2 THEN 1 ELSE 0)
            /\ Lost(p)' = Lost(p) + (IF room < 2 THEN 1 ELSE 0)
            /\ Pending(p) \in Nat /\ Lost(p) \in Nat
        BY <1>11, <1>14, <2>1, <2>2, <3>1
      <4>2. md'[p] = md[p] - 1 /\ queue_count'[p] = queue_count[p]
            /\ md[p] \in Nat /\ queue_count[p] \in Nat
        BY <1>1, <1>16, <2>3, <2>4, <3>1
      <4>3. ReqsPerQueue - md[p] = queue_count[p] + Pending(p) + Lost(p)
        BY <2>5
      <4> QED BY <1>8, <2>3, <4>1, <4>2, <4>3, SMTT(30)
    <3>2. CASE p # q
      BY <1>1, <1>8, <1>11, <1>14, <1>16, <2>1, <2>2, <2>3, <2>4, <2>5, <3>2
    <3> QED BY <3>1, <3>2
  <2>8. Cardinality(Ends(eq', 1)) + Cardinality(Ends(eq', 2)) <=
          Cardinality(Ends(eq, 1)) + Cardinality(Ends(eq, 2)) + 1
    BY <1>11, <2>2
  <2>9. req_count' + Pending(1)' + Pending(2)' <= Len(kind')
    <3>1. Pending(1)' + Pending(2)' <= Pending(1) + Pending(2) + 1
      BY <2>1, <2>8
    <3>2. /\ Pending(1) \in Nat /\ Pending(2) \in Nat
          /\ Pending(1)' \in Nat /\ Pending(2)' \in Nat
      BY <1>10, <2>1, <2>2, EndsFinite
    <3>3. req_count' = req_count
      BY <2>4
    <3> QED BY <1>3, <1>7, <2>3, <2>6, <3>1, <3>2, <3>3, SMTT(30)
  <2>10. req_count' <= Len(kind')
    BY <1>3, <1>7, <2>3, <2>4 DEF IInv, CountInv
  <2> QED BY <2>7, <2>9, <2>10 DEF CountInv
<1>20. Came \subseteq Came'
  <2>1. item.msg # None
    BY <1>3, <1>4 DEF None
  <2>2. \A p \in Queues, n \in Slots : buf[p][n] # None => buf'[p][n] # None
    BY <1>1, <1>4, <1>6, <2>1 DEF IInv, Types
  <2>3. \A x \in Came : x \in Item /\ x.q \in Queues /\ x.s \in Slots /\ x.msg \in Int
    BY DEF Came, Item, Messages
  <2>4. \A x \in Came : x.msg <= Len(kind')
    BY <1>3, <1>7, <2>3 DEF Came
  <2> QED BY <2>2, <2>3, <2>4 DEF Came
<1>21. item \in Came'
  <2>1. item.msg # None
    BY <1>3, <1>4 DEF None
  <2>2. buf'[q][item.s] = item.msg
    BY <1>1, <1>4, <1>6 DEF IInv, Types
  <2>3. item.msg <= Len(kind')
    BY <1>3, <1>4, <1>7
  <2> QED BY <1>4, <2>1, <2>2, <2>3 DEF Came
<1>22. CameInv'
  <2>1. \A e \in DOMAIN eq' : eq'[e].item \in Came'
    BY <1>10, <1>20, <1>21 DEF IInv, CameInv
  <2>2. \A e \in DOMAIN pool' : pool'[e] \in Came'
    BY <1>6, <1>20 DEF IInv, CameInv, workVars
  <2>3. \A x \in lost' : x.msg <= Len(kind')
    BY <1>3, <1>4, <1>6, <1>7, <1>12 DEF IInv, CameInv, Item, Messages
  <2>4. \A w \in Workers :
          IF wk'[w].pc = "idle" THEN wk'[w] = IdleWorker
          ELSE wk'[w].item \in Came' /\ (wk'[w].pc # "decode" => wk'[w].hdr # None)
    BY <1>6, <1>20 DEF IInv, CameInv, workVars
  <2> QED BY <2>1, <2>2, <2>3, <2>4 DEF CameInv
<1>23. \A e \in DOMAIN eq' :
          \/ e \in DOMAIN eq /\ eq'[e] = eq[e]
          \/ eq'[e].item = item /\ (eq'[e].type = "end" => e = Len(eq'))
  <2>1. start.type = "start"
    BY DEF start
  <2> QED BY <1>5, <1>8, <1>9, <2>1
<1>24. Put(item)
  <2>1. item.s = ReqsPerQueue - md[q] + 1
    BY <1>c
  <2>2. Len(eq') <= Len(eq) + 2 /\ \A e \in DOMAIN eq : e \in DOMAIN eq' /\ eq'[e] = eq[e]
    BY <1>5, <1>8, <1>9
  <2>3. Len(eq) + 2 <= EqSlots => Len(eq') \in DOMAIN eq' /\ eq'[Len(eq')] = end
    BY <1>5, <1>8, <1>9
  <2> QED BY <1>1, <1>4, <1>6, <1>7, <1>23, <2>1, <2>2, <2>3 DEF Put, end
<1> QED BY <1>4, <1>17, <1>18, <1>19, <1>22, <1>24 DEF IInv

LEMMA CameKept ==
  ASSUME IInv, UNCHANGED <<kind, buf, eq, lost, pool, wk>>
  PROVE  CameInv'
<1>1. Came' = Came
  BY DEF Came
<1> QED BY <1>1 DEF IInv, CameInv

LEMMA ClientGetStep ==
  ASSUME IInv, NEW m \in Messages, ClientGet(m)
  PROVE  IInv'
<1>1. UNCHANGED <<netVars, mainVars, delivered, stale, workVars, exit_now>>
      /\ fetched' \subseteq Messages
  BY DEF ClientGet, IInv, Types
<1>2. Types'
  BY <1>1 DEF IInv, Types, netVars, mainVars, workVars
<1> QED BY <1>1, <1>2, NetKept, CameKept DEF IInv, netVars, mainVars, workVars

LEMMA SignalStep ==
  ASSUME IInv, Signal \/ UNCHANGED vars
  PROVE  IInv'
<1>1. UNCHANGED <<netVars, mainVars, replyVars, workVars>> /\ exit_now' \in BOOLEAN
  BY DEF Signal, IInv, Types, vars
<1>2. Types'
  BY <1>1 DEF IInv, Types, netVars, mainVars, workVars, replyVars
<1> QED BY <1>1, <1>2, NetKept, CameKept DEF IInv, netVars, mainVars, workVars
-----------------------------------------------------------------------------
(* The steps of the main thread.                                           *)

\* Where main goes when it takes no event and posts no buffer.
LEMMA MainMoves ==
  ASSUME IInv, LoopHead \/ InlineDone
  PROVE  IInv'
<1>1. /\ UNCHANGED <<netVars, queue_count, req_count, index, freed, replyVars, workVars, exit_now>>
      /\ main \in {"top", "inline"} /\ main' \in {"cleanup", "wait", "reset"}
  BY DEF LoopHead, InlineDone
<1>2. freed = {}
  BY <1>1 DEF IInv, PhaseInv
<1>3. Types'
  BY <1>1 DEF IInv, Types, netVars, replyVars, workVars, MainStates
<1> QED BY <1>1, <1>2, <1>3, NetKept, CameKept DEF IInv, netVars, workVars

\* The first event is taken off the event queue.
LEMMA PopEvent ==
  ASSUME IInv, eq # <<>>, eq' = Tail(eq)
  PROVE  /\ Head(eq) \in Event /\ Head(eq).item \in Came
         /\ eq' \in Seq(Event) /\ Len(eq') <= EqSlots
         /\ \A i \in DOMAIN eq' : eq'[i].item \in Came
         /\ \A q : /\ Pending(q) = Pending(q)' + (IF IsEnd(Head(eq), q) THEN 1 ELSE 0)
                   /\ Pending(q) \in Nat /\ Pending(q)' \in Nat
<1>1. eq \in Seq(Event) /\ Len(eq) \in Nat \ {0} /\ Len(eq) <= EqSlots /\ EqSlots \in Nat
  BY ServerAssumption DEF IInv, Types
<1>2. Head(eq) = eq[1] /\ 1 \in DOMAIN eq /\ Head(eq) \in Event
  BY <1>1
<1>3. eq' \in Seq(Event) /\ Len(eq') = Len(eq) - 1
      /\ \A i \in DOMAIN eq' : i + 1 \in DOMAIN eq /\ eq'[i] = eq[i + 1]
  BY <1>1
<1>4. \A i \in DOMAIN eq : eq[i].item \in Came
  BY DEF IInv, CameInv
<1>5. \A q : Pending(q) = Cardinality(Ends(eq, q)) /\ Pending(q)' = Cardinality(Ends(eq', q))
  BY DEF Pending, Ends, IsEnd
<1>6. \A q : Cardinality(Ends(eq, q)) \in Nat /\ Cardinality(Ends(eq', q)) \in Nat
  BY <1>1, <1>3, EndsFinite
<1>7. \A q : Cardinality(Ends(eq, q)) =
               Cardinality(Ends(Tail(eq), q)) + (IF IsEnd(Head(eq), q) THEN 1 ELSE 0)
  BY <1>1, EndsTail
<1>8. Len(eq') <= EqSlots
  BY <1>1, <1>3
<1>9. \A i \in DOMAIN eq' : eq'[i].item \in Came
  BY <1>3, <1>4
<1>10. Head(eq).item \in Came
  BY <1>2, <1>4
<1> QED BY <1>2, <1>3, <1>5, <1>6, <1>7, <1>8, <1>9, <1>10

LEMMA PollAgainStep ==
  ASSUME IInv, PollAgain
  PROVE  IInv'
<1>1. /\ UNCHANGED <<kind, buf, md, meList, lost, queue_count, req_count, index, freed,
                     replyVars, workVars, exit_now>>
      /\ main = "wait" /\ main' = "top" /\ freed = {}
  BY DEF PollAgain, IInv, PhaseInv
<1>2. CASE UNCHANGED eq
  <2>1. Types'
    BY <1>1, <1>2 DEF IInv, Types, replyVars, workVars, MainStates
  <2> QED BY <1>1, <1>2, <2>1, NetKept, CameKept DEF IInv, workVars
<1>3. CASE eq # <<>> /\ Head(eq).type = "start" /\ eq' = Tail(eq)
  <2>1. \A q : Pending(q)' = Pending(q)
    BY <1>3, PopEvent DEF IsEnd
  <2>2. Types'
    BY <1>1, <1>3, PopEvent DEF IInv, Types, replyVars, workVars, MainStates
  <2>3. LinkInv' /\ PhaseInv'
    BY <1>1 DEF IInv, LinkInv, PhaseInv
  <2>4. \A q : Lost(q)' = Lost(q)
    BY <1>1 DEF Lost
  <2>5. CountInv'
    BY <1>1, <2>1, <2>4 DEF IInv, CountInv
  <2>6. CameInv'
    <3>1. Came' = Came
      BY <1>1 DEF Came
    <3> QED BY <1>1, <1>3, <3>1, PopEvent DEF IInv, CameInv, workVars
  <2> QED BY <2>2, <2>3, <2>5, <2>6 DEF IInv
<1> QED BY <1>2, <1>3 DEF PollAgain

LEMMA TakeRequestStep ==
  ASSUME IInv, TakeRequest
  PROVE  IInv'
<1>a. PICK item : item = Head(eq).item
  OBVIOUS
<1>1. /\ main = "wait" /\ freed = {} /\ eq # <<>> /\ Head(eq).type = "end" /\ eq' = Tail(eq)
      /\ index' = item.q /\ queue_count' = [queue_count EXCEPT ![item.q] = @ + 1]
      /\ req_count' = req_count + 1
      /\ UNCHANGED <<kind, buf, md, meList, lost, freed, replyVars, ptl_lock, ran, ended,
                     readFreed, overMemory, exit_now>>
  BY <1>a DEF TakeRequest, IInv, PhaseInv
<1>2. item \in Came /\ item \in Item /\ item.q \in Queues
  BY <1>a, <1>1, PopEvent DEF Came, Item
<1>3. \A q : /\ Pending(q) = Pending(q)' + (IF item.q = q THEN 1 ELSE 0)
             /\ Pending(q) \in Nat /\ Pending(q)' \in Nat
  BY <1>a, <1>1, PopEvent DEF IsEnd
<1>4. \A q : Lost(q)' = Lost(q) /\ Lost(q) \in Nat
  <2>1. \A q : Lost(q)' = Lost(q) /\ Lost(q) = Cardinality(OfQueue(lost, q))
    BY <1>1 DEF Lost, OfQueue
  <2>2. lost \subseteq Item /\ IsFiniteSet(lost)
    BY DEF IInv, Types
  <2> QED BY <2>1, <2>2, LostCard
<1>5. /\ \A q \in Queues : ReqsPerQueue - md[q] = queue_count[q] + Pending(q) + Lost(q)
      /\ req_count + Pending(1) + Pending(2) <= Len(kind)
  BY <1>1 DEF IInv, CountInv, Queues
<1>6. ReqsPerQueue \in Nat /\ req_count \in Nat /\ Len(kind) \in Nat
      /\ md \in [Queues -> 0 .. ReqsPerQueue] /\ queue_count \in [Queues -> 0 .. ReqsPerQueue]
  BY ServerAssumption DEF IInv, Types
<1>7. queue_count[item.q] + 1 \in 0 .. ReqsPerQueue
  <2>1. md[item.q] \in Nat /\ md[item.q] <= ReqsPerQueue /\ queue_count[item.q] \in Nat
    BY <1>2, <1>6
  <2>2. Pending(item.q) \in Nat \ {0} /\ Lost(item.q) \in Nat
    BY <1>3, <1>4
  <2>3. ReqsPerQueue - md[item.q] = queue_count[item.q] + Pending(item.q) + Lost(item.q)
    BY <1>2, <1>5
  <2> QED BY <1>6, <2>1, <2>2, <2>3, SMTT(30)
<1>8. queue_count' \in [Queues -> 0 .. ReqsPerQueue]
      /\ \A q \in Queues : queue_count'[q] = queue_count[q] + (IF item.q = q THEN 1 ELSE 0)
  <2>1. \A q \in Queues : queue_count[q] \in Nat
    BY <1>6
  <2> QED BY <1>1, <1>2, <1>6, <1>7, <2>1
<1>9. CountInv'
  <2>1. \A q \in Queues : ReqsPerQueue - md'[q] = queue_count'[q] + Pending(q)' + Lost(q)'
    <3> TAKE q \in Queues
    <3>1. md'[q] = md[q] /\ md[q] \in Nat /\ queue_count[q] \in Nat
      BY <1>1, <1>6
    <3>2. queue_count'[q] = queue_count[q] + (IF item.q = q THEN 1 ELSE 0)
          /\ Pending(q) = Pending(q)' + (IF item.q = q THEN 1 ELSE 0)
          /\ Pending(q) \in Nat /\ Pending(q)' \in Nat /\ Lost(q)' = Lost(q) /\ Lost(q) \in Nat
      BY <1>3, <1>4, <1>8
    <3>3. ReqsPerQueue - md[q] = queue_count[q] + Pending(q) + Lost(q)
      BY <1>5
    <3> QED BY <1>6, <3>1, <3>2, <3>3
  <2>2. Pending(1)' + Pending(2)' + 1 = Pending(1) + Pending(2)
        /\ Pending(1)' \in Nat /\ Pending(2)' \in Nat /\ Pending(1) \in Nat /\ Pending(2) \in Nat
    <3>1. item.q = 1 \/ item.q = 2
      BY <1>2 DEF Queues
    <3> QED BY <1>3, <3>1
  <2>3. req_count' + Pending(1)' + Pending(2)' <= Len(kind')
    BY <1>1, <1>5, <1>6, <2>2, SMTT(30)
  <2>4. req_count' <= Len(kind')
    BY <1>1, <1>5, <1>6, <2>2
  <2> QED BY <2>1, <2>3, <2>4 DEF CountInv
<1>10. /\ main' \in {"reset", "inline"}
       /\ wk' \in [Workers -> Worker] /\ pool' \in Seq(Item)
       /\ \A i \in DOMAIN pool' : pool'[i] \in Came
       /\ \A w \in Workers : IF wk'[w].pc = "idle" THEN wk'[w] = IdleWorker
            ELSE wk'[w].item \in Came /\ (wk'[w].pc # "decode" => wk'[w].hdr # None)
  <2>1. CASE UseThreads
    <3>1. pool' = Append(pool, item) /\ main' = "reset" /\ UNCHANGED wk
      BY <1>a, <2>1 DEF TakeRequest
    <3>2. pool \in Seq(Item) /\ \A i \in DOMAIN pool : pool[i] \in Came
      BY DEF IInv, Types, CameInv
    <3>3. pool' \in Seq(Item) /\ \A i \in DOMAIN pool' : pool'[i] \in Came
      BY <1>2, <3>1, <3>2
    <3> QED BY <3>1, <3>3 DEF IInv, Types, CameInv
  <2>2. CASE ~UseThreads
    <3> DEFINE f == [IdleWorker EXCEPT !.pc = "decode", !.item = item]
    <3>1. f \in Worker /\ f.pc = "decode" /\ f.item = item
      BY <1>2 DEF IdleWorker, Worker, WorkerStates
    <3> HIDE DEF f
    <3>2. wk' = [wk EXCEPT ![1] = f] /\ main' = "inline" /\ UNCHANGED pool
      BY <1>a, <2>2 DEF TakeRequest, f
    <3>3. wk \in [Workers -> Worker]
      BY DEF IInv, Types
    <3>4. wk' \in [Workers -> Worker]
      BY <3>1, <3>2, <3>3
    <3>5. \A w \in Workers : wk'[w] = wk[w] \/ wk'[w] = f
      BY <3>2, <3>3
    <3> QED BY <1>2, <3>1, <3>2, <3>4, <3>5 DEF IInv, Types, CameInv
  <2> QED BY <2>1, <2>2
<1>11. Types'
  <2>1. eq' \in Seq(Event) /\ Len(eq') <= EqSlots
    BY <1>1, PopEvent
  <2>2. req_count' \in Nat /\ index' \in Queues /\ main' \in MainStates
    BY <1>1, <1>2, <1>6, <1>10 DEF MainStates
  <2> QED BY <1>1, <1>8, <1>10, <2>1, <2>2 DEF IInv, Types, replyVars
<1>12. LinkInv' /\ PhaseInv'
  BY <1>1, <1>10 DEF IInv, LinkInv, PhaseInv
<1>13. CameInv'
  <2>1. Came' = Came
    BY <1>1 DEF Came
  <2> QED BY <1>1, <1>10, <2>1, PopEvent DEF IInv, CameInv
<1> QED BY <1>9, <1>11, <1>12, <1>13 DEF IInv

\* The entry of a buffer that is on the match list is taken off it.
LEMMA WithoutQueueFacts ==
  ASSUME IInv, NEW q \in Queues, NEW i \in DOMAIN meList, meList[i] = q
  PROVE  /\ WithoutQueue(q) \in Seq(Queues)
         /\ \A j, k \in DOMAIN WithoutQueue(q) :
              WithoutQueue(q)[j] = WithoutQueue(q)[k] => j = k
         /\ \A p \in Queues : (\E j \in DOMAIN WithoutQueue(q) : WithoutQueue(q)[j] = p) <=>
                                (p # q /\ \E j \in DOMAIN meList : meList[j] = p)
<1>1. meList \in Seq(Queues) /\ Len(meList) <= 2
      /\ \A j, k \in DOMAIN meList : meList[j] = meList[k] => j = k
  BY ListShort DEF IInv, LinkInv
<1>2. WithoutQueue(q) = SubSeq(meList, 1, i - 1) \o SubSeq(meList, i + 1, Len(meList))
  <2>1. i = CHOOSE j \in DOMAIN meList : meList[j] = q
    BY <1>1
  <2> QED BY <2>1 DEF WithoutQueue, RemoveAt
<1>3. i \in 1 .. Len(meList) /\ Len(meList) \in Nat
  BY <1>1
<1> DEFINE front == SubSeq(meList, 1, i - 1)
           back == SubSeq(meList, i + 1, Len(meList))
<1>4. front \in Seq(Queues) /\ Len(front) = i - 1 /\ \A k \in 1 .. i - 1 : front[k] = meList[k]
  BY <1>1, <1>3, SubSeqProperties
<1>5. /\ back \in Seq(Queues) /\ Len(back) = Len(meList) - i
      /\ \A k \in 1 .. Len(meList) - i : back[k] = meList[k + i]
  <2>1. i + 1 \in Int /\ Len(meList) \in Int
        /\ \A k \in i + 1 .. Len(meList) : meList[k] \in Queues
    BY <1>1, <1>3
  <2>2. /\ back \in Seq(Queues)
        /\ Len(back) = IF i + 1 <= Len(meList) THEN Len(meList) - (i + 1) + 1 ELSE 0
        /\ \A k \in 1 .. Len(meList) - (i + 1) + 1 : back[k] = meList[i + 1 + k - 1]
    BY <2>1, SubSeqProperties, SMTT(30)
  <2> HIDE DEF back
  <2>3. Len(meList) - (i + 1) + 1 = Len(meList) - i
    BY <1>3
  <2>4. Len(back) = Len(meList) - i
    BY <1>3, <2>2
  <2>5. \A k \in 1 .. Len(meList) - i : i + 1 + k - 1 = k + i
    BY <1>3
  <2> QED BY <2>2, <2>3, <2>4, <2>5
<1> HIDE DEF front, back
<1> DEFINE W == front \o back
<1>6. /\ W \in Seq(Queues) /\ Len(W) = Len(meList) - 1
      /\ \A k \in 1 .. Len(meList) - 1 : W[k] = IF k < i THEN front[k] ELSE back[k - (i - 1)]
  <2>1. Len(front) + Len(back) = Len(meList) - 1
    BY <1>3, <1>4, <1>5
  <2>2. /\ W \in Seq(Queues) /\ Len(W) = Len(front) + Len(back)
        /\ \A k \in 1 .. Len(front) + Len(back) :
             W[k] = IF k <= Len(front) THEN front[k] ELSE back[k - Len(front)]
    BY <1>4, <1>5, ConcatProperties
  <2> HIDE DEF W
  <2>3. \A k \in 1 .. Len(meList) - 1 : k <= i - 1 <=> k < i
    BY <1>3
  <2> QED BY <1>4, <2>1, <2>2, <2>3
<1>7. \A k \in 1 .. Len(meList) - 1 : W[k] = IF k < i THEN meList[k] ELSE meList[k + 1]
  <2> SUFFICES ASSUME NEW k \in 1 .. Len(meList) - 1
               PROVE  W[k] = IF k < i THEN meList[k] ELSE meList[k + 1]
    OBVIOUS
  <2>1. CASE k < i
    BY <1>3, <1>4, <1>6, <2>1
  <2>2. CASE ~(k < i)
    <3>1. k - (i - 1) \in 1 .. Len(meList) - i /\ k - (i - 1) + i = k + 1
      BY <1>3, <2>2
    <3>2. back[k - (i - 1)] = meList[k - (i - 1) + i]
      BY <1>5, <3>1
    <3> QED BY <1>6, <2>2, <3>1, <3>2
  <2> QED BY <2>1, <2>2
<1>8. W = WithoutQueue(q)
  BY <1>2 DEF front, back
<1>9. DOMAIN W = 1 .. Len(meList) - 1 /\ DOMAIN meList = 1 .. Len(meList)
  BY <1>1, <1>6
<1> HIDE DEF W
<1>10. \A j, k \in DOMAIN W : W[j] = W[k] => j = k
  BY <1>1, <1>3, <1>7, <1>9
<1>11. ASSUME NEW j \in DOMAIN W
       PROVE  W[j] # q /\ \E k \in DOMAIN meList : meList[k] = W[j]
  BY <1>1, <1>3, <1>7, <1>9
<1>12. ASSUME NEW j \in DOMAIN meList, meList[j] # q
       PROVE  \E k \in DOMAIN W : W[k] = meList[j]
  <2>1. CASE j < i
    BY <1>3, <1>7, <1>9, <1>12, <2>1
  <2>2. CASE i < j
    <3>1. j - 1 \in DOMAIN W /\ ~(j - 1 < i) /\ (j - 1) + 1 = j
      BY <1>3, <1>9, <2>2
    <3> QED BY <1>7, <1>9, <3>1
  <2> QED BY <1>3, <1>9, <1>12, <2>1, <2>2
<1> QED BY <1>6, <1>8, <1>10, <1>11, <1>12 DEF W

LEMMA UnlinkMEStep ==
  ASSUME IInv, UnlinkME
  PROVE  IInv'
<1>1. /\ UNCHANGED <<kind, buf, md, eq, lost, queue_count, req_count, index, freed,
                     replyVars, workVars, exit_now>>
      /\ main = "reset" /\ freed = {} /\ index \in Queues
  BY DEF UnlinkME, IInv, Types, PhaseInv
<1>2. CASE UNCHANGED meList /\ main' = "top"
  <2>1. Types'
    BY <1>1, <1>2 DEF IInv, Types, replyVars, workVars, MainStates
  <2> QED BY <1>1, <1>2, <2>1, NetKept, CameKept DEF IInv, workVars
<1>3. CASE queue_count[index] >= ReqsPerQueue /\ meList' = WithoutQueue(index) /\ main' = "attach"
  <2>1. PICK i \in DOMAIN meList : meList[i] = index
    BY <1>1 DEF IInv, LinkInv
  <2>2. /\ meList' \in Seq(Queues)
        /\ \A j, k \in DOMAIN meList' : meList'[j] = meList'[k] => j = k
        /\ \A p \in Queues : (\E j \in DOMAIN meList' : meList'[j] = p) <=>
                               (p # index /\ \E j \in DOMAIN meList : meList[j] = p)
    BY <1>1, <1>3, <2>1, WithoutQueueFacts
  <2>3. Types'
    BY <1>1, <1>3, <2>2 DEF IInv, Types, replyVars, workVars, MainStates
  <2>4. LinkInv'
    BY <1>1, <1>3, <2>2 DEF IInv, LinkInv
  <2>5. queue_count[index] = ReqsPerQueue
    BY <1>1, <1>3, ServerAssumption DEF IInv, Types
  <2>6. PhaseInv'
    BY <1>1, <1>3, <2>5 DEF PhaseInv
  <2>7. CountInv'
    BY <1>1 DEF IInv, CountInv, Pending, Lost
  <2> QED BY <1>1, <2>3, <2>4, <2>6, <2>7, CameKept DEF IInv, workVars
<1> QED BY <1>2, <1>3 DEF UnlinkME

\* A buffer that is posted again is empty: all it held was dispatched.
LEMMA AttachMDStep ==
  ASSUME IInv, AttachMD
  PROVE  IInv'
<1>1. /\ UNCHANGED <<kind, buf, eq, lost, req_count, index, freed, replyVars, workVars, exit_now>>
      /\ main = "attach" /\ main' = "top" /\ freed = {} /\ index \in Queues
      /\ meList' = Append(meList, index) /\ md' = [md EXCEPT ![index] = ReqsPerQueue]
      /\ queue_count' = [queue_count EXCEPT ![index] = 0]
      /\ queue_count[index] = ReqsPerQueue
  BY DEF AttachMD, IInv, Types, PhaseInv
<1>2. meList \in Seq(Queues) /\ ReqsPerQueue \in Nat
      /\ md \in [Queues -> 0 .. ReqsPerQueue] /\ queue_count \in [Queues -> 0 .. ReqsPerQueue]
  BY ServerAssumption DEF IInv, Types
<1>3. meList' \in Seq(Queues) /\ DOMAIN meList' = DOMAIN meList \cup {Len(meList) + 1}
      /\ meList'[Len(meList) + 1] = index /\ \A j \in DOMAIN meList : meList'[j] = meList[j]
  BY <1>1, <1>2
<1>4. md' \in [Queues -> 0 .. ReqsPerQueue] /\ queue_count' \in [Queues -> 0 .. ReqsPerQueue]
      /\ md'[index] = ReqsPerQueue /\ queue_count'[index] = 0
      /\ \A q \in Queues : q # index => md'[q] = md[q] /\ queue_count'[q] = queue_count[q]
  <2>1. ReqsPerQueue \in 0 .. ReqsPerQueue /\ 0 \in 0 .. ReqsPerQueue
    BY <1>2
  <2> QED BY <1>1, <1>2, <2>1
<1>5. Types'
  BY <1>1, <1>3, <1>4 DEF IInv, Types, replyVars, workVars, MainStates
<1>6. LinkInv'
  <2>1. \A j \in DOMAIN meList : meList[j] # index
    BY <1>1 DEF IInv, LinkInv
  <2>2. \A j, k \in DOMAIN meList' : meList'[j] = meList'[k] => j = k
    BY <1>3, <2>1 DEF IInv, LinkInv
  <2>3. \A q \in Queues : \E j \in DOMAIN meList' : meList'[j] = q
    <3> TAKE q \in Queues
    <3>1. CASE q = index
      BY <1>3, <3>1
    <3>2. CASE q # index
      <4>1. PICK j \in DOMAIN meList : meList[j] = q
        BY <1>1, <3>2 DEF IInv, LinkInv
      <4> QED BY <1>3, <4>1
    <3> QED BY <3>1, <3>2
  <2> QED BY <1>1, <2>2, <2>3 DEF LinkInv
<1>7. PhaseInv'
  BY <1>1 DEF PhaseInv
<1>8. CountInv'
  <2>1. \A q : Pending(q)' = Pending(q) /\ Lost(q)' = Lost(q)
    BY <1>1 DEF Pending, Lost
  <2>2. \A q : Pending(q) \in Nat /\ Lost(q) \in Nat
    <3>1. eq \in Seq(Event) /\ lost \subseteq Item /\ IsFiniteSet(lost)
      BY DEF IInv, Types
    <3> QED BY <3>1, PendingIs, LostIs, EndsFinite, LostCard
  <2>3. /\ \A q \in Queues : ReqsPerQueue - md[q] = queue_count[q] + Pending(q) + Lost(q)
        /\ req_count + Pending(1) + Pending(2) <= Len(kind)
    BY <1>1 DEF IInv, CountInv, Queues
  <2>4. Pending(index) = 0 /\ Lost(index) = 0
    <3>1. ReqsPerQueue - md[index] = ReqsPerQueue + Pending(index) + Lost(index)
          /\ md[index] \in Nat
      BY <1>1, <1>2, <2>3
    <3>2. Pending(index) \in Nat /\ Lost(index) \in Nat
      BY <2>2
    <3> QED BY <1>2, <3>1, <3>2
  <2>5. \A q \in Queues : ReqsPerQueue - md'[q] = queue_count'[q] + Pending(q)' + Lost(q)'
    <3> TAKE q \in Queues
    <3>1. CASE q = index
      BY <1>2, <1>4, <2>1, <2>4, <3>1
    <3>2. CASE q # index
      BY <1>4, <2>1, <2>3, <3>2
    <3> QED BY <3>1, <3>2
  <2> QED BY <1>1, <2>1, <2>3, <2>5 DEF IInv, CountInv
<1> QED BY <1>1, <1>5, <1>6, <1>7, <1>8, CameKept DEF IInv, workVars

LEMMA CleanupSteps ==
  ASSUME IInv, FreeQueue \/ FreeEq \/ PoolFini
  PROVE  IInv'
<1>1. CASE FreeQueue
  <2>1. PICK q \in Queues : q \notin freed /\ meList' = WithoutQueue(q) /\ freed' = freed \cup {q}
    BY <1>1 DEF FreeQueue
  <2>2. /\ UNCHANGED <<kind, buf, md, eq, lost, queue_count, req_count, main, index,
                       replyVars, workVars, exit_now>>
        /\ main = "cleanup"
    BY <1>1 DEF FreeQueue
  <2>3. PICK i \in DOMAIN meList : meList[i] = q
    BY <2>1, <2>2 DEF IInv, LinkInv
  <2>4. /\ meList' \in Seq(Queues)
        /\ \A j, k \in DOMAIN meList' : meList'[j] = meList'[k] => j = k
        /\ \A p \in Queues : (\E j \in DOMAIN meList' : meList'[j] = p) <=>
                               (p # q /\ \E j \in DOMAIN meList : meList[j] = p)
    BY <2>1, <2>3, WithoutQueueFacts
  <2>5. Types'
    BY <2>1, <2>2, <2>4 DEF IInv, Types, replyVars, workVars
  <2>6. LinkInv'
    BY <2>1, <2>2, <2>4 DEF IInv, LinkInv
  <2>7. PhaseInv'
    BY <2>2 DEF PhaseInv
  <2>8. freed' # Queues => freed # Queues
    BY <2>1 DEF IInv, Types
  <2>9. CountInv'
    BY <2>2, <2>8 DEF IInv, CountInv, Pending, Lost
  <2> QED BY <2>2, <2>5, <2>6, <2>7, <2>9, CameKept DEF IInv, workVars
<1>2. CASE FreeEq
  <2>1. /\ UNCHANGED <<kind, buf, md, meList, lost, queue_count, req_count, index, freed,
                       replyVars, workVars, exit_now>>
        /\ main = "cleanup" /\ main' = "fini" /\ freed = Queues /\ eq' = <<>>
    BY <1>2 DEF FreeEq
  <2>2. eq' \in Seq(Event) /\ Len(eq') <= EqSlots /\ DOMAIN eq' = {}
    BY <2>1, ServerAssumption
  <2>3. Types'
    BY <2>1, <2>2 DEF IInv, Types, replyVars, workVars, MainStates
  <2>4. LinkInv' /\ PhaseInv' /\ CountInv'
    BY <2>1 DEF IInv, LinkInv, PhaseInv, CountInv
  <2>5. CameInv'
    <3>1. Came' = Came
      BY <2>1 DEF Came
    <3> QED BY <2>1, <2>2, <3>1 DEF IInv, CameInv, workVars
  <2> QED BY <2>3, <2>4, <2>5 DEF IInv
<1>3. CASE PoolFini
  <2>1. /\ UNCHANGED <<netVars, queue_count, req_count, index, freed, replyVars, wk,
                       ptl_lock, ran, ended, readFreed, overMemory, exit_now>>
        /\ main = "fini" /\ main' = "done" /\ pool' = <<>>
    BY <1>3 DEF PoolFini
  <2>2. pool' \in Seq(Item) /\ DOMAIN pool' = {}
    BY <2>1
  <2>3. Types'
    BY <2>1, <2>2 DEF IInv, Types, replyVars, netVars, MainStates
  <2>4. LinkInv' /\ PhaseInv'
    BY <2>1 DEF IInv, LinkInv, PhaseInv, netVars
  <2>5. CountInv'
    BY <2>1 DEF IInv, CountInv, Pending, Lost, netVars
  <2>6. CameInv'
    <3>1. Came' = Came
      BY <2>1 DEF Came, netVars
    <3> QED BY <2>1, <2>2, <3>1 DEF IInv, CameInv, netVars
  <2> QED BY <2>3, <2>4, <2>5, <2>6 DEF IInv
<1> QED BY <1>1, <1>2, <1>3
-----------------------------------------------------------------------------
LEMMA NextInv == IInv /\ [Next]_vars => IInv'
<1> SUFFICES ASSUME IInv, [Next]_vars PROVE IInv'
  OBVIOUS
<1>1. CASE MainStep
  BY <1>1, MainMoves, PollAgainStep, TakeRequestStep, UnlinkMEStep, AttachMDStep, CleanupSteps
     DEF MainStep
<1>2. ASSUME NEW w \in Workers, WorkerStep(w) PROVE IInv'
  BY <1>2, StartRequestStep, WorkStep DEF WorkerStep
<1>3. CASE Signal \/ Finished \/ UNCHANGED vars
  BY <1>3, SignalStep DEF Finished
<1>4. ASSUME NEW k \in Kinds, ClientPut(k) PROVE IInv'
  BY <1>4, ClientPutStep
<1>5. ASSUME NEW m \in Messages, ClientGet(m) PROVE IInv'
  BY <1>5, ClientGetStep
<1> QED BY <1>1, <1>2, <1>3, <1>4, <1>5 DEF Next

(***************************************************************************)
(* In every behaviour of the service the accounts of its buffers and the   *)
(* stages of its requests are as the functions of rpc_server.c take them   *)
(* to be.                                                                  *)
(***************************************************************************)
THEOREM InductiveInvariant == Spec => []IInv
BY InitInv, NextInv, PTL DEF Spec

(***************************************************************************)
(* The variables have their types: the match list never holds more than    *)
(* the two buffers, the event queue stays within its capacity, and         *)
(* queue_count never passes reqs_per_queue.                                *)
(***************************************************************************)
THEOREM TypeCorrect == Spec => []TypeOK
<1>1. IInv => TypeOK
  <2> SUFFICES ASSUME IInv PROVE TypeOK
    OBVIOUS
  <2>1. Len(meList) <= 2
    BY ListShort
  <2>2. req_count \in 0 .. MaxMsgs
    BY ServerAssumption DEF IInv, Types, CountInv
  <2> QED BY <2>1, <2>2 DEF IInv, Types, TypeOK, Event, Worker
<1> QED BY <1>1, InductiveInvariant, PTL

(***************************************************************************)
(* However many requests arrive and however small the event queue is, all  *)
(* that a posted descriptor has taken was dispatched, waits in the event   *)
(* queue, or lost its event: lwfs_service_start never posts a buffer again *)
(* that holds a request it has not dispatched.                             *)
(***************************************************************************)
THEOREM BuffersAccounted == Spec => []BufferAccounting
<1>1. IInv => BufferAccounting
  <2> SUFFICES ASSUME IInv, NEW i \in DOMAIN meList
               PROVE  LET q == meList[i]
                      IN  ReqsPerQueue - md[q] = queue_count[q] + Pending(q) + Lost(q)
    BY DEF BufferAccounting
  <2>1. meList[i] \in Queues
    BY DEF IInv, Types
  <2>2. meList[i] \notin freed
    BY <2>1 DEF IInv, LinkInv
  <2> QED BY <2>1, <2>2 DEF IInv, CountInv
<1> QED BY <1>1, InductiveInvariant, PTL
-----------------------------------------------------------------------------
(* What is counted as dispatched, and what the main thread does itself.    *)

Busy == {w \in Workers : wk[w].pc # "idle"}
Dispatched == ended \cup {wk[w].item.msg : w \in Busy} \cup {pool[i].msg : i \in DOMAIN pool}

\* Without a pool the main thread is the only worker, and works when it says so.
AloneInv ==
  ~UseThreads => pool = <<>> /\ \A w \in Busy : w = 1 /\ main = "inline"

\* The service counts each request once, and forgets none unless it is told to exit.
DrainInv ==
  /\ \A i, j \in DOMAIN eq :
       eq[i].type = "end" /\ eq[j].type = "end" /\ eq[i].item.msg = eq[j].item.msg => i = j
  /\ \A i \in DOMAIN eq : eq[i].type = "end" => eq[i].item.msg \notin Dispatched
  /\ \A m \in ended : m <= Len(kind)
  /\ Cardinality(Dispatched) = req_count \/ (main = "done" /\ exit_now /\ UseThreads)
  /\ main = "done" => Busy = {} /\ pool = <<>>

LEMMA DispatchedFacts ==
  ASSUME IInv
  PROVE  /\ Dispatched \subseteq Messages /\ IsFiniteSet(Dispatched)
         /\ Cardinality(Dispatched) \in Nat
         /\ DrainInv => \A m \in Dispatched : m <= Len(kind)
<1>1. \A w \in Busy : wk[w].item \in Item /\ wk[w].item.msg \in Messages
                      /\ wk[w].item.msg <= Len(kind)
  BY DEF Busy, IInv, CameInv, Came, Item
<1>2. \A i \in DOMAIN pool : pool[i].msg \in Messages /\ pool[i].msg <= Len(kind)
  BY DEF IInv, CameInv, Came, Item
<1>3. Dispatched \subseteq Messages
  BY <1>1, <1>2 DEF Dispatched, IInv, Types
<1>4. IsFiniteSet(Messages)
  BY ServerAssumption, FS_Interval DEF Messages
<1>5. IsFiniteSet(Dispatched)
  BY <1>3, <1>4, FS_Subset
<1>6. DrainInv => \A m \in Dispatched : m <= Len(kind)
  BY <1>1, <1>2 DEF DrainInv, Dispatched
<1> QED BY <1>3, <1>5, <1>6, FS_CardinalityType

\* A pool thread takes the first request ...
LEMMA StartShape ==
  ASSUME IInv, NEW w \in Workers, StartRequest(w)
  PROVE  /\ UseThreads /\ w \notin Busy /\ pool # <<>> /\ pool' = Tail(pool) /\ main # "done"
         /\ UNCHANGED <<kind, eq, req_count, ended, main, exit_now>> /\ Busy' = Busy \cup {w}
         /\ wk'[w].item = Head(pool) /\ \A u \in Workers : u # w => wk'[u] = wk[u]
         /\ {pool[i].msg : i \in DOMAIN pool} =
              {pool'[i].msg : i \in DOMAIN pool'} \cup {Head(pool).msg}
         /\ Dispatched' = Dispatched
<1>1. /\ UseThreads /\ w \notin Busy /\ pool # <<>> /\ pool' = Tail(pool) /\ main # "done"
      /\ wk' = [wk EXCEPT ![w] = [IdleWorker EXCEPT !.pc = "decode", !.item = Head(pool)]]
      /\ UNCHANGED <<kind, eq, req_count, ended, main, exit_now>>
  BY DEF StartRequest, At, Set, Busy, netVars, mainVars
<1>2. pool \in Seq(Item) /\ wk \in [Workers -> Worker]
  BY DEF IInv, Types
<1>3. wk'[w].item = Head(pool) /\ wk'[w].pc = "decode" /\ \A u \in Workers : u # w => wk'[u] = wk[u]
  BY <1>1, <1>2 DEF IdleWorker
<1>4. Busy' = Busy \cup {w}
  BY <1>1, <1>3 DEF Busy
<1>5. {pool[i].msg : i \in DOMAIN pool} =
        {pool'[i].msg : i \in DOMAIN pool'} \cup {Head(pool).msg}
  <2>1. DOMAIN pool = 1 .. Len(pool) /\ Len(pool) \in Nat \ {0} /\ DOMAIN pool' = 1 .. Len(pool) - 1
        /\ \A i \in DOMAIN pool' : pool'[i] = pool[i + 1] /\ i + 1 \in DOMAIN pool
        /\ Head(pool) = pool[1] /\ 1 \in DOMAIN pool
    BY <1>1, <1>2
  <2>2. \A j \in DOMAIN pool : j = 1 \/ (j - 1 \in DOMAIN pool' /\ (j - 1) + 1 = j)
    BY <2>1
  <2> QED BY <2>1, <2>2
<1>6. {wk'[u].item.msg : u \in Busy'} = {wk[u].item.msg : u \in Busy} \cup {Head(pool).msg}
  BY <1>1, <1>3, <1>4 DEF Busy
<1>7. Dispatched' = Dispatched
  BY <1>1, <1>5, <1>6 DEF Dispatched
<1> QED BY <1>1, <1>3, <1>4, <1>5, <1>7

\* ... and a worker goes on with its request, or is done with it.
LEMMA WorkShape ==
  ASSUME IInv, NEW w \in Workers, WorkerStep(w), ~StartRequest(w)
  PROVE  /\ w \in Busy /\ UNCHANGED <<kind, eq, req_count, pool>>
         /\ \/ wk'[w].pc # "idle" /\ wk'[w].item = wk[w].item /\ UNCHANGED ended
            \/ wk'[w].pc = "idle" /\ ended' = ended \cup {wk[w].item.msg} /\ UNCHANGED exit_now
         /\ \A u \in Workers : u # w => wk'[u] = wk[u]
         /\ Busy' \subseteq Busy /\ \A u \in Busy : u # w => u \in Busy'
         /\ main' = main \/ (main' = "aborted" /\ wk[w].item.q \in freed)
         /\ exit_now => exit_now'
         /\ Dispatched' = Dispatched
<1> DEFINE it == wk[w].item
<1>1. wk \in [Workers -> Worker] /\ wk[w] \in Worker
  BY DEF IInv, Types
<1>2. w \in Busy /\ UNCHANGED <<kind, eq, req_count, pool>> /\ (exit_now => exit_now')
      /\ (main' = main \/ (main' = "aborted" /\ it.q \in freed))
  <2>1. w \in Busy /\ UNCHANGED <<kind, eq, req_count, pool>>
        /\ (main' = main \/ (main' = "aborted" /\ it.q \in freed))
    BY DEF WorkerStep, MemoryExceeded, DecodeHeader, DecodeGarbage, DecodeArgs,
         FetchArgs, RunOp, SendResult, SendFails, AwaitFetch, At, Busy, netVars, mainVars
  <2>2. CASE RunOp(w)
    BY <2>1, <2>2 DEF RunOp
  <2>3. CASE ~RunOp(w)
    <3>1. UNCHANGED exit_now
      BY <2>3 DEF WorkerStep, MemoryExceeded, DecodeHeader, DecodeGarbage, DecodeArgs,
           FetchArgs, SendResult, SendFails, AwaitFetch
    <3> QED BY <2>1, <3>1
  <2> QED BY <2>2, <2>3
<1>3. /\ \/ wk'[w].pc # "idle" /\ wk'[w].item = it /\ UNCHANGED ended
         \/ wk'[w].pc = "idle" /\ ended' = ended \cup {it.msg} /\ UNCHANGED exit_now
      /\ \A u \in Workers : u # w => wk'[u] = wk[u]
  <2>1. CASE Return(w)
    <3>1. UNCHANGED exit_now \/ RunOp(w)
      <4>1. CASE MemoryExceeded(w) \/ DecodeHeader(w) \/ DecodeGarbage(w)
        BY <4>1 DEF MemoryExceeded, DecodeHeader, DecodeGarbage
      <4>2. CASE DecodeArgs(w) \/ FetchArgs(w) \/ AwaitFetch(w)
        BY <4>2 DEF DecodeArgs, FetchArgs, AwaitFetch
      <4>3. CASE SendResult(w) \/ SendFails(w)
        BY <4>3 DEF SendResult, SendFails
      <4> QED BY <4>1, <4>2, <4>3 DEF WorkerStep
    <3>2. ~RunOp(w)
      <4> SUFFICES ASSUME RunOp(w) PROVE FALSE
        OBVIOUS
      <4>1. wk'[w].pc = "send" /\ wk'[w].pc = "idle"
        BY <1>1, <2>1 DEF RunOp, Return, Set, IdleWorker, Worker
      <4> QED BY <4>1
    <3> QED BY <1>1, <1>2, <2>1, <3>1, <3>2 DEF Return, Set, IdleWorker
  <2>2. CASE UNCHANGED ended /\ ~Return(w)
    <3>1. CASE wk' = wk
      BY <1>2, <2>2, <3>1 DEF Busy
    <3>2. CASE wk' # wk
      <4>1. CASE DecodeHeader(w)
        <5>1. PICK m : wk' = [wk EXCEPT ![w] = [wk[w] EXCEPT !.pc = "args", !.hdr = m]]
          BY <2>2, <4>1 DEF DecodeHeader, Set
        <5> QED BY <1>1, <1>2, <2>2, <5>1 DEF Worker
      <4>2. CASE DecodeArgs(w)
        <5>1. PICK a : wk' = [wk EXCEPT ![w] = [wk[w] EXCEPT !.pc = "op", !.args = a]]
          BY <2>2, <4>2 DEF DecodeArgs, Set
        <5> QED BY <1>1, <1>2, <2>2, <5>1 DEF Worker
      <4>3. CASE FetchArgs(w)
        <5>1. PICK a : wk' = [wk EXCEPT ![w] = [wk[w] EXCEPT !.pc = "op", !.args = a]]
          BY <4>3 DEF FetchArgs, Set
        <5> QED BY <1>1, <1>2, <2>2, <5>1 DEF Worker
      <4>4. CASE RunOp(w)
        BY <1>1, <1>2, <2>2, <4>4 DEF RunOp, Set, Worker
      <4>5. CASE SendResult(w)
        BY <1>1, <1>2, <2>2, <4>5 DEF SendResult, Set, Worker
      <4> QED BY <2>2, <3>2, <4>1, <4>2, <4>3, <4>4, <4>5
           DEF WorkerStep, MemoryExceeded, DecodeGarbage, SendFails, AwaitFetch
    <3> QED BY <3>1, <3>2
  <2>3. Return(w) \/ UNCHANGED ended
    BY DEF WorkerStep, MemoryExceeded, DecodeHeader, DecodeGarbage, DecodeArgs,
         FetchArgs, RunOp, SendResult, SendFails, AwaitFetch
  <2> QED BY <2>1, <2>2, <2>3
<1>4. Busy' \subseteq Busy /\ \A u \in Busy : u # w => u \in Busy' /\ wk'[u] = wk[u]
  BY <1>2, <1>3 DEF Busy
<1>5. Dispatched' = Dispatched
  <2>1. CASE wk'[w].pc # "idle" /\ wk'[w].item = it /\ UNCHANGED ended
    <3>1. Busy' = Busy /\ \A u \in Busy : wk'[u].item = wk[u].item
      BY <1>2, <1>4, <2>1 DEF Busy
    <3> QED BY <1>2, <2>1, <3>1 DEF Dispatched
  <2>2. CASE wk'[w].pc = "idle" /\ ended' = ended \cup {it.msg}
    <3>1. {wk[u].item.msg : u \in Busy} = {wk'[u].item.msg : u \in Busy'} \cup {it.msg}
      BY <1>2, <1>4, <2>2 DEF Busy
    <3> QED BY <1>2, <2>2, <3>1 DEF Dispatched
  <2> QED BY <1>3, <2>1, <2>2
<1> QED BY <1>2, <1>3, <1>4, <1>5

\* A worker's step with its request: the request stays dispatched.
LEMMA WorkDrain ==
  ASSUME IInv, AloneInv, DrainInv, NEW w \in Workers, WorkerStep(w)
  PROVE  AloneInv' /\ DrainInv'
<1>1. CASE StartRequest(w)
  BY <1>1, StartShape DEF AloneInv, DrainInv
<1>2. CASE ~StartRequest(w)
  <2>1. /\ w \in Busy /\ UNCHANGED <<kind, eq, req_count, pool>> /\ Dispatched' = Dispatched
        /\ \/ UNCHANGED ended
           \/ ended' = ended \cup {wk[w].item.msg}
        /\ main' = main \/ (main' = "aborted" /\ wk[w].item.q \in freed)
        /\ Busy' \subseteq Busy
    BY <1>2, WorkShape
  <2>2. main # "done" /\ main' # "done"
    BY <2>1 DEF DrainInv
  <2>3. wk[w].item.msg <= Len(kind)
    BY <2>1, BusyFacts DEF Busy, Came
  <2>4. ~UseThreads => main = "inline" /\ freed = {}
    BY <2>1 DEF AloneInv, IInv, PhaseInv
  <2> QED BY <2>1, <2>2, <2>3, <2>4 DEF AloneInv, DrainInv
<1> QED BY <1>1, <1>2

LEMMA OtherDrain ==
  ASSUME IInv, AloneInv, DrainInv, MainStep \/ Signal \/ Finished \/ UNCHANGED vars
               \/ (\E k \in Kinds : ClientPut(k)) \/ (\E m \in Messages : ClientGet(m))
  PROVE  AloneInv' /\ DrainInv'
<1>1. CASE UNCHANGED <<kind, eq, req_count, pool, wk, ended>>
           /\ (main' = main \/ (main # "done" /\ main' # "done"))
           /\ (exit_now => exit_now')
           /\ (~UseThreads => main' = main \/ Busy = {})
  <2>1. UNCHANGED <<Busy, Dispatched>>
    BY <1>1 DEF Busy, Dispatched
  <2>2. DrainInv'
    BY <1>1, <2>1 DEF DrainInv
  <2>3. AloneInv'
    BY <1>1, <2>1 DEF AloneInv
  <2> QED BY <2>2, <2>3
<1>2. ~UseThreads /\ main # "inline" => Busy = {}
  BY DEF AloneInv
<1>3. CASE Signal \/ Finished \/ UNCHANGED vars \/ (\E m \in Messages : ClientGet(m)) \/ FreeQueue
           \/ UnlinkME \/ AttachMD \/ LoopHead
  BY <1>1, <1>2, <1>3 DEF Signal, Finished, ClientGet, FreeQueue, UnlinkME, AttachMD, LoopHead,
     vars, netVars, mainVars, replyVars, workVars
<1>4. CASE InlineDone
  <2>1. main' = "reset" /\ UNCHANGED <<netVars, req_count, workVars, exit_now>>
        /\ main = "inline" /\ wk[1].pc = "idle"
    BY <1>4 DEF InlineDone
  <2>2. ~UseThreads => Busy = {}
    BY <2>1 DEF AloneInv, Busy
  <2> QED BY <1>1, <2>1, <2>2 DEF netVars, workVars
<1>5. CASE PoolFini
  <2>1. /\ UNCHANGED <<kind, eq, req_count, wk, ended, exit_now>> /\ Busy = {}
        /\ pool # <<>> => exit_now
        /\ pool' = <<>> /\ main = "fini" /\ main' = "done"
    BY <1>5 DEF PoolFini, netVars, Busy
  <2>2. Busy' = {} /\ DOMAIN pool' = {}
    BY <2>1 DEF Busy
  <2>3. Dispatched' = ended /\ ended \subseteq Dispatched
    BY <2>1, <2>2 DEF Dispatched
  <2>4. pool = <<>> => Dispatched = ended
    BY <2>1 DEF Dispatched
  <2>5. ~UseThreads => pool = <<>>
    BY DEF AloneInv
  <2> QED BY <2>1, <2>2, <2>3, <2>4, <2>5 DEF AloneInv, DrainInv
<1>6. CASE FreeEq
  <2>1. /\ UNCHANGED <<kind, req_count, pool, wk, ended, exit_now>> /\ DOMAIN eq' = {}
        /\ main = "cleanup" /\ main' = "fini"
    BY <1>6 DEF FreeEq, workVars
  <2>2. UNCHANGED <<Busy, Dispatched>>
    BY <2>1 DEF Busy, Dispatched
  <2> QED BY <1>2, <2>1, <2>2 DEF AloneInv, DrainInv
<1>7. CASE eq # <<>> /\ eq' = Tail(eq) /\ PollAgain
  <2>1. UNCHANGED <<kind, req_count, pool, wk, ended, exit_now>> /\ main = "wait" /\ main' = "top"
    BY <1>7 DEF PollAgain, workVars
  <2>2. UNCHANGED <<Busy, Dispatched>>
    BY <2>1 DEF Busy, Dispatched
  <2>3. eq \in Seq(Event)
    BY DEF IInv, Types
  <2>4. \A i \in DOMAIN eq' : i \in Nat /\ i + 1 \in DOMAIN eq /\ eq'[i] = eq[i + 1]
    BY <1>7, <2>3
  <2>5. \A i, j \in DOMAIN eq' : i + 1 = j + 1 => i = j
    BY <2>4
  <2>6. DrainInv'
    BY <2>1, <2>2, <2>4, <2>5 DEF DrainInv
  <2> QED BY <1>2, <2>1, <2>2, <2>6 DEF AloneInv
<1>8. CASE UNCHANGED eq /\ PollAgain
  BY <1>1, <1>2, <1>8 DEF PollAgain, workVars
<1>9. CASE TakeRequest
  <2>a. PICK item : item = Head(eq).item
    OBVIOUS
  <2>1. /\ eq # <<>> /\ eq' = Tail(eq) /\ Head(eq).type = "end" /\ req_count' = req_count + 1
        /\ main = "wait" /\ main' # "done" /\ UNCHANGED <<kind, ended, exit_now>>
    BY <1>9 DEF TakeRequest
  <2>2. eq \in Seq(Event) /\ pool \in Seq(Item) /\ wk \in [Workers -> Worker]
    BY DEF IInv, Types
  <2>3. \A i \in DOMAIN eq' : i \in Nat \ {0} /\ i + 1 \in DOMAIN eq /\ eq'[i] = eq[i + 1]
    BY <2>1, <2>2
  <2>4. 1 \in DOMAIN eq /\ eq[1] = Head(eq)
    BY <2>1, <2>2
  <2>5. \A i \in DOMAIN eq' : eq'[i].type = "end" => eq'[i].item.msg # item.msg
    <3> SUFFICES ASSUME NEW i \in DOMAIN eq', eq'[i].type = "end", eq'[i].item.msg = item.msg
                 PROVE  FALSE
      OBVIOUS
    <3>1. i + 1 = 1
      BY <2>a, <2>1, <2>3, <2>4 DEF DrainInv
    <3> QED BY <2>3, <3>1
  <2>6. item.msg \notin Dispatched
    BY <2>a, <2>1, <2>4 DEF DrainInv
  <2>7. Dispatched' = Dispatched \cup {item.msg} /\ AloneInv'
    <3>1. CASE UseThreads
      <4>1. pool' = Append(pool, item) /\ UNCHANGED wk
        BY <1>9, <2>a, <3>1 DEF TakeRequest
      <4>2. DOMAIN pool' = DOMAIN pool \cup {Len(pool) + 1} /\ pool'[Len(pool) + 1] = item
            /\ \A i \in DOMAIN pool : pool'[i] = pool[i]
        BY <2>2, <4>1
      <4>3. {pool'[i].msg : i \in DOMAIN pool'} = {pool[i].msg : i \in DOMAIN pool} \cup {item.msg}
        BY <4>2
      <4>4. Busy' = Busy
        BY <4>1 DEF Busy
      <4> QED BY <2>1, <3>1, <4>1, <4>3, <4>4 DEF Dispatched, AloneInv
    <3>2. CASE ~UseThreads
      <4> DEFINE f == [IdleWorker EXCEPT !.pc = "decode", !.item = item]
      <4>1. wk' = [wk EXCEPT ![1] = f] /\ main' = "inline" /\ UNCHANGED pool
        BY <1>9, <2>a, <3>2 DEF TakeRequest
      <4>2. f.pc = "decode" /\ f.item = item
        BY DEF IdleWorker
      <4>3. Busy = {} /\ 1 \in Workers
        BY <1>2, <2>1, <3>2, ServerAssumption DEF Workers
      <4> HIDE DEF f
      <4>4. wk'[1] = f /\ \A w \in Workers : w # 1 => wk'[w] = wk[w]
        BY <2>2, <4>1, <4>3
      <4>5. Busy' = {1}
        BY <4>2, <4>3, <4>4 DEF Busy
      <4> QED BY <2>1, <4>1, <4>2, <4>3, <4>4, <4>5 DEF Dispatched, AloneInv
    <3> QED BY <3>1, <3>2
  <2>8. Cardinality(Dispatched') = Cardinality(Dispatched) + 1
    BY <2>6, <2>7, DispatchedFacts, FS_AddElement
  <2>9. Cardinality(Dispatched') = req_count'
    BY <2>1, <2>8 DEF DrainInv
  <2>10. \A i, j \in DOMAIN eq' :
           eq'[i].type = "end" /\ eq'[j].type = "end" /\ eq'[i].item.msg = eq'[j].item.msg => i = j
    <3> SUFFICES ASSUME NEW i \in DOMAIN eq', NEW j \in DOMAIN eq', eq'[i].type = "end",
                        eq'[j].type = "end", eq'[i].item.msg = eq'[j].item.msg
                 PROVE  i = j
      OBVIOUS
    <3>1. i + 1 = j + 1
      BY <2>3 DEF DrainInv
    <3> QED BY <2>3, <3>1
  <2> QED BY <2>1, <2>3, <2>5, <2>7, <2>9, <2>10 DEF DrainInv
<1>10. ASSUME NEW k \in Kinds, ClientPut(k) PROVE AloneInv' /\ DrainInv'
  <2>1. PICK item \in Item : Put(item)
    BY <1>10, ClientPutStep
  <2>2. UNCHANGED <<req_count, pool, wk, ended, main, exit_now>>
    BY <2>1 DEF Put, mainVars, workVars
  <2>3. UNCHANGED <<Busy, Dispatched>>
    BY <2>2 DEF Busy, Dispatched
  <2>4. Len(kind) \in Nat /\ Len(kind') = Len(kind) + 1 /\ item.msg = Len(kind) + 1
    BY <2>1 DEF Put, IInv, Types
  <2>5. \A m \in Dispatched : m <= Len(kind) /\ m \in Nat
    BY DispatchedFacts DEF Messages
  <2>6. \A i \in DOMAIN eq : eq[i].item.msg <= Len(kind) /\ eq[i].item.msg # item.msg
    BY <2>4 DEF IInv, CameInv, Came
  <2>7. item.msg \notin Dispatched
    BY <2>4, <2>5
  <2>8. \A e \in DOMAIN eq' :
          \/ e \in DOMAIN eq /\ eq'[e] = eq[e]
          \/ eq'[e].item = item /\ (eq'[e].type = "end" => e = Len(eq'))
    BY <2>1 DEF Put
  <2>9. \A m \in ended : m <= Len(kind')
    BY <2>4, <2>5 DEF Dispatched
  <2>10. \A e \in DOMAIN eq' : eq'[e].type = "end" => eq'[e].item.msg \notin Dispatched
    BY <2>7, <2>8 DEF DrainInv
  <2>11. \A e, d \in DOMAIN eq' :
           eq'[e].type = "end" /\ eq'[d].type = "end" /\ eq'[e].item.msg = eq'[d].item.msg => e = d
    BY <2>6, <2>8 DEF DrainInv
  <2> QED BY <2>2, <2>3, <2>9, <2>10, <2>11 DEF AloneInv, DrainInv
<1> QED BY <1>3, <1>4, <1>5, <1>6, <1>7, <1>8, <1>9, <1>10 DEF MainStep, PollAgain

LEMMA DrainInvariant == Spec => [](IInv /\ AloneInv /\ DrainInv)
<1>1. Init => AloneInv /\ DrainInv
  <2> SUFFICES ASSUME Init PROVE AloneInv /\ DrainInv
    OBVIOUS
  <2>1. Busy = {} /\ DOMAIN eq = {} /\ DOMAIN pool = {} /\ ended = {} /\ req_count = 0
        /\ pool = <<>> /\ main # "done"
    BY DEF Init, Busy, IdleWorker
  <2>2. Dispatched = {}
    BY <2>1 DEF Dispatched
  <2> QED BY <2>1, <2>2, FS_EmptySet DEF AloneInv, DrainInv
<1>2. IInv /\ AloneInv /\ DrainInv /\ [Next]_vars => AloneInv' /\ DrainInv'
  BY WorkDrain, OtherDrain DEF Next
<1> QED BY <1>1, <1>2, InitInv, NextInv, PTL DEF Spec

(***************************************************************************)
(* When transfers are never slower than MIN_TIMEOUT, send_result frees a   *)
(* long result only after the client fetched it, unless the service was    *)
(* told to exit, with a pool or without.                                   *)
(***************************************************************************)
THEOREM ResultsOutliveFetch ==
  ASSUME ~NetTimeouts
  PROVE  Spec => []ResultOutlivesFetch
<1>1. Init => ResultOutlivesFetch
  BY DEF Init, ResultOutlivesFetch
<1>2. ResultOutlivesFetch /\ [Next]_vars => ResultOutlivesFetch'
  <2> SUFFICES ASSUME ResultOutlivesFetch, [Next]_vars PROVE ResultOutlivesFetch'
    OBVIOUS
  <2>1. UNCHANGED stale \/ exit_now
    BY DEF Next, MainStep, WorkerStep, LoopHead, PollAgain, TakeRequest, InlineDone, UnlinkME,
       AttachMD, FreeQueue, FreeEq, PoolFini, StartRequest, MemoryExceeded, DecodeHeader,
       DecodeGarbage, DecodeArgs, FetchArgs, RunOp, SendResult, SendFails, AwaitFetch, Signal,
       ClientPut, ClientGet, Finished, vars, replyVars
  <2>2. exit_now => exit_now'
    BY DEF Next, MainStep, WorkerStep, LoopHead, PollAgain, TakeRequest, InlineDone, UnlinkME,
       AttachMD, FreeQueue, FreeEq, PoolFini, StartRequest, MemoryExceeded, DecodeHeader,
       DecodeGarbage, DecodeArgs, FetchArgs, RunOp, SendResult, SendFails, AwaitFetch, Signal,
       ClientPut, ClientGet, Finished, vars
  <2> QED BY <2>1, <2>2 DEF ResultOutlivesFetch
<1> QED BY <1>1, <1>2, PTL DEF Spec
-----------------------------------------------------------------------------
(* A service without a pool works on what its buffers still hold.          *)

\* Requests that are in the buffer where they were put, which is posted or used up.
Held == {item \in Item : /\ buf[item.q][item.s] = item.msg
                         /\ item.s <= ReqsPerQueue - md[item.q]}

HeldInv ==
  /\ \A i \in DOMAIN eq : eq[i].type = "end" => eq[i].item \in Held
  /\ \A w \in Busy :
       /\ wk[w].item \in Held
       /\ wk[w].pc # "decode" => wk[w].hdr = wk[w].item.msg
       /\ wk[w].pc \notin {"decode", "args"} => wk[w].args \in {wk[w].item.msg, None}
  /\ AnswersOwnRequest
  /\ ~readFreed

LEMMA WorkHeld ==
  ASSUME ~UseThreads, IInv, AloneInv, HeldInv, NEW w \in Workers, WorkerStep(w)
  PROVE  HeldInv'
<1> DEFINE it == wk[w].item
<1>1. w \in Busy /\ freed = {} /\ ~DecodeGarbage(w) /\ ~StartRequest(w)
  <2>1. ~StartRequest(w)
    BY DEF StartRequest
  <2>2. w \in Busy
    BY <2>1 DEF WorkerStep, MemoryExceeded, DecodeHeader, DecodeGarbage, DecodeArgs,
       FetchArgs, RunOp, SendResult, SendFails, AwaitFetch, At, Busy
  <2>3. freed = {}
    BY <2>2 DEF AloneInv, IInv, PhaseInv
  <2> QED BY <2>1, <2>2, <2>3 DEF DecodeGarbage
<1>2. UNCHANGED netVars /\ ~readFreed'
  <2>1. UNCHANGED netVars
    BY <1>1 DEF WorkerStep, MemoryExceeded, DecodeHeader, DecodeArgs,
       FetchArgs, RunOp, SendResult, SendFails, AwaitFetch
  <2>2. CASE DecodeHeader(w) \/ DecodeArgs(w)
    <3>1. readFreed' = (readFreed \/ it.q \in freed)
      BY <2>2 DEF DecodeHeader, DecodeArgs
    <3> QED BY <1>1, <2>1, <3>1 DEF HeldInv
  <2>3. CASE UNCHANGED readFreed
    BY <2>1, <2>3 DEF HeldInv
  <2> QED BY <1>1, <2>2, <2>3 DEF WorkerStep, MemoryExceeded, FetchArgs, RunOp, SendResult,
               SendFails, AwaitFetch
<1>3. UNCHANGED <<eq, Held>>
  BY <1>2 DEF netVars, Held
<1>4. /\ wk[w] \in Worker /\ it \in Held /\ it \in Item /\ buf[it.q][it.s] = it.msg
      /\ wk[w].pc # "decode" => wk[w].hdr = it.msg
      /\ wk[w].pc \notin {"decode", "args"} => wk[w].args \in {it.msg, None}
  BY <1>1 DEF HeldInv, Held, IInv, Types
<1>5. AnswersOwnRequest'
  <2>1. CASE RunOp(w)
    <3>1. ran' = ran \cup {[msg |-> it.msg, hdr |-> wk[w].hdr, args |-> wk[w].args]}
          /\ wk[w].pc = "op"
      BY <2>1 DEF RunOp, At
    <3> QED BY <1>4, <3>1 DEF HeldInv, AnswersOwnRequest
  <2>2. CASE UNCHANGED ran
    BY <2>2 DEF HeldInv, AnswersOwnRequest
  <2> QED BY <1>1, <2>1, <2>2 DEF WorkerStep, MemoryExceeded, DecodeHeader, DecodeArgs,
               FetchArgs, SendResult, SendFails, AwaitFetch
<1> DEFINE Fine(f) == /\ f.item \in Held
                      /\ f.pc # "decode" => f.hdr = f.item.msg
                      /\ f.pc \notin {"decode", "args"} => f.args \in {f.item.msg, None}
<1>6. wk'[w].pc = "idle" \/ Fine(wk'[w])
  <2>1. wk \in [Workers -> Worker]
    BY DEF IInv, Types
  <2>2. CASE Return(w)
    BY <2>1, <2>2 DEF Return, Set, IdleWorker
  <2>3. CASE DecodeHeader(w) /\ wk' = [wk EXCEPT ![w] = [wk[w] EXCEPT !.pc = "args", !.hdr = buf[it.q][it.s]]]
    BY <1>4, <2>1, <2>3 DEF Worker
  <2>4. CASE DecodeArgs(w) /\ wk' = [wk EXCEPT ![w] = [wk[w] EXCEPT !.pc = "op", !.args = buf[it.q][it.s]]]
    BY <1>4, <2>1, <2>4 DEF Worker, DecodeArgs, At
  <2>5. CASE FetchArgs(w)
    <3>1. PICK a \in {it.msg, None} : wk' = [wk EXCEPT ![w] = [wk[w] EXCEPT !.pc = "op", !.args = a]]
      BY <1>4, <2>5 DEF FetchArgs, Set, At
    <3>2. wk[w].pc = "args"
      BY <2>5 DEF FetchArgs, At
    <3> QED BY <1>4, <2>1, <3>1, <3>2 DEF Worker
  <2>6. CASE RunOp(w)
    BY <1>4, <2>1, <2>6 DEF Worker, RunOp, At, Set
  <2>7. CASE SendResult(w) /\ wk' = [wk EXCEPT ![w] = [wk[w] EXCEPT !.pc = "await"]]
    BY <1>4, <2>1, <2>7 DEF Worker, SendResult, At
  <2> QED BY <1>1, <2>2, <2>3, <2>4, <2>5, <2>6, <2>7 DEF WorkerStep, MemoryExceeded, DecodeHeader,
               DecodeArgs, SendResult, SendFails, AwaitFetch, Set
<1>7. \A u \in Workers : u # w => wk'[u] = wk[u]
  <2>1. \E f : Set(w, f)
    <3>1. CASE Return(w)
      BY <3>1 DEF Return
    <3>2. CASE DecodeHeader(w) \/ DecodeArgs(w)
      BY <3>1, <3>2 DEF DecodeHeader, DecodeArgs
    <3>3. CASE FetchArgs(w)
      BY <3>3 DEF FetchArgs
    <3>4. CASE RunOp(w)
      BY <3>4 DEF RunOp
    <3>5. CASE SendResult(w)
      BY <3>1, <3>5 DEF SendResult
    <3> QED BY <1>1, <3>1, <3>2, <3>3, <3>4, <3>5 DEF WorkerStep, MemoryExceeded, SendFails, AwaitFetch
  <2>2. wk \in [Workers -> Worker]
    BY DEF IInv, Types
  <2> QED BY <2>1, <2>2 DEF Set
<1>8. \A u \in Busy' : Fine(wk'[u])
  BY <1>6, <1>7 DEF Busy, HeldInv
<1> QED BY <1>2, <1>3, <1>5, <1>8 DEF HeldInv

LEMMA OtherHeld ==
  ASSUME ~UseThreads, IInv, AloneInv, HeldInv,
         MainStep \/ Signal \/ Finished \/ UNCHANGED vars
         \/ (\E k \in Kinds : ClientPut(k)) \/ (\E m \in Messages : ClientGet(m))
  PROVE  HeldInv'
<1>1. UNCHANGED <<ran, readFreed>>
  BY DEF MainStep, LoopHead, PollAgain, TakeRequest, InlineDone, UnlinkME, AttachMD, FreeQueue,
     FreeEq, PoolFini, Signal, ClientPut, ClientGet, Finished, vars, workVars
<1>2. AnswersOwnRequest' /\ ~readFreed'
  BY <1>1 DEF HeldInv, AnswersOwnRequest
<1>3. CASE UNCHANGED <<buf, md, eq, wk>>
  <2>1. UNCHANGED <<Held, Busy>>
    BY <1>3 DEF Held, Busy
  <2> QED BY <1>2, <1>3, <2>1 DEF HeldInv
<1>4. CASE LoopHead \/ InlineDone \/ UnlinkME \/ FreeQueue \/ PoolFini \/ Signal \/ Finished
           \/ UNCHANGED vars \/ (\E m \in Messages : ClientGet(m))
  BY <1>3, <1>4 DEF LoopHead, InlineDone, UnlinkME, FreeQueue, PoolFini, Signal, Finished,
     ClientGet, vars, netVars, workVars
<1>5. CASE FreeEq
  <2>1. UNCHANGED <<buf, md, wk>> /\ DOMAIN eq' = {}
    BY <1>5 DEF FreeEq, workVars
  <2>2. UNCHANGED <<Held, Busy>>
    BY <2>1 DEF Held, Busy
  <2> QED BY <1>2, <2>1, <2>2 DEF HeldInv
<1>6. CASE PollAgain \/ TakeRequest
  <2>1. UNCHANGED <<buf, md>> /\ main = "wait"
        /\ (UNCHANGED eq \/ (eq # <<>> /\ eq' = Tail(eq)))
    BY <1>6 DEF PollAgain, TakeRequest
  <2>2. Busy = {} /\ UNCHANGED Held
    BY <2>1 DEF AloneInv, Held
  <2>3. eq \in Seq(Event) /\ wk \in [Workers -> Worker]
    BY DEF IInv, Types
  <2>4. \A i \in DOMAIN eq' : \E j \in DOMAIN eq : eq'[i] = eq[j]
    <3>1. CASE UNCHANGED eq
      BY <3>1
    <3>2. CASE eq # <<>> /\ eq' = Tail(eq)
      <4>1. \A i \in DOMAIN eq' : i + 1 \in DOMAIN eq /\ eq'[i] = eq[i + 1]
        BY <2>3, <3>2
      <4> QED BY <4>1
    <3> QED BY <2>1, <3>1, <3>2
  <2>5. \A w \in Busy' : wk'[w].item \in Held /\ wk'[w].pc = "decode"
    <3>1. CASE PollAgain
      <4>1. Busy' = Busy
        BY <3>1 DEF PollAgain, workVars, Busy
      <4> QED BY <2>2, <4>1
    <3>2. CASE TakeRequest
      <4>a. PICK item : item = Head(eq).item
        OBVIOUS
      <4> DEFINE f == [IdleWorker EXCEPT !.pc = "decode", !.item = item]
      <4>1. wk' = [wk EXCEPT ![1] = f] /\ eq # <<>> /\ Head(eq).type = "end"
        BY <3>2, <4>a DEF TakeRequest
      <4>2. 1 \in DOMAIN eq /\ eq[1] = Head(eq)
        BY <2>3, <4>1
      <4>3. f.pc = "decode" /\ f.item \in Held
        BY <4>a, <4>1, <4>2 DEF IdleWorker, HeldInv
      <4> HIDE DEF f
      <4>4. \A w \in Workers : wk'[w] = wk[w] \/ wk'[w] = f
        BY <2>3, <4>1
      <4> QED BY <2>2, <4>3, <4>4 DEF Busy
    <3> QED BY <1>6, <3>1, <3>2
  <2>6. \A i \in DOMAIN eq' : eq'[i].type = "end" => eq'[i].item \in Held
    BY <2>4 DEF HeldInv
  <2> QED BY <1>2, <2>2, <2>5, <2>6 DEF HeldInv
<1>7. CASE AttachMD
  <2>1. /\ UNCHANGED <<buf, eq, wk>> /\ main = "attach" /\ md' = [md EXCEPT ![index] = ReqsPerQueue]
        /\ freed = {} /\ queue_count[index] = ReqsPerQueue /\ index \in Queues
    BY <1>7 DEF AttachMD, workVars, IInv, PhaseInv, Types
  <2>2. Busy = {} /\ Busy' = {}
    BY <2>1 DEF AloneInv, Busy
  <2>3. /\ eq \in Seq(Event) /\ lost \subseteq Item /\ IsFiniteSet(lost) /\ ReqsPerQueue \in Nat
        /\ md \in [Queues -> 0 .. ReqsPerQueue]
    BY ServerAssumption DEF IInv, Types
  <2>4. Pending(index) = 0
    <3>1. ReqsPerQueue - md[index] = ReqsPerQueue + Pending(index) + Lost(index)
      BY <2>1 DEF IInv, CountInv
    <3>2. Pending(index) \in Nat /\ Lost(index) \in Nat /\ md[index] \in Nat
      BY <2>1, <2>3, PendingIs, LostIs, EndsFinite, LostCard
    <3> QED BY <2>3, <3>1, <3>2
  <2>5. Ends(eq, index) = {}
    BY <2>3, <2>4, PendingIs, EndsFinite, FS_EmptySet
  <2>6. \A item \in Held : item.q # index => item \in Held'
    BY <2>1, <2>3 DEF Held, Item
  <2>7. \A i \in DOMAIN eq : eq[i].type = "end" => eq[i].item.q # index
    BY <2>5 DEF Ends, IsEnd
  <2>8. \A i \in DOMAIN eq' : eq'[i].type = "end" => eq'[i].item \in Held'
    BY <2>1, <2>6, <2>7 DEF HeldInv
  <2> QED BY <1>2, <2>2, <2>8 DEF HeldInv
<1>8. ASSUME NEW k \in Kinds, ClientPut(k) PROVE HeldInv'
  <2>1. PICK item \in Item : Put(item)
    BY <1>8, ClientPutStep
  <2>2. /\ md[item.q] \in 1 .. ReqsPerQueue /\ item.s = ReqsPerQueue - md[item.q] + 1
        /\ buf' = [buf EXCEPT ![item.q][item.s] = item.msg]
        /\ md' = [md EXCEPT ![item.q] = @ - 1] /\ UNCHANGED wk
    BY <2>1 DEF Put, workVars
  <2>3. /\ buf \in [Queues -> [Slots -> Messages \cup {None}]] /\ ReqsPerQueue \in Nat
        /\ md \in [Queues -> 0 .. ReqsPerQueue]
    BY ServerAssumption DEF IInv, Types
  <2>4. item.q \in Queues /\ item.s \in Slots
    BY DEF Item
  <2>5. item \in Held'
    <3>1. md'[item.q] = md[item.q] - 1 /\ buf'[item.q][item.s] = item.msg
      BY <2>2, <2>3, <2>4
    <3> QED BY <2>2, <2>3, <2>4, <3>1 DEF Held
  <2>6. ASSUME NEW x \in Held PROVE x \in Held'
    <3>1. x \in Item /\ x.q \in Queues /\ x.s \in Slots /\ buf[x.q][x.s] = x.msg
          /\ x.s <= ReqsPerQueue - md[x.q] /\ x.s \in Int
      BY <2>6 DEF Held, Item, Slots
    <3>2. CASE x.q = item.q
      <4>1. x.s # item.s /\ x.s <= ReqsPerQueue - (md[x.q] - 1)
        BY <2>2, <2>3, <2>4, <3>1, <3>2
      <4>2. buf'[x.q][x.s] = buf[x.q][x.s] /\ md'[x.q] = md[x.q] - 1
        BY <2>2, <2>3, <2>4, <3>1, <3>2, <4>1
      <4> QED BY <3>1, <4>1, <4>2 DEF Held
    <3>3. CASE x.q # item.q
      <4>1. buf'[x.q] = buf[x.q] /\ md'[x.q] = md[x.q]
        BY <2>2, <2>3, <3>1, <3>3
      <4> QED BY <3>1, <4>1 DEF Held
    <3> QED BY <3>2, <3>3
  <2>7. \A e \in DOMAIN eq' : eq'[e].type = "end" => eq'[e].item \in Held'
    BY <2>1, <2>5, <2>6 DEF Put, HeldInv
  <2>8. Busy' = Busy
    BY <2>2 DEF Busy
  <2> QED BY <1>2, <2>2, <2>6, <2>7, <2>8 DEF HeldInv
<1> QED BY <1>4, <1>5, <1>6, <1>7, <1>8 DEF MainStep

LEMMA HeldInvariant ==
  ASSUME ~UseThreads
  PROVE  Spec => []HeldInv
<1>1. Init => HeldInv
  <2> SUFFICES ASSUME Init PROVE HeldInv
    OBVIOUS
  <2>1. Busy = {} /\ DOMAIN eq = {} /\ ran = {} /\ ~readFreed
    BY DEF Init, Busy, IdleWorker
  <2> QED BY <2>1 DEF HeldInv, AnswersOwnRequest
<1>2. IInv /\ AloneInv /\ HeldInv /\ [Next]_vars => HeldInv'
  BY WorkHeld, OtherHeld DEF Next
<1> QED BY <1>1, <1>2, DrainInvariant, PTL DEF Spec

(***************************************************************************)
(* A service that processes its requests in the main thread answers each   *)
(* one from what its client put: the buffer is neither overwritten nor     *)
(* freed while process_request decodes it.                                 *)
(***************************************************************************)
THEOREM DecodesOwn ==
  ASSUME ~UseThreads
  PROVE  Spec => []DecodesWhatCame
<1>1. HeldInv => DecodesWhatCame
  BY DEF HeldInv, DecodesWhatCame, DecodesLiveBuffer
<1> QED BY <1>1, HeldInvariant, PTL
-----------------------------------------------------------------------------
(* ... and serves to the end whatever it takes.                            *)

\* The operation ran on what its own client sent.
RanOwn(m) == [msg |-> m, hdr |-> m, args |-> m] \in ran

\* How far the request in work has come, as long as the service is not told to exit.
WorkDone(w) ==
  LET m == wk[w].item.msg
  IN  /\ m \notin ended
      /\ wk[w].pc \in {"decode", "args", "op"} => \A r \in ran : r.msg # m
      /\ exit_now \/ wk[w].pc # "op" \/ wk[w].args = m
      /\ exit_now \/ wk[w].pc \notin {"send", "await"} \/ RanOwn(m)
      /\ wk[w].pc = "await" => m \in delivered

ServedInv ==
  /\ \A r \in ran : r.msg \in Dispatched
  /\ \A w \in Busy : WorkDone(w)
  /\ exit_now \/ \A m \in ended : kind[m] = "unknown" \/ Served(m) \/ GivenUp(m)

\* What a worker's step does to the request it works on.
LEMMA WorkServed ==
  ASSUME ~UseThreads, ~NetTimeouts, IInv, AloneInv, HeldInv, ServedInv,
         NEW w \in Workers, WorkerStep(w)
  PROVE  ServedInv'
<1> DEFINE m == wk[w].item.msg
<1>1. /\ w \in Busy /\ UNCHANGED kind /\ Dispatched' = Dispatched /\ (exit_now => exit_now')
      /\ \/ wk'[w].pc # "idle" /\ wk'[w].item = wk[w].item /\ UNCHANGED ended
         \/ wk'[w].pc = "idle" /\ ended' = ended \cup {m} /\ UNCHANGED exit_now
      /\ \A u \in Busy' : u = w
  <2>1. ~StartRequest(w)
    BY DEF StartRequest
  <2>2. \A u \in Busy : u = w
    BY <2>1, WorkShape DEF AloneInv
  <2> QED BY <2>1, <2>2, WorkShape
<1>2. /\ wk \in [Workers -> Worker] /\ wk[w] \in Worker /\ WorkDone(w) /\ freed = {}
      /\ wk[w].pc # "decode" => wk[w].hdr = m
      /\ buf[wk[w].item.q][wk[w].item.s] = m
  BY <1>1 DEF IInv, Types, ServedInv, HeldInv, Held, AloneInv, PhaseInv
<1>3. CASE MemoryExceeded(w)
  <2>1. /\ UNCHANGED <<ran, delivered, fetched, exit_now>> /\ overMemory' /\ wk[w].pc = "decode"
        /\ ended' = ended \cup {m} /\ wk'[w].pc = "idle"
    BY <1>2, <1>3 DEF MemoryExceeded, Return, Set, At, IdleWorker, replyVars
  <2> QED BY <1>1, <1>2, <2>1 DEF ServedInv, WorkDone, Served, GivenUp, Busy
<1>4. CASE DecodeHeader(w)
  <2>1. /\ UNCHANGED <<ran, delivered, fetched, exit_now, overMemory>> /\ wk[w].pc = "decode"
        /\ \/ kind[m] = "unknown" /\ ended' = ended \cup {m} /\ wk'[w].pc = "idle"
           \/ UNCHANGED ended /\ wk'[w].pc = "args" /\ wk'[w].item = wk[w].item
    <3>1. UNCHANGED <<ran, delivered, fetched, exit_now, overMemory>> /\ wk[w].pc = "decode"
      BY <1>4 DEF DecodeHeader, At, replyVars
    <3>2. \/ kind[m] = "unknown" /\ Return(w)
          \/ /\ wk' = [wk EXCEPT ![w] = [wk[w] EXCEPT !.pc = "args", !.hdr = m]]
             /\ UNCHANGED ended
      BY <1>2, <1>4 DEF DecodeHeader, Set
    <3>3. CASE kind[m] = "unknown" /\ Return(w)
      BY <1>2, <3>1, <3>3 DEF Return, Set, IdleWorker, Worker
    <3>4. CASE wk' = [wk EXCEPT ![w] = [wk[w] EXCEPT !.pc = "args", !.hdr = m]] /\ UNCHANGED ended
      BY <1>2, <3>1, <3>4 DEF Worker
    <3> QED BY <3>1, <3>2, <3>3, <3>4
  <2> QED BY <1>1, <1>2, <2>1 DEF ServedInv, WorkDone, RanOwn, Served, GivenUp, Busy
<1>5. CASE DecodeArgs(w) \/ FetchArgs(w)
  <2>1. PICK a : /\ wk' = [wk EXCEPT ![w] = [wk[w] EXCEPT !.pc = "op", !.args = a]]
                 /\ UNCHANGED ended /\ (exit_now \/ a = m)
    BY <1>2, <1>5 DEF DecodeArgs, FetchArgs, Return, Set, At
  <2>2. UNCHANGED <<ran, delivered, fetched, exit_now, overMemory>> /\ wk[w].pc = "args"
    BY <1>5 DEF DecodeArgs, FetchArgs, At, replyVars
  <2>3. wk'[w].pc = "op" /\ wk'[w].item = wk[w].item /\ wk'[w].args = a
    BY <1>2, <2>1 DEF Worker
  <2> QED BY <1>1, <1>2, <2>1, <2>2, <2>3 DEF ServedInv, WorkDone, RanOwn, Served, GivenUp, Busy
<1>6. CASE RunOp(w)
  <2>1. /\ ran' = ran \cup {[msg |-> m, hdr |-> m, args |-> wk[w].args]} /\ wk[w].pc = "op"
        /\ UNCHANGED <<delivered, fetched, overMemory, ended>>
        /\ wk'[w].pc = "send" /\ wk'[w].item = wk[w].item
    BY <1>2, <1>6 DEF RunOp, Set, At, Worker, replyVars
  <2>2. exit_now \/ RanOwn(m)'
    BY <1>2, <2>1 DEF WorkDone, RanOwn
  <2>3. \A r \in ran' : r.msg \in Dispatched'
    BY <1>1, <2>1 DEF ServedInv, Dispatched
  <2>4. \A n \in ended' : (Served(n) => Served(n)') /\ (GivenUp(n) => GivenUp(n)')
    BY <1>1, <1>2, <2>1 DEF WorkDone, Served, GivenUp
  <2> QED BY <1>1, <1>2, <2>1, <2>2, <2>3, <2>4 DEF ServedInv, WorkDone, RanOwn, Busy
<1>7. CASE SendResult(w) \/ SendFails(w) \/ AwaitFetch(w)
  <2>1. /\ UNCHANGED <<ran, overMemory, fetched, exit_now>> /\ delivered \subseteq delivered'
        /\ wk[w].pc \in {"send", "await"}
    BY <1>7 DEF SendResult, SendFails, AwaitFetch, At
  <2>2. \A n \in Messages : (Served(n) => Served(n)') /\ (GivenUp(n) => GivenUp(n)')
    BY <1>1, <2>1 DEF Served, GivenUp
  <2>3. /\ UNCHANGED ended => wk'[w].pc = "await" /\ m \in delivered'
        /\ ~UNCHANGED ended => exit_now \/ (m \in delivered' /\ (kind[m] = "longres" => m \in fetched))
    BY <1>2, <1>7 DEF SendResult, SendFails, AwaitFetch, Return, Set, At, Worker, IdleWorker, WorkDone
  <2>4. ended \subseteq Messages
    BY DEF IInv, Types
  <2> QED BY <1>1, <1>2, <2>1, <2>2, <2>3, <2>4 DEF ServedInv, WorkDone, RanOwn, Served, Busy
<1> QED BY <1>2, <1>3, <1>4, <1>5, <1>6, <1>7 DEF WorkerStep, StartRequest, DecodeGarbage

LEMMA OtherServed ==
  ASSUME ~UseThreads, IInv, AloneInv, DrainInv, ServedInv,
         MainStep \/ Signal \/ Finished \/ UNCHANGED vars
         \/ (\E k \in Kinds : ClientPut(k)) \/ (\E m \in Messages : ClientGet(m))
  PROVE  ServedInv'
<1>1. /\ UNCHANGED <<ran, ended, delivered, overMemory>> /\ fetched \subseteq fetched'
      /\ exit_now => exit_now'
  <2>1. CASE MainStep
    BY <2>1 DEF MainStep, LoopHead, PollAgain, TakeRequest, InlineDone, UnlinkME, AttachMD,
       FreeQueue, FreeEq, PoolFini, workVars, replyVars
  <2>2. CASE \E m \in Messages : ClientGet(m)
    BY <2>2 DEF ClientGet, workVars
  <2>3. CASE \E k \in Kinds : ClientPut(k)
    <3>1. UNCHANGED <<workVars, replyVars, exit_now>>
      BY <2>3 DEF ClientPut
    <3> QED BY <3>1 DEF workVars, replyVars
  <2>4. CASE Signal \/ Finished \/ UNCHANGED vars
    BY <2>4 DEF Signal, Finished, vars, workVars, replyVars
  <2> QED BY <2>1, <2>2, <2>3, <2>4
<1>2. \A m \in ended : kind'[m] = kind[m]
  <2>1. CASE UNCHANGED kind
    BY <2>1
  <2>2. CASE \E k \in Kinds : ClientPut(k)
    <3>1. PICK k : kind' = Append(kind, k)
      BY <2>2 DEF ClientPut
    <3>2. \A m \in ended : m \in 1 .. Len(kind)
      BY DEF IInv, Types, DrainInv, Messages
    <3> QED BY <3>1, <3>2 DEF IInv, Types
  <2> QED BY <2>1, <2>2 DEF MainStep, LoopHead, PollAgain, TakeRequest, InlineDone, UnlinkME,
             AttachMD, FreeQueue, FreeEq, PoolFini, Signal, ClientGet, Finished, vars, netVars
<1>3. exit_now' \/ \A m \in ended' : kind'[m] = "unknown" \/ Served(m)' \/ GivenUp(m)'
  BY <1>1, <1>2 DEF ServedInv, Served, GivenUp
<1>4. CASE TakeRequest
  <2>a. PICK item : item = Head(eq).item
    OBVIOUS
  <2> DEFINE f == [IdleWorker EXCEPT !.pc = "decode", !.item = item]
  <2>1. wk' = [wk EXCEPT ![1] = f] /\ eq # <<>> /\ Head(eq).type = "end" /\ main = "wait"
        /\ UNCHANGED pool
    BY <1>4, <2>a DEF TakeRequest
  <2>2. eq \in Seq(Event) /\ wk \in [Workers -> Worker] /\ 1 \in Workers
    BY ServerAssumption DEF IInv, Types, Workers
  <2>3. 1 \in DOMAIN eq /\ eq[1] = Head(eq)
    BY <2>1, <2>2
  <2>4. item.msg \notin Dispatched
    BY <2>a, <2>1, <2>3 DEF DrainInv
  <2>5. f.pc = "decode" /\ f.item = item
    BY DEF IdleWorker
  <2>6. Busy = {} /\ pool = <<>>
    BY <2>1 DEF AloneInv
  <2> HIDE DEF f
  <2>7. wk'[1] = f /\ Busy' = {1}
    BY <2>1, <2>2, <2>5, <2>6 DEF Busy
  <2>8. Dispatched \subseteq Dispatched'
    BY <1>1, <2>6 DEF Dispatched
  <2>9. WorkDone(1)'
    BY <1>1, <2>4, <2>5, <2>7 DEF WorkDone, ServedInv, Dispatched
  <2> QED BY <1>1, <1>3, <2>7, <2>8, <2>9 DEF ServedInv
<1>5. CASE ~TakeRequest
  <2>1. UNCHANGED <<wk, pool>>
    BY <1>5 DEF MainStep, LoopHead, PollAgain, InlineDone, UnlinkME, AttachMD, FreeQueue, FreeEq,
       PoolFini, AloneInv, Signal, ClientPut, ClientGet, Finished, vars, workVars
  <2>2. UNCHANGED <<Busy, Dispatched>>
    BY <1>1, <2>1 DEF Busy, Dispatched
  <2>3. \A w \in Busy : WorkDone(w)'
    BY <1>1, <2>1 DEF ServedInv, WorkDone, RanOwn
  <2> QED BY <1>1, <1>3, <2>2, <2>3 DEF ServedInv
<1> QED BY <1>4, <1>5

(***************************************************************************)
(* A service that processes its requests in the main thread, and whose     *)
(* transfers are never slower than MIN_TIMEOUT, ends no request early      *)
(* unless it is told to exit: when process_request returns the operation   *)
(* has run and the client has its result, and at a stop nothing that was   *)
(* taken is left.                                                          *)
(***************************************************************************)
THEOREM CutsNothingShort ==
  ASSUME ~UseThreads, ~NetTimeouts
  PROVE  Spec => []NothingCutShort
<1>1. Init => ServedInv
  BY DEF Init, ServedInv, Busy, IdleWorker
<1>2. IInv /\ AloneInv /\ DrainInv /\ HeldInv /\ ServedInv /\ [Next]_vars => ServedInv'
  BY WorkServed, OtherServed DEF Next
<1>3. AloneInv /\ DrainInv /\ ServedInv => NothingCutShort
  <2> SUFFICES ASSUME AloneInv, DrainInv, main \in {"cleanup", "fini", "done", "aborted"}
               PROVE  Cardinality(ended) = req_count
    BY DEF ServedInv, NothingCutShort
  <2>1. Busy = {} /\ DOMAIN pool = {}
    BY DEF AloneInv
  <2>2. Dispatched = ended
    BY <2>1 DEF Dispatched
  <2> QED BY <2>2 DEF DrainInv
<1> QED BY <1>1, <1>2, <1>3, DrainInvariant, HeldInvariant, PTL DEF Spec
-----------------------------------------------------------------------------
(* The pool, as the service uses it, is the work queue of WorkQueue.tla.   *)

Running == {wk[w].item.msg : w \in Busy}

\* The requests in the order in which they came: dispatched, then in the event queue.
OrderInv ==
  /\ Len(eq) <= 2 * Len(kind)
  /\ \A i \in DOMAIN eq : eq[i].type = "end" => eq[i].item.msg > req_count
  /\ \A i, j \in DOMAIN eq :
       i < j /\ eq[i].type = "end" /\ eq[j].type = "end" => eq[i].item.msg < eq[j].item.msg
  /\ main \notin {"fini", "done", "aborted"} =>
       \A m \in req_count + 1 .. Len(kind) :
         \E i \in DOMAIN eq : eq[i].type = "end" /\ eq[i].item.msg = m

\* A dispatched request is in one place, and those that wait are in order.
PlaceInv ==
  /\ \A i, j \in DOMAIN pool : i < j => pool[i].msg < pool[j].msg
  /\ \A i \in DOMAIN pool : pool[i].msg \notin ended \cup Running
  /\ \A w, u \in Busy : wk[w].item.msg = wk[u].item.msg => w = u
  /\ \A w \in Busy : wk[w].item.msg \notin ended
  /\ Dispatched \subseteq 1 .. req_count
  /\ main # "done" => Dispatched = 1 .. req_count

QueueInv == IInv /\ AloneInv /\ DrainInv /\ OrderInv /\ PlaceInv

LEMMA WorkPlace ==
  ASSUME QueueInv, NEW w \in Workers, WorkerStep(w)
  PROVE  OrderInv' /\ PlaceInv'
<1>1. CASE StartRequest(w)
  <2>1. /\ w \notin Busy /\ pool # <<>> /\ pool' = Tail(pool) /\ main # "done"
        /\ UNCHANGED <<kind, eq, req_count, ended, main>> /\ Busy' = Busy \cup {w}
        /\ wk'[w].item = Head(pool) /\ \A u \in Workers : u # w => wk'[u] = wk[u]
        /\ Dispatched' = Dispatched
    BY <1>1, StartShape DEF QueueInv
  <2>2. pool \in Seq(Item)
    BY DEF QueueInv, IInv, Types
  <2>3. \A i \in DOMAIN pool' : i \in Nat \ {0} /\ i + 1 \in DOMAIN pool /\ pool'[i] = pool[i + 1]
    BY <2>1, <2>2
  <2>4. 1 \in DOMAIN pool /\ pool[1] = Head(pool)
    BY <2>1, <2>2
  <2>5. Running' = Running \cup {Head(pool).msg}
    BY <2>1 DEF Running, Busy
  <2>6. \A i, j \in DOMAIN pool' : i < j => pool'[i].msg < pool'[j].msg
    <3> SUFFICES ASSUME NEW i \in DOMAIN pool', NEW j \in DOMAIN pool', i < j
                 PROVE  pool'[i].msg < pool'[j].msg
      OBVIOUS
    <3>1. i + 1 < j + 1
      BY <2>3
    <3> QED BY <2>3, <3>1 DEF QueueInv, PlaceInv
  <2>7. \A i \in DOMAIN pool' : pool'[i].msg \notin ended' \cup Running'
    <3> SUFFICES ASSUME NEW i \in DOMAIN pool' PROVE pool'[i].msg \notin ended' \cup Running'
      OBVIOUS
    <3>1. 1 < i + 1
      BY <2>3
    <3>2. Head(pool).msg < pool'[i].msg
      BY <2>3, <2>4, <3>1 DEF QueueInv, PlaceInv
    <3>3. Head(pool).msg # pool'[i].msg
      <4>1. \A j \in DOMAIN pool : pool[j].msg \in Nat
        <5>1. \A j \in DOMAIN pool : pool[j] \in Item
          BY <2>2
        <5>2. \A x \in Item : x.msg \in Nat
          BY DEF Item, Messages
        <5> QED BY <5>1, <5>2
      <4> QED BY <2>3, <2>4, <3>2, <4>1
    <3> QED BY <2>1, <2>3, <2>5, <3>3 DEF QueueInv, PlaceInv
  <2>8. \A v, u \in Busy' : wk'[v].item.msg = wk'[u].item.msg => v = u
    BY <2>1, <2>4 DEF QueueInv, PlaceInv, Running, Busy
  <2>9. \A v \in Busy' : wk'[v].item.msg \notin ended'
    BY <2>1, <2>4 DEF QueueInv, PlaceInv, Busy
  <2>10. PlaceInv'
    BY <2>1, <2>6, <2>7, <2>8, <2>9 DEF QueueInv, PlaceInv
  <2> QED BY <2>1, <2>10 DEF QueueInv, OrderInv
<1>2. CASE ~StartRequest(w)
  <2>1. /\ w \in Busy /\ UNCHANGED <<kind, eq, req_count, pool>>
        /\ \/ wk'[w].pc # "idle" /\ wk'[w].item = wk[w].item /\ UNCHANGED ended
           \/ wk'[w].pc = "idle" /\ ended' = ended \cup {wk[w].item.msg}
        /\ \A u \in Workers : u # w => wk'[u] = wk[u]
        /\ Busy' \subseteq Busy /\ main' \in {main, "aborted"}
        /\ Dispatched' = Dispatched
    BY <1>2, WorkShape DEF QueueInv
  <2>2. main # "done" /\ main' # "done"
    BY <2>1 DEF QueueInv, DrainInv
  <2>3. \A u \in Busy' : u \in Workers /\ wk'[u].item = wk[u].item
        /\ (ended' # ended => u # w)
    BY <2>1 DEF Busy
  <2>4. ended' \cup Running' \subseteq ended \cup Running
    BY <2>1, <2>3 DEF Running
  <2>5. PlaceInv'
    BY <2>1, <2>2, <2>3, <2>4 DEF QueueInv, PlaceInv
  <2> QED BY <2>1, <2>2, <2>5 DEF QueueInv, OrderInv
<1> QED BY <1>1, <1>2

\* The next request to be taken off the event queue is the oldest one not dispatched.
LEMMA TakeShape ==
  ASSUME QueueInv, UseThreads, TakeRequest
  PROVE  \E item \in Item :
           /\ item.msg = req_count + 1 /\ req_count' = req_count + 1
           /\ pool' = Append(pool, item) /\ eq # <<>> /\ eq' = Tail(eq)
           /\ main = "wait" /\ main' = "reset" /\ UNCHANGED <<kind, wk, ended, exit_now>>
<1>a. PICK item : item = Head(eq).item
  OBVIOUS
<1>1. /\ eq # <<>> /\ eq' = Tail(eq) /\ Head(eq).type = "end" /\ req_count' = req_count + 1
      /\ main = "wait" /\ main' = "reset" /\ UNCHANGED <<kind, wk, ended, exit_now>>
      /\ pool' = Append(pool, item)
  BY <1>a DEF TakeRequest
<1>2. eq \in Seq(Event) /\ req_count \in Nat /\ Len(kind) \in Nat
  BY DEF QueueInv, IInv, Types
<1>3. 1 \in DOMAIN eq /\ eq[1] = Head(eq) /\ \A i \in DOMAIN eq : i \in Nat \ {0}
  BY <1>1, <1>2
<1>4. item \in Item /\ item.msg \in Nat /\ item.msg <= Len(kind) /\ item.msg > req_count
  BY <1>a, <1>1, <1>3 DEF QueueInv, IInv, CameInv, Came, OrderInv, Item, Messages
<1>5. PICK i \in DOMAIN eq : eq[i].type = "end" /\ eq[i].item.msg = req_count + 1
  <2>1. req_count + 1 \in req_count + 1 .. Len(kind)
    BY <1>2, <1>4
  <2> QED BY <1>1, <2>1 DEF QueueInv, OrderInv
<1>6. i = 1
  <2>1. ASSUME 1 < i PROVE FALSE
    <3>1. item.msg < req_count + 1
      BY <1>a, <1>1, <1>3, <1>5, <2>1 DEF QueueInv, OrderInv
    <3> QED BY <1>2, <1>4, <3>1
  <2> QED BY <1>3, <2>1
<1> QED BY <1>a, <1>1, <1>3, <1>4, <1>5, <1>6

LEMMA OtherPlace ==
  ASSUME QueueInv, UseThreads, EqSlots >= 2 * MaxMsgs,
         MainStep \/ Signal \/ Finished \/ UNCHANGED vars
         \/ (\E k \in Kinds : ClientPut(k)) \/ (\E m \in Messages : ClientGet(m))
  PROVE  OrderInv' /\ PlaceInv'
<1>1. CASE UNCHANGED <<kind, eq, req_count, pool, wk, ended>>
           /\ (main' = main \/ (main \notin {"fini", "done", "aborted"} /\ main' # "done"))
  <2>1. UNCHANGED <<Busy, Running, Dispatched>>
    BY <1>1 DEF Busy, Running, Dispatched
  <2> QED BY <1>1, <2>1 DEF QueueInv, OrderInv, PlaceInv
<1>2. CASE Signal \/ Finished \/ UNCHANGED vars \/ (\E m \in Messages : ClientGet(m)) \/ FreeQueue
           \/ UnlinkME \/ AttachMD \/ LoopHead \/ InlineDone \/ (PollAgain /\ UNCHANGED eq)
  BY <1>1, <1>2 DEF Signal, Finished, ClientGet, FreeQueue, UnlinkME, AttachMD, LoopHead,
     InlineDone, PollAgain, vars, netVars, mainVars, replyVars, workVars
<1>3. CASE PoolFini
  <2>1. /\ UNCHANGED <<kind, eq, req_count, wk, ended>> /\ main' = "done" /\ DOMAIN pool' = {}
    BY <1>3 DEF PoolFini, netVars
  <2>2. UNCHANGED <<Busy, Running>>
    BY <2>1 DEF Busy, Running
  <2>3. Dispatched' \subseteq Dispatched
    BY <2>1, <2>2 DEF Dispatched
  <2> QED BY <2>1, <2>2, <2>3 DEF QueueInv, OrderInv, PlaceInv
<1>4. CASE FreeEq
  <2>1. /\ UNCHANGED <<kind, req_count, pool, wk, ended>> /\ DOMAIN eq' = {} /\ Len(eq') = 0
        /\ main = "cleanup" /\ main' = "fini"
    BY <1>4 DEF FreeEq, workVars
  <2>2. UNCHANGED <<Busy, Running, Dispatched>>
    BY <2>1 DEF Busy, Running, Dispatched
  <2>3. Len(kind) \in Nat
    BY DEF QueueInv, IInv, Types
  <2> QED BY <2>1, <2>2, <2>3 DEF QueueInv, OrderInv, PlaceInv
<1>5. CASE PollAgain /\ eq # <<>> /\ Head(eq).type = "start" /\ eq' = Tail(eq)
  <2>1. UNCHANGED <<kind, req_count, pool, wk, ended>> /\ main = "wait" /\ main' = "top"
    BY <1>5 DEF PollAgain, workVars
  <2>2. UNCHANGED <<Busy, Running, Dispatched>>
    BY <2>1 DEF Busy, Running, Dispatched
  <2>3. eq \in Seq(Event) /\ Len(kind) \in Nat
    BY DEF QueueInv, IInv, Types
  <2>4. /\ Len(eq') <= Len(eq) /\ Len(eq) \in Nat /\ Len(eq') \in Nat
        /\ \A i \in DOMAIN eq' : i \in Nat /\ i + 1 \in DOMAIN eq /\ eq'[i] = eq[i + 1]
        /\ \A i \in DOMAIN eq : i \in Nat /\ (i = 1 \/ (i - 1 \in DOMAIN eq' /\ eq'[i - 1] = eq[i]))
        /\ eq[1].type = "start"
    BY <1>5, <2>3
  <2>5. \A i, j \in DOMAIN eq' : i < j => i + 1 < j + 1
    BY <2>4
  <2>6. \A m \in req_count + 1 .. Len(kind) :
          \E i \in DOMAIN eq' : eq'[i].type = "end" /\ eq'[i].item.msg = m
    <3> SUFFICES ASSUME NEW m \in req_count + 1 .. Len(kind)
                 PROVE  \E i \in DOMAIN eq' : eq'[i].type = "end" /\ eq'[i].item.msg = m
      OBVIOUS
    <3>1. PICK i \in DOMAIN eq : eq[i].type = "end" /\ eq[i].item.msg = m
      BY <2>1 DEF QueueInv, OrderInv
    <3>2. i # 1
      BY <2>4, <3>1
    <3>3. i - 1 \in DOMAIN eq' /\ eq'[i - 1] = eq[i]
      BY <2>4, <3>2
    <3> QED BY <3>1, <3>3
  <2>7. Len(eq') <= 2 * Len(kind')
    BY <2>1, <2>3, <2>4 DEF QueueInv, OrderInv
  <2>8. OrderInv'
    BY <2>1, <2>4, <2>5, <2>6, <2>7, SMTT(30) DEF QueueInv, OrderInv
  <2> QED BY <2>1, <2>2, <2>8 DEF QueueInv, PlaceInv
<1>6. CASE TakeRequest
  <2>1. PICK item \in Item :
           /\ item.msg = req_count + 1 /\ req_count' = req_count + 1
           /\ pool' = Append(pool, item) /\ eq # <<>> /\ eq' = Tail(eq)
           /\ main = "wait" /\ main' = "reset" /\ UNCHANGED <<kind, wk, ended, exit_now>>
    BY <1>6, TakeShape
  <2>2. eq \in Seq(Event) /\ pool \in Seq(Item) /\ req_count \in Nat /\ Len(kind) \in Nat
    BY DEF QueueInv, IInv, Types
  <2>3. UNCHANGED <<Busy, Running>>
    BY <2>1 DEF Busy, Running
  <2>4. Dispatched = 1 .. req_count
    BY <2>1 DEF QueueInv, PlaceInv
  <2>5. /\ DOMAIN pool' = DOMAIN pool \cup {Len(pool) + 1} /\ pool'[Len(pool) + 1] = item
        /\ \A i \in DOMAIN pool : i < Len(pool) + 1 /\ pool'[i] = pool[i] /\ ~(Len(pool) + 1 < i)
        /\ ~(Len(pool) + 1 < Len(pool) + 1)
    BY <2>1, <2>2
  <2>6. \A i \in DOMAIN pool : pool[i].msg \in 1 .. req_count
    BY <2>4 DEF Dispatched
  <2>7. \A i, j \in DOMAIN pool' : i < j => pool'[i].msg < pool'[j].msg
    <3>1. \A i \in DOMAIN pool : pool[i].msg < item.msg
      BY <2>1, <2>2, <2>6
    <3> QED BY <2>5, <3>1 DEF QueueInv, PlaceInv
  <2>8. item.msg \notin ended \cup Running
    <3>1. ended \cup Running \subseteq 1 .. req_count
      BY <2>4 DEF Dispatched, Running
    <3> QED BY <2>1, <2>2, <3>1
  <2>9. \A i \in DOMAIN pool' : pool'[i].msg \notin ended' \cup Running'
    BY <2>1, <2>3, <2>5, <2>8 DEF QueueInv, PlaceInv
  <2>10. Dispatched' = 1 .. req_count'
    <3>1. {pool'[i].msg : i \in DOMAIN pool'} = {pool[i].msg : i \in DOMAIN pool} \cup {item.msg}
      BY <2>5
    <3>2. Dispatched' = Dispatched \cup {item.msg}
      BY <2>1, <2>3, <3>1 DEF Dispatched
    <3> QED BY <2>1, <2>2, <2>4, <3>2
  <2>11. PlaceInv'
    BY <2>1, <2>3, <2>7, <2>9, <2>10 DEF QueueInv, PlaceInv
  <2>12. /\ Len(eq') <= Len(eq) /\ Len(eq) \in Nat /\ Len(eq') \in Nat
         /\ \A i \in DOMAIN eq' : i \in Nat \ {0} /\ i + 1 \in DOMAIN eq /\ eq'[i] = eq[i + 1]
         /\ \A i \in DOMAIN eq : i \in Nat /\ (i = 1 \/ (i - 1 \in DOMAIN eq' /\ eq'[i - 1] = eq[i]))
         /\ 1 \in DOMAIN eq /\ eq[1] = Head(eq)
    <3>1. eq # <<>> /\ eq' = Tail(eq) /\ eq \in Seq(Event)
      BY <2>1, <2>2
    <3> QED BY <3>1
  <2>13. Head(eq).type = "end" /\ Head(eq).item.msg = req_count + 1
    <3>1. Head(eq).type = "end" /\ pool' = Append(pool, Head(eq).item)
      BY <1>6 DEF TakeRequest
    <3>2. pool'[Len(pool) + 1] = Head(eq).item
      BY <2>2, <3>1
    <3> QED BY <2>1, <2>5, <3>1, <3>2
  <2>14. \A i, j \in DOMAIN eq' : i < j => i + 1 < j + 1
    BY <2>12
  <2>15. \A i \in DOMAIN eq' : eq'[i].type = "end" => eq'[i].item.msg > req_count'
    <3> SUFFICES ASSUME NEW i \in DOMAIN eq', eq'[i].type = "end"
                 PROVE  eq'[i].item.msg > req_count'
      OBVIOUS
    <3>1. 1 < i + 1 /\ i + 1 \in DOMAIN eq /\ eq[i + 1] = eq'[i]
      BY <2>12
    <3>2. req_count + 1 < eq[i + 1].item.msg
      BY <2>12, <2>13, <3>1 DEF QueueInv, OrderInv
    <3>3. eq[i + 1].item.msg \in Nat
      BY <3>1 DEF QueueInv, IInv, CameInv, Came, Item, Messages
    <3> QED BY <2>1, <2>2, <3>1, <3>2, <3>3
  <2>16. \A m \in req_count' + 1 .. Len(kind) :
           \E i \in DOMAIN eq' : eq'[i].type = "end" /\ eq'[i].item.msg = m
    <3> SUFFICES ASSUME NEW m \in req_count' + 1 .. Len(kind)
                 PROVE  \E i \in DOMAIN eq' : eq'[i].type = "end" /\ eq'[i].item.msg = m
      OBVIOUS
    <3>1. m \in req_count + 1 .. Len(kind) /\ m # req_count + 1
      BY <2>1, <2>2
    <3>2. PICK i \in DOMAIN eq : eq[i].type = "end" /\ eq[i].item.msg = m
      BY <2>1, <3>1 DEF QueueInv, OrderInv
    <3>3. i # 1
      BY <2>12, <2>13, <3>1, <3>2
    <3> QED BY <2>12, <3>2, <3>3
  <2>17. Len(eq') <= 2 * Len(kind')
    BY <2>1, <2>2, <2>12 DEF QueueInv, OrderInv
  <2>18. OrderInv'
    BY <2>1, <2>12, <2>14, <2>15, <2>16, <2>17 DEF QueueInv, OrderInv
  <2> QED BY <2>11, <2>18
<1>7. ASSUME NEW k \in Kinds, ClientPut(k) PROVE OrderInv' /\ PlaceInv'
  <2>1. PICK item \in Item : Put(item)
    BY <1>7, ClientPutStep DEF QueueInv
  <2>2. UNCHANGED <<req_count, pool, wk, ended, main>>
    BY <2>1 DEF Put, mainVars, workVars
  <2>3. UNCHANGED <<Busy, Running, Dispatched>>
    BY <2>2 DEF Busy, Running, Dispatched
  <2>4. /\ Len(kind) \in Nat /\ Len(kind') = Len(kind) + 1 /\ item.msg = Len(kind) + 1
        /\ Len(kind) < MaxMsgs /\ MaxMsgs \in Nat /\ EqSlots \in Nat /\ req_count \in Nat
        /\ req_count <= Len(kind) /\ eq \in Seq(Event) /\ Len(eq) \in Nat
    <3>1. Len(kind) < MaxMsgs
      BY <1>7 DEF ClientPut
    <3>2. Len(kind') = Len(kind) + 1 /\ item.msg = Len(kind) + 1
      BY <2>1 DEF Put
    <3>3. Len(kind) \in Nat /\ req_count \in Nat /\ eq \in Seq(Event) /\ Len(eq) \in Nat
      BY DEF QueueInv, IInv, Types
    <3>4. req_count <= Len(kind)
      BY DEF QueueInv, IInv, CountInv
    <3> QED BY <3>1, <3>2, <3>3, <3>4, ServerAssumption
  <2>5. Len(eq) <= 2 * Len(kind)
    BY DEF QueueInv, OrderInv
  <2>6. Len(eq) + 2 <= EqSlots
    BY <2>4, <2>5
  <2>7. /\ Len(eq') <= Len(eq) + 2 /\ Len(eq') \in DOMAIN eq'
        /\ eq'[Len(eq')] = [type |-> "end", item |-> item]
        /\ \A e \in DOMAIN eq : e \in DOMAIN eq' /\ eq'[e] = eq[e]
        /\ \A e \in DOMAIN eq' :
             \/ e \in DOMAIN eq /\ eq'[e] = eq[e]
             \/ eq'[e].item = item /\ (eq'[e].type = "end" => e = Len(eq'))
    BY <2>1, <2>6 DEF Put
  <2>8. eq' \in Seq(Event) /\ Len(eq') \in Nat /\ \A e \in DOMAIN eq' : e \in Nat /\ e <= Len(eq')
    <3>1. eq' \in Seq(Event)
      BY <1>7, ClientPutStep DEF QueueInv, IInv, Types
    <3> QED BY <3>1
  <2>9. Len(eq') <= 2 * Len(kind')
    BY <2>4, <2>5, <2>7, <2>8
  <2>10. \A i \in DOMAIN eq : eq[i].item.msg \in Nat /\ eq[i].item.msg < item.msg
    BY <2>4 DEF QueueInv, IInv, CameInv, Came, Item, Messages
  <2>11. \A i \in DOMAIN eq' : eq'[i].type = "end" => eq'[i].item.msg > req_count'
    BY <2>2, <2>4, <2>7, SMTT(30) DEF QueueInv, OrderInv
  <2>12. \A i, j \in DOMAIN eq' :
           i < j /\ eq'[i].type = "end" /\ eq'[j].type = "end" => eq'[i].item.msg < eq'[j].item.msg
    BY <2>7, <2>8, <2>10 DEF QueueInv, OrderInv
  <2>13. main' \notin {"fini", "done", "aborted"} =>
           \A m \in req_count' + 1 .. Len(kind') :
             \E i \in DOMAIN eq' : eq'[i].type = "end" /\ eq'[i].item.msg = m
    <3> SUFFICES ASSUME main' \notin {"fini", "done", "aborted"},
                        NEW m \in req_count' + 1 .. Len(kind')
                 PROVE  \E i \in DOMAIN eq' : eq'[i].type = "end" /\ eq'[i].item.msg = m
      OBVIOUS
    <3>1. CASE m = item.msg
      BY <2>7, <3>1
    <3>2. CASE m # item.msg
      <4>1. m \in req_count + 1 .. Len(kind)
        BY <2>2, <2>4, <3>2
      <4>2. PICK i \in DOMAIN eq : eq[i].type = "end" /\ eq[i].item.msg = m
        BY <2>2, <4>1 DEF QueueInv, OrderInv
      <4> QED BY <2>7, <4>2
    <3> QED BY <3>1, <3>2
  <2>14. OrderInv'
    BY <2>9, <2>11, <2>12, <2>13 DEF OrderInv
  <2> QED BY <2>2, <2>3, <2>14 DEF QueueInv, PlaceInv
<1> QED BY <1>2, <1>3, <1>4, <1>5, <1>6, <1>7 DEF MainStep, PollAgain

\* The status of the requests, by what the service counts and keeps.
View(count, done, run, m) ==
  [r \in Messages |-> IF r > count THEN "new"
                      ELSE IF r \in done THEN "done"
                      ELSE IF r \in run THEN "running"
                      ELSE IF m = "done" THEN "dropped"
                      ELSE "queued"]

LEMMA RunningIs ==
  ASSUME NEW W \in [Workers -> Worker], \A w \in Workers : W[w].pc = "idle" => W[w] = IdleWorker,
         NEW r \in Messages
  PROVE  (\E w \in Workers : W[w].item.msg = r) <=>
           r \in {W[w].item.msg : w \in {u \in Workers : W[u].pc # "idle"}}
<1>1. IdleWorker.item.msg # r
  BY DEF IdleWorker, NoItem, None, Messages
<1> QED BY <1>1

LEMMA StatusIs ==
  ASSUME IInv, IInv'
  PROVE  /\ status = View(req_count, ended, Running, main)
         /\ status' = View(req_count', ended', Running', main')
<1>1. \A r \in Messages : (\E w \in Workers : wk[w].item.msg = r) <=> r \in Running
  <2>1. wk \in [Workers -> Worker] /\ \A w \in Workers : wk[w].pc = "idle" => wk[w] = IdleWorker
    BY DEF IInv, Types, CameInv
  <2> QED BY <2>1, RunningIs DEF Running, Busy
<1>2. \A r \in Messages : (\E w \in Workers : wk'[w].item.msg = r) <=> r \in Running'
  <2>1. wk' \in [Workers -> Worker] /\ \A w \in Workers : wk'[w].pc = "idle" => wk'[w] = IdleWorker
    BY DEF IInv, Types, CameInv
  <2> QED BY <2>1, RunningIs DEF Running, Busy
<1>3. status = View(req_count, ended, Running, main)
  BY <1>1 DEF status, View
<1>4. status' = View(req_count', ended', Running', main')
  BY <1>2 DEF status, View
<1> QED BY <1>3, <1>4

\* The places of the requests that the abstract status tells apart.
LEMMA PlaceFacts ==
  ASSUME QueueInv
  PROVE  /\ ended \subseteq 1 .. req_count /\ Running \subseteq 1 .. req_count
         /\ req_count \in Nat /\ req_count <= MaxMsgs
         /\ \A r \in 1 .. req_count : main # "done" =>
              (r \notin ended \cup Running <=> \E i \in DOMAIN pool : pool[i].msg = r)
         /\ ended \cap Running = {}
         /\ main = "done" => Running = {}
<1>1. req_count \in Nat /\ req_count <= MaxMsgs
  BY ServerAssumption DEF QueueInv, IInv, Types, CountInv
<1>2. ended \cup Running \subseteq Dispatched
  BY DEF Running, Dispatched
<1>3. \A r \in 1 .. req_count : main # "done" =>
        (r \notin ended \cup Running <=> \E i \in DOMAIN pool : pool[i].msg = r)
  BY DEF QueueInv, PlaceInv, Dispatched, Running
<1>4. ended \cap Running = {}
  BY DEF QueueInv, PlaceInv, Running
<1>5. main = "done" => Running = {}
  BY DEF QueueInv, DrainInv, Running
<1> QED BY <1>1, <1>2, <1>3, <1>4, <1>5 DEF QueueInv, PlaceInv

\* A pool thread starts the oldest request; a worker goes on, or finishes its request.
LEMMA WorkRefines ==
  ASSUME QueueInv, QueueInv', NEW w \in Workers, WorkerStep(w)
  PROVE  [WQ!WQNext]_(WQ!wqVars)
<1>0. status = View(req_count, ended, Running, main)
      /\ status' = View(req_count', ended', Running', main')
  BY StatusIs DEF QueueInv
<1>1. CASE StartRequest(w)
  <2>1. /\ w \notin Busy /\ pool # <<>> /\ main # "done"
        /\ UNCHANGED <<req_count, ended, main, exit_now>> /\ Busy' = Busy \cup {w}
        /\ wk'[w].item = Head(pool) /\ \A u \in Workers : u # w => wk'[u] = wk[u]
    BY <1>1, StartShape DEF QueueInv
  <2>2. pool \in Seq(Item) /\ 1 \in DOMAIN pool /\ pool[1] = Head(pool)
        /\ \A i \in DOMAIN pool : i \in Nat \ {0} /\ pool[i].msg \in Messages
    <3>1. pool \in Seq(Item)
      BY DEF QueueInv, IInv, Types
    <3>2. \A x \in Item : x.msg \in Messages
      BY DEF Item
    <3> QED BY <2>1, <3>1, <3>2
  <2>3. PICK r : r = Head(pool).msg
    OBVIOUS
  <2>4. Running' = Running \cup {r}
    BY <2>1, <2>3 DEF Running, Busy
  <2>5. r \in Messages /\ r \in 1 .. req_count /\ r \notin ended \cup Running
    BY <2>2, <2>3 DEF QueueInv, PlaceInv, Dispatched
  <2>6. status[r] = "queued"
    BY <1>0, <2>1, <2>5, PlaceFacts DEF View
  <2>7. \A m \in Messages : m < r => status[m] \notin {"new", "queued"}
    <3> SUFFICES ASSUME NEW m \in Messages, m < r PROVE status[m] \notin {"new", "queued"}
      OBVIOUS
    <3>1. m \in 1 .. req_count
      BY <2>5, PlaceFacts DEF Messages
    <3>2. ASSUME NEW i \in DOMAIN pool PROVE pool[i].msg # m
      <4>1. i = 1 \/ 1 < i
        BY <2>2
      <4>2. r = pool[i].msg \/ r < pool[i].msg
        BY <2>2, <2>3, <4>1 DEF QueueInv, PlaceInv
      <4>3. pool[i].msg \in Nat /\ m \in Nat /\ r \in Nat
        BY <2>2, <2>5 DEF Messages
      <4> QED BY <4>2, <4>3
    <3>3. m \in ended \cup Running
      BY <2>1, <3>1, <3>2, PlaceFacts
    <3> QED BY <1>0, <3>1, <3>3, PlaceFacts DEF View
  <2>8. status' = [status EXCEPT ![r] = "running"]
    <3>1. ~(r > req_count)
      BY <2>5, PlaceFacts
    <3>2. main' = main /\ req_count' = req_count /\ ended' = ended
      BY <2>1
    <3>3. View(req_count, ended, Running \cup {r}, main) =
            [View(req_count, ended, Running, main) EXCEPT ![r] = "running"]
      BY <2>5, <3>1 DEF View
    <3> QED BY <1>0, <2>4, <3>2, <3>3
  <2>9. UNCHANGED exit_now /\ (main' = "done") = (main = "done")
    BY <2>1
  <2>10. WQ!Start(r)
    BY <2>1, <2>6, <2>7, <2>8, <2>9 DEF WQ!Start
  <2> QED BY <2>5, <2>10 DEF WQ!WQNext
<1>2. CASE ~StartRequest(w)
  <2>1. /\ w \in Busy /\ UNCHANGED req_count /\ main' \in {main, "aborted"}
        /\ \/ wk'[w].pc # "idle" /\ wk'[w].item = wk[w].item /\ UNCHANGED ended
           \/ wk'[w].pc = "idle" /\ ended' = ended \cup {wk[w].item.msg} /\ UNCHANGED exit_now
        /\ \A u \in Workers : u # w => wk'[u] = wk[u]
        /\ Busy' \subseteq Busy /\ \A u \in Busy : u # w => u \in Busy'
        /\ exit_now => exit_now'
    BY <1>2, WorkShape DEF QueueInv
  <2>2. main # "done" /\ main' # "done"
    BY <2>1 DEF QueueInv, DrainInv
  <2>3. (main' = "done") = (main = "done")
    BY <2>2
  <2>4. CASE wk'[w].pc # "idle" /\ wk'[w].item = wk[w].item /\ UNCHANGED ended
    <3>1. Running' = Running
      <4>1. Busy' = Busy /\ \A u \in Busy : wk'[u].item = wk[u].item
        BY <2>1, <2>4 DEF Busy
      <4> QED BY <4>1 DEF Running
    <3>2. UNCHANGED status
      BY <1>0, <2>1, <2>2, <2>4, <3>1 DEF View
    <3>3. CASE UNCHANGED exit_now
      BY <2>3, <3>2, <3>3 DEF WQ!wqVars
    <3>4. CASE ~UNCHANGED exit_now
      <4>1. exit_now \in BOOLEAN /\ exit_now' \in BOOLEAN
        BY DEF QueueInv, IInv, Types
      <4>2. exit_now' = TRUE
        BY <2>1, <3>4, <4>1
      <4>3. WQ!Abort
        BY <2>3, <3>2, <4>2 DEF WQ!Abort
      <4> QED BY <4>3 DEF WQ!WQNext
    <3> QED BY <3>3, <3>4
  <2>5. CASE wk'[w].pc = "idle" /\ ended' = ended \cup {wk[w].item.msg} /\ UNCHANGED exit_now
    <3>1. PICK r : r = wk[w].item.msg
      OBVIOUS
    <3>2. r \in Messages /\ r \in Running /\ r \in 1 .. req_count
      <4>1. r \in Messages /\ r \in Running
        BY <2>1, <3>1, BusyFacts DEF Busy, Running, QueueInv
      <4> QED BY <4>1, PlaceFacts
    <3>3. Running' = Running \ {r}
      <4>1. Busy' = Busy \ {w} /\ \A u \in Busy' : wk'[u] = wk[u]
        BY <2>1, <2>5 DEF Busy
      <4>2. \A u \in Busy' : wk[u].item.msg # r
        BY <2>1, <3>1, <4>1 DEF QueueInv, PlaceInv
      <4> QED BY <3>1, <4>1, <4>2 DEF Running
    <3>4. status[r] = "running"
      BY <1>0, <3>2, PlaceFacts DEF View
    <3>5. status' = [status EXCEPT ![r] = "done"]
      <4>1. ~(r > req_count)
        BY <3>2, PlaceFacts
      <4>2. r \notin ended
        BY <3>2, PlaceFacts
      <4>3. ASSUME NEW n, n # "done"
            PROVE  View(req_count, ended \cup {r}, Running \ {r}, n) =
                     [View(req_count, ended, Running, main) EXCEPT ![r] = "done"]
        BY <2>2, <3>2, <4>1, <4>2, <4>3 DEF View
      <4>4. View(req_count, ended \cup {r}, Running \ {r}, main') =
              [View(req_count, ended, Running, main) EXCEPT ![r] = "done"]
        BY <2>2, <4>3
      <4>5. req_count' = req_count /\ ended' = ended \cup {r}
        BY <2>1, <2>5, <3>1
      <4> QED BY <1>0, <3>3, <4>4, <4>5
    <3>6. WQ!Finish(r)
      BY <2>3, <2>5, <3>4, <3>5 DEF WQ!Finish
    <3> QED BY <3>2, <3>6 DEF WQ!WQNext
  <2> QED BY <2>1, <2>4, <2>5
<1> QED BY <1>1, <1>2

\* The main thread adds the requests in their order, and closes a pool without running ones.
LEMMA OtherRefines ==
  ASSUME QueueInv, QueueInv', UseThreads,
         MainStep \/ Signal \/ Finished \/ UNCHANGED vars
         \/ (\E k \in Kinds : ClientPut(k)) \/ (\E m \in Messages : ClientGet(m))
  PROVE  [WQ!WQNext]_(WQ!wqVars)
<1>0. status = View(req_count, ended, Running, main)
      /\ status' = View(req_count', ended', Running', main')
  BY StatusIs DEF QueueInv
<1>1. CASE UNCHANGED <<req_count, wk, ended>> /\ (main' = main \/ (main # "done" /\ main' # "done"))
  <2>1. UNCHANGED <<Busy, Running>>
    BY <1>1 DEF Busy, Running
  <2>2. UNCHANGED status
    BY <1>0, <1>1, <2>1 DEF View
  <2>3. (main' = "done") = (main = "done")
    BY <1>1
  <2>4. CASE UNCHANGED exit_now
    BY <2>2, <2>3, <2>4 DEF WQ!wqVars
  <2>5. CASE exit_now' = TRUE
    <3>1. WQ!Abort
      BY <2>2, <2>3, <2>5 DEF WQ!Abort
    <3> QED BY <3>1 DEF WQ!WQNext
  <2>6. UNCHANGED exit_now \/ exit_now' = TRUE
    BY DEF MainStep, Signal, Finished, ClientPut, ClientGet, LoopHead, PollAgain, TakeRequest,
       InlineDone, UnlinkME, AttachMD, FreeQueue, FreeEq, PoolFini, vars
  <2> QED BY <2>4, <2>5, <2>6
<1>2. CASE Signal \/ Finished \/ UNCHANGED vars \/ (\E m \in Messages : ClientGet(m))
           \/ (\E k \in Kinds : ClientPut(k)) \/ FreeQueue \/ FreeEq
           \/ UnlinkME \/ AttachMD \/ LoopHead \/ InlineDone \/ PollAgain
  BY <1>1, <1>2 DEF Signal, Finished, ClientGet, ClientPut, FreeQueue, FreeEq, UnlinkME, AttachMD,
     LoopHead, InlineDone, PollAgain, vars, netVars, mainVars, replyVars, workVars
<1>3. CASE TakeRequest
  <2>1. /\ req_count' = req_count + 1 /\ main = "wait" /\ main' = "reset"
        /\ UNCHANGED <<wk, ended, exit_now>>
    BY <1>3, TakeShape
  <2>2. PICK r : r = req_count + 1
    OBVIOUS
  <2>3. r \in Messages
    <3>1. req_count' <= Len(kind') /\ Len(kind') <= MaxMsgs /\ Len(kind') \in Nat /\ req_count' \in Nat
      BY DEF QueueInv, IInv, CountInv, Types
    <3> QED BY <2>1, <2>2, <3>1, PlaceFacts, ServerAssumption DEF Messages
  <2>4. UNCHANGED Running
    BY <2>1 DEF Running, Busy
  <2>5. r \notin ended \cup Running /\ r > req_count
    BY <2>2, PlaceFacts
  <2>6. status[r] = "new" /\ \A m \in Messages : m < r => status[m] # "new"
    <3>1. status[r] = "new"
      BY <1>0, <2>3, <2>5 DEF View
    <3>2. ASSUME NEW m \in Messages, m < r PROVE status[m] # "new"
      <4>1. ~(m > req_count)
        BY <2>2, <3>2, PlaceFacts DEF Messages
      <4> QED BY <1>0, <4>1 DEF View
    <3> QED BY <3>1, <3>2
  <2>7. status' = [status EXCEPT ![r] = "queued"]
    <3>1. \A m \in Messages : m # r => (m > req_count' <=> m > req_count)
      BY <2>1, <2>2, PlaceFacts DEF Messages
    <3>2. ~(r > req_count')
      BY <2>1, <2>2, PlaceFacts
    <3>3. View(req_count', ended, Running, "reset") =
            [View(req_count, ended, Running, "wait") EXCEPT ![r] = "queued"]
      BY <2>3, <2>5, <3>1, <3>2 DEF View
    <3> QED BY <1>0, <2>1, <2>4, <3>3
  <2>8. (main' = "done") = (main = "done") /\ ~(main = "done")
    BY <2>1
  <2>9. WQ!Add(r)
    BY <2>1, <2>6, <2>7, <2>8 DEF WQ!Add
  <2> QED BY <2>3, <2>9 DEF WQ!WQNext
<1>4. CASE PoolFini
  <2>1. /\ UNCHANGED <<req_count, wk, ended, exit_now>> /\ Busy = {}
        /\ pool # <<>> => exit_now
        /\ main = "fini" /\ main' = "done"
    BY <1>4 DEF PoolFini, Busy
  <2>2. Running = {} /\ Running' = {}
    BY <2>1 DEF Running, Busy
  <2>3. \A r \in Messages : status[r] # "running"
    BY <1>0, <2>2 DEF View
  <2>4. (\E r \in Messages : status[r] = "queued") => exit_now
    <3> SUFFICES ASSUME NEW r \in Messages, status[r] = "queued" PROVE exit_now
      OBVIOUS
    <3>1. r \in 1 .. req_count /\ r \notin ended
      BY <1>0, PlaceFacts DEF View, Messages
    <3>2. \E i \in DOMAIN pool : pool[i].msg = r
      BY <2>1, <2>2, <3>1, PlaceFacts
    <3>3. pool # <<>>
      BY <3>2
    <3> QED BY <2>1, <3>3
  <2>5. status' = [r \in Messages |-> IF status[r] = "queued" THEN "dropped" ELSE status[r]]
    BY <1>0, <2>1, <2>2 DEF View
  <2>6. ~(main = "done") /\ (main' = "done") = TRUE
    BY <2>1
  <2>7. WQ!Close
    BY <2>1, <2>3, <2>4, <2>5, <2>6 DEF WQ!Close
  <2> QED BY <2>7 DEF WQ!WQNext
<1> QED BY <1>2, <1>3, <1>4 DEF MainStep

(***************************************************************************)
(* When the event queue has room for the events of all the requests, the   *)
(* service uses its pool as the work queue that ThreadPool implements: it  *)
(* adds the requests in the order in which they came, each is started      *)
(* once and in that order, and the pool is closed when none is running.    *)
(***************************************************************************)
THEOREM PoolUsedAsWorkQueue ==
  ASSUME UseThreads, EqSlots >= 2 * MaxMsgs
  PROVE  Spec => PoolIsWorkQueue
<1>1. Init => OrderInv /\ PlaceInv /\ WQ!WQInit
  <2> SUFFICES ASSUME Init PROVE OrderInv /\ PlaceInv /\ WQ!WQInit
    OBVIOUS
  <2>1. /\ Busy = {} /\ DOMAIN eq = {} /\ Len(eq) = 0 /\ Len(kind) = 0 /\ DOMAIN pool = {}
        /\ ended = {} /\ req_count = 0 /\ main # "done"
    BY DEF Init, Busy, IdleWorker
  <2>2. Running = {} /\ Dispatched = {}
    BY <2>1 DEF Running, Dispatched
  <2>3. OrderInv /\ PlaceInv
    BY <2>1, <2>2 DEF OrderInv, PlaceInv
  <2>4. \A r \in Messages : r > req_count
    BY <2>1 DEF Messages
  <2>5. status = [r \in Messages |-> "new"]
    BY <2>4 DEF status
  <2>6. exit_now = FALSE /\ (main = "done") = FALSE
    BY DEF Init
  <2> QED BY <2>3, <2>5, <2>6 DEF WQ!WQInit
<1>2. QueueInv /\ [Next]_vars => OrderInv' /\ PlaceInv'
  BY WorkPlace, OtherPlace DEF Next
<1>3. QueueInv /\ QueueInv' /\ [Next]_vars => [WQ!WQNext]_(WQ!wqVars)
  BY WorkRefines, OtherRefines DEF Next
<1>4. Spec => []QueueInv
  BY <1>1, <1>2, DrainInvariant, PTL DEF Spec, QueueInv
<1> QED BY <1>1, <1>3, <1>4, PTL DEF Spec, PoolIsWorkQueue, WQ!WQSpec
=============================================================================
