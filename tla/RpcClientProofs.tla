-------------------------- MODULE RpcClientProofs --------------------------
(***************************************************************************)
(* Proofs about the client side of a call, for any number of calls and of  *)
(* threads; what match bits guarantee is proved for one thread only,       *)
(* because the counters are incremented without a lock.                    *)
(***************************************************************************)
EXTENDS RpcClient, SequenceTheorems, FiniteSetTheorems, TLAPS

(***************************************************************************)
(* The inductive invariant for any threads.                                *)
(***************************************************************************)

Entry == [portal : Portals, bits : Nat, req : Calls]
Request == [kind : Kinds \cup {None}, status : Statuses, queues : SUBSET Portals,
            bits : [Portals -> Nat]]
Answer == [of : Calls \cup {None}, rc : {"none", "OK", "ERR"}, got : {"nothing", "start", "all"}]

\* Labels of lwfs_call_rpc, and of lwfs_waitany.
Calling == {"data", "store_data", "post_data", "res", "store_res", "post_res",
            "args", "store_args", "post_args", "put"}
Awaiting == {"poll", "result", "cleanup"}

Types ==
    /\ counter \in [Portals -> Nat] /\ reg \in [Threads -> Nat]
    /\ entries \in Seq(Entry)
    /\ req \in [Calls -> Request]
    /\ pc \in [Threads -> {"idle"} \cup Calling \cup Awaiting]
    /\ cur \in [Threads -> Calls \cup {None}]
    /\ waiting \in [Threads -> SUBSET Calls]
    /\ which \in [Threads -> Calls \cup {None}]
    /\ svc \in [Calls -> {"none", "sent", "dropped", "called", "ran", "answered"}]
    /\ inbox \in [Calls -> Answer]
    /\ argsTaken \subseteq Calls
    /\ touched \subseteq Calls \X Calls
    /\ told \in [Calls -> Outcomes \cup {None}]

\* A thread is in one call, which no other thread is in, or waits for requests.
ThreadInv(t) ==
    /\ cur[t] # None <=> pc[t] \in Calling
    /\ pc[t] \in Calling => req[cur[t]].kind # None
    /\ \A u \in Threads : u # t /\ cur[t] # None => cur[u] # cur[t]
    /\ waiting[t] # {} <=> pc[t] \in Awaiting
    /\ which[t] # None => which[t] \in waiting[t]
    /\ pc[t] \in {"result", "cleanup"} => which[t] # None

\* Where a thread has not yet counted its call at a portal.
ToStore == [data |-> {"data", "store_data"},
            res  |-> {"data", "store_data", "post_data", "res", "store_res"},
            args |-> {"data", "store_data", "post_data", "res", "store_res", "post_res",
                      "args", "store_args"}]

\* The calls that are past the counter of a portal.
Past(p) == {r \in Calls : req[r].kind # None /\ \A t \in Threads : cur[t] = r => pc[t] \notin ToStore[p]}

\* A counter never exceeds the calls that were to increment it.
CountInv ==
    \A p \in Portals :
        /\ counter[p] <= Cardinality(Past(p))
        /\ \A t \in Threads : pc[t] = StoreAt[p] => reg[t] <= Cardinality(Past(p))

RegInv == \A t \in Threads : reg[t] <= MaxCalls

IInv == Types /\ (\A t \in Threads : ThreadInv(t)) /\ CountInv /\ RegInv
-----------------------------------------------------------------------------
LEMMA PastFinite ==
    ASSUME Types, NEW p \in Portals
    PROVE  /\ IsFiniteSet(Past(p)) /\ Cardinality(Past(p)) \in Nat
           /\ Cardinality(Past(p)) <= MaxCalls
           /\ \A r \in Calls : r \notin Past(p) => Cardinality(Past(p)) + 1 <= MaxCalls
<1>1. Past(p) \in SUBSET Calls
    BY DEF Past
<1>2. IsFiniteSet(Calls) /\ Cardinality(Calls) = MaxCalls
    BY ClientAssumption, FS_Interval DEF Calls
<1>3. IsFiniteSet(Past(p)) /\ Cardinality(Past(p)) <= Cardinality(Calls)
    BY <1>1, <1>2, FS_Subset
<1>4. Cardinality(Past(p)) \in Nat
    BY <1>3, FS_CardinalityType
<1>5. ASSUME NEW r \in Calls, r \notin Past(p)
      PROVE  Cardinality(Past(p)) + 1 <= MaxCalls
    <2>1. Past(p) \cup {r} \in SUBSET Calls
        BY <1>1
    <2>2. Cardinality(Past(p) \cup {r}) = Cardinality(Past(p)) + 1
        BY <1>3, <1>5, FS_AddElement
    <2>3. Cardinality(Past(p) \cup {r}) <= Cardinality(Calls)
        BY <1>2, <2>1, FS_Subset
    <2> QED BY <1>2, <2>2, <2>3
<1> QED BY <1>2, <1>3, <1>4, <1>5

\* When no call gets behind a counter again, the counters stay within the calls.
LEMMA CountKept ==
    ASSUME IInv, Types', \A p \in Portals : Past(p) \subseteq Past(p)',
           counter' = counter, reg' = reg,
           \A t \in Threads, p \in Portals : pc'[t] = StoreAt[p] => pc[t] = StoreAt[p]
    PROVE  CountInv' /\ RegInv'
<1>1. \A p \in Portals : Cardinality(Past(p)) <= Cardinality(Past(p)')
    <2> SUFFICES ASSUME NEW p \in Portals
                 PROVE  Cardinality(Past(p)) <= Cardinality(Past(p)')
        OBVIOUS
    <2>1. IsFiniteSet(Past(p)')
        <3>1. Past(p)' \in SUBSET Calls
            BY DEF Past
        <3>2. IsFiniteSet(Calls)
            BY ClientAssumption, FS_Interval DEF Calls
        <3> QED BY <3>1, <3>2, FS_Subset
    <2>2. Past(p) \in SUBSET Past(p)'
        OBVIOUS
    <2> QED BY <2>1, <2>2, FS_Subset
<1>2. \A p \in Portals : Cardinality(Past(p)) \in Nat /\ Cardinality(Past(p)') \in Nat
    <2> SUFFICES ASSUME NEW p \in Portals
                 PROVE  Cardinality(Past(p)) \in Nat /\ Cardinality(Past(p)') \in Nat
        OBVIOUS
    <2>1. Past(p)' \in SUBSET Calls /\ IsFiniteSet(Calls)
        BY ClientAssumption, FS_Interval DEF Calls, Past
    <2>2. IsFiniteSet(Past(p)')
        BY <2>1, FS_Subset
    <2> QED BY <2>2, PastFinite, FS_CardinalityType DEF IInv
<1> QED BY <1>1, <1>2 DEF IInv, Types, CountInv, RegInv

LEMMA InitInv == Init => IInv
<1> SUFFICES ASSUME Init PROVE IInv
    OBVIOUS
<1>1. Types
    <2>1. NoCall \in Request
        BY DEF NoCall, Request, Statuses
    <2>2. Nothing \in Answer
        BY DEF Nothing, Answer
    <2>3. entries \in Seq(Entry)
        BY DEF Init
    <2> QED BY <2>1, <2>2, <2>3 DEF Init, Types
<1>2. \A t \in Threads : ThreadInv(t)
    BY DEF Init, ThreadInv, Calling, Awaiting
<1>3. RegInv
    BY ClientAssumption DEF Init, RegInv
<1>4. CountInv
    <2>1. \A p \in Portals, t \in Threads : pc[t] # StoreAt[p]
        BY DEF Init, Portals, StoreAt
    <2> QED BY <1>1, <2>1, PastFinite DEF Init, CountInv
<1> QED BY <1>1, <1>2, <1>3, <1>4 DEF IInv
-----------------------------------------------------------------------------
(* Removing an entry.                                                      *)

Skip(i, j) == IF j < i THEN j ELSE j + 1

LEMMA Removed ==
    ASSUME NEW S, NEW s \in Seq(S), NEW i \in DOMAIN s
    PROVE  /\ RemoveAt(s, i) \in Seq(S)
           /\ \A j \in DOMAIN RemoveAt(s, i) :
                 Skip(i, j) \in DOMAIN s \ {i} /\ RemoveAt(s, i)[j] = s[Skip(i, j)]
<1>1. i \in 1 .. Len(s) /\ Len(s) \in Nat
    OBVIOUS
<1> DEFINE a == SubSeq(s, 1, i - 1)
           b == SubSeq(s, i + 1, Len(s))
<1>2. a \in Seq(S) /\ Len(a) = i - 1 /\ \A j \in 1 .. i - 1 : a[j] = s[j]
    BY <1>1
<1>3. b \in Seq(S) /\ Len(b) = Len(s) - i /\ \A j \in 1 .. Len(s) - i : b[j] = s[j + i]
    BY <1>1
<1>4. RemoveAt(s, i) = a \o b
    BY DEF RemoveAt
<1> HIDE DEF a, b
<1>5. a \o b \in Seq(S) /\ Len(a \o b) = Len(s) - 1
    BY <1>1, <1>2, <1>3, ConcatProperties
<1>6. ASSUME NEW j \in DOMAIN (a \o b)
      PROVE  Skip(i, j) \in DOMAIN s \ {i} /\ (a \o b)[j] = s[Skip(i, j)]
    <2>1. j \in 1 .. Len(s) - 1
        BY <1>5
    <2>2. (a \o b)[j] = IF j <= Len(a) THEN a[j] ELSE b[j - Len(a)]
        BY <1>1, <1>2, <1>3, <2>1, ConcatProperties
    <2>3. CASE j < i
        BY <1>1, <1>2, <2>1, <2>2, <2>3 DEF Skip
    <2>4. CASE ~(j < i)
        <3>1. j - Len(a) \in 1 .. Len(s) - i /\ (j - Len(a)) + i = j + 1
            BY <1>1, <1>2, <2>1, <2>4
        <3>2. (a \o b)[j] = b[j - Len(a)]
            BY <1>1, <1>2, <2>1, <2>2, <2>4
        <3>3. b[j - Len(a)] = s[(j - Len(a)) + i]
            BY <1>3, <3>1
        <3> QED BY <1>1, <2>1, <2>4, <3>1, <3>2, <3>3, SMTT(30) DEF Skip
    <2> QED BY <2>3, <2>4
<1> QED BY <1>4, <1>5, <1>6

\* What Unlink leaves has been there.
LEMMA Unlinked ==
    ASSUME NEW p \in Portals, NEW r \in Calls, entries \in Seq(Entry)
    PROVE  /\ Unlink(p, r) \in Seq(Entry)
           /\ Posted(p, r) = {} => Unlink(p, r) = entries
           /\ Posted(p, r) # {} => \E i \in Posted(p, r) : Unlink(p, r) = RemoveAt(entries, i)
<1>1. CASE Posted(p, r) = {}
    BY <1>1 DEF Unlink
<1>2. CASE Posted(p, r) # {}
    <2>1. PICK i \in Posted(p, r) : Unlink(p, r) = RemoveAt(entries, i)
        BY <1>2 DEF Unlink
    <2>2. i \in DOMAIN entries
        BY DEF Posted
    <2> QED BY <1>2, <2>1, <2>2, Removed
<1> QED BY <1>1, <1>2
-----------------------------------------------------------------------------
(* Every action keeps the invariant.                                       *)

\* Steps of the service and of the network leave the threads alone.
LEMMA ServeInv ==
    ASSUME IInv, NEW r \in Calls, Serve(r)
    PROVE  IInv'
<1> USE DEF IInv
<1>1. UNCHANGED <<counter, reg, req, pc, cur, waiting, which, told>>
    BY DEF Serve, FetchArgs, RunOp, ResultStart, ResultEnd
<1>2. entries' \in Seq(Entry)
    <2>1. CASE UNCHANGED entries
        BY <2>1 DEF Types
    <2>2. ASSUME NEW i \in DOMAIN entries, entries' = RemoveAt(entries, i)
          PROVE  entries' \in Seq(Entry)
        BY <2>2, Removed DEF Types
    <2>3. entries' = entries \/ \E i \in DOMAIN entries : entries' = RemoveAt(entries, i)
        BY DEF Serve, FetchArgs, RunOp, ResultStart, ResultEnd, Matching
    <2> QED BY <2>1, <2>2, <2>3
<1>3. \A i \in DOMAIN entries : entries[i].req \in Calls
    <2>1. entries \in Seq(Entry)
        BY DEF Types
    <2>2. \A i \in DOMAIN entries : entries[i] \in Entry
        BY <2>1
    <2> QED BY <2>2 DEF Entry
<1>4. svc' \in [Calls -> {"none", "sent", "dropped", "called", "ran", "answered"}]
    <2>1. \/ UNCHANGED svc
          \/ \E s \in {"dropped", "called", "ran", "answered"} : svc' = [svc EXCEPT ![r] = s]
        BY DEF Serve, FetchArgs, RunOp, ResultStart, ResultEnd
    <2> QED BY <2>1 DEF Types
<1>5. argsTaken' \subseteq Calls /\ touched' \subseteq Calls \X Calls
    <2>1. argsTaken \subseteq Calls /\ touched \subseteq Calls \X Calls
        BY DEF Types
    <2>2. CASE FetchArgs(r)
        BY <1>3, <2>1, <2>2 DEF FetchArgs, Matching
    <2>3. CASE RunOp(r)
        BY <1>3, <2>1, <2>3 DEF RunOp, Matching
    <2>4. ASSUME NEW code, ResultStart(r, code)
          PROVE  argsTaken' \subseteq Calls /\ touched' \subseteq Calls \X Calls
        BY <1>3, <2>1, <2>4 DEF ResultStart, Matching
    <2>5. CASE ResultEnd(r)
        BY <2>1, <2>5 DEF ResultEnd
    <2> QED BY <2>2, <2>3, <2>4, <2>5 DEF Serve
<1>6. inbox' \in [Calls -> Answer]
    <2>1. CASE UNCHANGED inbox
        BY <2>1 DEF Types
    <2>2. ASSUME NEW code \in {"OK", "ERR"}, ResultStart(r, code)
          PROVE  inbox' \in [Calls -> Answer]
        BY <1>3, <2>2 DEF Types, ResultStart, Matching, Answer
    <2>3. CASE ResultEnd(r)
        <3>1. PICK a : a = [inbox[r] EXCEPT !.got = "all"]
            OBVIOUS
        <3>2. inbox \in [Calls -> Answer] /\ inbox[r] \in Answer
            BY DEF Types
        <3>3. a \in Answer
            BY <3>1, <3>2 DEF Answer
        <3>4. inbox' = [inbox EXCEPT ![r] = a]
            BY <2>3, <3>1 DEF ResultEnd
        <3> QED BY <3>2, <3>3, <3>4
    <2> QED BY <2>1, <2>2, <2>3 DEF Serve, FetchArgs, RunOp
<1>7. Types'
    BY <1>1, <1>2, <1>4, <1>5, <1>6 DEF Types
<1>8. \A t \in Threads : ThreadInv(t)'
    BY <1>1 DEF ThreadInv
<1>9. \A p \in Portals : Past(p)' = Past(p)
    BY <1>1 DEF Past
<1>10. CountInv' /\ RegInv'
    BY <1>1, <1>9 DEF CountInv, RegInv
<1> QED BY <1>7, <1>8, <1>10

LEMMA CallInv ==
    ASSUME IInv, NEW t \in Threads, NEW r \in Calls, NEW k \in Kinds, Call(t, r, k)
    PROVE  IInv'
<1> USE DEF IInv
<1>1. r \in Calls /\ req[r].kind = None /\ pc[t] = "idle"
    BY DEF Call, NoCall
<1>2. Types'
    <2>1. req' \in [Calls -> Request]
        <3>1. req[r] \in Request /\ req \in [Calls -> Request]
            BY DEF Types
        <3>2. req' = [req EXCEPT ![r] = [req[r] EXCEPT !.kind = k, !.status = "SENDING_REQUEST"]]
            BY <3>1 DEF Call, Request
        <3>3. [req[r] EXCEPT !.kind = k, !.status = "SENDING_REQUEST"] \in Request
            BY <3>1 DEF Request, Statuses
        <3> QED BY <3>1, <3>2, <3>3
    <2>2. UNCHANGED <<counter, reg, waiting, which, netVars, told, stray>>
        BY DEF Call
    <2>3. pc' \in [Threads -> {"idle"} \cup Calling \cup Awaiting] /\ cur' \in [Threads -> Calls \cup {None}]
        BY DEF Types, Call, Goto, Calling
    <2> QED BY <2>1, <2>2, <2>3 DEF Types, netVars
<1>3. /\ \A u \in Threads \ {t} : pc'[u] = pc[u] /\ cur'[u] = cur[u]
      /\ pc'[t] = "data" /\ cur'[t] = r
      /\ UNCHANGED <<waiting, which, counter, reg>>
    BY DEF Types, Call, Goto
<1>4. /\ \A q \in Calls \ {r} : req'[q] = req[q]
      /\ req'[r].kind = k /\ k # None
    BY NoneAssumption DEF Types, Call, Request
<1>5. \A u \in Threads : cur[u] # r
    <2> SUFFICES ASSUME NEW u \in Threads, cur[u] = r PROVE FALSE
        OBVIOUS
    <2>1. cur[u] # None
        BY NoneAssumption
    <2> QED BY <1>1, <2>1 DEF ThreadInv
<1>6. ASSUME NEW u \in Threads PROVE ThreadInv(u)'
    <2>1. CASE u = t
        BY <1>1, <1>3, <1>4, <1>5, <2>1, NoneAssumption DEF ThreadInv, Calling, Awaiting
    <2>2. CASE u # t
        <3>1. pc'[u] = pc[u] /\ cur'[u] = cur[u] /\ waiting'[u] = waiting[u] /\ which'[u] = which[u]
            BY <1>3, <2>2
        <3>2. pc[u] \in Calling => req'[cur[u]].kind # None
            <4>1. pc[u] \in Calling => cur[u] \in Calls /\ cur[u] # r /\ req[cur[u]].kind # None
                BY <1>5 DEF ThreadInv, Types
            <4> QED BY <1>4, <4>1
        <3>3. \A v \in Threads : v # u /\ cur'[u] # None => cur'[v] # cur'[u]
            BY <1>3, <1>5, <2>2 DEF ThreadInv
        <3> QED BY <3>1, <3>2, <3>3 DEF ThreadInv
    <2> QED BY <2>1, <2>2
<1>7. ASSUME NEW p \in Portals PROVE Past(p) \subseteq Past(p)'
    BY <1>1, <1>3, <1>4 DEF Past
<1>8. \A u \in Threads, p \in Portals : pc'[u] = StoreAt[p] => pc[u] = StoreAt[p]
    BY <1>3 DEF StoreAt, Portals
<1> QED BY <1>2, <1>3, <1>6, <1>7, <1>8, CountKept

LEMMA LabelFacts ==
    \A p \in Portals :
        /\ p \in Calling /\ StoreAt[p] \in Calling /\ PostAt[p] \in Calling
        /\ NextPortal[p] \in Calling
        /\ p \in ToStore[p] /\ StoreAt[p] \in ToStore[p] /\ PostAt[p] \notin ToStore[p]
        /\ NextPortal[p] \notin ToStore[p] /\ NextPortal[p] # StoreAt[p]
        /\ ToStore[p] \subseteq Calling
        /\ \A q \in Portals :
              /\ p \in ToStore[q] <=> StoreAt[p] \in ToStore[q]
              /\ q # p => (StoreAt[p] \in ToStore[q] <=> PostAt[p] \in ToStore[q])
              /\ PostAt[p] \in ToStore[q] <=> NextPortal[p] \in ToStore[q]
              /\ q # p => StoreAt[q] # StoreAt[p] /\ PostAt[q] # PostAt[p]
              /\ StoreAt[q] # PostAt[p] /\ StoreAt[q] # NextPortal[p] /\ StoreAt[q] # p
BY DEF Portals, StoreAt, PostAt, NextPortal, ToStore, Calling

\* A thread that moves on in its call.
LEMMA CallMoves ==
    ASSUME IInv, NEW t \in Threads, pc[t] \in Calling, NEW l \in Calling,
           pc' = [pc EXCEPT ![t] = l], UNCHANGED <<cur, waiting, which>>,
           \A q \in Calls : req'[q].kind = req[q].kind
    PROVE  \A u \in Threads : ThreadInv(u)'
<1> SUFFICES ASSUME NEW u \in Threads PROVE ThreadInv(u)'
    OBVIOUS
<1>1. ThreadInv(u) /\ Types
    BY DEF IInv
<1>2. pc'[u] \in Calling <=> pc[u] \in Calling
    BY <1>1 DEF Types
<1>3. pc[u] \in Calling => cur[u] \in Calls
    BY <1>1 DEF Types, ThreadInv
<1>4. ~(\E l2 \in Calling : l2 \in Awaiting \/ l2 \in {"result", "cleanup"})
    BY DEF Calling, Awaiting
<1>5. /\ pc'[u] \in Awaiting <=> pc[u] \in Awaiting
      /\ pc'[u] \in {"result", "cleanup"} => pc[u] \in {"result", "cleanup"}
    BY <1>1, <1>4 DEF Types
<1> QED BY <1>1, <1>2, <1>3, <1>5 DEF ThreadInv

LEMMA LoadInv ==
    ASSUME IInv, NEW t \in Threads, NEW p \in Portals, LoadCounter(t, p)
    PROVE  IInv'
<1>1. Types /\ ThreadInv(t) /\ CountInv /\ RegInv
    BY DEF IInv
<1>2. /\ pc[t] = p /\ pc' = [pc EXCEPT ![t] = StoreAt[p]]
      /\ reg' = [reg EXCEPT ![t] = counter[p]]
      /\ UNCHANGED <<counter, req, cur, waiting, which, netVars, told, stray>>
    BY DEF LoadCounter, Counted, Goto
<1>3. Types'
    BY <1>1, <1>2, LabelFacts DEF Types, netVars
<1>4. \A u \in Threads : ThreadInv(u)'
    BY <1>2, LabelFacts, CallMoves
<1>5. ASSUME NEW q \in Portals PROVE Past(q)' = Past(q)
    <2>1. \A u \in Threads : pc'[u] \in ToStore[q] <=> pc[u] \in ToStore[q]
        BY <1>1, <1>2, LabelFacts DEF Types
    <2> QED BY <1>2, <2>1 DEF Past
<1>6. \A q \in Portals : counter[q] \in Nat /\ counter[q] <= Cardinality(Past(q)) /\ Cardinality(Past(q)) <= MaxCalls
                         /\ Cardinality(Past(q)) \in Nat
    BY <1>1, PastFinite DEF CountInv, Types
<1>7. CountInv'
    <2> SUFFICES ASSUME NEW q \in Portals
                 PROVE  /\ counter'[q] <= Cardinality(Past(q)')
                        /\ \A u \in Threads : pc'[u] = StoreAt[q] => reg'[u] <= Cardinality(Past(q)')
        BY DEF CountInv
    <2>1. Past(q)' = Past(q)
        BY <1>5
    <2>2. ASSUME NEW u \in Threads, pc'[u] = StoreAt[q]
          PROVE  reg'[u] <= Cardinality(Past(q))
        <3>1. CASE u = t
            <4>1. q = p /\ reg'[t] = counter[p]
                BY <1>1, <1>2, <2>2, <3>1, LabelFacts DEF Types
            <4> QED BY <1>6, <3>1, <4>1
        <3>2. CASE u # t
            BY <1>1, <1>2, <2>2, <3>2 DEF Types, CountInv
        <3> QED BY <3>1, <3>2
    <2> QED BY <1>2, <1>6, <2>1, <2>2
<1>8. RegInv'
    <2> SUFFICES ASSUME NEW u \in Threads PROVE reg'[u] <= MaxCalls
        BY DEF RegInv
    <2>1. reg'[u] = reg[u] \/ reg'[u] = counter[p]
        BY <1>1, <1>2 DEF Types
    <2>2. reg[u] <= MaxCalls
        BY <1>1 DEF RegInv
    <2>3. counter[p] <= MaxCalls
        BY <1>6, ClientAssumption
    <2> QED BY <2>1, <2>2, <2>3
<1> QED BY <1>3, <1>4, <1>7, <1>8 DEF IInv

LEMMA StoreInv ==
    ASSUME IInv, NEW t \in Threads, NEW p \in Portals, StoreCounter(t, p)
    PROVE  IInv'
<1>1. Types /\ (\A u \in Threads : ThreadInv(u)) /\ CountInv /\ RegInv
    BY DEF IInv
<1>2. /\ pc[t] = StoreAt[p] /\ pc' = [pc EXCEPT ![t] = PostAt[p]]
      /\ counter' = [counter EXCEPT ![p] = reg[t] + 1]
      /\ UNCHANGED <<reg, req, cur, waiting, which, netVars, told, stray>>
    BY DEF StoreCounter, Goto
<1>3. Types'
    <2>1. reg[t] + 1 \in Nat
        BY <1>1 DEF Types
    <2> QED BY <1>1, <1>2, <2>1, LabelFacts DEF Types, netVars
<1>4. \A u \in Threads : ThreadInv(u)'
    BY <1>2, LabelFacts, CallMoves
<1>5. ASSUME NEW q \in Portals, q # p PROVE Past(q)' = Past(q)
    <2>1. \A u \in Threads : pc'[u] \in ToStore[q] <=> pc[u] \in ToStore[q]
        BY <1>1, <1>2, <1>5, LabelFacts DEF Types
    <2> QED BY <1>2, <2>1 DEF Past
<1>6. cur[t] \in Calls /\ req[cur[t]].kind # None /\ \A u \in Threads : u # t => cur[u] # cur[t]
    BY <1>1, <1>2, LabelFacts DEF ThreadInv, Types
<1>7. Past(p)' = Past(p) \cup {cur[t]} /\ cur[t] \notin Past(p)
    <2>1. \A u \in Threads : u # t => pc'[u] = pc[u]
        BY <1>1, <1>2 DEF Types
    <2>2. pc'[t] \notin ToStore[p] /\ pc[t] \in ToStore[p]
        BY <1>1, <1>2, LabelFacts DEF Types
    <2> QED BY <1>2, <1>6, <2>1, <2>2 DEF Past
<1>8. Cardinality(Past(p)') = Cardinality(Past(p)) + 1
    BY <1>1, <1>7, PastFinite, FS_AddElement
<1>9. /\ Cardinality(Past(p)) \in Nat
      /\ counter[p] <= Cardinality(Past(p)) /\ reg[t] <= Cardinality(Past(p))
      /\ reg[t] \in Nat
    BY <1>1, <1>2, PastFinite DEF CountInv, Types
<1>10. CountInv'
    <2> SUFFICES ASSUME NEW q \in Portals
                 PROVE  /\ counter'[q] <= Cardinality(Past(q)')
                        /\ \A u \in Threads : pc'[u] = StoreAt[q] => reg'[u] <= Cardinality(Past(q)')
        BY DEF CountInv
    <2>1. \A u \in Threads : pc'[u] = StoreAt[q] => pc[u] = StoreAt[q]
        BY <1>1, <1>2, LabelFacts DEF Types
    <2>2. CASE q = p
        <3>1. counter'[p] = reg[t] + 1
            BY <1>1, <1>2 DEF Types
        <3>2. \A u \in Threads : pc[u] = StoreAt[p] => reg[u] <= Cardinality(Past(p)) /\ reg[u] \in Nat
            BY <1>1 DEF CountInv, Types
        <3> QED BY <1>2, <1>8, <1>9, <2>1, <2>2, <3>1, <3>2
    <2>3. CASE q # p
        <3>1. counter'[q] = counter[q] /\ Past(q)' = Past(q)
            BY <1>1, <1>2, <1>5, <2>3 DEF Types
        <3> QED BY <1>1, <1>2, <2>1, <3>1 DEF CountInv
    <2> QED BY <2>2, <2>3
<1>11. RegInv'
    BY <1>1, <1>2 DEF RegInv
<1> QED BY <1>3, <1>4, <1>10, <1>11 DEF IInv

\* Posting an entry: the bits and the queue of the request.
LEMMA PostShape ==
    ASSUME IInv, NEW t \in Threads, NEW p \in Portals, Post(t, p)
    PROVE  /\ pc[t] = PostAt[p] /\ pc' = [pc EXCEPT ![t] = NextPortal[p]]
           /\ cur[t] \in Calls /\ req[cur[t]] \in Request
           /\ UNCHANGED <<counter, reg, cur, waiting, which, svc, inbox, argsTaken, touched, told>>
           /\ \/ p = "data" /\ req[cur[t]].kind # "data" /\ UNCHANGED <<req, entries>>
              \/ /\ ~(p = "data" /\ req[cur[t]].kind # "data")
                 /\ \E b \in Nat :
                      /\ b = IF p = "args" THEN reg[t] ELSE counter[p]
                      /\ req' = [req EXCEPT ![cur[t]] =
                              [req[cur[t]] EXCEPT !.bits = [@ EXCEPT ![p] = b], !.queues = @ \cup {p}]]
                      /\ entries' = Append(entries, [portal |-> p, bits |-> b, req |-> cur[t]])
<1>1. pc[t] = PostAt[p] /\ pc' = [pc EXCEPT ![t] = NextPortal[p]]
    BY DEF Post, Goto
<1>2. cur[t] \in Calls
    BY <1>1, LabelFacts DEF IInv, ThreadInv, Types
<1>3. req \in [Calls -> Request]
    BY DEF IInv, Types
<1>4. req[cur[t]] \in Request
    BY <1>2, <1>3
<1>5. UNCHANGED <<counter, reg, cur, waiting, which, svc, inbox, argsTaken, touched, told>>
    BY DEF Post
<1>6. PICK b \in Nat : b = IF p = "args" THEN reg[t] ELSE counter[p]
    BY DEF IInv, Types
<1>7. CASE p = "data" /\ req[cur[t]].kind # "data"
    <2>1. UNCHANGED <<req, entries>>
        BY <1>7 DEF Post
    <2> QED BY <1>1, <1>2, <1>4, <1>5, <1>7, <2>1
<1>8. CASE ~(p = "data" /\ req[cur[t]].kind # "data")
    <2>1. /\ req' = [req EXCEPT ![cur[t]].bits[p] = b, ![cur[t]].queues = @ \cup {p}]
          /\ entries' = Append(entries, [portal |-> p, bits |-> b, req |-> cur[t]])
        BY <1>6, <1>8 DEF Post
    <2>2. req' = [req EXCEPT ![cur[t]] =
                    [req[cur[t]] EXCEPT !.bits = [@ EXCEPT ![p] = b], !.queues = @ \cup {p}]]
        BY <1>2, <1>3, <1>4, <2>1 DEF Request
    <2> QED BY <1>1, <1>2, <1>4, <1>5, <1>6, <1>8, <2>1, <2>2
<1> QED BY <1>7, <1>8

LEMMA PostInv ==
    ASSUME IInv, NEW t \in Threads, NEW p \in Portals, Post(t, p)
    PROVE  IInv'
<1>1. Types
    BY DEF IInv
<1>2. /\ pc[t] = PostAt[p] /\ pc' = [pc EXCEPT ![t] = NextPortal[p]]
      /\ UNCHANGED <<counter, reg, cur, waiting, which, svc, inbox, argsTaken, touched, told>>
    BY PostShape
<1>3. /\ req' \in [Calls -> Request] /\ entries' \in Seq(Entry)
      /\ \A q \in Calls : req'[q].kind = req[q].kind
    <2>1. CASE UNCHANGED <<req, entries>>
        BY <1>1, <2>1 DEF Types
    <2>2. ASSUME NEW b \in Nat, cur[t] \in Calls, req[cur[t]] \in Request,
                 req' = [req EXCEPT ![cur[t]] =
                    [req[cur[t]] EXCEPT !.bits = [@ EXCEPT ![p] = b], !.queues = @ \cup {p}]],
                 entries' = Append(entries, [portal |-> p, bits |-> b, req |-> cur[t]])
          PROVE  /\ req' \in [Calls -> Request] /\ entries' \in Seq(Entry)
                 /\ \A q \in Calls : req'[q].kind = req[q].kind
        <3>1. [portal |-> p, bits |-> b, req |-> cur[t]] \in Entry
            BY <2>2 DEF Entry
        <3>2. entries' \in Seq(Entry)
            BY <1>1, <2>2, <3>1 DEF Types
        <3>3. [req[cur[t]] EXCEPT !.bits = [@ EXCEPT ![p] = b], !.queues = @ \cup {p}] \in Request
            BY <2>2 DEF Request
        <3>4. [req[cur[t]] EXCEPT !.bits = [@ EXCEPT ![p] = b], !.queues = @ \cup {p}].kind = req[cur[t]].kind
            BY <2>2 DEF Request
        <3> QED BY <1>1, <2>2, <3>2, <3>3, <3>4 DEF Types
    <2>3. CASE ~(p = "data" /\ req[cur[t]].kind # "data")
        <3>1. \E b \in Nat :
                 /\ b = IF p = "args" THEN reg[t] ELSE counter[p]
                 /\ req' = [req EXCEPT ![cur[t]] =
                        [req[cur[t]] EXCEPT !.bits = [@ EXCEPT ![p] = b], !.queues = @ \cup {p}]]
                 /\ entries' = Append(entries, [portal |-> p, bits |-> b, req |-> cur[t]])
            BY <2>3, PostShape, Zenon
        <3>2. cur[t] \in Calls /\ req[cur[t]] \in Request
            BY PostShape
        <3> QED BY <2>2, <3>1, <3>2
    <2>4. (p = "data" /\ req[cur[t]].kind # "data") => UNCHANGED <<req, entries>>
        BY PostShape
    <2> QED BY <2>1, <2>3, <2>4
<1>4. Types'
    BY <1>1, <1>2, <1>3, LabelFacts DEF Types
<1>5. \A u \in Threads : ThreadInv(u)'
    BY <1>2, <1>3, LabelFacts, CallMoves
<1>6. ASSUME NEW q \in Portals PROVE Past(q) \subseteq Past(q)'
    <2>1. \A u \in Threads : pc'[u] \in ToStore[q] <=> pc[u] \in ToStore[q]
        BY <1>1, <1>2, LabelFacts DEF Types
    <2> QED BY <1>2, <1>3, <2>1 DEF Past
<1>7. \A u \in Threads, q \in Portals : pc'[u] = StoreAt[q] => pc[u] = StoreAt[q]
    BY <1>1, <1>2, LabelFacts DEF Types
<1> QED BY <1>2, <1>4, <1>5, <1>6, <1>7, CountKept DEF IInv

LEMMA ShortInv ==
    ASSUME IInv, NEW t \in Threads, ShortArgs(t)
    PROVE  IInv'
<1>1. Types
    BY DEF IInv
<1>2. /\ pc[t] = "args" /\ pc' = [pc EXCEPT ![t] = "put"]
      /\ UNCHANGED <<counter, reg, req, cur, waiting, which, netVars, told, stray>>
    BY DEF ShortArgs, Goto
<1>3. "args" \in Calling /\ "put" \in Calling /\ \A q \in Portals : "put" \notin ToStore[q] /\ "put" # StoreAt[q]
    BY DEF Calling, ToStore, Portals, StoreAt
<1>4. Types'
    BY <1>1, <1>2, <1>3 DEF Types, netVars
<1>5. \A u \in Threads : ThreadInv(u)'
    BY <1>2, <1>3, CallMoves
<1>6. ASSUME NEW q \in Portals PROVE Past(q) \subseteq Past(q)'
    <2>1. \A u \in Threads : pc'[u] \in ToStore[q] => pc[u] \in ToStore[q]
        BY <1>1, <1>2, <1>3 DEF Types
    <2> QED BY <1>2, <2>1 DEF Past
<1>7. \A u \in Threads, q \in Portals : pc'[u] = StoreAt[q] => pc[u] = StoreAt[q]
    BY <1>1, <1>2, <1>3 DEF Types
<1> QED BY <1>2, <1>4, <1>5, <1>6, <1>7, CountKept DEF IInv

\* A change of one request that leaves what it is.
LEMMA Changed ==
    ASSUME Types, NEW r \in Calls, NEW f \in Request, f.kind = req[r].kind,
           req' = [req EXCEPT ![r] = f]
    PROVE  req' \in [Calls -> Request] /\ \A q \in Calls : req'[q].kind = req[q].kind
BY DEF Types

\* The outcomes of putting the request.
LEMMA PutShape ==
    ASSUME Types, NEW t \in Threads, cur[t] \in Calls, PutRequest(t)
    PROVE  /\ pc[t] = "put" /\ pc' = [pc EXCEPT ![t] = "idle"]
           /\ cur' = [cur EXCEPT ![t] = None]
           /\ UNCHANGED <<counter, reg, waiting, which, entries, inbox, argsTaken, touched>>
           /\ \/ UNCHANGED req
              \/ req' = [req EXCEPT ![cur[t]] = [req[cur[t]] EXCEPT !.status = "PROCESSING_REQUEST"]]
           /\ svc' = svc \/ svc' = [svc EXCEPT ![cur[t]] = "sent"]
           /\ \/ UNCHANGED told
              \/ told' = [told EXCEPT ![cur[t]] = "failed"]
<1>1. req \in [Calls -> Request] /\ req[cur[t]] \in Request
    BY DEF Types
<1>2. req' = [req EXCEPT ![cur[t]].status = "PROCESSING_REQUEST"] =>
        req' = [req EXCEPT ![cur[t]] = [req[cur[t]] EXCEPT !.status = "PROCESSING_REQUEST"]]
    BY <1>1 DEF Request
<1> QED BY <1>2 DEF PutRequest, Goto

LEMMA PutInv ==
    ASSUME IInv, NEW t \in Threads, PutRequest(t)
    PROVE  IInv'
<1>1. Types /\ \A u \in Threads : ThreadInv(u)
    BY DEF IInv
<1>2. cur[t] \in Calls
    BY <1>1 DEF PutRequest, ThreadInv, Calling, Types
<1>3. /\ pc[t] = "put" /\ pc' = [pc EXCEPT ![t] = "idle"]
      /\ cur' = [cur EXCEPT ![t] = None]
      /\ UNCHANGED <<counter, reg, waiting, which, entries, inbox, argsTaken, touched>>
    BY <1>1, <1>2, PutShape
<1>4. /\ req' \in [Calls -> Request]
      /\ \A q \in Calls : req'[q].kind = req[q].kind
    <2>1. CASE UNCHANGED req
        BY <1>1, <2>1 DEF Types
    <2>2. CASE req' = [req EXCEPT ![cur[t]] = [req[cur[t]] EXCEPT !.status = "PROCESSING_REQUEST"]]
        <3>1. PICK f : f = [req[cur[t]] EXCEPT !.status = "PROCESSING_REQUEST"]
            OBVIOUS
        <3>2. req[cur[t]] \in Request
            BY <1>1, <1>2 DEF Types
        <3>3. f \in Request /\ f.kind = req[cur[t]].kind
            BY <3>1, <3>2 DEF Request, Statuses
        <3> QED BY <1>1, <1>2, <2>2, <3>1, <3>3, Changed
    <2> QED BY <1>1, <1>2, <2>1, <2>2, PutShape
<1>5. svc' \in [Calls -> {"none", "sent", "dropped", "called", "ran", "answered"}]
    BY <1>1, <1>2, PutShape DEF Types
<1>6. told' \in [Calls -> Outcomes \cup {None}]
    <2>1. told \in [Calls -> Outcomes \cup {None}] /\ "failed" \in Outcomes
        BY <1>1 DEF Types, Outcomes
    <2> QED BY <1>1, <1>2, <2>1, PutShape
<1>7. Types'
    BY <1>1, <1>3, <1>4, <1>5, <1>6 DEF Types
<1>8. ASSUME NEW u \in Threads PROVE ThreadInv(u)'
    <2>1. CASE u = t
        BY <1>1, <1>3, <2>1 DEF Types, ThreadInv, Calling, Awaiting
    <2>2. CASE u # t
        <3>1. pc'[u] = pc[u] /\ cur'[u] = cur[u] /\ waiting'[u] = waiting[u] /\ which'[u] = which[u]
            BY <1>1, <1>3, <2>2 DEF Types
        <3>2. pc[u] \in Calling => req'[cur[u]].kind # None
            BY <1>1, <1>4 DEF Types, ThreadInv
        <3>3. \A v \in Threads : cur'[v] = cur[v] \/ cur'[v] = None
            BY <1>1, <1>3 DEF Types
        <3>4. \A v \in Threads : v # u /\ cur[u] # None => cur'[v] # cur[u]
            BY <1>1, <3>3 DEF ThreadInv
        <3> QED BY <1>1, <3>1, <3>2, <3>4 DEF ThreadInv
    <2> QED BY <2>1, <2>2
<1>9. ASSUME NEW q \in Portals PROVE Past(q) \subseteq Past(q)'
    <2>0. "idle" \notin ToStore[q]
        BY DEF ToStore, Portals
    <2>1. \A u \in Threads : pc'[u] \in ToStore[q] => pc[u] \in ToStore[q]
        BY <1>1, <1>3, <2>0 DEF Types
    <2>2. \A u \in Threads, r \in Calls : cur'[u] = r => cur[u] = r
        BY <1>1, <1>3, NoneAssumption DEF Types
    <2> QED BY <1>4, <2>1, <2>2 DEF Past
<1>10. \A u \in Threads, q \in Portals : pc'[u] = StoreAt[q] => pc[u] = StoreAt[q]
    BY <1>1, <1>3 DEF Types, StoreAt, Portals
<1> QED BY <1>3, <1>7, <1>8, <1>9, <1>10, CountKept DEF IInv
-----------------------------------------------------------------------------
(* Waiting.                                                                *)

\* What a step of a wait leaves alone.
LEMMA WaitMoves ==
    ASSUME IInv, Types', NEW t \in Threads, pc[t] \notin Calling, pc'[t] \notin Calling,
           \A u \in Threads \ {t} : pc'[u] = pc[u] /\ waiting'[u] = waiting[u] /\ which'[u] = which[u],
           UNCHANGED <<counter, reg, cur>>, \A q \in Calls : req'[q].kind = req[q].kind,
           waiting'[t] # {} <=> pc'[t] \in Awaiting,
           which'[t] # None => which'[t] \in waiting'[t],
           pc'[t] \in {"result", "cleanup"} => which'[t] # None
    PROVE  IInv'
<1>1. Types /\ \A u \in Threads : ThreadInv(u)
    BY DEF IInv
<1>2. ASSUME NEW u \in Threads PROVE ThreadInv(u)'
    <2>1. pc'[u] \in Calling <=> pc[u] \in Calling
        OBVIOUS
    <2>2. pc[u] \in Calling => req'[cur[u]].kind # None
        <3>1. pc[u] \in Calling => cur[u] \in Calls /\ req[cur[u]].kind # None
            BY <1>1 DEF Types, ThreadInv
        <3> QED BY <3>1
    <2>3. CASE u = t
        BY <1>1, <2>1, <2>2, <2>3 DEF ThreadInv
    <2>4. CASE u # t
        BY <1>1, <2>1, <2>2, <2>4 DEF ThreadInv
    <2> QED BY <2>3, <2>4
<1>3. \A q \in Portals : ToStore[q] \subseteq Calling /\ StoreAt[q] \in Calling
    BY LabelFacts
<1>4. ASSUME NEW q \in Portals PROVE Past(q) \subseteq Past(q)'
    BY <1>3 DEF Past
<1>5. \A u \in Threads, q \in Portals : pc'[u] = StoreAt[q] => pc[u] = StoreAt[q]
    BY <1>3
<1> QED BY <1>2, <1>4, <1>5, CountKept DEF IInv

LEMMA StatusSet ==
    ASSUME Types, NEW r \in Calls, NEW c \in Statuses
    PROVE  /\ [req[r] EXCEPT !.status = c] \in Request
           /\ [req[r] EXCEPT !.status = c].kind = req[r].kind
           /\ [req EXCEPT ![r].status = c] = [req EXCEPT ![r] = [req[r] EXCEPT !.status = c]]
<1>1. req[r] \in Request /\ req \in [Calls -> Request]
    BY DEF Types
<1>2. [req[r] EXCEPT !.status = c] \in Request /\ [req[r] EXCEPT !.status = c].kind = req[r].kind
    BY <1>1 DEF Request
<1> QED BY <1>1, <1>2

LEMMA QueuesSet ==
    ASSUME Types, NEW r \in Calls, NEW Q \in SUBSET Portals
    PROVE  /\ [req[r] EXCEPT !.queues = Q] \in Request
           /\ [req[r] EXCEPT !.queues = Q].kind = req[r].kind
           /\ [req EXCEPT ![r].queues = Q] = [req EXCEPT ![r] = [req[r] EXCEPT !.queues = Q]]
           /\ req[r].queues \in SUBSET Portals
<1>1. req[r] \in Request /\ req \in [Calls -> Request]
    BY DEF Types
<1>2. /\ [req[r] EXCEPT !.queues = Q] \in Request /\ [req[r] EXCEPT !.queues = Q].kind = req[r].kind
      /\ req[r].queues \in SUBSET Portals
    BY <1>1 DEF Request
<1> QED BY <1>1, <1>2

LEMMA FinishShape ==
    ASSUME Types, NEW t \in Threads, NEW r \in Calls, NEW code \in Outcomes, Finish(t, r, code)
    PROVE  /\ told' \in [Calls -> Outcomes \cup {None}]
           /\ pc' \in [Threads -> {"idle"} \cup Calling \cup Awaiting]
           /\ waiting' \in [Threads -> SUBSET Calls]
           /\ which' \in [Threads -> Calls \cup {None}]
           /\ pc'[t] = "idle" /\ waiting'[t] = {} /\ which'[t] = None
           /\ \A u \in Threads \ {t} : pc'[u] = pc[u] /\ waiting'[u] = waiting[u] /\ which'[u] = which[u]
BY DEF Types, Finish, Goto

\* The end of a wait.
LEMMA FinishInv ==
    ASSUME IInv, NEW t \in Threads, NEW r \in Calls, NEW code \in Outcomes, Finish(t, r, code),
           pc[t] \notin Calling, UNCHANGED <<counter, reg, cur, svc, inbox, argsTaken, touched>>,
           entries' \in Seq(Entry), req' \in [Calls -> Request],
           \A q \in Calls : req'[q].kind = req[q].kind
    PROVE  IInv'
<1>1. Types
    BY DEF IInv
<1>2. Types'
    BY <1>1, FinishShape DEF Types
<1>3. "idle" \notin Calling /\ "idle" \notin Awaiting /\ "idle" \notin {"result", "cleanup"}
    BY DEF Calling, Awaiting
<1> QED BY <1>1, <1>2, <1>3, FinishShape, WaitMoves

LEMMA WaitStartInv ==
    ASSUME IInv, NEW t \in Threads, NEW S \in SUBSET Calls, Wait(t, S)
    PROVE  IInv'
<1>1. Types /\ ThreadInv(t)
    BY DEF IInv
<1>2. /\ pc[t] = "idle" /\ S # {} /\ pc' = [pc EXCEPT ![t] = "poll"]
      /\ waiting' = [waiting EXCEPT ![t] = S]
      /\ UNCHANGED <<counter, reg, req, cur, which, netVars, told, stray>>
    BY DEF Wait, Goto
<1>3. which[t] = None
    BY <1>1, <1>2 DEF ThreadInv, Awaiting
<1>4. Types'
    BY <1>1, <1>2 DEF Types, netVars, Awaiting
<1>5. "idle" \notin Calling /\ "poll" \notin Calling /\ "poll" \in Awaiting /\ "poll" \notin {"result", "cleanup"}
    BY DEF Calling, Awaiting
<1>6. pc'[t] = "poll" /\ waiting'[t] = S
    BY <1>1, <1>2 DEF Types
<1>7. \A u \in Threads \ {t} : pc'[u] = pc[u] /\ waiting'[u] = waiting[u] /\ which'[u] = which[u]
    BY <1>1, <1>2 DEF Types
<1> QED BY <1>2, <1>3, <1>4, <1>5, <1>6, <1>7, WaitMoves

LEMMA PollFirstInv ==
    ASSUME IInv, NEW t \in Threads, NEW r \in Calls, PollFirst(t, r)
    PROVE  IInv'
<1>1. Types /\ ThreadInv(t)
    BY DEF IInv
<1>2. /\ pc[t] = "poll" /\ r \in waiting[t] /\ which' = [which EXCEPT ![t] = r]
      /\ UNCHANGED <<counter, reg, req, pc, cur, waiting, netVars, told, stray>>
    BY DEF PollFirst
<1>3. Types'
    BY <1>1, <1>2 DEF Types, netVars
<1>4. "poll" \notin Calling /\ "poll" \in Awaiting /\ "poll" \notin {"result", "cleanup"}
    BY DEF Calling, Awaiting
<1>5. which'[t] = r /\ \A u \in Threads \ {t} : which'[u] = which[u]
    BY <1>1, <1>2 DEF Types
<1>6. waiting'[t] # {} /\ pc'[t] = "poll" /\ pc'[t] \in Awaiting
    BY <1>2, <1>4
<1> QED BY <1>2, <1>3, <1>4, <1>5, <1>6, WaitMoves

\* The request of a wait that has its first event.
LEMMA WhichFacts ==
    ASSUME IInv, NEW t \in Threads, which[t] # None
    PROVE  /\ which[t] \in Calls /\ which[t] \in waiting[t]
           /\ pc[t] \in Awaiting /\ pc[t] \notin Calling
BY DEF IInv, Types, ThreadInv, Calling, Awaiting

LEMMA PollRestInv ==
    ASSUME IInv, NEW t \in Threads, PollRest(t)
    PROVE  IInv'
<1>1. Types /\ ThreadInv(t)
    BY DEF IInv
<1>2. /\ pc[t] = "poll" /\ which[t] # None /\ pc' = [pc EXCEPT ![t] = "result"]
      /\ req' = [req EXCEPT ![which[t]].status = "PROCESSING_RESULT"]
      /\ UNCHANGED <<counter, reg, cur, waiting, which, netVars, told, stray>>
    BY DEF PollRest, Goto
<1>3. which[t] \in Calls /\ which[t] \in waiting[t] /\ pc[t] \notin Calling
    BY <1>2, WhichFacts
<1>4. PICK f : f = [req[which[t]] EXCEPT !.status = "PROCESSING_RESULT"]
    OBVIOUS
<1>5. f \in Request /\ f.kind = req[which[t]].kind /\ req' = [req EXCEPT ![which[t]] = f]
    BY <1>1, <1>2, <1>3, <1>4, StatusSet DEF Statuses
<1>6. req' \in [Calls -> Request] /\ \A q \in Calls : req'[q].kind = req[q].kind
    BY <1>1, <1>3, <1>5, Changed
<1>7. Types'
    BY <1>1, <1>2, <1>6 DEF Types, netVars, Awaiting
<1>8. "result" \notin Calling /\ "result" \in Awaiting
    BY DEF Calling, Awaiting
<1>9. pc'[t] = "result" /\ \A u \in Threads \ {t} : pc'[u] = pc[u]
    BY <1>1, <1>2 DEF Types
<1>10. waiting'[t] # {} /\ which'[t] # None /\ which'[t] \in waiting'[t]
    BY <1>2, <1>3
<1>11. waiting'[t] # {} <=> pc'[t] \in Awaiting
    BY <1>8, <1>9, <1>10
<1> QED BY <1>2, <1>3, <1>6, <1>7, <1>8, <1>9, <1>10, <1>11, WaitMoves

LEMMA TimeOutEarlyInv ==
    ASSUME IInv, NEW t \in Threads, TimeOutEarly(t)
    PROVE  IInv'
<1>1. Types
    BY DEF IInv
<1>2. pc[t] = "poll" /\ pc[t] \notin Calling /\ UNCHANGED <<counter, reg, cur, netVars>>
    BY DEF TimeOutEarly, Calling
<1>3. "OK" \in Outcomes /\ "ERR_RPC" \in Outcomes
    BY DEF Outcomes
<1>4. PICK r \in waiting[t] :
        \/ Finish(t, r, "ERR_RPC") /\ UNCHANGED req
        \/ \E q \in Calls, p \in Portals, code \in {"OK", "ERR_RPC"} :
              req' = [req EXCEPT ![q].queues = @ \ {p}] /\ Finish(t, r, code)
    BY DEF TimeOutEarly
<1>5. r \in Calls
    BY <1>1 DEF Types
<1>6. entries' \in Seq(Entry)
    BY <1>1, <1>2 DEF Types, netVars
<1>7. CASE Finish(t, r, "ERR_RPC") /\ UNCHANGED req
    <2>1. req' \in [Calls -> Request]
        BY <1>1, <1>7 DEF Types
    <2> QED BY <1>2, <1>3, <1>5, <1>6, <1>7, <2>1, FinishInv DEF netVars
<1>8. ASSUME NEW q \in Calls, NEW p \in Portals, NEW code \in {"OK", "ERR_RPC"},
             req' = [req EXCEPT ![q].queues = @ \ {p}], Finish(t, r, code)
      PROVE  IInv'
    <2>1. PICK f : f = [req[q] EXCEPT !.queues = @ \ {p}]
        OBVIOUS
    <2>2. f \in Request /\ f.kind = req[q].kind /\ req' = [req EXCEPT ![q] = f]
        <3>1. req[q] \in Request
            BY <1>1 DEF Types
        <3>2. f \in Request /\ f.kind = req[q].kind
            BY <2>1, <3>1 DEF Request
        <3> QED BY <1>8, <2>1, <3>2
    <2>3. req' \in [Calls -> Request] /\ \A q2 \in Calls : req'[q2].kind = req[q2].kind
        BY <1>1, <2>2, Changed
    <2>4. code \in Outcomes
        BY <1>3
    <2> QED BY <1>2, <1>5, <1>6, <1>8, <2>3, <2>4, FinishInv DEF netVars
<1> QED BY <1>4, <1>7, <1>8

LEMMA TimeOutHalfwayInv ==
    ASSUME IInv, NEW t \in Threads, TimeOutHalfway(t)
    PROVE  IInv'
<1>1. Types
    BY DEF IInv
<1>2. /\ pc[t] = "poll" /\ which[t] # None /\ UNCHANGED <<counter, reg, cur, netVars>>
      /\ req' = [req EXCEPT ![which[t]].queues = @ \ {"res"}]
      /\ Finish(t, which[t], "ERR_RPC")
    BY DEF TimeOutHalfway
<1>3. which[t] \in Calls /\ pc[t] \notin Calling
    BY <1>2, WhichFacts
<1>4. PICK f \in Request : f.kind = req[which[t]].kind /\ req' = [req EXCEPT ![which[t]] = f]
    <2>1. PICK Q : Q = req[which[t]].queues \ {"res"}
        OBVIOUS
    <2>2. Q \in SUBSET Portals
        BY <1>1, <1>3, <2>1 DEF Types, Request
    <2>3. req' = [req EXCEPT ![which[t]].queues = Q]
        BY <1>2, <2>1
    <2> QED BY <1>1, <1>3, <2>2, <2>3, QueuesSet
<1>5. req' \in [Calls -> Request] /\ \A q \in Calls : req'[q].kind = req[q].kind
    BY <1>1, <1>3, <1>4, Changed
<1>6. entries' \in Seq(Entry) /\ "ERR_RPC" \in Outcomes
    BY <1>1, <1>2 DEF Types, netVars, Outcomes
<1> QED BY <1>2, <1>3, <1>5, <1>6, FinishInv DEF netVars

LEMMA ProcessResultInv ==
    ASSUME IInv, NEW t \in Threads, ProcessResult(t)
    PROVE  IInv'
<1>1. Types /\ ThreadInv(t)
    BY DEF IInv
<1>2. pc[t] = "result" /\ UNCHANGED <<counter, reg, cur, netVars>>
    BY DEF ProcessResult
<1>3. which[t] # None
    BY <1>1, <1>2 DEF ThreadInv
<1>4. which[t] \in Calls /\ which[t] \in waiting[t] /\ pc[t] \notin Calling
    BY <1>3, WhichFacts
<1>5. ASSUME NEW code \in {"REQUEST_ERROR", "REQUEST_COMPLETE"},
             req' = [req EXCEPT ![which[t]].status = code],
             pc' = [pc EXCEPT ![t] = "cleanup"], UNCHANGED <<waiting, which, told>>
      PROVE  IInv'
    <2>1. PICK f : f = [req[which[t]] EXCEPT !.status = code]
        OBVIOUS
    <2>2. f \in Request /\ f.kind = req[which[t]].kind /\ req' = [req EXCEPT ![which[t]] = f]
        BY <1>1, <1>4, <1>5, <2>1, StatusSet DEF Statuses
    <2>3. req' \in [Calls -> Request] /\ \A q \in Calls : req'[q].kind = req[q].kind
        BY <1>1, <1>4, <2>2, Changed
    <2>4. Types'
        BY <1>1, <1>2, <1>5, <2>3 DEF Types, netVars, Awaiting
    <2>5. "cleanup" \notin Calling /\ "cleanup" \in Awaiting
        BY DEF Calling, Awaiting
    <2>6. pc'[t] = "cleanup" /\ \A u \in Threads \ {t} : pc'[u] = pc[u]
        BY <1>1, <1>5 DEF Types
    <2>7. waiting'[t] # {} /\ which'[t] # None /\ which'[t] \in waiting'[t]
        BY <1>3, <1>4, <1>5
    <2>8. waiting'[t] # {} <=> pc'[t] \in Awaiting
        BY <2>5, <2>6, <2>7
    <2> QED BY <1>2, <1>4, <1>5, <2>3, <2>4, <2>5, <2>6, <2>7, <2>8, WaitMoves
<1>6. CASE Finish(t, which[t], "ERR_RPC") /\ UNCHANGED req
    <2>1. entries' \in Seq(Entry) /\ "ERR_RPC" \in Outcomes /\ req' \in [Calls -> Request]
        BY <1>1, <1>2, <1>6 DEF Types, netVars, Outcomes
    <2> QED BY <1>2, <1>4, <1>6, <2>1, FinishInv DEF netVars
<1> QED BY <1>5, <1>6 DEF ProcessResult, Goto

\* What is unlinked at the end of a wait, and what is told.
LEMMA CleanUpShape ==
    ASSUME IInv, NEW t \in Threads, CleanUp(t)
    PROVE  /\ pc[t] = "cleanup" /\ which[t] \in Calls /\ which[t] \in waiting[t]
           /\ pc[t] \notin Calling /\ UNCHANGED <<counter, reg, cur, svc, inbox, argsTaken, touched>>
           /\ "args" \in req[which[t]].queues => which[t] \in argsTaken
           /\ \E f \in Request :
                 /\ f = [req[which[t]] EXCEPT !.queues = {}]
                 /\ f.kind = req[which[t]].kind /\ req' = [req EXCEPT ![which[t]] = f]
           /\ entries' = Unlink("data", which[t]) /\ entries' \in Seq(Entry)
           /\ \E code \in Outcomes :
                 /\ code = IF req[which[t]].status = "REQUEST_ERROR" THEN "remote error" ELSE "OK"
                 /\ Finish(t, which[t], code)
<1>1. Types /\ ThreadInv(t)
    BY DEF IInv
<1>2. /\ pc[t] = "cleanup" /\ UNCHANGED <<counter, reg, cur, svc, inbox, argsTaken, touched>>
      /\ "args" \in req[which[t]].queues => which[t] \in argsTaken
      /\ req' = [req EXCEPT ![which[t]].queues = {}]
      /\ entries' = Unlink("data", which[t])
      /\ Finish(t, which[t], IF req[which[t]].status = "REQUEST_ERROR" THEN "remote error" ELSE "OK")
    BY DEF CleanUp
<1>3. which[t] # None
    BY <1>1, <1>2 DEF ThreadInv
<1>4. which[t] \in Calls /\ which[t] \in waiting[t] /\ pc[t] \notin Calling
    BY <1>3, WhichFacts
<1>5. PICK f : f = [req[which[t]] EXCEPT !.queues = {}]
    OBVIOUS
<1>6. f \in Request /\ f.kind = req[which[t]].kind /\ req' = [req EXCEPT ![which[t]] = f]
    BY <1>1, <1>2, <1>4, <1>5, QueuesSet
<1>7. entries' \in Seq(Entry)
    BY <1>1, <1>2, <1>4, Unlinked DEF Types, Portals
<1>8. PICK code : code = IF req[which[t]].status = "REQUEST_ERROR" THEN "remote error" ELSE "OK"
    OBVIOUS
<1>9. code \in Outcomes /\ Finish(t, which[t], code)
    BY <1>2, <1>8 DEF Outcomes
<1> QED BY <1>2, <1>4, <1>5, <1>6, <1>7, <1>8, <1>9

LEMMA CleanUpInv ==
    ASSUME IInv, NEW t \in Threads, CleanUp(t)
    PROVE  IInv'
<1>1. Types
    BY DEF IInv
<1>2. PICK f \in Request : f.kind = req[which[t]].kind /\ req' = [req EXCEPT ![which[t]] = f]
    BY CleanUpShape
<1>3. which[t] \in Calls
    BY CleanUpShape
<1>4. req' \in [Calls -> Request] /\ \A q \in Calls : req'[q].kind = req[q].kind
    BY <1>1, <1>2, <1>3, Changed
<1>5. PICK code \in Outcomes : Finish(t, which[t], code)
    BY CleanUpShape
<1>6. /\ pc[t] \notin Calling /\ entries' \in Seq(Entry)
      /\ UNCHANGED <<counter, reg, cur, svc, inbox, argsTaken, touched>>
    BY CleanUpShape
<1> QED BY <1>3, <1>4, <1>5, <1>6, FinishInv
-----------------------------------------------------------------------------
LEMMA NextInv == IInv /\ [Next]_vars => IInv'
<1> SUFFICES ASSUME IInv, [Next]_vars PROVE IInv'
    OBVIOUS
<1>1. CASE UNCHANGED vars
    BY <1>1 DEF IInv, Types, ThreadInv, CountInv, RegInv, Past, vars, netVars
<1>2. ASSUME NEW r \in Calls, Serve(r) PROVE IInv'
    BY <1>2, ServeInv
<1>3. ASSUME NEW t \in Threads, NEW r \in Calls, NEW k \in Kinds, Call(t, r, k) PROVE IInv'
    BY <1>3, CallInv
<1>4. ASSUME NEW t \in Threads, NEW S \in SUBSET Calls, Wait(t, S) PROVE IInv'
    BY <1>4, WaitStartInv
<1>5. ASSUME NEW t \in Threads, Step(t) PROVE IInv'
    BY <1>5, LoadInv, StoreInv, PostInv, ShortInv, PutInv, PollFirstInv, PollRestInv,
       ProcessResultInv, CleanUpInv DEF Step
<1>6. ASSUME NEW t \in Threads, TimeOutEarly(t) \/ TimeOutHalfway(t) PROVE IInv'
    BY <1>6, TimeOutEarlyInv, TimeOutHalfwayInv
<1> QED BY <1>1, <1>2, <1>3, <1>4, <1>5, <1>6 DEF Next

\* The invariant holds for any threads, calls and timeouts.
THEOREM InductiveInvariant == Spec => []IInv
BY InitInv, NextInv, PTL DEF Spec

\* The state of the client is well formed: the counters stay within the calls that count
\* (StoreCounter stores what was loaded, plus one), a thread is in a call exactly where
\* lwfs_call_rpc runs, and *which is one of the requests that are waited for.
THEOREM TypeCorrect == Spec => []TypeOK
<1>1. ASSUME IInv PROVE TypeOK
    <2>1. Types /\ (\A t \in Threads : ThreadInv(t)) /\ CountInv /\ RegInv
        BY <1>1 DEF IInv
    <2>2. counter \in [Portals -> 0 .. MaxCalls]
        <3>1. \A p \in Portals : counter[p] \in Nat /\ counter[p] <= MaxCalls
            BY <2>1, PastFinite, ClientAssumption DEF CountInv, Types
        <3> QED BY <2>1, <3>1, ClientAssumption DEF Types
    <2>3. reg \in [Threads -> 0 .. MaxCalls]
        BY <2>1, ClientAssumption DEF Types, RegInv
    <2>4. \A i \in DOMAIN entries : entries[i].portal \in Portals /\ entries[i].req \in Calls
        <3>1. entries \in Seq(Entry)
            BY <2>1 DEF Types
        <3>2. \A i \in DOMAIN entries : entries[i] \in Entry
            BY <3>1
        <3> QED BY <3>2 DEF Entry
    <2>5. \A r \in Calls : req[r].status \in Statuses /\ req[r].queues \subseteq Portals
        BY <2>1 DEF Types, Request
    <2>6. \A t \in Threads : cur[t] # None <=> pc[t] \notin {"idle", "poll", "result", "cleanup"}
        BY <2>1 DEF Types, ThreadInv, Calling, Awaiting
    <2>7. \A t \in Threads : which[t] # None => which[t] \in waiting[t]
        BY <2>1 DEF ThreadInv
    <2>8. touched \subseteq Calls \X Calls /\ argsTaken \subseteq Calls
        BY <2>1 DEF Types
    <2> QED BY <2>2, <2>3, <2>4, <2>5, <2>6, <2>7, <2>8 DEF TypeOK
<1> QED BY <1>1, InductiveInvariant, PTL
-----------------------------------------------------------------------------
(***************************************************************************)
(* One thread: what the match bits of a request are worth.                 *)
(***************************************************************************)

OneThread == \A t, u \in Threads : t = u

\* Where a thread has not yet given its call the bits of a portal.
ToPost(p) == ToStore[p] \cup {PostAt[p]}

Uses(k, p) == (p = "data" => k = "data") /\ (p = "args" => k = "longargs")

\* The calls that have their bits for a portal.
Made(p) == {r \in Calls : /\ req[r].kind # None /\ Uses(req[r].kind, p)
                          /\ \A t \in Threads : cur[t] = r => pc[t] \notin ToPost(p)}

\* Bits for arguments are the counter before it is incremented, the others those after.
Offset(p) == IF p = "args" THEN 0 ELSE 1

BitsInv ==
    /\ \A t \in Threads : pc[t] \in {"store_args", "post_args"} => req[cur[t]].kind = "longargs"
    /\ \A t \in Threads, p \in Portals :
          /\ pc[t] = StoreAt[p] => reg[t] = counter[p]
          /\ pc[t] = PostAt[p] => /\ counter[p] = reg[t] + 1
                                 /\ \A r \in Made(p) : req[r].bits[p] < reg[t] + Offset(p)
    /\ \A p \in Portals : \A r \in Made(p) :
          /\ req[r].bits[p] < counter[p] + Offset(p)
          /\ \A q \in Made(p) : req[q].bits[p] = req[r].bits[p] => q = r

\* An entry carries the bits of its request.
EntryInv ==
    \A p \in Portals, i \in DOMAIN entries : entries[i].portal = p =>
        entries[i].req \in Made(p) /\ entries[i].bits = req[entries[i].req].bits[p]

\* The service works on requests whose call has been put.
SvcInv == \A r \in Calls : svc[r] # "none" => req[r].kind # None /\ \A t \in Threads : cur[t] # r

OwnInv == IInv /\ BitsInv /\ EntryInv /\ SvcInv /\ OwnBuffers

(***************************************************************************)
(* One thread that names no queue by accident: what a wait reports.        *)
(***************************************************************************)

Answered == {"OK", "remote error"}

\* A request has one entry at a portal ...
OnceInv ==
    \A i, j \in DOMAIN entries :
        entries[i].portal = entries[j].portal /\ entries[i].req = entries[j].req => i = j

\* ... until the service has used it, or the wait for the request is over.
UsedInv ==
    /\ \A i \in DOMAIN entries : \A r \in Calls : entries[i].req = r =>
          /\ entries[i].portal = "args" => r \notin argsTaken /\ "args" \in req[r].queues
          /\ entries[i].portal = "res" => inbox[r].of = None
          /\ told[r] \notin Answered
    /\ \A r \in argsTaken : svc[r] # "none"
    /\ \A r \in Calls :
          /\ inbox[r].of = None => inbox[r].got = "nothing"
          /\ inbox[r].of # None => inbox[r].of = r /\ svc[r] = "answered" /\ inbox[r].rc # "none"

\* Nothing is told of a request before it is put.
ToldInv ==
    /\ \A r \in Calls :
          /\ told[r] # None => req[r].kind # None /\ \A t \in Threads : cur[t] # r
          /\ req[r].kind = None => req[r].status = "none"
    /\ \A t \in Threads : \A r \in waiting[t] : req[r].kind # None

\* How far a wait is with its request.
ResultInv ==
    \A t \in Threads : \A r \in Calls : which[t] = r =>
        /\ pc[t] \in {"result", "cleanup"} => inbox[r].of = r /\ inbox[r].got = "all"
        /\ pc[t] = "cleanup" =>
              req[r].status = IF inbox[r].rc = "OK" THEN "REQUEST_COMPLETE" ELSE "REQUEST_ERROR"

TruthInv == OwnInv /\ OnceInv /\ UsedInv /\ ToldInv /\ ResultInv /\ WaitTellsTruth
-----------------------------------------------------------------------------
(* The proof for one thread.                                               *)

LEMMA PostFacts ==
    \A p \in Portals, q \in Portals :
        /\ p \in ToPost(q) <=> StoreAt[p] \in ToPost(q)
        /\ StoreAt[p] \in ToPost(q) <=> PostAt[p] \in ToPost(q)
        /\ q # p => (PostAt[p] \in ToPost(q) <=> NextPortal[p] \in ToPost(q))
        /\ PostAt[p] \in ToPost(p) /\ NextPortal[p] \notin ToPost(p)
        /\ ToPost(q) \subseteq Calling
        /\ PostAt[p] # NextPortal[q] /\ PostAt[p] # q /\ PostAt[p] # StoreAt[q]
        /\ PostAt[p] = PostAt[q] => p = q
        /\ StoreAt[p] \notin {"data", "res", "args", "put"} /\ PostAt[p] \notin {"data", "res", "args", "put"}
BY DEF Portals, StoreAt, PostAt, NextPortal, ToStore, ToPost, Calling

\* What does not touch a counter, nor the bits of a request that has them.
LEMMA BitsKept ==
    ASSUME OwnInv, UNCHANGED <<counter, reg>>,
           \A p \in Portals : Made(p)' = Made(p),
           \A p \in Portals : \A r \in Made(p) : req'[r].bits[p] = req[r].bits[p],
           \A t \in Threads, p \in Portals :
              /\ pc'[t] = StoreAt[p] => pc[t] = StoreAt[p]
              /\ pc'[t] = PostAt[p] => pc[t] = PostAt[p]
              /\ pc'[t] \in {StoreAt[p], PostAt[p]} => req'[cur'[t]].kind = req[cur[t]].kind
    PROVE  BitsInv'
<1>1. BitsInv
    BY DEF OwnInv
<1>2. \A t \in Threads : pc'[t] \in {"store_args", "post_args"} => req'[cur'[t]].kind = "longargs"
    <2>1. "args" \in Portals /\ StoreAt["args"] = "store_args" /\ PostAt["args"] = "post_args"
        BY DEF Portals, StoreAt, PostAt
    <2> QED BY <1>1, <2>1 DEF BitsInv
<1> QED BY <1>1, <1>2 DEF BitsInv

LEMMA EntriesKept ==
    ASSUME OwnInv,
           \A p \in Portals : Made(p)' = Made(p),
           \A p \in Portals : \A r \in Made(p) : req'[r].bits[p] = req[r].bits[p],
           \A j \in DOMAIN entries' : \E i \in DOMAIN entries : entries'[j] = entries[i]
    PROVE  EntryInv'
<1>1. EntryInv
    BY DEF OwnInv
<1> SUFFICES ASSUME NEW p \in Portals, NEW j \in DOMAIN entries', entries'[j].portal = p
             PROVE  entries'[j].req \in Made(p)' /\ entries'[j].bits = req'[entries'[j].req].bits[p]
    BY DEF EntryInv
<1>2. PICK i \in DOMAIN entries : entries'[j] = entries[i]
    OBVIOUS
<1>3. entries[i].req \in Made(p) /\ entries[i].bits = req[entries[i].req].bits[p]
    BY <1>1, <1>2 DEF EntryInv
<1> QED BY <1>2, <1>3

\* The entry that matches what a request carries is its own.
LEMMA OwnMatch ==
    ASSUME OwnInv, NEW r \in Calls, NEW p \in Portals, svc[r] # "none", Uses(req[r].kind, p),
           NEW i \in Matching(p, req[r].bits[p])
    PROVE  i \in DOMAIN entries /\ entries[i].portal = p /\ entries[i].req = r
<1>1. BitsInv /\ EntryInv /\ SvcInv
    BY DEF OwnInv
<1>2. i \in DOMAIN entries /\ entries[i].portal = p /\ entries[i].bits = req[r].bits[p]
    BY DEF Matching
<1>3. entries[i].req \in Made(p) /\ entries[i].bits = req[entries[i].req].bits[p]
    BY <1>1, <1>2 DEF EntryInv
<1>4. r \in Made(p)
    BY <1>1 DEF SvcInv, Made
<1>5. \A a, b \in Made(p) : req[b].bits[p] = req[a].bits[p] => b = a
    BY <1>1 DEF BitsInv
<1> QED BY <1>2, <1>3, <1>4, <1>5

LEMMA UsesFacts ==
    /\ \A k \in Kinds \cup {None} : Uses(k, "res")
    /\ Uses("data", "data") /\ Uses("longargs", "args")
BY DEF Uses

LEMMA ServeOwn ==
    ASSUME OwnInv, NEW r \in Calls, Serve(r)
    PROVE  BitsInv' /\ EntryInv' /\ SvcInv' /\ OwnBuffers'
<1>1. UNCHANGED <<counter, reg, req, pc, cur>>
    BY DEF Serve, FetchArgs, RunOp, ResultStart, ResultEnd
<1>2. entries \in Seq(Entry) /\ SvcInv /\ OwnBuffers
    BY DEF OwnInv, IInv, Types
<1>3. \A p \in Portals : Made(p)' = Made(p)
    BY <1>1 DEF Made
<1>4. \A j \in DOMAIN entries' : \E i \in DOMAIN entries : entries'[j] = entries[i]
    <2>1. entries' = entries \/ \E i \in DOMAIN entries : entries' = RemoveAt(entries, i)
        BY DEF Serve, FetchArgs, RunOp, ResultStart, ResultEnd, Matching
    <2> QED BY <1>2, <2>1, Removed
<1>5. BitsInv' /\ EntryInv'
    BY <1>1, <1>3, <1>4, BitsKept, EntriesKept
<1>6. \A q \in Calls : svc'[q] # "none" => svc[q] # "none"
    BY DEF OwnInv, IInv, Types, Serve, FetchArgs, RunOp, ResultStart, ResultEnd
<1>7. SvcInv'
    BY <1>1, <1>2, <1>6 DEF SvcInv
<1>8. OwnBuffers'
    <2>1. "data" \in Portals /\ "res" \in Portals /\ "args" \in Portals
        BY DEF Portals
    <2>2. CASE UNCHANGED touched
        BY <1>2, <2>2 DEF OwnBuffers
    <2>3. CASE FetchArgs(r)
        <3>1. ASSUME req[r].kind = "longargs", NEW i \in Matching("args", req[r].bits["args"]),
                     touched' = touched \cup {<<r, entries[i].req>>}
              PROVE  OwnBuffers'
            <4>1. svc[r] # "none" /\ Uses(req[r].kind, "args")
                BY <2>3, <3>1, UsesFacts DEF FetchArgs
            <4>2. entries[i].req = r
                BY <2>1, <3>1, <4>1, OwnMatch
            <4> QED BY <1>2, <3>1, <4>2 DEF OwnBuffers
        <3> QED BY <2>2, <2>3, <3>1 DEF FetchArgs
    <2>4. CASE RunOp(r)
        <3>1. CASE req[r].kind # "data"
            BY <1>2, <2>4, <3>1 DEF RunOp, OwnBuffers
        <3>2. CASE req[r].kind = "data"
            <4>1. svc[r] # "none" /\ Uses(req[r].kind, "data")
                BY <2>4, <3>2, UsesFacts DEF RunOp
            <4>2. touched' = touched \cup {<<r, entries[i].req>> : i \in Matching("data", req[r].bits["data"])}
                BY <2>4, <3>2 DEF RunOp
            <4>3. \A i \in Matching("data", req[r].bits["data"]) : entries[i].req = r
                BY <2>1, <4>1, OwnMatch
            <4> QED BY <1>2, <4>2, <4>3 DEF OwnBuffers
        <3> QED BY <3>1, <3>2
    <2>5. ASSUME NEW code, ResultStart(r, code)
          PROVE  OwnBuffers'
        <3>1. svc[r] # "none" /\ Uses(req[r].kind, "res")
            BY <2>5 DEF ResultStart, Uses
        <3>2. PICK i \in Matching("res", req[r].bits["res"]) : touched' = touched \cup {<<r, entries[i].req>>}
            BY <2>5 DEF ResultStart
        <3>3. entries[i].req = r
            BY <2>1, <3>1, <3>2, OwnMatch
        <3> QED BY <1>2, <3>2, <3>3 DEF OwnBuffers
    <2>6. CASE ResultEnd(r)
        BY <2>2, <2>6 DEF ResultEnd
    <2> QED BY <2>3, <2>4, <2>5, <2>6 DEF Serve
<1> QED BY <1>5, <1>7, <1>8

\* With one thread, the thread that takes a step is the only one.
LEMMA Only ==
    ASSUME OneThread, NEW t \in Threads
    PROVE  \A u \in Threads : u = t
BY DEF OneThread

\* A thread that is in no call, or gets on to the counter of a portal.
LEMMA CallOwn ==
    ASSUME OneThread, OwnInv, NEW t \in Threads, NEW r \in Calls, NEW k \in Kinds, Call(t, r, k)
    PROVE  BitsInv' /\ EntryInv' /\ SvcInv' /\ OwnBuffers'
<1>1. Types /\ ThreadInv(t) /\ SvcInv /\ OwnBuffers
    BY DEF OwnInv, IInv
<1>2. /\ pc[t] = "idle" /\ req[r].kind = None /\ pc' = [pc EXCEPT ![t] = "data"]
      /\ cur' = [cur EXCEPT ![t] = r]
      /\ req' = [req EXCEPT ![r].kind = k, ![r].status = "SENDING_REQUEST"]
      /\ UNCHANGED <<counter, reg, waiting, which, netVars, told, stray>>
    BY DEF Call, Goto, NoCall
<1>3. pc'[t] = "data" /\ cur'[t] = r /\ cur[t] = None
    BY <1>1, <1>2 DEF Types, ThreadInv, Calling
<1>4. \A q \in Calls \ {r} : req'[q] = req[q]
    BY <1>1, <1>2 DEF Types
<1>5. ASSUME NEW p \in Portals PROVE Made(p)' = Made(p)
    <2>1. "data" \in ToPost(p)
        BY DEF ToPost, ToStore, Portals
    <2>2. r \notin Made(p) /\ r \notin Made(p)'
        BY <1>2, <1>3, <2>1 DEF Made
    <2>3. \A q \in Calls \ {r} : q \in Made(p)' <=> q \in Made(p)
        BY <1>3, <1>4, Only, NoneAssumption DEF Made
    <2>4. Made(p) \subseteq Calls /\ Made(p)' \subseteq Calls
        BY DEF Made
    <2> QED BY <2>2, <2>3, <2>4
<1>6. \A p \in Portals : \A q \in Made(p) : req'[q].bits[p] = req[q].bits[p]
    BY <1>2, <1>4 DEF Made
<1>7. \A u \in Threads, p \in Portals : pc'[u] # StoreAt[p] /\ pc'[u] # PostAt[p]
    BY <1>3, Only DEF Portals, StoreAt, PostAt
<1>8. BitsInv'
    BY <1>2, <1>5, <1>6, <1>7, BitsKept
<1>9. EntryInv'
    BY <1>2, <1>5, <1>6, EntriesKept DEF netVars
<1>10. SvcInv'
    <2>1. svc[r] = "none"
        BY <1>1, <1>2 DEF SvcInv
    <2>2. svc' = svc /\ \A u \in Threads : cur'[u] = r
        BY <1>2, <1>3, Only DEF netVars
    <2> QED BY <1>1, <1>4, <2>1, <2>2 DEF SvcInv
<1> QED BY <1>1, <1>2, <1>8, <1>9, <1>10 DEF OwnBuffers, netVars

LEMMA LoadOwn ==
    ASSUME OneThread, OwnInv, NEW t \in Threads, NEW p \in Portals, LoadCounter(t, p)
    PROVE  BitsInv' /\ EntryInv' /\ SvcInv' /\ OwnBuffers'
<1>1. Types /\ ThreadInv(t) /\ BitsInv /\ SvcInv /\ OwnBuffers
    BY DEF OwnInv, IInv
<1>2. /\ pc[t] = p /\ pc' = [pc EXCEPT ![t] = StoreAt[p]]
      /\ p = "args" => req[cur[t]].kind = "longargs"
      /\ reg' = [reg EXCEPT ![t] = counter[p]]
      /\ UNCHANGED <<counter, req, cur, waiting, which, netVars, told, stray>>
    BY DEF LoadCounter, Counted, Goto
<1>3. pc'[t] = StoreAt[p] /\ reg'[t] = counter[p]
    BY <1>1, <1>2 DEF Types
<1>4. ASSUME NEW q \in Portals PROVE Made(q)' = Made(q)
    BY <1>2, <1>3, Only, PostFacts DEF Made
<1>5. BitsInv'
    <2>1. ASSUME NEW q \in Portals PROVE pc'[t] # PostAt[q] /\ (pc'[t] = StoreAt[q] => q = p)
        BY <1>3, PostFacts, LabelFacts
    <2>2. pc'[t] \in {"store_args", "post_args"} => p = "args"
        BY <1>3 DEF Portals, StoreAt
    <2>3. \A u \in Threads : u = t
        BY Only
    <2>4. \A q \in Portals : \A r \in Made(q) : req'[r].bits[q] < counter'[q] + Offset(q)
                /\ \A s \in Made(q) : req'[s].bits[q] = req'[r].bits[q] => s = r
        BY <1>1, <1>2 DEF BitsInv
    <2> QED BY <1>2, <1>3, <1>4, <2>1, <2>2, <2>3, <2>4 DEF BitsInv
<1>6. EntryInv'
    BY <1>2, <1>4, EntriesKept DEF netVars
<1> QED BY <1>1, <1>2, <1>5, <1>6 DEF OwnBuffers, SvcInv, netVars

LEMMA StoreOwn ==
    ASSUME OneThread, OwnInv, NEW t \in Threads, NEW p \in Portals, StoreCounter(t, p)
    PROVE  BitsInv' /\ EntryInv' /\ SvcInv' /\ OwnBuffers'
<1>1. Types /\ ThreadInv(t) /\ BitsInv /\ SvcInv /\ OwnBuffers
    BY DEF OwnInv, IInv
<1>2. /\ pc[t] = StoreAt[p] /\ pc' = [pc EXCEPT ![t] = PostAt[p]]
      /\ counter' = [counter EXCEPT ![p] = reg[t] + 1]
      /\ UNCHANGED <<reg, req, cur, waiting, which, netVars, told, stray>>
    BY DEF StoreCounter, Goto
<1>3. /\ pc'[t] = PostAt[p] /\ reg[t] = counter[p] /\ counter'[p] = reg[t] + 1
      /\ \A q \in Portals \ {p} : counter'[q] = counter[q]
    BY <1>1, <1>2 DEF Types, BitsInv
<1>4. ASSUME NEW q \in Portals PROVE Made(q)' = Made(q)
    BY <1>2, <1>3, Only, PostFacts DEF Made
<1>5. BitsInv'
    <2>1. ASSUME NEW q \in Portals PROVE pc'[t] # StoreAt[q] /\ (pc'[t] = PostAt[q] => q = p)
        BY <1>3, PostFacts
    <2>2. pc'[t] \in {"store_args", "post_args"} => pc[t] \in {"store_args", "post_args"}
        BY <1>2, <1>3 DEF Portals, StoreAt, PostAt
    <2>3. \A u \in Threads : u = t
        BY Only
    <2>4. ASSUME NEW q \in Portals, NEW r \in Made(q)
          PROVE  /\ req[r].bits[q] < counter'[q] + Offset(q)
                 /\ \A s \in Made(q) : req[s].bits[q] = req[r].bits[q] => s = r
                 /\ q = p => req[r].bits[q] < reg[t] + Offset(q)
        <3>1. /\ req[r].bits[q] < counter[q] + Offset(q)
              /\ \A s \in Made(q) : req[s].bits[q] = req[r].bits[q] => s = r
            BY <1>1 DEF BitsInv
        <3>2. req[r].bits[q] \in Nat /\ counter[q] \in Nat /\ Offset(q) \in Nat
            BY <1>1 DEF Types, Request, Made, Offset
        <3>3. counter'[q] = counter[q] \/ (q = p /\ counter'[q] = counter[q] + 1)
            BY <1>3
        <3> QED BY <1>3, <3>1, <3>2, <3>3
    <2>5. \A q \in Portals : \A r \in Made(q)' : req'[r].bits[q] = req[r].bits[q]
        BY <1>2
    <2> QED BY <1>1, <1>2, <1>3, <1>4, <2>1, <2>2, <2>3, <2>4, <2>5 DEF BitsInv
<1>6. EntryInv'
    BY <1>2, <1>4, EntriesKept DEF netVars
<1> QED BY <1>1, <1>2, <1>5, <1>6 DEF OwnBuffers, SvcInv, netVars

\* An entry that is posted carries bits that no request has.
LEMMA PostOwn ==
    ASSUME OneThread, OwnInv, NEW t \in Threads, NEW p \in Portals, Post(t, p)
    PROVE  BitsInv' /\ EntryInv' /\ SvcInv' /\ OwnBuffers'
<1>1. IInv /\ Types /\ ThreadInv(t) /\ BitsInv /\ EntryInv /\ SvcInv /\ OwnBuffers
    BY DEF OwnInv, IInv
<1>2. /\ pc[t] = PostAt[p] /\ pc' = [pc EXCEPT ![t] = NextPortal[p]]
      /\ cur[t] \in Calls /\ req[cur[t]] \in Request
      /\ UNCHANGED <<counter, reg, cur, waiting, which, svc, inbox, argsTaken, touched, told>>
    BY <1>1, PostShape
<1>3. pc'[t] = NextPortal[p]
    BY <1>1, <1>2 DEF Types
<1>4. \A u \in Threads : u = t
    BY Only
<1>5. \A q \in Portals : pc'[t] # StoreAt[q] /\ pc'[t] # PostAt[q]
    BY <1>3 DEF Portals, StoreAt, PostAt, NextPortal
<1>6. SvcInv' /\ OwnBuffers'
    <2>1. \A q \in Calls : req'[q].kind = req[q].kind
        <3>1. CASE UNCHANGED req
            BY <3>1
        <3>2. ASSUME NEW b \in Nat, req' = [req EXCEPT ![cur[t]] =
                    [req[cur[t]] EXCEPT !.bits = [@ EXCEPT ![p] = b], !.queues = @ \cup {p}]]
              PROVE  \A q \in Calls : req'[q].kind = req[q].kind
            <4>1. [req[cur[t]] EXCEPT !.bits = [@ EXCEPT ![p] = b], !.queues = @ \cup {p}].kind = req[cur[t]].kind
                BY <1>2 DEF Request
            <4> QED BY <1>1, <1>2, <3>2, <4>1 DEF Types
        <3>3. CASE ~(p = "data" /\ req[cur[t]].kind # "data")
            <4>1. \E b \in Nat :
                      /\ b = IF p = "args" THEN reg[t] ELSE counter[p]
                      /\ req' = [req EXCEPT ![cur[t]] =
                            [req[cur[t]] EXCEPT !.bits = [@ EXCEPT ![p] = b], !.queues = @ \cup {p}]]
                      /\ entries' = Append(entries, [portal |-> p, bits |-> b, req |-> cur[t]])
                BY <1>1, <3>3, PostShape, Zenon
            <4> QED BY <3>2, <4>1
        <3>4. (p = "data" /\ req[cur[t]].kind # "data") => UNCHANGED req
            BY <1>1, PostShape
        <3> QED BY <3>1, <3>3, <3>4
    <2> QED BY <1>1, <1>2, <2>1 DEF SvcInv, OwnBuffers
<1>7. CASE p = "data" /\ req[cur[t]].kind # "data"
    <2>1. UNCHANGED <<req, entries>>
        BY <1>1, <1>7, PostShape
    <2>2. ASSUME NEW q \in Portals PROVE Made(q)' = Made(q)
        <3>1. CASE q = p
            <4>1. cur[t] \notin Made(p) /\ cur[t] \notin Made(p)'
                BY <1>2, <1>7, <2>1 DEF Made, Uses
            <4>2. \A r \in Calls \ {cur[t]} : r \in Made(p)' <=> r \in Made(p)
                BY <1>2, <1>4, <2>1 DEF Made
            <4>3. Made(p) \subseteq Calls /\ Made(p)' \subseteq Calls
                BY DEF Made
            <4> QED BY <3>1, <4>1, <4>2, <4>3
        <3>2. CASE q # p
            BY <1>2, <1>3, <1>4, <2>1, <3>2, PostFacts DEF Made
        <3> QED BY <3>1, <3>2
    <2>3. BitsInv'
        BY <1>2, <1>4, <1>5, <2>1, <2>2, BitsKept
    <2>4. EntryInv'
        BY <2>1, <2>2, EntriesKept
    <2> QED BY <1>6, <2>3, <2>4
<1>8. CASE ~(p = "data" /\ req[cur[t]].kind # "data")
    <2>1. PICK b \in Nat :
              /\ b = IF p = "args" THEN reg[t] ELSE counter[p]
              /\ req' = [req EXCEPT ![cur[t]] =
                      [req[cur[t]] EXCEPT !.bits = [@ EXCEPT ![p] = b], !.queues = @ \cup {p}]]
              /\ entries' = Append(entries, [portal |-> p, bits |-> b, req |-> cur[t]])
        BY <1>1, <1>8, PostShape, Zenon
    <2>2. /\ req'[cur[t]].kind = req[cur[t]].kind /\ req'[cur[t]].bits[p] = b
          /\ \A q \in Portals \ {p} : req'[cur[t]].bits[q] = req[cur[t]].bits[q]
          /\ \A r \in Calls \ {cur[t]} : req'[r] = req[r]
        <3> DEFINE f == [req[cur[t]] EXCEPT !.bits = [@ EXCEPT ![p] = b], !.queues = @ \cup {p}]
        <3>1. /\ f.kind = req[cur[t]].kind /\ f.bits[p] = b
              /\ \A q \in Portals \ {p} : f.bits[q] = req[cur[t]].bits[q]
            BY <1>2 DEF Request
        <3>2. req' = [req EXCEPT ![cur[t]] = f] /\ req \in [Calls -> Request]
            BY <1>1, <2>1 DEF Types
        <3> HIDE DEF f
        <3>3. req'[cur[t]] = f /\ \A r \in Calls \ {cur[t]} : req'[r] = req[r]
            BY <1>2, <3>2
        <3> QED BY <3>1, <3>3
    <2>3. Uses(req[cur[t]].kind, p)
        <3>1. p = "args" => pc[t] = "post_args"
            BY <1>2 DEF PostAt
        <3> QED BY <1>1, <1>8, <3>1 DEF Uses, BitsInv
    <2>4. req[cur[t]].kind # None
        BY <1>1, <1>2, LabelFacts DEF ThreadInv
    <2>5. cur[t] \notin Made(p)
        BY <1>2, PostFacts DEF Made
    <2>6. Made(p)' = Made(p) \cup {cur[t]}
        <3>1. cur[t] \in Made(p)'
            BY <1>2, <1>3, <1>4, <2>2, <2>3, <2>4, PostFacts DEF Made
        <3>2. \A r \in Calls \ {cur[t]} : r \in Made(p)' <=> r \in Made(p)
            BY <1>2, <1>4, <2>2 DEF Made
        <3>3. Made(p) \subseteq Calls /\ Made(p)' \subseteq Calls
            BY DEF Made
        <3> QED BY <1>2, <3>1, <3>2, <3>3
    <2>7. ASSUME NEW q \in Portals \ {p} PROVE Made(q)' = Made(q)
        <3>1. \A r \in Calls : req'[r].kind = req[r].kind
            BY <2>2
        <3>2. pc'[t] \in ToPost(q) <=> pc[t] \in ToPost(q)
            BY <1>2, <1>3, PostFacts
        <3> QED BY <1>2, <1>4, <3>1, <3>2 DEF Made
    <2>8. \A q \in Portals : \A r \in Made(q) : req'[r].bits[q] = req[r].bits[q]
        <3> SUFFICES ASSUME NEW q \in Portals, NEW r \in Made(q)
                     PROVE  req'[r].bits[q] = req[r].bits[q]
            OBVIOUS
        <3>1. r \in Calls
            BY DEF Made
        <3>2. CASE r = cur[t]
            BY <2>2, <2>5, <3>2
        <3>3. CASE r # cur[t]
            BY <2>2, <3>1, <3>3
        <3> QED BY <3>2, <3>3
    <2>9. /\ counter[p] = reg[t] + 1 /\ reg[t] \in Nat /\ counter[p] \in Nat
          /\ \A r \in Made(p) : req[r].bits[p] < reg[t] + Offset(p) /\ req[r].bits[p] \in Nat
        BY <1>1, <1>2 DEF BitsInv, Types, Made, Request
    <2>10. b < counter[p] + Offset(p) /\ \A r \in Made(p) : req[r].bits[p] # b
        BY <2>1, <2>9 DEF Offset
    <2>11. \A q \in Portals : \A r \in Made(q)' :
              /\ req'[r].bits[q] < counter[q] + Offset(q)
              /\ \A s \in Made(q)' : req'[s].bits[q] = req'[r].bits[q] => s = r
        <3> SUFFICES ASSUME NEW q \in Portals, NEW r \in Made(q)'
                     PROVE  /\ req'[r].bits[q] < counter[q] + Offset(q)
                            /\ \A s \in Made(q)' : req'[s].bits[q] = req'[r].bits[q] => s = r
            OBVIOUS
        <3>1. \A s \in Made(q) : /\ req[s].bits[q] < counter[q] + Offset(q)
                                 /\ \A z \in Made(q) : req[z].bits[q] = req[s].bits[q] => z = s
            BY <1>1 DEF BitsInv
        <3>2. CASE q # p
            BY <2>7, <2>8, <3>1, <3>2
        <3>3. CASE q = p
            BY <2>2, <2>6, <2>8, <2>10, <3>1, <3>3
        <3> QED BY <3>2, <3>3
    <2>12. BitsInv'
        <3>1. pc'[t] \notin {"store_args", "post_args"}
            BY <1>3 DEF NextPortal, Portals
        <3> QED BY <1>2, <1>4, <1>5, <2>11, <3>1 DEF BitsInv
    <2>13. EntryInv'
        <3>1. entries \in Seq(Entry)
            BY <1>1 DEF Types
        <3>2. \A j \in DOMAIN entries' :
                 \/ j \in DOMAIN entries /\ entries'[j] = entries[j]
                 \/ entries'[j] = [portal |-> p, bits |-> b, req |-> cur[t]]
            BY <2>1, <3>1
        <3> SUFFICES ASSUME NEW q \in Portals, NEW j \in DOMAIN entries', entries'[j].portal = q
                     PROVE  entries'[j].req \in Made(q)' /\ entries'[j].bits = req'[entries'[j].req].bits[q]
            BY DEF EntryInv
        <3>3. CASE j \in DOMAIN entries /\ entries'[j] = entries[j]
            <4>1. entries[j].req \in Made(q) /\ entries[j].bits = req[entries[j].req].bits[q]
                BY <1>1, <3>3 DEF EntryInv
            <4>2. Made(q) \subseteq Made(q)'
                BY <2>6, <2>7
            <4> QED BY <2>8, <3>3, <4>1, <4>2
        <3>4. CASE entries'[j] = [portal |-> p, bits |-> b, req |-> cur[t]]
            BY <2>2, <2>6, <3>4
        <3> QED BY <3>2, <3>3, <3>4
    <2> QED BY <1>6, <2>12, <2>13
<1> QED BY <1>7, <1>8

LEMMA ShortOwn ==
    ASSUME OneThread, OwnInv, NEW t \in Threads, ShortArgs(t)
    PROVE  BitsInv' /\ EntryInv' /\ SvcInv' /\ OwnBuffers'
<1>1. Types /\ ThreadInv(t) /\ SvcInv /\ OwnBuffers
    BY DEF OwnInv, IInv
<1>2. /\ pc[t] = "args" /\ req[cur[t]].kind # "longargs" /\ pc' = [pc EXCEPT ![t] = "put"]
      /\ UNCHANGED <<counter, reg, req, cur, waiting, which, netVars, told, stray>>
    BY DEF ShortArgs, Goto
<1>3. pc'[t] = "put" /\ cur[t] \in Calls
    BY <1>1, <1>2 DEF Types, ThreadInv, Calling
<1>4. \A u \in Threads : u = t
    BY Only
<1>5. ASSUME NEW q \in Portals PROVE Made(q)' = Made(q)
    <2>1. CASE q = "args"
        <3>1. cur[t] \notin Made(q) /\ cur[t] \notin Made(q)'
            BY <1>2, <2>1 DEF Made, Uses
        <3>2. \A r \in Calls \ {cur[t]} : r \in Made(q)' <=> r \in Made(q)
            BY <1>2, <1>4 DEF Made
        <3>3. Made(q) \subseteq Calls /\ Made(q)' \subseteq Calls
            BY DEF Made
        <3> QED BY <3>1, <3>2, <3>3
    <2>2. CASE q # "args"
        <3>1. pc[t] \notin ToPost(q) /\ pc'[t] \notin ToPost(q)
            BY <1>2, <1>3, <2>2 DEF ToPost, ToStore, PostAt, Portals
        <3> QED BY <1>2, <1>4, <3>1 DEF Made
    <2> QED BY <2>1, <2>2
<1>6. \A q \in Portals : pc'[t] # StoreAt[q] /\ pc'[t] # PostAt[q]
    BY <1>3 DEF Portals, StoreAt, PostAt
<1>7. BitsInv'
    BY <1>2, <1>4, <1>5, <1>6, BitsKept
<1>8. EntryInv'
    BY <1>2, <1>5, EntriesKept DEF netVars
<1> QED BY <1>1, <1>2, <1>7, <1>8 DEF SvcInv, OwnBuffers, netVars

LEMMA PutOwn ==
    ASSUME OneThread, OwnInv, NEW t \in Threads, PutRequest(t)
    PROVE  BitsInv' /\ EntryInv' /\ SvcInv' /\ OwnBuffers'
<1>1. Types /\ ThreadInv(t) /\ SvcInv /\ OwnBuffers
    BY DEF OwnInv, IInv
<1>2. cur[t] \in Calls /\ req[cur[t]].kind # None
    BY <1>1 DEF PutRequest, ThreadInv, Calling, Types
<1>3. /\ pc[t] = "put" /\ pc' = [pc EXCEPT ![t] = "idle"]
      /\ cur' = [cur EXCEPT ![t] = None]
      /\ UNCHANGED <<counter, reg, waiting, which, entries, inbox, argsTaken, touched>>
    BY <1>1, <1>2, PutShape
<1>4. pc'[t] = "idle" /\ cur'[t] = None
    BY <1>1, <1>3 DEF Types
<1>5. \A u \in Threads : u = t
    BY Only
<1>6. \A r \in Calls : req'[r].kind = req[r].kind /\ req'[r].bits = req[r].bits
    <2>1. CASE req' = [req EXCEPT ![cur[t]] = [req[cur[t]] EXCEPT !.status = "PROCESSING_REQUEST"]]
        <3>1. req[cur[t]] \in Request /\ req \in [Calls -> Request]
            BY <1>1, <1>2 DEF Types
        <3>2. PICK f : f = [req[cur[t]] EXCEPT !.status = "PROCESSING_REQUEST"]
            OBVIOUS
        <3>3. f.kind = req[cur[t]].kind /\ f.bits = req[cur[t]].bits
            BY <3>1, <3>2 DEF Request
        <3> QED BY <2>1, <3>1, <3>2, <3>3
    <2> QED BY <1>1, <1>2, <2>1, PutShape
<1>7. ASSUME NEW q \in Portals PROVE Made(q)' = Made(q)
    <2>1. pc[t] \notin ToPost(q)
        BY <1>3 DEF ToPost, ToStore, PostAt, Portals
    <2>2. \A r \in Calls : cur'[t] # r
        BY <1>4, NoneAssumption
    <2> QED BY <1>5, <1>6, <2>1, <2>2 DEF Made
<1>8. \A q \in Portals : pc'[t] # StoreAt[q] /\ pc'[t] # PostAt[q]
    BY <1>4 DEF Portals, StoreAt, PostAt
<1>9. BitsInv'
    BY <1>3, <1>5, <1>6, <1>7, <1>8, BitsKept DEF Made
<1>10. EntryInv'
    BY <1>3, <1>6, <1>7, EntriesKept DEF Made
<1>11. SvcInv'
    <2>1. \A r \in Calls : svc'[r] = svc[r] \/ r = cur[t]
        <3>1. svc' = svc \/ svc' = [svc EXCEPT ![cur[t]] = "sent"]
            BY <1>1, <1>2, PutShape
        <3> QED BY <1>1, <3>1 DEF Types
    <2> QED BY <1>1, <1>2, <1>4, <1>5, <1>6, <2>1, NoneAssumption DEF SvcInv
<1> QED BY <1>1, <1>3, <1>9, <1>10, <1>11 DEF OwnBuffers

\* Waiting leaves the bits alone.
LEMMA WaitOwn ==
    ASSUME OneThread, OwnInv, NEW t \in Threads, pc[t] \notin Calling, pc'[t] \notin Calling,
           UNCHANGED <<counter, reg, cur, svc, touched>>,
           \A r \in Calls : req'[r].kind = req[r].kind /\ req'[r].bits = req[r].bits,
           \A j \in DOMAIN entries' : \E i \in DOMAIN entries : entries'[j] = entries[i]
    PROVE  BitsInv' /\ EntryInv' /\ SvcInv' /\ OwnBuffers'
<1>1. Types /\ ThreadInv(t) /\ SvcInv /\ OwnBuffers
    BY DEF OwnInv, IInv
<1>2. \A u \in Threads : u = t
    BY Only
<1>3. ASSUME NEW q \in Portals PROVE Made(q)' = Made(q)
    <2>1. pc[t] \notin ToPost(q) /\ pc'[t] \notin ToPost(q)
        BY PostFacts
    <2> QED BY <1>2, <2>1 DEF Made
<1>4. \A q \in Portals : pc'[t] # StoreAt[q] /\ pc'[t] # PostAt[q]
    BY LabelFacts
<1>5. BitsInv'
    <2>1. \A p \in Portals : \A r \in Made(p) : req'[r].bits[p] = req[r].bits[p]
        BY DEF Made
    <2> QED BY <1>2, <1>3, <1>4, <2>1, BitsKept
<1>6. EntryInv'
    <2>1. \A p \in Portals : \A r \in Made(p) : req'[r].bits[p] = req[r].bits[p]
        BY DEF Made
    <2> QED BY <1>3, <2>1, EntriesKept
<1> QED BY <1>1, <1>5, <1>6 DEF SvcInv, OwnBuffers

\* What the steps of a wait do to requests and entries.
LEMMA WaitShape ==
    ASSUME IInv, NEW t \in Threads,
           \/ \E S \in SUBSET Calls : Wait(t, S)
           \/ \E r \in Calls : PollFirst(t, r)
           \/ PollRest(t) \/ ProcessResult(t) \/ TimeOutEarly(t) \/ TimeOutHalfway(t) \/ CleanUp(t)
    PROVE  /\ pc[t] \notin Calling /\ pc'[t] \notin Calling
           /\ UNCHANGED <<counter, reg, cur, svc, inbox, argsTaken, touched>>
           /\ \A r \in Calls : req'[r].kind = req[r].kind /\ req'[r].bits = req[r].bits
           /\ \A j \in DOMAIN entries' : \E i \in DOMAIN entries : entries'[j] = entries[i]
<1>1. Types /\ ThreadInv(t) /\ entries \in Seq(Entry) /\ pc \in [Threads -> {"idle"} \cup Calling \cup Awaiting]
    BY DEF IInv, Types
<1> DEFINE Goal == /\ pc[t] \notin Calling /\ pc'[t] \notin Calling
                   /\ UNCHANGED <<counter, reg, cur, svc, inbox, argsTaken, touched>>
                   /\ \A r \in Calls : req'[r].kind = req[r].kind /\ req'[r].bits = req[r].bits
                   /\ \A j \in DOMAIN entries' : \E i \in DOMAIN entries : entries'[j] = entries[i]
<1>2. \A r \in Calls : \A c, Q :
         /\ [req EXCEPT ![r].status = c][r].kind = req[r].kind
         /\ [req EXCEPT ![r].status = c][r].bits = req[r].bits
         /\ [req EXCEPT ![r].queues = Q][r].kind = req[r].kind
         /\ [req EXCEPT ![r].queues = Q][r].bits = req[r].bits
    <2> SUFFICES ASSUME NEW r \in Calls, NEW c, NEW Q
                 PROVE  /\ [req EXCEPT ![r].status = c][r].kind = req[r].kind
                        /\ [req EXCEPT ![r].status = c][r].bits = req[r].bits
                        /\ [req EXCEPT ![r].queues = Q][r].kind = req[r].kind
                        /\ [req EXCEPT ![r].queues = Q][r].bits = req[r].bits
        OBVIOUS
    <2>1. req \in [Calls -> Request] /\ req[r] \in Request
        BY <1>1 DEF Types
    <2>2. /\ [req EXCEPT ![r].status = c][r] = [req[r] EXCEPT !.status = c]
          /\ [req EXCEPT ![r].queues = Q][r] = [req[r] EXCEPT !.queues = Q]
        BY <2>1
    <2>3. /\ [req[r] EXCEPT !.status = c].kind = req[r].kind
          /\ [req[r] EXCEPT !.status = c].bits = req[r].bits
          /\ [req[r] EXCEPT !.queues = Q].kind = req[r].kind
          /\ [req[r] EXCEPT !.queues = Q].bits = req[r].bits
        BY <2>1 DEF Request
    <2> QED BY <2>2, <2>3
<1>3. ASSUME NEW x \in Calls, NEW c, req' = [req EXCEPT ![x].status = c]
      PROVE  \A r \in Calls : req'[r].kind = req[r].kind /\ req'[r].bits = req[r].bits
    <2>1. \A r \in Calls \ {x} : req'[r] = req[r]
        BY <1>1, <1>3 DEF Types
    <2> QED BY <1>2, <1>3, <2>1
<1>4. ASSUME NEW x \in Calls, NEW Q, req' = [req EXCEPT ![x].queues = Q]
      PROVE  \A r \in Calls : req'[r].kind = req[r].kind /\ req'[r].bits = req[r].bits
    <2>1. \A r \in Calls \ {x} : req'[r] = req[r]
        BY <1>1, <1>4 DEF Types
    <2> QED BY <1>2, <1>4, <2>1
<1>5. /\ \A l \in {"idle", "poll", "result", "cleanup"} : l \notin Calling
      /\ \A r \in Calls, code \in Outcomes : Finish(t, r, code) => pc'[t] = "idle"
      /\ \A l : pc' = [pc EXCEPT ![t] = l] => pc'[t] = l
    BY <1>1 DEF Calling, Finish, Goto
<1>6. which[t] # None => which[t] \in Calls
    BY <1>1 DEF Types
<1>7. ASSUME NEW S \in SUBSET Calls, Wait(t, S) PROVE Goal
    BY <1>5, <1>7 DEF Wait, Goto, netVars
<1>8. ASSUME NEW r \in Calls, PollFirst(t, r) PROVE Goal
    BY <1>5, <1>8 DEF PollFirst, netVars
<1>9. CASE PollRest(t)
    <2>1. which[t] \in Calls /\ req' = [req EXCEPT ![which[t]].status = "PROCESSING_RESULT"]
        BY <1>6, <1>9 DEF PollRest
    <2>2. \A r \in Calls : req'[r].kind = req[r].kind /\ req'[r].bits = req[r].bits
        BY <1>3, <2>1
    <2> QED BY <1>5, <1>9, <2>2 DEF PollRest, Goto, netVars
<1>10. CASE ProcessResult(t)
    <2>1. which[t] \in Calls
        BY <1>1, <1>6, <1>10 DEF ProcessResult, ThreadInv
    <2>2. \A r \in Calls : req'[r].kind = req[r].kind /\ req'[r].bits = req[r].bits
        BY <1>3, <1>10, <2>1 DEF ProcessResult
    <2>3. pc[t] = "result" /\ pc'[t] \in {"cleanup", "idle"} /\ UNCHANGED <<counter, reg, cur, netVars>>
        BY <1>5, <1>10 DEF ProcessResult, Finish, Goto
    <2> QED BY <1>5, <2>2, <2>3 DEF netVars
<1>11. CASE TimeOutEarly(t)
    <2>1. pc[t] = "poll" /\ UNCHANGED <<counter, reg, cur, netVars>>
        BY <1>11 DEF TimeOutEarly
    <2>2. PICK r \in waiting[t] :
            \/ Finish(t, r, "ERR_RPC") /\ UNCHANGED req
            \/ \E q \in Calls, p \in Portals, code \in {"OK", "ERR_RPC"} :
                  req' = [req EXCEPT ![q].queues = @ \ {p}] /\ Finish(t, r, code)
        BY <1>11 DEF TimeOutEarly
    <2>3. pc'[t] = "idle"
        BY <1>5, <2>2 DEF Finish, Goto
    <2>4. \A z \in Calls : req'[z].kind = req[z].kind /\ req'[z].bits = req[z].bits
        <3>1. CASE UNCHANGED req
            BY <3>1
        <3>2. ASSUME NEW q \in Calls, NEW p \in Portals, req' = [req EXCEPT ![q].queues = @ \ {p}]
              PROVE  \A z \in Calls : req'[z].kind = req[z].kind /\ req'[z].bits = req[z].bits
            <4>1. req' = [req EXCEPT ![q].queues = req[q].queues \ {p}]
                BY <3>2
            <4> QED BY <1>4, <4>1
        <3> QED BY <2>2, <3>1, <3>2
    <2> QED BY <1>5, <2>1, <2>3, <2>4 DEF netVars
<1>12. CASE TimeOutHalfway(t)
    <2>1. /\ pc[t] = "poll" /\ which[t] \in Calls /\ UNCHANGED <<counter, reg, cur, netVars>>
          /\ req' = [req EXCEPT ![which[t]].queues = req[which[t]].queues \ {"res"}]
          /\ Finish(t, which[t], "ERR_RPC")
        BY <1>6, <1>12 DEF TimeOutHalfway
    <2>2. \A r \in Calls : req'[r].kind = req[r].kind /\ req'[r].bits = req[r].bits
        BY <1>4, <2>1
    <2>3. pc'[t] = "idle"
        BY <1>5, <2>1 DEF Finish, Goto
    <2> QED BY <1>5, <2>1, <2>2, <2>3 DEF netVars
<1>13. CASE CleanUp(t)
    <2>1. /\ which[t] \in Calls /\ pc[t] \notin Calling
          /\ UNCHANGED <<counter, reg, cur, svc, inbox, argsTaken, touched>>
          /\ entries' = Unlink("data", which[t])
        BY <1>13, CleanUpShape
    <2>2. req' = [req EXCEPT ![which[t]].queues = {}]
        BY <1>13 DEF CleanUp
    <2>3. \A r \in Calls : req'[r].kind = req[r].kind /\ req'[r].bits = req[r].bits
        BY <1>4, <2>1, <2>2
    <2>4. \A j \in DOMAIN entries' : \E i \in DOMAIN entries : entries'[j] = entries[i]
        <3>1. \/ entries' = entries
              \/ \E i \in Posted("data", which[t]) : entries' = RemoveAt(entries, i)
            BY <1>1, <2>1, Unlinked DEF Portals
        <3>2. Posted("data", which[t]) \subseteq DOMAIN entries
            BY DEF Posted
        <3>3. ASSUME NEW i \in DOMAIN entries, entries' = RemoveAt(entries, i)
              PROVE  \A j \in DOMAIN entries' : \E k \in DOMAIN entries : entries'[j] = entries[k]
            BY <1>1, <3>3, Removed
        <3> QED BY <3>1, <3>2, <3>3
    <2>5. pc'[t] = "idle"
        BY <1>5, <1>13 DEF CleanUp, Finish, Goto
    <2> QED BY <1>5, <2>1, <2>3, <2>4, <2>5
<1> QED BY <1>7, <1>8, <1>9, <1>10, <1>11, <1>12, <1>13

LEMMA OwnNext ==
    ASSUME OneThread, OwnInv, IInv', [Next]_vars
    PROVE  OwnInv'
<1> SUFFICES BitsInv' /\ EntryInv' /\ SvcInv' /\ OwnBuffers'
    BY DEF OwnInv
<1>1. CASE UNCHANGED vars
    BY <1>1 DEF OwnInv, BitsInv, EntryInv, SvcInv, OwnBuffers, Made, vars, netVars
<1>2. ASSUME NEW r \in Calls, Serve(r) PROVE BitsInv' /\ EntryInv' /\ SvcInv' /\ OwnBuffers'
    BY <1>2, ServeOwn
<1>3. ASSUME NEW t \in Threads, NEW r \in Calls, NEW k \in Kinds, Call(t, r, k)
      PROVE  BitsInv' /\ EntryInv' /\ SvcInv' /\ OwnBuffers'
    BY <1>3, CallOwn
<1>4. ASSUME NEW t \in Threads,
             \/ \E p \in Portals : LoadCounter(t, p) \/ StoreCounter(t, p) \/ Post(t, p)
             \/ ShortArgs(t) \/ PutRequest(t)
      PROVE  BitsInv' /\ EntryInv' /\ SvcInv' /\ OwnBuffers'
    BY <1>4, LoadOwn, StoreOwn, PostOwn, ShortOwn, PutOwn
<1>5. ASSUME NEW t \in Threads,
             \/ \E S \in SUBSET Calls : Wait(t, S)
             \/ \E r \in Calls : PollFirst(t, r)
             \/ PollRest(t) \/ ProcessResult(t) \/ TimeOutEarly(t) \/ TimeOutHalfway(t) \/ CleanUp(t)
      PROVE  BitsInv' /\ EntryInv' /\ SvcInv' /\ OwnBuffers'
    <2>1. IInv
        BY DEF OwnInv
    <2>2. /\ pc[t] \notin Calling /\ pc'[t] \notin Calling
          /\ UNCHANGED <<counter, reg, cur, svc, touched>>
          /\ \A r \in Calls : req'[r].kind = req[r].kind /\ req'[r].bits = req[r].bits
          /\ \A j \in DOMAIN entries' : \E i \in DOMAIN entries : entries'[j] = entries[i]
        BY <1>5, <2>1, WaitShape
    <2> QED BY <2>2, WaitOwn
<1> QED BY <1>1, <1>2, <1>3, <1>4, <1>5 DEF Next, Step

\* Init of what match bits are about.
LEMMA OwnInit == Init => OwnInv
<1> SUFFICES ASSUME Init PROVE OwnInv
    OBVIOUS
<1>1. \A r \in Calls : req[r].kind = None
    BY DEF Init, NoCall
<1>2. \A p \in Portals : Made(p) = {}
    BY <1>1 DEF Made
<1>3. \A t \in Threads : pc[t] \notin {"store_args", "post_args"} /\ \A p \in Portals : pc[t] # StoreAt[p] /\ pc[t] # PostAt[p]
    BY DEF Init, Portals, StoreAt, PostAt
<1>4. BitsInv
    BY <1>2, <1>3 DEF BitsInv
<1>5. EntryInv /\ SvcInv /\ OwnBuffers
    BY DEF Init, EntryInv, SvcInv, OwnBuffers
<1> QED BY <1>4, <1>5, InitInv DEF OwnInv

\* With one thread the counters tell all requests apart, for ever: the service takes the
\* arguments from, moves the data to and answers into the buffers of the request it works
\* on, with entries of failed calls still posted and with any queue freed by accident.
THEOREM BuffersAreOwn ==
    ASSUME OneThread
    PROVE  Spec => []OwnBuffers
<1>1. OwnInv /\ IInv' /\ [Next]_vars => OwnInv'
    BY OwnNext
<1>2. OwnInv => OwnBuffers
    BY DEF OwnInv
<1> QED BY <1>1, <1>2, OwnInit, InductiveInvariant, PTL DEF Spec
-----------------------------------------------------------------------------
(* What a wait reports.                                                    *)

Truth == OnceInv /\ UsedInv /\ ToldInv /\ ResultInv /\ WaitTellsTruth

LEMMA TruthParts == TruthInv <=> OwnInv /\ Truth
BY DEF TruthInv, Truth

\* Entries that were used are gone.
LEMMA OnceKept ==
    ASSUME OnceInv, entries \in Seq(Entry),
           entries' = entries \/ \E i \in DOMAIN entries : entries' = RemoveAt(entries, i)
    PROVE  OnceInv'
<1>1. CASE entries' = entries
    BY <1>1 DEF OnceInv
<1>2. ASSUME NEW i \in DOMAIN entries, entries' = RemoveAt(entries, i)
      PROVE  OnceInv'
    <2> SUFFICES ASSUME NEW j \in DOMAIN entries', NEW k \in DOMAIN entries',
                        entries'[j].portal = entries'[k].portal, entries'[j].req = entries'[k].req
                 PROVE  j = k
        BY DEF OnceInv
    <2>1. /\ Skip(i, j) \in DOMAIN entries /\ entries'[j] = entries[Skip(i, j)]
          /\ Skip(i, k) \in DOMAIN entries /\ entries'[k] = entries[Skip(i, k)]
        BY <1>2, Removed
    <2>2. Skip(i, j) = Skip(i, k)
        BY <2>1 DEF OnceInv
    <2>3. RemoveAt(entries, i) \in Seq(Entry)
        BY Removed
    <2>4. i \in Int /\ j \in Int /\ k \in Int
        BY <1>2, <2>3
    <2> QED BY <2>2, <2>4 DEF Skip
<1> QED BY <1>1, <1>2

\* An entry that is removed was the only one of its request at its portal.
LEMMA RemovedOnce ==
    ASSUME OnceInv, entries \in Seq(Entry), NEW i \in DOMAIN entries, entries' = RemoveAt(entries, i)
    PROVE  \A j \in DOMAIN entries' : \E k \in DOMAIN entries :
              /\ entries'[j] = entries[k]
              /\ ~(entries[k].portal = entries[i].portal /\ entries[k].req = entries[i].req)
<1> SUFFICES ASSUME NEW j \in DOMAIN entries'
             PROVE  \E k \in DOMAIN entries :
              /\ entries'[j] = entries[k]
              /\ ~(entries[k].portal = entries[i].portal /\ entries[k].req = entries[i].req)
    OBVIOUS
<1>1. Skip(i, j) \in DOMAIN entries \ {i} /\ entries'[j] = entries[Skip(i, j)]
    BY Removed
<1>2. ~(entries[Skip(i, j)].portal = entries[i].portal /\ entries[Skip(i, j)].req = entries[i].req)
    BY <1>1 DEF OnceInv
<1> QED BY <1>1, <1>2

\* What a step leaves of the entries keeps what a wait was told.
LEMMA TellsKept ==
    ASSUME WaitTellsTruth, UNCHANGED told,
           \A j \in DOMAIN entries' : \E k \in DOMAIN entries : entries'[j] = entries[k],
           \A r \in Calls : told[r] \in Answered => /\ req'[r].queues = req[r].queues
                                                    /\ inbox'[r].of = inbox[r].of
                                                    /\ inbox'[r].rc = inbox[r].rc
                                                    /\ inbox'[r].got = inbox[r].got
    PROVE  WaitTellsTruth'
<1> SUFFICES ASSUME NEW r \in Calls, told[r] \in Answered
             PROVE  /\ inbox'[r].of = r /\ inbox'[r].got = "all"
                    /\ (told[r] = "OK") = (inbox'[r].rc = "OK")
                    /\ req'[r].queues = {} /\ \A j \in DOMAIN entries' : entries'[j].req # r
    BY DEF WaitTellsTruth, Answered
<1>1. /\ inbox[r].of = r /\ inbox[r].got = "all"
      /\ (told[r] = "OK") = (inbox[r].rc = "OK")
      /\ req[r].queues = {} /\ \A j \in DOMAIN entries : entries[j].req # r
    BY DEF WaitTellsTruth, Answered
<1> QED BY <1>1

LEMMA FetchTruth ==
    ASSUME TruthInv, NEW r \in Calls, FetchArgs(r)
    PROVE  Truth'
<1>1. Types /\ SvcInv /\ OwnInv /\ OnceInv /\ UsedInv /\ ToldInv /\ ResultInv /\ WaitTellsTruth
    BY DEF TruthInv, OwnInv, IInv
<1>2. /\ svc[r] = "sent" /\ \A q \in Calls \ {r} : svc'[q] = svc[q]
      /\ svc'[r] \in {"dropped", "called"}
      /\ UNCHANGED <<counter, reg, req, pc, cur, waiting, which, inbox, told>>
    BY <1>1 DEF FetchArgs, Types
<1>3. entries \in Seq(Entry)
    BY <1>1 DEF Types
<1>4. \A q \in Calls : inbox[q].of # None => svc'[q] = "answered"
    BY <1>1, <1>2 DEF UsedInv
<1>5. CASE UNCHANGED <<entries, argsTaken>>
    <2>1. OnceInv'
        BY <1>1, <1>5 DEF OnceInv
    <2>2. \A q \in argsTaken : svc'[q] # "none"
        BY <1>1, <1>2 DEF UsedInv, Types
    <2>3. UsedInv'
        BY <1>1, <1>2, <1>4, <1>5, <2>2 DEF UsedInv
    <2>4. WaitTellsTruth'
        BY <1>1, <1>2, <1>5 DEF WaitTellsTruth
    <2> QED BY <1>1, <1>2, <2>1, <2>3, <2>4 DEF Truth, ToldInv, ResultInv
<1>6. ASSUME req[r].kind = "longargs", NEW i \in Matching("args", req[r].bits["args"]),
             entries' = RemoveAt(entries, i), argsTaken' = argsTaken \cup {entries[i].req}
      PROVE  Truth'
    <2>1. svc[r] # "none" /\ Uses(req[r].kind, "args") /\ "args" \in Portals
        BY <1>2, <1>6, UsesFacts DEF Portals
    <2>2. i \in DOMAIN entries /\ entries[i].portal = "args" /\ entries[i].req = r
        BY <1>1, <1>6, <2>1, OwnMatch
    <2>3. \A j \in DOMAIN entries' : \E k \in DOMAIN entries :
              entries'[j] = entries[k] /\ ~(entries[k].portal = "args" /\ entries[k].req = r)
        BY <1>1, <1>3, <1>6, <2>2, RemovedOnce
    <2>4. OnceInv'
        BY <1>1, <1>3, <1>6, <2>2, OnceKept
    <2>5. \A q \in argsTaken' : svc'[q] # "none"
        BY <1>1, <1>2, <1>6, <2>2 DEF UsedInv, Types
    <2>6. UsedInv'
        <3>1. ASSUME NEW j \in DOMAIN entries', NEW q \in Calls, entries'[j].req = q
              PROVE  /\ entries'[j].portal = "args" => q \notin argsTaken' /\ "args" \in req'[q].queues
                     /\ entries'[j].portal = "res" => inbox'[q].of = None
                     /\ told'[q] \notin Answered
            <4>1. PICK k \in DOMAIN entries :
                    entries'[j] = entries[k] /\ ~(entries[k].portal = "args" /\ entries[k].req = r)
                BY <2>3
            <4> QED BY <1>1, <1>2, <1>6, <2>2, <3>1, <4>1 DEF UsedInv
        <3> QED BY <1>1, <1>2, <1>4, <2>5, <3>1 DEF UsedInv
    <2>7. WaitTellsTruth'
        <3>1. \A j \in DOMAIN entries' : \E k \in DOMAIN entries : entries'[j] = entries[k]
            BY <2>3
        <3> QED BY <1>1, <1>2, <3>1, TellsKept
    <2> QED BY <1>1, <1>2, <2>4, <2>6, <2>7 DEF Truth, ToldInv, ResultInv
<1> QED BY <1>5, <1>6 DEF FetchArgs

LEMMA RunTruth ==
    ASSUME TruthInv, NEW r \in Calls, RunOp(r)
    PROVE  Truth'
<1>1. Types /\ OnceInv /\ UsedInv /\ ToldInv /\ ResultInv /\ WaitTellsTruth
    BY DEF TruthInv, OwnInv, IInv
<1>2. /\ svc[r] = "called" /\ \A q \in Calls \ {r} : svc'[q] = svc[q]
      /\ svc'[r] = "ran"
      /\ UNCHANGED <<counter, reg, req, pc, cur, waiting, which, inbox, told, entries, argsTaken>>
    BY <1>1 DEF RunOp, Types
<1>3. \A q \in Calls : inbox[q].of # None => svc'[q] = "answered"
    BY <1>1, <1>2 DEF UsedInv
<1>4. \A q \in argsTaken : svc'[q] # "none"
    BY <1>1, <1>2 DEF UsedInv, Types
<1>5. UsedInv'
    BY <1>1, <1>2, <1>3, <1>4 DEF UsedInv
<1>6. WaitTellsTruth'
    BY <1>1, <1>2, TellsKept
<1>7. OnceInv' /\ ToldInv' /\ ResultInv'
    BY <1>1, <1>2 DEF OnceInv, ToldInv, ResultInv
<1> QED BY <1>5, <1>6, <1>7 DEF Truth

LEMMA ResultStartTruth ==
    ASSUME TruthInv, NEW r \in Calls, NEW code \in {"OK", "ERR"}, ResultStart(r, code)
    PROVE  Truth'
<1>1. Types /\ OwnInv /\ OnceInv /\ UsedInv /\ ToldInv /\ ResultInv /\ WaitTellsTruth
    BY DEF TruthInv, OwnInv, IInv
<1>2. /\ svc[r] = "ran" /\ \A q \in Calls \ {r} : svc'[q] = svc[q]
      /\ svc'[r] = "answered"
      /\ UNCHANGED <<counter, reg, req, pc, cur, waiting, which, told, argsTaken>>
    BY <1>1 DEF ResultStart, Types
<1>3. entries \in Seq(Entry) /\ inbox \in [Calls -> Answer]
    BY <1>1 DEF Types
<1>4. PICK i \in Matching("res", req[r].bits["res"]) :
         /\ inbox' = [inbox EXCEPT ![entries[i].req] = [of |-> r, rc |-> code, got |-> "start"]]
         /\ entries' = RemoveAt(entries, i)
    BY DEF ResultStart
<1>5. svc[r] # "none" /\ Uses(req[r].kind, "res") /\ "res" \in Portals
    BY <1>2 DEF Portals, Uses
<1>6. i \in DOMAIN entries /\ entries[i].portal = "res" /\ entries[i].req = r
    BY <1>1, <1>4, <1>5, OwnMatch
<1>7. inbox'[r] = [of |-> r, rc |-> code, got |-> "start"] /\ \A q \in Calls \ {r} : inbox'[q] = inbox[q]
    BY <1>3, <1>4, <1>6
<1>8. inbox[r].of = None /\ told[r] \notin Answered
    BY <1>1, <1>6 DEF UsedInv
<1>9. \A j \in DOMAIN entries' : \E k \in DOMAIN entries :
          entries'[j] = entries[k] /\ ~(entries[k].portal = "res" /\ entries[k].req = r)
    BY <1>1, <1>3, <1>4, <1>6, RemovedOnce
<1>10. OnceInv'
    BY <1>1, <1>3, <1>4, <1>6, OnceKept
<1>11. UsedInv'
    <2>1. ASSUME NEW j \in DOMAIN entries', NEW q \in Calls, entries'[j].req = q
          PROVE  /\ entries'[j].portal = "args" => q \notin argsTaken' /\ "args" \in req'[q].queues
                 /\ entries'[j].portal = "res" => inbox'[q].of = None
                 /\ told'[q] \notin Answered
        <3>1. PICK k \in DOMAIN entries :
                entries'[j] = entries[k] /\ ~(entries[k].portal = "res" /\ entries[k].req = r)
            BY <1>9
        <3> QED BY <1>1, <1>2, <1>7, <2>1, <3>1 DEF UsedInv
    <2>2. \A q \in argsTaken : svc'[q] # "none"
        BY <1>1, <1>2 DEF UsedInv, Types
    <2>3. ASSUME NEW q \in Calls
          PROVE  /\ inbox'[q].of = None => inbox'[q].got = "nothing"
                 /\ inbox'[q].of # None => inbox'[q].of = q /\ svc'[q] = "answered" /\ inbox'[q].rc # "none"
        <3>1. CASE q = r
            BY <1>2, <1>7, <3>1, NoneAssumption
        <3>2. CASE q # r
            BY <1>1, <1>2, <1>7, <3>2 DEF UsedInv
        <3> QED BY <3>1, <3>2
    <2> QED BY <1>2, <2>1, <2>2, <2>3 DEF UsedInv
<1>12. ResultInv'
    <2>1. \A t \in Threads : which[t] = r => pc[t] \notin {"result", "cleanup"}
        BY <1>1, <1>8, NoneAssumption DEF ResultInv
    <2> QED BY <1>1, <1>2, <1>7, <2>1 DEF ResultInv
<1>13. WaitTellsTruth'
    <2>1. \A j \in DOMAIN entries' : \E k \in DOMAIN entries : entries'[j] = entries[k]
        BY <1>9
    <2> QED BY <1>1, <1>2, <1>7, <1>8, <2>1, TellsKept
<1> QED BY <1>1, <1>2, <1>10, <1>11, <1>12, <1>13 DEF Truth, ToldInv

LEMMA ResultEndTruth ==
    ASSUME TruthInv, NEW q \in Calls, ResultEnd(q)
    PROVE  Truth'
<1>1. Types /\ OnceInv /\ UsedInv /\ ToldInv /\ ResultInv /\ WaitTellsTruth
    BY DEF TruthInv, OwnInv, IInv
<1>2. /\ inbox[q].of # None /\ inbox[q].got = "start"
      /\ UNCHANGED <<counter, reg, req, pc, cur, waiting, which, entries, svc, told, argsTaken>>
      /\ inbox' = [inbox EXCEPT ![q].got = "all"]
    BY DEF ResultEnd
<1>3. inbox \in [Calls -> Answer] /\ inbox[q] \in Answer
    BY <1>1 DEF Types
<1>4. /\ \A z \in Calls \ {q} : inbox'[z] = inbox[z]
      /\ inbox'[q] = [inbox[q] EXCEPT !.got = "all"]
    BY <1>2, <1>3
<1>5. inbox'[q].of = inbox[q].of /\ inbox'[q].rc = inbox[q].rc /\ inbox'[q].got = "all"
    BY <1>3, <1>4 DEF Answer
<1>6. \A z \in Calls : /\ inbox'[z].of = inbox[z].of /\ inbox'[z].rc = inbox[z].rc
                       /\ inbox'[z].got = inbox[z].got \/ (inbox'[z].got = "all" /\ inbox[z].of # None)
    BY <1>2, <1>4, <1>5
<1>7. UsedInv'
    BY <1>1, <1>2, <1>6 DEF UsedInv
<1>8. ResultInv'
    BY <1>1, <1>2, <1>6 DEF ResultInv
<1>9. WaitTellsTruth'
    <2>0. \A z \in Calls : told[z] \in Answered => inbox[z].got = "all"
        BY <1>1 DEF WaitTellsTruth, Answered
    <2>1. \A z \in Calls : told[z] \in Answered => inbox'[z].got = inbox[z].got
        BY <1>6, <2>0
    <2> QED BY <1>1, <1>2, <1>6, <2>1, TellsKept
<1> QED BY <1>1, <1>2, <1>7, <1>8, <1>9 DEF Truth, OnceInv, ToldInv

LEMMA CallTruth ==
    ASSUME OneThread, TruthInv, NEW t \in Threads, NEW r \in Calls, NEW k \in Kinds, Call(t, r, k)
    PROVE  Truth'
<1>1. Types /\ OwnInv /\ OnceInv /\ UsedInv /\ ToldInv /\ ResultInv /\ WaitTellsTruth
    BY DEF TruthInv, OwnInv, IInv
<1>2. /\ pc[t] = "idle" /\ req[r].kind = None /\ pc' = [pc EXCEPT ![t] = "data"]
      /\ cur' = [cur EXCEPT ![t] = r]
      /\ req' = [req EXCEPT ![r].kind = k, ![r].status = "SENDING_REQUEST"]
      /\ UNCHANGED <<counter, reg, waiting, which, netVars, told, stray>>
    BY DEF Call, Goto, NoCall
<1>3. pc'[t] = "data" /\ cur'[t] = r /\ \A u \in Threads : u = t
    BY <1>1, <1>2, Only DEF Types
<1>4. \A q \in Calls \ {r} : req'[q] = req[q]
    BY <1>1, <1>2 DEF Types
<1>5. req'[r].kind = k /\ k # None /\ told[r] = None
    <2>1. req[r] \in Request /\ req \in [Calls -> Request]
        BY <1>1 DEF Types
    <2>2. req' = [req EXCEPT ![r] = [req[r] EXCEPT !.kind = k, !.status = "SENDING_REQUEST"]]
        BY <1>2, <2>1 DEF Request
    <2>3. [req[r] EXCEPT !.kind = k, !.status = "SENDING_REQUEST"].kind = k
        BY <2>1 DEF Request
    <2> QED BY <1>1, <1>2, <2>1, <2>2, <2>3, NoneAssumption DEF ToldInv
<1>6. \A i \in DOMAIN entries : entries[i].req \in Calls /\ entries[i].req # r
    <2>1. entries \in Seq(Entry) /\ EntryInv
        BY <1>1 DEF Types, OwnInv
    <2>2. \A i \in DOMAIN entries : entries[i].portal \in Portals /\ entries[i].req \in Calls
        <3>1. \A i \in DOMAIN entries : entries[i] \in Entry
            BY <2>1
        <3> QED BY <3>1 DEF Entry
    <2>3. \A i \in DOMAIN entries : req[entries[i].req].kind # None
        BY <2>1, <2>2 DEF EntryInv, Made
    <2> QED BY <1>2, <2>2, <2>3
<1>7. UNCHANGED <<entries, svc, inbox, argsTaken>>
    BY <1>2 DEF netVars
<1>8. OnceInv'
    BY <1>1, <1>7 DEF OnceInv
<1>9. UsedInv'
    <2>1. ASSUME NEW j \in DOMAIN entries, NEW q \in Calls, entries[j].req = q
          PROVE  /\ entries[j].portal = "args" => q \notin argsTaken /\ "args" \in req'[q].queues
                 /\ entries[j].portal = "res" => inbox[q].of = None
                 /\ told[q] \notin Answered
        <3>1. req'[q] = req[q]
            BY <1>4, <1>6, <2>1
        <3> QED BY <1>1, <2>1, <3>1 DEF UsedInv
    <2>2. \A q \in argsTaken' : svc'[q] # "none"
        BY <1>1, <1>7 DEF UsedInv
    <2>3. \A q \in Calls :
              /\ inbox'[q].of = None => inbox'[q].got = "nothing"
              /\ inbox'[q].of # None =>
                    inbox'[q].of = q /\ svc'[q] = "answered" /\ inbox'[q].rc # "none"
        BY <1>1, <1>7 DEF UsedInv
    <2>4. \A j \in DOMAIN entries' : \A q \in Calls : entries'[j].req = q =>
              /\ entries'[j].portal = "args" => q \notin argsTaken' /\ "args" \in req'[q].queues
              /\ entries'[j].portal = "res" => inbox'[q].of = None
              /\ told'[q] \notin Answered
        BY <1>2, <1>7, <2>1
    <2> QED BY <2>2, <2>3, <2>4 DEF UsedInv
<1>10. ToldInv'
    <2>1. ASSUME NEW q \in Calls
          PROVE  /\ told'[q] # None => req'[q].kind # None /\ \A u \in Threads : cur'[u] # q
                 /\ req'[q].kind = None => req'[q].status = "none"
        <3>1. /\ told[q] # None => req[q].kind # None /\ \A u \in Threads : cur[u] # q
              /\ req[q].kind = None => req[q].status = "none"
            BY <1>1 DEF ToldInv
        <3>2. CASE q = r
            BY <1>2, <1>5, <3>2
        <3>3. CASE q # r
            <4>1. req'[q] = req[q] /\ told'[q] = told[q]
                BY <1>2, <1>4, <3>3
            <4> QED BY <1>3, <3>1, <3>3, <4>1
        <3> QED BY <3>2, <3>3
    <2>2. ASSUME NEW u \in Threads, NEW q \in waiting'[u] PROVE req'[q].kind # None
        BY <1>1, <1>2, <1>4, <1>5, <2>2 DEF ToldInv, Types
    <2> QED BY <2>1, <2>2 DEF ToldInv
<1>11. ResultInv'
    BY <1>3 DEF ResultInv
<1>12. WaitTellsTruth'
    <2>1. told[r] \notin Answered
        BY <1>5, NoneAssumption DEF Answered, Outcomes
    <2> QED BY <1>1, <1>2, <1>4, <1>7, <2>1, TellsKept
<1> QED BY <1>8, <1>9, <1>10, <1>11, <1>12 DEF Truth

\* Steps within a call that post nothing.
LEMMA CountTruth ==
    ASSUME OneThread, TruthInv, NEW t \in Threads, pc'[t] \notin {"result", "cleanup"},
           UNCHANGED <<req, cur, waiting, which, netVars, told>>
    PROVE  Truth'
<1>1. OnceInv /\ UsedInv /\ ToldInv /\ ResultInv /\ WaitTellsTruth
    BY DEF TruthInv
<1>2. UNCHANGED <<entries, svc, inbox, argsTaken>>
    BY DEF netVars
<1>3. \A u \in Threads : u = t
    BY Only
<1>4. OnceInv' /\ ToldInv'
    BY <1>1, <1>2 DEF OnceInv, ToldInv
<1>5. UsedInv'
    BY <1>1, <1>2 DEF UsedInv
<1>6. ResultInv'
    BY <1>3 DEF ResultInv
<1>7. WaitTellsTruth'
    BY <1>1, <1>2, TellsKept
<1> QED BY <1>4, <1>5, <1>6, <1>7 DEF Truth

LEMMA PostTruth ==
    ASSUME OneThread, TruthInv, NEW t \in Threads, NEW p \in Portals, Post(t, p)
    PROVE  Truth'
<1>1. Types /\ IInv /\ ThreadInv(t) /\ OwnInv /\ OnceInv /\ UsedInv /\ ToldInv /\ ResultInv /\ WaitTellsTruth
    BY DEF TruthInv, OwnInv, IInv
<1>2. /\ pc[t] = PostAt[p] /\ pc' = [pc EXCEPT ![t] = NextPortal[p]]
      /\ cur[t] \in Calls /\ req[cur[t]] \in Request
      /\ UNCHANGED <<counter, reg, cur, waiting, which, svc, inbox, argsTaken, touched, told>>
    BY <1>1, PostShape
<1>3. pc'[t] \notin {"result", "cleanup"}
    BY <1>1, <1>2 DEF Types, NextPortal, Portals
<1>4. \A u \in Threads : u = t
    BY Only
<1>5. CASE p = "data" /\ req[cur[t]].kind # "data"
    <2>1. UNCHANGED <<req, entries>>
        BY <1>1, <1>5, PostShape
    <2> QED BY <1>2, <1>3, <2>1, CountTruth DEF netVars
<1>6. CASE ~(p = "data" /\ req[cur[t]].kind # "data")
    <2>1. PICK b \in Nat :
              /\ b = IF p = "args" THEN reg[t] ELSE counter[p]
              /\ req' = [req EXCEPT ![cur[t]] =
                      [req[cur[t]] EXCEPT !.bits = [@ EXCEPT ![p] = b], !.queues = @ \cup {p}]]
              /\ entries' = Append(entries, [portal |-> p, bits |-> b, req |-> cur[t]])
        BY <1>1, <1>6, PostShape, Zenon
    <2>2. /\ req'[cur[t]].kind = req[cur[t]].kind /\ req'[cur[t]].status = req[cur[t]].status
          /\ req'[cur[t]].queues = req[cur[t]].queues \cup {p}
          /\ \A r \in Calls \ {cur[t]} : req'[r] = req[r]
        <3> DEFINE f == [req[cur[t]] EXCEPT !.bits = [@ EXCEPT ![p] = b], !.queues = @ \cup {p}]
        <3>1. /\ f.kind = req[cur[t]].kind /\ f.status = req[cur[t]].status
              /\ f.queues = req[cur[t]].queues \cup {p}
            BY <1>2 DEF Request
        <3>2. req' = [req EXCEPT ![cur[t]] = f] /\ req \in [Calls -> Request]
            BY <1>1, <2>1 DEF Types
        <3> HIDE DEF f
        <3>3. req'[cur[t]] = f /\ \A r \in Calls \ {cur[t]} : req'[r] = req[r]
            BY <1>2, <3>2
        <3> QED BY <3>1, <3>3
    <2>3. entries \in Seq(Entry)
        BY <1>1 DEF Types
    <2>4. \A j \in DOMAIN entries' :
             \/ j \in DOMAIN entries /\ entries'[j] = entries[j]
             \/ j = Len(entries) + 1 /\ entries'[j] = [portal |-> p, bits |-> b, req |-> cur[t]]
        BY <2>1, <2>3
    <2>5. \A i \in DOMAIN entries : ~(entries[i].portal = p /\ entries[i].req = cur[t])
        <3>1. cur[t] \notin Made(p)
            BY <1>2, PostFacts DEF Made
        <3> QED BY <1>1, <3>1 DEF OwnInv, EntryInv
    <2>6. OnceInv'
        <3>1. \A i \in DOMAIN entries : i # Len(entries) + 1
            BY <2>3
        <3> QED BY <1>1, <2>4, <2>5 DEF OnceInv
    <2>7. told[cur[t]] = None /\ svc[cur[t]] = "none"
        BY <1>1, <1>2 DEF ToldInv, OwnInv, SvcInv
    <2>8. inbox[cur[t]].of = None /\ cur[t] \notin argsTaken
        BY <1>1, <1>2, <2>7 DEF UsedInv
    <2>9. UsedInv'
        <3>1. ASSUME NEW j \in DOMAIN entries', NEW q \in Calls, entries'[j].req = q
              PROVE  /\ entries'[j].portal = "args" => q \notin argsTaken' /\ "args" \in req'[q].queues
                     /\ entries'[j].portal = "res" => inbox'[q].of = None
                     /\ told'[q] \notin Answered
            <4>1. CASE j \in DOMAIN entries /\ entries'[j] = entries[j]
                <5>1. /\ entries[j].portal = "args" => q \notin argsTaken /\ "args" \in req[q].queues
                      /\ entries[j].portal = "res" => inbox[q].of = None
                      /\ told[q] \notin Answered
                    BY <1>1, <3>1, <4>1 DEF UsedInv
                <5>2. req[q].queues \subseteq req'[q].queues
                    BY <2>2
                <5> QED BY <1>2, <4>1, <5>1, <5>2
            <4>2. CASE entries'[j] = [portal |-> p, bits |-> b, req |-> cur[t]]
                <5>1. q = cur[t] /\ entries'[j].portal = p
                    BY <3>1, <4>2
                <5>2. None \notin Answered
                    BY NoneAssumption DEF Answered, Outcomes
                <5> QED BY <1>2, <2>2, <2>7, <2>8, <5>1, <5>2
            <4> QED BY <2>4, <4>1, <4>2
        <3> QED BY <1>1, <1>2, <3>1 DEF UsedInv
    <2>10. ToldInv'
        <3>1. \A r \in Calls : req'[r].kind = req[r].kind /\ req'[r].status = req[r].status
            BY <2>2
        <3> QED BY <1>1, <1>2, <3>1 DEF ToldInv, Types
    <2>11. ResultInv'
        BY <1>3, <1>4 DEF ResultInv
    <2>12. WaitTellsTruth'
        <3> SUFFICES ASSUME NEW r \in Calls, told[r] \in Answered
                     PROVE  /\ inbox[r].of = r /\ inbox[r].got = "all"
                            /\ (told[r] = "OK") = (inbox[r].rc = "OK")
                            /\ req'[r].queues = {} /\ \A j \in DOMAIN entries' : entries'[j].req # r
            BY <1>2 DEF WaitTellsTruth, Answered
        <3>1. /\ inbox[r].of = r /\ inbox[r].got = "all"
              /\ (told[r] = "OK") = (inbox[r].rc = "OK")
              /\ req[r].queues = {} /\ \A j \in DOMAIN entries : entries[j].req # r
            BY <1>1 DEF WaitTellsTruth, Answered
        <3>2. r # cur[t]
            BY <2>7, NoneAssumption DEF Answered, Outcomes
        <3> QED BY <2>2, <2>4, <3>1, <3>2
    <2> QED BY <2>6, <2>9, <2>10, <2>11, <2>12 DEF Truth
<1> QED BY <1>5, <1>6

LEMMA PutTruth ==
    ASSUME OneThread, TruthInv, NEW t \in Threads, PutRequest(t)
    PROVE  Truth'
<1>1. Types /\ ThreadInv(t) /\ SvcInv /\ OnceInv /\ UsedInv /\ ToldInv /\ ResultInv /\ WaitTellsTruth
    BY DEF TruthInv, OwnInv, IInv
<1>2. cur[t] \in Calls /\ req[cur[t]].kind # None
    BY <1>1 DEF PutRequest, ThreadInv, Calling, Types
<1>3. /\ pc[t] = "put" /\ pc' = [pc EXCEPT ![t] = "idle"]
      /\ cur' = [cur EXCEPT ![t] = None]
      /\ UNCHANGED <<counter, reg, waiting, which, entries, inbox, argsTaken, touched>>
    BY <1>1, <1>2, PutShape
<1>4. pc'[t] = "idle" /\ cur'[t] = None /\ \A u \in Threads : u = t
    BY <1>1, <1>3, Only DEF Types
<1>5. /\ \A r \in Calls \ {cur[t]} : req'[r] = req[r]
      /\ req'[cur[t]].kind = req[cur[t]].kind /\ req'[cur[t]].queues = req[cur[t]].queues
    <2>1. CASE req' = [req EXCEPT ![cur[t]] = [req[cur[t]] EXCEPT !.status = "PROCESSING_REQUEST"]]
        <3>1. req[cur[t]] \in Request /\ req \in [Calls -> Request]
            BY <1>1, <1>2 DEF Types
        <3>2. PICK f : f = [req[cur[t]] EXCEPT !.status = "PROCESSING_REQUEST"]
            OBVIOUS
        <3>3. f.kind = req[cur[t]].kind /\ f.queues = req[cur[t]].queues
            BY <3>1, <3>2 DEF Request
        <3> QED BY <1>2, <2>1, <3>1, <3>2, <3>3
    <2> QED BY <1>1, <1>2, <2>1, PutShape
<1>6. svc[cur[t]] = "none" /\ told[cur[t]] = None
    BY <1>1, <1>2 DEF SvcInv, ToldInv
<1>7. \A r \in Calls : svc'[r] = svc[r] \/ (r = cur[t] /\ svc'[r] = "sent")
    <2>1. svc' = svc \/ svc' = [svc EXCEPT ![cur[t]] = "sent"]
        BY <1>1, <1>2, PutShape
    <2> QED BY <1>1, <2>1 DEF Types
<1>8. \A r \in Calls : told'[r] = told[r] \/ (r = cur[t] /\ told'[r] = "failed")
    <2>1. told' = told \/ told' = [told EXCEPT ![cur[t]] = "failed"]
        BY <1>1, <1>2, PutShape
    <2> QED BY <1>1, <2>1 DEF Types
<1>9. \A r \in Calls : told'[r] \in Answered => told'[r] = told[r] /\ r # cur[t]
    BY <1>6, <1>8, NoneAssumption DEF Answered, Outcomes
<1>10. OnceInv'
    BY <1>1, <1>3 DEF OnceInv
<1>11. UsedInv'
    <2>1. ASSUME NEW j \in DOMAIN entries, NEW q \in Calls, entries[j].req = q
          PROVE  /\ entries[j].portal = "args" => q \notin argsTaken /\ "args" \in req'[q].queues
                 /\ entries[j].portal = "res" => inbox[q].of = None
                 /\ told'[q] \notin Answered
        BY <1>1, <1>5, <1>9, <2>1 DEF UsedInv
    <2>2. \A r \in argsTaken : svc'[r] # "none"
        BY <1>1, <1>7 DEF UsedInv, Types
    <2>3. \A r \in Calls : inbox[r].of # None => svc'[r] = "answered"
        BY <1>1, <1>6, <1>7 DEF UsedInv
    <2> QED BY <1>1, <1>3, <2>1, <2>2, <2>3 DEF UsedInv
<1>12. ToldInv'
    <2>1. ASSUME NEW q \in Calls
          PROVE  /\ told'[q] # None => req'[q].kind # None /\ \A u \in Threads : cur'[u] # q
                 /\ req'[q].kind = None => req'[q].status = "none"
        BY <1>1, <1>2, <1>4, <1>5, <1>8, NoneAssumption DEF ToldInv
    <2>2. ASSUME NEW u \in Threads, NEW q \in waiting'[u] PROVE req'[q].kind # None
        BY <1>1, <1>2, <1>3, <1>5, <2>2 DEF ToldInv, Types
    <2> QED BY <2>1, <2>2 DEF ToldInv
<1>13. ResultInv'
    BY <1>4 DEF ResultInv
<1>14. WaitTellsTruth'
    <2> SUFFICES ASSUME NEW r \in Calls, told'[r] \in Answered
                 PROVE  /\ inbox[r].of = r /\ inbox[r].got = "all"
                        /\ (told'[r] = "OK") = (inbox[r].rc = "OK")
                        /\ req'[r].queues = {} /\ \A j \in DOMAIN entries : entries[j].req # r
        BY <1>3 DEF WaitTellsTruth, Answered
    <2>1. told'[r] = told[r] /\ req'[r].queues = req[r].queues
        BY <1>5, <1>9
    <2> QED BY <1>1, <2>1 DEF WaitTellsTruth, Answered
<1> QED BY <1>10, <1>11, <1>12, <1>13, <1>14 DEF Truth

\* Steps of a wait that leave its requests posted.
LEMMA WaitTruth ==
    ASSUME OneThread, TruthInv, NEW t \in Threads, UNCHANGED <<netVars, cur>>,
           \A r \in Calls :
              /\ req'[r].kind = req[r].kind
              /\ told'[r] = told[r] \/ (r \in waiting[t] /\ told'[r] = "ERR_RPC")
              /\ req'[r].queues = req[r].queues \/ req'[r].queues = req[r].queues \ {"res"}
              /\ req[r].kind = None => req'[r].status = req[r].status,
           waiting'[t] \subseteq waiting[t] \/ \A r \in waiting'[t] : req[r].kind # None,
           \A r \in Calls : which'[t] = r =>
              /\ pc'[t] \in {"result", "cleanup"} => inbox[r].of = r /\ inbox[r].got = "all"
              /\ pc'[t] = "cleanup" =>
                    req'[r].status = IF inbox[r].rc = "OK" THEN "REQUEST_COMPLETE" ELSE "REQUEST_ERROR",
           waiting[t] = {} \/ cur[t] = None, waiting'[t] \subseteq Calls
    PROVE  Truth'
<1>1. Types /\ OnceInv /\ UsedInv /\ ToldInv /\ ResultInv /\ WaitTellsTruth
    BY DEF TruthInv, OwnInv, IInv
<1>2. UNCHANGED <<entries, svc, inbox, argsTaken>>
    BY DEF netVars
<1>3. \A u \in Threads : u = t
    BY Only
<1>4. OnceInv'
    BY <1>1, <1>2 DEF OnceInv
<1>5. "ERR_RPC" \notin Answered
    BY DEF Answered
<1>6. UsedInv'
    <2>1. ASSUME NEW j \in DOMAIN entries, NEW q \in Calls, entries[j].req = q
          PROVE  /\ entries[j].portal = "args" => q \notin argsTaken /\ "args" \in req'[q].queues
                 /\ entries[j].portal = "res" => inbox[q].of = None
                 /\ told'[q] \notin Answered
        <3>1. "args" \in req[q].queues => "args" \in req'[q].queues
            OBVIOUS
        <3> QED BY <1>1, <1>5, <2>1, <3>1 DEF UsedInv
    <2> QED BY <1>1, <1>2, <2>1 DEF UsedInv
<1>7. ToldInv'
    <2>1. \A q \in waiting[t] : req[q].kind # None
        BY <1>1 DEF ToldInv
    <2>2. ASSUME NEW q \in Calls
          PROVE  /\ told'[q] # None => req'[q].kind # None /\ \A u \in Threads : cur'[u] # q
                 /\ req'[q].kind = None => req'[q].status = "none"
        <3>1. CASE told'[q] = told[q]
            BY <1>1, <1>3, <3>1 DEF ToldInv
        <3>2. CASE q \in waiting[t]
            BY <1>1, <1>3, <2>1, <3>2, NoneAssumption DEF ToldInv
        <3> QED BY <3>1, <3>2
    <2>3. \A u \in Threads : \A q \in waiting'[u] : req'[q].kind # None
        BY <1>3, <2>1
    <2> QED BY <2>2, <2>3 DEF ToldInv
<1>8. ResultInv'
    BY <1>2, <1>3 DEF ResultInv
<1>9. WaitTellsTruth'
    <2> SUFFICES ASSUME NEW r \in Calls, told'[r] \in Answered
                 PROVE  /\ inbox'[r].of = r /\ inbox'[r].got = "all"
                        /\ (told'[r] = "OK") = (inbox'[r].rc = "OK")
                        /\ req'[r].queues = {} /\ \A j \in DOMAIN entries' : entries'[j].req # r
        BY DEF WaitTellsTruth, Answered
    <2>1. told'[r] = told[r]
        BY <1>5
    <2>2. /\ inbox[r].of = r /\ inbox[r].got = "all"
          /\ (told[r] = "OK") = (inbox[r].rc = "OK")
          /\ req[r].queues = {} /\ \A j \in DOMAIN entries : entries[j].req # r
        BY <1>1, <2>1 DEF WaitTellsTruth, Answered
    <2>3. req'[r].queues = {}
        BY <2>2
    <2> QED BY <1>2, <2>1, <2>2, <2>3
<1> QED BY <1>4, <1>6, <1>7, <1>8, <1>9 DEF Truth

\* Changes of a status or of the queues of one request.
LEMMA StatusOf ==
    ASSUME Types, NEW x \in Calls, NEW c, req' = [req EXCEPT ![x].status = c]
    PROVE  /\ \A r \in Calls \ {x} : req'[r] = req[r]
           /\ req'[x].status = c /\ req'[x].kind = req[x].kind /\ req'[x].queues = req[x].queues
<1>1. req \in [Calls -> Request] /\ req[x] \in Request
    BY DEF Types
<1>2. \A r \in Calls \ {x} : req'[r] = req[r]
    BY <1>1
<1>3. req'[x] = [req[x] EXCEPT !.status = c]
    BY <1>1
<1> QED BY <1>1, <1>2, <1>3 DEF Request

LEMMA QueuesOf ==
    ASSUME Types, NEW x \in Calls, NEW Q, req' = [req EXCEPT ![x].queues = Q]
    PROVE  /\ \A r \in Calls \ {x} : req'[r] = req[r]
           /\ req'[x].queues = Q /\ req'[x].kind = req[x].kind /\ req'[x].status = req[x].status
<1>1. req \in [Calls -> Request] /\ req[x] \in Request
    BY DEF Types
<1>2. \A r \in Calls \ {x} : req'[r] = req[r]
    BY <1>1
<1>3. req'[x] = [req[x] EXCEPT !.queues = Q]
    BY <1>1
<1> QED BY <1>1, <1>2, <1>3 DEF Request

\* The end of a wait that reports a failure.
LEMMA GiveUpTruth ==
    ASSUME OneThread, TruthInv, NEW t \in Threads, NEW x \in waiting[t], Finish(t, x, "ERR_RPC"),
           UNCHANGED <<netVars, cur>>, cur[t] = None,
           req' = req \/ req' = [req EXCEPT ![x].queues = req[x].queues \ {"res"}]
    PROVE  Truth'
<1>1. Types /\ x \in Calls
    BY DEF TruthInv, OwnInv, IInv, Types
<1>2. pc'[t] = "idle" /\ waiting'[t] = {}
    BY <1>1 DEF Types, Finish, Goto
<1>3. \A r \in Calls : told'[r] = told[r] \/ (r \in waiting[t] /\ told'[r] = "ERR_RPC")
    BY <1>1 DEF Types, Finish
<1>4. \A r \in Calls :
         /\ req'[r].kind = req[r].kind /\ req'[r].status = req[r].status
         /\ req'[r].queues = req[r].queues \/ req'[r].queues = req[r].queues \ {"res"}
    <2>1. CASE req' = req
        BY <2>1
    <2>2. CASE req' = [req EXCEPT ![x].queues = req[x].queues \ {"res"}]
        BY <1>1, <2>2, QueuesOf
    <2> QED BY <2>1, <2>2
<1> QED BY <1>1, <1>2, <1>3, <1>4, WaitTruth

LEMMA StepsOfWaitTruth ==
    ASSUME OneThread, ~GarbageValid, TruthInv, NEW t \in Threads,
           \/ \E S \in SUBSET Calls : Wait(t, S)
           \/ \E r \in Calls : PollFirst(t, r)
           \/ PollRest(t) \/ ProcessResult(t) \/ TimeOutEarly(t) \/ TimeOutHalfway(t)
    PROVE  Truth'
<1>1. /\ Types /\ IInv /\ ThreadInv(t) /\ OnceInv /\ UsedInv /\ ToldInv /\ ResultInv
      /\ pc \in [Threads -> {"idle"} \cup Calling \cup Awaiting]
    BY DEF TruthInv, OwnInv, IInv, Types
<1>2. \A l : pc' = [pc EXCEPT ![t] = l] => pc'[t] = l
    BY <1>1
<1>3. waiting[t] \subseteq Calls
    BY <1>1 DEF Types
<1>4. ASSUME NEW S \in SUBSET Calls, Wait(t, S) PROVE Truth'
    <2>1. /\ pc'[t] = "poll" /\ waiting'[t] = S
          /\ \A r \in S : req[r].status = "PROCESSING_REQUEST"
          /\ UNCHANGED <<req, cur, which, netVars, told>>
        BY <1>1, <1>2, <1>4 DEF Wait, Goto, Types
    <2>2. \A r \in S : req[r].kind # None
        BY <1>1, <2>1 DEF ToldInv
    <2>3. waiting[t] = {}
        BY <1>1, <1>4 DEF Wait, ThreadInv, Awaiting
    <2> QED BY <2>1, <2>2, <2>3, WaitTruth
<1>5. pc[t] \in Awaiting => cur[t] = None
    BY <1>1 DEF ThreadInv, Calling, Awaiting
<1>6. ASSUME NEW r \in Calls, PollFirst(t, r) PROVE Truth'
    <2>1. pc[t] = "poll" /\ UNCHANGED <<req, pc, cur, waiting, netVars, told>>
        BY <1>6 DEF PollFirst
    <2>2. pc[t] \in Awaiting
        BY <2>1 DEF Awaiting
    <2> QED BY <1>3, <1>5, <2>1, <2>2, WaitTruth
<1>7. CASE PollRest(t)
    <2>1. /\ pc[t] = "poll" /\ which[t] \in Calls /\ which[t] \in waiting[t] /\ pc'[t] = "result"
          /\ inbox[which[t]].got = "all"
          /\ req' = [req EXCEPT ![which[t]].status = "PROCESSING_RESULT"]
          /\ UNCHANGED <<counter, reg, cur, waiting, which, netVars, told, stray>>
        BY <1>1, <1>2, <1>7, WhichFacts DEF PollRest, Goto
    <2>2. inbox[which[t]].of = which[t]
        BY <1>1, <2>1 DEF UsedInv
    <2>3. /\ \A r \in Calls \ {which[t]} : req'[r] = req[r]
          /\ req'[which[t]].kind = req[which[t]].kind /\ req'[which[t]].queues = req[which[t]].queues
        BY <1>1, <2>1, StatusOf
    <2>4. req[which[t]].kind # None
        BY <1>1, <2>1 DEF ToldInv
    <2>5. pc[t] \in Awaiting
        BY <2>1 DEF Awaiting
    <2> QED BY <1>3, <1>5, <2>1, <2>2, <2>3, <2>4, <2>5, WaitTruth
<1>8. CASE ProcessResult(t)
    <2>1. pc[t] = "result" /\ UNCHANGED <<counter, reg, cur, netVars>>
        BY <1>8 DEF ProcessResult
    <2>2. which[t] # None
        BY <1>1, <2>1 DEF ThreadInv
    <2>3. which[t] \in Calls /\ which[t] \in waiting[t]
        BY <1>1, <2>2, WhichFacts
    <2>4. inbox[which[t]].of = which[t] /\ inbox[which[t]].got = "all"
        BY <1>1, <2>1, <2>3 DEF ResultInv
    <2>5. pc[t] \in Awaiting
        BY <2>1 DEF Awaiting
    <2>6. ASSUME NEW code, req' = [req EXCEPT ![which[t]].status = code], pc' = [pc EXCEPT ![t] = "cleanup"],
                 code = IF inbox[which[t]].rc = "OK" THEN "REQUEST_COMPLETE" ELSE "REQUEST_ERROR",
                 UNCHANGED <<waiting, which, told>>
          PROVE  Truth'
        <3>1. /\ \A r \in Calls \ {which[t]} : req'[r] = req[r]
              /\ req'[which[t]].kind = req[which[t]].kind /\ req'[which[t]].queues = req[which[t]].queues
              /\ req'[which[t]].status = code
            <4>1. req' = [req EXCEPT ![which[t]].status = code]
                BY <2>6
            <4> QED BY <1>1, <2>3, <4>1, StatusOf, Zenon
        <3>2. req[which[t]].kind # None
            BY <1>1, <2>3 DEF ToldInv
        <3>3. pc'[t] = "cleanup" /\ inbox' = inbox
            BY <1>2, <2>1, <2>6 DEF netVars
        <3> QED BY <1>3, <1>5, <2>1, <2>3, <2>4, <2>5, <2>6, <3>1, <3>2, <3>3, WaitTruth
    <2>7. CASE Finish(t, which[t], "ERR_RPC") /\ UNCHANGED req
        BY <1>5, <2>1, <2>3, <2>5, <2>7, GiveUpTruth
    <2> QED BY <1>8, <2>6, <2>7 DEF ProcessResult, Goto
<1>9. CASE TimeOutEarly(t)
    <2>1. pc[t] = "poll" /\ UNCHANGED <<counter, reg, cur, netVars>>
          /\ \E r \in waiting[t] : Finish(t, r, "ERR_RPC") /\ UNCHANGED req
        BY <1>9 DEF TimeOutEarly
    <2>2. pc[t] \in Awaiting
        BY <2>1 DEF Awaiting
    <2> QED BY <1>5, <2>1, <2>2, GiveUpTruth
<1>10. CASE TimeOutHalfway(t)
    <2>1. /\ pc[t] = "poll" /\ which[t] # None /\ UNCHANGED <<counter, reg, cur, netVars>>
          /\ req' = [req EXCEPT ![which[t]].queues = req[which[t]].queues \ {"res"}]
          /\ Finish(t, which[t], "ERR_RPC")
        BY <1>1, <1>10, WhichFacts DEF TimeOutHalfway
    <2>2. which[t] \in waiting[t] /\ pc[t] \in Awaiting
        BY <1>1, <2>1, WhichFacts
    <2> QED BY <1>5, <2>1, <2>2, GiveUpTruth
<1> QED BY <1>4, <1>6, <1>7, <1>8, <1>9, <1>10

\* At the end of a wait nothing of the request is posted any more.
LEMMA CleanUpTruth ==
    ASSUME OneThread, TruthInv, NEW t \in Threads, CleanUp(t)
    PROVE  Truth'
<1>1. /\ Types /\ IInv /\ ThreadInv(t) /\ OnceInv /\ UsedInv /\ ToldInv /\ ResultInv /\ WaitTellsTruth
      /\ EntryInv /\ entries \in Seq(Entry)
    BY DEF TruthInv, OwnInv, IInv, Types
<1>2. PICK r \in Calls : r = which[t] /\ r \in waiting[t]
    BY <1>1, CleanUpShape
<1>3. /\ pc[t] = "cleanup" /\ pc[t] \notin Calling
      /\ UNCHANGED <<counter, reg, cur, svc, inbox, argsTaken, touched>>
      /\ "args" \in req[r].queues => r \in argsTaken
      /\ entries' = Unlink("data", r)
    BY <1>1, <1>2, CleanUpShape
<1>4. PICK code : /\ code = IF req[r].status = "REQUEST_ERROR" THEN "remote error" ELSE "OK"
                  /\ Finish(t, r, code)
    BY <1>1, <1>2, CleanUpShape
<1>5. /\ \A q \in Calls \ {r} : req'[q] = req[q]
      /\ req'[r].queues = {} /\ req'[r].kind = req[r].kind /\ req'[r].status = req[r].status
    <2>1. req' = [req EXCEPT ![r].queues = {}]
        BY <1>2 DEF CleanUp
    <2> QED BY <1>1, <2>1, QueuesOf
<1>6. /\ pc'[t] = "idle" /\ waiting'[t] = {} /\ told'[r] = code
      /\ \A q \in Calls \ {r} : told'[q] = told[q]
    BY <1>1, <1>4 DEF Types, Finish, Goto
<1>7. /\ inbox[r].of = r /\ inbox[r].got = "all"
      /\ req[r].status = IF inbox[r].rc = "OK" THEN "REQUEST_COMPLETE" ELSE "REQUEST_ERROR"
    BY <1>1, <1>2, <1>3 DEF ResultInv
<1>8. entries' = entries \/ \E i \in DOMAIN entries : entries' = RemoveAt(entries, i)
    BY <1>1, <1>3, Unlinked DEF Portals, Posted
<1>9. \A j \in DOMAIN entries' : \E k \in DOMAIN entries :
          entries'[j] = entries[k] /\ ~(entries[k].portal = "data" /\ entries[k].req = r)
    <2>1. CASE Posted("data", r) = {}
        BY <1>1, <1>3, <2>1, Unlinked DEF Portals, Posted
    <2>2. CASE Posted("data", r) # {}
        <3>1. PICK i \in Posted("data", r) : entries' = RemoveAt(entries, i)
            BY <1>1, <1>3, <2>2, Unlinked DEF Portals
        <3>2. i \in DOMAIN entries /\ entries[i].portal = "data" /\ entries[i].req = r
            BY DEF Posted
        <3> QED BY <1>1, <3>1, <3>2, RemovedOnce
    <2> QED BY <2>1, <2>2
<1>10. \A k \in DOMAIN entries : entries[k].req = r => entries[k].portal = "data"
    <2> SUFFICES ASSUME NEW k \in DOMAIN entries, entries[k].req = r PROVE entries[k].portal = "data"
        OBVIOUS
    <2>1. entries[k].portal # "args" /\ entries[k].portal # "res"
        BY <1>1, <1>3, <1>7, NoneAssumption DEF UsedInv
    <2>2. entries[k].portal \in Portals
        <3>1. entries[k] \in Entry
            BY <1>1
        <3> QED BY <3>1 DEF Entry
    <2> QED BY <2>1, <2>2 DEF Portals
<1>11. \A j \in DOMAIN entries' : \E k \in DOMAIN entries : entries'[j] = entries[k] /\ entries[k].req # r
    BY <1>9, <1>10
<1>12. OnceInv'
    BY <1>1, <1>8, OnceKept
<1>13. UsedInv'
    <2>1. ASSUME NEW j \in DOMAIN entries', NEW q \in Calls, entries'[j].req = q
          PROVE  /\ entries'[j].portal = "args" => q \notin argsTaken /\ "args" \in req'[q].queues
                 /\ entries'[j].portal = "res" => inbox[q].of = None
                 /\ told'[q] \notin Answered
        <3>1. PICK k \in DOMAIN entries : entries'[j] = entries[k] /\ entries[k].req # r
            BY <1>11
        <3>2. req'[q] = req[q] /\ told'[q] = told[q]
            BY <1>5, <1>6, <2>1, <3>1
        <3> QED BY <1>1, <2>1, <3>1, <3>2 DEF UsedInv
    <2> QED BY <1>1, <1>3, <2>1 DEF UsedInv
<1>14. ToldInv'
    <2>1. cur[t] = None /\ \A u \in Threads : u = t
        BY <1>1, <1>3, Only DEF ThreadInv
    <2>2. req[r].kind # None
        BY <1>1, <1>2 DEF ToldInv
    <2>3. ASSUME NEW q \in Calls
          PROVE  /\ told'[q] # None => req'[q].kind # None /\ \A u \in Threads : cur'[u] # q
                 /\ req'[q].kind = None => req'[q].status = "none"
        BY <1>1, <1>3, <1>5, <1>6, <2>1, <2>2, NoneAssumption DEF ToldInv
    <2> QED BY <1>6, <2>1, <2>3 DEF ToldInv
<1>15. ResultInv'
    BY <1>6, Only DEF ResultInv
<1>16. WaitTellsTruth'
    <2> SUFFICES ASSUME NEW q \in Calls, told'[q] \in Answered
                 PROVE  /\ inbox[q].of = q /\ inbox[q].got = "all"
                        /\ (told'[q] = "OK") = (inbox[q].rc = "OK")
                        /\ req'[q].queues = {} /\ \A j \in DOMAIN entries' : entries'[j].req # q
        BY <1>3 DEF WaitTellsTruth, Answered
    <2>1. CASE q = r
        <3>1. \A j \in DOMAIN entries' : entries'[j].req # r
            BY <1>11
        <3>2. (code = "OK") = (inbox[r].rc = "OK")
            BY <1>4, <1>7
        <3> QED BY <1>5, <1>6, <1>7, <2>1, <3>1, <3>2
    <2>2. CASE q # r
        <3>1. told'[q] = told[q] /\ req'[q] = req[q]
            BY <1>5, <1>6, <2>2
        <3>2. /\ inbox[q].of = q /\ inbox[q].got = "all"
              /\ (told[q] = "OK") = (inbox[q].rc = "OK")
              /\ req[q].queues = {} /\ \A j \in DOMAIN entries : entries[j].req # q
            BY <1>1, <3>1 DEF WaitTellsTruth, Answered
        <3> QED BY <1>11, <3>1, <3>2
    <2> QED BY <2>1, <2>2
<1> QED BY <1>12, <1>13, <1>14, <1>15, <1>16 DEF Truth

LEMMA TruthNext ==
    ASSUME OneThread, ~GarbageValid, TruthInv, OwnInv', [Next]_vars
    PROVE  TruthInv'
<1> SUFFICES Truth'
    BY DEF TruthInv, Truth
<1>1. IInv /\ Types
    BY DEF TruthInv, OwnInv, IInv
<1>2. CASE UNCHANGED vars
    <2>1. UNCHANGED <<entries, svc, inbox, argsTaken, req, cur, waiting, which, told, pc>>
        BY <1>2 DEF vars, netVars
    <2>2. OnceInv' /\ UsedInv' /\ ToldInv' /\ ResultInv'
        BY <2>1 DEF TruthInv, OnceInv, UsedInv, ToldInv, ResultInv
    <2>3. WaitTellsTruth'
        BY <2>1, TellsKept DEF TruthInv
    <2> QED BY <2>2, <2>3 DEF Truth
<1>3. ASSUME NEW r \in Calls, Serve(r) PROVE Truth'
    BY <1>3, FetchTruth, RunTruth, ResultStartTruth, ResultEndTruth DEF Serve
<1>4. ASSUME NEW t \in Threads, NEW r \in Calls, NEW k \in Kinds, Call(t, r, k) PROVE Truth'
    BY <1>4, CallTruth
<1>5. ASSUME NEW t \in Threads, NEW p \in Portals, LoadCounter(t, p) \/ StoreCounter(t, p) PROVE Truth'
    <2>1. UNCHANGED <<req, cur, waiting, which, netVars, told>>
        BY <1>5 DEF LoadCounter, StoreCounter
    <2>2. pc'[t] \in {StoreAt[p], PostAt[p]}
        BY <1>1, <1>5 DEF LoadCounter, StoreCounter, Goto, Types
    <2>3. pc'[t] \notin {"result", "cleanup"}
        BY <2>2 DEF StoreAt, PostAt, Portals
    <2> QED BY <2>1, <2>3, CountTruth
<1>6. ASSUME NEW t \in Threads, NEW p \in Portals, Post(t, p) PROVE Truth'
    BY <1>6, PostTruth
<1>7. ASSUME NEW t \in Threads, ShortArgs(t) PROVE Truth'
    <2>1. UNCHANGED <<req, cur, waiting, which, netVars, told>> /\ pc'[t] = "put"
        BY <1>1, <1>7 DEF ShortArgs, Goto, Types
    <2> QED BY <2>1, CountTruth
<1>8. ASSUME NEW t \in Threads, PutRequest(t) PROVE Truth'
    BY <1>8, PutTruth
<1>9. ASSUME NEW t \in Threads,
             \/ \E S \in SUBSET Calls : Wait(t, S)
             \/ \E r \in Calls : PollFirst(t, r)
             \/ PollRest(t) \/ ProcessResult(t) \/ TimeOutEarly(t) \/ TimeOutHalfway(t)
      PROVE  Truth'
    BY <1>9, StepsOfWaitTruth
<1>10. ASSUME NEW t \in Threads, CleanUp(t) PROVE Truth'
    BY <1>10, CleanUpTruth
<1> QED BY <1>2, <1>3, <1>4, <1>5, <1>6, <1>7, <1>8, <1>9, <1>10 DEF Next, Step

LEMMA TruthInit == Init => TruthInv
<1> SUFFICES ASSUME Init PROVE TruthInv
    OBVIOUS
<1>1. OwnInv
    BY OwnInit
<1>2. \A r \in Calls : /\ told[r] = None /\ inbox[r] = Nothing /\ req[r].status = "none"
                       /\ None \notin {"OK", "remote error"}
    BY NoneAssumption DEF Init, NoCall, Outcomes
<1>3. OnceInv /\ UsedInv
    <2>1. entries = <<>> /\ argsTaken = {}
        BY DEF Init
    <2>2. \A r \in Calls : inbox[r].of = None /\ inbox[r].got = "nothing"
        <3>1. Nothing.of = None /\ Nothing.got = "nothing"
            BY DEF Nothing
        <3>2. \A r \in Calls : inbox[r] = Nothing
            BY <1>2
        <3> QED BY <3>1, <3>2
    <2> QED BY <2>1, <2>2 DEF OnceInv, UsedInv
<1>4. ToldInv /\ ResultInv
    BY <1>2 DEF Init, ToldInv, ResultInv
<1>5. WaitTellsTruth
    BY <1>2 DEF WaitTellsTruth
<1> QED BY <1>1, <1>3, <1>4, <1>5 DEF TruthInv

\* With one thread, and a *which of -1 that does not name a live queue by accident, a wait
\* reports what the service answered to that request, and leaves nothing of it posted.
THEOREM WaitsTellTruth ==
    ASSUME OneThread, ~GarbageValid
    PROVE  Spec => []WaitTellsTruth
<1>1. OwnInv /\ IInv' /\ [Next]_vars => OwnInv'
    BY OwnNext
<1>2. TruthInv /\ OwnInv' /\ [Next]_vars => TruthInv'
    BY TruthNext
<1>3. TruthInv => OwnInv /\ WaitTellsTruth
    BY DEF TruthInv
<1> QED BY <1>1, <1>2, <1>3, TruthInit, InductiveInvariant, PTL DEF Spec
=============================================================================
