---------------------------- MODULE AccessProofs ----------------------------
(***************************************************************************)
(* Proofs about the storage server's operations, for any number of         *)
(* threads, objects, attributes and requests.                              *)
(***************************************************************************)
EXTENDS Access, FiniteSetTheorems, TLAPS

(***************************************************************************)
(* The inductive invariant, in named parts.                                *)
(***************************************************************************)

Heads == {"exists", "ops", "verify"}
Labels == Effects \cup Heads \cup {"idle", "reply"}

\* The steps that an operation consists of, once it was allowed.
Stages ==
    [create |-> {"create", "setcid"}, remove |-> {"rmfile", "count", "list", "rmattrs"},
     read |-> {"read"}, write |-> {"data", "write"}, fsync |-> {"fsync"}, stat |-> {"stat"},
     trunc |-> {"trunc"}, listattrs |-> {"count", "list"}, getattrs |-> {"getattrs"},
     setattrs |-> {"setattrs"}, rmattrs |-> {"rmattrs"}, getattr |-> {"getattrs"},
     setattr |-> {"setattrs"}, rmattr |-> {"rmattrs"}]

\* The type of every variable that the other parts are about.
Types ==
    /\ acl \subseteq ContainerOps /\ svcKey \in Nat /\ caps \subseteq Capability
    /\ caching \in BOOLEAN /\ cache \subseteq caps /\ (caching \/ cache = {})
    /\ objs \subseteq Objs /\ attrs \subseteq Objs \X Names
    /\ req \in [Threads -> Request \cup {None}]
    /\ pc \in [Threads -> Labels]
    /\ left \in [Threads -> SUBSET (ContainerOps \cup Names)]
    /\ room \in [Threads -> 0..Cardinality(Names)]
    /\ frees \in [Threads -> 0..2]
    /\ rc \in [Threads -> {"OK", "NO_OBJ", "ACCESS", "VERIFYCAP", "EXIST", "STORAGE", "RPC"}]
    /\ seen \in [Threads -> SUBSET ContainerOps]
    /\ done \in [Threads -> BOOLEAN]

\* What a capability allows was once allowed by the lists.
CapsInv == \A cap \in caps : \A o \in cap.ops : <<cap, o>> \in ever

\* A thread serves a request exactly when it is busy; the request's capability was given
\* by the authorization server, and what the lists allow has been seen.
ServedInv(t) ==
    /\ req[t] = None <=> pc[t] = "idle"
    /\ req[t] # None => req[t].cap \in caps /\ acl \subseteq seen[t]

\* A thread is where its operation can be.
PathInv(t) ==
    pc[t] \in Effects => pc[t] \in Stages[req[t].op] /\ left[t] \subseteq Names

\* How far the capability was verified.
CheckedInv(t) ==
    /\ pc[t] = "verify" =>
          Needed(req[t].op) \in req[t].cap.ops /\ req[t].cap.ops \ left[t] \subseteq seen[t]
    /\ pc[t] \in Effects =>
          LET o == Needed(req[t].op)
          IN  o \in seen[t] \/ (caching /\ <<req[t].cap, o>> \in ever)

\* Nothing is freed before the answer.
FreesInv(t) == pc[t] # "reply" => frees[t] = 0

ThreadInv(t) == ServedInv(t) /\ PathInv(t) /\ CheckedInv(t) /\ FreesInv(t)

IInv == Types /\ CapsInv /\ \A t \in Threads : ThreadInv(t)

Codes == {"OK", "NO_OBJ", "ACCESS", "VERIFYCAP", "EXIST", "STORAGE", "RPC"}
-----------------------------------------------------------------------------
(* The table of operations and the helpers.                                *)

\* What the table says is what the invariant says of it.
LEMMA OpFacts ==
  ASSUME NEW op \in DOMAIN op_array
  PROVE  /\ Needed(op) \in ContainerOps
         /\ op_array[op].first \in Stages[op]
         /\ Stages[op] \subseteq Effects
<1>1. op \in {"create", "remove", "read", "write", "fsync", "stat", "trunc", "listattrs",
              "getattrs", "setattrs", "rmattrs", "getattr", "setattr", "rmattr"}
  BY DEF op_array
<1>2. Needed(op) \in ContainerOps
  BY <1>1 DEF op_array, Needed, ContainerOps, Handler, ss_create_obj, ss_remove_obj,
       ss_read, ss_write, ss_fsync, ss_listattrs, ss_getattrs, ss_setattrs, ss_rmattrs,
       ss_getattr, ss_setattr, ss_rmattr, ss_stat, ss_truncate
<1>3. Stages[op] \subseteq Effects
  BY <1>1 DEF Stages, Effects
<1>4. op_array[op].first \in Stages[op]
  BY <1>1 DEF op_array, Stages, Handler, ss_create_obj, ss_remove_obj,
       ss_read, ss_write, ss_fsync, ss_listattrs, ss_getattrs, ss_setattrs, ss_rmattrs,
       ss_getattr, ss_setattr, ss_rmattr, ss_stat, ss_truncate
<1> QED BY <1>2, <1>3, <1>4

\* Steps that belong to one operation only.
LEMMA OpOfStage ==
  ASSUME NEW op \in DOMAIN op_array
  PROVE  /\ "create" \in Stages[op] \/ "setcid" \in Stages[op] => op = "create"
         /\ "rmfile" \in Stages[op] => op = "remove"
         /\ "count" \in Stages[op] \/ "list" \in Stages[op] => op \in {"remove", "listattrs"}
         /\ "rmattrs" \in Stages[op] => op \in {"remove", "rmattrs", "rmattr"}
         /\ "data" \in Stages[op] \/ "write" \in Stages[op] => op = "write"
         /\ "setattrs" \in Stages[op] => op \in {"setattrs", "setattr"}
BY DEF op_array, Stages

\* The names that a request is made with are names.
LEMMA NameArgsFacts ==
  ASSUME NEW op \in DOMAIN op_array, NEW names \in NameArgs(op)
  PROVE  names \subseteq Names
<1>1. CASE op \in {"setattrs", "getattrs", "rmattrs"}
  BY <1>1 DEF NameArgs
<1>2. CASE op \in {"setattr", "getattr", "rmattr"}
  BY <1>2 DEF NameArgs
<1>3. CASE op \notin {"setattrs", "getattrs", "rmattrs", "setattr", "getattr", "rmattr"}
  BY <1>3 DEF NameArgs
<1> QED BY <1>1, <1>2, <1>3

\* A request that fails is answered, and of the thread's other state only frees changes.
LEMMA FailFacts ==
  ASSUME Types, NEW t \in Threads, NEW code \in Codes, Fail(t, code), frees[t] = 0
  PROVE  /\ pc' = [pc EXCEPT ![t] = "reply"]
         /\ rc' = [rc EXCEPT ![t] = code]
         /\ frees' \in [Threads -> 0..2]
         /\ \A u \in Threads \ {t} : frees'[u] = frees[u]
         /\ req[t].op # "write" => frees' = frees
         /\ req[t].op = "write" /\ code # "OK" => frees'[t] = 1
BY DEF Types, Fail, AnswerWrite, Answer, Goto

\* The steps of one thread keep what the others rely on.
LEMMA OthersKeep ==
  ASSUME IInv, NEW t \in Threads, UNCHANGED <<authr, caching>>, ThreadInv(t)',
         \A u \in Threads \ {t} :
            /\ pc'[u] = pc[u] /\ req'[u] = req[u] /\ left'[u] = left[u]
            /\ frees'[u] = frees[u] /\ seen'[u] = seen[u]
  PROVE  CapsInv' /\ \A u \in Threads : ThreadInv(u)'
<1>1. CapsInv'
  BY DEF IInv, CapsInv, authr
<1>2. ASSUME NEW u \in Threads \ {t}
      PROVE  ThreadInv(u)'
  <2> ThreadInv(u)
    BY DEF IInv
  <2> QED BY <1>2 DEF ThreadInv, ServedInv, PathInv, CheckedInv, FreesInv, authr
<1> QED BY <1>1, <1>2

-----------------------------------------------------------------------------
(* The initial state, and the steps of the authorization server.           *)

LEMMA NamesFinite == 0 \in 0..Cardinality(Names) /\ Cardinality(Names) \in Nat
BY AccessAssumption, FS_CardinalityType

LEMMA InitInv == Init => IInv
<1> SUFFICES ASSUME Init PROVE IInv
  OBVIOUS
<1>1. Types
  BY NamesFinite, AccessAssumption DEF Init, Types, ContainerOps, Labels
<1>2. CapsInv
  BY DEF Init, CapsInv
<1>3. ASSUME NEW t \in Threads PROVE ThreadInv(t)
  BY <1>3 DEF Init, ThreadInv, ServedInv, PathInv, CheckedInv, FreesInv, Effects
<1> QED BY <1>1, <1>2, <1>3 DEF IInv

\* A capability records what it was given for.
LEMMA GetCapStep ==
  ASSUME IInv, NEW ops \in CapArgs, GetCap(ops)
  PROVE  IInv'
<1> DEFINE cap == [ops |-> ops, key |-> svcKey]
<1>1. cap \in Capability
  BY AccessAssumption DEF IInv, Types, Capability, ContainerOps
<1>2. Types'
  BY <1>1 DEF IInv, Types, GetCap, store
<1>3. CapsInv'
  <2>1. \A o \in cap.ops : <<cap, o>> \in ever'
    BY DEF GetCap
  <2>2. \A c \in caps : \A o \in c.ops : <<c, o>> \in ever'
    BY DEF IInv, CapsInv, GetCap
  <2>3. caps' = caps \cup {cap}
    BY DEF GetCap
  <2> QED BY <2>1, <2>2, <2>3 DEF CapsInv
<1>4. ASSUME NEW t \in Threads PROVE ThreadInv(t)'
  <2> ThreadInv(t)
    BY DEF IInv
  <2> QED BY DEF GetCap, ThreadInv, ServedInv, PathInv, CheckedInv, FreesInv
<1> QED BY <1>2, <1>3, <1>4 DEF IInv

\* What the lists allow from now on is seen by every request in service.
LEMMA ModAclStep ==
  ASSUME IInv, NEW o \in ContainerOps, ModAcl(o)
  PROVE  IInv'
<1>1. acl' \subseteq ContainerOps
  BY DEF IInv, Types, ModAcl
<1>2. \A t \in Threads : seen'[t] = IF req[t] = None THEN {} ELSE seen[t] \cup acl'
  BY DEF ModAcl
<1>3. Types'
  BY <1>1 DEF IInv, Types, ModAcl, store
<1>4. CapsInv'
  BY DEF IInv, CapsInv, ModAcl
<1>5. ASSUME NEW t \in Threads PROVE ThreadInv(t)'
  <2>1. ThreadInv(t)
    BY DEF IInv
  <2>2. ServedInv(t)' /\ PathInv(t)' /\ FreesInv(t)'
    BY <1>2, <2>1 DEF ModAcl, ThreadInv, ServedInv, PathInv, FreesInv
  <2>3. CheckedInv(t)'
    <3>1. pc[t] # "idle" => seen[t] \subseteq seen'[t]
      BY <1>2, <2>1 DEF ThreadInv, ServedInv
    <3> QED BY <2>1, <3>1 DEF ModAcl, ThreadInv, CheckedInv, Effects
  <2> QED BY <2>2, <2>3 DEF ThreadInv
<1> QED BY <1>3, <1>4, <1>5 DEF IInv

LEMMA NewKeyStep ==
  ASSUME IInv, NewKey
  PROVE  IInv'
<1>1. Types' /\ CapsInv'
  BY DEF IInv, Types, CapsInv, NewKey, store
<1>2. ASSUME NEW t \in Threads PROVE ThreadInv(t)'
  <2> ThreadInv(t)
    BY DEF IInv
  <2> QED BY DEF NewKey, ThreadInv, ServedInv, PathInv, CheckedInv, FreesInv
<1> QED BY <1>1, <1>2 DEF IInv
-----------------------------------------------------------------------------
(* The steps of a request up to its operation.                             *)

LEMMA BeginStep ==
  ASSUME IInv, NEW t \in Threads, NEW op \in OpArgs, NEW o \in Objs, NEW cap \in caps,
         NEW names \in NameArgs(op), Begin(t, op, o, cap, names)
  PROVE  IInv'
<1> DEFINE r == [op |-> op, obj |-> o, cap |-> cap, names |-> names]
<1>1. r \in Request /\ r # None
  <2>1. op \in DOMAIN op_array
    BY AccessAssumption
  <2>2. names \subseteq Names
    BY <2>1, NameArgsFacts
  <2> QED BY <2>1, <2>2, NoneAssumption DEF Request, IInv, Types
<1>2. Types'
  BY <1>1 DEF IInv, Types, Begin, Goto, Labels, Heads, authr, store
<1>3. ThreadInv(t)'
  BY <1>1 DEF IInv, Types, Begin, Goto, authr, ThreadInv, ServedInv, PathInv, CheckedInv,
              FreesInv, Effects
<1>4. \A u \in Threads \ {t} :
         /\ pc'[u] = pc[u] /\ req'[u] = req[u] /\ left'[u] = left[u]
         /\ frees'[u] = frees[u] /\ seen'[u] = seen[u]
  BY DEF IInv, Types, Begin, Goto
<1>5. UNCHANGED <<authr, caching>>
  BY DEF Begin
<1> QED BY <1>2, <1>3, <1>4, <1>5, OthersKeep DEF IInv

LEMMA ReplyStep ==
  ASSUME IInv, NEW t \in Threads, Reply(t)
  PROVE  IInv'
<1>1. Types'
  BY NamesFinite DEF IInv, Types, Reply, Goto, Labels, authr, store
<1>2. ThreadInv(t)'
  BY DEF IInv, Types, Reply, Goto, ThreadInv, ServedInv, PathInv, CheckedInv, FreesInv, Effects
<1>3. \A u \in Threads \ {t} :
         /\ pc'[u] = pc[u] /\ req'[u] = req[u] /\ left'[u] = left[u]
         /\ frees'[u] = frees[u] /\ seen'[u] = seen[u]
  BY DEF IInv, Types, Reply, Goto
<1>4. UNCHANGED <<authr, caching>>
  BY DEF Reply
<1> QED BY <1>1, <1>2, <1>3, <1>4, OthersKeep DEF IInv

\* What holds of a thread that serves a request.
LEMMA BusyFacts ==
  ASSUME IInv, NEW t \in Threads, pc[t] \notin {"idle", "reply"}
  PROVE  /\ req[t] \in Request /\ req[t] # None
         /\ req[t].op \in DOMAIN op_array /\ req[t].cap \in caps
         /\ req[t].cap.ops \subseteq ContainerOps /\ req[t].names \subseteq Names
         /\ frees[t] = 0
<1>1. ThreadInv(t) /\ Types
  BY DEF IInv
<1>2. req[t] \in Request /\ req[t] # None
  BY <1>1 DEF ThreadInv, ServedInv, Types
<1> QED BY <1>1, <1>2 DEF ThreadInv, ServedInv, FreesInv, Request, Capability

LEMMA CheckExistsStep ==
  ASSUME IInv, NEW t \in Threads, CheckExists(t)
  PROVE  IInv'
<1>1. /\ pc' \in [Threads -> Labels] /\ pc'[t] \in {"ops", "reply"}
      /\ \A u \in Threads \ {t} : pc'[u] = pc[u] /\ frees'[u] = frees[u]
      /\ rc' \in [Threads -> Codes] /\ frees' \in [Threads -> 0..2]
      /\ pc'[t] = "ops" => frees'[t] = 0
  <2>1. CASE req[t].obj \in objs
    BY <2>1, BusyFacts DEF IInv, Types, CheckExists, Goto, Labels, Heads, Codes
  <2>2. CASE req[t].obj \notin objs
    <3>1. Fail(t, "NO_OBJ") /\ frees[t] = 0
      BY <2>2, BusyFacts DEF CheckExists
    <3> QED BY <3>1, FailFacts DEF IInv, Types, Labels, Codes
  <2> QED BY <2>1, <2>2
<1>2. Types'
  BY <1>1 DEF IInv, Types, CheckExists, authr, store, Codes
<1>3. ThreadInv(t)'
  BY <1>1, BusyFacts DEF IInv, CheckExists, ThreadInv, ServedInv, PathInv, CheckedInv, FreesInv, Effects, authr
<1> QED BY <1>1, <1>2, <1>3, OthersKeep DEF IInv, CheckExists

\* An operation begins when the capability allows it and was verified, now or before.
LEMMA PerformFacts ==
  ASSUME IInv, NEW t \in Threads, pc[t] \in {"exists", "ops", "verify"}, Perform(t)
  PROVE  /\ pc' \in [Threads -> Labels] /\ left' \in [Threads -> SUBSET (ContainerOps \cup Names)]
         /\ pc'[t] \in Effects /\ pc'[t] \in Stages[req[t].op] /\ left'[t] \subseteq Names
         /\ \A u \in Threads \ {t} : pc'[u] = pc[u] /\ left'[u] = left[u]
<1>1. req[t].op \in DOMAIN op_array /\ req[t].names \subseteq Names
  BY BusyFacts
<1>2. op_array[req[t].op].first \in Stages[req[t].op] \cap Effects
  BY <1>1, OpFacts
<1> QED BY <1>1, <1>2 DEF IInv, Types, Perform, Goto, Labels

LEMMA CheckOpsStep ==
  ASSUME IInv, NEW t \in Threads, CheckOps(t)
  PROVE  IInv'
<1> DEFINE r == req[t]
<1>1. /\ UNCHANGED <<authr, caching, cache, store, req, room, seen, done>>
      /\ pc[t] = "ops" /\ ThreadInv(t)
  BY DEF CheckOps, IInv
<1>2. CASE Needed(r.op) \notin r.cap.ops
  <2>1. Fail(t, "ACCESS") /\ frees[t] = 0 /\ UNCHANGED left
    BY <1>1, <1>2, BusyFacts DEF CheckOps
  <2>2. Types' /\ pc'[t] = "reply"
    BY <1>1, <2>1, FailFacts DEF IInv, Types, Labels, Codes, authr, store
  <2>3. \A u \in Threads \ {t} : pc'[u] = pc[u] /\ frees'[u] = frees[u]
    BY <2>1, FailFacts DEF IInv, Codes, Types
  <2>4. ThreadInv(t)'
    BY <1>1, <2>2, BusyFacts DEF ThreadInv, ServedInv, PathInv, CheckedInv, FreesInv, Effects, authr
  <2> QED BY <1>1, <2>1, <2>2, <2>3, <2>4, OthersKeep DEF IInv
<1>3. CASE Needed(r.op) \in r.cap.ops /\ caching /\ r.cap \in cache
  <2>1. Perform(t) /\ UNCHANGED <<rc, frees>>
    BY <1>3 DEF CheckOps
  <2>2. Types'
    BY <1>1, <2>1, PerformFacts DEF IInv, Types, authr, store
  <2>3. <<r.cap, Needed(r.op)>> \in ever
    BY <1>1, <1>3 DEF IInv, Types, CapsInv
  <2>4. ThreadInv(t)'
    <3>1. ServedInv(t)' /\ PathInv(t)' /\ FreesInv(t)'
      BY <1>1, <2>1, PerformFacts, BusyFacts
      DEF ThreadInv, ServedInv, PathInv, FreesInv, Effects, authr
    <3>2. CheckedInv(t)'
      BY <1>1, <1>3, <2>1, <2>3, PerformFacts DEF CheckedInv, Effects, authr
    <3> QED BY <3>1, <3>2 DEF ThreadInv
  <2> QED BY <1>1, <2>1, <2>2, <2>4, PerformFacts, OthersKeep DEF IInv
<1>4. CASE Needed(r.op) \in r.cap.ops /\ ~(caching /\ r.cap \in cache)
  <2>1. Goto(t, "verify") /\ left' = [left EXCEPT ![t] = r.cap.ops] /\ UNCHANGED <<rc, frees>>
    BY <1>4 DEF CheckOps
  <2>2. Types'
    BY <1>1, <2>1, BusyFacts DEF IInv, Types, authr, store, Goto, Labels, Heads
  <2>3. pc'[t] = "verify" /\ left'[t] = r.cap.ops
    BY <2>1 DEF IInv, Types, Goto
  <2>4. ThreadInv(t)'
    BY <1>1, <1>4, <2>1, <2>3, BusyFacts
    DEF ThreadInv, ServedInv, PathInv, CheckedInv, FreesInv, Effects, authr
  <2>5. \A u \in Threads \ {t} : pc'[u] = pc[u] /\ left'[u] = left[u]
    BY <2>1 DEF IInv, Types, Goto
  <2> QED BY <1>1, <2>1, <2>2, <2>4, <2>5, OthersKeep DEF IInv
<1> QED BY <1>2, <1>3, <1>4

LEMMA VerifyStep ==
  ASSUME IInv, NEW t \in Threads, Verify(t)
  PROVE  IInv'
<1> DEFINE r == req[t]
<1>1. /\ UNCHANGED <<authr, caching, store, req, room, seen, done>>
      /\ pc[t] = "verify" /\ ThreadInv(t)
  BY DEF Verify, IInv
<1>2. ASSUME NEW code \in Codes, Fail(t, code), UNCHANGED <<left, cache>>
      PROVE  IInv'
  <2>1. frees[t] = 0
    BY <1>1, BusyFacts
  <2>2. Types' /\ pc'[t] = "reply"
    BY <1>1, <1>2, <2>1, FailFacts DEF IInv, Types, Labels, Codes, authr, store
  <2>3. \A u \in Threads \ {t} : pc'[u] = pc[u] /\ frees'[u] = frees[u]
    BY <1>2, <2>1, FailFacts DEF IInv, Types
  <2>4. ThreadInv(t)'
    BY <1>1, <2>2, BusyFacts DEF ThreadInv, ServedInv, PathInv, CheckedInv, FreesInv, Effects, authr
  <2> QED BY <1>1, <1>2, <2>2, <2>3, <2>4, OthersKeep DEF IInv
<1>3. CASE r.cap.key # svcKey
  BY <1>2, <1>3 DEF Verify, Codes
<1>4. CASE r.cap.key = svcKey /\ left[t] = {}
  <2>1. /\ cache' = IF caching THEN cache \cup {r.cap} ELSE cache
        /\ Perform(t) /\ UNCHANGED <<rc, frees>>
    BY <1>4 DEF Verify
  <2>2. Types'
    BY <1>1, <2>1, PerformFacts, BusyFacts DEF IInv, Types, authr, store
  <2>3. Needed(r.op) \in seen[t]
    BY <1>1, <1>4 DEF ThreadInv, CheckedInv
  <2>4. ThreadInv(t)'
    BY <1>1, <2>1, <2>3, PerformFacts, BusyFacts
    DEF ThreadInv, ServedInv, PathInv, CheckedInv, FreesInv, Effects, authr
  <2> QED BY <1>1, <2>1, <2>2, <2>4, PerformFacts, OthersKeep DEF IInv
<1>5. ASSUME r.cap.key = svcKey, NEW o \in left[t], o \in acl,
             left' = [left EXCEPT ![t] = @ \ {o}], UNCHANGED <<pc, rc, frees, cache>>
      PROVE  IInv'
  <2>1. Types' /\ left'[t] = left[t] \ {o}
    BY <1>1, <1>5 DEF IInv, Types, authr, store
  <2>2. ThreadInv(t)'
    BY <1>1, <1>5, <2>1, BusyFacts
    DEF ThreadInv, ServedInv, PathInv, CheckedInv, FreesInv, Effects, authr
  <2>3. \A u \in Threads \ {t} : left'[u] = left[u]
    BY <1>5 DEF IInv, Types
  <2> QED BY <1>1, <1>5, <2>1, <2>2, <2>3, OthersKeep DEF IInv
<1> QED BY <1>2, <1>3, <1>4, <1>5 DEF Verify, Codes
-----------------------------------------------------------------------------
(* The steps of the operations.                                            *)

\* An operation goes on among its own steps, or is answered.
LEMMA EffectStep ==
  ASSUME IInv, Types', NEW t \in Threads, pc[t] \in Effects,
         UNCHANGED <<authr, caching, req, seen>>,
         \A u \in Threads \ {t} : pc'[u] = pc[u] /\ left'[u] = left[u] /\ frees'[u] = frees[u],
         \/ pc'[t] = "reply"
         \/ pc'[t] \in Stages[req[t].op] \cap Effects /\ left'[t] \subseteq Names /\ frees'[t] = 0
  PROVE  IInv'
<1>1. ThreadInv(t) /\ pc[t] \notin {"idle", "reply"}
  BY DEF IInv, Effects
<1>2. ThreadInv(t)'
  BY <1>1, BusyFacts DEF ThreadInv, ServedInv, PathInv, CheckedInv, FreesInv, Effects, authr
<1> QED BY <1>2, OthersKeep DEF IInv

\* What holds of a thread in an operation.
LEMMA AtStep ==
  ASSUME IInv, NEW t \in Threads, pc[t] \in Effects
  PROVE  /\ req[t] \in Request /\ req[t].op \in DOMAIN op_array /\ req[t].obj \in Objs
         /\ pc[t] \in Stages[req[t].op] /\ left[t] \subseteq Names /\ frees[t] = 0
         /\ pc[t] \in {"create", "setcid"} => req[t].op = "create"
         /\ pc[t] = "rmfile" => req[t].op = "remove"
         /\ pc[t] \in {"count", "list"} => req[t].op \in {"remove", "listattrs"}
         /\ pc[t] \in {"data", "write"} => req[t].op = "write"
<1>1. ThreadInv(t) /\ pc[t] \notin {"idle", "reply"}
  BY DEF IInv, Effects
<1>2. req[t] \in Request /\ req[t].op \in DOMAIN op_array /\ frees[t] = 0
  BY <1>1, BusyFacts
<1>3. pc[t] \in Stages[req[t].op] /\ left[t] \subseteq Names
  BY <1>1 DEF ThreadInv, PathInv
<1>4. req[t].obj \in Objs
  BY <1>2 DEF Request
<1> QED BY <1>2, <1>3, <1>4, OpOfStage

LEMMA CreateStep ==
  ASSUME IInv, NEW t \in Threads, Create(t)
  PROVE  IInv'
<1>1. req[t].obj \in Objs /\ frees[t] = 0 /\ left[t] \subseteq Names /\ req[t].op = "create"
  BY AtStep DEF Create, Effects
<1>2. Types'
  BY <1>1 DEF IInv, Types, Create, Answer, Goto, Labels, Effects, authr
<1>3. pc'[t] \in {"setcid", "reply"} /\ \A u \in Threads \ {t} : pc'[u] = pc[u]
  BY DEF IInv, Types, Create, Answer, Goto
<1>4. {"setcid"} \subseteq Stages["create"] \cap Effects
  BY DEF Stages, Effects
<1> QED BY <1>1, <1>2, <1>3, <1>4, EffectStep DEF Create, Effects

\* Only attributes of objects are put.
LEMMA PutFacts ==
  ASSUME Types, NEW o \in Objs, NEW n \in Names, PutAttr(o, n)
  PROVE  attrs' \subseteq Objs \X Names
BY DEF Types, PutAttr

LEMMA SetCidStep ==
  ASSUME IInv, NEW t \in Threads, SetCid(t)
  PROVE  IInv'
<1>1. req[t].obj \in Objs
  BY AtStep DEF SetCid, Effects
<1>2. Types'
  <2>1. attrs' \subseteq Objs \X Names
    BY <1>1, AccessAssumption, PutFacts DEF IInv, Types, SetCid
  <2>2. done' \in [Threads -> BOOLEAN]
    BY DEF IInv, Types, SetCid, Done
  <2> QED BY <2>1, <2>2 DEF IInv, Types, SetCid, Answer, Goto, Labels, authr
<1>3. pc'[t] = "reply" /\ \A u \in Threads \ {t} : pc'[u] = pc[u]
  BY DEF IInv, Types, SetCid, Answer, Goto
<1> QED BY <1>2, <1>3, EffectStep DEF SetCid, Effects

LEMMA RemoveFileStep ==
  ASSUME IInv, NEW t \in Threads, RemoveFile(t)
  PROVE  IInv'
<1>1. frees[t] = 0 /\ left[t] \subseteq Names /\ req[t].op = "remove"
  BY AtStep DEF RemoveFile, Effects
<1>2. Types'
  BY DEF IInv, Types, RemoveFile, Answer, Goto, Labels, Effects, authr
<1>3. pc'[t] \in {"count", "reply"} /\ \A u \in Threads \ {t} : pc'[u] = pc[u]
  BY DEF IInv, Types, RemoveFile, Answer, Goto
<1>4. {"count"} \subseteq Stages["remove"] \cap Effects
  BY DEF Stages, Effects
<1> QED BY <1>1, <1>2, <1>3, <1>4, EffectStep DEF RemoveFile, Effects

\* The names that an object has are some of the names.
LEMMA NamesOfFacts ==
  ASSUME NEW o
  PROVE  /\ NamesOf(o) \subseteq Names /\ IsFiniteSet(NamesOf(o))
         /\ Cardinality(NamesOf(o)) \in 0..Cardinality(Names)
<1>1. NamesOf(o) \subseteq Names
  BY DEF NamesOf
<1> QED BY <1>1, AccessAssumption, FS_Subset, FS_CardinalityType

LEMMA CountNamesStep ==
  ASSUME IInv, NEW t \in Threads, CountNames(t)
  PROVE  IInv'
<1>1. frees[t] = 0 /\ left[t] \subseteq Names /\ req[t].op \in {"remove", "listattrs"}
  BY AtStep DEF CountNames, Effects
<1>2. Types'
  <2>1. room' \in [Threads -> 0..Cardinality(Names)]
    BY NamesOfFacts DEF IInv, Types, CountNames
  <2> QED BY <2>1 DEF IInv, Types, CountNames, Goto, Labels, Effects, authr, store
<1>3. pc'[t] = "list" /\ \A u \in Threads \ {t} : pc'[u] = pc[u]
  BY DEF IInv, Types, CountNames, Goto
<1>4. {"list"} \subseteq Stages["remove"] \cap Stages["listattrs"] \cap Effects
  BY DEF Stages, Effects
<1> QED BY <1>1, <1>2, <1>3, <1>4, EffectStep DEF CountNames, Effects

LEMMA ListNamesStep ==
  ASSUME IInv, NEW t \in Threads, ListNames(t)
  PROVE  IInv'
<1> DEFINE found == NamesOf(req[t].obj)
<1>1. frees[t] = 0 /\ left[t] \subseteq Names /\ pc[t] = "list"
  BY AtStep DEF ListNames, Effects
<1>2. room[t] \in Nat /\ room[t] <= Cardinality(Names)
  BY NamesFinite DEF IInv, Types
<1>3. CASE found = {}
  <2>1. /\ Answer(t, IF req[t].op = "remove" THEN "OK" ELSE "STORAGE")
        /\ done' = [done EXCEPT ![t] = req[t].op = "remove"]
        /\ UNCHANGED <<left, room, authr, caching, cache, store, req, frees, seen>>
    BY <1>3 DEF ListNames
  <2>2. done' \in [Threads -> BOOLEAN]
    BY <2>1 DEF IInv, Types
  <2>3. Types'
    BY <2>1, <2>2 DEF IInv, Types, Answer, Goto, Labels, authr, store
  <2>4. pc'[t] = "reply" /\ \A u \in Threads \ {t} : pc'[u] = pc[u]
    BY <2>1 DEF IInv, Types, Answer, Goto
  <2> QED BY <1>1, <2>1, <2>3, <2>4, EffectStep DEF Effects
<1>4. CASE found # {}
  <2>1. PICK some \in SUBSET found :
           /\ Cardinality(some) = IF Cardinality(found) < room[t] THEN Cardinality(found)
                                  ELSE room[t]
           /\ left' = [left EXCEPT ![t] = some]
           /\ room' = [room EXCEPT ![t] = @ - Cardinality(some)]
    BY <1>4 DEF ListNames
  <2>2. UNCHANGED <<authr, caching, cache, store, req, frees, seen>>
    BY DEF ListNames
  <2>3. some \subseteq Names /\ Cardinality(some) \in 0..room[t]
    BY <1>2, <2>1, NamesOfFacts
  <2>4. /\ left' \in [Threads -> SUBSET (ContainerOps \cup Names)] /\ left'[t] \subseteq Names
        /\ \A u \in Threads \ {t} : left'[u] = left[u]
    BY <2>1, <2>3 DEF IInv, Types
  <2>5. room' \in [Threads -> 0..Cardinality(Names)]
    BY <1>2, <2>1, <2>3, NamesFinite DEF IInv, Types
  <2>6. CASE req[t].op = "remove"
    <3>1. Goto(t, "rmattrs") /\ UNCHANGED <<rc, done>>
      BY <1>4, <2>6 DEF ListNames
    <3>2. Types'
      BY <2>2, <2>4, <2>5, <3>1 DEF IInv, Types, Goto, Labels, Effects, authr, store
    <3>3. pc'[t] = "rmattrs" /\ \A u \in Threads \ {t} : pc'[u] = pc[u]
      BY <3>1 DEF IInv, Types, Goto
    <3>4. {"rmattrs"} \subseteq Stages["remove"] \cap Effects
      BY DEF Stages, Effects
    <3> QED BY <1>1, <2>2, <2>4, <2>6, <3>2, <3>3, <3>4, EffectStep DEF Effects
  <2>7. CASE req[t].op # "remove"
    <3>1. Answer(t, "OK") /\ Done(t)
      BY <1>4, <2>7 DEF ListNames
    <3>2. Types'
      BY <2>2, <2>4, <2>5, <3>1 DEF IInv, Types, Answer, Done, Goto, Labels, authr, store
    <3>3. pc'[t] = "reply" /\ \A u \in Threads \ {t} : pc'[u] = pc[u]
      BY <3>1 DEF IInv, Types, Answer, Goto
    <3> QED BY <1>1, <2>2, <2>4, <3>2, <3>3, EffectStep DEF Effects
  <2> QED BY <2>6, <2>7
<1> QED BY <1>3, <1>4

\* The loops over names: a step answers, or goes on with fewer names.
LEMMA LoopStep ==
  ASSUME IInv, Types', NEW t \in Threads, pc[t] \in Effects,
         UNCHANGED <<authr, caching, req, seen, frees>>,
         \A u \in Threads \ {t} : pc'[u] = pc[u] /\ left'[u] = left[u],
         pc'[t] \in {pc[t], "reply"}, left'[t] \subseteq left[t]
  PROVE  IInv'
<1>1. pc[t] \in Stages[req[t].op] /\ left[t] \subseteq Names /\ frees[t] = 0
  BY AtStep
<1> QED BY <1>1, EffectStep

LEMMA RemoveNamesStep ==
  ASSUME IInv, NEW t \in Threads, RemoveNames(t)
  PROVE  IInv'
<1>1. Types'
  <2>1. attrs' \subseteq attrs
    BY DEF RemoveNames, DelAttr
  <2>2. /\ left' = left \/ \E n : left' = [left EXCEPT ![t] = @ \ {n}]
        /\ done' = done \/ done' = [done EXCEPT ![t] = TRUE]
        /\ pc' = pc \/ pc' = [pc EXCEPT ![t] = "reply"]
        /\ rc' = rc \/ \E code \in {"OK", "STORAGE"} : rc' = [rc EXCEPT ![t] = code]
    BY DEF RemoveNames, Answer, Done, Goto
  <2>3. left' \in [Threads -> SUBSET (ContainerOps \cup Names)]
    BY <2>2 DEF IInv, Types
  <2>4. done' \in [Threads -> BOOLEAN]
    BY <2>2 DEF IInv, Types
  <2>5. pc' \in [Threads -> Labels]
    BY <2>2 DEF IInv, Types, Labels
  <2>6. rc' \in [Threads -> Codes]
    BY <2>2 DEF IInv, Types, Codes
  <2>7. UNCHANGED <<authr, caching, cache, objs, req, room, frees, seen>>
    BY DEF RemoveNames
  <2> QED BY <2>1, <2>3, <2>4, <2>5, <2>6, <2>7 DEF IInv, Types, Codes, authr
<1>2. /\ pc'[t] \in {pc[t], "reply"} /\ left'[t] \subseteq left[t]
      /\ \A u \in Threads \ {t} : pc'[u] = pc[u] /\ left'[u] = left[u]
  BY DEF IInv, Types, RemoveNames, Answer, Goto
<1> QED BY <1>1, <1>2, LoopStep DEF RemoveNames, Effects

LEMMA SetNamesStep ==
  ASSUME IInv, NEW t \in Threads, SetNames(t)
  PROVE  IInv'
<1>1. req[t].obj \in Objs /\ left[t] \subseteq Names
  BY AtStep DEF SetNames, Effects
<1>2. Types'
  <2>1. attrs' \subseteq Objs \X Names
    BY <1>1, PutFacts DEF IInv, Types, SetNames
  <2>2. done' \in [Threads -> BOOLEAN]
    BY DEF IInv, Types, SetNames, Done
  <2> QED BY <2>1, <2>2 DEF IInv, Types, SetNames, Answer, Goto, Labels, authr
<1>3. /\ pc'[t] \in {pc[t], "reply"} /\ left'[t] \subseteq left[t]
      /\ \A u \in Threads \ {t} : pc'[u] = pc[u] /\ left'[u] = left[u]
  BY DEF IInv, Types, SetNames, Answer, Goto
<1> QED BY <1>2, <1>3, LoopStep DEF SetNames, Effects

LEMMA GetNamesStep ==
  ASSUME IInv, NEW t \in Threads, GetNames(t)
  PROVE  IInv'
<1>1. Types'
  <2>1. /\ left' = left \/ \E n : left' = [left EXCEPT ![t] = @ \ {n}]
        /\ done' = done \/ done' = [done EXCEPT ![t] = TRUE]
        /\ pc' = pc \/ pc' = [pc EXCEPT ![t] = "reply"]
        /\ rc' = rc \/ \E code \in {"OK", "STORAGE"} : rc' = [rc EXCEPT ![t] = code]
    BY DEF GetNames, Answer, Done, Goto
  <2>2. left' \in [Threads -> SUBSET (ContainerOps \cup Names)]
    BY <2>1 DEF IInv, Types
  <2>3. done' \in [Threads -> BOOLEAN]
    BY <2>1 DEF IInv, Types
  <2>4. pc' \in [Threads -> Labels]
    BY <2>1 DEF IInv, Types, Labels
  <2>5. rc' \in [Threads -> Codes]
    BY <2>1 DEF IInv, Types, Codes
  <2>6. UNCHANGED <<authr, caching, cache, store, req, room, frees, seen>>
    BY DEF GetNames
  <2> QED BY <2>2, <2>3, <2>4, <2>5, <2>6 DEF IInv, Types, Codes, authr, store
<1>2. /\ pc'[t] \in {pc[t], "reply"} /\ left'[t] \subseteq left[t]
      /\ \A u \in Threads \ {t} : pc'[u] = pc[u] /\ left'[u] = left[u]
  BY DEF IInv, Types, GetNames, Answer, Goto
<1> QED BY <1>1, <1>2, LoopStep DEF GetNames, Effects

\* fsync, stat, read and truncate are one step.
LEMMA FileStep ==
  ASSUME IInv, NEW t \in Threads, Fsync(t) \/ Stat(t) \/ Read(t) \/ Truncate(t)
  PROVE  IInv'
<1>1. Types'
  BY DEF IInv, Types, Fsync, Stat, CannotOpen, Read, Truncate, Answer, Done, Goto, Labels, authr, store
<1>2. pc'[t] = "reply" /\ \A u \in Threads \ {t} : pc'[u] = pc[u]
  BY DEF IInv, Types, Fsync, Stat, CannotOpen, Read, Truncate, Answer, Goto
<1> QED BY <1>1, <1>2, LoopStep DEF Fsync, Stat, CannotOpen, Read, Truncate, Effects

LEMMA WriteStep ==
  ASSUME IInv, NEW t \in Threads, GetData(t) \/ Write(t)
  PROVE  IInv'
<1>1. /\ frees[t] = 0 /\ left[t] \subseteq Names /\ req[t].op = "write"
      /\ pc[t] \in {"data", "write"}
  BY AtStep DEF GetData, Write, Effects
<1>2. Types'
  <2>1. frees' \in [Threads -> 0..2]
    BY <1>1 DEF IInv, Types, GetData, Write, AnswerWrite
  <2>2. done' \in [Threads -> BOOLEAN]
    BY DEF IInv, Types, GetData, Write, Done
  <2> QED BY <2>1, <2>2 DEF IInv, Types, GetData, Write, AnswerWrite, Answer, Goto, Labels, Effects,
                           authr, store
<1>3. /\ pc'[t] = "reply" \/ (pc'[t] = "write" /\ frees'[t] = 0)
      /\ \A u \in Threads \ {t} : pc'[u] = pc[u] /\ frees'[u] = frees[u]
  BY <1>1 DEF IInv, Types, GetData, Write, AnswerWrite, Answer, Goto
<1>4. {"write"} \subseteq Stages["write"] \cap Effects
  BY DEF Stages, Effects
<1> QED BY <1>1, <1>2, <1>3, <1>4, EffectStep DEF GetData, Write, Effects

-----------------------------------------------------------------------------
(* The invariant, and what it says of the properties.                      *)

LEMMA StutterInv == IInv /\ UNCHANGED vars => IInv'
BY DEF IInv, Types, CapsInv, ThreadInv, ServedInv, PathInv, CheckedInv, FreesInv, vars, authr,
       store

LEMMA NextInv == IInv /\ [Next]_vars => IInv'
<1> SUFFICES ASSUME IInv, [Next]_vars PROVE IInv'
  OBVIOUS
<1>1. CASE UNCHANGED vars
  BY <1>1, StutterInv
<1>2. ASSUME NEW ops \in CapArgs, GetCap(ops) PROVE IInv'
  BY <1>2, GetCapStep
<1>3. ASSUME NEW o \in ContainerOps, ModAcl(o) PROVE IInv'
  BY <1>3, ModAclStep
<1>4. CASE NewKey
  BY <1>4, NewKeyStep
<1>5. ASSUME NEW t \in Threads, NEW op \in OpArgs, NEW o \in Objs, NEW cap \in caps,
             NEW names \in NameArgs(op), Begin(t, op, o, cap, names)
      PROVE IInv'
  BY <1>5, BeginStep
<1>6. ASSUME NEW t \in Threads, Serve(t) PROVE IInv'
  <2>1. CASE CheckExists(t) \/ CheckOps(t) \/ Verify(t)
    BY <2>1, CheckExistsStep, CheckOpsStep, VerifyStep
  <2>2. CASE Create(t) \/ SetCid(t) \/ RemoveFile(t)
    BY <2>2, CreateStep, SetCidStep, RemoveFileStep
  <2>3. CASE CountNames(t) \/ ListNames(t) \/ RemoveNames(t)
    BY <2>3, CountNamesStep, ListNamesStep, RemoveNamesStep
  <2>4. CASE SetNames(t) \/ GetNames(t)
    BY <2>4, SetNamesStep, GetNamesStep
  <2>5. CASE Fsync(t) \/ Stat(t) \/ Read(t) \/ Truncate(t)
    BY <2>5, FileStep
  <2>6. CASE GetData(t) \/ Write(t)
    BY <2>6, WriteStep
  <2>7. CASE Reply(t)
    BY <2>7, ReplyStep
  <2> QED BY <1>6, <2>1, <2>2, <2>3, <2>4, <2>5, <2>6, <2>7 DEF Serve
<1> QED BY <1>1, <1>2, <1>3, <1>4, <1>5, <1>6 DEF Next

THEOREM InductiveInvariant == Spec => []IInv
<1>1. Init => IInv
  BY InitInv
<1>2. IInv /\ [Next]_vars => IInv'
  BY NextInv
<1> QED BY <1>1, <1>2, PTL DEF Spec

\* The storage server's variables keep their types (storage_server.c, storage_db.c).
THEOREM TypeCorrect == Spec => []TypeOK
<1>1. IInv => TypeOK
  BY DEF IInv, Types, TypeOK, ThreadInv, ServedInv, Labels, Heads
<1> QED BY <1>1, InductiveInvariant, PTL

\* No handler of storage_server.c reaches the object store or the database unless the
\* lists allowed its operation at some time since the request came, or, when the server
\* caches what it verified (--authr-cache-caps), at some time before.
THEOREM EffectsWereAllowed == Spec => []EffectWasAllowed
<1>1. IInv => EffectWasAllowed
  BY DEF IInv, ThreadInv, CheckedInv, EffectWasAllowed
<1> QED BY <1>1, InductiveInvariant, PTL
-----------------------------------------------------------------------------
(* One thread, as the storage server has without its thread pool: what a   *)
(* request has found out about its object stays true.                      *)

OneThread == \A t, u \in Threads : t = u

\* A removal that has taken the file and not yet all attributes.
Removing(t) == req[t] # None /\ req[t].op = "remove" /\ pc[t] \in {"count", "list", "rmattrs"}

\* After the check the object is there, but for a removal that took it.
ObjThere(t) ==
    req[t] # None /\ ~Removing(t) =>
        /\ req[t].op # "create" /\ pc[t] \notin {"exists", "reply"} => req[t].obj \in objs
        /\ pc[t] = "setcid" => req[t].obj \in objs

\* A removal has room for all the names, and then has all of them in its array.
NamesListed(t) ==
    LET found == NamesOf(req[t].obj)
    IN  Removing(t) =>
            /\ pc[t] = "list" => room[t] = Cardinality(found)
            /\ pc[t] = "rmattrs" => left[t] = found /\ room[t] = 0

\* Only a removal under way leaves attributes without their object.
AttrsInv ==
    \A o \in Objs : NamesOf(o) # {} =>
        o \in objs \/ \E t \in Threads : Removing(t) /\ req[t].obj = o

SoleInv == IInv /\ AttrsInv /\ \A t \in Threads : ObjThere(t) /\ NamesListed(t)

\* The table: only a creation does without the check, and a removal begins with the file.
LEMMA FirstFacts ==
  ASSUME NEW op \in DOMAIN op_array
  PROVE  /\ op # "create" => op_array[op].exists
         /\ op \in {"create", "remove"} => op_array[op].first \in {"create", "rmfile"}
<1>1. op \in {"create", "remove", "read", "write", "fsync", "stat", "trunc", "listattrs",
              "getattrs", "setattrs", "rmattrs", "getattr", "setattr", "rmattr"}
  BY DEF op_array
<1> QED BY <1>1 DEF op_array, Handler, ss_create_obj, ss_remove_obj,
       ss_read, ss_write, ss_fsync, ss_listattrs, ss_getattrs, ss_setattrs, ss_rmattrs,
       ss_getattr, ss_setattr, ss_rmattr, ss_stat, ss_truncate

\* With one thread, a step that leaves the store alone and removes nothing.
LEMMA KeepsStore ==
  ASSUME OneThread, SoleInv, IInv', NEW t \in Threads, UNCHANGED <<objs, attrs>>,
         ~Removing(t), ~Removing(t)', ObjThere(t)'
  PROVE  SoleInv'
<1>1. \A u \in Threads : u = t
  BY DEF OneThread
<1>2. AttrsInv'
  BY <1>1 DEF SoleInv, AttrsInv, NamesOf, HasAttr
<1>3. NamesListed(t)'
  BY DEF NamesListed
<1> QED BY <1>1, <1>2, <1>3 DEF SoleInv

\* The same for a step that stays where it is or answers.
LEMMA StaysOrAnswers ==
  ASSUME OneThread, SoleInv, IInv', NEW t \in Threads, UNCHANGED <<objs, attrs, req>>,
         ~Removing(t), pc[t] \in Effects, pc'[t] \in {pc[t], "reply"}
  PROVE  SoleInv'
<1>1. ~Removing(t)' /\ ObjThere(t)'
  BY DEF Removing, ObjThere, SoleInv, Effects
<1> QED BY <1>1, KeepsStore

LEMMA SoleBegin ==
  ASSUME OneThread, SoleInv, IInv', NEW t \in Threads, NEW op \in OpArgs, NEW o \in Objs,
         NEW cap \in caps, NEW names \in NameArgs(op), Begin(t, op, o, cap, names)
  PROVE  SoleInv'
<1>1. op \in DOMAIN op_array
  BY AccessAssumption
<1>2. op # "create" => op_array[op].exists
  BY <1>1, FirstFacts
<1>3. pc[t] = "idle" /\ req'[t].op = op /\ pc'[t] = IF op_array[op].exists THEN "exists" ELSE "ops"
  BY DEF SoleInv, IInv, Types, Begin, Goto
<1>4. ~Removing(t) /\ ~Removing(t)' /\ ObjThere(t)'
  BY <1>2, <1>3 DEF Removing, ObjThere
<1> QED BY <1>4, KeepsStore DEF Begin, store

LEMMA SoleHeads ==
  ASSUME OneThread, SoleInv, IInv', NEW t \in Threads, CheckExists(t) \/ CheckOps(t) \/ Verify(t)
  PROVE  SoleInv'
<1> DEFINE op == req[t].op
<1>1. /\ pc[t] \in Heads /\ UNCHANGED <<objs, attrs, req>>
      /\ req[t] # None /\ op \in DOMAIN op_array /\ frees[t] = 0
  BY BusyFacts DEF SoleInv, CheckExists, CheckOps, Verify, Heads, store
<1>2. ~Removing(t) /\ (op # "create" /\ pc[t] # "exists" => req[t].obj \in objs)
  BY <1>1 DEF SoleInv, ObjThere, Removing, Heads
<1>3. ASSUME NEW code \in Codes, Fail(t, code)
      PROVE  pc'[t] = "reply"
  BY <1>1, <1>3, FailFacts DEF SoleInv, IInv, Types
<1>4. ASSUME Perform(t)
      PROVE  pc'[t] = op_array[op].first
  BY <1>4 DEF SoleInv, IInv, Types, Perform, Goto
<1>5. \/ pc'[t] = "reply"
      \/ pc'[t] \in {pc[t], "verify", op_array[op].first} /\ pc[t] # "exists"
      \/ pc'[t] = "ops" /\ req[t].obj \in objs
  <2>1. CASE CheckExists(t)
    BY <1>3, <2>1 DEF CheckExists, Goto, SoleInv, IInv, Types, Codes
  <2>2. CASE CheckOps(t)
    <3>1. \/ Fail(t, "ACCESS") \/ Perform(t) \/ Goto(t, "verify")
      BY <2>2 DEF CheckOps
    <3> QED BY <1>3, <1>4, <2>2, <3>1 DEF CheckOps, Goto, SoleInv, IInv, Types, Codes
  <2>3. CASE Verify(t)
    <3>1. \/ Fail(t, "ACCESS") \/ Fail(t, "VERIFYCAP") \/ Perform(t) \/ UNCHANGED pc
      BY <2>3 DEF Verify
    <3> QED BY <1>3, <1>4, <2>3, <3>1 DEF Verify, Codes
  <2> QED BY <2>1, <2>2, <2>3
<1>6. op \in {"create", "remove"} => op_array[op].first \in {"create", "rmfile"}
  BY <1>1, FirstFacts
<1>7. ~Removing(t)' /\ ObjThere(t)'
  BY <1>1, <1>2, <1>5, <1>6 DEF Removing, ObjThere, Heads
<1> QED BY <1>1, <1>2, <1>7, KeepsStore

\* What is known of the object of a thread in an operation.
LEMMA ObjFacts ==
  ASSUME SoleInv, NEW t \in Threads, pc[t] \in Effects
  PROVE  /\ req[t] # None /\ req[t].obj \in Objs
         /\ pc[t] = "create" \/ Removing(t) \/ req[t].obj \in objs
<1>1. req[t] # None
  BY BusyFacts DEF SoleInv, Effects
<1>2. pc[t] # "create" /\ pc[t] # "setcid" => req[t].op # "create"
  <2>1. pc[t] \in Stages[req[t].op]
    BY AtStep DEF SoleInv
  <2> QED BY <2>1 DEF Stages
<1> QED BY <1>1, <1>2, AtStep DEF SoleInv, ObjThere, Effects

LEMMA SoleCreate ==
  ASSUME OneThread, SoleInv, IInv', NEW t \in Threads, Create(t) \/ SetCid(t)
  PROVE  SoleInv'
<1>1. /\ req[t].op = "create" /\ pc[t] \in Effects /\ UNCHANGED req
      /\ pc[t] = "setcid" => req[t].obj \in objs
  BY AtStep, ObjFacts DEF SoleInv, Create, SetCid, Effects, Removing
<1>2. ~Removing(t) /\ ~Removing(t)'
  BY <1>1 DEF Removing
<1>3. CASE Create(t)
  <2>1. objs \subseteq objs' /\ UNCHANGED attrs /\ ObjThere(t)'
    BY <1>1, <1>3 DEF Create, Answer, Goto, ObjThere, SoleInv, IInv, Types
  <2>2. AttrsInv'
    BY <1>2, <2>1 DEF OneThread, SoleInv, AttrsInv, NamesOf, HasAttr
  <2> QED BY <1>2, <2>1, <2>2 DEF OneThread, SoleInv, NamesListed
<1>4. CASE SetCid(t)
  <2>1. attrs' \subseteq attrs \cup {<<req[t].obj, CidName>>} /\ UNCHANGED objs /\ pc'[t] = "reply"
    BY <1>4 DEF SetCid, PutAttr, Answer, Goto, SoleInv, IInv, Types
  <2>2. ObjThere(t)'
    BY <1>1, <2>1 DEF ObjThere
  <2>3. AttrsInv'
    BY <1>1, <1>2, <1>4, <2>1 DEF OneThread, SoleInv, AttrsInv, NamesOf, HasAttr, SetCid
  <2> QED BY <1>2, <2>2, <2>3 DEF OneThread, SoleInv, NamesListed
<1> QED BY <1>3, <1>4

LEMMA SoleRemoveFile ==
  ASSUME OneThread, SoleInv, IInv', NEW t \in Threads, RemoveFile(t)
  PROVE  SoleInv'
<1>1. /\ req[t].op = "remove" /\ req[t] # None /\ req[t].obj \in objs
      /\ pc[t] = "rmfile" /\ UNCHANGED <<req, attrs>>
  BY AtStep, ObjFacts DEF SoleInv, RemoveFile, Effects, Removing
<1>2. objs' = objs \ {req[t].obj} /\ pc'[t] = "count"
  BY <1>1 DEF RemoveFile, Goto, SoleInv, IInv, Types
<1>3. ~Removing(t) /\ Removing(t)'
  BY <1>1, <1>2 DEF Removing
<1>4. AttrsInv'
  BY <1>1, <1>2, <1>3 DEF OneThread, SoleInv, AttrsInv, NamesOf, HasAttr
<1>5. ObjThere(t)' /\ NamesListed(t)'
  BY <1>2, <1>3 DEF ObjThere, NamesListed
<1> QED BY <1>4, <1>5 DEF OneThread, SoleInv

LEMMA SoleCountNames ==
  ASSUME OneThread, SoleInv, IInv', NEW t \in Threads, CountNames(t)
  PROVE  SoleInv'
<1>1. /\ UNCHANGED <<req, objs, attrs>> /\ pc[t] = "count" /\ pc'[t] = "list"
      /\ room'[t] = Cardinality(NamesOf(req[t].obj))
  BY DEF CountNames, Goto, store, SoleInv, IInv, Types
<1>2. Removing(t)' <=> Removing(t)
  BY <1>1 DEF Removing
<1>3. AttrsInv'
  BY <1>1, <1>2 DEF OneThread, SoleInv, AttrsInv, NamesOf, HasAttr
<1>4. ObjThere(t)'
  BY <1>1, <1>2 DEF SoleInv, ObjThere
<1>5. NamesListed(t)'
  BY <1>1, <1>2 DEF NamesListed, NamesOf, HasAttr
<1> QED BY <1>3, <1>4, <1>5 DEF OneThread, SoleInv

\* A removal finds the names that it has counted, all of them.
LEMMA SoleListNames ==
  ASSUME OneThread, SoleInv, IInv', NEW t \in Threads, ListNames(t)
  PROVE  SoleInv'
<1> DEFINE found == NamesOf(req[t].obj)
<1>1. UNCHANGED <<req, objs, attrs>> /\ pc[t] = "list" /\ pc[t] \in Effects
  BY DEF ListNames, store, Effects
<1>2. CASE ~Removing(t)
  <2>1. req[t].op # "remove"
    BY <1>1, <1>2, BusyFacts DEF Removing, SoleInv
  <2>2. pc'[t] = "reply"
    BY <2>1 DEF ListNames, Answer, Goto, SoleInv, IInv, Types
  <2> QED BY <1>1, <1>2, <2>2, StaysOrAnswers
<1>3. CASE Removing(t) /\ found = {}
  <2>1. pc'[t] = "reply"
    BY <1>3 DEF ListNames, Answer, Goto, SoleInv, IInv, Types
  <2>2. ~Removing(t)' /\ ObjThere(t)' /\ NamesListed(t)'
    BY <2>1 DEF Removing, ObjThere, NamesListed
  <2>3. AttrsInv'
    BY <1>1, <1>3 DEF OneThread, SoleInv, AttrsInv, NamesOf, HasAttr
  <2> QED BY <2>2, <2>3 DEF OneThread, SoleInv
<1>4. CASE Removing(t) /\ found # {}
  <2>1. PICK some \in SUBSET found :
           /\ Cardinality(some) = IF Cardinality(found) < room[t] THEN Cardinality(found)
                                  ELSE room[t]
           /\ left' = [left EXCEPT ![t] = some]
           /\ room' = [room EXCEPT ![t] = @ - Cardinality(some)]
    BY <1>4 DEF ListNames
  <2>2. room[t] = Cardinality(found) /\ Cardinality(found) \in Nat
    BY <1>1, <1>4, NamesOfFacts, NamesFinite DEF SoleInv, NamesListed
  <2>3. some = found
    BY <2>1, <2>2, NamesOfFacts, FS_Subset
  <2>4. left'[t] = found /\ room'[t] = 0
    BY <2>1, <2>2, <2>3 DEF SoleInv, IInv, Types
  <2>5. pc'[t] = "rmattrs"
    BY <1>4 DEF ListNames, Goto, Removing, SoleInv, IInv, Types
  <2>6. Removing(t)'
    BY <1>1, <1>4, <2>5 DEF Removing
  <2>7. NamesListed(t)' /\ ObjThere(t)'
    BY <1>1, <2>4, <2>5, <2>6 DEF NamesListed, ObjThere, NamesOf, HasAttr
  <2>8. AttrsInv'
    BY <1>1, <1>4, <2>6 DEF OneThread, SoleInv, AttrsInv, NamesOf, HasAttr
  <2> QED BY <2>7, <2>8 DEF OneThread, SoleInv
<1> QED BY <1>2, <1>3, <1>4

\* A removal removes a name after another and ends when its object has none.
LEMMA SoleRemoveNames ==
  ASSUME OneThread, SoleInv, IInv', NEW t \in Threads, RemoveNames(t)
  PROVE  SoleInv'
<1> DEFINE o == req[t].obj
<1>1. UNCHANGED <<req, objs, room>> /\ pc[t] = "rmattrs" /\ pc[t] \in Effects
  BY DEF RemoveNames, Effects
<1>2. /\ pc'[t] \in {pc[t], "reply"} /\ attrs' \subseteq attrs
      /\ \A x \in attrs \ attrs' : x[1] = o
  BY DEF RemoveNames, DelAttr, Answer, Goto, SoleInv, IInv, Types
<1>3. ASSUME NEW x, x # o
      PROVE  NamesOf(x)' = NamesOf(x)
  BY <1>2, <1>3 DEF NamesOf, HasAttr
<1>4. CASE ~Removing(t)
  <2>1. ~Removing(t)' /\ ObjThere(t)'
    BY <1>1, <1>2, <1>4 DEF SoleInv, ObjThere, Removing
  <2>2. AttrsInv'
    BY <1>1, <1>2, <1>4 DEF OneThread, SoleInv, AttrsInv, NamesOf, HasAttr
  <2> QED BY <2>1, <2>2 DEF OneThread, SoleInv, NamesListed
<1>5. CASE Removing(t) /\ left[t] = {}
  <2>1. NamesOf(o) = {} /\ UNCHANGED attrs /\ pc'[t] = "reply"
    BY <1>1, <1>5 DEF SoleInv, NamesListed, RemoveNames, Answer, Goto, IInv, Types
  <2>2. NamesOf(o)' = {}
    BY <1>1, <2>1 DEF NamesOf, HasAttr
  <2>3. ASSUME NEW x \in Objs, NamesOf(x)' # {}
        PROVE  x \in objs'
    BY <1>1, <1>3, <2>2, <2>3 DEF OneThread, SoleInv, AttrsInv
  <2> HIDE DEF o
  <2>4. AttrsInv'
    BY <2>3 DEF AttrsInv
  <2> QED BY <2>1, <2>4 DEF OneThread, SoleInv, NamesListed, ObjThere, Removing
<1>6. CASE Removing(t) /\ left[t] # {}
  <2>1. left[t] = NamesOf(o) /\ room[t] = 0
    BY <1>1, <1>6 DEF SoleInv, NamesListed
  <2>2. PICK n \in left[t] : /\ DelAttr(o, n) /\ left' = [left EXCEPT ![t] = @ \ {n}]
                             /\ UNCHANGED pc
    BY <1>6, <2>1 DEF RemoveNames, NamesOf
  <2>3. NamesOf(o)' = NamesOf(o) \ {n} /\ left'[t] = left[t] \ {n}
    BY <1>1, <2>2 DEF NamesOf, HasAttr, DelAttr, SoleInv, IInv, Types
  <2>4. Removing(t)' /\ ObjThere(t)'
    BY <1>1, <1>6, <2>2 DEF Removing, ObjThere
  <2>5. NamesListed(t)'
    BY <1>1, <2>1, <2>2, <2>3 DEF NamesListed
  <2>6. AttrsInv'
    BY <1>1, <1>3, <1>6, <2>4 DEF OneThread, SoleInv, AttrsInv
  <2> QED BY <2>4, <2>5, <2>6 DEF OneThread, SoleInv
<1> QED BY <1>4, <1>5, <1>6

LEMMA SoleSetNames ==
  ASSUME OneThread, SoleInv, IInv', NEW t \in Threads, SetNames(t)
  PROVE  SoleInv'
<1>1. /\ UNCHANGED <<req, objs>> /\ pc[t] = "setattrs" /\ pc'[t] \in {pc[t], "reply"}
      /\ \A x \in attrs' \ attrs : x[1] = req[t].obj
  BY DEF SetNames, PutAttr, Answer, Goto, SoleInv, IInv, Types
<1>2. ~Removing(t) /\ ~Removing(t)' /\ req[t].obj \in objs
  BY <1>1, ObjFacts DEF Removing, Effects
<1>3. AttrsInv'
  BY <1>1, <1>2 DEF OneThread, SoleInv, AttrsInv, NamesOf, HasAttr
<1>4. ObjThere(t)'
  BY <1>1, <1>2 DEF ObjThere
<1> QED BY <1>2, <1>3, <1>4 DEF OneThread, SoleInv, NamesListed

\* The operations that leave the store alone.
LEMMA SoleOthers ==
  ASSUME OneThread, SoleInv, IInv', NEW t \in Threads,
         GetNames(t) \/ Fsync(t) \/ Stat(t) \/ Read(t) \/ Truncate(t) \/ GetData(t) \/ Write(t)
  PROVE  SoleInv'
<1>1. /\ UNCHANGED <<objs, attrs, req>> /\ pc[t] \in Effects \ {"count", "list", "rmattrs", "create"}
      /\ pc'[t] \in {pc[t], "reply", "write"}
  BY DEF GetNames, Fsync, Stat, CannotOpen, Read, Truncate, GetData, Write, Effects, AnswerWrite, Answer, Goto,
         store, SoleInv, IInv, Types
<1>2. ~Removing(t) /\ ~Removing(t)' /\ req[t].obj \in objs
  BY <1>1, ObjFacts DEF Removing
<1> QED BY <1>1, <1>2, KeepsStore DEF ObjThere

LEMMA SoleReply ==
  ASSUME OneThread, SoleInv, IInv', NEW t \in Threads, Reply(t)
  PROVE  SoleInv'
<1>1. UNCHANGED <<objs, attrs>> /\ pc[t] = "reply" /\ req'[t] = None
  BY DEF Reply, store, SoleInv, IInv, Types
<1> QED BY <1>1, KeepsStore DEF Removing, ObjThere

\* Steps of the authorization server.
LEMMA SoleUnmoved ==
  ASSUME SoleInv, IInv', UNCHANGED <<objs, attrs, req, pc, left, room>>
  PROVE  SoleInv'
<1>1. AttrsInv'
  BY DEF SoleInv, AttrsInv, NamesOf, HasAttr, Removing
<1>2. ASSUME NEW t \in Threads PROVE ObjThere(t)' /\ NamesListed(t)'
  <2> ObjThere(t) /\ NamesListed(t)
    BY DEF SoleInv
  <2> QED BY DEF ObjThere, NamesListed, NamesOf, HasAttr, Removing
<1> QED BY <1>1, <1>2 DEF SoleInv

LEMMA SoleInductive ==
  ASSUME OneThread
  PROVE  (Init => SoleInv) /\ (SoleInv /\ [Next]_vars => SoleInv')
<1>1. Init => SoleInv
  <2> SUFFICES ASSUME Init PROVE SoleInv
    OBVIOUS
  <2>1. AttrsInv
    BY DEF Init, AttrsInv, NamesOf, HasAttr
  <2>2. ASSUME NEW t \in Threads PROVE ObjThere(t) /\ NamesListed(t)
    BY <2>2 DEF Init, ObjThere, NamesListed, Removing
  <2> QED BY <2>1, <2>2, InitInv DEF SoleInv
<1>2. ASSUME SoleInv, [Next]_vars PROVE SoleInv'
  <2>1. IInv'
    BY <1>2, NextInv DEF SoleInv
  <2>2. CASE UNCHANGED vars
    BY <1>2, <2>1, <2>2, SoleUnmoved DEF vars, store
  <2>3. CASE \/ \E ops \in CapArgs : GetCap(ops)
             \/ \E o \in ContainerOps : ModAcl(o)
             \/ NewKey
    BY <1>2, <2>1, <2>3, SoleUnmoved DEF GetCap, ModAcl, NewKey, store
  <2>4. ASSUME NEW t \in Threads, NEW op \in OpArgs, NEW o \in Objs, NEW cap \in caps,
               NEW names \in NameArgs(op), Begin(t, op, o, cap, names)
        PROVE  SoleInv'
    BY <1>2, <2>1, <2>4, SoleBegin
  <2>5. ASSUME NEW t \in Threads, Serve(t) PROVE SoleInv'
    <3>1. CASE CheckExists(t) \/ CheckOps(t) \/ Verify(t)
      BY <1>2, <2>1, <3>1, SoleHeads
    <3>2. CASE Create(t) \/ SetCid(t) \/ RemoveFile(t)
      BY <1>2, <2>1, <3>2, SoleCreate, SoleRemoveFile
    <3>3. CASE CountNames(t) \/ ListNames(t) \/ RemoveNames(t) \/ SetNames(t)
      BY <1>2, <2>1, <3>3, SoleCountNames, SoleListNames, SoleRemoveNames, SoleSetNames
    <3>4. CASE GetNames(t) \/ Fsync(t) \/ Stat(t) \/ Read(t) \/ Truncate(t) \/ GetData(t) \/ Write(t)
      BY <1>2, <2>1, <3>4, SoleOthers
    <3>5. CASE Reply(t)
      BY <1>2, <2>1, <3>5, SoleReply
    <3> QED BY <2>5, <3>1, <3>2, <3>3, <3>4, <3>5 DEF Serve
  <2> QED BY <1>2, <2>2, <2>3, <2>4, <2>5 DEF Next
<1> QED BY <1>1, <1>2
-----------------------------------------------------------------------------
(* Buffers and answers.                                                    *)

\* With any number of threads: a write frees its buffer once, if no write is cut short.
LEMMA FreedOnceStep ==
  ASSUME "short" \notin Fails, IInv, BufferFreedOnce, [Next]_vars
  PROVE  BufferFreedOnce'
<1> DEFINE Freed(t) == req[t] # None /\ req[t].op = "write" =>
                          frees[t] = IF pc[t] = "reply" THEN 1 ELSE 0
<1>1. \A t \in Threads : Freed(t)
  BY DEF BufferFreedOnce
<1>2. ASSUME NEW t \in Threads, req'[t] = req[t], pc'[t] = pc[t], frees'[t] = frees[t]
      PROVE  Freed(t)'
  BY <1>1, <1>2
<1>3. ASSUME NEW t \in Threads, NEW code \in Codes \ {"OK"}, Fail(t, code), frees[t] = 0,
             UNCHANGED req
      PROVE  Freed(t)'
  BY <1>3, FailFacts DEF IInv, Types
<1>4. ASSUME NEW t \in Threads, pc[t] \notin {"idle", "reply"}, Serve(t)
      PROVE  Freed(t)'
  <2>1. frees[t] = 0
    BY <1>4, BusyFacts
  <2>2. CASE CheckExists(t) \/ CheckOps(t) \/ Verify(t)
    <3>1. UNCHANGED req /\ (\/ \E code \in Codes \ {"OK"} : Fail(t, code)
                            \/ /\ UNCHANGED frees
                               /\ Goto(t, "ops") \/ Goto(t, "verify") \/ Perform(t) \/ UNCHANGED pc)
      BY <2>2 DEF CheckExists, CheckOps, Verify, Codes
    <3>2. Perform(t) => pc'[t] \in Effects
      BY <2>2, PerformFacts DEF CheckExists, CheckOps, Verify
    <3> QED BY <1>3, <1>4, <2>1, <3>1, <3>2 DEF Goto, IInv, Types, Effects
  <2>3. CASE GetData(t) \/ Write(t)
    BY <2>1, <2>3 DEF GetData, Write, AnswerWrite, Answer, Goto, IInv, Types
  <2>4. CASE \/ Create(t) \/ SetCid(t) \/ RemoveFile(t) \/ CountNames(t) \/ ListNames(t)
             \/ RemoveNames(t) \/ SetNames(t) \/ GetNames(t) \/ Fsync(t) \/ Stat(t) \/ Read(t)
             \/ Truncate(t)
    <3>1. req'[t] = req[t] /\ pc[t] \in Effects \ {"data", "write"}
      BY <2>4 DEF Create, SetCid, RemoveFile, CountNames, ListNames, RemoveNames, SetNames,
                  GetNames, Fsync, Stat, CannotOpen, Read, Truncate, Effects
    <3>2. pc[t] \in Stages[req[t].op]
      BY <3>1, AtStep
    <3> QED BY <3>1, <3>2 DEF Stages
  <2>5. CASE Reply(t)
    BY <1>4, <2>5 DEF Reply
  <2> QED BY <1>4, <2>2, <2>3, <2>4, <2>5 DEF Serve
<1>5. ASSUME NEW t \in Threads, Serve(t), NEW u \in Threads \ {t}
      PROVE  req'[u] = req[u] /\ pc'[u] = pc[u] /\ frees'[u] = frees[u]
  BY <1>5 DEF Serve, CheckExists, CheckOps, Verify, Create, SetCid, RemoveFile, CountNames,
       ListNames, RemoveNames, SetNames, GetNames, Fsync, Stat, CannotOpen, Read, Truncate, GetData, Write, Reply,
       Perform, Fail, AnswerWrite, Answer, Goto, IInv, Types
<1>6. ASSUME NEW t \in Threads, Serve(t), pc[t] \in {"idle", "reply"}
      PROVE  req'[t] = None
  <2>1. Reply(t)
    BY <1>6 DEF Serve, CheckExists, CheckOps, Verify, Create, SetCid, RemoveFile, CountNames,
         ListNames, RemoveNames, SetNames, GetNames, Fsync, Stat, CannotOpen, Read, Truncate, GetData, Write
  <2> QED BY <2>1 DEF Reply, IInv, Types
<1>7. ASSUME NEW t \in Threads, NEW op \in OpArgs, NEW o \in Objs, NEW cap \in caps,
             NEW names \in NameArgs(op), Begin(t, op, o, cap, names)
      PROVE  BufferFreedOnce'
  <2>1. pc'[t] \in {"exists", "ops"} /\ frees'[t] = 0
    BY <1>7 DEF Begin, Goto, IInv, Types, ThreadInv, FreesInv
  <2>2. \A u \in Threads \ {t} : req'[u] = req[u] /\ pc'[u] = pc[u] /\ frees'[u] = frees[u]
    BY <1>7 DEF Begin, Goto, IInv, Types
  <2> QED BY <1>2, <2>1, <2>2 DEF BufferFreedOnce
<1>8. ASSUME NEW t \in Threads, Serve(t) PROVE BufferFreedOnce'
  <2> \A u \in Threads : Freed(u)'
    BY <1>2, <1>4, <1>5, <1>6, <1>8
  <2> QED BY DEF BufferFreedOnce
<1>9. CASE UNCHANGED <<req, pc, frees>>
  BY <1>2, <1>9 DEF BufferFreedOnce
<1> QED BY <1>7, <1>8, <1>9 DEF Next, GetCap, ModAcl, NewKey, vars

\* With one thread, and no write cut short, an answered request leaves behind neither
\* attributes without their object nor a buffer, whatever else fails in it
\* (sysio_obj_remove, ss_write).
THEOREM NothingLeft ==
  ASSUME OneThread, "short" \notin Fails
  PROVE  Spec => []NothingLeftBehind
<1>1. Init => SoleInv /\ BufferFreedOnce
  BY SoleInductive DEF Init, BufferFreedOnce
<1>2. SoleInv /\ BufferFreedOnce /\ [Next]_vars => (SoleInv /\ BufferFreedOnce)'
  BY SoleInductive, FreedOnceStep DEF SoleInv
<1>3. SoleInv /\ BufferFreedOnce => NothingLeftBehind
  BY DEF SoleInv, AttrsInv, Removing, NothingLeftBehind, AttrsHaveObjects
<1> QED BY <1>1, <1>2, <1>3, PTL DEF Spec

LEMMA OkStep ==
  ASSUME OneThread, SoleInv, OkMeansDone, [Next]_vars
  PROVE  OkMeansDone'
<1> DEFINE Ok(t) == pc[t] = "reply" /\ rc[t] = "OK" =>
                        done[t] \/ Hidden(req[t].op) \cap Fails # {}
<1>1. IInv
  BY DEF SoleInv
<1>2. ASSUME NEW t \in Threads, UNCHANGED <<req, pc, rc, done>>
      PROVE  Ok(t)'
  BY <1>2 DEF OkMeansDone
<1>3. ASSUME NEW t \in Threads, Serve(t) PROVE Ok(t)'
  <2>1. CASE CheckExists(t) \/ CheckOps(t) \/ Verify(t)
    <3>1. pc[t] \notin {"idle", "reply"}
      BY <2>1 DEF CheckExists, CheckOps, Verify
    <3>2. \/ \E code \in Codes \ {"OK"} : Fail(t, code)
          \/ Goto(t, "ops") \/ Goto(t, "verify") \/ Perform(t) \/ UNCHANGED pc
      BY <2>1 DEF CheckExists, CheckOps, Verify, Codes
    <3>3. Perform(t) => pc'[t] \in Effects
      BY <1>1, <2>1, PerformFacts DEF CheckExists, CheckOps, Verify
    <3>4. \A code \in Codes : Fail(t, code) => rc'[t] = code
      BY <1>1, <3>1, BusyFacts, FailFacts DEF IInv, Types, Codes
    <3> QED BY <1>1, <3>1, <3>2, <3>3, <3>4 DEF Goto, IInv, Types, Effects
  <2>2. CASE Fsync(t) \/ Stat(t) \/ Read(t) \/ Truncate(t)
    <3>1. req[t].obj \in objs
      BY <2>2, ObjFacts DEF Fsync, Stat, Read, Truncate, Effects, Removing
    <3>2. req[t].op \in DOMAIN op_array /\ pc[t] \in Stages[req[t].op]
      BY <1>1, <2>2, AtStep DEF Fsync, Stat, Read, Truncate, Effects
    <3>3. /\ Stat(t) => req[t].op = "stat"
          /\ Read(t) => req[t].op = "read"
          /\ Truncate(t) => req[t].op = "trunc"
      BY <3>2 DEF Stages, op_array, Stat, Read, Truncate
    <3>4. /\ Stat(t) \/ Read(t) => done'[t] \/ rc'[t] # "OK" \/ "open" \in Fails
          /\ Truncate(t) => done'[t] \/ "open" \in Fails \/ "trunc" \in Fails
          /\ Fsync(t) => done'[t] \/ rc'[t] # "OK"
          /\ UNCHANGED req
      <4>1. /\ \A code : rc' = [rc EXCEPT ![t] = code] => rc'[t] = code
            /\ Done(t) => done'[t]
        BY <1>1 DEF Done, IInv, Types
      <4> QED BY <2>2, <3>1, <4>1 DEF Fsync, Stat, Read, Truncate, CannotOpen, Answer
    <3>5. /\ "open" \in Fails => \A op \in {"stat", "read", "trunc"} : Hidden(op) \cap Fails # {}
          /\ "trunc" \in Fails => Hidden("trunc") \cap Fails # {}
      BY DEF Hidden
    <3> QED BY <2>2, <3>3, <3>4, <3>5
  <2>3. CASE ListNames(t)
    BY <1>1, <2>3 DEF ListNames, Answer, Done, Goto, IInv, Types
  <2>4. CASE \/ Create(t) \/ SetCid(t) \/ RemoveFile(t) \/ CountNames(t) \/ RemoveNames(t)
             \/ SetNames(t) \/ GetNames(t)
    BY <1>1, <2>4 DEF Create, SetCid, RemoveFile, CountNames, RemoveNames, SetNames, GetNames,
         Answer, Done, Goto, IInv, Types
  <2>5. CASE GetData(t) \/ Write(t) \/ Reply(t)
    BY <1>1, <2>5 DEF GetData, Write, Reply, AnswerWrite, Answer, Done, Goto,
         IInv, Types
  <2> QED BY <1>3, <2>1, <2>2, <2>3, <2>4, <2>5 DEF Serve
<1>4. ASSUME NEW t \in Threads, NEW op \in OpArgs, NEW o \in Objs, NEW cap \in caps,
             NEW names \in NameArgs(op), Begin(t, op, o, cap, names)
      PROVE  Ok(t)'
  BY <1>1, <1>4 DEF Begin, Goto, IInv, Types
<1>5. CASE UNCHANGED <<req, pc, rc, done>>
  BY <1>5 DEF OkMeansDone
<1>6. ASSUME NEW t \in Threads, Ok(t)' PROVE OkMeansDone'
  BY <1>6 DEF OneThread, OkMeansDone
<1> QED BY <1>3, <1>4, <1>5, <1>6 DEF Next, GetCap, ModAcl, NewKey, vars

\* With one thread an answer LWFS_OK means that the operation was carried out, whatever can
\* fail, but for a read, a stat or a truncate whose file cannot be opened or truncated (the
\* return codes of storage_server.c and sysio_obj.c).
THEOREM OkIsDone ==
  ASSUME OneThread
  PROVE  Spec => []OkMeansDone
<1>1. Init => SoleInv /\ OkMeansDone
  BY SoleInductive DEF Init, OkMeansDone
<1>2. SoleInv /\ OkMeansDone /\ [Next]_vars => (SoleInv /\ OkMeansDone)'
  BY SoleInductive, OkStep
<1> QED BY <1>1, <1>2, PTL DEF Spec

\* A server that does not cache what it verified serves nothing that the lists have not
\* allowed since the request came.
THEOREM NothingStale ==
  ASSUME TRUE \notin CachingArgs
  PROVE  Spec => []NoStaleService
<1>1. Init => ~caching
  BY AccessAssumption DEF Init
<1>2. ~caching /\ [Next]_vars => ~caching'
  BY DEF Next, Serve, Begin, CheckExists, CheckOps, Verify, Create, SetCid, RemoveFile,
       CountNames, ListNames, RemoveNames, SetNames, GetNames, Fsync, Stat, CannotOpen, Read, Truncate, GetData,
       Write, Reply, GetCap, ModAcl, NewKey, vars
<1>3. EffectWasAllowed /\ ~caching => NoStaleService
  BY DEF EffectWasAllowed, NoStaleService
<1> QED BY <1>1, <1>2, <1>3, EffectsWereAllowed, PTL DEF Spec
=============================================================================
