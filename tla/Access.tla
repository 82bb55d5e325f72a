------------------------------- MODULE Access -------------------------------
(***************************************************************************)
(* The operations of the storage server (storage_server.c) above its       *)
(* object store: does the object exist, does the capability cover the      *)
(* operation, does the authorization server (or the client library's cache *)
(* of verified capabilities) vouch for it, and only then the operation,    *)
(* with the attributes kept in storage_db.c.  The access-control lists are *)
(* those of AclService, which Authr implements: one step changes one list  *)
(* while requests are served.                                              *)
(***************************************************************************)
EXTENDS Integers, Sequences, FiniteSets

CONSTANTS
    Threads,      \* threads of the storage server
    Objs,         \* objects, all in one container
    Names,        \* names of attributes
    CidName,      \* "_lwfs_cid"
    CachingArgs,  \* --authr-cache-caps: the values to start with
    Fails,        \* what may go wrong: a subset of Failures
    CapArgs,      \* the sets of operations that capabilities are asked for
    OpArgs,       \* the operations that clients ask for
    MaxReqs,      \* bound on requests
    MaxChanges,   \* bound on changes of access and restarts of the authorization server
    None

Failures == {"data", "open", "short", "put", "trunc"}

-----------------------------------------------------------------------------
(* The handlers: is the object looked for first, what must the capability  *)
(* allow, and the step that the operation begins with.                     *)

Handler(exists, needs, first) == [exists |-> exists, needs |-> needs, first |-> first]

ss_create_obj == Handler(FALSE, "WRITE", "create")
ss_remove_obj == Handler(TRUE, "WRITE", "rmfile")
ss_read       == Handler(TRUE, "READ", "read")
ss_write      == Handler(TRUE, "WRITE", "data")
ss_fsync      == Handler(TRUE, "WRITE", "fsync")
ss_listattrs  == Handler(TRUE, "READ", "count")
ss_getattrs   == Handler(TRUE, "READ", "getattrs")
ss_setattrs   == Handler(TRUE, "WRITE", "setattrs")
ss_rmattrs    == Handler(TRUE, "READ", "rmattrs")
ss_getattr    == Handler(TRUE, "READ", "getattrs")
ss_setattr    == Handler(TRUE, "WRITE", "setattrs")
ss_rmattr     == Handler(TRUE, "READ", "rmattrs")
ss_stat       == Handler(TRUE, "READ", "stat")
ss_truncate   == Handler(TRUE, "WRITE", "trunc")

op_array ==
    [create |-> ss_create_obj, remove |-> ss_remove_obj, read |-> ss_read, write |-> ss_write,
     fsync |-> ss_fsync, stat |-> ss_stat, trunc |-> ss_truncate, listattrs |-> ss_listattrs,
     getattrs |-> ss_getattrs, setattrs |-> ss_setattrs, rmattrs |-> ss_rmattrs,
     getattr |-> ss_getattr, setattr |-> ss_setattr, rmattr |-> ss_rmattr]

ASSUME AccessAssumption ==
    /\ IsFiniteSet(Names) /\ CidName \in Names /\ CachingArgs \subseteq BOOLEAN /\ Fails \subseteq Failures
    /\ OpArgs \subseteq DOMAIN op_array
    /\ CapArgs \subseteq SUBSET {"READ", "WRITE"}
    /\ MaxReqs \in Nat /\ MaxChanges \in Nat

ContainerOps == {"READ", "WRITE"}
Needed(op) == op_array[op].needs

Capability == [ops : SUBSET ContainerOps, key : Nat]
Request == [op : DOMAIN op_array, obj : Objs, cap : Capability, names : SUBSET Names]

ASSUME NoneAssumption == None \notin Request

VARIABLES
    acl,       \* the operations that the user's lists allow
    svcKey,    \* the authorization server's key
    caps,      \* the user's capabilities
    changes,   \* changes of access and restarts so far
    caching,   \* cache_caps
    cache,     \* cache_ht: capabilities that were verified
    objs,      \* the objects that exist
    attrs,     \* the database: attributes, by object and name
    req,       \* the request each thread serves
    pc,
    left,      \* what its loop has still to do: operations to check, or names
    room,      \* the length of the array it allocated for names
    frees,     \* how often it freed its data buffer
    rc,
    served,    \* number of requests begun
    seen,      \* history: operations allowed at some time since the request began
    ever,      \* history: capability and operation allowed at some time
    done,      \* history: the request has had its effect
    overrun    \* history: a name was written behind its array

authr == <<acl, svcKey, caps, changes, ever>>
store == <<objs, attrs>>
vars == <<authr, caching, cache, store, req, pc, left, room, frees, rc, served, seen, done,
          overrun>>

Init ==
    /\ acl = ContainerOps /\ svcKey = 1 /\ caps = {} /\ changes = 0
    /\ caching \in CachingArgs /\ cache = {}
    /\ objs = {} /\ attrs = {}
    /\ req = [t \in Threads |-> None]
    /\ pc = [t \in Threads |-> "idle"]
    /\ left = [t \in Threads |-> {}]
    /\ room = [t \in Threads |-> 0]
    /\ frees = [t \in Threads |-> 0]
    /\ rc = [t \in Threads |-> "OK"]
    /\ served = 0
    /\ seen = [t \in Threads |-> {}] /\ ever = {}
    /\ done = [t \in Threads |-> FALSE]
    /\ overrun = FALSE
-----------------------------------------------------------------------------
(* The authorization server, as AclService *)

\* A capability is given for what the lists allow (lwfs_get_cap).
GetCap(ops) ==
    /\ ops \subseteq acl
    /\ caps' = caps \cup {[ops |-> ops, key |-> svcKey]}
    /\ ever' = ever \cup {<<[ops |-> ops, key |-> svcKey], o>> : o \in ops}
    /\ UNCHANGED <<acl, svcKey, changes, caching, cache, store, req, pc, left, room, frees, rc,
                   served, seen, done, overrun>>

\* One list changes (lwfs_mod_acl).
ModAcl(o) ==
    /\ changes < MaxChanges /\ changes' = changes + 1
    /\ acl' = IF o \in acl THEN acl \ {o} ELSE acl \cup {o}
    /\ seen' = [t \in Threads |-> IF req[t] = None THEN {} ELSE seen[t] \cup acl']
    /\ UNCHANGED <<svcKey, caps, ever, caching, cache, store, req, pc, left, room, frees, rc,
                   served, done, overrun>>

\* The authorization server starts again, with another key.
NewKey ==
    /\ changes < MaxChanges /\ changes' = changes + 1
    /\ svcKey' = svcKey + 1
    /\ UNCHANGED <<acl, caps, ever, caching, cache, store, req, pc, left, room, frees, rc,
                   served, seen, done, overrun>>
-----------------------------------------------------------------------------
Goto(t, label) == pc' = [pc EXCEPT ![t] = label]
Answer(t, code) == Goto(t, "reply") /\ rc' = [rc EXCEPT ![t] = code]

Begin(t, op, o, cap, names) ==
    /\ pc[t] = "idle" /\ served < MaxReqs
    /\ req' = [req EXCEPT ![t] = [op |-> op, obj |-> o, cap |-> cap, names |-> names]]
    /\ Goto(t, IF op_array[op].exists THEN "exists" ELSE "ops")
    /\ served' = served + 1
    /\ seen' = [seen EXCEPT ![t] = acl]
    /\ UNCHANGED <<authr, caching, cache, store, left, room, frees, rc, done, overrun>>

\* ss_write frees its buffer only after an error; sysio_obj_write freed it otherwise.
Reply(t) ==
    /\ pc[t] = "reply"
    /\ Goto(t, "idle")
    /\ req' = [req EXCEPT ![t] = None]
    /\ left' = [left EXCEPT ![t] = {}] /\ room' = [room EXCEPT ![t] = 0]
    /\ frees' = [frees EXCEPT ![t] = 0] /\ rc' = [rc EXCEPT ![t] = "OK"]
    /\ seen' = [seen EXCEPT ![t] = {}] /\ done' = [done EXCEPT ![t] = FALSE]
    /\ UNCHANGED <<authr, caching, cache, store, served, overrun>>

\* The end of ss_write: an error frees the buffer.
AnswerWrite(t, code, freed) ==
    /\ Answer(t, code)
    /\ frees' = [frees EXCEPT ![t] = @ + freed + (IF code = "OK" THEN 0 ELSE 1)]

Fail(t, code) == IF req[t].op = "write" THEN AnswerWrite(t, code, 0)
                 ELSE Answer(t, code) /\ UNCHANGED frees

CheckExists(t) ==
    /\ pc[t] = "exists"
    /\ IF req[t].obj \in objs THEN Goto(t, "ops") /\ UNCHANGED <<rc, frees>>
       ELSE Fail(t, "NO_OBJ")
    /\ UNCHANGED <<authr, caching, cache, store, req, left, room, served, seen, done, overrun>>

Perform(t) == Goto(t, op_array[req[t].op].first) /\ left' = [left EXCEPT ![t] = req[t].names]

\* A slip: the capability is not compared with the operation.
CheckOpsLoose(t) ==
    /\ pc[t] = "ops"
    /\ IF caching /\ req[t].cap \in cache THEN Perform(t)
       ELSE Goto(t, "verify") /\ left' = [left EXCEPT ![t] = req[t].cap.ops]
    /\ UNCHANGED <<authr, caching, cache, store, req, room, rc, frees, served, seen, done,
                   overrun>>

\* ss_verify_cap: the operation against the capability, and the capability in the cache.
CheckOps(t) ==
    /\ pc[t] = "ops"
    /\ IF Needed(req[t].op) \notin req[t].cap.ops
       THEN Fail(t, "ACCESS") /\ UNCHANGED left
       ELSE /\ IF caching /\ req[t].cap \in cache THEN Perform(t)
               ELSE Goto(t, "verify") /\ left' = [left EXCEPT ![t] = req[t].cap.ops]
            /\ UNCHANGED <<rc, frees>>
    /\ UNCHANGED <<authr, caching, cache, store, req, room, served, seen, done, overrun>>

\* A slip: what was verified is cached without being asked to.
VerifyCaches(t) ==
    LET cap == req[t].cap
    IN  /\ pc[t] = "verify"
        /\ IF cap.key # svcKey THEN Fail(t, "VERIFYCAP") /\ UNCHANGED <<left, cache>>
           ELSE cache' = cache \cup {cap} /\ Perform(t) /\ UNCHANGED <<rc, frees>>
        /\ UNCHANGED <<authr, caching, store, req, room, served, seen, done, overrun>>

\* verify_caps at the authorization server: the key, then one list after another; a
\* capability that is good is cached.
Verify(t) ==
    LET cap == req[t].cap
    IN  /\ pc[t] = "verify"
        /\ IF cap.key # svcKey THEN Fail(t, "VERIFYCAP") /\ UNCHANGED <<left, cache>>
           ELSE IF left[t] = {}
           THEN /\ cache' = IF caching THEN cache \cup {cap} ELSE cache
                /\ Perform(t) /\ UNCHANGED <<rc, frees>>
           ELSE \E o \in left[t] :
                   IF o \in acl
                   THEN /\ left' = [left EXCEPT ![t] = @ \ {o}]
                        /\ UNCHANGED <<pc, rc, frees, cache>>
                   ELSE Fail(t, "ACCESS") /\ UNCHANGED <<left, cache>>
        /\ UNCHANGED <<authr, caching, store, req, room, served, seen, done, overrun>>
-----------------------------------------------------------------------------
(* The operations *)

HasAttr(o, n) == <<o, n>> \in attrs
PutAttr(o, n) == attrs' = attrs \cup {<<o, n>>}
DelAttr(o, n) == attrs' = attrs \ {<<o, n>>}
NamesOf(o) == {n \in Names : HasAttr(o, n)}

Done(t) == done' = [done EXCEPT ![t] = TRUE]

Create(t) ==
    /\ pc[t] = "create"
    /\ \/ req[t].obj \in objs /\ Answer(t, "EXIST") /\ UNCHANGED objs
       \/ /\ req[t].obj \notin objs
          /\ objs' = objs \cup {req[t].obj} /\ Goto(t, "setcid") /\ UNCHANGED rc
       \/ /\ req[t].obj \notin objs /\ "open" \in Fails
          /\ Answer(t, "STORAGE") /\ UNCHANGED objs
    /\ UNCHANGED <<authr, caching, cache, attrs, req, left, room, frees, served, seen, done,
                   overrun>>

SetCid(t) ==
    /\ pc[t] = "setcid"
    /\ \/ PutAttr(req[t].obj, CidName) /\ Answer(t, "OK") /\ Done(t)
       \/ "put" \in Fails /\ Answer(t, "STORAGE") /\ UNCHANGED <<attrs, done>>
    /\ UNCHANGED <<authr, caching, cache, objs, req, left, room, frees, served, seen, overrun>>

\* A slip: the attributes stay.
RemoveFileOnly(t) ==
    /\ pc[t] = "rmfile"
    /\ objs' = objs \ {req[t].obj}
    /\ Answer(t, "OK") /\ Done(t)
    /\ UNCHANGED <<authr, caching, cache, attrs, req, left, room, frees, served, seen, overrun>>

\* sysio_obj_remove: the file; then its attributes are listed and removed.
RemoveFile(t) ==
    /\ pc[t] = "rmfile"
    /\ IF req[t].obj \in objs
       THEN objs' = objs \ {req[t].obj} /\ Goto(t, "count") /\ UNCHANGED rc
       ELSE Answer(t, "STORAGE") /\ UNCHANGED objs
    /\ UNCHANGED <<authr, caching, cache, attrs, req, left, room, frees, served, seen, done,
                   overrun>>

\* sysio_obj_listattrs counts the names and allocates an array for them ...
CountNames(t) ==
    /\ pc[t] = "count"
    /\ room' = [room EXCEPT ![t] = Cardinality(NamesOf(req[t].obj))]
    /\ Goto(t, "list")
    /\ UNCHANGED <<authr, caching, cache, store, req, left, frees, rc, served, seen, done,
                   overrun>>

\* ... and fetches them: the first one unconditionally, then as many as the array holds.
\* For a removal they are removed next; the names the array has no entry for stay blank.
ListNames(t) ==
    LET found == NamesOf(req[t].obj)
    IN  /\ pc[t] = "list"
        /\ IF found = {}
           THEN Answer(t, IF req[t].op = "remove" THEN "OK" ELSE "STORAGE")
                /\ done' = [done EXCEPT ![t] = req[t].op = "remove"]
                /\ UNCHANGED <<left, room, overrun>>
           ELSE /\ overrun' = (overrun \/ room[t] = 0)
                /\ \E some \in SUBSET found :
                      /\ Cardinality(some) = IF Cardinality(found) < room[t]
                                             THEN Cardinality(found) ELSE room[t]
                      /\ left' = [left EXCEPT ![t] = some]
                      /\ room' = [room EXCEPT ![t] = @ - Cardinality(some)]
                /\ IF req[t].op = "remove" THEN Goto(t, "rmattrs") /\ UNCHANGED <<rc, done>>
                   ELSE Answer(t, "OK") /\ Done(t)
        /\ UNCHANGED <<authr, caching, cache, store, req, frees, served, seen>>

\* One name after another; a name that is not there, or a blank one, ends the loop.
RemoveNames(t) ==
    LET o == req[t].obj
    IN  /\ pc[t] = "rmattrs"
        /\ IF left[t] = {}
           THEN /\ IF room[t] = 0 THEN Answer(t, "OK") /\ Done(t)
                   ELSE Answer(t, "STORAGE") /\ UNCHANGED done
                /\ UNCHANGED <<left, attrs>>
           ELSE \E n \in left[t] :
                   IF HasAttr(o, n)
                   THEN /\ DelAttr(o, n)
                        /\ left' = [left EXCEPT ![t] = @ \ {n}]
                        /\ UNCHANGED <<pc, rc, done>>
                   ELSE Answer(t, "STORAGE") /\ UNCHANGED <<left, attrs, done>>
        /\ UNCHANGED <<authr, caching, cache, objs, req, room, frees, served, seen, overrun>>

\* A slip: the result of the last put only.
SetNamesLast(t) ==
    /\ pc[t] = "setattrs"
    /\ IF left[t] = {} THEN Answer(t, "OK") /\ Done(t) /\ UNCHANGED <<left, attrs>>
       ELSE \E n \in left[t] :
               /\ \/ PutAttr(req[t].obj, n) /\ UNCHANGED <<pc, rc, done>>
                  \/ "put" \in Fails /\ UNCHANGED <<attrs, done>> /\ Answer(t, "OK")
               /\ left' = [left EXCEPT ![t] = @ \ {n}]
    /\ UNCHANGED <<authr, caching, cache, objs, req, room, frees, served, seen, overrun>>

SetNames(t) ==
    /\ pc[t] = "setattrs"
    /\ IF left[t] = {} THEN Answer(t, "OK") /\ Done(t) /\ UNCHANGED <<left, attrs>>
       ELSE \E n \in left[t] :
               \/ /\ PutAttr(req[t].obj, n)
                  /\ left' = [left EXCEPT ![t] = @ \ {n}]
                  /\ UNCHANGED <<pc, rc, done>>
               \/ "put" \in Fails /\ Answer(t, "STORAGE") /\ UNCHANGED <<left, attrs, done>>
    /\ UNCHANGED <<authr, caching, cache, objs, req, room, frees, served, seen, overrun>>

GetNames(t) ==
    /\ pc[t] = "getattrs"
    /\ IF left[t] = {} THEN Answer(t, "OK") /\ Done(t) /\ UNCHANGED left
       ELSE \E n \in left[t] :
               IF HasAttr(req[t].obj, n)
               THEN left' = [left EXCEPT ![t] = @ \ {n}] /\ UNCHANGED <<pc, rc, done>>
               ELSE Answer(t, "STORAGE") /\ UNCHANGED <<left, done>>
    /\ UNCHANGED <<authr, caching, cache, store, req, room, frees, served, seen, overrun>>

\* open_oid finds no object, or cannot open its file.
CannotOpen(t) == req[t].obj \notin objs \/ "open" \in Fails

Fsync(t) ==
    /\ pc[t] = "fsync"
    /\ \/ req[t].obj \in objs /\ Answer(t, "OK") /\ Done(t)
       \/ CannotOpen(t) /\ Answer(t, "STORAGE") /\ UNCHANGED done
    /\ UNCHANGED <<authr, caching, cache, store, req, left, room, frees, served, seen, overrun>>

\* sysio_obj_stat answers LWFS_OK without having looked when the file cannot be opened.
Stat(t) ==
    /\ pc[t] = "stat"
    /\ \/ req[t].obj \in objs /\ Answer(t, "OK") /\ Done(t)
       \/ CannotOpen(t) /\ Answer(t, "OK") /\ UNCHANGED done
    /\ UNCHANGED <<authr, caching, cache, store, req, left, room, frees, served, seen, overrun>>

\* The read, and its transfer to the client.  A file that cannot be opened is read as no
\* bytes, which ss_read answers LWFS_OK.
Read(t) ==
    /\ pc[t] = "read"
    /\ \/ req[t].obj \in objs /\ Answer(t, "OK") /\ Done(t)
       \/ CannotOpen(t) /\ Answer(t, "OK") /\ UNCHANGED done
       \/ req[t].obj \in objs /\ "data" \in Fails /\ Answer(t, "RPC") /\ UNCHANGED done
    /\ UNCHANGED <<authr, caching, cache, store, req, left, room, frees, served, seen, overrun>>

\* sysio_obj_trunc returns one when it worked and zero when not; zero is LWFS_OK.
Truncate(t) ==
    /\ pc[t] = "trunc"
    /\ \/ /\ req[t].obj \in objs /\ Answer(t, "STORAGE") /\ Done(t)
       \/ /\ CannotOpen(t) \/ "trunc" \in Fails
          /\ Answer(t, "OK") /\ UNCHANGED done
    /\ UNCHANGED <<authr, caching, cache, store, req, left, room, frees, served, seen, overrun>>

\* ss_write fetches the data from the client.
GetData(t) ==
    /\ pc[t] = "data"
    /\ \/ Goto(t, "write") /\ UNCHANGED <<rc, frees>>
       \/ "data" \in Fails /\ AnswerWrite(t, "RPC", 0)
    /\ UNCHANGED <<authr, caching, cache, store, req, left, room, served, seen, done, overrun>>

\* sysio_obj_write frees the data unless the file cannot be opened.
Write(t) ==
    /\ pc[t] = "write"
    /\ \/ req[t].obj \in objs /\ AnswerWrite(t, "OK", 1) /\ Done(t)
       \/ "open" \in Fails /\ AnswerWrite(t, "STORAGE", 0) /\ UNCHANGED done
       \/ "short" \in Fails /\ AnswerWrite(t, "STORAGE", 1) /\ UNCHANGED done
    /\ UNCHANGED <<authr, caching, cache, store, req, left, room, served, seen, overrun>>
-----------------------------------------------------------------------------
Serve(t) ==
    \/ CheckExists(t) \/ CheckOps(t) \/ Verify(t)
    \/ Create(t) \/ SetCid(t) \/ RemoveFile(t)
    \/ CountNames(t) \/ ListNames(t) \/ RemoveNames(t) \/ SetNames(t) \/ GetNames(t)
    \/ Fsync(t) \/ Stat(t) \/ Read(t) \/ Truncate(t) \/ GetData(t) \/ Write(t)
    \/ Reply(t)

NameArgs(op) ==
    CASE op \in {"setattrs", "getattrs", "rmattrs"} -> SUBSET Names \ {{}}
      [] op \in {"setattr", "getattr", "rmattr"} -> {{n} : n \in Names}
      [] OTHER -> {{}}

Next ==
    \/ \E ops \in CapArgs : GetCap(ops)
    \/ (\E o \in ContainerOps : ModAcl(o)) \/ NewKey
    \/ \E t \in Threads :
          \/ \E op \in OpArgs, o \in Objs, cap \in caps :
                \E names \in NameArgs(op) : Begin(t, op, o, cap, names)
          \/ Serve(t)

Spec == Init /\ [][Next]_vars
-----------------------------------------------------------------------------
Effects == {"create", "setcid", "rmfile", "count", "list", "rmattrs", "read", "data", "write",
            "fsync", "stat", "trunc", "getattrs", "setattrs"}

TypeOK ==
    /\ acl \subseteq ContainerOps /\ cache \subseteq caps
    /\ attrs \subseteq Objs \X Names /\ objs \subseteq Objs
    /\ \A t \in Threads :
          /\ pc[t] \in Effects \cup {"idle", "exists", "ops", "verify", "reply"}
          /\ req[t] = None <=> pc[t] = "idle"
          /\ frees[t] \in 0..2 /\ room[t] \in 0..Cardinality(Names)
    /\ caching \/ cache = {}

\* Whatever a handler does to the store, its user was allowed to do since the request came,
\* or, when verified capabilities are cached, had been allowed to do before.
EffectWasAllowed ==
    \A t \in Threads : pc[t] \in Effects =>
        LET o == Needed(req[t].op)
        IN  o \in seen[t] \/ (caching /\ <<req[t].cap, o>> \in ever)

\* The same without regard to the cache: a revoked capability is not served.
NoStaleService ==
    \A t \in Threads : pc[t] \in Effects => Needed(req[t].op) \in seen[t]

\* The attributes of an object go with it: none stays without its object, unless a request
\* on the object is in service.
AttrsHaveObjects ==
    \A o \in Objs : NamesOf(o) # {} =>
        o \in objs \/ \E t \in Threads : req[t] # None /\ req[t].obj = o

\* Every buffer that ss_write allocates is freed once, on every path, by ss_write or by
\* sysio_obj_write.
BufferFreedOnce ==
    \A t \in Threads : req[t] # None /\ req[t].op = "write" =>
        frees[t] = IF pc[t] = "reply" THEN 1 ELSE 0

\* A request that was answered, whatever failed in it, leaves neither attributes of an
\* object that is gone nor a buffer, and has freed none twice.
NothingLeftBehind == AttrsHaveObjects /\ BufferFreedOnce

\* The failures that an operation answers LWFS_OK to.
Hidden(op) ==
    CASE op \in {"read", "stat"} -> {"open"}
      [] op = "trunc" -> {"open", "trunc"}
      [] OTHER -> {}

\* An answer LWFS_OK means that the operation was carried out, all of it, whatever can fail,
\* but for a read, a stat or a truncate of a file that cannot be opened or truncated.
OkMeansDone ==
    \A t \in Threads : pc[t] = "reply" /\ rc[t] = "OK" =>
        done[t] \/ Hidden(req[t].op) \cap Fails # {}

\* The same of every operation: no failure is answered LWFS_OK.
OkTellsFailures == \A t \in Threads : pc[t] = "reply" /\ rc[t] = "OK" => done[t]

\* The names of attributes are written into the array that was allocated for them.
ListFits == ~overrun
=============================================================================
