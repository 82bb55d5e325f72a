------------------------------- MODULE Authr -------------------------------
(***************************************************************************)
(* The authorization server (authr_server.c, authr_db.c): containers, the  *)
(* access-control list of every operation on a container, and the          *)
(* capabilities it gives out.  Several threads serve requests.  One call   *)
(* of the database is one step; nothing spans two of them.                 *)
(***************************************************************************)
EXTENDS AclList

CONSTANTS
    Threads,          \* threads of the server
    Uids,             \* users
    MaxCid,           \* bound on container ids
    NumContainerOps,  \* operations on containers (6 in the code)
    SetArgs,          \* bound: the arrays of uids that mod_acl is called with
    AnyCid,           \* LWFS_CID_ANY
    OpArgs,           \* bound: the sets of operations asked for
    MaxReqs,          \* bound on the requests served
    MaxKeys,          \* bound on the starts of the server
    NoAcl, NoRequest

Cids == 1..MaxCid
Ops == 1..NumContainerOps

ASSUME AuthrAssumption ==
    /\ NumContainerOps \in Nat \ {0, 1, 2} /\ MaxCid \in Nat /\ AnyCid \notin 1..MaxCid
    /\ MaxReqs \in Nat /\ MaxKeys \in Nat \ {0}
    /\ SetArgs \subseteq Seq(Uids) /\ OpArgs \subseteq SUBSET Ops /\ Uids \subseteq 0 .. Inf - 1

ASSUME NoAclAssumption ==
    NoAcl \notin Seq(Uids \cup {Inf}) /\ \A users \in SUBSET Uids : NoAcl # users

CapType == [cid : Cids, ops : SUBSET Ops, uid : Uids, key : 1..MaxKeys]

CreateOp == 1
ModAclOp == 2
RemoveOp == 3
ReadOp == 4
OwnerOps == {ModAclOp, RemoveOp, ReadOp} \cap Ops

VARIABLES
    lists,     \* the database: the list of a container and operation
    exists,    \* the database: containers with an "existence" entry
    lastCid,   \* the database: the counter of container ids
    svcKey,    \* the key that signs capabilities, drawn anew at every start
    caps,      \* the capabilities given out
    req,       \* the request each thread serves
    pc, at,    \* where a thread is, and the operation its loop has come to
    cid,       \* the container id a thread works on
    orig,      \* the list mod_acl has read
    rc,        \* what the thread answers
    served,    \* number of requests begun
    live,      \* history: creations that succeeded since the container's last removal began
    named      \* history: the uids that a list was ever given or asked to lose

db == <<lists, exists, lastCid>>
vars == <<db, svcKey, caps, req, pc, at, cid, orig, rc, served, live, named>>

Cap(c, ops, u) == [cid |-> c, ops |-> ops, uid |-> u, key |-> svcKey]

Init ==
    /\ lists = [k \in Cids \X Ops |-> NoAcl]
    /\ exists = {} /\ lastCid = 0
    /\ svcKey = 1 /\ caps = {}
    /\ req = [t \in Threads |-> NoRequest]
    /\ pc = [t \in Threads |-> "idle"]
    /\ at = [t \in Threads |-> 1]
    /\ cid = [t \in Threads |-> 0]
    /\ orig = [t \in Threads |-> <<>>]
    /\ rc = [t \in Threads |-> "OK"]
    /\ served = 0
    /\ live = [c \in Cids |-> 0]
    /\ named = [k \in Cids \X Ops |-> {}]
-----------------------------------------------------------------------------
Goto(t, label) == pc' = [pc EXCEPT ![t] = label]
Answer(t, code) == Goto(t, "reply") /\ rc' = [rc EXCEPT ![t] = code]

\* The first operation of S from o on; NumContainerOps + 1 when there is none.
NextOp(o, S) ==
    LET left == {x \in S : x >= o}
    IN  IF left = {} THEN NumContainerOps + 1 ELSE CHOOSE x \in left : \A y \in left : x <= y

MayDo(u, c, o) == IF lists[<<c, o>>] = NoAcl THEN "NOENT"
                  ELSE IF Bsearch(u, lists[<<c, o>>]) THEN "OK" ELSE "ACCESS"

\* check_authorization: the capability's fields, its signature, then one list.
Authorized(cap, c, o) ==
    IF cap.cid # c \/ o \notin cap.ops \/ cap.key # svcKey THEN "VERIFYCAP"
    ELSE MayDo(cap.uid, c, o)

RequestsWith(held) ==
    [op : {"create"}, cid : Cids \cup {AnyCid}, uid : Uids]
    \cup [op : {"remove"}, cid : Cids, cap : held]
    \cup [op : {"modacl"}, cid : Cids, ops : OpArgs, set : SetArgs, unset : SetArgs,
          cap : held]
    \cup [op : {"getacl"}, cid : Cids, cop : Ops, cap : held]
    \cup [op : {"getcap"}, cid : Cids, ops : OpArgs, uid : Uids]
    \cup [op : {"verify"}, cap : held]

\* A client shows a capability that it was given.
Requests == RequestsWith(caps)

ASSUME NoRequestAssumption == NoRequest \notin RequestsWith(CapType)

Entry == [create |-> "newcid", remove |-> "remove", modacl |-> "modacl",
          getacl |-> "getacl", getcap |-> "perm", verify |-> "verify"]

Begin(t, r) ==
    /\ pc[t] = "idle" /\ served < MaxReqs
    /\ req' = [req EXCEPT ![t] = r]
    /\ Goto(t, Entry[r.op])
    /\ at' = [at EXCEPT ![t] = 1]
    /\ cid' = [cid EXCEPT ![t] = IF r.op = "verify" THEN r.cap.cid
                                   ELSE IF r.cid = AnyCid THEN 0 ELSE r.cid]
    /\ served' = served + 1
    /\ UNCHANGED <<db, svcKey, caps, orig, rc, live, named>>

Reply(t) ==
    /\ pc[t] = "reply"
    /\ Goto(t, "idle")
    /\ req' = [req EXCEPT ![t] = NoRequest]
    /\ orig' = [orig EXCEPT ![t] = <<>>]
    /\ cid' = [cid EXCEPT ![t] = 0]
    /\ at' = [at EXCEPT ![t] = 1]
    /\ rc' = [rc EXCEPT ![t] = "OK"]
    /\ UNCHANGED <<db, svcKey, caps, served, live, named>>
-----------------------------------------------------------------------------
(* create_container *)

\* create_cid reads the counter ...
GetCounter(t) ==
    /\ pc[t] = "newcid" /\ req[t].cid = AnyCid
    /\ lastCid < MaxCid
    /\ cid' = [cid EXCEPT ![t] = lastCid + 1]
    /\ Goto(t, "putcid")
    /\ UNCHANGED <<db, svcKey, caps, req, at, orig, rc, served, live, named>>

\* ... and stores it back incremented.
PutCounter(t) ==
    /\ pc[t] = "putcid"
    /\ lastCid' = cid[t]
    /\ Goto(t, "fresh")
    /\ UNCHANGED <<lists, exists, svcKey, caps, req, at, cid, orig, rc, served, live, named>>

\* An id whose container has an existence entry is skipped.
CheckFresh(t) ==
    /\ pc[t] = "fresh"
    /\ Goto(t, IF cid[t] \in exists THEN "newcid" ELSE "putacl")
    /\ UNCHANGED <<db, svcKey, caps, req, at, cid, orig, rc, served, live, named>>

\* A given id must have no entry yet; only such a container gets one.
CheckGiven(t) ==
    /\ pc[t] = "newcid" /\ req[t].cid # AnyCid
    /\ IF cid[t] \in exists THEN Answer(t, "EXIST") ELSE Goto(t, "putexist") /\ UNCHANGED rc
    /\ UNCHANGED <<db, svcKey, caps, req, at, cid, orig, served, live, named>>

PutExistence(t) ==
    /\ pc[t] = "putexist"
    /\ IF cid[t] \in exists THEN Answer(t, "EXIST") /\ UNCHANGED exists
       ELSE exists' = exists \cup {cid[t]} /\ Goto(t, "putacl") /\ UNCHANGED rc
    /\ UNCHANGED <<lists, lastCid, svcKey, caps, req, at, cid, orig, served, live, named>>

\* authr_db_put_acl overwrites nothing.
PutAcl(c, o, list, uids) ==
    /\ lists' = [lists EXCEPT ![<<c, o>>] = list]
    /\ named' = [named EXCEPT ![<<c, o>>] = @ \cup uids]

\* Who is on the list of an operation on a new container.
FirstUsers(u, o) == IF o \in OwnerOps THEN <<u>> ELSE <<>>

\* A slip: the lists of the id are overwritten.
PutNewAclOver(t) ==
    LET o == at[t]
    IN  /\ pc[t] = "putacl"
        /\ PutAcl(cid[t], o, FirstUsers(req[t].uid, o), Range(FirstUsers(req[t].uid, o)))
        /\ IF o = NumContainerOps
           THEN /\ caps' = caps \cup {Cap(cid[t], OwnerOps, req[t].uid)}
                /\ live' = [live EXCEPT ![cid[t]] = @ + 1]
                /\ Answer(t, "OK") /\ UNCHANGED at
           ELSE at' = [at EXCEPT ![t] = o + 1] /\ UNCHANGED <<pc, rc, caps, live>>
        /\ UNCHANGED <<exists, lastCid, svcKey, req, cid, orig, served>>

\* One list per operation; the last one is followed by the capability for the owner.
PutNewAcl(t) ==
    LET c == cid[t]
        u == req[t].uid
        o == at[t]
    IN  /\ pc[t] = "putacl"
        /\ IF lists[<<c, o>>] # NoAcl
           THEN Answer(t, "EXIST") /\ UNCHANGED <<lists, caps, live, at, named>>
           ELSE /\ PutAcl(c, o, FirstUsers(u, o), Range(FirstUsers(u, o)))
                /\ IF o = NumContainerOps
                   THEN /\ caps' = caps \cup {Cap(c, OwnerOps, u)}
                        /\ live' = [live EXCEPT ![c] = @ + 1]
                        /\ Answer(t, "OK") /\ UNCHANGED at
                   ELSE at' = [at EXCEPT ![t] = o + 1] /\ UNCHANGED <<pc, rc, caps, live>>
        /\ UNCHANGED <<exists, lastCid, svcKey, req, cid, orig, served>>
-----------------------------------------------------------------------------
(* remove_container *)

RemoveBegin(t) ==
    /\ pc[t] = "remove"
    /\ LET code == Authorized(req[t].cap, cid[t], RemoveOp)
       IN  IF code = "OK"
           THEN /\ Goto(t, "delacl") /\ UNCHANGED rc
                /\ live' = [live EXCEPT ![cid[t]] = 0]
           ELSE Answer(t, code) /\ UNCHANGED live
    /\ UNCHANGED <<db, svcKey, caps, req, at, cid, orig, served, named>>

\* The lists go one by one; one that is gone already is passed over.
DelEachAcl(t) ==
    /\ pc[t] = "delacl"
    /\ lists' = [lists EXCEPT ![<<cid[t], at[t]>>] = NoAcl]
    /\ IF at[t] = NumContainerOps
       THEN Goto(t, "rmexist") /\ UNCHANGED at
       ELSE at' = [at EXCEPT ![t] = @ + 1] /\ UNCHANGED pc
    /\ UNCHANGED <<exists, lastCid, svcKey, caps, req, cid, orig, rc, served, live, named>>

\* A container made for LWFS_CID_ANY has no entry to remove: its removal ends in an error.
CheckExistence(t) ==
    /\ pc[t] = "rmexist"
    /\ IF cid[t] \in exists
       THEN Goto(t, "delexist") /\ UNCHANGED rc
       ELSE Answer(t, "NOENT")
    /\ UNCHANGED <<db, svcKey, caps, req, at, cid, orig, served, live, named>>

DelExistence(t) ==
    /\ pc[t] = "delexist"
    /\ IF cid[t] \in exists
       THEN exists' = exists \ {cid[t]} /\ Goto(t, "rmcheck") /\ UNCHANGED rc
       ELSE Answer(t, "NOENT") /\ UNCHANGED exists
    /\ UNCHANGED <<lists, lastCid, svcKey, caps, req, at, cid, orig, served, live, named>>

CheckGone(t) ==
    /\ pc[t] = "rmcheck"
    /\ Answer(t, IF cid[t] \in exists THEN "ERR" ELSE "OK")
    /\ UNCHANGED <<db, svcKey, caps, req, at, cid, orig, served, live, named>>
-----------------------------------------------------------------------------
(* mod_acl and get_acl *)

\* The loop goes on with the next operation asked for, or ends.
ContinueMod(t, o) ==
    LET n == NextOp(o, req[t].ops)
    IN  IF n > NumContainerOps THEN Answer(t, "OK") /\ UNCHANGED at
        ELSE Goto(t, "modget") /\ at' = [at EXCEPT ![t] = n] /\ UNCHANGED rc

ModBegin(t) ==
    /\ pc[t] = "modacl"
    /\ LET code == Authorized(req[t].cap, cid[t], ModAclOp)
       IN  IF code = "OK" THEN ContinueMod(t, 1) ELSE Answer(t, code) /\ UNCHANGED at
    /\ UNCHANGED <<db, svcKey, caps, req, cid, orig, served, live, named>>

ModGet(t) ==
    LET list == lists[<<cid[t], at[t]>>]
    IN  /\ pc[t] = "modget"
        /\ IF list = NoAcl THEN Answer(t, "NOENT") /\ UNCHANGED orig
           ELSE orig' = [orig EXCEPT ![t] = list] /\ Goto(t, "moddel") /\ UNCHANGED rc
        /\ UNCHANGED <<db, svcKey, caps, req, at, cid, served, live, named>>

ModDel(t) ==
    /\ pc[t] = "moddel"
    /\ IF lists[<<cid[t], at[t]>>] = NoAcl THEN Answer(t, "NOENT") /\ UNCHANGED lists
       ELSE /\ lists' = [lists EXCEPT ![<<cid[t], at[t]>>] = NoAcl]
            /\ Goto(t, "modput") /\ UNCHANGED rc
    /\ UNCHANGED <<exists, lastCid, svcKey, caps, req, at, cid, orig, served, live, named>>

ModPut(t) ==
    /\ pc[t] = "modput"
    /\ IF lists[<<cid[t], at[t]>>] # NoAcl THEN Answer(t, "EXIST") /\ UNCHANGED <<lists, at, named>>
       ELSE /\ \E list \in ModifiedAcl(orig[t], req[t].set, req[t].unset) :
                  PutAcl(cid[t], at[t], list, Range(req[t].set) \cup Range(req[t].unset))
            /\ ContinueMod(t, at[t] + 1)
    /\ UNCHANGED <<exists, lastCid, svcKey, caps, req, cid, orig, served, live>>

GetAcl(t) ==
    LET code == Authorized(req[t].cap, cid[t], ReadOp)
    IN  /\ pc[t] = "getacl"
        /\ IF code = "OK" THEN Goto(t, "readacl") /\ UNCHANGED rc ELSE Answer(t, code)
        /\ UNCHANGED <<db, svcKey, caps, req, at, cid, orig, served, live, named>>

ReadAcl(t) ==
    /\ pc[t] = "readacl"
    /\ Answer(t, IF lists[<<cid[t], req[t].cop>>] = NoAcl THEN "NOENT" ELSE "OK")
    /\ UNCHANGED <<db, svcKey, caps, req, at, cid, orig, served, live, named>>
-----------------------------------------------------------------------------
(* get_cap and verify_caps *)

\* verify_caps: the signature first.
CheckCap(t) ==
    /\ pc[t] = "verify"
    /\ IF req[t].cap.key = svcKey THEN Goto(t, "perm") /\ UNCHANGED rc
       ELSE Answer(t, "VERIFYCAP")
    /\ UNCHANGED <<db, svcKey, caps, req, at, cid, orig, served, live, named>>

AskedOps(t) == IF req[t].op = "verify" THEN req[t].cap.ops ELSE req[t].ops
AskedUid(t) == IF req[t].op = "verify" THEN req[t].cap.uid ELSE req[t].uid

\* check_perm: one list after another; everybody may create containers.
CheckPerm(t) ==
    LET o == NextOp(at[t], AskedOps(t) \ {CreateOp})
        code == MayDo(AskedUid(t), cid[t], o)
    IN  /\ pc[t] = "perm"
        /\ IF o > NumContainerOps
           THEN /\ Answer(t, "OK") /\ UNCHANGED at
                /\ caps' = IF req[t].op = "verify" THEN caps
                           ELSE caps \cup {Cap(cid[t], req[t].ops, req[t].uid)}
           ELSE /\ IF code = "OK" THEN at' = [at EXCEPT ![t] = o + 1] /\ UNCHANGED <<pc, rc>>
                   ELSE Answer(t, code) /\ UNCHANGED at
                /\ UNCHANGED caps
        /\ UNCHANGED <<db, svcKey, req, cid, orig, served, live, named>>
-----------------------------------------------------------------------------
\* The server stops when its threads are done and starts with another key.
Restart ==
    /\ \A t \in Threads : pc[t] = "idle"
    /\ svcKey < MaxKeys /\ svcKey' = svcKey + 1
    /\ UNCHANGED <<db, caps, req, pc, at, cid, orig, rc, served, live, named>>

Serve(t) ==
    \/ GetCounter(t) \/ PutCounter(t) \/ CheckFresh(t) \/ CheckGiven(t) \/ PutExistence(t)
    \/ PutNewAcl(t)
    \/ RemoveBegin(t) \/ DelEachAcl(t) \/ CheckExistence(t) \/ DelExistence(t) \/ CheckGone(t)
    \/ ModBegin(t) \/ ModGet(t) \/ ModDel(t) \/ ModPut(t)
    \/ GetAcl(t) \/ ReadAcl(t) \/ CheckCap(t) \/ CheckPerm(t)
    \/ Reply(t)

Next ==
    \/ \E t \in Threads : (\E r \in Requests : Begin(t, r)) \/ Serve(t)
    \/ Restart

Spec == Init /\ [][Next]_vars
-----------------------------------------------------------------------------
\* A list holds users, and an overwritten entry at most where some uid it was given is
\* not in order.
TypeOK ==
    /\ \A k \in Cids \X Ops : lists[k] # NoAcl =>
           Range(lists[k]) \subseteq
               named[k] \cup (IF named[k] \subseteq InOrder THEN {} ELSE {Inf})
    /\ exists \subseteq Cids /\ lastCid \in 0..MaxCid /\ svcKey \in 1..MaxKeys
    /\ caps \subseteq CapType
    /\ \A t \in Threads : req[t] = NoRequest <=> pc[t] = "idle"
    /\ at \in [Threads -> 1..NumContainerOps + 1]
    /\ cid \in [Threads -> 0..MaxCid]
    /\ rc \in [Threads -> {"OK", "EXIST", "NOENT", "ERR", "ACCESS", "VERIFYCAP"}]
    /\ served \in 0..MaxReqs /\ live \in [Cids -> Nat]
    /\ named \in [Cids \X Ops -> SUBSET Uids]

\* The bsearch of check_perm lets nobody in who is not on the list, whatever the width of
\* a long and however the uids compare.  On a list that was only ever given uids in order,
\* up to the greatest, it finds everybody that add_uids and remove_uids left there, and
\* each is there once.
LookupsAgree ==
    \A k \in Cids \X Ops : lists[k] # NoAcl =>
        /\ \A u \in Uids : Bsearch(u, lists[k]) => u \in Range(lists[k])
        /\ named[k] \subseteq InOrder =>
              /\ Cardinality(Range(lists[k])) = Len(lists[k])
              /\ \A u \in Range(lists[k]) : Bsearch(u, lists[k])

\* Whoever is on a list is found: false with a long wider than the words compared, or with
\* uids of the high half.
EverybodyFound ==
    \A k \in Cids \X Ops : lists[k] # NoAcl =>
        \A u \in Range(lists[k]) : Bsearch(u, lists[k])

\* A modification takes everybody off the list whom it is asked to take off: false there, and
\* on Cray Portals with any uids.
RevokedAreOff ==
    [][\A t \in Threads :
          LET k == <<cid[t], at[t]>>
          IN  ModPut(t) /\ lists[k] = NoAcl => Range(req[t].unset) \cap Range(lists'[k]) = {}]_vars

\* Two create_container calls never both succeed with one id unless a removal of the
\* container began between them: not with two threads in create_cid that read one counter,
\* nor with an id that the counter reached or a client chose.
OneContainerPerCid == \A c \in Cids : live[c] <= 1

\* When no thread works on a container it has all its lists or, not created or removed,
\* none of them.
WholeOrGone ==
    \A c \in Cids : (\A t \in Threads : cid[t] # c) =>
        \A o \in Ops : lists[<<c, o>>] # NoAcl <=> live[c] > 0

\* While mod_acl has a list out of the database it counts as unchanged.
UsersAllowed ==
    [k \in Cids \X Ops |->
        LET out == {t \in Threads : pc[t] = "modput" /\ <<cid[t], at[t]>> = k}
        IN  IF out # {} THEN Range(orig[CHOOSE t \in out : TRUE]) \cap Uids
            ELSE IF lists[k] = NoAcl THEN NoAcl ELSE Range(lists[k]) \cap Uids]

Service == INSTANCE AclService WITH acl <- UsersAllowed

\* Every change of who may do what is the one that a request in service asks for: the
\* arrays, their sorting and the separate delete and put of mod_acl do not show, but for
\* users that a list loses, or keeps, when it was given uids that are not in order.
ImplementsAclService == Service!Spec
=============================================================================
