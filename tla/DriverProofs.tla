---------------------------- MODULE DriverProofs ----------------------------
(***************************************************************************)
(* Proofs about the libsysio driver, for any number of processes.          *)
(*                                                                         *)
(* Mounting, for any users and any number of restarts: what mounted        *)
(* processes may do, and what the first try to mount can meet.  The        *)
(* authorization server is not stopped in the middle of a request.         *)
(*                                                                         *)
(* Files, for any names, servers, operations, failures and crashes: a name *)
(* leads to a whole file, the objects of a file together are the file, and *)
(* a read that succeeded returns it.                                       *)
(***************************************************************************)
EXTENDS Mount, FsLwfs, FiniteSetTheorems, SequenceTheorems, NaturalsInduction,
        WellFoundedInduction, TLAPS

(***************************************************************************)
(* Mounting: the inductive invariant, in named parts.                      *)
(***************************************************************************)

Labels == {"idle", "failed", "namespace", "nsinode", "find", "create", "putacl", "capmodacl",
           "modacl", "modget", "moddel", "modput", "capread", "capwrite", "mounted"}
Acls == {NoAcl} \cup SUBSET Users

Types ==
    /\ lists \in [ListOps -> Acls] /\ svcKey \in Nat
    /\ pc \in [Procs -> Labels] /\ turn \in [Procs -> 1..3]
    /\ orig \in [Procs -> Acls]
    /\ modaclKey \in [Procs -> Nat] /\ since \in [Procs -> Nat]

\* The creator of the container has come past its i-th list.
Made(i) == exists /\ \A p \in Procs : pc[p] = "putacl" => i < turn[p]

Modifies(p, i) == pc[p] = "modput" /\ turn[p] = i

\* What the lists hold: the list of those who may change lists stays with the creator, the
\* two others hold at most the creator, and lack only while mod_acl is between its delete
\* and its put.
ListsInv ==
    /\ \A i \in 1..3 : ~Made(i) => lists[Lists[i]] = NoAcl
    /\ Made(1) => \E u \in Users : lists["MODACL"] = {u}
    /\ Made(2) => \/ lists["READ"] = lists["MODACL"]
                  \/ lists["READ"] = NoAcl /\ \E p \in Procs : Modifies(p, 2)
    /\ Made(3) => \/ lists["WRITE"] \in {{}, lists["MODACL"]}
                  \/ lists["WRITE"] = NoAcl /\ \E p \in Procs : Modifies(p, 3)

\* Processes that have had a capability to change the lists.
Past == {"modacl", "modget", "moddel", "modput", "capread", "capwrite", "mounted"}
Granted == {"capread", "capwrite", "mounted"}

\* There is one creator, and one process at a time between the delete and the put of a list.
AloneInv ==
    \A p, q \in Procs : p # q =>
        /\ ~(pc[p] = "putacl" /\ pc[q] = "putacl")
        /\ ~(pc[p] = "modput" /\ pc[q] = "modput" /\ turn[p] = turn[q])

ProcInv(p) ==
    /\ pc[p] = "putacl" => exists /\ (turn[p] # 1 => lists["MODACL"] = {Uid(p)})
    /\ pc[p] \in Past => Made(1) /\ lists["MODACL"] = {Uid(p)}
    /\ pc[p] \in {"modget", "moddel", "modput"} => turn[p] \in {2, 3}
    /\ pc[p] \in {"moddel", "modput"} => Made(turn[p]) /\ orig[p] \in {{}, {Uid(p)}}
    /\ pc[p] = "modput" => lists[Op(p)] = NoAcl
    /\ pc[p] = "modget" /\ turn[p] = 3 => Made(2)
    /\ pc[p] \in Granted => Made(2) /\ Made(3) /\ lists["WRITE"] \in {NoAcl, {Uid(p)}}

MountInv == Types /\ ListsInv /\ AloneInv /\ \A p \in Procs : ProcInv(p)

(***************************************************************************)
(* What servers without threads add to it.                                 *)
(***************************************************************************)

NamingInv ==
    /\ entry /\ ~inode => \E p \in Procs : pc[p] = "nsinode"
    /\ \A p \in Procs : pc[p] = "find" => entry

OneRequest == ~threaded => \A p, q \in Procs : pc[p] \in InAuthr /\ pc[q] \in InAuthr => p = q

KeyInv(p) ==
    /\ since[p] <= svcKey
    /\ pc[p] = "modacl" => since[p] <= modaclKey[p] /\ modaclKey[p] <= svcKey
    /\ pc[p] = "capmodacl" => exists
    /\ ~threaded /\ pc[p] = "failed" =>
          (lists["MODACL"] # NoAcl /\ Uid(p) \notin lists["MODACL"]) \/ since[p] # svcKey

SerialInv == MountInv /\ NamingInv /\ OneRequest /\ \A p \in Procs : KeyInv(p)
-----------------------------------------------------------------------------
(* The three lists and the helpers.                                        *)

LEMMA ListFacts ==
  /\ Len(Lists) = 3 /\ Lists[1] = "MODACL" /\ Lists[2] = "READ" /\ Lists[3] = "WRITE"
  /\ ListOps = {"MODACL", "READ", "WRITE"}
BY DEF Lists, ListOps

LEMMA UidFacts == \A p \in Procs : Uid(p) \in Users
BY MountAssumption DEF Procs, Uid

\* A list is the one of its place only.
LEMMA OpFacts ==
  ASSUME Types, NEW p \in Procs
  PROVE  /\ Op(p) \in ListOps
         /\ turn[p] = 1 => Op(p) = "MODACL"
         /\ turn[p] = 2 => Op(p) = "READ"
         /\ turn[p] = 3 => Op(p) = "WRITE"
BY ListFacts DEF Types, Op

LEMMA InitInv == MountInit => SerialInv
<1> SUFFICES ASSUME MountInit PROVE SerialInv
  OBVIOUS
<1>1. Types
  BY DEF MountInit, Types, Labels, Acls
<1>2. ListsInv
  BY ListFacts DEF MountInit, ListsInv, Made
<1>3. AloneInv /\ \A p \in Procs : ProcInv(p)
  BY DEF MountInit, AloneInv, ProcInv, Past, Granted
<1>4. NamingInv /\ OneRequest /\ \A p \in Procs : KeyInv(p)
  BY DEF MountInit, NamingInv, OneRequest, KeyInv, InAuthr
<1> QED BY <1>1, <1>2, <1>3, <1>4 DEF SerialInv, MountInv

\* Steps that leave the lists alone, of a process that is neither creating the container
\* nor between the delete and the put of a list.
LEMMA QuietStep ==
  ASSUME MountInv, Types', NEW p \in Procs, UNCHANGED <<exists, lists>>,
         \A q \in Procs \ {p} : pc'[q] = pc[q] /\ turn'[q] = turn[q] /\ orig'[q] = orig[q],
         pc[p] \notin {"putacl", "modput"}, pc'[p] \notin {"putacl", "modput"},
         (\A i \in 1..3 : Made(i)' = Made(i)) => ProcInv(p)'
  PROVE  MountInv'
<1>1. \A i \in 1..3 : Made(i)' = Made(i)
  BY DEF Made
<1>2. \A q \in Procs, i \in 1..3 : Modifies(q, i)' = Modifies(q, i)
  BY DEF Modifies
<1>3. ListsInv'
  BY <1>1, <1>2 DEF MountInv, ListsInv
<1>4. AloneInv'
  BY DEF MountInv, AloneInv
<1>5. ASSUME NEW q \in Procs \ {p} PROVE ProcInv(q)'
  <2> ProcInv(q) /\ Types
    BY DEF MountInv
  <2> QED BY <1>1 DEF ProcInv, Types, Op
<1> QED BY <1>1, <1>3, <1>4, <1>5 DEF MountInv
-----------------------------------------------------------------------------
(* The steps of a mount.                                                   *)

\* Steps that come before anything is granted.
LEMMA EarlyStep ==
  ASSUME MountInv, NEW p \in Procs,
         BeginMount(p) \/ PutNamespace(p) \/ PutInode(p) \/ GetNamespace(p) \/ End(p)
  PROVE  MountInv'
<1>1. Types'
  BY DEF MountInv, Types, BeginMount, PutNamespace, PutInode, GetNamespace, End, At, Becomes,
     Fail, Labels,
         servers, mine
<1>2. /\ pc[p] \notin {"putacl", "modput"}
      /\ pc'[p] \in {"namespace", "find", "nsinode", "create", "failed", "idle"}
      /\ \A q \in Procs \ {p} : pc'[q] = pc[q] /\ turn'[q] = turn[q] /\ orig'[q] = orig[q]
      /\ UNCHANGED <<exists, lists>>
  BY DEF MountInv, Types, BeginMount, PutNamespace, PutInode, GetNamespace, End, At, Becomes,
     Fail,
         servers, mine, InAuthr
<1>3. ProcInv(p)'
  BY <1>2 DEF ProcInv, Past, Granted
<1> QED BY <1>1, <1>2, <1>3, QuietStep

LEMMA PutContainerStep ==
  ASSUME MountInv, NEW p \in Procs, PutContainer(p)
  PROVE  MountInv'
<1>1. Types'
  BY DEF MountInv, Types, PutContainer, At, Becomes, Labels
<1>2. /\ pc[p] = "create" /\ UNCHANGED <<lists, orig>>
      /\ \A q \in Procs \ {p} : pc'[q] = pc[q] /\ turn'[q] = turn[q]
  BY DEF MountInv, Types, PutContainer, At, Becomes
<1>3. CASE exists
  <2>1. pc'[p] = "capmodacl" /\ exists' = exists
    BY <1>3 DEF MountInv, Types, PutContainer, Becomes
  <2>2. ProcInv(p)'
    BY <2>1 DEF ProcInv, Past, Granted
  <2> QED BY <1>1, <1>2, <2>1, <2>2, QuietStep
<1>4. CASE ~exists
  <2>1. pc'[p] = "putacl" /\ turn'[p] = 1 /\ exists'
    BY <1>4 DEF MountInv, Types, PutContainer, Becomes
  <2>2. \A i \in 1..3 : ~Made(i) /\ ~Made(i)'
    BY <1>4, <2>1 DEF Made
  <2>3. ListsInv'
    BY <1>2, <2>2 DEF MountInv, ListsInv
  <2>4. \A q \in Procs : pc[q] \notin Past \cup {"putacl"}
    BY <1>4, <2>2 DEF MountInv, ProcInv
  <2>5. AloneInv'
    BY <1>2, <2>1, <2>4 DEF AloneInv, Past
  <2>6. ASSUME NEW q \in Procs PROVE ProcInv(q)'
    BY <1>2, <2>1, <2>4 DEF ProcInv, Past, Granted
  <2> QED BY <1>1, <2>3, <2>5, <2>6 DEF MountInv
<1> QED BY <1>3, <1>4

\* The container's lists come one after another, of one creator.
LEMMA PutAclStep ==
  ASSUME MountInv, NEW p \in Procs, PutAcl(p)
  PROVE  MountInv'
<1> DEFINE own == {Uid(p)}
<1>1. /\ pc[p] = "putacl" /\ exists /\ exists' = exists /\ turn[p] \in 1..3 /\ orig' = orig
      /\ turn[p] # 1 => lists["MODACL"] = own
      /\ \A q \in Procs \ {p} : pc[q] # "putacl" /\ pc'[q] = pc[q] /\ turn'[q] = turn[q]
  BY DEF MountInv, Types, ProcInv, AloneInv, PutAcl, At, Becomes
<1>2. /\ lists' = [lists EXCEPT ![Op(p)] = IF Op(p) \in OwnerOps THEN own ELSE {}]
      /\ \/ turn[p] = 3 /\ pc'[p] = "modacl" /\ turn'[p] = turn[p]
         \/ turn[p] \in {1, 2} /\ pc'[p] = "putacl" /\ turn'[p] = turn[p] + 1
  BY <1>1, ListFacts DEF MountInv, Types, PutAcl, Becomes
<1>3. Types'
  <2>1. turn' \in [Procs -> 1..3]
    BY <1>1, ListFacts DEF MountInv, Types, PutAcl
  <2>2. lists' \in [ListOps -> Acls]
    BY <1>2, UidFacts, OpFacts DEF MountInv, Types, Acls
  <2> QED BY <2>1, <2>2 DEF MountInv, Types, PutAcl, At, Becomes, Labels
<1>4. \A i \in 1..3 : (Made(i) <=> i < turn[p]) /\ (Made(i)' <=> i <= turn[p])
  BY <1>1, <1>2 DEF Made
<1>5. \A q \in Procs : pc[q] \notin Granted /\ (pc[q] = "modput" => turn[q] < turn[p])
  BY <1>1, <1>4 DEF MountInv, Types, ProcInv
<1>6. /\ turn[p] = 1 => lists' = [lists EXCEPT !["MODACL"] = own]
      /\ turn[p] = 2 => lists' = [lists EXCEPT !["READ"] = own]
      /\ turn[p] = 3 => lists' = [lists EXCEPT !["WRITE"] = {}]
  BY <1>2, OpFacts DEF MountInv, OwnerOps
<1>7. lists'["MODACL"] = own
  BY <1>1, <1>6, ListFacts DEF MountInv, Types
<1>8. \A i \in 1..3 : Lists[i] # Op(p) => lists'[Lists[i]] = lists[Lists[i]]
  BY <1>2, ListFacts DEF MountInv, Types
<1>9. ListsInv'
  <2>1. \A i \in 1..3 : ~Made(i)' => lists'[Lists[i]] = NoAcl
    <3> SUFFICES ASSUME NEW i \in 1..3, turn[p] < i PROVE lists'[Lists[i]] = NoAcl
      BY <1>1, <1>4
    <3>1. Lists[i] # Op(p)
      BY <1>1, ListFacts DEF Op
    <3>2. ~Made(i)
      BY <1>1, <1>4
    <3> QED BY <1>8, <3>1, <3>2 DEF MountInv, ListsInv
  <2>2. Made(2)' => \/ lists'["READ"] = own
                    \/ (lists'["READ"] = NoAcl /\ \E q \in Procs : Modifies(q, 2)')
    <3>1. CASE turn[p] = 1
      BY <1>4, <3>1
    <3>2. CASE turn[p] = 2
      BY <1>6, <3>2, ListFacts DEF MountInv, Types
    <3>3. CASE turn[p] = 3
      <4>1. Made(2) /\ lists'["READ"] = lists["READ"]
        BY <1>4, <1>6, <3>3, ListFacts DEF MountInv, Types
      <4>2. \A q \in Procs : Modifies(q, 2) => Modifies(q, 2)'
        BY <1>1 DEF Modifies
      <4> QED BY <1>1, <3>3, <4>1, <4>2 DEF MountInv, ListsInv
    <3> QED BY <1>1, <3>1, <3>2, <3>3
  <2>3. Made(3)' => lists'["WRITE"] = {}
    BY <1>1, <1>4, <1>6, ListFacts DEF MountInv, Types
  <2> QED BY <1>7, <2>1, <2>2, <2>3, UidFacts DEF ListsInv
<1>10. AloneInv'
  BY <1>1, <1>2 DEF MountInv, AloneInv
<1>11. ASSUME NEW q \in Procs PROVE ProcInv(q)'
  <2>1. CASE q = p
    BY <1>1, <1>2, <1>4, <1>7, <2>1 DEF ProcInv, Past, Granted
  <2>2. CASE q # p
    <3>1. ProcInv(q) /\ Types
      BY DEF MountInv
    <3>2. \A i \in 1..3 : Made(i) => Made(i)'
      BY <1>1, <1>4
    <3>3. pc[q] \in Past => lists["MODACL"] = own /\ own = {Uid(q)}
      BY <1>1, <1>4, <3>1 DEF ProcInv
    <3>4. pc[q] = "modput" => Op(q) # Op(p)
      BY <1>1, <1>5, <3>1, OpFacts DEF ProcInv, Types
    <3>5. pc[q] = "modput" => lists'[Op(q)] = NoAcl
      BY <1>2, <3>1, <3>4, OpFacts DEF ProcInv, Types
    <3> QED BY <1>1, <1>5, <1>7, <2>2, <3>1, <3>2, <3>3, <3>5 DEF ProcInv, Types, Op, Past
  <2> QED BY <2>1, <2>2
<1> QED BY <1>3, <1>9, <1>10, <1>11 DEF MountInv

\* Only who is on the container's list to change lists is granted a capability for it.
LEMMA GetModAclCapStep ==
  ASSUME MountInv, NEW p \in Procs, GetModAclCap(p)
  PROVE  MountInv'
<1>1. Types'
  BY DEF MountInv, Types, GetModAclCap, At, Becomes, Fail, Labels, servers
<1>2. /\ pc[p] = "capmodacl" /\ UNCHANGED <<exists, lists, turn, orig>>
      /\ \A q \in Procs \ {p} : pc'[q] = pc[q]
      /\ pc'[p] = "failed" \/ (pc'[p] = "modacl" /\ OnList(p, "MODACL"))
  BY DEF MountInv, Types, GetModAclCap, At, Becomes, Fail, servers
<1>3. OnList(p, "MODACL") => Made(1) /\ lists["MODACL"] = {Uid(p)}
  <2>1. lists["MODACL"] # NoAcl => Made(1)
    BY ListFacts DEF MountInv, ListsInv
  <2> QED BY <2>1 DEF OnList, MountInv, ListsInv
<1>4. (\A i \in 1..3 : Made(i)' = Made(i)) => ProcInv(p)'
  BY <1>2, <1>3 DEF ProcInv, Past, Granted
<1> QED BY <1>1, <1>2, <1>4, QuietStep

LEMMA ModBeginStep ==
  ASSUME MountInv, NEW p \in Procs, ModBegin(p)
  PROVE  MountInv'
<1>1. Types'
  BY DEF MountInv, Types, ModBegin, At, Becomes, Fail, Labels, servers
<1>2. /\ pc[p] = "modacl" /\ UNCHANGED <<exists, lists, orig>>
      /\ \A q \in Procs \ {p} : pc'[q] = pc[q] /\ turn'[q] = turn[q]
      /\ pc'[p] = "failed" \/ (pc'[p] = "modget" /\ turn'[p] = 2)
  BY DEF MountInv, Types, ModBegin, At, Becomes, Fail, servers
<1>3. (\A i \in 1..3 : Made(i)' = Made(i)) => ProcInv(p)'
  BY <1>2 DEF MountInv, ProcInv, Past, Granted
<1> QED BY <1>1, <1>2, <1>3, QuietStep

\* What mod_acl reads is nobody, or the creator.
LEMMA ModGetStep ==
  ASSUME MountInv, NEW p \in Procs, ModGet(p)
  PROVE  MountInv'
<1>1. Types'
  BY OpFacts DEF MountInv, Types, ModGet, At, Becomes, Fail, Labels, servers
<1>2. /\ pc[p] = "modget" /\ UNCHANGED <<exists, lists, turn>>
      /\ \A q \in Procs \ {p} : pc'[q] = pc[q] /\ orig'[q] = orig[q]
      /\ \/ pc'[p] = "failed"
         \/ pc'[p] = "moddel" /\ lists[Op(p)] # NoAcl /\ orig'[p] = lists[Op(p)]
  BY DEF MountInv, Types, ModGet, At, Becomes, Fail, servers
<1>3. turn[p] \in {2, 3} /\ lists["MODACL"] = {Uid(p)}
  BY <1>2 DEF MountInv, ProcInv, Past
<1>4. lists[Op(p)] # NoAcl => Made(turn[p]) /\ lists[Op(p)] \in {{}, {Uid(p)}}
  <2>1. lists[Op(p)] # NoAcl => Made(turn[p])
    BY <1>3 DEF MountInv, ListsInv, Types, Op
  <2> QED BY <1>3, <2>1, OpFacts DEF MountInv, ListsInv
<1>5. (\A i \in 1..3 : Made(i)' = Made(i)) => ProcInv(p)'
  BY <1>2, <1>3, <1>4 DEF MountInv, ProcInv, Past, Granted
<1> QED BY <1>1, <1>2, <1>5, QuietStep

\* What holds of a process that deletes or puts a list.
LEMMA ModFacts ==
  ASSUME MountInv, NEW p \in Procs, pc[p] \in {"moddel", "modput"}
  PROVE  /\ turn[p] \in {2, 3} /\ Made(turn[p]) /\ orig[p] \in {{}, {Uid(p)}}
         /\ lists["MODACL"] = {Uid(p)} /\ Op(p) = Lists[turn[p]] /\ Op(p) \in {"READ", "WRITE"}
         /\ pc[p] = "modput" => lists[Op(p)] = NoAcl
<1> ProcInv(p)
  BY DEF MountInv
<1> QED BY ListFacts DEF ProcInv, Past, Op

LEMMA ModDelStep ==
  ASSUME MountInv, NEW p \in Procs, ModDel(p)
  PROVE  MountInv'
<1>1. /\ pc[p] = "moddel" /\ UNCHANGED <<exists, turn, orig>>
      /\ \A q \in Procs \ {p} : pc'[q] = pc[q]
  BY DEF MountInv, Types, ModDel, At, Becomes, Fail, mine
<1>2. Types'
  BY OpFacts DEF MountInv, Types, ModDel, At, Becomes, Fail, Labels, mine, Acls
<1>3. CASE lists[Op(p)] = NoAcl
  <2>1. pc'[p] = "failed" /\ UNCHANGED lists
    BY <1>3 DEF MountInv, Types, ModDel, Becomes, Fail
  <2>2. ProcInv(p)'
    BY <2>1 DEF ProcInv, Past, Granted
  <2> QED BY <1>1, <1>2, <2>1, <2>2, QuietStep
<1>4. CASE lists[Op(p)] # NoAcl
  <2>1. pc'[p] = "modput" /\ lists' = [lists EXCEPT ![Op(p)] = NoAcl]
    BY <1>4 DEF MountInv, Types, ModDel, Becomes
  <2>2. \A i \in 1..3 : Made(i)' = Made(i)
    BY <1>1, <2>1 DEF Made
  <2>3. \A q \in Procs, i \in 1..3 : Modifies(q, i) => Modifies(q, i)'
    BY <1>1, <2>1 DEF Modifies
  <2>4. \A i \in 1..3 : turn[p] = i => Modifies(p, i)'
    BY <1>1, <2>1 DEF Modifies
  <2>5. lists'[Op(p)] = NoAcl /\ \A o \in ListOps \ {Op(p)} : lists'[o] = lists[o]
    BY <2>1, OpFacts DEF MountInv, Types
  <2>6. ListsInv'
    <3>1. \A i \in 1..3 : ~Made(i)' => lists'[Lists[i]] = NoAcl
      BY <2>2, <2>5, ListFacts DEF MountInv, ListsInv
    <3>2. lists'["MODACL"] = lists["MODACL"]
      BY <1>1, <2>5, ModFacts, ListFacts
    <3>3. CASE Op(p) = "READ"
      <4>1. turn[p] = 2 /\ lists'["WRITE"] = lists["WRITE"]
        BY <1>1, <2>5, <3>3, ModFacts, ListFacts
      <4> QED BY <2>2, <2>3, <2>4, <2>5, <3>1, <3>2, <3>3, <4>1 DEF MountInv, ListsInv
    <3>4. CASE Op(p) = "WRITE"
      <4>1. turn[p] = 3 /\ lists'["READ"] = lists["READ"]
        BY <1>1, <2>5, <3>4, ModFacts, ListFacts
      <4> QED BY <2>2, <2>3, <2>4, <2>5, <3>1, <3>2, <3>4, <4>1 DEF MountInv, ListsInv
    <3> QED BY <1>1, <3>3, <3>4, ModFacts
  <2>7. \A q \in Procs \ {p} : ~(pc[q] = "modput" /\ turn[q] = turn[p])
    BY <1>1, <1>4, ModFacts
  <2>8. AloneInv'
    BY <1>1, <2>1, <2>7 DEF MountInv, AloneInv
  <2>9. ASSUME NEW q \in Procs PROVE ProcInv(q)'
    <3>1. ProcInv(q) /\ Types
      BY DEF MountInv
    <3>2. lists'["MODACL"] = lists["MODACL"] /\ lists'["WRITE"] \in {NoAcl, lists["WRITE"]}
      BY <1>1, <2>5, ModFacts, ListFacts
    <3>3. pc[q] = "modput" => lists'[Op(q)] = NoAcl
      BY <2>5, <3>1, OpFacts DEF ProcInv
    <3> QED BY <1>1, <2>1, <2>2, <2>5, <3>1, <3>2, <3>3 DEF ProcInv, Past, Granted, Op, Types
  <2> QED BY <1>2, <2>6, <2>8, <2>9 DEF MountInv
<1> QED BY <1>3, <1>4

\* The list that is put holds the creator, who is also the one that puts it.
LEMMA ModPutStep ==
  ASSUME MountInv, NEW p \in Procs, ModPut(p)
  PROVE  MountInv'
<1> DEFINE own == {Uid(p)}
<1>1. /\ pc[p] = "modput" /\ UNCHANGED <<exists, orig>>
      /\ \A q \in Procs \ {p} : pc'[q] = pc[q] /\ turn'[q] = turn[q]
  BY DEF MountInv, Types, ModPut, At, Becomes, Fail
<1>2. /\ turn[p] \in {2, 3} /\ Made(turn[p]) /\ lists["MODACL"] = own /\ lists[Op(p)] = NoAcl
      /\ Op(p) = Lists[turn[p]] /\ Op(p) \in {"READ", "WRITE"} /\ orig[p] \cup own = own
  BY <1>1, ModFacts
<1>3. /\ lists' = [lists EXCEPT ![Op(p)] = own]
      /\ \/ turn[p] = 3 /\ pc'[p] = "capread" /\ turn' = turn
         \/ turn[p] = 2 /\ pc'[p] = "modget" /\ turn' = [turn EXCEPT ![p] = 3]
  BY <1>2, ListFacts DEF MountInv, Types, ModPut, Becomes
<1>4. Types'
  <2>1. lists' \in [ListOps -> Acls]
    <3>1. own \in Acls
      BY UidFacts DEF Acls
    <3>2. lists \in [ListOps -> Acls]
      BY DEF MountInv, Types
    <3> HIDE DEF own
    <3> QED BY <1>3, <3>1, <3>2
  <2>2. pc' \in [Procs -> Labels]
    BY DEF MountInv, Types, ModPut, Becomes, Fail, Labels
  <2>3. turn' \in [Procs -> 1..3]
    BY <1>3 DEF MountInv, Types
  <2> QED BY <2>1, <2>2, <2>3 DEF MountInv, Types, ModPut
<1>5. \A i \in 1..3 : Made(i)' = Made(i)
  BY <1>1, <1>3 DEF Made
<1>6. lists'[Op(p)] = own /\ \A o \in ListOps \ {Op(p)} : lists'[o] = lists[o]
  BY <1>2, <1>3, ListFacts DEF MountInv, Types
<1>7. lists'["MODACL"] = own
  BY <1>2, <1>6, ListFacts
<1>8. \A q \in Procs, i \in 1..3 : i # turn[p] /\ Modifies(q, i) => Modifies(q, i)'
  BY <1>1 DEF Modifies
<1>9. ListsInv'
  <2>1. \A i \in 1..3 : ~Made(i)' => lists'[Lists[i]] = NoAcl
    BY <1>2, <1>5, <1>6, ListFacts DEF MountInv, ListsInv
  <2>2. CASE Op(p) = "READ"
    <3>1. turn[p] = 2 /\ lists'["WRITE"] = lists["WRITE"]
      BY <1>2, <1>6, <2>2, ListFacts
    <3> QED BY <1>2, <1>5, <1>6, <1>7, <1>8, <2>1, <2>2, <3>1, UidFacts DEF MountInv, ListsInv
  <2>3. CASE Op(p) = "WRITE"
    <3>1. turn[p] = 3 /\ lists'["READ"] = lists["READ"]
      BY <1>2, <1>6, <2>3, ListFacts
    <3> QED BY <1>2, <1>5, <1>6, <1>7, <1>8, <2>1, <2>3, <3>1, UidFacts DEF MountInv, ListsInv
  <2> QED BY <1>2, <2>2, <2>3
<1>10. AloneInv'
  BY <1>1, <1>3 DEF MountInv, AloneInv
<1>11. ASSUME NEW q \in Procs PROVE ProcInv(q)'
  <2>1. CASE q = p
    <3>1. Made(2)
      BY <1>1, <1>2 DEF Made, MountInv, Types
    <3>2. turn[p] = 3 => lists'["WRITE"] = own
      BY <1>2, <1>6, ListFacts
    <3> QED BY <1>1, <1>2, <1>3, <1>5, <1>7, <2>1, <3>1, <3>2
        DEF MountInv, Types, ProcInv, Past, Granted
  <2>2. CASE q # p
    <3>1. ProcInv(q) /\ Types
      BY DEF MountInv
    <3>2. pc[q] \in Granted => lists'["WRITE"] \in {NoAcl, {Uid(q)}}
      <4>1. pc[q] \in Granted => own = {Uid(q)}
        BY <1>2, <3>1 DEF ProcInv, Granted, Past
      <4> QED BY <1>2, <1>6, <3>1, <4>1, ListFacts DEF ProcInv
    <3>3. pc[q] = "modput" => lists'[Op(q)] = NoAcl
      <4>1. pc[q] = "modput" => turn[q] # turn[p] /\ turn[q] \in {2, 3}
        BY <1>1, <2>2, <3>1 DEF MountInv, AloneInv, ProcInv
      <4>2. pc[q] = "modput" => Op(q) # Op(p)
        BY <1>2, <4>1, OpFacts, ListFacts DEF MountInv
      <4> QED BY <1>6, <3>1, <4>2, OpFacts DEF ProcInv
    <3> QED BY <1>1, <1>2, <1>5, <1>7, <2>2, <3>1, <3>2, <3>3 DEF ProcInv, Types, Op
  <2> QED BY <2>1, <2>2
<1> QED BY <1>4, <1>9, <1>10, <1>11 DEF MountInv

LEMMA GetCapStep ==
  ASSUME MountInv, NEW p \in Procs, GetCapRead(p) \/ GetCapWrite(p)
  PROVE  MountInv'
<1>1. Types'
  BY DEF MountInv, Types, GetCapRead, GetCapWrite, At, Becomes, Fail, Labels, servers, mine
<1>2. /\ pc[p] \in {"capread", "capwrite"} /\ UNCHANGED <<exists, lists, turn, orig>>
      /\ \A q \in Procs \ {p} : pc'[q] = pc[q]
      /\ pc'[p] \in {"failed", "capwrite", "mounted"}
  BY DEF MountInv, Types, GetCapRead, GetCapWrite, At, Becomes, Fail, servers, mine
<1>3. (\A i \in 1..3 : Made(i)' = Made(i)) => ProcInv(p)'
  BY <1>2 DEF MountInv, ProcInv, Past, Granted
<1> QED BY <1>1, <1>2, <1>3, QuietStep
-----------------------------------------------------------------------------
(* The invariant, and what mounted processes may do.                       *)

LEMMA SameInv ==
  ASSUME MountInv, UNCHANGED <<exists, lists, pc, turn, orig, modaclKey, since>>, svcKey' \in Nat
  PROVE  MountInv'
<1>1. \A i \in 1..3 : Made(i)' = Made(i)
  BY DEF Made
<1>2. ListsInv'
  BY <1>1 DEF MountInv, ListsInv, Modifies
<1>3. AloneInv' /\ Types'
  BY DEF MountInv, AloneInv, Types
<1>4. ASSUME NEW p \in Procs PROVE ProcInv(p)'
  BY <1>1 DEF MountInv, Types, ProcInv, Op
<1> QED BY <1>2, <1>3, <1>4 DEF MountInv

LEMMA NextInv ==
  ASSUME ~Midway, MountInv, [MountNext]_mountVars
  PROVE  MountInv'
<1>1. CASE UNCHANGED mountVars
  BY <1>1, SameInv DEF mountVars, servers, mine, MountInv, Types
<1>2. ASSUME NEW p \in Procs, BeginMount(p) \/ End(p) PROVE MountInv'
  BY <1>2, EarlyStep
<1>3. ASSUME NEW p \in Procs, Proceed(p) PROVE MountInv'
  BY <1>3, EarlyStep, PutContainerStep, PutAclStep, GetModAclCapStep, ModBeginStep,
     ModGetStep, ModDelStep, ModPutStep, GetCapStep DEF Proceed
<1>4. CASE Restart
  <2>1. pc' = pc
    BY <1>4 DEF Restart, MountInv, Types
  <2> QED BY <1>4, <2>1, SameInv DEF Restart, mine, MountInv, Types
<1> QED BY <1>1, <1>2, <1>3, <1>4 DEF MountNext

\* A server that is not stopped in the middle of a request lets whoever has mounted the
\* file system stay on the lists to read and to write it, whatever other processes create,
\* delete and put (create_container and mod_acl of authr_db_access.c).
THEOREM MountsStayAllowed ==
  ASSUME ~Midway
  PROVE  MountSpec => []MountedHasAccess
<1>1. MountInit => MountInv
  BY InitInv DEF SerialInv
<1>2. MountInv /\ [MountNext]_mountVars => MountInv'
  BY NextInv
<1>3. MountInv => MountedHasAccess
  <2> SUFFICES ASSUME MountInv, NEW p \in Procs, pc[p] = "mounted"
               PROVE  Uid(p) \in Allowed("READ") /\ Uid(p) \in Allowed("WRITE")
    BY DEF MountedHasAccess
  <2>1. /\ Made(1) /\ Made(2) /\ Made(3) /\ lists["MODACL"] = {Uid(p)}
        /\ lists["WRITE"] \in {NoAcl, {Uid(p)}}
    BY DEF MountInv, ProcInv, Past, Granted
  <2>2. ASSUME NEW q \in Procs, NEW o, pc[q] = "modput", Op(q) = o, lists[o] = NoAcl
        PROVE  Uid(p) \in Allowed(o)
    <3>1. Uid(q) = Uid(p)
      BY <2>1, <2>2, ModFacts
    <3>2. q \in {r \in Procs : pc[r] = "modput" /\ Op(r) = o}
      BY <2>2
    <3> QED BY <2>2, <3>1, <3>2 DEF Allowed
  <2>3. {Uid(p)} # NoAcl
    BY MountAssumption, UidFacts
  <2>4. Uid(p) \in Allowed("READ")
    <3>1. CASE lists["READ"] = lists["MODACL"]
      BY <2>1, <2>3, <3>1 DEF Allowed
    <3>2. CASE lists["READ"] = NoAcl /\ \E q \in Procs : Modifies(q, 2)
      BY <2>2, <3>2, OpFacts DEF Modifies, MountInv
    <3> QED BY <2>1, <3>1, <3>2 DEF MountInv, ListsInv
  <2>5. Uid(p) \in Allowed("WRITE")
    <3>1. CASE lists["WRITE"] = {Uid(p)}
      BY <2>3, <3>1 DEF Allowed
    <3>2. CASE lists["WRITE"] = NoAcl
      <4>1. \E q \in Procs : Modifies(q, 3)
        BY <2>1, <2>3, <3>2, MountAssumption DEF MountInv, ListsInv
      <4> QED BY <2>2, <3>2, <4>1, OpFacts DEF Modifies, MountInv
    <3> QED BY <2>1, <3>1, <3>2
  <2> QED BY <2>4, <2>5
<1> QED BY <1>1, <1>2, <1>3, PTL DEF MountSpec
-----------------------------------------------------------------------------
(* Servers without threads, and the first try.                             *)

\* The steps of one process, seen from the others.
LEMMA OthersStay ==
  ASSUME MountInv, NEW p \in Procs, BeginMount(p) \/ Proceed(p) \/ End(p)
  PROVE  /\ \A q \in Procs \ {p} : pc'[q] = pc[q] /\ since'[q] = since[q]
                                   /\ modaclKey'[q] = modaclKey[q]
         /\ UNCHANGED <<threaded, svcKey>>
BY DEF Proceed, BeginMount, PutNamespace, PutInode, GetNamespace, PutContainer, PutAcl,
       GetModAclCap, ModBegin, ModGet, ModDel, ModPut, GetCapRead, GetCapWrite, End, At, Becomes,
       Fail, MountInv, Types, servers, mine

LEMMA NamingStep ==
  ASSUME MountInv, NamingInv, NEW p \in Procs, BeginMount(p) \/ Proceed(p) \/ End(p)
  PROVE  NamingInv'
<1>1. \A q \in Procs \ {p} : pc'[q] = pc[q]
  BY OthersStay
<1>2. CASE PutNamespace(p) \/ PutInode(p)
  BY <1>1, <1>2 DEF PutNamespace, PutInode, At, Becomes, MountInv, Types, NamingInv
<1>3. CASE BeginMount(p) \/ GetNamespace(p) \/ End(p)
  BY <1>1, <1>3 DEF BeginMount, GetNamespace, End, At, Becomes, Fail, MountInv, Types,
     NamingInv, servers, InNaming
<1>4. CASE \/ PutContainer(p) \/ PutAcl(p) \/ GetModAclCap(p) \/ ModBegin(p) \/ ModGet(p)
           \/ ModDel(p) \/ ModPut(p) \/ GetCapRead(p) \/ GetCapWrite(p)
  <2>1. /\ pc[p] \notin {"nsinode", "find"} /\ pc'[p] \notin {"nsinode", "find"}
        /\ UNCHANGED <<entry, inode>>
    BY <1>4 DEF PutContainer, PutAcl, GetModAclCap, ModBegin, ModGet, ModDel, ModPut,
         GetCapRead, GetCapWrite, At, Becomes, Fail, MountInv, Types, servers
  <2> QED BY <1>1, <2>1 DEF NamingInv
<1> QED BY <1>2, <1>3, <1>4 DEF Proceed

\* A request enters a server without threads when it serves no other one.
LEMMA OneRequestStep ==
  ASSUME MountInv, OneRequest, NEW p \in Procs, BeginMount(p) \/ Proceed(p) \/ End(p)
  PROVE  OneRequest'
<1>1. (\A q \in Procs \ {p} : pc'[q] = pc[q]) /\ threaded' = threaded
  BY OthersStay
<1>2. CASE BeginMount(p) \/ End(p) \/ PutNamespace(p) \/ PutInode(p) \/ GetNamespace(p)
  <2>1. pc'[p] \notin InAuthr
    BY <1>2 DEF BeginMount, End, PutNamespace, PutInode, GetNamespace, At, Becomes, Fail,
       InAuthr, MountInv,
         Types
  <2> QED BY <1>1, <2>1 DEF OneRequest
<1>3. CASE \/ PutContainer(p) \/ PutAcl(p) \/ GetModAclCap(p) \/ ModBegin(p) \/ ModGet(p)
           \/ ModDel(p) \/ ModPut(p) \/ GetCapRead(p) \/ GetCapWrite(p)
  <2>1. threaded \/ \A q \in Procs \ {p} : pc[q] \notin InAuthr
    BY <1>3 DEF PutContainer, PutAcl, GetModAclCap, ModBegin, ModGet, ModDel, ModPut,
         GetCapRead, GetCapWrite, At, AtNaming
  <2> QED BY <1>1, <2>1 DEF OneRequest
<1> QED BY <1>2, <1>3 DEF Proceed

\* The list of who may change lists, once there, stays as it is.
LEMMA ModAclStays ==
  ASSUME MountInv, NEW p \in Procs, BeginMount(p) \/ Proceed(p) \/ End(p), lists["MODACL"] # NoAcl
  PROVE  lists'["MODACL"] = lists["MODACL"]
<1>1. CASE PutAcl(p)
  <2>1. pc[p] = "putacl" /\ ProcInv(p)
    BY <1>1 DEF PutAcl, At, MountInv
  <2>2. turn[p] # 1
    BY <2>1, ListFacts DEF MountInv, ListsInv, Made
  <2>3. Op(p) # "MODACL"
    BY <2>2, OpFacts DEF MountInv, Types
  <2> QED BY <1>1, <2>3, ListFacts DEF PutAcl, MountInv, Types
<1>2. CASE ModDel(p) \/ ModPut(p)
  <2>1. Op(p) # "MODACL"
    BY <1>2, ModFacts DEF ModDel, ModPut, At
  <2> QED BY <1>2, <2>1, ListFacts DEF ModDel, ModPut, MountInv, Types
<1>3. CASE \/ BeginMount(p) \/ PutNamespace(p) \/ PutInode(p) \/ GetNamespace(p) \/ PutContainer(p)
           \/ GetModAclCap(p) \/ ModBegin(p) \/ ModGet(p) \/ GetCapRead(p) \/ GetCapWrite(p)
           \/ End(p)
  BY <1>3 DEF BeginMount, PutNamespace, PutInode, GetNamespace, PutContainer, GetModAclCap,
       ModBegin, ModGet, GetCapRead, GetCapWrite, End, servers
<1> QED BY <1>1, <1>2, <1>3 DEF Proceed

\* What a request finds at a server without threads: nothing half done.
LEMMA FindsAll ==
  ASSUME SerialInv, ~threaded, NEW p \in Procs
  PROVE  /\ GetNamespace(p) => inode
         /\ pc[p] = "capmodacl" /\ At(p, "capmodacl") => \E u \in Users : lists["MODACL"] = {u}
         /\ pc[p] = "modacl" => OnList(p, "MODACL")
         /\ pc[p] \in {"modget", "moddel"} => lists[Op(p)] # NoAcl
         /\ pc[p] \in {"capread", "capwrite"} /\ At(p, pc[p])
              => OnList(p, "READ") /\ OnList(p, "WRITE")
<1> MountInv
  BY DEF SerialInv
<1>1. GetNamespace(p) => inode
  <2> SUFFICES ASSUME GetNamespace(p), ~inode PROVE FALSE
    OBVIOUS
  <2>1. \E q \in Procs : pc[q] = "nsinode"
    BY DEF GetNamespace, At, SerialInv, NamingInv
  <2> QED BY <2>1 DEF GetNamespace, At, AtNaming, InNaming
<1>2. \A u \in Users : {u} # NoAcl /\ {} # NoAcl
  BY MountAssumption
<1>3. ASSUME pc[p] = "capmodacl", At(p, "capmodacl")
      PROVE  \E u \in Users : lists["MODACL"] = {u}
  <2>1. exists
    BY <1>3 DEF SerialInv, KeyInv
  <2>2. \A q \in Procs : pc[q] # "putacl"
    BY <1>3 DEF At, AtNaming, InAuthr
  <2> QED BY <2>1, <2>2 DEF Made, MountInv, ListsInv
<1>4. pc[p] = "modacl" => OnList(p, "MODACL")
  BY <1>2, UidFacts DEF MountInv, ProcInv, Past, OnList
<1>5. ASSUME pc[p] \in {"modget", "moddel"} PROVE lists[Op(p)] # NoAcl
  <2>1. \A q \in Procs : pc[q] \notin {"modput", "putacl"}
    BY <1>5 DEF SerialInv, OneRequest, InAuthr
  <2>2. exists /\ lists["MODACL"] = {Uid(p)} /\ turn[p] \in {2, 3}
    BY <1>5 DEF MountInv, ProcInv, Past, Made
  <2>3. Made(2) /\ Made(3)
    BY <2>1, <2>2 DEF Made
  <2> QED BY <1>2, <2>1, <2>2, <2>3, OpFacts, UidFacts DEF MountInv, ListsInv, Modifies
<1>6. ASSUME pc[p] \in {"capread", "capwrite"}, At(p, pc[p])
      PROVE  OnList(p, "READ") /\ OnList(p, "WRITE")
  <2>1. \A q \in Procs : pc[q] # "modput"
    BY <1>6 DEF At, AtNaming, InAuthr
  <2>2. Made(2) /\ Made(3) /\ lists["MODACL"] = {Uid(p)} /\ lists["WRITE"] \in {NoAcl, {Uid(p)}}
    BY <1>6 DEF MountInv, ProcInv, Past, Granted
  <2> QED BY <1>2, <2>1, <2>2, UidFacts DEF MountInv, ListsInv, Modifies, OnList
<1> QED BY <1>1, <1>3, <1>4, <1>5, <1>6

Excused(p) == (lists["MODACL"] # NoAcl /\ Uid(p) \notin lists["MODACL"]) \/ since[p] # svcKey

\* A mount of servers without threads fails only with an excuse.
LEMMA FailsExcused ==
  ASSUME SerialInv, ~threaded, NEW p \in Procs, Proceed(p), pc'[p] = "failed"
  PROVE  Excused(p)
<1> MountInv /\ KeyInv(p) /\ ProcInv(p)
  BY DEF SerialInv, MountInv
<1>1. CASE PutNamespace(p) \/ PutInode(p) \/ PutContainer(p) \/ PutAcl(p)
  BY <1>1 DEF PutNamespace, PutInode, PutContainer, PutAcl, At, Becomes, MountInv, Types
<1>2. CASE GetNamespace(p)
  BY <1>2, FindsAll DEF GetNamespace, Becomes, MountInv, Types
<1>3. CASE GetModAclCap(p)
  <2>1. ~OnList(p, "MODACL")
    BY <1>3 DEF GetModAclCap, Becomes, MountInv, Types
  <2>2. \E u \in Users : lists["MODACL"] = {u}
    BY <1>3, FindsAll DEF GetModAclCap, At
  <2> QED BY <2>1, <2>2, MountAssumption DEF OnList, Excused
<1>4. CASE ModBegin(p)
  <2>1. modaclKey[p] # svcKey
    BY <1>4, FindsAll DEF ModBegin, At, Becomes, MountInv, Types
  <2> QED BY <1>4, <2>1 DEF ModBegin, At, KeyInv, Excused, MountInv, Types
<1>5. CASE ModGet(p) \/ ModDel(p)
  BY <1>5, FindsAll DEF ModGet, ModDel, At, Becomes, MountInv, Types
<1>6. CASE ModPut(p)
  BY <1>6 DEF ModPut, At, Becomes, ProcInv, MountInv, Types
<1>7. CASE GetCapRead(p) \/ GetCapWrite(p)
  BY <1>7, FindsAll DEF GetCapRead, GetCapWrite, At, Becomes, MountInv, Types
<1> QED BY <1>1, <1>2, <1>3, <1>4, <1>5, <1>6, <1>7 DEF Proceed

LEMMA KeyStep ==
  ASSUME SerialInv, NEW p \in Procs, BeginMount(p) \/ Proceed(p) \/ End(p), NEW q \in Procs
  PROVE  KeyInv(q)'
<1> MountInv /\ KeyInv(q)
  BY DEF SerialInv
<1>1. exists => exists'
  BY DEF Proceed, BeginMount, PutNamespace, PutInode, GetNamespace, PutContainer, PutAcl,
       GetModAclCap, ModBegin, ModGet, ModDel, ModPut, GetCapRead, GetCapWrite, End, servers
<1>2. Excused(q) /\ since'[q] = since[q] => Excused(q)'
  BY ModAclStays, OthersStay DEF Excused
<1>3. CASE q # p
  BY <1>1, <1>2, <1>3, OthersStay DEF KeyInv, Excused
<1>4. CASE q = p
  <2>1. threaded' = threaded /\ svcKey' = svcKey
    BY OthersStay
  <2>2. CASE BeginMount(p)
    BY <1>4, <2>1, <2>2 DEF BeginMount, Becomes, KeyInv, MountInv, Types
  <2>3. CASE End(p)
    BY <1>4, <2>1, <2>3 DEF End, Becomes, KeyInv, MountInv, Types, mine
  <2>4. CASE Proceed(p)
    <3>1. since' = since
      BY <2>4 DEF Proceed, PutNamespace, PutInode, GetNamespace, PutContainer, PutAcl,
       GetModAclCap, ModBegin, ModGet, ModDel, ModPut, GetCapRead, GetCapWrite
    <3>2. pc'[p] = "modacl" => \/ modaclKey'[p] = svcKey
                                \/ (pc[p] = "modacl" /\ modaclKey' = modaclKey)
      BY <2>4 DEF Proceed, PutNamespace, PutInode, GetNamespace, PutContainer, PutAcl,
       GetModAclCap, ModBegin, ModGet, ModDel, ModPut, GetCapRead, GetCapWrite, At, Becomes, Fail,
       MountInv, Types
    <3>3. pc'[p] = "capmodacl" => exists'
      BY <2>4 DEF Proceed, PutNamespace, PutInode, GetNamespace, PutContainer, PutAcl,
       GetModAclCap, ModBegin, ModGet, ModDel, ModPut, GetCapRead, GetCapWrite, At, Becomes, Fail,
       MountInv, Types
    <3>4. ~threaded /\ pc'[p] = "failed" => Excused(p)'
      BY <1>2, <1>4, <2>4, <3>1, FailsExcused
    <3> QED BY <1>4, <2>1, <3>1, <3>2, <3>3, <3>4 DEF KeyInv, Excused, MountInv, Types
  <2> QED BY <2>2, <2>3, <2>4
<1> QED BY <1>3, <1>4

LEMMA SerialNext ==
  ASSUME ~Midway, SerialInv, [MountNext]_mountVars
  PROVE  SerialInv'
<1>1. MountInv'
  BY NextInv DEF SerialInv
<1>2. ASSUME NEW p \in Procs, BeginMount(p) \/ Proceed(p) \/ End(p) PROVE SerialInv'
  BY <1>1, <1>2, NamingStep, OneRequestStep, KeyStep DEF SerialInv
<1>3. CASE UNCHANGED mountVars
  BY <1>1, <1>3 DEF mountVars, servers, mine, SerialInv, NamingInv, OneRequest, KeyInv
<1>4. CASE Restart
  <2>1. pc' = pc /\ UNCHANGED <<threaded, entry, inode, exists, lists, modaclKey, since>>
    BY <1>4 DEF Restart, mine, SerialInv, MountInv, Types
  <2>2. svcKey' = svcKey + 1 /\ svcKey \in Nat /\ since \in [Procs -> Nat]
        /\ modaclKey \in [Procs -> Nat]
    BY <1>4 DEF Restart, SerialInv, MountInv, Types
  <2>3. ASSUME NEW p \in Procs PROVE KeyInv(p)'
    BY <2>1, <2>2 DEF SerialInv, KeyInv
  <2> QED BY <1>1, <2>1, <2>3 DEF SerialInv, NamingInv, OneRequest
<1> QED BY <1>2, <1>3, <1>4 DEF MountNext

\* With servers that have no threads and are not stopped in the middle of a request, the
\* first try of a user who may change the container's lists mounts the file system, however
\* far other processes have come (lwfs_connect of fs_lwfs.c).
THEOREM FirstTryIsEnough ==
  ASSUME ~Midway
  PROVE  MountSpec => []SerialFirstTryMounts
<1>1. MountInit => SerialInv
  BY InitInv
<1>2. SerialInv /\ [MountNext]_mountVars => SerialInv'
  BY SerialNext
<1>3. SerialInv => SerialFirstTryMounts
  <2> SUFFICES ASSUME SerialInv, ~threaded, NEW p \in Procs, pc[p] = "failed", since[p] = svcKey
               PROVE  Uid(p) \notin Allowed("MODACL")
    BY DEF SerialFirstTryMounts, FirstTryMounts
  <2> QED BY DEF SerialInv, KeyInv, Allowed
<1> QED BY <1>1, <1>2, <1>3, PTL DEF MountSpec

(***************************************************************************)
(* Files: where a process is in making a file or taking one apart.         *)
(***************************************************************************)

\* Where a process is within an operation: it makes a file, takes one apart, or goes by a
\* name.
Making == {"acl", "dso", "mo", "name"}
Removing == {"reload", "remove", "removeMo"}
Working == Making \cup Removing
Named == {"lookup", "again", "stat", "load", "container", "link", "unlink"} \cup Working
Places == {"idle", "io", "stopped", "overrun"} \cup Named

\* The names of a file, and its objects on the servers.
NamesOf(f) == {n \in Names : entries[n] = f}
HasObjects(f) == \A s \in Servers : files[f].dso[s].exists

\* A file and an operation have their fields, whatever the bytes are.
HasParts(f) ==
  /\ DOMAIN files[f] = {"acl", "dso", "mo", "links", "data"}
  /\ DOMAIN files[f].dso = Servers
  /\ \A s \in Servers : DOMAIN files[f].dso[s] = {"exists", "bytes"}

Shapes ==
  /\ \E n \in Nat : DOMAIN files = 1 .. n /\ files = [i \in 1 .. n |-> files[i]]
  /\ \A f \in DOMAIN files : HasParts(f)
  /\ DOMAIN entries = Names
  /\ \A n \in Names : entries[n] \in DOMAIN files \cup {0}
  /\ DOMAIN at = Clients /\ DOMAIN op = Clients
  /\ \A c \in Clients : DOMAIN op[c] = DOMAIN NoOp

\* The count of an inode, and what its names lead to.
FileInv(f) ==
  /\ IsFiniteSet(NamesOf(f)) /\ files[f].links = Cardinality(NamesOf(f))
  /\ NamesOf(f) # {} => Readable(f) /\ HasObjects(f)

\* A process makes a file that has no name yet, part after part, or takes one apart that has
\* no name any more.
WorkInv(c) ==
  LET f == op[c].file
  IN  /\ at[c] \in Places
      /\ at[c] \in Named => op[c].name \in Names
      /\ at[c] = "link" => op[c].new \in Names
      /\ at[c] \in Working => f \in DOMAIN files /\ NamesOf(f) = {}
      /\ at[c] \in {"dso", "remove"} => op[c].i \in Servers
      /\ at[c] \in {"dso", "mo", "name"} => files[f].acl
      /\ at[c] \in {"acl", "reload"} => op[c].i = 0
      /\ at[c] = "dso" => \A s \in Servers : s < op[c].i => files[f].dso[s].exists
      /\ at[c] \in {"acl", "dso"} => files[f].mo = 0
      /\ at[c] = "mo" => files[f].mo \in 0 .. 3
      /\ at[c] = "name" => files[f].mo = 4
      /\ at[c] \in {"mo", "name"} => HasObjects(f)

\* Nobody else works on a file that is being made.
Apart(c, d) ==
  at[c] \in Making /\ at[d] \in Working => op[c].file # op[d].file

FilesInv ==
  /\ Shapes
  /\ \A f \in DOMAIN files : FileInv(f)
  /\ \A c \in Clients : WorkInv(c)
  /\ \A c, d \in Clients : c # d => Apart(c, d)

-----------------------------------------------------------------------------
LEMMA FilesLead == FilesInv => EntryHasObjects
<1> SUFFICES ASSUME FilesInv, NEW f \in DOMAIN files
             PROVE  /\ files[f].links = Cardinality(NamesOf(f))
                    /\ files[f].links > 0 => Readable(f) /\ HasObjects(f)
  BY DEF EntryHasObjects, NamesOf, HasObjects
<1>1. FileInv(f)
  BY DEF FilesInv
<1>2. NamesOf(f) = {} => Cardinality(NamesOf(f)) = 0
  BY FS_EmptySet
<1> QED  BY <1>1, <1>2 DEF FileInv

\* Counting through the servers.
LEMMA ServersAre ==
  /\ ss_obj_count \in Nat \ {0} /\ 0 \in Servers
  /\ \A s \in Servers : s \in Nat /\ (s + 1 \in Servers \/ s + 1 = ss_obj_count)
  /\ \A i \in Servers, s \in Servers : s < i + 1 => s < i \/ s = i
  /\ \A i \in Servers, s \in Servers : i + 1 = ss_obj_count => s < i + 1
  /\ \A s \in Servers : ~(s < 0)
BY StripingAssumption DEF Servers

\* Nothing happens to the processes but c.
Moved(c) ==
  /\ DOMAIN at' = Clients /\ DOMAIN op' = Clients
  /\ DOMAIN op'[c] = DOMAIN NoOp
  /\ \A d \in Clients : d # c => at'[d] = at[d] /\ op'[d] = op[d]

\* A file has no name in the next state.
Nameless(f) == \A n \in Names : entries'[n] # f

\* The parts of a file stay.
Same(f) ==
  /\ files'[f].acl = files[f].acl /\ files'[f].mo = files[f].mo
  /\ files'[f].links = files[f].links
  /\ \A s \in Servers : files'[f].dso[s].exists = files[f].dso[s].exists
  /\ \A n \in Names : entries'[n] = f <=> entries[n] = f

LEMMA ServersStay == Servers' = Servers
BY DEF Servers

LEMMA SameFile ==
  ASSUME NEW f, Same(f), FileInv(f)
  PROVE  FileInv(f)'
<1>1. NamesOf(f)' = NamesOf(f)
  BY DEF Same, NamesOf
<1> QED  BY <1>1 DEF Same, FileInv, HasObjects, Readable, Servers

LEMMA SameWork ==
  ASSUME NEW d \in Clients, WorkInv(d), at'[d] = at[d], op'[d] = op[d],
         at[d] \in Making => Same(op[d].file),
         at[d] \in Working => Nameless(op[d].file) /\ op[d].file \in DOMAIN files'
  PROVE  WorkInv(d)'
BY DEF WorkInv, Same, NamesOf, Nameless, HasObjects, Servers, Working, Making, Removing, Named,
   Places

\* What is to be shown of a step.
LEMMA Frame ==
  ASSUME FilesInv, NEW c \in Clients, Moved(c),
         Shapes', \A f \in DOMAIN files' : FileInv(f)',
         DOMAIN files \subseteq DOMAIN files',
         WorkInv(c)',
         \A d \in Clients : d # c /\ at[d] \in Making => Same(op[d].file),
         \A d \in Clients : d # c /\ at[d] \in Working => Nameless(op[d].file),
         \A d \in Clients : d # c => (Apart(c, d) /\ Apart(d, c))'
  PROVE  FilesInv'
<1>1. \A d \in Clients : WorkInv(d)'
  <2> SUFFICES ASSUME NEW d \in Clients, d # c
               PROVE  WorkInv(d)'
    OBVIOUS
  <2>1. WorkInv(d) /\ at'[d] = at[d] /\ op'[d] = op[d]
    BY DEF FilesInv, Moved
  <2>2. at[d] \in Working => op[d].file \in DOMAIN files'
    BY <2>1 DEF WorkInv
  <2> QED  BY <2>1, <2>2, SameWork
<1>2. ASSUME NEW d \in Clients, NEW e \in Clients, d # e
      PROVE  Apart(d, e)'
  <2>1. CASE d = c \/ e = c
    BY <2>1, <1>2
  <2>2. CASE d # c /\ e # c
    BY <2>2, <1>2 DEF FilesInv, Moved, Apart
  <2> QED  BY <2>1, <2>2
<1> QED  BY <1>1, <1>2 DEF FilesInv

\* Steps that only move a process.
LEMMA FrameProc ==
  ASSUME FilesInv, NEW c \in Clients, Moved(c), UNCHANGED <<entries, files>>,
         WorkInv(c)',
         at'[c] \in Working => op'[c].file = op[c].file,
         at'[c] \in Making => at[c] \in Making,
         at'[c] \in Removing => at[c] \in Removing
  PROVE  FilesInv'
<1>1. Shapes'
  BY DEF FilesInv, Shapes, Moved, HasParts, Servers, NoOp
<1>2. \A f : Same(f)
  BY DEF Same, NamesOf
<1>3. \A f \in DOMAIN files' : FileInv(f)'
  BY <1>2, SameFile DEF FilesInv
<1>4. \A d \in Clients : d # c => (Apart(c, d) /\ Apart(d, c))'
  BY DEF FilesInv, Moved, Apart, Working
<1>5. \A d \in Clients : at[d] \in Working => Nameless(op[d].file)
  BY DEF FilesInv, WorkInv, NamesOf, Nameless
<1> QED  BY <1>1, <1>2, <1>3, <1>4, <1>5, Frame

-----------------------------------------------------------------------------
(***************************************************************************)
(* The steps that leave the files and their names alone.                   *)
(***************************************************************************)

\* Where a step leaves a process and its operation.
LEMMA Moves ==
  ASSUME FilesInv, NEW c \in Clients, NEW x, NEW o, at' = [at EXCEPT ![c] = x],
         op' = [op EXCEPT ![c] = o], DOMAIN o = DOMAIN NoOp
  PROVE  Moved(c) /\ at'[c] = x /\ op'[c] = o
BY DEF FilesInv, Shapes, Moved

LEMMA MovesOnly ==
  ASSUME FilesInv, NEW c \in Clients, NEW x, at' = [at EXCEPT ![c] = x], UNCHANGED op
  PROVE  Moved(c) /\ at'[c] = x /\ op'[c] = op[c]
BY DEF FilesInv, Shapes, Moved

LEMMA StaysAt ==
  ASSUME FilesInv, NEW c \in Clients, NEW o, op' = [op EXCEPT ![c] = o], UNCHANGED at,
         DOMAIN o = DOMAIN NoOp
  PROVE  Moved(c) /\ at'[c] = at[c] /\ op'[c] = o
BY DEF FilesInv, Shapes, Moved

LEMMA Stays ==
  ASSUME FilesInv, NEW c \in Clients, UNCHANGED <<at, op>>
  PROVE  Moved(c) /\ at'[c] = at[c] /\ op'[c] = op[c]
BY DEF FilesInv, Shapes, Moved

LEMMA Fields == ASSUME FilesInv, NEW c \in Clients PROVE DOMAIN op[c] = DOMAIN NoOp
BY DEF FilesInv, Shapes

\* The operation is over, or is one that works on no file.
LEMMA AtRest ==
  ASSUME FilesInv, NEW c \in Clients, Moved(c), UNCHANGED <<entries, files>>,
         at'[c] \in Places \ Working, at'[c] \in Named => op'[c].name \in Names,
         at'[c] = "link" => op'[c].new \in Names
  PROVE  FilesInv'
<1>1. WorkInv(c)'
  BY DEF WorkInv, Working, Making, Removing, Named, Places
<1> QED  BY <1>1, FrameProc DEF Working, Making, Removing

LEMMA Ended ==
  ASSUME FilesInv, NEW c \in Clients, Done(c), UNCHANGED <<entries, files>>
  PROVE  FilesInv'
<1>1. Moved(c) /\ at'[c] = "idle"
  BY Moves DEF Done, Goto, Set
<1> QED  BY <1>1, AtRest DEF Working, Making, Removing, Named, Places

LEMMA MoveSteps ==
  ASSUME FilesInv, NEW c \in Clients, UNCHANGED <<entries, files>>,
         \/ Begin(c) \/ Lookup(c) \/ LookupAgain(c) \/ Stat(c) \/ LoadMo(c)
         \/ CollideDso(c) \/ ReloadMo(c) \/ CallFails(c) \/ Crash(c)
  PROVE  FilesInv'
<1> USE DEF Goto, Set
<1>0. WorkInv(c) /\ DOMAIN op[c] = DOMAIN NoOp
  BY Fields DEF FilesInv
<1>1. CASE Begin(c)
  <2>1. PICK n \in Names :
          \/ Set(c, [NoOp EXCEPT !.kind = "open", !.name = n]) /\ Goto(c, "lookup")
          \/ Set(c, [NoOp EXCEPT !.kind = "unlink", !.name = n]) /\ Goto(c, "unlink")
          \/ /\ \E m \in Names, kind \in {"link", "rename"} \cap Ops :
                  Set(c, [NoOp EXCEPT !.kind = kind, !.name = n, !.new = m])
             /\ Goto(c, "link")
    BY <1>1, Zenon DEF Begin
  <2>2. CASE Set(c, [NoOp EXCEPT !.kind = "open", !.name = n]) /\ Goto(c, "lookup")
    <3> DEFINE o == [NoOp EXCEPT !.kind = "open", !.name = n]
    <3>1. DOMAIN o = DOMAIN NoOp /\ o.name = n
      BY DEF NoOp
    <3>2. Moved(c) /\ at'[c] = "lookup" /\ op'[c] = o
      BY <2>2, <3>1, Moves
    <3> QED  BY <3>1, <3>2, AtRest DEF Working, Making, Removing, Named, Places
  <2>3. CASE Set(c, [NoOp EXCEPT !.kind = "unlink", !.name = n]) /\ Goto(c, "unlink")
    <3> DEFINE o == [NoOp EXCEPT !.kind = "unlink", !.name = n]
    <3>1. DOMAIN o = DOMAIN NoOp /\ o.name = n
      BY DEF NoOp
    <3>2. Moved(c) /\ at'[c] = "unlink" /\ op'[c] = o
      BY <2>3, <3>1, Moves
    <3> QED  BY <3>1, <3>2, AtRest DEF Working, Making, Removing, Named, Places
  <2>4. ASSUME NEW m \in Names, NEW kind,
               Set(c, [NoOp EXCEPT !.kind = kind, !.name = n, !.new = m]), Goto(c, "link")
        PROVE  FilesInv'
    <3> DEFINE o == [NoOp EXCEPT !.kind = kind, !.name = n, !.new = m]
    <3>1. DOMAIN o = DOMAIN NoOp /\ o.name = n /\ o.new = m
      BY DEF NoOp
    <3>2. Moved(c) /\ at'[c] = "link" /\ op'[c] = o
      BY <2>4, <3>1, Moves
    <3> HIDE DEF o
    <3> QED  BY <3>1, <3>2, AtRest DEF Working, Making, Removing, Named, Places
  <2> QED  BY <2>1, <2>2, <2>3, <2>4, Zenon
<1>2. CASE Lookup(c)
  <2>1. op[c].name \in Names
    BY <1>0, <1>2 DEF Lookup, WorkInv, Named
  <2>2. CASE /\ Set(c, [op[c] EXCEPT !.file = entries[Name(c)], !.i = 0, !.size = 0])
             /\ Goto(c, "again")
    <3> DEFINE o == [op[c] EXCEPT !.file = entries[Name(c)], !.i = 0, !.size = 0]
    <3>1. DOMAIN o = DOMAIN NoOp /\ o.name = op[c].name
      BY <1>0 DEF NoOp
    <3>2. Moved(c) /\ at'[c] = "again" /\ op'[c] = o
      BY <2>2, <3>1, Moves, ZenonT(60)
    <3> QED  BY <2>1, <3>1, <3>2, AtRest DEF Working, Making, Removing, Named, Places
  <2>3. CASE Goto(c, "container") /\ UNCHANGED op
    <3>1. Moved(c) /\ at'[c] = "container" /\ op'[c] = op[c]
      BY <2>3, MovesOnly
    <3> QED  BY <2>1, <3>1, AtRest DEF Working, Making, Removing, Named, Places
  <2> QED  BY <1>2, <2>2, <2>3, Ended DEF Lookup
<1>3. CASE LookupAgain(c)
  <2>1. op[c].name \in Names
    BY <1>0, <1>3 DEF LookupAgain, WorkInv, Named
  <2>2. CASE Set(c, [op[c] EXCEPT !.other = entries[Name(c)]]) /\ Goto(c, "stat")
    <3> DEFINE o == [op[c] EXCEPT !.other = entries[Name(c)]]
    <3>1. DOMAIN o = DOMAIN NoOp /\ o.name = op[c].name
      BY <1>0 DEF NoOp
    <3>2. Moved(c) /\ at'[c] = "stat" /\ op'[c] = o
      BY <2>2, <3>1, Moves, ZenonT(60)
    <3> QED  BY <2>1, <3>1, <3>2, AtRest DEF Working, Making, Removing, Named, Places
  <2> QED  BY <1>3, <2>2, Ended DEF LookupAgain
<1>4. CASE Stat(c)
  <2>1. op[c].name \in Names /\ at[c] = "stat"
    BY <1>0, <1>4 DEF Stat, WorkInv, Named
  <2>2. ASSUME NEW i, NEW n, Set(c, [op[c] EXCEPT !.i = i, !.size = n]),
               Goto(c, "load") \/ UNCHANGED at
        PROVE  FilesInv'
    <3> DEFINE o == [op[c] EXCEPT !.i = i, !.size = n]
    <3>1. DOMAIN o = DOMAIN NoOp /\ o.name = op[c].name
      BY <1>0 DEF NoOp
    <3>0. op' = [op EXCEPT ![c] = o]
      BY <2>2
    <3> HIDE DEF o
    <3>2. Moved(c) /\ at'[c] \in {"load", "stat"} /\ op'[c] = o
      <4>1. CASE Goto(c, "load")
        BY <3>0, <3>1, <4>1, Moves
      <4>2. CASE UNCHANGED at
        BY <2>1, <3>0, <3>1, <4>2, StaysAt
      <4> QED  BY <2>2, <4>1, <4>2
    <3> QED  BY <2>1, <3>1, <3>2, AtRest DEF Working, Making, Removing, Named, Places
  <2> QED  BY <1>4, <2>2, Ended, Zenon DEF Stat
<1>5. CASE LoadMo(c)
  BY <1>5, Ended DEF LoadMo
<1>6. CASE CollideDso(c)
  <2> DEFINE o == [op[c] EXCEPT !.tries = @ + 1,
                                !.misses = IF op[c].tries + 1 < 3 THEN @ ELSE @ + 1]
  <2>1. /\ DOMAIN o = DOMAIN NoOp /\ o.name = op[c].name /\ o.file = op[c].file
        /\ o.i = op[c].i
    BY <1>0 DEF NoOp
  <2>2. /\ at[c] = "dso" /\ op' = [op EXCEPT ![c] = o]
        /\ UNCHANGED at \/ at' = [at EXCEPT ![c] = "lookup"]
    BY <1>6 DEF CollideDso
  <2> HIDE DEF o
  <2>3. CASE UNCHANGED at
    <3>2. Moved(c) /\ at'[c] = "dso" /\ op'[c] = o
      BY <2>1, <2>2, <2>3, StaysAt
    <3>3. WorkInv(c)'
      BY <1>0, <2>1, <2>2, <3>2
      DEF WorkInv, Working, Making, Removing, Named, Places, NamesOf, Servers
    <3> QED  BY <2>1, <2>2, <3>2, <3>3, FrameProc DEF Working, Making, Removing
  <2>4. CASE at' = [at EXCEPT ![c] = "lookup"]
    <3>0. op' = [op EXCEPT ![c] = o] /\ DOMAIN o = DOMAIN NoOp
      BY <2>1, <2>2
    <3>1. Moved(c) /\ at'[c] = "lookup" /\ op'[c] = o
      BY <2>4, <3>0, Moves, ZenonT(60)
    <3>2. op[c].name \in Names
      BY <1>0, <2>2 DEF WorkInv, Named, Working, Making
    <3> QED  BY <2>1, <3>1, <3>2, AtRest DEF Working, Making, Removing, Named, Places
  <2> QED  BY <2>2, <2>3, <2>4
<1>7. CASE ReloadMo(c)
  <2>2. CASE Goto(c, "remove") /\ UNCHANGED op
    <3>1. Moved(c) /\ at'[c] = "remove" /\ op'[c] = op[c] /\ at[c] = "reload"
      BY <1>7, <2>2, MovesOnly DEF ReloadMo
    <3>3. WorkInv(c)'
      BY <1>0, <3>1, ServersAre, ServersStay
      DEF WorkInv, Working, Making, Removing, Named, Places, NamesOf
    <3> QED  BY <3>1, <3>3, FrameProc DEF Working, Making, Removing
  <2> QED  BY <1>7, <2>2, Ended DEF ReloadMo
<1>8. CASE CallFails(c)
  <2>2. CASE at[c] = "remove" /\ Goto(c, "removeMo") /\ UNCHANGED op
    <3>1. Moved(c) /\ at'[c] = "removeMo" /\ op'[c] = op[c]
      BY <2>2, MovesOnly
    <3>3. WorkInv(c)'
      BY <1>0, <2>2, <3>1 DEF WorkInv, Working, Making, Removing, Named, Places, NamesOf
    <3> QED  BY <2>2, <3>1, <3>3, FrameProc DEF Working, Making, Removing
  <2> QED  BY <1>8, <2>2, Ended DEF CallFails
<1>9. CASE Crash(c)
  BY <1>9, Ended DEF Crash
<1> QED  BY <1>1, <1>2, <1>3, <1>4, <1>5, <1>6, <1>7, <1>8, <1>9

\* Reading and writing change no part of a file but its bytes.
LEMMA IoMoves ==
  ASSUME FilesInv, NEW c \in Clients,
         \/ Seek(c) \/ StartIo(c) \/ Overrun(c) \/ TransferWrite(c) \/ TransferRead(c)
         \/ TransferFails(c) \/ IoDone(c) \/ IoFails(c) \/ CloseFile(c)
  PROVE  /\ UNCHANGED entries /\ (UNCHANGED files \/ TransferWrite(c)) /\ Moved(c)
         /\ \/ UNCHANGED <<at, op>>
            \/ at'[c] \in Places \ Named
<1> USE DEF Goto, Set
<1>0. DOMAIN op[c] = DOMAIN NoOp
  BY Fields
<1>p. {"idle", "io", "stopped", "overrun"} \subseteq Places \ Named
  BY DEF Places, Named, Working, Making, Removing
<1>1. CASE Seek(c) \/ TransferWrite(c) \/ TransferRead(c) \/ TransferFails(c)
  <2>1. UNCHANGED <<entries, at, op>> /\ (UNCHANGED files \/ TransferWrite(c))
    BY <1>1, Zenon DEF Seek, TransferWrite, TransferRead, TransferFails
  <2> QED  BY <2>1, Stays, Zenon
<1>2. ASSUME NEW kind, NEW n, NEW ok, NEW x \in Places \ Named, BeginIo(c, kind, n, ok),
             Goto(c, x)
      PROVE  UNCHANGED <<entries, files>> /\ Moved(c) /\ at'[c] \in Places \ Named
  <2> DEFINE o == [NoOp EXCEPT !.kind = kind, !.no = ops + 1, !.count = n, !.ok = ok]
  <2>1. DOMAIN o = DOMAIN NoOp
    BY DEF NoOp
  <2>2. op' = [op EXCEPT ![c] = o] /\ UNCHANGED <<entries, files>>
    BY <1>2 DEF BeginIo
  <2> QED  BY <1>2, <2>1, <2>2, Moves
<1>3. CASE StartIo(c)
  <2>1. \E kind, n, ok : BeginIo(c, kind, n, ok) /\ Goto(c, "io")
    BY <1>3, Zenon DEF StartIo
  <2> QED  BY <2>1, <1>2, <1>p
<1>4. CASE Overrun(c)
  <2>1. BeginIo(c, "read", 0, TRUE) /\ Goto(c, "overrun")
    BY <1>4 DEF Overrun
  <2> QED  BY <2>1, <1>2, <1>p
<1>5. CASE IoDone(c)
  <2> DEFINE o == [op[c] EXCEPT !.kind = "ended"]
  <2>1. DOMAIN o = DOMAIN NoOp
    BY <1>0 DEF NoOp
  <2>2. Set(c, o) /\ Goto(c, "idle") /\ UNCHANGED <<entries, files>>
    BY <1>5 DEF IoDone
  <2> HIDE DEF o
  <2>3. Moved(c) /\ at'[c] = "idle"
    BY <2>1, <2>2, Moves
  <2> QED  BY <1>p, <2>2, <2>3
<1>6. CASE IoFails(c)
  <2>1. \E x \in {"idle", "stopped"} : Goto(c, x)
    BY <1>6 DEF IoFails
  <2>2. Set(c, NoOp) /\ UNCHANGED <<entries, files>>
    BY <1>6 DEF IoFails
  <2>3. Moved(c) /\ at'[c] \in {"idle", "stopped"}
    BY <2>1, <2>2, Moves
  <2> QED  BY <1>p, <2>2, <2>3
<1>7. CASE CloseFile(c)
  <2>1. Set(c, NoOp) /\ UNCHANGED <<entries, files, at>> /\ at[c] = "idle"
    BY <1>7 DEF CloseFile
  <2> QED  BY <1>p, <2>1, StaysAt
<1> QED  BY <1>1, <1>3, <1>4, <1>5, <1>6, <1>7

LEMMA BytesStored ==
  ASSUME FilesInv, NEW c \in Clients, TransferWrite(c)
  PROVE  DOMAIN files' = DOMAIN files /\ Shapes' /\ \A f \in DOMAIN files : Same(f)
<1>1. PICK r \in Ready(c) :
        LET new == SubSeq(buf[c], r.piece.buf + 1, r.piece.buf + r.piece.len)
        IN  /\ files' = [files EXCEPT
                 ![r.file].dso[r.piece.obj].bytes = Stored(@, r.piece.at, new),
                 ![r.file].data = Stored(@, r.off, new)]
            /\ UNCHANGED <<entries, at, op>>
  BY ZenonT(60) DEF TransferWrite
<1> DEFINE g == r.file
           b == r.piece.obj
           new == SubSeq(buf[c], r.piece.buf + 1, r.piece.buf + r.piece.len)
           bytes == Stored(files[g].dso[b].bytes, r.piece.at, new)
           middle == [files EXCEPT ![g].dso[b].bytes = bytes]
           data == Stored(middle[g].data, r.off, new)
<1>2. files' = [middle EXCEPT ![g].data = data]
  BY <1>1
<1> HIDE DEF g, b, bytes, data
<1>3. DOMAIN files' = DOMAIN files /\ files' = [f \in DOMAIN files |-> files'[f]]
  BY <1>2
<1>4. ASSUME NEW f \in DOMAIN files
      PROVE  /\ DOMAIN files'[f] = DOMAIN files[f]
             /\ files'[f].acl = files[f].acl /\ files'[f].mo = files[f].mo
             /\ files'[f].links = files[f].links
             /\ DOMAIN files'[f].dso = DOMAIN files[f].dso
             /\ \A s \in Servers : /\ DOMAIN files'[f].dso[s] = DOMAIN files[f].dso[s]
                                   /\ files'[f].dso[s].exists = files[f].dso[s].exists
  <2>1. HasParts(f)
    BY DEF FilesInv, Shapes
  <2>2. CASE f # g
    <3>1. files'[f] = files[f]
      BY <1>2, <2>2
    <3> QED  BY <3>1
  <2>3. CASE f = g
    <3> DEFINE dso == [files[f].dso EXCEPT ![b].bytes = bytes]
    <3>1. middle[f] = [files[f] EXCEPT !.dso = dso]
      BY <2>3
    <3>2. files'[f] = [middle[f] EXCEPT !.data = data]
      BY <1>2, <2>3
    <3>3. /\ DOMAIN dso = Servers
          /\ \A s \in Servers : /\ DOMAIN dso[s] = DOMAIN files[f].dso[s]
                                /\ dso[s].exists = files[f].dso[s].exists
      BY <2>1, Zenon DEF HasParts
    <3> HIDE DEF dso, middle
    <3> QED  BY <2>1, <3>1, <3>2, <3>3 DEF HasParts
  <2> QED  BY <2>2, <2>3
<1>5. \A f \in DOMAIN files : Same(f)
  BY <1>1, <1>4, ZenonT(60) DEF Same, NamesOf
<1>6. \A f \in DOMAIN files : HasParts(f)'
  BY <1>4, ServersStay DEF FilesInv, Shapes, HasParts
<1>7. Shapes'
  BY <1>1, <1>3, <1>6, Zenon DEF FilesInv, Shapes, NoOp
<1> QED  BY <1>3, <1>5, <1>7, Zenon

LEMMA IoSteps ==
  ASSUME FilesInv, NEW c \in Clients,
         \/ Seek(c) \/ StartIo(c) \/ Overrun(c) \/ TransferWrite(c) \/ TransferRead(c)
         \/ TransferFails(c) \/ IoDone(c) \/ IoFails(c) \/ CloseFile(c)
  PROVE  FilesInv'
<1>0. /\ UNCHANGED entries /\ (UNCHANGED files \/ TransferWrite(c)) /\ Moved(c)
      /\ \/ UNCHANGED <<at, op>>
         \/ at'[c] \in Places \ Named
  BY IoMoves
<1>1. CASE UNCHANGED files
  <2>1. CASE UNCHANGED <<at, op>>
    <3>1. FilesInv' = FilesInv
      BY <1>0, <1>1, <2>1
      DEF FilesInv, Shapes, HasParts, FileInv, WorkInv, Apart, NamesOf, HasObjects, Readable,
          Servers,
          NoOp
    <3> QED  BY <3>1
  <2>2. CASE at'[c] \in Places \ Named
    BY <1>0, <1>1, <2>2, AtRest DEF Named
  <2> QED  BY <1>0, <2>1, <2>2
<1>2. CASE TransferWrite(c)
  <2>1. DOMAIN files' = DOMAIN files /\ Shapes' /\ \A f \in DOMAIN files : Same(f)
    BY <1>2, BytesStored, Zenon
  <2>2. at' = at /\ op' = op
    BY <1>2, Zenon DEF TransferWrite
  <2>3. \A f \in DOMAIN files' : FileInv(f)'
    BY <2>1, SameFile DEF FilesInv
  <2>4. \A d \in Clients :
          at[d] \in Working => /\ Same(op[d].file) /\ op[d].file \in DOMAIN files'
                              /\ Nameless(op[d].file)
    BY <2>1 DEF FilesInv, WorkInv, Same, NamesOf, Nameless
  <2>5. WorkInv(c)'
    BY <2>2, <2>4, SameWork DEF FilesInv, Working
  <2>6. \A d \in Clients : d # c => (Apart(c, d) /\ Apart(d, c))'
    BY <2>2 DEF FilesInv, Apart
  <2> QED  BY <1>0, <2>1, <2>3, <2>4, <2>5, <2>6, Frame DEF Working
<1> QED  BY <1>0, <1>1, <1>2

-----------------------------------------------------------------------------
(***************************************************************************)
(* The steps that change one file, and at most one name.                   *)
(***************************************************************************)

LEMMA Typed ==
  ASSUME FilesInv
  PROVE  /\ files \in Seq({files[f] : f \in DOMAIN files})
         /\ Len(files) \in Nat /\ DOMAIN files = 1 .. Len(files)
<1>1. PICK n \in Nat : DOMAIN files = 1 .. n /\ files = [i \in 1 .. n |-> files[i]]
  BY DEF FilesInv, Shapes
<1> DEFINE S == {files[f] : f \in DOMAIN files}
<1>2. files \in [1 .. n -> S]
  BY <1>1
<1> HIDE DEF S
<1>3. files \in Seq(S)
  BY <1>1, <1>2, SeqDef
<1>4. Len(files) \in Nat /\ DOMAIN files = 1 .. Len(files)
  BY <1>3
<1> QED  BY <1>3, <1>4 DEF S

\* A file that is changed, its names not.
LEMMA FrameFile ==
  ASSUME FilesInv, NEW c \in Clients, Moved(c), UNCHANGED entries,
         NEW g, NEW r, g \in DOMAIN files, op[c].file = g, at[c] \in Working,
         at'[c] \in Working => op'[c].file = g,
         files' = [files EXCEPT ![g] = r],
         DOMAIN r = DOMAIN files[g], DOMAIN r.dso = Servers,
         \A s \in Servers : DOMAIN r.dso[s] = {"exists", "bytes"},
         r.links = files[g].links,
         WorkInv(c)',
         at'[c] \in Making => at[c] \in Making
  PROVE  FilesInv'
<1>1. NamesOf(g) = {} /\ NamesOf(g)' = {}
  BY DEF FilesInv, WorkInv, NamesOf
<1>2. /\ DOMAIN files' = DOMAIN files /\ files'[g] = r
      /\ \A f \in DOMAIN files : f # g => files'[f] = files[f]
      /\ files' = [f \in DOMAIN files |-> files'[f]]
  OBVIOUS
<1>3. \A f \in DOMAIN files : HasParts(f)'
  BY <1>2, ServersStay DEF FilesInv, Shapes, HasParts
<1>4. Shapes'
  BY <1>2, <1>3, ZenonT(60) DEF FilesInv, Shapes, Moved, NoOp
<1>5. \A f \in DOMAIN files : f # g => Same(f)
  BY <1>2 DEF Same, NamesOf
<1>6. ASSUME NEW f \in DOMAIN files'
      PROVE  FileInv(f)'
  <2>1. FileInv(f)
    BY <1>2 DEF FilesInv
  <2>2. CASE f # g
    BY <1>2, <1>5, <2>1, <2>2, SameFile
  <2>3. CASE f = g
    <3>1. NamesOf(f)' = {} /\ NamesOf(f) = {} /\ files'[f].links = files[f].links
      BY <1>1, <1>2, <2>3
    <3> QED  BY <2>1, <3>1 DEF FileInv
  <2> QED  BY <2>2, <2>3
<1>7. \A d \in Clients : d # c /\ at[d] \in Working => Nameless(op[d].file)
  BY DEF FilesInv, WorkInv, NamesOf, Nameless
<1>8. \A d \in Clients : d # c /\ at[d] \in Making => op[d].file # g /\ op[d].file \in DOMAIN files
  BY DEF FilesInv, WorkInv, Apart, Working
<1>9. \A d \in Clients : d # c => (Apart(c, d) /\ Apart(d, c))'
  <2> SUFFICES ASSUME NEW d \in Clients, d # c
               PROVE  (Apart(c, d) /\ Apart(d, c))'
    OBVIOUS
  <2>1. Apart(c, d) /\ Apart(d, c) /\ at'[d] = at[d] /\ op'[d] = op[d]
    BY DEF FilesInv, Moved
  <2>2. at'[c] \in Making => at[c] \in Making /\ op'[c].file = op[c].file
    BY DEF Working
  <2>3. at'[c] \in Working => at[c] \in Working /\ op'[c].file = op[c].file
    OBVIOUS
  <2> QED  BY <2>1, <2>2, <2>3 DEF Apart
<1> QED  BY <1>2, <1>4, <1>5, <1>6, <1>7, <1>8, <1>9, Frame

\* Where a step of a process that works on a file ends.
LEMMA AtDso ==
  ASSUME NEW c \in Clients, NEW g, at'[c] = "dso", op'[c].file = g, op'[c].name \in Names,
         op'[c].i \in Servers, g \in DOMAIN files', Nameless(g),
         files'[g].acl, files'[g].mo = 0,
         \A s \in Servers : s < op'[c].i => files'[g].dso[s].exists
  PROVE  WorkInv(c)'
BY ServersStay
DEF WorkInv, Nameless, NamesOf, HasObjects, Places, Named, Working, Making, Removing

LEMMA AtMo ==
  ASSUME NEW c \in Clients, NEW g, at'[c] = "mo", op'[c].file = g, op'[c].name \in Names,
         g \in DOMAIN files', Nameless(g),
         files'[g].acl, files'[g].mo \in 0 .. 3, \A s \in Servers : files'[g].dso[s].exists
  PROVE  WorkInv(c)'
BY ServersStay
DEF WorkInv, Nameless, NamesOf, HasObjects, Places, Named, Working, Making, Removing

LEMMA AtName ==
  ASSUME NEW c \in Clients, NEW g, at'[c] = "name", op'[c].file = g, op'[c].name \in Names,
         g \in DOMAIN files', Nameless(g),
         files'[g].acl, files'[g].mo = 4, \A s \in Servers : files'[g].dso[s].exists
  PROVE  WorkInv(c)'
BY ServersStay
DEF WorkInv, Nameless, NamesOf, HasObjects, Places, Named, Working, Making, Removing

LEMMA AtRemoving ==
  ASSUME NEW c \in Clients, NEW g, at'[c] \in Removing, op'[c].file = g, op'[c].name \in Names,
         g \in DOMAIN files', Nameless(g), at'[c] = "reload" => op'[c].i = 0,
         at'[c] = "remove" => op'[c].i \in Servers
  PROVE  WorkInv(c)'
BY ServersStay
DEF WorkInv, Nameless, NamesOf, HasObjects, Places, Named, Working, Making, Removing

LEMMA FileSteps ==
  ASSUME FilesInv, NEW c \in Clients,
         CreateAcl(c) \/ CreateDso(c) \/ StoreMo(c) \/ RemoveDso(c) \/ RemoveMo(c)
  PROVE  FilesInv'
<1> USE DEF Goto, Set
<1> DEFINE g == op[c].file
           i == op[c].i
<1>0. /\ WorkInv(c) /\ DOMAIN op[c] = DOMAIN NoOp
      /\ g \in DOMAIN files /\ HasParts(g)
  BY Fields, Zenon DEF FilesInv, WorkInv, Shapes, CreateAcl, CreateDso, StoreMo, RemoveDso, RemoveMo,
     Working, Making, Removing
<1>w. /\ at[c] \in Working /\ UNCHANGED entries /\ g \in DOMAIN files /\ Nameless(g)
      /\ op[c].name \in Names
  BY <1>0 DEF WorkInv, Named, NamesOf, Nameless, CreateAcl, CreateDso, StoreMo, RemoveDso,
     RemoveMo, Working, Making, Removing
<1>1. CASE CreateAcl(c)
  <2> DEFINE r == [files[g] EXCEPT !.acl = TRUE]
  <2>1. /\ DOMAIN r = DOMAIN files[g] /\ r.dso = files[g].dso /\ r.links = files[g].links
        /\ r.acl /\ r.mo = files[g].mo
    BY <1>0 DEF HasParts
  <2>2. files' = [files EXCEPT ![g] = r] /\ at[c] = "acl"
    BY <1>1 DEF CreateAcl
  <2>3. Moved(c) /\ at'[c] = "dso" /\ op'[c] = op[c]
    BY <1>1, MovesOnly DEF CreateAcl
  <2> HIDE DEF r
  <2>4. WorkInv(c)'
    <3>1. files'[g] = r /\ DOMAIN files' = DOMAIN files
      BY <1>w, <2>2
    <3>2. files[g].mo = 0 /\ i = 0
      BY <1>0, <2>2 DEF WorkInv
    <3> QED  BY <1>w, <2>1, <2>3, <3>1, <3>2, ServersAre, AtDso
  <2>5. /\ DOMAIN r.dso = Servers /\ \A s \in Servers : DOMAIN r.dso[s] = {"exists", "bytes"}
        /\ op'[c].file = g /\ at[c] \in Making
    BY <1>0, <2>1, <2>2, <2>3 DEF HasParts, Making
  <2> QED  BY <1>w, <2>1, <2>2, <2>3, <2>4, <2>5, FrameFile
<1>2. CASE CreateDso(c)
  <2> DEFINE objs == [files[g].dso EXCEPT ![i] = Empty]
             r == [files[g] EXCEPT !.dso = objs]
             o == [op[c] EXCEPT !.i = @ + 1, !.tries = @ + 1]
  <2>1. /\ DOMAIN r = DOMAIN files[g] /\ r.dso = objs /\ r.links = files[g].links
        /\ r.acl = files[g].acl /\ r.mo = files[g].mo
    BY <1>0 DEF HasParts
  <2>2. at[c] = "dso" /\ i \in Servers
    BY <1>2, <1>0 DEF CreateDso, WorkInv
  <2>3. /\ DOMAIN objs = Servers
        /\ \A s \in Servers : /\ DOMAIN objs[s] = {"exists", "bytes"}
                              /\ s = i => objs[s].exists
                              /\ s # i => objs[s] = files[g].dso[s]
    BY <1>0, <2>2 DEF HasParts, Empty
  <2>4. files' = [files EXCEPT ![g] = r] /\ op' = [op EXCEPT ![c] = o]
    BY <1>2 DEF CreateDso
  <2>5. /\ DOMAIN o = DOMAIN NoOp /\ o.name = op[c].name /\ o.file = g /\ o.i = i + 1
    BY <1>0 DEF NoOp
  <2>6. IF i + 1 = ss_obj_count THEN at' = [at EXCEPT ![c] = "mo"] ELSE UNCHANGED at
    BY <1>2 DEF CreateDso
  <2> HIDE DEF r, objs, o
  <2>7. Moved(c) /\ at'[c] = (IF i + 1 = ss_obj_count THEN "mo" ELSE "dso") /\ op'[c] = o
    <3>1. CASE i + 1 = ss_obj_count
      BY <2>4, <2>5, <2>6, <3>1, Moves, ZenonT(60)
    <3>2. CASE i + 1 # ss_obj_count
      BY <2>2, <2>4, <2>5, <2>6, <3>2, StaysAt
    <3> QED  BY <3>1, <3>2
  <2>8. \A s \in Servers : s < i + 1 => objs[s].exists
    <3>1. \A s \in Servers : s < i => files[g].dso[s].exists
      BY <1>0, <2>2 DEF WorkInv
    <3>2. \A s \in Servers : s < i + 1 => s < i \/ s = i
      BY <2>2, ServersAre
    <3> SUFFICES ASSUME NEW s \in Servers, s < i + 1
                 PROVE  objs[s].exists
      OBVIOUS
    <3>3. CASE s = i
      BY <2>3, <3>3
    <3>4. CASE s # i
      <4>1. objs[s] = files[g].dso[s] /\ files[g].dso[s].exists
        BY <2>3, <3>1, <3>2, <3>4
      <4> QED  BY <4>1
    <3> QED  BY <3>3, <3>4
  <2>9. WorkInv(c)'
    <3>1. files'[g] = r /\ DOMAIN files' = DOMAIN files
      BY <1>0, <2>4
    <3>2. /\ op'[c].name = op[c].name /\ op'[c].file = g /\ op'[c].i = i + 1
      BY <2>5, <2>7
    <3>5. files[g].acl /\ files[g].mo = 0
      BY <1>0, <2>2 DEF WorkInv
    <3>3. CASE i + 1 = ss_obj_count
      <4>1. at'[c] = "mo" /\ \A s \in Servers : objs[s].exists
        BY <2>2, <2>7, <2>8, <3>3, ServersAre
      <4>2. files'[g].acl /\ files'[g].dso = objs
        BY <2>1, <3>1, <3>5
      <4>3. files'[g].mo = 0
        BY <2>1, <3>1, <3>5
      <4>4. files'[g].mo \in 0 .. 3
        BY <4>3
      <4> QED  BY <1>w, <3>1, <3>2, <4>1, <4>2, <4>4, AtMo
    <3>4. CASE i + 1 # ss_obj_count
      <4>1. at'[c] = "dso" /\ i + 1 \in Servers
        BY <2>2, <2>7, <3>4, ServersAre
      <4> QED  BY <1>w, <2>1, <2>8, <3>1, <3>2, <3>5, <4>1, AtDso
    <3> QED  BY <3>3, <3>4
  <2>10. op'[c].file = g /\ at[c] \in Making
    BY <2>2, <2>5, <2>7 DEF Making
  <2>11. DOMAIN r.dso = Servers /\ \A s \in Servers : DOMAIN r.dso[s] = {"exists", "bytes"}
    BY <2>1, <2>3
  <2> QED  BY <1>w, <2>1, <2>4, <2>7, <2>9, <2>10, <2>11, FrameFile
<1>3. CASE StoreMo(c)
  <2> DEFINE r == [files[g] EXCEPT !.mo = @ + 1]
  <2>1. /\ DOMAIN r = DOMAIN files[g] /\ r.dso = files[g].dso /\ r.links = files[g].links
        /\ r.acl = files[g].acl /\ r.mo = files[g].mo + 1
    BY <1>0 DEF HasParts
  <2>2. files' = [files EXCEPT ![g] = r] /\ at[c] = "mo" /\ UNCHANGED op
    BY <1>3 DEF StoreMo
  <2>3. IF files[g].mo = 3 THEN at' = [at EXCEPT ![c] = "name"] ELSE UNCHANGED at
    BY <1>3 DEF StoreMo
  <2> HIDE DEF r
  <2>4. Moved(c) /\ at'[c] = (IF files[g].mo = 3 THEN "name" ELSE "mo") /\ op'[c] = op[c]
    <3>1. CASE files[g].mo = 3
      BY <2>2, <2>3, <3>1, MovesOnly
    <3>2. CASE files[g].mo # 3
      BY <2>2, <2>3, <3>2, Stays
    <3> QED  BY <3>1, <3>2
  <2>5. WorkInv(c)'
    <3>1. files'[g] = r /\ DOMAIN files' = DOMAIN files
      BY <1>0, <2>2
    <3>2. files[g].mo \in 0 .. 3 /\ files[g].acl /\ HasObjects(g)
      BY <1>0, <2>2 DEF WorkInv
    <3>3. (\A s \in Servers : r.dso[s].exists) /\ r.acl
      BY <2>1, <3>2 DEF HasObjects
    <3>4. IF files[g].mo = 3 THEN r.mo = 4 ELSE r.mo \in 0 .. 3
      BY <2>1, <3>2
    <3>5. CASE files[g].mo = 3
      BY <1>w, <2>4, <3>1, <3>3, <3>4, <3>5, AtName
    <3>6. CASE files[g].mo # 3
      BY <1>w, <2>4, <3>1, <3>3, <3>4, <3>6, AtMo
    <3> QED  BY <3>5, <3>6
  <2>6. /\ DOMAIN r.dso = Servers /\ \A s \in Servers : DOMAIN r.dso[s] = {"exists", "bytes"}
        /\ op'[c].file = g /\ at[c] \in Making
    BY <1>0, <2>1, <2>2, <2>4 DEF HasParts, Making
  <2> QED  BY <1>w, <2>1, <2>2, <2>4, <2>5, <2>6, FrameFile
<1>4. CASE RemoveDso(c)
  <2> DEFINE objs == [files[g].dso EXCEPT ![i] = Gone]
             r == [files[g] EXCEPT !.dso = objs]
             o == [op[c] EXCEPT !.i = @ + 1]
  <2>1. DOMAIN r = DOMAIN files[g] /\ r.dso = objs /\ r.links = files[g].links
    BY <1>0 DEF HasParts
  <2>2. at[c] = "remove" /\ i \in Servers
    BY <1>4, <1>0 DEF RemoveDso, WorkInv
  <2>3. DOMAIN objs = Servers /\ \A s \in Servers : DOMAIN objs[s] = {"exists", "bytes"}
    BY <1>0, <2>2 DEF HasParts, Gone
  <2>4. files' = [files EXCEPT ![g] = r] /\ op' = [op EXCEPT ![c] = o]
    BY <1>4 DEF RemoveDso
  <2>5. /\ DOMAIN o = DOMAIN NoOp /\ o.name = op[c].name /\ o.file = g /\ o.i = i + 1
    BY <1>0 DEF NoOp
  <2>6. IF i + 1 = ss_obj_count THEN at' = [at EXCEPT ![c] = "removeMo"] ELSE UNCHANGED at
    BY <1>4 DEF RemoveDso
  <2> HIDE DEF r, objs, o
  <2>7. Moved(c) /\ at'[c] = (IF i + 1 = ss_obj_count THEN "removeMo" ELSE "remove") /\ op'[c] = o
    <3>1. CASE i + 1 = ss_obj_count
      BY <2>4, <2>5, <2>6, <3>1, Moves, ZenonT(60)
    <3>2. CASE i + 1 # ss_obj_count
      BY <2>2, <2>4, <2>5, <2>6, <3>2, StaysAt
    <3> QED  BY <3>1, <3>2
  <2>8. i + 1 # ss_obj_count => i + 1 \in Servers
    BY <2>2, ServersAre
  <2>9. WorkInv(c)'
    <3>1. DOMAIN files' = DOMAIN files
      BY <2>4
    <3>2. op'[c].name = op[c].name /\ op'[c].file = g /\ op'[c].i = i + 1
      BY <2>5, <2>7
    <3>3. at'[c] \in Removing /\ at'[c] # "reload" /\ (at'[c] = "remove" => op'[c].i \in Servers)
      BY <2>7, <2>8, <3>2 DEF Removing
    <3> QED  BY <1>w, <3>1, <3>2, <3>3, AtRemoving
  <2>10. op'[c].file = g /\ at'[c] \notin Making
    BY <2>5, <2>7 DEF Making
  <2>11. DOMAIN r.dso = Servers /\ \A s \in Servers : DOMAIN r.dso[s] = {"exists", "bytes"}
    BY <2>1, <2>3
  <2> QED  BY <1>w, <2>1, <2>4, <2>7, <2>9, <2>10, <2>11, FrameFile
<1>5. CASE RemoveMo(c)
  <2> DEFINE r == [files[g] EXCEPT !.mo = 0]
  <2>1. DOMAIN r = DOMAIN files[g] /\ r.dso = files[g].dso /\ r.links = files[g].links
    BY <1>0 DEF HasParts
  <2>2. files' = [files EXCEPT ![g] = r]
    BY <1>5 DEF RemoveMo
  <2>3. Moved(c) /\ at'[c] = "idle"
    BY <1>5, Moves DEF RemoveMo, Done
  <2> HIDE DEF r
  <2>4. WorkInv(c)' /\ at'[c] \notin Working
    BY <2>3 DEF WorkInv, Places, Named, Working, Making, Removing
  <2>5. DOMAIN r.dso = Servers /\ \A s \in Servers : DOMAIN r.dso[s] = {"exists", "bytes"}
    BY <1>0, <2>1 DEF HasParts
  <2> QED  BY <1>w, <2>1, <2>2, <2>3, <2>4, <2>5, FrameFile DEF Working
<1> QED  BY <1>1, <1>2, <1>3, <1>4, <1>5, Zenon

-----------------------------------------------------------------------------
(***************************************************************************)
(* A file is begun, and a name comes or goes.                              *)
(***************************************************************************)

\* The files with one more.
LEMMA Added ==
  ASSUME FilesInv, NEW g, g = Len(files) + 1, files' = Append(files, NewFile)
  PROVE  /\ g \in DOMAIN files' /\ g \notin DOMAIN files /\ g # 0
         /\ DOMAIN files' = DOMAIN files \cup {g}
         /\ files'[g] = NewFile /\ \A f \in DOMAIN files : files'[f] = files[f]
         /\ \E n \in Nat : DOMAIN files' = 1 .. n /\ files' = [i \in 1 .. n |-> files'[i]]
<1> DEFINE S == {files[f] : f \in DOMAIN files} \cup {NewFile}
<1>1. /\ files \in Seq({files[f] : f \in DOMAIN files})
      /\ Len(files) \in Nat /\ DOMAIN files = 1 .. Len(files)
  BY Typed
<1>2. files \in Seq(S)
  BY <1>1, SeqDef
<1>3. NewFile \in S
  OBVIOUS
<1> HIDE DEF S
<1>4. /\ files' \in Seq(S) /\ Len(files') = g
      /\ \A f \in 1 .. Len(files) : files'[f] = files[f]
      /\ files'[g] = NewFile
  BY <1>2, <1>3, AppendProperties
<1>5. DOMAIN files' = 1 .. g /\ files' = [f \in 1 .. g |-> files'[f]]
  BY <1>4, LenProperties
<1> QED  BY <1>1, <1>4, <1>5

LEMMA CreateContainerStep ==
  ASSUME FilesInv, NEW c \in Clients, CreateContainer(c)
  PROVE  FilesInv'
<1> USE DEF Goto, Set
<1>0. WorkInv(c) /\ at[c] = "container" /\ op[c].name \in Names /\ UNCHANGED entries
  BY DEF FilesInv, WorkInv, CreateContainer, Named
<1>1. PICK g : g = Len(files) + 1
  OBVIOUS
<1>2. /\ g \in DOMAIN files' /\ g \notin DOMAIN files /\ g # 0
      /\ DOMAIN files' = DOMAIN files \cup {g}
      /\ files'[g] = NewFile /\ \A f \in DOMAIN files : files'[f] = files[f]
      /\ \E n \in Nat : DOMAIN files' = 1 .. n /\ files' = [i \in 1 .. n |-> files'[i]]
  BY <1>1, Added DEF CreateContainer
<1> DEFINE o == [op[c] EXCEPT !.file = g, !.i = 0]
<1>3. DOMAIN o = DOMAIN NoOp /\ o.name = op[c].name /\ o.file = g /\ o.i = 0
  BY Fields DEF NoOp
<1>4. op' = [op EXCEPT ![c] = o] /\ at' = [at EXCEPT ![c] = "acl"]
  BY <1>1 DEF CreateContainer
<1> HIDE DEF o
<1>5. Moved(c) /\ at'[c] = "acl" /\ op'[c] = o
  BY <1>3, <1>4, Moves
<1>6. /\ DOMAIN NewFile = {"acl", "dso", "mo", "links", "data"} /\ DOMAIN NewFile.dso = Servers
      /\ \A s \in Servers : DOMAIN NewFile.dso[s] = {"exists", "bytes"}
      /\ NewFile.mo = 0 /\ NewFile.links = 0
  <2>1. /\ DOMAIN NewFile = {"acl", "dso", "mo", "links", "data"}
        /\ NewFile.dso = [s \in Servers |-> Gone] /\ NewFile.mo = 0 /\ NewFile.links = 0
    BY DEF NewFile
  <2> QED  BY <2>1 DEF Gone
<1>7. Nameless(g) /\ NamesOf(g)' = {}
  BY <1>0, <1>2 DEF FilesInv, Shapes, Nameless, NamesOf
<1>8. \A f \in DOMAIN files : Same(f)
  BY <1>0, <1>2 DEF Same
<1>9. Shapes'
  <2>1. \A f \in DOMAIN files' : HasParts(f)'
    <3>1. \A f \in DOMAIN files : HasParts(f)'
      BY <1>2, ServersStay DEF FilesInv, Shapes, HasParts
    <3>2. HasParts(g)'
      BY <1>2, <1>6, ServersStay DEF HasParts
    <3> QED  BY <1>2, <3>1, <3>2
  <2>2. DOMAIN entries = Names /\ \A n \in Names : entries[n] \in DOMAIN files \cup {0}
    BY DEF FilesInv, Shapes
  <2>3. \A d \in Clients : DOMAIN op'[d] = DOMAIN NoOp
    BY <1>5 DEF Moved, FilesInv, Shapes
  <2> QED  BY <1>0, <1>2, <1>5, <2>1, <2>2, <2>3 DEF Shapes, Moved, NoOp
<1>10. ASSUME NEW f \in DOMAIN files'
       PROVE  FileInv(f)'
  <2>1. CASE f = g
    <3>1. (NamesOf(f) = {})' /\ IsFiniteSet({}) /\ Cardinality({}) = 0 /\ files'[f].links = 0
      BY <1>2, <1>6, <1>7, <2>1, FS_EmptySet
    <3> QED  BY <3>1 DEF FileInv
  <2>2. CASE f # g
    BY <1>2, <1>8, <2>2, SameFile DEF FilesInv
  <2> QED  BY <2>1, <2>2
<1>11. WorkInv(c)'
  BY <1>0, <1>2, <1>3, <1>5, <1>6, <1>7 DEF WorkInv, Places, Named, Working, Making, Removing
<1>12. \A d \in Clients : at[d] \in Working => Nameless(op[d].file) /\ op[d].file \in DOMAIN files
  BY <1>0 DEF FilesInv, WorkInv, Nameless, NamesOf
<1>13. \A d \in Clients : d # c => (Apart(c, d) /\ Apart(d, c))'
  BY <1>2, <1>3, <1>5, <1>12 DEF Moved, Apart, Working
<1> QED  BY <1>2, <1>5, <1>8, <1>9, <1>10, <1>11, <1>12, <1>13, Frame DEF Working

\* A file gets a name that was free, or loses one.
LEMMA FrameName ==
  ASSUME FilesInv, NEW c \in Clients, Moved(c), NEW f \in DOMAIN files,
         NEW n \in Names, NEW e, NEW k,
         entries' = [entries EXCEPT ![n] = e], files' = [files EXCEPT ![f].links = k],
         entries[n] \in {0, f}, e \in {0, f},
         FileInv(f)', WorkInv(c)',
         \A d \in Clients : d # c /\ at[d] \in Working => op[d].file # f,
         at'[c] \notin Making, at'[c] \in Working => op'[c].file = f
  PROVE  FilesInv'
<1> DEFINE r == [files[f] EXCEPT !.links = k]
<1>1. HasParts(f) /\ 0 \notin DOMAIN files
  BY Typed DEF FilesInv, Shapes
<1>2. /\ DOMAIN r = DOMAIN files[f] /\ r.dso = files[f].dso /\ files' = [files EXCEPT ![f] = r]
  BY <1>1 DEF HasParts
<1> HIDE DEF r
<1>3. /\ DOMAIN files' = DOMAIN files /\ files'[f] = r
      /\ \A g \in DOMAIN files : g # f => files'[g] = files[g]
      /\ files' = [g \in DOMAIN files |-> files'[g]]
  BY <1>2
<1>4. /\ DOMAIN entries = Names /\ DOMAIN entries' = Names /\ entries'[n] = e
      /\ \A m \in Names : entries[m] \in DOMAIN files \cup {0}
      /\ \A m \in Names : m # n => entries'[m] = entries[m]
  BY DEF FilesInv, Shapes
<1>5. \A g \in DOMAIN files : g # f => Same(g)
  BY <1>1, <1>3, <1>4 DEF Same
<1>6. Shapes'
  <2>1. \A g \in DOMAIN files' : HasParts(g)'
    BY <1>1, <1>2, <1>3, ServersStay DEF FilesInv, Shapes, HasParts
  <2>2. \A m \in Names : entries'[m] \in DOMAIN files' \cup {0}
    BY <1>3, <1>4
  <2>3. \A d \in Clients : DOMAIN op'[d] = DOMAIN NoOp
    BY DEF Moved, FilesInv, Shapes
  <2>4. \E i \in Nat : DOMAIN files' = 1 .. i /\ files' = [j \in 1 .. i |-> files'[j]]
    BY <1>3 DEF FilesInv, Shapes
  <2> QED  BY <1>4, <2>1, <2>2, <2>3, <2>4 DEF Shapes, Moved, NoOp
<1>7. \A g \in DOMAIN files' : FileInv(g)'
  BY <1>3, <1>5, SameFile DEF FilesInv
<1>8. \A d \in Clients : d # c /\ at[d] \in Working =>
        /\ op[d].file \in DOMAIN files /\ op[d].file # f
        /\ Same(op[d].file) /\ Nameless(op[d].file)
  BY <1>5 DEF FilesInv, WorkInv, NamesOf, Same, Nameless
<1>9. \A d \in Clients : d # c => (Apart(c, d) /\ Apart(d, c))'
  BY <1>8 DEF Moved, Apart, Working
<1> QED  BY <1>3, <1>6, <1>7, <1>8, <1>9, Frame DEF Working

\* Changing the count changes nothing else of the file.
LEMMA Counted ==
  ASSUME FilesInv, NEW f \in DOMAIN files, NEW k, files' = [files EXCEPT ![f].links = k]
  PROVE  /\ DOMAIN files' = DOMAIN files /\ files'[f].links = k
         /\ files'[f].acl = files[f].acl /\ files'[f].mo = files[f].mo
         /\ files'[f].dso = files[f].dso
BY DEF FilesInv, Shapes, HasParts

LEMMA NameFileStep ==
  ASSUME FilesInv, NEW c \in Clients, NameFile(c)
  PROVE  FilesInv'
<1> USE DEF Goto, Set
<1>1. PICK f : f = op[c].file
  OBVIOUS
<1>2. PICK n : n = op[c].name
  OBVIOUS
<1>3. /\ WorkInv(c) /\ at[c] = "name" /\ n \in Names /\ f \in DOMAIN files /\ NamesOf(f) = {}
      /\ Readable(f) /\ HasObjects(f) /\ DOMAIN op[c] = DOMAIN NoOp
  BY <1>1, <1>2, Fields DEF FilesInv, WorkInv, NameFile, Named, Working, Making, Readable
<1>4. CASE entries[n] = 0
  <2>1. /\ entries' = [entries EXCEPT ![n] = f] /\ files' = [files EXCEPT ![f].links = 1]
        /\ Done(c)
    BY <1>1, <1>2, <1>4 DEF NameFile, Name
  <2>2. Moved(c) /\ at'[c] = "idle"
    BY <2>1, Moves DEF Done
  <2>3. FileInv(f)'
    <3>1. NamesOf(f)' = {n}
      BY <1>3, <2>1 DEF NamesOf, FilesInv, Shapes
    <3>2. IsFiniteSet({n}) /\ Cardinality({n}) = 1
      BY FS_Singleton
    <3>3. /\ files'[f].links = 1
          /\ files'[f].acl = files[f].acl /\ files'[f].mo = files[f].mo
          /\ files'[f].dso = files[f].dso
      BY <1>3, <2>1, Counted
    <3>4. Readable(f)' /\ HasObjects(f)'
      BY <1>3, <3>3, ServersStay DEF Readable, HasObjects
    <3> QED  BY <3>1, <3>2, <3>3, <3>4 DEF FileInv
  <2>4. WorkInv(c)' /\ at'[c] \notin Working
    BY <2>2 DEF WorkInv, Places, Named, Working, Making, Removing
  <2>5. \A d \in Clients : d # c /\ at[d] \in Working => op[d].file # f
    BY <1>1, <1>3 DEF FilesInv, Apart, Making
  <2> QED  BY <1>3, <1>4, <2>1, <2>2, <2>3, <2>4, <2>5, FrameName DEF Working
<1>5. CASE entries[n] # 0
  <2> DEFINE o == [op[c] EXCEPT !.misses = @ + 1]
  <2>1. /\ UNCHANGED <<entries, files>> /\ op' = [op EXCEPT ![c] = o]
        /\ IF op[c].misses + 1 < 3 THEN UNCHANGED at ELSE at' = [at EXCEPT ![c] = "lookup"]
    BY <1>1, <1>2, <1>5 DEF NameFile, Name
  <2>2. DOMAIN o = DOMAIN NoOp /\ o.name = op[c].name /\ o.file = op[c].file
    BY <1>3 DEF NoOp
  <2> HIDE DEF o
  <2>3. CASE UNCHANGED at
    <3>1. Moved(c) /\ at'[c] = "name" /\ op'[c] = o
      BY <1>3, <2>1, <2>2, <2>3, StaysAt
    <3>2. files'[f].acl /\ files'[f].mo = 4 /\ \A s \in Servers : files'[f].dso[s].exists
      BY <1>3, <2>1 DEF Readable, HasObjects
    <3>3. Nameless(f)
      BY <1>3, <2>1 DEF Nameless, NamesOf
    <3>4. WorkInv(c)'
      BY <1>1, <1>2, <1>3, <2>1, <2>2, <3>1, <3>2, <3>3, AtName
    <3> QED  BY <1>3, <2>1, <2>2, <3>1, <3>4, FrameProc DEF Making, Removing
  <2>4. CASE at' = [at EXCEPT ![c] = "lookup"]
    <3>1. Moved(c) /\ at'[c] = "lookup" /\ op'[c] = o
      BY <2>1, <2>2, <2>4, Moves
    <3>2. op'[c].name = n
      BY <1>2, <2>2, <3>1
    <3> QED  BY <1>3, <2>1, <3>1, <3>2, AtRest DEF Places, Named, Working, Making, Removing
  <2> QED  BY <2>1, <2>3, <2>4
<1> QED  BY <1>4, <1>5

LEMMA LinkStep ==
  ASSUME FilesInv, NEW c \in Clients, Link(c)
  PROVE  FilesInv'
<1> USE DEF Goto, Set
<1>1. PICK n : n = op[c].new
  OBVIOUS
<1>2. PICK f : f = entries[op[c].name]
  OBVIOUS
<1>3. WorkInv(c) /\ at[c] = "link" /\ n \in Names /\ op[c].name \in Names
  BY <1>1 DEF FilesInv, WorkInv, Link, Named
<1>4. CASE f # 0 /\ entries[n] = 0
  <2>1. /\ entries' = [entries EXCEPT ![n] = f]
        /\ files' = [files EXCEPT ![f].links = @ + 1]
        /\ IF op[c].kind = "rename" THEN Goto(c, "unlink") /\ UNCHANGED op ELSE Done(c)
    BY <1>1, <1>2, <1>4 DEF Link, Name
  <2>2. f \in DOMAIN files /\ op[c].name \in NamesOf(f) /\ n \notin NamesOf(f)
    BY <1>2, <1>3, <1>4 DEF FilesInv, Shapes, NamesOf
  <2>3. FileInv(f) /\ Readable(f) /\ HasObjects(f)
    BY <2>2 DEF FilesInv, FileInv
  <2>4. PICK k : k = files[f].links + 1
    OBVIOUS
  <2>5. files' = [files EXCEPT ![f].links = k]
    BY <2>1, <2>4
  <2>6. /\ Moved(c) /\ at'[c] \in {"unlink", "idle"}
        /\ at'[c] = "unlink" => op'[c].name \in Names
    <3>1. CASE Goto(c, "unlink") /\ UNCHANGED op
      BY <1>3, <3>1, MovesOnly
    <3>2. CASE Done(c)
      <4>1. Moved(c) /\ at'[c] = "idle"
        BY <3>2, Moves DEF Done
      <4> QED  BY <4>1
    <3> QED  BY <2>1, <3>1, <3>2
  <2>7. FileInv(f)'
    <3>1. NamesOf(f)' = NamesOf(f) \cup {n}
      BY <1>3, <2>1, <2>2 DEF NamesOf, FilesInv, Shapes
    <3>2. /\ IsFiniteSet(NamesOf(f) \cup {n})
          /\ Cardinality(NamesOf(f) \cup {n}) = Cardinality(NamesOf(f)) + 1
      BY <2>2, <2>3, FS_AddElement DEF FileInv
    <3>3. /\ files'[f].links = k
          /\ files'[f].acl = files[f].acl /\ files'[f].mo = files[f].mo
          /\ files'[f].dso = files[f].dso
      BY <2>2, <2>5, Counted
    <3>4. Readable(f)' /\ HasObjects(f)'
      BY <2>3, <3>3, ServersStay DEF Readable, HasObjects
    <3> QED  BY <2>3, <2>4, <3>1, <3>2, <3>3, <3>4 DEF FileInv
  <2>8. WorkInv(c)' /\ at'[c] \notin Working
    BY <2>6 DEF WorkInv, Places, Named, Working, Making, Removing
  <2>9. \A d \in Clients : d # c /\ at[d] \in Working => op[d].file # f
    BY <2>2 DEF FilesInv, WorkInv
  <2> QED  BY <1>3, <1>4, <2>1, <2>2, <2>5, <2>6, <2>7, <2>8, <2>9, FrameName DEF Working
<1>5. CASE ~(f # 0 /\ entries[n] = 0)
  <2>1. Done(c) /\ UNCHANGED <<entries, files>>
    BY <1>1, <1>2, <1>5 DEF Link, Name
  <2> QED  BY <2>1, Ended
<1> QED  BY <1>4, <1>5

LEMMA UnlinkStep ==
  ASSUME FilesInv, NEW c \in Clients, Unlink(c)
  PROVE  FilesInv'
<1> USE DEF Goto, Set
<1>1. PICK n : n = op[c].name
  OBVIOUS
<1>2. PICK f : f = entries[n]
  OBVIOUS
<1>3. WorkInv(c) /\ at[c] = "unlink" /\ n \in Names /\ DOMAIN op[c] = DOMAIN NoOp
  BY <1>1, Fields DEF FilesInv, WorkInv, Unlink, UnlinkIf, Named
<1>4. CASE f # 0
  <2> DEFINE o == [op[c] EXCEPT !.file = f, !.i = 0]
  <2>1. /\ entries' = [entries EXCEPT ![n] = 0]
        /\ files' = [files EXCEPT ![f].links = @ - 1]
        /\ IF files[f].links - 1 = 0 THEN op' = [op EXCEPT ![c] = o] /\ Goto(c, "reload")
           ELSE Done(c)
    BY <1>1, <1>2, <1>4 DEF Unlink, UnlinkIf, Name
  <2>2. f \in DOMAIN files /\ n \in NamesOf(f)
    BY <1>2, <1>3, <1>4 DEF FilesInv, Shapes, NamesOf
  <2>3. FileInv(f) /\ Readable(f) /\ HasObjects(f)
    BY <2>2 DEF FilesInv, FileInv
  <2>4. PICK k : k = files[f].links - 1
    OBVIOUS
  <2>5. files' = [files EXCEPT ![f].links = k]
    BY <2>1, <2>4
  <2>6. DOMAIN o = DOMAIN NoOp /\ o.file = f /\ o.name = n /\ o.i = 0
    BY <1>1, <1>3 DEF NoOp
  <2> HIDE DEF o
  <2>7. IF k = 0 THEN op' = [op EXCEPT ![c] = o] /\ Goto(c, "reload") ELSE Done(c)
    BY <2>1, <2>4
  <2>8. /\ Moved(c)
        /\ \/ k = 0 /\ at'[c] = "reload" /\ op'[c] = o
           \/ k # 0 /\ at'[c] = "idle"
    <3>1. CASE k = 0
      BY <2>6, <2>7, <3>1, Moves
    <3>2. CASE k # 0
      BY <2>7, <3>2, Moves DEF Done
    <3> QED  BY <3>1, <3>2
  <2>9. /\ NamesOf(f)' = NamesOf(f) \ {n} /\ IsFiniteSet(NamesOf(f)')
        /\ Cardinality(NamesOf(f)') = k /\ (k = 0 <=> NamesOf(f)' = {})
    <3>1. NamesOf(f)' = NamesOf(f) \ {n}
      BY <1>3, <1>4, <2>1, <2>2 DEF NamesOf, FilesInv, Shapes
    <3>2. /\ IsFiniteSet(NamesOf(f) \ {n})
          /\ Cardinality(NamesOf(f) \ {n}) = Cardinality(NamesOf(f)) - 1
      BY <2>2, <2>3, FS_RemoveElement DEF FileInv
    <3>3. Cardinality(NamesOf(f) \ {n}) = 0 <=> NamesOf(f) \ {n} = {}
      BY <3>2, FS_EmptySet
    <3> QED  BY <2>3, <2>4, <3>1, <3>2, <3>3 DEF FileInv
  <2>10. FileInv(f)'
    <3>1. /\ files'[f].links = k
          /\ files'[f].acl = files[f].acl /\ files'[f].mo = files[f].mo
          /\ files'[f].dso = files[f].dso
      BY <2>2, <2>5, Counted
    <3>2. Readable(f)' /\ HasObjects(f)'
      BY <2>3, <3>1, ServersStay DEF Readable, HasObjects
    <3> QED  BY <2>9, <3>1, <3>2 DEF FileInv
  <2>11. DOMAIN files' = DOMAIN files
    BY <2>2, <2>5, Counted
  <2>12. WorkInv(c)' /\ at'[c] \notin Making /\ (at'[c] \in Working => op'[c].file = f)
    <3>1. CASE k = 0
      <4>1. at'[c] = "reload" /\ op'[c].file = f /\ op'[c].name = n /\ op'[c].i = 0
        BY <2>6, <2>8, <3>1
      <4>2. Nameless(f)
        BY <2>9, <3>1 DEF NamesOf, Nameless
      <4>3. WorkInv(c)'
        BY <1>3, <2>2, <2>11, <4>1, <4>2, AtRemoving DEF Removing
      <4> QED  BY <4>1, <4>3 DEF Making
    <3>2. CASE k # 0
      BY <2>8, <3>2 DEF WorkInv, Places, Named, Working, Making, Removing
    <3> QED  BY <3>1, <3>2
  <2>13. \A d \in Clients : d # c /\ at[d] \in Working => op[d].file # f
    BY <2>2 DEF FilesInv, WorkInv
  <2> QED  BY <1>2, <1>3, <2>1, <2>2, <2>5, <2>8, <2>10, <2>12, <2>13, FrameName
<1>5. CASE f = 0
  <2>1. Done(c) /\ UNCHANGED <<entries, files>>
    BY <1>1, <1>2, <1>5 DEF Unlink, UnlinkIf, Name
  <2> QED  BY <2>1, Ended
<1> QED  BY <1>4, <1>5

-----------------------------------------------------------------------------
LEMMA FilesInit == Init => FilesInv
<1> SUFFICES ASSUME Init PROVE FilesInv
  OBVIOUS
<1>1. /\ DOMAIN OldFile = {"acl", "dso", "mo", "links", "data"}
      /\ OldFile.acl /\ OldFile.mo = 4 /\ OldFile.links = 1
      /\ DOMAIN OldFile.dso = Servers
      /\ \A s \in Servers : /\ DOMAIN OldFile.dso[s] = {"exists", "bytes"}
                            /\ OldFile.dso[s].exists
  BY DEF OldFile
<1>2. /\ \A n \in Names : entries[n] = IF n = Existing THEN 1 ELSE 0
      /\ DOMAIN entries = Names /\ DOMAIN at = Clients /\ DOMAIN op = Clients
      /\ \A c \in Clients : at[c] = "idle" /\ op[c] = NoOp
  BY DEF Init
<1>3. \A c \in Clients : WorkInv(c)
  BY <1>2 DEF WorkInv, Places, Named, Working, Making, Removing
<1>4. \A c, d \in Clients : Apart(c, d)
  BY <1>2 DEF Apart, Making
<1>5. CASE Existing \in Names
  <2>1. files = <<OldFile>>
    BY <1>5 DEF Init
  <2>2. DOMAIN files = 1 .. 1 /\ files[1] = OldFile /\ files = [i \in 1 .. 1 |-> files[i]]
    BY <2>1
  <2>3. Shapes
    <3>1. \A f \in DOMAIN files : HasParts(f)
      BY <1>1, <2>2 DEF HasParts
    <3>2. \A n \in Names : entries[n] \in DOMAIN files \cup {0}
      BY <1>2, <2>2
    <3> QED  BY <1>2, <2>2, <3>1, <3>2 DEF Shapes
  <2>4. FileInv(1)
    <3>1. NamesOf(1) = {Existing}
      BY <1>2, <1>5 DEF NamesOf
    <3>2. IsFiniteSet({Existing}) /\ Cardinality({Existing}) = 1
      BY FS_Singleton
    <3> QED  BY <1>1, <2>2, <3>1, <3>2 DEF FileInv, Readable, HasObjects
  <2>5. \A f \in DOMAIN files : FileInv(f)
    BY <2>2, <2>4
  <2> QED  BY <1>3, <1>4, <2>3, <2>5 DEF FilesInv
<1>6. CASE Existing \notin Names
  <2>1. files = <<>>
    BY <1>6 DEF Init
  <2>2. DOMAIN files = 1 .. 0 /\ DOMAIN files = {} /\ files = [i \in 1 .. 0 |-> files[i]]
    BY <2>1
  <2>3. Shapes
    <3>1. \A n \in Names : entries[n] \in DOMAIN files \cup {0}
      BY <1>2, <1>6
    <3> QED  BY <1>2, <2>2, <3>1 DEF Shapes
  <2> QED  BY <1>3, <1>4, <2>2, <2>3 DEF FilesInv
<1> QED  BY <1>5, <1>6

LEMMA FilesNext == FilesInv /\ [Next]_vars => FilesInv'
<1> SUFFICES ASSUME FilesInv, [Next]_vars PROVE FilesInv'
  OBVIOUS
<1>1. CASE UNCHANGED vars
  <2>1. FilesInv' = FilesInv
    BY <1>1
    DEF vars, FilesInv, Shapes, HasParts, FileInv, WorkInv, Apart, NamesOf, HasObjects, Readable,
        Servers, NoOp
  <2> QED  BY <2>1
<1>2. ASSUME NEW c \in Clients,
             \/ Begin(c) \/ Lookup(c) \/ LookupAgain(c) \/ Stat(c) \/ LoadMo(c)
             \/ CollideDso(c) \/ ReloadMo(c) \/ CallFails(c) \/ Crash(c)
      PROVE  FilesInv'
  <2>1. UNCHANGED <<entries, files>>
    BY <1>2, Zenon DEF Begin, Lookup, LookupAgain, Stat, LoadMo, CollideDso, ReloadMo, CallFails, Crash
  <2> QED  BY <1>2, <2>1, MoveSteps, Zenon
<1> QED  BY <1>1, <1>2, IoSteps, FileSteps, CreateContainerStep, NameFileStep, LinkStep,
            UnlinkStep DEF Next

\* Whatever fails, whoever races or stops, a name leads to a whole file, and a file counts
\* its names: create_file makes the list, the objects and the management object before the
\* name, and lwfs_inop_unlink takes them apart after the last name is gone.
THEOREM NamesLeadToFiles == Spec => []EntryHasObjects
<1> QED  BY FilesInit, FilesNext, FilesLead, PTL DEF Spec
-----------------------------------------------------------------------------
(***************************************************************************)
(* Where the bytes of a file lie.                                          *)
(***************************************************************************)

\* Division with remainder, and that it is unique.
LEMMA Divided ==
  ASSUME NEW a \in Nat, NEW n \in Nat \ {0}
  PROVE  /\ a \div n \in Nat /\ a % n \in 0 .. n - 1
         /\ a = (a \div n) * n + (a % n)
<1>1. a % n \in 0 .. n - 1
  OBVIOUS
<1>2. a \div n \in Int
  OBVIOUS
<1>3. a = n * (a \div n) + (a % n)
  OBVIOUS
<1>4. a \div n \in Nat
  BY <1>1, <1>2, <1>3
<1> QED  BY <1>1, <1>3, <1>4

\* Numbers go by their quotients first.
LEMMA Smaller ==
  ASSUME NEW n \in Nat \ {0}, NEW p \in Nat, NEW q \in Nat, p < q,
         NEW r \in 0 .. n - 1, NEW s \in 0 .. n - 1
  PROVE  p * n + r < q * n + s
<1>1. PICK d \in Nat : q = p + 1 + d
  <2>1. q - p - 1 \in Nat /\ q = p + 1 + (q - p - 1)
    OBVIOUS
  <2> QED  BY <2>1
<1>2. q * n = p * n + n + d * n
  BY <1>1
<1>3. d * n \in Nat /\ p * n \in Nat
  OBVIOUS
<1> QED  BY <1>2, <1>3

\* So a number has one quotient and one remainder.
LEMMA Unique ==
  ASSUME NEW n \in Nat \ {0}, NEW p \in Nat, NEW q \in Nat,
         NEW r \in 0 .. n - 1, NEW s \in 0 .. n - 1, p * n + r = q * n + s
  PROVE  p = q /\ r = s
<1>1. p * n + r \in Int /\ q * n + s \in Int /\ p * n \in Int
  OBVIOUS
<1>2. CASE p < q
  <2>1. p * n + r < q * n + s
    BY <1>2, Smaller
  <2> QED  BY <1>1, <2>1
<1>3. CASE q < p
  <2>1. q * n + s < p * n + r
    BY <1>3, Smaller
  <2> QED  BY <1>1, <2>1
<1>4. CASE p = q
  BY <1>1, <1>4
<1> QED  BY <1>2, <1>3, <1>4

\* Whatever the stripes, sso_calc_obj_index_offset gives no two bytes of a file one place:
\* a write at one byte never changes another.
THEOREM BytesKeepApart ==
  \A i, j \in Nat : ObjIndex(i) = ObjIndex(j) /\ ObjOffset(i) = ObjOffset(j) => i = j
<1> SUFFICES ASSUME NEW i \in Nat, NEW j \in Nat,
                    ObjIndex(i) = ObjIndex(j), ObjOffset(i) = ObjOffset(j)
             PROVE  i = j
  OBVIOUS
<1> DEFINE chunk(k) == k \div chunk_size
           stripe(k) == chunk(k) \div ss_obj_count
<1>1. \A k \in Nat : /\ chunk(k) \in Nat /\ k % chunk_size \in 0 .. chunk_size - 1
                     /\ k = chunk(k) * chunk_size + (k % chunk_size)
  BY Divided, StripingAssumption
<1>2. \A k \in Nat : /\ stripe(k) \in Nat
                     /\ chunk(k) = stripe(k) * ss_obj_count + ObjIndex(k)
  BY <1>1, Divided, StripingAssumption DEF ObjIndex
<1>3. \A k \in Nat : ObjOffset(k) = stripe(k) * chunk_size + (k % chunk_size)
  BY DEF ObjOffset
<1> HIDE DEF chunk, stripe
<1>4. stripe(i) = stripe(j) /\ i % chunk_size = j % chunk_size
  <2>1. stripe(i) * chunk_size + (i % chunk_size) = stripe(j) * chunk_size + (j % chunk_size)
    BY <1>3
  <2>2. stripe(i) \in Nat /\ stripe(j) \in Nat
    BY <1>2
  <2>3. i % chunk_size \in 0 .. chunk_size - 1 /\ j % chunk_size \in 0 .. chunk_size - 1
    BY <1>1
  <2> QED  BY <2>1, <2>2, <2>3, Unique, StripingAssumption
<1>5. chunk(i) = chunk(j)
  BY <1>2, <1>4
<1> QED  BY <1>1, <1>4, <1>5

\* And it leaves out no place: every place of every object is some byte's, so a file
\* without gaps fills its objects.
THEOREM EveryPlaceIsUsed ==
  \A s \in 0 .. ss_obj_count - 1, a \in Nat :
    \E i \in Nat : ObjIndex(i) = s /\ ObjOffset(i) = a
<1> SUFFICES ASSUME NEW s \in 0 .. ss_obj_count - 1, NEW a \in Nat
             PROVE  \E i \in Nat : ObjIndex(i) = s /\ ObjOffset(i) = a
  OBVIOUS
<1> DEFINE p == a \div chunk_size
           r == a % chunk_size
           q == p * ss_obj_count + s
           i == q * chunk_size + r
<1>1. p \in Nat /\ r \in 0 .. chunk_size - 1 /\ a = p * chunk_size + r
  BY Divided, StripingAssumption
<1> HIDE DEF p, r
<1>2. q \in Nat
  BY <1>1, StripingAssumption
<1>3. i \in Nat
  <2> HIDE DEF q
  <2> QED  BY <1>1, <1>2, StripingAssumption
<1>4. i \div chunk_size = q /\ i % chunk_size = r
  <2> HIDE DEF q
  <2>1. /\ i \div chunk_size \in Nat /\ i % chunk_size \in 0 .. chunk_size - 1
        /\ i = (i \div chunk_size) * chunk_size + (i % chunk_size)
    BY <1>3, Divided, StripingAssumption
  <2> QED  BY <1>1, <1>2, <2>1, Unique, StripingAssumption
<1>5. q \div ss_obj_count = p /\ q % ss_obj_count = s
  <2>1. /\ q \div ss_obj_count \in Nat /\ q % ss_obj_count \in 0 .. ss_obj_count - 1
        /\ q = (q \div ss_obj_count) * ss_obj_count + (q % ss_obj_count)
    BY <1>2, Divided, StripingAssumption
  <2> QED  BY <1>1, <2>1, Unique, StripingAssumption
<1> HIDE DEF i, q
<1>6. ObjIndex(i) = s /\ ObjOffset(i) = a
  BY <1>1, <1>4, <1>5 DEF ObjIndex, ObjOffset
<1> QED  BY <1>3, <1>6

-----------------------------------------------------------------------------
(***************************************************************************)
(* The bytes of a chunk, and what an object has of a file.                 *)
(***************************************************************************)

LEMMA Placed == \A i \in Nat : ObjIndex(i) \in Servers /\ ObjOffset(i) \in Nat
<1> SUFFICES ASSUME NEW i \in Nat PROVE ObjIndex(i) \in Servers /\ ObjOffset(i) \in Nat
  OBVIOUS
<1>1. i \div chunk_size \in Nat /\ i % chunk_size \in Nat
  BY Divided, StripingAssumption
<1>2. /\ (i \div chunk_size) % ss_obj_count \in Servers
      /\ (i \div chunk_size) \div ss_obj_count \in Nat
  BY <1>1, Divided, StripingAssumption DEF Servers
<1> DEFINE q == (i \div chunk_size) \div ss_obj_count
<1>3. q * chunk_size \in Nat
  <2> HIDE DEF q
  <2>1. q \in Nat
    BY <1>2 DEF q
  <2> QED  BY <2>1, StripingAssumption
<1> QED  BY <1>1, <1>2, <1>3 DEF ObjIndex, ObjOffset

\* A byte's number, from the stripe it is in, its object and its place in the chunk.
LEMMA Number ==
  ASSUME NEW i \in Nat
  PROVE  \E q, r \in Nat :
           /\ r < chunk_size /\ r = i % chunk_size
           /\ i = (q * ss_obj_count + ObjIndex(i)) * chunk_size + r
           /\ i \div chunk_size = q * ss_obj_count + ObjIndex(i)
           /\ ObjOffset(i) = q * chunk_size + r
<1> DEFINE d == i \div chunk_size
<1>1. d \in Nat /\ i % chunk_size \in 0 .. chunk_size - 1 /\ i = d * chunk_size + (i % chunk_size)
  BY Divided, StripingAssumption
<1> DEFINE q == d \div ss_obj_count
<1>2. q \in Nat /\ d = q * ss_obj_count + ObjIndex(i)
  <2> HIDE DEF d
  <2>1. q \in Nat /\ d = q * ss_obj_count + (d % ss_obj_count)
    BY <1>1, Divided, StripingAssumption
  <2> QED  BY <2>1 DEF ObjIndex, d
<1>3. ObjOffset(i) = q * chunk_size + (i % chunk_size)
  BY DEF ObjOffset
<1>4. i % chunk_size \in Nat /\ i % chunk_size < chunk_size
  BY <1>1, StripingAssumption
<1> HIDE DEF q, d
<1> QED  BY <1>1, <1>2, <1>3, <1>4 DEF d

\* Within a chunk the places follow one another.
LEMMA Runs ==
  ASSUME NEW off \in Nat, NEW d \in Nat, (off % chunk_size) + d < chunk_size
  PROVE  ObjIndex(off + d) = ObjIndex(off) /\ ObjOffset(off + d) = ObjOffset(off) + d
<1> DEFINE p == off \div chunk_size
           r == off % chunk_size
           e == off + d
           pe == e \div chunk_size
           re == e % chunk_size
<1>1. p \in Nat /\ r \in 0 .. chunk_size - 1 /\ off = p * chunk_size + r
  BY Divided, StripingAssumption
<1>2. pe \in Nat /\ re \in 0 .. chunk_size - 1 /\ e = pe * chunk_size + re
  <2>1. e \in Nat
    OBVIOUS
  <2> HIDE DEF e
  <2> QED  BY <2>1, Divided, StripingAssumption
<1>3. e = p * chunk_size + (r + d) /\ r + d \in 0 .. chunk_size - 1
  <2> HIDE DEF p
  <2>1. r + d \in 0 .. chunk_size - 1
    BY <1>1, StripingAssumption
  <2>2. p * chunk_size \in Nat
    BY <1>1, StripingAssumption
  <2> HIDE DEF r
  <2> QED  BY <1>1, <2>1, <2>2
<1> HIDE DEF p, r, pe, re, e
<1>4. pe = p /\ re = r + d
  BY <1>1, <1>2, <1>3, Unique, StripingAssumption
<1>5. ObjIndex(e) = ObjIndex(off)
  BY <1>4 DEF ObjIndex, p, pe
<1>6. ObjOffset(e) = ObjOffset(off) + d
  <2> DEFINE k == (p \div ss_obj_count) * chunk_size
  <2>1. p \div ss_obj_count \in Nat
    BY <1>1, Divided, StripingAssumption
  <2>2. k \in Nat
    BY <2>1, StripingAssumption
  <2>3. ObjOffset(off) = k + r /\ ObjOffset(e) = k + re
    BY <1>4 DEF ObjOffset, p, r, pe, re
  <2> HIDE DEF k
  <2> QED  BY <1>1, <1>4, <2>2, <2>3, StripingAssumption
<1> QED  BY <1>5, <1>6 DEF e

\* What a transfer covers in its object is what it covers in the file.
LEMMA Inside ==
  ASSUME NEW off \in Nat, NEW n \in Nat, (off % chunk_size) + n <= chunk_size, NEW i \in Nat
  PROVE  /\ \/ off <= i /\ i < off + n
            \/ /\ ObjIndex(i) = ObjIndex(off)
               /\ ObjOffset(off) <= ObjOffset(i) /\ ObjOffset(i) < ObjOffset(off) + n
         => /\ off <= i /\ i < off + n
            /\ ObjIndex(i) = ObjIndex(off) /\ ObjOffset(i) = ObjOffset(off) + (i - off)
<1>0. off % chunk_size \in Nat
  BY Divided, StripingAssumption
<1>1. ASSUME off <= i, i < off + n
      PROVE  ObjIndex(i) = ObjIndex(off) /\ ObjOffset(i) = ObjOffset(off) + (i - off)
  <2>1. i - off \in Nat /\ i = off + (i - off) /\ (off % chunk_size) + (i - off) < chunk_size
    BY <1>0, <1>1, StripingAssumption
  <2> QED  BY <2>1, Runs
<1>2. ASSUME ObjIndex(i) = ObjIndex(off), ObjOffset(off) <= ObjOffset(i),
             ObjOffset(i) < ObjOffset(off) + n
      PROVE  off <= i /\ i < off + n
  <2> DEFINE d == ObjOffset(i) - ObjOffset(off)
  <2>1. d \in Nat /\ d < n /\ ObjOffset(off) + d = ObjOffset(i)
    BY <1>2, Placed
  <2> HIDE DEF d
  <2>2. (off % chunk_size) + d < chunk_size
    BY <1>0, <2>1, StripingAssumption
  <2>3. ObjIndex(off + d) = ObjIndex(i) /\ ObjOffset(off + d) = ObjOffset(i)
    BY <1>2, <2>1, <2>2, Runs
  <2>4. off + d = i
    BY <2>1, <2>3, BytesKeepApart
  <2> QED  BY <2>1, <2>4
<1> QED  BY <1>1, <1>2

\* The bytes of an object are in the file's order.
LEMMA InOrder ==
  ASSUME NEW i \in Nat, NEW k \in Nat, ObjIndex(i) = ObjIndex(k), ObjOffset(i) < ObjOffset(k)
  PROVE  i < k
<1> DEFINE s == ObjIndex(i)
<1>0. s \in Nat /\ s \in 0 .. ss_obj_count - 1 /\ ObjIndex(k) = s
  BY Placed DEF Servers
<1>1. PICK p, r \in Nat : /\ r < chunk_size /\ i = (p * ss_obj_count + s) * chunk_size + r
                          /\ ObjOffset(i) = p * chunk_size + r
  BY Number
<1>2. PICK q, t \in Nat : /\ t < chunk_size /\ k = (q * ss_obj_count + s) * chunk_size + t
                          /\ ObjOffset(k) = q * chunk_size + t
  BY <1>0, Number
<1> HIDE DEF s
<1>3. r \in 0 .. chunk_size - 1 /\ t \in 0 .. chunk_size - 1
  BY <1>1, <1>2, StripingAssumption
<1>4. p <= q
  <2> SUFFICES ASSUME q < p PROVE FALSE
    OBVIOUS
  <2>1. q * chunk_size + t < p * chunk_size + r
    BY <1>3, Smaller, StripingAssumption
  <2>2. q * chunk_size + t \in Int /\ p * chunk_size + r \in Int
    BY StripingAssumption
  <2> QED  BY <1>1, <1>2, <2>1, <2>2
<1>5. CASE p < q
  <2>1. p * ss_obj_count + s < q * ss_obj_count + s
    BY <1>0, <1>5, Smaller, StripingAssumption
  <2>2. p * ss_obj_count + s \in Nat /\ q * ss_obj_count + s \in Nat
    BY <1>0, StripingAssumption
  <2> QED  BY <1>1, <1>2, <1>3, <2>1, <2>2, Smaller, StripingAssumption
<1>6. CASE p = q
  <2> DEFINE a == p * chunk_size
             b == (p * ss_obj_count + s) * chunk_size
  <2>1. a \in Nat /\ b \in Nat
    <3>1. p * ss_obj_count + s \in Nat
      BY <1>0, StripingAssumption
    <3> QED  BY <3>1, StripingAssumption
  <2>2. a + r < a + t /\ i = b + r /\ k = b + t
    BY <1>1, <1>2, <1>6
  <2> HIDE DEF a, b
  <2> QED  BY <2>1, <2>2
<1> QED  BY <1>4, <1>5, <1>6

Stripe == chunk_size * ss_obj_count

\* The bytes of a file of length len that are on the first k objects.
Prefix(k, len) == (len \div Stripe) * (chunk_size * k) + AtMost(k * chunk_size, len % Stripe)

LEMMA StripeIs == Stripe \in Nat \ {0}
BY StripingAssumption DEF Stripe

LEMMA PrefixIs ==
  ASSUME NEW len \in Nat, NEW k \in Nat
  PROVE  /\ len \div Stripe \in Nat /\ len % Stripe \in Nat
         /\ k * chunk_size \in Nat /\ (len \div Stripe) * (chunk_size * k) \in Nat
         /\ Prefix(k, len) \in Nat
<1>1. len \div Stripe \in Nat /\ len % Stripe \in Nat
  BY StripeIs, Divided
<1>2. k * chunk_size \in Nat /\ chunk_size * k \in Nat
  BY StripingAssumption
<1>3. (len \div Stripe) * (chunk_size * k) \in Nat
  <2> DEFINE a == len \div Stripe
             b == chunk_size * k
  <2> HIDE DEF a, b
  <2> SUFFICES a * b \in Nat
    BY DEF a, b
  <2>1. a \in Nat /\ b \in Nat
    BY <1>1, <1>2 DEF a, b
  <2> QED  BY <2>1
<1>4. AtMost(k * chunk_size, len % Stripe) \in Nat
  BY <1>1, <1>2 DEF AtMost
<1> QED  BY <1>1, <1>2, <1>3, <1>4 DEF Prefix

LEMMA PrefixEnds ==
  ASSUME NEW len \in Nat
  PROVE  Prefix(0, len) = 0 /\ Prefix(ss_obj_count, len) = len
<1>1. /\ len \div Stripe \in Nat /\ len % Stripe \in 0 .. Stripe - 1
      /\ len = (len \div Stripe) * Stripe + (len % Stripe)
  BY StripeIs, Divided
<1>2. ss_obj_count * chunk_size = Stripe /\ chunk_size * ss_obj_count = Stripe
  BY StripingAssumption DEF Stripe
<1> DEFINE q == len \div Stripe
           r == len % Stripe
<1>3. AtMost(0, r) = 0 /\ AtMost(Stripe, r) = r
  BY <1>1, StripeIs DEF AtMost
<1>4. q * 0 = 0 /\ chunk_size * 0 = 0 /\ 0 * chunk_size = 0
  BY <1>1, StripingAssumption
<1> HIDE DEF q, r
<1>5. Prefix(0, len) = 0
  BY <1>3, <1>4 DEF Prefix, q, r
<1>6. Prefix(ss_obj_count, len) = q * Stripe + r
  BY <1>2, <1>3 DEF Prefix, q, r
<1> QED  BY <1>1, <1>5, <1>6 DEF q, r

LEMMA PrefixGrows ==
  ASSUME NEW k \in Nat, NEW len \in Nat, NEW more \in Nat, len <= more
  PROVE  Prefix(k, len) <= Prefix(k, more)
<1> DEFINE p == len \div Stripe
           r == len % Stripe
           q == more \div Stripe
           t == more % Stripe
           u == chunk_size * k
           v == k * chunk_size
<1>1. p \in Nat /\ r \in 0 .. Stripe - 1 /\ len = p * Stripe + r
  BY StripeIs, Divided
<1>2. q \in Nat /\ t \in 0 .. Stripe - 1 /\ more = q * Stripe + t
  BY StripeIs, Divided
<1>3. u \in Nat /\ v \in Nat /\ u = v
  BY StripingAssumption
<1>4. Prefix(k, len) = p * u + AtMost(v, r) /\ Prefix(k, more) = q * u + AtMost(v, t)
  BY DEF Prefix
<1> HIDE DEF p, r, q, t, u, v
<1>5. p <= q
  <2> SUFFICES ASSUME q < p PROVE FALSE
    BY <1>1, <1>2
  <2>1. more < len
    BY <1>1, <1>2, Smaller, StripeIs
  <2> QED  BY <2>1
<1>6. CASE p = q
  <2> DEFINE a == p * Stripe
  <2>1. a \in Nat /\ len = a + r /\ more = a + t
    BY <1>1, <1>2, <1>6, StripeIs
  <2> HIDE DEF a
  <2>2. r <= t /\ r \in Nat /\ t \in Nat
    BY <1>1, <1>2, <2>1, StripeIs
  <2>3. AtMost(v, r) <= AtMost(v, t) /\ AtMost(v, r) \in Nat /\ AtMost(v, t) \in Nat
    BY <1>3, <2>2 DEF AtMost
  <2>4. p * u \in Nat
    BY <1>1, <1>3
  <2> QED  BY <1>4, <1>6, <2>3, <2>4
<1>7. CASE p < q
  <2>1. PICK d \in Nat : q = p + 1 + d
    <3>1. q - p - 1 \in Nat /\ q = p + 1 + (q - p - 1)
      BY <1>1, <1>2, <1>7
    <3> QED  BY <3>1
  <2>2. q * u = p * u + u + d * u /\ d * u \in Nat /\ p * u \in Nat
    BY <1>1, <1>3, <2>1
  <2>3. r \in Nat /\ t \in Nat
    BY <1>1, <1>2, StripeIs
  <2>4. AtMost(v, r) <= v /\ AtMost(v, r) \in Nat /\ AtMost(v, t) \in Nat
    BY <1>3, <2>3 DEF AtMost
  <2> DEFINE a == p * u
             b == d * u
  <2>5. a \in Nat /\ b \in Nat /\ Prefix(k, more) = a + u + b + AtMost(v, t)
    BY <1>4, <2>2
  <2>6. Prefix(k, len) = a + AtMost(v, r)
    BY <1>4
  <2> HIDE DEF a, b
  <2> QED  BY <1>3, <2>4, <2>5, <2>6
<1> QED  BY <1>1, <1>2, <1>5, <1>6, <1>7

\* A byte of the file has its place within the share of its object.
LEMMA ShareBound ==
  ASSUME NEW len \in Nat, NEW i \in Nat, i < len
  PROVE  Prefix(ObjIndex(i), len) + ObjOffset(i) + 1 <= Prefix(ObjIndex(i) + 1, len)
<1> DEFINE s == ObjIndex(i)
           Q == len \div Stripe
           R == len % Stripe
<1>0. s \in Nat /\ s \in 0 .. ss_obj_count - 1 /\ ObjOffset(i) \in Nat
  BY Placed DEF Servers
<1>1. Q \in Nat /\ R \in 0 .. Stripe - 1 /\ len = Q * Stripe + R
  BY StripeIs, Divided
<1>2. PICK p, r \in Nat : /\ r < chunk_size /\ i = (p * ss_obj_count + s) * chunk_size + r
                          /\ ObjOffset(i) = p * chunk_size + r
  BY Number
<1> HIDE DEF s, Q, R
<1> DEFINE w == s * chunk_size
<1>3. w \in Nat /\ i = p * Stripe + (w + r)
  <2>1. w \in Nat
    BY <1>0, StripingAssumption
  <2>2. (p * ss_obj_count + s) * chunk_size = p * (chunk_size * ss_obj_count) + s * chunk_size
    BY <1>0, StripingAssumption
  <2>3. p * (chunk_size * ss_obj_count) \in Nat
    <3>1. chunk_size * ss_obj_count \in Nat
      BY StripingAssumption
    <3> QED  BY <3>1
  <2> DEFINE x == p * (chunk_size * ss_obj_count)
  <2>4. i = (x + w) + r /\ x \in Nat
    BY <1>2, <2>2, <2>3
  <2> HIDE DEF x, w
  <2>5. i = x + (w + r)
    BY <2>1, <2>4
  <2> QED  BY <2>1, <2>5 DEF x, Stripe
<1>4. w + r \in 0 .. Stripe - 1 /\ w + chunk_size <= Stripe
  <2>1. PICK e \in Nat : ss_obj_count = s + 1 + e
    <3>1. ss_obj_count - s - 1 \in Nat /\ ss_obj_count = s + 1 + (ss_obj_count - s - 1)
      BY <1>0, StripingAssumption
    <3> QED  BY <3>1
  <2>2. Stripe = w + chunk_size + e * chunk_size
    BY <1>0, <2>1, StripingAssumption DEF Stripe
  <2>3. e * chunk_size \in Nat
    BY StripingAssumption
  <2> DEFINE x == e * chunk_size
  <2>4. Stripe = w + chunk_size + x /\ x \in Nat
    BY <2>2, <2>3
  <2> HIDE DEF x, w
  <2> QED  BY <1>2, <1>3, <2>4, StripingAssumption
<1>5. /\ (s + 1) * chunk_size = w + chunk_size /\ chunk_size * s = w
      /\ chunk_size * (s + 1) = w + chunk_size
  BY <1>0, StripingAssumption
<1>6. /\ Prefix(s, len) = Q * w + AtMost(w, R)
      /\ Prefix(s + 1, len) = Q * (w + chunk_size) + AtMost(w + chunk_size, R)
  BY <1>5 DEF Prefix, Q, R
<1> HIDE DEF w
<1>7. Q * (w + chunk_size) = Q * w + Q * chunk_size /\ Q * w \in Nat /\ Q * chunk_size \in Nat
  BY <1>1, <1>3, StripingAssumption
<1>8. R \in Nat /\ AtMost(w, R) \in Nat /\ AtMost(w + chunk_size, R) \in Nat
         /\ AtMost(w, R) <= AtMost(w + chunk_size, R)
  BY <1>1, <1>3, StripeIs, StripingAssumption DEF AtMost
<1>9. p <= Q
  <2> SUFFICES ASSUME Q < p PROVE FALSE
    BY <1>1
  <2>1. len < i
    BY <1>1, <1>3, <1>4, Smaller, StripeIs
  <2> QED  BY <2>1
<1> DEFINE a == Q * w
           b == Q * chunk_size
           o == p * chunk_size
<1>10. /\ a \in Nat /\ b \in Nat /\ o \in Nat /\ ObjOffset(i) = o + r
       /\ Prefix(s + 1, len) = a + b + AtMost(w + chunk_size, R)
  BY <1>2, <1>6, <1>7, StripingAssumption
<1>11. CASE p < Q
  <2>1. o + r + 1 <= b
    <3>1. PICK d \in Nat : Q = p + 1 + d
      <4>1. Q - p - 1 \in Nat /\ Q = p + 1 + (Q - p - 1)
        BY <1>1, <1>11
      <4> QED  BY <4>1
    <3>2. b = o + chunk_size + d * chunk_size /\ d * chunk_size \in Nat
      BY <3>1, StripingAssumption
    <3> HIDE DEF b, o
    <3> QED  BY <1>2, <1>10, <3>2, StripingAssumption
  <2> HIDE DEF a, b, o
  <2> QED  BY <1>2, <1>6, <1>8, <1>10, <2>1 DEF s, a
<1>12. CASE p = Q
  <2>1. b = o
    BY <1>12
  <2>2. w + r < R
    <3> DEFINE x == p * Stripe
    <3>1. x \in Nat /\ i = x + (w + r) /\ len = x + R
      BY <1>1, <1>3, <1>12, StripeIs
    <3> HIDE DEF x
    <3> QED  BY <1>2, <1>3, <1>8, <3>1
  <2>3. AtMost(w, R) = w /\ AtMost(w + chunk_size, R) >= w + r + 1
    BY <1>2, <1>3, <1>8, <2>2, StripingAssumption DEF AtMost
  <2> HIDE DEF a, b, o
  <2> QED  BY <1>2, <1>3, <1>6, <1>8, <1>10, <2>1, <2>3 DEF s, a
<1> QED  BY <1>1, <1>9, <1>11, <1>12

-----------------------------------------------------------------------------
(***************************************************************************)
(* Sequences of bytes, and what pwrite makes of them (Stored).             *)
(***************************************************************************)

Byte == Nat \X Nat

LEMMA HoleIs == Hole \in Byte /\ EndOfFile \in Byte /\ Unset \in Byte
BY DEF Byte, Hole, EndOfFile, Unset

LEMMA ByteAtIs ==
  ASSUME NEW b \in Seq(Byte), NEW i \in Nat
  PROVE  /\ ByteAt(b, i) \in Byte
         /\ i < Len(b) => ByteAt(b, i) = b[i + 1]
         /\ i >= Len(b) => ByteAt(b, i) = Hole
<1>1. i < Len(b) => i + 1 \in 1 .. Len(b)
  OBVIOUS
<1> QED  BY <1>1, HoleIs DEF ByteAt

LEMMA MadeSeq ==
  ASSUME NEW n \in Nat, NEW S, NEW f, DOMAIN f = 1 .. n, f = [i \in 1 .. n |-> f[i]],
         \A i \in 1 .. n : f[i] \in S
  PROVE  f \in Seq(S) /\ Len(f) = n
<1>1. f \in [1 .. n -> S]
  OBVIOUS
<1>2. f \in Seq(S)
  BY <1>1, SeqDef
<1> QED  BY <1>2, LenProperties

\* What pwrite leaves.
LEMMA StoredIs ==
  ASSUME NEW b \in Seq(Byte), NEW new \in Seq(Byte), NEW a \in Nat
  PROVE  LET all == Stored(b, a, new)
         IN  /\ all \in Seq(Byte)
             /\ Len(all) = IF Len(b) > a + Len(new) THEN Len(b) ELSE a + Len(new)
             /\ \A x \in Nat : ByteAt(all, x) = IF a <= x /\ x < a + Len(new)
                                                THEN new[x - a + 1] ELSE ByteAt(b, x)
<1> DEFINE n == IF Len(b) > a + Len(new) THEN Len(b) ELSE a + Len(new)
           all == Stored(b, a, new)
           byte(j) == IF j > a /\ j <= a + Len(new) THEN new[j - a] ELSE ByteAt(b, j - 1)
<1>1. n \in Nat /\ Len(b) \in Nat /\ Len(new) \in Nat /\ Len(b) <= n /\ a + Len(new) <= n
  OBVIOUS
<1>2. all = [j \in 1 .. n |-> byte(j)]
  BY DEF Stored
<1> HIDE DEF n, all
<1>3. ASSUME NEW j \in 1 .. n
      PROVE  byte(j) \in Byte
  <2>1. CASE j > a /\ j <= a + Len(new)
    <3>1. j - a \in 1 .. Len(new)
      BY <1>1, <2>1
    <3> QED  BY <2>1, <3>1
  <2>2. CASE ~(j > a /\ j <= a + Len(new))
    <3>1. j - 1 \in Nat
      BY <1>1
    <3> QED  BY <2>2, <3>1, ByteAtIs
  <2> QED  BY <2>1, <2>2
<1>4. all \in Seq(Byte) /\ Len(all) = n
  <2> HIDE DEF byte
  <2> QED  BY <1>1, <1>2, <1>3, MadeSeq
<1>5. ASSUME NEW x \in Nat
      PROVE  ByteAt(all, x) = IF a <= x /\ x < a + Len(new) THEN new[x - a + 1] ELSE ByteAt(b, x)
  <2>1. CASE x < n
    <3>0. x + 1 \in 1 .. n
      BY <1>1, <2>1
    <3>1. ByteAt(all, x) = byte(x + 1)
      <4>1. ByteAt(all, x) = all[x + 1]
        BY <1>4, <2>1, ByteAtIs
      <4> HIDE DEF byte
      <4> QED  BY <1>2, <3>0, <4>1
    <3>2. (x + 1) - a = x - a + 1 /\ (x + 1) - 1 = x
      OBVIOUS
    <3>3. (x + 1 > a /\ x + 1 <= a + Len(new)) <=> (a <= x /\ x < a + Len(new))
      BY <1>1
    <3> QED  BY <3>1, <3>2, <3>3
  <2>2. CASE x >= n
    <3>1. ByteAt(all, x) = Hole /\ ByteAt(b, x) = Hole
      BY <1>1, <1>4, <2>2, ByteAtIs
    <3> QED  BY <1>1, <2>2, <3>1
  <2> QED  BY <1>1, <2>1, <2>2
<1> QED  BY <1>4, <1>5 DEF n, all

\* The part of a buffer that a transfer carries.
LEMMA PartIs ==
  ASSUME NEW b \in Seq(Byte), NEW i \in Nat, NEW n \in Nat, i + n <= Len(b)
  PROVE  /\ SubSeq(b, i + 1, i + n) \in Seq(Byte) /\ Len(SubSeq(b, i + 1, i + n)) = n
         /\ \A j \in 1 .. n : SubSeq(b, i + 1, i + n)[j] = b[i + j]
<1> DEFINE part == SubSeq(b, i + 1, i + n)
<1>1. i + 1 \in Int /\ i + n \in Int /\ (i + n) - (i + 1) + 1 = n
  OBVIOUS
<1>2. \A j \in i + 1 .. i + n : b[j] \in Byte
  OBVIOUS
<1>3. \A j \in 1 .. n : (i + 1) + j - 1 = i + j
  OBVIOUS
<1>4. /\ part \in Seq(Byte)
      /\ Len(part) = IF i + 1 <= i + n THEN (i + n) - (i + 1) + 1 ELSE 0
      /\ \A j \in 1 .. (i + n) - (i + 1) + 1 : part[j] = b[(i + 1) + j - 1]
  BY <1>1, <1>2, SubSeqProperties
<1> HIDE DEF part
<1>5. Len(part) = n
  BY <1>1, <1>4
<1>6. ASSUME NEW j \in 1 .. n PROVE part[j] = b[i + j]
  <2>1. j \in 1 .. (i + n) - (i + 1) + 1
    BY <1>1
  <2>2. part[j] = b[(i + 1) + j - 1]
    BY <1>4, <2>1
  <2> QED  BY <1>3, <2>2
<1> QED  BY <1>4, <1>5, <1>6 DEF part

LEMMA Least ==
  ASSUME NEW T \in SUBSET Nat, T # {}
  PROVE  \E x \in T : \A y \in T : x <= y
<1>1. PICK x \in T : \A y \in T : ~(<<y, x>> \in OpToRel(<, Nat))
  BY NatLessThanWellFounded, WFMin, Zenon
<1>2. \A y \in T : x <= y
  <2> SUFFICES ASSUME NEW y \in T, y < x PROVE FALSE
    OBVIOUS
  <2>1. <<y, x>> \in OpToRel(<, Nat)
    BY DEF OpToRel
  <2> QED BY <1>1, <2>1, Zenon
<1> QED BY <1>2

-----------------------------------------------------------------------------
\* The bytes of the object s are those of the file at its places, and no more.
Holds(s, bytes, data) ==
  /\ \A i \in Nat : ObjIndex(i) = s => ByteAt(bytes, ObjOffset(i)) = ByteAt(data, i)
  /\ \A j \in Nat : j < Len(bytes) =>
       \E i \in Nat : i < Len(data) /\ ObjIndex(i) = s /\ ObjOffset(i) = j

\* A transfer that stays in a chunk keeps the other objects as they are ...
LEMMA OthersHold ==
  ASSUME NEW s, NEW bytes \in Seq(Byte), NEW data \in Seq(Byte), Holds(s, bytes, data),
         NEW off \in Nat, NEW new \in Seq(Byte), (off % chunk_size) + Len(new) <= chunk_size,
         s # ObjIndex(off)
  PROVE  Holds(s, bytes, Stored(data, off, new))
<1> DEFINE all == Stored(data, off, new)
<1>1. /\ Len(all) \in Nat /\ Len(data) <= Len(all)
      /\ \A x \in Nat : ByteAt(all, x) = IF off <= x /\ x < off + Len(new)
                                         THEN new[x - off + 1] ELSE ByteAt(data, x)
  BY StoredIs
<1>2. ASSUME NEW i \in Nat, ObjIndex(i) = s
      PROVE  ByteAt(bytes, ObjOffset(i)) = ByteAt(all, i)
  <2>1. ~(off <= i /\ i < off + Len(new))
    BY <1>2, Inside
  <2> QED  BY <1>1, <1>2, <2>1 DEF Holds
<1>3. ASSUME NEW j \in Nat, j < Len(bytes)
      PROVE  \E i \in Nat : i < Len(all) /\ ObjIndex(i) = s /\ ObjOffset(i) = j
  BY <1>1, <1>3 DEF Holds
<1> HIDE DEF all
<1> QED  BY <1>2, <1>3 DEF Holds, all

\* ... and its own object as it should be.
LEMMA StoreHolds ==
  ASSUME NEW s, NEW bytes \in Seq(Byte), NEW data \in Seq(Byte), Holds(s, bytes, data),
         NEW off \in Nat, NEW new \in Seq(Byte), (off % chunk_size) + Len(new) <= chunk_size,
         Len(new) > 0, s = ObjIndex(off)
  PROVE  Holds(s, Stored(bytes, ObjOffset(off), new), Stored(data, off, new))
<1> DEFINE all == Stored(data, off, new)
           at0 == ObjOffset(off)
           obj == Stored(bytes, at0, new)
<1>0. at0 \in Nat
  BY Placed
<1>1. /\ Len(all) \in Nat /\ Len(data) <= Len(all) /\ off + Len(new) <= Len(all)
      /\ \A x \in Nat : ByteAt(all, x) = IF off <= x /\ x < off + Len(new)
                                         THEN new[x - off + 1] ELSE ByteAt(data, x)
  BY StoredIs
<1>2. /\ Len(obj) = IF Len(bytes) > at0 + Len(new) THEN Len(bytes) ELSE at0 + Len(new)
      /\ \A x \in Nat : ByteAt(obj, x) = IF at0 <= x /\ x < at0 + Len(new)
                                         THEN new[x - at0 + 1] ELSE ByteAt(bytes, x)
  BY <1>0, StoredIs
<1> HIDE DEF all, obj
<1>3. ASSUME NEW i \in Nat, ObjIndex(i) = s
      PROVE  ByteAt(obj, ObjOffset(i)) = ByteAt(all, i)
  <2>0. ObjOffset(i) \in Nat
    BY Placed
  <2>1. CASE off <= i /\ i < off + Len(new)
    <3>1. ObjOffset(i) = at0 + (i - off)
      BY <2>1, Inside
    <3>2. at0 <= ObjOffset(i) /\ ObjOffset(i) < at0 + Len(new) /\ ObjOffset(i) - at0 = i - off
      BY <1>0, <2>1, <3>1
    <3> QED  BY <1>1, <1>2, <2>0, <2>1, <3>2
  <2>2. CASE ~(off <= i /\ i < off + Len(new))
    <3>1. ~(at0 <= ObjOffset(i) /\ ObjOffset(i) < at0 + Len(new))
      BY <1>3, <2>2, Inside
    <3> QED  BY <1>1, <1>2, <1>3, <2>0, <2>2, <3>1 DEF Holds
  <2> QED  BY <2>1, <2>2
<1>4. ASSUME NEW j \in Nat, j < Len(obj)
      PROVE  \E i \in Nat : i < Len(all) /\ ObjIndex(i) = s /\ ObjOffset(i) = j
  <2>1. CASE j < Len(bytes)
    BY <1>1, <2>1 DEF Holds
  <2>2. CASE j >= Len(bytes) /\ j < at0
    <3>1. s \in 0 .. ss_obj_count - 1
      BY Placed DEF Servers
    <3>2. PICK i \in Nat : ObjIndex(i) = s /\ ObjOffset(i) = j
      BY <3>1, EveryPlaceIsUsed
    <3>3. i < off
      BY <2>2, <3>2, InOrder
    <3> QED  BY <1>1, <3>2, <3>3
  <2>3. CASE j >= at0 /\ j >= Len(bytes)
    <3> DEFINE d == j - at0
    <3>1. d \in Nat /\ d < Len(new) /\ at0 + d = j
      BY <1>0, <1>2, <1>4, <2>3
    <3>2. (off % chunk_size) + d < chunk_size
      <4>1. off % chunk_size \in Nat
        BY Divided, StripingAssumption
      <4> HIDE DEF d
      <4> QED  BY <3>1, <4>1, StripingAssumption
    <3> HIDE DEF d
    <3>3. ObjIndex(off + d) = s /\ ObjOffset(off + d) = j
      BY <3>1, <3>2, Runs
    <3> QED  BY <1>1, <3>1, <3>3
  <2> QED  BY <1>0, <1>2, <1>4, <2>1, <2>2, <2>3
<1> QED  BY <1>3, <1>4 DEF Holds, all, obj

-----------------------------------------------------------------------------
(***************************************************************************)
(* The pieces of a transfer (sso_io): they cover it, each in one chunk.    *)
(***************************************************************************)

PieceRecord == [obj : Nat, at : Nat, buf : Nat, len : Nat \ {0}]

\* A transfer of a read or write of count bytes at off: its place in the buffer says which
\* object it goes to, and it stays in one chunk.
IsPiece(p, off, count) ==
  /\ p = Piece(off + p.buf, p.buf, p.len)
  /\ p.buf \in Nat /\ p.len \in Nat \ {0} /\ p.buf + p.len <= count
  /\ ((off + p.buf) % chunk_size) + p.len <= chunk_size

\* The transfers cover the bytes from..count-1 of the buffer.
CoversFrom(pieces, off, count, from) ==
  /\ pieces \in Seq(PieceRecord)
  /\ \A p \in Range(pieces) : IsPiece(p, off, count)
  /\ \A x \in Nat : from <= x /\ x < count =>
       \E p \in Range(pieces) : p.buf <= x /\ x < p.buf + p.len

LEMMA RangeOfMore ==
  ASSUME NEW S, NEW s \in Seq(S), NEW e \in S
  PROVE  <<e>> \o s \in Seq(S) /\ Range(<<e>> \o s) = {e} \cup Range(s)
<1> DEFINE t == <<e>> \o s
<1>1. /\ t \in Seq(S) /\ Len(t) = Len(s) + 1 /\ t[1] = e
      /\ \A i \in 1 .. Len(s) : t[i + 1] = s[i]
  OBVIOUS
<1>2. DOMAIN t = 1 .. Len(s) + 1 /\ DOMAIN s = 1 .. Len(s) /\ Len(s) \in Nat
  BY <1>1
<1> HIDE DEF t
<1>3. ASSUME NEW i \in 1 .. Len(s) + 1
      PROVE  t[i] = e \/ \E k \in 1 .. Len(s) : t[i] = s[k]
  <2>1. CASE i = 1
    BY <1>1, <2>1
  <2>2. CASE i # 1
    <3>1. i - 1 \in 1 .. Len(s) /\ (i - 1) + 1 = i
      BY <1>2, <2>2
    <3> QED  BY <1>1, <3>1
  <2> QED  BY <2>1, <2>2
<1>4. 1 \in DOMAIN t /\ \A i \in 1 .. Len(s) : i + 1 \in DOMAIN t
  BY <1>2
<1>5. Range(t) = {e} \cup Range(s)
  <2>1. Range(t) = {t[i] : i \in 1 .. Len(s) + 1} /\ Range(s) = {s[i] : i \in 1 .. Len(s)}
    BY <1>2 DEF Range
  <2>2. e \in Range(t)
    BY <1>1, <1>2, <1>4, <2>1
  <2>3. \A i \in 1 .. Len(s) : s[i] \in Range(t)
    BY <1>1, <1>2, <1>4, <2>1
  <2> QED  BY <1>3, <2>1, <2>2, <2>3
<1> QED  BY <1>1, <1>5 DEF t

LEMMA PieceIs ==
  \A off, b \in Nat, n \in Nat \ {0} :
    Piece(off + b, b, n) \in [obj : Nat, at : Nat, buf : {b}, len : {n}]
<1> SUFFICES ASSUME NEW off \in Nat, NEW b \in Nat, NEW n \in Nat \ {0}
             PROVE  Piece(off + b, b, n) \in [obj : Nat, at : Nat, buf : {b}, len : {n}]
  OBVIOUS
<1>1. off + b \in Nat
  OBVIOUS
<1>2. ObjIndex(off + b) \in Nat /\ ObjOffset(off + b) \in Nat
  BY <1>1, Placed DEF Servers
<1> QED  BY <1>2 DEF Piece

\* One transfer more in front of the others.
LEMMA CoversMore ==
  ASSUME NEW off \in Nat, NEW count \in Nat, NEW b \in Nat, NEW n \in Nat \ {0},
         b + n <= count, ((off + b) % chunk_size) + n <= chunk_size,
         NEW pieces, CoversFrom(pieces, off, count, b + n)
  PROVE  CoversFrom(<<Piece(off + b, b, n)>> \o pieces, off, count, b)
<1> DEFINE e == Piece(off + b, b, n)
           all == <<e>> \o pieces
<1> HIDE DEF e, all
<1>1. e \in PieceRecord /\ e.buf = b /\ e.len = n
  <2>1. e \in [obj : Nat, at : Nat, buf : {b}, len : {n}]
    BY PieceIs DEF e
  <2> QED  BY <2>1 DEF PieceRecord
<1>2. IsPiece(e, off, count)
  BY <1>1 DEF IsPiece, e
<1>3. all \in Seq(PieceRecord) /\ Range(all) = {e} \cup Range(pieces)
  BY <1>1, RangeOfMore DEF CoversFrom, all
<1>4. ASSUME NEW x \in Nat, b <= x, x < count
      PROVE  \E p \in Range(all) : p.buf <= x /\ x < p.buf + p.len
  <2>1. CASE x < b + n
    BY <1>1, <1>3, <1>4, <2>1
  <2>2. CASE x >= b + n
    BY <1>3, <1>4, <2>2 DEF CoversFrom
  <2> QED  BY <2>1, <2>2
<1>5. \A p \in Range(all) : IsPiece(p, off, count)
  BY <1>2, <1>3 DEF CoversFrom
<1> QED  BY <1>3, <1>4, <1>5 DEF CoversFrom, all, e

LEMMA CoversNothing ==
  ASSUME NEW off \in Nat, NEW count \in Nat
  PROVE  CoversFrom(<<>>, off, count, count)
<1>1. Range(<<>>) = {} /\ <<>> \in Seq(PieceRecord)
  BY DEF Range
<1>2. \A x \in Nat : ~(count <= x /\ x < count)
  OBVIOUS
<1> QED  BY <1>1, <1>2 DEF CoversFrom

\* The loop of sso_io that follows the first transfer.
RestOf(g, off, count, bytes_left) ==
  IF bytes_left = 0 THEN <<>>
  ELSE <<Piece(off + (count - bytes_left), count - bytes_left, AtMost(bytes_left, chunk_size))>>
         \o g[bytes_left - AtMost(bytes_left, chunk_size)]
IsRest(g, off, count, m) == g = [n \in 0 .. m |-> RestOf(g, off, count, n)]

LEMMA RestShrinks ==
  ASSUME NEW n \in Nat \ {0}
  PROVE  /\ AtMost(n, chunk_size) \in Nat \ {0}
         /\ AtMost(n, chunk_size) <= chunk_size
         /\ n - AtMost(n, chunk_size) \in 0 .. n - 1
         /\ AtMost(n, chunk_size) = chunk_size \/ n - AtMost(n, chunk_size) = 0
BY StripingAssumption DEF AtMost

LEMMA RestExists ==
  ASSUME NEW off \in Nat, NEW count \in Nat
  PROVE  \A m \in Nat : \E g : IsRest(g, off, count, m)
<1> DEFINE T == {m \in Nat : ~\E g : IsRest(g, off, count, m)}
<1> SUFFICES ASSUME T # {} PROVE FALSE
  OBVIOUS
<1>1. PICK m \in T : \A k \in T : m <= k
  <2>1. T \in SUBSET Nat
    OBVIOUS
  <2> HIDE DEF T
  <2> QED  BY <2>1, Least
<1>2. m \in Nat /\ ~\E g : IsRest(g, off, count, m)
  BY <1>1
<1>3. CASE m = 0
  <2> DEFINE g == [n \in 0 .. 0 |-> <<>>]
  <2>1. \A n \in 0 .. 0 : n = 0
    OBVIOUS
  <2>2. g = [n \in 0 .. 0 |-> RestOf(g, off, count, n)]
    BY <2>1 DEF RestOf
  <2> QED  BY <1>2, <1>3, <2>2 DEF IsRest
<1>4. CASE m # 0
  <2>1. m - 1 \in Nat /\ m - 1 \notin T
    <3> HIDE DEF T
    <3> QED  BY <1>1, <1>2, <1>4
  <2>2. PICK g : IsRest(g, off, count, m - 1)
    BY <2>1
  <2> HIDE DEF T
  <2> DEFINE h == [n \in 0 .. m |-> IF n = m THEN RestOf(g, off, count, m) ELSE g[n]]
  <2>3. \A n \in 0 .. m - 1 : n \in 0 .. m /\ n # m /\ h[n] = g[n]
    BY <1>2
  <2>4. ASSUME NEW n \in 0 .. m
        PROVE  RestOf(h, off, count, n) = RestOf(g, off, count, n)
    <3>1. CASE n = 0
      BY <3>1 DEF RestOf
    <3>2. CASE n # 0
      <4>1. n \in Nat \ {0}
        BY <1>2, <3>2
      <4>2. n - AtMost(n, chunk_size) \in 0 .. m - 1
        <5>1. n - AtMost(n, chunk_size) \in 0 .. n - 1
          BY <4>1, RestShrinks
        <5> QED  BY <1>2, <5>1
      <4>3. h[n - AtMost(n, chunk_size)] = g[n - AtMost(n, chunk_size)]
        BY <2>3, <4>2
      <4> HIDE DEF h
      <4> QED  BY <3>2, <4>3 DEF RestOf
    <3> QED  BY <3>1, <3>2
  <2>5. ASSUME NEW n \in 0 .. m
        PROVE  h[n] = RestOf(h, off, count, n)
    <3>1. CASE n = m
      BY <2>4, <2>5, <3>1
    <3>2. CASE n # m
      <4>1. n \in 0 .. m - 1
        BY <1>2, <3>2
      <4>2. g[n] = RestOf(g, off, count, n)
        <5>1. g = [k \in 0 .. m - 1 |-> RestOf(g, off, count, k)]
          BY <2>2 DEF IsRest
        <5> QED  BY <4>1, <5>1, Zenon
      <4> QED  BY <2>3, <2>4, <4>1, <4>2
    <3> QED  BY <3>1, <3>2
  <2>6. h = [n \in 0 .. m |-> RestOf(h, off, count, n)]
    <3>1. h = [n \in 0 .. m |-> h[n]]
      OBVIOUS
    <3> HIDE DEF h
    <3> QED  BY <2>5, <3>1
  <2> HIDE DEF h
  <2> QED  BY <1>2, <2>6 DEF IsRest
<1> QED  BY <1>3, <1>4

\* A byte that starts a chunk, and the one a chunk later.
LEMMA NextChunk ==
  ASSUME NEW x \in Nat, x % chunk_size = 0
  PROVE  (x + chunk_size) % chunk_size = 0
<1> DEFINE q == x \div chunk_size
           y == x + chunk_size
           p == y \div chunk_size
           r == y % chunk_size
<1>1. q \in Nat /\ x = q * chunk_size + 0
  <2>1. q \in Nat /\ x = q * chunk_size + (x % chunk_size)
    BY Divided, StripingAssumption
  <2> QED  BY <2>1
<1>2. p \in Nat /\ r \in 0 .. chunk_size - 1 /\ y = p * chunk_size + r
  <2>1. y \in Nat
    BY StripingAssumption
  <2> HIDE DEF y
  <2> QED  BY <2>1, Divided, StripingAssumption
<1> HIDE DEF q, p, r
<1> DEFINE k == q + 1
<1>3. y = k * chunk_size + 0
  BY <1>1, StripingAssumption
<1> HIDE DEF y
<1>4. 0 \in 0 .. chunk_size - 1 /\ k \in Nat
  BY <1>1, StripingAssumption
<1> HIDE DEF k
<1>5. r = 0
  <2>1. p * chunk_size + r = k * chunk_size + 0
    BY <1>2, <1>3
  <2> QED  BY <1>2, <1>4, <2>1, Unique, StripingAssumption
<1> QED  BY <1>5 DEF r, y

LEMMA RestCovers ==
  ASSUME NEW off \in Nat, NEW count \in Nat, NEW g, IsRest(g, off, count, count)
  PROVE  \A n \in 0 .. count : n = 0 \/ (off + (count - n)) % chunk_size = 0 =>
           CoversFrom(g[n], off, count, count - n)
<1> DEFINE Aligned(n) == n = 0 \/ (off + (count - n)) % chunk_size = 0
           T == {n \in 0 .. count : Aligned(n) /\ ~CoversFrom(g[n], off, count, count - n)}
<1> SUFFICES ASSUME T # {} PROVE FALSE
  OBVIOUS
<1>1. PICK n \in T : \A k \in T : n <= k
  <2>1. T \in SUBSET Nat
    OBVIOUS
  <2> HIDE DEF T
  <2> QED  BY <2>1, Least
<1>2. n \in 0 .. count /\ Aligned(n) /\ ~CoversFrom(g[n], off, count, count - n)
  BY <1>1
<1>3. g[n] = RestOf(g, off, count, n)
  <2>1. g = [k \in 0 .. count |-> RestOf(g, off, count, k)]
    BY DEF IsRest
  <2> QED  BY <1>2, <2>1, Zenon
<1>4. CASE n = 0
  <2>1. g[n] = <<>> /\ count - n = count
    BY <1>3, <1>4 DEF RestOf
  <2> QED  BY <1>2, <2>1, CoversNothing
<1>5. CASE n # 0
  <2> DEFINE m == AtMost(n, chunk_size)
             k == n - m
             b == count - n
  <2>1. /\ m \in Nat \ {0} /\ m <= chunk_size /\ k \in 0 .. n - 1
        /\ m = chunk_size \/ k = 0
    BY <1>2, <1>5, RestShrinks
  <2> HIDE DEF m
  <2>2. b \in Nat /\ b + m <= count /\ count - k = b + m
    BY <1>2, <2>1
  <2>3. (off + b) % chunk_size = 0
    BY <1>2, <1>5
  <2>4. k = 0 \/ (off + (b + m)) % chunk_size = 0
    <3>1. CASE m = chunk_size
      <4> HIDE DEF b
      <4>1. off + b \in Nat /\ off + (b + m) = (off + b) + chunk_size
        BY <2>2, <3>1, StripingAssumption
      <4> QED  BY <2>3, <4>1, NextChunk
    <3> QED  BY <2>1, <3>1
  <2>5. k \in 0 .. count /\ k < n
    BY <1>2, <2>1
  <2>6. CoversFrom(g[k], off, count, b + m)
    <3>1. Aligned(k)
      BY <2>2, <2>4
    <3>2. k \notin T
      <4>1. ~(n <= k)
        BY <1>2, <2>5
      <4> HIDE DEF T
      <4> QED  BY <1>1, <4>1
    <3> HIDE DEF k, b
    <3> QED  BY <2>2, <2>5, <3>1, <3>2
  <2>7. ((off + b) % chunk_size) + m <= chunk_size
    BY <2>1, <2>3, StripingAssumption
  <2>8. CoversFrom(<<Piece(off + b, b, m)>> \o g[k], off, count, b)
    <3> HIDE DEF b, k
    <3> QED  BY <2>1, <2>2, <2>6, <2>7, CoversMore
  <2>9. g[n] = <<Piece(off + b, b, m)>> \o g[k]
    BY <1>3, <1>5 DEF RestOf, m
  <2> QED  BY <1>2, <2>8, <2>9
<1> QED  BY <1>4, <1>5

\* The first transfer ends with its chunk, or is the only one.
LEMMA FirstIs ==
  ASSUME NEW off \in Nat, NEW count \in Nat \ {0}
  PROVE  LET n == FirstBytes(count, ObjOffset(off))
         IN  /\ n \in Nat \ {0} /\ n <= count
             /\ (off % chunk_size) + n <= chunk_size
             /\ n = count \/ (off + n) % chunk_size = 0
<1> DEFINE o == ObjOffset(off)
           n == FirstBytes(count, o)
           r == off % chunk_size
<1>1. PICK q, r1 \in Nat : r1 < chunk_size /\ r1 = r /\ o = q * chunk_size + r1
  BY Number
<1>2. o \in Nat /\ o % chunk_size \in 0 .. chunk_size - 1
  BY Placed, Divided, StripingAssumption
<1>3. o % chunk_size = r
  <2> DEFINE p == o \div chunk_size
             t == o % chunk_size
  <2>1. p \in Nat /\ t \in 0 .. chunk_size - 1 /\ o = p * chunk_size + t
    BY <1>2, Divided, StripingAssumption
  <2>2. r1 \in 0 .. chunk_size - 1
    BY <1>1, StripingAssumption
  <2> HIDE DEF p, t, o
  <2>3. t = r1
    BY <1>1, <2>1, <2>2, Unique, StripingAssumption
  <2> QED  BY <1>1, <2>3 DEF t
<1>4. o = 0 => r = 0
  <2>1. 0 % chunk_size = 0
    BY StripingAssumption
  <2> QED  BY <1>3, <2>1
<1>5. r \in Nat /\ r < chunk_size
  BY <1>1
<1>6. n = AtMost(count, chunk_size - r)
  <2> HIDE DEF o, r
  <2>1. CASE o > 0
    BY <1>3, <2>1 DEF FirstBytes
  <2>2. CASE ~(o > 0)
    <3>1. o = 0
      BY <1>2, <2>2
    <3> QED  BY <1>4, <2>2, <3>1, StripingAssumption DEF FirstBytes
  <2> QED  BY <2>1, <2>2
<1>7. /\ n \in Nat \ {0} /\ n <= count /\ r + n <= chunk_size
      /\ n = count \/ n = chunk_size - r
  <2> HIDE DEF n, r, o
  <2> QED  BY <1>5, <1>6, StripingAssumption DEF AtMost
<1>8. ASSUME n = chunk_size - r
      PROVE  (off + n) % chunk_size = 0
  <2> DEFINE p == off \div chunk_size
             x == p * chunk_size
  <2>1. p \in Nat /\ off = p * chunk_size + r
    BY Divided, StripingAssumption
  <2>2. x \in Nat
    <3> HIDE DEF p
    <3> QED  BY <2>1, StripingAssumption
  <2>3. x % chunk_size = 0
    <3> DEFINE y == x \div chunk_size
               z == x % chunk_size
    <3> HIDE DEF p
    <3>1. y \in Nat /\ z \in 0 .. chunk_size - 1 /\ x = y * chunk_size + z
      BY <2>2, Divided, StripingAssumption
    <3>2. x = p * chunk_size + 0 /\ 0 \in 0 .. chunk_size - 1
      BY <2>1, <2>2, StripingAssumption
    <3> HIDE DEF x, y, z
    <3>3. z = 0
      <4>1. y * chunk_size + z = p * chunk_size + 0
        BY <3>1, <3>2
      <4> QED  BY <2>1, <3>1, <3>2, <4>1, Unique, StripingAssumption
    <3> QED  BY <3>3 DEF z
  <2>4. off + n = x + chunk_size
    <3>1. off = x + r
      BY <2>1
    <3> HIDE DEF x, n, r, p
    <3> QED  BY <1>5, <1>8, <2>2, <3>1, StripingAssumption
  <2> HIDE DEF x, n
  <2> QED  BY <2>2, <2>3, <2>4, NextChunk
<1> HIDE DEF n, r, o
<1> QED  BY <1>7, <1>8 DEF n, r, o

LEMMA PiecesAre ==
  ASSUME NEW off \in Nat, NEW count \in Nat \ {0}
  PROVE  CoversFrom(Pieces(off, count), off, count, 0)
<1> DEFINE n == FirstBytes(count, ObjOffset(off))
           rest == CHOOSE g : IsRest(g, off, count, count)
<1>1. /\ n \in Nat \ {0} /\ n <= count /\ (off % chunk_size) + n <= chunk_size
      /\ n = count \/ (off + n) % chunk_size = 0
  BY FirstIs
<1>2. IsRest(rest, off, count, count)
  BY RestExists
<1>3. Pieces(off, count) = <<Piece(off, 0, n)>> \o rest[count - n]
  BY DEF Pieces, IsRest, RestOf
<1> HIDE DEF n, rest
<1>4. count - n \in 0 .. count /\ count - (count - n) = n
  BY <1>1
<1>5. count - n = 0 \/ (off + (count - (count - n))) % chunk_size = 0
  BY <1>1, <1>4
<1>6. CoversFrom(rest[count - n], off, count, count - (count - n))
  BY <1>2, <1>4, <1>5, RestCovers
<1>7. off + 0 = off /\ 0 + n = n
  BY <1>1
<1>8. CoversFrom(<<Piece(off + 0, 0, n)>> \o rest[count - n], off, count, 0)
  BY <1>1, <1>4, <1>6, <1>7, CoversMore
<1> QED  BY <1>3, <1>7, <1>8

-----------------------------------------------------------------------------
(***************************************************************************)
(* A file written in one piece.                                            *)
(***************************************************************************)

\* What an object of a file written in one piece holds.
LEMMA OldHolds ==
  ASSUME NEW s \in Servers
  PROVE  /\ OldFile.data \in Seq(Byte) /\ OldFile.dso[s].bytes \in Seq(Byte)
         /\ Holds(s, OldFile.dso[s].bytes, OldFile.data)
         /\ \A i \in Nat : i < Len(OldFile.data) /\ ObjIndex(i) = s =>
              ObjOffset(i) < Len(OldFile.dso[s].bytes)
<1> DEFINE whole == [i \in 1 .. ExistingLen |-> <<0, i + 1>>]
           In == {i \in 0 .. ExistingLen - 1 : ObjIndex(i) = s}
           obj == [j \in {ObjOffset(i) + 1 : i \in In} |->
                     whole[1 + CHOOSE i \in In : ObjOffset(i) + 1 = j]]
           T == {a \in Nat : \A i \in In : ObjOffset(i) # a}
<1>1. OldFile.data = whole /\ OldFile.dso[s].bytes = obj
  BY DEF OldFile
<1>2. ExistingLen \in Nat /\ s \in 0 .. ss_obj_count - 1
  BY FsAssumption DEF Servers
<1>3. whole \in Seq(Byte) /\ Len(whole) = ExistingLen
  <2>1. \A i \in 1 .. ExistingLen : whole[i] \in Byte
    BY <1>2 DEF Byte
  <2>2. DOMAIN whole = 1 .. ExistingLen /\ whole = [i \in 1 .. ExistingLen |-> whole[i]]
    OBVIOUS
  <2> HIDE DEF whole
  <2> QED  BY <1>2, <2>1, <2>2, MadeSeq
<1> HIDE DEF whole
<1>4. \A i \in In : i \in Nat /\ i < ExistingLen /\ ObjIndex(i) = s /\ ObjOffset(i) \in Nat
  BY <1>2, Placed
<1>5. PICK n \in T : \A a \in T : n <= a
  <2>1. T # {}
    <3>1. PICK i \in Nat : ObjIndex(i) = s /\ ObjOffset(i) = ExistingLen
      BY <1>2, EveryPlaceIsUsed
    <3>2. ExistingLen <= i
      <4>1. PICK q, r \in Nat : /\ i = (q * ss_obj_count + ObjIndex(i)) * chunk_size + r
                                /\ ObjOffset(i) = q * chunk_size + r
        BY Number
      <4>2. q <= q * ss_obj_count + ObjIndex(i) /\ q * ss_obj_count + ObjIndex(i) \in Nat
        <5>1. PICK d \in Nat : ss_obj_count = 1 + d
          <6>1. ss_obj_count - 1 \in Nat /\ ss_obj_count = 1 + (ss_obj_count - 1)
            BY StripingAssumption
          <6> QED  BY <6>1
        <5>2. q * ss_obj_count = q + q * d /\ q * d \in Nat
          BY <5>1
        <5>3. ObjIndex(i) \in Nat
          BY Placed DEF Servers
        <5> QED  BY <5>2, <5>3
      <4> DEFINE p == q * ss_obj_count + ObjIndex(i)
      <4>3. PICK e \in Nat : p = q + e
        <5>1. p - q \in Nat /\ p = q + (p - q)
          BY <4>2
        <5> QED  BY <5>1
      <4>4. i = p * chunk_size + r
        BY <4>1
      <4> HIDE DEF p
      <4>5. p * chunk_size = q * chunk_size + e * chunk_size /\ e * chunk_size \in Nat
            /\ q * chunk_size \in Nat
        BY <4>3, StripingAssumption
      <4> DEFINE x == e * chunk_size
                 y == q * chunk_size
      <4>6. i = (y + x) + r /\ ExistingLen = y + r /\ x \in Nat /\ y \in Nat
        BY <3>1, <4>1, <4>4, <4>5
      <4> HIDE DEF x, y
      <4> QED  BY <4>6
    <3>3. ASSUME NEW k \in In, ObjOffset(k) = ExistingLen PROVE FALSE
      <4>1. k \in Nat /\ k < ExistingLen /\ ObjIndex(k) = s
        BY <1>4
      <4>2. k = i
        BY <3>1, <3>3, <4>1, BytesKeepApart
      <4> QED  BY <1>2, <3>2, <4>1, <4>2
    <3> QED  BY <1>2, <3>3
  <2>2. T \in SUBSET Nat
    OBVIOUS
  <2> HIDE DEF T
  <2> QED  BY <2>1, <2>2, Least
<1>6. ASSUME NEW a \in Nat
      PROVE  a < n <=> \E i \in In : ObjOffset(i) = a
  <2>1. ASSUME a < n PROVE \E i \in In : ObjOffset(i) = a
    <3>1. a \notin T
      <4>1. n \in Nat
        BY <1>5
      <4> HIDE DEF T
      <4> QED  BY <1>5, <2>1, <4>1
    <3> QED  BY <3>1
  <2>2. ASSUME NEW i \in In, ObjOffset(i) = a, n <= a PROVE FALSE
    <3>1. n \in Nat /\ \A k \in In : ObjOffset(k) # n
      BY <1>5
    <3>2. n < a
      BY <2>2, <3>1
    <3>3. PICK k \in Nat : ObjIndex(k) = s /\ ObjOffset(k) = n
      BY <1>2, <3>1, EveryPlaceIsUsed
    <3>4. i \in Nat /\ ObjIndex(i) = s /\ i < ExistingLen
      BY <1>4
    <3>5. k < i
      BY <2>2, <3>2, <3>3, <3>4, InOrder
    <3>6. k \in In
      BY <1>2, <3>3, <3>4, <3>5
    <3> QED  BY <3>1, <3>3, <3>6
  <2>3. n \in Nat
    BY <1>5
  <2> QED  BY <2>1, <2>2, <2>3
<1>7. n \in Nat
  BY <1>5
<1> HIDE DEF T
<1>8. DOMAIN obj = 1 .. n
  <2>1. ASSUME NEW j \in DOMAIN obj PROVE j \in 1 .. n
    <3>1. PICK i \in In : j = ObjOffset(i) + 1
      OBVIOUS
    <3>2. ObjOffset(i) \in Nat /\ ObjOffset(i) < n
      BY <1>4, <1>6
    <3> QED  BY <1>7, <3>1, <3>2
  <2>2. ASSUME NEW j \in 1 .. n PROVE j \in DOMAIN obj
    <3>1. j - 1 \in Nat /\ j - 1 < n /\ (j - 1) + 1 = j
      BY <1>7
    <3>2. PICK i \in In : ObjOffset(i) = j - 1
      BY <1>6, <3>1
    <3> QED  BY <3>1, <3>2
  <2> HIDE DEF obj
  <2> QED  BY <2>1, <2>2
<1>9. ASSUME NEW i \in In
      PROVE  ObjOffset(i) + 1 \in 1 .. n /\ obj[ObjOffset(i) + 1] = whole[i + 1]
  <2> DEFINE k == CHOOSE k \in In : ObjOffset(k) + 1 = ObjOffset(i) + 1
  <2>1. k \in In /\ ObjOffset(k) + 1 = ObjOffset(i) + 1
    OBVIOUS
  <2> HIDE DEF k, In
  <2>2. k \in Nat /\ i \in Nat /\ ObjIndex(k) = ObjIndex(i) /\ ObjOffset(k) = ObjOffset(i)
    BY <1>4, <2>1
  <2>3. k = i
    BY <2>2, BytesKeepApart
  <2>4. ObjOffset(i) + 1 \in DOMAIN obj
    OBVIOUS
  <2>5. obj[ObjOffset(i) + 1] = whole[1 + k]
    BY <2>4 DEF k
  <2> QED  BY <1>8, <2>2, <2>3, <2>4, <2>5
<1>10. obj \in Seq(Byte) /\ Len(obj) = n
  <2>1. ASSUME NEW j \in 1 .. n PROVE obj[j] \in Byte
    <3>1. j - 1 \in Nat /\ j - 1 < n /\ (j - 1) + 1 = j
      BY <1>7
    <3>2. PICK i \in In : ObjOffset(i) = j - 1
      BY <1>6, <3>1
    <3>3. obj[j] = whole[i + 1] /\ i + 1 \in 1 .. ExistingLen
      <4>1. ObjOffset(i) + 1 = j
        BY <3>1, <3>2
      <4>2. obj[j] = whole[i + 1]
        <5>1. obj[ObjOffset(i) + 1] = whole[i + 1]
          BY <1>9
        <5> HIDE DEF obj
        <5> QED  BY <4>1, <5>1
      <4>3. i + 1 \in 1 .. ExistingLen
        BY <1>2, <1>4
      <4> QED  BY <4>2, <4>3
    <3> QED  BY <1>3, <3>3
  <2>2. obj = [j \in 1 .. n |-> obj[j]]
    BY <1>8
  <2> HIDE DEF obj
  <2> QED  BY <1>7, <1>8, <2>1, <2>2, MadeSeq
<1> HIDE DEF obj
<1>11. ASSUME NEW i \in Nat, ObjIndex(i) = s
       PROVE  ByteAt(obj, ObjOffset(i)) = ByteAt(whole, i)
  <2>0. ObjOffset(i) \in Nat
    BY Placed
  <2>1. CASE i < ExistingLen
    <3>1. i \in In
      BY <1>2, <1>11, <2>1
    <3>2. ObjOffset(i) < n /\ obj[ObjOffset(i) + 1] = whole[i + 1]
      BY <1>7, <1>9, <2>0, <3>1
    <3> QED  BY <1>3, <1>10, <2>0, <2>1, <3>2, ByteAtIs
  <2>2. CASE i >= ExistingLen
    <3>1. ~(ObjOffset(i) < n)
      <4> SUFFICES ASSUME ObjOffset(i) < n PROVE FALSE
        OBVIOUS
      <4>1. PICK k \in In : ObjOffset(k) = ObjOffset(i)
        BY <1>6, <2>0
      <4>2. k \in Nat /\ k < ExistingLen /\ ObjIndex(k) = ObjIndex(i)
        BY <1>4, <1>11, <4>1
      <4>3. k = i
        BY <4>1, <4>2, BytesKeepApart
      <4> QED  BY <1>2, <2>2, <4>2, <4>3
    <3> QED  BY <1>2, <1>3, <1>7, <1>10, <2>0, <2>2, <3>1, ByteAtIs
  <2> QED  BY <1>2, <2>1, <2>2
<1>12. ASSUME NEW j \in Nat, j < Len(obj)
       PROVE  \E i \in Nat : i < Len(whole) /\ ObjIndex(i) = s /\ ObjOffset(i) = j
  BY <1>3, <1>4, <1>6, <1>10, <1>12
<1>13. ASSUME NEW i \in Nat, i < Len(whole), ObjIndex(i) = s
       PROVE  ObjOffset(i) < Len(obj)
  <2>1. i \in In
    BY <1>2, <1>3, <1>13
  <2> QED  BY <1>6, <1>10, <2>1, Placed
<1> QED  BY <1>1, <1>3, <1>10, <1>11, <1>12, <1>13 DEF Holds

-----------------------------------------------------------------------------
(***************************************************************************)
(* The objects hold the file: the inductive invariant.                     *)
(***************************************************************************)

Transfer == [piece : PieceRecord, off : Nat, file : Nat, no : Nat,
             kind : {"read", "write"}, st : {"sent", "done", "failed", "lost"}]
Handle == [file : Nat, size : Nat, fpos : Nat, pos : Nat]

BytesTypes ==
  /\ fd \in [Clients -> Handle]
  /\ buf \in [Clients -> Seq(Byte)] /\ want \in [Clients -> Seq(Byte)]
  /\ outs \in [Clients -> SUBSET Transfer]
  /\ ops \in Nat

\* A file that is not being made any more.
Known(f) == f \in DOMAIN files /\ \A d \in Clients : at[d] \in Making => op[d].file # f

\* A file nobody wrote.
Blank(f) == files[f].data = <<>> /\ \A s \in Servers : files[f].dso[s].bytes = <<>>

InChunk(r) ==
  /\ r.piece.obj = ObjIndex(r.off) /\ r.piece.at = ObjOffset(r.off)
  /\ (r.off % chunk_size) + r.piece.len <= chunk_size

HoldsBytes(f) ==
  /\ files[f].data \in Seq(Byte)
  /\ \A s \in Servers :
       /\ files[f].dso[s].bytes \in Seq(Byte)
       /\ files[f].dso[s].exists => Holds(s, files[f].dso[s].bytes, files[f].data)

OutsInv(c) ==
  \A r \in outs[c] :
    /\ InChunk(r) /\ Known(r.file)
    /\ r.kind = "write" => r.piece.buf + r.piece.len <= Len(buf[c])

OpenInv(c) ==
  /\ fd[c].file # 0 => Known(fd[c].file)
  /\ op[c].size \in Nat /\ op[c].count \in Nat
  /\ at[c] \in {"again", "stat", "load"} => Known(op[c].file)
  /\ at[c] = "again" => op[c].i = 0
  /\ at[c] = "stat" => op[c].i \in Servers /\ op[c].other \in DOMAIN files
  /\ at[c] \in Making => Blank(op[c].file)

\* No transfer is begun anew where the first one could not be (see Outcomes).
NoRestart == "restart" \notin Mishaps

StripeInv ==
  /\ NoRestart /\ FilesInv /\ BytesTypes
  /\ \A f \in DOMAIN files : HoldsBytes(f)
  /\ \A c \in Clients : OpenInv(c) /\ OutsInv(c)

LEMMA StripesHold == StripeInv => StripesHoldFile
<1> SUFFICES ASSUME StripeInv, NEW f \in DOMAIN files, NEW s \in Servers, files[f].dso[s].exists
             PROVE  LET whole == files[f].data
                        bytes == files[f].dso[s].bytes
                        Mapped(i, j) == ObjIndex(i) = s /\ ObjOffset(i) = j
                    IN  /\ \A i \in 0 .. Len(whole) - 1 :
                             ObjIndex(i) = s => ByteAt(bytes, ObjOffset(i)) = whole[i + 1]
                        /\ \A j \in 0 .. Len(bytes) - 1 : \E i \in 0 .. Len(whole) - 1 : Mapped(i, j)
  BY DEF StripesHoldFile
<1> DEFINE whole == files[f].data
           bytes == files[f].dso[s].bytes
<1>1. whole \in Seq(Byte) /\ bytes \in Seq(Byte) /\ Holds(s, bytes, whole)
  BY DEF StripeInv, HoldsBytes
<1> HIDE DEF whole, bytes
<1>2. ASSUME NEW i \in 0 .. Len(whole) - 1, ObjIndex(i) = s
      PROVE  ByteAt(bytes, ObjOffset(i)) = whole[i + 1]
  <2>1. i \in Nat /\ i < Len(whole)
    BY <1>1
  <2> QED  BY <1>1, <1>2, <2>1, ByteAtIs DEF Holds
<1>3. ASSUME NEW j \in 0 .. Len(bytes) - 1
      PROVE  \E i \in 0 .. Len(whole) - 1 : ObjIndex(i) = s /\ ObjOffset(i) = j
  <2>1. j \in Nat /\ j < Len(bytes)
    BY <1>1
  <2>2. PICK i \in Nat : i < Len(whole) /\ ObjIndex(i) = s /\ ObjOffset(i) = j
    BY <1>1, <2>1 DEF Holds
  <2>3. i \in 0 .. Len(whole) - 1
    BY <1>1, <2>2
  <2> QED  BY <2>2, <2>3
<1> QED  BY <1>2, <1>3 DEF whole, bytes

LEMMA StripeInit == NoRestart /\ Init => StripeInv
<1> SUFFICES ASSUME NoRestart, Init PROVE StripeInv
  OBVIOUS
<1>1. FilesInv
  BY FilesInit
<1>2. BytesTypes
  <2>1. NoFile \in Handle
    BY DEF NoFile, Handle
  <2>2. [i \in 1 .. MaxLen |-> Unset] \in Seq(Byte)
    <3> DEFINE b == [i \in 1 .. MaxLen |-> Unset]
    <3>1. DOMAIN b = 1 .. MaxLen /\ b = [i \in 1 .. MaxLen |-> b[i]]
          /\ \A i \in 1 .. MaxLen : b[i] \in Byte
      BY HoleIs
    <3>2. MaxLen \in Nat
      BY FsAssumption
    <3> HIDE DEF b
    <3>3. b \in Seq(Byte)
      BY <3>1, <3>2, MadeSeq
    <3> QED  BY <3>3 DEF b
  <2> QED  BY <2>1, <2>2 DEF Init, BytesTypes
<1>3. ASSUME NEW f \in DOMAIN files PROVE HoldsBytes(f)
  <2>1. files[f] = OldFile
    BY <1>3 DEF Init
  <2> QED  BY <2>1, OldHolds, ServersAre DEF HoldsBytes
<1>4. ASSUME NEW c \in Clients PROVE OpenInv(c) /\ OutsInv(c)
  BY Zenon DEF Init, OpenInv, OutsInv, NoOp, NoFile, Making
<1> QED  BY <1>1, <1>2, <1>3, <1>4 DEF StripeInv

-----------------------------------------------------------------------------
\* Nothing a process holds changes but c's.
Quiet(c) ==
  \A d \in Clients : d # c =>
    /\ at'[d] = at[d] /\ op'[d] = op[d] /\ fd'[d] = fd[d] /\ outs'[d] = outs[d]
    /\ buf'[d] = buf[d] /\ want'[d] = want[d]

\* c makes no file that was there, unless it made it already.
MakesOwn(c) ==
  at'[c] \in Making =>
    (at[c] \in Making /\ op'[c].file = op[c].file) \/ op'[c].file \notin DOMAIN files

\* An object without bytes, of a file that has none if the object is to be read.
Hollow(x, f) == x = Gone \/ (x = Empty /\ Blank(f))

\* The bytes of a file stay, or objects come or go.
Kept(f) ==
  /\ f \in DOMAIN files' /\ files'[f].data = files[f].data
  /\ \A s \in Servers : \/ /\ files'[f].dso[s].bytes = files[f].dso[s].bytes
                           /\ files'[f].dso[s].exists = files[f].dso[s].exists
                        \/ Hollow(files'[f].dso[s], f)

\* A file that is new has nothing on any server.
FilesKept ==
  /\ \A f \in DOMAIN files : Kept(f)
  /\ \A f \in DOMAIN files' : f \in DOMAIN files \/ files'[f] = NewFile

LEMMA EmptyHolds == \A s : Holds(s, <<>>, <<>>)
<1>1. Len(<<>>) = 0 /\ \A i \in Nat : ~(i < 0)
  OBVIOUS
<1>2. \A i \in Nat : ByteAt(<<>>, ObjOffset(i)) = Hole /\ ByteAt(<<>>, i) = Hole
  <2>1. \A i \in Nat : ObjOffset(i) \in Nat
    BY Placed
  <2> QED  BY <1>1, <2>1 DEF ByteAt
<1> QED  BY <1>1, <1>2 DEF Holds

LEMMA KeptHolds ==
  ASSUME NEW f, HoldsBytes(f), Kept(f)
  PROVE  HoldsBytes(f)' /\ (Blank(f) => Blank(f)')
<1>1. ASSUME NEW s \in Servers
      PROVE  /\ files'[f].dso[s].bytes \in Seq(Byte)
             /\ files'[f].dso[s].exists => Holds(s, files'[f].dso[s].bytes, files'[f].data)
             /\ Blank(f) => files'[f].dso[s].bytes = <<>>
  <2>1. CASE /\ files'[f].dso[s].bytes = files[f].dso[s].bytes
             /\ files'[f].dso[s].exists = files[f].dso[s].exists
    BY <2>1 DEF HoldsBytes, Kept, Blank
  <2>2. CASE files'[f].dso[s] = Gone
    BY <2>2 DEF Gone
  <2>3. CASE files'[f].dso[s] = Empty /\ Blank(f)
    BY <2>3, EmptyHolds DEF Empty, Kept, Blank
  <2> QED  BY <2>1, <2>2, <2>3 DEF Kept, Hollow
<1> QED  BY <1>1 DEF HoldsBytes, Kept, Blank, Servers, Holds

LEMMA NewHolds ==
  ASSUME NEW f, files'[f] = NewFile
  PROVE  HoldsBytes(f)' /\ Blank(f)'
<1>1. <<>> \in Seq(Byte)
  OBVIOUS
<1>2. /\ files'[f].data = <<>>
      /\ \A s \in Servers : files'[f].dso[s].bytes = <<>> /\ ~files'[f].dso[s].exists
  BY DEF NewFile, Gone
<1> QED  BY <1>1, <1>2, ServersStay DEF HoldsBytes, Blank

LEMMA KnownStays ==
  ASSUME NEW c \in Clients, Quiet(c), MakesOwn(c), DOMAIN files \subseteq DOMAIN files',
         NEW f, Known(f)
  PROVE  Known(f)'
BY DEF Known, Quiet, MakesOwn

\* What is to be shown of a step.
LEMMA StripeFrame ==
  ASSUME StripeInv, FilesInv', NEW c \in Clients, Quiet(c), MakesOwn(c), BytesTypes',
         DOMAIN files \subseteq DOMAIN files',
         \A f \in DOMAIN files' : HoldsBytes(f)',
         \A d \in Clients : d # c /\ at[d] \in Making => Blank(op[d].file)',
         OpenInv(c)', OutsInv(c)'
  PROVE  StripeInv'
<1>1. \A f : Known(f) => Known(f)'
  BY KnownStays
<1>2. ASSUME NEW d \in Clients, d # c PROVE OpenInv(d)' /\ OutsInv(d)'
  <2>1. OpenInv(d) /\ OutsInv(d)
    BY DEF StripeInv
  <2>2. /\ at'[d] = at[d] /\ op'[d] = op[d] /\ fd'[d] = fd[d] /\ outs'[d] = outs[d]
        /\ buf'[d] = buf[d]
    BY <1>2 DEF Quiet
  <2>3. OpenInv(d)'
    BY <1>1, <1>2, <2>1, <2>2, ServersStay DEF OpenInv
  <2>4. OutsInv(d)'
    BY <1>1, <2>1, <2>2 DEF OutsInv, InChunk
  <2> QED  BY <2>3, <2>4
<1> QED  BY <1>2 DEF StripeInv

\* And of one that stores nothing.
LEMMA KeptFrame ==
  ASSUME StripeInv, FilesInv', NEW c \in Clients, Quiet(c), MakesOwn(c), BytesTypes',
         FilesKept, OpenInv(c)', OutsInv(c)'
  PROVE  StripeInv'
<1>1. DOMAIN files \subseteq DOMAIN files'
  BY DEF FilesKept, Kept
<1>2. ASSUME NEW f \in DOMAIN files' PROVE HoldsBytes(f)'
  BY KeptHolds, NewHolds DEF FilesKept, StripeInv
<1>3. ASSUME NEW d \in Clients, d # c, at[d] \in Making PROVE Blank(op[d].file)'
  <2>1. Blank(op[d].file) /\ op[d].file \in DOMAIN files
    BY <1>3 DEF StripeInv, OpenInv, FilesInv, WorkInv, Working
  <2>2. op'[d] = op[d]
    BY <1>3 DEF Quiet
  <2> QED  BY <2>1, <2>2, KeptHolds DEF FilesKept, StripeInv
<1> QED  BY <1>1, <1>2, <1>3, StripeFrame

-----------------------------------------------------------------------------
(***************************************************************************)
(* Which steps touch what.                                                 *)
(***************************************************************************)

\* The step of one process.
Step(c) ==
  \/ Begin(c) \/ Lookup(c) \/ LookupAgain(c) \/ Stat(c) \/ LoadMo(c)
  \/ CreateContainer(c) \/ CreateAcl(c) \/ CreateDso(c) \/ CollideDso(c)
  \/ StoreMo(c) \/ NameFile(c)
  \/ Link(c) \/ Unlink(c) \/ ReloadMo(c) \/ RemoveDso(c) \/ RemoveMo(c)
  \/ CallFails(c) \/ Crash(c)
  \/ Seek(c) \/ StartIo(c) \/ Overrun(c) \/ TransferWrite(c) \/ TransferRead(c)
  \/ TransferFails(c) \/ IoDone(c) \/ IoFails(c)
  \/ CloseFile(c)

LEMMA UnlinkIs ==
  ASSUME NEW c \in Clients, Unlink(c)
  PROVE  LET f == entries[Name(c)]
         IN  /\ at[c] = "unlink"
             /\ \/ f = 0 /\ Done(c) /\ UNCHANGED <<entries, files>>
                \/ /\ f # 0 /\ entries' = [entries EXCEPT ![Name(c)] = 0]
                   /\ files' = [files EXCEPT ![f].links = @ - 1]
                   /\ \/ Set(c, [op[c] EXCEPT !.file = f, !.i = 0]) /\ Goto(c, "reload")
                      \/ Done(c)
             /\ UNCHANGED <<ops, faults, Io>>
BY DEF Unlink, UnlinkIf

\* The other processes' state stays.
LEMMA QuietSteps ==
  ASSUME StripeInv, NEW c \in Clients, Step(c)
  PROVE  Quiet(c)
<1> USE DEF Goto, Set, Done, Io, Quiet
<1>0. /\ DOMAIN at = Clients /\ DOMAIN op = Clients /\ DOMAIN fd = Clients
      /\ DOMAIN buf = Clients /\ DOMAIN want = Clients /\ DOMAIN outs = Clients
  BY Zenon DEF StripeInv, FilesInv, Shapes, BytesTypes
<1>1. CASE Begin(c) \/ Lookup(c) \/ LookupAgain(c) \/ Stat(c) \/ LoadMo(c)
  BY <1>0, <1>1, Zenon DEF Begin, Lookup, LookupAgain, Stat, LoadMo
<1>2. CASE CreateContainer(c) \/ CreateAcl(c) \/ CreateDso(c) \/ CollideDso(c) \/ StoreMo(c)
  BY <1>0, <1>2 DEF CreateContainer, CreateAcl, CreateDso, CollideDso, StoreMo
<1>3. CASE NameFile(c) \/ Link(c) \/ ReloadMo(c) \/ RemoveDso(c) \/ RemoveMo(c)
  BY <1>0, <1>3 DEF NameFile, Link, ReloadMo, RemoveDso, RemoveMo
<1>4. CASE Unlink(c)
  <2>1. UNCHANGED <<fd, buf, want, outs>>
    BY <1>4, UnlinkIs, Zenon
  <2>2. /\ at' \in {[at EXCEPT ![c] = "idle"], [at EXCEPT ![c] = "reload"]}
        /\ \E o : op' = [op EXCEPT ![c] = o]
    <3>1. CASE Done(c)
      BY <3>1
    <3>2. CASE ~Done(c)
      <4>1. PICK o : Set(c, o) /\ Goto(c, "reload")
        BY <1>4, <3>2, UnlinkIs, Zenon
      <4> QED  BY <4>1
    <3> QED  BY <3>1, <3>2
  <2> QED  BY <1>0, <2>1, <2>2
<1>5. CASE CallFails(c) \/ Crash(c) \/ Seek(c) \/ CloseFile(c)
  BY <1>0, <1>5, Zenon DEF CallFails, Crash, Seek, CloseFile
<1>6. CASE StartIo(c) \/ Overrun(c)
  BY <1>0, <1>6, ZenonT(60) DEF StartIo, Overrun, BeginIo
<1>7. CASE TransferWrite(c) \/ TransferRead(c) \/ TransferFails(c)
  BY <1>0, <1>7, Zenon DEF TransferWrite, TransferRead, TransferFails, Answer
<1>8. CASE IoDone(c) \/ IoFails(c)
  BY <1>0, <1>8 DEF IoDone, IoFails, LeaveSent
<1> QED  BY <1>1, <1>2, <1>3, <1>4, <1>5, <1>6, <1>7, <1>8 DEF Step

\* A change of one file that leaves its bytes, or takes or gives it an empty object.
LEMMA KeptParts ==
  ASSUME NEW h \in DOMAIN files, NEW new, files' = [files EXCEPT ![h] = new],
         new.data = files[h].data,
         \A s \in Servers : new.dso[s] = files[h].dso[s] \/ Hollow(new.dso[s], h)
  PROVE  FilesKept
<1>1. /\ DOMAIN files' = DOMAIN files /\ files'[h] = new
      /\ \A f \in DOMAIN files : f # h => files'[f] = files[f]
  OBVIOUS
<1>2. Kept(h)
  BY <1>1 DEF Kept
<1>3. \A f \in DOMAIN files : f # h => Kept(f)
  BY <1>1 DEF Kept
<1> QED  BY <1>1, <1>2, <1>3 DEF FilesKept

LEMMA NothingKept == ASSUME UNCHANGED files PROVE FilesKept
BY DEF FilesKept, Kept

LEMMA KeptSteps ==
  ASSUME StripeInv, NEW c \in Clients, Step(c), ~TransferWrite(c)
  PROVE  FilesKept
<1> USE DEF Goto, Set, Done
<1> DEFINE g == op[c].file
<1>0. /\ at[c] \in Working \/ at[c] \in {"container"} => DOMAIN op[c] = DOMAIN NoOp
      /\ at[c] \in Working => g \in DOMAIN files
      /\ \A f \in DOMAIN files : HasParts(f)
      /\ at[c] \in {"dso", "remove"} => op[c].i \in Servers
      /\ at[c] \in Making => Blank(g)
      /\ \A n \in Names : entries[n] \in DOMAIN files \cup {0}
      /\ at[c] \in Named => op[c].name \in Names
  BY DEF StripeInv, FilesInv, Shapes, WorkInv, OpenInv
<1>k. /\ {"acl", "dso", "mo", "name"} \subseteq Working /\ {"remove", "removeMo"} \subseteq Working
      /\ {"link", "unlink"} \subseteq Named /\ Making = {"acl", "dso", "mo", "name"}
      /\ Working \subseteq Named
  BY DEF Working, Making, Removing, Named
<1>1. CASE UNCHANGED files
  BY <1>1, NothingKept
<1>2. CASE CreateContainer(c)
  <2>1. files' = Append(files, NewFile)
    BY <1>2 DEF CreateContainer
  <2>2. /\ DOMAIN files' = DOMAIN files \cup {Len(files) + 1}
        /\ \A f \in DOMAIN files : files'[f] = files[f]
        /\ files'[Len(files) + 1] = NewFile
    BY <2>1, Typed DEF StripeInv
  <2> QED  BY <2>2 DEF FilesKept, Kept
<1>3. ASSUME NEW f \in DOMAIN files, NEW k \in {"acl", "mo", "links"}, NEW x,
             files' = [files EXCEPT ![f] = [@ EXCEPT ![k] = x]]
      PROVE  FilesKept
  <2> DEFINE r == [files[f] EXCEPT ![k] = x]
  <2>1. r.data = files[f].data /\ r.dso = files[f].dso
    BY <1>0, <1>3 DEF HasParts
  <2>2. files' = [files EXCEPT ![f] = r]
    BY <1>3
  <2> HIDE DEF r
  <2> QED  BY <2>1, <2>2, KeptParts
<1>4. CASE CreateAcl(c)
  <2>1. files' = [files EXCEPT ![g] = [@ EXCEPT !["acl"] = TRUE]] /\ g \in DOMAIN files
    BY <1>0, <1>k, <1>4 DEF CreateAcl
  <2> QED  BY <1>3, <2>1
<1>5. CASE StoreMo(c)
  <2>1. files' = [files EXCEPT ![g] = [@ EXCEPT !["mo"] = files[g].mo + 1]] /\ g \in DOMAIN files
    BY <1>0, <1>k, <1>5 DEF StoreMo
  <2> QED  BY <1>3, <2>1
<1>6. CASE RemoveMo(c)
  <2>1. files' = [files EXCEPT ![g] = [@ EXCEPT !["mo"] = 0]] /\ g \in DOMAIN files
    BY <1>0, <1>k, <1>6 DEF RemoveMo
  <2> QED  BY <1>3, <2>1
<1>7. CASE NameFile(c)
  <2>1. UNCHANGED files \/ files' = [files EXCEPT ![g] = [@ EXCEPT !["links"] = 1]]
    BY <1>7 DEF NameFile
  <2>2. g \in DOMAIN files
    BY <1>0, <1>k, <1>7 DEF NameFile
  <2> QED  BY <1>1, <1>3, <2>1, <2>2
<1> DEFINE e == entries[Name(c)]
<1>8. CASE Link(c)
  <2>1. at[c] = "link"
    BY <1>8 DEF Link
  <2>2. e \in DOMAIN files \cup {0}
    BY <1>0, <1>k, <2>1 DEF Name
  <2>3. \/ UNCHANGED files
        \/ e # 0 /\ files' = [files EXCEPT ![e] = [@ EXCEPT !["links"] = files[e].links + 1]]
    BY <1>8 DEF Link
  <2> HIDE DEF e
  <2> QED  BY <1>1, <1>3, <2>2, <2>3
<1>9. CASE Unlink(c)
  <2>1. at[c] = "unlink"
    BY <1>9, UnlinkIs, Zenon
  <2>2. e \in DOMAIN files \cup {0}
    BY <1>0, <1>k, <2>1 DEF Name
  <2>3. \/ UNCHANGED files
        \/ e # 0 /\ files' = [files EXCEPT ![e] = [@ EXCEPT !["links"] = files[e].links - 1]]
    BY <1>9, UnlinkIs, Zenon
  <2> HIDE DEF e
  <2> QED  BY <1>1, <1>3, <2>2, <2>3
<1>10. ASSUME NEW x, NEW i \in Servers, g \in DOMAIN files, Hollow(x, g),
              files' = [files EXCEPT ![g].dso[i] = x]
       PROVE  FilesKept
  <2> DEFINE objs == [files[g].dso EXCEPT ![i] = x]
             r == [files[g] EXCEPT !.dso = objs]
  <2>1. r.data = files[g].data /\ r.dso = objs
    BY <1>0, <1>10 DEF HasParts
  <2>2. \A s \in Servers : objs[s] = files[g].dso[s] \/ objs[s] = x
    BY <1>0, <1>10 DEF HasParts
  <2>3. files' = [files EXCEPT ![g] = r]
    BY <1>10
  <2> HIDE DEF r, objs
  <2>4. \A s \in Servers : r.dso[s] = files[g].dso[s] \/ Hollow(r.dso[s], g)
    BY <1>10, <2>1, <2>2
  <2> QED  BY <1>10, <2>1, <2>3, <2>4, KeptParts
<1>11. CASE CreateDso(c) \/ RemoveDso(c)
  <2>1. g \in DOMAIN files /\ op[c].i \in Servers
    BY <1>0, <1>k, <1>11 DEF CreateDso, RemoveDso
  <2>2. CASE CreateDso(c)
    <3>1. files' = [files EXCEPT ![g].dso[op[c].i] = Empty] /\ Hollow(Empty, g)
      BY <1>0, <1>k, <2>2 DEF CreateDso, Hollow
    <3> QED  BY <1>10, <2>1, <3>1
  <2>3. CASE RemoveDso(c)
    <3>1. files' = [files EXCEPT ![g].dso[op[c].i] = Gone] /\ Hollow(Gone, g)
      BY <2>3 DEF RemoveDso, Hollow
    <3> QED  BY <1>10, <2>1, <3>1, Zenon
  <2> QED  BY <1>11, <2>2, <2>3
<1>12. CASE Begin(c) \/ Lookup(c) \/ LookupAgain(c) \/ Stat(c) \/ LoadMo(c) \/ CollideDso(c)
            \/ ReloadMo(c) \/ CallFails(c) \/ Crash(c) \/ Seek(c) \/ CloseFile(c)
  BY <1>1, <1>12, ZenonT(60) DEF Begin, Lookup, LookupAgain, Stat, LoadMo, CollideDso, ReloadMo,
     CallFails, Crash, Seek, CloseFile
<1>13. CASE StartIo(c) \/ Overrun(c) \/ TransferRead(c) \/ TransferFails(c) \/ IoDone(c)
            \/ IoFails(c)
  BY <1>1, <1>13, Zenon DEF StartIo, Overrun, BeginIo, TransferRead, TransferFails, IoDone, IoFails
<1> QED  BY <1>2, <1>4, <1>5, <1>6, <1>7, <1>8, <1>9, <1>11, <1>12, <1>13 DEF Step

\* Whose file is made next.
LEMMA MakesSteps ==
  ASSUME StripeInv, NEW c \in Clients, Step(c)
  PROVE  MakesOwn(c)
<1> USE DEF Goto, Set, Done, MakesOwn, Making
<1>0. /\ DOMAIN at = Clients /\ DOMAIN op = Clients /\ DOMAIN op[c] = DOMAIN NoOp
  BY Zenon DEF StripeInv, FilesInv, Shapes
<1>1. CASE Begin(c) \/ Lookup(c) \/ LookupAgain(c) \/ Stat(c) \/ LoadMo(c)
  BY <1>0, <1>1, Zenon DEF Begin, Lookup, LookupAgain, Stat, LoadMo
<1>2. CASE CreateContainer(c)
  <2>1. op'[c].file = Len(files) + 1
    BY <1>0, <1>2 DEF CreateContainer, NoOp
  <2>2. Len(files) + 1 \notin DOMAIN files
    BY Typed DEF StripeInv
  <2> QED  BY <2>1, <2>2
<1>3. CASE CreateAcl(c) \/ CreateDso(c) \/ CollideDso(c) \/ StoreMo(c) \/ NameFile(c)
  BY <1>0, <1>3, ZenonT(60) DEF CreateAcl, CreateDso, CollideDso, StoreMo, NameFile, NoOp
<1>4. CASE Unlink(c)
  BY <1>0, <1>4, UnlinkIs, Zenon
<1>5. CASE Link(c) \/ ReloadMo(c) \/ RemoveDso(c) \/ RemoveMo(c) \/ CallFails(c) \/ Crash(c)
  BY <1>0, <1>5 DEF Link, ReloadMo, RemoveDso, RemoveMo, CallFails, Crash
<1>6. CASE Seek(c) \/ CloseFile(c) \/ StartIo(c) \/ Overrun(c)
  BY <1>0, <1>6, ZenonT(60) DEF Seek, CloseFile, StartIo, Overrun, BeginIo
<1>7. CASE TransferWrite(c) \/ TransferRead(c) \/ TransferFails(c) \/ IoDone(c) \/ IoFails(c)
  BY <1>0, <1>7, Zenon DEF TransferWrite, TransferRead, TransferFails, IoDone, IoFails
<1> QED  BY <1>1, <1>2, <1>3, <1>4, <1>5, <1>6, <1>7 DEF Step

-----------------------------------------------------------------------------
(***************************************************************************)
(* Types of what a process holds.                                          *)
(***************************************************************************)

\* What reading and writing make of the types of what a process holds.
LEMMA HandleField ==
  ASSUME NEW h \in Handle, NEW n \in Nat
  PROVE  /\ [h EXCEPT !.pos = n] \in Handle
         /\ [h EXCEPT !.fpos = n] \in Handle
BY DEF Handle

LEMMA TransferIs ==
  ASSUME NEW p \in PieceRecord, NEW off \in Nat, NEW f \in Nat, NEW no \in Nat,
         NEW kind \in {"read", "write"}
  PROVE  Sent(p, off, f, no, kind) \in Transfer
BY DEF Sent, Transfer

\* A transfer with its answer.
Answered(r, x) == [r EXCEPT !.st = x]

LEMMA AnsweredIs ==
  ASSUME NEW r \in Transfer, NEW x \in {"done", "failed", "lost"}
  PROVE  /\ Answered(r, x) \in Transfer /\ Answered(r, x).st = x
         /\ Answered(r, x).piece = r.piece /\ Answered(r, x).off = r.off
         /\ Answered(r, x).file = r.file /\ Answered(r, x).kind = r.kind
         /\ Answered(r, x).no = r.no
BY DEF Transfer, Answered

LEMMA AnswerIs ==
  ASSUME BytesTypes, NEW c \in Clients, NEW r \in outs[c], NEW x \in {"done", "failed", "lost"},
         Answer(c, r, x)
  PROVE  /\ outs' \in [Clients -> SUBSET Transfer]
         /\ outs'[c] = (outs[c] \ {r}) \cup {Answered(r, x)}
<1>1. r \in Transfer
  BY DEF BytesTypes
<1>2. Answered(r, x) \in Transfer
  BY <1>1, AnsweredIs
<1>3. outs' = [outs EXCEPT ![c] = (outs[c] \ {r}) \cup {Answered(r, x)}]
  BY DEF Answer, Answered
<1>4. outs[c] \in SUBSET Transfer /\ outs \in [Clients -> SUBSET Transfer]
  BY DEF BytesTypes
<1> QED  BY <1>2, <1>3, <1>4

LEMMA WrittenIs ==
  ASSUME NEW n \in Nat, NEW no \in Nat
  PROVE  [i \in 1 .. n |-> <<no, i>>] \in Seq(Byte) /\ Len([i \in 1 .. n |-> <<no, i>>]) = n
<1> DEFINE w == [i \in 1 .. n |-> <<no, i>>]
<1>1. DOMAIN w = 1 .. n /\ w = [i \in 1 .. n |-> w[i]] /\ \A i \in 1 .. n : w[i] \in Byte
  BY DEF Byte
<1> HIDE DEF w
<1>2. w \in Seq(Byte) /\ Len(w) = n
  BY <1>1, MadeSeq
<1> QED  BY <1>2 DEF w

\* The transfers it begins.
LEMMA SentAre ==
  ASSUME NEW off \in Nat, NEW n \in Nat \ {0}, NEW p \in Range(Pieces(off, n))
  PROVE  /\ p \in PieceRecord /\ IsPiece(p, off, n)
         /\ p.buf \in Nat /\ p.len \in Nat \ {0} /\ p.buf + p.len <= n
         /\ off + p.buf \in Nat
         /\ p.obj = ObjIndex(off + p.buf) /\ p.at = ObjOffset(off + p.buf)
         /\ ((off + p.buf) % chunk_size) + p.len <= chunk_size
<1>1. CoversFrom(Pieces(off, n), off, n, 0)
  BY PiecesAre
<1> DEFINE ps == Pieces(off, n)
<1>2. ps \in Seq(PieceRecord) /\ \A q \in Range(ps) : IsPiece(q, off, n)
  BY <1>1 DEF CoversFrom
<1> HIDE DEF ps
<1>3. p \in PieceRecord
  <2>1. PICK i \in DOMAIN ps : p = ps[i]
    BY DEF ps, Range
  <2> QED  BY <1>2, <2>1
<1>4. IsPiece(p, off, n)
  BY <1>2 DEF ps
<1>5. p = Piece(off + p.buf, p.buf, p.len)
  BY <1>4 DEF IsPiece
<1>6. p.obj = ObjIndex(off + p.buf) /\ p.at = ObjOffset(off + p.buf)
  <2> DEFINE b == p.buf
             l == p.len
  <2>1. Piece(off + b, b, l).obj = ObjIndex(off + b) /\ Piece(off + b, b, l).at = ObjOffset(off + b)
    BY DEF Piece
  <2> HIDE DEF b, l
  <2>2. p = Piece(off + b, b, l)
    BY <1>5 DEF b, l
  <2> QED  BY <2>1, <2>2 DEF b
<1> QED  BY <1>3, <1>4, <1>6 DEF IsPiece, PieceRecord

\* What a read or a write of the application begins: the transfers sent of left bytes, all
\* of them or those up to some place, unless codes are taken for numbers of bytes.
Begun(c, kind, count, left, sent, cc, ok) ==
  LET h == fd[c]
      whole == Range(Pieces(h.pos, left))
  IN  /\ left <= count /\ (kind = "write" => left = count)
      /\ kind = "read" => h.fpos + left <= h.size
      /\ MayDo(c, h, kind, count) /\ h \in Handle
      /\ sent \subseteq whole
      /\ \A p \in whole, q \in sent : p.buf < q.buf => p \in sent
      /\ "refused" \notin Mishaps => cc = left /\ (ok => sent = whole)
      /\ at' = [at EXCEPT ![c] = "io"]
      /\ op' = [op EXCEPT ![c] =
           [NoOp EXCEPT !.kind = kind, !.no = ops + 1, !.count = cc, !.ok = ok]]
      /\ fd' = [fd EXCEPT ![c].fpos = IF ok THEN @ + cc ELSE @]
      /\ outs' = [outs EXCEPT ![c] = @ \cup
           {Sent(p, h.pos + p.buf, h.file, ops + 1, kind) : p \in sent}]
      /\ buf' = IF kind = "read" THEN buf
                ELSE [buf EXCEPT ![c] = Stored(@, 0, [i \in 1 .. count |-> <<ops + 1, i>>])]
      /\ want' = [want EXCEPT ![c] =
           IF kind = "read" THEN Stored(@, 0, [i \in 1 .. cc |-> EndOfFile]) ELSE buf'[c]]
      /\ ops' = ops + 1
      /\ UNCHANGED <<entries, files>>

LEMMA OutcomeIs ==
  ASSUME NoRestart, NEW off \in Nat, NEW left \in Nat \ {0}, NEW r \in Outcomes(off, left)
  PROVE  LET whole == Range(Pieces(off, left))
         IN  /\ r.cc \in Nat /\ r.ok \in BOOLEAN /\ r.sent \subseteq whole
             /\ \A p \in whole, q \in r.sent : p.buf < q.buf => p \in r.sent
             /\ "refused" \notin Mishaps => r.cc = left /\ (r.ok => r.sent = whole)
<1> DEFINE whole == Range(Pieces(off, left))
           all == [sent |-> whole, cc |-> left, ok |-> TRUE, met |-> 0]
           begun == {{p \in whole : p.buf < upto} : upto \in {p.buf : p \in whole} \cup {left}}
<1>1. \A p \in whole : p.buf \in Nat
  BY SentAre
<1>2. CASE r = all
  BY <1>2
<1>3. CASE \E sent \in begun : r = [all EXCEPT !.sent = sent, !.ok = FALSE, !.met = 1]
  <2>1. PICK upto \in {p.buf : p \in whole} \cup {left} :
          r = [all EXCEPT !.sent = {p \in whole : p.buf < upto}, !.ok = FALSE, !.met = 1]
    BY <1>3
  <2>2. r.sent = {p \in whole : p.buf < upto} /\ r.ok = FALSE /\ r.cc = left
    BY <2>1
  <2>3. upto \in Nat
    BY <1>1
  <2>4. \A p \in whole, q \in r.sent : p.buf < q.buf => p \in r.sent
    <3> SUFFICES ASSUME NEW p \in whole, NEW q \in r.sent, p.buf < q.buf
                 PROVE  p.buf < upto
      BY <2>2
    <3> HIDE DEF whole
    <3>1. q \in whole /\ q.buf < upto
      BY <2>2
    <3>2. p.buf \in Nat /\ q.buf \in Nat
      BY <1>1, <3>1
    <3> QED  BY <2>3, <3>1, <3>2
  <2>5. r.cc \in Nat /\ r.ok \in BOOLEAN /\ r.sent \subseteq whole /\ (r.ok => FALSE)
        /\ r.cc = left
    <3> HIDE DEF whole
    <3> QED  BY <2>2
  <2> QED  BY <2>4, <2>5, Zenon
<1>4. CASE /\ "refused" \in Mishaps
           /\ r = [all EXCEPT !.sent = {}, !.cc = ErrCode, !.met = 1]
  <2>1. r.sent = {} /\ r.ok = TRUE /\ r.cc = ErrCode
    BY <1>4
  <2> QED  BY <1>4, <2>1, FsAssumption
<1>5. r = all \/ (\E sent \in begun : r = [all EXCEPT !.sent = sent, !.ok = FALSE, !.met = 1])
      \/ ("refused" \in Mishaps /\ r = [all EXCEPT !.sent = {}, !.cc = ErrCode, !.met = 1])
  <2> DEFINE of(kind, sent, cc) == [kind |-> kind, sent |-> sent, cc |-> cc]
             anew == of("restart", Range(PiecesAnew(off, left)), left)
             none == of("refused", {}, ErrCode)
             mishaps == {h \in {anew, none} : h.kind \in Mishaps}
  <2>1. r \in {all} \/ r \in {[all EXCEPT !.sent = sent, !.ok = FALSE, !.met = 1] : sent \in begun}
        \/ r \in {[all EXCEPT !.sent = h.sent, !.cc = h.cc, !.met = 1] : h \in mishaps}
    BY DEF Outcomes
  <2>2. CASE r \in {[all EXCEPT !.sent = h.sent, !.cc = h.cc, !.met = 1] : h \in mishaps}
    <3> HIDE DEF begun, all
    <3>1. PICK h \in mishaps : r = [all EXCEPT !.sent = h.sent, !.cc = h.cc, !.met = 1]
      BY <2>2
    <3>2. h = none /\ "refused" \in Mishaps
      BY DEF NoRestart
    <3> QED  BY <3>1, <3>2
  <2> HIDE DEF begun, all, mishaps
  <2> QED  BY <2>1, <2>2
<1> QED  BY <1>2, <1>3, <1>4, <1>5

LEMMA StartIs ==
  ASSUME StripeInv, NEW c \in Clients, StartIo(c)
  PROVE  \E kind \in {"read", "write"}, count \in Nat \ {0}, left \in Nat \ {0}, cc \in Nat,
            ok \in BOOLEAN : \E sent : Begun(c, kind, count, left, sent, cc, ok)
<1>1. PICK kind \in {"read", "write"}, count \in Counts :
        LET h == fd[c]
            left == BytesToDo(h, kind, count)
        IN  /\ MayDo(c, h, kind, count)
            /\ left >= 0 /\ (kind = "read" => h.fpos # h.size)
            /\ Goto(c, "io")
            /\ buf' = IF kind = "read" THEN buf
                      ELSE [buf EXCEPT ![c] = Stored(@, 0, [i \in 1 .. count |-> <<ops + 1, i>>])]
            /\ \E r \in Outcomes(h.pos, left) :
                 /\ fd' = [fd EXCEPT ![c].fpos = IF r.ok THEN @ + r.cc ELSE @]
                 /\ outs' = [outs EXCEPT ![c] = @ \cup
                      {Sent(p, h.pos + p.buf, h.file, ops + 1, kind) : p \in r.sent}]
                 /\ want' = [want EXCEPT ![c] =
                      IF kind = "read" THEN Stored(@, 0, [i \in 1 .. r.cc |-> EndOfFile])
                      ELSE buf'[c]]
                 /\ BeginIo(c, kind, r.cc, r.ok)
                 /\ faults' = faults + r.met
  BY DEF StartIo
<1> DEFINE h == fd[c]
           left == BytesToDo(h, kind, count)
<1>2. count \in Nat \ {0}
  BY FsAssumption
<1>3. h \in Handle
  BY DEF StripeInv, BytesTypes
<1>4. h.fpos \in Nat /\ h.size \in Nat /\ h.pos \in Nat
  BY <1>3 DEF Handle
<1>5. /\ left \in Nat \ {0} /\ left <= count
      /\ kind = "write" => left = count
      /\ kind = "read" => h.fpos + left <= h.size
  <2>1. left >= 0 /\ (kind = "read" => h.fpos # h.size)
    BY <1>1
  <2> HIDE DEF h
  <2>2. CASE kind = "read" /\ h.fpos + count > h.size
    <3>1. left = h.size - h.fpos
      BY <2>2 DEF BytesToDo
    <3> HIDE DEF left
    <3> QED  BY <1>2, <1>4, <2>1, <2>2, <3>1
  <2>3. CASE ~(kind = "read" /\ h.fpos + count > h.size)
    <3>1. left = count
      BY <2>3 DEF BytesToDo
    <3> HIDE DEF left
    <3> QED  BY <1>2, <1>4, <2>3, <3>1
  <2> QED  BY <2>2, <2>3
<1>6. PICK r \in Outcomes(h.pos, left) :
        /\ fd' = [fd EXCEPT ![c].fpos = IF r.ok THEN @ + r.cc ELSE @]
        /\ outs' = [outs EXCEPT ![c] = @ \cup
             {Sent(p, h.pos + p.buf, h.file, ops + 1, kind) : p \in r.sent}]
        /\ want' = [want EXCEPT ![c] =
             IF kind = "read" THEN Stored(@, 0, [i \in 1 .. r.cc |-> EndOfFile]) ELSE buf'[c]]
        /\ BeginIo(c, kind, r.cc, r.ok)
  BY <1>1, Zenon
<1>7. LET whole == Range(Pieces(h.pos, left))
      IN  /\ r.cc \in Nat /\ r.ok \in BOOLEAN /\ r.sent \subseteq whole
          /\ \A p \in whole, q \in r.sent : p.buf < q.buf => p \in r.sent
          /\ "refused" \notin Mishaps => r.cc = left /\ (r.ok => r.sent = whole)
  <2> HIDE DEF h, left
  <2>1. NoRestart /\ left \in Nat \ {0} /\ h.pos \in Nat
    BY <1>4, <1>5 DEF StripeInv
  <2> QED  BY <2>1, OutcomeIs
<1>8. Begun(c, kind, count, left, r.sent, r.cc, r.ok)
  BY <1>1, <1>3, <1>5, <1>6, <1>7, Zenon DEF Begun, Goto, BeginIo, Set
<1>9. r.cc \in Nat /\ r.ok \in BOOLEAN /\ left \in Nat \ {0} /\ count \in Nat \ {0}
  BY <1>2, <1>5, <1>7
<1> HIDE DEF left
<1>10. PICK n \in Nat \ {0}, cc \in Nat, ok \in BOOLEAN : n = left /\ cc = r.cc /\ ok = r.ok
  BY <1>9
<1>11. Begun(c, kind, count, n, r.sent, cc, ok)
  BY <1>8, <1>10, Zenon
<1> QED  BY <1>2, <1>11, Zenon

Arrived(r) == SubSeq(Dso(r).bytes, r.piece.at + 1,
                     AtMost(r.piece.at + r.piece.len, Len(Dso(r).bytes)))
Right(r) == [i \in 1 .. r.piece.len |->
               IF r.off + i <= Len(files[r.file].data) THEN files[r.file].data[r.off + i]
               ELSE EndOfFile]

LEMMA OutIs ==
  ASSUME StripeInv, NEW c \in Clients, NEW r \in outs[c]
  PROVE  /\ r \in Transfer /\ r.off \in Nat /\ r.file \in DOMAIN files /\ r.no \in Nat
         /\ r.piece.buf \in Nat /\ r.piece.len \in Nat \ {0}
         /\ r.piece.at \in Nat /\ r.piece.obj \in Servers
         /\ InChunk(r) /\ Known(r.file) /\ HoldsBytes(r.file)
         /\ files[r.file].data \in Seq(Byte) /\ Dso(r).bytes \in Seq(Byte)
<1>1. r \in Transfer
  BY DEF StripeInv, BytesTypes
<1>2. r.off \in Nat /\ r.no \in Nat /\ r.piece.buf \in Nat /\ r.piece.len \in Nat \ {0}
      /\ r.piece.at \in Nat
  BY <1>1 DEF Transfer, PieceRecord
<1>3. InChunk(r) /\ Known(r.file) /\ r.file \in DOMAIN files
  BY DEF StripeInv, OutsInv, Known
<1>4. HoldsBytes(r.file)
  BY <1>3 DEF StripeInv
<1>5. r.piece.obj \in Servers
  BY <1>2, <1>3, Placed DEF InChunk
<1>6. files[r.file].data \in Seq(Byte) /\ Dso(r).bytes \in Seq(Byte)
  BY <1>4, <1>5 DEF HoldsBytes, Dso
<1> QED  BY <1>1, <1>2, <1>3, <1>4, <1>5, <1>6

LEMMA ArrivedIs ==
  ASSUME StripeInv, NEW c \in Clients, NEW r \in outs[c]
  PROVE  /\ Arrived(r) \in Seq(Byte)
         /\ Len(Arrived(r)) <= r.piece.len
         /\ r.piece.at + r.piece.len <= Len(Dso(r).bytes) => Len(Arrived(r)) = r.piece.len
         /\ \A j \in 1 .. Len(Arrived(r)) : Arrived(r)[j] = ByteAt(Dso(r).bytes, r.piece.at + j - 1)
<1> DEFINE bytes == Dso(r).bytes
           a == r.piece.at
           n == r.piece.len
           m == AtMost(a + n, Len(bytes))
           part == SubSeq(bytes, a + 1, m)
<1>1. a \in Nat /\ n \in Nat \ {0} /\ bytes \in Seq(Byte)
  BY OutIs
<1> HIDE DEF bytes, a, n
<1>2. m \in Nat /\ m <= Len(bytes) /\ m <= a + n /\ (a + n <= Len(bytes) => m = a + n)
  BY <1>1 DEF AtMost
<1> HIDE DEF m
<1>3. a + 1 \in Int /\ m \in Int /\ \A i \in a + 1 .. m : bytes[i] \in Byte
  BY <1>1, <1>2
<1>4. /\ part \in Seq(Byte)
      /\ Len(part) = IF a + 1 <= m THEN m - (a + 1) + 1 ELSE 0
      /\ \A i \in 1 .. m - (a + 1) + 1 : part[i] = bytes[(a + 1) + i - 1]
  BY <1>3, SubSeqProperties
<1> HIDE DEF part
<1>5. Len(part) = IF a + 1 <= m THEN m - a ELSE 0
  BY <1>1, <1>2, <1>4
<1>6. ASSUME NEW j \in 1 .. Len(part)
      PROVE  part[j] = ByteAt(bytes, a + j - 1)
  <2>1. a + 1 <= m /\ j <= m - a /\ j \in Nat /\ j >= 1
    BY <1>1, <1>2, <1>5
  <2>2. j \in 1 .. m - (a + 1) + 1 /\ (a + 1) + j - 1 = (a + j - 1) + 1
    BY <1>1, <1>2, <2>1
  <2>3. part[j] = bytes[(a + j - 1) + 1]
    <3>1. part[j] = bytes[(a + 1) + j - 1]
      BY <1>4, <2>2
    <3> QED  BY <2>2, <3>1
  <2>4. a + j - 1 \in Nat /\ a + j - 1 < Len(bytes)
    BY <1>1, <1>2, <2>1
  <2> QED  BY <1>1, <2>3, <2>4, ByteAtIs
<1>7. Len(part) <= n /\ (a + n <= Len(bytes) => Len(part) = n)
  BY <1>1, <1>2, <1>5
<1> QED  BY <1>4, <1>6, <1>7 DEF Arrived, part, m, n, a, bytes

LEMMA RightIs ==
  ASSUME StripeInv, NEW c \in Clients, NEW r \in outs[c]
  PROVE  /\ Right(r) \in Seq(Byte) /\ Len(Right(r)) = r.piece.len
         /\ \A j \in 1 .. r.piece.len : r.off + j <= Len(files[r.file].data) =>
              Right(r)[j] = ByteAt(files[r.file].data, r.off + j - 1)
<1> DEFINE n == r.piece.len
           data == files[r.file].data
           o == r.off
           w == Right(r)
<1>1. n \in Nat /\ data \in Seq(Byte) /\ o \in Nat
  BY OutIs
<1>2. w = [i \in 1 .. n |-> IF o + i <= Len(data) THEN data[o + i] ELSE EndOfFile]
  BY DEF Right
<1> HIDE DEF n, data, w, o
<1>3. ASSUME NEW i \in 1 .. n PROVE w[i] \in Byte
  <2>1. CASE o + i <= Len(data)
    <3>1. o + i \in 1 .. Len(data)
      BY <1>1, <2>1
    <3> QED  BY <1>1, <1>2, <2>1, <3>1
  <2>2. CASE ~(o + i <= Len(data))
    BY <1>2, <2>2, HoleIs
  <2> QED  BY <2>1, <2>2
<1>4. w \in Seq(Byte) /\ Len(w) = n
  <2>1. DOMAIN w = 1 .. n /\ w = [i \in 1 .. n |-> w[i]]
    BY <1>2
  <2> QED  BY <1>1, <1>3, <2>1, MadeSeq
<1>5. ASSUME NEW j \in 1 .. n, o + j <= Len(data)
      PROVE  w[j] = ByteAt(data, o + j - 1)
  <2>1. o + j - 1 \in Nat /\ o + j - 1 < Len(data) /\ (o + j - 1) + 1 = o + j
    BY <1>1, <1>5
  <2>2. w[j] = data[o + j]
    BY <1>2, <1>5
  <2>3. ByteAt(data, o + j - 1) = data[(o + j - 1) + 1]
    BY <1>1, <2>1, ByteAtIs
  <2> QED  BY <2>1, <2>2, <2>3
<1> QED  BY <1>4, <1>5 DEF w, n, data, o

LEMMA ReadIs ==
  ASSUME StripeInv, NEW c \in Clients, TransferRead(c)
  PROVE  \E r \in outs[c] : \E bytes \in {Arrived(r), <<>>} :
           /\ r \in Ready(c) /\ r.kind = "read" /\ Dso(r).exists
           /\ "empty" \notin Mishaps => bytes = Arrived(r)
           /\ buf' = [buf EXCEPT ![c] = Stored(@, r.piece.buf, bytes)]
           /\ want' = IF r \in Mine(c)
                      THEN [want EXCEPT ![c] = Stored(@, r.piece.buf, Right(r))]
                      ELSE want
           /\ Answer(c, r, "done")
           /\ UNCHANGED <<entries, files, at, op, fd, ops, faults>>
<1>1. PICK r \in Ready(c) :
        /\ r.kind = "read" /\ Dso(r).exists
        /\ \E bytes \in Arrivals(r) : buf' = [buf EXCEPT ![c] = Stored(@, r.piece.buf, bytes)]
        /\ want' = IF r \in Mine(c)
                   THEN [want EXCEPT ![c] = Stored(@, r.piece.buf, Right(r))]
                   ELSE want
        /\ Answer(c, r, "done")
        /\ UNCHANGED <<entries, files, at, op, fd, ops, faults>>
  BY DEF TransferRead, Right
<1>2. PICK bytes \in Arrivals(r) : buf' = [buf EXCEPT ![c] = Stored(@, r.piece.buf, bytes)]
  BY <1>1
<1>3. bytes \in {Arrived(r), <<>>} /\ ("empty" \notin Mishaps => bytes = Arrived(r))
  BY DEF Arrivals, Arrived
<1>4. r \in outs[c]
  BY DEF Ready
<1> QED  BY <1>1, <1>2, <1>3, <1>4, Zenon

LEMMA ReadTypes ==
  ASSUME StripeInv, NEW c \in Clients, TransferRead(c)
  PROVE  BytesTypes' /\ Len(buf[c]) <= Len(buf'[c])
<1>r. PICK r \in outs[c] : \E bytes \in {Arrived(r), <<>>} :
           /\ buf' = [buf EXCEPT ![c] = Stored(@, r.piece.buf, bytes)]
           /\ want' = IF r \in Mine(c)
                      THEN [want EXCEPT ![c] = Stored(@, r.piece.buf, Right(r))]
                      ELSE want
           /\ Answer(c, r, "done")
           /\ UNCHANGED <<entries, files, at, op, fd, ops, faults>>
  BY ReadIs
<1>1. PICK bytes \in {Arrived(r), <<>>} :
           /\ buf' = [buf EXCEPT ![c] = Stored(@, r.piece.buf, bytes)]
           /\ want' = IF r \in Mine(c)
                      THEN [want EXCEPT ![c] = Stored(@, r.piece.buf, Right(r))]
                      ELSE want
           /\ Answer(c, r, "done")
           /\ UNCHANGED <<entries, files, at, op, fd, ops, faults>>
  BY <1>r
<1>2. r.piece.buf \in Nat /\ bytes \in Seq(Byte) /\ Right(r) \in Seq(Byte)
  <2>1. Arrived(r) \in Seq(Byte) /\ Right(r) \in Seq(Byte) /\ r.piece.buf \in Nat
    BY OutIs, ArrivedIs, RightIs
  <2>2. <<>> \in Seq(Byte)
    OBVIOUS
  <2> QED  BY <2>1, <2>2
<1>3. BytesTypes /\ buf[c] \in Seq(Byte) /\ want[c] \in Seq(Byte)
  BY DEF StripeInv, BytesTypes
<1>4. /\ Stored(buf[c], r.piece.buf, bytes) \in Seq(Byte)
      /\ Len(buf[c]) <= Len(Stored(buf[c], r.piece.buf, bytes))
      /\ Stored(want[c], r.piece.buf, Right(r)) \in Seq(Byte)
  <2> DEFINE b == Stored(buf[c], r.piece.buf, bytes)
             w == Stored(want[c], r.piece.buf, Right(r))
             k == r.piece.buf + Len(bytes)
  <2>1. b \in Seq(Byte) /\ Len(b) = IF Len(buf[c]) > k THEN Len(buf[c]) ELSE k
    BY <1>2, <1>3, StoredIs
  <2>2. w \in Seq(Byte)
    BY <1>2, <1>3, StoredIs
  <2>3. k \in Nat /\ Len(buf[c]) \in Nat
    BY <1>2, <1>3
  <2> HIDE DEF b, w, k
  <2>4. Len(buf[c]) <= Len(b)
    BY <2>1, <2>3
  <2> QED  BY <2>1, <2>2, <2>4 DEF b, w
<1>5. outs' \in [Clients -> SUBSET Transfer]
  BY <1>1, <1>3, AnswerIs
<1>6. buf' \in [Clients -> Seq(Byte)] /\ want' \in [Clients -> Seq(Byte)]
      /\ Len(buf[c]) <= Len(buf'[c])
  BY <1>1, <1>3, <1>4 DEF BytesTypes
<1> QED  BY <1>1, <1>3, <1>5, <1>6 DEF BytesTypes

LEMMA StartTypes ==
  ASSUME StripeInv, NEW c \in Clients, StartIo(c)
  PROVE  BytesTypes' /\ OutsInv(c)'
<1>1. PICK kind \in {"read", "write"}, count \in Nat \ {0}, left \in Nat \ {0}, cc \in Nat,
           ok \in BOOLEAN : \E sent : Begun(c, kind, count, left, sent, cc, ok)
  BY StartIs
<1>b. PICK sent : Begun(c, kind, count, left, sent, cc, ok)
  BY <1>1
<1> DEFINE h == fd[c]
           new == {Sent(p, h.pos + p.buf, h.file, ops + 1, kind) : p \in sent}
           w == [i \in 1 .. count |-> <<ops + 1, i>>]
           eof == [i \in 1 .. cc |-> EndOfFile]
<1>2. BytesTypes /\ h \in Handle /\ h.pos \in Nat /\ h.file \in Nat /\ ops + 1 \in Nat
      /\ ops \in Nat
  BY DEF StripeInv, BytesTypes, Handle
<1>3. left <= count /\ (kind = "write" => left = count) /\ MayDo(c, h, kind, count)
      /\ sent \subseteq Range(Pieces(h.pos, left))
  BY <1>b DEF Begun
<1>4. Known(h.file)
  BY <1>3 DEF MayDo, StripeInv, OpenInv
<1>5. \A p \in sent :
        /\ p \in PieceRecord
        /\ p.buf \in Nat /\ p.len \in Nat \ {0} /\ p.buf + p.len <= left
        /\ h.pos + p.buf \in Nat
        /\ p.obj = ObjIndex(h.pos + p.buf) /\ p.at = ObjOffset(h.pos + p.buf)
        /\ ((h.pos + p.buf) % chunk_size) + p.len <= chunk_size
  BY <1>2, <1>3, SentAre
<1>6. ASSUME NEW r \in new
      PROVE  /\ r \in Transfer /\ InChunk(r) /\ r.file = h.file
             /\ r.piece.buf \in Nat /\ r.piece.len \in Nat /\ r.piece.buf + r.piece.len <= left
             /\ r.kind = kind
  <2>1. PICK p \in sent : r = Sent(p, h.pos + p.buf, h.file, ops + 1, kind)
    OBVIOUS
  <2> HIDE DEF new, h
  <2>2. r \in Transfer
    BY <1>2, <1>5, <2>1, TransferIs
  <2>3. r.piece = p /\ r.off = h.pos + p.buf /\ r.file = h.file /\ r.kind = kind
    BY <2>1 DEF Sent
  <2> QED  BY <1>5, <2>2, <2>3 DEF InChunk
<1>7. /\ outs' = [outs EXCEPT ![c] = outs[c] \cup new]
      /\ fd' = [fd EXCEPT ![c] = [h EXCEPT !.fpos = IF ok THEN @ + cc ELSE @]]
  BY <1>b DEF Begun
<1> HIDE DEF new
<1>8. outs' \in [Clients -> SUBSET Transfer] /\ outs'[c] = outs[c] \cup new
  <2>1. new \in SUBSET Transfer /\ outs \in [Clients -> SUBSET Transfer]
    BY <1>2, <1>6 DEF BytesTypes
  <2> QED  BY <1>7, <2>1
<1>9. fd' \in [Clients -> Handle]
  <2>1. [h EXCEPT !.fpos = IF ok THEN @ + cc ELSE @] \in Handle
    BY <1>2, <1>3 DEF Handle
  <2> DEFINE h2 == [h EXCEPT !.fpos = IF ok THEN @ + cc ELSE @]
  <2>2. fd' = [fd EXCEPT ![c] = h2] /\ h2 \in Handle
    BY <1>7, <2>1
  <2> HIDE DEF h2
  <2> QED  BY <1>2, <2>2 DEF BytesTypes
<1>10. w \in Seq(Byte) /\ Len(w) = count
  BY <1>2, <1>3, WrittenIs
<1> HIDE DEF w
<1>11. /\ Stored(buf[c], 0, w) \in Seq(Byte)
       /\ Len(buf[c]) <= Len(Stored(buf[c], 0, w)) /\ count <= Len(Stored(buf[c], 0, w))
  <2>1. buf[c] \in Seq(Byte)
    BY <1>2 DEF BytesTypes
  <2> DEFINE b == Stored(buf[c], 0, w)
  <2>2. b \in Seq(Byte) /\ Len(b) = IF Len(buf[c]) > 0 + Len(w) THEN Len(buf[c]) ELSE 0 + Len(w)
    BY <1>10, <2>1, StoredIs
  <2> HIDE DEF b
  <2>3. Len(buf[c]) <= Len(b) /\ count <= Len(b)
    BY <1>3, <1>10, <2>1, <2>2
  <2> QED  BY <2>2, <2>3 DEF b
<1>12. /\ buf' = IF kind = "read" THEN buf ELSE [buf EXCEPT ![c] = Stored(@, 0, w)]
       /\ want' = [want EXCEPT ![c] = IF kind = "read" THEN Stored(@, 0, eof) ELSE buf'[c]]
  BY <1>b, Zenon DEF Begun, w
<1> HIDE DEF eof
<1>e. Stored(want[c], 0, eof) \in Seq(Byte)
  <2>1. want[c] \in Seq(Byte)
    BY <1>2 DEF BytesTypes
  <2>2. DOMAIN eof = 1 .. cc /\ \A i \in 1 .. cc : eof[i] = EndOfFile
    BY DEF eof
  <2>e. eof = [i \in 1 .. cc |-> eof[i]]
    BY DEF eof
  <2>3. eof \in Seq(Byte)
    BY <2>2, <2>e, HoleIs, MadeSeq
  <2> QED  BY <2>1, <2>3, StoredIs
<1>13. /\ buf' \in [Clients -> Seq(Byte)] /\ want' \in [Clients -> Seq(Byte)]
       /\ Len(buf[c]) <= Len(buf'[c]) /\ (kind = "write" => count <= Len(buf'[c]))
       /\ Len(buf'[c]) \in Nat
  <2>1. buf \in [Clients -> Seq(Byte)] /\ want \in [Clients -> Seq(Byte)] /\ Len(buf[c]) \in Nat
    BY <1>2 DEF BytesTypes
  <2> DEFINE b == Stored(buf[c], 0, w)
  <2>2. buf' = IF kind = "read" THEN buf ELSE [buf EXCEPT ![c] = b]
    BY <1>12
  <2>3. b \in Seq(Byte) /\ Len(buf[c]) <= Len(b) /\ count <= Len(b)
    BY <1>11
  <2> DEFINE v == IF kind = "read" THEN Stored(want[c], 0, eof) ELSE buf'[c]
  <2> HIDE DEF b
  <2>4. buf' \in [Clients -> Seq(Byte)]
    BY <2>1, <2>2, <2>3
  <2>5. v \in Seq(Byte)
    BY <1>e, <2>4
  <2>6. want' = [want EXCEPT ![c] = v]
    BY <1>12
  <2> HIDE DEF v
  <2>7. want' \in [Clients -> Seq(Byte)]
    BY <2>1, <2>5, <2>6
  <2> QED  BY <2>1, <2>2, <2>3, <2>4, <2>7
<1>14. BytesTypes'
  <2>1. ops' = ops + 1
    BY <1>b DEF Begun
  <2> QED  BY <2>1, <1>2, <1>8, <1>9, <1>13 DEF BytesTypes
<1>15. \A f : Known(f) => Known(f)'
  <2>1. Quiet(c) /\ MakesOwn(c)
    BY QuietSteps, MakesSteps DEF Step
  <2>2. files' = files
    BY <1>b DEF Begun
  <2> QED  BY <2>1, <2>2, KnownStays
<1>16. ASSUME NEW r \in outs'[c]
       PROVE  /\ InChunk(r) /\ Known(r.file)'
              /\ r.kind = "write" => r.piece.buf + r.piece.len <= Len(buf'[c])
  <2>1. CASE r \in outs[c]
    <3>1. /\ InChunk(r) /\ Known(r.file) /\ r.piece.buf \in Nat /\ r.piece.len \in Nat
          /\ r.kind = "write" => r.piece.buf + r.piece.len <= Len(buf[c])
      BY <2>1, OutIs DEF StripeInv, OutsInv
    <3>2. Len(buf[c]) \in Nat
      BY <1>2 DEF BytesTypes
    <3> QED  BY <1>13, <1>15, <3>1, <3>2
  <2>2. CASE r \in new
    BY <1>3, <1>4, <1>6, <1>13, <1>15, <2>2
  <2> QED  BY <1>8, <2>1, <2>2
<1> QED  BY <1>14, <1>16 DEF OutsInv, InChunk

-----------------------------------------------------------------------------
(***************************************************************************)
(* The transfers and the open files after a step.                          *)
(***************************************************************************)

\* Transfers stay, are answered or are forgotten.
Alike(r, q) == r.piece = q.piece /\ r.off = q.off /\ r.file = q.file /\ r.kind = q.kind
                 /\ r.no = q.no

LEMMA OutsStay ==
  ASSUME StripeInv, NEW c \in Clients, Quiet(c), MakesOwn(c), DOMAIN files \subseteq DOMAIN files',
         Len(buf[c]) <= Len(buf'[c]), Len(buf'[c]) \in Nat,
         \A r \in outs'[c] : \E q \in outs[c] : Alike(r, q)
  PROVE  OutsInv(c)'
<1> SUFFICES ASSUME NEW r \in outs'[c]
             PROVE  /\ InChunk(r) /\ Known(r.file)'
                    /\ r.kind = "write" => r.piece.buf + r.piece.len <= Len(buf'[c])
  BY DEF OutsInv, InChunk
<1>1. PICK q \in outs[c] : Alike(r, q)
  OBVIOUS
<1>2. /\ InChunk(q) /\ Known(q.file) /\ q.piece.buf \in Nat /\ q.piece.len \in Nat
      /\ q.kind = "write" => q.piece.buf + q.piece.len <= Len(buf[c])
  BY OutIs DEF StripeInv, OutsInv
<1>3. Len(buf[c]) \in Nat
  BY DEF StripeInv, BytesTypes
<1>4. Known(r.file)'
  <2>1. Known(q.file)'
    BY <1>2, KnownStays
  <2> QED  BY <1>1, <2>1 DEF Alike, Known
<1> QED  BY <1>1, <1>2, <1>3, <1>4 DEF Alike, InChunk

LEMMA AnswerAlike ==
  ASSUME StripeInv, NEW c \in Clients, NEW r \in outs[c], NEW x \in {"done", "failed", "lost"},
         Answer(c, r, x)
  PROVE  \A q \in outs'[c] : \E p \in outs[c] : Alike(q, p)
<1>1. outs'[c] = (outs[c] \ {r}) \cup {Answered(r, x)} /\ r \in Transfer
  <2>1. BytesTypes
    BY DEF StripeInv
  <2>2. r \in Transfer
    BY OutIs
  <2> QED  BY <2>1, <2>2, AnswerIs
<1>2. Alike(Answered(r, x), r)
  BY <1>1, AnsweredIs DEF Alike
<1>3. \A q \in outs[c] : Alike(q, q)
  BY DEF Alike
<1> QED  BY <1>1, <1>2, <1>3

\* The steps that leave buffers and transfers alone.
LEMMA IoStays ==
  ASSUME StripeInv, NEW c \in Clients, Step(c), UNCHANGED <<buf, outs>>,
         DOMAIN files \subseteq DOMAIN files'
  PROVE  OutsInv(c)'
<1>1. Quiet(c) /\ MakesOwn(c)
  BY QuietSteps, MakesSteps
<1>2. Len(buf[c]) <= Len(buf'[c]) /\ Len(buf'[c]) \in Nat
  <2>1. Len(buf[c]) \in Nat
    BY DEF StripeInv, BytesTypes
  <2> QED  BY <2>1
<1>3. \A r \in outs'[c] : \E q \in outs[c] : Alike(r, q)
  BY DEF Alike
<1> QED  BY <1>1, <1>2, <1>3, OutsStay

LEMMA NewFd ==
  ASSUME BytesTypes, NEW c \in Clients, NEW h \in Handle, fd' = [fd EXCEPT ![c] = h]
  PROVE  fd' \in [Clients -> Handle] /\ fd'[c] = h
BY DEF BytesTypes

LEMMA FilesNat ==
  ASSUME StripeInv, NEW f \in DOMAIN files
  PROVE  f \in Nat /\ f # 0
BY Typed DEF StripeInv

LEMMA FailsWith ==
  ASSUME NEW c \in Clients, TransferFails(c)
  PROVE  \E r \in Ready(c), x \in {"failed", "lost"} :
           /\ x = IF Dso(r).exists /\ r.kind = "write" THEN "lost" ELSE "failed"
           /\ Answer(c, r, x)
           /\ UNCHANGED <<entries, files, at, op, fd, buf, want, ops>>
<1>1. PICK r \in Ready(c) :
        /\ Answer(c, r, IF Dso(r).exists /\ r.kind = "write" THEN "lost" ELSE "failed")
        /\ UNCHANGED <<entries, files, at, op, fd, buf, want, ops>>
  BY DEF TransferFails
<1>2. PICK x \in {"failed", "lost"} :
        x = IF Dso(r).exists /\ r.kind = "write" THEN "lost" ELSE "failed"
  BY Zenon
<1> QED  BY <1>1, <1>2, Zenon

LEMMA TypesSteps ==
  ASSUME StripeInv, NEW c \in Clients, Step(c)
  PROVE  BytesTypes'
<1>0. BytesTypes /\ fd[c] \in Handle /\ NoFile \in Handle /\ ops + 1 \in Nat
      /\ outs[c] \in SUBSET Transfer
  BY DEF StripeInv, BytesTypes, NoFile, Handle
<1>1. CASE UNCHANGED <<fd, buf, want, outs>> /\ ops' \in {ops, ops + 1}
  BY <1>0, <1>1 DEF BytesTypes
<1>2. ASSUME NEW h \in Handle, fd' = [fd EXCEPT ![c] = h], UNCHANGED <<buf, want>>,
             ops' \in {ops, ops + 1},
             \/ UNCHANGED outs
             \/ \E S \in SUBSET Transfer : outs' = [outs EXCEPT ![c] = S]
      PROVE  BytesTypes'
  <2>1. fd' \in [Clients -> Handle]
    BY <1>0, <1>2, NewFd
  <2>2. outs' \in [Clients -> SUBSET Transfer]
    BY <1>0, <1>2, Zenon DEF BytesTypes
  <2> QED  BY <1>0, <1>2, <2>1, <2>2 DEF BytesTypes
<1>3. CASE Begin(c) \/ Lookup(c) \/ LookupAgain(c) \/ Stat(c) \/ CollideDso(c) \/ ReloadMo(c)
           \/ CallFails(c)
  BY <1>1, <1>3, Zenon DEF Begin, Lookup, LookupAgain, Stat, CollideDso, ReloadMo, CallFails, Io
<1>4. CASE CreateContainer(c) \/ CreateAcl(c) \/ CreateDso(c) \/ StoreMo(c)
           \/ Link(c) \/ RemoveDso(c) \/ RemoveMo(c)
  BY <1>1, <1>4 DEF CreateContainer, CreateAcl, CreateDso, StoreMo, Link, RemoveDso, RemoveMo, Io
<1>5. CASE Unlink(c)
  BY <1>1, <1>5, UnlinkIs, Zenon DEF Io
<1>6. CASE LoadMo(c)
  <2>1. op[c].file \in Nat /\ op[c].size \in Nat
    BY <1>6, FilesNat DEF LoadMo, StripeInv, OpenInv, Known
  <2> DEFINE h == [NoFile EXCEPT !.file = op[c].file, !.size = op[c].size]
  <2>2. h \in Handle
    BY <2>1 DEF NoFile, Handle
  <2>3. (fd' = [fd EXCEPT ![c] = h] \/ UNCHANGED fd) /\ UNCHANGED <<buf, want, outs, ops>>
    BY <1>6 DEF LoadMo
  <2> HIDE DEF h
  <2> QED  BY <1>1, <1>2, <2>2, <2>3
<1>7. CASE NameFile(c)
  <2>1. op[c].file \in Nat
    BY <1>7, FilesNat DEF NameFile, StripeInv, FilesInv, WorkInv, Working, Making
  <2> DEFINE h == [NoFile EXCEPT !.file = op[c].file]
  <2>2. h \in Handle
    BY <2>1 DEF NoFile, Handle
  <2>3. (fd' = [fd EXCEPT ![c] = h] \/ UNCHANGED fd) /\ UNCHANGED <<buf, want, outs, ops>>
    BY <1>7 DEF NameFile
  <2> HIDE DEF h
  <2> QED  BY <1>1, <1>2, <2>2, <2>3
<1>8. CASE Crash(c)
  <2>1. fd' = [fd EXCEPT ![c] = NoFile] /\ outs' = [outs EXCEPT ![c] = {}]
        /\ UNCHANGED <<buf, want, ops>>
    BY <1>8 DEF Crash
  <2> QED  BY <1>0, <1>2, <2>1
<1>9. CASE CloseFile(c)
  <2>1. fd' = [fd EXCEPT ![c] = NoFile] /\ UNCHANGED <<buf, want, outs, ops>>
    BY <1>9 DEF CloseFile
  <2> QED  BY <1>0, <1>2, <2>1
<1>10. CASE Seek(c)
  <2> DEFINE g == fd[c]
  <2>1. PICK off \in 0 .. IF SeekPast THEN MaxLen ELSE Len(files[g.file].data) :
          fd' = [fd EXCEPT ![c].fpos = off, ![c].pos = off, ![c].size = IF off > @ THEN off ELSE @]
    BY <1>10, Zenon DEF Seek
  <2>2. off \in Nat
    <3>1. g.file \in DOMAIN files
      BY <1>10 DEF Seek, StripeInv, OpenInv, Known
    <3>2. Len(files[g.file].data) \in Nat /\ MaxLen \in Nat
      BY <3>1, FsAssumption DEF StripeInv, HoldsBytes
    <3> QED  BY <3>2
  <2>3. g \in Handle
    BY <1>0
  <2> DEFINE size == IF off > g.size THEN off ELSE g.size
             h == [g EXCEPT !.fpos = off, !.pos = off, !.size = size]
  <2>4. size \in Nat
    BY <2>2, <2>3 DEF Handle
  <2>6. fd' = [fd EXCEPT ![c] = h]
    BY <1>0, <2>1 DEF BytesTypes, Handle
  <2> HIDE DEF g, size
  <2>5. h \in Handle
    BY <2>2, <2>3, <2>4 DEF Handle
  <2>7. UNCHANGED <<buf, want, outs>> /\ ops' = ops + 1
    BY <1>10 DEF Seek
  <2> HIDE DEF h
  <2> QED  BY <1>2, <2>5, <2>6, <2>7
<1>11. CASE Overrun(c)
  <2>1. UNCHANGED <<fd, buf, want, outs>> /\ ops' = ops + 1
    BY <1>11, Zenon DEF Overrun, BeginIo, Io
  <2> QED  BY <1>1, <2>1
<1>12. CASE TransferWrite(c) \/ TransferFails(c)
  <2>1. PICK r \in Ready(c), x \in {"done", "failed", "lost"} :
          Answer(c, r, x) /\ UNCHANGED <<fd, buf, want, ops>>
    <3>1. CASE TransferWrite(c)
      BY <3>1, Zenon DEF TransferWrite
    <3>2. CASE TransferFails(c)
      BY <3>2, FailsWith
    <3> QED  BY <1>12, <3>1, <3>2
  <2>2. outs' \in [Clients -> SUBSET Transfer]
    <3>1. r \in outs[c]
      BY DEF Ready
    <3> QED  BY <1>0, <2>1, <3>1, AnswerIs
  <2> QED  BY <1>0, <2>1, <2>2, Zenon DEF BytesTypes
<1>13. CASE IoDone(c)
  <2> DEFINE h == [fd[c] EXCEPT !.pos = @ + op[c].count]
  <2>1. h \in Handle
    <3>1. op[c].count \in Nat /\ fd[c].pos \in Nat
      BY <1>0 DEF StripeInv, OpenInv, Handle
    <3> QED  BY <1>0, <3>1 DEF Handle
  <2>2. /\ fd' = [fd EXCEPT ![c] = h] /\ UNCHANGED <<buf, want, ops>>
        /\ outs' = [outs EXCEPT ![c] = {r \in outs[c] : r.st \in {"sent", "lost"}}]
    BY <1>13 DEF IoDone, LeaveSent
  <2>3. {r \in outs[c] : r.st \in {"sent", "lost"}} \in SUBSET Transfer
    BY <1>0
  <2> HIDE DEF h
  <2> QED  BY <1>2, <2>1, <2>2, <2>3
<1>14. CASE IoFails(c)
  <2>1. /\ UNCHANGED <<fd, buf, want, ops>>
        /\ outs' = [outs EXCEPT ![c] = {r \in outs[c] : r.st \in {"sent", "lost"}}]
    BY <1>14 DEF IoFails, LeaveSent
  <2>2. {r \in outs[c] : r.st \in {"sent", "lost"}} \in SUBSET Transfer
    BY <1>0
  <2>3. outs' \in [Clients -> SUBSET Transfer]
    BY <1>0, <2>1, <2>2 DEF BytesTypes
  <2> QED  BY <1>0, <2>1, <2>3 DEF BytesTypes
<1> QED  BY <1>3, <1>4, <1>5, <1>6, <1>7, <1>8, <1>9, <1>10, <1>11, <1>12, <1>13, <1>14,
            StartTypes, ReadTypes DEF Step

LEMMA OutsSteps ==
  ASSUME StripeInv, NEW c \in Clients, Step(c), DOMAIN files \subseteq DOMAIN files'
  PROVE  OutsInv(c)'
<1>0. Quiet(c) /\ MakesOwn(c)
  BY QuietSteps, MakesSteps
<1>b. Len(buf[c]) \in Nat /\ Len(buf'[c]) \in Nat /\ outs \in [Clients -> SUBSET Transfer]
  BY TypesSteps DEF StripeInv, BytesTypes
<1>1. CASE UNCHANGED <<buf, outs>>
  BY <1>1, IoStays, Zenon
<1>2. CASE Begin(c) \/ Lookup(c) \/ LookupAgain(c) \/ Stat(c) \/ CollideDso(c) \/ ReloadMo(c)
           \/ CallFails(c) \/ LoadMo(c) \/ NameFile(c) \/ CloseFile(c) \/ Seek(c) \/ Overrun(c)
  BY <1>1, <1>2, Zenon DEF Begin, Lookup, LookupAgain, Stat, CollideDso, ReloadMo, CallFails, LoadMo,
     NameFile, CloseFile, Seek, Overrun, Io
<1>3. CASE CreateContainer(c) \/ CreateAcl(c) \/ CreateDso(c) \/ StoreMo(c)
           \/ Link(c) \/ RemoveDso(c) \/ RemoveMo(c)
  BY <1>1, <1>3 DEF CreateContainer, CreateAcl, CreateDso, StoreMo, Link, RemoveDso, RemoveMo, Io
<1>4. CASE Unlink(c)
  BY <1>1, <1>4, UnlinkIs, Zenon DEF Io
<1>5. CASE Crash(c)
  <2>1. outs'[c] = {}
    BY <1>b, <1>5 DEF Crash
  <2> QED  BY <2>1 DEF OutsInv
<1>6. CASE IoDone(c) \/ IoFails(c)
  <2>1. UNCHANGED buf /\ outs' = [outs EXCEPT ![c] = {r \in outs[c] : r.st \in {"sent", "lost"}}]
    BY <1>6 DEF IoDone, IoFails, LeaveSent
  <2>2. \A r \in outs'[c] : \E q \in outs[c] : Alike(r, q)
    BY <1>b, <2>1 DEF Alike
  <2> QED  BY <1>0, <1>b, <2>1, <2>2, OutsStay
<1>7. CASE TransferWrite(c) \/ TransferFails(c) \/ TransferRead(c)
  <2>1. PICK r \in outs[c], x \in {"done", "failed", "lost"} : Answer(c, r, x)
    <3>1. CASE TransferWrite(c) \/ TransferRead(c)
      BY <3>1, Zenon DEF TransferWrite, TransferRead, Ready
    <3>2. CASE TransferFails(c)
      BY <3>2, FailsWith DEF Ready
    <3> QED  BY <1>7, <3>1, <3>2
  <2>2. \A q \in outs'[c] : \E p \in outs[c] : Alike(q, p)
    BY <2>1, AnswerAlike
  <2>3. Len(buf[c]) <= Len(buf'[c])
    <3>1. CASE TransferRead(c)
      BY <3>1, ReadTypes
    <3>2. CASE TransferWrite(c) \/ TransferFails(c)
      <4>1. buf' = buf
        BY <3>2, Zenon DEF TransferWrite, TransferFails
      <4> QED  BY <1>b, <4>1, SMTT(60)
    <3> QED  BY <1>7, <3>1, <3>2
  <2> QED  BY <1>0, <1>b, <2>2, <2>3, OutsStay, Zenon
<1> QED  BY <1>2, <1>3, <1>4, <1>5, <1>6, <1>7, StartTypes DEF Step

\* A file that a name leads to is not being made.
LEMMA NamedKnown ==
  ASSUME StripeInv, NEW n \in Names, entries[n] # 0
  PROVE  Known(entries[n])
<1>1. entries[n] \in DOMAIN files
  BY DEF StripeInv, FilesInv, Shapes
<1>2. \A d \in Clients : at[d] \in Making => op[d].file # entries[n]
  BY DEF StripeInv, FilesInv, WorkInv, NamesOf, Working
<1> QED  BY <1>1, <1>2 DEF Known

\* The same of the next state.
KnownThen(f) == f \in DOMAIN files' /\ \A d \in Clients : at'[d] \in Making => op'[d].file # f
BlankThen(f) == files'[f].data = <<>> /\ \A s \in Servers : files'[f].dso[s].bytes = <<>>

LEMMA OpenIs ==
  ASSUME NEW c \in Clients, op'[c].size \in Nat, op'[c].count \in Nat,
         fd'[c].file # 0 => KnownThen(fd'[c].file),
         at'[c] \in {"again", "stat", "load"} => KnownThen(op'[c].file),
         at'[c] = "again" => op'[c].i = 0,
         at'[c] = "stat" => op'[c].i \in Servers /\ op'[c].other \in DOMAIN files',
         at'[c] \in Making => BlankThen(op'[c].file)
  PROVE  OpenInv(c)'
BY ServersStay DEF OpenInv, Known, KnownThen, Blank, BlankThen

LEMMA OpenRest ==
  ASSUME StripeInv, NEW c \in Clients,
         op'[c].size \in Nat, op'[c].count \in Nat,
         at'[c] \notin Making \cup {"again", "stat", "load"},
         fd'[c].file # 0 => KnownThen(fd'[c].file)
  PROVE  OpenInv(c)'
BY OpenIs

LEMMA NoOpIs == NoOp.size \in Nat /\ NoOp.count \in Nat /\ NoOp.file = 0
BY DEF NoOp

LEMMA OpenSteps ==
  ASSUME StripeInv, NEW c \in Clients, Step(c), FilesInv',
         DOMAIN files \subseteq DOMAIN files',
         \A f \in DOMAIN files : Blank(f) => BlankThen(f) \/ TransferWrite(c)
  PROVE  OpenInv(c)'
<1>0. OpenInv(c) /\ WorkInv(c)
  BY DEF StripeInv, FilesInv
<1>n. op[c].size \in Nat /\ op[c].count \in Nat
  BY <1>0 DEF OpenInv
<1>k. Quiet(c) /\ MakesOwn(c) /\ \A f : Known(f) => KnownThen(f)
  <2>1. Quiet(c) /\ MakesOwn(c)
    BY QuietSteps, MakesSteps
  <2>2. ASSUME NEW f, Known(f) PROVE KnownThen(f)
    BY <2>1, <2>2 DEF Known, KnownThen, Quiet, MakesOwn
  <2> QED  BY <2>1, <2>2
<1>d. /\ DOMAIN at = Clients /\ DOMAIN op = Clients /\ DOMAIN op[c] = DOMAIN NoOp
      /\ fd \in [Clients -> Handle]
  BY DEF StripeInv, FilesInv, Shapes, BytesTypes
<1>f. fd[c].file # 0 => KnownThen(fd[c].file)
  BY <1>0, <1>k DEF OpenInv
<1> DEFINE g == op[c].file
<1>a. ASSUME Done(c), UNCHANGED fd PROVE OpenInv(c)'
  <2>1. at'[c] = "idle" /\ op'[c] = NoOp
    BY <1>a, <1>d DEF Done, Goto, Set
  <2>2. fd'[c].file # 0 => KnownThen(fd'[c].file)
    BY <1>a, <1>f
  <2> QED  BY <2>1, <2>2, NoOpIs, OpenRest DEF Making
<1>1. CASE Begin(c)
  <2>1. /\ at'[c] \in {"lookup", "unlink", "link"} /\ op'[c].size \in Nat /\ op'[c].count \in Nat
        /\ UNCHANGED fd
    <3>1. PICK o : /\ Set(c, o) /\ o.size = 0 /\ o.count = 0
                   /\ \E x \in {"lookup", "unlink", "link"} : Goto(c, x)
      BY <1>1, Zenon DEF Begin, NoOp
    <3>2. UNCHANGED fd
      BY <1>1, Zenon DEF Begin, Io
    <3> QED  BY <1>d, <3>1, <3>2 DEF Goto, Set
  <2>2. fd'[c].file # 0 => KnownThen(fd'[c].file)
    BY <1>f, <2>1
  <2> QED  BY <2>1, <2>2, OpenRest DEF Making
<1>2. CASE Lookup(c)
  <2> DEFINE f == entries[Name(c)]
  <2>1. Name(c) \in Names /\ UNCHANGED fd
    BY <1>2, <1>0 DEF Lookup, WorkInv, Named, Name, Io
  <2>2. CASE Done(c)
    BY <1>a, <2>1, <2>2
  <2>3. CASE f # 0 /\ Set(c, [op[c] EXCEPT !.file = f, !.i = 0, !.size = 0]) /\ Goto(c, "again")
    <3>1. KnownThen(f)
      BY <1>k, <2>1, <2>3, NamedKnown
    <3> HIDE DEF f
    <3>2. /\ at'[c] = "again" /\ op'[c].file = f /\ op'[c].i = 0 /\ op'[c].size = 0
          /\ op'[c].count = op[c].count
      BY <2>3, <1>d DEF Set, Goto, NoOp
    <3>3. KnownThen(op'[c].file)
      BY <3>1, <3>2
    <3>4. fd'[c].file # 0 => KnownThen(fd'[c].file)
      BY <1>f, <2>1
    <3> QED  BY <1>n, <3>2, <3>3, <3>4, OpenIs DEF Making
  <2>4. CASE Goto(c, "container") /\ UNCHANGED op
    <3>1. at'[c] = "container" /\ op'[c] = op[c]
      BY <1>d, <2>4 DEF Goto
    <3>2. fd'[c].file # 0 => KnownThen(fd'[c].file)
      BY <1>f, <2>1
    <3>3. op[c].size \in Nat /\ op[c].count \in Nat
      BY <1>0 DEF OpenInv
    <3> QED  BY <3>1, <3>2, <3>3, OpenRest DEF Making
  <2> QED  BY <1>2, <2>2, <2>3, <2>4 DEF Lookup
<1>3. CASE LookupAgain(c)
  <2> DEFINE f == entries[Name(c)]
  <2>1. Name(c) \in Names /\ UNCHANGED <<fd, files>> /\ at[c] = "again"
    BY <1>3, <1>0 DEF LookupAgain, WorkInv, Named, Name, Io
  <2>2. CASE Done(c)
    BY <1>a, <2>1, <2>2
  <2>3. CASE f # 0 /\ Set(c, [op[c] EXCEPT !.other = f]) /\ Goto(c, "stat")
    <3>1. f \in DOMAIN files'
      BY <2>1, <2>3, NamedKnown DEF Known
    <3> HIDE DEF f
    <3>2. /\ at'[c] = "stat" /\ op'[c].file = g /\ op'[c].i = op[c].i
          /\ op'[c].size = op[c].size /\ op'[c].other = f /\ op'[c].count = op[c].count
      BY <2>3, <1>d DEF Set, Goto, NoOp
    <3>3. KnownThen(op'[c].file) /\ op[c].i \in Servers
      BY <1>0, <1>k, <2>1, <3>2, ServersAre, ServersStay DEF OpenInv
    <3>4. fd'[c].file # 0 => KnownThen(fd'[c].file)
      BY <1>f, <2>1
    <3> QED  BY <1>n, <3>1, <3>2, <3>3, <3>4, OpenIs DEF Making
  <2> QED  BY <1>3, <2>2, <2>3 DEF LookupAgain
<1>4. CASE Stat(c)
  <2> DEFINE f == op[c].other
             i == op[c].i
             o == [op[c] EXCEPT !.i = i + 1, !.size = @ + Len(files[f].dso[i].bytes)]
  <2>1. UNCHANGED <<fd, files>> /\ at[c] = "stat"
    BY <1>4 DEF Stat, Io
  <2>2. CASE Done(c)
    BY <1>a, <2>1, <2>2
  <2>3. CASE Set(c, o) /\ (IF i + 1 = ss_obj_count THEN Goto(c, "load") ELSE UNCHANGED at)
    <3>1. f \in DOMAIN files /\ i \in Servers /\ Known(g)
      BY <1>0, <2>1 DEF OpenInv
    <3>2. Len(files[f].dso[i].bytes) \in Nat
      <4>1. HoldsBytes(f)
        BY <3>1 DEF StripeInv
      <4>2. files[f].dso[i].bytes \in Seq(Byte)
        BY <3>1, <4>1 DEF HoldsBytes
      <4> HIDE DEF f, i
      <4> QED  BY <4>2
    <3>3. /\ op'[c].i = i + 1 /\ op'[c].size = op[c].size + Len(files[f].dso[i].bytes)
          /\ op'[c].file = g /\ op'[c].other = f /\ op'[c].count = op[c].count
          /\ at'[c] = IF i + 1 = ss_obj_count THEN "load" ELSE "stat"
      BY <2>1, <2>3, <1>d DEF Set, Goto, NoOp
    <3>4. fd'[c].file # 0 => KnownThen(fd'[c].file)
      BY <1>f, <2>1
    <3>5. KnownThen(op'[c].file) /\ (at'[c] = "stat" => op'[c].i \in Servers)
      BY <1>k, <3>1, <3>3, ServersAre, ServersStay
    <3>6. op'[c].size \in Nat /\ op'[c].count \in Nat /\ op'[c].other \in DOMAIN files'
      <4> DEFINE len == Len(files[f].dso[i].bytes)
      <4>1. op'[c].size = op[c].size + len /\ len \in Nat
        BY <3>2, <3>3
      <4> HIDE DEF len
      <4>2. op'[c].size \in Nat
        BY <1>n, <4>1
      <4> QED  BY <1>n, <2>1, <3>1, <3>3, <4>2
    <3>7. at'[c] \in {"load", "stat"}
      BY <3>3
    <3> QED  BY <3>4, <3>5, <3>6, <3>7, OpenIs DEF Making
  <2> QED  BY <1>4, <2>2, <2>3 DEF Stat
<1>5. CASE LoadMo(c)
  <2>1. at'[c] = "idle" /\ op'[c] = NoOp /\ at[c] = "load"
    BY <1>5, <1>d DEF LoadMo, Done, Goto, Set
  <2>2. fd'[c] = fd[c] \/ fd'[c].file = g
    BY <1>5, <1>d DEF LoadMo, NoFile
  <2>3. fd'[c].file # 0 => KnownThen(fd'[c].file)
    BY <1>0, <1>f, <1>k, <2>1, <2>2 DEF OpenInv
  <2> QED  BY <2>1, <2>3, NoOpIs, OpenRest DEF Making
<1>6. ASSUME at[c] \in Making, at'[c] \in Making, op'[c].file = g,
             op'[c].size = op[c].size, op'[c].count = op[c].count, UNCHANGED fd,
             ~TransferWrite(c)
      PROVE  OpenInv(c)'
  <2>1. Blank(g) /\ g \in DOMAIN files
    BY <1>0, <1>6 DEF OpenInv, WorkInv, Working
  <2>2. BlankThen(op'[c].file)
    BY <1>6, <2>1
  <2>3. fd'[c].file # 0 => KnownThen(fd'[c].file)
    BY <1>f, <1>6
  <2> QED  BY <1>n, <1>6, <2>2, <2>3, OpenIs DEF Making
<1>7. CASE CreateContainer(c)
  <2>1. /\ at'[c] = "acl" /\ op'[c].file = Len(files) + 1 /\ op'[c].size = op[c].size
        /\ op'[c].count = op[c].count /\ UNCHANGED fd /\ files' = Append(files, NewFile)
    BY <1>7, <1>d DEF CreateContainer, Goto, Set, NoOp, Io
  <2>2. files'[Len(files) + 1] = NewFile
    BY <2>1, Typed DEF StripeInv
  <2>3. BlankThen(op'[c].file)
    BY <2>1, <2>2 DEF BlankThen, NewFile, Gone
  <2>4. fd'[c].file # 0 => KnownThen(fd'[c].file)
    BY <1>f, <2>1, SMTT(30)
  <2> QED  BY <1>n, <2>1, <2>3, <2>4, OpenIs
<1>w. ~TransferWrite(c) \/ at' = at
  BY DEF TransferWrite
<1>8. CASE CreateAcl(c) \/ CreateDso(c) \/ StoreMo(c)
  <2>1. /\ at[c] \in Making /\ at'[c] \in Making /\ op'[c].file = g
        /\ op'[c].size = op[c].size /\ op'[c].count = op[c].count /\ UNCHANGED fd
    <3>1. CASE CreateAcl(c)
      BY <3>1, <1>d DEF CreateAcl, Goto, Io, Making
    <3>2. CASE StoreMo(c)
      BY <3>2, <1>d DEF StoreMo, Goto, Io, Making
    <3>3. CASE CreateDso(c)
      <4>1. /\ op'[c] = [op[c] EXCEPT !.i = @ + 1, !.tries = @ + 1]
            /\ at[c] = "dso" /\ at'[c] \in {"dso", "mo"} /\ UNCHANGED fd
        BY <3>3, <1>d DEF CreateDso, Goto, Set, Io
      <4> QED  BY <1>d, <4>1 DEF NoOp, Making
    <3> QED  BY <1>8, <3>1, <3>2, <3>3
  <2>2. UNCHANGED outs
    BY <1>8 DEF CreateAcl, CreateDso, StoreMo, Io
  <2>3. Blank(g) /\ g \in DOMAIN files
    BY <1>0, <2>1 DEF OpenInv, WorkInv, Working
  <2>4. ~TransferWrite(c)
    <3> SUFFICES ASSUME TransferWrite(c) PROVE FALSE
      BY Zenon
    <3>1. PICK r \in Ready(c) : Answer(c, r, "done")
      BY Zenon DEF TransferWrite
    <3>2. r \in outs[c] /\ r.st = "sent" /\ outs \in [Clients -> SUBSET Transfer]
      BY DEF Ready, StripeInv, BytesTypes
    <3>3. outs'[c] = (outs[c] \ {r}) \cup {Answered(r, "done")} /\ r \in Transfer
      BY <3>1, <3>2, AnswerIs DEF StripeInv
    <3>4. Answered(r, "done").st = "done"
      BY <3>3, AnsweredIs
    <3> QED  BY <2>2, <3>2, <3>3, <3>4
  <2> QED  BY <1>6, <2>1, <2>4
<1>9. CASE CollideDso(c)
  <2>1. /\ at[c] = "dso" /\ at'[c] \in {"dso", "lookup"} /\ op'[c].file = g
        /\ op'[c].size = op[c].size /\ op'[c].count = op[c].count /\ UNCHANGED <<fd, files>>
    BY <1>9, <1>d DEF CollideDso, Set, Goto, NoOp, Io
  <2>2. BlankThen(g) /\ (fd'[c].file # 0 => KnownThen(fd'[c].file))
    BY <1>0, <1>f, <2>1 DEF OpenInv, Blank, BlankThen, Making
  <2>3. BlankThen(op'[c].file)
    BY <2>1, <2>2
  <2> QED  BY <1>n, <2>1, <2>2, <2>3, OpenIs DEF Making
<1>10. CASE NameFile(c)
  <2>0. at[c] = "name" /\ at[c] \in Making
    BY <1>10 DEF NameFile, Making
  <2>1. CASE entries[Name(c)] = 0
    <3>1. at'[c] = "idle" /\ op'[c] = NoOp /\ fd'[c].file = g
      BY <1>10, <1>d, <2>1 DEF NameFile, Done, Goto, Set, NoFile
    <3>2. g \in DOMAIN files' /\ \A d \in Clients : d # c /\ at[d] \in Making => op[d].file # g
      BY <1>0, <2>0 DEF WorkInv, Working, StripeInv, FilesInv, Apart
    <3>3. KnownThen(g)
      BY <1>k, <3>1, <3>2 DEF KnownThen, Quiet, Making
    <3>4. KnownThen(fd'[c].file)
      BY <3>1, <3>3
    <3> QED  BY <3>1, <3>4, NoOpIs, OpenRest DEF Making
  <2>2. CASE entries[Name(c)] # 0
    <3>1. /\ at'[c] \in {"name", "lookup"} /\ op'[c].file = g
          /\ op'[c].size = op[c].size /\ op'[c].count = op[c].count /\ UNCHANGED <<fd, files>>
      BY <1>10, <1>d, <2>0, <2>2 DEF NameFile, Goto, Set, NoOp
    <3>2. BlankThen(g) /\ (fd'[c].file # 0 => KnownThen(fd'[c].file))
      BY <1>0, <1>f, <2>0, <3>1 DEF OpenInv, Blank, BlankThen
    <3>3. BlankThen(op'[c].file)
      BY <3>1, <3>2
    <3> QED  BY <1>n, <3>1, <3>2, <3>3, OpenIs DEF Making
  <2> QED  BY <2>1, <2>2
<1>11. ASSUME UNCHANGED fd, at'[c] \in {"idle", "unlink", "reload", "remove", "removeMo"},
              op'[c].size \in {0, op[c].size}, op'[c].count \in {0, op[c].count}
       PROVE  OpenInv(c)'
  <2>1. op'[c].size \in Nat /\ op'[c].count \in Nat
    BY <1>0, <1>11 DEF OpenInv
  <2>2. fd'[c].file # 0 => KnownThen(fd'[c].file)
    BY <1>f, <1>11
  <2> QED  BY <1>11, <2>1, <2>2, OpenRest DEF Making
<1>12. CASE Link(c) \/ ReloadMo(c) \/ RemoveDso(c) \/ RemoveMo(c) \/ CallFails(c)
  <2>1. UNCHANGED fd
    BY <1>12 DEF Link, ReloadMo, RemoveDso, RemoveMo, CallFails, Io
  <2>2. CASE Done(c)
    BY <1>a, <2>1, <2>2
  <2>3. CASE ~Done(c)
    <3>1. at'[c] \in {"unlink", "remove", "removeMo"}
      BY <1>12, <1>d, <2>3 DEF Link, ReloadMo, RemoveDso, RemoveMo, CallFails, Goto
    <3>2. op'[c].size = op[c].size /\ op'[c].count = op[c].count
      BY <1>12, <1>d, <2>3 DEF Link, ReloadMo, RemoveDso, RemoveMo, CallFails, Set, NoOp
    <3> QED  BY <1>11, <2>1, <3>1, <3>2
  <2> QED  BY <2>2, <2>3
<1>13. CASE Unlink(c)
  <2>1. UNCHANGED fd
    BY <1>13, UnlinkIs, Zenon DEF Io
  <2>2. CASE Done(c)
    BY <1>a, <2>1, <2>2
  <2>3. CASE ~Done(c)
    <3>1. PICK f : Set(c, [op[c] EXCEPT !.file = f, !.i = 0]) /\ Goto(c, "reload")
      BY <1>13, <2>3, UnlinkIs, Zenon
    <3>2. at'[c] = "reload" /\ op'[c].size = op[c].size /\ op'[c].count = op[c].count
      BY <1>d, <3>1 DEF Set, Goto, NoOp
    <3> QED  BY <1>11, <2>1, <3>2
  <2> QED  BY <2>2, <2>3
<1>14. CASE Crash(c) \/ CloseFile(c)
  <2>1. at'[c] = "idle" /\ op'[c] = NoOp /\ fd'[c].file = 0
    BY <1>14, <1>d DEF Crash, CloseFile, Done, Goto, Set, NoFile
  <2> QED  BY <2>1, NoOpIs, OpenRest DEF Making
<1>15. CASE Seek(c)
  <2>1. at'[c] = "idle" /\ op'[c] = op[c] /\ fd'[c].file = fd[c].file
    BY <1>15, <1>d DEF Seek, Handle
  <2>2. fd'[c].file # 0 => KnownThen(fd'[c].file)
    BY <1>f, <2>1
  <2>3. op[c].size \in Nat /\ op[c].count \in Nat
    BY <1>0 DEF OpenInv
  <2> QED  BY <2>1, <2>2, <2>3, OpenRest DEF Making
<1>16. CASE StartIo(c)
  <2>1. PICK kind \in {"read", "write"}, count \in Nat \ {0}, left \in Nat \ {0}, cc \in Nat,
             ok \in BOOLEAN : \E sent : Begun(c, kind, count, left, sent, cc, ok)
    BY <1>16, StartIs
  <2>2. PICK sent : Begun(c, kind, count, left, sent, cc, ok)
    BY <2>1
  <2>3. at'[c] = "io" /\ op'[c].size \in Nat /\ op'[c].count \in Nat
    BY <1>d, <2>2 DEF NoOp, Begun
  <2>4. fd'[c].file = fd[c].file
    <3>1. /\ fd[c] \in Handle
          /\ fd' = [fd EXCEPT ![c].fpos = IF ok THEN @ + cc ELSE @]
      BY <1>d, <2>2 DEF Begun
    <3>2. fd'[c] = [fd[c] EXCEPT !.fpos = IF ok THEN @ + cc ELSE @]
      BY <1>d, <3>1
    <3> QED  BY <3>1, <3>2 DEF Handle
  <2>5. fd'[c].file # 0 => KnownThen(fd'[c].file)
    BY <1>f, <2>4
  <2> QED  BY <2>3, <2>5, OpenRest DEF Making
<1>17. CASE Overrun(c)
  <2>0. /\ at' = [at EXCEPT ![c] = "overrun"]
        /\ op' = [op EXCEPT ![c] = [NoOp EXCEPT !.kind = "read", !.no = ops + 1, !.count = 0,
                                               !.ok = TRUE]]
        /\ UNCHANGED fd
    BY <1>17, Zenon DEF Overrun, BeginIo, Goto, Set, Io
  <2>1. at'[c] = "overrun" /\ op'[c].size \in Nat /\ op'[c].count \in Nat /\ UNCHANGED fd
    BY <1>d, <2>0 DEF NoOp
  <2>2. fd'[c].file # 0 => KnownThen(fd'[c].file)
    BY <1>f, <2>1
  <2> QED  BY <2>1, <2>2, OpenRest DEF Making
<1>18. CASE TransferRead(c) \/ TransferFails(c)
  <2>1. UNCHANGED <<at, op, fd, files>>
    BY <1>18 DEF TransferRead, TransferFails
  <2>2. /\ KnownThen(fd'[c].file) = Known(fd[c].file) /\ KnownThen(op'[c].file) = Known(op[c].file)
        /\ BlankThen(op'[c].file) = Blank(op[c].file)
    BY <2>1 DEF Known, KnownThen, Blank, BlankThen
  <2> QED  BY <1>0, <2>1, <2>2, OpenIs DEF OpenInv
<1>19. CASE TransferWrite(c)
  <2>1. PICK r \in Ready(c) :
          /\ UNCHANGED <<at, op, fd>>
          /\ files' = [files EXCEPT
               ![r.file].dso[r.piece.obj].bytes =
                  Stored(@, r.piece.at, SubSeq(buf[c], r.piece.buf + 1, r.piece.buf + r.piece.len)),
               ![r.file].data =
                  Stored(@, r.off, SubSeq(buf[c], r.piece.buf + 1, r.piece.buf + r.piece.len))]
    BY <1>19, ZenonT(60) DEF TransferWrite
  <2>2. Known(r.file)
    BY DEF Ready, StripeInv, OutsInv
  <2>3. at[c] \in Making => files'[g] = files[g]
    <3> SUFFICES ASSUME at[c] \in Making PROVE files'[g] = files[g]
      OBVIOUS
    <3>1. g # r.file /\ g \in DOMAIN files
      BY <1>0, <2>2, Zenon DEF Known, WorkInv, Working
    <3> HIDE DEF g
    <3> QED  BY <2>1, <3>1
  <2>4. at[c] \in Making => BlankThen(g)
    BY <1>0, <2>1, <2>3, ZenonT(60) DEF OpenInv, Blank, BlankThen
  <2>5. fd'[c].file # 0 => KnownThen(fd'[c].file)
    BY <1>f, <2>1
  <2>6. at[c] \in {"again", "stat", "load"} => KnownThen(op'[c].file)
    BY <1>0, <1>k, <2>1 DEF OpenInv
  <2>7. at[c] \in Making => BlankThen(op'[c].file)
    BY <2>1, <2>4
  <2>8. /\ at[c] = "again" => op[c].i = 0
        /\ at[c] = "stat" => op[c].i \in Servers /\ op[c].other \in DOMAIN files'
    BY <1>0 DEF OpenInv
  <2> QED  BY <1>n, <2>1, <2>5, <2>6, <2>7, <2>8, OpenIs, Zenon
<1>20. CASE IoDone(c) \/ IoFails(c)
  <2>1. /\ at'[c] \in {"idle", "stopped"} /\ op'[c].size \in {0, op[c].size}
        /\ op'[c].count \in {0, op[c].count} /\ fd'[c].file = fd[c].file
    <3>1. CASE IoDone(c)
      <4>1. /\ op'[c] = [op[c] EXCEPT !.kind = "ended"] /\ at'[c] = "idle"
            /\ fd'[c] = [fd[c] EXCEPT !.pos = @ + op[c].count] /\ fd[c] \in Handle
        BY <3>1, <1>d DEF IoDone, Goto, Set
      <4> QED  BY <1>d, <4>1 DEF NoOp, Handle
    <3>2. CASE IoFails(c)
      <4>1. op'[c] = NoOp /\ at'[c] \in {"idle", "stopped"} /\ UNCHANGED fd
        BY <3>2, <1>d DEF IoFails, Goto, Set
      <4>2. NoOp.size = 0 /\ NoOp.count = 0
        BY DEF NoOp
      <4> QED  BY <4>1, <4>2
    <3> QED  BY <1>20, <3>1, <3>2
  <2>2. op'[c].size \in Nat /\ op'[c].count \in Nat
    BY <1>0, <2>1 DEF OpenInv
  <2>3. fd'[c].file # 0 => KnownThen(fd'[c].file)
    BY <1>f, <2>1, Zenon
  <2> QED  BY <2>1, <2>2, <2>3, OpenRest DEF Making
<1> QED  BY <1>1, <1>2, <1>3, <1>4, <1>5, <1>7, <1>8, <1>9, <1>10, <1>12, <1>13, <1>14, <1>15,
            <1>16, <1>17, <1>18, <1>19, <1>20 DEF Step

-----------------------------------------------------------------------------
(***************************************************************************)
(* A write, and the theorem about the objects.                             *)
(***************************************************************************)

\* What a write stores: its part of the buffer, in one object and in the file.
Part(c, r) == SubSeq(buf[c], r.piece.buf + 1, r.piece.buf + r.piece.len)

LEMMA WriteIs ==
  ASSUME StripeInv, NEW c \in Clients, TransferWrite(c)
  PROVE  \E r \in outs[c] :
           /\ r \in Ready(c) /\ r.kind = "write"
           /\ Answer(c, r, "done")
           /\ Part(c, r) \in Seq(Byte) /\ Len(Part(c, r)) = r.piece.len
           /\ DOMAIN files' = DOMAIN files
           /\ files'[r.file].data = Stored(files[r.file].data, r.off, Part(c, r))
           /\ files'[r.file].mo = files[r.file].mo /\ files'[r.file].acl = files[r.file].acl
           /\ \A s \in Servers :
                /\ files'[r.file].dso[s].exists = files[r.file].dso[s].exists
                /\ files'[r.file].dso[s].bytes =
                     IF s = ObjIndex(r.off)
                     THEN Stored(files[r.file].dso[s].bytes, ObjOffset(r.off), Part(c, r))
                     ELSE files[r.file].dso[s].bytes
           /\ \A f \in DOMAIN files : f # r.file => files'[f] = files[f]
           /\ UNCHANGED <<entries, at, op, fd, buf, want, ops, faults>>
<1>1. PICK r \in Ready(c) :
        /\ r.kind = "write"
        /\ files' = [files EXCEPT
             ![r.file].dso[r.piece.obj].bytes = Stored(@, r.piece.at, Part(c, r)),
             ![r.file].data = Stored(@, r.off, Part(c, r))]
        /\ Answer(c, r, "done")
        /\ UNCHANGED <<entries, at, op, fd, buf, want, ops, faults>>
  BY Zenon DEF TransferWrite, Part
<1>2. r \in outs[c]
  BY DEF Ready
<1> DEFINE h == r.file
           new == Part(c, r)
           o == r.piece.obj
           old == files[h]
           obj == [old.dso[o] EXCEPT !.bytes = Stored(@, r.piece.at, new)]
           dso == [old.dso EXCEPT ![o] = obj]
           data == Stored(old.data, r.off, new)
           all == [old EXCEPT !.dso = dso, !.data = data]
<1>3. /\ h \in DOMAIN files /\ o \in Servers /\ o = ObjIndex(r.off)
      /\ r.piece.at = ObjOffset(r.off) /\ r.piece.buf \in Nat /\ r.piece.len \in Nat
  BY <1>2, OutIs DEF InChunk
<1>4. HasParts(h)
  BY <1>3 DEF StripeInv, FilesInv, Shapes
<1>5. files' = [files EXCEPT ![h] = all]
  BY <1>1, <1>3, <1>4 DEF HasParts
<1>6. /\ all.data = data /\ all.dso = dso /\ all.mo = old.mo /\ all.acl = old.acl
  BY <1>4 DEF HasParts
<1>7. /\ dso[o].exists = old.dso[o].exists
      /\ dso[o].bytes = Stored(old.dso[o].bytes, r.piece.at, new)
      /\ \A s \in Servers : s # o => dso[s] = old.dso[s]
  BY <1>3, <1>4 DEF HasParts
<1> HIDE DEF all, dso, obj
<1>8. /\ DOMAIN files' = DOMAIN files /\ files'[h] = all
      /\ \A f \in DOMAIN files : f # h => files'[f] = files[f]
  BY <1>3, <1>5
<1>9. new \in Seq(Byte) /\ Len(new) = r.piece.len
  <2>1. buf[c] \in Seq(Byte)
    BY DEF StripeInv, BytesTypes
  <2>2. r.piece.buf + r.piece.len <= Len(buf[c])
    BY <1>1, <1>2 DEF StripeInv, OutsInv
  <2> QED  BY <1>3, <2>1, <2>2, PartIs, SMTT(30) DEF Part
<1> HIDE DEF new
<1>10. ASSUME NEW s \in Servers
       PROVE  /\ files'[h].dso[s].exists = old.dso[s].exists
              /\ files'[h].dso[s].bytes =
                   IF s = ObjIndex(r.off)
                   THEN Stored(old.dso[s].bytes, ObjOffset(r.off), new)
                   ELSE old.dso[s].bytes
  BY <1>3, <1>6, <1>7, <1>8
<1> QED  BY <1>1, <1>2, <1>6, <1>8, <1>9, <1>10, ZenonT(60) DEF new

LEMMA WriteHolds ==
  ASSUME StripeInv, NEW c \in Clients, TransferWrite(c)
  PROVE  /\ DOMAIN files' = DOMAIN files
         /\ \A f \in DOMAIN files' : HoldsBytes(f)'
         /\ \A d \in Clients : d # c /\ at[d] \in Making => Blank(op[d].file)'
<1>1. PICK r \in outs[c] :
           /\ Part(c, r) \in Seq(Byte) /\ Len(Part(c, r)) = r.piece.len
           /\ DOMAIN files' = DOMAIN files
           /\ files'[r.file].data = Stored(files[r.file].data, r.off, Part(c, r))
           /\ \A s \in Servers :
                /\ files'[r.file].dso[s].exists = files[r.file].dso[s].exists
                /\ files'[r.file].dso[s].bytes =
                     IF s = ObjIndex(r.off)
                     THEN Stored(files[r.file].dso[s].bytes, ObjOffset(r.off), Part(c, r))
                     ELSE files[r.file].dso[s].bytes
           /\ \A f \in DOMAIN files : f # r.file => files'[f] = files[f]
           /\ UNCHANGED <<at, op>>
  BY WriteIs
<1> DEFINE h == r.file
           new == Part(c, r)
           data == files[h].data
           off == r.off
<1>2. /\ h \in DOMAIN files /\ Known(h) /\ HoldsBytes(h) /\ off \in Nat
      /\ data \in Seq(Byte) /\ r.piece.len \in Nat \ {0}
      /\ (off % chunk_size) + r.piece.len <= chunk_size
  BY OutIs DEF InChunk
<1>3. /\ new \in Seq(Byte) /\ Len(new) \in Nat /\ Len(new) > 0
      /\ (off % chunk_size) + Len(new) <= chunk_size
  BY <1>1, <1>2
<1>4. ObjOffset(off) \in Nat
  BY <1>2, Placed
<1>5. files'[h].data = Stored(data, off, new) /\ Stored(data, off, new) \in Seq(Byte)
  BY <1>1, <1>2, <1>3, StoredIs
<1> HIDE DEF new, off
<1>6. ASSUME NEW s \in Servers
      PROVE  /\ files'[h].dso[s].bytes \in Seq(Byte)
             /\ files'[h].dso[s].exists => Holds(s, files'[h].dso[s].bytes, files'[h].data)
  <2> DEFINE bytes == files[h].dso[s].bytes
             stands == files[h].dso[s].exists
  <2>1. bytes \in Seq(Byte) /\ (stands => Holds(s, bytes, data))
    BY <1>2 DEF HoldsBytes
  <2>2. /\ files'[h].dso[s].exists = stands
        /\ files'[h].dso[s].bytes = IF s = ObjIndex(off) THEN Stored(bytes, ObjOffset(off), new)
                                    ELSE bytes
    BY <1>1 DEF off, new
  <2> HIDE DEF bytes, data, stands
  <2>3. CASE s = ObjIndex(off)
    <3>1. Stored(bytes, ObjOffset(off), new) \in Seq(Byte)
      BY <1>3, <1>4, <2>1, StoredIs
    <3>2. stands => Holds(s, Stored(bytes, ObjOffset(off), new), Stored(data, off, new))
      BY <1>2, <1>3, <2>1, <2>3, StoreHolds DEF off
    <3> QED  BY <1>5, <2>2, <2>3, <3>1, <3>2
  <2>4. CASE s # ObjIndex(off)
    <3>1. stands => Holds(s, bytes, Stored(data, off, new))
      BY <1>2, <1>3, <2>1, <2>4, OthersHold DEF off
    <3> QED  BY <1>5, <2>1, <2>2, <2>4, <3>1
  <2> QED  BY <2>3, <2>4
<1>7. HoldsBytes(h)'
  BY <1>5, <1>6, ServersStay DEF HoldsBytes
<1>8. ASSUME NEW f \in DOMAIN files, f # h PROVE HoldsBytes(f)'
  <2>1. files'[f] = files[f] /\ HoldsBytes(f)
    BY <1>1, <1>8 DEF StripeInv
  <2> QED  BY <2>1, ServersStay DEF HoldsBytes
<1>9. ASSUME NEW d \in Clients, d # c, at[d] \in Making PROVE Blank(op[d].file)'
  <2>1. Blank(op[d].file) /\ op[d].file \in DOMAIN files
    BY <1>9 DEF StripeInv, OpenInv, FilesInv, WorkInv, Working
  <2>2. op[d].file # h
    BY <1>2, <1>9 DEF Known
  <2>3. op'[d] = op[d] /\ files'[op[d].file] = files[op[d].file]
    BY <1>1, <2>1, <2>2
  <2> QED  BY <2>1, <2>3, ServersStay DEF Blank
<1>10. ASSUME NEW f \in DOMAIN files' PROVE HoldsBytes(f)'
  <2>1. f \in DOMAIN files
    BY <1>1, <1>10
  <2> QED  BY <1>7, <1>8, <2>1
<1> QED  BY <1>1, <1>9, <1>10

LEMMA StripeSteps ==
  ASSUME StripeInv, FilesInv', NEW c \in Clients, Step(c)
  PROVE  StripeInv'
<1>1. Quiet(c) /\ MakesOwn(c) /\ BytesTypes'
  BY QuietSteps, MakesSteps, TypesSteps
<1>2. CASE TransferWrite(c)
  <2>1. /\ DOMAIN files \subseteq DOMAIN files'
        /\ \A f \in DOMAIN files' : HoldsBytes(f)'
        /\ \A d \in Clients : d # c /\ at[d] \in Making => Blank(op[d].file)'
    BY <1>2, WriteHolds
  <2>2. OpenInv(c)' /\ OutsInv(c)'
    BY <1>2, <2>1, OpenSteps, OutsSteps
  <2> QED  BY <1>1, <2>1, <2>2, StripeFrame
<1>3. CASE ~TransferWrite(c)
  <2>1. FilesKept
    BY <1>3, KeptSteps
  <2>2. DOMAIN files \subseteq DOMAIN files'
    BY <2>1 DEF FilesKept, Kept
  <2>3. ASSUME NEW f \in DOMAIN files, Blank(f) PROVE BlankThen(f)
    <3>1. HoldsBytes(f) /\ Kept(f)
      BY <2>1 DEF FilesKept, StripeInv
    <3>2. Blank(f)'
      BY <2>3, <3>1, KeptHolds
    <3> QED  BY <3>2, ServersStay DEF Blank, BlankThen
  <2>4. OpenInv(c)' /\ OutsInv(c)'
    BY <2>2, <2>3, OpenSteps, OutsSteps
  <2> QED  BY <1>1, <2>1, <2>4, KeptFrame
<1> QED  BY <1>2, <1>3

LEMMA StripeNext == StripeInv /\ [Next]_vars => StripeInv'
<1> SUFFICES ASSUME StripeInv, [Next]_vars PROVE StripeInv'
  OBVIOUS
<1>1. FilesInv'
  BY FilesNext DEF StripeInv
<1>2. CASE UNCHANGED vars
  <2>1. /\ BytesTypes' = BytesTypes
        /\ \A f : HoldsBytes(f)' = HoldsBytes(f)
        /\ \A c : OpenInv(c)' = OpenInv(c) /\ OutsInv(c)' = OutsInv(c)
    BY <1>2, ServersStay DEF vars, BytesTypes, HoldsBytes, OpenInv, OutsInv, Known, Blank, InChunk
  <2> QED  BY <1>1, <1>2, <2>1 DEF StripeInv, vars
<1>3. CASE Next
  <2>1. PICK c \in Clients : Step(c)
    BY <1>3 DEF Next, Step
  <2> QED  BY <1>1, <2>1, StripeSteps
<1> QED  BY <1>2, <1>3

\* The objects of a file together are the file, after every transfer, whoever writes and
\* whatever fails: a transfer stays in one chunk, and its bytes go where
\* sso_calc_obj_index_offset looks for them and to no other byte's place.  The assumption is
\* needed: when sso_doio has failed for the first transfer of a call and sso_io goes on, a
\* transfer is a whole chunk from the middle of one, and its end lands in the wrong object.
THEOREM StripesAreTheFile ==
  ASSUME NoRestart
  PROVE  Spec => []StripesHoldFile
<1>1. Init => StripeInv
  BY StripeInit
<1> QED  BY <1>1, StripeNext, StripesHold, PTL DEF Spec

-----------------------------------------------------------------------------
(***************************************************************************)
(* Reading: the inductive invariant.                                       *)
(*                                                                         *)
(* A read returns the file because no byte is missing: the objects hold    *)
(* the file up to its end, unless a write is left or an object is gone.    *)
(***************************************************************************)

Orderly == ~Torn /\ ~SeekPast /\ ~GoesOn /\ ~Swaps /\ Mishaps = {}

Covers(r, i) == r.off <= i /\ i < r.off + r.piece.len

\* A byte that a write has still to put into its object, or whose object is gone.
Owed(f, i) == \E c \in Clients : \E r \in Unwritten(c) : r.file = f /\ Covers(r, i)
Lacks(f, i) == ~files[f].dso[ObjIndex(i)].exists \/ Owed(f, i)
Size(f) == Len(files[f].data)

\* The file has no byte that its objects lack, and a write that is left leaves no gap.
WritesInv ==
  /\ \A f \in DOMAIN files, i \in Nat : i < Size(f) =>
       Lacks(f, i) \/ ObjOffset(i) < Len(files[f].dso[ObjIndex(i)].bytes)
  /\ \A c \in Clients : \A r \in Unwritten(c), i \in Nat : i < r.off =>
       Lacks(r.file, i) \/ i < Size(r.file)

FdInv(c) == fd[c].file # 0 => fd[c].pos <= Size(fd[c].file) /\ fd[c].size <= Size(fd[c].file)

\* Between operations a process has no transfers under way, and its positions agree.
RestInv(c) ==
  at[c] \notin {"io", "stopped", "overrun"} => outs[c] = {} /\ fd[c].fpos = fd[c].pos

EndedInv(c) ==
  op[c].kind = "ended" =>
    at[c] = "idle" /\ \A j \in 1 .. op[c].count : buf[c][j] = want[c][j]

\* The sizes of the first objects are at most the bytes that the file has on them.
StatInv(c) ==
  /\ at[c] = "again" => op[c].size = 0
  /\ at[c] = "stat" => op[c].other = op[c].file /\ op[c].size <= Prefix(op[c].i, Size(op[c].file))
  /\ at[c] = "load" => op[c].size <= Size(op[c].file)

Ours(c, r) ==
  /\ r.no = op[c].no /\ r.kind = op[c].kind /\ r.file = fd[c].file
  /\ r.off = fd[c].pos + r.piece.buf /\ r.piece.buf + r.piece.len <= op[c].count

\* What a read put into the buffer is what it should have put there.
Got(c, r) ==
  /\ r.piece.buf + r.piece.len <= Len(buf[c]) /\ r.piece.buf + r.piece.len <= Len(want[c])
  /\ \A x \in Nat : r.piece.buf <= x /\ x < r.piece.buf + r.piece.len =>
       ByteAt(buf[c], x) = ByteAt(want[c], x)

IoInv(c) ==
  at[c] = "io" =>
    /\ op[c].kind \in {"read", "write"}
    /\ fd[c].file # 0 /\ \A r \in outs[c] : Ours(c, r)
    /\ op[c].ok =>
         /\ fd[c].fpos = fd[c].pos + op[c].count
         /\ \A x \in Nat : x < op[c].count => \E r \in outs[c] : Covers(r, fd[c].pos + x)
    /\ op[c].kind = "read" =>
         /\ fd[c].pos + op[c].count <= Size(fd[c].file)
         /\ \A d \in Clients : Unwritten(d) = {}
         /\ \A r \in outs[c] : r.st = "done" => Got(c, r)
    /\ op[c].kind = "write" =>
         /\ want[c] = buf[c]
         /\ \A r \in outs[c] : r.st = "done" => r.off + r.piece.len <= Size(fd[c].file)

ReaderInv(c) == FdInv(c) /\ RestInv(c) /\ EndedInv(c) /\ StatInv(c) /\ IoInv(c)

ReadInv == StripeInv /\ WritesInv /\ \A c \in Clients : ReaderInv(c)

LEMMA ReadsReturn == ReadInv => ReadsReturnFile
<1> SUFFICES ASSUME ReadInv, NEW c \in Clients, op[c].kind = "ended"
             PROVE  SubSeq(buf[c], 1, op[c].count) = SubSeq(want[c], 1, op[c].count)
  BY DEF ReadsReturnFile
<1> DEFINE n == op[c].count
           b == buf[c]
           w == want[c]
<1>1. n \in Nat /\ b \in Seq(Byte) /\ w \in Seq(Byte)
  BY DEF ReadInv, StripeInv, OpenInv, BytesTypes
<1>2. \A j \in 1 .. n : b[j] = w[j]
  BY DEF ReadInv, ReaderInv, EndedInv
<1> HIDE DEF n, b, w
<1>3. SubSeq(b, 1, n) = [i \in 1 .. n |-> b[i]] /\ SubSeq(w, 1, n) = [i \in 1 .. n |-> w[i]]
  BY <1>1
<1> QED  BY <1>2, <1>3 DEF n, b, w

LEMMA ReadInit == ASSUME Orderly PROVE Init => ReadInv
<1> SUFFICES ASSUME Init PROVE ReadInv
  OBVIOUS
<1>1. StripeInv
  BY StripeInit DEF Orderly, NoRestart
<1>2. \A c \in Clients : /\ at[c] = "idle" /\ op[c] = NoOp /\ fd[c] = NoFile /\ outs[c] = {}
                         /\ Unwritten(c) = {}
  BY DEF Init, Unwritten
<1>3. ASSUME NEW f \in DOMAIN files, NEW i \in Nat, i < Size(f)
      PROVE  ObjOffset(i) < Len(files[f].dso[ObjIndex(i)].bytes)
  <2>1. files[f] = OldFile
    BY <1>3 DEF Init
  <2>2. ObjIndex(i) \in Servers
    BY Placed
  <2> QED  BY <1>3, <2>1, <2>2, OldHolds DEF Size
<1>4. WritesInv
  BY <1>2, <1>3 DEF WritesInv
<1>5. ASSUME NEW c \in Clients PROVE ReaderInv(c)
  <2>1. /\ at[c] = "idle" /\ op[c].kind = "none" /\ fd[c].file = 0 /\ outs[c] = {}
        /\ fd[c].fpos = fd[c].pos
    <3>1. at[c] = "idle" /\ op[c] = NoOp /\ fd[c] = NoFile /\ outs[c] = {}
      BY <1>2
    <3>2. NoOp.kind = "none"
      BY DEF NoOp
    <3>3. NoFile.file = 0 /\ NoFile.fpos = NoFile.pos
      BY DEF NoFile
    <3> QED  BY <3>1, <3>2, <3>3
  <2> QED  BY <2>1 DEF ReaderInv, FdInv, RestInv, EndedInv, StatInv, IoInv
<1> QED  BY <1>1, <1>4, <1>5 DEF ReadInv

-----------------------------------------------------------------------------
(***************************************************************************)
(* What a step leaves of the files.                                        *)
(***************************************************************************)

\* The bytes of a file stay, and no object of it comes back.
SameBytes(f) ==
  /\ files'[f].data = files[f].data
  /\ \A s \in Servers : files'[f].dso[s].exists =>
       files[f].dso[s].exists /\ files'[f].dso[s].bytes = files[f].dso[s].bytes

LEMMA NotMade ==
  ASSUME NEW c \in Clients, Step(c), ~CreateDso(c), StripeInv,
         NEW f \in DOMAIN files, NEW s \in Servers, files'[f].dso[s].exists
  PROVE  files[f].dso[s].exists
<1> USE DEF Goto, Set, Done
<1>0. HasParts(f)
  BY DEF StripeInv, FilesInv, Shapes
<1>1. CASE UNCHANGED files
  BY <1>1
<1>2. CASE CreateContainer(c)
  <2>1. files' = Append(files, NewFile)
    BY <1>2 DEF CreateContainer
  <2>2. files'[f] = files[f]
    BY <2>1, Typed DEF StripeInv
  <2> QED  BY <2>2
<1>3. ASSUME NEW g, NEW k \in {"acl", "mo", "links"}, NEW x,
             files' = [files EXCEPT ![g] = [@ EXCEPT ![k] = x]]
      PROVE  files[f].dso[s].exists
  <2>1. files'[f].dso = files[f].dso
    BY <1>0, <1>3 DEF HasParts
  <2> QED  BY <2>1
<1> DEFINE g == op[c].file
           e == entries[Name(c)]
<1>4. CASE CreateAcl(c)
  <2>1. files' = [files EXCEPT ![g] = [@ EXCEPT !["acl"] = TRUE]]
    BY <1>4 DEF CreateAcl
  <2> QED  BY <1>3, <2>1
<1>5. CASE StoreMo(c)
  <2>1. files' = [files EXCEPT ![g] = [@ EXCEPT !["mo"] = files[g].mo + 1]]
    <3>1. files' = [files EXCEPT ![g].mo = @ + 1]
      BY <1>5 DEF StoreMo
    <3> QED  BY <3>1
  <2> QED  BY <1>3, <2>1
<1>6. CASE RemoveMo(c)
  <2>1. files' = [files EXCEPT ![g] = [@ EXCEPT !["mo"] = 0]]
    BY <1>6 DEF RemoveMo
  <2> QED  BY <1>3, <2>1
<1>7. CASE NameFile(c)
  <2>1. UNCHANGED files \/ files' = [files EXCEPT ![g] = [@ EXCEPT !["links"] = 1]]
    BY <1>7 DEF NameFile
  <2> QED  BY <1>1, <1>3, <2>1
<1>8. CASE Link(c)
  <2>1. UNCHANGED files \/ files' = [files EXCEPT ![e] = [@ EXCEPT !["links"] = files[e].links + 1]]
    BY <1>8 DEF Link
  <2> QED  BY <1>1, <1>3, <2>1
<1>9. CASE Unlink(c)
  <2>1. UNCHANGED files \/ files' = [files EXCEPT ![e] = [@ EXCEPT !["links"] = files[e].links - 1]]
    BY <1>9, UnlinkIs, Zenon
  <2> QED  BY <1>1, <1>3, <2>1
<1>10. CASE RemoveDso(c)
  <2> DEFINE i == op[c].i
             dso == [files[g].dso EXCEPT ![i] = Gone]
             all == [files[g] EXCEPT !.dso = dso]
  <2>1. files' = [files EXCEPT ![g] = all]
    <3>1. files' = [files EXCEPT ![g].dso[i] = Gone]
      BY <1>10 DEF RemoveDso
    <3> QED  BY <3>1
  <2>2. CASE f = g
    <3>1. files'[f].dso = dso
      BY <1>0, <2>1, <2>2 DEF HasParts
    <3>2. dso[s] = Gone \/ dso[s] = files[f].dso[s]
      BY <1>0, <2>2 DEF HasParts
    <3> QED  BY <3>1, <3>2 DEF Gone
  <2>3. CASE f # g
    BY <2>1, <2>3
  <2> QED  BY <2>2, <2>3
<1>11. CASE TransferWrite(c)
  <2>1. PICK r \in outs[c] :
           /\ \A t \in Servers : files'[r.file].dso[t].exists = files[r.file].dso[t].exists
           /\ \A h \in DOMAIN files : h # r.file => files'[h] = files[h]
    BY <1>11, WriteIs, Zenon
  <2> QED  BY <2>1
<1>12. CASE Begin(c) \/ Lookup(c) \/ LookupAgain(c) \/ Stat(c) \/ LoadMo(c) \/ CollideDso(c)
            \/ ReloadMo(c) \/ CallFails(c) \/ Crash(c) \/ Seek(c) \/ CloseFile(c)
  BY <1>1, <1>12, ZenonT(60) DEF Begin, Lookup, LookupAgain, Stat, LoadMo, CollideDso, ReloadMo,
     CallFails, Crash, Seek, CloseFile
<1>13. CASE StartIo(c) \/ Overrun(c) \/ TransferRead(c) \/ TransferFails(c) \/ IoDone(c)
            \/ IoFails(c)
  BY <1>1, <1>13, Zenon DEF StartIo, Overrun, BeginIo, TransferRead, TransferFails, IoDone, IoFails
<1> QED  BY <1>2, <1>4, <1>5, <1>6, <1>7, <1>8, <1>9, <1>10, <1>11, <1>12, <1>13 DEF Step

LEMMA KnownSame ==
  ASSUME StripeInv, NEW c \in Clients, Step(c), ~TransferWrite(c), NEW f, Known(f)
  PROVE  SameBytes(f)
<1>1. f \in DOMAIN files /\ Kept(f)
  BY KeptSteps DEF Known, FilesKept
<1>2. ASSUME NEW s \in Servers, files'[f].dso[s].exists
      PROVE  files[f].dso[s].exists
  <2>1. CASE CreateDso(c)
    <3>1. op[c].file # f
      BY <2>1 DEF CreateDso, Known, Making
    <3>2. files'[f] = files[f]
      BY <2>1, <3>1 DEF CreateDso
    <3> QED  BY <1>2, <3>2
  <2> QED  BY <1>1, <1>2, <2>1, NotMade
<1>3. ASSUME NEW s \in Servers, files'[f].dso[s].exists
      PROVE  files'[f].dso[s].bytes = files[f].dso[s].bytes
  <2>1. ~(files'[f].dso[s] = Gone)
    BY <1>3 DEF Gone
  <2>2. CASE files'[f].dso[s] = Empty /\ Blank(f)
    BY <2>2 DEF Empty, Blank
  <2> QED  BY <1>1, <2>1, <2>2 DEF Kept, Hollow
<1> QED  BY <1>1, <1>2, <1>3 DEF SameBytes, Kept

\* A file that is being made has no bytes, and a file's length never shrinks.
LEMMA SizeGrows ==
  ASSUME StripeInv, NEW c \in Clients, Step(c)
  PROVE  /\ \A f \in DOMAIN files : /\ f \in DOMAIN files' /\ Size(f) <= Size(f)'
                                    /\ Size(f) \in Nat /\ Size(f)' \in Nat
         /\ \A f \in DOMAIN files' : Known(f) \/ Size(f)' = 0
<1>0. \A f \in DOMAIN files : files[f].data \in Seq(Byte) /\ Size(f) \in Nat
  BY DEF StripeInv, HoldsBytes, Size
<1>b. ASSUME NEW f \in DOMAIN files, ~Known(f) PROVE files[f].data = <<>>
  <2>1. PICK d \in Clients : at[d] \in Making /\ op[d].file = f
    BY <1>b DEF Known
  <2> QED  BY <2>1 DEF StripeInv, OpenInv, Blank
<1>1. CASE TransferWrite(c)
  <2>1. PICK r \in outs[c] :
           /\ Part(c, r) \in Seq(Byte)
           /\ DOMAIN files' = DOMAIN files
           /\ files'[r.file].data = Stored(files[r.file].data, r.off, Part(c, r))
           /\ \A f \in DOMAIN files : f # r.file => files'[f] = files[f]
    BY <1>1, WriteIs
  <2>2. /\ r.file \in DOMAIN files /\ Known(r.file) /\ r.off \in Nat
        /\ files[r.file].data \in Seq(Byte)
    BY OutIs
  <2> DEFINE d == files[r.file].data
             k == r.off + Len(Part(c, r))
             e == Stored(d, r.off, Part(c, r))
  <2>3. e \in Seq(Byte) /\ Len(e) = IF Len(d) > k THEN Len(d) ELSE k
    BY <2>1, <2>2, StoredIs
  <2>4. Len(d) \in Nat /\ k \in Nat
    BY <2>1, <2>2
  <2> HIDE DEF d, k, e
  <2>5. Len(d) <= Len(e) /\ Len(e) \in Nat
    BY <2>3, <2>4
  <2>6. Size(r.file) <= Size(r.file)' /\ Size(r.file)' \in Nat
    BY <2>1, <2>5 DEF Size, d, e
  <2>7. \A f \in DOMAIN files : f # r.file => Size(f)' = Size(f)
    BY <2>1 DEF Size
  <2>8. ASSUME NEW f \in DOMAIN files PROVE Size(f) <= Size(f)' /\ Size(f)' \in Nat
    BY <1>0, <2>6, <2>7
  <2>9. ASSUME NEW f \in DOMAIN files, ~Known(f) PROVE Size(f)' = 0
    BY <1>b, <2>2, <2>7, <2>9 DEF Size
  <2> QED  BY <1>0, <2>1, <2>8, <2>9
<1>2. CASE ~TransferWrite(c)
  <2>1. FilesKept
    BY <1>2, KeptSteps
  <2>2. \A f \in DOMAIN files : f \in DOMAIN files' /\ Size(f)' = Size(f)
    BY <2>1 DEF FilesKept, Kept, Size
  <2>3. ASSUME NEW f \in DOMAIN files', ~Known(f) PROVE Size(f)' = 0
    <3>1. CASE f \in DOMAIN files
      BY <1>b, <2>2, <2>3, <3>1 DEF Size
    <3>2. CASE files'[f] = NewFile
      BY <3>2 DEF Size, NewFile
    <3> QED  BY <2>1, <3>1, <3>2 DEF FilesKept
  <2> QED  BY <1>0, <2>2, <2>3
<1> QED  BY <1>1, <1>2

LEMMA AnswerLeaves ==
  ASSUME StripeInv, NEW c \in Clients, NEW r \in outs[c], NEW x \in {"done", "failed", "lost"},
         Answer(c, r, x)
  PROVE  /\ x # "lost" => Unwritten(c)' = Unwritten(c) \ {r}
         /\ x = "lost" /\ r \in Unwritten(c) =>
              Unwritten(c)' = (Unwritten(c) \ {r}) \cup {Answered(r, x)}
         /\ outs'[c] = (outs[c] \ {r}) \cup {Answered(r, x)}
         /\ Alike(Answered(r, x), r)
<1>1. outs'[c] = (outs[c] \ {r}) \cup {Answered(r, x)} /\ r \in Transfer
  BY AnswerIs DEF StripeInv, BytesTypes
<1>2. Answered(r, x).st = x /\ Answered(r, x).kind = r.kind /\ Alike(Answered(r, x), r)
  BY <1>1, AnsweredIs DEF Alike
<1> QED  BY <1>1, <1>2 DEF Unwritten

\* What a start of an operation adds.
News(c, kind, sent) ==
  {Sent(p, fd[c].pos + p.buf, fd[c].file, ops + 1, kind) : p \in sent}

\* An orderly start: what is sent has no gap, and nothing is missing when it succeeds.
Started(c, kind, left, ok, sent) ==
  LET new == News(c, kind, sent)
  IN  /\ kind = "read" => fd[c].fpos + left <= fd[c].size
      /\ at[c] = "idle" /\ fd[c].file # 0 /\ fd[c] \in Handle
      /\ kind = "read" => Torn \/ ~Writing
      /\ kind = "write" => Torn \/ ~Reading
      /\ at'[c] = "io" /\ op'[c].kind = kind /\ op'[c].no = ops + 1 /\ op'[c].count = left
      /\ op'[c].ok = ok
      /\ fd'[c].file = fd[c].file /\ fd'[c].pos = fd[c].pos /\ fd'[c].size = fd[c].size
      /\ ok => fd'[c].fpos = fd[c].fpos + left
      /\ outs'[c] = outs[c] \cup new
      /\ kind = "write" => want'[c] = buf'[c]
      /\ UNCHANGED files
      /\ \A r \in new :
           /\ r.no = ops + 1 /\ r.kind = kind /\ r.st = "sent" /\ r.file = fd[c].file
           /\ r.off = fd[c].pos + r.piece.buf /\ r.piece.buf + r.piece.len <= left
           /\ r.piece.buf \in Nat
      /\ ok => \A x \in Nat : x < left => \E r \in new : Covers(r, fd[c].pos + x)
      /\ \A q \in new, x \in Nat :
           x < q.piece.buf => \E r \in new : Covers(r, fd[c].pos + x)

LEMMA StartNews ==
  ASSUME Orderly, StripeInv, NEW c \in Clients, StartIo(c)
  PROVE  \E kind \in {"read", "write"}, left \in Nat \ {0}, ok \in BOOLEAN : \E sent :
           Started(c, kind, left, ok, sent)
<1>b. PICK kind \in {"read", "write"}, count \in Nat \ {0}, left \in Nat \ {0}, cc \in Nat,
           ok \in BOOLEAN : \E sent : Begun(c, kind, count, left, sent, cc, ok)
  BY StartIs
<1>1. PICK sent : Begun(c, kind, count, left, sent, cc, ok)
  BY <1>b
<1>2. /\ kind = "read" => fd[c].fpos + left <= fd[c].size
      /\ MayDo(c, fd[c], kind, count) /\ fd[c] \in Handle
      /\ sent \subseteq Range(Pieces(fd[c].pos, left))
      /\ \A p \in Range(Pieces(fd[c].pos, left)), q \in sent : p.buf < q.buf => p \in sent
      /\ cc = left /\ (ok => sent = Range(Pieces(fd[c].pos, left)))
  BY <1>1 DEF Begun, Orderly
<1>3. /\ DOMAIN at = Clients /\ DOMAIN op = Clients /\ DOMAIN fd = Clients
      /\ DOMAIN outs = Clients /\ DOMAIN want = Clients
  BY DEF StripeInv, FilesInv, Shapes, BytesTypes
<1>4. at'[c] = "io" /\ UNCHANGED files /\ outs'[c] = outs[c] \cup News(c, kind, sent)
      /\ (kind = "write" => want'[c] = buf'[c])
  <2>1. /\ at' = [at EXCEPT ![c] = "io"] /\ UNCHANGED files
        /\ outs' = [outs EXCEPT ![c] = @ \cup News(c, kind, sent)]
    BY <1>1 DEF Begun, News
  <2>2. kind = "write" => want' = [want EXCEPT ![c] = buf'[c]]
    BY <1>1 DEF Begun
  <2> QED  BY <1>3, <2>1, <2>2
<1>5. op'[c].kind = kind /\ op'[c].no = ops + 1 /\ op'[c].count = left /\ op'[c].ok = ok
  <2>1. op'[c] = [NoOp EXCEPT !.kind = kind, !.no = ops + 1, !.count = left, !.ok = ok]
    BY <1>1, <1>2, <1>3 DEF Begun
  <2> QED  BY <2>1 DEF NoOp
<1>6. /\ fd'[c].file = fd[c].file /\ fd'[c].pos = fd[c].pos /\ fd'[c].size = fd[c].size
      /\ ok => fd'[c].fpos = fd[c].fpos + left
  <2>1. fd' = [fd EXCEPT ![c].fpos = IF ok THEN @ + left ELSE @]
    BY <1>1, <1>2 DEF Begun
  <2>2. fd'[c] = [fd[c] EXCEPT !.fpos = IF ok THEN @ + left ELSE @]
    BY <1>3, <2>1
  <2> QED  BY <1>2, <2>2 DEF Handle
<1>7. fd[c].pos \in Nat /\ fd[c].file \in Nat
  BY <1>2 DEF Handle
<1> DEFINE new == News(c, kind, sent)
           ps == Pieces(fd[c].pos, left)
<1>p. ASSUME NEW p \in sent
      PROVE  p \in Range(ps) /\ p.buf + p.len <= left /\ p.buf \in Nat /\ p.len \in Nat
  <2>1. p \in Range(ps)
    BY <1>2
  <2> QED  BY <1>7, <2>1, SentAre
<1>8. ASSUME NEW r \in new
      PROVE  \E p \in sent :
               /\ r.piece = p /\ r.no = ops + 1 /\ r.kind = kind /\ r.st = "sent"
               /\ r.file = fd[c].file
               /\ r.off = fd[c].pos + r.piece.buf /\ r.piece.buf + r.piece.len <= left
               /\ r.piece.buf \in Nat
  <2>1. PICK p \in sent : r = Sent(p, fd[c].pos + p.buf, fd[c].file, ops + 1, kind)
    BY DEF News
  <2>2. p.buf + p.len <= left /\ p.buf \in Nat
    BY <1>p
  <2>3. /\ r.piece = p /\ r.off = fd[c].pos + p.buf /\ r.file = fd[c].file /\ r.no = ops + 1
        /\ r.kind = kind /\ r.st = "sent"
    BY <2>1 DEF Sent
  <2> QED  BY <2>2, <2>3
<1>9. ASSUME NEW x \in Nat, NEW p \in sent, p.buf <= x, x < p.buf + p.len
      PROVE  \E r \in new : Covers(r, fd[c].pos + x)
  <2> DEFINE o == fd[c].pos
             r == Sent(p, o + p.buf, fd[c].file, ops + 1, kind)
  <2>4. r \in new
    BY DEF News
  <2>5. r.off = o + p.buf /\ r.piece = p
    BY DEF Sent
  <2> HIDE DEF r, new
  <2>6. r.off <= o + x /\ o + x < r.off + r.piece.len
    <3>1. p.buf \in Nat /\ p.len \in Nat /\ o \in Nat
      BY <1>7, <1>p
    <3> HIDE DEF o
    <3> QED  BY <1>9, <2>5, <3>1
  <2> QED  BY <2>4, <2>6 DEF Covers
<1>c. ASSUME NEW x \in Nat, x < left
      PROVE  \E p \in Range(ps) : p.buf <= x /\ x < p.buf + p.len
  <2>1. CoversFrom(ps, fd[c].pos, left, 0)
    BY <1>7, PiecesAre
  <2> HIDE DEF ps
  <2> QED  BY <1>c, <2>1 DEF CoversFrom
<1> HIDE DEF new, ps
<1>10. ASSUME ok, NEW x \in Nat, x < left
       PROVE  \E r \in new : Covers(r, fd[c].pos + x)
  <2>1. PICK p \in sent : p.buf <= x /\ x < p.buf + p.len
    BY <1>2, <1>10, <1>c DEF ps
  <2> QED  BY <1>9, <2>1
<1>11. ASSUME NEW q \in new, NEW x \in Nat, x < q.piece.buf
       PROVE  \E r \in new : Covers(r, fd[c].pos + x)
  <2>1. PICK b \in sent : q.piece = b
    BY <1>8
  <2>2. b.buf \in Nat /\ b.len \in Nat /\ b.buf + b.len <= left
    BY <1>p
  <2>3. x < left
    BY <1>11, <2>1, <2>2
  <2>4. PICK p \in Range(ps) : p.buf <= x /\ x < p.buf + p.len
    BY <1>c, <2>3
  <2>5. p.buf \in Nat
    BY <1>7, <2>4, SentAre DEF ps
  <2>6. p.buf < b.buf
    BY <1>11, <2>1, <2>2, <2>4, <2>5
  <2>7. p \in sent
    BY <1>2, <2>6 DEF ps
  <2> QED  BY <1>9, <2>4, <2>7
<1>12. /\ at[c] = "idle" /\ fd[c].file # 0 /\ (kind = "read" => Torn \/ ~Writing)
       /\ (kind = "write" => Torn \/ ~Reading)
  BY <1>2 DEF MayDo
<1>13. \A r \in new :
         /\ r.no = ops + 1 /\ r.kind = kind /\ r.st = "sent" /\ r.file = fd[c].file
         /\ r.off = fd[c].pos + r.piece.buf /\ r.piece.buf + r.piece.len <= left
         /\ r.piece.buf \in Nat
  BY <1>8
<1>14. Started(c, kind, left, ok, sent)
  BY <1>2, <1>4, <1>5, <1>6, <1>10, <1>11, <1>12, <1>13, Zenon DEF Started, new
<1> QED  BY <1>14

\* A write that could not be carried out.
LEMMA FailsLeaves ==
  ASSUME StripeInv, NEW c \in Clients, TransferFails(c)
  PROVE  \E r \in outs[c] :
           /\ UNCHANGED <<files, at, op, fd, buf, want>>
           /\ \E x \in {"failed", "lost"} : Answer(c, r, x)
           /\ \/ ~Dso(r).exists /\ Unwritten(c)' = Unwritten(c) \ {r}
              \/ r \notin Unwritten(c) /\ Unwritten(c)' = Unwritten(c)
              \/ \E q : /\ Alike(q, r) /\ r \in Unwritten(c)
                        /\ Unwritten(c)' = (Unwritten(c) \ {r}) \cup {q}
<1>1. PICK r \in Ready(c), x \in {"failed", "lost"} :
        /\ x = IF Dso(r).exists /\ r.kind = "write" THEN "lost" ELSE "failed"
        /\ Answer(c, r, x)
        /\ UNCHANGED <<entries, files, at, op, fd, buf, want, ops>>
  BY FailsWith
<1>2. r \in outs[c] /\ r.st = "sent"
  BY DEF Ready
<1>3. /\ x # "lost" => Unwritten(c)' = Unwritten(c) \ {r}
      /\ x = "lost" /\ r \in Unwritten(c) =>
           Unwritten(c)' = (Unwritten(c) \ {r}) \cup {Answered(r, x)}
      /\ Alike(Answered(r, x), r)
  BY <1>1, <1>2, AnswerLeaves
<1>4. x = "lost" => r \in Unwritten(c) /\ r.kind = "write"
  <2>1. x = "lost" => r.kind = "write"
    BY <1>1
  <2> QED  BY <1>2, <2>1 DEF Unwritten
<1>5. x # "lost" => ~Dso(r).exists \/ r \notin Unwritten(c)
  BY <1>1 DEF Unwritten
<1>6. CASE x = "lost"
  BY <1>1, <1>2, <1>3, <1>4, <1>6, Zenon
<1>7. CASE x # "lost" /\ ~Dso(r).exists
  BY <1>1, <1>2, <1>3, <1>7, Zenon
<1>8. CASE x # "lost" /\ r \notin Unwritten(c)
  <2>1. Unwritten(c)' = Unwritten(c)
    BY <1>3, <1>8
  <2> QED  BY <1>1, <1>2, <1>8, <2>1, Zenon
<1> QED  BY <1>5, <1>6, <1>7, <1>8

\* The writes that are left after a step.
LEMMA UnwrittenSteps ==
  ASSUME StripeInv, NEW c \in Clients, Step(c), ~StartIo(c)
  PROVE  /\ Unwritten(c) = {} => Unwritten(c)' = {}
         /\ TransferWrite(c) \/ TransferFails(c) \/ Crash(c) \/ Unwritten(c)' = Unwritten(c)
<1>0. outs \in [Clients -> SUBSET Transfer]
  BY DEF StripeInv, BytesTypes
<1>1. CASE UNCHANGED outs
  BY <1>1, Zenon DEF Unwritten
<1>2. CASE Begin(c) \/ Lookup(c) \/ LookupAgain(c) \/ Stat(c) \/ CollideDso(c) \/ ReloadMo(c)
           \/ CallFails(c) \/ LoadMo(c) \/ NameFile(c) \/ CloseFile(c) \/ Seek(c) \/ Overrun(c)
  BY <1>1, <1>2, Zenon DEF Begin, Lookup, LookupAgain, Stat, CollideDso, ReloadMo, CallFails, LoadMo,
     NameFile, CloseFile, Seek, Overrun, Io
<1>3. CASE CreateContainer(c) \/ CreateAcl(c) \/ CreateDso(c) \/ StoreMo(c)
           \/ Link(c) \/ RemoveDso(c) \/ RemoveMo(c)
  BY <1>1, <1>3 DEF CreateContainer, CreateAcl, CreateDso, StoreMo, Link, RemoveDso, RemoveMo, Io
<1>4. CASE Unlink(c)
  BY <1>1, <1>4, UnlinkIs, Zenon DEF Io
<1>5. CASE Crash(c)
  <2>1. outs'[c] = {}
    BY <1>0, <1>5 DEF Crash
  <2> QED  BY <1>5, <2>1 DEF Unwritten
<1>6. CASE IoDone(c) \/ IoFails(c)
  <2>1. outs'[c] = {r \in outs[c] : r.st \in {"sent", "lost"}}
    BY <1>0, <1>6 DEF IoDone, IoFails, LeaveSent
  <2> QED  BY <2>1 DEF Unwritten
<1>7. CASE TransferWrite(c)
  <2>1. PICK r \in outs[c] : Answer(c, r, "done")
    BY <1>7, Zenon DEF TransferWrite, Ready
  <2>2. Unwritten(c)' = Unwritten(c) \ {r}
    BY <2>1, AnswerLeaves
  <2> QED  BY <1>7, <2>2
<1>f. CASE TransferFails(c)
  BY <1>f, FailsLeaves
<1>8. CASE TransferRead(c)
  <2>1. PICK r \in outs[c] : r.kind = "read" /\ Answer(c, r, "done")
    BY <1>8, ReadIs
  <2>2. Unwritten(c)' = Unwritten(c) \ {r} /\ r \notin Unwritten(c)
    BY <2>1, AnswerLeaves DEF Unwritten
  <2> QED  BY <2>2
<1> QED  BY <1>2, <1>3, <1>4, <1>5, <1>6, <1>7, <1>f, <1>8 DEF Step

LEMMA UnwrittenOthers ==
  ASSUME NEW c \in Clients, Quiet(c), NEW d \in Clients, d # c
  PROVE  Unwritten(d)' = Unwritten(d)
BY DEF Quiet, Unwritten

-----------------------------------------------------------------------------
(***************************************************************************)
(* No file lacks a byte that no write owes it.                             *)
(***************************************************************************)

LEMMA UnwrittenIs ==
  ASSUME StripeInv, NEW c \in Clients, NEW r \in Unwritten(c)
  PROVE  /\ r \in outs[c] /\ r \in Transfer /\ r.off \in Nat /\ Known(r.file)
         /\ r.file \in DOMAIN files /\ Size(r.file) \in Nat /\ r.piece.len \in Nat \ {0}
<1>1. r \in outs[c]
  BY DEF Unwritten
<1> QED  BY <1>1, OutIs DEF Size

\* A step that stores nothing and forgets no write whose object is there.
LEMMA WritesFrame ==
  ASSUME StripeInv, WritesInv, NEW c \in Clients, Step(c), \A f : Known(f) => SameBytes(f),
         \A f : \A i \in Nat : Known(f) /\ Owed(f, i) => Lacks(f, i)',
         \A d \in Clients : \A r \in Unwritten(d)' :
           \/ r \in Unwritten(d) \/ \E q \in Unwritten(d) : Alike(r, q)
           \/ \A i \in Nat : i < r.off => Lacks(r.file, i)' \/ i < Size(r.file)'
  PROVE  WritesInv'
<1>1. \A f : Known(f) => SameBytes(f)
  OBVIOUS
<1>2. \A i \in Nat : ObjIndex(i) \in Servers /\ ObjOffset(i) \in Nat
  BY Placed
<1>3. ASSUME NEW f, NEW i \in Nat, Known(f), Lacks(f, i)
      PROVE  Lacks(f, i)'
  <2>1. CASE ~files[f].dso[ObjIndex(i)].exists
    BY <1>1, <1>2, <1>3, <2>1 DEF SameBytes, Lacks
  <2> QED  BY <1>3, <2>1 DEF Lacks
<1>4. ASSUME NEW f \in DOMAIN files', NEW i \in Nat, i < Size(f)'
      PROVE  Lacks(f, i)' \/ ObjOffset(i) < Len(files'[f].dso[ObjIndex(i)].bytes)
  <2>1. Known(f)
    BY <1>4, SizeGrows
  <2>2. i < Size(f) /\ f \in DOMAIN files
    BY <1>1, <1>4, <2>1 DEF SameBytes, Size, Known
  <2>3. CASE Lacks(f, i)
    BY <1>3, <2>1, <2>3
  <2>4. CASE ~Lacks(f, i) /\ files'[f].dso[ObjIndex(i)].exists
    BY <1>1, <1>2, <2>1, <2>2, <2>4 DEF WritesInv, SameBytes
  <2>5. CASE ~files'[f].dso[ObjIndex(i)].exists
    BY <2>5 DEF Lacks
  <2> QED  BY <2>3, <2>4, <2>5
<1>5. ASSUME NEW d \in Clients, NEW r \in Unwritten(d)', NEW i \in Nat, i < r.off
      PROVE  Lacks(r.file, i)' \/ i < Size(r.file)'
  <2>1. ASSUME NEW q \in Unwritten(d), q.file = r.file, q.off = r.off
        PROVE  Lacks(r.file, i)' \/ i < Size(r.file)'
    <3>1. Known(r.file)
      BY <2>1, UnwrittenIs
    <3>2. Lacks(r.file, i) \/ i < Size(r.file)
      BY <1>5, <2>1 DEF WritesInv
    <3>3. Size(r.file)' = Size(r.file)
      BY <1>1, <3>1 DEF SameBytes, Size
    <3>4. Lacks(r.file, i) => Lacks(r.file, i)'
      BY <1>3, <3>1
    <3> QED  BY <3>2, <3>3, <3>4
  <2> QED  BY <1>5, <2>1 DEF Alike
<1> QED  BY <1>4, <1>5 DEF WritesInv

\* Nothing is owed less where the writes that are left stay.
LEMMA OwedStays ==
  ASSUME \A d \in Clients : Unwritten(d) \subseteq Unwritten(d)', NEW f, NEW i, Owed(f, i)
  PROVE  Owed(f, i)'
<1>1. PICK d \in Clients : \E r \in Unwritten(d) : r.file = f /\ Covers(r, i)
  BY DEF Owed
<1>2. \E r \in Unwritten(d)' : r.file = f /\ Covers(r, i)
  BY <1>1
<1> QED  BY <1>2 DEF Owed, Covers

LEMMA WritesStart ==
  ASSUME Orderly, StripeInv, WritesInv, NEW c \in Clients, StartIo(c), FdInv(c)
  PROVE  WritesInv'
<1>0. Step(c) /\ Quiet(c)
  BY QuietSteps DEF Step
<1>s. PICK kind \in {"read", "write"}, left \in Nat \ {0}, ok \in BOOLEAN : \E sent :
        Started(c, kind, left, ok, sent)
  BY StartNews
<1>p. PICK sent : Started(c, kind, left, ok, sent)
  BY <1>s
<1> DEFINE new == News(c, kind, sent)
<1>1. /\ at[c] = "idle" /\ at'[c] = "io"
      /\ fd[c].file # 0 /\ fd[c] \in Handle
      /\ outs'[c] = outs[c] \cup new
      /\ UNCHANGED files
      /\ \A r \in new :
           /\ r.kind = kind /\ r.st = "sent" /\ r.file = fd[c].file
           /\ r.off = fd[c].pos + r.piece.buf /\ r.piece.buf \in Nat
      /\ \A q \in new, x \in Nat : x < q.piece.buf => \E r \in new : Covers(r, fd[c].pos + x)
  BY <1>p DEF Started
<1>t. \A f : Known(f) => SameBytes(f)
  BY <1>1 DEF SameBytes
<1> HIDE DEF new
<1>2. \A d \in Clients : Unwritten(d) \subseteq Unwritten(d)'
  BY <1>0, <1>1, UnwrittenOthers DEF Unwritten
<1>3. \A f, i : Owed(f, i) => Owed(f, i)'
  BY <1>2, OwedStays
<1>4. \A d \in Clients : d # c => Unwritten(d)' = Unwritten(d)
  BY <1>0, UnwrittenOthers
<1>5. ASSUME NEW r \in Unwritten(c)', r \notin Unwritten(c), NEW i \in Nat, i < r.off
      PROVE  Lacks(r.file, i)' \/ i < Size(r.file)'
  <2>1. r \in new /\ kind = "write"
    BY <1>1, <1>5 DEF Unwritten
  <2>f. PICK f, o : f = fd[c].file /\ o = fd[c].pos
    OBVIOUS
  <2>2. o \in Nat /\ f \in DOMAIN files
    BY <1>1, <2>f DEF Handle, StripeInv, OpenInv, Known
  <2>3. CASE i < o
    <3>1. o <= Size(f) /\ Size(f) \in Nat /\ Size(f)' = Size(f)
      BY <1>0, <1>1, <2>2, <2>f, SizeGrows DEF FdInv, Size
    <3>2. i < Size(f)'
      BY <2>2, <2>3, <3>1
    <3> QED  BY <1>1, <2>1, <2>f, <3>2
  <2>4. CASE o <= i
    <3> DEFINE x == i - o
    <3>1. x \in Nat /\ i = o + x
      BY <2>2, <2>4
    <3>2. x < r.piece.buf
      <4>1. r.off = o + r.piece.buf /\ r.piece.buf \in Nat
        BY <1>1, <2>1, <2>f
      <4> QED  BY <1>5, <2>2, <2>4, <4>1
    <3> HIDE DEF x
    <3>3. PICK q \in new : Covers(q, o + x)
      BY <1>1, <2>1, <2>f, <3>1, <3>2
    <3>4. q \in Unwritten(c)' /\ q.file = f
      BY <1>1, <2>1, <2>f, <3>3 DEF Unwritten
    <3>5. Owed(f, i)'
      BY <3>1, <3>3, <3>4 DEF Owed, Covers
    <3> QED  BY <1>1, <2>1, <2>f, <3>5 DEF Lacks
  <2> QED  BY <2>2, <2>3, <2>4
<1> QED  BY <1>0, <1>t, <1>3, <1>4, <1>5, WritesFrame DEF Lacks

\* The byte a transfer covers is on its object.
LEMMA CoveredIs ==
  ASSUME StripeInv, NEW c \in Clients, NEW r \in outs[c], NEW i \in Nat, Covers(r, i)
  PROVE  /\ ObjIndex(i) = r.piece.obj /\ ObjOffset(i) = r.piece.at + (i - r.off)
         /\ r.piece.obj \in Servers
<1>1. /\ r.off \in Nat /\ r.piece.len \in Nat \ {0} /\ InChunk(r) /\ r.piece.obj \in Servers
  BY OutIs
<1>2. (r.off % chunk_size) + r.piece.len <= chunk_size
  BY <1>1 DEF InChunk
<1>3. r.off <= i /\ i < r.off + r.piece.len
  BY DEF Covers
<1>4. ObjIndex(i) = ObjIndex(r.off) /\ ObjOffset(i) = ObjOffset(r.off) + (i - r.off)
  BY <1>1, <1>2, <1>3, Inside
<1> QED  BY <1>1, <1>4 DEF InChunk

LEMMA WritesFail ==
  ASSUME StripeInv, WritesInv, NEW c \in Clients, TransferFails(c)
  PROVE  WritesInv'
<1>0. Step(c) /\ Quiet(c)
  BY QuietSteps DEF Step
<1>1. PICK r \in outs[c] :
        /\ UNCHANGED files
        /\ \/ ~Dso(r).exists /\ Unwritten(c)' = Unwritten(c) \ {r}
           \/ r \notin Unwritten(c) /\ Unwritten(c)' = Unwritten(c)
           \/ \E q : /\ Alike(q, r) /\ r \in Unwritten(c)
                     /\ Unwritten(c)' = (Unwritten(c) \ {r}) \cup {q}
  BY FailsLeaves, Zenon
<1>2. \A q \in Unwritten(c)' : q \in Unwritten(c) \/ \E p \in Unwritten(c) : Alike(q, p)
  BY <1>1
<1>3. \A d \in Clients : d # c => Unwritten(d)' = Unwritten(d)
  BY <1>0, UnwrittenOthers
<1>4. ASSUME NEW f, NEW i \in Nat, Owed(f, i)
      PROVE  Lacks(f, i)'
  <2>1. PICK d \in Clients : \E q \in Unwritten(d) : q.file = f /\ Covers(q, i)
    BY <1>4 DEF Owed
  <2>2. PICK q \in Unwritten(d) : q.file = f /\ Covers(q, i)
    BY <2>1
  <2>3. CASE d = c /\ q = r /\ ~Dso(r).exists
    <3>1. ObjIndex(i) = r.piece.obj
      BY <1>1, <2>2, <2>3, CoveredIs
    <3>2. ~files'[f].dso[ObjIndex(i)].exists
      BY <1>1, <2>2, <2>3, <3>1 DEF Dso
    <3> QED  BY <3>2 DEF Lacks
  <2>4. CASE ~(d = c /\ q = r /\ ~Dso(r).exists)
    <3>1. \E p \in Unwritten(d)' : p.file = q.file /\ p.off = q.off /\ p.piece = q.piece
      <4>1. CASE d = c
        BY <1>1, <2>4, <4>1 DEF Alike
      <4>2. CASE d # c
        BY <1>3, <4>2
      <4> QED  BY <4>1, <4>2
    <3>2. \E p \in Unwritten(d)' : p.file = f /\ Covers(p, i)
      BY <2>2, <3>1 DEF Covers
    <3>3. Owed(f, i)'
      BY <3>2 DEF Owed, Covers
    <3> QED  BY <3>3 DEF Lacks
  <2> QED  BY <2>3, <2>4
<1>5. \A f : Known(f) => SameBytes(f)
  BY <1>1 DEF SameBytes
<1> QED  BY <1>0, <1>2, <1>3, <1>4, <1>5, WritesFrame

LEMMA WritesStore ==
  ASSUME StripeInv, WritesInv, NEW c \in Clients, TransferWrite(c)
  PROVE  WritesInv'
<1>0. Step(c) /\ Quiet(c)
  BY QuietSteps DEF Step
<1>1. PICK r \in outs[c] :
           /\ r \in Ready(c) /\ r.kind = "write"
           /\ Answer(c, r, "done")
           /\ Part(c, r) \in Seq(Byte) /\ Len(Part(c, r)) = r.piece.len
           /\ DOMAIN files' = DOMAIN files
           /\ files'[r.file].data = Stored(files[r.file].data, r.off, Part(c, r))
           /\ \A s \in Servers :
                /\ files'[r.file].dso[s].exists = files[r.file].dso[s].exists
                /\ files'[r.file].dso[s].bytes =
                     IF s = ObjIndex(r.off)
                     THEN Stored(files[r.file].dso[s].bytes, ObjOffset(r.off), Part(c, r))
                     ELSE files[r.file].dso[s].bytes
           /\ \A f \in DOMAIN files : f # r.file => files'[f] = files[f]
  BY WriteIs
<1>h. PICK h : h = r.file
  OBVIOUS
<1> DEFINE old == files[h]
           new == Part(c, r)
           n == r.piece.len
           s0 == ObjIndex(r.off)
           at0 == ObjOffset(r.off)
<1>2. /\ h \in DOMAIN files /\ r.off \in Nat /\ n \in Nat \ {0} /\ HoldsBytes(h)
      /\ files[h].data \in Seq(Byte) /\ r.piece.obj = s0 /\ r.piece.at = at0 /\ s0 \in Servers
      /\ at0 \in Nat
  BY <1>h, OutIs, Placed DEF InChunk
<1>3. Unwritten(c)' = Unwritten(c) \ {r} /\ r \in Unwritten(c)
  BY <1>1, AnswerLeaves DEF Ready, Unwritten
<1>4. \A d \in Clients : d # c => Unwritten(d)' = Unwritten(d)
  BY <1>0, UnwrittenOthers
<1>5. Size(h) \in Nat /\ Size(h)' = IF Size(h) > r.off + n THEN Size(h) ELSE r.off + n
  <2> DEFINE b == files[h].data
             a == files'[h].data
  <2>1. a = Stored(b, r.off, new)
    BY <1>1, <1>h
  <2>2. new \in Seq(Byte) /\ Len(new) = n /\ b \in Seq(Byte) /\ r.off \in Nat
    BY <1>1, <1>2
  <2>3. Size(h) = Len(b) /\ Size(h)' = Len(a)
    BY DEF Size
  <2> HIDE DEF a, b, new, n
  <2>4. Len(a) = IF Len(b) > r.off + n THEN Len(b) ELSE r.off + n
    BY <2>1, <2>2, StoredIs
  <2> QED  BY <2>2, <2>3, <2>4
<1>6. ASSUME NEW s \in Servers
      PROVE  /\ files'[h].dso[s].exists = files[h].dso[s].exists
             /\ Len(files[h].dso[s].bytes) \in Nat
             /\ Len(files[h].dso[s].bytes) <= Len(files'[h].dso[s].bytes)
             /\ Len(files'[h].dso[s].bytes) \in Nat
             /\ s = s0 => at0 + n <= Len(files'[h].dso[s].bytes)
  <2> DEFINE b == files[h].dso[s].bytes
             a == files'[h].dso[s].bytes
  <2>1. b \in Seq(Byte) /\ Len(b) \in Nat
    BY <1>2 DEF HoldsBytes
  <2>2. CASE s = s0
    <3>1. a = Stored(b, at0, new)
      BY <1>1, <1>h, <2>2
    <3>2. new \in Seq(Byte) /\ Len(new) = n
      BY <1>1
    <3> HIDE DEF a, b, new, n, at0
    <3>3. Len(a) = IF Len(b) > at0 + n THEN Len(b) ELSE at0 + n
      BY <1>2, <2>1, <3>1, <3>2, StoredIs
    <3>4. Len(b) <= Len(a) /\ Len(a) \in Nat /\ at0 + n <= Len(a)
      BY <1>2, <2>1, <3>3
    <3> QED  BY <1>1, <1>h, <2>1, <3>4 DEF a, b, at0, n
  <2>3. CASE s # s0
    <3>1. a = b
      BY <1>1, <1>h, <2>3
    <3> QED  BY <1>1, <1>h, <2>1, <2>3, <3>1
  <2> QED  BY <2>2, <2>3
<1> HIDE DEF s0, at0, n, new
\* What is owed stays owed, but for what was stored.
<1>7. ASSUME NEW f, NEW i \in Nat, Known(f), Lacks(f, i), ~(f = h /\ Covers(r, i))
      PROVE  Lacks(f, i)'
  <2>1. CASE ~files[f].dso[ObjIndex(i)].exists
    <3>1. ~files'[f].dso[ObjIndex(i)].exists
      <4>1. ObjIndex(i) \in Servers /\ f \in DOMAIN files
        BY <1>7, Placed DEF Known
      <4> QED  BY <1>1, <1>6, <1>h, <2>1, <4>1
    <3> QED  BY <3>1 DEF Lacks
  <2>2. CASE Owed(f, i)
    <3>1. PICK d \in Clients : \E q \in Unwritten(d) : q.file = f /\ Covers(q, i)
      BY <2>2 DEF Owed
    <3>2. \E q \in Unwritten(d)' : q.file = f /\ Covers(q, i)
      BY <1>3, <1>4, <1>7, <1>h, <3>1
    <3>3. Owed(f, i)'
      BY <3>2 DEF Owed, Covers
    <3> QED  BY <3>3 DEF Lacks
  <2> QED  BY <1>7, <2>1, <2>2 DEF Lacks
<1>8. ASSUME NEW f \in DOMAIN files', NEW i \in Nat, i < Size(f)'
      PROVE  Lacks(f, i)' \/ ObjOffset(i) < Len(files'[f].dso[ObjIndex(i)].bytes)
  <2>1. Known(f) /\ f \in DOMAIN files /\ ObjIndex(i) \in Servers /\ ObjOffset(i) \in Nat
    BY <1>0, <1>1, <1>8, SizeGrows, Placed
  <2>2. CASE f = h /\ Covers(r, i)
    <3>1. ObjIndex(i) = s0 /\ ObjOffset(i) = at0 + (i - r.off)
      BY <1>2, <2>2, CoveredIs
    <3>2. ObjOffset(i) < at0 + n
      BY <1>2, <2>2, <3>1 DEF Covers, n
    <3>3. at0 + n <= Len(files'[h].dso[s0].bytes) /\ Len(files'[h].dso[s0].bytes) \in Nat
      BY <1>2, <1>6
    <3> QED  BY <1>2, <2>1, <2>2, <3>1, <3>2, <3>3, SMTT(60)
  <2>3. CASE ~(f = h /\ Covers(r, i))
    <3>1. CASE i < Size(f)
      <4>1. Lacks(f, i) \/ ObjOffset(i) < Len(files[f].dso[ObjIndex(i)].bytes)
        BY <2>1, <3>1 DEF WritesInv
      <4>2. CASE Lacks(f, i)
        BY <1>7, <2>1, <2>3, <4>2
      <4>3. CASE ObjOffset(i) < Len(files[f].dso[ObjIndex(i)].bytes)
        <5>1. CASE f = h
          BY <1>6, <2>1, <4>3, <5>1
        <5>2. CASE f # h
          BY <1>1, <1>h, <2>1, <4>3, <5>2
        <5> QED  BY <5>1, <5>2
      <4> QED  BY <4>1, <4>2, <4>3
    <3>2. CASE ~(i < Size(f))
      <4>1. f = h
        BY <1>1, <1>8, <1>h, <2>1, <3>2 DEF Size
      <4>2. i < r.off
        BY <1>2, <1>5, <1>8, <2>3, <3>2, <4>1 DEF Covers, n
      <4>3. Lacks(f, i)
        BY <1>3, <1>h, <3>2, <4>1, <4>2 DEF WritesInv
      <4> QED  BY <1>7, <2>1, <2>3, <4>3
    <3> QED  BY <3>1, <3>2
  <2> QED  BY <2>2, <2>3
<1>9. ASSUME NEW d \in Clients, NEW q \in Unwritten(d)', NEW i \in Nat, i < q.off
      PROVE  Lacks(q.file, i)' \/ i < Size(q.file)'
  <2>1. q \in Unwritten(d)
    BY <1>3, <1>4
  <2>2. Known(q.file) /\ q.file \in DOMAIN files
    BY <2>1, UnwrittenIs
  <2>3. Size(q.file) <= Size(q.file)' /\ Size(q.file) \in Nat /\ Size(q.file)' \in Nat
    BY <1>0, <2>2, SizeGrows
  <2>4. CASE i < Size(q.file)
    BY <2>3, <2>4
  <2>5. CASE ~(i < Size(q.file)) /\ ~(q.file = h /\ Covers(r, i))
    <3>1. Lacks(q.file, i)
      BY <1>9, <2>1, <2>5 DEF WritesInv
    <3> QED  BY <1>7, <2>2, <2>5, <3>1
  <2>6. CASE q.file = h /\ Covers(r, i)
    BY <1>2, <1>5, <2>6 DEF Covers, n
  <2> QED  BY <2>4, <2>5, <2>6
<1> QED  BY <1>8, <1>9 DEF WritesInv

\* No step makes a file lack a byte.
LEMMA WritesSteps ==
  ASSUME Orderly, StripeInv, WritesInv, NEW c \in Clients, Step(c), FdInv(c)
  PROVE  WritesInv'
<1>1. CASE ~(StartIo(c) \/ TransferWrite(c) \/ TransferFails(c))
  <2>1. Quiet(c) /\ \A f : Known(f) => SameBytes(f)
    BY <1>1, QuietSteps, KnownSame
  <2>2. Unwritten(c)' = Unwritten(c)
    <3>1. CASE Crash(c)
      <4>1. Unwritten(c) = {}
        BY <3>1 DEF Crash, Orderly
      <4> QED  BY <1>1, <4>1, UnwrittenSteps
    <3> QED  BY <1>1, <3>1, UnwrittenSteps
  <2>3. \A d \in Clients : Unwritten(d)' = Unwritten(d)
    BY <2>1, <2>2, UnwrittenOthers
  <2>4. \A f, i : Owed(f, i) => Owed(f, i)'
    BY <2>3, OwedStays
  <2> QED  BY <2>1, <2>3, <2>4, WritesFrame DEF Lacks
<1> QED  BY <1>1, WritesStart, WritesStore, WritesFail

-----------------------------------------------------------------------------
(***************************************************************************)
(* The other processes.                                                    *)
(***************************************************************************)

\* While a process reads, no write is begun.
LEMMA CalmStays ==
  ASSUME Orderly, StripeInv, NEW c \in Clients, Step(c), NEW d \in Clients,
         at[d] = "io", op[d].kind = "read", \A e \in Clients : Unwritten(e) = {}
  PROVE  \A e \in Clients : Unwritten(e)' = {}
<1>1. Quiet(c)
  BY QuietSteps
<1>2. \A e \in Clients : e # c => Unwritten(e)' = {}
  BY <1>1, UnwrittenOthers
<1>3. CASE ~StartIo(c)
  BY <1>2, <1>3, UnwrittenSteps
<1>4. CASE StartIo(c)
  <2>s. PICK kind \in {"read", "write"}, left \in Nat \ {0}, ok \in BOOLEAN : \E sent :
          Started(c, kind, left, ok, sent)
    BY <1>4, StartNews
  <2>p. PICK sent : Started(c, kind, left, ok, sent)
    BY <2>s
  <2>1. /\ kind = "write" => Torn \/ ~Reading
        /\ outs'[c] = outs[c] \cup News(c, kind, sent)
        /\ \A r \in News(c, kind, sent) : r.kind = kind
    BY <2>p DEF Started
  <2>2. kind = "read"
    BY <2>1 DEF Orderly, Reading
  <2>3. Unwritten(c)' = {}
    BY <2>1, <2>2 DEF Unwritten
  <2> QED  BY <1>2, <2>3
<1> QED  BY <1>3, <1>4

\* What a process holds is as good after another one's step.
LEMMA OthersProc ==
  ASSUME Orderly, ReadInv, NEW c \in Clients, Step(c), NEW d \in Clients, d # c
  PROVE  ReaderInv(d)'
<1>0. StripeInv /\ ReaderInv(d)
  BY DEF ReadInv
<1>1. /\ at'[d] = at[d] /\ op'[d] = op[d] /\ fd'[d] = fd[d] /\ outs'[d] = outs[d]
      /\ buf'[d] = buf[d] /\ want'[d] = want[d]
  BY <1>0, QuietSteps DEF Quiet
<1>2. \A f \in DOMAIN files : Size(f) <= Size(f)' /\ Size(f) \in Nat /\ Size(f)' \in Nat
  BY <1>0, SizeGrows
<1>t. /\ fd[d] \in Handle /\ fd[d].pos \in Nat /\ fd[d].size \in Nat
      /\ op[d].size \in Nat /\ op[d].count \in Nat
      /\ fd[d].file # 0 => fd[d].file \in DOMAIN files
      /\ at[d] \in {"stat", "load"} => op[d].file \in DOMAIN files
      /\ at[d] = "stat" => op[d].i \in Nat
  BY <1>0, ServersAre DEF StripeInv, BytesTypes, Handle, OpenInv, Known
<1>f. PICK f, g : f = fd[d].file /\ g = op[d].file
  OBVIOUS
<1>3. FdInv(d)'
  <2>1. f # 0 => fd[d].pos <= Size(f)' /\ fd[d].size <= Size(f)'
    BY <1>0, <1>2, <1>t, <1>f DEF ReaderInv, FdInv
  <2> QED  BY <1>1, <1>f, <2>1 DEF FdInv, Size
<1>4. RestInv(d)' /\ EndedInv(d)'
  BY <1>0, <1>1 DEF ReaderInv, RestInv, EndedInv
<1>5. StatInv(d)'
  <2>1. CASE at[d] = "stat"
    <3> DEFINE i == op[d].i
               n == Size(g)
    <3>1. g \in DOMAIN files /\ i \in Nat
      BY <1>t, <1>f, <2>1
    <3>p. PICK m : m = Size(g)'
      OBVIOUS
    <3>2. n \in Nat /\ m \in Nat /\ n <= m
      BY <1>2, <3>1, <3>p
    <3>3. op[d].other = g /\ op[d].size <= Prefix(i, n)
      BY <1>0, <1>f, <2>1 DEF ReaderInv, StatInv
    <3> HIDE DEF i, n
    <3>4. Prefix(i, n) <= Prefix(i, m) /\ Prefix(i, n) \in Nat /\ Prefix(i, m) \in Nat
      BY <3>1, <3>2, PrefixGrows, PrefixIs
    <3>5. op[d].size <= Prefix(i, m)
      BY <1>t, <3>3, <3>4
    <3>6. op'[d].size <= Prefix(op'[d].i, Len(files'[op'[d].file].data))
      BY <1>1, <1>f, <3>5, <3>p DEF i, Size
    <3> QED  BY <1>1, <1>f, <2>1, <3>3, <3>6 DEF StatInv, Size, Prefix, Stripe
  <2>2. CASE at[d] = "load"
    <3>1. op[d].size <= Size(g)'
      BY <1>0, <1>2, <1>t, <1>f, <2>2 DEF ReaderInv, StatInv
    <3> QED  BY <1>1, <1>f, <2>2, <3>1 DEF StatInv, Size
  <2>3. CASE at[d] \notin {"stat", "load"}
    BY <1>0, <1>1, <2>3 DEF ReaderInv, StatInv
  <2> QED  BY <2>1, <2>2, <2>3
<1>6. IoInv(d)'
  <2> SUFFICES ASSUME at[d] = "io" PROVE IoInv(d)'
    BY <1>1 DEF IoInv
  <2>1. IoInv(d) /\ f \in DOMAIN files
    BY <1>0, <1>t, <1>f DEF ReaderInv, IoInv
  <2>2. op[d].kind = "read" =>
          /\ fd[d].pos + op[d].count <= Size(f)'
          /\ \A e \in Clients : Unwritten(e)' = {}
    <3>1. CASE op[d].kind = "read"
      <4>1. fd[d].pos + op[d].count <= Size(f) /\ \A e \in Clients : Unwritten(e) = {}
        BY <1>f, <2>1, <3>1 DEF IoInv
      <4>2. fd[d].pos + op[d].count <= Size(f)'
        BY <1>2, <1>t, <2>1, <4>1
      <4> QED  BY <1>0, <3>1, <4>1, <4>2, CalmStays
    <3> QED  BY <3>1
  <2>3. op[d].kind = "write" =>
          \A r \in outs[d] : r.st = "done" => r.off + r.piece.len <= Size(f)'
    <3> SUFFICES ASSUME op[d].kind = "write", NEW r \in outs[d], r.st = "done"
                 PROVE  r.off + r.piece.len <= Size(f)'
      OBVIOUS
    <3>1. r.off + r.piece.len <= Size(f) /\ r.off \in Nat /\ r.piece.len \in Nat
      BY <1>0, <1>f, <2>1, OutIs DEF IoInv
    <3> QED  BY <1>2, <2>1, <3>1
  <2>4. Size(fd[d].file)' = Size(f)'
    BY <1>1, <1>f DEF Size
  <2> QED  BY <1>1, <1>f, <2>1, <2>2, <2>3, <2>4 DEF IoInv, Ours, Got, Covers
<1> QED  BY <1>3, <1>4, <1>5, <1>6 DEF ReaderInv

-----------------------------------------------------------------------------
(***************************************************************************)
(* Opening: the sizes of the objects never add up to more than the file.   *)
(***************************************************************************)

LEMMA PrefixMore ==
  ASSUME NEW k \in Nat, NEW len \in Nat
  PROVE  Prefix(k, len) <= Prefix(k + 1, len)
<1> DEFINE q == len \div Stripe
           r == len % Stripe
           u == k * chunk_size
           v == (k + 1) * chunk_size
           a == q * (chunk_size * k)
           b == q * (chunk_size * (k + 1))
<1>1. /\ q \in Nat /\ r \in Nat /\ u \in Nat /\ a \in Nat /\ v \in Nat /\ b \in Nat
  <2>1. k + 1 \in Nat
    OBVIOUS
  <2> QED  BY <2>1, PrefixIs
<1>2. v = u + chunk_size /\ chunk_size \in Nat
  BY StripingAssumption
<1>3. b = a + q * chunk_size /\ q * chunk_size \in Nat
  <2>1. chunk_size * (k + 1) = chunk_size * k + chunk_size /\ chunk_size * k \in Nat
    BY StripingAssumption
  <2> DEFINE y == chunk_size * k
  <2>2. b = q * (y + chunk_size) /\ a = q * y /\ y \in Nat
    BY <2>1
  <2> HIDE DEF y, q, b, a
  <2>3. q * (y + chunk_size) = q * y + q * chunk_size /\ q * chunk_size \in Nat
    BY <1>1, <2>2, StripingAssumption
  <2> QED  BY <2>2, <2>3
<1>4. Prefix(k, len) = a + AtMost(u, r) /\ Prefix(k + 1, len) = b + AtMost(v, r)
  BY DEF Prefix
<1> DEFINE z == q * chunk_size
<1>5. b = a + z /\ z \in Nat
  BY <1>3
<1> HIDE DEF q, r, u, v, a, b, z
<1>6. AtMost(u, r) <= AtMost(v, r) /\ AtMost(u, r) \in Nat /\ AtMost(v, r) \in Nat
  BY <1>1, <1>2 DEF AtMost
<1> QED  BY <1>1, <1>4, <1>5, <1>6

\* An object has no more bytes than the file has on it.
LEMMA ObjectBound ==
  ASSUME StripeInv, NEW f \in DOMAIN files, NEW s \in Servers, files[f].dso[s].exists
  PROVE  /\ Len(files[f].dso[s].bytes) \in Nat /\ Size(f) \in Nat
         /\ Prefix(s, Size(f)) + Len(files[f].dso[s].bytes) <= Prefix(s + 1, Size(f))
         /\ Prefix(s, Size(f)) \in Nat /\ Prefix(s + 1, Size(f)) \in Nat
<1> DEFINE b == files[f].dso[s].bytes
           d == files[f].data
           n == Len(b)
           m == Len(d)
<1>1. b \in Seq(Byte) /\ d \in Seq(Byte) /\ Holds(s, b, d)
  BY DEF StripeInv, HoldsBytes
<1>2. n \in Nat /\ m \in Nat /\ s \in Nat /\ s + 1 \in Nat
  BY <1>1, ServersAre
<1>3. \A j \in Nat : j < n => \E i \in Nat : i < m /\ ObjIndex(i) = s /\ ObjOffset(i) = j
  BY <1>1 DEF Holds
<1> HIDE DEF n, m
<1>4. Prefix(s, m) \in Nat /\ Prefix(s + 1, m) \in Nat /\ Prefix(s, m) <= Prefix(s + 1, m)
  BY <1>2, PrefixIs, PrefixMore
<1>5. Prefix(s, m) + n <= Prefix(s + 1, m)
  <2>1. CASE n = 0
    BY <1>4, <2>1
  <2>2. CASE n # 0
    <3>1. n - 1 \in Nat /\ n - 1 < n
      BY <1>2, <2>2
    <3>2. PICK i \in Nat : i < m /\ ObjIndex(i) = s /\ ObjOffset(i) = n - 1
      BY <1>3, <3>1
    <3>3. Prefix(ObjIndex(i), m) + ObjOffset(i) + 1 <= Prefix(ObjIndex(i) + 1, m)
      BY <1>2, <3>2, ShareBound
    <3>4. Prefix(s, m) + (n - 1) + 1 <= Prefix(s + 1, m)
      BY <3>2, <3>3
    <3> QED  BY <1>2, <1>4, <3>4
  <2> QED  BY <2>1, <2>2
<1> QED  BY <1>2, <1>4, <1>5 DEF n, m, b, d, Size

\* A call that leaves the open file alone.
Calls(c) ==
  \/ Begin(c) \/ Lookup(c) \/ LookupAgain(c) \/ Stat(c)
  \/ CreateContainer(c) \/ CreateAcl(c) \/ CreateDso(c) \/ CollideDso(c) \/ StoreMo(c)
  \/ Link(c) \/ Unlink(c) \/ ReloadMo(c) \/ RemoveDso(c) \/ RemoveMo(c) \/ CallFails(c)

Holding == {"io", "stopped", "overrun"}

LEMMA CallIs ==
  ASSUME StripeInv, NEW c \in Clients, EndedInv(c), Calls(c)
  PROVE  /\ UNCHANGED <<fd, buf, want, outs>>
         /\ at[c] \notin Holding /\ at'[c] # "io" /\ op'[c].kind # "ended"
<1>0. /\ DOMAIN at = Clients /\ DOMAIN op = Clients /\ DOMAIN op[c] = DOMAIN NoOp
  BY DEF StripeInv, FilesInv, Shapes
<1>d. Done(c) => at'[c] = "idle" /\ op'[c].kind # "ended"
  <2>1. NoOp.kind # "ended"
    BY DEF NoOp
  <2> QED  BY <1>0, <2>1 DEF Done, Goto, Set
<1>k. at[c] # "idle" => op[c].kind # "ended"
  BY DEF EndedInv
<1> DEFINE Alone == Done(c) \/ op'[c].kind = op[c].kind
<1>1. CASE Begin(c)
  <2>1. PICK n, m : \E kind \in {"open", "unlink", "link", "rename"} :
          \/ Set(c, [NoOp EXCEPT !.kind = kind, !.name = n])
          \/ Set(c, [NoOp EXCEPT !.kind = kind, !.name = n, !.new = m])
    BY <1>1, Zenon DEF Begin
  <2>2. PICK kind \in {"open", "unlink", "link", "rename"} :
          \/ Set(c, [NoOp EXCEPT !.kind = kind, !.name = n])
          \/ Set(c, [NoOp EXCEPT !.kind = kind, !.name = n, !.new = m])
    BY <2>1
  <2>3. op'[c].kind = kind
    <3>1. CASE Set(c, [NoOp EXCEPT !.kind = kind, !.name = n])
      <4>1. op'[c] = [NoOp EXCEPT !.kind = kind, !.name = n]
        BY <1>0, <3>1 DEF Set
      <4> QED  BY <4>1 DEF NoOp
    <3>2. CASE Set(c, [NoOp EXCEPT !.kind = kind, !.name = n, !.new = m])
      <4>1. op'[c] = [NoOp EXCEPT !.kind = kind, !.name = n, !.new = m]
        BY <1>0, <3>2 DEF Set
      <4> QED  BY <4>1 DEF NoOp
    <3> QED  BY <2>2, <3>1, <3>2
  <2>4. op'[c].kind # "ended"
    BY <2>3
  <2> QED  BY <1>0, <1>1, <2>4, ZenonT(60) DEF Begin, Goto, Io, Holding
<1>2. ASSUME UNCHANGED Io, at[c] \notin Holding \cup {"idle"}, Alone,
             Done(c) \/ at' = at \/ \E x : Goto(c, x) /\ x # "io"
      PROVE  /\ UNCHANGED <<fd, buf, want, outs>>
             /\ at[c] \notin Holding /\ at'[c] # "io" /\ op'[c].kind # "ended"
  <2>1. CASE Done(c)
    BY <1>2, <1>d, <2>1 DEF Io
  <2>2. CASE ~Done(c)
    <3>1. op'[c].kind # "ended"
      BY <1>0, <1>2, <1>k, <2>2 DEF Set
    <3>2. at'[c] # "io"
      BY <1>0, <1>2, <2>2 DEF Goto, Holding
    <3> QED  BY <1>2, <3>1, <3>2 DEF Io
  <2> QED  BY <2>1, <2>2
<1>3. CASE Lookup(c)
  <2>1. Alone
    BY <1>0, <1>3 DEF Lookup, Set, NoOp
  <2> QED  BY <1>2, <1>3, <2>1 DEF Lookup, Holding
<1>4. CASE LookupAgain(c)
  <2>1. Alone
    BY <1>0, <1>4 DEF LookupAgain, Set, NoOp
  <2> QED  BY <1>2, <1>4, <2>1 DEF LookupAgain, Holding
<1>5. CASE Stat(c)
  <2>1. Alone
    BY <1>0, <1>5, ZenonT(60) DEF Stat, Set, NoOp
  <2> QED  BY <1>2, <1>5, <2>1 DEF Stat, Holding
<1>6. CASE CreateContainer(c)
  <2>1. Alone
    BY <1>0, <1>6 DEF CreateContainer, Set, NoOp
  <2> QED  BY <1>2, <1>6, <2>1 DEF CreateContainer, Holding
<1>7. CASE CreateAcl(c) \/ StoreMo(c)
  BY <1>2, <1>7 DEF CreateAcl, StoreMo, Holding
<1>8. CASE CreateDso(c)
  <2>1. Alone
    BY <1>0, <1>8 DEF CreateDso, Set, NoOp
  <2> QED  BY <1>2, <1>8, <2>1 DEF CreateDso, Holding
<1>9. CASE CollideDso(c)
  <2>1. Alone
    BY <1>0, <1>9 DEF CollideDso, Set, NoOp
  <2> QED  BY <1>2, <1>9, <2>1 DEF CollideDso, Holding
<1>10. CASE Link(c) \/ ReloadMo(c) \/ RemoveMo(c) \/ CallFails(c)
  BY <1>2, <1>10 DEF Link, ReloadMo, RemoveMo, CallFails, Holding
<1>11. CASE RemoveDso(c)
  <2>1. Alone
    BY <1>0, <1>11 DEF RemoveDso, Set, NoOp
  <2> QED  BY <1>2, <1>11, <2>1 DEF RemoveDso, Holding
<1>12. CASE Unlink(c)
  <2>1. at[c] = "unlink" /\ UNCHANGED Io
    BY <1>12, UnlinkIs, Zenon
  <2>2. CASE Done(c)
    BY <1>2, <2>1, <2>2 DEF Holding
  <2>3. CASE ~Done(c)
    <3>1. PICK f : Set(c, [op[c] EXCEPT !.file = f, !.i = 0]) /\ Goto(c, "reload")
      BY <1>12, <2>3, UnlinkIs, Zenon
    <3>2. Alone
      BY <1>0, <3>1 DEF Set, NoOp
    <3> QED  BY <1>2, <2>1, <3>1, <3>2 DEF Holding
  <2> QED  BY <2>2, <2>3
<1> QED  BY <1>1, <1>3, <1>4, <1>5, <1>6, <1>7, <1>8, <1>9, <1>10, <1>11, <1>12 DEF Calls

\* What it knows of the size of a file that it opens.
LEMMA StatSteps ==
  ASSUME Orderly, StripeInv, NEW c \in Clients, StatInv(c), Calls(c)
  PROVE  StatInv(c)'
<1> USE DEF Goto, Set, Done, Io
<1>0. /\ DOMAIN at = Clients /\ DOMAIN op = Clients /\ DOMAIN op[c] = DOMAIN NoOp
      /\ OpenInv(c)
  BY DEF StripeInv, FilesInv, Shapes
<1>1. CASE at'[c] \notin {"again", "stat", "load"}
  BY <1>1 DEF StatInv
<1>2. CASE Lookup(c) /\ at'[c] = "again"
  <2>1. PICK f : op' = [op EXCEPT ![c] = [op[c] EXCEPT !.file = f, !.i = 0, !.size = 0]]
    BY <1>0, <1>2, Zenon DEF Lookup
  <2>2. op'[c].size = 0
    BY <1>0, <2>1 DEF NoOp
  <2> QED  BY <1>2, <2>2 DEF StatInv
<1>3. CASE LookupAgain(c) /\ at'[c] = "stat"
  <2>f. PICK f, g : f = entries[Name(c)] /\ g = op[c].file
    OBVIOUS
  <2>1. /\ at[c] = "again" /\ UNCHANGED files
        /\ op' = [op EXCEPT ![c] = [op[c] EXCEPT !.other = f]]
        /\ f = g
    BY <1>0, <1>3, <2>f DEF LookupAgain, Orderly
  <2>2. op'[c].other = g /\ op'[c].file = g /\ op'[c].size = op[c].size /\ op'[c].i = op[c].i
    BY <1>0, <2>1, <2>f DEF NoOp
  <2>3. op[c].size = 0 /\ op[c].i = 0 /\ g \in DOMAIN files
    BY <1>0, <2>1, <2>f DEF StatInv, OpenInv, Known
  <2>4. PICK n : n = Size(g)'
    OBVIOUS
  <2>5. n \in Nat
    BY <2>1, <2>3, <2>4 DEF Size, StripeInv, HoldsBytes
  <2>6. Prefix(0, n) = 0
    BY <2>5, PrefixEnds
  <2>7. op'[c].size <= Prefix(op'[c].i, Len(files'[op'[c].file].data))
    BY <2>2, <2>3, <2>4, <2>6 DEF Size
  <2> QED  BY <1>3, <2>2, <2>7 DEF StatInv, Size, Prefix, Stripe
<1>4. CASE Stat(c) /\ at'[c] \in {"stat", "load"}
  <2>f. PICK g, i, n, s : g = op[c].file /\ i = op[c].i /\ n = Size(g) /\ s = op[c].size
    OBVIOUS
  <2>1. at[c] = "stat" /\ UNCHANGED files
    BY <1>4 DEF Stat
  <2>2. op[c].other = g /\ s <= Prefix(i, n) /\ g \in DOMAIN files /\ i \in Servers /\ s \in Nat
    BY <1>0, <2>1, <2>f DEF StatInv, OpenInv, Known
  <2>3. /\ files[g].dso[i].exists
        /\ op' = [op EXCEPT ![c] = [op[c] EXCEPT !.i = i + 1,
                                       !.size = @ + Len(files[g].dso[i].bytes)]]
        /\ IF i + 1 = ss_obj_count THEN Goto(c, "load") ELSE UNCHANGED at
    <3>1. ~Done(c)
      BY <1>0, <1>4
    <3> QED  BY <1>4, <2>2, <2>f, <3>1 DEF Stat
  <2>4. PICK b : b = Len(files[g].dso[i].bytes)
    OBVIOUS
  <2>5. /\ op'[c].i = i + 1 /\ op'[c].size = s + b /\ op'[c].file = g /\ op'[c].other = g
    BY <1>0, <2>2, <2>3, <2>4, <2>f DEF NoOp
  <2>6. b \in Nat /\ n \in Nat /\ Prefix(i, n) + b <= Prefix(i + 1, n)
        /\ Prefix(i, n) \in Nat /\ Prefix(i + 1, n) \in Nat
    BY <2>2, <2>3, <2>4, <2>f, ObjectBound
  <2>7. s + b <= Prefix(i + 1, n)
    BY <2>2, <2>6
  <2>8. Size(g)' = n
    BY <2>1, <2>f DEF Size
  <2>9. CASE at'[c] = "stat"
    <3>1. op'[c].size <= Prefix(op'[c].i, Len(files'[op'[c].file].data))
      BY <2>5, <2>7, <2>8 DEF Size
    <3> QED  BY <2>5, <2>9, <3>1 DEF StatInv, Size, Prefix, Stripe
  <2>10. CASE at'[c] = "load"
    <3>1. i + 1 = ss_obj_count
      BY <1>0, <2>1, <2>3, <2>10
    <3>2. Prefix(i + 1, n) = n
      BY <2>6, <3>1, PrefixEnds
    <3>3. op'[c].size <= Len(files'[op'[c].file].data)
      BY <2>5, <2>7, <2>8, <3>2 DEF Size
    <3> QED  BY <2>10, <3>3 DEF StatInv, Size
  <2> QED  BY <1>4, <2>9, <2>10
<1>5. Lookup(c) \/ LookupAgain(c) \/ Stat(c) \/ at'[c] \notin {"again", "stat", "load"}
  <2>1. CASE Begin(c) \/ CreateContainer(c) \/ CreateAcl(c) \/ CreateDso(c) \/ CollideDso(c)
             \/ StoreMo(c)
    BY <1>0, <2>1, Zenon DEF Begin, CreateContainer, CreateAcl, CreateDso, CollideDso, StoreMo
  <2>2. CASE Link(c) \/ ReloadMo(c) \/ RemoveDso(c) \/ RemoveMo(c) \/ CallFails(c)
    BY <1>0, <2>2 DEF Link, ReloadMo, RemoveDso, RemoveMo, CallFails
  <2>3. CASE Unlink(c)
    BY <1>0, <2>3, UnlinkIs, Zenon
  <2> QED  BY <2>1, <2>2, <2>3, Zenon DEF Calls
<1>6. Lookup(c) => at'[c] \notin {"stat", "load"}
  BY <1>0 DEF Lookup
<1>7. LookupAgain(c) => at'[c] \notin {"again", "load"}
  BY <1>0 DEF LookupAgain
<1>8. Stat(c) => at'[c] # "again"
  BY <1>0 DEF Stat
<1> QED  BY <1>1, <1>2, <1>3, <1>4, <1>5, <1>6, <1>7, <1>8

LEMMA CallProc ==
  ASSUME Orderly, ReadInv, NEW c \in Clients, Calls(c)
  PROVE  ReaderInv(c)'
<1>0. StripeInv /\ ReaderInv(c) /\ Step(c)
  BY DEF ReadInv, Calls, Step
<1>1. /\ UNCHANGED <<fd, buf, want, outs>>
      /\ at[c] \notin Holding /\ at'[c] # "io" /\ op'[c].kind # "ended"
  BY <1>0, CallIs DEF ReaderInv
<1>2. StatInv(c)'
  BY <1>0, StatSteps DEF ReaderInv
<1>3. FdInv(c)'
  <2>f. PICK f : f = fd[c].file
    OBVIOUS
  <2>1. f # 0 => fd[c].pos <= Size(f)' /\ fd[c].size <= Size(f)'
    <3> SUFFICES ASSUME f # 0 PROVE fd[c].pos <= Size(f)' /\ fd[c].size <= Size(f)'
      OBVIOUS
    <3>1. f \in DOMAIN files /\ fd[c].pos \in Nat /\ fd[c].size \in Nat
      BY <1>0, <2>f DEF StripeInv, OpenInv, Known, BytesTypes, Handle
    <3>2. Size(f) <= Size(f)' /\ Size(f) \in Nat /\ Size(f)' \in Nat
      BY <1>0, <3>1, SizeGrows
    <3> QED  BY <1>0, <2>f, <3>1, <3>2 DEF ReaderInv, FdInv
  <2> QED  BY <1>1, <2>f, <2>1 DEF FdInv, Size
<1>4. RestInv(c)'
  BY <1>0, <1>1 DEF ReaderInv, RestInv, Holding
<1> QED  BY <1>1, <1>2, <1>3, <1>4 DEF ReaderInv, EndedInv, IoInv

-----------------------------------------------------------------------------
(***************************************************************************)
(* Positions, and the steps at a file that was opened.                     *)
(***************************************************************************)

LEMMA Resting ==
  ASSUME NEW c \in Clients, at'[c] \notin {"io", "again", "stat", "load"},
         FdInv(c)', RestInv(c)', EndedInv(c)'
  PROVE  ReaderInv(c)'
BY DEF ReaderInv, IoInv, StatInv

LEMMA FdIs ==
  ASSUME StripeInv, NEW c \in Clients, Step(c), NEW f, f = fd'[c].file,
         f # 0 => /\ f \in DOMAIN files /\ fd'[c].pos \in Nat /\ fd'[c].size \in Nat
                  /\ fd'[c].pos <= Size(f) /\ fd'[c].size <= Size(f)
  PROVE  FdInv(c)'
<1>1. f # 0 => fd'[c].pos <= Size(f)' /\ fd'[c].size <= Size(f)'
  <2> SUFFICES ASSUME f # 0 PROVE fd'[c].pos <= Size(f)' /\ fd'[c].size <= Size(f)'
    OBVIOUS
  <2>1. Size(f) <= Size(f)' /\ Size(f) \in Nat /\ Size(f)' \in Nat
    BY SizeGrows
  <2> QED  BY <2>1
<1> QED  BY <1>1 DEF FdInv, Size

LEMMA FdNow ==
  ASSUME StripeInv, NEW c \in Clients, FdInv(c)
  PROVE  /\ fd[c] \in Handle /\ fd[c].pos \in Nat /\ fd[c].size \in Nat /\ fd[c].fpos \in Nat
         /\ fd[c].file # 0 => /\ fd[c].file \in DOMAIN files /\ Size(fd[c].file) \in Nat
                              /\ fd[c].pos <= Size(fd[c].file) /\ fd[c].size <= Size(fd[c].file)
BY DEF StripeInv, OpenInv, Known, BytesTypes, Handle, FdInv, HoldsBytes, Size

LEMMA FdStays ==
  ASSUME StripeInv, NEW c \in Clients, Step(c), FdInv(c), fd'[c].file = fd[c].file,
         fd'[c].pos = fd[c].pos, fd'[c].size = fd[c].size
  PROVE  FdInv(c)'
<1>1. PICK f : f = fd'[c].file
  OBVIOUS
<1> QED  BY <1>1, FdNow, FdIs

LEMMA OpenProc ==
  ASSUME Orderly, ReadInv, NEW c \in Clients,
         LoadMo(c) \/ NameFile(c) \/ Crash(c) \/ CloseFile(c) \/ Seek(c) \/ Overrun(c)
  PROVE  ReaderInv(c)'
<1>0. StripeInv /\ ReaderInv(c) /\ Step(c) /\ FdInv(c) /\ RestInv(c) /\ EndedInv(c)
  BY DEF ReadInv, Step, ReaderInv
<1>d. /\ DOMAIN at = Clients /\ DOMAIN op = Clients /\ DOMAIN op[c] = DOMAIN NoOp
      /\ fd \in [Clients -> Handle] /\ DOMAIN outs = Clients /\ OpenInv(c) /\ WorkInv(c)
  BY <1>0 DEF StripeInv, FilesInv, Shapes, BytesTypes
<1>n. NoOp.kind = "none" /\ NoFile.file = 0 /\ NoFile.fpos = NoFile.pos
  BY DEF NoOp, NoFile
<1>1. ASSUME NEW h, fd'[c] = h, h.file = 0, h.fpos = h.pos, outs'[c] = {}, at'[c] = "idle",
             op'[c].kind # "ended"
      PROVE  ReaderInv(c)'
  <2>1. FdInv(c)' /\ RestInv(c)' /\ EndedInv(c)'
    BY <1>1 DEF FdInv, RestInv, EndedInv
  <2> QED  BY <1>1, <2>1, Resting
<1>2. CASE Crash(c)
  <2>1. fd'[c] = NoFile /\ outs'[c] = {} /\ at'[c] = "idle" /\ op'[c] = NoOp
    BY <1>2, <1>d DEF Crash, Done, Goto, Set
  <2> QED  BY <1>1, <1>n, <2>1
<1>3. CASE CloseFile(c)
  <2>1. fd'[c] = NoFile /\ outs'[c] = {} /\ at'[c] = "idle" /\ op'[c] = NoOp
    BY <1>0, <1>3, <1>d DEF CloseFile, Set, RestInv
  <2> QED  BY <1>1, <1>n, <2>1
<1>4. CASE LoadMo(c)
  <2>1. at[c] = "load" /\ at'[c] = "idle" /\ op'[c] = NoOp /\ UNCHANGED outs
    BY <1>4, <1>d DEF LoadMo, Done, Goto, Set
  <2>2. outs'[c] = {} /\ fd[c].fpos = fd[c].pos
    BY <1>0, <2>1 DEF RestInv
  <2>3. CASE UNCHANGED fd
    <3>1. FdInv(c)'
      BY <1>0, <2>3, FdStays
    <3>2. RestInv(c)' /\ EndedInv(c)'
      BY <1>n, <2>1, <2>2, <2>3 DEF RestInv, EndedInv
    <3> QED  BY <2>1, <3>1, <3>2, Resting
  <2>4. CASE ~UNCHANGED fd
    <3>1. fd'[c] = [NoFile EXCEPT !.file = op[c].file, !.size = op[c].size]
      BY <1>4, <1>d, <2>4 DEF LoadMo
    <3>2. fd'[c].file = op[c].file /\ fd'[c].size = op[c].size /\ fd'[c].pos = 0 /\ fd'[c].fpos = 0
      BY <3>1 DEF NoFile
    <3>3. PICK f : f = op[c].file
      OBVIOUS
    <3>4. f \in DOMAIN files /\ op[c].size \in Nat /\ op[c].size <= Size(f) /\ Size(f) \in Nat
      BY <1>0, <1>d, <2>1, <3>3, SizeGrows DEF OpenInv, Known, ReaderInv, StatInv
    <3>5. FdInv(c)'
      BY <1>0, <3>2, <3>3, <3>4, FdIs
    <3>6. RestInv(c)' /\ EndedInv(c)'
      BY <1>n, <2>1, <2>2, <3>2 DEF RestInv, EndedInv
    <3> QED  BY <2>1, <3>5, <3>6, Resting
  <2> QED  BY <2>3, <2>4
<1>5. CASE NameFile(c)
  <2>1. at[c] = "name" /\ UNCHANGED outs
    BY <1>5 DEF NameFile
  <2>2. outs'[c] = {} /\ fd[c].fpos = fd[c].pos /\ op[c].kind # "ended"
    BY <1>0, <2>1 DEF RestInv, EndedInv
  <2>3. CASE entries[Name(c)] = 0
    <3>1. fd'[c] = [NoFile EXCEPT !.file = op[c].file] /\ at'[c] = "idle" /\ op'[c] = NoOp
      BY <1>5, <1>d, <2>3 DEF NameFile, Done, Goto, Set
    <3>2. fd'[c].file = op[c].file /\ fd'[c].size = 0 /\ fd'[c].pos = 0 /\ fd'[c].fpos = 0
      BY <3>1 DEF NoFile
    <3>3. PICK f : f = op[c].file
      OBVIOUS
    <3>4. f \in DOMAIN files
      BY <1>d, <2>1, <3>3 DEF WorkInv, Working, Making
    <3>5. Size(f) \in Nat
      BY <1>0, <3>4, SizeGrows
    <3>6. FdInv(c)'
      BY <1>0, <3>2, <3>3, <3>4, <3>5, FdIs
    <3>7. RestInv(c)' /\ EndedInv(c)'
      BY <1>n, <2>2, <3>1, <3>2 DEF RestInv, EndedInv
    <3> QED  BY <3>1, <3>6, <3>7, Resting
  <2>4. CASE entries[Name(c)] # 0
    <3>1. UNCHANGED fd /\ at'[c] \in {"name", "lookup"}
      BY <1>5, <1>d, <2>1, <2>4 DEF NameFile, Goto
    <3>2. op'[c].kind = op[c].kind
      BY <1>5, <1>d, <2>4 DEF NameFile, Set, NoOp
    <3>3. FdInv(c)'
      BY <1>0, <3>1, FdStays
    <3>4. RestInv(c)' /\ EndedInv(c)'
      BY <2>2, <3>1, <3>2 DEF RestInv, EndedInv
    <3> QED  BY <3>1, <3>3, <3>4, Resting
  <2> QED  BY <2>3, <2>4
<1>6. CASE Seek(c)
  <2>1. PICK f, m, h : f = fd[c].file /\ m = Size(f) /\ h = fd[c]
    OBVIOUS
  <2>2. /\ at[c] = "idle" /\ f # 0 /\ UNCHANGED <<at, op, buf, want, outs>>
        /\ \E off \in 0 .. m :
             fd' = [fd EXCEPT ![c].fpos = off, ![c].pos = off,
                              ![c].size = IF off > @ THEN off ELSE @]
    BY <1>6, <2>1, Zenon DEF Seek, Orderly, Size
  <2>3. PICK off \in 0 .. m :
             fd' = [fd EXCEPT ![c].fpos = off, ![c].pos = off,
                              ![c].size = IF off > @ THEN off ELSE @]
    BY <2>2, Zenon
  <2>4. h \in Handle /\ h.size \in Nat /\ m \in Nat /\ h.size <= m /\ f \in DOMAIN files
    BY <1>0, <2>1, <2>2, FdNow
  <2>5. /\ fd'[c].file = f /\ fd'[c].pos = off /\ fd'[c].fpos = off
        /\ fd'[c].size = IF off > h.size THEN off ELSE h.size
    <3>1. fd'[c] = [h EXCEPT !.fpos = off, !.pos = off, !.size = IF off > h.size THEN off ELSE h.size]
      BY <1>d, <2>1, <2>3 DEF Handle
    <3> QED  BY <2>1, <2>4, <3>1 DEF Handle
  <2>6. off \in Nat /\ off <= m
    BY <2>4
  <2>7. FdInv(c)'
    BY <1>0, <2>1, <2>4, <2>5, <2>6, FdIs
  <2>8. RestInv(c)' /\ EndedInv(c)'
    BY <1>0, <2>2, <2>5 DEF RestInv, EndedInv
  <2> QED  BY <2>2, <2>7, <2>8, Resting
<1>7. CASE Overrun(c)
  <2>1. at'[c] = "overrun" /\ op'[c].kind = "read" /\ UNCHANGED fd
    <3>1. /\ at' = [at EXCEPT ![c] = "overrun"]
          /\ op' = [op EXCEPT ![c] = [NoOp EXCEPT !.kind = "read", !.no = ops + 1, !.count = 0,
                                                 !.ok = TRUE]]
          /\ UNCHANGED fd
      BY <1>7, Zenon DEF Overrun, BeginIo, Goto, Set, Io
    <3> QED  BY <1>d, <3>1 DEF NoOp
  <2>2. FdInv(c)'
    BY <1>0, <2>1, FdStays
  <2>3. RestInv(c)' /\ EndedInv(c)'
    BY <2>1 DEF RestInv, EndedInv
  <2> QED  BY <2>1, <2>2, <2>3, Resting
<1> QED  BY <1>2, <1>3, <1>4, <1>5, <1>6, <1>7

-----------------------------------------------------------------------------
(***************************************************************************)
(* A transfer from its start to its answer.                                *)
(***************************************************************************)

\* At an operation's start nothing is under way, and every byte is on its way.
LEMMA StartProc ==
  ASSUME Orderly, ReadInv, NEW c \in Clients, StartIo(c)
  PROVE  ReaderInv(c)'
<1>0. StripeInv /\ ReaderInv(c) /\ Step(c) /\ FdInv(c) /\ RestInv(c)
  BY DEF ReadInv, Step, ReaderInv
<1>s. PICK kind \in {"read", "write"}, left \in Nat \ {0}, ok \in BOOLEAN : \E sent :
        Started(c, kind, left, ok, sent)
  BY <1>0, StartNews
<1>p. PICK sent : Started(c, kind, left, ok, sent)
  BY <1>s
<1> DEFINE new == News(c, kind, sent)
<1>1. /\ kind = "read" => fd[c].fpos + left <= fd[c].size
      /\ at[c] = "idle" /\ fd[c].file # 0 /\ fd[c] \in Handle
      /\ kind = "read" => Torn \/ ~Writing
      /\ at'[c] = "io" /\ op'[c].kind = kind /\ op'[c].no = ops + 1 /\ op'[c].count = left
      /\ op'[c].ok = ok
      /\ fd'[c].file = fd[c].file /\ fd'[c].pos = fd[c].pos /\ fd'[c].size = fd[c].size
      /\ ok => fd'[c].fpos = fd[c].fpos + left
      /\ outs'[c] = outs[c] \cup new
      /\ kind = "write" => want'[c] = buf'[c]
      /\ UNCHANGED files
      /\ \A r \in new :
           /\ r.no = ops + 1 /\ r.kind = kind /\ r.st = "sent" /\ r.file = fd[c].file
           /\ r.off = fd[c].pos + r.piece.buf /\ r.piece.buf + r.piece.len <= left
      /\ ok => \A x \in Nat : x < left => \E r \in new : Covers(r, fd[c].pos + x)
  BY <1>p DEF Started
<1> HIDE DEF new
<1>2. outs[c] = {} /\ fd[c].fpos = fd[c].pos
  BY <1>0, <1>1 DEF RestInv
<1>3. outs'[c] = new
  BY <1>1, <1>2
<1>4. FdInv(c)'
  BY <1>0, <1>1, FdStays
<1>5. RestInv(c)' /\ EndedInv(c)' /\ StatInv(c)'
  BY <1>1 DEF RestInv, EndedInv, StatInv
<1>6. ASSUME NEW r \in outs'[c]
      PROVE  /\ r.no = op'[c].no /\ r.kind = op'[c].kind /\ r.file = fd'[c].file
             /\ r.off = fd'[c].pos + r.piece.buf /\ r.piece.buf + r.piece.len <= op'[c].count
             /\ r.st = "sent"
  BY <1>1, <1>3
<1>7. ok => \A x \in Nat : x < op'[c].count => \E r \in outs'[c] : Covers(r, fd'[c].pos + x)
  BY <1>1, <1>3
<1>f. PICK f : f = fd[c].file
  OBVIOUS
<1>8. kind = "read" => /\ fd[c].pos + left <= Size(f)'
                       /\ \A d \in Clients : Unwritten(d)' = {}
  <2> SUFFICES ASSUME kind = "read"
               PROVE  fd[c].pos + left <= Size(f)' /\ \A d \in Clients : Unwritten(d)' = {}
    OBVIOUS
  <2>1. fd[c].pos + left <= Size(f)'
    <3>1. Size(f)' = Size(f)
      BY <1>1 DEF Size
    <3>2. /\ Size(f) \in Nat /\ fd[c].size <= Size(f) /\ fd[c].pos \in Nat /\ fd[c].size \in Nat
      BY <1>0, <1>1, <1>f, FdNow
    <3> QED  BY <1>1, <1>2, <3>1, <3>2
  <2>2. \A d \in Clients : Unwritten(d) = {}
    BY <1>1 DEF Orderly, Writing
  <2>3. Unwritten(c)' = {}
    BY <1>1, <1>3 DEF Unwritten
  <2>4. Quiet(c)
    BY <1>0, QuietSteps
  <2> QED  BY <2>1, <2>2, <2>3, <2>4, UnwrittenOthers
<1>9. Size(fd[c].file)' = Size(f)'
  BY <1>1, <1>f DEF Size
<1>10. ok => fd'[c].fpos = fd'[c].pos + op'[c].count
  BY <1>1, <1>2
<1>11. IoInv(c)'
  BY <1>1, <1>6, <1>7, <1>8, <1>9, <1>10 DEF IoInv, Ours, Covers
<1> QED  BY <1>4, <1>5, <1>11 DEF ReaderInv

\* What stays of a process whose transfer is answered.
LEMMA AnswerStays ==
  ASSUME ReadInv, NEW c \in Clients, Step(c), NEW r \in outs[c], NEW x \in {"done", "failed", "lost"},
         Answer(c, r, x), UNCHANGED <<at, op, fd>>
  PROVE  /\ FdInv(c)' /\ RestInv(c)' /\ EndedInv(c)' /\ StatInv(c)'
         /\ at[c] \in {"io", "stopped", "overrun"}
         /\ outs'[c] = (outs[c] \ {r}) \cup {Answered(r, x)}
         /\ r \in Transfer
         /\ Answered(r, x).st = x /\ Answered(r, x).piece = r.piece /\ Answered(r, x).off = r.off
         /\ Answered(r, x).file = r.file /\ Answered(r, x).kind = r.kind
         /\ Answered(r, x).no = r.no
<1>0. StripeInv /\ ReaderInv(c) /\ FdInv(c) /\ RestInv(c) /\ EndedInv(c)
  BY DEF ReadInv, ReaderInv
<1>1. at[c] \in {"io", "stopped", "overrun"}
  BY <1>0 DEF RestInv
<1>2. FdInv(c)'
  BY <1>0, FdStays
<1>3. RestInv(c)' /\ EndedInv(c)' /\ StatInv(c)'
  BY <1>0, <1>1 DEF RestInv, EndedInv, StatInv
<1>4. outs'[c] = (outs[c] \ {r}) \cup {Answered(r, x)} /\ r \in Transfer
  BY <1>0, AnswerLeaves, OutIs
<1> QED  BY <1>1, <1>2, <1>3, <1>4, AnsweredIs

\* The answer leaves where the transfers go, and which bytes they are about.
LEMMA AnswerOurs ==
  ASSUME ReadInv, NEW c \in Clients, Step(c), NEW r \in outs[c], NEW x \in {"done", "failed", "lost"},
         Answer(c, r, x), UNCHANGED <<at, op, fd>>, at[c] = "io"
  PROVE  /\ \A q \in outs'[c] : Ours(c, q)'
         /\ op[c].ok =>
              \A i \in Nat : i < op'[c].count => \E q \in outs'[c] : Covers(q, fd'[c].pos + i)
<1>0. IoInv(c)
  BY DEF ReadInv, ReaderInv
<1> DEFINE a == Answered(r, x)
<1>1. outs'[c] = (outs[c] \ {r}) \cup {a}
  BY AnswerStays
<1>2. /\ a.piece = r.piece /\ a.off = r.off /\ a.file = r.file /\ a.kind = r.kind /\ a.no = r.no
  BY AnswerStays
<1> HIDE DEF a
<1>3. \A q \in outs[c] : Ours(c, q)
  BY <1>0 DEF IoInv
<1>4. Ours(c, a)
  BY <1>2, <1>3 DEF Ours
<1>5. \A q \in outs'[c] : Ours(c, q)'
  BY <1>1, <1>3, <1>4 DEF Ours
<1>6. ASSUME op[c].ok, NEW i \in Nat, i < op'[c].count
      PROVE  \E q \in outs'[c] : Covers(q, fd'[c].pos + i)
  <2>1. PICK q \in outs[c] : Covers(q, fd[c].pos + i)
    BY <1>0, <1>6 DEF IoInv
  <2>2. CASE q = r
    BY <1>1, <1>2, <2>1, <2>2 DEF Covers
  <2>3. CASE q # r
    BY <1>1, <2>1, <2>3
  <2> QED  BY <2>2, <2>3
<1> QED  BY <1>5, <1>6

LEMMA FailProc ==
  ASSUME Orderly, ReadInv, NEW c \in Clients, TransferFails(c)
  PROVE  ReaderInv(c)'
<1>0. StripeInv /\ ReaderInv(c) /\ Step(c) /\ IoInv(c)
  BY DEF ReadInv, Step, ReaderInv
<1>1. PICK r \in outs[c], x \in {"failed", "lost"} :
        Answer(c, r, x) /\ UNCHANGED <<files, at, op, fd, buf, want>>
  BY <1>0, FailsLeaves
<1>2. /\ FdInv(c)' /\ RestInv(c)' /\ EndedInv(c)' /\ StatInv(c)'
      /\ outs'[c] = (outs[c] \ {r}) \cup {Answered(r, x)}
      /\ Answered(r, x).st = x
  BY <1>0, <1>1, AnswerStays
<1>3. ASSUME at[c] = "io" PROVE IoInv(c)'
  <2>1. /\ \A q \in outs'[c] : Ours(c, q)'
        /\ op[c].ok =>
             \A i \in Nat : i < op'[c].count => \E q \in outs'[c] : Covers(q, fd'[c].pos + i)
    BY <1>0, <1>1, <1>3, AnswerOurs
  <2>2. \A q \in outs'[c] : q.st = "done" => q \in outs[c]
    BY <1>2
  <2>3. op[c].kind = "read" => \A d \in Clients : Unwritten(d)' = {}
    BY <1>0, <1>3, CalmStays DEF IoInv
  <2>4. op[c].kind = "read" => \A q \in outs'[c] : q.st = "done" => Got(c, q)'
    BY <1>0, <1>1, <1>3, <2>2 DEF IoInv, Got
  <2>5. \A f : Size(f)' = Size(f)
    BY <1>1 DEF Size
  <2>f. PICK f : f = fd[c].file
    OBVIOUS
  <2>6. Size(fd[c].file)' = Size(f)
    BY <1>1, <2>f DEF Size
  <2> QED  BY <1>0, <1>1, <1>3, <2>1, <2>2, <2>3, <2>4, <2>6, <2>f DEF IoInv, Covers
<1>4. at[c] # "io" => IoInv(c)'
  BY <1>1 DEF IoInv
<1> QED  BY <1>2, <1>3, <1>4 DEF ReaderInv

LEMMA StoreProc ==
  ASSUME Orderly, ReadInv, NEW c \in Clients, TransferWrite(c)
  PROVE  ReaderInv(c)'
<1>0. StripeInv /\ ReaderInv(c) /\ Step(c) /\ IoInv(c)
  BY DEF ReadInv, Step, ReaderInv
<1>1. PICK r \in outs[c] :
           /\ r \in Ready(c) /\ r.kind = "write" /\ Answer(c, r, "done")
           /\ Part(c, r) \in Seq(Byte) /\ Len(Part(c, r)) = r.piece.len
           /\ files'[r.file].data = Stored(files[r.file].data, r.off, Part(c, r))
           /\ UNCHANGED <<entries, at, op, fd, buf, want, ops, faults>>
  BY <1>0, WriteIs
<1>2. /\ FdInv(c)' /\ RestInv(c)' /\ EndedInv(c)' /\ StatInv(c)'
      /\ outs'[c] = (outs[c] \ {r}) \cup {Answered(r, "done")}
      /\ Answered(r, "done").piece = r.piece /\ Answered(r, "done").off = r.off
  BY <1>0, <1>1, AnswerStays
<1>3. ASSUME at[c] = "io" PROVE IoInv(c)'
  <2>1. /\ \A q \in outs'[c] : Ours(c, q)'
        /\ op[c].ok =>
             \A i \in Nat : i < op'[c].count => \E q \in outs'[c] : Covers(q, fd'[c].pos + i)
    BY <1>0, <1>1, <1>3, AnswerOurs
  <2>f. PICK f : f = fd[c].file
    OBVIOUS
  <2>2. op[c].kind = "write" /\ r.file = f /\ f # 0
    BY <1>0, <1>1, <1>3, <2>f DEF IoInv, Ours
  <2>3. f \in DOMAIN files /\ files[f].data \in Seq(Byte) /\ r.off \in Nat /\ r.piece.len \in Nat
    BY <1>0, <2>2, OutIs
  <2>4. r.off + r.piece.len <= Size(f)'
    <3> DEFINE b == files[f].data
               new == Part(c, r)
    <3>1. Size(f)' = Len(Stored(b, r.off, new))
      BY <1>1, <2>2 DEF Size
    <3>2. new \in Seq(Byte) /\ Len(new) = r.piece.len /\ b \in Seq(Byte)
      BY <1>1, <2>3
    <3> HIDE DEF b, new
    <3>3. Size(f)' = IF Len(b) > r.off + Len(new) THEN Len(b) ELSE r.off + Len(new)
      BY <2>3, <3>1, <3>2, StoredIs
    <3> QED  BY <2>3, <3>2, <3>3
  <2>5. ASSUME NEW q \in outs'[c], q.st = "done"
        PROVE  q.off + q.piece.len <= Size(f)'
    <3>1. CASE q \in outs[c]
      <4>1. q.off + q.piece.len <= Size(f) /\ q.off \in Nat /\ q.piece.len \in Nat
        BY <1>0, <1>3, <2>2, <2>5, <2>f, <3>1, OutIs DEF IoInv
      <4>2. Size(f) <= Size(f)' /\ Size(f) \in Nat /\ Size(f)' \in Nat
        BY <1>0, <2>3, SizeGrows
      <4> QED  BY <4>1, <4>2
    <3>2. CASE q = Answered(r, "done")
      BY <1>2, <2>4, <3>2
    <3> QED  BY <1>2, <3>1, <3>2
  <2>6. Size(fd[c].file)' = Size(f)'
    BY <1>1, <2>f DEF Size
  <2> QED  BY <1>0, <1>1, <1>3, <2>1, <2>2, <2>5, <2>6, <2>f DEF IoInv, Covers
<1>4. at[c] # "io" => IoInv(c)'
  BY <1>1 DEF IoInv
<1> QED  BY <1>2, <1>3, <1>4 DEF ReaderInv

\* A read while no write is left finds all its bytes, and they are the file's.
LEMMA ReadWhole ==
  ASSUME ReadInv, NEW c \in Clients, NEW r \in outs[c], at[c] = "io", op[c].kind = "read",
         Dso(r).exists
  PROVE  Arrived(r) = Right(r) /\ Len(Right(r)) = r.piece.len /\ Right(r) \in Seq(Byte)
<1>0. StripeInv /\ IoInv(c) /\ WritesInv
  BY DEF ReadInv, ReaderInv
<1> DEFINE data == files[r.file].data
           bytes == Dso(r).bytes
           n == r.piece.len
           o == r.off
           m == Size(r.file)
<1>1. /\ o \in Nat /\ n \in Nat \ {0} /\ r.piece.at \in Nat /\ InChunk(r) /\ HoldsBytes(r.file)
      /\ data \in Seq(Byte) /\ bytes \in Seq(Byte) /\ r.file \in DOMAIN files
      /\ r.piece.obj \in Servers /\ r.piece.buf \in Nat
  BY <1>0, OutIs
<1>2. m \in Nat /\ o + n <= m
  <2>1. /\ r.file = fd[c].file /\ o = fd[c].pos + r.piece.buf
        /\ r.piece.buf + n <= op[c].count /\ fd[c].pos + op[c].count <= m
    BY <1>0 DEF IoInv, Ours
  <2>2. fd[c].pos \in Nat /\ op[c].count \in Nat /\ m \in Nat
    BY <1>0, <1>1, SMTT(30) DEF StripeInv, BytesTypes, Handle, OpenInv, Size
  <2> HIDE DEF m, n, o
  <2> QED  BY <1>1, <2>1, <2>2, SMTT(60)
<1>3. ASSUME NEW j \in 1 .. n
      PROVE  LET i == o + j - 1
             IN  /\ r.piece.at + j - 1 < Len(bytes)
                 /\ ByteAt(bytes, r.piece.at + j - 1) = ByteAt(data, i)
  <2> DEFINE i == o + j - 1
  <2>1. i \in Nat /\ o <= i /\ i < o + n /\ i < m /\ i - o = j - 1 /\ r.piece.at + j - 1 \in Nat
        /\ r.piece.at + (i - o) = r.piece.at + j - 1
    <3> HIDE DEF m, n, o
    <3> QED  BY <1>1, <1>2, SMTT(60)
  <2> HIDE DEF i
  <2>2. Covers(r, i)
    BY <2>1 DEF Covers
  <2>3. ObjIndex(i) = r.piece.obj /\ ObjOffset(i) = r.piece.at + j - 1
    BY <1>0, <2>1, <2>2, CoveredIs
  <2>4. ~Lacks(r.file, i)
    BY <1>0, <2>3 DEF IoInv, Lacks, Owed, Dso
  <2>5. ObjOffset(i) < Len(files[r.file].dso[ObjIndex(i)].bytes)
    BY <1>0, <1>1, <2>1, <2>4 DEF WritesInv
  <2>6. ByteAt(bytes, ObjOffset(i)) = ByteAt(data, i)
    BY <1>1, <2>1, <2>3 DEF HoldsBytes, Holds, Dso
  <2> QED  BY <2>3, <2>5, <2>6 DEF Dso, i
<1>4. /\ Right(r) \in Seq(Byte) /\ Len(Right(r)) = n
      /\ \A j \in 1 .. n : o + j <= Len(data) => Right(r)[j] = ByteAt(data, o + j - 1)
  BY <1>0, RightIs
<1>5. /\ Arrived(r) \in Seq(Byte)
      /\ r.piece.at + n <= Len(bytes) => Len(Arrived(r)) = n
      /\ \A j \in 1 .. Len(Arrived(r)) : Arrived(r)[j] = ByteAt(bytes, r.piece.at + j - 1)
  BY <1>0, ArrivedIs
<1>6. m = Len(data)
  BY DEF Size
<1> HIDE DEF data, bytes, n, o, m
<1>7. n \in 1 .. n
  BY <1>1
<1>8. r.piece.at + n - 1 < Len(bytes)
  BY <1>3, <1>7
<1>9. Len(Arrived(r)) = n
  BY <1>1, <1>5, <1>8
<1>10. ASSUME NEW j \in 1 .. n PROVE Arrived(r)[j] = Right(r)[j]
  <2>1. o + j <= Len(data)
    BY <1>1, <1>2, <1>6
  <2> QED  BY <1>3, <1>4, <1>5, <1>9, <2>1
<1>11. Arrived(r) = Right(r)
  BY <1>4, <1>5, <1>9, <1>10, SeqEqual
<1> QED  BY <1>4, <1>11 DEF n

\* Two buffers, after the same n bytes were put into both at the place a.
Both(b, w, b2, w2, a, n) ==
  /\ Len(b2) \in Nat /\ Len(w2) \in Nat /\ Len(b) <= Len(b2) /\ Len(w) <= Len(w2)
  /\ a + n <= Len(b2) /\ a + n <= Len(w2)
  /\ \A x \in Nat : ByteAt(b, x) = ByteAt(w, x) \/ (a <= x /\ x < a + n) =>
       ByteAt(b2, x) = ByteAt(w2, x)

LEMMA StoreBoth ==
  ASSUME NEW b \in Seq(Byte), NEW w \in Seq(Byte), NEW a \in Nat, NEW new \in Seq(Byte)
  PROVE  Both(b, w, Stored(b, a, new), Stored(w, a, new), a, Len(new))
<1> DEFINE b2 == Stored(b, a, new)
           w2 == Stored(w, a, new)
           n == Len(new)
           k == a + n
<1>1. k \in Nat /\ Len(b) \in Nat /\ Len(w) \in Nat
  OBVIOUS
<1>2. /\ Len(b2) = IF Len(b) > k THEN Len(b) ELSE k
      /\ \A x \in Nat : ByteAt(b2, x) = IF a <= x /\ x < k THEN new[x - a + 1] ELSE ByteAt(b, x)
  BY StoredIs
<1>3. /\ Len(w2) = IF Len(w) > k THEN Len(w) ELSE k
      /\ \A x \in Nat : ByteAt(w2, x) = IF a <= x /\ x < k THEN new[x - a + 1] ELSE ByteAt(w, x)
  BY StoredIs
<1> HIDE DEF b2, w2, k
<1>4. /\ Len(b2) \in Nat /\ Len(w2) \in Nat /\ Len(b) <= Len(b2) /\ Len(w) <= Len(w2)
      /\ k <= Len(b2) /\ k <= Len(w2)
  BY <1>1, <1>2, <1>3
<1>5. \A x \in Nat : ByteAt(b, x) = ByteAt(w, x) \/ (a <= x /\ x < k) =>
        ByteAt(b2, x) = ByteAt(w2, x)
  BY <1>2, <1>3
<1>6. Both(b, w, b2, w2, a, n)
  BY <1>4, <1>5 DEF Both, k
<1> QED  BY <1>6 DEF b2, w2

LEMMA FetchProc ==
  ASSUME Orderly, ReadInv, NEW c \in Clients, TransferRead(c)
  PROVE  ReaderInv(c)'
<1>0. StripeInv /\ ReaderInv(c) /\ Step(c) /\ IoInv(c)
  BY DEF ReadInv, Step, ReaderInv
<1>1. PICK r \in outs[c] :
           /\ r.kind = "read" /\ Dso(r).exists /\ Answer(c, r, "done")
           /\ buf' = [buf EXCEPT ![c] = Stored(@, r.piece.buf, Arrived(r))]
           /\ want' = IF r \in Mine(c)
                      THEN [want EXCEPT ![c] = Stored(@, r.piece.buf, Right(r))]
                      ELSE want
           /\ UNCHANGED <<entries, files, at, op, fd, ops, faults>>
  <2>1. "empty" \notin Mishaps
    BY DEF Orderly
  <2> QED  BY <1>0, <2>1, ReadIs, Zenon
<1> DEFINE a == Answered(r, "done")
<1>2. /\ FdInv(c)' /\ RestInv(c)' /\ EndedInv(c)' /\ StatInv(c)'
      /\ outs'[c] = (outs[c] \ {r}) \cup {a}
      /\ a.piece = r.piece
  BY <1>0, <1>1, AnswerStays
<1> HIDE DEF a
<1>3. ASSUME at[c] = "io" PROVE IoInv(c)'
  <2>1. /\ \A q \in outs'[c] : Ours(c, q)'
        /\ op[c].ok =>
             \A i \in Nat : i < op'[c].count => \E q \in outs'[c] : Covers(q, fd'[c].pos + i)
    BY <1>0, <1>1, <1>3, AnswerOurs
  <2>2. op[c].kind = "read" /\ r.no = op[c].no
    BY <1>0, <1>1, <1>3 DEF IoInv, Ours
  <2>3. Arrived(r) = Right(r) /\ Len(Right(r)) = r.piece.len /\ Right(r) \in Seq(Byte)
    BY <1>0, <1>1, <1>3, <2>2, ReadWhole
  <2>4. /\ buf \in [Clients -> Seq(Byte)] /\ want \in [Clients -> Seq(Byte)]
        /\ r.piece.buf \in Nat /\ r.piece.len \in Nat
    BY <1>0, OutIs DEF StripeInv, BytesTypes
  <2> DEFINE b == buf[c]
             w == want[c]
             b2 == buf'[c]
             w2 == want'[c]
             new == Right(r)
             o == r.piece.buf
             k == o + r.piece.len
  <2>5. b \in Seq(Byte) /\ w \in Seq(Byte) /\ b2 = Stored(b, o, new) /\ w2 = Stored(w, o, new)
    BY <1>1, <1>3, <2>2, <2>3, <2>4 DEF Mine
  <2>6. /\ Len(b2) \in Nat /\ Len(w2) \in Nat /\ Len(b) \in Nat /\ Len(w) \in Nat
        /\ Len(b) <= Len(b2) /\ Len(w) <= Len(w2) /\ k <= Len(b2) /\ k <= Len(w2)
        /\ \A x \in Nat : ByteAt(b, x) = ByteAt(w, x) \/ (o <= x /\ x < k) =>
             ByteAt(b2, x) = ByteAt(w2, x)
    <3>1. new \in Seq(Byte) /\ Len(new) = r.piece.len /\ o \in Nat
      BY <2>3, <2>4
    <3> DEFINE n == Len(new)
    <3> HIDE DEF b, w, b2, w2, new, o
    <3>2. Both(b, w, b2, w2, o, n)
      BY <2>5, <3>1, StoreBoth
    <3>3. n = r.piece.len /\ Len(b) \in Nat /\ Len(w) \in Nat
      BY <2>5, <3>1
    <3> HIDE DEF n
    <3> QED  BY <3>2, <3>3 DEF Both
  <2>7. ASSUME NEW q \in outs'[c], q.st = "done" PROVE Got(c, q)'
    <3>1. CASE q \in outs[c]
      <4>1. /\ q.piece.buf + q.piece.len <= Len(b) /\ q.piece.buf + q.piece.len <= Len(w)
            /\ \A x \in Nat : q.piece.buf <= x /\ x < q.piece.buf + q.piece.len =>
                 ByteAt(b, x) = ByteAt(w, x)
        BY <1>0, <1>3, <2>2, <2>7, <3>1 DEF IoInv, Got
      <4>2. q.piece.buf \in Nat /\ q.piece.len \in Nat
        BY <1>0, <3>1, OutIs
      <4> HIDE DEF b, w, b2, w2, o, k
      <4>3. /\ q.piece.buf + q.piece.len <= Len(b2) /\ q.piece.buf + q.piece.len <= Len(w2)
            /\ \A x \in Nat : q.piece.buf <= x /\ x < q.piece.buf + q.piece.len =>
                 ByteAt(b2, x) = ByteAt(w2, x)
        BY <2>6, <4>1, <4>2
      <4> QED  BY <4>3 DEF Got, b2, w2
    <3>2. CASE q = a
      <4>1. /\ q.piece.buf + q.piece.len <= Len(b2) /\ q.piece.buf + q.piece.len <= Len(w2)
            /\ \A x \in Nat : q.piece.buf <= x /\ x < q.piece.buf + q.piece.len =>
                 ByteAt(b2, x) = ByteAt(w2, x)
        BY <1>2, <2>6, <3>2
      <4> QED  BY <4>1 DEF Got
    <3> QED  BY <1>2, <3>1, <3>2
  <2>8. \A d \in Clients : Unwritten(d)' = {}
    BY <1>0, <1>3, <2>2, CalmStays DEF IoInv
  <2>f. PICK f : f = fd[c].file
    OBVIOUS
  <2>9. Size(fd[c].file)' = Size(f)
    BY <1>1, <2>f DEF Size
  <2> QED  BY <1>0, <1>1, <1>3, <2>1, <2>2, <2>7, <2>8, <2>9, <2>f DEF IoInv, Covers
<1>4. at[c] # "io" => IoInv(c)'
  BY <1>1 DEF IoInv
<1> QED  BY <1>2, <1>3, <1>4 DEF ReaderInv

LEMMA IoFailProc ==
  ASSUME Orderly, ReadInv, NEW c \in Clients, IoFails(c)
  PROVE  ReaderInv(c)'
<1>0. StripeInv /\ ReaderInv(c) /\ Step(c) /\ FdInv(c)
  BY DEF ReadInv, Step, ReaderInv
<1>1. DOMAIN at = Clients /\ DOMAIN op = Clients
  BY <1>0 DEF StripeInv, FilesInv, Shapes
<1>2. at'[c] = "stopped" /\ op'[c] = NoOp /\ UNCHANGED fd
  BY <1>1 DEF IoFails, Orderly, Goto, Set
<1>3. FdInv(c)'
  BY <1>0, <1>2, FdStays
<1>n. NoOp.kind = "none"
  BY DEF NoOp
<1>4. RestInv(c)' /\ EndedInv(c)'
  BY <1>2, <1>n DEF RestInv, EndedInv
<1> QED  BY <1>2, <1>3, <1>4, Resting

-----------------------------------------------------------------------------
(***************************************************************************)
(* The end of a read or write, and the theorem about reads.                *)
(***************************************************************************)

\* When all transfers are answered, all bytes were moved.
LEMMA DoneProc ==
  ASSUME Orderly, ReadInv, NEW c \in Clients, IoDone(c)
  PROVE  ReaderInv(c)'
<1>0. StripeInv /\ ReaderInv(c) /\ Step(c) /\ FdInv(c) /\ IoInv(c)
  BY DEF ReadInv, Step, ReaderInv
<1>d. /\ DOMAIN at = Clients /\ DOMAIN op = Clients /\ DOMAIN op[c] = DOMAIN NoOp
      /\ fd \in [Clients -> Handle] /\ DOMAIN outs = Clients
  BY <1>0 DEF StripeInv, FilesInv, Shapes, BytesTypes
<1> DEFINE h == fd[c]
           o == h.pos
           n == op[c].count
<1>1. /\ at[c] = "io" /\ at'[c] = "idle" /\ UNCHANGED <<files, buf, want>>
      /\ outs'[c] = {r \in outs[c] : r.st \in {"sent", "lost"}}
      /\ fd'[c] = [h EXCEPT !.pos = o + n] /\ op'[c] = [op[c] EXCEPT !.kind = "ended"]
      /\ op[c].ok /\ \A r \in Mine(c) : r.st = "done"
  BY <1>d DEF IoDone, LeaveSent, Goto, Set
<1>2. h \in Handle /\ o \in Nat /\ n \in Nat /\ h.size \in Nat /\ h.file # 0 /\ h.fpos = o + n
  BY <1>0, <1>1, FdNow DEF StripeInv, OpenInv, IoInv
<1>3. op'[c].count = n /\ op'[c].kind = "ended"
  BY <1>1, <1>d DEF NoOp
<1>4. fd'[c].file = h.file /\ fd'[c].size = h.size /\ fd'[c].fpos = h.fpos /\ fd'[c].pos = o + n
  <2> HIDE DEF h, o, n
  <2> QED  BY <1>1, <1>2 DEF Handle
<1>5. \A r \in outs[c] : r.st = "done" /\ Ours(c, r)
  BY <1>0, <1>1 DEF IoInv, Mine, Ours
<1>6. outs'[c] = {}
  BY <1>1, <1>5
<1>f. PICK f : f = h.file
  OBVIOUS
<1>7. /\ f \in DOMAIN files /\ Size(f) \in Nat /\ o <= Size(f) /\ h.size <= Size(f)
  BY <1>0, <1>2, <1>f, FdNow
<1>8. ASSUME NEW x \in Nat, x < n
      PROVE  \E r \in outs[c] : /\ r.piece.buf <= x /\ x < r.piece.buf + r.piece.len
                                /\ r.piece.buf \in Nat /\ r.piece.len \in Nat
                                /\ o + x < r.off + r.piece.len /\ r.off \in Nat
  <2>1. PICK r \in outs[c] : Covers(r, o + x)
    BY <1>0, <1>1, <1>8 DEF IoInv
  <2>2. r.off = o + r.piece.buf /\ r.piece.buf \in Nat /\ r.piece.len \in Nat /\ r.off \in Nat
    BY <1>0, <1>5, <2>1, OutIs DEF Ours
  <2>3. r.off <= o + x /\ o + x < r.off + r.piece.len
    BY <2>1 DEF Covers
  <2> HIDE DEF o, n
  <2>4. r.piece.buf <= x /\ x < r.piece.buf + r.piece.len
    BY <1>2, <2>2, <2>3
  <2> QED  BY <2>1, <2>2, <2>3, <2>4
<1>9. o + n <= Size(f)
  <2>1. CASE op[c].kind = "read"
    BY <1>0, <1>1, <1>f, <2>1 DEF IoInv
  <2>2. CASE op[c].kind = "write" /\ n = 0
    BY <1>2, <1>7, <2>2
  <2>3. CASE op[c].kind = "write" /\ n # 0
    <3> DEFINE x == n - 1
    <3>1. x \in Nat /\ x < n /\ o + x + 1 = o + n
      <4> HIDE DEF n, o
      <4> QED  BY <1>2, <2>3
    <3>2. PICK r \in outs[c] : o + x < r.off + r.piece.len /\ r.piece.len \in Nat /\ r.off \in Nat
      BY <1>8, <3>1
    <3>3. r.off + r.piece.len <= Size(f)
      BY <1>0, <1>1, <1>5, <1>f, <2>3 DEF IoInv
    <3> HIDE DEF n, o, x
    <3> QED  BY <1>2, <1>7, <3>1, <3>2, <3>3
  <2> QED  BY <1>0, <1>1, <2>1, <2>2, <2>3 DEF IoInv
<1>10. FdInv(c)'
  BY <1>0, <1>2, <1>4, <1>7, <1>9, <1>f, FdIs
<1>11. RestInv(c)'
  BY <1>2, <1>4, <1>6 DEF RestInv
<1>12. ASSUME NEW j \in 1 .. n PROVE buf[c][j] = want[c][j]
  <2>1. CASE op[c].kind = "write"
    BY <1>0, <1>1, <2>1 DEF IoInv
  <2>2. CASE op[c].kind = "read"
    <3> DEFINE x == j - 1
    <3>1. x \in Nat /\ x < n /\ x + 1 = j
      <4> HIDE DEF n
      <4> QED  BY <1>2
    <3> HIDE DEF x
    <3>2. PICK r \in outs[c] : /\ r.piece.buf <= x /\ x < r.piece.buf + r.piece.len
                               /\ r.piece.buf \in Nat /\ r.piece.len \in Nat
      BY <1>8, <3>1
    <3>3. Got(c, r)
      BY <1>0, <1>1, <1>5, <2>2 DEF IoInv
    <3>4. buf[c] \in Seq(Byte) /\ want[c] \in Seq(Byte)
      BY <1>0 DEF StripeInv, BytesTypes
    <3>5. x < Len(buf[c]) /\ x < Len(want[c]) /\ ByteAt(buf[c], x) = ByteAt(want[c], x)
      BY <3>1, <3>2, <3>3, <3>4 DEF Got
    <3> QED  BY <3>1, <3>4, <3>5, ByteAtIs
  <2> QED  BY <1>0, <1>1, <2>1, <2>2 DEF IoInv
<1>13. EndedInv(c)'
  BY <1>1, <1>3, <1>12 DEF EndedInv
<1> QED  BY <1>1, <1>10, <1>11, <1>13, Resting

\* What a process holds is as good after a step of its own.
LEMMA OwnProc ==
  ASSUME Orderly, ReadInv, NEW c \in Clients, Step(c)
  PROVE  ReaderInv(c)'
<1>1. CASE Calls(c)
  BY <1>1, CallProc
<1>2. CASE LoadMo(c) \/ NameFile(c) \/ Crash(c) \/ CloseFile(c) \/ Seek(c) \/ Overrun(c)
  BY <1>2, OpenProc
<1> QED  BY <1>1, <1>2, StartProc, StoreProc, FetchProc, FailProc, DoneProc, IoFailProc
         DEF Step, Calls

LEMMA ReadNext ==
  ASSUME Orderly
  PROVE  ReadInv /\ [Next]_vars => ReadInv'
<1> SUFFICES ASSUME ReadInv, [Next]_vars PROVE ReadInv'
  OBVIOUS
<1>1. StripeInv'
  BY StripeNext DEF ReadInv
<1>2. CASE UNCHANGED vars
  <2>1. WritesInv' = WritesInv
    BY <1>2 DEF vars, WritesInv, Lacks, Owed, Unwritten, Size
  <2>2. ASSUME NEW c \in Clients PROVE ReaderInv(c)'
    <3>0. ReaderInv(c)
      BY DEF ReadInv
    <3>1. FdInv(c)' /\ RestInv(c)' /\ EndedInv(c)'
      BY <1>2, <3>0 DEF vars, ReaderInv, FdInv, RestInv, EndedInv, Size
    <3>2. StatInv(c)'
      BY <1>2, <3>0 DEF vars, ReaderInv, StatInv, Size, Prefix, Stripe
    <3>3. IoInv(c)'
      BY <1>2, <3>0 DEF vars, ReaderInv, IoInv, Size, Ours, Got, Covers, Unwritten
    <3> QED  BY <3>1, <3>2, <3>3 DEF ReaderInv
  <2> QED  BY <1>1, <2>1, <2>2 DEF ReadInv
<1>3. CASE Next
  <2>1. PICK c \in Clients : Step(c)
    BY <1>3 DEF Next, Step
  <2>2. WritesInv'
    BY <2>1, WritesSteps DEF ReadInv, ReaderInv
  <2>3. ASSUME NEW d \in Clients PROVE ReaderInv(d)'
    BY <2>1, OwnProc, OthersProc
  <2> QED  BY <1>1, <2>2, <2>3 DEF ReadInv
<1> QED  BY <1>2, <1>3

\* A read that succeeded gave the file's bytes, whoever else opens, reads, writes, links or
\* unlinks, and whichever transfers, calls or processes fail: under the conditions under
\* which lwfs_inop_iodone, lwfs_inop_open and sso_io do so.  No file is opened or read while
\* a write is unfinished or could not be carried out; no position lies past the end; a
\* process stops at a failed operation; a name comes to no other file while it is being
\* opened; and the mishaps do not happen in which sso_io or ss_read takes a failure for
\* success.  Each is needed: without it TLC finds a read that returns something else.
THEOREM ReadsGiveTheFile ==
  ASSUME ~Torn, ~SeekPast, ~GoesOn, ~Swaps, Mishaps = {}
  PROVE  Spec => []ReadsReturnFile
<1>1. Orderly
  BY DEF Orderly
<1>2. ReadInv /\ [Next]_vars => ReadInv'
  BY <1>1, ReadNext
<1>3. Init => ReadInv
  BY <1>1, ReadInit
<1> QED  BY <1>2, <1>3, ReadsReturn, PTL DEF Spec
=============================================================================
