--------------------------------- MODULE Naming ---------------------------------
(***************************************************************************)
(* The naming server: the operations of naming_server.c on the databases   *)
(* of naming_db.c, run by the threads of the server's pool.                *)
(*                                                                         *)
(* A directory entry (dirent) is stored under its parent and name, and     *)
(* indexed by its own oid and by its parent.  It names an inode, which     *)
(* counts the entries that do.  A link is one more dirent of an inode that *)
(* exists.  Every database call is one step (Berkeley DB makes a call      *)
(* atomic); the operations use several and no transaction, so any other    *)
(* operation may run in between.  An operation is the sequence of its      *)
(* steps; the first that fails ends it.                                    *)
(*                                                                         *)
(* Nothing is synced before naming_db_fini closes the databases: after a   *)
(* crash each file holds what its cache happened to have written.          *)
(*                                                                         *)
(* Capabilities are abstracted to their outcome: check_perm may refuse.    *)
(***************************************************************************)
EXTENDS Integers, FiniteSets, Sequences, TLC

CONSTANTS
  Threads,       \* threads of the pool
  ThreadedArgs,  \* --use-threads: the values to start with
  Names,         \* names that clients use
  Ops,           \* operations that clients request of a server without threads
  ThreadedOps,   \* and of a server with threads
  MaxOps,        \* bound: operations in one behaviour
  MaxRestarts    \* bound: restarts of a server without threads, after a crash or not

-----------------------------------------------------------------------------
(* The operations.                                                         *)

namespace_lookup == <<"find", "findInode">>
check_perm == <<"perm", "permInode">>
naming_db_get_by_name == <<"get", "getInode">>
naming_db_put == <<"put", "putInode">>
naming_db_put_link == <<"put", "incGet", "incPut">>
naming_db_del == naming_db_get_by_name \o <<"del", "delInode">>

naming_create_namespace == naming_db_put
naming_remove_namespace == namespace_lookup \o check_perm \o naming_db_del
naming_get_namespace == namespace_lookup
naming_create_dir == check_perm \o naming_db_put
naming_remove_dir == check_perm \o naming_db_del
naming_create_file == check_perm \o naming_db_put \o <<"check">>
naming_create_link ==
  check_perm \o <<"permTarget", "permInode">> \o naming_db_get_by_name \o naming_db_put_link
naming_unlink == check_perm \o naming_db_del
naming_lookup == check_perm \o naming_db_get_by_name
naming_list_dir == check_perm \o <<"size", "fetch">>

naming_op_array ==
  [create_namespace |-> naming_create_namespace, create_dir  |-> naming_create_dir,
   remove_namespace |-> naming_remove_namespace, remove_dir  |-> naming_remove_dir,
   get_namespace    |-> naming_get_namespace,    create_file |-> naming_create_file,
   create_link      |-> naming_create_link,      unlink      |-> naming_unlink,
   lookup           |-> naming_lookup,           list_dir    |-> naming_list_dir]

AllOps == DOMAIN naming_op_array
OnNamespaces == {"create_namespace", "remove_namespace", "get_namespace"}
Removals == {"remove_namespace", "remove_dir", "unlink"}

BuiltinNames == {"id", "/", "orphans"}

ASSUME NamingAssumption ==
  /\ Threads # {} /\ ThreadedArgs \subseteq BOOLEAN
  /\ Ops \subseteq AllOps /\ ThreadedOps \subseteq AllOps
  /\ MaxOps \in Nat
  /\ MaxRestarts \in Nat

ROOT_OID  == 0                  \* parent of the namespaces
ORPHANS   == 2
Oids      == 0 .. ORPHANS + MaxOps      \* an operation generates at most one oid
Counts    == 0 .. MaxOps
Absent    == -1                 \* no inode is stored under the oid
None      == 0                  \* the zero oid

Dirent == [oid : Oids, parent : Oids, name : Names \cup BuiltinNames,
           inode : Oids, link : Oids, dir : BOOLEAN]

VARIABLES
  threaded,  \* the server has threads
  dirents,   \* the primary database and its two indices
  inodes,    \* the inode database: ref_cnt by oid
  th,        \* the threads
  handles,   \* the ns_entries that clients were given
  lastOid,   \* the oid that was generated last
  aborted,   \* the server called abort()
  overrun,   \* a listing was written past the end of its array
  started,   \* operations started
  disk,      \* the records that the files may hold
  restarts, crashed

vars == <<threaded, crashed, dirents, inodes, th, handles, lastOid, aborted, overrun, started, disk, restarts>>
db   == <<dirents, inodes>>
rest == <<lastOid, aborted, overrun, started>>

Builtin(o, n) == [oid |-> o, parent |-> ROOT_OID, name |-> n, inode |-> o,
                  link |-> None, dir |-> o # None]
NoEntry == Builtin(None, "id")

Idle == [todo |-> << >>, op |-> "none", parent |-> None, name |-> "id",
         tparent |-> None, tname |-> "id", ent |-> NoEntry, count |-> 0]

\* The files of databases that were just opened: the entries they hold, those
\* that were written since, and every count that was stored for an inode.
Opened(d, i) == [opened |-> d, written |-> d, counts |-> [o \in Oids |-> {i[o]}]]

\* naming_db_init: the three entries of a new database have the ref_cnt 0.
Init ==
  /\ threaded \in ThreadedArgs
  /\ dirents = {NoEntry, Builtin(1, "/"), Builtin(ORPHANS, "orphans")}
  /\ inodes = [o \in Oids |-> IF o <= ORPHANS THEN 0 ELSE Absent]
  /\ th = [t \in Threads |-> Idle]
  /\ handles = {}
  /\ lastOid = ORPHANS
  /\ aborted = FALSE /\ overrun = FALSE
  /\ started = 0
  /\ disk = Opened(dirents, inodes)
  /\ restarts = 0 /\ crashed = FALSE

-----------------------------------------------------------------------------
IsIdle(t) == th[t] = Idle
AllIdle == \A t \in Threads : IsIdle(t)
At(t, step) == ~aborted /\ ~IsIdle(t) /\ Head(th[t].todo) = step
Fail(t) == th' = [th EXCEPT ![t] = Idle] /\ UNCHANGED handles
Reply(t, entries) == th' = [th EXCEPT ![t] = Idle] /\ handles' = handles \cup entries

\* The step succeeds, with an entry and a count; the last one answers.
Proceed(t, ent, count) ==
  IF Len(th[t].todo) = 1 THEN Reply(t, {ent})
  ELSE /\ th' = [th EXCEPT ![t].todo = Tail(@), ![t].ent = ent, ![t].count = count]
       /\ UNCHANGED handles

Found(t, ent) == Proceed(t, ent, th[t].count)
Pass(t) == Found(t, th[t].ent)

Children(p) == {d \in dirents : d.parent = p}
ByName(p, n) == {d \in dirents : d.parent = p /\ d.name = n}
ByOid(o) == {d \in dirents : d.oid = o}
Stored(o) == inodes[o] # Absent
PutCount(o, count) == inodes' = [inodes EXCEPT ![o] = count]

Directories == {h.oid : h \in {e \in handles : e.dir}}

\* Without threads the server serves one request after another.
Serves(t) == IsIdle(t) /\ (threaded \/ AllIdle)

\* A request arrives.  The parents are directories that clients were told of.  A client
\* removes a directory when it has found it empty: what it has found stays true only while
\* the server does one thing after another.
Start(t, op, p, n, tp, tn) ==
  /\ ~aborted /\ Serves(t)
  /\ started < MaxOps
  /\ ~threaded /\ op \in Removals => \A d \in ByName(p, n) : Children(d.oid) = {}
  /\ th' = [th EXCEPT ![t] = [Idle EXCEPT !.todo = naming_op_array[op], !.op = op,
              !.parent = p, !.name = n, !.tparent = tp, !.tname = tn]]
  /\ started' = started + 1
  /\ UNCHANGED <<db, handles, lastOid, aborted, overrun>>

StartSome(t) ==
  \E op \in (IF threaded THEN ThreadedOps ELSE Ops), n \in Names :
    IF op \in OnNamespaces THEN Start(t, op, ROOT_OID, n, None, "id")
    ELSE \E p \in Directories :
           IF op = "create_link"
             THEN \E tp \in Directories, tn \in Names : Start(t, op, p, n, tp, tn)
             ELSE Start(t, op, p, n, None, "id")

-----------------------------------------------------------------------------
(* The steps.  Each reads or writes one database.                          *)

Find(t) ==
  LET Hits == ByName(ROOT_OID, th[t].name)
  IN  /\ At(t, "find")
      /\ \/ Hits = {} /\ Fail(t)
         \/ \E d \in Hits : Found(t, d)
      /\ UNCHANGED <<db, rest>>

FindInode(t) ==
  /\ At(t, "findInode")
  /\ IF Stored(th[t].ent.inode) THEN Pass(t) ELSE Fail(t)
  /\ UNCHANGED <<db, rest>>

\* The entry whose container the capability must be for.
Checked(t) ==
  CASE At(t, "permTarget") -> th[t].tparent
    [] th[t].op = "remove_namespace" -> th[t].ent.oid
    [] OTHER -> th[t].parent

Perm(t) ==
  /\ At(t, "perm") \/ At(t, "permTarget")
  /\ \/ ByOid(Checked(t)) = {} /\ Fail(t)
     \/ \E d \in ByOid(Checked(t)) : Found(t, d)
  /\ UNCHANGED <<db, rest>>

PermInode(t) ==
  /\ At(t, "permInode")
  /\ \/ Fail(t)
     \/ Stored(th[t].ent.inode) /\ Pass(t)
  /\ UNCHANGED <<db, rest>>

Get(t) ==
  LET Hits == IF th[t].op = "create_link" THEN ByName(th[t].tparent, th[t].tname)
              ELSE ByName(th[t].parent, th[t].name)
  IN  /\ At(t, "get")
      /\ \/ Hits = {} /\ Fail(t)
         \/ \E d \in Hits : Found(t, d)
      /\ UNCHANGED <<db, rest>>

\* Mutant of GetInode: an entry without an inode counts as an entry of one.
GetInodeUnchecked(t) ==
  /\ At(t, "getInode")
  /\ Proceed(t, th[t].ent, IF Stored(th[t].ent.inode) THEN inodes[th[t].ent.inode] ELSE 1)
  /\ UNCHANGED <<db, rest>>

\* The count that is read here is what db_del later decrements.
GetInode(t) ==
  /\ At(t, "getInode")
  /\ IF Stored(th[t].ent.inode) THEN Proceed(t, th[t].ent, inodes[th[t].ent.inode])
     ELSE Fail(t)
  /\ UNCHANGED <<db, rest>>

NewEntry(t) ==
  LET o    == lastOid + 1
      link == th[t].op = "create_link"
  IN  [oid |-> o, parent |-> th[t].parent, name |-> th[t].name,
       inode |-> IF link THEN th[t].ent.inode ELSE o,
       link  |-> IF link THEN th[t].ent.oid ELSE None,
       dir   |-> IF link THEN th[t].ent.dir ELSE th[t].op # "create_file"]

Put(t) ==
  /\ At(t, "put")
  /\ lastOid' = lastOid + 1
  /\ IF ByName(th[t].parent, th[t].name) # {}
       THEN Fail(t) /\ UNCHANGED dirents
       ELSE dirents' = dirents \cup {NewEntry(t)} /\ Found(t, NewEntry(t))
  /\ UNCHANGED <<inodes, aborted, overrun, started>>

PutInode(t) ==
  /\ At(t, "putInode")
  /\ PutCount(th[t].ent.inode, 1)
  /\ Pass(t)
  /\ UNCHANGED <<dirents, rest>>

\* naming_create_file looks its entry up again (one step).
Check(t) ==
  /\ At(t, "check")
  /\ IF th[t].ent \in dirents /\ Stored(th[t].ent.inode) THEN Pass(t) ELSE Fail(t)
  /\ UNCHANGED <<db, rest>>

\* inode_increment_refcnt; the link's entry stays when the inode is gone.
IncGet(t) ==
  /\ At(t, "incGet")
  /\ IF Stored(th[t].ent.inode) THEN Proceed(t, th[t].ent, inodes[th[t].ent.inode])
     ELSE Fail(t)
  /\ UNCHANGED <<db, rest>>

\* Mutant of IncPut: the count is incremented twice.
IncPutTwice(t) ==
  /\ At(t, "incPut")
  /\ PutCount(th[t].ent.inode, th[t].count + 2)
  /\ Pass(t)
  /\ UNCHANGED <<dirents, rest>>

IncPut(t) ==
  /\ At(t, "incPut")
  /\ PutCount(th[t].ent.inode, th[t].count + 1)
  /\ Pass(t)
  /\ UNCHANGED <<dirents, rest>>

\* db_del: the entry by its oid, then the inode.
Del(t) ==
  /\ At(t, "del")
  /\ IF th[t].ent \in dirents
       THEN dirents' = dirents \ {th[t].ent} /\ Pass(t)
       ELSE Fail(t) /\ UNCHANGED dirents
  /\ UNCHANGED <<inodes, rest>>

\* Mutant of DelInode: the inode stays, with the count 0, when its last entry goes.
DelInodeNever(t) ==
  LET count == th[t].count - 1
  IN  /\ At(t, "delInode")
      /\ IF count < 0 THEN UNCHANGED inodes ELSE PutCount(th[t].ent.inode, count)
      /\ aborted' = (count < 0)
      /\ Pass(t)
      /\ UNCHANGED <<dirents, lastOid, overrun, started>>

DelInode(t) ==
  LET count == th[t].count - 1
  IN  /\ At(t, "delInode")
      /\ \/ count = 0 /\ PutCount(th[t].ent.inode, Absent)
         \/ count > 0 /\ PutCount(th[t].ent.inode, count)
         \/ count < 0 /\ UNCHANGED inodes
      /\ aborted' = (count < 0)
      /\ Pass(t)
      /\ UNCHANGED <<dirents, lastOid, overrun, started>>

\* naming_list_dir: count, allocate, fetch.
Size(t) ==
  LET n == Cardinality(Children(th[t].parent))
  IN  /\ At(t, "size")
      /\ IF n = 0 THEN Fail(t) ELSE Proceed(t, th[t].ent, n)
      /\ UNCHANGED <<db, rest>>

\* What naming_db_get_all_by_parent may return for an array of n entries: one
\* without its inode fails it.
Listings(p, n) ==
  {S \in SUBSET Children(p) : Cardinality(S) = n /\ \A d \in S : Stored(d.inode)}

\* db3_get fetches a second entry before it compares with maxlen.  A slot that
\* was not filled fails the listing.
Fetch(t) ==
  /\ At(t, "fetch")
  /\ overrun' = (overrun \/ (th[t].count = 1 /\ Cardinality(Children(th[t].parent)) > 1))
  /\ \/ Fail(t)
     \/ \E S \in Listings(th[t].parent, th[t].count) : Reply(t, S)
  /\ UNCHANGED <<db, lastOid, aborted, started>>

-----------------------------------------------------------------------------
(* naming_server_fini and naming_server_init.  The databases are synced by *)
(* the first alone; dbrecover is not used by the second.  After a crash a  *)
(* record is any that was stored under its key since the databases were    *)
(* opened, whatever became of the others (the indices are taken to be as   *)
(* old as their records).                                                  *)

OnePerKey(D) == \A d, e \in D : d.parent = e.parent /\ d.name = e.name => d = e

Shutdown == AllIdle /\ ~aborted /\ UNCHANGED <<db, crashed>>

Crash ==
  LET untouched == disk.opened \cap dirents
      changed   == {o \in Oids : Cardinality(disk.counts[o]) > 1}
  IN  /\ \E S \in SUBSET (disk.written \ untouched) :
           dirents' = untouched \cup S /\ OnePerKey(dirents')
      /\ \E i \in [changed -> UNION {disk.counts[o] : o \in changed}] :
           /\ \A o \in changed : i[o] \in disk.counts[o]
           /\ inodes' = [o \in Oids |-> IF o \in changed THEN i[o] ELSE inodes[o]]
      /\ crashed' = TRUE

\* Whatever a step writes may reach the files (while there can be a crash).
CachesWrite ==
  IF threaded \/ restarts = MaxRestarts THEN UNCHANGED disk
  ELSE disk' = [disk EXCEPT !.written = @ \cup dirents',
                            !.counts = [o \in Oids |-> @[o] \cup {inodes'[o]}]]

Restart ==
  /\ ~threaded /\ restarts < MaxRestarts
  /\ Shutdown \/ Crash
  /\ disk' = Opened(dirents', inodes')
  /\ th' = [t \in Threads |-> Idle]
  /\ aborted' = FALSE
  /\ restarts' = restarts + 1
  /\ UNCHANGED <<threaded, handles, lastOid, overrun, started>>

-----------------------------------------------------------------------------
Step(t) ==
  \/ Find(t) \/ FindInode(t)
  \/ Perm(t) \/ PermInode(t)
  \/ Get(t) \/ GetInode(t)
  \/ Put(t) \/ PutInode(t) \/ Check(t) \/ IncGet(t) \/ IncPut(t)
  \/ Del(t) \/ DelInode(t)
  \/ Size(t) \/ Fetch(t)

Finished == (aborted \/ AllIdle) /\ UNCHANGED vars

Operate ==
  /\ \E t \in Threads : Step(t) \/ StartSome(t)
  /\ CachesWrite
  /\ UNCHANGED <<threaded, restarts, crashed>>

Next == Operate \/ Restart \/ Finished

Spec == Init /\ [][Next]_vars
-----------------------------------------------------------------------------
(* Properties.                                                             *)

\* What may be left of an operation.
Todos == {<< >>} \cup
  UNION {{SubSeq(naming_op_array[op], i, Len(naming_op_array[op])) :
            i \in 1 .. Len(naming_op_array[op])} : op \in AllOps}

\* The type invariant; generated oids are never generated again.
TypeOK ==
  /\ dirents \subseteq Dirent
  /\ inodes \in [Oids -> Counts \cup {Absent}]
  /\ th \in [Threads -> [todo : Todos, op : AllOps \cup {"none"},
                         parent : Oids, name : Names \cup BuiltinNames,
                         tparent : Oids, tname : Names \cup BuiltinNames,
                         ent : Dirent, count : Counts]]
  /\ handles \subseteq Dirent
  /\ lastOid \in ORPHANS .. ORPHANS + started
  /\ aborted \in BOOLEAN /\ overrun \in BOOLEAN
  /\ started \in 0 .. MaxOps
  /\ disk \in [opened : SUBSET Dirent, written : SUBSET Dirent,
               counts : [Oids -> SUBSET (Counts \cup {Absent})]]
  /\ restarts \in 0 .. MaxRestarts /\ crashed \in BOOLEAN

\* A name in a directory stands for one entry, whatever creates race for it
\* (DB_NOOVERWRITE is the only thing that decides).
UniqueNames == OnePerKey(dirents)

\* "Multiple naming_db_dirent's may reference this inode.  ref_cnt tracks the
\* number of references.  When the ref_cnt goes to zero, the inode can be freed":
\* while no operation is under way every count is exact, so that no inode is
\* left behind.  (The entries of a new database are not counted.)
RefCountExact ==
  AllIdle => \A i \in Oids :
    i > ORPHANS /\ inodes[i] # Absent =>
      inodes[i] > 0 /\ inodes[i] = Cardinality({d \in dirents : d.inode = i})

\* Every entry leads to its inode while no operation is under way; a name whose
\* inode is gone could be neither looked up nor removed nor created again.
EntriesResolve == AllIdle => \A d \in dirents : inodes[d.inode] # Absent

\* Every entry is in a directory that exists.
ParentsExist == \A d \in dirents : d.parent = ROOT_OID \/ ByOid(d.parent) # {}

\* What naming_db_put, naming_db_del and inode_increment_refcnt keep among them
\* whoever wins a race: one entry per name, an inode per entry, exact counts.
DatabasesAgree == UniqueNames /\ RefCountExact /\ EntriesResolve

\* The databases agree until a crash.  Without threads every entry can moreover be
\* reached from its namespace, as clients remove only empty directories.
AgreeUntilCrash == ~crashed => DatabasesAgree /\ (threaded \/ ParentsExist)

\* "negative ref count.  concurrency error.  abort.": neither a race nor the counts
\* that a crash left behind ever bring the server down.
NoAbort == ~aborted

\* "Recover the naming database after a crash": a server that was started with
\* --naming-db-recover has databases that agree.
Recovered == DatabasesAgree

\* "allocate space for the entries": a listing fits the space for it.
ListFits == ~overrun

\* Neither a name nor a thread is singled out by a definition.
Alike == Permutations(Names) \cup Permutations(Threads)
=============================================================================
