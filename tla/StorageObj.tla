------------------------------ MODULE StorageObj ------------------------------
(***************************************************************************)
(* The object store of a storage server: server/storage_server/sysio_obj.c *)
(* as the operations of storage_server.c call it from the pool's threads.  *)
(*                                                                         *)
(* An object is a file, and an element (oid_el) in a hash table that       *)
(* caches the file's descriptor.  Elements with open files are also in a   *)
(* list; when it holds MAX_OPEN_FILES entries the last is closed for the   *)
(* next.  The hash table and the list each lock a mutex inside every call, *)
(* so one call is one step here and any other thread may run between two.  *)
(*                                                                         *)
(* Elements live in memory cells: free() leaves a cell that the list or    *)
(* another thread may still refer to, and malloc() may hand out again.     *)
(* Data is left out: a transfer records which file it reached, and where.  *)
(***************************************************************************)
EXTENDS Integers, Sequences, SequencesExt, FiniteSets

CONSTANTS
  Threads,          \* threads of the pool
  NumOids,          \* object ids are 1 .. NumOids
  MAX_OPEN_FILES,   \* FD_SETSIZE - 10 in the code
  NumFds,           \* descriptors the process may hold for objects
  OpenErrors,       \* open() may fail with descriptors left (ENFILE, ENOMEM)
  NumCells,         \* bound: memory cells for elements
  Ops,              \* the operations that clients request
  Serialized,       \* clients never have two operations on an object at once
  Stored,           \* objects the server finds when it starts
  MaxOps,           \* bound: operations in one behaviour
  MaxCrashes        \* bound: crashes in one behaviour

AllOps == {"create", "remove", "read", "write", "trunc"}

ASSUME StoreAssumption ==
  /\ NumOids \in Nat \ {0} /\ NumFds \in Nat \ {0}
  /\ MAX_OPEN_FILES \in Nat \ {0}
  /\ NumCells \in Nat /\ NumCells >= NumOids
  /\ Ops \subseteq AllOps
  /\ Serialized \in BOOLEAN /\ OpenErrors \in BOOLEAN
  /\ Stored \subseteq 1 .. NumOids
  /\ MaxOps \in Nat /\ MaxCrashes \in Nat

Oids    == 1 .. NumOids
Fds     == 1 .. NumFds
Cells   == 1 .. NumCells
Offsets == 1 .. 2
None    == 0
Bad     == -1          \* a number that is no open descriptor

VARIABLES
  el,         \* memory of the elements: id, fd, mode ("r+" or not), allocated
  hash,       \* oid_hash: the cells of the elements in it
  openList,   \* open_files_list: cells, first entry first
  fdtab,      \* the kernel's open descriptors: file and position
  dir,        \* the files in the root directory
  attr,       \* the objects with a "_lwfs_cid" attribute in the database
  th,         \* the threads
  up,         \* the server runs
  segv,       \* the server has dereferenced NULL
  io,         \* calls on files: operation, object, offset; file and position reached
  started, crashes      \* operations started, crashes so far

memory == <<el, hash, openList, fdtab>>
disk   == <<dir, attr>>
world  == <<up, segv, started, crashes>>
vars   == <<memory, disk, world, th, io>>

Free(fd)   == [id |-> None, fd |-> fd, mode |-> FALSE, live |-> FALSE]
Fresh(o)   == [id |-> o, fd |-> 0, mode |-> FALSE, live |-> TRUE]
Closed     == [file |-> None, pos |-> 0]

\* next is where add_to_open_files returns to, back remove_from_open_files.
Idle == [pc |-> "idle", op |-> "none", oid |-> None, off |-> 0, cell |-> None,
         victim |-> None, next |-> "idle", back |-> "idle"]

\* sysio_obj_init and repopulate_oid_hashtable: an element for every file.
Loaded(files) ==
  /\ el' = [c \in Cells |-> IF c \in files THEN Fresh(c) ELSE Free(0)]
  /\ hash' = files

Init ==
  /\ el = [c \in Cells |-> IF c \in Stored THEN Fresh(c) ELSE Free(0)]
  /\ hash = Stored
  /\ openList = <<>>
  /\ fdtab = [fd \in Fds |-> Closed]
  /\ dir = Stored /\ attr = Stored
  /\ th = [t \in Threads |-> Idle]
  /\ up = TRUE /\ segv = FALSE
  /\ io = {}
  /\ started = 0 /\ crashes = 0

-----------------------------------------------------------------------------
At(t, pc) == th[t].pc = pc
Goto(t, pc) == th' = [th EXCEPT ![t].pc = pc]
Return(t) == th' = [th EXCEPT ![t] = Idle]

\* Elements the hash table can answer for an object; which one of several is
\* undefined (mt_hashtable.c).
Found(o) == {c \in hash : el[c].id = o}

\* open() gave the descriptor and nobody closed it.  Number 0 is open as well, but
\* as the server's standard input: close_the_open_file leaves it alone.
IsOpen(fd) == fd \in Fds /\ fdtab[fd] # Closed
FreeFds == {fd \in Fds : fdtab[fd] = Closed}

\* The process is gone; what was in memory is lost.
Down ==
  /\ up' = FALSE
  /\ el' = [c \in Cells |-> Free(0)] /\ hash' = {} /\ openList' = <<>>
  /\ fdtab' = [fd \in Fds |-> Closed]
  /\ th' = [t \in Threads |-> Idle]

Segfault == Down /\ segv' = TRUE /\ UNCHANGED <<disk, io, started, crashes>>

Crash ==
  /\ up /\ crashes < MaxCrashes
  /\ Down
  /\ crashes' = crashes + 1
  /\ UNCHANGED <<disk, segv, io, started>>

Restart ==
  /\ ~up
  /\ Loaded(dir)
  /\ up' = TRUE
  /\ UNCHANGED <<openList, fdtab, disk, th, segv, io, started, crashes>>

-----------------------------------------------------------------------------
(* storage_server.c: an operation starts, and checks that the object exists. *)

Start(t, op, o, off) ==
  /\ up /\ started < MaxOps
  /\ At(t, "idle")
  /\ Serialized => \A u \in Threads : th[u].oid # o
  /\ th' = [th EXCEPT ![t] = [Idle EXCEPT
              !.pc = IF op = "create" THEN "access" ELSE "exists",
              !.op = op, !.oid = o, !.off = off]]
  /\ started' = started + 1
  /\ UNCHANGED <<memory, disk, io, up, segv, crashes>>

\* Mutant of Exists: the operation does not check.
ExistsUnchecked(t) ==
  /\ At(t, "exists")
  /\ Goto(t, IF th[t].op = "remove" THEN "hash" ELSE "find")
  /\ UNCHANGED <<memory, disk, io, world>>

Exists(t) ==
  /\ At(t, "exists")
  /\ IF Found(th[t].oid) = {} THEN Return(t)
     ELSE Goto(t, IF th[t].op = "remove" THEN "hash" ELSE "find")
  /\ UNCHANGED <<memory, disk, io, world>>

-----------------------------------------------------------------------------
(* sysio_obj_create, then the attribute that ss_create_obj sets.           *)

Access(t) ==
  /\ At(t, "access")
  /\ IF th[t].oid \in dir THEN Return(t) ELSE Goto(t, "creat")
  /\ UNCHANGED <<memory, disk, io, world>>

Creat(t) ==
  /\ At(t, "creat")
  /\ IF FreeFds = {}
       THEN Return(t) /\ UNCHANGED dir
       ELSE Goto(t, "addOid") /\ dir' = dir \cup {th[t].oid}
  /\ UNCHANGED <<memory, attr, io, world>>

\* add_oid: any cell that is not in use may be allocated.
AddOid(t) ==
  /\ At(t, "addOid")
  /\ \E c \in Cells :
       /\ ~el[c].live
       /\ el' = [el EXCEPT ![c] = Fresh(th[t].oid)]
       /\ hash' = hash \cup {c}
       /\ th' = [th EXCEPT ![t].pc = "initMode", ![t].cell = c, ![t].next = "setattr"]
  /\ UNCHANGED <<openList, fdtab, disk, io, world>>

SetAttr(t) ==
  /\ At(t, "setattr")
  /\ attr' = attr \cup {th[t].oid}
  /\ Return(t)
  /\ UNCHANGED <<memory, dir, io, world>>

-----------------------------------------------------------------------------
(* open_oid, and the file opened again by sysio_obj_read and _write.       *)

UsesMode(t) == th[t].op \in {"read", "write"}

\* open_oid returned NULL: sysio_obj_write then reads result->id.
OpenOidFails(t) ==
  IF th[t].op = "write" THEN Segfault
  ELSE Return(t) /\ UNCHANGED <<memory, disk, io, world>>

FindOid(t) ==
  /\ At(t, "find")
  /\ \/ Found(th[t].oid) = {} /\ OpenOidFails(t)
     \/ /\ \E c \in Found(th[t].oid) :
             th' = [th EXCEPT ![t].pc = "openOid", ![t].cell = c,
                              ![t].next = IF UsesMode(t) THEN "mode" ELSE "transfer"]
        /\ UNCHANGED <<memory, disk, io, world>>

CheckFd(t) ==
  /\ At(t, "openOid")
  /\ Goto(t, IF el[th[t].cell].fd = 0 THEN "open" ELSE th[t].next)
  /\ UNCHANGED <<memory, disk, io, world>>

\* open() takes the lowest free descriptor; a failure stays in the element.
OpenFile(t) ==
  LET c    == th[t].cell
      name == IF At(t, "reopen") /\ th[t].op = "write" THEN el[c].id ELSE th[t].oid
  IN  /\ At(t, "open") \/ At(t, "reopen")
      /\ name \in dir /\ FreeFds # {}
      /\ LET fd == Min(FreeFds)
         IN  /\ fdtab' = [fdtab EXCEPT ![fd] = [file |-> name, pos |-> 0]]
             /\ el' = [el EXCEPT ![c].fd = fd]
      /\ Goto(t, "setMode")
      /\ UNCHANGED <<hash, openList, disk, io, world>>

\* Mutant of OpenFails: the element gets -errno.
OpenFailsErrno(t) ==
  /\ At(t, "open") \/ At(t, "reopen")
  /\ th[t].oid \notin dir \/ FreeFds = {} \/ OpenErrors
  /\ el' = [el EXCEPT ![th[t].cell].fd = -2]
  /\ Return(t)
  /\ UNCHANGED <<hash, openList, fdtab, disk, io, world>>

OpenFails(t) ==
  LET c    == th[t].cell
      name == IF At(t, "reopen") /\ th[t].op = "write" THEN el[c].id ELSE th[t].oid
  IN  /\ name \notin dir \/ FreeFds = {} \/ OpenErrors
      /\ \/ At(t, "open") /\ th[t].op = "write" /\ Segfault
         \/ /\ At(t, "reopen") \/ (At(t, "open") /\ th[t].op # "write")
            /\ el' = [el EXCEPT ![c].fd = Bad]
            /\ Return(t)
            /\ UNCHANGED <<hash, openList, fdtab, disk, io, world>>

\* strcpy(mode): "r+" after an open(), "" by sysio_obj_create.
SetMode(t) ==
  /\ At(t, "setMode") \/ At(t, "initMode")
  /\ el' = [el EXCEPT ![th[t].cell].mode = At(t, "setMode")]
  /\ Goto(t, "count")
  /\ UNCHANGED <<hash, openList, fdtab, disk, io, world>>

\* A file that is open in the wrong mode is closed first (one step for the
\* tests of fd and mode) ...
CheckMode(t) ==
  LET e == el[th[t].cell]
  IN  /\ At(t, "mode")
      /\ IF e.fd # 0 /\ ~e.mode
           THEN th' = [th EXCEPT ![t].pc = "delist", ![t].victim = th[t].cell,
                                 ![t].back = "again"]
           ELSE Goto(t, "again")
      /\ UNCHANGED <<memory, disk, io, world>>

\* Mutant of CheckAgain: the descriptor is used as open_oid left it.
CheckAgainNot(t) ==
  /\ At(t, "again")
  /\ Goto(t, "seek")
  /\ UNCHANGED <<memory, disk, io, world>>

\* ... and one that is closed by now is opened again.
CheckAgain(t) ==
  /\ At(t, "again")
  /\ IF el[th[t].cell].fd = 0
       THEN th' = [th EXCEPT ![t].pc = "reopen", ![t].next = "seek"]
       ELSE Goto(t, "seek")
  /\ UNCHANGED <<memory, disk, io, world>>

-----------------------------------------------------------------------------
(* add_to_open_files and remove_from_open_files.                           *)

CountOpen(t) ==
  /\ At(t, "count")
  /\ Goto(t, IF Len(openList) < MAX_OPEN_FILES THEN "unshift"
             ELSE IF Len(openList) = MAX_OPEN_FILES THEN "evict"
             ELSE th[t].next)
  /\ UNCHANGED <<memory, disk, io, world>>

\* tclist_tail is NULL when other threads emptied the list.
Evict(t) ==
  /\ At(t, "evict")
  /\ \/ openList = <<>> /\ Segfault
     \/ /\ openList # <<>>
        /\ th' = [th EXCEPT ![t].pc = "delist", ![t].victim = Last(openList),
                            ![t].back = "unshift"]
        /\ UNCHANGED <<memory, disk, io, world>>

\* tclist_delete removes the first entry that is equal byte by byte.
Delist(t) ==
  LET Same == {i \in DOMAIN openList : el[openList[i]] = el[th[t].victim]}
  IN  /\ At(t, "delist")
      /\ openList' = IF Same = {} THEN openList ELSE RemoveAt(openList, Min(Same))
      /\ Goto(t, "close")
      /\ UNCHANGED <<el, hash, fdtab, disk, io, world>>

\* Mutant of Close: the file is forgotten, not closed.
CloseForgets(t) ==
  /\ At(t, "close")
  /\ Goto(t, "clearFd")
  /\ UNCHANGED <<memory, disk, io, world>>

\* close_the_open_file: close(), then fd and mode are cleared; a close() that
\* fails leaves them alone.
Close(t) ==
  LET fd == el[th[t].victim].fd
  IN  /\ At(t, "close")
      /\ IF IsOpen(fd)
           THEN fdtab' = [fdtab EXCEPT ![fd] = Closed] /\ Goto(t, "clearFd")
           ELSE UNCHANGED fdtab /\ Goto(t, th[t].back)
      /\ UNCHANGED <<el, hash, openList, disk, io, world>>

ClearFd(t) ==
  /\ At(t, "clearFd")
  /\ el' = [el EXCEPT ![th[t].victim].fd = 0]
  /\ Goto(t, "clearMode")
  /\ UNCHANGED <<hash, openList, fdtab, disk, io, world>>

ClearMode(t) ==
  /\ At(t, "clearMode")
  /\ el' = [el EXCEPT ![th[t].victim].mode = FALSE]
  /\ Goto(t, th[t].back)
  /\ UNCHANGED <<hash, openList, fdtab, disk, io, world>>

Unshift(t) ==
  /\ At(t, "unshift")
  /\ openList' = <<th[t].cell>> \o openList
  /\ Goto(t, th[t].next)
  /\ UNCHANGED <<el, hash, fdtab, disk, io, world>>

-----------------------------------------------------------------------------
(* The transfer: lseek() and read() or write(), or one call on the file     *)
(* (ftruncate, fsync, fstat) for the operations that "trunc" stands for.    *)
(* The fd of an element that lost its file to another one in the meantime,  *)
(* or to itself, is 0: the call is made on standard input.                  *)

\* Mutant of Seek: the transfer starts where the last one ended.
SeekNot(t) ==
  /\ At(t, "seek")
  /\ Goto(t, "transfer")
  /\ UNCHANGED <<memory, disk, io, world>>

\* Standard input may be no file to seek in.
Seek(t) ==
  LET fd == el[th[t].cell].fd
  IN  /\ At(t, "seek")
      /\ \/ IsOpen(fd) /\ fdtab' = [fdtab EXCEPT ![fd].pos = th[t].off] /\ Goto(t, "transfer")
         \/ fd = 0 /\ UNCHANGED fdtab /\ Goto(t, "transfer")
         \/ ~IsOpen(fd) /\ UNCHANGED fdtab /\ Return(t)
      /\ UNCHANGED <<el, hash, openList, disk, io, world>>

\* A call on descriptor fd; file None is standard input, whose position is left out.
Call(t, fd) ==
  [op |-> th[t].op, oid |-> th[t].oid, off |-> th[t].off,
   file |-> IF fd = 0 THEN None ELSE fdtab[fd].file,
   pos |-> IF UsesMode(t) /\ fd # 0 THEN fdtab[fd].pos ELSE th[t].off]

Transfer(t) ==
  LET fd == el[th[t].cell].fd
  IN  /\ At(t, "transfer")
      /\ io' = IF IsOpen(fd) \/ fd = 0 THEN io \cup {Call(t, fd)} ELSE io
      /\ fdtab' = IF IsOpen(fd) /\ UsesMode(t) THEN [fdtab EXCEPT ![fd].pos = @ + 1] ELSE fdtab
      /\ Return(t)
      /\ UNCHANGED <<el, hash, openList, disk, world>>

-----------------------------------------------------------------------------
(* sysio_obj_remove: remove_oid, the file, the attributes.                 *)

\* When the element is gone already, remove_obj_by_oid returns 0, LWFS_OK.
HashRemove(t) ==
  /\ At(t, "hash")
  /\ \/ Found(th[t].oid) = {} /\ Goto(t, "rmattrs") /\ UNCHANGED hash
     \/ \E c \in Found(th[t].oid) :
          /\ hash' = hash \ {c}
          /\ th' = [th EXCEPT ![t].pc = "checkClosed", ![t].cell = c]
  /\ UNCHANGED <<el, openList, fdtab, disk, io, world>>

\* Only an element with an open file is taken off the list.
CheckClosed(t) ==
  /\ At(t, "checkClosed")
  /\ th' = IF el[th[t].cell].fd = 0 THEN [th EXCEPT ![t].pc = "free"]
           ELSE [th EXCEPT ![t].pc = "delist", ![t].victim = th[t].cell, ![t].back = "free"]
  /\ UNCHANGED <<memory, disk, io, world>>

\* What a freed cell holds is up to the allocator: its fd may be any number.
FreeElement(t) ==
  /\ At(t, "free")
  /\ \E fd \in Fds \cup {0, Bad} : el' = [el EXCEPT ![th[t].cell] = Free(fd)]
  /\ Goto(t, "unlink")
  /\ UNCHANGED <<hash, openList, fdtab, disk, io, world>>

\* Mutant of Unlink: the file stays.
UnlinkNot(t) ==
  /\ At(t, "unlink")
  /\ Goto(t, "rmattrs")
  /\ UNCHANGED <<memory, disk, io, world>>

Unlink(t) ==
  /\ At(t, "unlink")
  /\ IF th[t].oid \in dir THEN Goto(t, "rmattrs") ELSE Return(t)
  /\ dir' = dir \ {th[t].oid}
  /\ UNCHANGED <<memory, attr, io, world>>

RemoveAttrs(t) ==
  /\ At(t, "rmattrs")
  /\ attr' = attr \ {th[t].oid}
  /\ Return(t)
  /\ UNCHANGED <<memory, dir, io, world>>

-----------------------------------------------------------------------------
Step(t) ==
  \/ Exists(t)
  \/ Access(t) \/ Creat(t) \/ AddOid(t) \/ SetAttr(t)
  \/ FindOid(t) \/ CheckFd(t) \/ OpenFile(t) \/ OpenFails(t) \/ SetMode(t)
  \/ CheckMode(t) \/ CheckAgain(t)
  \/ CountOpen(t) \/ Evict(t) \/ Delist(t) \/ Close(t) \/ ClearFd(t) \/ ClearMode(t)
  \/ Unshift(t)
  \/ Seek(t) \/ Transfer(t)
  \/ HashRemove(t) \/ CheckClosed(t) \/ FreeElement(t) \/ Unlink(t) \/ RemoveAttrs(t)

Finished == up /\ started = MaxOps /\ (\A t \in Threads : At(t, "idle")) /\ UNCHANGED vars

Next ==
  \/ \E t \in Threads : Step(t)
  \/ \E t \in Threads, op \in Ops, o \in Oids, off \in Offsets :
       (op \notin {"read", "write"} => off = 1) /\ Start(t, op, o, off)
  \/ Crash \/ Restart \/ Finished

Spec == Init /\ [][Next]_vars
-----------------------------------------------------------------------------
(* Properties.                                                             *)

States ==
  {"idle", "exists", "access", "creat", "addOid", "initMode", "setattr", "find",
   "openOid", "open", "reopen", "setMode", "mode", "again", "count", "evict",
   "delist", "close", "clearFd", "clearMode", "unshift", "seek", "transfer",
   "hash", "checkClosed", "free", "unlink", "rmattrs"}

\* The type invariant.  A descriptor number in an element is one that open()
\* gave, 0 for none, or -1 after a failed open().
TypeOK ==
  /\ el \in [Cells -> [id : Oids \cup {None}, fd : Fds \cup {0, Bad},
                       mode : BOOLEAN, live : BOOLEAN]]
  /\ hash \subseteq Cells
  /\ openList \in Seq(Cells)
  /\ fdtab \in [Fds -> [file : Oids \cup {None}, pos : Nat]]
  /\ dir \subseteq Oids /\ attr \subseteq Oids
  /\ th \in [Threads -> [pc : States, op : AllOps \cup {"none"}, oid : Oids \cup {None},
                         off : Offsets \cup {0}, cell : Cells \cup {None},
                         victim : Cells \cup {None}, next : States, back : States]]
  /\ up \in BOOLEAN /\ segv \in BOOLEAN
  /\ io \subseteq [op : AllOps, oid : Oids, off : Offsets, file : Oids \cup {None}, pos : Nat]
  /\ started \in 0 .. MaxOps /\ crashes \in 0 .. MaxCrashes

Busy(o) == \E t \in Threads : th[t].oid = o

\* The hash table is what makes an object exist, the file what makes it last,
\* and the attribute names its container.  While no operation on an object is
\* under way the three agree; a crash may leave the attribute behind or missing.
TablesAgree ==
  up => \A o \in Oids : ~Busy(o) =>
          /\ o \in dir <=> Found(o) # {}
          /\ crashes = 0 /\ ~segv => (o \in attr <=> o \in dir)

\* An object has one element; the hash table answers any of several.
OneElementPerObject == \A c, d \in hash : el[c].id = el[d].id => c = d

\* A thread works on the element of its object, not on freed memory.
Using == {"openOid", "open", "reopen", "setMode", "mode", "again", "seek", "transfer"}

UsesLiveElement ==
  \A t \in Threads : th[t].pc \in Using =>
    el[th[t].cell].live /\ el[th[t].cell].id = th[t].oid

\* "Read from a stored object", "write to a stored object": a transfer reaches
\* the file of the object it names, also when descriptors are closed for others,
\* their numbers are used again, and the file of the object itself is the one that
\* was closed to make room for it.
IOGoesToItsObject == \A r \in io : r.op \in {"read", "write"} => r.file = r.oid

\* "Stat an object", "truncate an object", sysio_obj_fsync: these do not look at
\* the descriptor again before they use it (checked where no file is closed for
\* another one; README.md, section 7, has the case where the call goes to standard
\* input).
CallsReachTheirObject == \A r \in io : r.file = r.oid

\* A transfer starts at the offset it was asked to start at.
IOAtItsOffset == \A r \in io : r.pos = r.off

\* Every call on a file is made at the place it was asked for: the object's file,
\* the offset.
TransfersHitTheirPlace == CallsReachTheirObject /\ IOAtItsOffset

\* sysio_obj.c "assumes that object already exists": while an operation works
\* on an object it has one element, which is live, and no NULL element is read.
ElementStaysInUse == OneElementPerObject /\ UsesLiveElement /\ ~segv

\* "We maintain 10 fewer than the max number of open file descriptors."  (An
\* operation opens its file before it closes another one for it.)
OpenFilesBounded ==
  (\A t \in Threads : At(t, "idle")) => NumFds - Cardinality(FreeFds) <= MAX_OPEN_FILES

\* Every descriptor is known to an element, so that it can be closed again.
NoDescriptorLeak ==
  \A fd \in Fds \ FreeFds : \E c \in Cells : el[c].live /\ el[c].fd = fd

\* "Objects with open files are also maintained in a list": one that is not
\* would never be closed for another.
OpenFilesListed ==
  \A c \in hash : IsOpen(el[c].fd) =>
    \/ \E i \in DOMAIN openList : openList[i] = c
    \/ \E t \in Threads : c \in {th[t].cell, th[t].victim}

\* The bounded list of open files and the descriptors account for each other,
\* across closings for another object, failures and a restart.
DescriptorsAccounted == OpenFilesBounded /\ OpenFilesListed /\ NoDescriptorLeak

\* remove_from_open_files "removes the object from the open files list", so
\* the list never refers to an element that was freed.
ListHoldsLiveElements ==
  \A i \in DOMAIN openList : el[openList[i]].live

\* An operation on an object that is gone fails; it does not end the server.
NoSegfault == ~segv
=============================================================================
