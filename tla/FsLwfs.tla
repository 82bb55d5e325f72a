------------------------------- MODULE FsLwfs -------------------------------
(***************************************************************************)
(* The libsysio driver (src/client/sysio_client/fs_lwfs.c): processes that *)
(* create, open, read, write, unlink and rename files.  A file is made of  *)
(* several servers' state: a container with its access list, one data      *)
(* object per storage server, a management object that refers to them, and *)
(* the entry of the naming server.  The driver makes and removes them one  *)
(* remote call at a time, without a transaction, and sends the transfers   *)
(* of a read or a write to several servers at once.                        *)
(*                                                                         *)
(* One remote call is one step.  The servers are what the other modules    *)
(* check of them; libsysio above the driver is modelled by its calls.      *)
(***************************************************************************)
EXTENDS Striping, Integers, FiniteSets, Functions

CONSTANTS
  Clients,    \* processes that mounted the file system
  Names,      \* file names in the root directory
  Ops,        \* what they do: "open", "link", "unlink", "rename", "io"
  Counts,     \* sizes of a read or a write, in bytes
  Existing,   \* the name of a file from before, or "" if there is none
  ExistingLen,\* its length
  SeekPast,   \* positions past the end of the file are asked for
  Torn,       \* files are opened and read while a write is unfinished or has
              \* failed, and its process crashes
  GoesOn,     \* a process goes on after a failed read or write
  Swaps,      \* a name comes to another file while it is being opened
  Mishaps,    \* what may go wrong unnoticed: "restart", "refused" (see Outcomes)
              \* and "empty" (see TransferRead)
  ErrCode,    \* the error code that "refused" takes for a number of bytes
  MaxOps,     \* bound: operations begun
  MaxLen,     \* bound: the length of a file
  MaxFaults   \* bound: failed calls and waits, collisions of object ids, crashes

ASSUME FsAssumption ==
  /\ Counts \subseteq Nat \ {0}
  /\ {SeekPast, Torn, GoesOn, Swaps} \subseteq BOOLEAN
  /\ ErrCode \in Nat \ {0}
  /\ {ExistingLen, MaxOps, MaxLen, MaxFaults} \subseteq Nat

VARIABLES
  entries,  \* the naming server: the file a name refers to, 0 if none
  files,    \* what exists of each file that some create_file began
  at,       \* where each process is in its operation
  op,       \* its operation's arguments and local variables
  fd,       \* its open file: the inode's cached size and position
  buf,      \* its buffer
  want,     \* what a read should have put into the buffer by now
  outs,     \* the transfers of lio_outstanding_requests, and those no one waits for
  ops,      \* the number of operations begun
  faults

vars == <<entries, files, at, op, fd, buf, want, outs, ops, faults>>

----------------------------------------------------------------------------
(* Files and their parts. *)

Servers == 0 .. ss_obj_count - 1
Gone == [exists |-> FALSE, bytes |-> <<>>]
Empty == [exists |-> TRUE, bytes |-> <<>>]

\* mo is 0 without a management object, 1 with an empty one, and counts what
\* sso_store_mo has written into it: chunk size, number of objects, references.
\* links is the count of the inode, data the file as it should be.
NewFile == [acl |-> FALSE, dso |-> [s \in Servers |-> Gone], mo |-> 0,
            links |-> 0, data |-> <<>>]

\* A byte nobody wrote.  The bytes of a write are numbered by operation.
Hole == <<0, 0>>
EndOfFile == <<0, 1>>
Unset == <<1, 0>>  \* what a buffer holds at first

ByteAt(bytes, i) == IF i < Len(bytes) THEN bytes[i + 1] ELSE Hole

\* Stores the bytes new at offset i, as pwrite does.
Stored(bytes, i, new) ==
  [j \in 1 .. IF Len(bytes) > i + Len(new) THEN Len(bytes) ELSE i + Len(new) |->
     IF j > i /\ j <= i + Len(new) THEN new[j - i] ELSE ByteAt(bytes, j - 1)]

NoFile == [file |-> 0, size |-> 0, fpos |-> 0, pos |-> 0]
NoOp == [kind |-> "none", name |-> "", new |-> "", file |-> 0, other |-> 0,
         size |-> 0, i |-> 0, tries |-> 0, misses |-> 0, no |-> 0, count |-> 0, ok |-> TRUE]

\* A file that was written before, in one piece.
OldFile ==
  LET whole == [i \in 1 .. ExistingLen |-> <<0, i + 1>>]
      InObject(s) == {i \in 0 .. ExistingLen - 1 : ObjIndex(i) = s}
      object(s) == [j \in {ObjOffset(i) + 1 : i \in InObject(s)} |->
                      whole[1 + CHOOSE i \in InObject(s) : ObjOffset(i) + 1 = j]]
  IN  [acl |-> TRUE, mo |-> 4, links |-> 1, data |-> whole,
       dso |-> [s \in Servers |-> [exists |-> TRUE, bytes |-> object(s)]]]

\* sso_load_mo reads the three parts; it needs a capability to read.
Readable(f) == files[f].acl /\ files[f].mo = 4

Init ==
  /\ entries = [n \in Names |-> IF n = Existing THEN 1 ELSE 0]
  /\ files = IF Existing \in Names THEN <<OldFile>> ELSE <<>>
  /\ at = [c \in Clients |-> "idle"]
  /\ op = [c \in Clients |-> NoOp]
  /\ fd = [c \in Clients |-> NoFile]
  /\ buf = [c \in Clients |-> [i \in 1 .. MaxLen |-> Unset]]
  /\ want = buf
  /\ outs = [c \in Clients |-> {}]
  /\ ops = 0
  /\ faults = 0

----------------------------------------------------------------------------
(* Steps of a process. *)

Io == <<fd, buf, want, outs>>
Name(c) == op[c].name

Goto(c, where) == at' = [at EXCEPT ![c] = where]
Set(c, o) == op' = [op EXCEPT ![c] = o]

\* The operation returns; its local variables are gone.
Done(c) == Goto(c, "idle") /\ Set(c, NoOp)

\* The writes of c that a server has still to carry out, or could not.
Unwritten(c) == {r \in outs[c] : r.kind = "write" /\ r.st \in {"sent", "lost"}}

Reading == \E c \in Clients :
  \/ at[c] \in {"lookup", "again", "stat", "load"}
  \/ at[c] = "io" /\ op[c].kind = "read"
Writing == \E c \in Clients : Unwritten(c) # {}

\* The application calls open, link, unlink or rename.
Begin(c) ==
  /\ at[c] = "idle" /\ ops < MaxOps
  /\ \E n \in Names :
       \/ /\ "open" \in Ops /\ fd[c].file = 0
          /\ Torn \/ ~Writing
          /\ Set(c, [NoOp EXCEPT !.kind = "open", !.name = n])
          /\ Goto(c, "lookup")
       \/ /\ "unlink" \in Ops
          /\ Set(c, [NoOp EXCEPT !.kind = "unlink", !.name = n])
          /\ Goto(c, "unlink")
       \/ /\ \E m \in Names, kind \in {"link", "rename"} \cap Ops :
               Set(c, [NoOp EXCEPT !.kind = kind, !.name = n, !.new = m])
          /\ Goto(c, "link")
  /\ ops' = ops + 1
  /\ UNCHANGED <<entries, files, faults, Io>>

----------------------------------------------------------------------------
(* Opening a file: lwfs_inop_lookup, then lwfs_inop_open. *)

\* traverse_path asks the naming server.  Without an inode lwfs_inop_open
\* creates the file.
Lookup(c) ==
  /\ at[c] = "lookup"
  /\ LET f == entries[Name(c)]
     IN  \/ /\ f # 0
            /\ Set(c, [op[c] EXCEPT !.file = f, !.i = 0, !.size = 0])
            /\ Goto(c, "again")
         \/ f = 0 /\ op[c].misses = 0 /\ Goto(c, "container") /\ UNCHANGED op
         \/ f = 0 /\ op[c].misses > 0 /\ Done(c)
  /\ UNCHANGED <<entries, files, ops, faults, Io>>

\* lwfs_stat_path looks the path up again.  It ignores that the name is gone by
\* then, but there is no capability for the container 0 of an empty entry.
LookupAgain(c) ==
  /\ at[c] = "again"
  /\ LET f == entries[Name(c)]
     IN  /\ Swaps \/ f \in {0, op[c].file}
         /\ IF f # 0 THEN Set(c, [op[c] EXCEPT !.other = f]) /\ Goto(c, "stat")
            ELSE Done(c)
  /\ UNCHANGED <<entries, files, ops, faults, Io>>

\* lwfs_stat_ns_entry: the management object, then one object after the other;
\* the size of the file is the sum of the sizes.
Stat(c) ==
  /\ at[c] = "stat"
  /\ LET f == op[c].other
         i == op[c].i
     IN  IF (i = 0 => Readable(f)) /\ files[f].dso[i].exists
         THEN /\ Set(c, [op[c] EXCEPT !.i = i + 1,
                                      !.size = @ + Len(files[f].dso[i].bytes)])
              /\ IF i + 1 = ss_obj_count THEN Goto(c, "load") ELSE UNCHANGED at
         ELSE Done(c)
  /\ UNCHANGED <<entries, files, ops, faults, Io>>

\* lwfs_i_new makes an inode of the first entry with that size and position 0,
\* and lwfs_inop_open loads the management object of that entry.
LoadMo(c) ==
  /\ at[c] = "load"
  /\ IF Readable(op[c].file)
     THEN fd' = [fd EXCEPT ![c] = [NoFile EXCEPT !.file = op[c].file,
                                                 !.size = op[c].size]]
     ELSE UNCHANGED fd
  /\ Done(c)
  /\ UNCHANGED <<entries, files, buf, want, outs, ops, faults>>

----------------------------------------------------------------------------
(* create_file. *)

\* check_cid_cache: a container of its own for the file ...
CreateContainer(c) ==
  /\ at[c] = "container"
  /\ files' = Append(files, NewFile)
  /\ Set(c, [op[c] EXCEPT !.file = Len(files) + 1, !.i = 0])
  /\ Goto(c, "acl")
  /\ UNCHANGED <<entries, ops, faults, Io>>

\* ... and then its access list.
CreateAcl(c) ==
  /\ at[c] = "acl"
  /\ files' = [files EXCEPT ![op[c].file].acl = TRUE]
  /\ Goto(c, "dso")
  /\ UNCHANGED <<entries, op, ops, faults, Io>>

\* sso_create_dso: an object on every storage server.
CreateDso(c) ==
  /\ at[c] = "dso"
  /\ files' = [files EXCEPT ![op[c].file].dso[op[c].i] = Empty]
  /\ Set(c, [op[c] EXCEPT !.i = @ + 1, !.tries = @ + 1])
  /\ IF op[c].i + 1 = ss_obj_count THEN Goto(c, "mo") ELSE UNCHANGED at
  /\ UNCHANGED <<entries, ops, faults, Io>>

\* The id is taken (LWFS_ERR_EXIST): another one is tried, but tries is not
\* reset from one object to the next.  At the end of them lwfs_inop_open takes
\* the same code for a name that is taken, and looks the name up again.
CollideDso(c) ==
  /\ at[c] = "dso" /\ faults < MaxFaults
  /\ Set(c, [op[c] EXCEPT !.tries = @ + 1,
                          !.misses = IF op[c].tries + 1 < 3 THEN @ ELSE @ + 1])
  /\ IF op[c].tries + 1 < 3 THEN UNCHANGED at ELSE Goto(c, "lookup")
  /\ faults' = faults + 1
  /\ UNCHANGED <<entries, files, ops, Io>>

\* sso_create_mo, and the three writes of sso_store_mo.
StoreMo(c) ==
  /\ at[c] = "mo"
  /\ files' = [files EXCEPT ![op[c].file].mo = @ + 1]
  /\ IF files[op[c].file].mo = 3 THEN Goto(c, "name") ELSE UNCHANGED at
  /\ UNCHANGED <<entries, op, ops, faults, Io>>

\* lwfs_create_file_sync, up to three times while the name is taken.  After
\* that lwfs_inop_open looks the name up again and opens what it finds; the
\* objects just made stay.
NameFile(c) ==
  /\ at[c] = "name"
  /\ LET f == op[c].file
     IN  IF entries[Name(c)] = 0
         THEN /\ entries' = [entries EXCEPT ![Name(c)] = f]
              /\ files' = [files EXCEPT ![f].links = 1]
              /\ fd' = [fd EXCEPT ![c] = [NoFile EXCEPT !.file = f]]
              /\ Done(c)
         ELSE /\ Set(c, [op[c] EXCEPT !.misses = @ + 1])
              /\ IF op[c].misses + 1 < 3 THEN UNCHANGED at ELSE Goto(c, "lookup")
              /\ UNCHANGED <<entries, files, fd>>
  /\ UNCHANGED <<buf, want, outs, ops, faults>>

----------------------------------------------------------------------------
(* lwfs_inop_link, lwfs_inop_unlink, lwfs_inop_rename. *)

\* rename makes a link first; it fails when the new name is taken.
Link(c) ==
  /\ at[c] = "link"
  /\ LET f == entries[Name(c)]
     IN  IF f # 0 /\ entries[op[c].new] = 0
         THEN /\ entries' = [entries EXCEPT ![op[c].new] = f]
              /\ files' = [files EXCEPT ![f].links = @ + 1]
              /\ IF op[c].kind = "rename" THEN Goto(c, "unlink") /\ UNCHANGED op
                 ELSE Done(c)
         ELSE Done(c) /\ UNCHANGED <<entries, files>>
  /\ UNCHANGED <<ops, faults, Io>>

\* The naming server removes the entry and answers it with its link count,
\* which says whether the objects go.
UnlinkIf(c, last(_)) ==
  /\ at[c] = "unlink"
  /\ LET f == entries[Name(c)]
     IN  IF f = 0 THEN Done(c) /\ UNCHANGED <<entries, files>>
         ELSE /\ entries' = [entries EXCEPT ![Name(c)] = 0]
              /\ files' = [files EXCEPT ![f].links = @ - 1]
              /\ IF last(files[f].links - 1)
                 THEN Set(c, [op[c] EXCEPT !.file = f, !.i = 0]) /\ Goto(c, "reload")
                 ELSE Done(c)
  /\ UNCHANGED <<ops, faults, Io>>

\* A slip: the objects go with any link.
UnlinkAny(c) == UnlinkIf(c, LAMBDA link_cnt : TRUE)

\* With the last link, that is.
Unlink(c) == UnlinkIf(c, LAMBDA link_cnt : link_cnt = 0)

\* To find the objects it loads the management object.
ReloadMo(c) ==
  /\ at[c] = "reload"
  /\ IF Readable(op[c].file) THEN Goto(c, "remove") /\ UNCHANGED op ELSE Done(c)
  /\ UNCHANGED <<entries, files, ops, faults, Io>>

\* sso_remove_dso, one object at a time.
RemoveDso(c) ==
  /\ at[c] = "remove"
  /\ files' = [files EXCEPT ![op[c].file].dso[op[c].i] = Gone]
  /\ Set(c, [op[c] EXCEPT !.i = @ + 1])
  /\ IF op[c].i + 1 = ss_obj_count THEN Goto(c, "removeMo") ELSE UNCHANGED at
  /\ UNCHANGED <<entries, ops, faults, Io>>

\* At last the management object.  The container stays.
RemoveMo(c) ==
  /\ at[c] = "removeMo"
  /\ files' = [files EXCEPT ![op[c].file].mo = 0]
  /\ Done(c)
  /\ UNCHANGED <<entries, ops, faults, Io>>

----------------------------------------------------------------------------
(* Failures. *)

\* A remote call fails (those of a read or write: Outcomes, TransferFails and
\* IoFails).  Every caller gives up and takes nothing back, except that
\* lwfs_inop_unlink ignores what sso_remove_dso returns.
CallFails(c) ==
  /\ at[c] \notin {"idle", "io", "stopped", "overrun"} /\ faults < MaxFaults
  /\ IF at[c] = "remove" THEN Goto(c, "removeMo") /\ UNCHANGED op ELSE Done(c)
  /\ faults' = faults + 1
  /\ UNCHANGED <<entries, files, ops, Io>>

\* The process ends anywhere in its operation, and another one starts.
Crash(c) ==
  /\ faults < MaxFaults
  /\ ~Torn => Unwritten(c) = {}
  /\ Done(c)
  /\ fd' = [fd EXCEPT ![c] = NoFile]
  /\ outs' = [outs EXCEPT ![c] = {}]
  /\ faults' = faults + 1
  /\ UNCHANGED <<entries, files, buf, want, ops>>

----------------------------------------------------------------------------
(* Reading and writing. *)

\* lwfs_inop_pos: the inode's position, and its size when that is beyond it.
Seek(c) ==
  /\ at[c] = "idle" /\ fd[c].file # 0 /\ ops < MaxOps
  /\ \E off \in 0 .. IF SeekPast THEN MaxLen ELSE Len(files[fd[c].file].data) :
       /\ off # fd[c].pos
       /\ fd' = [fd EXCEPT ![c].fpos = off, ![c].pos = off,
                           ![c].size = IF off > @ THEN off ELSE @]
  /\ ops' = ops + 1
  /\ UNCHANGED <<entries, files, at, op, buf, want, outs, faults>>

\* A transfer of the operation no at a place of the file: sent, then done or
\* failed; lost is a write that failed though its object is there.
Sent(piece, off, f, no, kind) ==
  [piece |-> piece, off |-> off, file |-> f, no |-> no, kind |-> kind, st |-> "sent"]

\* sso_io cuts a read at the inode's size, seen from fpos.
BytesToDo(h, kind, count) ==
  IF kind = "read" /\ h.fpos + count > h.size THEN h.size - h.fpos ELSE count

\* May the application ask for this?  (See Torn for the second part.)
MayDo(c, h, kind, count) ==
  /\ at[c] = "idle" /\ h.file # 0 /\ ops < MaxOps /\ "io" \in Ops
  /\ kind = "read" => Torn \/ ~Writing
  /\ kind = "write" => Torn \/ ~Reading
  /\ h.pos + count <= MaxLen

BeginIo(c, kind, count, ok) ==
  /\ Set(c, [NoOp EXCEPT !.kind = kind, !.no = ops + 1, !.count = count, !.ok = ok])
  /\ ops' = ops + 1
  /\ UNCHANGED <<entries, files>>

\* What sso_io does to transfer left bytes at off: the transfers it sends, the
\* number of bytes cc it returns, whether it succeeds, and the faults it met.
\* A transfer that cannot be begun ends the loop, and so those before it are
\* sent; the last of them may be that transfer itself, sent before it failed.
\* But the first failure is only logged: the loop goes on where the first
\* transfer should have begun, without regard to the chunk ("restart").  If it
\* fails there as well, for a capability that is refused, the positive code is
\* what sso_io returns ("refused").
Outcomes(off, left) ==
  LET whole == Range(Pieces(off, left))
      all == [sent |-> whole, cc |-> left, ok |-> TRUE, met |-> 0]
      begun == {{p \in whole : p.buf < upto} : upto \in {p.buf : p \in whole} \cup {left}}
      mishaps ==
        {h \in {[kind |-> "restart", sent |-> Range(PiecesAnew(off, left)), cc |-> left],
                [kind |-> "refused", sent |-> {}, cc |-> ErrCode]} : h.kind \in Mishaps}
  IN  {all} \cup
      IF faults = MaxFaults THEN {}
      ELSE {[all EXCEPT !.sent = sent, !.ok = FALSE, !.met = 1] : sent \in begun}
           \cup {[all EXCEPT !.sent = h.sent, !.cc = h.cc, !.met = 1] : h \in mishaps}

\* doiov and sso_io: the transfers of count bytes at the file's position are
\* begun, and on success the inode's position moves at once.  A read at
\* fpos = st_size is the end of the file and does nothing.
StartIo(c) ==
  \E kind \in {"read", "write"}, count \in Counts :
    LET h == fd[c]
        left == BytesToDo(h, kind, count)
    IN  /\ MayDo(c, h, kind, count)
        /\ left >= 0 /\ (kind = "read" => h.fpos # h.size)
        /\ Goto(c, "io")
        /\ buf' = IF kind = "read" THEN buf
                  ELSE [buf EXCEPT ![c] = Stored(@, 0, [i \in 1 .. count |-> <<ops + 1, i>>])]
        /\ \E r \in Outcomes(h.pos, left) :
             /\ fd' = [fd EXCEPT ![c].fpos = IF r.ok THEN @ + r.cc ELSE @]
             /\ outs' = [outs EXCEPT ![c] = @ \cup
                  {Sent(p, h.pos + p.buf, h.file, ops + 1, kind) : p \in r.sent}]
             /\ want' = [want EXCEPT ![c] =
                  IF kind = "read" THEN Stored(@, 0, [i \in 1 .. r.cc |-> EndOfFile])
                  ELSE buf'[c]]
             /\ BeginIo(c, kind, r.cc, r.ok)
             /\ faults' = faults + r.met

\* With fpos beyond st_size the difference wraps around in the unsigned
\* bytes_left, and the loop goes on past the end of the buffer.
Overrun(c) ==
  \E count \in Counts :
    /\ MayDo(c, fd[c], "read", count)
    /\ BytesToDo(fd[c], "read", count) < 0
    /\ Goto(c, "overrun")
    /\ BeginIo(c, "read", 0, TRUE)
    /\ UNCHANGED <<faults, Io>>

\* Was r begun before q?
Before(r, q) == r.no < q.no \/ (r.no = q.no /\ r.piece.buf < q.piece.buf)

\* The transfers a storage server may carry out next: the requests of one
\* process reach a server in order.
Ready(c) == {r \in outs[c] :
  /\ r.st = "sent"
  /\ \A q \in outs[c] :
       q.st = "sent" /\ q.piece.obj = r.piece.obj => ~Before(q, r)}

Dso(r) == files[r.file].dso[r.piece.obj]
Answer(c, r, st) == outs' = [outs EXCEPT ![c] = (@ \ {r}) \cup {[r EXCEPT !.st = st]}]

\* The transfers of c's operation.
Mine(c) == {r \in outs[c] : at[c] = "io" /\ r.no = op[c].no}

\* A write stores what the buffer holds now.
TransferWrite(c) ==
  \E r \in Ready(c) :
    LET new == SubSeq(buf[c], r.piece.buf + 1, r.piece.buf + r.piece.len)
    IN  /\ r.kind = "write" /\ Dso(r).exists
        /\ files' = [files EXCEPT
             ![r.file].dso[r.piece.obj].bytes = Stored(@, r.piece.at, new),
             ![r.file].data = Stored(@, r.off, new)]
        /\ Answer(c, r, "done")
        /\ UNCHANGED <<entries, at, op, fd, buf, want, ops, faults>>

\* What a read of r brings: the object's bytes, up to its end.  A server that
\* cannot open the object's file brings none and answers LWFS_OK as well.
Arrivals(r) ==
  LET p == r.piece
      bytes == Dso(r).bytes
  IN  {SubSeq(bytes, p.at + 1, AtMost(p.at + p.len, Len(bytes)))}
      \cup {b \in {<<>>} : "empty" \in Mishaps}

\* A read leaves the part of the buffer that lies beyond the object's end as
\* it was; the driver does not look at how much arrived.
TransferRead(c) ==
  \E r \in Ready(c) :
    LET p == r.piece
        whole == files[r.file].data
        right(i) == IF r.off + i <= Len(whole) THEN whole[r.off + i] ELSE EndOfFile
    IN  /\ r.kind = "read" /\ Dso(r).exists
        /\ \E bytes \in Arrivals(r) : buf' = [buf EXCEPT ![c] = Stored(@, p.buf, bytes)]
        /\ want' = IF r \in Mine(c)
                   THEN [want EXCEPT ![c] = Stored(@, p.buf, [i \in 1 .. p.len |-> right(i)])]
                   ELSE want
        /\ Answer(c, r, "done")
        /\ UNCHANGED <<entries, files, at, op, fd, ops, faults>>

\* The object is gone, or the server refuses the capability, is full or ends.
TransferFails(c) ==
  \E r \in Ready(c) :
    /\ Dso(r).exists => faults < MaxFaults
    /\ faults' = IF Dso(r).exists THEN faults + 1 ELSE faults
    /\ Answer(c, r, IF Dso(r).exists /\ r.kind = "write" THEN "lost" ELSE "failed")
    /\ UNCHANGED <<entries, files, at, op, fd, buf, want, ops>>

\* What is left when an operation returns.
LeaveSent(c) == outs' = [outs EXCEPT ![c] = {r \in @ : r.st \in {"sent", "lost"}}]

\* lwfs_inop_iodone waits for each transfer in turn ...
IoDone(c) ==
  /\ at[c] = "io" /\ op[c].ok
  /\ \A r \in Mine(c) : r.st = "done"
  /\ fd' = [fd EXCEPT ![c].pos = @ + op[c].count]
  /\ LeaveSent(c)
  /\ Goto(c, "idle")
  /\ Set(c, [op[c] EXCEPT !.kind = "ended"])
  /\ UNCHANGED <<entries, files, buf, want, ops, faults>>

\* ... and returns at the first that failed, or when a wait gives up; nobody
\* waits for the others.  An operation that could not send all of them fails
\* when it has waited, but perhaps not for the last (see Outcomes).
IoFails(c) ==
  /\ at[c] = "io"
  /\ \/ /\ \E r \in Mine(c) :
               /\ r.st \in {"failed", "lost"}
               /\ \A q \in Mine(c) : Before(q, r) => q.st = "done"
        /\ UNCHANGED faults
     \/ /\ ~op[c].ok
        /\ \A q \in Mine(c) : q.st = "done" \/ ~\E r \in Mine(c) : Before(q, r)
        /\ UNCHANGED faults
     \/ faults < MaxFaults /\ faults' = faults + 1
  /\ LeaveSent(c)
  /\ Goto(c, IF GoesOn THEN "idle" ELSE "stopped")
  /\ Set(c, NoOp)
  /\ UNCHANGED <<entries, files, fd, buf, want, ops>>

\* lwfs_inop_close and lwfs_inop_gone: the inode is forgotten.
CloseFile(c) ==
  /\ at[c] = "idle" /\ fd[c].file # 0
  /\ fd' = [fd EXCEPT ![c] = NoFile]
  /\ Set(c, NoOp)
  /\ UNCHANGED <<entries, files, at, buf, want, outs, ops, faults>>

Next ==
  \E c \in Clients :
    \/ Begin(c) \/ Lookup(c) \/ LookupAgain(c) \/ Stat(c) \/ LoadMo(c)
    \/ CreateContainer(c) \/ CreateAcl(c) \/ CreateDso(c) \/ CollideDso(c)
    \/ StoreMo(c) \/ NameFile(c)
    \/ Link(c) \/ Unlink(c) \/ ReloadMo(c) \/ RemoveDso(c) \/ RemoveMo(c)
    \/ CallFails(c) \/ Crash(c)
    \/ Seek(c) \/ StartIo(c) \/ Overrun(c) \/ TransferWrite(c) \/ TransferRead(c)
    \/ TransferFails(c) \/ IoDone(c) \/ IoFails(c)
    \/ CloseFile(c)

Spec == Init /\ [][Next]_vars

----------------------------------------------------------------------------
(* Properties. *)

\* Whatever fails and whoever races, a name leads to a whole file: its inode
\* counts exactly its names, its container has an access list, its management
\* object is complete and every object it refers to exists.  create_file names
\* a file last and lwfs_inop_unlink removes its objects after its last name.
EntryHasObjects ==
  \A f \in DOMAIN files :
    /\ files[f].links = Cardinality({n \in Names : entries[n] = f})
    /\ files[f].links > 0 =>
         Readable(f) /\ \A s \in Servers : files[f].dso[s].exists

\* The objects of a file together are the file, as long as they exist: each
\* byte that was written is in the object and at the place where
\* sso_calc_obj_index_offset looks for it, and an object holds nothing else.
StripesHoldFile ==
  \A f \in DOMAIN files, s \in Servers :
    LET whole == files[f].data
        bytes == files[f].dso[s].bytes
        Mapped(i, j) == ObjIndex(i) = s /\ ObjOffset(i) = j
    IN  files[f].dso[s].exists =>
          /\ \A i \in 0 .. Len(whole) - 1 :
               ObjIndex(i) = s => ByteAt(bytes, ObjOffset(i)) = whole[i + 1]
          /\ \A j \in 0 .. Len(bytes) - 1 : \E i \in 0 .. Len(whole) - 1 : Mapped(i, j)

\* A read that succeeded has put the file's bytes into the buffer, as many as
\* it says, in order, and nothing from an earlier transfer.
ReadsReturnFile ==
  \A c \in Clients : op[c].kind = "ended" =>
    SubSeq(buf[c], 1, op[c].count) = SubSeq(want[c], 1, op[c].count)

\* No transfer reaches out of the caller's buffer (sso_io).
InsideBuffer == \A c \in Clients : at[c] # "overrun"

\* What exists on the servers belongs to a named file or to an operation in
\* progress (the comments rollback_ss_obj() and rollback_naming_obj() of
\* create_file stand where the code does not clean up).
NothingLeaks ==
  \A f \in DOMAIN files :
    files[f].mo # 0 /\ files[f].links = 0 => \E c \in Clients : op[c].file = f

\* A rename removes no file that it did not find under the old name.
RenameKeepsOthers ==
  \A c \in Clients :
    op[c].kind = "rename" /\ at[c] = "reload" => entries[op[c].new] = op[c].file
=============================================================================
