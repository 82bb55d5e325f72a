------------------------- MODULE StorageObjProofs -------------------------
(***************************************************************************)
(* Proofs about the object store, for any numbers of objects, descriptors, *)
(* cells, operations and crashes.                                          *)
(***************************************************************************)
EXTENDS StorageObj, SequenceTheorems, FiniteSetTheorems,
        WellFoundedInduction, TLAPS

(***************************************************************************)
(* The inductive invariants, in named parts.                               *)
(***************************************************************************)

OneThread == \A t, u \in Threads : t = u

\* No two operations on one object at a time, by the clients or for lack of threads.
Apart == Serialized \/ OneThread

Opening == {"openOid", "open", "reopen", "setMode", "mode", "again"}
Listing == {"count", "evict", "unshift"}
Closing == {"delist", "close", "clearFd", "clearMode"}
Transfers == {"read", "write", "trunc"}

\* A creation that has its element, a transfer that has found it, a removal that has taken
\* it out of the hash table.
Added(t) == th[t].op = "create" /\ th[t].pc \in {"initMode", "setattr"} \cup Listing \cup Closing
Uses(t) == /\ th[t].op \in Transfers
           /\ th[t].pc \in Opening \cup Listing \cup Closing \cup {"seek", "transfer"}
Taken(t) == th[t].op = "remove" /\ th[t].pc \in {"checkClosed", "free"} \cup Closing

OnPath(t) ==
    \/ th[t].op = "create" /\ (th[t].pc \in {"access", "creat", "addOid"} \/ Added(t))
    \/ th[t].op = "remove" /\ (th[t].pc \in {"exists", "hash", "unlink", "rmattrs"} \/ Taken(t))
    \/ th[t].op \in Transfers /\ (th[t].pc \in {"exists", "find"} \/ Uses(t))

\* Where the subroutines of an operation return to.
Returns(t) ==
    /\ th[t].op = "create" => th[t].next = "setattr"
    /\ th[t].op = "trunc" => th[t].next = "transfer"
    /\ th[t].op \in {"read", "write"} => th[t].next \in {"mode", "seek"}

ReturnsFromClose(t) ==
    /\ th[t].victim \in Cells
    /\ th[t].op \in {"create", "trunc"} => th[t].back = "unshift"
    /\ th[t].op = "remove" => th[t].back = "free"
    /\ th[t].op \in {"read", "write"} => th[t].back \in {"again", "unshift"}

Working(t) ==
    /\ th[t].oid \in Oids /\ th[t].off \in Offsets
    /\ OnPath(t)
    /\ Added(t) \/ Uses(t) \/ Taken(t) => th[t].cell \in Cells
    /\ Added(t) \/ Uses(t) => Returns(t)
    /\ th[t].op = "trunc" => th[t].pc \notin {"reopen", "mode", "again", "seek"}
    /\ th[t].pc \in Closing => ReturnsFromClose(t)

PathInv(t) == th[t] = Idle \/ Working(t)

FdTyped == \A fd \in Fds : fdtab[fd].file = None => fdtab[fd] = Closed

IInv == TypeOK /\ FdTyped /\ \A t \in Threads : PathInv(t)

Element == [id : Oids \cup {None}, fd : Fds \cup {0, Bad}, mode : BOOLEAN, live : BOOLEAN]
Descriptor == [file : Oids \cup {None}, pos : Nat]
Thread == [pc : States, op : AllOps \cup {"none"}, oid : Oids \cup {None},
           off : Offsets \cup {0}, cell : Cells \cup {None}, victim : Cells \cup {None},
           next : States, back : States]

MemoryTyped ==
    /\ el \in [Cells -> Element] /\ hash \subseteq Cells /\ openList \in Seq(Cells)
    /\ fdtab \in [Fds -> Descriptor] /\ FdTyped
RestTyped ==
    /\ dir \subseteq Oids /\ attr \subseteq Oids
    /\ up \in BOOLEAN /\ segv \in BOOLEAN
    /\ io \subseteq [op : AllOps, oid : Oids, off : Offsets, file : Oids \cup {None}, pos : Nat]
    /\ started \in 0 .. MaxOps /\ crashes \in 0 .. MaxCrashes
-----------------------------------------------------------------------------
(* Types, and the paths of the threads.                                    *)

LEMMA Numbers ==
  /\ NumOids \in Nat /\ NumFds \in Nat /\ NumCells \in Nat /\ Oids \subseteq Cells
  /\ None \notin Oids /\ None \notin Cells /\ 0 \notin Fds /\ Bad \notin Fds /\ Bad # 0
  /\ None = 0 /\ MAX_OPEN_FILES \in Nat /\ MAX_OPEN_FILES > 0
  /\ MaxOps \in Nat /\ MaxCrashes \in Nat /\ Stored \subseteq Oids /\ Ops \subseteq AllOps
BY StoreAssumption DEF Oids, Cells, Fds, None, Bad

\* Every set of naturals has a least element: the first equal entry, the lowest descriptor.
LEMMA Least ==
  ASSUME NEW T \in SUBSET Nat, T # {}
  PROVE  Min(T) \in T
<1>1. PICK x \in T : \A y \in T : ~(<<y, x>> \in OpToRel(<, Nat))
  BY NatLessThanWellFounded, WFMin
<1>2. \A y \in T : x <= y
  <2> SUFFICES ASSUME NEW y \in T, y < x PROVE FALSE
    OBVIOUS
  <2>1. <<y, x>> \in OpToRel(<, Nat)
    BY DEF OpToRel
  <2> QED BY <1>1, <2>1
<1> QED BY <1>2 DEF Min

LEMMA MinFree ==
  ASSUME FreeFds # {}
  PROVE  Min(FreeFds) \in FreeFds /\ Min(FreeFds) \in Fds
<1>1. FreeFds \in SUBSET Nat
  BY DEF FreeFds, Fds
<1> QED BY <1>1, Least DEF FreeFds

\* An entry less.
LEMMA RemoveAtTyped ==
  ASSUME NEW S, NEW s \in Seq(S), NEW i \in DOMAIN s
  PROVE  /\ RemoveAt(s, i) \in Seq(S) /\ Len(RemoveAt(s, i)) = Len(s) - 1
         /\ \A j \in DOMAIN RemoveAt(s, i) : RemoveAt(s, i)[j] = s[IF j < i THEN j ELSE j + 1]
<1> DEFINE a == SubSeq(s, 1, i - 1)
           b == SubSeq(s, i + 1, Len(s))
<1>1. Len(s) \in Nat /\ i \in 1 .. Len(s) /\ \A j \in 1 .. Len(s) : s[j] \in S
  BY ElementOfSeq
<1>2. a \in Seq(S) /\ Len(a) = i - 1 /\ \A j \in 1 .. Len(a) : a[j] = s[j]
  BY <1>1, SubSeqProperties
<1>3. b \in Seq(S) /\ Len(b) = Len(s) - i /\ \A j \in 1 .. Len(b) : b[j] = s[j + i]
  BY <1>1, SubSeqProperties
<1> HIDE DEF a, b
<1>4. Len(a) = i - 1 /\ Len(b) = Len(s) - i /\ Len(s) \in Nat /\ i \in 1 .. Len(s)
  BY <1>1, <1>2, <1>3
<1>5. PICK r : r = a \o b
  OBVIOUS
<1>6. /\ r \in Seq(S) /\ Len(r) = Len(a) + Len(b)
      /\ \A j \in 1 .. Len(a) + Len(b) : r[j] = IF j <= Len(a) THEN a[j] ELSE b[j - Len(a)]
  BY <1>2, <1>3, <1>5, ConcatProperties
<1>7. Len(r) = Len(s) - 1 /\ DOMAIN r = 1 .. Len(s) - 1
  <2>1. Len(r) = Len(s) - 1
    BY <1>6, <1>4
  <2> QED BY <1>6, <2>1, LenProperties
<1>8. ASSUME NEW j \in 1 .. Len(s) - 1
      PROVE  r[j] = s[IF j < i THEN j ELSE j + 1]
  <2>1. CASE j < i
    <3>1. j \in 1 .. Len(a) + Len(b) /\ j <= Len(a) /\ j \in 1 .. Len(a)
      BY <1>4, <2>1
    <3>2. r[j] = a[j] /\ a[j] = s[j]
      BY <1>2, <1>6, <3>1
    <3> QED BY <2>1, <3>2
  <2>2. CASE ~(j < i)
    <3>1. /\ j \in 1 .. Len(a) + Len(b) /\ ~(j <= Len(a))
          /\ j - Len(a) \in 1 .. Len(b) /\ j - Len(a) + i = j + 1
      BY <1>4, <2>2
    <3>2. r[j] = b[j - Len(a)]
      BY <1>6, <3>1
    <3>3. b[j - Len(a)] = s[j + 1]
      BY <1>3, <3>1
    <3> QED BY <2>2, <3>2, <3>3
  <2> QED BY <2>1, <2>2
<1>9. RemoveAt(s, i) = r
  BY <1>5 DEF RemoveAt, a, b
<1>10. \A j \in DOMAIN r : r[j] = s[IF j < i THEN j ELSE j + 1]
  BY <1>7, <1>8
<1>11. r \in Seq(S) /\ Len(r) = Len(s) - 1
  BY <1>6, <1>7
<1> HIDE DEF RemoveAt
<1> QED BY <1>9, <1>10, <1>11

LEMMA TypesAre == TypeOK /\ FdTyped <=> MemoryTyped /\ RestTyped /\ th \in [Threads -> Thread]
BY DEF TypeOK, MemoryTyped, RestTyped, Element, Descriptor, Thread

\* A step of one thread: where it goes, with which cells.
Moves(t, pc, cell, victim, next, back) ==
    /\ th' \in [Threads -> Thread]
    /\ th'[t].pc = pc /\ th'[t].op = th[t].op /\ th'[t].oid = th[t].oid
    /\ th'[t].off = th[t].off /\ th'[t].cell = cell /\ th'[t].victim = victim
    /\ th'[t].next = next /\ th'[t].back = back
    /\ \A u \in Threads \ {t} : th'[u] = th[u]

Advances(t, pc) == Moves(t, pc, th[t].cell, th[t].victim, th[t].next, th[t].back)

LEMMA GotoAdvances ==
  ASSUME th \in [Threads -> Thread], NEW t \in Threads, NEW pc \in States, Goto(t, pc)
  PROVE  Advances(t, pc)
BY DEF Goto, Advances, Moves, Thread

\* A thread turns to the closing of a file.
LEMMA DelistMoves ==
  ASSUME th \in [Threads -> Thread], NEW t \in Threads, NEW c \in Cells, NEW b \in States,
         th' = [th EXCEPT ![t].pc = "delist", ![t].victim = c, ![t].back = b]
  PROVE  Moves(t, "delist", th[t].cell, c, th[t].next, b)
<1>1. PICK r : r = [th[t] EXCEPT !.pc = "delist", !.victim = c, !.back = b]
  OBVIOUS
<1>2. th[t] \in Thread
  OBVIOUS
<1>3. /\ r \in Thread
      /\ r.pc = "delist" /\ r.op = th[t].op /\ r.oid = th[t].oid /\ r.off = th[t].off
      /\ r.cell = th[t].cell /\ r.victim = c /\ r.next = th[t].next /\ r.back = b
  <2>1. /\ r.pc = "delist" /\ r.op = th[t].op /\ r.oid = th[t].oid /\ r.off = th[t].off
        /\ r.cell = th[t].cell /\ r.victim = c /\ r.next = th[t].next /\ r.back = b
    BY <1>1, <1>2 DEF Thread
  <2>2. "delist" \in States
    BY DEF States
  <2>3. r \in Thread
    BY <1>1, <1>2, <2>2 DEF Thread
  <2> QED BY <2>1, <2>3
<1>4. PICK new : new = [th EXCEPT ![t] = r]
  OBVIOUS
<1>5. r \in Thread /\ new[t] = r /\ \A u \in Threads \ {t} : new[u] = th[u]
  BY <1>3, <1>4
<1>6. new \in [Threads -> Thread]
  BY <1>4, <1>5
<1>7. th' = new
  BY <1>1, <1>4
<1> QED BY <1>3, <1>5, <1>6, <1>7 DEF Moves

\* The mode of an element is written, and nothing else of it.
LEMMA ModeWritten ==
  ASSUME el \in [Cells -> Element], NEW c \in Cells, NEW m \in BOOLEAN,
         el' = [el EXCEPT ![c].mode = m]
  PROVE  /\ el' \in [Cells -> Element]
         /\ \A d \in Cells : el'[d].live = el[d].live /\ el'[d].fd = el[d].fd
<1>1. PICK e : e = [el[c] EXCEPT !.mode = m]
  OBVIOUS
<1>2. el[c] \in Element
  OBVIOUS
<1>3. e \in Element /\ e.live = el[c].live /\ e.fd = el[c].fd
  BY <1>1, <1>2 DEF Element
<1>4. el' = [el EXCEPT ![c] = e]
  BY <1>1
<1> QED BY <1>3, <1>4

LEMMA IdleIs == Idle \in Thread /\ Idle.pc = "idle" /\ Idle.oid = None /\ Idle.op = "none"
BY DEF Idle, Thread, States

LEMMA ReturnIs ==
  ASSUME th \in [Threads -> Thread], NEW t \in Threads, Return(t)
  PROVE  /\ th' \in [Threads -> Thread] /\ th'[t] = Idle
         /\ \A u \in Threads \ {t} : th'[u] = th[u]
BY IdleIs DEF Return

\* Only the thread that steps can leave its path.
LEMMA Frame ==
  ASSUME IInv, NEW t \in Threads, MemoryTyped', RestTyped', th' \in [Threads -> Thread],
         PathInv(t)', \A u \in Threads \ {t} : th'[u] = th[u]
  PROVE  IInv'
<1>1. TypeOK' /\ FdTyped'
  BY DEF TypeOK, MemoryTyped, RestTyped, Element, Descriptor, Thread
<1>2. ASSUME NEW u \in Threads PROVE PathInv(u)'
  <2>1. CASE u = t
    BY <2>1
  <2>2. CASE u # t
    BY <2>2 DEF IInv, PathInv, Working, OnPath, Added, Uses, Taken, Returns, ReturnsFromClose
  <2> QED BY <2>1, <2>2
<1> QED BY <1>1, <1>2 DEF IInv

LEMMA ReturnTypes ==
  ASSUME IInv, NEW t \in Threads, MemoryTyped', RestTyped', Return(t)
  PROVE  IInv'
<1>1. th \in [Threads -> Thread]
  BY TypesAre DEF IInv
<1>2. /\ th' \in [Threads -> Thread] /\ th'[t] = Idle
      /\ \A u \in Threads \ {t} : th'[u] = th[u]
  BY <1>1, ReturnIs
<1>3. PathInv(t)'
  BY <1>2 DEF PathInv
<1> QED BY <1>2, <1>3, Frame

Ready(t) ==
    /\ MemoryTyped /\ RestTyped /\ th \in [Threads -> Thread]
    /\ Working(t) /\ th[t].pc # "idle" /\ th[t].oid # None /\ th[t].op \in AllOps
    /\ th[t] \in Thread
    /\ th[t].cell \in Cells \cup {None} /\ th[t].victim \in Cells \cup {None}

LEMMA AtWork ==
  ASSUME IInv, NEW t \in Threads, th[t].pc # "idle"
  PROVE  Ready(t)
<1>1. MemoryTyped /\ RestTyped /\ th \in [Threads -> Thread]
  BY TypesAre, Zenon DEF IInv
<1>2. Working(t)
  BY IdleIs DEF IInv, PathInv
<1>3. th[t].oid # None
  BY <1>2, Numbers DEF Working
<1>4. th[t].op \in AllOps
  BY <1>2 DEF Working, OnPath, Added, Uses, Taken, Transfers, AllOps
<1>5. th[t] \in Thread
  BY <1>1
<1>6. th[t].cell \in Cells \cup {None} /\ th[t].victim \in Cells \cup {None}
  BY <1>5 DEF Thread
<1> QED BY <1>1, <1>2, <1>3, <1>4, <1>5, <1>6, Zenon DEF Ready

LEMMA Unmoved ==
  /\ MemoryTyped /\ UNCHANGED memory => MemoryTyped'
  /\ RestTyped /\ UNCHANGED <<disk, io, world>> => RestTyped'
BY DEF MemoryTyped, RestTyped, FdTyped, memory, disk, world

\* The end of the process.
LEMMA DownTypes ==
  ASSUME IInv, Down, RestTyped'
  PROVE  IInv'
<1>1. MemoryTyped'
  <2>1. Free(0) \in Element /\ Closed \in Descriptor /\ Closed.file = None
    BY DEF Free, Element, Closed, Descriptor
  <2> QED BY <2>1 DEF Down, MemoryTyped, FdTyped
<1>2. th' \in [Threads -> Thread] /\ \A t \in Threads : th'[t] = Idle
  BY IdleIs DEF Down
<1>3. \A t \in Threads : PathInv(t)'
  BY <1>2 DEF PathInv
<1>4. TypeOK' /\ FdTyped'
  BY <1>1, <1>2 DEF TypeOK, MemoryTyped, RestTyped, Element, Descriptor, Thread
<1> QED BY <1>3, <1>4 DEF IInv

LEMMA SegfaultTypes ==
  ASSUME IInv, Segfault
  PROVE  IInv'
<1>1. RestTyped
  BY TypesAre DEF IInv
<1>2. RestTyped'
  BY <1>1 DEF RestTyped, Segfault, Down, disk
<1> QED BY <1>2, DownTypes DEF Segfault

LEMMA CrashTypes ==
  ASSUME IInv, Crash
  PROVE  IInv'
<1>1. RestTyped
  BY TypesAre DEF IInv
<1>2. RestTyped'
  <2>1. crashes' \in 0 .. MaxCrashes
    BY <1>1, Numbers DEF RestTyped, Crash
  <2> QED BY <1>1, <2>1 DEF RestTyped, Crash, Down, disk
<1> QED BY <1>2, DownTypes DEF Crash

LEMMA RestartTypes ==
  ASSUME IInv, Restart
  PROVE  IInv'
<1>1. MemoryTyped /\ RestTyped /\ th \in [Threads -> Thread] /\ UNCHANGED th
  BY TypesAre DEF IInv, Restart
<1>2. RestTyped'
  BY <1>1 DEF RestTyped, Restart, disk
<1>3. MemoryTyped'
  <2>1. \A c \in dir : c \in Oids /\ c \in Cells
    BY <1>1, Numbers DEF RestTyped
  <2>2. Free(0) \in Element /\ \A c \in dir : Fresh(c) \in Element
    BY <2>1 DEF Free, Fresh, Element
  <2>3. el' \in [Cells -> Element]
    BY <2>2 DEF Restart, Loaded
  <2> QED BY <1>1, <2>1, <2>3 DEF Restart, Loaded, MemoryTyped, FdTyped
<1>4. TypeOK' /\ FdTyped'
  BY <1>1, <1>2, <1>3 DEF TypeOK, MemoryTyped, RestTyped, Element, Descriptor, Thread
<1>5. \A t \in Threads : PathInv(t)'
  BY <1>1 DEF IInv, PathInv, Working, OnPath, Added, Uses, Taken, Returns, ReturnsFromClose
<1> QED BY <1>4, <1>5 DEF IInv

LEMMA StartTypes ==
  ASSUME IInv, NEW t \in Threads, NEW op \in Ops, NEW o \in Oids, NEW off \in Offsets,
         Start(t, op, o, off)
  PROVE  IInv'
<1>1. MemoryTyped /\ RestTyped /\ th \in [Threads -> Thread]
  BY TypesAre DEF IInv
<1>2. MemoryTyped' /\ RestTyped'
  BY <1>1, Numbers DEF Start, MemoryTyped, RestTyped, FdTyped, memory, disk
<1>3. op \in AllOps
  BY Numbers
<1> DEFINE r == [Idle EXCEPT !.pc = IF op = "create" THEN "access" ELSE "exists",
                             !.op = op, !.oid = o, !.off = off]
<1>4. /\ r \in Thread /\ r.pc = (IF op = "create" THEN "access" ELSE "exists")
      /\ r.op = op /\ r.oid = o /\ r.off = off
  BY <1>3 DEF Idle, Thread, States, AllOps
<1>5. th' = [th EXCEPT ![t] = r]
  BY DEF Start
<1> HIDE DEF r
<1>6. th' \in [Threads -> Thread] /\ th'[t] = r /\ \A u \in Threads \ {t} : th'[u] = th[u]
  BY <1>1, <1>4, <1>5
<1>7. Working(t)'
  BY <1>3, <1>4, <1>6 DEF Working, OnPath, Added, Uses, Taken, Returns, ReturnsFromClose,
     Opening, Listing, Closing,
     Transfers, States, AllOps
<1> QED BY <1>2, <1>6, <1>7, Frame DEF PathInv

LEMMA ExistsTypes ==
  ASSUME IInv, NEW t \in Threads, Exists(t)
  PROVE  IInv'
<1>1. Ready(t)
  <2>1. th[t].pc # "idle"
    BY DEF Exists, At
  <2> QED BY <2>1, AtWork
<1>2. MemoryTyped'
  BY <1>1, Unmoved DEF Exists, Ready
<1>3. RestTyped'
  BY <1>1, Unmoved DEF Exists, Ready
<1>4. CASE Found(th[t].oid) = {}
  <2>1. Return(t)
    BY <1>4 DEF Exists
  <2> QED BY <1>2, <1>3, <2>1, ReturnTypes
<1>5. CASE Found(th[t].oid) # {}
  <2>1. /\ Goto(t, (IF th[t].op = "remove" THEN "hash" ELSE "find"))
        /\ (IF th[t].op = "remove" THEN "hash" ELSE "find") \in States
    BY <1>1, <1>5 DEF Exists, Ready, States
  <2>2. Advances(t, (IF th[t].op = "remove" THEN "hash" ELSE "find"))
    BY <1>1, <2>1, GotoAdvances DEF Ready
  <2>3. Working(t)'
    BY <1>1, <2>2, <1>5 DEF Exists, Ready, Advances, Moves, At,
       Working, OnPath, Added, Uses, Taken, Returns, ReturnsFromClose, Opening, Listing, Closing,
       Transfers, States
  <2> QED BY <1>2, <1>3, <2>2, <2>3, Frame DEF Advances, Moves, PathInv
<1> QED BY <1>4, <1>5 DEF Exists

LEMMA AccessTypes ==
  ASSUME IInv, NEW t \in Threads, Access(t)
  PROVE  IInv'
<1>1. Ready(t)
  <2>1. th[t].pc # "idle"
    BY DEF Access, At
  <2> QED BY <2>1, AtWork
<1>2. MemoryTyped'
  BY <1>1, Unmoved DEF Access, Ready
<1>3. RestTyped'
  BY <1>1, Unmoved DEF Access, Ready
<1>4. CASE th[t].oid \in dir
  <2>1. Return(t)
    BY <1>4 DEF Access
  <2> QED BY <1>2, <1>3, <2>1, ReturnTypes
<1>5. CASE th[t].oid \notin dir
  <2>1. Goto(t, "creat") /\ "creat" \in States
    BY <1>1, <1>5 DEF Access, Ready, States
  <2>2. Advances(t, "creat")
    BY <1>1, <2>1, GotoAdvances DEF Ready
  <2>3. Working(t)'
    BY <1>1, <2>2, <1>5 DEF Access, Ready, Advances, Moves, At,
       Working, OnPath, Added, Uses, Taken, Returns, ReturnsFromClose, Opening, Listing, Closing,
       Transfers, States
  <2> QED BY <1>2, <1>3, <2>2, <2>3, Frame DEF Advances, Moves, PathInv
<1> QED BY <1>4, <1>5 DEF Access

LEMMA CreatTypes ==
  ASSUME IInv, NEW t \in Threads, Creat(t)
  PROVE  IInv'
<1>1. Ready(t)
  <2>1. th[t].pc # "idle"
    BY DEF Creat, At
  <2> QED BY <2>1, AtWork
<1>2. MemoryTyped'
  BY <1>1, Unmoved DEF Creat, Ready
<1>3. RestTyped'
  BY <1>1 DEF Creat, Ready, RestTyped, Working, world
<1>4. CASE FreeFds = {}
  <2>1. Return(t)
    BY <1>4 DEF Creat
  <2> QED BY <1>2, <1>3, <2>1, ReturnTypes
<1>5. CASE FreeFds # {}
  <2>1. Goto(t, "addOid") /\ "addOid" \in States
    BY <1>1, <1>5 DEF Creat, Ready, States
  <2>2. Advances(t, "addOid")
    BY <1>1, <2>1, GotoAdvances DEF Ready
  <2>3. Working(t)'
    BY <1>1, <2>2, <1>5 DEF Creat, Ready, Advances, Moves, At,
       Working, OnPath, Added, Uses, Taken, Returns, ReturnsFromClose, Opening, Listing, Closing,
       Transfers, States
  <2> QED BY <1>2, <1>3, <2>2, <2>3, Frame DEF Advances, Moves, PathInv
<1> QED BY <1>4, <1>5 DEF Creat

LEMMA SetAttrTypes ==
  ASSUME IInv, NEW t \in Threads, SetAttr(t)
  PROVE  IInv'
<1>1. Ready(t)
  <2>1. th[t].pc # "idle"
    BY DEF SetAttr, At
  <2> QED BY <2>1, AtWork
<1>2. MemoryTyped'
  BY <1>1, Unmoved DEF SetAttr, Ready
<1>3. RestTyped'
  BY <1>1 DEF SetAttr, Ready, RestTyped, Working, world
<1>4. CASE TRUE
  <2>1. Return(t)
    BY <1>4 DEF SetAttr
  <2> QED BY <1>2, <1>3, <2>1, ReturnTypes
<1> QED BY <1>4 DEF SetAttr

LEMMA CheckFdTypes ==
  ASSUME IInv, NEW t \in Threads, CheckFd(t)
  PROVE  IInv'
<1>1. Ready(t)
  <2>1. th[t].pc # "idle"
    BY DEF CheckFd, At
  <2> QED BY <2>1, AtWork
<1>2. MemoryTyped'
  BY <1>1, Unmoved DEF CheckFd, Ready
<1>3. RestTyped'
  BY <1>1, Unmoved DEF CheckFd, Ready
<1>4. CASE el[th[t].cell].fd = 0
  <2>1. Goto(t, "open") /\ "open" \in States
    BY <1>1, <1>4 DEF CheckFd, Ready, States
  <2>2. Advances(t, "open")
    BY <1>1, <2>1, GotoAdvances DEF Ready
  <2>3. Working(t)'
    BY <1>1, <2>2, <1>4 DEF CheckFd, Ready, Advances, Moves, At,
       Working, OnPath, Added, Uses, Taken, Returns, ReturnsFromClose, Opening, Listing, Closing,
       Transfers, States
  <2> QED BY <1>2, <1>3, <2>2, <2>3, Frame DEF Advances, Moves, PathInv
<1>5. CASE el[th[t].cell].fd # 0
  <2>1. Goto(t, th[t].next) /\ th[t].next \in States
    BY <1>1, <1>5 DEF CheckFd, Ready, States, Working, OnPath, Uses, Added, Taken, Opening,
       Listing, Closing, Transfers, Returns, At
  <2>2. Advances(t, th[t].next)
    BY <1>1, <2>1, GotoAdvances DEF Ready
  <2>3. Working(t)'
    BY <1>1, <2>2, <1>5 DEF CheckFd, Ready, Advances, Moves, At,
       Working, OnPath, Added, Uses, Taken, Returns, ReturnsFromClose, Opening, Listing, Closing,
       Transfers, States
  <2> QED BY <1>2, <1>3, <2>2, <2>3, Frame DEF Advances, Moves, PathInv
<1> QED BY <1>4, <1>5 DEF CheckFd

LEMMA CheckAgainTypes ==
  ASSUME IInv, NEW t \in Threads, CheckAgain(t)
  PROVE  IInv'
<1>1. Ready(t)
  <2>1. th[t].pc # "idle"
    BY DEF CheckAgain, At
  <2> QED BY <2>1, AtWork
<1>2. MemoryTyped'
  BY <1>1, Unmoved DEF CheckAgain, Ready
<1>3. RestTyped'
  BY <1>1, Unmoved DEF CheckAgain, Ready
<1>4. CASE el[th[t].cell].fd = 0
  <2>1. Moves(t, "reopen", th[t].cell, th[t].victim, "seek", th[t].back)
    BY <1>1, <1>4 DEF CheckAgain, Ready, Moves, Thread, States
  <2>2. Working(t)'
    BY <1>1, <2>1, <1>4 DEF CheckAgain, Ready, Moves, At,
       Working, OnPath, Added, Uses, Taken, Returns, ReturnsFromClose, Opening, Listing, Closing,
       Transfers, States
  <2> QED BY <1>2, <1>3, <2>1, <2>2, Frame DEF Moves, PathInv
<1>5. CASE el[th[t].cell].fd # 0
  <2>1. Goto(t, "seek") /\ "seek" \in States
    BY <1>1, <1>5 DEF CheckAgain, Ready, States
  <2>2. Advances(t, "seek")
    BY <1>1, <2>1, GotoAdvances DEF Ready
  <2>3. Working(t)'
    BY <1>1, <2>2, <1>5 DEF CheckAgain, Ready, Advances, Moves, At,
       Working, OnPath, Added, Uses, Taken, Returns, ReturnsFromClose, Opening, Listing, Closing,
       Transfers, States
  <2> QED BY <1>2, <1>3, <2>2, <2>3, Frame DEF Advances, Moves, PathInv
<1> QED BY <1>4, <1>5 DEF CheckAgain

LEMMA CheckModeTypes ==
  ASSUME IInv, NEW t \in Threads, CheckMode(t)
  PROVE  IInv'
<1>1. Ready(t)
  <2>1. th[t].pc # "idle"
    BY DEF CheckMode, At
  <2> QED BY <2>1, AtWork
<1>2. MemoryTyped'
  BY <1>1, Unmoved DEF CheckMode, Ready
<1>3. RestTyped'
  BY <1>1, Unmoved DEF CheckMode, Ready
<1>4. CASE el[th[t].cell].fd # 0 /\ ~el[th[t].cell].mode
  <2>1. Moves(t, "delist", th[t].cell, th[t].cell, th[t].next, "again")
    <3>1. th[t].cell \in Cells
      BY <1>1 DEF CheckMode, At, Ready, Working, OnPath, Added, Uses, Taken, Opening, Listing, Closing
    <3>2. th' = [th EXCEPT ![t].pc = "delist", ![t].victim = th[t].cell, ![t].back = "again"]
      BY <1>4 DEF CheckMode
    <3>3. th \in [Threads -> Thread] /\ "again" \in States
      BY <1>1 DEF Ready, States
    <3> QED BY <3>1, <3>2, <3>3, DelistMoves
  <2>2. Working(t)'
    BY <1>1, <2>1, <1>4 DEF CheckMode, Ready, Moves, At,
       Working, OnPath, Added, Uses, Taken, Returns, ReturnsFromClose, Opening, Listing, Closing,
       Transfers, States
  <2> QED BY <1>2, <1>3, <2>1, <2>2, Frame DEF Moves, PathInv
<1>5. CASE ~(el[th[t].cell].fd # 0 /\ ~el[th[t].cell].mode)
  <2>1. Goto(t, "again") /\ "again" \in States
    BY <1>1, <1>5 DEF CheckMode, Ready, States
  <2>2. Advances(t, "again")
    BY <1>1, <2>1, GotoAdvances DEF Ready
  <2>3. Working(t)'
    BY <1>1, <2>2, <1>5 DEF CheckMode, Ready, Advances, Moves, At,
       Working, OnPath, Added, Uses, Taken, Returns, ReturnsFromClose, Opening, Listing, Closing,
       Transfers, States
  <2> QED BY <1>2, <1>3, <2>2, <2>3, Frame DEF Advances, Moves, PathInv
<1> QED BY <1>4, <1>5 DEF CheckMode

LEMMA CheckClosedTypes ==
  ASSUME IInv, NEW t \in Threads, CheckClosed(t)
  PROVE  IInv'
<1>1. Ready(t)
  <2>1. th[t].pc # "idle"
    BY DEF CheckClosed, At
  <2> QED BY <2>1, AtWork
<1>2. MemoryTyped'
  BY <1>1, Unmoved DEF CheckClosed, Ready
<1>3. RestTyped'
  BY <1>1, Unmoved DEF CheckClosed, Ready
<1>4. CASE el[th[t].cell].fd # 0
  <2>1. Moves(t, "delist", th[t].cell, th[t].cell, th[t].next, "free")
    <3>1. th[t].cell \in Cells
      BY <1>1 DEF CheckClosed, At, Ready, Working, OnPath, Added, Uses, Taken, Opening, Listing, Closing
    <3>2. th' = [th EXCEPT ![t].pc = "delist", ![t].victim = th[t].cell, ![t].back = "free"]
      BY <1>4 DEF CheckClosed
    <3>3. th \in [Threads -> Thread] /\ "free" \in States
      BY <1>1 DEF Ready, States
    <3> QED BY <3>1, <3>2, <3>3, DelistMoves
  <2>2. Working(t)'
    BY <1>1, <2>1, <1>4 DEF CheckClosed, Ready, Moves, At,
       Working, OnPath, Added, Uses, Taken, Returns, ReturnsFromClose, Opening, Listing, Closing,
       Transfers, States
  <2> QED BY <1>2, <1>3, <2>1, <2>2, Frame DEF Moves, PathInv
<1>5. CASE el[th[t].cell].fd = 0
  <2>1. Goto(t, "free") /\ "free" \in States
    BY <1>1, <1>5 DEF CheckClosed, Ready, States, Goto
  <2>2. Advances(t, "free")
    BY <1>1, <2>1, GotoAdvances DEF Ready
  <2>3. Working(t)'
    BY <1>1, <2>2, <1>5 DEF CheckClosed, Ready, Advances, Moves, At,
       Working, OnPath, Added, Uses, Taken, Returns, ReturnsFromClose, Opening, Listing, Closing,
       Transfers, States
  <2> QED BY <1>2, <1>3, <2>2, <2>3, Frame DEF Advances, Moves, PathInv
<1> QED BY <1>4, <1>5 DEF CheckClosed

LEMMA CountOpenTypes ==
  ASSUME IInv, NEW t \in Threads, CountOpen(t)
  PROVE  IInv'
<1>1. Ready(t)
  <2>1. th[t].pc # "idle"
    BY DEF CountOpen, At
  <2> QED BY <2>1, AtWork
<1>2. MemoryTyped'
  BY <1>1, Unmoved DEF CountOpen, Ready
<1>3. RestTyped'
  BY <1>1, Unmoved DEF CountOpen, Ready
<1>4. CASE Len(openList) < MAX_OPEN_FILES
  <2>1. Goto(t, "unshift") /\ "unshift" \in States
    BY <1>1, <1>4 DEF CountOpen, Ready, States
  <2>2. Advances(t, "unshift")
    BY <1>1, <2>1, GotoAdvances DEF Ready
  <2>3. Working(t)'
    BY <1>1, <2>2, <1>4 DEF CountOpen, Ready, Advances, Moves, At,
       Working, OnPath, Added, Uses, Taken, Returns, ReturnsFromClose, Opening, Listing, Closing,
       Transfers, States
  <2> QED BY <1>2, <1>3, <2>2, <2>3, Frame DEF Advances, Moves, PathInv
<1>5. CASE Len(openList) = MAX_OPEN_FILES
  <2>1. Goto(t, "evict") /\ "evict" \in States
    BY <1>1, <1>5 DEF CountOpen, Ready, States
  <2>2. Advances(t, "evict")
    BY <1>1, <2>1, GotoAdvances DEF Ready
  <2>3. Working(t)'
    BY <1>1, <2>2, <1>5 DEF CountOpen, Ready, Advances, Moves, At,
       Working, OnPath, Added, Uses, Taken, Returns, ReturnsFromClose, Opening, Listing, Closing,
       Transfers, States
  <2> QED BY <1>2, <1>3, <2>2, <2>3, Frame DEF Advances, Moves, PathInv
<1>6. CASE ~(Len(openList) < MAX_OPEN_FILES) /\ Len(openList) # MAX_OPEN_FILES
  <2>1. Goto(t, th[t].next) /\ th[t].next \in States
    BY <1>1, <1>6 DEF CountOpen, Ready, States, Working, OnPath, Uses, Added, Taken, Opening,
       Listing, Closing, Transfers, Returns, At
  <2>2. Advances(t, th[t].next)
    BY <1>1, <2>1, GotoAdvances DEF Ready
  <2>3. Working(t)'
    BY <1>1, <2>2, <1>6 DEF CountOpen, Ready, Advances, Moves, At,
       Working, OnPath, Added, Uses, Taken, Returns, ReturnsFromClose, Opening, Listing, Closing,
       Transfers, States
  <2> QED BY <1>2, <1>3, <2>2, <2>3, Frame DEF Advances, Moves, PathInv
<1> QED BY <1>4, <1>5, <1>6 DEF CountOpen

\* A step that moves its thread along its path.
LEMMA MovesTypes ==
  ASSUME IInv, NEW t \in Threads, MemoryTyped', RestTyped', NEW pc, NEW c, NEW v, NEW n, NEW b,
         Moves(t, pc, c, v, n, b), Working(t)'
  PROVE  IInv'
BY Frame, Zenon DEF Moves, PathInv

\* Writes to an element.
LEMMA ElementWritten ==
  ASSUME MemoryTyped, NEW c \in Cells, UNCHANGED <<hash, openList>>,
         fdtab' \in [Fds -> Descriptor], FdTyped',
         \/ \E fd \in Fds \cup {0, Bad} : el' = [el EXCEPT ![c].fd = fd]
         \/ \E fd \in Fds \cup {0, Bad} : el' = [el EXCEPT ![c] = Free(fd)]
         \/ \E m \in BOOLEAN : el' = [el EXCEPT ![c].mode = m]
  PROVE  MemoryTyped'
<1>1. el \in [Cells -> Element]
  BY DEF MemoryTyped
<1>2. CASE \E fd \in Fds \cup {0, Bad} : el' = [el EXCEPT ![c].fd = fd]
  <2>1. el' \in [Cells -> Element]
    BY <1>1, <1>2 DEF Element
  <2> QED BY <2>1 DEF MemoryTyped
<1>3. CASE \E fd \in Fds \cup {0, Bad} : el' = [el EXCEPT ![c] = Free(fd)]
  <2>1. el' \in [Cells -> Element]
    BY <1>1, <1>3 DEF Element, Free
  <2> QED BY <2>1 DEF MemoryTyped
<1>4. CASE \E m \in BOOLEAN : el' = [el EXCEPT ![c].mode = m]
  <2>1. el' \in [Cells -> Element]
    BY <1>1, <1>4 DEF Element
  <2> QED BY <2>1 DEF MemoryTyped
<1> QED BY <1>2, <1>3, <1>4

LEMMA AddOidTypes ==
  ASSUME IInv, NEW t \in Threads, AddOid(t)
  PROVE  IInv'
<1>1. Ready(t)
  <2>1. th[t].pc # "idle"
    BY DEF AddOid, At
  <2> QED BY <2>1, AtWork
<1>2. PICK c \in Cells :
        /\ el' = [el EXCEPT ![c] = Fresh(th[t].oid)] /\ hash' = hash \cup {c}
        /\ th' = [th EXCEPT ![t].pc = "initMode", ![t].cell = c, ![t].next = "setattr"]
  BY DEF AddOid
<1>3. MemoryTyped'
  <2>1. Fresh(th[t].oid) \in Element
    BY <1>1 DEF Ready, Working, Fresh, Element
  <2> QED BY <1>1, <1>2, <2>1 DEF AddOid, Ready, MemoryTyped, FdTyped
<1>4. RestTyped'
  BY <1>1, Unmoved DEF AddOid, Ready
<1>5. Moves(t, "initMode", c, th[t].victim, "setattr", th[t].back)
  BY <1>1, <1>2 DEF Ready, Moves, Thread, States
<1>6. Working(t)'
  BY <1>1, <1>5 DEF AddOid, Ready, Moves, At, Working, OnPath, Added, Uses, Taken,
     Returns, ReturnsFromClose, Opening, Listing, Closing, Transfers, States
<1> QED BY <1>3, <1>4, <1>5, <1>6, MovesTypes

LEMMA FindOidTypes ==
  ASSUME IInv, NEW t \in Threads, FindOid(t)
  PROVE  IInv'
<1>1. Ready(t)
  <2>1. th[t].pc # "idle"
    BY DEF FindOid, At
  <2> QED BY <2>1, AtWork
<1>2. CASE Found(th[t].oid) = {} /\ OpenOidFails(t)
  <2>1. CASE Segfault
    BY <2>1, SegfaultTypes
  <2>2. CASE Return(t) /\ UNCHANGED <<memory, disk, io, world>>
    <3>1. MemoryTyped' /\ RestTyped'
      BY <1>1, <2>2, Unmoved DEF Ready
    <3> QED BY <2>2, <3>1, ReturnTypes
  <2> QED BY <1>2, <2>1, <2>2 DEF OpenOidFails
<1>3. CASE \E c \in Found(th[t].oid) :
             /\ th' = [th EXCEPT ![t].pc = "openOid", ![t].cell = c,
                                 ![t].next = IF UsesMode(t) THEN "mode" ELSE "transfer"]
             /\ UNCHANGED <<memory, disk, io, world>>
  <2>1. MemoryTyped' /\ RestTyped'
    BY <1>1, <1>3, Unmoved DEF Ready
  <2>2. PICK c \in Cells : th' = [th EXCEPT ![t].pc = "openOid", ![t].cell = c,
                                  ![t].next = IF UsesMode(t) THEN "mode" ELSE "transfer"]
    BY <1>1, <1>3 DEF Found, Ready, MemoryTyped
  <2> DEFINE n == IF UsesMode(t) THEN "mode" ELSE "transfer"
  <2>3. Moves(t, "openOid", c, th[t].victim, n, th[t].back)
    BY <1>1, <2>2 DEF Ready, Moves, Thread, States
  <2>4. Working(t)'
    BY <1>1, <2>3 DEF FindOid, UsesMode, Ready, Moves, At, Working, OnPath, Added, Uses, Taken,
       Returns, ReturnsFromClose, Opening, Listing, Closing, Transfers, States
  <2> QED BY <2>1, <2>3, <2>4, MovesTypes
<1> QED BY <1>2, <1>3 DEF FindOid

LEMMA OpenFileTypes ==
  ASSUME IInv, NEW t \in Threads, OpenFile(t)
  PROVE  IInv'
<1>1. Ready(t) /\ th[t].cell \in Cells
  <2>1. th[t].pc # "idle"
    BY DEF OpenFile, At
  <2>2. Ready(t)
    BY <2>1, AtWork
  <2> QED BY <2>2 DEF OpenFile, At, Ready, Working, OnPath, Added, Uses, Taken, Opening, Listing,
          Closing
<1>2. PICK name \in Oids, fd \in Fds :
        /\ fdtab' = [fdtab EXCEPT ![fd] = [file |-> name, pos |-> 0]]
        /\ el' = [el EXCEPT ![th[t].cell].fd = fd]
  <2>1. PICK name : name = IF At(t, "reopen") /\ th[t].op = "write" THEN el[th[t].cell].id
                           ELSE th[t].oid
    OBVIOUS
  <2>2. name \in Oids
    BY <1>1, <2>1 DEF OpenFile, Ready, RestTyped
  <2>3. Min(FreeFds) \in Fds
    BY MinFree DEF OpenFile
  <2> QED BY <2>1, <2>2, <2>3 DEF OpenFile
<1>3. MemoryTyped'
  <2>1. [file |-> name, pos |-> 0] \in Descriptor /\ name # None
    BY Numbers DEF Descriptor
  <2>2. fdtab' \in [Fds -> Descriptor] /\ FdTyped'
    BY <1>1, <1>2, <2>1 DEF Ready, MemoryTyped, FdTyped
  <2> QED BY <1>1, <1>2, <2>2, ElementWritten DEF OpenFile, Ready
<1>4. RestTyped'
  BY <1>1, Unmoved DEF OpenFile, Ready
<1>5. Advances(t, "setMode")
  BY <1>1, GotoAdvances DEF OpenFile, Ready, States
<1>6. Working(t)'
  BY <1>1, <1>5 DEF OpenFile, Ready, Advances, Moves, At, Working, OnPath, Added, Uses, Taken,
     Returns, ReturnsFromClose, Opening, Listing, Closing, Transfers, States
<1> QED BY <1>3, <1>4, <1>5, <1>6, MovesTypes DEF Advances

LEMMA OpenFailsTypes ==
  ASSUME IInv, NEW t \in Threads, OpenFails(t)
  PROVE  IInv'
<1>1. Ready(t)
  BY AtWork DEF OpenFails, At
<1>2. th[t].cell \in Cells
  BY <1>1 DEF OpenFails, At, Ready, Working, OnPath, Added, Uses, Taken,
     Returns, ReturnsFromClose, Opening, Listing, Closing, Transfers, States
<1>3. CASE Segfault
  BY <1>3, SegfaultTypes
<1>4. CASE /\ el' = [el EXCEPT ![th[t].cell].fd = Bad] /\ Return(t)
           /\ UNCHANGED <<hash, openList, fdtab, disk, io, world>>
  <2>1. MemoryTyped'
    BY <1>1, <1>2, <1>4, ElementWritten DEF Ready, MemoryTyped, FdTyped
  <2>2. RestTyped'
    BY <1>1, <1>4, Unmoved DEF Ready
  <2> QED BY <1>4, <2>1, <2>2, ReturnTypes
<1> QED BY <1>3, <1>4 DEF OpenFails

LEMMA SetModeTypes ==
  ASSUME IInv, NEW t \in Threads, SetMode(t)
  PROVE  IInv'
<1>1. Ready(t)
  BY AtWork DEF SetMode, At
<1>2. th[t].cell \in Cells
  BY <1>1 DEF SetMode, At, Ready, Working, OnPath, Added, Uses, Taken,
     Returns, ReturnsFromClose, Opening, Listing, Closing, Transfers, States
<1>3. MemoryTyped'
  <2>1. (At(t, "setMode")) \in BOOLEAN
    BY DEF At
  <2> QED BY <1>1, <1>2, <2>1, ElementWritten DEF SetMode, Ready, MemoryTyped, FdTyped
<1>4. RestTyped'
  BY <1>1, Unmoved DEF SetMode, Ready
<1>5. Advances(t, "count")
  BY <1>1, GotoAdvances DEF SetMode, Ready, States
<1>6. Working(t)'
  BY <1>1, <1>5 DEF SetMode, Ready, Advances, Moves, At, Working, OnPath, Added, Uses, Taken,
     Returns, ReturnsFromClose, Opening, Listing, Closing, Transfers, States
<1> QED BY <1>3, <1>4, <1>5, <1>6, MovesTypes DEF Advances

LEMMA EvictTypes ==
  ASSUME IInv, NEW t \in Threads, Evict(t)
  PROVE  IInv'
<1>1. Ready(t)
  BY AtWork DEF Evict, At
<1>2. CASE Segfault
  BY <1>2, SegfaultTypes
<1>3. CASE /\ openList # <<>>
           /\ th' = [th EXCEPT ![t].pc = "delist", ![t].victim = Last(openList),
                               ![t].back = "unshift"]
           /\ UNCHANGED <<memory, disk, io, world>>
  <2>1. MemoryTyped' /\ RestTyped'
    BY <1>1, <1>3, Unmoved DEF Ready
  <2>2. Last(openList) \in Cells
    BY <1>1, <1>3 DEF Ready, MemoryTyped, Last
  <2>3. Moves(t, "delist", th[t].cell, Last(openList), th[t].next, "unshift")
    BY <1>1, <1>3, <2>2 DEF Ready, Moves, Thread, States
  <2>4. Working(t)'
    BY <1>1, <2>2, <2>3 DEF Evict, Ready, Moves, At, Working, OnPath, Added, Uses, Taken,
       Returns, ReturnsFromClose, Opening, Listing, Closing, Transfers, States
  <2> QED BY <2>1, <2>3, <2>4, MovesTypes
<1> QED BY <1>2, <1>3 DEF Evict

LEMMA DelistTypes ==
  ASSUME IInv, NEW t \in Threads, Delist(t)
  PROVE  IInv'
<1>1. Ready(t)
  BY AtWork DEF Delist, At
<1>2. MemoryTyped'
  <2> DEFINE Same == {i \in DOMAIN openList : el[openList[i]] = el[th[t].victim]}
  <2>1. CASE Same = {}
    BY <1>1, <2>1 DEF Delist, Ready, MemoryTyped, FdTyped
  <2>2. CASE Same # {}
    <3>1. Same \in SUBSET Nat
      BY <1>1 DEF Ready, MemoryTyped
    <3>4. Min(Same) \in Same
      BY <2>2, <3>1, Least
    <3>5. Min(Same) \in DOMAIN openList
      BY <3>4
    <3>2. openList' = RemoveAt(openList, Min(Same))
      BY <2>2 DEF Delist
    <3>3. openList' \in Seq(Cells)
      BY <1>1, <3>5, <3>2, RemoveAtTyped DEF Ready, MemoryTyped
    <3> QED BY <1>1, <3>3 DEF Delist, Ready, MemoryTyped, FdTyped
  <2> QED BY <2>1, <2>2
<1>3. RestTyped'
  BY <1>1, Unmoved DEF Delist, Ready
<1>4. Advances(t, "close")
  BY <1>1, GotoAdvances DEF Delist, Ready, States
<1>5. Working(t)'
  BY <1>1, <1>4 DEF Delist, Ready, Advances, Moves, At, Working, OnPath, Added, Uses, Taken,
     Returns, ReturnsFromClose, Opening, Listing, Closing, Transfers, States
<1> QED BY <1>2, <1>3, <1>4, <1>5, MovesTypes DEF Advances

LEMMA CloseTypes ==
  ASSUME IInv, NEW t \in Threads, Close(t)
  PROVE  IInv'
<1>1. Ready(t)
  BY AtWork DEF Close, At
<1>2. th[t].victim \in Cells
  BY <1>1 DEF Close, At, Ready, Working, OnPath, Added, Uses, Taken,
     Returns, ReturnsFromClose, Opening, Listing, Closing, Transfers, States
<1>3. MemoryTyped'
  <2>1. CASE IsOpen(el[th[t].victim].fd)
    <3>1. Closed \in Descriptor
      BY DEF Closed, Descriptor
    <3> QED BY <1>1, <2>1, <3>1 DEF Close, IsOpen, Ready, MemoryTyped, FdTyped
  <2>2. CASE ~IsOpen(el[th[t].victim].fd)
    BY <1>1, <2>2, Unmoved DEF Close, Ready, memory
  <2> QED BY <2>1, <2>2
<1>4. RestTyped'
  BY <1>1, Unmoved DEF Close, Ready
<1>5. CASE IsOpen(el[th[t].victim].fd)
  <2>1. Advances(t, "clearFd")
    BY <1>1, <1>5, GotoAdvances DEF Close, Ready, States
  <2>2. Working(t)'
    BY <1>1, <1>5, <2>1 DEF Close, Ready, Advances, Moves, At, Working, OnPath, Added, Uses, Taken,
       Returns, ReturnsFromClose, Opening, Listing, Closing, Transfers, States
  <2> QED BY <1>3, <1>4, <2>1, <2>2, MovesTypes DEF Advances
<1>6. CASE ~IsOpen(el[th[t].victim].fd)
  <2>1. Advances(t, th[t].back)
    BY <1>1, <1>6, GotoAdvances DEF Close, Ready, States, Thread
  <2>2. Working(t)'
    BY <1>1, <1>6, <2>1 DEF Close, Ready, Advances, Moves, At, Working, OnPath, Added, Uses, Taken,
       Returns, ReturnsFromClose, Opening, Listing, Closing, Transfers, States
  <2> QED BY <1>3, <1>4, <2>1, <2>2, MovesTypes DEF Advances
<1> QED BY <1>5, <1>6

LEMMA ClearFdTypes ==
  ASSUME IInv, NEW t \in Threads, ClearFd(t)
  PROVE  IInv'
<1>1. Ready(t)
  BY AtWork DEF ClearFd, At
<1>2. th[t].victim \in Cells
  BY <1>1 DEF ClearFd, At, Ready, Working, OnPath, Added, Uses, Taken,
     Returns, ReturnsFromClose, Opening, Listing, Closing, Transfers, States
<1>3. MemoryTyped'
  BY <1>1, <1>2, ElementWritten DEF ClearFd, Ready, MemoryTyped, FdTyped
<1>4. RestTyped'
  BY <1>1, Unmoved DEF ClearFd, Ready
<1>5. Advances(t, "clearMode")
  BY <1>1, GotoAdvances DEF ClearFd, Ready, States
<1>6. Working(t)'
  BY <1>1, <1>5 DEF ClearFd, Ready, Advances, Moves, At, Working, OnPath, Added, Uses, Taken,
     Returns, ReturnsFromClose, Opening, Listing, Closing, Transfers, States
<1> QED BY <1>3, <1>4, <1>5, <1>6, MovesTypes DEF Advances

LEMMA ClearModeTypes ==
  ASSUME IInv, NEW t \in Threads, ClearMode(t)
  PROVE  IInv'
<1>1. Ready(t)
  BY AtWork DEF ClearMode, At
<1>2. th[t].victim \in Cells
  BY <1>1 DEF ClearMode, At, Ready, Working, OnPath, Added, Uses, Taken,
     Returns, ReturnsFromClose, Opening, Listing, Closing, Transfers, States
<1>3. MemoryTyped'
  BY <1>1, <1>2, ElementWritten DEF ClearMode, Ready, MemoryTyped, FdTyped
<1>4. RestTyped'
  BY <1>1, Unmoved DEF ClearMode, Ready
<1>5. Advances(t, th[t].back)
  BY <1>1, GotoAdvances DEF ClearMode, Ready, States, Thread
<1>6. Working(t)'
  BY <1>1, <1>5 DEF ClearMode, Ready, Advances, Moves, At, Working, OnPath, Added, Uses, Taken,
     Returns, ReturnsFromClose, Opening, Listing, Closing, Transfers, States
<1> QED BY <1>3, <1>4, <1>5, <1>6, MovesTypes DEF Advances

LEMMA UnshiftTypes ==
  ASSUME IInv, NEW t \in Threads, Unshift(t)
  PROVE  IInv'
<1>1. Ready(t)
  BY AtWork DEF Unshift, At
<1>2. th[t].cell \in Cells
  BY <1>1 DEF Unshift, At, Ready, Working, OnPath, Added, Uses, Taken,
     Returns, ReturnsFromClose, Opening, Listing, Closing, Transfers, States
<1>3. MemoryTyped'
  <2>1. <<th[t].cell>> \o openList \in Seq(Cells)
    BY <1>1, <1>2 DEF Ready, MemoryTyped
  <2> QED BY <1>1, <2>1 DEF Unshift, Ready, MemoryTyped, FdTyped
<1>4. RestTyped'
  BY <1>1, Unmoved DEF Unshift, Ready
<1>5. Advances(t, th[t].next)
  BY <1>1, GotoAdvances DEF Unshift, Ready, States, Thread
<1>6. Working(t)'
  BY <1>1, <1>5 DEF Unshift, Ready, Advances, Moves, At, Working, OnPath, Added, Uses, Taken,
     Returns, ReturnsFromClose, Opening, Listing, Closing, Transfers, States
<1> QED BY <1>3, <1>4, <1>5, <1>6, MovesTypes DEF Advances

LEMMA SeekTypes ==
  ASSUME IInv, NEW t \in Threads, Seek(t)
  PROVE  IInv'
<1>1. Ready(t)
  BY AtWork DEF Seek, At
<1>2. MemoryTyped'
  <2>1. CASE fdtab' # fdtab
    <3> DEFINE fd == el[th[t].cell].fd
    <3>1. fd \in Fds /\ fdtab[fd] # Closed /\ fdtab[fd] \in Descriptor /\ th[t].off \in Nat
      BY <1>1, <2>1 DEF Seek, IsOpen, Ready, MemoryTyped, Working, Offsets
    <3> HIDE DEF fd
    <3>2. [fdtab[fd] EXCEPT !.pos = th[t].off] \in Descriptor
      BY <3>1 DEF Descriptor
    <3>3. fdtab' = [fdtab EXCEPT ![fd].pos = th[t].off]
      BY <2>1 DEF Seek, fd
    <3>4. fdtab' \in [Fds -> Descriptor] /\ FdTyped'
      BY <1>1, <3>1, <3>2, <3>3 DEF Ready, MemoryTyped, FdTyped, Descriptor
    <3> QED BY <1>1, <3>4 DEF Seek, Ready, MemoryTyped
  <2>2. CASE fdtab' = fdtab
    BY <1>1, <2>2, Unmoved DEF Seek, Ready, memory
  <2> QED BY <2>1, <2>2
<1>3. RestTyped'
  BY <1>1, Unmoved DEF Seek, Ready
<1>4. CASE Goto(t, "transfer")
  <2>1. Advances(t, "transfer")
    BY <1>1, <1>4, GotoAdvances DEF Seek, Ready, States
  <2>2. Working(t)'
    BY <1>1, <1>4, <2>1 DEF Seek, Ready, Advances, Moves, At, Working, OnPath, Added, Uses, Taken,
       Returns, ReturnsFromClose, Opening, Listing, Closing, Transfers, States
  <2> QED BY <1>2, <1>3, <2>1, <2>2, MovesTypes DEF Advances
<1>5. CASE Return(t)
  BY <1>2, <1>3, <1>5, ReturnTypes DEF Seek
<1> QED BY <1>4, <1>5 DEF Seek

LEMMA TransferTypes ==
  ASSUME IInv, NEW t \in Threads, Transfer(t)
  PROVE  IInv'
<1>1. Ready(t)
  BY AtWork DEF Transfer, At
<1> DEFINE fd == el[th[t].cell].fd
<1>2. /\ th[t].off \in Offsets /\ th[t].off \in Nat /\ th[t].oid \in Oids /\ th[t].op \in AllOps
      /\ None \notin Oids
  BY <1>1, Numbers DEF Transfer, At, Ready, Working, OnPath, Added, Uses, Taken, Offsets, Transfers,
     AllOps
<1>3. IsOpen(fd) => /\ fd \in Fds /\ fd # 0 /\ fdtab[fd] \in Descriptor
                    /\ fdtab[fd].file \in Oids /\ fdtab[fd].pos \in Nat
  BY <1>1, Numbers DEF IsOpen, Ready, MemoryTyped, FdTyped, Descriptor
<1>4. /\ io' = IF IsOpen(fd) \/ fd = 0 THEN io \cup {Call(t, fd)} ELSE io
      /\ fdtab' = IF IsOpen(fd) /\ UsesMode(t) THEN [fdtab EXCEPT ![fd].pos = @ + 1] ELSE fdtab
  BY DEF Transfer
<1> HIDE DEF fd
<1>5. MemoryTyped'
  <2>1. CASE fdtab' = fdtab
    BY <1>1, <2>1, Unmoved DEF Transfer, Ready, memory
  <2>2. CASE fdtab' # fdtab
    <3>1. IsOpen(fd) /\ fdtab' = [fdtab EXCEPT ![fd].pos = @ + 1]
      BY <1>4, <2>2
    <3>2. PICK r : r = [fdtab[fd] EXCEPT !.pos = @ + 1]
      OBVIOUS
    <3>5. r \in Descriptor /\ r.file \in Oids
      BY <1>3, <3>1, <3>2 DEF Descriptor
    <3>3. fdtab' \in [Fds -> Descriptor] /\ FdTyped'
      <4>1. fdtab' = [fdtab EXCEPT ![fd] = r]
        BY <3>1, <3>2
      <4> QED BY <1>1, <1>2, <3>5, <4>1 DEF Ready, MemoryTyped, FdTyped
    <3>4. UNCHANGED <<el, hash, openList>>
      BY DEF Transfer
    <3> QED BY <1>1, <3>3, <3>4 DEF Ready, MemoryTyped
  <2> QED BY <2>1, <2>2
<1>6. RestTyped'
  <2>1. IsOpen(fd) \/ fd = 0 =>
          Call(t, fd) \in [op : AllOps, oid : Oids, off : Offsets, file : Oids \cup {None}, pos : Nat]
    BY <1>2, <1>3 DEF Call
  <2>2. io' \subseteq [op : AllOps, oid : Oids, off : Offsets, file : Oids \cup {None}, pos : Nat]
    BY <1>1, <1>4, <2>1 DEF Ready, RestTyped
  <2> QED BY <1>1, <2>2 DEF Transfer, Ready, RestTyped, disk, world
<1> QED BY <1>5, <1>6, ReturnTypes DEF Transfer

LEMMA HashRemoveTypes ==
  ASSUME IInv, NEW t \in Threads, HashRemove(t)
  PROVE  IInv'
<1>1. Ready(t)
  BY AtWork DEF HashRemove, At
<1>2. MemoryTyped'
  BY <1>1 DEF HashRemove, Ready, MemoryTyped, FdTyped, Found
<1>3. RestTyped'
  BY <1>1, Unmoved DEF HashRemove, Ready
<1>4. CASE Goto(t, "rmattrs")
  <2>1. Advances(t, "rmattrs")
    BY <1>1, <1>4, GotoAdvances DEF HashRemove, Ready, States
  <2>2. Working(t)'
    BY <1>1, <1>4, <2>1 DEF HashRemove, Ready, Advances, Moves, At, Working, OnPath, Added, Uses, Taken,
       Returns, ReturnsFromClose, Opening, Listing, Closing, Transfers, States
  <2> QED BY <1>2, <1>3, <2>1, <2>2, MovesTypes DEF Advances
<1>5. CASE \E c \in Found(th[t].oid) :
             th' = [th EXCEPT ![t].pc = "checkClosed", ![t].cell = c]
  <2>1. PICK c \in Cells : th' = [th EXCEPT ![t].pc = "checkClosed", ![t].cell = c]
    BY <1>1, <1>5 DEF Found, Ready, MemoryTyped
  <2>2. Moves(t, "checkClosed", c, th[t].victim, th[t].next, th[t].back)
    BY <1>1, <2>1 DEF Ready, Moves, Thread, States
  <2>3. Working(t)'
    BY <1>1, <2>2 DEF HashRemove, Ready, Moves, At, Working, OnPath, Added, Uses, Taken,
       Returns, ReturnsFromClose, Opening, Listing, Closing, Transfers, States
  <2> QED BY <1>2, <1>3, <2>2, <2>3, MovesTypes
<1> QED BY <1>4, <1>5 DEF HashRemove

LEMMA FreeElementTypes ==
  ASSUME IInv, NEW t \in Threads, FreeElement(t)
  PROVE  IInv'
<1>1. Ready(t)
  BY AtWork DEF FreeElement, At
<1>2. th[t].cell \in Cells
  BY <1>1 DEF FreeElement, At, Ready, Working, OnPath, Added, Uses, Taken,
     Returns, ReturnsFromClose, Opening, Listing, Closing, Transfers, States
<1>3. MemoryTyped'
  <2>1. \E fd \in Fds \cup {0, Bad} : el' = [el EXCEPT ![th[t].cell] = Free(fd)]
    BY DEF FreeElement
  <2> QED BY <1>1, <1>2, <2>1, ElementWritten DEF FreeElement, Ready, MemoryTyped, FdTyped
<1>4. RestTyped'
  BY <1>1, Unmoved DEF FreeElement, Ready
<1>5. Advances(t, "unlink")
  BY <1>1, GotoAdvances DEF FreeElement, Ready, States
<1>6. Working(t)'
  BY <1>1, <1>5 DEF FreeElement, Ready, Advances, Moves, At, Working, OnPath, Added, Uses, Taken,
     Returns, ReturnsFromClose, Opening, Listing, Closing, Transfers, States
<1> QED BY <1>3, <1>4, <1>5, <1>6, MovesTypes DEF Advances

LEMMA UnlinkTypes ==
  ASSUME IInv, NEW t \in Threads, Unlink(t)
  PROVE  IInv'
<1>1. Ready(t)
  BY AtWork DEF Unlink, At
<1>2. MemoryTyped'
  BY <1>1, Unmoved DEF Unlink, Ready
<1>3. RestTyped'
  BY <1>1 DEF Unlink, Ready, RestTyped, world
<1>4. CASE th[t].oid \in dir
  <2>1. Advances(t, "rmattrs")
    BY <1>1, <1>4, GotoAdvances DEF Unlink, Ready, States
  <2>2. Working(t)'
    BY <1>1, <1>4, <2>1 DEF Unlink, Ready, Advances, Moves, At, Working, OnPath, Added, Uses, Taken,
       Returns, ReturnsFromClose, Opening, Listing, Closing, Transfers, States
  <2> QED BY <1>2, <1>3, <2>1, <2>2, MovesTypes DEF Advances
<1>5. CASE th[t].oid \notin dir
  BY <1>2, <1>3, <1>5, ReturnTypes DEF Unlink
<1> QED BY <1>4, <1>5

LEMMA RemoveAttrsTypes ==
  ASSUME IInv, NEW t \in Threads, RemoveAttrs(t)
  PROVE  IInv'
<1>1. Ready(t)
  BY AtWork DEF RemoveAttrs, At
<1>2. MemoryTyped'
  BY <1>1, Unmoved DEF RemoveAttrs, Ready
<1>3. RestTyped'
  BY <1>1 DEF RemoveAttrs, Ready, RestTyped, world
<1> QED BY <1>2, <1>3, ReturnTypes DEF RemoveAttrs

LEMMA StepTypes ==
  ASSUME IInv, NEW t \in Threads, Step(t)
  PROVE  IInv'
<1>1. CASE Exists(t) \/ Access(t) \/ Creat(t) \/ AddOid(t) \/ SetAttr(t)
  BY <1>1, ExistsTypes, AccessTypes, CreatTypes, AddOidTypes, SetAttrTypes
<1>2. CASE FindOid(t) \/ CheckFd(t) \/ OpenFile(t) \/ OpenFails(t) \/ SetMode(t)
  BY <1>2, FindOidTypes, CheckFdTypes, OpenFileTypes, OpenFailsTypes, SetModeTypes
<1>3. CASE CheckMode(t) \/ CheckAgain(t) \/ CountOpen(t) \/ Evict(t) \/ Delist(t)
  BY <1>3, CheckModeTypes, CheckAgainTypes, CountOpenTypes, EvictTypes, DelistTypes
<1>4. CASE Close(t) \/ ClearFd(t) \/ ClearMode(t) \/ Unshift(t) \/ Seek(t) \/ Transfer(t)
  BY <1>4, CloseTypes, ClearFdTypes, ClearModeTypes, UnshiftTypes, SeekTypes, TransferTypes
<1>5. CASE HashRemove(t) \/ CheckClosed(t) \/ FreeElement(t) \/ Unlink(t) \/ RemoveAttrs(t)
  BY <1>5, HashRemoveTypes, CheckClosedTypes, FreeElementTypes, UnlinkTypes, RemoveAttrsTypes
<1> QED BY <1>1, <1>2, <1>3, <1>4, <1>5 DEF Step

LEMMA StutterTypes ==
  ASSUME IInv, UNCHANGED vars
  PROVE  IInv'
<1>1. MemoryTyped /\ RestTyped /\ th \in [Threads -> Thread] /\ UNCHANGED th
  BY TypesAre DEF IInv, vars
<1>2. MemoryTyped' /\ RestTyped'
  BY <1>1, Unmoved DEF vars
<1>3. TypeOK' /\ FdTyped'
  BY <1>1, <1>2 DEF TypeOK, MemoryTyped, RestTyped, Element, Descriptor, Thread
<1>4. \A t \in Threads : PathInv(t)'
  BY <1>1 DEF IInv, PathInv, Working, OnPath, Added, Uses, Taken, Returns, ReturnsFromClose
<1> QED BY <1>3, <1>4 DEF IInv

LEMMA InitTypes == Init => IInv
<1> SUFFICES ASSUME Init PROVE IInv
  OBVIOUS
<1>1. \A c \in Stored : c \in Oids /\ c \in Cells
  BY Numbers
<1>2. Free(0) \in Element /\ \A c \in Stored : Fresh(c) \in Element
  BY <1>1 DEF Free, Fresh, Element
<1>3. el \in [Cells -> Element]
  BY <1>2 DEF Init
<1>4. Closed \in Descriptor /\ Closed.file = None
  BY DEF Closed, Descriptor
<1>5. MemoryTyped
  BY <1>1, <1>3, <1>4 DEF Init, MemoryTyped, FdTyped
<1>6. RestTyped
  <2>1. started \in 0 .. MaxOps /\ crashes \in 0 .. MaxCrashes
    BY Numbers DEF Init
  <2>2. io = {} /\ up \in BOOLEAN /\ segv \in BOOLEAN /\ dir \subseteq Oids /\ attr \subseteq Oids
    BY Numbers DEF Init
  <2> QED BY <2>1, <2>2 DEF RestTyped
<1>7. th \in [Threads -> Thread] /\ \A t \in Threads : th[t] = Idle
  BY IdleIs DEF Init
<1>8. TypeOK /\ FdTyped
  BY <1>5, <1>6, <1>7 DEF TypeOK, MemoryTyped, RestTyped, Element, Descriptor, Thread
<1> QED BY <1>7, <1>8 DEF IInv, PathInv

LEMMA NextTypes == IInv /\ [Next]_vars => IInv'
<1> SUFFICES ASSUME IInv, [Next]_vars PROVE IInv'
  OBVIOUS
<1>1. CASE \E t \in Threads : Step(t)
  BY <1>1, StepTypes
<1>2. CASE \E t \in Threads, op \in Ops, o \in Oids, off \in Offsets : Start(t, op, o, off)
  BY <1>2, StartTypes
<1>3. CASE Crash \/ Restart
  BY <1>3, CrashTypes, RestartTypes
<1>4. CASE UNCHANGED vars
  BY <1>4, StutterTypes
<1> QED BY <1>1, <1>2, <1>3, <1>4 DEF Next, Finished

(***************************************************************************)
(* Whatever the threads do to one another, an element holds a descriptor   *)
(* that open() gave, 0 or -1, the tables refer to cells of elements, and   *)
(* every operation is at a place of its own path: sysio_obj.c,             *)
(* storage_server.c.                                                       *)
(***************************************************************************)
THEOREM StoreTypeCorrect == Spec => []TypeOK
<1>1. IInv => TypeOK
  BY DEF IInv
<1> QED BY <1>1, InitTypes, NextTypes, PTL DEF Spec
-----------------------------------------------------------------------------
(* Operations on one object at a time.                                     *)

\* Nothing was lost: no crash so far.
Clean == crashes = 0 /\ ~segv

Has(o) == \E c \in hash : el[c].id = o

Agrees(o) == (o \in dir <=> Has(o)) /\ (Clean => (o \in attr <=> o \in dir))

\* At most one thread works on an object.
Sole == \A t, u \in Threads : th[t].oid = th[u].oid /\ th[t].oid # None => t = u

\* An element is in the hash table until a removal takes it, and an object has one.
Kept == \A c \in hash : el[c].live
Owned == \A c \in Cells : el[c].live =>
           /\ el[c].id \in Oids
           /\ c \in hash \/ \E t \in Threads : Taken(t) /\ th[t].cell = c
Once == \A c, d \in Cells : el[c].live /\ el[d].live /\ el[c].id = el[d].id => c = d

WhenDown == ~up => /\ hash = {} /\ ~Clean /\ openList = <<>>
                   /\ \A c \in Cells : ~el[c].live
                   /\ \A fd \in Fds : fdtab[fd] = Closed
                   /\ \A t \in Threads : th[t] = Idle

AtRest == up => \A o \in Oids : (\A t \in Threads : th[t].oid # o) => Agrees(o)

\* What an operation knows of its object at each place of its path.
Knows(t) ==
  LET o  == th[t].oid
      c  == th[t].cell
      pc == th[t].pc
  IN  /\ pc \in {"exists", "access"} => Agrees(o)
      /\ pc \in {"hash", "find"} => Agrees(o) /\ Has(o)
      /\ pc \in {"creat", "addOid"} =>
           ~Has(o) /\ (o \in dir <=> pc = "addOid") /\ (Clean => o \notin attr)
      /\ Added(t) => c \in hash /\ el[c].id = o /\ o \in dir /\ (Clean => o \notin attr)
      /\ Uses(t) => c \in hash /\ el[c].id = o /\ o \in dir /\ (Clean => o \in attr)
      /\ Taken(t) => c \notin hash /\ el[c].live /\ el[c].id = o
      /\ Taken(t) \/ pc \in {"unlink", "rmattrs"} =>
           ~Has(o) /\ (o \in dir <=> pc # "rmattrs") /\ (Clean => o \in attr)

ApartInv == Sole /\ Kept /\ Owned /\ Once /\ WhenDown /\ AtRest /\ \A t \in Threads : Knows(t)

Held(t) == Added(t) \/ Uses(t) \/ Taken(t)

\* A step on object o leaves the other objects alone.
Untouched(p) == (p \in dir' <=> p \in dir) /\ (p \in attr' <=> p \in attr) /\ (Has(p)' <=> Has(p))

Local(o) ==
  /\ \A p \in Oids \ {o} : Untouched(p)
  /\ \A c \in Cells : el[c].live /\ el[c].id # o =>
       el'[c].id = el[c].id /\ el'[c].live /\ (c \in hash' <=> c \in hash)
  /\ Clean' <=> Clean

LEMMA OthersKnow ==
  ASSUME NEW o \in Oids, NEW u \in Threads, Local(o), Kept, hash \subseteq Cells,
         PathInv(u), Knows(u), th'[u] = th[u], th[u].oid # o
  PROVE  Knows(u)'
<1>1. CASE th[u] = Idle
  BY <1>1 DEF Knows, Idle, Added, Uses, Taken, Listing, Closing, Opening
<1>2. CASE Working(u)
  <2>1. th[u].oid \in Oids /\ Untouched(th[u].oid) /\ (Clean' <=> Clean)
    BY <1>2 DEF Working, Local
  <2>2. PICK p : p = th[u].oid
    OBVIOUS
  <2>3. /\ p \in dir' <=> p \in dir
        /\ p \in attr' <=> p \in attr
        /\ Has(p)' <=> Has(p)
        /\ Agrees(p)' <=> Agrees(p)
    BY <2>1, <2>2 DEF Untouched, Agrees
  <2>4. PICK c : c = th[u].cell
    OBVIOUS
  <2>5. /\ Added(u)' <=> Added(u)
        /\ Uses(u)' <=> Uses(u)
        /\ Taken(u)' <=> Taken(u)
    BY DEF Added, Uses, Taken
  <2>6. ASSUME Held(u)
        PROVE  /\ el'[c].id = p /\ (c \in hash' <=> c \in hash)
               /\ el'[c].live
    <3>1. c \in Cells /\ el[c].live /\ el[c].id = p
      BY <1>2, <2>2, <2>4, <2>6 DEF Held, Working, Knows, Kept
    <3> QED BY <2>2, <3>1 DEF Local
  <2>7. ASSUME Added(u) \/ Uses(u)
        PROVE  c \in hash /\ el[c].id = p /\ p \in dir
    BY <2>2, <2>4, <2>7 DEF Knows
  <2> QED BY <2>1, <2>2, <2>3, <2>4, <2>5, <2>6, <2>7 DEF Knows, Held
<1> QED BY <1>1, <1>2 DEF PathInv

LEMMA ThreadStep ==
  ASSUME IInv, ApartInv, NEW t \in Threads, Ready(t), NEW o \in Oids, th[t].oid = o, Local(o),
         \A u \in Threads \ {t} : th'[u] = th[u], up' = up,
         Kept', Owned', Once',
         \/ th'[t].oid = o /\ Knows(t)'
         \/ th'[t] = Idle /\ Agrees(o)'
  PROVE  ApartInv' /\ up'
<1>1. up /\ up'
  BY IdleIs DEF ApartInv, WhenDown, Ready, IInv, TypeOK
<1>2. th'[t].oid \in {o, None}
  BY IdleIs
<1>3. Sole'
  BY <1>2 DEF ApartInv, Sole
<1>4. ASSUME NEW u \in Threads
      PROVE  Knows(u)'
  <2>1. CASE u # t
    <3>1. th[u].oid # o
      BY <2>1, Numbers DEF ApartInv, Sole
    <3> QED BY <2>1, <3>1, OthersKnow DEF ApartInv, IInv, TypeOK
  <2>2. CASE u = t /\ th'[t] = Idle
    BY <2>2 DEF Knows, Idle, Added, Uses, Taken, Listing, Closing, Opening
  <2>3. CASE u = t /\ th'[t].oid = o /\ Knows(t)'
    BY <2>3
  <2> QED BY <2>1, <2>2, <2>3
<1>5. AtRest'
  <2> SUFFICES ASSUME NEW p \in Oids, \A u \in Threads : th'[u].oid # p
               PROVE  Agrees(p)'
    BY DEF AtRest
  <2>1. CASE p = o
    BY <2>1
  <2>2. CASE p # o
    <3>1. \A u \in Threads : th[u].oid # p
      BY <2>2
    <3>2. Agrees(p)
      BY <1>1, <3>1 DEF ApartInv, AtRest
    <3>3. Untouched(p) /\ (Clean' <=> Clean)
      BY <2>2 DEF Local
    <3> QED BY <3>2, <3>3 DEF Agrees, Untouched
  <2> QED BY <2>1, <2>2
<1>6. WhenDown'
  BY <1>1 DEF WhenDown
<1> QED BY <1>1, <1>3, <1>4, <1>5, <1>6 DEF ApartInv

\* A step that leaves the tables and the identity of every element alone.
Quiet ==
  /\ UNCHANGED <<hash, dir, attr, up, segv, crashes>>
  /\ \A c \in Cells : el'[c].id = el[c].id /\ el'[c].live = el[c].live

LEMMA QuietLocal ==
  ASSUME Quiet, Kept, Once, hash \subseteq Cells, NEW o \in Oids
  PROVE  Local(o) /\ Kept' /\ Once' /\ \A p \in Oids : Untouched(p) /\ (Agrees(p) => Agrees(p)')
<1>1. Clean' <=> Clean
  BY DEF Clean, Quiet
<1>2. Kept' /\ Once'
  BY DEF Kept, Once, Quiet
<1>3. ASSUME NEW p \in Oids
      PROVE  Untouched(p) /\ (Agrees(p) => Agrees(p)')
  <2>1. Has(p)' <=> Has(p)
    BY DEF Has, Quiet
  <2>2. Untouched(p)
    BY <2>1 DEF Untouched, Quiet
  <2> QED BY <1>1, <2>2 DEF Agrees, Untouched
<1>4. \A c \in Cells : el[c].live /\ el[c].id # o =>
       el'[c].id = el[c].id /\ el'[c].live /\ (c \in hash' <=> c \in hash)
  BY DEF Quiet
<1> QED BY <1>1, <1>2, <1>3, <1>4 DEF Local

\* An operation that has its element goes on with it.
LEMMA HeldStep ==
  ASSUME IInv, ApartInv, NEW t \in Threads, Ready(t), Quiet, Held(t), Held(t)',
         th'[t].op = th[t].op, th'[t].oid = th[t].oid, th'[t].cell = th[t].cell,
         \A u \in Threads \ {t} : th'[u] = th[u]
  PROVE  ApartInv' /\ up'
<1>1. PICK o \in Oids : th[t].oid = o
  BY DEF Ready, Working
<1>2. PICK c \in Cells : th[t].cell = c
  BY DEF Ready, Working, Held
<1>3. Local(o) /\ Kept' /\ Once' /\ Untouched(o) /\ (Agrees(o) => Agrees(o)')
  BY QuietLocal DEF ApartInv, IInv, TypeOK
<1>4. /\ Added(t)' <=> Added(t)
      /\ Uses(t)' <=> Uses(t)
      /\ Taken(t)' <=> Taken(t)
  BY DEF Held, Added, Uses, Taken, Transfers
<1>5. Owned'
  BY <1>4 DEF ApartInv, Owned, Quiet, Taken
<1>6. Clean' <=> Clean
  BY DEF Clean, Quiet
<1>7. /\ th[t].pc \notin {"exists", "access", "hash", "find", "creat", "addOid", "unlink", "rmattrs"}
      /\ th'[t].pc \notin {"exists", "access", "hash", "find", "creat", "addOid", "unlink", "rmattrs"}
  BY DEF Held, Added, Uses, Taken, Opening, Listing, Closing
<1>8. Knows(t)'
  BY <1>1, <1>2, <1>3, <1>4, <1>6, <1>7 DEF ApartInv, Knows, Quiet, Untouched
<1> QED BY <1>1, <1>3, <1>5, <1>8, ThreadStep DEF Quiet

\* A transfer ends.
LEMMA UsesReturn ==
  ASSUME IInv, ApartInv, NEW t \in Threads, Ready(t), Quiet, Uses(t), th'[t] = Idle,
         \A u \in Threads \ {t} : th'[u] = th[u]
  PROVE  ApartInv' /\ up'
<1>1. PICK o \in Oids : th[t].oid = o
  BY DEF Ready, Working
<1>2. Local(o) /\ Kept' /\ Once' /\ Untouched(o) /\ (Agrees(o) => Agrees(o)')
  BY QuietLocal DEF ApartInv, IInv, TypeOK
<1>3. Agrees(o)
  BY <1>1 DEF ApartInv, Knows, Agrees, Has
<1>4. Owned'
  <2>1. ~Taken(t)
    BY DEF Uses, Taken, Transfers
  <2> QED BY <2>1 DEF ApartInv, Owned, Quiet, Taken
<1> QED BY <1>1, <1>2, <1>3, <1>4, ThreadStep DEF Quiet

\* An operation goes on with its element.
Continues(t) ==
  /\ Quiet /\ Held(t) /\ Held(t)'
  /\ th'[t].op = th[t].op /\ th'[t].oid = th[t].oid /\ th'[t].cell = th[t].cell
  /\ \A u \in Threads \ {t} : th'[u] = th[u]

LEMMA ContinuesApart ==
  ASSUME IInv, ApartInv, NEW t \in Threads, Ready(t), Continues(t)
  PROVE  ApartInv' /\ up'
BY HeldStep DEF Continues

\* Before an operation has its element, and after.
Without == {"idle", "exists", "access", "hash", "find", "creat", "addOid", "unlink", "rmattrs"}

LEMMA HeldIs ==
  ASSUME NEW t \in Threads, Working(t), th[t].pc \notin Without
  PROVE  Held(t)
BY DEF Working, OnPath, Held, Without

LEMMA HeldNext ==
  ASSUME IInv', NEW t \in Threads, th'[t].pc \notin Without
  PROVE  Held(t)'
<1>1. Working(t)'
  BY IdleIs DEF IInv, PathInv, Without
<1> QED BY <1>1 DEF Working, OnPath, Held, Without

\* A step of an operation that has its element only moves the thread.
LEMMA ContinuesIf ==
  ASSUME IInv', NEW t \in Threads, Ready(t), Quiet,
         th[t].pc \notin Without, th'[t].pc \notin Without,
         th'[t].op = th[t].op, th'[t].oid = th[t].oid, th'[t].cell = th[t].cell,
         \A u \in Threads \ {t} : th'[u] = th[u]
  PROVE  Continues(t)
BY HeldIs, HeldNext DEF Continues, Ready

LEMMA CheckFdContinues ==
  ASSUME IInv, IInv', NEW t \in Threads, CheckFd(t)
  PROVE  Ready(t) /\ Continues(t)
<1>1. Ready(t)
  BY AtWork DEF CheckFd, At
<1>2. Quiet
  BY <1>1 DEF CheckFd, Quiet, Ready, MemoryTyped, Element, disk, world, memory
<1>3. /\ th[t].pc \notin Without /\ th'[t].pc \notin Without
      /\ th'[t].op = th[t].op /\ th'[t].oid = th[t].oid /\ th'[t].cell = th[t].cell
      /\ \A u \in Threads \ {t} : th'[u] = th[u]
  BY <1>1 DEF CheckFd, Ready, Thread, Goto, At, Without, Working, OnPath, Added, Uses,
     Taken, Returns, ReturnsFromClose, Opening, Listing, Closing, Transfers
<1> QED BY <1>1, <1>2, <1>3, ContinuesIf

LEMMA OpenFileContinues ==
  ASSUME IInv, IInv', NEW t \in Threads, OpenFile(t)
  PROVE  Ready(t) /\ Continues(t)
<1>1. Ready(t)
  BY AtWork DEF OpenFile, At
<1>2. Quiet
  BY <1>1 DEF OpenFile, Quiet, Ready, MemoryTyped, Element, disk, world, memory
<1>3. /\ th[t].pc \notin Without /\ th'[t].pc \notin Without
      /\ th'[t].op = th[t].op /\ th'[t].oid = th[t].oid /\ th'[t].cell = th[t].cell
      /\ \A u \in Threads \ {t} : th'[u] = th[u]
  BY <1>1 DEF OpenFile, Ready, Thread, Goto, At, Without
<1> QED BY <1>1, <1>2, <1>3, ContinuesIf

LEMMA SetModeContinues ==
  ASSUME IInv, IInv', NEW t \in Threads, SetMode(t)
  PROVE  Ready(t) /\ Continues(t)
<1>1. Ready(t)
  BY AtWork DEF SetMode, At
<1>2. Quiet
  BY <1>1 DEF SetMode, Quiet, Ready, MemoryTyped, Element, disk, world, memory
<1>3. /\ th[t].pc \notin Without /\ th'[t].pc \notin Without
      /\ th'[t].op = th[t].op /\ th'[t].oid = th[t].oid /\ th'[t].cell = th[t].cell
      /\ \A u \in Threads \ {t} : th'[u] = th[u]
  BY <1>1 DEF SetMode, Ready, Thread, Goto, At, Without
<1> QED BY <1>1, <1>2, <1>3, ContinuesIf

LEMMA CheckModeContinues ==
  ASSUME IInv, IInv', NEW t \in Threads, CheckMode(t)
  PROVE  Ready(t) /\ Continues(t)
<1>1. Ready(t)
  BY AtWork DEF CheckMode, At
<1>2. Quiet
  BY <1>1 DEF CheckMode, Quiet, Ready, MemoryTyped, Element, disk, world, memory
<1>3. /\ th[t].pc \notin Without /\ th'[t].pc \notin Without
      /\ th'[t].op = th[t].op /\ th'[t].oid = th[t].oid /\ th'[t].cell = th[t].cell
      /\ \A u \in Threads \ {t} : th'[u] = th[u]
  BY <1>1 DEF CheckMode, Ready, Thread, Goto, At, Without
<1> QED BY <1>1, <1>2, <1>3, ContinuesIf

LEMMA CheckAgainContinues ==
  ASSUME IInv, IInv', NEW t \in Threads, CheckAgain(t)
  PROVE  Ready(t) /\ Continues(t)
<1>1. Ready(t)
  BY AtWork DEF CheckAgain, At
<1>2. Quiet
  BY <1>1 DEF CheckAgain, Quiet, Ready, MemoryTyped, Element, disk, world, memory
<1>3. /\ th[t].pc \notin Without /\ th'[t].pc \notin Without
      /\ th'[t].op = th[t].op /\ th'[t].oid = th[t].oid /\ th'[t].cell = th[t].cell
      /\ \A u \in Threads \ {t} : th'[u] = th[u]
  BY <1>1 DEF CheckAgain, Ready, Thread, Goto, At, Without
<1> QED BY <1>1, <1>2, <1>3, ContinuesIf

LEMMA CountOpenContinues ==
  ASSUME IInv, IInv', NEW t \in Threads, CountOpen(t)
  PROVE  Ready(t) /\ Continues(t)
<1>1. Ready(t)
  BY AtWork DEF CountOpen, At
<1>2. Quiet
  BY <1>1 DEF CountOpen, Quiet, Ready, MemoryTyped, Element, disk, world, memory
<1>3. /\ th[t].pc \notin Without /\ th'[t].pc \notin Without
      /\ th'[t].op = th[t].op /\ th'[t].oid = th[t].oid /\ th'[t].cell = th[t].cell
      /\ \A u \in Threads \ {t} : th'[u] = th[u]
  BY <1>1 DEF CountOpen, Ready, Thread, Goto, At, Without, Working, OnPath, Added, Uses,
     Taken, Returns, ReturnsFromClose, Opening, Listing, Closing, Transfers
<1> QED BY <1>1, <1>2, <1>3, ContinuesIf

LEMMA DelistContinues ==
  ASSUME IInv, IInv', NEW t \in Threads, Delist(t)
  PROVE  Ready(t) /\ Continues(t)
<1>1. Ready(t)
  BY AtWork DEF Delist, At
<1>2. Quiet
  BY <1>1 DEF Delist, Quiet, Ready, MemoryTyped, Element, disk, world, memory
<1>3. /\ th[t].pc \notin Without /\ th'[t].pc \notin Without
      /\ th'[t].op = th[t].op /\ th'[t].oid = th[t].oid /\ th'[t].cell = th[t].cell
      /\ \A u \in Threads \ {t} : th'[u] = th[u]
  BY <1>1 DEF Delist, Ready, Thread, Goto, At, Without
<1> QED BY <1>1, <1>2, <1>3, ContinuesIf

LEMMA CloseContinues ==
  ASSUME IInv, IInv', NEW t \in Threads, Close(t)
  PROVE  Ready(t) /\ Continues(t)
<1>1. Ready(t)
  BY AtWork DEF Close, At
<1>2. Quiet
  BY <1>1 DEF Close, Quiet, Ready, MemoryTyped, Element, disk, world, memory
<1>3. /\ th[t].pc \notin Without /\ th'[t].pc \notin Without
      /\ th'[t].op = th[t].op /\ th'[t].oid = th[t].oid /\ th'[t].cell = th[t].cell
      /\ \A u \in Threads \ {t} : th'[u] = th[u]
  BY <1>1 DEF Close, Ready, Thread, Goto, At, Without, Working, OnPath, Added, Uses,
     Taken, Returns, ReturnsFromClose, Opening, Listing, Closing, Transfers
<1> QED BY <1>1, <1>2, <1>3, ContinuesIf

LEMMA ClearFdContinues ==
  ASSUME IInv, IInv', NEW t \in Threads, ClearFd(t)
  PROVE  Ready(t) /\ Continues(t)
<1>1. Ready(t)
  BY AtWork DEF ClearFd, At
<1>2. Quiet
  BY <1>1 DEF ClearFd, Quiet, Ready, MemoryTyped, Element, disk, world, memory
<1>3. /\ th[t].pc \notin Without /\ th'[t].pc \notin Without
      /\ th'[t].op = th[t].op /\ th'[t].oid = th[t].oid /\ th'[t].cell = th[t].cell
      /\ \A u \in Threads \ {t} : th'[u] = th[u]
  BY <1>1 DEF ClearFd, Ready, Thread, Goto, At, Without
<1> QED BY <1>1, <1>2, <1>3, ContinuesIf

LEMMA ClearModeContinues ==
  ASSUME IInv, IInv', NEW t \in Threads, ClearMode(t)
  PROVE  Ready(t) /\ Continues(t)
<1>1. Ready(t)
  BY AtWork DEF ClearMode, At
<1>2. Quiet
  BY <1>1 DEF ClearMode, Quiet, Ready, MemoryTyped, Element, disk, world, memory
<1>3. /\ th[t].pc \notin Without /\ th'[t].pc \notin Without
      /\ th'[t].op = th[t].op /\ th'[t].oid = th[t].oid /\ th'[t].cell = th[t].cell
      /\ \A u \in Threads \ {t} : th'[u] = th[u]
  BY <1>1 DEF ClearMode, Ready, Thread, Goto, At, Without, Working, OnPath, Added, Uses,
     Taken, Returns, ReturnsFromClose, Opening, Listing, Closing, Transfers
<1> QED BY <1>1, <1>2, <1>3, ContinuesIf

LEMMA UnshiftContinues ==
  ASSUME IInv, IInv', NEW t \in Threads, Unshift(t)
  PROVE  Ready(t) /\ Continues(t)
<1>1. Ready(t)
  BY AtWork DEF Unshift, At
<1>2. Quiet
  BY <1>1 DEF Unshift, Quiet, Ready, MemoryTyped, Element, disk, world, memory
<1>3. /\ th[t].pc \notin Without /\ th'[t].pc \notin Without
      /\ th'[t].op = th[t].op /\ th'[t].oid = th[t].oid /\ th'[t].cell = th[t].cell
      /\ \A u \in Threads \ {t} : th'[u] = th[u]
  BY <1>1 DEF Unshift, Ready, Thread, Goto, At, Without, Working, OnPath, Added, Uses,
     Taken, Returns, ReturnsFromClose, Opening, Listing, Closing, Transfers
<1> QED BY <1>1, <1>2, <1>3, ContinuesIf

LEMMA CheckClosedContinues ==
  ASSUME IInv, IInv', NEW t \in Threads, CheckClosed(t)
  PROVE  Ready(t) /\ Continues(t)
<1>1. Ready(t)
  BY AtWork DEF CheckClosed, At
<1>2. Quiet
  BY <1>1 DEF CheckClosed, Quiet, Ready, MemoryTyped, Element, disk, world, memory
<1>3. /\ th[t].pc \notin Without /\ th'[t].pc \notin Without
      /\ th'[t].op = th[t].op /\ th'[t].oid = th[t].oid /\ th'[t].cell = th[t].cell
      /\ \A u \in Threads \ {t} : th'[u] = th[u]
  BY <1>1 DEF CheckClosed, Ready, Thread, Goto, At, Without
<1> QED BY <1>1, <1>2, <1>3, ContinuesIf

\* The end of the process.
LEMMA DownApart ==
  ASSUME ApartInv, Down, ~Clean'
  PROVE  ApartInv'
<1>1. \A t \in Threads : th'[t] = Idle
  BY DEF Down
<1>2. \A t \in Threads : Knows(t)'
  BY <1>1 DEF Knows, Idle, Added, Uses, Taken, Listing, Closing, Opening
<1>3. \A c \in Cells : ~el'[c].live
  BY DEF Down, Free
<1>4. Sole' /\ Kept' /\ Owned' /\ Once'
  BY <1>1, <1>3 DEF Sole, Kept, Owned, Once, Idle, Down
<1>5. WhenDown' /\ AtRest'
  BY <1>1, <1>3 DEF Down, WhenDown, AtRest
<1> QED BY <1>2, <1>4, <1>5 DEF ApartInv

LEMMA SegfaultApart ==
  ASSUME ApartInv, Segfault
  PROVE  ApartInv'
<1>1. ~Clean'
  BY DEF Segfault, Clean
<1> QED BY <1>1, DownApart DEF Segfault

LEMMA CrashApart ==
  ASSUME IInv, ApartInv, Crash
  PROVE  ApartInv'
<1>1. ~Clean'
  BY Numbers DEF Crash, Clean, IInv, TypeOK
<1> QED BY <1>1, DownApart DEF Crash

LEMMA StutterApart ==
  ASSUME ApartInv, UNCHANGED vars
  PROVE  ApartInv'
<1>1. /\ Sole' /\ Kept' /\ Once' /\ WhenDown'
      /\ Clean' <=> Clean
      /\ \A o \in Oids : (Has(o)' <=> Has(o)) /\ (Agrees(o)' <=> Agrees(o))
  BY DEF ApartInv, Sole, Kept, Once, WhenDown, Clean, Has, Agrees, vars, memory, disk, world
<1>2. Owned'
  BY DEF ApartInv, Owned, Taken, vars, memory
<1>3. AtRest'
  BY <1>1 DEF ApartInv, AtRest, vars, world
<1>4. ASSUME NEW t \in Threads
      PROVE  Knows(t)'
  <2>1. /\ Added(t)' <=> Added(t)
        /\ Uses(t)' <=> Uses(t)
        /\ Taken(t)' <=> Taken(t)
    BY DEF Added, Uses, Taken, vars
  <2>2. /\ Agrees(th[t].oid)' <=> Agrees(th[t].oid)
        /\ Has(th[t].oid)' <=> Has(th[t].oid)
    BY DEF Agrees, Has, Clean, vars, memory, disk, world
  <2> QED BY <1>1, <2>1, <2>2 DEF ApartInv, Knows, vars, memory, disk
<1> QED BY <1>1, <1>2, <1>3, <1>4 DEF ApartInv

\* The hash table is asked, in terms of Has.
LEMMA FoundIs == \A o : Found(o) = {} <=> ~Has(o)
BY DEF Found, Has

LEMMA StartApart ==
  ASSUME IInv, IInv', ApartInv, Apart, NEW t \in Threads, NEW op \in Ops, NEW o \in Oids,
         NEW off \in Offsets, Start(t, op, o, off)
  PROVE  ApartInv'
<1>1. \A u \in Threads : th[u].oid # o
  BY IdleIs, Numbers DEF Start, Apart, OneThread, IInv, PathInv, Working, OnPath, At, Added, Uses,
     Taken, Opening, Listing, Closing
<1>2. up /\ up' /\ Quiet
  BY DEF Start, Quiet, memory, disk, IInv, TypeOK
<1>3. /\ th'[t].oid = o /\ th'[t].pc \in {"exists", "access"}
      /\ \A u \in Threads \ {t} : th'[u] = th[u]
  BY DEF Start, IInv, TypeOK, Idle
<1>4. Agrees(o)
  BY <1>1, <1>2 DEF ApartInv, AtRest
<1>5. Kept' /\ Once' /\ \A p \in Oids : Local(p) /\ (Agrees(p) => Agrees(p)')
  BY <1>2, QuietLocal DEF ApartInv, IInv, TypeOK
<1>6. ~Taken(t)
  BY DEF Start, At, Taken, Closing
<1>7. Owned'
  BY <1>2, <1>3, <1>6 DEF ApartInv, Owned, Quiet, Taken
<1>8. Sole'
  BY <1>1, <1>3 DEF ApartInv, Sole
<1>9. ASSUME NEW u \in Threads
      PROVE  Knows(u)'
  <2>1. CASE u # t
    BY <1>1, <1>3, <1>5, <2>1, OthersKnow DEF ApartInv, IInv, TypeOK
  <2>2. CASE u = t
    <3>1. ~Added(t)' /\ ~Uses(t)' /\ ~Taken(t)'
      BY <1>3 DEF Added, Uses, Taken, Opening, Listing, Closing
    <3> QED BY <1>3, <1>4, <1>5, <2>2, <3>1 DEF Knows
  <2> QED BY <2>1, <2>2
<1>10. WhenDown'
  BY <1>2 DEF WhenDown
<1>11. AtRest'
  <2> SUFFICES ASSUME NEW p \in Oids, \A u \in Threads : th'[u].oid # p
               PROVE  Agrees(p)'
    BY DEF AtRest
  <2>1. th[t].oid # p
    <3>1. th[t] = Idle
      BY DEF Start, IInv, PathInv, Working, OnPath, At, Added, Uses, Taken, Opening, Listing,
         Closing
    <3> QED BY <3>1, IdleIs, Numbers
  <2>2. \A u \in Threads : th[u].oid # p
    BY <1>3, <2>1
  <2> QED BY <1>2, <1>5, <2>2 DEF ApartInv, AtRest
<1> QED BY <1>2, <1>5, <1>7, <1>8, <1>9, <1>10, <1>11 DEF ApartInv

LEMMA RestartApart ==
  ASSUME IInv, ApartInv, Restart
  PROVE  ApartInv'
<1>1. ~up /\ up' /\ (\A t \in Threads : th'[t] = Idle) /\ ~Clean' /\ dir' = dir
  BY DEF Restart, ApartInv, WhenDown, Clean, disk
<1>2. /\ hash' = dir /\ \A c \in dir : c \in Oids /\ c \in Cells
      /\ \A c \in Cells : el'[c] = IF c \in dir THEN Fresh(c) ELSE Free(0)
  BY Numbers DEF Restart, Loaded, IInv, TypeOK
<1>3. /\ \A c \in dir : el'[c].live /\ el'[c].id = c
      /\ \A c \in Cells \ dir : ~el'[c].live
  <2>1. ASSUME NEW c \in dir PROVE el'[c].live /\ el'[c].id = c
    <3>1. el'[c] = Fresh(c)
      BY <1>2
    <3> QED BY <3>1 DEF Fresh
  <2>2. ASSUME NEW c \in Cells \ dir PROVE ~el'[c].live
    <3>1. el'[c] = Free(0)
      BY <1>2
    <3> QED BY <3>1 DEF Free
  <2> QED BY <2>1, <2>2
<1>4. Kept' /\ Owned' /\ Once'
  BY <1>2, <1>3 DEF Kept, Owned, Once
<1>5. \A o \in Oids : Agrees(o)'
  BY <1>1, <1>2, <1>3 DEF Agrees, Has
<1>6. Sole' /\ WhenDown' /\ AtRest'
  BY <1>1, <1>5, IdleIs DEF Sole, WhenDown, AtRest
<1>7. \A t \in Threads : Knows(t)'
  BY <1>1 DEF Knows, Idle, Added, Uses, Taken, Listing, Closing, Opening
<1> QED BY <1>4, <1>6, <1>7 DEF ApartInv

LEMMA ExistsApart ==
  ASSUME IInv, IInv', ApartInv, NEW t \in Threads, Exists(t)
  PROVE  ApartInv'
<1>1. Ready(t)
  BY AtWork DEF Exists, At
<1>2. PICK o \in Oids : o = th[t].oid
  BY <1>1 DEF Ready, Working
<1>3. Quiet
  BY DEF Exists, Quiet, memory, disk, world
<1>4. Local(o) /\ Kept' /\ Once' /\ (Agrees(o) => Agrees(o)') /\ Untouched(o) /\ (Clean' <=> Clean)
  BY <1>2, <1>3, QuietLocal DEF ApartInv, IInv, TypeOK, Local
<1>5. ~Taken(t) /\ \A u \in Threads \ {t} : th'[u] = th[u]
  BY <1>1 DEF Exists, At, Taken, Closing, Goto, Return, OpenOidFails, Ready
<1>6. Owned'
  BY <1>3, <1>5 DEF ApartInv, Owned, Quiet, Taken
<1>7. Agrees(o)
  BY <1>2 DEF Exists, At, ApartInv, Knows
<1>8. CASE Found(o) = {}
  <2>1. th'[t] = Idle
    BY <1>1, <1>2, <1>8, ReturnIs DEF Exists, Ready
  <2> QED BY <1>1, <1>2, <1>3, <1>4, <1>5, <1>6, <1>7, <2>1, ThreadStep DEF Quiet
<1>9. CASE Found(o) # {}
  <2>1. th'[t].pc \in {"hash", "find"} /\ th'[t].oid = o
    BY <1>1, <1>2, <1>9 DEF Exists, Goto, Ready, Thread
  <2>2. ~Added(t)' /\ ~Uses(t)' /\ ~Taken(t)'
    BY <2>1 DEF Added, Uses, Taken, Opening, Listing, Closing
  <2>3. Has(o)'
    BY <1>4, <1>9, FoundIs DEF Untouched
  <2>4. Knows(t)'
    BY <1>4, <1>7, <2>1, <2>2, <2>3 DEF Knows
  <2> QED BY <1>1, <1>2, <1>3, <1>4, <1>5, <1>6, <2>1, <2>4, ThreadStep DEF Quiet
<1> QED BY <1>8, <1>9

LEMMA AccessApart ==
  ASSUME IInv, IInv', ApartInv, NEW t \in Threads, Access(t)
  PROVE  ApartInv'
<1>1. Ready(t)
  BY AtWork DEF Access, At
<1>2. PICK o \in Oids : o = th[t].oid
  BY <1>1 DEF Ready, Working
<1>3. Quiet
  BY DEF Access, Quiet, memory, disk, world
<1>4. Local(o) /\ Kept' /\ Once' /\ (Agrees(o) => Agrees(o)') /\ Untouched(o) /\ (Clean' <=> Clean)
  BY <1>2, <1>3, QuietLocal DEF ApartInv, IInv, TypeOK, Local
<1>5. ~Taken(t) /\ \A u \in Threads \ {t} : th'[u] = th[u]
  BY <1>1 DEF Access, At, Taken, Closing, Goto, Return, OpenOidFails, Ready
<1>6. Owned'
  BY <1>3, <1>5 DEF ApartInv, Owned, Quiet, Taken
<1>7. Agrees(o)
  BY <1>2 DEF Access, At, ApartInv, Knows
<1>8. CASE o \in dir
  <2>1. th'[t] = Idle
    BY <1>1, <1>2, <1>8, ReturnIs DEF Access, Ready
  <2> QED BY <1>1, <1>2, <1>3, <1>4, <1>5, <1>6, <1>7, <2>1, ThreadStep DEF Quiet
<1>9. CASE o \notin dir
  <2>1. th'[t].pc = "creat" /\ th'[t].oid = o
    BY <1>1, <1>2, <1>9 DEF Access, Goto, Ready, Thread
  <2>2. ~Added(t)' /\ ~Uses(t)' /\ ~Taken(t)'
    BY <2>1 DEF Added, Uses, Taken, Opening, Listing, Closing
  <2>3. Knows(t)'
    BY <1>4, <1>7, <1>9, <2>1, <2>2 DEF Knows, Agrees, Untouched
  <2> QED BY <1>1, <1>2, <1>3, <1>4, <1>5, <1>6, <2>1, <2>3, ThreadStep DEF Quiet
<1> QED BY <1>8, <1>9

LEMMA FindOidApart ==
  ASSUME IInv, IInv', ApartInv, NEW t \in Threads, FindOid(t)
  PROVE  ApartInv'
<1>1. Ready(t)
  BY AtWork DEF FindOid, At
<1>2. PICK o \in Oids : o = th[t].oid
  BY <1>1 DEF Ready, Working
<1>3. Agrees(o) /\ Has(o)
  BY <1>2 DEF FindOid, At, ApartInv, Knows
<1>4. PICK c \in Found(o) :
        /\ th' = [th EXCEPT ![t].pc = "openOid", ![t].cell = c,
                            ![t].next = IF UsesMode(t) THEN "mode" ELSE "transfer"]
        /\ UNCHANGED <<memory, disk, io, world>>
  BY <1>2, <1>3, FoundIs DEF FindOid
<1>5. Quiet
  BY <1>4 DEF Quiet, memory, disk, world
<1>6. Local(o) /\ Kept' /\ Once' /\ Untouched(o) /\ (Clean' <=> Clean)
  BY <1>2, <1>5, QuietLocal DEF ApartInv, IInv, TypeOK, Local
<1>7. ~Taken(t) /\ \A u \in Threads \ {t} : th'[u] = th[u]
  BY <1>1, <1>4 DEF FindOid, At, Taken, Closing, Ready
<1>8. Owned'
  BY <1>5, <1>7 DEF ApartInv, Owned, Quiet, Taken
<1>9. th'[t].pc = "openOid" /\ th'[t].oid = o /\ th'[t].cell = c
  BY <1>1, <1>2, <1>4 DEF Ready, Thread
<1>10. ~Added(t)' /\ ~Taken(t)'
  BY <1>9 DEF Added, Taken, Listing, Closing
<1>11. c \in Cells /\ c \in hash' /\ el'[c].id = o /\ o \in dir' /\ (Clean' => o \in attr')
  BY <1>3, <1>4, <1>5, <1>6 DEF Found, Quiet, Agrees, IInv, TypeOK
<1>12. Knows(t)'
  BY <1>9, <1>10, <1>11 DEF Knows
<1> QED BY <1>1, <1>2, <1>5, <1>6, <1>7, <1>8, <1>9, <1>12, ThreadStep DEF Quiet

LEMMA CreatApart ==
  ASSUME IInv, IInv', ApartInv, NEW t \in Threads, Creat(t)
  PROVE  ApartInv'
<1>1. Ready(t)
  BY AtWork DEF Creat, At
<1>2. PICK o \in Oids : o = th[t].oid
  BY <1>1 DEF Ready, Working
<1>3. ~Has(o) /\ o \notin dir /\ (Clean => o \notin attr)
  BY <1>2 DEF Creat, At, ApartInv, Knows
<1>4. /\ UNCHANGED <<el, hash, attr, up, segv, crashes>>
      /\ \A p \in Oids \ {o} : p \in dir' <=> p \in dir
      /\ Clean' <=> Clean
      /\ \A p \in Oids : Has(p)' <=> Has(p)
  BY <1>2 DEF Creat, memory, world, Clean, Has
<1>5. Local(o)
  BY <1>4 DEF Local, Untouched
<1>6. ~Taken(t) /\ \A u \in Threads \ {t} : th'[u] = th[u]
  BY <1>1 DEF Creat, At, Taken, Closing, Goto, Return, Ready
<1>7. Kept' /\ Once' /\ Owned'
  BY <1>4, <1>6 DEF ApartInv, Kept, Once, Owned, Taken
<1>8. CASE FreeFds = {}
  <2>1. th'[t] = Idle /\ dir' = dir
    BY <1>1, <1>8, ReturnIs DEF Creat, Ready
  <2>2. Agrees(o)'
    BY <1>3, <1>4, <2>1 DEF Agrees
  <2> QED BY <1>1, <1>2, <1>4, <1>5, <1>6, <1>7, <2>1, <2>2, ThreadStep
<1>9. CASE FreeFds # {}
  <2>1. th'[t].pc = "addOid" /\ th'[t].oid = o /\ o \in dir'
    BY <1>1, <1>2, <1>9 DEF Creat, Goto, Ready, Thread
  <2>2. ~Added(t)' /\ ~Uses(t)' /\ ~Taken(t)'
    BY <2>1 DEF Added, Uses, Taken, Opening, Listing, Closing
  <2>3. Knows(t)'
    BY <1>3, <1>4, <2>1, <2>2 DEF Knows
  <2> QED BY <1>1, <1>2, <1>4, <1>5, <1>6, <1>7, <2>1, <2>3, ThreadStep
<1> QED BY <1>8, <1>9

LEMMA AddOidApart ==
  ASSUME IInv, IInv', ApartInv, NEW t \in Threads, AddOid(t)
  PROVE  ApartInv'
<1>1. Ready(t)
  BY AtWork DEF AddOid, At
<1>2. PICK o \in Oids : o = th[t].oid
  BY <1>1 DEF Ready, Working
<1>3. ~Has(o) /\ o \in dir /\ (Clean => o \notin attr)
  BY <1>2 DEF AddOid, At, ApartInv, Knows
<1>4. PICK c \in Cells :
        /\ ~el[c].live /\ el' = [el EXCEPT ![c] = Fresh(o)] /\ hash' = hash \cup {c}
        /\ th' = [th EXCEPT ![t].pc = "initMode", ![t].cell = c, ![t].next = "setattr"]
  BY <1>2 DEF AddOid
<1>5. /\ el'[c].id = o /\ el'[c].live /\ c \notin hash
      /\ \A d \in Cells \ {c} : el'[d] = el[d]
  <2>1. el'[c] = Fresh(o) /\ \A d \in Cells \ {c} : el'[d] = el[d]
    BY <1>1, <1>4 DEF Ready, MemoryTyped
  <2> QED BY <1>4, <2>1 DEF Fresh, ApartInv, Kept
<1>6. UNCHANGED <<dir, attr, up, segv, crashes>> /\ (Clean' <=> Clean)
  BY DEF AddOid, disk, world, Clean
<1>7. \A p \in Oids \ {o} : Has(p)' <=> Has(p)
  BY <1>4, <1>5 DEF Has, IInv, TypeOK
<1>8. Local(o)
  BY <1>4, <1>5, <1>6, <1>7 DEF Local, Untouched
<1>9. ~Taken(t) /\ \A u \in Threads \ {t} : th'[u] = th[u]
  BY <1>1, <1>4 DEF AddOid, At, Taken, Closing, Ready
<1>10. Kept' /\ Owned'
  BY <1>4, <1>5, <1>9 DEF ApartInv, Kept, Owned, Taken, IInv, TypeOK
<1>11. \A d \in Cells : el[d].live => el[d].id # o
  <2> SUFFICES ASSUME NEW d \in Cells, el[d].live, el[d].id = o PROVE FALSE
    OBVIOUS
  <2>1. d \notin hash
    BY <1>3 DEF Has
  <2>2. PICK u \in Threads : Taken(u) /\ th[u].cell = d
    BY <2>1 DEF ApartInv, Owned
  <2>3. th[u].oid = o
    BY <2>2 DEF ApartInv, Knows
  <2>4. u = t
    BY <1>2, <2>3, Numbers DEF ApartInv, Sole
  <2> QED BY <1>9, <2>2, <2>4
<1>12. Once'
  BY <1>5, <1>11 DEF ApartInv, Once
<1>13. th'[t].pc = "initMode" /\ th'[t].oid = o /\ th'[t].cell = c
  BY <1>1, <1>2, <1>4 DEF Ready, Thread
<1>14. ~Uses(t)' /\ ~Taken(t)'
  BY <1>13 DEF Uses, Taken, Opening, Listing, Closing
<1>15. c \in hash' /\ o \in dir' /\ (Clean' => o \notin attr')
  BY <1>3, <1>4, <1>6
<1>16. Knows(t)'
  BY <1>5, <1>13, <1>14, <1>15 DEF Knows
<1> QED BY <1>1, <1>2, <1>6, <1>8, <1>9, <1>10, <1>12, <1>13, <1>16, ThreadStep

LEMMA SetAttrApart ==
  ASSUME IInv, IInv', ApartInv, NEW t \in Threads, SetAttr(t)
  PROVE  ApartInv'
<1>1. Ready(t)
  BY AtWork DEF SetAttr, At
<1>2. PICK o \in Oids : o = th[t].oid
  BY <1>1 DEF Ready, Working
<1>3. Added(t) /\ ~Taken(t)
  BY <1>1 DEF SetAttr, At, Ready, Working, OnPath, Added, Uses, Taken, Opening, Listing, Closing
<1>4. Has(o) /\ o \in dir
  BY <1>2, <1>3 DEF ApartInv, Knows, Has
<1>5. /\ UNCHANGED <<el, hash, dir, up, segv, crashes>> /\ o \in attr'
      /\ \A p \in Oids \ {o} : p \in attr' <=> p \in attr
      /\ Clean' <=> Clean
      /\ \A p \in Oids : Has(p)' <=> Has(p)
  BY <1>2 DEF SetAttr, memory, world, Clean, Has
<1>6. Local(o) /\ Agrees(o)'
  BY <1>4, <1>5 DEF Local, Untouched, Agrees
<1>7. th'[t] = Idle /\ \A u \in Threads \ {t} : th'[u] = th[u]
  BY <1>1, ReturnIs DEF SetAttr, Ready
<1>8. Kept' /\ Once' /\ Owned'
  BY <1>3, <1>5, <1>7 DEF ApartInv, Kept, Once, Owned, Taken
<1> QED BY <1>1, <1>2, <1>5, <1>6, <1>7, <1>8, ThreadStep

LEMMA OpenFailsApart ==
  ASSUME IInv, IInv', ApartInv, NEW t \in Threads, OpenFails(t)
  PROVE  ApartInv'
<1>1. Ready(t)
  BY AtWork DEF OpenFails, At
<1>2. PICK o \in Oids : o = th[t].oid
  BY <1>1 DEF Ready, Working
<1>3. CASE Segfault
  BY <1>3, SegfaultApart
<1>4. CASE ~Segfault
  <2>1. /\ el' = [el EXCEPT ![th[t].cell].fd = Bad] /\ Return(t)
        /\ UNCHANGED <<hash, openList, fdtab, disk, io, world>>
    BY <1>4 DEF OpenFails
  <2>2. Quiet
    BY <1>1, <2>1 DEF Quiet, Ready, MemoryTyped, Element, disk, world
  <2>3. Uses(t)
    BY <1>1 DEF OpenFails, At, Ready, Working, OnPath, Uses, Added, Taken, Opening, Listing, Closing
  <2>4. th'[t] = Idle /\ \A u \in Threads \ {t} : th'[u] = th[u]
    BY <1>1, <2>1, ReturnIs DEF Ready
  <2> QED BY <1>1, <2>2, <2>3, <2>4, UsesReturn
<1> QED BY <1>3, <1>4

LEMMA EvictApart ==
  ASSUME IInv, IInv', ApartInv, NEW t \in Threads, Evict(t)
  PROVE  ApartInv'
<1>1. Ready(t)
  BY AtWork DEF Evict, At
<1>2. PICK o \in Oids : o = th[t].oid
  BY <1>1 DEF Ready, Working
<1>3. CASE Segfault
  BY <1>3, SegfaultApart
<1>4. CASE ~Segfault
  <2>1. /\ th' = [th EXCEPT ![t].pc = "delist", ![t].victim = Last(openList),
                            ![t].back = "unshift"]
        /\ UNCHANGED <<memory, disk, io, world>>
    BY <1>4 DEF Evict
  <2>2. Quiet
    BY <2>1 DEF Quiet, memory, disk, world
  <2>3. /\ th[t].pc \notin Without /\ th'[t].pc \notin Without
        /\ th'[t].op = th[t].op /\ th'[t].oid = th[t].oid /\ th'[t].cell = th[t].cell
        /\ \A u \in Threads \ {t} : th'[u] = th[u]
    BY <1>1, <2>1 DEF Evict, Ready, Thread, At, Without
  <2> QED BY <1>1, <2>2, <2>3, ContinuesIf, ContinuesApart
<1> QED BY <1>3, <1>4

LEMMA SeekApart ==
  ASSUME IInv, IInv', ApartInv, NEW t \in Threads, Seek(t)
  PROVE  ApartInv'
<1>1. Ready(t)
  BY AtWork DEF Seek, At
<1>2. PICK o \in Oids : o = th[t].oid
  BY <1>1 DEF Ready, Working
<1>3. Quiet
  BY DEF Seek, Quiet, disk, world
<1>4. CASE Goto(t, "transfer")
  <2>1. /\ th[t].pc \notin Without /\ th'[t].pc \notin Without
        /\ th'[t].op = th[t].op /\ th'[t].oid = th[t].oid /\ th'[t].cell = th[t].cell
        /\ \A u \in Threads \ {t} : th'[u] = th[u]
    BY <1>1, <1>4 DEF Seek, Ready, Thread, Goto, At, Without
  <2> QED BY <1>1, <1>3, <2>1, ContinuesIf, ContinuesApart
<1>5. CASE Return(t)
  <2>1. Uses(t)
    BY <1>1 DEF Seek, At, Ready, Working, OnPath, Uses, Added, Taken, Opening, Listing, Closing
  <2>2. th'[t] = Idle /\ \A u \in Threads \ {t} : th'[u] = th[u]
    BY <1>1, <1>5, ReturnIs DEF Ready, Seek
  <2> QED BY <1>1, <1>3, <2>1, <2>2, UsesReturn
<1> QED BY <1>4, <1>5 DEF Seek

LEMMA TransferApart ==
  ASSUME IInv, IInv', ApartInv, NEW t \in Threads, Transfer(t)
  PROVE  ApartInv'
<1>1. Ready(t)
  BY AtWork DEF Transfer, At
<1>2. PICK o \in Oids : o = th[t].oid
  BY <1>1 DEF Ready, Working
<1>3. Quiet
  BY DEF Transfer, Quiet, disk, world
<1>4. Uses(t)
  BY <1>1 DEF Transfer, At, Ready, Working, OnPath, Uses, Added, Taken, Opening, Listing, Closing
<1>5. th'[t] = Idle /\ \A u \in Threads \ {t} : th'[u] = th[u]
  BY <1>1, ReturnIs DEF Ready, Transfer
<1> QED BY <1>1, <1>3, <1>4, <1>5, UsesReturn

LEMMA HashRemoveApart ==
  ASSUME IInv, IInv', ApartInv, NEW t \in Threads, HashRemove(t)
  PROVE  ApartInv'
<1>1. Ready(t)
  BY AtWork DEF HashRemove, At
<1>2. PICK o \in Oids : o = th[t].oid
  BY <1>1 DEF Ready, Working
<1>3. Agrees(o) /\ Has(o)
  BY <1>2 DEF HashRemove, At, ApartInv, Knows
<1>4. PICK c \in Found(o) :
        hash' = hash \ {c} /\ th' = [th EXCEPT ![t].pc = "checkClosed", ![t].cell = c]
  BY <1>2, <1>3, FoundIs DEF HashRemove
<1>5. /\ UNCHANGED <<el, dir, attr, up, segv, crashes>> /\ (Clean' <=> Clean)
      /\ c \in hash /\ c \in Cells /\ el[c].id = o /\ el[c].live
  BY <1>4 DEF HashRemove, disk, world, Clean, Found, IInv, TypeOK, ApartInv, Kept
<1>6. /\ \A p \in Oids \ {o} : Has(p)' <=> Has(p)
      /\ ~Has(o)'
  <2>1. \A d \in hash' : d \in Cells /\ el[d].live /\ el[d].id # o
    BY <1>4, <1>5 DEF ApartInv, Kept, Once, IInv, TypeOK
  <2> QED BY <1>4, <1>5, <2>1 DEF Has
<1>7. Local(o)
  BY <1>4, <1>5, <1>6 DEF Local, Untouched
<1>8. ~Taken(t) /\ \A u \in Threads \ {t} : th'[u] = th[u]
  BY <1>1, <1>4 DEF HashRemove, At, Taken, Closing, Ready
<1>9. th'[t].pc = "checkClosed" /\ th'[t].oid = o /\ th'[t].cell = c /\ th'[t].op = th[t].op
  BY <1>1, <1>2, <1>4 DEF Ready, Thread
<1>10. Taken(t)' /\ ~Added(t)' /\ ~Uses(t)'
  <2>1. th[t].op = "remove"
    BY <1>1 DEF HashRemove, At, Ready, Working, OnPath, Added, Uses, Taken, Opening, Listing, Closing
  <2> QED BY <1>9, <2>1 DEF Added, Uses, Taken, Transfers
<1>11. Kept' /\ Once'
  BY <1>4, <1>5 DEF ApartInv, Kept, Once
<1>12. Owned'
  <2> SUFFICES ASSUME NEW d \in Cells, el[d].live
               PROVE  /\ el[d].id \in Oids
                      /\ d \in hash' \/ \E u \in Threads : Taken(u)' /\ th'[u].cell = d
    BY <1>5 DEF Owned
  <2>1. /\ el[d].id \in Oids
        /\ d \in hash \/ \E u \in Threads : Taken(u) /\ th[u].cell = d
    BY DEF ApartInv, Owned
  <2>2. CASE d = c
    BY <1>9, <1>10, <2>1, <2>2
  <2>3. CASE d \in hash /\ d # c
    BY <1>4, <2>1, <2>3
  <2>4. CASE \E u \in Threads : Taken(u) /\ th[u].cell = d
    BY <1>8, <2>1, <2>4 DEF Taken
  <2> QED BY <2>1, <2>2, <2>3, <2>4
<1>13. c \notin hash' /\ el'[c].live /\ el'[c].id = o /\ o \in dir' /\ (Clean' => o \in attr')
  BY <1>3, <1>4, <1>5 DEF Agrees
<1>14. Knows(t)'
  BY <1>6, <1>9, <1>10, <1>13 DEF Knows
<1> QED BY <1>1, <1>2, <1>5, <1>7, <1>8, <1>9, <1>11, <1>12, <1>14, ThreadStep

LEMMA FreeElementApart ==
  ASSUME IInv, IInv', ApartInv, NEW t \in Threads, FreeElement(t)
  PROVE  ApartInv'
<1>1. Ready(t)
  BY AtWork DEF FreeElement, At
<1>2. PICK o \in Oids : o = th[t].oid
  BY <1>1 DEF Ready, Working
<1>3. Taken(t)
  BY <1>1 DEF FreeElement, At, Ready, Working, OnPath, Uses, Added, Taken, Opening, Listing, Closing
<1>4. PICK c \in Cells : c = th[t].cell
  BY <1>1, <1>3 DEF Ready, Working
<1>5. /\ c \notin hash /\ el[c].live /\ el[c].id = o /\ ~Has(o) /\ o \in dir
      /\ Clean => o \in attr
  BY <1>1, <1>2, <1>3, <1>4 DEF ApartInv, Knows, Taken, Closing
<1>6. PICK fd \in Fds \cup {0, Bad} : el' = [el EXCEPT ![c] = Free(fd)]
  BY <1>4 DEF FreeElement
<1>7. ~el'[c].live /\ \A d \in Cells \ {c} : el'[d] = el[d]
  <2>1. el'[c] = Free(fd) /\ \A d \in Cells \ {c} : el'[d] = el[d]
    BY <1>1, <1>6 DEF Ready, MemoryTyped
  <2> QED BY <2>1 DEF Free
<1>8. /\ UNCHANGED <<hash, dir, attr, up, segv, crashes>> /\ (Clean' <=> Clean)
      /\ \A p \in Oids : Has(p)' <=> Has(p)
  <2>1. UNCHANGED <<hash, dir, attr, up, segv, crashes>>
    BY DEF FreeElement, disk, world
  <2>2. \A d \in hash : el'[d].id = el[d].id
    BY <1>5, <1>7 DEF IInv, TypeOK
  <2> QED BY <2>1, <2>2 DEF Clean, Has
<1>9. Local(o)
  BY <1>5, <1>7, <1>8 DEF Local, Untouched
<1>10. th'[t].pc = "unlink" /\ th'[t].oid = o /\ \A u \in Threads \ {t} : th'[u] = th[u]
  BY <1>1, <1>2 DEF FreeElement, Goto, Ready, Thread
<1>11. ~Added(t)' /\ ~Uses(t)' /\ ~Taken(t)'
  BY <1>10 DEF Added, Uses, Taken, Opening, Listing, Closing
<1>12. Kept' /\ Once'
  <2>1. hash \in SUBSET Cells /\ \A d \in hash : d # c
    BY <1>5 DEF IInv, TypeOK
  <2>2. Kept'
    BY <1>7, <1>8, <2>1 DEF ApartInv, Kept
  <2>3. Once'
    BY <1>4, <1>7 DEF ApartInv, Once
  <2> QED BY <2>2, <2>3
<1>13. Owned'
  BY <1>4, <1>7, <1>8, <1>10 DEF ApartInv, Owned, Taken
<1>14. Knows(t)'
  BY <1>5, <1>8, <1>10, <1>11 DEF Knows
<1> QED BY <1>1, <1>2, <1>8, <1>9, <1>10, <1>12, <1>13, <1>14, ThreadStep

LEMMA UnlinkApart ==
  ASSUME IInv, IInv', ApartInv, NEW t \in Threads, Unlink(t)
  PROVE  ApartInv'
<1>1. Ready(t)
  BY AtWork DEF Unlink, At
<1>2. PICK o \in Oids : o = th[t].oid
  BY <1>1 DEF Ready, Working
<1>3. ~Has(o) /\ o \in dir /\ (Clean => o \in attr)
  BY <1>2 DEF Unlink, At, ApartInv, Knows
<1>4. /\ UNCHANGED <<el, hash, attr, up, segv, crashes>> /\ o \notin dir'
      /\ \A p \in Oids \ {o} : p \in dir' <=> p \in dir
      /\ Clean' <=> Clean
      /\ \A p \in Oids : Has(p)' <=> Has(p)
  BY <1>2 DEF Unlink, memory, world, Clean, Has
<1>5. Local(o)
  BY <1>4 DEF Local, Untouched
<1>6. /\ th'[t].pc = "rmattrs" /\ th'[t].oid = o /\ ~Taken(t)
      /\ \A u \in Threads \ {t} : th'[u] = th[u]
  BY <1>1, <1>2, <1>3 DEF Unlink, At, Taken, Closing, Goto, Ready, Thread
<1>7. ~Added(t)' /\ ~Uses(t)' /\ ~Taken(t)'
  BY <1>6 DEF Added, Uses, Taken, Opening, Listing, Closing
<1>8. Kept' /\ Once' /\ Owned'
  BY <1>4, <1>6 DEF ApartInv, Kept, Once, Owned, Taken
<1>9. Knows(t)'
  BY <1>3, <1>4, <1>6, <1>7 DEF Knows
<1> QED BY <1>1, <1>2, <1>4, <1>5, <1>6, <1>8, <1>9, ThreadStep

LEMMA RemoveAttrsApart ==
  ASSUME IInv, IInv', ApartInv, NEW t \in Threads, RemoveAttrs(t)
  PROVE  ApartInv'
<1>1. Ready(t)
  BY AtWork DEF RemoveAttrs, At
<1>2. PICK o \in Oids : o = th[t].oid
  BY <1>1 DEF Ready, Working
<1>3. ~Has(o) /\ o \notin dir
  BY <1>2 DEF RemoveAttrs, At, ApartInv, Knows
<1>4. /\ UNCHANGED <<el, hash, dir, up, segv, crashes>> /\ o \notin attr'
      /\ \A p \in Oids \ {o} : p \in attr' <=> p \in attr
      /\ Clean' <=> Clean
      /\ \A p \in Oids : Has(p)' <=> Has(p)
  BY <1>2 DEF RemoveAttrs, memory, world, Clean, Has
<1>5. Local(o) /\ Agrees(o)'
  BY <1>3, <1>4 DEF Local, Untouched, Agrees
<1>6. th'[t] = Idle /\ ~Taken(t) /\ \A u \in Threads \ {t} : th'[u] = th[u]
  BY <1>1, ReturnIs DEF RemoveAttrs, Ready, At, Taken, Closing
<1>7. Kept' /\ Once' /\ Owned'
  BY <1>4, <1>6 DEF ApartInv, Kept, Once, Owned, Taken
<1> QED BY <1>1, <1>2, <1>4, <1>5, <1>6, <1>7, ThreadStep

LEMMA StepApart ==
  ASSUME IInv, IInv', ApartInv, NEW t \in Threads, Step(t)
  PROVE  ApartInv'
<1>1. CASE Exists(t) \/ Access(t) \/ Creat(t) \/ AddOid(t) \/ SetAttr(t)
  BY <1>1, ExistsApart, AccessApart, CreatApart, AddOidApart, SetAttrApart
<1>2. CASE FindOid(t) \/ OpenFails(t) \/ Evict(t) \/ Seek(t) \/ Transfer(t)
  BY <1>2, FindOidApart, OpenFailsApart, EvictApart, SeekApart, TransferApart
<1>3. CASE HashRemove(t) \/ FreeElement(t) \/ Unlink(t) \/ RemoveAttrs(t)
  BY <1>3, HashRemoveApart, FreeElementApart, UnlinkApart, RemoveAttrsApart
<1>4. CASE CheckFd(t) \/ OpenFile(t) \/ SetMode(t) \/ CheckMode(t) \/ CheckAgain(t) \/ CountOpen(t)
  <2>1. Ready(t) /\ Continues(t)
    BY <1>4, CheckFdContinues, OpenFileContinues, SetModeContinues, CheckModeContinues,
       CheckAgainContinues, CountOpenContinues
  <2> QED BY <2>1, ContinuesApart
<1>5. CASE Delist(t) \/ Close(t) \/ ClearFd(t) \/ ClearMode(t) \/ Unshift(t) \/ CheckClosed(t)
  <2>1. Ready(t) /\ Continues(t)
    BY <1>5, DelistContinues, CloseContinues, ClearFdContinues, ClearModeContinues,
       UnshiftContinues, CheckClosedContinues
  <2> QED BY <2>1, ContinuesApart
<1> QED BY <1>1, <1>2, <1>3, <1>4, <1>5 DEF Step

LEMMA InitApart == Init => ApartInv
<1> SUFFICES ASSUME Init PROVE ApartInv
  OBVIOUS
<1>1. (\A t \in Threads : th[t] = Idle) /\ up /\ hash = Stored /\ dir = Stored /\ attr = Stored
  BY DEF Init
<1>2. /\ \A c \in Stored : c \in Oids /\ c \in Cells
      /\ \A c \in Cells : el[c] = IF c \in Stored THEN Fresh(c) ELSE Free(0)
  BY Numbers DEF Init
<1>3. /\ \A c \in Stored : el[c].live /\ el[c].id = c
      /\ \A c \in Cells \ Stored : ~el[c].live
  <2>1. ASSUME NEW c \in Stored PROVE el[c].live /\ el[c].id = c
    <3>1. el[c] = Fresh(c)
      BY <1>2
    <3> QED BY <3>1 DEF Fresh
  <2>2. ASSUME NEW c \in Cells \ Stored PROVE ~el[c].live
    <3>1. el[c] = Free(0)
      BY <1>2
    <3> QED BY <3>1 DEF Free
  <2> QED BY <2>1, <2>2
<1>4. Kept /\ Owned /\ Once
  BY <1>1, <1>2, <1>3 DEF Kept, Owned, Once
<1>5. \A o \in Oids : Agrees(o)
  BY <1>1, <1>3 DEF Agrees, Has
<1>6. Sole /\ WhenDown /\ AtRest
  BY <1>1, <1>5, IdleIs DEF Sole, WhenDown, AtRest
<1>7. \A t \in Threads : Knows(t)
  BY <1>1 DEF Knows, Idle, Added, Uses, Taken, Listing, Closing, Opening
<1> QED BY <1>4, <1>6, <1>7 DEF ApartInv

LEMMA NextApart ==
  ASSUME Apart, IInv, IInv', ApartInv, [Next]_vars
  PROVE  ApartInv'
<1>1. CASE \E t \in Threads : Step(t)
  BY <1>1, StepApart
<1>2. CASE \E t \in Threads, op \in Ops, o \in Oids, off \in Offsets : Start(t, op, o, off)
  BY <1>2, StartApart
<1>3. CASE Crash \/ Restart
  BY <1>3, CrashApart, RestartApart
<1>4. CASE UNCHANGED vars
  BY <1>4, StutterApart
<1> QED BY <1>1, <1>2, <1>3, <1>4 DEF Next, Finished

(***************************************************************************)
(* When no two operations on an object overlap, in spite of crashes        *)
(* anywhere, of failing open()s and of descriptors closed for others: an   *)
(* object that nobody works on is in the hash table if and only if its     *)
(* file is in the directory, and until the first crash if and only if it   *)
(* has its container's attribute.                                          *)
(***************************************************************************)
THEOREM StoreTablesAgree ==
  ASSUME Apart
  PROVE  Spec => []TablesAgree
<1>1. IInv /\ ApartInv => TablesAgree
  <2> SUFFICES ASSUME ApartInv, up, NEW o \in Oids, \A t \in Threads : th[t].oid # o
               PROVE  /\ o \in dir <=> Found(o) # {}
                      /\ crashes = 0 /\ ~segv => (o \in attr <=> o \in dir)
    BY DEF TablesAgree, Busy
  <2>1. Agrees(o)
    BY DEF ApartInv, AtRest
  <2> QED BY <2>1, FoundIs DEF Agrees, Clean
<1>2. Init => IInv /\ ApartInv
  BY InitTypes, InitApart
<1>3. IInv /\ ApartInv /\ [Next]_vars => (IInv /\ ApartInv)'
  BY NextTypes, NextApart
<1> QED BY <1>1, <1>2, <1>3, PTL DEF Spec
-----------------------------------------------------------------------------
(* Descriptors.                                                            *)

\* No thread closes the file of another object for its own.
NoEviction == \A t \in Threads : ~At(t, "evict")

\* One thread, and elements are never freed.
Alone == OneThread /\ "remove" \notin Ops

\* The descriptor of an element is closed, and the element does not show it yet.
Shut(c) == \E t \in Threads : At(t, "clearFd") /\ th[t].victim = c

\* The descriptor in an element is open, and of the object's file.
Known == \A c \in Cells : el[c].live /\ el[c].fd \in Fds /\ ~Shut(c) =>
           fdtab[el[c].fd].file = el[c].id

\* Every open descriptor is in an element.
Holds(c, fd) == el[c].live /\ el[c].fd = fd /\ el[c].id = fdtab[fd].file /\ ~Shut(c)
FdsHeld == \A fd \in Fds : IsOpen(fd) => \E c \in Cells : Holds(c, fd)

\* What an operation knows of descriptors at each place of its path.
Safe(t) ==
  LET pc == th[t].pc
      e  == el[th[t].cell]
  IN  /\ pc \in {"open", "reopen"} => e.fd = 0
      /\ pc = "clearMode" => el[th[t].victim].fd = 0
      /\ pc = "free" => e.fd \notin Fds
      /\ pc \in Closing =>
           /\ el[th[t].victim].live
           /\ th[t].back \in {"free", "again"} \/ ~OneThread => th[t].victim = th[t].cell
      /\ pc = "transfer" /\ th[t].op # "trunc" =>
           e.fd = 0 \/ (IsOpen(e.fd) /\ fdtab[e.fd].pos = th[t].off)
      /\ Alone => th[t].op # "remove"

ListLive == Alone => \A i \in DOMAIN openList : el[openList[i]].live

FdInv == Known /\ FdsHeld /\ ListLive /\ \A t \in Threads : Safe(t)

\* No other thread works with a cell.
Mine(t, c) == \A u \in Threads \ {t} :
  /\ Held(u) => th[u].cell # c
  /\ th[u].pc \in Closing => th[u].victim # c

LEMMA HeldCell ==
  ASSUME ApartInv, NEW t \in Threads, Held(t)
  PROVE  el[th[t].cell].live /\ el[th[t].cell].id = th[t].oid
BY DEF ApartInv, Knows, Held, Kept

LEMMA ClosingHeld ==
  ASSUME IInv, NEW t \in Threads, th[t].pc \in Closing
  PROVE  Held(t) /\ th[t].cell \in Cells /\ th[t].victim \in Cells
BY IdleIs DEF IInv, PathInv, Working, OnPath, Held, Added, Uses, Taken, Closing, ReturnsFromClose

LEMMA CellMine ==
  ASSUME IInv, ApartInv, FdInv, NEW t \in Threads, Held(t)
  PROVE  Mine(t, th[t].cell) /\ th[t].cell \in Cells
<1>1. Working(t)
  BY IdleIs DEF IInv, PathInv, Held, Added, Uses, Taken, Opening, Listing, Closing
<1>2. th[t].cell \in Cells /\ th[t].oid \in Oids
  BY <1>1 DEF Working, Held
<1>3. ASSUME NEW u \in Threads \ {t}, Held(u)
      PROVE  th[u].cell # th[t].cell
  <2>1. th[u].oid # th[t].oid
    BY <1>2, Numbers DEF ApartInv, Sole
  <2> QED BY <1>3, <2>1, HeldCell
<1>4. ASSUME NEW u \in Threads \ {t}, th[u].pc \in Closing
      PROVE  th[u].victim # th[t].cell
  <2>1. Held(u) /\ th[u].victim = th[u].cell
    BY <1>4, ClosingHeld DEF FdInv, Safe, OneThread
  <2> QED BY <1>3, <2>1
<1> QED BY <1>2, <1>3, <1>4 DEF Mine

LEMMA VictimMine ==
  ASSUME IInv, ApartInv, FdInv, NEW t \in Threads, th[t].pc \in Closing
  PROVE  Mine(t, th[t].victim) /\ th[t].victim \in Cells /\ el[th[t].victim].live
<1>1. Held(t) /\ th[t].victim \in Cells
  BY ClosingHeld
<1>2. CASE OneThread
  BY <1>1, <1>2 DEF OneThread, Mine, FdInv, Safe
<1>3. CASE ~OneThread
  BY <1>1, <1>3, CellMine DEF FdInv, Safe
<1> QED BY <1>2, <1>3

\* A descriptor is in one element.
LEMMA OneHolder ==
  ASSUME ApartInv, FdInv, NEW c \in Cells, NEW d \in Cells, el[c].live, el[d].live,
         ~Shut(c), ~Shut(d), el[c].fd \in Fds, el[c].fd = el[d].fd
  PROVE  c = d
BY DEF ApartInv, Once, FdInv, Known

\* A descriptor in an element is open.
LEMMA KnownOpen ==
  ASSUME IInv, ApartInv, FdInv, NEW c \in Cells, el[c].live, ~Shut(c), el[c].fd \in Fds
  PROVE  IsOpen(el[c].fd) /\ fdtab[el[c].fd].file = el[c].id /\ el[c].id \in Oids
<1>1. el[c].id \in Oids /\ fdtab[el[c].fd].file = el[c].id
  BY DEF FdInv, Known, ApartInv, Owned
<1> QED BY <1>1, Numbers DEF IsOpen, Closed

LEMMA MineOpen ==
  ASSUME NEW t \in Threads, NEW c, Mine(t, c), ~(At(t, "clearFd") /\ th[t].victim = c)
  PROVE  ~Shut(c)
BY DEF Mine, Shut, At, Closing

\* What other threads know of descriptors.
LEMMA OthersSafe ==
  ASSUME NEW u \in Threads, Safe(u), th'[u] = th[u],
         Held(u) => el'[th[u].cell].fd = el[th[u].cell].fd,
         th[u].pc \in Closing => /\ el'[th[u].victim].live
                                 /\ el'[th[u].victim].fd = el[th[u].victim].fd,
         At(u, "transfer") /\ th[u].op # "trunc" /\ IsOpen(el[th[u].cell].fd) =>
           fdtab'[el[th[u].cell].fd] = fdtab[el[th[u].cell].fd],
         th[u].pc \in {"open", "reopen", "free", "transfer"} => Held(u)
  PROVE  Safe(u)'
BY DEF Safe, At, IsOpen, Closing

LEMMA HeldAt ==
  ASSUME IInv, NEW u \in Threads
  PROVE  th[u].pc \in {"open", "reopen", "free", "transfer"} => Held(u)
BY IdleIs DEF IInv, PathInv, Working, OnPath, Held, Added, Uses, Taken, Closing, Opening, Listing

\* Steps that leave the descriptors alone.
FdQuiet ==
  /\ UNCHANGED fdtab
  /\ \A c \in Cells : el'[c].id = el[c].id /\ el'[c].fd = el[c].fd /\ el'[c].live = el[c].live

LEMMA FdQuietStep ==
  ASSUME IInv, FdInv, NEW t \in Threads, FdQuiet, \A u \in Threads \ {t} : th'[u] = th[u],
         th[t].pc # "clearFd", th'[t].pc # "clearFd", Safe(t)', ListLive'
  PROVE  FdInv'
<1>1. \A c : Shut(c)' <=> Shut(c)
  BY DEF Shut, At
<1>2. Known'
  BY <1>1 DEF FdInv, Known, FdQuiet
<1>3. FdsHeld'
  BY <1>1 DEF FdInv, FdsHeld, FdQuiet, Holds, IsOpen
<1>4. ASSUME NEW u \in Threads \ {t}
      PROVE  Safe(u)'
  <2>1. (Held(u) => th[u].cell \in Cells) /\ (th[u].pc \in Closing => th[u].victim \in Cells)
    <3>1. CASE th[u] = Idle
      BY <3>1 DEF Idle, Held, Added, Uses, Taken, Opening, Listing, Closing
    <3>2. CASE Working(u)
      BY <3>2 DEF Working, Held, ReturnsFromClose
    <3> QED BY <3>1, <3>2 DEF IInv, PathInv
  <2>2. Safe(u) /\ th'[u] = th[u]
    BY DEF FdInv
  <2>3. Held(u) => el'[th[u].cell].fd = el[th[u].cell].fd
    BY <2>1 DEF FdQuiet
  <2>4. th[u].pc \in Closing => /\ el'[th[u].victim].live
                                /\ el'[th[u].victim].fd = el[th[u].victim].fd
    BY <2>1, <2>2 DEF FdQuiet, Safe
  <2>5. fdtab' = fdtab
    BY DEF FdQuiet
  <2> QED BY <2>2, <2>3, <2>4, <2>5, OthersSafe, HeldAt
<1> QED BY <1>2, <1>3, <1>4 DEF FdInv

\* The steps that change neither the descriptors nor the list.
LEMMA ListKept ==
  ASSUME IInv, FdInv, FdQuiet, UNCHANGED openList
  PROVE  ListLive'
<1>1. \A i \in DOMAIN openList : openList[i] \in Cells
  BY DEF IInv, TypeOK
<1> QED BY <1>1 DEF FdInv, ListLive, FdQuiet

\* Places where nothing needs to be known of descriptors.
Careful == {"open", "reopen", "clearMode", "free", "transfer", "delist", "close", "clearFd"}

LEMMA PlainSafe ==
  ASSUME FdInv, NEW t \in Threads, th'[t].pc \notin Careful, th'[t].op \in {th[t].op, "none"}
  PROVE  Safe(t)'
BY DEF FdInv, Safe, Careful, Closing

LEMMA PlainFd ==
  ASSUME IInv, FdInv, NEW t \in Threads, FdQuiet, UNCHANGED openList,
         \A u \in Threads \ {t} : th'[u] = th[u],
         th[t].pc # "clearFd", th'[t].pc \notin Careful, th'[t].op \in {th[t].op, "none"}
  PROVE  FdInv'
BY PlainSafe, ListKept, FdQuietStep DEF Careful

LEMMA ReturnPlain ==
  ASSUME IInv, FdInv, NEW t \in Threads, FdQuiet, UNCHANGED openList, Return(t), th[t].pc # "clearFd"
  PROVE  FdInv'
<1>1. th'[t] = Idle /\ \A u \in Threads \ {t} : th'[u] = th[u]
  BY ReturnIs, TypesAre DEF IInv
<1>2. th'[t].pc \notin Careful /\ th'[t].op \in {th[t].op, "none"}
  BY <1>1, IdleIs DEF Careful
<1> QED BY <1>1, <1>2, PlainFd

LEMMA ExistsFd ==
  ASSUME IInv, FdInv, NEW t \in Threads, Exists(t)
  PROVE  FdInv'
<1>1. th \in [Threads -> Thread] /\ el \in [Cells -> Element]
  BY TypesAre DEF IInv, MemoryTyped
<1>2. FdQuiet /\ UNCHANGED openList
  BY <1>1 DEF Exists, FdQuiet, memory, Element
<1>3. /\ \A u \in Threads \ {t} : th'[u] = th[u]
      /\ th[t].pc # "clearFd" /\ th'[t].pc \notin Careful /\ th'[t].op \in {th[t].op, "none"}
  BY <1>1, IdleIs DEF Exists, At, Goto, Return, Thread, Careful, UsesMode
<1> QED BY <1>2, <1>3, PlainFd

LEMMA AccessFd ==
  ASSUME IInv, FdInv, NEW t \in Threads, Access(t)
  PROVE  FdInv'
<1>1. th \in [Threads -> Thread] /\ el \in [Cells -> Element]
  BY TypesAre DEF IInv, MemoryTyped
<1>2. FdQuiet /\ UNCHANGED openList
  BY <1>1 DEF Access, FdQuiet, memory, Element
<1>3. /\ \A u \in Threads \ {t} : th'[u] = th[u]
      /\ th[t].pc # "clearFd" /\ th'[t].pc \notin Careful /\ th'[t].op \in {th[t].op, "none"}
  BY <1>1, IdleIs DEF Access, At, Goto, Return, Thread, Careful, UsesMode
<1> QED BY <1>2, <1>3, PlainFd

LEMMA CreatFd ==
  ASSUME IInv, FdInv, NEW t \in Threads, Creat(t)
  PROVE  FdInv'
<1>1. th \in [Threads -> Thread] /\ el \in [Cells -> Element]
  BY TypesAre DEF IInv, MemoryTyped
<1>2. FdQuiet /\ UNCHANGED openList
  BY <1>1 DEF Creat, FdQuiet, memory, Element
<1>3. /\ \A u \in Threads \ {t} : th'[u] = th[u]
      /\ th[t].pc # "clearFd" /\ th'[t].pc \notin Careful /\ th'[t].op \in {th[t].op, "none"}
  BY <1>1, IdleIs DEF Creat, At, Goto, Return, Thread, Careful, UsesMode
<1> QED BY <1>2, <1>3, PlainFd

LEMMA SetAttrFd ==
  ASSUME IInv, FdInv, NEW t \in Threads, SetAttr(t)
  PROVE  FdInv'
<1>1. th \in [Threads -> Thread] /\ el \in [Cells -> Element]
  BY TypesAre DEF IInv, MemoryTyped
<1>2. FdQuiet /\ UNCHANGED openList
  BY <1>1 DEF SetAttr, FdQuiet, memory, Element
<1>3. /\ \A u \in Threads \ {t} : th'[u] = th[u]
      /\ th[t].pc # "clearFd" /\ th'[t].pc \notin Careful /\ th'[t].op \in {th[t].op, "none"}
  BY <1>1, IdleIs DEF SetAttr, At, Goto, Return, Thread, Careful, UsesMode
<1> QED BY <1>2, <1>3, PlainFd

LEMMA FindOidFd ==
  ASSUME IInv, FdInv, NEW t \in Threads, FindOid(t), ~Segfault
  PROVE  FdInv'
<1>1. th \in [Threads -> Thread] /\ th[t].pc = "find"
  BY TypesAre DEF IInv, FindOid, At
<1>2. FdQuiet /\ UNCHANGED openList
  BY DEF FindOid, OpenOidFails, FdQuiet, memory
<1>3. CASE Return(t)
  BY <1>1, <1>2, <1>3, ReturnPlain
<1>4. CASE ~Return(t)
  <2>1. PICK c : th' = [th EXCEPT ![t].pc = "openOid", ![t].cell = c,
                          ![t].next = IF UsesMode(t) THEN "mode" ELSE "transfer"]
    BY <1>4 DEF FindOid, OpenOidFails
  <2>2. /\ \A u \in Threads \ {t} : th'[u] = th[u]
        /\ th[t].pc # "clearFd" /\ th'[t].pc \notin Careful /\ th'[t].op \in {th[t].op, "none"}
    BY <1>1, <2>1 DEF Thread, Careful
  <2> QED BY <1>2, <2>2, PlainFd
<1> QED BY <1>3, <1>4

LEMMA SetModeFd ==
  ASSUME IInv, FdInv, NEW t \in Threads, SetMode(t)
  PROVE  FdInv'
<1>1. th \in [Threads -> Thread] /\ el \in [Cells -> Element]
  BY TypesAre DEF IInv, MemoryTyped
<1>2. FdQuiet /\ UNCHANGED openList
  BY <1>1 DEF SetMode, FdQuiet, memory, Element
<1>3. /\ \A u \in Threads \ {t} : th'[u] = th[u]
      /\ th[t].pc # "clearFd" /\ th'[t].pc \notin Careful /\ th'[t].op \in {th[t].op, "none"}
  BY <1>1, IdleIs DEF SetMode, At, Goto, Return, Thread, Careful, UsesMode
<1> QED BY <1>2, <1>3, PlainFd

LEMMA HashRemoveFd ==
  ASSUME IInv, FdInv, NEW t \in Threads, HashRemove(t)
  PROVE  FdInv'
<1>1. th \in [Threads -> Thread] /\ el \in [Cells -> Element]
  BY TypesAre DEF IInv, MemoryTyped
<1>2. FdQuiet /\ UNCHANGED openList
  BY <1>1 DEF HashRemove, FdQuiet, memory, Element
<1>3. /\ \A u \in Threads \ {t} : th'[u] = th[u]
      /\ th[t].pc # "clearFd" /\ th'[t].pc \notin Careful /\ th'[t].op \in {th[t].op, "none"}
  BY <1>1, IdleIs DEF HashRemove, At, Goto, Return, Thread, Careful, UsesMode
<1> QED BY <1>2, <1>3, PlainFd

LEMMA UnlinkFd ==
  ASSUME IInv, FdInv, NEW t \in Threads, Unlink(t)
  PROVE  FdInv'
<1>1. th \in [Threads -> Thread] /\ el \in [Cells -> Element]
  BY TypesAre DEF IInv, MemoryTyped
<1>2. FdQuiet /\ UNCHANGED openList
  BY <1>1 DEF Unlink, FdQuiet, memory, Element
<1>3. /\ \A u \in Threads \ {t} : th'[u] = th[u]
      /\ th[t].pc # "clearFd" /\ th'[t].pc \notin Careful /\ th'[t].op \in {th[t].op, "none"}
  BY <1>1, IdleIs DEF Unlink, At, Goto, Return, Thread, Careful, UsesMode
<1> QED BY <1>2, <1>3, PlainFd

LEMMA RemoveAttrsFd ==
  ASSUME IInv, FdInv, NEW t \in Threads, RemoveAttrs(t)
  PROVE  FdInv'
<1>1. th \in [Threads -> Thread] /\ el \in [Cells -> Element]
  BY TypesAre DEF IInv, MemoryTyped
<1>2. FdQuiet /\ UNCHANGED openList
  BY <1>1 DEF RemoveAttrs, FdQuiet, memory, Element
<1>3. /\ \A u \in Threads \ {t} : th'[u] = th[u]
      /\ th[t].pc # "clearFd" /\ th'[t].pc \notin Careful /\ th'[t].op \in {th[t].op, "none"}
  BY <1>1, IdleIs DEF RemoveAttrs, At, Goto, Return, Thread, Careful, UsesMode
<1> QED BY <1>2, <1>3, PlainFd

LEMMA CheckFdFd ==
  ASSUME IInv, ApartInv, FdInv, NEW t \in Threads, CheckFd(t)
  PROVE  FdInv'
<1>1. Ready(t)
  BY AtWork DEF CheckFd, At
<1>2. FdQuiet
  BY <1>1 DEF CheckFd, FdQuiet, memory, Element, Ready, MemoryTyped
<1>3. \A u \in Threads \ {t} : th'[u] = th[u]
  BY <1>1 DEF CheckFd, Goto, Ready
<1>4. ListLive'
  BY <1>2, ListKept DEF CheckFd, memory
<1>5. /\ th[t].pc # "clearFd" /\ th'[t].pc # "clearFd" /\ th'[t].op = th[t].op
      /\ th'[t].cell = th[t].cell /\ th[t].cell \in Cells
      /\ th'[t].pc \in Careful =>
           \/ th'[t].pc = "transfer" /\ th[t].op = "trunc"
           \/ th'[t].pc = "open" /\ el[th[t].cell].fd = 0
  BY <1>1 DEF CheckFd, Goto, Ready, At, Thread, Careful, Working, OnPath, Added, Uses, Taken,
     Returns, ReturnsFromClose, Opening, Listing, Closing, Transfers
<1>6. Safe(t)'
  BY <1>2, <1>5 DEF FdInv, Safe, Careful, Closing, FdQuiet
<1> QED BY <1>2, <1>3, <1>4, <1>5, <1>6, FdQuietStep

LEMMA CountOpenFd ==
  ASSUME IInv, ApartInv, FdInv, NEW t \in Threads, CountOpen(t)
  PROVE  FdInv'
<1>1. Ready(t)
  BY AtWork DEF CountOpen, At
<1>2. FdQuiet
  BY <1>1 DEF CountOpen, FdQuiet, memory, Element, Ready, MemoryTyped
<1>3. \A u \in Threads \ {t} : th'[u] = th[u]
  BY <1>1 DEF CountOpen, Goto, Ready
<1>4. ListLive'
  BY <1>2, ListKept DEF CountOpen, memory
<1>5. /\ th[t].pc # "clearFd" /\ th'[t].pc # "clearFd" /\ th'[t].op = th[t].op
      /\ th'[t].pc \in Careful => th'[t].pc = "transfer" /\ th[t].op = "trunc"
  BY <1>1 DEF CountOpen, Goto, Ready, At, Thread, Careful, Working, OnPath, Added, Uses, Taken,
     Returns, ReturnsFromClose, Opening, Listing, Closing, Transfers
<1>6. Safe(t)'
  BY <1>5 DEF FdInv, Safe, Careful, Closing
<1> QED BY <1>2, <1>3, <1>4, <1>5, <1>6, FdQuietStep

LEMMA UnshiftFd ==
  ASSUME IInv, ApartInv, FdInv, NEW t \in Threads, Unshift(t)
  PROVE  FdInv'
<1>1. Ready(t)
  BY AtWork DEF Unshift, At
<1>2. FdQuiet
  BY <1>1 DEF Unshift, FdQuiet, memory, Element, Ready, MemoryTyped
<1>3. \A u \in Threads \ {t} : th'[u] = th[u]
  BY <1>1 DEF Unshift, Goto, Ready
<1>4. ListLive'
  <2>1. Held(t) /\ th[t].cell \in Cells
    BY <1>1 DEF Unshift, At, Ready, Held, Working, OnPath, Added, Uses, Taken,
       Returns, ReturnsFromClose, Opening, Listing, Closing, Transfers
  <2>2. el[th[t].cell].live /\ openList \in Seq(Cells)
    BY <1>1, <2>1, HeldCell DEF Ready, MemoryTyped
  <2>3. openList' = <<th[t].cell>> \o openList
    BY DEF Unshift
  <2>4. \A i \in DOMAIN openList' :
          openList'[i] = th[t].cell \/ \E j \in DOMAIN openList : openList'[i] = openList[j]
    <3>1. /\ DOMAIN openList' = 1 .. 1 + Len(openList) /\ Len(openList) \in Nat
          /\ \A i \in 1 .. 1 + Len(openList) :
               openList'[i] = IF i <= 1 THEN <<th[t].cell>>[i] ELSE openList[i - 1]
      <4>1. <<th[t].cell>> \in Seq(Cells) /\ Len(<<th[t].cell>>) = 1
        BY <2>1
      <4> QED BY <2>2, <2>3, <4>1, ConcatProperties
    <3> QED BY <2>2, <3>1
  <2>5. UNCHANGED el
    BY DEF Unshift
  <2> QED BY <2>2, <2>4, <2>5 DEF ListLive, FdInv
<1>5. /\ th[t].pc # "clearFd" /\ th'[t].pc # "clearFd" /\ th'[t].op = th[t].op
      /\ th'[t].pc \in Careful => th'[t].pc = "transfer" /\ th[t].op = "trunc"
  BY <1>1 DEF Unshift, Goto, Ready, At, Thread, Careful, Working, OnPath, Added, Uses, Taken,
     Returns, ReturnsFromClose, Opening, Listing, Closing, Transfers
<1>6. Safe(t)'
  BY <1>5 DEF FdInv, Safe, Careful, Closing
<1> QED BY <1>2, <1>3, <1>4, <1>5, <1>6, FdQuietStep

LEMMA CheckAgainFd ==
  ASSUME IInv, ApartInv, FdInv, NEW t \in Threads, CheckAgain(t)
  PROVE  FdInv'
<1>1. Ready(t)
  BY AtWork DEF CheckAgain, At
<1>2. FdQuiet
  BY <1>1 DEF CheckAgain, FdQuiet, memory, Element, Ready, MemoryTyped
<1>3. \A u \in Threads \ {t} : th'[u] = th[u]
  BY <1>1 DEF CheckAgain, Goto, Ready
<1>4. ListLive'
  BY <1>2, ListKept DEF CheckAgain, memory
<1>5. /\ th[t].pc # "clearFd" /\ th'[t].pc # "clearFd" /\ th'[t].op = th[t].op
      /\ th'[t].cell = th[t].cell /\ th[t].cell \in Cells
      /\ th'[t].pc \in Careful => th'[t].pc = "reopen" /\ el[th[t].cell].fd = 0
  BY <1>1 DEF CheckAgain, Goto, Ready, At, Thread, Careful, Working, OnPath, Added, Uses, Taken,
     Returns, ReturnsFromClose, Opening, Listing, Closing, Transfers
<1>6. Safe(t)'
  BY <1>2, <1>5 DEF FdInv, Safe, Careful, Closing, FdQuiet
<1> QED BY <1>2, <1>3, <1>4, <1>5, <1>6, FdQuietStep

LEMMA CheckModeFd ==
  ASSUME IInv, ApartInv, FdInv, NEW t \in Threads, CheckMode(t)
  PROVE  FdInv'
<1>1. Ready(t)
  BY AtWork DEF CheckMode, At
<1>2. FdQuiet
  BY <1>1 DEF CheckMode, FdQuiet, memory, Element, Ready, MemoryTyped
<1>3. \A u \in Threads \ {t} : th'[u] = th[u]
  BY <1>1 DEF CheckMode, Goto, Ready
<1>4. ListLive'
  BY <1>2, ListKept DEF CheckMode, memory
<1>5. /\ th[t].pc # "clearFd" /\ th'[t].pc # "clearFd" /\ th'[t].op = th[t].op
      /\ th'[t].cell = th[t].cell /\ th[t].cell \in Cells /\ Held(t)
      /\ th'[t].pc \in Careful => th'[t].pc = "delist" /\ th'[t].victim = th[t].cell
  BY <1>1 DEF CheckMode, Goto, Ready, At, Thread, Careful, Held, Working, OnPath, Added, Uses, Taken,
     Returns, ReturnsFromClose, Opening, Listing, Closing, Transfers
<1>6. Safe(t)'
  BY <1>2, <1>5, HeldCell DEF FdInv, Safe, Careful, Closing, FdQuiet
<1> QED BY <1>2, <1>3, <1>4, <1>5, <1>6, FdQuietStep

LEMMA CheckClosedFd ==
  ASSUME IInv, ApartInv, FdInv, NEW t \in Threads, CheckClosed(t)
  PROVE  FdInv'
<1>1. Ready(t)
  BY AtWork DEF CheckClosed, At
<1>2. FdQuiet
  BY <1>1 DEF CheckClosed, FdQuiet, memory, Element, Ready, MemoryTyped
<1>3. \A u \in Threads \ {t} : th'[u] = th[u]
  BY <1>1 DEF CheckClosed, Goto, Ready
<1>4. ListLive'
  BY <1>2, ListKept DEF CheckClosed, memory
<1>5. /\ th[t].pc # "clearFd" /\ th'[t].pc # "clearFd" /\ th'[t].op = th[t].op
      /\ th'[t].cell = th[t].cell /\ th[t].cell \in Cells /\ Held(t)
      /\ th'[t].pc \in Careful => \/ th'[t].pc = "delist" /\ th'[t].victim = th[t].cell
                                  \/ th'[t].pc = "free" /\ el[th[t].cell].fd = 0
  BY <1>1 DEF CheckClosed, Goto, Ready, At, Thread, Careful, Held, Working, OnPath, Added, Uses, Taken,
     Returns, ReturnsFromClose, Opening, Listing, Closing, Transfers
<1>6. Safe(t)'
  BY <1>2, <1>5, HeldCell, Numbers DEF FdInv, Safe, Careful, Closing, FdQuiet
<1> QED BY <1>2, <1>3, <1>4, <1>5, <1>6, FdQuietStep

LEMMA EvictFd ==
  ASSUME IInv, ApartInv, FdInv, NEW t \in Threads, Evict(t), ~Segfault, NoEviction \/ Alone
  PROVE  FdInv'
<1>1. Ready(t)
  BY AtWork DEF Evict, At
<1>2. FdQuiet
  BY <1>1 DEF Evict, FdQuiet, memory, Element, Ready, MemoryTyped
<1>3. \A u \in Threads \ {t} : th'[u] = th[u]
  BY <1>1 DEF Evict, Goto, Ready
<1>4. ListLive'
  BY <1>2, ListKept DEF Evict, memory
<1>5. /\ th[t].pc # "clearFd" /\ th'[t].pc # "clearFd" /\ th'[t].op = th[t].op
      /\ th'[t].pc = "delist" /\ th'[t].back = "unshift" /\ th'[t].victim = Last(openList)
  BY <1>1 DEF Evict, Ready, At, Thread
<1>6. Safe(t)'
  <2>1. Alone
    BY DEF Evict, NoEviction
  <2>2. Len(openList) \in DOMAIN openList /\ Last(openList) = openList[Len(openList)]
    BY <1>1 DEF Evict, Ready, MemoryTyped, Last
  <2>3. el[Last(openList)].live /\ Last(openList) \in Cells
    BY <1>1, <2>1, <2>2 DEF FdInv, ListLive, Ready, MemoryTyped
  <2> QED BY <1>2, <1>5, <2>1, <2>3 DEF FdInv, Safe, Closing, FdQuiet, Alone
<1> QED BY <1>2, <1>3, <1>4, <1>5, <1>6, FdQuietStep

LEMMA DelistFd ==
  ASSUME IInv, ApartInv, FdInv, NEW t \in Threads, Delist(t)
  PROVE  FdInv'
<1>1. Ready(t)
  BY AtWork DEF Delist, At
<1>2. FdQuiet
  BY <1>1 DEF Delist, FdQuiet, memory, Element, Ready, MemoryTyped
<1>3. \A u \in Threads \ {t} : th'[u] = th[u]
  BY <1>1 DEF Delist, Goto, Ready
<1>4. ListLive'
  <2> DEFINE Same == {i \in DOMAIN openList : el[openList[i]] = el[th[t].victim]}
  <2>1. CASE Same = {}
    BY <2>1 DEF Delist, FdInv, ListLive
  <2>2. CASE Same # {}
    <3>1. openList \in Seq(Cells)
      BY <1>1 DEF Ready, MemoryTyped
    <3>2. Same \in SUBSET Nat
      BY <3>1
    <3>3. Min(Same) \in Same
      BY <2>2, <3>2, Least
    <3>4. Min(Same) \in DOMAIN openList
      BY <3>3
    <3> HIDE DEF Same
    <3>5. PICK k : k = Min(Same)
      OBVIOUS
    <3>6. openList' = RemoveAt(openList, k) /\ UNCHANGED el
      BY <2>2, <3>5 DEF Delist, Same
    <3>7. \A j \in DOMAIN openList' : \E i \in DOMAIN openList : openList'[j] = openList[i]
      <4>1. /\ Len(openList') = Len(openList) - 1 /\ openList' \in Seq(Cells)
            /\ \A j \in DOMAIN openList' : openList'[j] = openList[IF j < k THEN j ELSE j + 1]
        BY <3>1, <3>4, <3>5, <3>6, RemoveAtTyped
      <4> SUFFICES ASSUME NEW j \in DOMAIN openList'
                   PROVE  \E i \in DOMAIN openList : openList'[j] = openList[i]
        OBVIOUS
      <4>2. (IF j < k THEN j ELSE j + 1) \in DOMAIN openList
        BY <3>1, <4>1
      <4> QED BY <4>1, <4>2
    <3> QED BY <3>6, <3>7 DEF FdInv, ListLive
  <2> QED BY <2>1, <2>2
<1>5. /\ th[t].pc # "clearFd" /\ th'[t].pc = "close" /\ th'[t].op = th[t].op
      /\ th'[t].cell = th[t].cell /\ th'[t].victim = th[t].victim /\ th'[t].back = th[t].back
      /\ th'[t].pc # "clearFd" /\ th[t].pc \in Closing
  BY <1>1 DEF Delist, Goto, Ready, At, Thread, Closing
<1>6. Safe(t)'
  BY <1>2, <1>5, ClosingHeld DEF FdInv, Safe, Closing, FdQuiet
<1> QED BY <1>2, <1>3, <1>4, <1>5, <1>6, FdQuietStep

\* Steps that do change descriptors or elements.
LEMMA OpenFileFd ==
  ASSUME IInv, ApartInv, FdInv, NEW t \in Threads, OpenFile(t)
  PROVE  FdInv'
<1>1. Ready(t) /\ th[t].pc \in {"open", "reopen"}
  BY AtWork DEF OpenFile, At
<1>2. Uses(t) /\ Held(t)
  BY <1>1 DEF Held, Ready, Working, OnPath, Uses, Added, Taken, Opening, Listing, Closing
<1>3. PICK c \in Cells : c = th[t].cell /\ Mine(t, c) /\ ~Shut(c)
  BY <1>1, <1>2, CellMine, MineOpen DEF At
<1>4. el[c].live /\ el[c].id = th[t].oid /\ el[c].fd = 0 /\ el[c] \in Element
  BY <1>1, <1>2, <1>3, HeldCell DEF FdInv, Safe, Ready, MemoryTyped
<1>5. PICK fd \in Fds :
        /\ fdtab[fd] = Closed /\ el' = [el EXCEPT ![c].fd = fd]
        /\ fdtab' = [fdtab EXCEPT ![fd] = [file |-> el[c].id, pos |-> 0]]
  BY <1>3, <1>4, MinFree DEF OpenFile, FreeFds
<1>6. /\ el'[c].fd = fd /\ el'[c].id = el[c].id /\ el'[c].live
      /\ \A d \in Cells \ {c} : el'[d] = el[d]
      /\ fdtab'[fd].file = el[c].id
      /\ \A g \in Fds \ {fd} : fdtab'[g] = fdtab[g]
  BY <1>1, <1>4, <1>5 DEF Ready, MemoryTyped, Element
<1>7. /\ \A u \in Threads \ {t} : th'[u] = th[u]
      /\ th'[t].pc = "setMode" /\ th'[t].op = th[t].op
  BY <1>1 DEF OpenFile, Goto, Ready, Thread
<1>8. \A d : Shut(d)' <=> Shut(d)
  BY <1>1, <1>7 DEF Shut, At
<1>9. ASSUME NEW d \in Cells \ {c}, el[d].live, ~Shut(d), el[d].fd \in Fds
      PROVE  el[d].fd # fd
  BY <1>5, <1>9, KnownOpen DEF IsOpen
<1>10. Known'
  BY <1>6, <1>8, <1>9 DEF FdInv, Known
<1>11. FdsHeld'
  <2> SUFFICES ASSUME NEW g \in Fds, IsOpen(g)' PROVE \E d \in Cells : Holds(d, g)'
    BY DEF FdsHeld
  <2>1. CASE g = fd
    BY <1>3, <1>6, <1>8, <2>1 DEF Holds
  <2>2. CASE g # fd
    <3>1. PICK d \in Cells : Holds(d, g)
      BY <1>6, <2>2 DEF FdInv, FdsHeld, IsOpen
    <3>2. d # c
      BY <1>4, <3>1, Numbers DEF Holds
    <3> QED BY <1>6, <1>8, <2>2, <3>1, <3>2 DEF Holds
  <2> QED BY <2>1, <2>2
<1>12. ListLive'
  <2>1. \A i \in DOMAIN openList : openList[i] \in Cells
    BY <1>1 DEF Ready, MemoryTyped
  <2> QED BY <1>6, <2>1 DEF FdInv, ListLive, OpenFile
<1>14. ASSUME NEW u \in Threads \ {t}
       PROVE  Safe(u)'
  <2>1. Safe(u) /\ th'[u] = th[u]
    BY <1>7 DEF FdInv
  <2>2. Held(u) => th[u].cell \in Cells \ {c}
    BY <1>3, CellMine DEF Mine
  <2>3. th[u].pc \in Closing => th[u].victim \in Cells \ {c} /\ el[th[u].victim].live
    BY <1>3, VictimMine DEF Mine
  <2>4. At(u, "transfer") /\ th[u].op # "trunc" /\ IsOpen(el[th[u].cell].fd) =>
          fdtab'[el[th[u].cell].fd] = fdtab[el[th[u].cell].fd]
    BY <1>5, <1>6 DEF IsOpen
  <2> QED BY <1>6, <2>1, <2>2, <2>3, <2>4, OthersSafe, HeldAt
<1>15. Safe(t)'
  BY <1>7, PlainSafe DEF Careful
<1> QED BY <1>10, <1>11, <1>12, <1>14, <1>15 DEF FdInv

LEMMA OpenFailsFd ==
  ASSUME IInv, ApartInv, FdInv, NEW t \in Threads, OpenFails(t), ~Segfault
  PROVE  FdInv'
<1>1. Ready(t) /\ th[t].pc \in {"open", "reopen"}
  BY AtWork DEF OpenFails, At
<1>2. Uses(t) /\ Held(t)
  BY <1>1 DEF Held, Ready, Working, OnPath, Uses, Added, Taken, Opening, Listing, Closing
<1>3. PICK c \in Cells : c = th[t].cell /\ Mine(t, c)
  BY <1>1, <1>2, CellMine DEF At
<1>4. el[c].live /\ el[c].fd = 0
  BY <1>1, <1>2, <1>3, HeldCell DEF FdInv, Safe
<1>5. el' = [el EXCEPT ![c].fd = Bad] /\ Return(t) /\ UNCHANGED <<openList, fdtab, io>>
  BY <1>3 DEF OpenFails
<1>6. /\ el'[c].fd = Bad /\ el'[c].id = el[c].id /\ el'[c].live
      /\ \A d \in Cells \ {c} : el'[d] = el[d]
  BY <1>1, <1>4, <1>5 DEF Ready, MemoryTyped, Element
<1>7. /\ \A u \in Threads \ {t} : th'[u] = th[u]
      /\ th'[t] = Idle
  BY <1>1, <1>5, ReturnIs DEF Ready
<1>8. \A d : Shut(d)' <=> Shut(d)
  BY <1>1, <1>7, IdleIs DEF Shut, At
<1>9. Known'
  BY <1>5, <1>6, <1>8, Numbers DEF FdInv, Known
<1>10. FdsHeld'
  <2> SUFFICES ASSUME NEW g \in Fds, IsOpen(g)' PROVE \E d \in Cells : Holds(d, g)'
    BY DEF FdsHeld
  <2>1. PICK d \in Cells : Holds(d, g)
    BY <1>5 DEF FdInv, FdsHeld, IsOpen
  <2>2. d # c
    BY <1>4, <2>1, Numbers DEF Holds
  <2> QED BY <1>5, <1>6, <1>8, <2>1, <2>2 DEF Holds
<1>11. ListLive'
  <2>1. \A i \in DOMAIN openList : openList[i] \in Cells
    BY <1>1 DEF Ready, MemoryTyped
  <2> QED BY <1>5, <1>6, <2>1 DEF FdInv, ListLive
<1>13. ASSUME NEW u \in Threads \ {t}
       PROVE  Safe(u)'
  <2>1. Safe(u) /\ th'[u] = th[u]
    BY <1>7 DEF FdInv
  <2>2. Held(u) => th[u].cell \in Cells \ {c}
    BY <1>3, CellMine DEF Mine
  <2>3. th[u].pc \in Closing => th[u].victim \in Cells \ {c} /\ el[th[u].victim].live
    BY <1>3, VictimMine DEF Mine
  <2> QED BY <1>5, <1>6, <2>1, <2>2, <2>3, OthersSafe, HeldAt
<1>14. Safe(t)'
  BY <1>7, IdleIs, PlainSafe DEF Careful
<1> QED BY <1>9, <1>10, <1>11, <1>13, <1>14 DEF FdInv

LEMMA CloseFd ==
  ASSUME IInv, ApartInv, FdInv, NEW t \in Threads, Close(t)
  PROVE  FdInv'
<1>1. Ready(t) /\ th[t].pc = "close" /\ th[t].pc \in Closing
  BY AtWork DEF Close, At, Closing
<1>2. PICK c \in Cells : c = th[t].victim /\ Mine(t, c) /\ el[c].live /\ ~Shut(c)
  BY <1>1, VictimMine, MineOpen DEF At
<1>3. /\ \A u \in Threads \ {t} : th'[u] = th[u]
      /\ th'[t].op = th[t].op /\ th'[t].cell = th[t].cell /\ th'[t].victim = c
      /\ th'[t].back = th[t].back
      /\ th'[t].pc = (IF IsOpen(el[c].fd) THEN "clearFd" ELSE th[t].back)
  BY <1>1, <1>2 DEF Close, Goto, Ready, Thread
<1>4. CASE IsOpen(el[c].fd)
  <2>1. PICK fd \in Fds : fd = el[c].fd
    BY <1>4 DEF IsOpen
  <2>2. /\ fdtab'[fd] = Closed
        /\ \A g \in Fds \ {fd} : fdtab'[g] = fdtab[g]
        /\ UNCHANGED <<el, openList, io>>
    BY <1>1, <1>2, <1>4, <2>1 DEF Close, Ready, MemoryTyped
  <2>3. \A d \in Cells \ {c} : Shut(d)' <=> Shut(d)
    BY <1>1, <1>2, <1>3 DEF Shut, At
  <2>4. \A d \in Cells \ {c} : el[d].live /\ ~Shut(d) => el[d].fd # fd
    BY <1>2, <2>1, OneHolder
  <2>5. Shut(c)'
    BY <1>3, <1>4 DEF Shut, At
  <2>6. Known'
    BY <2>2, <2>3, <2>4, <2>5 DEF FdInv, Known
  <2>7. FdsHeld'
    <3> SUFFICES ASSUME NEW g \in Fds, IsOpen(g)' PROVE \E d \in Cells : Holds(d, g)'
      BY DEF FdsHeld
    <3>1. g # fd
      BY <2>2 DEF IsOpen
    <3>2. PICK d \in Cells : Holds(d, g)
      BY <2>2, <3>1 DEF FdInv, FdsHeld, IsOpen
    <3>3. d # c
      BY <2>1, <3>1, <3>2 DEF Holds
    <3> QED BY <2>2, <2>3, <3>1, <3>2, <3>3 DEF Holds
  <2>8. ListLive'
    BY <2>2 DEF FdInv, ListLive
  <2>9. ASSUME NEW u \in Threads \ {t}
        PROVE  Safe(u)'
    <3>1. Safe(u) /\ th'[u] = th[u]
      BY <1>3 DEF FdInv
    <3>2. th[u].pc \in Closing => el[th[u].victim].live
      BY VictimMine
    <3>3. ASSUME At(u, "transfer"), IsOpen(el[th[u].cell].fd)
          PROVE  fdtab'[el[th[u].cell].fd] = fdtab[el[th[u].cell].fd]
      <4>1. Held(u) /\ ~(At(u, "clearFd") /\ th[u].victim = th[u].cell)
        BY <3>3, HeldAt DEF At
      <4>2. th[u].cell \in Cells \ {c} /\ el[th[u].cell].live /\ Mine(u, th[u].cell)
        BY <1>2, <4>1, CellMine, HeldCell DEF Mine
      <4>3. ~Shut(th[u].cell)
        BY <4>1, <4>2, MineOpen
      <4> QED BY <2>2, <2>4, <3>3, <4>2, <4>3 DEF IsOpen
    <3> QED BY <2>2, <3>1, <3>2, <3>3, OthersSafe, HeldAt
  <2>10. Safe(t)'
    BY <1>1, <1>2, <1>3, <1>4, <2>2 DEF FdInv, Safe, Closing
  <2> QED BY <2>6, <2>7, <2>8, <2>9, <2>10 DEF FdInv
<1>5. CASE ~IsOpen(el[c].fd)
  <2>1. FdQuiet /\ UNCHANGED openList
    BY <1>2, <1>5 DEF Close, FdQuiet
  <2>2. el[c].fd \notin Fds
    BY <1>2, <1>5, KnownOpen
  <2>3. /\ th'[t].pc \in {"unshift", "free", "again"}
        /\ th'[t].pc = "free" => th[t].victim = th[t].cell
    BY <1>1, <1>2, <1>3, <1>5 DEF Ready, Working, OnPath, Added, Uses, Taken, Opening, Listing, Closing,
       ReturnsFromClose, Transfers, FdInv, Safe
  <2>4. Safe(t)'
    BY <1>2, <1>3, <2>1, <2>2, <2>3 DEF FdInv, Safe, Closing, FdQuiet
  <2>5. th[t].pc # "clearFd" /\ th'[t].pc # "clearFd"
    BY <1>1, <2>3
  <2> QED BY <1>3, <2>1, <2>4, <2>5, FdQuietStep, ListKept
<1> QED BY <1>4, <1>5

LEMMA ClearFdFd ==
  ASSUME IInv, ApartInv, FdInv, NEW t \in Threads, ClearFd(t)
  PROVE  FdInv'
<1>1. Ready(t) /\ th[t].pc = "clearFd" /\ th[t].pc \in Closing
  BY AtWork DEF ClearFd, At, Closing
<1>2. PICK c \in Cells : c = th[t].victim /\ Mine(t, c) /\ el[c].live
  BY <1>1, VictimMine
<1>3. /\ \A u \in Threads \ {t} : th'[u] = th[u]
      /\ th'[t].op = th[t].op /\ th'[t].cell = th[t].cell /\ th'[t].victim = c
      /\ th'[t].back = th[t].back /\ th'[t].pc = "clearMode"
  BY <1>1, <1>2 DEF ClearFd, Goto, Ready, Thread
<1>4. /\ el'[c].fd = 0 /\ el'[c].id = el[c].id /\ el'[c].live
      /\ \A d \in Cells \ {c} : el'[d] = el[d]
      /\ UNCHANGED <<openList, fdtab, io>>
  BY <1>1, <1>2 DEF ClearFd, Ready, MemoryTyped, Element
<1>5. Shut(c)
  BY <1>1, <1>2 DEF Shut, At
<1>6. \A d \in Cells \ {c} : Shut(d)' <=> Shut(d)
  BY <1>2, <1>3 DEF Shut, At
<1>7. Known'
  BY <1>4, <1>6, Numbers DEF FdInv, Known
<1>8. FdsHeld'
  <2> SUFFICES ASSUME NEW g \in Fds, IsOpen(g)' PROVE \E d \in Cells : Holds(d, g)'
    BY DEF FdsHeld
  <2>1. PICK d \in Cells : Holds(d, g)
    BY <1>4 DEF FdInv, FdsHeld, IsOpen
  <2>2. d # c
    BY <1>5, <2>1 DEF Holds
  <2> QED BY <1>4, <1>6, <2>1, <2>2 DEF Holds
<1>9. ListLive'
  <2>1. \A i \in DOMAIN openList : openList[i] \in Cells
    BY <1>1 DEF Ready, MemoryTyped
  <2> QED BY <1>4, <2>1 DEF FdInv, ListLive
<1>11. ASSUME NEW u \in Threads \ {t}
       PROVE  Safe(u)'
  <2>1. Safe(u) /\ th'[u] = th[u]
    BY <1>3 DEF FdInv
  <2>2. Held(u) => th[u].cell \in Cells \ {c}
    BY <1>2, CellMine DEF Mine
  <2>3. th[u].pc \in Closing => th[u].victim \in Cells \ {c} /\ el[th[u].victim].live
    BY <1>2, VictimMine DEF Mine
  <2> QED BY <1>4, <2>1, <2>2, <2>3, OthersSafe, HeldAt
<1>12. Safe(t)'
  BY <1>1, <1>2, <1>3, <1>4 DEF FdInv, Safe, Closing
<1> QED BY <1>7, <1>8, <1>9, <1>11, <1>12 DEF FdInv

LEMMA ClearModeFd ==
  ASSUME IInv, ApartInv, FdInv, NEW t \in Threads, ClearMode(t)
  PROVE  FdInv'
<1>1. Ready(t) /\ th[t].pc = "clearMode" /\ th[t].pc \in Closing
  BY AtWork DEF ClearMode, At, Closing
<1>2. th[t].victim \in Cells
  BY <1>1, ClosingHeld
<1>3. FdQuiet /\ UNCHANGED openList
  BY <1>1, <1>2 DEF ClearMode, FdQuiet, Ready, MemoryTyped, Element
<1>4. /\ \A u \in Threads \ {t} : th'[u] = th[u]
      /\ th'[t].op = th[t].op /\ th'[t].cell = th[t].cell /\ th'[t].victim = th[t].victim
      /\ th'[t].back = th[t].back /\ th'[t].pc = th[t].back
  BY <1>1 DEF ClearMode, Goto, Ready, Thread
<1>5. /\ th'[t].pc \in {"unshift", "free", "again"}
      /\ th'[t].pc = "free" => th[t].victim = th[t].cell
  BY <1>1, <1>4 DEF Ready, Working, OnPath, Added, Uses, Taken, Opening, Listing, Closing,
     ReturnsFromClose, Transfers, FdInv, Safe
<1>6. Safe(t)'
  BY <1>1, <1>2, <1>3, <1>4, <1>5, Numbers DEF FdInv, Safe, Closing, FdQuiet
<1> QED BY <1>1, <1>3, <1>4, <1>5, <1>6, FdQuietStep, ListKept

\* A transfer uses a descriptor of its own.
LEMMA SeekOrTransfer ==
  ASSUME IInv, ApartInv, FdInv, NEW t \in Threads, th[t].pc \in {"seek", "transfer"},
         NEW fd \in Fds, fd = el[th[t].cell].fd
  PROVE  /\ fdtab[fd].file = th[t].oid /\ th[t].oid \in Oids /\ IsOpen(fd)
         /\ \A u \in Threads \ {t} : At(u, "transfer") => el[th[u].cell].fd # fd
<1>1. \A u \in Threads : th[u].pc \in {"seek", "transfer"} =>
        Held(u) /\ ~(At(u, "clearFd") /\ th[u].victim = th[u].cell)
  BY IdleIs DEF IInv, PathInv, Working, OnPath, Held, Added, Uses, Taken, At, Closing, Listing, Opening
<1>2. \A u \in Threads : th[u].pc \in {"seek", "transfer"} =>
        /\ th[u].cell \in Cells /\ el[th[u].cell].live /\ ~Shut(th[u].cell)
        /\ el[th[u].cell].id = th[u].oid /\ Mine(u, th[u].cell)
  BY <1>1, CellMine, HeldCell, MineOpen
<1>3. fdtab[fd].file = th[t].oid /\ th[t].oid \in Oids /\ IsOpen(fd)
  BY <1>2, KnownOpen
<1>4. ASSUME NEW u \in Threads \ {t}, At(u, "transfer"), el[th[u].cell].fd = fd
      PROVE  FALSE
  <2>1. th[u].cell = th[t].cell
    BY <1>2, <1>4, OneHolder DEF At
  <2> QED BY <1>1, <1>2, <1>4, <2>1 DEF Mine, At
<1> QED BY <1>3, <1>4

\* The position of one descriptor changes.
LEMMA PositionFd ==
  ASSUME IInv, ApartInv, FdInv, NEW t \in Threads, th[t].pc \in {"seek", "transfer"},
         th'[t].pc # "clearFd", NEW fd \in Fds, fd = el[th[t].cell].fd, UNCHANGED <<el, openList>>,
         \A u \in Threads \ {t} : th'[u] = th[u],
         fdtab' \in [Fds -> Descriptor], fdtab'[fd].file = fdtab[fd].file,
         \A g \in Fds \ {fd} : fdtab'[g] = fdtab[g], Safe(t)'
  PROVE  FdInv'
<1>1. /\ fdtab[fd].file = th[t].oid /\ th[t].oid \in Oids /\ IsOpen(fd)
      /\ \A u \in Threads \ {t} : At(u, "transfer") => el[th[u].cell].fd # fd
  BY SeekOrTransfer
<1>2. \A g \in Fds : IsOpen(g)' => IsOpen(g)
  BY <1>1 DEF IsOpen
<1>3. \A d : Shut(d)' <=> Shut(d)
  BY DEF Shut, At
<1>4. Known' /\ ListLive'
  BY <1>3 DEF FdInv, Known, ListLive
<1>5. FdsHeld'
  BY <1>2, <1>3 DEF FdInv, FdsHeld, Holds
<1>6. ASSUME NEW u \in Threads \ {t}
      PROVE  Safe(u)'
  <2>1. Safe(u) /\ th'[u] = th[u]
    BY DEF FdInv
  <2>2. th[u].pc \in Closing => el[th[u].victim].live
    BY VictimMine
  <2>3. ASSUME At(u, "transfer"), IsOpen(el[th[u].cell].fd)
        PROVE  fdtab'[el[th[u].cell].fd] = fdtab[el[th[u].cell].fd]
    BY <1>1, <2>3 DEF IsOpen
  <2> QED BY <2>1, <2>2, <2>3, OthersSafe, HeldAt
<1> QED BY <1>4, <1>5, <1>6 DEF FdInv

LEMMA SeekFd ==
  ASSUME IInv, ApartInv, FdInv, NEW t \in Threads, Seek(t)
  PROVE  FdInv'
<1>1. Ready(t) /\ th[t].pc = "seek"
  BY AtWork DEF Seek, At
<1>2. CASE Return(t) /\ UNCHANGED fdtab
  <2>1. FdQuiet /\ UNCHANGED openList
    BY <1>2 DEF Seek, FdQuiet
  <2> QED BY <1>1, <1>2, <2>1, ReturnPlain
<1>3. CASE el[th[t].cell].fd = 0 /\ UNCHANGED fdtab /\ Goto(t, "transfer")
  <2>1. FdQuiet /\ UNCHANGED <<el, openList>>
    BY <1>3 DEF Seek, FdQuiet
  <2>2. /\ \A u \in Threads \ {t} : th'[u] = th[u]
        /\ th'[t].op = th[t].op /\ th'[t].cell = th[t].cell /\ th'[t].pc = "transfer"
    BY <1>1, <1>3 DEF Goto, Ready, Thread
  <2>3. Safe(t)'
    BY <1>3, <2>1, <2>2 DEF FdInv, Safe, Closing
  <2> QED BY <1>1, <2>1, <2>2, <2>3, ListKept, FdQuietStep
<1>4. CASE /\ IsOpen(el[th[t].cell].fd) /\ Goto(t, "transfer")
           /\ fdtab' = [fdtab EXCEPT ![el[th[t].cell].fd].pos = th[t].off]
  <2>1. PICK fd \in Fds : fd = el[th[t].cell].fd
    BY <1>4 DEF IsOpen
  <2>2. IsOpen(fd) /\ fdtab[fd].file = th[t].oid /\ th[t].oid \in Oids /\ fdtab[fd] \in Descriptor
    BY <1>1, <2>1, SeekOrTransfer DEF Ready, MemoryTyped
  <2>3. /\ fdtab'[fd].pos = th[t].off /\ fdtab'[fd].file = fdtab[fd].file
        /\ \A g \in Fds \ {fd} : fdtab'[g] = fdtab[g]
        /\ UNCHANGED <<el, openList, io>>
    BY <1>1, <1>4, <2>1, <2>2 DEF Seek, Ready, MemoryTyped, Descriptor
  <2>4. /\ \A u \in Threads \ {t} : th'[u] = th[u]
        /\ th'[t].op = th[t].op /\ th'[t].cell = th[t].cell /\ th'[t].off = th[t].off
        /\ th'[t].pc = "transfer"
    BY <1>1, <1>4 DEF Goto, Ready, Thread
  <2>5. fdtab' \in [Fds -> Descriptor]
    <3>1. th[t].off \in Nat
      BY <1>1 DEF Ready, Working, Offsets
    <3>2. PICK r : r = [fdtab[fd] EXCEPT !.pos = th[t].off]
      OBVIOUS
    <3>3. r \in Descriptor
      BY <2>2, <3>1, <3>2 DEF Descriptor
    <3>4. fdtab' = [fdtab EXCEPT ![fd] = r]
      BY <1>4, <2>1, <3>2
    <3>5. fdtab \in [Fds -> Descriptor]
      BY <1>1 DEF Ready, MemoryTyped
    <3> QED BY <3>3, <3>4, <3>5
  <2>6. Safe(t)'
    <3>1. IsOpen(fd)'
      <4>1. fdtab[fd].file # None
        BY <2>2, Numbers
      <4> QED BY <2>3, <4>1 DEF IsOpen, Closed
    <3>2. el'[th'[t].cell].fd = fd /\ fdtab'[fd].pos = th'[t].off
      BY <2>1, <2>3, <2>4
    <3>3. Alone => th'[t].op # "remove"
      BY <2>4 DEF FdInv, Safe
    <3> QED BY <2>4, <3>1, <3>2, <3>3 DEF Safe, Closing
  <2> QED BY <1>1, <2>1, <2>3, <2>4, <2>5, <2>6, PositionFd
<1> QED BY <1>2, <1>3, <1>4 DEF Seek

LEMMA TransferFd ==
  ASSUME IInv, ApartInv, FdInv, NEW t \in Threads, Transfer(t)
  PROVE  FdInv'
<1>1. Ready(t) /\ th[t].pc = "transfer" /\ th[t].op \in Transfers
  BY AtWork DEF Transfer, At, Ready, Working, OnPath, Added, Taken, Closing, Listing
<1>2. CASE ~IsOpen(el[th[t].cell].fd)
  <2>1. FdQuiet /\ UNCHANGED openList /\ Return(t)
    BY <1>2 DEF Transfer, FdQuiet
  <2> QED BY <1>1, <2>1, ReturnPlain
<1>3. CASE IsOpen(el[th[t].cell].fd)
  <2>1. PICK fd \in Fds : fd = el[th[t].cell].fd
    BY <1>3 DEF IsOpen
  <2>2. fdtab[fd].file = th[t].oid /\ fdtab[fd] \in Descriptor
    BY <1>1, <2>1, SeekOrTransfer DEF Ready, MemoryTyped
  <2>4. /\ fdtab' \in [Fds -> Descriptor] /\ fdtab'[fd].file = fdtab[fd].file
        /\ \A g \in Fds \ {fd} : fdtab'[g] = fdtab[g]
        /\ UNCHANGED <<el, openList>>
    <3>1. fdtab' = IF UsesMode(t) THEN [fdtab EXCEPT ![fd].pos = @ + 1] ELSE fdtab
      BY <1>3, <2>1 DEF Transfer
    <3>2. fdtab[fd].pos \in Nat
      BY <2>2 DEF Descriptor
    <3>3. UNCHANGED <<el, openList>>
      BY DEF Transfer
    <3>4. CASE UsesMode(t)
      <4>1. PICK r : r = [fdtab[fd] EXCEPT !.pos = @ + 1]
        OBVIOUS
      <4>2. r \in Descriptor /\ r.file = fdtab[fd].file
        BY <2>2, <3>2, <4>1 DEF Descriptor
      <4>3. fdtab' = [fdtab EXCEPT ![fd] = r]
        BY <3>1, <3>4, <4>1
      <4> QED BY <1>1, <3>3, <4>2, <4>3 DEF Ready, MemoryTyped
    <3>5. CASE ~UsesMode(t)
      BY <1>1, <3>1, <3>3, <3>5 DEF Ready, MemoryTyped
    <3> QED BY <3>4, <3>5
  <2>5. th'[t] = Idle /\ (\A u \in Threads \ {t} : th'[u] = th[u]) /\ th'[t].pc # "clearFd"
    BY <1>1, ReturnIs, IdleIs DEF Transfer, Ready
  <2>7. Safe(t)'
    BY <2>5, IdleIs, PlainSafe DEF Careful
  <2> QED BY <1>1, <2>1, <2>4, <2>5, <2>7, PositionFd
<1> QED BY <1>2, <1>3

LEMMA AddOidFd ==
  ASSUME IInv, ApartInv, FdInv, NEW t \in Threads, AddOid(t)
  PROVE  FdInv'
<1>1. Ready(t) /\ th[t].pc = "addOid"
  BY AtWork DEF AddOid, At
<1>2. PICK c \in Cells :
        /\ ~el[c].live /\ el' = [el EXCEPT ![c] = Fresh(th[t].oid)]
        /\ th' = [th EXCEPT ![t].pc = "initMode", ![t].cell = c, ![t].next = "setattr"]
  BY DEF AddOid
<1>3. /\ el'[c].fd = 0 /\ el'[c].live
      /\ \A d \in Cells \ {c} : el'[d] = el[d]
      /\ UNCHANGED <<openList, fdtab, io>>
  BY <1>1, <1>2 DEF AddOid, Ready, MemoryTyped, Fresh
<1>4. /\ \A u \in Threads \ {t} : th'[u] = th[u]
      /\ th'[t].pc = "initMode" /\ th'[t].op = th[t].op
  BY <1>1, <1>2 DEF Ready, Thread
<1>5. \A d : Shut(d)' <=> Shut(d)
  BY <1>1, <1>4 DEF Shut, At
<1>6. Known'
  BY <1>3, <1>5, Numbers DEF FdInv, Known
<1>7. FdsHeld'
  <2> SUFFICES ASSUME NEW g \in Fds, IsOpen(g)' PROVE \E d \in Cells : Holds(d, g)'
    BY DEF FdsHeld
  <2>1. PICK d \in Cells : Holds(d, g)
    BY <1>3 DEF FdInv, FdsHeld, IsOpen
  <2>2. d # c
    BY <1>2, <2>1 DEF Holds
  <2> QED BY <1>3, <1>5, <2>1, <2>2 DEF Holds
<1>8. ListLive'
  <2>1. \A i \in DOMAIN openList : openList[i] \in Cells
    BY <1>1 DEF Ready, MemoryTyped
  <2> QED BY <1>3, <2>1 DEF FdInv, ListLive
<1>10. ASSUME NEW u \in Threads \ {t}
       PROVE  Safe(u)'
  <2>1. Safe(u) /\ th'[u] = th[u]
    BY <1>4 DEF FdInv
  <2>2. Held(u) => th[u].cell \in Cells \ {c}
    BY <1>2, CellMine, HeldCell
  <2>3. th[u].pc \in Closing => th[u].victim \in Cells \ {c} /\ el[th[u].victim].live
    BY <1>2, VictimMine
  <2> QED BY <1>3, <2>1, <2>2, <2>3, OthersSafe, HeldAt
<1>11. Safe(t)'
  BY <1>4, PlainSafe DEF Careful
<1> QED BY <1>6, <1>7, <1>8, <1>10, <1>11 DEF FdInv

LEMMA FreeElementFd ==
  ASSUME IInv, ApartInv, FdInv, NEW t \in Threads, FreeElement(t)
  PROVE  FdInv'
<1>1. Ready(t) /\ th[t].pc = "free"
  BY AtWork DEF FreeElement, At
<1>2. th[t].op = "remove" /\ Held(t)
  BY <1>1, HeldAt DEF Ready, Working, OnPath, Added, Uses, Opening, Listing, Closing
<1>3. PICK c \in Cells : c = th[t].cell /\ Mine(t, c)
  BY <1>2, CellMine
<1>4. el[c].fd \notin Fds /\ ~Alone
  BY <1>1, <1>2, <1>3 DEF FdInv, Safe
<1>5. PICK fd \in Fds \cup {0, Bad} : el' = [el EXCEPT ![c] = Free(fd)]
  BY <1>3 DEF FreeElement
<1>6. /\ ~el'[c].live
      /\ \A d \in Cells \ {c} : el'[d] = el[d]
      /\ UNCHANGED <<openList, fdtab, io>>
  <2>1. el'[c] = Free(fd) /\ \A d \in Cells \ {c} : el'[d] = el[d]
    BY <1>1, <1>5 DEF Ready, MemoryTyped
  <2>2. ~el'[c].live
    BY <2>1 DEF Free
  <2>3. UNCHANGED <<openList, fdtab, io>>
    BY DEF FreeElement
  <2> QED BY <2>1, <2>2, <2>3
<1>7. /\ \A u \in Threads \ {t} : th'[u] = th[u]
      /\ th'[t].pc = "unlink" /\ th'[t].op = th[t].op
  BY <1>1 DEF FreeElement, Goto, Ready, Thread
<1>8. \A d : Shut(d)' <=> Shut(d)
  BY <1>1, <1>7 DEF Shut, At
<1>9. Known'
  BY <1>6, <1>8 DEF FdInv, Known
<1>10. FdsHeld'
  <2> SUFFICES ASSUME NEW g \in Fds, IsOpen(g)' PROVE \E d \in Cells : Holds(d, g)'
    BY DEF FdsHeld
  <2>1. PICK d \in Cells : Holds(d, g)
    BY <1>6 DEF FdInv, FdsHeld, IsOpen
  <2>2. d # c
    BY <1>4, <2>1 DEF Holds
  <2> QED BY <1>6, <1>8, <2>1, <2>2 DEF Holds
<1>11. ListLive'
  BY <1>4, <1>6 DEF FdInv, ListLive, Alone
<1>12. ASSUME NEW u \in Threads \ {t}
       PROVE  Safe(u)'
  <2>1. Safe(u) /\ th'[u] = th[u]
    BY <1>7 DEF FdInv
  <2>2. Held(u) => th[u].cell \in Cells \ {c}
    BY <1>3, CellMine DEF Mine
  <2>3. th[u].pc \in Closing => th[u].victim \in Cells \ {c} /\ el[th[u].victim].live
    BY <1>3, VictimMine DEF Mine
  <2> QED BY <1>6, <2>1, <2>2, <2>3, OthersSafe, HeldAt
<1>13. Safe(t)'
  BY <1>7, PlainSafe DEF Careful
<1> QED BY <1>9, <1>10, <1>11, <1>12, <1>13 DEF FdInv

\* All descriptors are closed: before the first operation, after the end of the process.
NoneOpen ==
  /\ \A fd \in Fds : fdtab[fd] = Closed
  /\ \A t \in Threads : th[t] = Idle
  /\ openList = <<>>
  /\ \A c \in Cells : el[c].live => el[c].fd = 0

LEMMA NoneOpenSafe == NoneOpen => FdInv
<1> SUFFICES ASSUME NoneOpen PROVE FdInv
  OBVIOUS
<1>1. Known
  BY Numbers DEF NoneOpen, Known
<1>2. FdsHeld /\ ListLive
  BY DEF NoneOpen, FdsHeld, IsOpen, ListLive
<1>3. \A t \in Threads : Safe(t)
  BY DEF NoneOpen, Safe, Idle, Closing
<1> QED BY <1>1, <1>2, <1>3 DEF FdInv, NoneOpen

LEMMA NewElement ==
  ASSUME NEW o, NEW e, e = Fresh(o) \/ e = Free(0)
  PROVE  e.fd = 0
<1>1. CASE e = Fresh(o)
  BY <1>1 DEF Fresh
<1>2. CASE e = Free(0)
  BY <1>2 DEF Free
<1> QED BY <1>1, <1>2

LEMMA DownFd ==
  ASSUME FdInv, Down, UNCHANGED io
  PROVE  FdInv'
<1>1. \A c \in Cells : el'[c].fd = 0
  BY NewElement DEF Down
<1>3. NoneOpen'
  BY <1>1 DEF Down, NoneOpen
<1> QED BY <1>3, NoneOpenSafe, PTL

LEMMA RestartFd ==
  ASSUME IInv, ApartInv, FdInv, Restart
  PROVE  FdInv'
<1>1. \A c \in Cells : el'[c] = Fresh(c) \/ el'[c] = Free(0)
  BY DEF Restart, Loaded
<1>2. \A c \in Cells : el'[c].fd = 0
  BY <1>1, NewElement
<1>4. NoneOpen'
  BY <1>2 DEF Restart, ApartInv, WhenDown, NoneOpen
<1> QED BY <1>4, NoneOpenSafe, PTL

LEMMA StartFd ==
  ASSUME IInv, FdInv, NEW t \in Threads, NEW op \in Ops, NEW o \in Oids, NEW off \in Offsets,
         Start(t, op, o, off)
  PROVE  FdInv'
<1>1. th \in [Threads -> Thread] /\ th[t].pc = "idle"
  BY TypesAre DEF IInv, Start, At
<1>2. FdQuiet /\ UNCHANGED openList
  BY DEF Start, FdQuiet, memory
<1>3. /\ \A u \in Threads \ {t} : th'[u] = th[u]
      /\ th'[t].pc \in {"access", "exists"} /\ th'[t].op = op
  BY <1>1 DEF Start, Idle
<1>4. Safe(t)'
  BY <1>3 DEF Safe, Closing, Alone
<1> QED BY <1>1, <1>2, <1>3, <1>4, ListKept, FdQuietStep

LEMMA StutterFd ==
  ASSUME IInv, FdInv, UNCHANGED vars
  PROVE  FdInv'
<1>1. FdQuiet /\ UNCHANGED openList /\ UNCHANGED th
  BY DEF FdQuiet, vars, memory
<1>2. Known' /\ FdsHeld'
  BY <1>1 DEF FdInv, Known, FdsHeld, Holds, FdQuiet, Shut, At, IsOpen
<1>3. ListLive'
  BY <1>1, ListKept
<1>5. \A t \in Threads : Safe(t)'
  <2>1. UNCHANGED <<el, fdtab, th>>
    BY DEF vars, memory
  <2> QED BY <2>1 DEF FdInv, Safe, IsOpen
<1> QED BY <1>2, <1>3, <1>5 DEF FdInv

LEMMA StepFd ==
  ASSUME IInv, ApartInv, FdInv, NoEviction \/ Alone, NEW t \in Threads, Step(t)
  PROVE  FdInv'
<1>1. CASE Segfault
  BY <1>1, DownFd DEF Segfault
<1>2. CASE Exists(t) \/ Access(t) \/ Creat(t) \/ AddOid(t) \/ SetAttr(t)
  BY <1>2, ExistsFd, AccessFd, CreatFd, AddOidFd, SetAttrFd
<1>3. CASE ~Segfault /\ (FindOid(t) \/ CheckFd(t) \/ OpenFile(t) \/ OpenFails(t) \/ SetMode(t))
  BY <1>3, FindOidFd, CheckFdFd, OpenFileFd, OpenFailsFd, SetModeFd
<1>4. CASE ~Segfault /\ (CheckMode(t) \/ CheckAgain(t) \/ CountOpen(t) \/ Evict(t) \/ Delist(t))
  BY <1>4, CheckModeFd, CheckAgainFd, CountOpenFd, EvictFd, DelistFd
<1>5. CASE Close(t) \/ ClearFd(t) \/ ClearMode(t) \/ Unshift(t) \/ Seek(t) \/ Transfer(t)
  BY <1>5, CloseFd, ClearFdFd, ClearModeFd, UnshiftFd, SeekFd, TransferFd
<1>6. CASE HashRemove(t) \/ CheckClosed(t) \/ FreeElement(t) \/ Unlink(t) \/ RemoveAttrs(t)
  BY <1>6, HashRemoveFd, CheckClosedFd, FreeElementFd, UnlinkFd, RemoveAttrsFd
<1> QED BY <1>1, <1>2, <1>3, <1>4, <1>5, <1>6 DEF Step

LEMMA InitFd == Init => FdInv
<1> SUFFICES ASSUME Init PROVE FdInv
  OBVIOUS
<1>1. \A c \in Cells : el[c] = Fresh(c) \/ el[c] = Free(0)
  BY DEF Init
<1>2. \A c \in Cells : el[c].fd = 0
  BY <1>1, NewElement
<1>3. NoneOpen
  BY <1>2 DEF Init, NoneOpen
<1> QED BY <1>3, NoneOpenSafe

LEMMA NextFd ==
  ASSUME IInv, ApartInv, FdInv, NoEviction \/ Alone, [Next]_vars
  PROVE  FdInv'
<1>1. CASE \E t \in Threads : Step(t)
  BY <1>1, StepFd
<1>2. CASE \E t \in Threads, op \in Ops, o \in Oids, off \in Offsets : Start(t, op, o, off)
  BY <1>2, StartFd
<1>3. CASE Crash
  BY <1>3, DownFd DEF Crash
<1>4. CASE Restart
  BY <1>4, RestartFd
<1>5. CASE UNCHANGED vars
  BY <1>5, StutterFd
<1> QED BY <1>1, <1>2, <1>3, <1>4, <1>5 DEF Next, Finished

\* A call on a file is recorded by the thread that makes it; on a descriptor that is not
\* standard input it reaches the object's file, at the offset.
LEMMA NewCall ==
  ASSUME IInv, ApartInv, FdInv, NEW t \in Threads, Transfer(t)
  PROVE  /\ At(t, "transfer") /\ th[t].op \in Transfers
         /\ UNCHANGED io \/ \E r : /\ io' = io \cup {r} /\ r.op = th[t].op
                                   /\ el[th[t].cell].fd # 0 => r.file = r.oid /\ r.pos = r.off
<1>1. Ready(t) /\ th[t].pc = "transfer" /\ th[t].op \in Transfers
  BY AtWork DEF Transfer, At, Ready, Working, OnPath, Added, Taken, Closing, Listing
<1> DEFINE fd == el[th[t].cell].fd
<1>2. io' = IF IsOpen(fd) \/ fd = 0 THEN io \cup {Call(t, fd)} ELSE io
  BY DEF Transfer
<1>3. IsOpen(fd) => fd \in Fds /\ fd # 0 /\ fdtab[fd].file = th[t].oid
  BY <1>1, SeekOrTransfer, Numbers DEF IsOpen
<1>4. UsesMode(t) /\ fd # 0 => fdtab[fd].pos = th[t].off
  BY <1>1 DEF FdInv, Safe, UsesMode
<1> HIDE DEF fd
<1>5. ASSUME IsOpen(fd) \/ fd = 0
      PROVE  \E r : /\ io' = io \cup {r} /\ r.op = th[t].op
                    /\ fd # 0 => r.file = r.oid /\ r.pos = r.off
  <2>1. PICK r : r = Call(t, fd)
    OBVIOUS
  <2>2. io' = io \cup {r} /\ r.op = th[t].op
    BY <1>2, <1>5, <2>1 DEF Call
  <2>3. fd # 0 => r.file = r.oid /\ r.pos = r.off
    BY <1>3, <1>4, <1>5, <2>1 DEF Call
  <2> QED BY <2>2, <2>3
<1>6. UNCHANGED io \/ \E r : /\ io' = io \cup {r} /\ r.op = th[t].op
                             /\ fd # 0 => r.file = r.oid /\ r.pos = r.off
  BY <1>2, <1>5
<1> QED BY <1>1, <1>6 DEF At, fd

LEMMA IoKept ==
  ASSUME [Next]_vars, \A t \in Threads : ~Transfer(t)
  PROVE  UNCHANGED io
<1>1. ASSUME NEW t \in Threads, Step(t) PROVE UNCHANGED io
  <2>1. CASE Exists(t) \/ Access(t) \/ Creat(t) \/ AddOid(t) \/ SetAttr(t)
    BY <2>1 DEF Exists, Access, Creat, AddOid, SetAttr
  <2>2. CASE FindOid(t) \/ CheckFd(t) \/ OpenFile(t) \/ OpenFails(t) \/ SetMode(t)
    BY <2>2 DEF FindOid, OpenOidFails, CheckFd, OpenFile, OpenFails, SetMode, Segfault
  <2>3. CASE CheckMode(t) \/ CheckAgain(t) \/ CountOpen(t) \/ Evict(t) \/ Delist(t)
    BY <2>3 DEF CheckMode, CheckAgain, CountOpen, Evict, Delist, Segfault
  <2>4. CASE Close(t) \/ ClearFd(t) \/ ClearMode(t) \/ Unshift(t) \/ Seek(t)
    BY <2>4 DEF Close, ClearFd, ClearMode, Unshift, Seek
  <2>5. CASE HashRemove(t) \/ CheckClosed(t) \/ FreeElement(t) \/ Unlink(t) \/ RemoveAttrs(t)
    BY <2>5 DEF HashRemove, CheckClosed, FreeElement, Unlink, RemoveAttrs
  <2> QED BY <1>1, <2>1, <2>2, <2>3, <2>4, <2>5 DEF Step
<1>2. CASE \E t \in Threads, op \in Ops, o \in Oids, off \in Offsets : Start(t, op, o, off)
  BY <1>2 DEF Start
<1>3. CASE Crash \/ Restart \/ UNCHANGED vars
  BY <1>3 DEF Crash, Restart, vars
<1> QED BY <1>1, <1>2, <1>3 DEF Next, Finished

LEMMA NextHits ==
  ASSUME IInv, ApartInv, FdInv, TransfersHitTheirPlace, [Next]_vars,
         \A t \in Threads : At(t, "transfer") /\ th[t].op \in Transfers => el[th[t].cell].fd # 0
  PROVE  TransfersHitTheirPlace'
<1>1. CASE \E t \in Threads : Transfer(t)
  <2>1. PICK t \in Threads : Transfer(t)
    BY <1>1
  <2>2. UNCHANGED io \/ \E r : io' = io \cup {r} /\ r.file = r.oid /\ r.pos = r.off
    BY <2>1, NewCall
  <2> QED BY <2>2 DEF TransfersHitTheirPlace, CallsReachTheirObject, IOAtItsOffset
<1>2. CASE \A t \in Threads : ~Transfer(t)
  BY <1>2, IoKept DEF TransfersHitTheirPlace, CallsReachTheirObject, IOAtItsOffset
<1> QED BY <1>1, <1>2

LEMMA NextHome ==
  ASSUME IInv, ApartInv, FdInv, IOGoesToItsObject, [Next]_vars,
         \A t \in Threads : At(t, "transfer") /\ th[t].op \in {"read", "write"} =>
           el[th[t].cell].fd # 0
  PROVE  IOGoesToItsObject'
<1>1. CASE \E t \in Threads : Transfer(t)
  <2>1. PICK t \in Threads : Transfer(t)
    BY <1>1
  <2>2. UNCHANGED io \/ \E r : io' = io \cup {r} /\ (r.op \in {"read", "write"} => r.file = r.oid)
    BY <2>1, NewCall
  <2> QED BY <2>2 DEF IOGoesToItsObject
<1>2. CASE \A t \in Threads : ~Transfer(t)
  BY <1>2, IoKept DEF IOGoesToItsObject
<1> QED BY <1>1, <1>2

\* A step writes the descriptors of no element that another thread holds.
LEMMA OthersFd ==
  ASSUME IInv, ApartInv, FdInv, NEW t \in Threads, Step(t), ~Segfault, NEW u \in Threads \ {t}
  PROVE  /\ th'[u] = th[u]
         /\ Held(u) => el'[th[u].cell].fd = el[th[u].cell].fd
<1>1. th[t].pc # "idle"
  BY DEF Step, At, Exists, Access, Creat, AddOid, SetAttr, FindOid, CheckFd, OpenFile, OpenFails,
     SetMode, CheckMode, CheckAgain, CountOpen, Evict, Delist, Close, ClearFd, ClearMode, Unshift,
     Seek, Transfer, HashRemove, CheckClosed, FreeElement, Unlink, RemoveAttrs
<1>2. Ready(t)
  BY <1>1, AtWork
<1>3. th'[u] = th[u]
  <2>1. CASE Exists(t) \/ Access(t) \/ Creat(t) \/ AddOid(t) \/ SetAttr(t)
    BY <1>2, <2>1 DEF Exists, Access, Creat, AddOid, SetAttr, Goto, Return, Ready
  <2>2. CASE FindOid(t) \/ CheckFd(t) \/ OpenFile(t) \/ OpenFails(t) \/ SetMode(t)
    BY <1>2, <2>2 DEF FindOid, OpenOidFails, CheckFd, OpenFile, OpenFails, SetMode, Goto, Return, Ready
  <2>3. CASE CheckMode(t) \/ CheckAgain(t) \/ CountOpen(t) \/ Evict(t) \/ Delist(t)
    BY <1>2, <2>3 DEF CheckMode, CheckAgain, CountOpen, Evict, Delist, Goto, Ready
  <2>4. CASE Close(t) \/ ClearFd(t) \/ ClearMode(t) \/ Unshift(t) \/ Seek(t) \/ Transfer(t)
    BY <1>2, <2>4 DEF Close, ClearFd, ClearMode, Unshift, Seek, Transfer, Goto, Return, Ready
  <2>5. CASE HashRemove(t) \/ CheckClosed(t) \/ FreeElement(t) \/ Unlink(t) \/ RemoveAttrs(t)
    BY <1>2, <2>5 DEF HashRemove, CheckClosed, FreeElement, Unlink, RemoveAttrs, Goto, Return, Ready
  <2> QED BY <2>1, <2>2, <2>3, <2>4, <2>5 DEF Step
<1>4. ASSUME Held(u) PROVE el'[th[u].cell].fd = el[th[u].cell].fd
  <2>1. PICK c \in Cells : c = th[u].cell /\ el[c].live
    BY <1>4, CellMine, HeldCell
  <2>2. /\ Held(t) => th[t].cell # c
        /\ th[t].pc \in Closing => th[t].victim # c
    BY <1>4, <2>1, CellMine DEF Mine
  <2>3. CASE el' = el
    BY <2>1, <2>3
  <2>4. CASE AddOid(t)
    <3>1. PICK d \in Cells : ~el[d].live /\ el' = [el EXCEPT ![d] = Fresh(th[t].oid)]
      BY <2>4 DEF AddOid
    <3> QED BY <1>2, <2>1, <3>1 DEF Ready, MemoryTyped
  <2>5. CASE OpenFile(t) \/ OpenFails(t) \/ SetMode(t) \/ FreeElement(t)
    <3>1. Held(t)
      BY <1>2, <2>5 DEF OpenFile, OpenFails, SetMode, FreeElement, At, Ready, Working, OnPath, Held,
         Uses, Added, Taken, Opening, Listing, Closing
    <3>2. \E e : el' = [el EXCEPT ![th[t].cell] = e]
      BY <2>5 DEF OpenFile, OpenFails, SetMode, FreeElement
    <3> QED BY <1>2, <2>1, <2>2, <3>1, <3>2 DEF Ready, MemoryTyped
  <2>6. CASE ClearFd(t) \/ ClearMode(t)
    <3>1. th[t].pc \in Closing
      BY <2>6 DEF ClearFd, ClearMode, At, Closing
    <3>2. \E e : el' = [el EXCEPT ![th[t].victim] = e]
      BY <2>6 DEF ClearFd, ClearMode
    <3> QED BY <1>2, <2>1, <2>2, <3>1, <3>2 DEF Ready, MemoryTyped
  <2>7. el' = el \/ AddOid(t) \/ OpenFile(t) \/ OpenFails(t) \/ SetMode(t) \/ FreeElement(t)
        \/ ClearFd(t) \/ ClearMode(t)
    BY DEF Step, memory, Exists, Access, Creat, SetAttr, FindOid, OpenOidFails, CheckFd,
       CheckMode, CheckAgain, CountOpen, Evict, Delist, Close, Unshift,
       Seek, Transfer, HashRemove, CheckClosed, Unlink, RemoveAttrs
  <2> QED BY <2>1, <2>3, <2>4, <2>5, <2>6, <2>7
<1> QED BY <1>3, <1>4

\* While no file is closed for another one, a thread has the file of its element open from
\* the opening to the transfer.
Opened == {"setMode", "count", "unshift", "mode", "seek", "transfer"}

Steady(t) ==
  /\ th[t].op \in Transfers /\ th[t].pc \in Opened => el[th[t].cell].fd # 0
  /\ th[t].pc \in Closing => th[t].back # "unshift"

SteadyInv == \A t \in Threads : Steady(t)

LEMMA StepSteady ==
  ASSUME IInv, ApartInv, FdInv, SteadyInv, NoEviction, NEW t \in Threads, Step(t), ~Segfault
  PROVE  Steady(t)'
<1>1. th[t].pc # "idle"
  BY DEF Step, At, Exists, Access, Creat, AddOid, SetAttr, FindOid, CheckFd, OpenFile, OpenFails,
     SetMode, CheckMode, CheckAgain, CountOpen, Evict, Delist, Close, ClearFd, ClearMode, Unshift,
     Seek, Transfer, HashRemove, CheckClosed, FreeElement, Unlink, RemoveAttrs
<1>2. Ready(t) /\ Steady(t)
  BY <1>1, AtWork DEF SteadyInv
<1>3. th'[t].pc \notin Opened \cup Closing => Steady(t)'
  BY DEF Steady
<1>4. CASE Exists(t) \/ Access(t) \/ Creat(t) \/ SetAttr(t) \/ FindOid(t) \/ OpenFails(t)
  <2>1. CASE Exists(t) \/ Access(t) \/ Creat(t) \/ SetAttr(t)
    <3>1. th'[t].pc \in {"idle", "hash", "find", "creat", "addOid"}
      BY <1>2, <2>1, IdleIs DEF Exists, Access, Creat, SetAttr, Goto, Return, Ready, Thread
    <3> QED BY <1>3, <3>1 DEF Opened, Closing
  <2>2. CASE FindOid(t) \/ OpenFails(t)
    <3>1. Return(t) \/ th'[t].pc = "openOid"
      <4>1. \/ Return(t)
            \/ \E c, n : th' = [th EXCEPT ![t].pc = "openOid", ![t].cell = c, ![t].next = n]
        BY <2>2 DEF FindOid, OpenOidFails, OpenFails
      <4> QED BY <1>2, <4>1 DEF Ready, Thread
    <3>2. th'[t].pc \in {"idle", "openOid"}
      BY <1>2, <3>1, ReturnIs, IdleIs DEF Ready
    <3> QED BY <1>3, <3>2 DEF Opened, Closing
  <2> QED BY <1>4, <2>1, <2>2
<1>5. CASE HashRemove(t) \/ FreeElement(t) \/ Unlink(t) \/ RemoveAttrs(t) \/ Transfer(t) \/ AddOid(t)
  <2>1. CASE HashRemove(t) \/ FreeElement(t)
    <3>1. CASE Goto(t, "rmattrs") \/ Goto(t, "unlink")
      <4>1. th'[t].pc \in {"rmattrs", "unlink"}
        BY <1>2, <3>1 DEF Goto, Ready, Thread
      <4> QED BY <1>3, <4>1 DEF Opened, Closing
    <3>2. CASE \E c \in Found(th[t].oid) : th' = [th EXCEPT ![t].pc = "checkClosed", ![t].cell = c]
      <4>1. PICK c : th' = [th EXCEPT ![t].pc = "checkClosed", ![t].cell = c]
        BY <3>2
      <4>2. th'[t].pc = "checkClosed"
        BY <1>2, <4>1 DEF Ready, Thread
      <4> QED BY <1>3, <4>2 DEF Opened, Closing
    <3> QED BY <2>1, <3>1, <3>2 DEF HashRemove, FreeElement
  <2>3. CASE AddOid(t)
    <3>1. PICK c \in Cells :
            th' = [th EXCEPT ![t].pc = "initMode", ![t].cell = c, ![t].next = "setattr"]
      BY <2>3 DEF AddOid
    <3>2. th'[t].pc = "initMode"
      BY <1>2, <3>1 DEF Ready, Thread
    <3> QED BY <1>3, <3>2 DEF Opened, Closing
  <2>2. CASE Unlink(t) \/ RemoveAttrs(t) \/ Transfer(t)
    <3>1. Return(t) \/ Goto(t, "rmattrs")
      BY <2>2 DEF Unlink, RemoveAttrs, Transfer
    <3>2. th'[t].pc \in {"idle", "rmattrs"}
      BY <1>2, <3>1, ReturnIs, IdleIs DEF Ready, Goto, Thread
    <3> QED BY <1>3, <3>2 DEF Opened, Closing
  <2> QED BY <1>5, <2>1, <2>2, <2>3
<1>6. CASE CheckFd(t) \/ CheckAgain(t) \/ Seek(t) \/ CountOpen(t) \/ Unshift(t)
  <2>1. UNCHANGED el
    BY <1>6 DEF CheckFd, CheckAgain, Seek, CountOpen, Unshift, memory
  <2>2. th'[t].op \in Transfers /\ th'[t].pc \in Opened => el[th'[t].cell].fd # 0
    <3>1. CASE CheckFd(t) \/ CheckAgain(t)
      BY <1>2, <3>1 DEF CheckFd, CheckAgain, Goto, Ready, Thread, Opened
    <3>2. CASE Seek(t) \/ CountOpen(t) \/ Unshift(t)
      <4>1. /\ th[t].pc \in {"seek", "count", "unshift"}
            /\ \/ th'[t].op = th[t].op /\ th'[t].cell = th[t].cell
               \/ th'[t] = Idle
        BY <1>2, <3>2 DEF Seek, CountOpen, Unshift, Goto, Return, Ready, Thread, At
      <4> QED BY <1>2, <4>1, IdleIs DEF Steady, Opened, Transfers
    <3> QED BY <1>6, <3>1, <3>2
  <2>3. th'[t].pc \notin Closing
    <3>1. th'[t].pc \in {"open", "seek", "reopen", "transfer", "idle", "unshift", "evict", th[t].next}
      BY <1>2, <1>6, IdleIs DEF CheckFd, CheckAgain, Seek, CountOpen, Unshift, Goto, Return, Ready,
         Thread
    <3>2. th[t].next \in {"setattr", "transfer", "mode", "seek"} \/ th'[t].pc # th[t].next
      BY <1>2, <1>6, IdleIs DEF CheckFd, CheckAgain, Seek, CountOpen, Unshift, At, Ready, Working,
         OnPath, Returns, Added, Uses, Taken, Opening, Listing, Closing, Transfers, Goto, Return,
         Thread
    <3> QED BY <3>1, <3>2 DEF Closing
  <2> QED BY <2>1, <2>2, <2>3 DEF Steady
<1>7. CASE OpenFile(t) \/ SetMode(t)
  <2>1. th[t].cell \in Cells /\ el[th[t].cell] \in Element
    BY <1>2, <1>7 DEF OpenFile, SetMode, At, Ready, Working, OnPath, Uses, Added, Taken, Opening,
       Listing, Closing, MemoryTyped
  <2>2. th'[t].pc \in {"setMode", "count"} /\ th'[t].op = th[t].op /\ th'[t].cell = th[t].cell
    BY <1>2, <1>7 DEF OpenFile, SetMode, Goto, Ready, Thread
  <2>3. th[t].op \in Transfers => el'[th[t].cell].fd # 0
    <3>1. CASE OpenFile(t)
      <4>1. \E fd \in Fds : el' = [el EXCEPT ![th[t].cell].fd = fd]
        BY <3>1, MinFree DEF OpenFile, FreeFds
      <4> QED BY <1>2, <2>1, <4>1, Numbers DEF Ready, MemoryTyped, Element
    <3>2. CASE SetMode(t)
      <4>1. th[t].op \in Transfers => th[t].pc = "setMode"
        BY <1>2, <3>2 DEF SetMode, At, Ready, Working, OnPath, Added, Uses, Taken, Opening, Listing,
           Closing, Transfers
      <4>2. th[t].op \in Transfers => el[th[t].cell].fd # 0
        BY <1>2, <4>1 DEF Steady, Opened
      <4>3. el'[th[t].cell].fd = el[th[t].cell].fd
        BY <1>2, <2>1, <3>2 DEF SetMode, Ready, MemoryTyped, Element
      <4> QED BY <4>2, <4>3
    <3> QED BY <1>7, <3>1, <3>2
  <2> QED BY <2>2, <2>3 DEF Steady, Closing
<1>8. CASE CheckMode(t) \/ CheckClosed(t)
  <2>1. UNCHANGED el /\ th'[t].pc \in {"delist", "again", "free"}
    BY <1>2, <1>8 DEF CheckMode, CheckClosed, Goto, Ready, Thread, memory
  <2>2. th'[t].pc = "delist" => th'[t].back # "unshift"
    BY <1>2, <1>8 DEF CheckMode, CheckClosed, Goto, Ready, Thread
  <2> QED BY <2>1, <2>2 DEF Steady, Opened, Closing
<1>9. CASE Delist(t) \/ Close(t) \/ ClearFd(t) \/ ClearMode(t)
  <2>1. th[t].pc \in Closing /\ th'[t].back = th[t].back
        /\ th'[t].pc \in {"close", "clearFd", "clearMode", th[t].back}
    BY <1>2, <1>9 DEF Delist, Close, ClearFd, ClearMode, At, Closing, Goto, Ready, Thread
  <2>2. th[t].back \in {"free", "again"}
    BY <1>2, <2>1 DEF Steady, Ready, Working, ReturnsFromClose, OnPath, Transfers
  <2> QED BY <2>1, <2>2 DEF Steady, Opened
<1>10. ~Evict(t)
  BY DEF Evict, NoEviction
<1> QED BY <1>4, <1>5, <1>6, <1>7, <1>8, <1>9, <1>10 DEF Step

LEMMA IdleSteady ==
  ASSUME \A t \in Threads : th[t] = Idle
  PROVE  SteadyInv
BY IdleIs DEF SteadyInv, Steady, Opened, Closing

LEMMA NextSteady ==
  ASSUME IInv, ApartInv, FdInv, SteadyInv, NoEviction, [Next]_vars
  PROVE  SteadyInv'
<1>1. CASE Down
  <2>1. \A t \in Threads : th'[t] = Idle
    BY <1>1 DEF Down
  <2> QED BY <2>1, IdleIs DEF SteadyInv, Steady, Opened, Closing
<1>2. ASSUME NEW t \in Threads, Step(t), ~Down
      PROVE  SteadyInv'
  <2>1. ~Segfault
    BY <1>2 DEF Segfault
  <2>2. ASSUME NEW u \in Threads \ {t} PROVE Steady(u)'
    <3>1. th'[u] = th[u] /\ (Held(u) => el'[th[u].cell].fd = el[th[u].cell].fd)
      BY <1>2, <2>1, OthersFd
    <3>2. th[u].op \in Transfers /\ th[u].pc \in Opened => Held(u)
      BY IdleIs DEF IInv, PathInv, Working, OnPath, Held, Added, Uses, Taken, Closing, Opening,
         Listing, Opened, Transfers
    <3> QED BY <3>1, <3>2 DEF SteadyInv, Steady
  <2> QED BY <1>2, <2>1, <2>2, StepSteady DEF SteadyInv
<1>3. ASSUME NEW t \in Threads, NEW op \in Ops, NEW o \in Oids, NEW off \in Offsets,
             Start(t, op, o, off)
      PROVE  SteadyInv'
  <2>1. th \in [Threads -> Thread] /\ UNCHANGED el
    BY <1>3, TypesAre DEF IInv, Start, memory
  <2>2. th'[t].pc \in {"access", "exists"} /\ \A u \in Threads \ {t} : th'[u] = th[u]
    BY <1>3, <2>1 DEF Start, Idle
  <2>3. Steady(t)'
    BY <2>2 DEF Steady, Opened, Closing
  <2>4. \A u \in Threads \ {t} : Steady(u)'
    BY <2>1, <2>2 DEF SteadyInv, Steady
  <2> QED BY <2>3, <2>4 DEF SteadyInv
<1>4. CASE Restart
  <2>1. \A t \in Threads : th'[t] = Idle
    BY <1>4 DEF Restart, ApartInv, WhenDown
  <2> QED BY <2>1, IdleIs DEF SteadyInv, Steady, Opened, Closing
<1>5. CASE UNCHANGED vars
  BY <1>5 DEF SteadyInv, Steady, vars, memory
<1> QED BY <1>1, <1>2, <1>3, <1>4, <1>5 DEF Next, Finished, Crash

LEMMA SteadyHits ==
  ASSUME SteadyInv, NEW t \in Threads, At(t, "transfer"), th[t].op \in Transfers
  PROVE  el[th[t].cell].fd # 0
BY DEF SteadyInv, Steady, At, Opened

(***************************************************************************)
(* sysio_obj_read, _write, _trunc, _stat and _fsync reach their object's   *)
(* file, and the first two their offset, also when other threads open and  *)
(* close files at the same time and the numbers of descriptors are used    *)
(* again: as long as operations on one object do not overlap and no file   *)
(* is closed for another object or for the one that is opened.             *)
(***************************************************************************)
THEOREM StoreTransfersHit ==
  ASSUME Apart
  PROVE  Spec /\ []NoEviction => []TransfersHitTheirPlace
<1> DEFINE Inv == IInv /\ ApartInv /\ FdInv /\ SteadyInv /\ TransfersHitTheirPlace
<1>1. Init => Inv
  BY InitTypes, InitApart, InitFd, IdleSteady
     DEF Init, TransfersHitTheirPlace, CallsReachTheirObject, IOAtItsOffset
<1>2. Inv /\ NoEviction /\ [Next]_vars => Inv'
  BY NextTypes, NextApart, NextFd, NextSteady, NextHits, SteadyHits
<1> QED BY <1>1, <1>2, PTL DEF Spec
-----------------------------------------------------------------------------
(* No NULL element is read.                                                *)

\* Two descriptors are not of one object.
LEMMA FilesDiffer ==
  ASSUME IInv, ApartInv, FdInv, NEW fd \in Fds, NEW g \in Fds, IsOpen(fd), IsOpen(g),
         fdtab[fd].file = fdtab[g].file
  PROVE  fd = g
<1>1. PICK c \in Cells : Holds(c, fd)
  BY DEF FdInv, FdsHeld
<1>2. PICK d \in Cells : Holds(d, g)
  BY DEF FdInv, FdsHeld
<1>3. c = d
  BY <1>1, <1>2 DEF Holds, ApartInv, Once
<1> QED BY <1>1, <1>2, <1>3 DEF Holds

\* Each of the other objects has at most one descriptor, so one is left for this one.
LEMMA OneLeft ==
  ASSUME IInv, ApartInv, FdInv, NumFds >= NumOids, NEW t \in Threads, At(t, "open")
  PROVE  FreeFds # {}
<1> SUFFICES ASSUME FreeFds = {} PROVE FALSE
  OBVIOUS
<1>1. Held(t) /\ el[th[t].cell].fd = 0
  BY HeldAt DEF At, FdInv, Safe
<1>2. PICK c \in Cells : c = th[t].cell /\ el[c].live /\ el[c].id \in Oids /\ el[c].fd = 0
  BY <1>1, CellMine, HeldCell DEF ApartInv, Owned
<1>3. PICK others : others = Oids \ {el[c].id}
  OBVIOUS
<1>4. \A fd \in Fds : IsOpen(fd) /\ fdtab[fd].file \in others
  <2> SUFFICES ASSUME NEW fd \in Fds PROVE IsOpen(fd) /\ fdtab[fd].file \in others
    OBVIOUS
  <2>1. IsOpen(fd)
    BY DEF FreeFds, IsOpen
  <2>2. PICK d \in Cells : Holds(d, fd)
    BY <2>1 DEF FdInv, FdsHeld
  <2>3. d # c
    BY <1>2, <2>2, Numbers DEF Holds
  <2>4. el[d].id \in Oids /\ el[d].id # el[c].id
    BY <1>2, <2>2, <2>3 DEF Holds, ApartInv, Owned, Once
  <2> QED BY <1>3, <2>1, <2>2, <2>4 DEF Holds
<1>5. IsFiniteSet(Fds) /\ Cardinality(Fds) = NumFds
  BY Numbers, FS_Interval, StoreAssumption DEF Fds
<1>6. IsFiniteSet(Oids) /\ Cardinality(Oids) = NumOids
  BY Numbers, FS_Interval, StoreAssumption DEF Oids
<1>7. IsFiniteSet(others) /\ Cardinality(others) = NumOids - 1
  BY <1>2, <1>3, <1>6, FS_RemoveElement
<1>8. PICK f : f = [fd \in Fds |-> fdtab[fd].file]
  OBVIOUS
<1>9. f \in [Fds -> others]
  BY <1>4, <1>8
<1>10. Cardinality(others) < Cardinality(Fds)
  BY <1>5, <1>7, Numbers
<1>11. \E fd, g \in Fds : fd # g /\ f[fd] = f[g]
  BY <1>5, <1>7, <1>9, <1>10, FS_PigeonHole
<1> QED BY <1>4, <1>8, <1>11, FilesDiffer

LEMMA OpenWorks ==
  ASSUME IInv, ApartInv, FdInv, ~OpenErrors, NumFds >= NumOids, NEW t \in Threads, OpenFails(t)
  PROVE  ~At(t, "open")
<1> SUFFICES ASSUME At(t, "open") PROVE FALSE
  OBVIOUS
<1>1. Ready(t)
  BY AtWork DEF At
<1>2. Uses(t)
  BY <1>1 DEF At, Ready, Working, OnPath, Uses, Added, Taken, Opening, Listing, Closing
<1>3. th[t].oid \in dir
  BY <1>2 DEF ApartInv, Knows
<1>4. FreeFds # {}
  BY OneLeft
<1> QED BY <1>3, <1>4 DEF OpenFails, At

LEMMA StepAlive ==
  ASSUME IInv, ApartInv, FdInv, NoEviction, ~OpenErrors, NumFds >= NumOids, ~segv,
         NEW t \in Threads, Step(t)
  PROVE  ~segv'
<1>1. CASE Exists(t) \/ Access(t) \/ Creat(t) \/ AddOid(t) \/ SetAttr(t)
  BY <1>1 DEF Exists, Access, Creat, AddOid, SetAttr, world
<1>2. CASE FindOid(t)
  <2>1. Has(th[t].oid)
    BY <1>2 DEF FindOid, At, ApartInv, Knows
  <2>2. UNCHANGED world
    BY <1>2, <2>1, FoundIs DEF FindOid
  <2> QED BY <2>2 DEF world
<1>3. CASE OpenFails(t)
  <2>1. UNCHANGED world
    BY <1>3, OpenWorks DEF OpenFails
  <2> QED BY <2>1 DEF world
<1>4. CASE CheckFd(t) \/ OpenFile(t) \/ SetMode(t) \/ CheckMode(t) \/ CheckAgain(t)
  BY <1>4 DEF CheckFd, OpenFile, SetMode, CheckMode, CheckAgain, world
<1>5. CASE CountOpen(t) \/ Evict(t) \/ Delist(t)
  BY <1>5 DEF CountOpen, Evict, NoEviction, Delist, world
<1>6. CASE Close(t) \/ ClearFd(t) \/ ClearMode(t) \/ Unshift(t) \/ Seek(t) \/ Transfer(t)
  BY <1>6 DEF Close, ClearFd, ClearMode, Unshift, Seek, Transfer, world
<1>7. CASE HashRemove(t) \/ CheckClosed(t) \/ FreeElement(t) \/ Unlink(t) \/ RemoveAttrs(t)
  BY <1>7 DEF HashRemove, CheckClosed, FreeElement, Unlink, RemoveAttrs, world
<1> QED BY <1>1, <1>2, <1>3, <1>4, <1>5, <1>6, <1>7 DEF Step

(***************************************************************************)
(* What sysio_obj.c assumes, "that object already exists", is so: as long  *)
(* as operations on an object do not overlap, there is a descriptor for    *)
(* every object, open() does not fail otherwise and no file is closed for  *)
(* another, an object has one element, threads work on live elements, and  *)
(* the server does not dereference NULL.                                   *)
(***************************************************************************)
THEOREM StoreElementStays ==
  ASSUME Apart, ~OpenErrors, NumFds >= NumOids
  PROVE  Spec /\ []NoEviction => []ElementStaysInUse
<1> DEFINE Inv == IInv /\ ApartInv /\ FdInv /\ ~segv
<1>1. Init => Inv
  BY InitTypes, InitApart, InitFd DEF Init
<1>2. Inv /\ NoEviction /\ [Next]_vars => Inv'
  <2> SUFFICES ASSUME Inv, NoEviction, [Next]_vars PROVE ~segv'
    BY NextTypes, NextApart, NextFd
  <2>1. CASE \E t \in Threads : Step(t)
    BY <2>1, StepAlive
  <2>2. CASE \E t \in Threads, op \in Ops, o \in Oids, off \in Offsets : Start(t, op, o, off)
    BY <2>2 DEF Start
  <2>3. CASE Crash \/ Restart \/ UNCHANGED vars
    BY <2>3 DEF Crash, Restart, vars, world
  <2> QED BY <2>1, <2>2, <2>3 DEF Next, Finished
<1>3. Inv => ElementStaysInUse
  <2> SUFFICES ASSUME Inv PROVE OneElementPerObject /\ UsesLiveElement
    BY DEF ElementStaysInUse
  <2>1. hash \subseteq Cells
    BY DEF IInv, TypeOK
  <2>2. OneElementPerObject
    BY <2>1 DEF OneElementPerObject, ApartInv, Kept, Once
  <2>3. UsesLiveElement
    <3> SUFFICES ASSUME NEW t \in Threads, th[t].pc \in Using
                 PROVE  el[th[t].cell].live /\ el[th[t].cell].id = th[t].oid
      BY DEF UsesLiveElement
    <3>1. Held(t)
      BY IdleIs DEF IInv, PathInv, Working, OnPath, Held, Added, Uses, Taken, Closing, Opening,
         Listing, Using
    <3> QED BY <3>1, HeldCell
  <2> QED BY <2>2, <2>3
<1> QED BY <1>1, <1>2, <1>3, PTL DEF Spec
-----------------------------------------------------------------------------
(* The list of open files, with one thread and no removals.                *)

Listed(c) == \E i \in DOMAIN openList : openList[i] = c

\* A file that was opened and is not in the list yet, or is closed after it was taken off.
Handled(t, c) ==
  \/ /\ th[t].cell = c
     /\ \/ th[t].pc \in {"setMode", "count", "evict", "unshift"}
        \/ th[t].pc \in Closing /\ th[t].back = "unshift"
  \/ th[t].victim = c /\ th[t].pc \in {"close", "clearFd"}

AllListed == \A c \in Cells : el[c].live /\ el[c].fd \in Fds =>
               Listed(c) \/ \E t \in Threads : Handled(t, c)

\* Who adds to the list has made room.
Room(t) ==
  /\ At(t, "unshift") => Len(openList) < MAX_OPEN_FILES
  /\ At(t, "evict") => Len(openList) > 0
  /\ At(t, "delist") /\ th[t].back = "unshift" => Listed(th[t].victim)
  /\ th[t].pc \in {"close", "clearFd", "clearMode"} /\ th[t].back = "unshift" =>
       Len(openList) < MAX_OPEN_FILES

ListInv == AllListed /\ Len(openList) <= MAX_OPEN_FILES /\ \A t \in Threads : Room(t)

\* An element changes its descriptor only while the thread looks after it.
Follows(t) ==
  \A c \in Cells : el'[c].live /\ el'[c].fd \in Fds =>
    \/ Handled(t, c)'
    \/ el[c].live /\ el[c].fd \in Fds /\ ~Handled(t, c)

LEMMA SameList ==
  ASSUME Alone, ListInv, NEW t \in Threads, UNCHANGED openList, Follows(t), Room(t)'
  PROVE  ListInv'
<1>1. \A u \in Threads : u = t
  BY DEF Alone, OneThread
<1>2. \A u \in Threads : Room(u)'
  <2> SUFFICES ASSUME NEW u \in Threads PROVE Room(u)'
    OBVIOUS
  <2>1. u = t
    BY <1>1
  <2> QED BY <2>1
<1>3. AllListed'
  <2> SUFFICES ASSUME NEW c \in Cells, el'[c].live, el'[c].fd \in Fds
               PROVE  Listed(c)' \/ Handled(t, c)'
    BY DEF AllListed
  <2>1. CASE el[c].live /\ el[c].fd \in Fds /\ ~Handled(t, c)
    <3>1. Listed(c)
      BY <1>1, <2>1 DEF ListInv, AllListed
    <3> QED BY <3>1 DEF Listed
  <2> QED BY <2>1 DEF Follows
<1> QED BY <1>2, <1>3 DEF ListInv

\* Where no file is handled.
Busied == {"setMode", "count", "evict", "unshift", "delist", "close", "clearFd", "clearMode"}

LEMMA Aside ==
  ASSUME NEW t \in Threads
  PROVE  /\ th[t].pc \notin Busied => \A c : ~Handled(t, c)
         /\ th'[t].pc \notin Busied => Room(t)'
BY DEF Handled, Room, At, Closing, Busied

LEMMA AsideList ==
  ASSUME Alone, ListInv, NEW t \in Threads, UNCHANGED openList,
         \A c \in Cells : el'[c].live /\ el'[c].fd \in Fds => el[c].live /\ el[c].fd \in Fds,
         th[t].pc \notin Busied, th'[t].pc \notin Busied
  PROVE  ListInv'
BY Aside, SameList DEF Follows

LEMMA ExistsList ==
  ASSUME IInv, ListInv, Alone, NEW t \in Threads, Exists(t)
  PROVE  ListInv'
<1>1. Ready(t)
  BY AtWork DEF Exists, At
<1>2. /\ UNCHANGED openList
      /\ \A c \in Cells : el'[c].live /\ el'[c].fd \in Fds => el[c].live /\ el[c].fd \in Fds
  BY <1>1 DEF Exists, memory, Ready, MemoryTyped
<1>3. th[t].pc \notin Busied /\ th'[t].pc \notin Busied
  BY <1>1, IdleIs DEF Exists, Ready, At, Goto, Return, Thread, Busied
<1> QED BY <1>2, <1>3, AsideList

LEMMA AccessList ==
  ASSUME IInv, ListInv, Alone, NEW t \in Threads, Access(t)
  PROVE  ListInv'
<1>1. Ready(t)
  BY AtWork DEF Access, At
<1>2. /\ UNCHANGED openList
      /\ \A c \in Cells : el'[c].live /\ el'[c].fd \in Fds => el[c].live /\ el[c].fd \in Fds
  BY <1>1 DEF Access, memory, Ready, MemoryTyped
<1>3. th[t].pc \notin Busied /\ th'[t].pc \notin Busied
  BY <1>1, IdleIs DEF Access, Ready, At, Goto, Return, Thread, Busied
<1> QED BY <1>2, <1>3, AsideList

LEMMA CreatList ==
  ASSUME IInv, ListInv, Alone, NEW t \in Threads, Creat(t)
  PROVE  ListInv'
<1>1. Ready(t)
  BY AtWork DEF Creat, At
<1>2. /\ UNCHANGED openList
      /\ \A c \in Cells : el'[c].live /\ el'[c].fd \in Fds => el[c].live /\ el[c].fd \in Fds
  BY <1>1 DEF Creat, memory, Ready, MemoryTyped
<1>3. th[t].pc \notin Busied /\ th'[t].pc \notin Busied
  BY <1>1, IdleIs DEF Creat, Ready, At, Goto, Return, Thread, Busied
<1> QED BY <1>2, <1>3, AsideList

LEMMA SetAttrList ==
  ASSUME IInv, ListInv, Alone, NEW t \in Threads, SetAttr(t)
  PROVE  ListInv'
<1>1. Ready(t)
  BY AtWork DEF SetAttr, At
<1>2. /\ UNCHANGED openList
      /\ \A c \in Cells : el'[c].live /\ el'[c].fd \in Fds => el[c].live /\ el[c].fd \in Fds
  BY <1>1 DEF SetAttr, memory, Ready, MemoryTyped
<1>3. th[t].pc \notin Busied /\ th'[t].pc \notin Busied
  BY <1>1, IdleIs DEF SetAttr, Ready, At, Goto, Return, Thread, Busied
<1> QED BY <1>2, <1>3, AsideList

LEMMA CheckFdList ==
  ASSUME IInv, ListInv, Alone, NEW t \in Threads, CheckFd(t)
  PROVE  ListInv'
<1>1. Ready(t)
  BY AtWork DEF CheckFd, At
<1>2. /\ UNCHANGED openList
      /\ \A c \in Cells : el'[c].live /\ el'[c].fd \in Fds => el[c].live /\ el[c].fd \in Fds
  BY <1>1 DEF CheckFd, memory, Ready, MemoryTyped
<1>3. th[t].pc \notin Busied /\ th'[t].pc \notin Busied
  BY <1>1, IdleIs DEF CheckFd, Ready, At, Goto, Return, Thread, Busied, Working, OnPath, Added,
     Uses, Taken,
     Returns, ReturnsFromClose, Opening, Listing, Closing, Transfers
<1> QED BY <1>2, <1>3, AsideList

LEMMA CheckAgainList ==
  ASSUME IInv, ListInv, Alone, NEW t \in Threads, CheckAgain(t)
  PROVE  ListInv'
<1>1. Ready(t)
  BY AtWork DEF CheckAgain, At
<1>2. /\ UNCHANGED openList
      /\ \A c \in Cells : el'[c].live /\ el'[c].fd \in Fds => el[c].live /\ el[c].fd \in Fds
  BY <1>1 DEF CheckAgain, memory, Ready, MemoryTyped
<1>3. th[t].pc \notin Busied /\ th'[t].pc \notin Busied
  BY <1>1, IdleIs DEF CheckAgain, Ready, At, Goto, Return, Thread, Busied
<1> QED BY <1>2, <1>3, AsideList

LEMMA SeekList ==
  ASSUME IInv, ListInv, Alone, NEW t \in Threads, Seek(t)
  PROVE  ListInv'
<1>1. Ready(t)
  BY AtWork DEF Seek, At
<1>2. /\ UNCHANGED openList
      /\ \A c \in Cells : el'[c].live /\ el'[c].fd \in Fds => el[c].live /\ el[c].fd \in Fds
  BY <1>1 DEF Seek, memory, Ready, MemoryTyped
<1>3. th[t].pc \notin Busied /\ th'[t].pc \notin Busied
  BY <1>1, IdleIs DEF Seek, Ready, At, Goto, Return, Thread, Busied
<1> QED BY <1>2, <1>3, AsideList

LEMMA TransferList ==
  ASSUME IInv, ListInv, Alone, NEW t \in Threads, Transfer(t)
  PROVE  ListInv'
<1>1. Ready(t)
  BY AtWork DEF Transfer, At
<1>2. /\ UNCHANGED openList
      /\ \A c \in Cells : el'[c].live /\ el'[c].fd \in Fds => el[c].live /\ el[c].fd \in Fds
  BY <1>1 DEF Transfer, memory, Ready, MemoryTyped
<1>3. th[t].pc \notin Busied /\ th'[t].pc \notin Busied
  BY <1>1, IdleIs DEF Transfer, Ready, At, Goto, Return, Thread, Busied
<1> QED BY <1>2, <1>3, AsideList

LEMMA FindOidList ==
  ASSUME IInv, ListInv, Alone, NEW t \in Threads, FindOid(t), ~Segfault
  PROVE  ListInv'
<1>1. Ready(t)
  BY AtWork DEF FindOid, At
<1>2. UNCHANGED <<openList, el>>
  BY DEF FindOid, OpenOidFails, memory
<1>3. CASE Return(t)
  <2>1. th[t].pc \notin Busied /\ th'[t].pc \notin Busied
    BY <1>1, <1>3, IdleIs DEF Return, Ready, FindOid, At, Busied
  <2> QED BY <1>2, <2>1, AsideList
<1>4. CASE ~Return(t)
  <2>1. PICK c : th' = [th EXCEPT ![t].pc = "openOid", ![t].cell = c,
                          ![t].next = IF UsesMode(t) THEN "mode" ELSE "transfer"]
    BY <1>4 DEF FindOid, OpenOidFails
  <2>2. th[t].pc \notin Busied /\ th'[t].pc \notin Busied
    BY <1>1, <2>1 DEF Ready, Thread, FindOid, At, Busied
  <2> QED BY <1>2, <2>2, AsideList
<1> QED BY <1>3, <1>4

LEMMA AddOidList ==
  ASSUME IInv, ListInv, Alone, NEW t \in Threads, AddOid(t)
  PROVE  ListInv'
<1>1. Ready(t)
  BY AtWork DEF AddOid, At
<1>2. PICK c \in Cells :
        /\ el' = [el EXCEPT ![c] = Fresh(th[t].oid)]
        /\ th' = [th EXCEPT ![t].pc = "initMode", ![t].cell = c, ![t].next = "setattr"]
  BY DEF AddOid
<1>3. el'[c].fd = 0 /\ \A d \in Cells \ {c} : el'[d] = el[d]
  BY <1>1, <1>2 DEF Ready, MemoryTyped, Fresh
<1>4. th[t].pc \notin Busied /\ th'[t].pc \notin Busied
  BY <1>1, <1>2 DEF Ready, Thread, AddOid, At, Busied
<1>5. UNCHANGED openList
  BY DEF AddOid
<1> QED BY <1>3, <1>4, <1>5, Numbers, AsideList

LEMMA OpenFileList ==
  ASSUME IInv, ListInv, Alone, NEW t \in Threads, OpenFile(t)
  PROVE  ListInv'
<1>1. Ready(t) /\ th[t].pc \in {"open", "reopen"}
  BY AtWork DEF OpenFile, At
<1>2. /\ UNCHANGED openList
      /\ \A d \in Cells : d # th[t].cell => el'[d] = el[d]
      /\ th'[t].pc = "setMode" /\ th'[t].cell = th[t].cell
  BY <1>1 DEF OpenFile, Goto, Ready, MemoryTyped, Thread
<1>3. \A c : ~Handled(t, c)
  BY <1>1, Aside DEF Busied
<1>4. Handled(t, th[t].cell)'
  BY <1>2 DEF Handled
<1>5. Follows(t)
  <2> SUFFICES ASSUME NEW c \in Cells, el'[c].live, el'[c].fd \in Fds
               PROVE  Handled(t, c)' \/ (el[c].live /\ el[c].fd \in Fds /\ ~Handled(t, c))
    BY DEF Follows
  <2>1. CASE c = th[t].cell
    BY <1>2, <2>1 DEF Handled
  <2>2. CASE c # th[t].cell
    BY <1>2, <1>3, <2>2
  <2> QED BY <2>1, <2>2
<1>6. Room(t)'
  BY <1>2 DEF Room, At
<1> QED BY <1>2, <1>5, <1>6, SameList

LEMMA OpenFailsList ==
  ASSUME IInv, ListInv, Alone, NEW t \in Threads, OpenFails(t), ~Segfault
  PROVE  ListInv'
<1>1. Ready(t) /\ th[t].pc \in {"open", "reopen"}
  BY AtWork DEF OpenFails, At
<1>2. el' = [el EXCEPT ![th[t].cell].fd = Bad] /\ Return(t) /\ UNCHANGED openList
  BY DEF OpenFails
<1>3. th[t].pc \notin Busied /\ th'[t].pc \notin Busied
  BY <1>1, <1>2, IdleIs DEF Return, Ready, Busied
<1>4. \A c \in Cells : el'[c].live /\ el'[c].fd \in Fds => el[c].live /\ el[c].fd \in Fds
  <2> SUFFICES ASSUME NEW c \in Cells, el'[c].fd \in Fds PROVE el'[c] = el[c]
    OBVIOUS
  <2>1. CASE c = th[t].cell
    <3>1. el'[c].fd = Bad
      BY <1>1, <1>2, <2>1 DEF Ready, MemoryTyped, Element
    <3> QED BY <3>1, Numbers
  <2>2. CASE c # th[t].cell
    BY <1>1, <1>2, <2>2 DEF Ready, MemoryTyped
  <2> QED BY <2>1, <2>2
<1> QED BY <1>2, <1>3, <1>4, AsideList

\* Steps on the way from open() to the list.
LEMMA OnTheWay ==
  ASSUME IInv, ListInv, Alone, NEW t \in Threads, UNCHANGED openList, el' \in [Cells -> Element],
         \A c \in Cells : el'[c].live = el[c].live /\ el'[c].fd = el[c].fd,
         \A c \in Cells : el[c].live /\ el[c].fd \in Fds /\ Handled(t, c) => Handled(t, c)',
         Room(t)'
  PROVE  ListInv'
<1>1. Follows(t)
  BY DEF Follows
<1> QED BY <1>1, SameList

LEMMA SetModeList ==
  ASSUME IInv, ListInv, Alone, NEW t \in Threads, SetMode(t)
  PROVE  ListInv'
<1>1. Ready(t)
  BY AtWork DEF SetMode, At
<1>2. /\ UNCHANGED openList /\ el' \in [Cells -> Element]
      /\ \A c \in Cells : el'[c].live = el[c].live /\ el'[c].fd = el[c].fd
  <2>1. th[t].cell \in Cells /\ el \in [Cells -> Element]
    BY <1>1 DEF SetMode, At, Ready, MemoryTyped, Working, OnPath, Added, Uses, Taken, Opening,
       Listing, Closing
  <2>2. PICK m \in BOOLEAN : el' = [el EXCEPT ![th[t].cell].mode = m]
    BY DEF SetMode, At
  <2>3. UNCHANGED openList
    BY DEF SetMode
  <2> QED BY <2>1, <2>2, <2>3, ModeWritten
<1>3. \A c \in Cells : el[c].live /\ el[c].fd \in Fds /\ Handled(t, c) => Handled(t, c)'
  BY <1>1 DEF SetMode, Handled, Goto, At, Ready, Thread
<1>4. Room(t)'
  BY <1>1 DEF SetMode, Goto, At, Ready, Thread, Room
<1> QED BY <1>2, <1>3, <1>4, OnTheWay

LEMMA CheckModeList ==
  ASSUME IInv, ListInv, Alone, NEW t \in Threads, CheckMode(t)
  PROVE  ListInv'
<1>1. Ready(t)
  BY AtWork DEF CheckMode, At
<1>2. /\ UNCHANGED openList /\ el' \in [Cells -> Element]
      /\ \A c \in Cells : el'[c].live = el[c].live /\ el'[c].fd = el[c].fd
  BY <1>1 DEF CheckMode, memory, Ready, MemoryTyped, Element, At
<1>3. \A c \in Cells : el[c].live /\ el[c].fd \in Fds /\ Handled(t, c) => Handled(t, c)'
  BY <1>1, Aside DEF CheckMode, At, Busied
<1>4. Room(t)'
  BY <1>1 DEF CheckMode, Goto, At, Ready, Thread, Room
<1> QED BY <1>2, <1>3, <1>4, OnTheWay

LEMMA CountOpenList ==
  ASSUME IInv, ListInv, Alone, NEW t \in Threads, CountOpen(t)
  PROVE  ListInv'
<1>1. Ready(t)
  BY AtWork DEF CountOpen, At
<1>2. /\ UNCHANGED openList /\ el' \in [Cells -> Element]
      /\ \A c \in Cells : el'[c].live = el[c].live /\ el'[c].fd = el[c].fd
  BY <1>1 DEF CountOpen, memory, Ready, MemoryTyped, Element, At
<1>5. Len(openList) \in Nat
  BY <1>1 DEF Ready, MemoryTyped
<1>6. th'[t].pc \in {"unshift", "evict"} /\ th'[t].cell = th[t].cell
  BY <1>1, <1>5, Numbers DEF CountOpen, Goto, Ready, Thread, ListInv
<1>3. \A c \in Cells : el[c].live /\ el[c].fd \in Fds /\ Handled(t, c) => Handled(t, c)'
  BY <1>6 DEF CountOpen, At, Handled, Closing
<1>7. /\ th'[t].pc = "unshift" => Len(openList) < MAX_OPEN_FILES
      /\ th'[t].pc = "evict" => Len(openList) = MAX_OPEN_FILES
  BY <1>1, <1>5, Numbers DEF CountOpen, Goto, Ready, Thread, ListInv
<1>4. Room(t)'
  BY <1>2, <1>6, <1>7, Numbers DEF Room, At
<1> QED BY <1>2, <1>3, <1>4, OnTheWay

LEMMA EvictList ==
  ASSUME IInv, ListInv, Alone, NEW t \in Threads, Evict(t), ~Segfault
  PROVE  ListInv'
<1>1. Ready(t)
  BY AtWork DEF Evict, At
<1>2. /\ UNCHANGED openList /\ el' \in [Cells -> Element]
      /\ \A c \in Cells : el'[c].live = el[c].live /\ el'[c].fd = el[c].fd
  BY <1>1 DEF Evict, memory, Ready, MemoryTyped, Element, At
<1>5. /\ th[t].pc = "evict" /\ openList # <<>> /\ openList \in Seq(Cells)
      /\ th' = [th EXCEPT ![t].pc = "delist", ![t].victim = Last(openList), ![t].back = "unshift"]
  BY <1>1 DEF Evict, At, Ready, MemoryTyped
<1>6. /\ th'[t].pc = "delist" /\ th'[t].victim = Last(openList) /\ th'[t].back = "unshift"
      /\ th'[t].cell = th[t].cell
  BY <1>1, <1>5 DEF Ready, Thread
<1>3. \A c \in Cells : el[c].live /\ el[c].fd \in Fds /\ Handled(t, c) => Handled(t, c)'
  BY <1>5, <1>6 DEF Handled, Closing
<1>4. Room(t)'
  <2>1. Len(openList) \in DOMAIN openList /\ Last(openList) = openList[Len(openList)]
    BY <1>5 DEF Last
  <2> QED BY <1>2, <1>6, <2>1 DEF Room, At, Listed
<1> QED BY <1>2, <1>3, <1>4, OnTheWay

LEMMA ClearModeList ==
  ASSUME IInv, ListInv, Alone, NEW t \in Threads, ClearMode(t)
  PROVE  ListInv'
<1>1. Ready(t)
  BY AtWork DEF ClearMode, At
<1>2. /\ UNCHANGED openList /\ el' \in [Cells -> Element]
      /\ \A c \in Cells : el'[c].live = el[c].live /\ el'[c].fd = el[c].fd
  <2>1. th[t].victim \in Cells
    BY <1>1, ClosingHeld DEF ClearMode, At, Closing
  <2>2. UNCHANGED openList /\ el' = [el EXCEPT ![th[t].victim].mode = FALSE]
    BY DEF ClearMode
  <2> QED BY <1>1, <2>1, <2>2, ModeWritten DEF Ready, MemoryTyped
<1>5. th[t].pc = "clearMode" /\ th'[t].pc = th[t].back /\ th'[t].cell = th[t].cell
  BY <1>1 DEF ClearMode, At, Goto, Ready, Thread
<1>3. \A c \in Cells : el[c].live /\ el[c].fd \in Fds /\ Handled(t, c) => Handled(t, c)'
  BY <1>5 DEF Handled
<1>6. th[t].back \in {"unshift", "free", "again"}
  BY <1>1, <1>5 DEF Ready, Working, OnPath, Added, Uses, Taken,
     Returns, ReturnsFromClose, Opening, Listing, Closing, Transfers
<1>4. Room(t)'
  BY <1>2, <1>5, <1>6 DEF ListInv, Room, At
<1> QED BY <1>2, <1>3, <1>4, OnTheWay

LEMMA CloseList ==
  ASSUME IInv, ApartInv, FdInv, ListInv, Alone, NEW t \in Threads, Close(t)
  PROVE  ListInv'
<1>1. Ready(t)
  BY AtWork DEF Close, At
<1>2. /\ UNCHANGED openList /\ el' \in [Cells -> Element]
      /\ \A c \in Cells : el'[c].live = el[c].live /\ el'[c].fd = el[c].fd
  BY <1>1 DEF Close, memory, Ready, MemoryTyped, Element, At
<1>5. /\ th[t].pc = "close" /\ th'[t].cell = th[t].cell
      /\ th'[t].victim = th[t].victim /\ th'[t].back = th[t].back
  BY <1>1 DEF Close, At, Goto, Ready, Thread
<1>6. CASE IsOpen(el[th[t].victim].fd)
  <2>1. th'[t].pc = "clearFd"
    BY <1>1, <1>6 DEF Close, Goto, Ready, Thread
  <2>2. \A c \in Cells : el[c].live /\ el[c].fd \in Fds /\ Handled(t, c) => Handled(t, c)'
    BY <1>5, <2>1 DEF Handled, Closing
  <2>3. Room(t)'
    BY <1>2, <1>5, <2>1 DEF ListInv, Room, At
  <2> QED BY <1>2, <2>2, <2>3, OnTheWay
<1>7. CASE ~IsOpen(el[th[t].victim].fd)
  <2>1. th'[t].pc = th[t].back
    BY <1>1, <1>7 DEF Close, Goto, Ready, Thread
  <2>2. el[th[t].victim].fd \notin Fds
    BY <1>5, <1>7, VictimMine, MineOpen, KnownOpen DEF Closing, At
  <2>3. th[t].back \in {"unshift", "free", "again"}
    BY <1>1, <1>5 DEF Ready, Working, OnPath, Added, Uses, Taken,
       Returns, ReturnsFromClose, Opening, Listing, Closing, Transfers
  <2>4. \A c \in Cells : el[c].live /\ el[c].fd \in Fds /\ Handled(t, c) => Handled(t, c)'
    BY <1>5, <2>1, <2>2 DEF Handled
  <2>5. Room(t)'
    BY <1>2, <1>5, <2>1, <2>3 DEF ListInv, Room, At
  <2> QED BY <1>2, <2>4, <2>5, OnTheWay

<1> QED BY <1>6, <1>7

LEMMA ClearFdList ==
  ASSUME IInv, ListInv, Alone, NEW t \in Threads, ClearFd(t)
  PROVE  ListInv'
<1>1. Ready(t) /\ th[t].pc = "clearFd" /\ th[t].victim \in Cells
  BY AtWork, ClosingHeld DEF ClearFd, At, Closing
<1>2. /\ UNCHANGED openList /\ el'[th[t].victim].fd = 0
      /\ \A c \in Cells \ {th[t].victim} : el'[c] = el[c]
  BY <1>1 DEF ClearFd, Ready, MemoryTyped, Element
<1>3. /\ th'[t].pc = "clearMode" /\ th'[t].cell = th[t].cell /\ th'[t].victim = th[t].victim
      /\ th'[t].back = th[t].back
  BY <1>1 DEF ClearFd, Goto, Ready, Thread
<1>4. Follows(t)
  BY <1>1, <1>2, <1>3, Numbers DEF Follows, Handled, Closing
<1>5. Room(t)'
  BY <1>1, <1>2, <1>3 DEF ListInv, Room, At
<1> QED BY <1>2, <1>4, <1>5, SameList

LEMMA UnshiftList ==
  ASSUME IInv, ListInv, Alone, NEW t \in Threads, Unshift(t)
  PROVE  ListInv'
<1>1. Ready(t) /\ th[t].pc = "unshift"
  BY AtWork DEF Unshift, At
<1>2. th[t].cell \in Cells /\ openList \in Seq(Cells)
  BY <1>1 DEF Ready, MemoryTyped, Working, OnPath, Added, Uses, Taken, Opening, Listing, Closing
<1>3. /\ openList' = <<th[t].cell>> \o openList /\ UNCHANGED el
      /\ th'[t].pc = th[t].next
  BY <1>1 DEF Unshift, Goto, Ready, Thread
<1>4. /\ Len(openList') = Len(openList) + 1 /\ Len(openList) \in Nat /\ openList' \in Seq(Cells)
      /\ \A i \in 1 .. 1 + Len(openList) :
           openList'[i] = IF i <= 1 THEN <<th[t].cell>>[i] ELSE openList[i - 1]
  <2>1. <<th[t].cell>> \in Seq(Cells) /\ Len(<<th[t].cell>>) = 1
    BY <1>2
  <2> QED BY <1>2, <1>3, <2>1, ConcatProperties
<1>5. Listed(th[t].cell)' /\ \A c : Listed(c) => Listed(c)'
  <2>1. openList'[1] = th[t].cell /\ 1 \in DOMAIN openList'
    BY <1>4
  <2>2. \A i \in DOMAIN openList : openList'[i + 1] = openList[i] /\ i + 1 \in DOMAIN openList'
    BY <1>2, <1>4
  <2>3. Listed(th[t].cell)'
    <3>1. \E i \in DOMAIN openList' : openList'[i] = th[t].cell
      BY <2>1
    <3>2. PICK c : c = th[t].cell
      OBVIOUS
    <3>3. th'[t].cell = th[t].cell
      BY <1>1 DEF Unshift, Goto, Ready, Thread
    <3> QED BY <3>1, <3>3 DEF Listed
  <2> QED BY <2>2, <2>3 DEF Listed
<1>6. \A u \in Threads : u = t
  BY DEF Alone, OneThread
<1>7. th'[t].cell = th[t].cell
  BY <1>1 DEF Unshift, Goto, Ready, Thread
<1>8. AllListed'
  <2> SUFFICES ASSUME NEW c \in Cells, el'[c].live, el'[c].fd \in Fds PROVE Listed(c)'
    BY DEF AllListed
  <2>1. CASE c = th[t].cell
    <3>1. c = th'[t].cell
      BY <1>7, <2>1
    <3> QED BY <1>5, <3>1 DEF Listed
  <2>2. CASE c # th[t].cell
    <3>1. ~Handled(t, c)
      BY <1>1, <2>2 DEF Handled
    <3>2. Listed(c)
      BY <1>3, <1>6, <3>1 DEF ListInv, AllListed
    <3> QED BY <1>5, <3>2
  <2> QED BY <2>1, <2>2
<1>9. Len(openList') <= MAX_OPEN_FILES
  BY <1>1, <1>4, Numbers DEF ListInv, Room, At
<1>10. Room(t)'
  <2>1. th[t].next \in {"setattr", "transfer", "mode", "seek"}
    BY <1>1 DEF Ready, Working, OnPath, Added, Uses, Taken, Returns, Opening, Listing, Closing, Transfers
  <2> QED BY <1>3, <2>1 DEF Room, At
<1>11. \A u \in Threads : Room(u)'
  <2> SUFFICES ASSUME NEW u \in Threads PROVE Room(u)'
    OBVIOUS
  <2>1. u = t
    BY <1>6
  <2> QED BY <1>10, <2>1
<1> QED BY <1>8, <1>9, <1>11 DEF ListInv

LEMMA DelistList ==
  ASSUME IInv, ApartInv, FdInv, ListInv, Alone, NEW t \in Threads, Delist(t)
  PROVE  ListInv'
<1>1. Ready(t) /\ th[t].pc = "delist" /\ openList \in Seq(Cells) /\ Len(openList) \in Nat
  BY AtWork DEF Delist, At, Ready, MemoryTyped
<1>2. PICK v \in Cells : v = th[t].victim /\ el[v].live
  BY <1>1, VictimMine DEF Closing
<1>3. /\ th'[t].pc = "close" /\ th'[t].victim = v /\ th'[t].back = th[t].back /\ UNCHANGED el
  BY <1>1, <1>2 DEF Delist, Goto, Ready, Thread
<1>4. PICK same : same = {i \in DOMAIN openList : el[openList[i]] = el[v]}
  OBVIOUS
<1>5. openList' = IF same = {} THEN openList ELSE RemoveAt(openList, Min(same))
  BY <1>2, <1>4 DEF Delist
<1>6. \A i \in same : openList[i] = v /\ i \in DOMAIN openList
  <2> SUFFICES ASSUME NEW i \in same PROVE openList[i] = v /\ i \in DOMAIN openList
    OBVIOUS
  <2>1. i \in DOMAIN openList /\ el[openList[i]] = el[v] /\ openList[i] \in Cells
    BY <1>1, <1>4
  <2> QED BY <1>2, <2>1 DEF ApartInv, Once
<1>7. Listed(v) => same # {}
  BY <1>4 DEF Listed
<1>8. /\ Len(openList') \in Nat /\ Len(openList') <= Len(openList)
      /\ same # {} => Len(openList') < Len(openList)
      /\ \A i \in DOMAIN openList :
           openList[i] # v => \E j \in DOMAIN openList' : openList'[j] = openList[i]
  <2>1. CASE same = {}
    BY <1>1, <1>5, <2>1
  <2>2. CASE same # {}
    <3>1. same \in SUBSET Nat
      BY <1>1, <1>4
    <3>2. PICK k : k = Min(same)
      OBVIOUS
    <3>3. k \in same /\ k \in DOMAIN openList
      BY <1>6, <2>2, <3>1, <3>2, Least
    <3>4. openList' = RemoveAt(openList, k)
      BY <1>5, <2>2, <3>2
    <3>5. /\ openList' \in Seq(Cells) /\ Len(openList') = Len(openList) - 1
          /\ \A j \in DOMAIN openList' : openList'[j] = openList[IF j < k THEN j ELSE j + 1]
      BY <1>1, <3>3, <3>4, RemoveAtTyped
    <3>6. ASSUME NEW i \in DOMAIN openList, openList[i] # v
          PROVE  \E j \in DOMAIN openList' : openList'[j] = openList[i]
      <4>1. i # k
        BY <1>6, <3>3, <3>6
      <4>2. CASE i < k
        <5>1. i \in DOMAIN openList'
          BY <1>1, <3>3, <3>5, <4>2
        <5> QED BY <3>5, <4>2, <5>1
      <4>3. CASE i > k
        <5>1. i - 1 \in DOMAIN openList' /\ ~(i - 1 < k) /\ (i - 1) + 1 = i
          BY <1>1, <3>3, <3>5, <4>3
        <5> QED BY <3>5, <5>1
      <4> QED BY <1>1, <3>3, <4>1, <4>2, <4>3
    <3> QED BY <1>1, <3>5, <3>6
  <2> QED BY <2>1, <2>2
<1>9. \A u \in Threads : u = t
  BY DEF Alone, OneThread
<1>10. AllListed'
  <2> SUFFICES ASSUME NEW c \in Cells, el'[c].live, el'[c].fd \in Fds
               PROVE  Listed(c)' \/ Handled(t, c)'
    BY DEF AllListed
  <2>1. CASE c = v
    BY <1>3, <2>1 DEF Handled
  <2>2. CASE c # v /\ Listed(c)
    BY <1>8, <2>2 DEF Listed
  <2>3. CASE c # v /\ ~Listed(c)
    <3>1. Handled(t, c)
      BY <1>3, <1>9, <2>3 DEF ListInv, AllListed
    <3>2. th'[t].cell = th[t].cell
      BY <1>1 DEF Delist, Goto, Ready, Thread
    <3> QED BY <1>1, <1>3, <3>1, <3>2 DEF Handled, Closing
  <2> QED BY <2>1, <2>2, <2>3
<1>11. Len(openList') <= MAX_OPEN_FILES
  BY <1>1, <1>8, Numbers DEF ListInv
<1>12. th[t].back = "unshift" => Len(openList') < MAX_OPEN_FILES
  <2>1. th[t].back = "unshift" => Listed(v)
    BY <1>1, <1>2 DEF ListInv, Room, At, Listed
  <2> QED BY <1>1, <1>7, <1>8, <2>1, Numbers DEF ListInv
<1>13. Room(t)'
  BY <1>3, <1>12 DEF Room, At
<1>14. \A u \in Threads : Room(u)'
  <2> SUFFICES ASSUME NEW u \in Threads PROVE Room(u)'
    OBVIOUS
  <2>1. u = t
    BY <1>9
  <2> QED BY <1>13, <2>1
<1> QED BY <1>10, <1>11, <1>14 DEF ListInv

\* Nothing is open, and nothing is listed.
LEMMA NoneOpenList == NoneOpen => ListInv
<1> SUFFICES ASSUME NoneOpen PROVE ListInv
  OBVIOUS
<1>1. AllListed
  BY Numbers DEF NoneOpen, AllListed
<1>2. \A t \in Threads : Room(t)
  BY DEF NoneOpen, Room, Idle, At
<1> QED BY <1>1, <1>2, Numbers DEF NoneOpen, ListInv

LEMMA DownList ==
  ASSUME FdInv, Down, UNCHANGED io
  PROVE  ListInv'
<1>1. \A c \in Cells : el'[c].fd = 0
  BY NewElement DEF Down
<1>3. NoneOpen'
  BY <1>1 DEF Down, NoneOpen
<1> QED BY <1>3, NoneOpenList, PTL

LEMMA RestartList ==
  ASSUME ApartInv, FdInv, Restart
  PROVE  ListInv'
<1>1. \A c \in Cells : el'[c] = Fresh(c) \/ el'[c] = Free(0)
  BY DEF Restart, Loaded
<1>2. \A c \in Cells : el'[c].fd = 0
  BY <1>1, NewElement
<1>4. NoneOpen'
  BY <1>2 DEF Restart, ApartInv, WhenDown, NoneOpen
<1> QED BY <1>4, NoneOpenList, PTL

LEMMA StartList ==
  ASSUME IInv, ListInv, Alone, NEW t \in Threads, NEW op \in Ops, NEW o \in Oids, NEW off \in Offsets,
         Start(t, op, o, off)
  PROVE  ListInv'
<1>1. th \in [Threads -> Thread] /\ th[t].pc = "idle" /\ UNCHANGED <<el, openList>>
  BY TypesAre DEF IInv, Start, At, memory
<1>2. th'[t].pc \in {"access", "exists"}
  BY <1>1 DEF Start, Idle
<1>3. th[t].pc \notin Busied /\ th'[t].pc \notin Busied
  BY <1>1, <1>2 DEF Busied
<1> QED BY <1>1, <1>3, AsideList

LEMMA StutterList ==
  ASSUME ListInv, UNCHANGED vars
  PROVE  ListInv'
BY DEF ListInv, AllListed, Listed, Handled, Room, At, vars, memory

\* There are no removals.
LEMMA NoRemoval ==
  ASSUME IInv, FdInv, Alone, NEW t \in Threads
  PROVE  ~(HashRemove(t) \/ CheckClosed(t) \/ FreeElement(t) \/ Unlink(t) \/ RemoveAttrs(t))
<1> SUFFICES ASSUME th[t].pc \in {"hash", "checkClosed", "free", "unlink", "rmattrs"} PROVE FALSE
  BY DEF HashRemove, CheckClosed, FreeElement, Unlink, RemoveAttrs, At
<1>1. th[t].op = "remove"
  BY IdleIs DEF IInv, PathInv, Working, OnPath, Added, Uses, Taken, Opening, Listing, Closing
<1> QED BY <1>1 DEF FdInv, Safe

LEMMA StepList ==
  ASSUME IInv, ApartInv, FdInv, ListInv, Alone, NEW t \in Threads, Step(t)
  PROVE  ListInv'
<1>1. CASE Segfault
  BY <1>1, DownList DEF Segfault
<1>2. CASE Exists(t) \/ Access(t) \/ Creat(t) \/ AddOid(t) \/ SetAttr(t)
  BY <1>2, ExistsList, AccessList, CreatList, AddOidList, SetAttrList
<1>3. CASE ~Segfault /\ (FindOid(t) \/ CheckFd(t) \/ OpenFile(t) \/ OpenFails(t) \/ SetMode(t))
  BY <1>3, FindOidList, CheckFdList, OpenFileList, OpenFailsList, SetModeList
<1>4. CASE ~Segfault /\ (CheckMode(t) \/ CheckAgain(t) \/ CountOpen(t) \/ Evict(t) \/ Delist(t))
  BY <1>4, CheckModeList, CheckAgainList, CountOpenList, EvictList, DelistList
<1>5. CASE Close(t) \/ ClearFd(t) \/ ClearMode(t) \/ Unshift(t) \/ Seek(t) \/ Transfer(t)
  BY <1>5, CloseList, ClearFdList, ClearModeList, UnshiftList, SeekList, TransferList
<1> QED BY <1>1, <1>2, <1>3, <1>4, <1>5, NoRemoval DEF Step

LEMMA NextList ==
  ASSUME IInv, ApartInv, FdInv, ListInv, Alone, [Next]_vars
  PROVE  ListInv'
<1>1. CASE \E t \in Threads : Step(t)
  BY <1>1, StepList
<1>2. CASE \E t \in Threads, op \in Ops, o \in Oids, off \in Offsets : Start(t, op, o, off)
  BY <1>2, StartList
<1>3. CASE Crash
  BY <1>3, DownList DEF Crash
<1>4. CASE Restart
  BY <1>4, RestartList
<1>5. CASE UNCHANGED vars
  BY <1>5, StutterList
<1> QED BY <1>1, <1>2, <1>3, <1>4, <1>5 DEF Next, Finished

\* Between operations the open descriptors are not more than the entries of the list.
LEMMA Bounded ==
  ASSUME IInv, ApartInv, FdInv, ListInv
  PROVE  OpenFilesBounded
<1> SUFFICES ASSUME \A t \in Threads : At(t, "idle")
             PROVE  NumFds - Cardinality(FreeFds) <= MAX_OPEN_FILES
  BY DEF OpenFilesBounded
<1>1. PICK opened : opened = Fds \ FreeFds
  OBVIOUS
<1>2. IsFiniteSet(Fds) /\ Cardinality(Fds) = NumFds
  BY Numbers, FS_Interval, StoreAssumption DEF Fds
<1>3. /\ IsFiniteSet(opened) /\ IsFiniteSet(FreeFds)
      /\ Cardinality(opened) = NumFds - Cardinality(FreeFds)
      /\ Cardinality(opened) \in Nat /\ Cardinality(FreeFds) \in Nat
  <2>1. FreeFds \in SUBSET Fds /\ opened \in SUBSET Fds
    BY <1>1 DEF FreeFds
  <2>2. IsFiniteSet(opened) /\ IsFiniteSet(FreeFds)
    BY <1>2, <2>1, FS_Subset
  <2>3. opened \cup FreeFds = Fds /\ opened \cap FreeFds = {}
    BY <1>1, <2>1
  <2>4. Cardinality({}) = 0
    BY FS_EmptySet
  <2>5. Cardinality(Fds) = Cardinality(opened) + Cardinality(FreeFds) - 0
    BY <2>2, <2>3, <2>4, FS_Union
  <2>6. Cardinality(opened) \in Nat /\ Cardinality(FreeFds) \in Nat
    BY <2>2, FS_CardinalityType
  <2> QED BY <1>2, <2>2, <2>5, <2>6, Numbers
<1>4. \A fd \in opened : \E i \in DOMAIN openList : el[openList[i]].fd = fd
  <2> SUFFICES ASSUME NEW fd \in opened
               PROVE  \E i \in DOMAIN openList : el[openList[i]].fd = fd
    OBVIOUS
  <2>1. fd \in Fds /\ IsOpen(fd)
    BY <1>1 DEF FreeFds, IsOpen
  <2>2. PICK c \in Cells : el[c].live /\ el[c].fd = fd
    BY <2>1 DEF FdInv, FdsHeld, Holds
  <2>3. \A t \in Threads : ~Handled(t, c)
    BY DEF Handled, At, Closing
  <2>4. Listed(c)
    BY <2>1, <2>2, <2>3 DEF ListInv, AllListed
  <2> QED BY <2>2, <2>4 DEF Listed
<1>5. PICK f : f = [fd \in opened |-> CHOOSE i \in DOMAIN openList : el[openList[i]].fd = fd]
  OBVIOUS
<1>6. \A fd \in opened : f[fd] \in DOMAIN openList /\ el[openList[f[fd]]].fd = fd
  BY <1>4, <1>5
<1>7. f \in [opened -> DOMAIN openList]
  BY <1>5, <1>6
<1>8. /\ DOMAIN openList = 1 .. Len(openList) /\ Len(openList) \in Nat
      /\ IsFiniteSet(DOMAIN openList) /\ Cardinality(DOMAIN openList) = Len(openList)
  <2>1. DOMAIN openList = 1 .. Len(openList) /\ Len(openList) \in Nat
    BY DEF IInv, TypeOK
  <2>2. PICK n \in Nat : n = Len(openList)
    BY <2>1
  <2>3. IsFiniteSet(1 .. n) /\ Cardinality(1 .. n) = n
    BY FS_Interval
  <2> QED BY <2>1, <2>2, <2>3
<1>9. Cardinality(opened) <= Len(openList)
  <2> SUFFICES ASSUME Len(openList) < Cardinality(opened) PROVE FALSE
    BY <1>3, <1>8
  <2>1. \E fd, g \in opened : fd # g /\ f[fd] = f[g]
    BY <1>3, <1>7, <1>8, FS_PigeonHole
  <2> QED BY <1>6, <2>1
<1> QED BY <1>3, <1>8, <1>9, Numbers DEF ListInv

(***************************************************************************)
(* With one thread, and objects that are not removed, the list of open     *)
(* files and the descriptors account for each other, whatever fails and    *)
(* however often files are closed for others: between operations at most   *)
(* MAX_OPEN_FILES descriptors are open, each is in an element, and each    *)
(* element with an open file is in the list.                               *)
(***************************************************************************)
THEOREM StoreDescriptors ==
  ASSUME OneThread, "remove" \notin Ops
  PROVE  Spec => []DescriptorsAccounted
<1> DEFINE Inv == IInv /\ ApartInv /\ FdInv /\ ListInv
<1>0. Alone /\ Apart
  BY DEF Alone, Apart
<1>1. Init => Inv
  <2> SUFFICES ASSUME Init PROVE Inv
    OBVIOUS
  <2>1. \A c \in Cells : el[c] = Fresh(c) \/ el[c] = Free(0)
    BY DEF Init
  <2>2. \A c \in Cells : el[c].fd = 0
    BY <2>1, NewElement
  <2>3. NoneOpen
    BY <2>2 DEF Init, NoneOpen
  <2> QED BY <2>3, InitTypes, InitApart, InitFd, NoneOpenList
<1>2. Inv /\ [Next]_vars => Inv'
  BY <1>0, NextTypes, NextApart, NextFd, NextList
<1>3. Inv => DescriptorsAccounted
  <2> SUFFICES ASSUME Inv PROVE DescriptorsAccounted
    OBVIOUS
  <2>1. NoDescriptorLeak
    <3> SUFFICES ASSUME NEW fd \in Fds \ FreeFds
                 PROVE  \E c \in Cells : el[c].live /\ el[c].fd = fd
      BY DEF NoDescriptorLeak
    <3> QED BY DEF FreeFds, FdInv, FdsHeld, Holds, IsOpen
  <2>2. OpenFilesListed
    <3> SUFFICES ASSUME NEW c \in hash, IsOpen(el[c].fd)
                 PROVE  \/ \E i \in DOMAIN openList : openList[i] = c
                        \/ \E t \in Threads : c \in {th[t].cell, th[t].victim}
      BY DEF OpenFilesListed
    <3>1. c \in Cells /\ el[c].live /\ el[c].fd \in Fds
      BY DEF IInv, TypeOK, ApartInv, Kept, IsOpen
    <3> QED BY <3>1 DEF ListInv, AllListed, Listed, Handled
  <2> QED BY <2>1, <2>2, Bounded DEF DescriptorsAccounted
<1> QED BY <1>1, <1>2, <1>3, PTL DEF Spec
-----------------------------------------------------------------------------
(* When is a file closed for another one?  Not while there are at most half as many   *)
(* objects as open files: without removals an element is in the list twice at most,   *)
(* once from its creation, when its file is not open, and once from the first access. *)

AtMostOnce(c) == \A i, j \in DOMAIN openList : openList[i] = c /\ openList[j] = c => i = j
Unlisted(c) == \A i \in DOMAIN openList : openList[i] # c
Foremost(c) == \A i \in DOMAIN openList : openList[i] = c => i = 1

AllLive == \A i \in DOMAIN openList : el[openList[i]].live
NotThrice == \A i, j, k \in DOMAIN openList :
  openList[i] = openList[j] /\ openList[j] = openList[k] => i = j \/ j = k \/ i = k
OnceIfShut == \A c \in Cells : el[c].fd = 0 => AtMostOnce(c)

Adds == {"setMode", "initMode", "count", "unshift"}

\* An element that a thread is to list is there once at most, a new one not at all.
Place(t) ==
  LET pc == th[t].pc
      c  == th[t].cell
  IN  /\ pc \in Adds \cup {"close", "clearFd"} => AtMostOnce(c)
      /\ th[t].op = "create" /\ pc \in Adds => Unlisted(c)
      /\ th[t].op # "create" /\ pc \in Adds => el[c].fd # 0
      /\ pc # "evict" /\ th[t].op # "remove"
      /\ pc \in Closing => th[t].back = "again" /\ th[t].victim = c

LimitInv == AllLive /\ NotThrice /\ OnceIfShut /\ \A t \in Threads : Place(t)

LEMMA AddsHeld ==
  ASSUME IInv, NEW t \in Threads, th[t].pc \in Adds \cup Closing
  PROVE  Held(t)
BY IdleIs DEF IInv, PathInv, Working, OnPath, Held, Added, Uses, Taken, Closing, Opening,
   Listing, Adds

\* Steps that leave the list alone.
LEMMA SameLimit ==
  ASSUME IInv, LimitInv, NEW t \in Threads, UNCHANGED openList,
         \A u \in Threads \ {t} : th'[u] = th[u],
         \A c \in Cells : el[c].live => el'[c].live,
         \A u \in Threads \ {t} : Held(u) => el'[th[u].cell].fd = el[th[u].cell].fd,
         \A c \in Cells : el'[c].fd = 0 => el[c].fd = 0 \/ AtMostOnce(c),
         Place(t)'
  PROVE  LimitInv'
<1>1. \A c : (AtMostOnce(c)' <=> AtMostOnce(c)) /\ (Unlisted(c)' <=> Unlisted(c))
  BY DEF AtMostOnce, Unlisted
<1>2. AllLive'
  <2> SUFFICES ASSUME NEW i \in DOMAIN openList PROVE el'[openList[i]].live
    BY DEF AllLive
  <2>1. openList[i] \in Cells
    BY ElementOfSeq DEF IInv, TypeOK
  <2> QED BY <2>1 DEF LimitInv, AllLive
<1>3. NotThrice'
  BY DEF LimitInv, NotThrice
<1>4. OnceIfShut'
  BY <1>1 DEF LimitInv, OnceIfShut
<1>5. ASSUME NEW u \in Threads \ {t} PROVE Place(u)'
  <2>1. Place(u)
    BY DEF LimitInv
  <2>2. th[u].pc \in Adds => el'[th[u].cell].fd = el[th[u].cell].fd
    BY AddsHeld
  <2> QED BY <1>1, <2>1, <2>2 DEF Place
<1> QED BY <1>2, <1>3, <1>4, <1>5 DEF LimitInv

\* Steps that write no descriptor.
LEMMA QuietLimit ==
  ASSUME IInv, LimitInv, NEW t \in Threads, UNCHANGED openList,
         \A u \in Threads \ {t} : th'[u] = th[u],
         \A c \in Cells : el'[c].live = el[c].live /\ el'[c].fd = el[c].fd,
         Place(t)'
  PROVE  LimitInv'
<1>1. \A u \in Threads \ {t} : Held(u) => th[u].cell \in Cells
  <2> SUFFICES ASSUME NEW u \in Threads \ {t}, Held(u) PROVE th[u].cell \in Cells
    OBVIOUS
  <2> QED BY IdleIs DEF IInv, PathInv, Held, Working, Added, Uses, Taken, Opening, Listing, Closing
<1> QED BY <1>1, SameLimit

\* Where nothing is listed or closed.
LEMMA AsidePlace ==
  ASSUME NEW t \in Threads, th'[t].pc \notin Adds \cup Closing \cup {"evict"}, th'[t].op # "remove"
  PROVE  Place(t)'
BY DEF Place, Closing

LEMMA AsideLimit ==
  ASSUME IInv, LimitInv, NEW t \in Threads, UNCHANGED <<openList, el>>,
         \A u \in Threads \ {t} : th'[u] = th[u],
         th'[t].pc \notin Adds \cup Closing \cup {"evict"},
         th'[t].op = th[t].op \/ th'[t] = Idle
  PROVE  LimitInv'
<1>1. th'[t].op # "remove"
  BY IdleIs DEF LimitInv, Place
<1> QED BY <1>1, AsidePlace, QuietLimit

LEMMA ExistsLimit ==
  ASSUME IInv, LimitInv, NEW t \in Threads, Exists(t)
  PROVE  LimitInv'
<1>1. Ready(t)
  BY AtWork DEF Exists, At
<1>2. UNCHANGED <<openList, el>>
  BY DEF Exists, memory
<1>3. \A u \in Threads \ {t} : th'[u] = th[u]
  BY <1>1 DEF Exists, Ready, Goto, Return
<1>4. /\ th'[t].pc \notin Adds \cup Closing \cup {"evict"}
      /\ th'[t].op = th[t].op \/ th'[t] = Idle
  BY <1>1, IdleIs DEF Exists, Ready, At, Goto, Return, Thread, Adds, Closing
<1> QED BY <1>2, <1>3, <1>4, AsideLimit

LEMMA AccessLimit ==
  ASSUME IInv, LimitInv, NEW t \in Threads, Access(t)
  PROVE  LimitInv'
<1>1. Ready(t)
  BY AtWork DEF Access, At
<1>2. UNCHANGED <<openList, el>>
  BY DEF Access, memory
<1>3. \A u \in Threads \ {t} : th'[u] = th[u]
  BY <1>1 DEF Access, Ready, Goto, Return
<1>4. /\ th'[t].pc \notin Adds \cup Closing \cup {"evict"}
      /\ th'[t].op = th[t].op \/ th'[t] = Idle
  BY <1>1, IdleIs DEF Access, Ready, At, Goto, Return, Thread, Adds, Closing
<1> QED BY <1>2, <1>3, <1>4, AsideLimit

LEMMA CreatLimit ==
  ASSUME IInv, LimitInv, NEW t \in Threads, Creat(t)
  PROVE  LimitInv'
<1>1. Ready(t)
  BY AtWork DEF Creat, At
<1>2. UNCHANGED <<openList, el>>
  BY DEF Creat, memory
<1>3. \A u \in Threads \ {t} : th'[u] = th[u]
  BY <1>1 DEF Creat, Ready, Goto, Return
<1>4. /\ th'[t].pc \notin Adds \cup Closing \cup {"evict"}
      /\ th'[t].op = th[t].op \/ th'[t] = Idle
  BY <1>1, IdleIs DEF Creat, Ready, At, Goto, Return, Thread, Adds, Closing
<1> QED BY <1>2, <1>3, <1>4, AsideLimit

LEMMA SetAttrLimit ==
  ASSUME IInv, LimitInv, NEW t \in Threads, SetAttr(t)
  PROVE  LimitInv'
<1>1. Ready(t)
  BY AtWork DEF SetAttr, At
<1>2. UNCHANGED <<openList, el>>
  BY DEF SetAttr, memory
<1>3. \A u \in Threads \ {t} : th'[u] = th[u]
  BY <1>1 DEF SetAttr, Ready, Goto, Return
<1>4. /\ th'[t].pc \notin Adds \cup Closing \cup {"evict"}
      /\ th'[t].op = th[t].op \/ th'[t] = Idle
  BY <1>1, IdleIs DEF SetAttr, Ready, At, Goto, Return, Thread, Adds, Closing
<1> QED BY <1>2, <1>3, <1>4, AsideLimit

LEMMA CheckFdLimit ==
  ASSUME IInv, LimitInv, NEW t \in Threads, CheckFd(t)
  PROVE  LimitInv'
<1>1. Ready(t)
  BY AtWork DEF CheckFd, At
<1>2. UNCHANGED <<openList, el>>
  BY DEF CheckFd, memory
<1>3. \A u \in Threads \ {t} : th'[u] = th[u]
  BY <1>1 DEF CheckFd, Ready, Goto, Return
<1>4. /\ th'[t].pc \notin Adds \cup Closing \cup {"evict"}
      /\ th'[t].op = th[t].op \/ th'[t] = Idle
  BY <1>1, IdleIs DEF CheckFd, Ready, At, Goto, Return, Thread, Adds, Closing, Working, OnPath,
     Added, Uses, Taken, Returns, ReturnsFromClose, Opening, Listing, Transfers
<1> QED BY <1>2, <1>3, <1>4, AsideLimit

LEMMA CheckAgainLimit ==
  ASSUME IInv, LimitInv, NEW t \in Threads, CheckAgain(t)
  PROVE  LimitInv'
<1>1. Ready(t)
  BY AtWork DEF CheckAgain, At
<1>2. UNCHANGED <<openList, el>>
  BY DEF CheckAgain, memory
<1>3. \A u \in Threads \ {t} : th'[u] = th[u]
  BY <1>1 DEF CheckAgain, Ready, Goto, Return
<1>4. /\ th'[t].pc \notin Adds \cup Closing \cup {"evict"}
      /\ th'[t].op = th[t].op \/ th'[t] = Idle
  BY <1>1, IdleIs DEF CheckAgain, Ready, At, Goto, Return, Thread, Adds, Closing
<1> QED BY <1>2, <1>3, <1>4, AsideLimit

LEMMA SeekLimit ==
  ASSUME IInv, LimitInv, NEW t \in Threads, Seek(t)
  PROVE  LimitInv'
<1>1. Ready(t)
  BY AtWork DEF Seek, At
<1>2. UNCHANGED <<openList, el>>
  BY DEF Seek, memory
<1>3. \A u \in Threads \ {t} : th'[u] = th[u]
  BY <1>1 DEF Seek, Ready, Goto, Return
<1>4. /\ th'[t].pc \notin Adds \cup Closing \cup {"evict"}
      /\ th'[t].op = th[t].op \/ th'[t] = Idle
  BY <1>1, IdleIs DEF Seek, Ready, At, Goto, Return, Thread, Adds, Closing
<1> QED BY <1>2, <1>3, <1>4, AsideLimit

LEMMA TransferLimit ==
  ASSUME IInv, LimitInv, NEW t \in Threads, Transfer(t)
  PROVE  LimitInv'
<1>1. Ready(t)
  BY AtWork DEF Transfer, At
<1>2. UNCHANGED <<openList, el>>
  BY DEF Transfer, memory
<1>3. \A u \in Threads \ {t} : th'[u] = th[u]
  BY <1>1 DEF Transfer, Ready, Goto, Return
<1>4. /\ th'[t].pc \notin Adds \cup Closing \cup {"evict"}
      /\ th'[t].op = th[t].op \/ th'[t] = Idle
  BY <1>1, IdleIs DEF Transfer, Ready, At, Goto, Return, Thread, Adds, Closing
<1> QED BY <1>2, <1>3, <1>4, AsideLimit

LEMMA StartLimit ==
  ASSUME IInv, LimitInv, "remove" \notin Ops, NEW t \in Threads, NEW op \in Ops, NEW o \in Oids,
         NEW off \in Offsets, Start(t, op, o, off)
  PROVE  LimitInv'
<1>1. th \in [Threads -> Thread] /\ UNCHANGED <<el, openList>>
  BY TypesAre DEF IInv, Start, memory
<1>2. /\ th'[t].pc \in {"access", "exists"} /\ th'[t].op = op
      /\ \A u \in Threads \ {t} : th'[u] = th[u]
  BY <1>1 DEF Start, Idle
<1>3. Place(t)'
  BY <1>2, AsidePlace DEF Adds, Closing
<1> QED BY <1>1, <1>2, <1>3, QuietLimit

LEMMA FindOidLimit ==
  ASSUME IInv, LimitInv, NEW t \in Threads, FindOid(t), ~Segfault
  PROVE  LimitInv'
<1>1. Ready(t)
  BY AtWork DEF FindOid, At
<1>2. UNCHANGED <<openList, el>>
  BY DEF FindOid, OpenOidFails, memory
<1>3. CASE Return(t)
  <2>1. th'[t] = Idle /\ \A u \in Threads \ {t} : th'[u] = th[u]
    BY <1>1, <1>3 DEF Return, Ready
  <2> QED BY <1>2, <2>1, IdleIs, AsideLimit DEF Adds, Closing
<1>4. CASE ~Return(t)
  <2>1. PICK c : th' = [th EXCEPT ![t].pc = "openOid", ![t].cell = c,
                          ![t].next = IF UsesMode(t) THEN "mode" ELSE "transfer"]
    BY <1>4 DEF FindOid, OpenOidFails
  <2>2. /\ th'[t].pc = "openOid" /\ th'[t].op = th[t].op
        /\ \A u \in Threads \ {t} : th'[u] = th[u]
    BY <1>1, <2>1 DEF Ready, Thread
  <2> QED BY <1>2, <2>2, AsideLimit DEF Adds, Closing
<1> QED BY <1>3, <1>4

LEMMA AddOidLimit ==
  ASSUME IInv, ApartInv, LimitInv, NEW t \in Threads, AddOid(t)
  PROVE  LimitInv'
<1>1. Ready(t) /\ th[t].pc = "addOid"
  BY AtWork DEF AddOid, At
<1>2. PICK c \in Cells :
        /\ ~el[c].live
        /\ el' = [el EXCEPT ![c] = Fresh(th[t].oid)]
        /\ th' = [th EXCEPT ![t].pc = "initMode", ![t].cell = c, ![t].next = "setattr"]
  BY DEF AddOid
<1>3. /\ el'[c] = Fresh(th[t].oid) /\ \A d \in Cells \ {c} : el'[d] = el[d]
      /\ UNCHANGED openList
  BY <1>1, <1>2 DEF Ready, MemoryTyped, AddOid
<1>4. /\ th'[t].pc = "initMode" /\ th'[t].cell = c /\ th'[t].op = th[t].op
      /\ \A u \in Threads \ {t} : th'[u] = th[u]
  BY <1>1, <1>2 DEF Ready, Thread
<1>5. Unlisted(c) /\ AtMostOnce(c)
  BY <1>2 DEF LimitInv, AllLive, Unlisted, AtMostOnce
<1>6. th[t].op = "create"
  BY <1>1 DEF Ready, Working, OnPath, Uses, Added, Taken, Opening, Listing, Closing
<1>7. Place(t)'
  <2>1. Unlisted(c)' /\ AtMostOnce(c)'
    BY <1>3, <1>5 DEF Unlisted, AtMostOnce
  <2> QED BY <1>4, <1>6, <2>1 DEF Place, Closing
<1>8. \A d \in Cells : el[d].live => el'[d].live
  BY <1>2, <1>3
<1>9. \A u \in Threads \ {t} : Held(u) => el'[th[u].cell].fd = el[th[u].cell].fd
  <2> SUFFICES ASSUME NEW u \in Threads \ {t}, Held(u) PROVE th[u].cell \in Cells \ {c}
    BY <1>3
  <2>1. th[u].cell # c
    BY <1>2, HeldCell
  <2>2. th[u].cell \in Cells
    BY IdleIs DEF IInv, PathInv, Held, Working, Added, Uses, Taken, Opening, Listing, Closing
  <2> QED BY <2>1, <2>2
<1>10. \A d \in Cells : el'[d].fd = 0 => el[d].fd = 0 \/ AtMostOnce(d)
  BY <1>3, <1>5
<1> QED BY <1>3, <1>4, <1>7, <1>8, <1>9, <1>10, SameLimit

\* The other threads' elements are not the one that a thread writes.
LEMMA OwnWritten ==
  ASSUME IInv, ApartInv, FdInv, NEW t \in Threads, Held(t),
         \A d \in Cells : d # th[t].cell => el'[d] = el[d]
  PROVE  \A u \in Threads \ {t} : Held(u) => el'[th[u].cell].fd = el[th[u].cell].fd
<1> SUFFICES ASSUME NEW u \in Threads \ {t}, Held(u)
             PROVE  th[u].cell \in Cells /\ th[u].cell # th[t].cell
  OBVIOUS
<1> QED BY CellMine DEF Mine

LEMMA OpenFileLimit ==
  ASSUME IInv, ApartInv, FdInv, LimitInv, NEW t \in Threads, OpenFile(t)
  PROVE  LimitInv'
<1>1. Ready(t) /\ th[t].pc \in {"open", "reopen"}
  BY AtWork DEF OpenFile, At
<1>2. PICK c \in Cells : c = th[t].cell
  BY <1>1 DEF Ready, Working, OnPath, Uses, Added, Taken, Opening, Listing, Closing
<1>3. Held(t) /\ th[t].op # "create"
  BY <1>1 DEF Ready, Working, OnPath, Held, Uses, Added, Taken, Opening, Listing, Closing, Transfers
<1>4. PICK fd \in Fds : el' = [el EXCEPT ![c].fd = fd]
  BY <1>2, MinFree DEF OpenFile
<1>5. /\ el'[c].fd = fd /\ el'[c].live = el[c].live
      /\ \A d \in Cells : d # c => el'[d] = el[d]
  BY <1>1, <1>4 DEF Ready, MemoryTyped, Element
<1>6. /\ UNCHANGED openList
      /\ th'[t].pc = "setMode" /\ th'[t].cell = c /\ th'[t].op = th[t].op
      /\ \A u \in Threads \ {t} : th'[u] = th[u]
  BY <1>1, <1>2 DEF OpenFile, Goto, Ready, Thread
<1>7. AtMostOnce(c)
  BY <1>1, <1>2 DEF FdInv, Safe, LimitInv, OnceIfShut
<1>8. fd # 0
  BY Numbers
<1>9. Place(t)'
  <2>1. AtMostOnce(c)'
    BY <1>6, <1>7 DEF AtMostOnce
  <2>2. th'[t].op # "remove"
    BY <1>6 DEF LimitInv, Place
  <2> QED BY <1>3, <1>5, <1>6, <1>8, <2>1, <2>2 DEF Place, Closing
<1>10. \A u \in Threads \ {t} : Held(u) => el'[th[u].cell].fd = el[th[u].cell].fd
  BY <1>2, <1>3, <1>5, OwnWritten
<1>11. \A d \in Cells : el[d].live => el'[d].live
  BY <1>5
<1>12. \A d \in Cells : el'[d].fd = 0 => el[d].fd = 0
  BY <1>5, <1>8
<1> QED BY <1>6, <1>9, <1>10, <1>11, <1>12, SameLimit

LEMMA OpenFailsLimit ==
  ASSUME IInv, ApartInv, FdInv, LimitInv, NEW t \in Threads, OpenFails(t), ~Segfault
  PROVE  LimitInv'
<1>1. Ready(t) /\ th[t].pc \in {"open", "reopen"}
  BY AtWork DEF OpenFails, At
<1>2. PICK c \in Cells : c = th[t].cell
  BY <1>1 DEF Ready, Working, OnPath, Uses, Added, Taken, Opening, Listing, Closing
<1>3. Held(t)
  BY <1>1 DEF Ready, Working, OnPath, Held, Uses, Added, Taken, Opening, Listing, Closing, Transfers
<1>4. el' = [el EXCEPT ![c].fd = Bad] /\ Return(t) /\ UNCHANGED openList
  BY <1>2 DEF OpenFails
<1>5. /\ el'[c].fd = Bad /\ el'[c].live = el[c].live
      /\ \A d \in Cells : d # c => el'[d] = el[d]
  BY <1>1, <1>4 DEF Ready, MemoryTyped, Element
<1>6. th'[t] = Idle /\ \A u \in Threads \ {t} : th'[u] = th[u]
  BY <1>1, <1>4 DEF Return, Ready
<1>7. Place(t)'
  BY <1>6, IdleIs, AsidePlace DEF Adds, Closing
<1>8. \A u \in Threads \ {t} : Held(u) => el'[th[u].cell].fd = el[th[u].cell].fd
  BY <1>2, <1>3, <1>5, OwnWritten
<1>9. Bad # 0
  BY DEF Bad
<1>10. \A d \in Cells : el[d].live => el'[d].live
  BY <1>5
<1>11. \A d \in Cells : el'[d].fd = 0 => el[d].fd = 0
  BY <1>5, <1>9
<1> QED BY <1>4, <1>6, <1>7, <1>8, <1>10, <1>11, SameLimit

LEMMA SetModeLimit ==
  ASSUME IInv, LimitInv, NEW t \in Threads, SetMode(t)
  PROVE  LimitInv'
<1>1. Ready(t) /\ th[t].pc \in {"setMode", "initMode"}
  BY AtWork DEF SetMode, At
<1>2. th[t].cell \in Cells
  BY <1>1 DEF Ready, Working, OnPath, Uses, Added, Taken, Opening, Listing, Closing
<1>3. \A c \in Cells : el'[c].live = el[c].live /\ el'[c].fd = el[c].fd
  <2>1. PICK m \in BOOLEAN : el' = [el EXCEPT ![th[t].cell].mode = m]
    BY DEF SetMode, At
  <2> QED BY <1>1, <1>2, <2>1, ModeWritten DEF Ready, MemoryTyped
<1>4. /\ th'[t].pc = "count" /\ th'[t].cell = th[t].cell /\ th'[t].op = th[t].op
      /\ \A u \in Threads \ {t} : th'[u] = th[u]
  BY <1>1 DEF SetMode, Goto, Ready, Thread
<1>5. UNCHANGED openList
  BY DEF SetMode
<1>6. Place(t)'
  <2>1. AtMostOnce(th[t].cell) /\ (th[t].op = "create" => Unlisted(th[t].cell))
    BY <1>1 DEF LimitInv, Place, Adds
  <2>2. th[t].op # "create" => el[th[t].cell].fd # 0
    BY <1>1 DEF LimitInv, Place, Adds
  <2>3. AtMostOnce(th[t].cell)' /\ (th'[t].op = "create" => Unlisted(th[t].cell)')
    BY <1>4, <1>5, <2>1 DEF AtMostOnce, Unlisted
  <2>4. th'[t].op # "create" => el'[th'[t].cell].fd # 0
    BY <1>2, <1>3, <1>4, <2>2
  <2>5. th'[t].op # "remove"
    BY <1>4 DEF LimitInv, Place
  <2> QED BY <1>4, <2>3, <2>4, <2>5 DEF Place, Closing
<1> QED BY <1>3, <1>4, <1>5, <1>6, QuietLimit

LEMMA CheckModeLimit ==
  ASSUME IInv, LimitInv, NEW t \in Threads, CheckMode(t)
  PROVE  LimitInv'
<1>1. Ready(t)
  BY AtWork DEF CheckMode, At
<1>2. UNCHANGED <<openList, el>>
  BY DEF CheckMode, memory
<1>3. CASE Goto(t, "again")
  <2>1. /\ th'[t].pc = "again" /\ th'[t].op = th[t].op
        /\ \A u \in Threads \ {t} : th'[u] = th[u]
    BY <1>1, <1>3 DEF Goto, Ready, Thread
  <2> QED BY <1>2, <2>1, AsideLimit DEF Adds, Closing
<1>4. CASE ~Goto(t, "again")
  <2>1. th' = [th EXCEPT ![t].pc = "delist", ![t].victim = th[t].cell, ![t].back = "again"]
    BY <1>4 DEF CheckMode
  <2>2. /\ th'[t].pc = "delist" /\ th'[t].op = th[t].op /\ th'[t].cell = th[t].cell
        /\ th'[t].victim = th[t].cell /\ th'[t].back = "again"
        /\ \A u \in Threads \ {t} : th'[u] = th[u]
    BY <1>1, <2>1 DEF Ready, Thread
  <2>3. Place(t)'
    BY <2>2 DEF LimitInv, Place, Adds
  <2> QED BY <1>2, <2>2, <2>3, QuietLimit
<1> QED BY <1>3, <1>4

LEMMA CloseLimit ==
  ASSUME IInv, LimitInv, NEW t \in Threads, Close(t)
  PROVE  LimitInv'
<1>1. Ready(t) /\ th[t].pc = "close"
  BY AtWork DEF Close, At
<1>2. UNCHANGED <<openList, el>>
  BY DEF Close
<1>3. /\ th'[t].pc \in {"clearFd", th[t].back} /\ th'[t].op = th[t].op /\ th'[t].cell = th[t].cell
      /\ th'[t].victim = th[t].victim /\ th'[t].back = th[t].back
      /\ \A u \in Threads \ {t} : th'[u] = th[u]
  BY <1>1 DEF Close, Goto, Ready, Thread
<1>4. /\ th[t].back = "again" /\ th[t].victim = th[t].cell /\ AtMostOnce(th[t].cell)
      /\ th[t].op # "remove"
  BY <1>1 DEF LimitInv, Place, Closing
<1>5. Place(t)'
  <2>1. AtMostOnce(th[t].cell)'
    BY <1>2, <1>3, <1>4 DEF AtMostOnce
  <2> QED BY <1>3, <1>4, <2>1 DEF Place, Adds, Closing
<1> QED BY <1>2, <1>3, <1>5, QuietLimit

LEMMA ClearFdLimit ==
  ASSUME IInv, ApartInv, FdInv, LimitInv, NEW t \in Threads, ClearFd(t)
  PROVE  LimitInv'
<1>1. Ready(t) /\ th[t].pc = "clearFd"
  BY AtWork DEF ClearFd, At
<1>2. Held(t) /\ th[t].cell \in Cells
  BY <1>1, ClosingHeld DEF Closing
<1>3. /\ th[t].back = "again" /\ th[t].victim = th[t].cell /\ AtMostOnce(th[t].cell)
      /\ th[t].op # "remove"
  BY <1>1 DEF LimitInv, Place, Closing
<1>4. /\ \A d \in Cells : d # th[t].cell => el'[d] = el[d]
      /\ \A d \in Cells : el'[d].live = el[d].live
      /\ UNCHANGED openList
  BY <1>1, <1>2, <1>3 DEF ClearFd, Ready, MemoryTyped, Element
<1>5. /\ th'[t].pc = "clearMode" /\ th'[t].op = th[t].op /\ th'[t].cell = th[t].cell
      /\ th'[t].victim = th[t].victim /\ th'[t].back = th[t].back
      /\ \A u \in Threads \ {t} : th'[u] = th[u]
  BY <1>1 DEF ClearFd, Goto, Ready, Thread
<1>6. Place(t)'
  BY <1>3, <1>5 DEF Place, Adds
<1>7. \A u \in Threads \ {t} : Held(u) => el'[th[u].cell].fd = el[th[u].cell].fd
  BY <1>2, <1>4, OwnWritten
<1>8. \A d \in Cells : el'[d].fd = 0 => el[d].fd = 0 \/ AtMostOnce(d)
  BY <1>3, <1>4
<1> QED BY <1>4, <1>5, <1>6, <1>7, <1>8, SameLimit

LEMMA ClearModeLimit ==
  ASSUME IInv, LimitInv, NEW t \in Threads, ClearMode(t)
  PROVE  LimitInv'
<1>1. Ready(t) /\ th[t].pc = "clearMode"
  BY AtWork DEF ClearMode, At
<1>2. th[t].victim \in Cells
  BY <1>1, ClosingHeld DEF Closing
<1>3. UNCHANGED openList /\ \A c \in Cells : el'[c].live = el[c].live /\ el'[c].fd = el[c].fd
  <2>1. UNCHANGED openList /\ el' = [el EXCEPT ![th[t].victim].mode = FALSE]
    BY DEF ClearMode
  <2> QED BY <1>1, <1>2, <2>1, ModeWritten DEF Ready, MemoryTyped
<1>4. th[t].back = "again" /\ th[t].op # "remove"
  BY <1>1 DEF LimitInv, Place, Closing
<1>5. /\ th'[t].pc = "again" /\ th'[t].op = th[t].op
      /\ \A u \in Threads \ {t} : th'[u] = th[u]
  BY <1>1, <1>4 DEF ClearMode, Goto, Ready, Thread
<1>6. Place(t)'
  BY <1>4, <1>5, AsidePlace DEF Adds, Closing
<1> QED BY <1>3, <1>5, <1>6, QuietLimit

\* An element is added at the front of the list.
LEMMA Prepended ==
  ASSUME openList \in Seq(Cells), NEW c \in Cells, openList' = <<c>> \o openList
  PROVE  /\ openList' \in Seq(Cells) /\ Len(openList') = Len(openList) + 1
         /\ 1 \in DOMAIN openList' /\ openList'[1] = c
         /\ \A i \in DOMAIN openList' :
              i \in Int /\ (i # 1 => i - 1 \in DOMAIN openList /\ openList'[i] = openList[i - 1])
<1>1. PICK L \in Seq(Cells) : L = openList
  OBVIOUS
<1>2. PICK b \in Seq(Cells) : b = <<c>> /\ Len(b) = 1 /\ b[1] = c
  <2>1. /\ <<c>> \in Seq(Cells) /\ Len(<<c>>) = 1 /\ <<c>>[1] = c
    OBVIOUS
  <2> QED BY <2>1
<1>3. PICK r : r = b \o L
  OBVIOUS
<1>4. /\ r \in Seq(Cells) /\ Len(r) = Len(b) + Len(L)
      /\ \A i \in 1 .. Len(b) + Len(L) : r[i] = IF i <= Len(b) THEN b[i] ELSE L[i - Len(b)]
  BY <1>3, ConcatProperties
<1>5. Len(L) \in Nat /\ DOMAIN L = 1 .. Len(L)
  BY LenProperties
<1>6. Len(r) = Len(L) + 1 /\ DOMAIN r = 1 .. Len(L) + 1
  <2>1. Len(r) = Len(L) + 1
    BY <1>2, <1>4, <1>5
  <2> QED BY <1>4, <2>1, LenProperties
<1>7. 1 \in DOMAIN r /\ r[1] = c
  BY <1>2, <1>4, <1>5, <1>6
<1>8. \A i \in 1 .. Len(L) + 1 : i # 1 => r[i] = L[i - 1]
  BY <1>2, <1>4, <1>5
<1>9. \A i \in DOMAIN r : i \in Int /\ (i # 1 => i - 1 \in DOMAIN L /\ r[i] = L[i - 1])
  BY <1>5, <1>6, <1>8
<1>10. openList' = r
  BY <1>1, <1>2, <1>3
<1> QED BY <1>1, <1>4, <1>6, <1>7, <1>9, <1>10

\* An element that is there once at most is there twice at most afterwards.
LEMMA PrependedOnce ==
  ASSUME openList \in Seq(Cells), NEW c \in Cells, openList' = <<c>> \o openList
  PROVE  /\ NotThrice /\ AtMostOnce(c) => NotThrice'
         /\ \A d : AtMostOnce(d) /\ (d = c => Unlisted(d)) => AtMostOnce(d)'
         /\ \A d : Unlisted(d) /\ d # c => Unlisted(d)'
         /\ Unlisted(c) => Foremost(c)'
<1>1. /\ 1 \in DOMAIN openList' /\ openList'[1] = c
      /\ \A i \in DOMAIN openList' :
           i \in Int /\ (i # 1 => i - 1 \in DOMAIN openList /\ openList'[i] = openList[i - 1])
  BY Prepended
<1>2. ASSUME NotThrice, AtMostOnce(c)
      PROVE  NotThrice'
  <2> SUFFICES ASSUME NEW i \in DOMAIN openList', NEW j \in DOMAIN openList',
                      NEW k \in DOMAIN openList',
                      openList'[i] = openList'[j], openList'[j] = openList'[k],
                      i # j, j # k, i # k
               PROVE  FALSE
    BY DEF NotThrice
  <2>1. \A m, n \in DOMAIN openList' :
          m # 1 /\ n # 1 /\ m # n /\ openList'[m] = c /\ openList'[n] = c => FALSE
    <3> SUFFICES ASSUME NEW m \in DOMAIN openList', NEW n \in DOMAIN openList',
                        m # 1, n # 1, m # n, openList'[m] = c, openList'[n] = c
                 PROVE  FALSE
      OBVIOUS
    <3>1. /\ m - 1 \in DOMAIN openList /\ n - 1 \in DOMAIN openList
          /\ openList[m - 1] = c /\ openList[n - 1] = c
      BY <1>1
    <3>2. m - 1 = n - 1
      BY <1>2, <3>1 DEF AtMostOnce
    <3> QED BY <1>1, <3>2
  <2>2. CASE i = 1 \/ j = 1 \/ k = 1
    BY <1>1, <2>1, <2>2
  <2>3. CASE i # 1 /\ j # 1 /\ k # 1
    <3>1. /\ i - 1 \in DOMAIN openList /\ j - 1 \in DOMAIN openList /\ k - 1 \in DOMAIN openList
          /\ openList[i - 1] = openList[j - 1] /\ openList[j - 1] = openList[k - 1]
      BY <1>1, <2>3
    <3>2. i - 1 = j - 1 \/ j - 1 = k - 1 \/ i - 1 = k - 1
      BY <1>2, <3>1 DEF NotThrice
    <3> QED BY <1>1, <3>2
  <2> QED BY <2>2, <2>3
<1>3. ASSUME NEW d, AtMostOnce(d), d = c => Unlisted(d)
      PROVE  AtMostOnce(d)'
  <2> SUFFICES ASSUME NEW i \in DOMAIN openList', NEW j \in DOMAIN openList',
                      openList'[i] = d, openList'[j] = d, i # j
               PROVE  FALSE
    BY DEF AtMostOnce
  <2>1. CASE i = 1 \/ j = 1
    <3>1. d = c
      BY <1>1, <2>1
    <3>2. \E m \in DOMAIN openList : openList[m] = c
      BY <1>1, <2>1, <3>1
    <3> QED BY <1>3, <3>1, <3>2 DEF Unlisted
  <2>2. CASE i # 1 /\ j # 1
    <3>1. /\ i - 1 \in DOMAIN openList /\ j - 1 \in DOMAIN openList
          /\ openList[i - 1] = d /\ openList[j - 1] = d
      BY <1>1, <2>2
    <3>2. i - 1 = j - 1
      BY <1>3, <3>1 DEF AtMostOnce
    <3> QED BY <1>1, <3>2
  <2> QED BY <2>1, <2>2
<1>4. ASSUME NEW d, Unlisted(d), d # c
      PROVE  Unlisted(d)'
  BY <1>1, <1>4 DEF Unlisted
<1>5. ASSUME Unlisted(c)
      PROVE  Foremost(c)'
  BY <1>1, <1>5 DEF Unlisted, Foremost
<1> QED BY <1>2, <1>3, <1>4, <1>5

\* An entry is taken off the list.  The rest is as it was, at the same places or one
\* place further to the front.
LEMMA TakenOff ==
  ASSUME NEW L \in Seq(Cells), NEW M, NEW k \in DOMAIN L, M = RemoveAt(L, k)
  PROVE  \E old \in [DOMAIN M -> DOMAIN L] :
           /\ \A j \in DOMAIN M : M[j] = L[old[j]] /\ old[j] # k
           /\ \A i, j \in DOMAIN M : old[i] = old[j] => i = j
<1>1. Len(L) \in Nat /\ DOMAIN L = 1 .. Len(L)
  BY LenProperties
<1>2. /\ M \in Seq(Cells) /\ Len(M) = Len(L) - 1
      /\ \A j \in DOMAIN M : M[j] = L[IF j < k THEN j ELSE j + 1]
  BY RemoveAtTyped
<1>3. DOMAIN M = 1 .. Len(L) - 1
  BY <1>1, <1>2, LenProperties
<1>4. PICK old : old = [j \in 1 .. Len(L) - 1 |-> IF j < k THEN j ELSE j + 1]
  OBVIOUS
<1>5. DOMAIN old = DOMAIN M /\ old = [j \in DOMAIN old |-> old[j]]
  BY <1>3, <1>4
<1>6. \A j \in DOMAIN M :
        j \in Int /\ old[j] = (IF j < k THEN j ELSE j + 1) /\ old[j] \in Int
  BY <1>1, <1>3, <1>4
<1>7. \A j \in DOMAIN M : old[j] \in 1 .. Len(L) /\ old[j] # k
  <2> SUFFICES ASSUME NEW j \in DOMAIN M PROVE old[j] \in 1 .. Len(L) /\ old[j] # k
    OBVIOUS
  <2>1. j \in Int /\ 1 <= j /\ j <= Len(L) - 1 /\ k \in Int /\ 1 <= k /\ k <= Len(L)
    BY <1>1, <1>3
  <2> QED BY <1>1, <1>6, <2>1
<1>8. \A j \in DOMAIN M : M[j] = L[old[j]]
  BY <1>2, <1>6
<1>9. \A i, j \in DOMAIN M : old[i] = old[j] => i = j
  BY <1>1, <1>6
<1> QED BY <1>1, <1>5, <1>7, <1>8, <1>9

LEMMA WithoutOne ==
  ASSUME openList \in Seq(Cells), NEW k \in DOMAIN openList, NEW v, v = openList[k],
         openList' = RemoveAt(openList, k), UNCHANGED el
  PROVE  /\ AllLive => AllLive'
         /\ NotThrice => NotThrice' /\ AtMostOnce(v)'
         /\ AtMostOnce(v) => Unlisted(v)'
         /\ \A d : (AtMostOnce(d) => AtMostOnce(d)') /\ (Unlisted(d) => Unlisted(d)')
<1>1. PICK old \in [DOMAIN openList' -> DOMAIN openList] :
        /\ \A j \in DOMAIN openList' : openList'[j] = openList[old[j]] /\ old[j] # k
        /\ \A i, j \in DOMAIN openList' : old[i] = old[j] => i = j
  BY TakenOff
<1>2. AllLive => AllLive'
  BY <1>1 DEF AllLive
<1>3. ASSUME NotThrice PROVE NotThrice'
  <2> SUFFICES ASSUME NEW i \in DOMAIN openList', NEW j \in DOMAIN openList',
                      NEW m \in DOMAIN openList',
                      openList'[i] = openList'[j], openList'[j] = openList'[m]
               PROVE  i = j \/ j = m \/ i = m
    BY DEF NotThrice
  <2>1. openList[old[i]] = openList[old[j]] /\ openList[old[j]] = openList[old[m]]
    BY <1>1
  <2>2. old[i] = old[j] \/ old[j] = old[m] \/ old[i] = old[m]
    BY <1>1, <1>3, <2>1 DEF NotThrice
  <2> QED BY <1>1, <2>2
<1>4. ASSUME NotThrice PROVE AtMostOnce(v)'
  <2> SUFFICES ASSUME NEW i \in DOMAIN openList', NEW j \in DOMAIN openList',
                      openList'[i] = v, openList'[j] = v
               PROVE  i = j
    BY DEF AtMostOnce
  <2>1. openList[old[i]] = v /\ openList[old[j]] = v /\ old[i] # k /\ old[j] # k
    BY <1>1
  <2>2. old[i] = old[j]
    BY <1>1, <1>4, <2>1 DEF NotThrice
  <2> QED BY <1>1, <2>2
<1>5. ASSUME AtMostOnce(v) PROVE Unlisted(v)'
  <2> SUFFICES ASSUME NEW i \in DOMAIN openList', openList'[i] = v PROVE FALSE
    BY DEF Unlisted
  <2>1. openList[old[i]] = v /\ old[i] # k
    BY <1>1
  <2> QED BY <1>1, <1>5, <2>1 DEF AtMostOnce
<1>6. ASSUME NEW d, AtMostOnce(d) PROVE AtMostOnce(d)'
  <2> SUFFICES ASSUME NEW i \in DOMAIN openList', NEW j \in DOMAIN openList',
                      openList'[i] = d, openList'[j] = d
               PROVE  i = j
    BY DEF AtMostOnce
  <2>1. openList[old[i]] = d /\ openList[old[j]] = d
    BY <1>1
  <2>2. old[i] = old[j]
    BY <1>1, <1>6, <2>1 DEF AtMostOnce
  <2> QED BY <1>1, <2>2
<1>7. ASSUME NEW d, Unlisted(d) PROVE Unlisted(d)'
  BY <1>1, <1>7 DEF Unlisted
<1> QED BY <1>2, <1>3, <1>4, <1>5, <1>6, <1>7

\* tclist_delete takes the first entry of the element, if there is one.
LEMMA Removed ==
  ASSUME openList \in Seq(Cells), Once, NEW v \in Cells, el[v].live, NEW same,
         same = {i \in DOMAIN openList : el[openList[i]] = el[v]},
         openList' = IF same = {} THEN openList ELSE RemoveAt(openList, Min(same)),
         UNCHANGED el
  PROVE  /\ AllLive => AllLive'
         /\ NotThrice => NotThrice' /\ AtMostOnce(v)'
         /\ AtMostOnce(v) => Unlisted(v)'
         /\ \A d : (AtMostOnce(d) => AtMostOnce(d)') /\ (Unlisted(d) => Unlisted(d)')
<1>1. \A i \in same : openList[i] = v /\ i \in DOMAIN openList
  <2> SUFFICES ASSUME NEW i \in same PROVE openList[i] = v /\ i \in DOMAIN openList
    OBVIOUS
  <2>1. i \in DOMAIN openList /\ el[openList[i]] = el[v] /\ openList[i] \in Cells
    OBVIOUS
  <2> QED BY <2>1 DEF Once
<1>2. Len(openList) \in Nat /\ DOMAIN openList = 1 .. Len(openList)
  OBVIOUS
<1>3. CASE same = {}
  <2>1. Unlisted(v) /\ openList' = openList
    BY <1>3 DEF Unlisted
  <2> QED BY <2>1 DEF AllLive, NotThrice, AtMostOnce, Unlisted
<1>4. CASE same # {}
  <2>1. same \in SUBSET Nat
    BY <1>2
  <2>2. PICK k : k = Min(same)
    OBVIOUS
  <2>3. k \in same /\ k \in DOMAIN openList /\ openList[k] = v
    BY <1>1, <1>4, <2>1, <2>2, Least
  <2>4. openList' = RemoveAt(openList, k)
    BY <1>4, <2>2
  <2> QED BY <2>3, <2>4, WithoutOne
<1> QED BY <1>3, <1>4

\* An element is added that is there once at most, and a new one that is not there.
LEMMA UnshiftLimit ==
  ASSUME IInv, ApartInv, LimitInv, NEW t \in Threads, Unshift(t)
  PROVE  LimitInv'
<1>1. Ready(t) /\ th[t].pc = "unshift"
  BY AtWork DEF Unshift, At
<1>2. PICK c \in Cells : c = th[t].cell
  BY <1>1 DEF Ready, Working, OnPath, Uses, Added, Taken, Opening, Listing, Closing
<1>3. openList \in Seq(Cells)
  BY <1>1 DEF Ready, MemoryTyped
<1>4. el[c].live /\ AtMostOnce(c) /\ (th[t].op = "create" => Unlisted(c))
  BY <1>1, <1>2, AddsHeld, HeldCell DEF LimitInv, Place, Adds
<1>5. openList' = <<c>> \o openList /\ openList \in Seq(Cells)
  BY <1>2, <1>3 DEF Unshift
<1>6. /\ UNCHANGED el /\ th'[t].pc = th[t].next /\ th'[t].op = th[t].op
      /\ \A u \in Threads \ {t} : th'[u] = th[u]
  BY <1>1 DEF Unshift, Goto, Ready, Thread
<1>7. th[t].next \in {"setattr", "transfer", "mode", "seek"}
  BY <1>1 DEF Ready, Working, OnPath, Added, Uses, Taken, Returns, Opening, Listing, Closing,
     Transfers
<1>9. AllLive'
  <2> SUFFICES ASSUME NEW i \in DOMAIN openList' PROVE el[openList'[i]].live
    BY <1>6 DEF AllLive
  <2>1. \/ openList'[i] = c
        \/ i - 1 \in DOMAIN openList /\ openList'[i] = openList[i - 1]
    BY <1>5, Prepended
  <2> QED BY <1>4, <2>1 DEF LimitInv, AllLive
<1>11. NotThrice'
  BY <1>4, <1>5, PrependedOnce DEF LimitInv
<1>12. ASSUME NEW d \in Cells, AtMostOnce(d), d = c => Unlisted(d)
       PROVE  AtMostOnce(d)'
  BY <1>5, <1>12, PrependedOnce
<1>13. ASSUME NEW d \in Cells, Unlisted(d), d # c
       PROVE  Unlisted(d)'
  BY <1>5, <1>13, PrependedOnce
<1>14. OnceIfShut'
  <2> SUFFICES ASSUME NEW d \in Cells, el[d].fd = 0 PROVE AtMostOnce(d)'
    BY <1>6 DEF OnceIfShut
  <2>1. AtMostOnce(d)
    BY DEF LimitInv, OnceIfShut
  <2>2. d = c => Unlisted(d)
    BY <1>1, <1>2, <1>4 DEF LimitInv, Place, Adds
  <2> QED BY <1>12, <2>1, <2>2
<1>15. Place(t)'
  <2>1. th'[t].op # "remove"
    BY <1>6 DEF LimitInv, Place
  <2> QED BY <1>6, <1>7, <2>1, AsidePlace DEF Adds, Closing
<1>16. ASSUME NEW u \in Threads \ {t} PROVE Place(u)'
  <2>1. Place(u) /\ th'[u] = th[u]
    BY <1>6 DEF LimitInv
  <2>2. th[u].pc \in Adds \cup Closing => th[u].cell \in Cells \ {c}
    <3> SUFFICES ASSUME th[u].pc \in Adds \cup Closing PROVE th[u].cell \in Cells \ {c}
      OBVIOUS
    <3>1. Held(u) /\ Held(t)
      BY <1>1, AddsHeld DEF Adds
    <3>2. el[th[u].cell].id = th[u].oid /\ el[c].id = th[t].oid
      BY <1>2, <3>1, HeldCell
    <3>3. th[u].oid # th[t].oid
      BY <1>1 DEF ApartInv, Sole, Ready
    <3>4. th[u].cell \in Cells
      BY <3>1, IdleIs DEF IInv, PathInv, Held, Working, Added, Uses, Taken, Opening, Listing,
         Closing
    <3> QED BY <3>2, <3>3, <3>4
  <2>3. th[u].pc \in Adds \cup Closing =>
          /\ AtMostOnce(th[u].cell) => AtMostOnce(th[u].cell)'
          /\ Unlisted(th[u].cell) => Unlisted(th[u].cell)'
    <3> SUFFICES ASSUME th[u].pc \in Adds \cup Closing
                 PROVE  /\ AtMostOnce(th[u].cell) => AtMostOnce(th[u].cell)'
                        /\ Unlisted(th[u].cell) => Unlisted(th[u].cell)'
      OBVIOUS
    <3>1. PICK d \in Cells \ {c} : d = th[u].cell /\ d = th'[u].cell
      BY <2>1, <2>2
    <3>2. AtMostOnce(d) => AtMostOnce(d)'
      BY <1>12
    <3>3. Unlisted(d) => Unlisted(d)'
      BY <1>13
    <3>4. (AtMostOnce(d)' <=> AtMostOnce(th[u].cell)') /\ (Unlisted(d)' <=> Unlisted(th[u].cell)')
      BY <3>1 DEF AtMostOnce, Unlisted
    <3> QED BY <3>1, <3>2, <3>3, <3>4
  <2> QED BY <1>6, <2>1, <2>3 DEF Place, Closing
<1> QED BY <1>9, <1>11, <1>14, <1>15, <1>16 DEF LimitInv

\* An entry is taken off the list.
LEMMA DelistLimit ==
  ASSUME IInv, ApartInv, FdInv, LimitInv, NEW t \in Threads, Delist(t)
  PROVE  LimitInv'
<1>1. Ready(t) /\ th[t].pc = "delist" /\ openList \in Seq(Cells)
  BY AtWork DEF Delist, At, Ready, MemoryTyped
<1>2. PICK v \in Cells : v = th[t].victim /\ el[v].live
  BY <1>1, VictimMine DEF Closing
<1>3. th[t].cell = v /\ th[t].back = "again" /\ th[t].op # "remove"
  BY <1>1, <1>2 DEF LimitInv, Place, Closing
<1>4. /\ th'[t].pc = "close" /\ th'[t].op = th[t].op /\ th'[t].cell = v /\ th'[t].victim = v
      /\ th'[t].back = "again"
      /\ UNCHANGED el /\ \A u \in Threads \ {t} : th'[u] = th[u]
  BY <1>1, <1>2, <1>3 DEF Delist, Goto, Ready, Thread
<1>5. PICK same : /\ same = {i \in DOMAIN openList : el[openList[i]] = el[v]}
                  /\ openList' = IF same = {} THEN openList ELSE RemoveAt(openList, Min(same))
  BY <1>2 DEF Delist
<1>6. /\ AllLive' /\ NotThrice' /\ AtMostOnce(v)'
      /\ \A d : (AtMostOnce(d) => AtMostOnce(d)') /\ (Unlisted(d) => Unlisted(d)')
  BY <1>1, <1>2, <1>4, <1>5, Removed DEF LimitInv, ApartInv
<1>14. OnceIfShut'
  BY <1>4, <1>6 DEF LimitInv, OnceIfShut
<1>15. Place(t)'
  <2>1. PICK c \in Cells : c = v /\ c = th'[t].cell
    BY <1>4
  <2>2. AtMostOnce(c)' <=> AtMostOnce(th[t].cell)'
    BY <2>1 DEF AtMostOnce
  <2>3. AtMostOnce(th[t].cell)'
    BY <1>6, <2>1, <2>2
  <2> QED BY <1>3, <1>4, <2>3 DEF Place, Adds
<1>16. ASSUME NEW u \in Threads \ {t} PROVE Place(u)'
  <2>1. Place(u) /\ th'[u] = th[u]
    BY <1>4 DEF LimitInv
  <2>2. /\ AtMostOnce(th[u].cell) => AtMostOnce(th[u].cell)'
        /\ Unlisted(th[u].cell) => Unlisted(th[u].cell)'
    <3>1. PICK d : d = th[u].cell /\ d = th'[u].cell
      BY <2>1
    <3>2. (AtMostOnce(d)' <=> AtMostOnce(th[u].cell)') /\ (Unlisted(d)' <=> Unlisted(th[u].cell)')
      BY <3>1 DEF AtMostOnce, Unlisted
    <3> QED BY <1>6, <3>1, <3>2
  <2> QED BY <1>4, <2>1, <2>2 DEF Place
<1> QED BY <1>6, <1>14, <1>15, <1>16 DEF LimitInv

\* The list has room for an element that is not in it twice.
LEMMA TwiceAll ==
  ASSUME IInv, ApartInv, LimitInv, NEW c \in Cells, el[c].live, AtMostOnce(c)
  PROVE  Len(openList) < 2 * NumOids
<1>1. Len(openList) \in Nat /\ DOMAIN openList = 1 .. Len(openList)
  BY DEF IInv, TypeOK
<1>2. PICK N \in Nat \ {0} : N = NumOids /\ Oids = 1 .. N
  BY StoreAssumption DEF Oids
<1>3. \A i \in DOMAIN openList :
        openList[i] \in Cells /\ el[openList[i]].live /\ el[openList[i]].id \in 1 .. N
  <2> SUFFICES ASSUME NEW i \in DOMAIN openList
               PROVE  openList[i] \in Cells /\ el[openList[i]].live /\ el[openList[i]].id \in 1 .. N
    OBVIOUS
  <2>1. openList[i] \in Cells
    BY ElementOfSeq DEF IInv, TypeOK
  <2> QED BY <1>2, <2>1 DEF LimitInv, AllLive, ApartInv, Owned
<1>4. el[c].id \in 1 .. N
  BY <1>2 DEF ApartInv, Owned
<1> DEFINE Again(i) == \E j \in DOMAIN openList : j < i /\ openList[j] = openList[i]
           f == [i \in DOMAIN openList |->
                  IF Again(i) THEN el[openList[i]].id + N ELSE el[openList[i]].id]
<1>5. PICK rest : rest = (1 .. 2 * N) \ {el[c].id + N}
  OBVIOUS
<1>6. IsFiniteSet(rest) /\ Cardinality(rest) = 2 * N - 1
  <2>1. PICK M \in Nat : M = 2 * N
    BY <1>2
  <2>2. PICK all : all = 1 .. M
    OBVIOUS
  <2>3. IsFiniteSet(all) /\ Cardinality(all) = M
    BY <2>2, FS_Interval
  <2>4. el[c].id + N \in all
    BY <1>4, <2>1, <2>2
  <2>5. PICK x \in all : x = el[c].id + N
    BY <2>4
  <2>6. IsFiniteSet(all \ {x}) /\ Cardinality(all \ {x}) = M - 1
    BY <2>3, FS_RemoveElement
  <2>7. rest = all \ {x}
    BY <1>5, <2>1, <2>2, <2>5
  <2> QED BY <2>1, <2>6, <2>7
<1>7. IsFiniteSet(DOMAIN openList) /\ Cardinality(DOMAIN openList) = Len(openList)
  <2>1. PICK n \in Nat : n = Len(openList)
    BY <1>1
  <2>2. IsFiniteSet(1 .. n) /\ Cardinality(1 .. n) = n
    BY FS_Interval
  <2> QED BY <1>1, <2>1, <2>2
<1>8. ASSUME NEW i \in DOMAIN openList PROVE f[i] \in rest
  <2>1. f[i] \in 1 .. 2 * N
    BY <1>3
  <2>2. f[i] # el[c].id + N
    <3> SUFFICES ASSUME f[i] = el[c].id + N PROVE FALSE
      OBVIOUS
    <3>1. Again(i) /\ el[openList[i]].id = el[c].id
      BY <1>3, <1>4
    <3>2. openList[i] = c
      BY <1>3, <3>1 DEF ApartInv, Once
    <3>3. PICK j \in DOMAIN openList : j < i /\ openList[j] = c
      BY <3>1, <3>2
    <3>4. i = j
      BY <3>2, <3>3 DEF AtMostOnce
    <3> QED BY <1>1, <3>3, <3>4
  <2> QED BY <1>5, <2>1, <2>2
<1>9. ASSUME NEW i \in DOMAIN openList, NEW j \in DOMAIN openList, i < j PROVE f[i] # f[j]
  <2> SUFFICES ASSUME f[i] = f[j] PROVE FALSE
    OBVIOUS
  <2>1. (Again(i) <=> Again(j)) /\ el[openList[i]].id = el[openList[j]].id
    BY <1>3
  <2>2. openList[i] = openList[j]
    BY <1>3, <2>1 DEF ApartInv, Once
  <2>3. Again(j)
    BY <1>9, <2>2
  <2>4. PICK k \in DOMAIN openList : k < i /\ openList[k] = openList[i]
    BY <2>1, <2>3
  <2>5. k = i \/ i = j \/ k = j
    BY <2>2, <2>4 DEF LimitInv, NotThrice
  <2> QED BY <1>1, <1>9, <2>4, <2>5
<1> HIDE DEF f
<1>10. \A i, j \in DOMAIN openList : i # j => f[i] # f[j]
  BY <1>1, <1>9
<1>11. f \in [DOMAIN openList -> rest]
  BY <1>8 DEF f
<1>12. ~(Cardinality(rest) < Cardinality(DOMAIN openList))
  BY <1>6, <1>7, <1>10, <1>11, FS_PigeonHole
<1> QED BY <1>1, <1>2, <1>6, <1>7, <1>12

LEMMA CountOpenLimit ==
  ASSUME IInv, ApartInv, LimitInv, MAX_OPEN_FILES >= 2 * NumOids, NEW t \in Threads, CountOpen(t)
  PROVE  LimitInv'
<1>1. Ready(t) /\ th[t].pc = "count"
  BY AtWork DEF CountOpen, At
<1>2. th[t].cell \in Cells
  BY <1>1 DEF Ready, Working, OnPath, Uses, Added, Taken, Opening, Listing, Closing
<1>3. el[th[t].cell].live /\ AtMostOnce(th[t].cell)
  BY <1>1, AddsHeld, HeldCell DEF LimitInv, Place, Adds
<1>4. Len(openList) < 2 * NumOids
  BY <1>2, <1>3, TwiceAll
<1>5. Len(openList) < MAX_OPEN_FILES
  BY <1>1, <1>4, StoreAssumption DEF Ready, MemoryTyped
<1>6. /\ UNCHANGED <<el, openList>>
      /\ th'[t].pc = "unshift" /\ th'[t].op = th[t].op /\ th'[t].cell = th[t].cell
      /\ \A u \in Threads \ {t} : th'[u] = th[u]
  BY <1>1, <1>5 DEF CountOpen, Goto, Ready, Thread, memory
<1>7. Place(t)'
  <2>1. /\ AtMostOnce(th[t].cell)' /\ (th[t].op = "create" => Unlisted(th[t].cell)')
        /\ th[t].op # "create" => el[th[t].cell].fd # 0
        /\ th[t].op # "remove"
    <3>1. /\ AtMostOnce(th[t].cell) /\ (th[t].op = "create" => Unlisted(th[t].cell))
          /\ th[t].op # "create" => el[th[t].cell].fd # 0
          /\ th[t].op # "remove"
      BY <1>1 DEF LimitInv, Place, Adds
    <3> QED BY <1>6, <3>1 DEF AtMostOnce, Unlisted
  <2> QED BY <1>6, <2>1 DEF Place, Adds, Closing
<1> QED BY <1>6, <1>7, QuietLimit

\* At the start, and when the server is gone.
Empty == openList = <<>> /\ \A t \in Threads : th[t] = Idle

LEMMA EmptyLimit == Empty => LimitInv
<1> SUFFICES ASSUME Empty PROVE LimitInv
  OBVIOUS
<1>1. DOMAIN openList = {}
  BY DEF Empty
<1>2. AllLive /\ NotThrice /\ OnceIfShut
  BY <1>1 DEF AllLive, NotThrice, OnceIfShut, AtMostOnce
<1>3. \A t \in Threads : Place(t)
  BY DEF Empty, Place, Idle, Adds, Closing
<1> QED BY <1>2, <1>3 DEF LimitInv

LEMMA DownLimit ==
  ASSUME Down
  PROVE  LimitInv'
<1>1. Empty'
  BY DEF Down, Empty
<1> QED BY <1>1, EmptyLimit, PTL

LEMMA RestartLimit ==
  ASSUME ApartInv, Restart
  PROVE  LimitInv'
<1>1. Empty'
  BY DEF Restart, ApartInv, WhenDown, Empty
<1> QED BY <1>1, EmptyLimit, PTL

LEMMA StutterLimit ==
  ASSUME LimitInv, UNCHANGED vars
  PROVE  LimitInv'
BY DEF LimitInv, AllLive, NotThrice, OnceIfShut, AtMostOnce, Unlisted, Place, vars, memory

\* Nothing is removed, and no file is closed for another.
LEMMA NeverThere ==
  ASSUME IInv, LimitInv, NEW t \in Threads
  PROVE  ~(Evict(t) \/ HashRemove(t) \/ CheckClosed(t) \/ FreeElement(t) \/ Unlink(t) \/ RemoveAttrs(t))
<1> SUFFICES ASSUME th[t].pc \in {"hash", "checkClosed", "free", "unlink", "rmattrs"} PROVE FALSE
  BY DEF Evict, HashRemove, CheckClosed, FreeElement, Unlink, RemoveAttrs, At, LimitInv, Place
<1>1. th[t].op = "remove"
  BY IdleIs DEF IInv, PathInv, Working, OnPath, Added, Uses, Taken, Opening, Listing, Closing
<1> QED BY <1>1 DEF LimitInv, Place

LEMMA StepLimit ==
  ASSUME IInv, ApartInv, FdInv, LimitInv, MAX_OPEN_FILES >= 2 * NumOids, NEW t \in Threads, Step(t)
  PROVE  LimitInv'
<1>1. CASE Segfault
  BY <1>1, DownLimit DEF Segfault
<1>2. CASE Exists(t) \/ Access(t) \/ Creat(t) \/ AddOid(t) \/ SetAttr(t)
  BY <1>2, ExistsLimit, AccessLimit, CreatLimit, AddOidLimit, SetAttrLimit
<1>3. CASE ~Segfault /\ (FindOid(t) \/ CheckFd(t) \/ OpenFile(t) \/ OpenFails(t) \/ SetMode(t))
  BY <1>3, FindOidLimit, CheckFdLimit, OpenFileLimit, OpenFailsLimit, SetModeLimit
<1>4. CASE CheckMode(t) \/ CheckAgain(t) \/ CountOpen(t) \/ Delist(t)
  BY <1>4, CheckModeLimit, CheckAgainLimit, CountOpenLimit, DelistLimit
<1>5. CASE Close(t) \/ ClearFd(t) \/ ClearMode(t) \/ Unshift(t) \/ Seek(t) \/ Transfer(t)
  BY <1>5, CloseLimit, ClearFdLimit, ClearModeLimit, UnshiftLimit, SeekLimit, TransferLimit
<1> QED BY <1>1, <1>2, <1>3, <1>4, <1>5, NeverThere DEF Step

LEMMA NextLimit ==
  ASSUME IInv, ApartInv, FdInv, LimitInv, MAX_OPEN_FILES >= 2 * NumOids, "remove" \notin Ops, [Next]_vars
  PROVE  LimitInv'
<1>1. CASE \E t \in Threads : Step(t)
  BY <1>1, StepLimit
<1>2. CASE \E t \in Threads, op \in Ops, o \in Oids, off \in Offsets : Start(t, op, o, off)
  BY <1>2, StartLimit
<1>3. CASE Crash
  BY <1>3, DownLimit DEF Crash
<1>4. CASE Restart
  BY <1>4, RestartLimit
<1>5. CASE UNCHANGED vars
  BY <1>5, StutterLimit
<1> QED BY <1>1, <1>2, <1>3, <1>4, <1>5 DEF Next, Finished

\* What NextFd needs, that no file is closed for another, follows from LimitInv.
LEMMA LimitKept ==
  ASSUME Apart, "remove" \notin Ops, MAX_OPEN_FILES >= 2 * NumOids
  PROVE  Spec => [](FdInv /\ LimitInv)
<1> DEFINE Inv == IInv /\ ApartInv /\ FdInv /\ LimitInv
<1>1. Init => Inv
  BY InitTypes, InitApart, InitFd, EmptyLimit DEF Init, Empty
<1>2. Inv => NoEviction
  BY DEF LimitInv, Place, NoEviction, At
<1>3. Inv /\ [Next]_vars => Inv'
  BY <1>2, NextTypes, NextApart, NextFd, NextLimit
<1> QED BY <1>1, <1>3, PTL DEF Spec

(***************************************************************************)
(* add_to_open_files closes no file for another, and a transfer reaches    *)
(* its object's file at its offset with any number of threads, as long as  *)
(* operations on one object do not overlap, objects are not removed and    *)
(* MAX_OPEN_FILES, 1014 in the code, is at least twice their number: an    *)
(* element is in the list twice at most, from its creation and from its    *)
(* first access.                                                           *)
(***************************************************************************)
THEOREM StoreWithinLimit ==
  ASSUME Apart, "remove" \notin Ops, MAX_OPEN_FILES >= 2 * NumOids
  PROVE  Spec => []NoEviction /\ []TransfersHitTheirPlace
<1>1. FdInv /\ LimitInv => NoEviction
  BY DEF LimitInv, Place, NoEviction, At
<1> QED BY <1>1, LimitKept, StoreTransfersHit, PTL
-----------------------------------------------------------------------------
(* With one thread a file may be closed for another one, or to make room for itself;  *)
(* sysio_obj_read and _write then open it again, and it is not the last of the list.  *)

\* add_to_open_files closes a file, or adds one.
Evicting(t)  == th[t].pc \in Closing /\ th[t].back = "unshift"
Enlisting(t) == th[t].pc \in Adds \cup {"evict"} \/ Evicting(t)

\* A file that open_oid opened is open in the right mode.
ModeSet == \A c \in Cells : el[c].live /\ el[c].fd \in Fds /\ ~el[c].mode =>
             \E t \in Threads : At(t, "setMode") /\ th[t].cell = c

\* Where an element is in the list, and whether its file is open.
Solo(t) ==
  LET pc == th[t].pc
      c  == th[t].cell
      fd == el[c].fd
  IN  /\ Enlisting(t) => AtMostOnce(c) /\ (th[t].op = "create" => Unlisted(c))
      /\ Enlisting(t) /\ th[t].op # "create" => fd # 0 \/ Unlisted(c)
      /\ pc \in {"close", "clearFd"} => AtMostOnce(th[t].victim)
      /\ Evicting(t) /\ th[t].victim = c => pc = "delist" \/ Unlisted(c)
      /\ pc = "evict" => Len(openList) = MAX_OPEN_FILES
      /\ pc = "initMode" => fd = 0
      /\ pc \in {"openOid", "open"} => th[t].next # "seek"
      /\ pc \in {"mode", "again", "reopen"} => fd # 0 \/ Foremost(c)
      /\ th[t].next = "seek" /\ pc \in {"setMode", "count", "evict"} => Foremost(c)
      /\ th[t].next = "seek" /\ Enlisting(t) => fd # 0
      /\ th[t].next = "seek" /\ Evicting(t) => th[t].victim # c
      /\ pc \in Closing /\ th[t].back = "again" =>
           th[t].victim = c /\ fd \notin Fds /\ fd # 0 /\ pc \in {"delist", "close"}
      /\ pc = "seek" \/ (pc = "transfer" /\ th[t].op \in {"read", "write"}) => fd # 0

SoloInv == NotThrice /\ OnceIfShut /\ ModeSet /\ \A t \in Threads : Solo(t)

\* Steps that leave the list alone.
LEMMA SameSolo ==
  ASSUME OneThread, SoloInv, NEW t \in Threads, UNCHANGED openList,
         \A c \in Cells : el'[c].fd = 0 => el[c].fd = 0 \/ AtMostOnce(c), ModeSet', Solo(t)'
  PROVE  SoloInv'
<1>1. \A c : AtMostOnce(c)' <=> AtMostOnce(c)
  BY DEF AtMostOnce
<1>2. NotThrice' /\ OnceIfShut'
  BY <1>1 DEF SoloInv, NotThrice, OnceIfShut
<1>3. ASSUME NEW u \in Threads PROVE Solo(u)'
  <2>1. u = t
    BY DEF OneThread
  <2> QED BY <2>1
<1> QED BY <1>2, <1>3 DEF SoloInv

\* Steps that leave the elements alone as well.
LEMMA QuietSolo ==
  ASSUME OneThread, SoloInv, NEW t \in Threads, UNCHANGED <<el, openList>>, th[t].pc # "setMode",
         Solo(t)'
  PROVE  SoloInv'
<1>1. ModeSet'
  BY DEF SoloInv, ModeSet, At, OneThread
<1> QED BY <1>1, SameSolo

\* An element has the places it had.
LEMMA SamePlaces ==
  ASSUME NEW t \in Threads, UNCHANGED openList, th'[t].cell = th[t].cell
  PROVE  /\ AtMostOnce(th[t].cell)' <=> AtMostOnce(th[t].cell)
         /\ Unlisted(th[t].cell)' <=> Unlisted(th[t].cell)
         /\ Foremost(th[t].cell)' <=> Foremost(th[t].cell)
         /\ th'[t].victim = th[t].victim =>
              (AtMostOnce(th[t].victim)' <=> AtMostOnce(th[t].victim))
BY DEF AtMostOnce, Unlisted, Foremost

LEMMA UnlistedIs ==
  ASSUME NEW c, Unlisted(c)
  PROVE  AtMostOnce(c) /\ Foremost(c)
BY DEF Unlisted, AtMostOnce, Foremost

\* Where nothing is listed, closed or used.
LEMMA AsideSolo ==
  ASSUME NEW t \in Threads,
         th'[t].pc \in {"idle", "hash", "find", "creat", "addOid", "setattr"}
  PROVE  Solo(t)'
BY DEF Solo, Evicting, Enlisting, Closing, Adds

LEMMA RestSolo ==
  ASSUME IInv, OneThread, SoloInv, NEW t \in Threads,
         Exists(t) \/ Access(t) \/ Creat(t) \/ SetAttr(t) \/ Transfer(t)
  PROVE  SoloInv'
<1>1. Ready(t) /\ th[t].pc # "setMode"
  BY AtWork DEF Exists, Access, Creat, SetAttr, Transfer, At
<1>2. UNCHANGED <<openList, el>>
  BY DEF Exists, Access, Creat, SetAttr, Transfer, memory
<1>3. th'[t].pc \in {"idle", "hash", "find", "creat", "addOid"}
  <2>1. CASE Exists(t)
    BY <1>1, <2>1, IdleIs DEF Exists, Ready, Goto, Return, Thread
  <2>2. CASE Access(t) \/ Creat(t) \/ SetAttr(t) \/ Transfer(t)
    <3>1. Return(t) \/ Goto(t, "creat") \/ Goto(t, "addOid")
      BY <2>2 DEF Access, Creat, SetAttr, Transfer
    <3> QED BY <1>1, <3>1, IdleIs DEF Ready, Goto, Return, Thread
  <2> QED BY <2>1, <2>2
<1> QED BY <1>1, <1>2, <1>3, AsideSolo, QuietSolo

LEMMA FindOidSolo ==
  ASSUME IInv, OneThread, SoloInv, NEW t \in Threads, FindOid(t), ~Segfault
  PROVE  SoloInv'
<1>1. Ready(t) /\ th[t].pc # "setMode"
  BY AtWork DEF FindOid, At
<1>2. UNCHANGED <<openList, el>>
  BY DEF FindOid, OpenOidFails, memory
<1>3. CASE Return(t)
  <2>1. th'[t].pc = "idle"
    BY <1>1, <1>3, ReturnIs, IdleIs DEF Ready
  <2> QED BY <1>1, <1>2, <2>1, AsideSolo, QuietSolo
<1>4. CASE ~Return(t)
  <2>1. PICK c, n : n # "seek" /\ th' = [th EXCEPT ![t].pc = "openOid", ![t].cell = c,
                                                  ![t].next = n]
    BY <1>4 DEF FindOid, OpenOidFails
  <2>2. th'[t].pc = "openOid" /\ th'[t].next # "seek"
    BY <1>1, <2>1 DEF Ready, Thread
  <2>3. Solo(t)'
    BY <2>2 DEF Solo, Evicting, Enlisting, Closing, Adds
  <2> QED BY <1>1, <1>2, <2>3, QuietSolo
<1> QED BY <1>3, <1>4

LEMMA CheckFdSolo ==
  ASSUME IInv, OneThread, SoloInv, NEW t \in Threads, CheckFd(t)
  PROVE  SoloInv'
<1>1. Ready(t) /\ th[t].pc = "openOid"
  BY AtWork DEF CheckFd, At
<1>2. UNCHANGED <<openList, el>>
  BY DEF CheckFd, memory
<1>3. /\ th'[t].pc = (IF el[th[t].cell].fd = 0 THEN "open" ELSE th[t].next)
      /\ th'[t].cell = th[t].cell /\ th'[t].next = th[t].next
  BY <1>1 DEF CheckFd, Goto, Ready, Thread
<1>4. th[t].next # "seek" /\ th[t].next \in {"mode", "transfer", "seek"}
  BY <1>1 DEF SoloInv, Solo, Ready, Working, OnPath, Added, Uses, Taken, Returns, Opening, Listing,
     Closing, Transfers
<1>5. Solo(t)'
  BY <1>2, <1>3, <1>4 DEF Solo, Evicting, Enlisting, Closing, Adds
<1> QED BY <1>1, <1>2, <1>5, QuietSolo

\* An element whose file is open is open in the right mode, or its file failed to open.
LEMMA CheckModeSolo ==
  ASSUME IInv, ApartInv, OneThread, SoloInv, NEW t \in Threads, CheckMode(t)
  PROVE  SoloInv'
<1>1. Ready(t) /\ th[t].pc = "mode"
  BY AtWork DEF CheckMode, At
<1>2. UNCHANGED <<openList, el>>
  BY DEF CheckMode, memory
<1>3. PICK c \in Cells : c = th[t].cell /\ el[c].live
  <2>1. Held(t) /\ th[t].cell \in Cells
    BY <1>1 DEF Ready, Working, OnPath, Held, Uses, Added, Taken, Opening, Listing, Closing
  <2> QED BY <2>1, HeldCell
<1>4. CASE Goto(t, "again")
  <2>1. th'[t].pc = "again" /\ th'[t].cell = th[t].cell
    BY <1>1, <1>4 DEF Goto, Ready, Thread
  <2>2. el[th[t].cell].fd # 0 \/ Foremost(th[t].cell)
    BY <1>1 DEF SoloInv, Solo
  <2>3. Foremost(th[t].cell) => Foremost(th[t].cell)'
    BY <1>2, <2>1, SamePlaces
  <2>4. Solo(t)'
    BY <1>2, <2>1, <2>2, <2>3 DEF Solo, Evicting, Enlisting, Closing, Adds
  <2> QED BY <1>1, <1>2, <2>4, QuietSolo
<1>5. CASE ~Goto(t, "again")
  <2>1. /\ th' = [th EXCEPT ![t].pc = "delist", ![t].victim = th[t].cell, ![t].back = "again"]
        /\ el[c].fd # 0 /\ ~el[c].mode
    BY <1>3, <1>5 DEF CheckMode
  <2>2. /\ th'[t].pc = "delist" /\ th'[t].cell = c /\ th'[t].victim = c /\ th'[t].back = "again"
    BY <1>1, <1>3, <2>1 DEF Ready, Thread
  <2>3. el[c].fd \notin Fds
    BY <1>1, <1>3, <2>1 DEF SoloInv, ModeSet, At, OneThread
  <2>4. Solo(t)'
    BY <1>2, <2>1, <2>2, <2>3 DEF Solo, Evicting, Enlisting, Closing, Adds
  <2> QED BY <1>1, <1>2, <2>4, QuietSolo
<1> QED BY <1>4, <1>5

LEMMA CheckAgainSolo ==
  ASSUME IInv, OneThread, SoloInv, NEW t \in Threads, CheckAgain(t)
  PROVE  SoloInv'
<1>1. Ready(t) /\ th[t].pc = "again"
  BY AtWork DEF CheckAgain, At
<1>2. UNCHANGED <<openList, el>>
  BY DEF CheckAgain, memory
<1>3. /\ th'[t].pc = (IF el[th[t].cell].fd = 0 THEN "reopen" ELSE "seek")
      /\ th'[t].cell = th[t].cell
  BY <1>1 DEF CheckAgain, Goto, Ready, Thread
<1>4. el[th[t].cell].fd # 0 \/ Foremost(th[t].cell)
  BY <1>1 DEF SoloInv, Solo
<1>5. Foremost(th[t].cell) => Foremost(th[t].cell)'
  BY <1>2, <1>3, SamePlaces
<1>6. Solo(t)'
  BY <1>2, <1>3, <1>4, <1>5 DEF Solo, Evicting, Enlisting, Closing, Adds
<1> QED BY <1>1, <1>2, <1>6, QuietSolo

LEMMA SeekSolo ==
  ASSUME IInv, OneThread, SoloInv, NEW t \in Threads, Seek(t)
  PROVE  SoloInv'
<1>1. Ready(t) /\ th[t].pc = "seek"
  BY AtWork DEF Seek, At
<1>2. UNCHANGED <<openList, el>>
  BY DEF Seek
<1>3. Return(t) \/ Goto(t, "transfer")
  BY DEF Seek
<1>4. CASE Return(t)
  <2>1. th'[t].pc = "idle"
    BY <1>1, <1>4, ReturnIs, IdleIs DEF Ready
  <2> QED BY <1>1, <1>2, <2>1, AsideSolo, QuietSolo
<1>5. CASE Goto(t, "transfer")
  <2>1. th'[t].pc = "transfer" /\ th'[t].cell = th[t].cell
    BY <1>1, <1>5 DEF Goto, Ready, Thread
  <2>2. el[th[t].cell].fd # 0
    BY <1>1 DEF SoloInv, Solo
  <2>3. Solo(t)'
    BY <1>2, <2>1, <2>2 DEF Solo, Evicting, Enlisting, Closing, Adds
  <2> QED BY <1>1, <1>2, <2>3, QuietSolo
<1> QED BY <1>3, <1>4, <1>5

LEMMA CountOpenSolo ==
  ASSUME IInv, OneThread, SoloInv, NEW t \in Threads, CountOpen(t)
  PROVE  SoloInv'
<1>1. Ready(t) /\ th[t].pc = "count"
  BY AtWork DEF CountOpen, At
<1>2. UNCHANGED <<openList, el>>
  BY DEF CountOpen, memory
<1>3. /\ th'[t].pc \in {"unshift", "evict", th[t].next}
      /\ th'[t].pc = "evict" => Len(openList) = MAX_OPEN_FILES
      /\ th'[t].cell = th[t].cell /\ th'[t].op = th[t].op /\ th'[t].next = th[t].next
  <2>1. PICK pc : /\ Goto(t, pc) /\ pc \in {"unshift", "evict", th[t].next}
                  /\ pc = "evict" => Len(openList) = MAX_OPEN_FILES \/ th[t].next = "evict"
    BY DEF CountOpen
  <2>2. th[t].next # "evict"
    BY <1>1 DEF Ready, Working, OnPath, Added, Uses, Taken, Returns, Opening, Listing, Closing,
       Transfers
  <2> QED BY <1>1, <2>1, <2>2 DEF Goto, Ready, Thread
<1>4. /\ th[t].next \in {"setattr", "transfer", "mode", "seek"}
      /\ th[t].next = "setattr" <=> th[t].op = "create"
      /\ th[t].next = "transfer" => th[t].op \notin {"read", "write"}
  BY <1>1 DEF Ready, Working, OnPath, Added, Uses, Taken, Returns, Opening, Listing, Closing,
     Transfers
<1>5. /\ AtMostOnce(th[t].cell) /\ (th[t].op = "create" => Unlisted(th[t].cell))
      /\ th[t].op # "create" => el[th[t].cell].fd # 0 \/ Unlisted(th[t].cell)
      /\ th[t].next = "seek" => Foremost(th[t].cell) /\ el[th[t].cell].fd # 0
  BY <1>1 DEF SoloInv, Solo, Enlisting, Adds
<1>6. /\ AtMostOnce(th[t].cell)' /\ (th[t].op = "create" => Unlisted(th[t].cell)')
      /\ th[t].op # "create" => el[th[t].cell].fd # 0 \/ Unlisted(th[t].cell)'
      /\ th[t].next = "seek" => Foremost(th[t].cell)'
      /\ th[t].op # "create" => el[th[t].cell].fd # 0 \/ Foremost(th[t].cell)'
  BY <1>2, <1>3, <1>5, SamePlaces, UnlistedIs
<1>7. Solo(t)'
  <2>1. CASE th'[t].pc \in {"unshift", "evict"}
    BY <1>2, <1>3, <1>5, <1>6, <2>1 DEF Solo, Evicting, Enlisting, Closing, Adds
  <2>2. CASE th'[t].pc = th[t].next
    BY <1>2, <1>3, <1>4, <1>5, <1>6, <2>2 DEF Solo, Evicting, Enlisting, Closing, Adds
  <2> QED BY <1>3, <2>1, <2>2
<1> QED BY <1>1, <1>2, <1>7, QuietSolo

\* The last of the list is not the first.
LEMMA EvictSolo ==
  ASSUME IInv, OneThread, SoloInv, MAX_OPEN_FILES >= 2, NEW t \in Threads, Evict(t), ~Segfault
  PROVE  SoloInv'
<1>1. Ready(t) /\ th[t].pc = "evict"
  BY AtWork DEF Evict, At
<1>2. UNCHANGED <<openList, el>>
  BY DEF Evict, memory
<1>3. /\ openList \in Seq(Cells)
      /\ th' = [th EXCEPT ![t].pc = "delist", ![t].victim = Last(openList), ![t].back = "unshift"]
  BY <1>1 DEF Evict, Ready, MemoryTyped
<1>4. /\ th'[t].pc = "delist" /\ th'[t].victim = Last(openList) /\ th'[t].back = "unshift"
      /\ th'[t].cell = th[t].cell /\ th'[t].op = th[t].op /\ th'[t].next = th[t].next
  BY <1>1, <1>3 DEF Ready, Thread
<1>5. /\ AtMostOnce(th[t].cell) /\ (th[t].op = "create" => Unlisted(th[t].cell))
      /\ th[t].op # "create" => el[th[t].cell].fd # 0 \/ Unlisted(th[t].cell)
      /\ th[t].next = "seek" => Foremost(th[t].cell) /\ el[th[t].cell].fd # 0
      /\ Len(openList) = MAX_OPEN_FILES
  BY <1>1 DEF SoloInv, Solo, Enlisting, Adds
<1>6. th[t].next = "seek" => Last(openList) # th[t].cell
  <2>1. Len(openList) \in DOMAIN openList /\ Len(openList) # 1
    BY <1>3, <1>5, LenProperties, StoreAssumption
  <2>2. Last(openList) = openList[Len(openList)]
    BY DEF Last
  <2> QED BY <1>5, <2>1, <2>2 DEF Foremost
<1>7. /\ AtMostOnce(th[t].cell)' /\ (th[t].op = "create" => Unlisted(th[t].cell)')
      /\ th[t].op # "create" => el[th[t].cell].fd # 0 \/ Unlisted(th[t].cell)'
  BY <1>2, <1>4, <1>5, SamePlaces
<1>8. Solo(t)'
  BY <1>2, <1>4, <1>5, <1>6, <1>7 DEF Solo, Evicting, Enlisting, Closing, Adds
<1> QED BY <1>1, <1>2, <1>8, QuietSolo

\* Without removals a file is closed for another one, or because of its mode.
LEMMA BackIs ==
  ASSUME FdInv, Alone, NEW t \in Threads, Ready(t), th[t].pc \in Closing
  PROVE  th[t].back \in {"again", "unshift"} /\ th[t].op # "remove"
<1>1. th[t].op # "remove"
  BY DEF FdInv, Safe
<1> QED BY <1>1 DEF Ready, Working, ReturnsFromClose, OnPath, Added, Uses, Taken, Transfers

LEMMA CloseSolo ==
  ASSUME IInv, FdInv, Alone, SoloInv, NEW t \in Threads, Close(t)
  PROVE  SoloInv'
<1>1. Ready(t) /\ th[t].pc = "close" /\ OneThread
  BY AtWork DEF Close, At, Alone
<1>2. UNCHANGED <<openList, el>>
  BY DEF Close
<1>3. /\ th'[t].pc \in {"clearFd", th[t].back}
      /\ th'[t].pc = "clearFd" => IsOpen(el[th[t].victim].fd)
      /\ th'[t].cell = th[t].cell /\ th'[t].op = th[t].op /\ th'[t].next = th[t].next
      /\ th'[t].victim = th[t].victim /\ th'[t].back = th[t].back
  <2>1. \/ Goto(t, "clearFd") /\ IsOpen(el[th[t].victim].fd)
        \/ Goto(t, th[t].back)
    BY DEF Close
  <2>2. th[t].back # "clearFd"
    BY <1>1, BackIs DEF Closing
  <2> QED BY <1>1, <2>1, <2>2 DEF Goto, Ready, Thread
<1>4. AtMostOnce(th[t].victim)'
  BY <1>1, <1>2, <1>3, SamePlaces DEF SoloInv, Solo
<1>5. CASE th[t].back = "again"
  <2>1. th[t].victim = th[t].cell /\ el[th[t].cell].fd \notin Fds /\ el[th[t].cell].fd # 0
    BY <1>1, <1>5 DEF SoloInv, Solo, Closing
  <2>2. th'[t].pc = "again"
    BY <1>3, <1>5, <2>1 DEF IsOpen
  <2>3. Solo(t)'
    BY <1>2, <1>3, <1>5, <2>1, <2>2 DEF Solo, Evicting, Enlisting, Closing, Adds
  <2> QED BY <1>1, <1>2, <2>3, QuietSolo
<1>6. CASE th[t].back = "unshift"
  <2>1. Evicting(t) /\ Enlisting(t)
    BY <1>1, <1>6 DEF Evicting, Enlisting, Closing
  <2>2. /\ AtMostOnce(th[t].cell) /\ (th[t].op = "create" => Unlisted(th[t].cell))
        /\ th[t].op # "create" => el[th[t].cell].fd # 0 \/ Unlisted(th[t].cell)
        /\ th[t].next = "seek" => el[th[t].cell].fd # 0 /\ th[t].victim # th[t].cell
        /\ th[t].victim = th[t].cell => Unlisted(th[t].cell)
    BY <1>1, <2>1 DEF SoloInv, Solo
  <2>3. /\ AtMostOnce(th[t].cell)' /\ (th[t].op = "create" => Unlisted(th[t].cell)')
        /\ th[t].op # "create" => el[th[t].cell].fd # 0 \/ Unlisted(th[t].cell)'
        /\ th[t].victim = th[t].cell => Unlisted(th[t].cell)'
    BY <1>2, <1>3, <2>2, SamePlaces
  <2>4. Solo(t)'
    <3>1. th'[t].pc \in {"clearFd", "unshift"}
      BY <1>3, <1>6
    <3> QED BY <1>2, <1>3, <1>4, <1>6, <2>2, <2>3, <3>1 DEF Solo, Evicting, Enlisting, Closing, Adds
  <2> QED BY <1>1, <1>2, <2>4, QuietSolo
<1> QED BY <1>1, <1>5, <1>6, BackIs DEF Closing

LEMMA UnshiftSolo ==
  ASSUME IInv, FdInv, Alone, SoloInv, NEW t \in Threads, Unshift(t)
  PROVE  SoloInv'
<1>1. Ready(t) /\ th[t].pc = "unshift" /\ openList \in Seq(Cells) /\ OneThread
  BY AtWork DEF Unshift, At, Ready, MemoryTyped, Alone
<1>2. PICK c \in Cells : c = th[t].cell
  BY <1>1 DEF Ready, Working, OnPath, Uses, Added, Taken, Opening, Listing, Closing
<1>3. openList' = <<c>> \o openList /\ UNCHANGED el
  BY <1>2 DEF Unshift
<1>4. th'[t].pc = th[t].next /\ th'[t].cell = c
  BY <1>1, <1>2 DEF Unshift, Goto, Ready, Thread
<1>5. /\ th[t].next \in {"setattr", "transfer", "mode", "seek"}
      /\ th[t].next = "setattr" <=> th[t].op = "create"
      /\ th[t].next = "transfer" => th[t].op \notin {"read", "write"}
      /\ th'[t].op = th[t].op
  BY <1>1 DEF Unshift, Goto, Thread, Ready, Working, OnPath, Added, Uses, Taken, Returns, Opening,
     Listing, Closing, Transfers
<1>6. /\ AtMostOnce(c) /\ (th[t].op = "create" => Unlisted(c))
      /\ th[t].op # "create" => el[c].fd # 0 \/ Unlisted(c)
      /\ th[t].next = "seek" => el[c].fd # 0
  BY <1>1, <1>2 DEF SoloInv, Solo, Enlisting, Adds
<1>7. /\ NotThrice' /\ (Unlisted(c) => Foremost(c)')
      /\ \A d : AtMostOnce(d) /\ (d = c => Unlisted(d)) => AtMostOnce(d)'
  BY <1>1, <1>3, <1>6, PrependedOnce DEF SoloInv
<1>8. OnceIfShut'
  BY <1>3, <1>6, <1>7 DEF SoloInv, OnceIfShut
<1>9. ModeSet'
  BY <1>1, <1>3 DEF SoloInv, ModeSet, At, OneThread
<1>10. Solo(t)'
  <2>1. Unlisted(c) => Foremost(th[t].cell)'
    BY <1>4, <1>7 DEF Foremost
  <2>2. el'[th'[t].cell].fd = el[c].fd
    BY <1>3, <1>4
  <2> QED BY <1>4, <1>5, <1>6, <2>1, <2>2 DEF Solo, Evicting, Enlisting, Closing, Adds
<1>11. \A u \in Threads : u = t
  BY <1>1 DEF OneThread
<1> QED BY <1>7, <1>8, <1>9, <1>10, <1>11 DEF SoloInv

LEMMA DelistSolo ==
  ASSUME IInv, ApartInv, FdInv, Alone, SoloInv, NEW t \in Threads, Delist(t)
  PROVE  SoloInv'
<1>1. Ready(t) /\ th[t].pc = "delist" /\ openList \in Seq(Cells) /\ OneThread
  BY AtWork DEF Delist, At, Ready, MemoryTyped, Alone
<1>2. PICK v \in Cells : v = th[t].victim /\ el[v].live
  BY <1>1, VictimMine DEF Closing
<1>3. PICK c \in Cells : c = th[t].cell
  BY <1>1, ClosingHeld DEF Closing
<1>4. /\ th'[t].pc = "close" /\ th'[t].op = th[t].op /\ th'[t].cell = c /\ th'[t].victim = v
      /\ th'[t].back = th[t].back /\ th'[t].next = th[t].next /\ UNCHANGED el
  BY <1>1, <1>2, <1>3 DEF Delist, Goto, Ready, Thread
<1>5. PICK same : /\ same = {i \in DOMAIN openList : el[openList[i]] = el[v]}
                  /\ openList' = IF same = {} THEN openList ELSE RemoveAt(openList, Min(same))
  BY <1>2 DEF Delist
<1>6. /\ NotThrice' /\ AtMostOnce(v)' /\ (AtMostOnce(v) => Unlisted(v)')
      /\ \A d : (AtMostOnce(d) => AtMostOnce(d)') /\ (Unlisted(d) => Unlisted(d)')
  BY <1>1, <1>2, <1>4, <1>5, Removed DEF SoloInv, ApartInv
<1>7. OnceIfShut'
  BY <1>4, <1>6 DEF SoloInv, OnceIfShut
<1>8. ModeSet'
  BY <1>1, <1>4 DEF SoloInv, ModeSet, At, OneThread
<1>9. AtMostOnce(th[t].victim)'
  BY <1>4, <1>6 DEF AtMostOnce
<1>10. Solo(t)'
  <2>1. CASE th[t].back = "again"
    <3>1. v = c /\ el[c].fd \notin Fds /\ el[c].fd # 0
      BY <1>1, <1>2, <1>3, <2>1 DEF SoloInv, Solo, Closing
    <3> QED BY <1>4, <1>9, <2>1, <3>1 DEF Solo, Evicting, Enlisting, Closing, Adds
  <2>2. CASE th[t].back = "unshift"
    <3>1. Evicting(t) /\ Enlisting(t)
      BY <1>1, <2>2 DEF Evicting, Enlisting, Closing
    <3>2. /\ AtMostOnce(c) /\ (th[t].op = "create" => Unlisted(c))
          /\ th[t].op # "create" => el[c].fd # 0 \/ Unlisted(c)
          /\ th[t].next = "seek" => el[c].fd # 0 /\ v # c
      BY <1>1, <1>2, <1>3, <3>1 DEF SoloInv, Solo
    <3>3. /\ AtMostOnce(c)' /\ (th[t].op = "create" => Unlisted(c)')
          /\ th[t].op # "create" => el[c].fd # 0 \/ Unlisted(c)'
          /\ v = c => Unlisted(c)'
      BY <1>6, <3>2
    <3>4. (AtMostOnce(th[t].cell)' <=> AtMostOnce(c)') /\ (Unlisted(th[t].cell)' <=> Unlisted(c)')
      BY <1>4 DEF AtMostOnce, Unlisted
    <3> QED BY <1>4, <1>9, <2>2, <3>2, <3>3, <3>4 DEF Solo, Evicting, Enlisting, Closing, Adds
  <2> QED BY <1>1, <2>1, <2>2, BackIs DEF Closing
<1>11. \A u \in Threads : u = t
  BY <1>1 DEF OneThread
<1> QED BY <1>6, <1>7, <1>8, <1>10, <1>11 DEF SoloInv

\* A new element is in the hash table only.
LEMMA AddOidSolo ==
  ASSUME IInv, FdInv, Alone, SoloInv, NEW t \in Threads, AddOid(t)
  PROVE  SoloInv'
<1>1. Ready(t) /\ th[t].pc = "addOid" /\ OneThread
  BY AtWork DEF AddOid, At, Alone
<1>2. PICK c \in Cells :
        /\ ~el[c].live
        /\ el' = [el EXCEPT ![c] = Fresh(th[t].oid)]
        /\ th' = [th EXCEPT ![t].pc = "initMode", ![t].cell = c, ![t].next = "setattr"]
  BY DEF AddOid
<1>3. /\ el'[c] = Fresh(th[t].oid) /\ \A d \in Cells \ {c} : el'[d] = el[d]
      /\ UNCHANGED openList
  BY <1>1, <1>2 DEF Ready, MemoryTyped, AddOid
<1>4. th'[t].pc = "initMode" /\ th'[t].cell = c /\ th'[t].op = th[t].op /\ th'[t].next = "setattr"
  BY <1>1, <1>2 DEF Ready, Thread
<1>5. Unlisted(c) /\ AtMostOnce(c)
  BY <1>2 DEF FdInv, ListLive, Unlisted, AtMostOnce
<1>6. th[t].op = "create" /\ el'[c].fd = 0
  <2>1. el'[c].fd = 0
    BY <1>3, NewElement
  <2> QED BY <1>1, <2>1 DEF Ready, Working, OnPath, Uses, Added, Taken, Opening, Listing, Closing
<1>7. Solo(t)'
  <2>1. Unlisted(th[t].cell)' /\ AtMostOnce(th[t].cell)'
    BY <1>3, <1>4, <1>5 DEF Unlisted, AtMostOnce
  <2> QED BY <1>4, <1>6, <2>1 DEF Solo, Evicting, Enlisting, Closing, Adds
<1>8. ModeSet'
  <2> SUFFICES ASSUME NEW d \in Cells, el'[d].live, el'[d].fd \in Fds, ~el'[d].mode PROVE FALSE
    BY DEF ModeSet
  <2>1. d # c
    BY <1>6, Numbers
  <2>2. el'[d] = el[d]
    BY <1>3, <2>1
  <2> QED BY <1>1, <2>2 DEF SoloInv, ModeSet, At, OneThread
<1>9. \A d \in Cells : el'[d].fd = 0 => el[d].fd = 0 \/ AtMostOnce(d)
  BY <1>3, <1>5
<1> QED BY <1>1, <1>3, <1>7, <1>8, <1>9, SameSolo

LEMMA OpenFileSolo ==
  ASSUME IInv, ApartInv, FdInv, OneThread, SoloInv, NEW t \in Threads, OpenFile(t)
  PROVE  SoloInv'
<1>1. Ready(t) /\ th[t].pc \in {"open", "reopen"}
  BY AtWork DEF OpenFile, At
<1>2. PICK c \in Cells : c = th[t].cell
  BY <1>1 DEF Ready, Working, OnPath, Uses, Added, Taken, Opening, Listing, Closing
<1>3. th[t].op # "create"
  BY <1>1 DEF Ready, Working, OnPath, Uses, Added, Taken, Opening, Listing, Closing, Transfers
<1>4. PICK fd \in Fds : el' = [el EXCEPT ![c].fd = fd]
  BY <1>2, MinFree DEF OpenFile
<1>5. el'[c].fd = fd /\ \A d \in Cells : d # c => el'[d] = el[d]
  BY <1>1, <1>4 DEF Ready, MemoryTyped, Element
<1>6. /\ UNCHANGED openList
      /\ th'[t].pc = "setMode" /\ th'[t].cell = c /\ th'[t].op = th[t].op /\ th'[t].next = th[t].next
  BY <1>1, <1>2 DEF OpenFile, Goto, Ready, Thread
<1>7. /\ AtMostOnce(c) /\ (th[t].next = "seek" => Foremost(c))
  <2>1. el[c].fd = 0
    BY <1>1, <1>2 DEF FdInv, Safe
  <2> QED BY <1>1, <1>2, <2>1 DEF SoloInv, Solo, OnceIfShut
<1>8. fd # 0
  BY Numbers
<1>9. Solo(t)'
  <2>1. AtMostOnce(th[t].cell)' /\ (th[t].next = "seek" => Foremost(th[t].cell)')
    BY <1>2, <1>6, <1>7, SamePlaces
  <2> QED BY <1>3, <1>5, <1>6, <1>8, <2>1 DEF Solo, Evicting, Enlisting, Closing, Adds
<1>10. ModeSet'
  <2> SUFFICES ASSUME NEW d \in Cells, el'[d].live, el'[d].fd \in Fds, ~el'[d].mode
               PROVE  \E u \in Threads : th'[u].pc = "setMode" /\ th'[u].cell = d
    BY DEF ModeSet, At
  <2>1. CASE d = c
    BY <1>6, <2>1
  <2>2. CASE d # c
    <3>1. el'[d] = el[d]
      BY <1>5, <2>2
    <3> QED BY <1>1, <3>1 DEF SoloInv, ModeSet, At, OneThread
  <2> QED BY <2>1, <2>2
<1>11. \A d \in Cells : el'[d].fd = 0 => el[d].fd = 0
  BY <1>5, <1>8
<1> QED BY <1>6, <1>9, <1>10, <1>11, SameSolo

LEMMA OpenFailsSolo ==
  ASSUME IInv, OneThread, SoloInv, NEW t \in Threads, OpenFails(t), ~Segfault
  PROVE  SoloInv'
<1>1. Ready(t) /\ th[t].pc \in {"open", "reopen"}
  BY AtWork DEF OpenFails, At
<1>2. PICK c \in Cells : c = th[t].cell
  BY <1>1 DEF Ready, Working, OnPath, Uses, Added, Taken, Opening, Listing, Closing
<1>3. el' = [el EXCEPT ![c].fd = Bad] /\ Return(t) /\ UNCHANGED openList
  BY <1>2 DEF OpenFails
<1>4. el'[c].fd = Bad /\ \A d \in Cells : d # c => el'[d] = el[d]
  BY <1>1, <1>3 DEF Ready, MemoryTyped, Element
<1>5. th'[t].pc = "idle"
  BY <1>1, <1>3, ReturnIs, IdleIs DEF Ready
<1>6. Solo(t)'
  BY <1>5, AsideSolo
<1>7. ModeSet'
  <2> SUFFICES ASSUME NEW d \in Cells, el'[d].live, el'[d].fd \in Fds, ~el'[d].mode PROVE FALSE
    BY DEF ModeSet
  <2>1. el'[d] = el[d]
    BY <1>4, Numbers
  <2> QED BY <1>1, <2>1 DEF SoloInv, ModeSet, At, OneThread
<1>8. \A d \in Cells : el'[d].fd = 0 => el[d].fd = 0
  BY <1>4 DEF Bad
<1> QED BY <1>3, <1>6, <1>7, <1>8, SameSolo

LEMMA SetModeSolo ==
  ASSUME IInv, OneThread, SoloInv, NEW t \in Threads, SetMode(t)
  PROVE  SoloInv'
<1>1. Ready(t) /\ th[t].pc \in {"setMode", "initMode"}
  BY AtWork DEF SetMode, At
<1>2. PICK c \in Cells : c = th[t].cell
  BY <1>1 DEF Ready, Working, OnPath, Uses, Added, Taken, Opening, Listing, Closing
<1>3. PICK m \in BOOLEAN : m = At(t, "setMode") /\ el' = [el EXCEPT ![c].mode = m]
  BY <1>2 DEF SetMode, At
<1>4. \A d \in Cells : el'[d].live = el[d].live /\ el'[d].fd = el[d].fd
  BY <1>1, <1>3, ModeWritten DEF Ready, MemoryTyped
<1>5. el'[c].mode = m /\ \A d \in Cells : d # c => el'[d] = el[d]
  BY <1>1, <1>3 DEF Ready, MemoryTyped, Element
<1>6. /\ th'[t].pc = "count" /\ th'[t].cell = c /\ th'[t].op = th[t].op /\ th'[t].next = th[t].next
      /\ UNCHANGED openList
  BY <1>1, <1>2 DEF SetMode, Goto, Ready, Thread
<1>7. /\ AtMostOnce(c) /\ (th[t].op = "create" => Unlisted(c))
      /\ th[t].op # "create" => el[c].fd # 0 \/ Unlisted(c)
      /\ th[t].next = "seek" => el[c].fd # 0
      /\ th[t].pc = "setMode" /\ th[t].next = "seek" => Foremost(c)
      /\ th[t].pc = "initMode" => el[c].fd = 0 /\ th[t].next # "seek"
  <2>1. th[t].pc = "initMode" => th[t].next # "seek"
    BY <1>1 DEF Ready, Working, OnPath, Added, Uses, Taken, Returns, Opening, Listing, Closing,
       Transfers
  <2> QED BY <1>1, <1>2, <2>1 DEF SoloInv, Solo, Enlisting, Adds
<1>8. /\ AtMostOnce(th[t].cell)' /\ (th[t].op = "create" => Unlisted(th[t].cell)')
      /\ th[t].op # "create" => el[c].fd # 0 \/ Unlisted(th[t].cell)'
      /\ th[t].next = "seek" => Foremost(th[t].cell)'
  BY <1>1, <1>2, <1>6, <1>7, SamePlaces
<1>9. Solo(t)'
  BY <1>4, <1>6, <1>7, <1>8 DEF Solo, Evicting, Enlisting, Closing, Adds
<1>10. ModeSet'
  <2> SUFFICES ASSUME NEW d \in Cells, el'[d].live, el'[d].fd \in Fds, ~el'[d].mode PROVE FALSE
    BY DEF ModeSet
  <2>1. CASE d = c
    <3>1. th[t].pc = "initMode"
      BY <1>1, <1>3, <1>5, <2>1 DEF At
    <3> QED BY <1>4, <1>7, <2>1, <3>1, Numbers
  <2>2. CASE d # c
    <3>1. el'[d] = el[d]
      BY <1>5, <2>2
    <3> QED BY <1>2, <2>2, <3>1 DEF SoloInv, ModeSet, At, OneThread
  <2> QED BY <2>1, <2>2
<1>11. \A d \in Cells : el'[d].fd = 0 => el[d].fd = 0
  BY <1>4
<1> QED BY <1>6, <1>9, <1>10, <1>11, SameSolo

LEMMA ClearFdSolo ==
  ASSUME IInv, FdInv, Alone, SoloInv, NEW t \in Threads, ClearFd(t)
  PROVE  SoloInv'
<1>1. Ready(t) /\ th[t].pc = "clearFd" /\ OneThread
  BY AtWork DEF ClearFd, At, Alone
<1>2. PICK v \in Cells : v = th[t].victim
  BY <1>1, ClosingHeld DEF Closing
<1>3. PICK c \in Cells : c = th[t].cell
  BY <1>1, ClosingHeld DEF Closing
<1>4. el' = [el EXCEPT ![v].fd = 0] /\ UNCHANGED openList
  BY <1>2 DEF ClearFd
<1>5. el'[v].fd = 0 /\ \A d \in Cells : d # v => el'[d] = el[d]
  BY <1>1, <1>4 DEF Ready, MemoryTyped, Element
<1>6. /\ th'[t].pc = "clearMode" /\ th'[t].op = th[t].op /\ th'[t].cell = c /\ th'[t].victim = v
      /\ th'[t].back = th[t].back /\ th'[t].next = th[t].next
  BY <1>1, <1>2, <1>3 DEF ClearFd, Goto, Ready, Thread
<1>7. th[t].back = "unshift" /\ Evicting(t) /\ Enlisting(t)
  <2>1. th[t].back # "again"
    BY <1>1 DEF SoloInv, Solo, Closing
  <2> QED BY <1>1, <2>1, BackIs DEF Evicting, Enlisting, Closing
<1>8. /\ AtMostOnce(c) /\ (th[t].op = "create" => Unlisted(c))
      /\ th[t].op # "create" => el[c].fd # 0 \/ Unlisted(c)
      /\ th[t].next = "seek" => el[c].fd # 0 /\ v # c
      /\ v = c => Unlisted(c)
      /\ AtMostOnce(v)
  BY <1>1, <1>2, <1>3, <1>7 DEF SoloInv, Solo
<1>9. /\ AtMostOnce(th[t].cell)' /\ (th[t].op = "create" => Unlisted(th[t].cell)')
      /\ th[t].op # "create" => (v # c /\ el[c].fd # 0) \/ Unlisted(th[t].cell)'
      /\ v = c => Unlisted(th[t].cell)'
  BY <1>3, <1>4, <1>6, <1>8, SamePlaces
<1>10. Solo(t)'
  <2>1. v # c => el'[c].fd = el[c].fd
    BY <1>5
  <2> QED BY <1>6, <1>7, <1>8, <1>9, <2>1 DEF Solo, Evicting, Enlisting, Closing, Adds
<1>11. ModeSet'
  <2> SUFFICES ASSUME NEW d \in Cells, el'[d].live, el'[d].fd \in Fds, ~el'[d].mode PROVE FALSE
    BY DEF ModeSet
  <2>1. el'[d] = el[d]
    BY <1>5, Numbers
  <2> QED BY <1>1, <2>1 DEF SoloInv, ModeSet, At, OneThread
<1>12. \A d \in Cells : el'[d].fd = 0 => el[d].fd = 0 \/ AtMostOnce(d)
  BY <1>5, <1>8
<1> QED BY <1>1, <1>4, <1>10, <1>11, <1>12, SameSolo

LEMMA ClearModeSolo ==
  ASSUME IInv, FdInv, Alone, SoloInv, NEW t \in Threads, ClearMode(t)
  PROVE  SoloInv'
<1>1. Ready(t) /\ th[t].pc = "clearMode" /\ OneThread
  BY AtWork DEF ClearMode, At, Alone
<1>2. PICK v \in Cells : v = th[t].victim /\ el[v].fd = 0
  BY <1>1, ClosingHeld DEF Closing, FdInv, Safe
<1>3. PICK c \in Cells : c = th[t].cell
  BY <1>1, ClosingHeld DEF Closing
<1>4. el' = [el EXCEPT ![v].mode = FALSE] /\ UNCHANGED openList
  BY <1>2 DEF ClearMode
<1>5. \A d \in Cells : el'[d].live = el[d].live /\ el'[d].fd = el[d].fd
  BY <1>1, <1>4, ModeWritten DEF Ready, MemoryTyped
<1>6. \A d \in Cells : d # v => el'[d] = el[d]
  BY <1>1, <1>4 DEF Ready, MemoryTyped
<1>7. th[t].back = "unshift" /\ Evicting(t) /\ Enlisting(t)
  <2>1. th[t].back # "again"
    BY <1>1 DEF SoloInv, Solo, Closing
  <2> QED BY <1>1, <2>1, BackIs DEF Evicting, Enlisting, Closing
<1>8. /\ th'[t].pc = "unshift" /\ th'[t].op = th[t].op /\ th'[t].cell = c
      /\ th'[t].next = th[t].next
  BY <1>1, <1>3, <1>7 DEF ClearMode, Goto, Ready, Thread
<1>9. /\ AtMostOnce(c) /\ (th[t].op = "create" => Unlisted(c))
      /\ th[t].op # "create" => el[c].fd # 0 \/ Unlisted(c)
      /\ th[t].next = "seek" => el[c].fd # 0
  BY <1>1, <1>2, <1>3, <1>7 DEF SoloInv, Solo
<1>10. /\ AtMostOnce(th[t].cell)' /\ (th[t].op = "create" => Unlisted(th[t].cell)')
       /\ th[t].op # "create" => el[c].fd # 0 \/ Unlisted(th[t].cell)'
  BY <1>3, <1>4, <1>8, <1>9, SamePlaces
<1>11. Solo(t)'
  BY <1>5, <1>8, <1>9, <1>10 DEF Solo, Evicting, Enlisting, Closing, Adds
<1>12. ModeSet'
  <2> SUFFICES ASSUME NEW d \in Cells, el'[d].live, el'[d].fd \in Fds, ~el'[d].mode PROVE FALSE
    BY DEF ModeSet
  <2>1. d # v
    BY <1>2, <1>5, Numbers
  <2>2. el'[d] = el[d]
    BY <1>6, <2>1
  <2> QED BY <1>1, <2>2 DEF SoloInv, ModeSet, At, OneThread
<1>13. \A d \in Cells : el'[d].fd = 0 => el[d].fd = 0
  BY <1>5
<1> QED BY <1>1, <1>4, <1>11, <1>12, <1>13, SameSolo

\* Nothing is open or listed.
LEMMA NoneOpenSolo == NoneOpen => SoloInv
<1> SUFFICES ASSUME NoneOpen PROVE SoloInv
  OBVIOUS
<1>1. DOMAIN openList = {}
  BY DEF NoneOpen
<1>2. NotThrice /\ OnceIfShut
  BY <1>1 DEF NotThrice, OnceIfShut, AtMostOnce
<1>3. ModeSet
  BY Numbers DEF NoneOpen, ModeSet
<1>4. \A t \in Threads : Solo(t)
  BY IdleIs DEF NoneOpen, Solo, Evicting, Enlisting, Closing, Adds
<1> QED BY <1>2, <1>3, <1>4 DEF SoloInv

LEMMA DownSolo ==
  ASSUME Down
  PROVE  SoloInv'
<1>1. \A c \in Cells : el'[c].fd = 0
  BY NewElement DEF Down
<1>2. NoneOpen'
  BY <1>1 DEF Down, NoneOpen
<1> QED BY <1>2, NoneOpenSolo, PTL

LEMMA RestartSolo ==
  ASSUME ApartInv, Restart
  PROVE  SoloInv'
<1>1. \A c \in Cells : el'[c] = Fresh(c) \/ el'[c] = Free(0)
  BY DEF Restart, Loaded
<1>2. \A c \in Cells : el'[c].fd = 0
  BY <1>1, NewElement
<1>3. NoneOpen'
  BY <1>2 DEF Restart, ApartInv, WhenDown, NoneOpen
<1> QED BY <1>3, NoneOpenSolo, PTL

LEMMA StartSolo ==
  ASSUME IInv, OneThread, SoloInv, NEW t \in Threads, NEW op \in Ops, NEW o \in Oids,
         NEW off \in Offsets, Start(t, op, o, off)
  PROVE  SoloInv'
<1>1. th \in [Threads -> Thread] /\ UNCHANGED <<el, openList>> /\ th[t].pc # "setMode"
  BY TypesAre DEF IInv, Start, memory, At
<1>2. th'[t].pc \in {"access", "exists"}
  BY <1>1 DEF Start, Idle
<1>3. Solo(t)'
  BY <1>2 DEF Solo, Evicting, Enlisting, Closing, Adds
<1> QED BY <1>1, <1>3, QuietSolo

LEMMA StutterSolo ==
  ASSUME SoloInv, UNCHANGED vars
  PROVE  SoloInv'
<1>1. \A c : (AtMostOnce(c)' <=> AtMostOnce(c)) /\ (Unlisted(c)' <=> Unlisted(c))
             /\ (Foremost(c)' <=> Foremost(c))
  BY DEF AtMostOnce, Unlisted, Foremost, vars, memory
<1>2. NotThrice' /\ OnceIfShut' /\ ModeSet'
  BY <1>1 DEF SoloInv, NotThrice, OnceIfShut, ModeSet, At, vars, memory
<1>3. ASSUME NEW t \in Threads PROVE Solo(t)'
  <2>1. Solo(t)
    BY DEF SoloInv
  <2> QED BY <2>1 DEF Solo, Evicting, Enlisting, AtMostOnce, Unlisted, Foremost, vars, memory
<1> QED BY <1>2, <1>3 DEF SoloInv

LEMMA StepSolo ==
  ASSUME IInv, ApartInv, FdInv, SoloInv, Alone, MAX_OPEN_FILES >= 2, NEW t \in Threads, Step(t)
  PROVE  SoloInv'
<1>0. OneThread
  BY DEF Alone
<1>1. CASE Segfault
  BY <1>1, DownSolo DEF Segfault
<1>2. CASE Exists(t) \/ Access(t) \/ Creat(t) \/ SetAttr(t) \/ Transfer(t)
  BY <1>0, <1>2, RestSolo
<1>3. CASE ~Segfault /\ (FindOid(t) \/ CheckFd(t) \/ OpenFile(t) \/ OpenFails(t) \/ SetMode(t))
  BY <1>0, <1>3, FindOidSolo, CheckFdSolo, OpenFileSolo, OpenFailsSolo, SetModeSolo
<1>4. CASE ~Segfault /\ (CheckMode(t) \/ CheckAgain(t) \/ CountOpen(t) \/ Evict(t) \/ Delist(t))
  BY <1>0, <1>4, CheckModeSolo, CheckAgainSolo, CountOpenSolo, EvictSolo, DelistSolo
<1>5. CASE Close(t) \/ ClearFd(t) \/ ClearMode(t) \/ Unshift(t) \/ Seek(t) \/ AddOid(t)
  BY <1>0, <1>5, CloseSolo, ClearFdSolo, ClearModeSolo, UnshiftSolo, SeekSolo, AddOidSolo
<1> QED BY <1>1, <1>2, <1>3, <1>4, <1>5, NoRemoval DEF Step

LEMMA NextSolo ==
  ASSUME IInv, ApartInv, FdInv, SoloInv, Alone, MAX_OPEN_FILES >= 2, [Next]_vars
  PROVE  SoloInv'
<1>1. CASE \E t \in Threads : Step(t)
  BY <1>1, StepSolo
<1>2. CASE \E t \in Threads, op \in Ops, o \in Oids, off \in Offsets : Start(t, op, o, off)
  BY <1>2, StartSolo DEF Alone
<1>3. CASE Crash
  BY <1>3, DownSolo DEF Crash
<1>4. CASE Restart
  BY <1>4, RestartSolo
<1>5. CASE UNCHANGED vars
  BY <1>5, StutterSolo
<1> QED BY <1>1, <1>2, <1>3, <1>4, <1>5 DEF Next, Finished

(***************************************************************************)
(* With one thread, and objects that are not removed, sysio_obj_read and   *)
(* _write reach the file of their object also when files are closed for    *)
(* others, and when the file of the object itself is the one that          *)
(* add_to_open_files closes to make room for it: they open it again.  One  *)
(* place in the list is not enough for that.                               *)
(***************************************************************************)
THEOREM StoreIOGoesHome ==
  ASSUME OneThread, "remove" \notin Ops, MAX_OPEN_FILES >= 2
  PROVE  Spec => []IOGoesToItsObject
<1> DEFINE Inv == IInv /\ ApartInv /\ FdInv /\ SoloInv /\ IOGoesToItsObject
<1>0. Alone /\ Apart
  BY DEF Alone, Apart
<1>1. Init => Inv
  <2> SUFFICES ASSUME Init PROVE Inv
    OBVIOUS
  <2>1. \A c \in Cells : el[c] = Fresh(c) \/ el[c] = Free(0)
    BY DEF Init
  <2>2. \A c \in Cells : el[c].fd = 0
    BY <2>1, NewElement
  <2>3. NoneOpen
    BY <2>2 DEF Init, NoneOpen
  <2>4. IOGoesToItsObject
    BY DEF Init, IOGoesToItsObject
  <2> QED BY <2>3, <2>4, InitTypes, InitApart, InitFd, NoneOpenSolo
<1>2. Inv => \A t \in Threads : At(t, "transfer") /\ th[t].op \in {"read", "write"} =>
               el[th[t].cell].fd # 0
  BY DEF SoloInv, Solo, At
<1>3. Inv /\ [Next]_vars => Inv'
  BY <1>0, <1>2, NextTypes, NextApart, NextFd, NextSolo, NextHome
<1> QED BY <1>1, <1>3, PTL DEF Spec
=============================================================================
