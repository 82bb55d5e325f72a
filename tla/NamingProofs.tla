------------------------------ MODULE NamingProofs ------------------------------
(***************************************************************************)
(* Proofs about the naming server, for any number of threads, names,       *)
(* operations and restarts: what is stored stays within its bounds, the    *)
(* databases agree until a crash, and the server never aborts.             *)
(*                                                                         *)
(* The proofs look at the 15 steps of Naming as two kinds: a quiet step    *)
(* leaves both databases as they are, a changing one stores or deletes a   *)
(* record.  Follows says which step may come after which.                  *)
(***************************************************************************)
EXTENDS Naming, SequenceTheorems, FiniteSetTheorems, TLAPS

-----------------------------------------------------------------------------
(* Where an operation is.                                                  *)

Busy(t) == ~IsIdle(t)
Now(t) == IF IsIdle(t) THEN "idle" ELSE Head(th[t].todo)

\* What an operation may have left to do while it is under way.
Left(op) == LET path == naming_op_array[op]
            IN  {SubSeq(path, i, Len(path)) : i \in 1 .. Len(path)}

Creations == {"create_namespace", "create_dir", "create_file"}

\* The operations that have a step.
Takes(op, x) ==
  /\ x \in {"find", "findInode"} => op \in {"remove_namespace", "get_namespace"}
  /\ x \in {"permTarget", "incGet", "incPut"} => op = "create_link"
  /\ x = "put" => op \in Creations \cup {"create_link"}
  /\ x = "putInode" => op \in Creations
  /\ x = "check" => op = "create_file"
  /\ x \in {"get", "getInode"} => op \in Removals \cup {"create_link", "lookup"}
  /\ x \in {"del", "delInode"} => op \in Removals
  /\ x \in {"size", "fetch"} => op = "list_dir"

\* The step y may follow the step x of an operation ("idle": x was the last one).
Follows(op, x, y) ==
  \/ x = "find" /\ y = "findInode"
  \/ x = "findInode" /\ y \in {"perm", "idle"}
  \/ x \in {"perm", "permTarget"} /\ y = "permInode"
  \/ /\ x = "permInode"
     /\ y \in IF op = "create_link" THEN {"permTarget", "get"} ELSE {"get", "put", "size"}
  \/ x = "get" /\ y = "getInode"
  \/ x = "getInode" /\ y = (CASE op \in Removals -> "del" [] op = "lookup" -> "idle" [] OTHER -> "put")
  \/ x = "put" /\ y = (IF op = "create_link" THEN "incGet" ELSE "putInode")
  \/ x = "putInode" /\ y \in {"check", "idle"}
  \/ x = "check" /\ y = "idle"
  \/ x = "incGet" /\ y = "incPut"
  \/ x = "incPut" /\ y = "idle"
  \/ x = "del" /\ y = "delInode"
  \/ x = "delInode" /\ y = "idle"
  \/ x = "size" /\ y = "fetch"
  \/ x = "fetch" /\ y = "idle"

-----------------------------------------------------------------------------
(* The inductive invariants.                                               *)

\* Entries that are in the database or may be after a crash.
AllEntries == dirents \cup disk.written

\* Oids are those that were generated; an entry of a directory is not one of the first three.
Numbered(d) ==
  /\ d.oid <= lastOid /\ d.inode <= lastOid
  /\ d.dir => d.oid # None
  /\ d.parent # ROOT_OID => d.oid > ORPHANS

\* The operations that have an entry, and a count, still to store.
PutsLeft == {t \in Threads : /\ th[t].op \in Creations \cup {"create_link"}
                             /\ Now(t) \notin {"putInode", "check", "incGet", "incPut"}}
CountsLeft == {t \in Threads : /\ th[t].op \in Creations \cup {"create_link"}
                               /\ Now(t) # "check"}

\* An oid belongs to one entry.
OneEntryPerOid == \A d, e \in AllEntries : d.oid = e.oid => d = e

EntriesNumbered ==
  /\ IsFiniteSet(AllEntries)
  /\ \A d \in AllEntries : Numbered(d)
  /\ OneEntryPerOid

\* The entry that an operation works on.
KnownEntry(t) ==
  /\ th[t].ent.oid <= lastOid /\ th[t].ent.inode <= lastOid
  /\ th[t].ent.dir => th[t].ent.oid # None
  /\ th[t].op = "list_dir" => th[t].parent # ROOT_OID

\* Every operation that was started stores at most one entry and one count more.
Room ==
  /\ IsFiniteSet(CountsLeft) /\ IsFiniteSet(PutsLeft)
  /\ Cardinality(CountsLeft) <= started
  /\ lastOid - ORPHANS + Cardinality(PutsLeft) <= started
  /\ \A o \in Oids :
       /\ inodes[o] + Cardinality(CountsLeft) <= started
       /\ \A n \in disk.counts[o] : n + Cardinality(CountsLeft) <= started
  /\ \A t \in Threads :
       Now(t) \in {"del", "delInode", "incPut"} =>
         th[t].count + Cardinality(CountsLeft) <= started

\* TypeOK, and what makes it inductive.
TypeInv ==
  /\ TypeOK
  /\ threaded \in BOOLEAN
  /\ EntriesNumbered
  /\ \A h \in handles : h.dir => h.oid # None
  /\ \A t \in Threads : KnownEntry(t)
  /\ Room

-----------------------------------------------------------------------------
(* The sequences of steps: each suffix of an operation takes the steps that *)
(* Takes allows in the order that Follows allows.                          *)

\* Two sequences that are joined, item by item.
LEMMA Glue ==
  ASSUME NEW S, NEW s \in Seq(S), NEW r \in Seq(S), NEW q \in Seq(S),
         NEW m \in Nat, NEW n \in Nat, Len(s) = m, Len(r) = n, Len(q) = m + n,
         \A k \in 1 .. m : q[k] = s[k],
         \A k \in 1 .. n : q[m + k] = r[k]
  PROVE  s \o r = q
<1>1. s \o r \in Seq(S) /\ Len(s \o r) = Len(q)
  BY ConcatProperties
<1>2. ASSUME NEW i \in 1 .. Len(q)
      PROVE  (s \o r)[i] = q[i]
  <2>1. (s \o r)[i] = IF i <= Len(s) THEN s[i] ELSE r[i - Len(s)]
    BY ConcatProperties
  <2>2. CASE i <= Len(s)
    BY <2>1, <2>2
  <2>3. CASE ~(i <= Len(s))
    <3> DEFINE j == i - m
    <3>1. j \in 1 .. n /\ m + j = i
      BY <2>3
    <3>2. q[m + j] = r[j]
      BY <3>1
    <3> QED  BY <3>1, <3>2, <2>1, <2>3
  <2> QED  BY <2>2, <2>3
<1> QED  BY <1>1, <1>2, SeqEqual

\* The operations are joined from these parts.
LEMMA Glue22 ==
  ASSUME NEW a, NEW b, NEW c, NEW d
  PROVE  <<a, b>> \o <<c, d>> = <<a, b, c, d>>
<1> DEFINE S == {a, b, c, d}
           s == <<a, b>>
           r == <<c, d>>
           q == <<a, b, c, d>>
           m == 2
           n == 2
<1>0. m \in Nat /\ n \in Nat
  OBVIOUS
<1>1. s \in Seq(S) /\ Len(s) = m
  OBVIOUS
<1>2. r \in Seq(S) /\ Len(r) = n
  OBVIOUS
<1>3. q \in Seq(S) /\ Len(q) = m + n
  OBVIOUS
<1>4. \A k \in 1 .. m : q[k] = s[k]
  OBVIOUS
<1>5. \A k \in 1 .. n : q[m + k] = r[k]
  OBVIOUS
<1> HIDE DEF S, s, r, q, m, n
<1>6. s \o r = q
  BY <1>0, <1>1, <1>2, <1>3, <1>4, <1>5, Glue
<1> QED  BY <1>6 DEF s, r, q

LEMMA Glue44 ==
  ASSUME NEW a, NEW b, NEW c, NEW d, NEW e, NEW f, NEW g, NEW h
  PROVE  <<a, b, c, d>> \o <<e, f, g, h>> = <<a, b, c, d, e, f, g, h>>
<1> DEFINE S == {a, b, c, d, e, f, g, h}
           s == <<a, b, c, d>>
           r == <<e, f, g, h>>
           q == <<a, b, c, d, e, f, g, h>>
           m == 4
           n == 4
<1>0. m \in Nat /\ n \in Nat
  OBVIOUS
<1>1. s \in Seq(S) /\ Len(s) = m
  OBVIOUS
<1>2. r \in Seq(S) /\ Len(r) = n
  OBVIOUS
<1>3. q \in Seq(S) /\ Len(q) = m + n
  OBVIOUS
<1>4. \A k \in 1 .. m : q[k] = s[k]
  OBVIOUS
<1>5. \A k \in 1 .. n : q[m + k] = r[k]
  OBVIOUS
<1> HIDE DEF S, s, r, q, m, n
<1>6. s \o r = q
  BY <1>0, <1>1, <1>2, <1>3, <1>4, <1>5, Glue
<1> QED  BY <1>6 DEF s, r, q

LEMMA Glue24 ==
  ASSUME NEW a, NEW b, NEW c, NEW d, NEW e, NEW f
  PROVE  <<a, b>> \o <<c, d, e, f>> = <<a, b, c, d, e, f>>
<1> DEFINE S == {a, b, c, d, e, f}
           s == <<a, b>>
           r == <<c, d, e, f>>
           q == <<a, b, c, d, e, f>>
           m == 2
           n == 4
<1>0. m \in Nat /\ n \in Nat
  OBVIOUS
<1>1. s \in Seq(S) /\ Len(s) = m
  OBVIOUS
<1>2. r \in Seq(S) /\ Len(r) = n
  OBVIOUS
<1>3. q \in Seq(S) /\ Len(q) = m + n
  OBVIOUS
<1>4. \A k \in 1 .. m : q[k] = s[k]
  OBVIOUS
<1>5. \A k \in 1 .. n : q[m + k] = r[k]
  OBVIOUS
<1> HIDE DEF S, s, r, q, m, n
<1>6. s \o r = q
  BY <1>0, <1>1, <1>2, <1>3, <1>4, <1>5, Glue
<1> QED  BY <1>6 DEF s, r, q

LEMMA Glue41 ==
  ASSUME NEW a, NEW b, NEW c, NEW d, NEW e
  PROVE  <<a, b, c, d>> \o <<e>> = <<a, b, c, d, e>>
<1> DEFINE S == {a, b, c, d, e}
           s == <<a, b, c, d>>
           r == <<e>>
           q == <<a, b, c, d, e>>
           m == 4
           n == 1
<1>0. m \in Nat /\ n \in Nat
  OBVIOUS
<1>1. s \in Seq(S) /\ Len(s) = m
  OBVIOUS
<1>2. r \in Seq(S) /\ Len(r) = n
  OBVIOUS
<1>3. q \in Seq(S) /\ Len(q) = m + n
  OBVIOUS
<1>4. \A k \in 1 .. m : q[k] = s[k]
  OBVIOUS
<1>5. \A k \in 1 .. n : q[m + k] = r[k]
  OBVIOUS
<1> HIDE DEF S, s, r, q, m, n
<1>6. s \o r = q
  BY <1>0, <1>1, <1>2, <1>3, <1>4, <1>5, Glue
<1> QED  BY <1>6 DEF s, r, q

LEMMA Glue42 ==
  ASSUME NEW a, NEW b, NEW c, NEW d, NEW e, NEW f
  PROVE  <<a, b, c, d>> \o <<e, f>> = <<a, b, c, d, e, f>>
<1> DEFINE S == {a, b, c, d, e, f}
           s == <<a, b, c, d>>
           r == <<e, f>>
           q == <<a, b, c, d, e, f>>
           m == 4
           n == 2
<1>0. m \in Nat /\ n \in Nat
  OBVIOUS
<1>1. s \in Seq(S) /\ Len(s) = m
  OBVIOUS
<1>2. r \in Seq(S) /\ Len(r) = n
  OBVIOUS
<1>3. q \in Seq(S) /\ Len(q) = m + n
  OBVIOUS
<1>4. \A k \in 1 .. m : q[k] = s[k]
  OBVIOUS
<1>5. \A k \in 1 .. n : q[m + k] = r[k]
  OBVIOUS
<1> HIDE DEF S, s, r, q, m, n
<1>6. s \o r = q
  BY <1>0, <1>1, <1>2, <1>3, <1>4, <1>5, Glue
<1> QED  BY <1>6 DEF s, r, q

LEMMA Glue63 ==
  ASSUME NEW a, NEW b, NEW c, NEW d, NEW e, NEW f, NEW g, NEW h, NEW i
  PROVE  <<a, b, c, d, e, f>> \o <<g, h, i>> = <<a, b, c, d, e, f, g, h, i>>
<1> DEFINE S == {a, b, c, d, e, f, g, h, i}
           s == <<a, b, c, d, e, f>>
           r == <<g, h, i>>
           q == <<a, b, c, d, e, f, g, h, i>>
           m == 6
           n == 3
<1>0. m \in Nat /\ n \in Nat
  OBVIOUS
<1>1. s \in Seq(S) /\ Len(s) = m
  OBVIOUS
<1>2. r \in Seq(S) /\ Len(r) = n
  OBVIOUS
<1>3. q \in Seq(S) /\ Len(q) = m + n
  OBVIOUS
<1>4. \A k \in 1 .. m : q[k] = s[k]
  OBVIOUS
<1>5. \A k \in 1 .. n : q[m + k] = r[k]
  OBVIOUS
<1> HIDE DEF S, s, r, q, m, n
<1>6. s \o r = q
  BY <1>0, <1>1, <1>2, <1>3, <1>4, <1>5, Glue
<1> QED  BY <1>6 DEF s, r, q

AllSteps == {"find", "findInode", "perm", "permInode", "permTarget", "get", "getInode", "put",
             "putInode", "check", "incGet", "incPut", "del", "delInode", "size", "fetch"}

\* The operations, step by step.
LEMMA Paths ==
  /\ naming_create_namespace = <<"put", "putInode">>
  /\ naming_remove_namespace =
       <<"find", "findInode", "perm", "permInode", "get", "getInode", "del", "delInode">>
  /\ naming_get_namespace = <<"find", "findInode">>
  /\ naming_create_dir = <<"perm", "permInode", "put", "putInode">>
  /\ naming_remove_dir = <<"perm", "permInode", "get", "getInode", "del", "delInode">>
  /\ naming_create_file = <<"perm", "permInode", "put", "putInode", "check">>
  /\ naming_create_link = <<"perm", "permInode", "permTarget", "permInode", "get", "getInode",
                            "put", "incGet", "incPut">>
  /\ naming_unlink = <<"perm", "permInode", "get", "getInode", "del", "delInode">>
  /\ naming_lookup = <<"perm", "permInode", "get", "getInode">>
  /\ naming_list_dir = <<"perm", "permInode", "size", "fetch">>
<1> DEFINE S == AllSteps
<1>1. /\ "find" \in S /\ "findInode" \in S /\ "perm" \in S /\ "permInode" \in S /\ "permTarget" \in S
      /\ "get" \in S /\ "getInode" \in S /\ "put" \in S /\ "putInode" \in S /\ "check" \in S
      /\ "incGet" \in S /\ "incPut" \in S /\ "del" \in S /\ "delInode" \in S /\ "size" \in S
      /\ "fetch" \in S
  BY DEF AllSteps
<1> HIDE DEF S
<1>2. naming_db_del = <<"get", "getInode", "del", "delInode">>
  BY <1>1, Glue22 DEF naming_db_del, naming_db_get_by_name
<1>3. namespace_lookup \o check_perm = <<"find", "findInode", "perm", "permInode">>
  BY <1>1, Glue22 DEF namespace_lookup, check_perm
<1>4. naming_remove_namespace =
        <<"find", "findInode", "perm", "permInode", "get", "getInode", "del", "delInode">>
  <2>1. naming_remove_namespace =
          <<"find", "findInode", "perm", "permInode">> \o <<"get", "getInode", "del", "delInode">>
    BY <1>2, <1>3 DEF naming_remove_namespace
  <2> QED  BY <2>1, <1>1, Glue44
<1>5. naming_create_dir = <<"perm", "permInode", "put", "putInode">>
  BY <1>1, Glue22 DEF naming_create_dir, check_perm, naming_db_put
<1>6. naming_remove_dir = <<"perm", "permInode", "get", "getInode", "del", "delInode">>
  BY <1>1, <1>2, Glue24 DEF naming_remove_dir, check_perm
<1>7. naming_create_file = <<"perm", "permInode", "put", "putInode", "check">>
  <2>1. naming_create_file = naming_create_dir \o <<"check">>
    BY DEF naming_create_file, naming_create_dir
  <2> QED  BY <2>1, <1>1, <1>5, Glue41
<1>8. naming_create_link = <<"perm", "permInode", "permTarget", "permInode", "get", "getInode",
                             "put", "incGet", "incPut">>
  <2>1. check_perm \o <<"permTarget", "permInode">> = <<"perm", "permInode", "permTarget", "permInode">>
    BY <1>1, Glue22 DEF check_perm
  <2>2. <<"perm", "permInode", "permTarget", "permInode">> \o naming_db_get_by_name =
          <<"perm", "permInode", "permTarget", "permInode", "get", "getInode">>
    BY <1>1, Glue42 DEF naming_db_get_by_name
  <2>3. naming_create_link = <<"perm", "permInode", "permTarget", "permInode", "get", "getInode">>
          \o <<"put", "incGet", "incPut">>
    BY <2>1, <2>2 DEF naming_create_link, naming_db_put_link
  <2> QED  BY <2>3, <1>1, Glue63
<1>9. naming_unlink = <<"perm", "permInode", "get", "getInode", "del", "delInode">>
  BY <1>1, <1>2, Glue24 DEF naming_unlink, check_perm
<1>10. naming_lookup = <<"perm", "permInode", "get", "getInode">>
  BY <1>1, Glue22 DEF naming_lookup, check_perm, naming_db_get_by_name
<1>11. naming_list_dir = <<"perm", "permInode", "size", "fetch">>
  BY <1>1, Glue22 DEF naming_list_dir, check_perm
<1> QED  BY <1>4, <1>5, <1>6, <1>7, <1>8, <1>9, <1>10, <1>11
         DEF naming_create_namespace, naming_db_put, naming_get_namespace, namespace_lookup

\* What is left of a sequence, from one place on.
LEMMA Suffixes ==
  ASSUME NEW S, NEW s \in Seq(S), NEW i \in 1 .. Len(s)
  PROVE  /\ SubSeq(s, i, Len(s)) # << >> /\ Head(SubSeq(s, i, Len(s))) = s[i]
         /\ Len(SubSeq(s, i, Len(s))) = Len(s) - i + 1
         /\ i < Len(s) => Tail(SubSeq(s, i, Len(s))) = SubSeq(s, i + 1, Len(s))
<1> DEFINE r == SubSeq(s, i, Len(s))
<1>1. r \in Seq(S) /\ Len(r) = Len(s) - i + 1 /\ \A j \in 1 .. Len(s) - i + 1 : r[j] = s[i + j - 1]
  BY SMT
<1>2. ASSUME i < Len(s)
      PROVE  Tail(r) = SubSeq(s, i + 1, Len(s))
  <2> DEFINE q == SubSeq(s, i + 1, Len(s))
  <2>1. q \in Seq(S) /\ Len(q) = Len(s) - i /\ \A j \in 1 .. Len(s) - i : q[j] = s[i + j]
    BY <1>2
  <2> HIDE DEF q, r
  <2>2. /\ Tail(r) \in Seq(S) /\ Len(Tail(r)) = Len(s) - i
        /\ \A j \in 1 .. Len(s) - i : Tail(r)[j] = r[j + 1]
    BY <1>1, <1>2
  <2>3. ASSUME NEW j \in 1 .. Len(s) - i
        PROVE  Tail(r)[j] = q[j]
    <3>1. j + 1 \in 1 .. Len(s) - i + 1 /\ i + (j + 1) - 1 = i + j
      OBVIOUS
    <3> QED  BY <3>1, <2>1, <2>2, <1>1
  <2>4. Tail(r) = q
    BY <2>1, <2>2, <2>3, SeqEqual
  <2> QED  BY <2>4 DEF q
<1> HIDE DEF r
<1>3. r # << >> /\ Head(r) = r[1]
  BY <1>1
<1>4. r[1] = s[i]
  <2>1. 1 \in 1 .. Len(s) - i + 1 /\ i + 1 - 1 = i
    OBVIOUS
  <2> QED  BY <2>1, <1>1
<1> QED  BY <1>1, <1>2, <1>3, <1>4 DEF r

\* One step after the other.
Orderly(op, s) ==
  /\ s # << >> /\ Head(s) \in AllSteps
  /\ Takes(op, Head(s))
  /\ Len(s) = 1 => Follows(op, Head(s), "idle")
  /\ Len(s) # 1 => Tail(s) \in Left(op) /\ Follows(op, Head(s), Head(Tail(s)))

InPath(op, path) ==
  /\ path \in Seq(AllSteps) /\ Len(path) > 0
  /\ \A i \in 1 .. Len(path) :
       /\ Takes(op, path[i])
       /\ IF i = Len(path) THEN Follows(op, path[i], "idle") ELSE Follows(op, path[i], path[i + 1])
  /\ path[1] \in {"find", "perm"} \/ (op = "create_namespace" /\ path[1] = "put")
  /\ op \in {"create_dir", "create_file", "create_link"} => path[1] = "perm"

LEMMA OpNames ==
  AllOps = {"create_namespace", "remove_namespace", "get_namespace", "create_dir", "remove_dir",
            "create_file", "create_link", "unlink", "lookup", "list_dir"}
BY DEF AllOps, naming_op_array

LEMMA InPaths == \A op \in AllOps : InPath(op, naming_op_array[op])
<1>1. InPath("create_namespace", naming_op_array["create_namespace"])
  <2> DEFINE path == <<"put", "putInode">>
  <2>1. naming_op_array["create_namespace"] = path
    BY Paths DEF naming_op_array
  <2>2. path \in Seq(AllSteps) /\ Len(path) = 2
    BY DEF AllSteps
  <2>3. path[1] = "put" /\ path[2] = "putInode"
    OBVIOUS
  <2> HIDE DEF path
  <2>4. ASSUME NEW i \in 1 .. 2
        PROVE  /\ Takes("create_namespace", path[i])
               /\ IF i = 2 THEN Follows("create_namespace", path[i], "idle")
                  ELSE Follows("create_namespace", path[i], path[i + 1])
    <3>1. i = 1 \/ i = 2
      OBVIOUS
    <3> QED  BY <3>1, <2>3 DEF Takes, Follows, Removals, Creations
  <2> QED  BY <2>1, <2>2, <2>3, <2>4 DEF InPath
<1>2. InPath("remove_namespace", naming_op_array["remove_namespace"])
  <2> DEFINE path == <<"find", "findInode", "perm", "permInode", "get", "getInode", "del", "delInode">>
  <2>1. naming_op_array["remove_namespace"] = path
    BY Paths DEF naming_op_array
  <2>2. path \in Seq(AllSteps) /\ Len(path) = 8
    BY DEF AllSteps
  <2>3. /\ path[1] = "find" /\ path[2] = "findInode" /\ path[3] = "perm" /\ path[4] = "permInode"
        /\ path[5] = "get" /\ path[6] = "getInode" /\ path[7] = "del" /\ path[8] = "delInode"
    OBVIOUS
  <2> HIDE DEF path
  <2>4. ASSUME NEW i \in 1 .. 8
        PROVE  /\ Takes("remove_namespace", path[i])
               /\ IF i = 8 THEN Follows("remove_namespace", path[i], "idle")
                  ELSE Follows("remove_namespace", path[i], path[i + 1])
    <3>1. i = 1 \/ i = 2 \/ i = 3 \/ i = 4 \/ i = 5 \/ i = 6 \/ i = 7 \/ i = 8
      OBVIOUS
    <3> QED  BY <3>1, <2>3 DEF Takes, Follows, Removals, Creations
  <2> QED  BY <2>1, <2>2, <2>3, <2>4 DEF InPath
<1>3. InPath("get_namespace", naming_op_array["get_namespace"])
  <2> DEFINE path == <<"find", "findInode">>
  <2>1. naming_op_array["get_namespace"] = path
    BY Paths DEF naming_op_array
  <2>2. path \in Seq(AllSteps) /\ Len(path) = 2
    BY DEF AllSteps
  <2>3. path[1] = "find" /\ path[2] = "findInode"
    OBVIOUS
  <2> HIDE DEF path
  <2>4. ASSUME NEW i \in 1 .. 2
        PROVE  /\ Takes("get_namespace", path[i])
               /\ IF i = 2 THEN Follows("get_namespace", path[i], "idle")
                  ELSE Follows("get_namespace", path[i], path[i + 1])
    <3>1. i = 1 \/ i = 2
      OBVIOUS
    <3> QED  BY <3>1, <2>3 DEF Takes, Follows, Removals, Creations
  <2> QED  BY <2>1, <2>2, <2>3, <2>4 DEF InPath
<1>4. InPath("create_dir", naming_op_array["create_dir"])
  <2> DEFINE path == <<"perm", "permInode", "put", "putInode">>
  <2>1. naming_op_array["create_dir"] = path
    BY Paths DEF naming_op_array
  <2>2. path \in Seq(AllSteps) /\ Len(path) = 4
    BY DEF AllSteps
  <2>3. path[1] = "perm" /\ path[2] = "permInode" /\ path[3] = "put" /\ path[4] = "putInode"
    OBVIOUS
  <2> HIDE DEF path
  <2>4. ASSUME NEW i \in 1 .. 4
        PROVE  /\ Takes("create_dir", path[i])
               /\ IF i = 4 THEN Follows("create_dir", path[i], "idle")
                  ELSE Follows("create_dir", path[i], path[i + 1])
    <3>1. i = 1 \/ i = 2 \/ i = 3 \/ i = 4
      OBVIOUS
    <3> QED  BY <3>1, <2>3 DEF Takes, Follows, Removals, Creations
  <2> QED  BY <2>1, <2>2, <2>3, <2>4 DEF InPath
<1>5. InPath("remove_dir", naming_op_array["remove_dir"])
  <2> DEFINE path == <<"perm", "permInode", "get", "getInode", "del", "delInode">>
  <2>1. naming_op_array["remove_dir"] = path
    BY Paths DEF naming_op_array
  <2>2. path \in Seq(AllSteps) /\ Len(path) = 6
    BY DEF AllSteps
  <2>3. /\ path[1] = "perm" /\ path[2] = "permInode" /\ path[3] = "get" /\ path[4] = "getInode"
        /\ path[5] = "del" /\ path[6] = "delInode"
    OBVIOUS
  <2> HIDE DEF path
  <2>4. ASSUME NEW i \in 1 .. 6
        PROVE  /\ Takes("remove_dir", path[i])
               /\ IF i = 6 THEN Follows("remove_dir", path[i], "idle")
                  ELSE Follows("remove_dir", path[i], path[i + 1])
    <3>1. i = 1 \/ i = 2 \/ i = 3 \/ i = 4 \/ i = 5 \/ i = 6
      OBVIOUS
    <3> QED  BY <3>1, <2>3 DEF Takes, Follows, Removals, Creations
  <2> QED  BY <2>1, <2>2, <2>3, <2>4 DEF InPath
<1>6. InPath("create_file", naming_op_array["create_file"])
  <2> DEFINE path == <<"perm", "permInode", "put", "putInode", "check">>
  <2>1. naming_op_array["create_file"] = path
    BY Paths DEF naming_op_array
  <2>2. path \in Seq(AllSteps) /\ Len(path) = 5
    BY DEF AllSteps
  <2>3. /\ path[1] = "perm" /\ path[2] = "permInode" /\ path[3] = "put" /\ path[4] = "putInode"
        /\ path[5] = "check"
    OBVIOUS
  <2> HIDE DEF path
  <2>4. ASSUME NEW i \in 1 .. 5
        PROVE  /\ Takes("create_file", path[i])
               /\ IF i = 5 THEN Follows("create_file", path[i], "idle")
                  ELSE Follows("create_file", path[i], path[i + 1])
    <3>1. i = 1 \/ i = 2 \/ i = 3 \/ i = 4 \/ i = 5
      OBVIOUS
    <3> QED  BY <3>1, <2>3 DEF Takes, Follows, Removals, Creations
  <2> QED  BY <2>1, <2>2, <2>3, <2>4 DEF InPath
<1>7. InPath("create_link", naming_op_array["create_link"])
  <2> DEFINE path == <<"perm", "permInode", "permTarget", "permInode", "get", "getInode",
                       "put", "incGet", "incPut">>
  <2>1. naming_op_array["create_link"] = path
    BY Paths DEF naming_op_array
  <2>2. path \in Seq(AllSteps) /\ Len(path) = 9
    BY DEF AllSteps
  <2>3. /\ path[1] = "perm" /\ path[2] = "permInode" /\ path[3] = "permTarget" /\ path[4] = "permInode"
        /\ path[5] = "get" /\ path[6] = "getInode" /\ path[7] = "put" /\ path[8] = "incGet"
        /\ path[9] = "incPut"
    OBVIOUS
  <2> HIDE DEF path
  <2>4. ASSUME NEW i \in 1 .. 9
        PROVE  /\ Takes("create_link", path[i])
               /\ IF i = 9 THEN Follows("create_link", path[i], "idle")
                  ELSE Follows("create_link", path[i], path[i + 1])
    <3>1. i = 1 \/ i = 2 \/ i = 3 \/ i = 4 \/ i = 5 \/ i = 6 \/ i = 7 \/ i = 8 \/ i = 9
      OBVIOUS
    <3> QED  BY <3>1, <2>3 DEF Takes, Follows, Removals, Creations
  <2> QED  BY <2>1, <2>2, <2>3, <2>4 DEF InPath
<1>8. InPath("unlink", naming_op_array["unlink"])
  <2> DEFINE path == <<"perm", "permInode", "get", "getInode", "del", "delInode">>
  <2>1. naming_op_array["unlink"] = path
    BY Paths DEF naming_op_array
  <2>2. path \in Seq(AllSteps) /\ Len(path) = 6
    BY DEF AllSteps
  <2>3. /\ path[1] = "perm" /\ path[2] = "permInode" /\ path[3] = "get" /\ path[4] = "getInode"
        /\ path[5] = "del" /\ path[6] = "delInode"
    OBVIOUS
  <2> HIDE DEF path
  <2>4. ASSUME NEW i \in 1 .. 6
        PROVE  /\ Takes("unlink", path[i])
               /\ IF i = 6 THEN Follows("unlink", path[i], "idle")
                  ELSE Follows("unlink", path[i], path[i + 1])
    <3>1. i = 1 \/ i = 2 \/ i = 3 \/ i = 4 \/ i = 5 \/ i = 6
      OBVIOUS
    <3> QED  BY <3>1, <2>3 DEF Takes, Follows, Removals, Creations
  <2> QED  BY <2>1, <2>2, <2>3, <2>4 DEF InPath
<1>9. InPath("lookup", naming_op_array["lookup"])
  <2> DEFINE path == <<"perm", "permInode", "get", "getInode">>
  <2>1. naming_op_array["lookup"] = path
    BY Paths DEF naming_op_array
  <2>2. path \in Seq(AllSteps) /\ Len(path) = 4
    BY DEF AllSteps
  <2>3. path[1] = "perm" /\ path[2] = "permInode" /\ path[3] = "get" /\ path[4] = "getInode"
    OBVIOUS
  <2> HIDE DEF path
  <2>4. ASSUME NEW i \in 1 .. 4
        PROVE  /\ Takes("lookup", path[i])
               /\ IF i = 4 THEN Follows("lookup", path[i], "idle")
                  ELSE Follows("lookup", path[i], path[i + 1])
    <3>1. i = 1 \/ i = 2 \/ i = 3 \/ i = 4
      OBVIOUS
    <3> QED  BY <3>1, <2>3 DEF Takes, Follows, Removals, Creations
  <2> QED  BY <2>1, <2>2, <2>3, <2>4 DEF InPath
<1>10. InPath("list_dir", naming_op_array["list_dir"])
  <2> DEFINE path == <<"perm", "permInode", "size", "fetch">>
  <2>1. naming_op_array["list_dir"] = path
    BY Paths DEF naming_op_array
  <2>2. path \in Seq(AllSteps) /\ Len(path) = 4
    BY DEF AllSteps
  <2>3. path[1] = "perm" /\ path[2] = "permInode" /\ path[3] = "size" /\ path[4] = "fetch"
    OBVIOUS
  <2> HIDE DEF path
  <2>4. ASSUME NEW i \in 1 .. 4
        PROVE  /\ Takes("list_dir", path[i])
               /\ IF i = 4 THEN Follows("list_dir", path[i], "idle")
                  ELSE Follows("list_dir", path[i], path[i + 1])
    <3>1. i = 1 \/ i = 2 \/ i = 3 \/ i = 4
      OBVIOUS
    <3> QED  BY <3>1, <2>3 DEF Takes, Follows, Removals, Creations
  <2> QED  BY <2>1, <2>2, <2>3, <2>4 DEF InPath
<1> QED  BY <1>1, <1>2, <1>3, <1>4, <1>5, <1>6, <1>7, <1>8, <1>9, <1>10, OpNames

LEMMA Order ==
  ASSUME NEW op \in AllOps, NEW s \in Left(op)
  PROVE  Orderly(op, s)
<1> DEFINE path == naming_op_array[op]
<1>0. PICK i \in 1 .. Len(path) : s = SubSeq(path, i, Len(path))
  BY DEF Left
<1>1. InPath(op, path)
  BY InPaths
<1> HIDE DEF path
<1>2. path \in Seq(AllSteps)
  BY <1>1 DEF InPath
<1>3. /\ s # << >> /\ Head(s) = path[i]
      /\ Len(s) = Len(path) - i + 1
      /\ i < Len(path) => Tail(s) = SubSeq(path, i + 1, Len(path))
  BY <1>0, <1>2, Suffixes
<1>4. path[i] \in AllSteps
  BY <1>2
<1>5. ASSUME Len(s) = 1
      PROVE  Follows(op, Head(s), "idle")
  <2>0. Len(path) \in Nat
    BY <1>2
  <2>1. i = Len(path)
    <3>1. Len(path) - i + 1 = 1
      BY <1>3, <1>5
    <3> QED  BY <3>1, <2>0
  <2> QED  BY <2>1, <1>1, <1>3 DEF InPath
<1>6. ASSUME Len(s) # 1
      PROVE  Tail(s) \in Left(op) /\ Follows(op, Head(s), Head(Tail(s)))
  <2>1. i < Len(path) /\ i + 1 \in 1 .. Len(path)
    BY <1>3, <1>6, <1>2
  <2>2. Tail(s) = SubSeq(path, i + 1, Len(path))
    BY <2>1, <1>3
  <2>3. Head(Tail(s)) = path[i + 1]
    BY <2>1, <2>2, <1>2, Suffixes
  <2>4. Tail(s) \in Left(op)
    BY <2>1, <2>2 DEF Left, path
  <2>5. Follows(op, path[i], path[i + 1])
    BY <2>1, <1>1, <1>2 DEF InPath
  <2> QED  BY <2>3, <2>4, <2>5, <1>3
<1> QED  BY <1>1, <1>3, <1>4, <1>5, <1>6 DEF Orderly, InPath

LEMMA FirstStep ==
  ASSUME NEW op \in AllOps
  PROVE  /\ naming_op_array[op] \in Left(op)
         /\ \/ Head(naming_op_array[op]) \in {"find", "perm"}
            \/ op = "create_namespace" /\ Head(naming_op_array[op]) = "put"
         /\ op \in {"create_dir", "create_file", "create_link"} => Head(naming_op_array[op]) = "perm"
<1> DEFINE path == naming_op_array[op]
<1>1. InPath(op, path)
  BY InPaths
<1> HIDE DEF path
<1>2. path \in Seq(AllSteps) /\ Len(path) > 0
  BY <1>1 DEF InPath
<1>3. 1 \in 1 .. Len(path) /\ SubSeq(path, 1, Len(path)) = path
  BY <1>2, SubSeqFull
<1>4. path \in Left(op)
  BY <1>3 DEF Left, path
<1>5. Head(path) = path[1]
  BY <1>2
<1> QED  BY <1>1, <1>4, <1>5 DEF InPath, path

-----------------------------------------------------------------------------
(* The threads.                                                            *)

Thread == [todo : Todos, op : AllOps \cup {"none"},
           parent : Oids, name : Names \cup BuiltinNames,
           tparent : Oids, tname : Names \cup BuiltinNames,
           ent : Dirent, count : Counts]

\* Every thread is idle or somewhere on the path of its operation.
ThreadsOK ==
  /\ th \in [Threads -> Thread]
  /\ \A t \in Threads : Busy(t) => th[t].op \in AllOps /\ th[t].todo \in Left(th[t].op)

\* The thread t comes to the step y with the entry e and the count n, or is done.
Moved(t, y, e, n) ==
  /\ \A u \in Threads : u # t => th'[u] = th[u] /\ Now(u)' = Now(u)
  /\ Now(t)' = y
  /\ y = "idle" => th'[t] = Idle
  /\ y # "idle" => /\ th'[t].op = th[t].op /\ th'[t].op \in AllOps /\ th'[t].todo \in Left(th[t].op)
                   /\ th'[t].parent = th[t].parent /\ th'[t].name = th[t].name
                   /\ th'[t].tparent = th[t].tparent /\ th'[t].tname = th[t].tname
                   /\ th'[t].ent = e /\ th'[t].count = n

LEMMA Bounds == MaxOps \in Nat /\ Oids = 0 .. 2 + MaxOps /\ Counts = 0 .. MaxOps
BY NamingAssumption DEF Oids, Counts, ORPHANS

LEMMA IdleIsThread == Idle \in Thread
<1>1. NoEntry \in Dirent
  BY Bounds DEF NoEntry, Builtin, None, ROOT_OID, Dirent, BuiltinNames
<1>2. << >> \in Todos
  BY DEF Todos
<1> QED  BY <1>1, <1>2, Bounds DEF Idle, Thread, BuiltinNames, None

LEMMA LeftIsTodo == \A op \in AllOps : Left(op) \subseteq Todos
BY DEF Left, Todos

\* A busy thread has a next step.
LEMMA BusyNow ==
  ASSUME ThreadsOK, NEW t \in Threads
  PROVE  /\ Busy(t) <=> Now(t) # "idle"
         /\ Busy(t) => /\ Now(t) = Head(th[t].todo) /\ Now(t) \in AllSteps
                       /\ Takes(th[t].op, Now(t)) /\ Orderly(th[t].op, th[t].todo)
         /\ ~Busy(t) => th[t] = Idle
<1>1. ASSUME Busy(t)
      PROVE  /\ Now(t) = Head(th[t].todo) /\ Now(t) \in AllSteps /\ Now(t) # "idle"
             /\ Takes(th[t].op, Now(t)) /\ Orderly(th[t].op, th[t].todo)
  <2>1. Orderly(th[t].op, th[t].todo)
    BY <1>1, Order DEF ThreadsOK
  <2>2. Now(t) = Head(th[t].todo)
    BY <1>1 DEF Busy, Now
  <2> QED  BY <2>1, <2>2 DEF Orderly, AllSteps
<1> QED  BY <1>1 DEF Busy, Now, IsIdle

LEMMA AtNow ==
  ASSUME ThreadsOK, NEW t \in Threads, NEW x, At(t, x)
  PROVE  Busy(t) /\ Now(t) = x /\ ~aborted /\ Takes(th[t].op, x) /\ th[t].op \in AllOps
BY BusyNow DEF At, Busy, ThreadsOK

LEMMA Failing ==
  ASSUME ThreadsOK, NEW t \in Threads, Fail(t) \/ \E S : Reply(t, S)
  PROVE  /\ Moved(t, "idle", th[t].ent, th[t].count)
         /\ th' \in [Threads -> Thread]
<1>1. th' = [th EXCEPT ![t] = Idle]
  BY DEF Fail, Reply
<1>2. th' \in [Threads -> Thread] /\ th'[t] = Idle /\ \A u \in Threads : u # t => th'[u] = th[u]
  BY <1>1, IdleIsThread DEF ThreadsOK
<1>3. Now(t)' = "idle" /\ \A u \in Threads : u # t => Now(u)' = Now(u)
  BY <1>2 DEF Now, IsIdle
<1> QED  BY <1>2, <1>3 DEF Moved

LEMMA Proceeding ==
  ASSUME ThreadsOK, NEW t \in Threads, Busy(t), NEW e \in Dirent, NEW n \in Counts, Proceed(t, e, n)
  PROVE  /\ th' \in [Threads -> Thread]
         /\ handles' = handles \/ handles' = handles \cup {e}
         /\ \E y : Follows(th[t].op, Now(t), y) /\ Moved(t, y, e, n)
<1> DEFINE s == th[t].todo
<1>1. Orderly(th[t].op, s) /\ Now(t) = Head(s)
  BY BusyNow
<1>2. CASE Len(s) = 1
  <2>1. Reply(t, {e})
    BY <1>2 DEF Proceed
  <2>2. Moved(t, "idle", e, n) /\ th' \in [Threads -> Thread]
    BY <2>1, Failing DEF Moved
  <2> QED  BY <2>1, <2>2, <1>1, <1>2 DEF Orderly, Reply
<1>3. CASE Len(s) # 1
  <2>1. th' = [th EXCEPT ![t].todo = Tail(@), ![t].ent = e, ![t].count = n] /\ handles' = handles
    BY <1>3 DEF Proceed
  <2>2. th[t] \in Thread /\ th[t].op \in AllOps
    BY DEF ThreadsOK
  <2>3. Tail(s) \in Left(th[t].op) /\ Follows(th[t].op, Now(t), Head(Tail(s)))
    BY <1>1, <1>3 DEF Orderly
  <2>4. Tail(s) \in Todos
    BY <2>2, <2>3, LeftIsTodo
  <2>5. /\ th' \in [Threads -> Thread] /\ \A u \in Threads : u # t => th'[u] = th[u]
        /\ th'[t] = [th[t] EXCEPT !.todo = Tail(s), !.ent = e, !.count = n]
    BY <2>1, <2>2, <2>4 DEF ThreadsOK, Thread
  <2>6. /\ th'[t].op = th[t].op /\ th'[t].todo = Tail(s)
        /\ th'[t].parent = th[t].parent /\ th'[t].name = th[t].name
        /\ th'[t].tparent = th[t].tparent /\ th'[t].tname = th[t].tname
        /\ th'[t].ent = e /\ th'[t].count = n
    BY <2>2, <2>5 DEF Thread
  <2>7. Orderly(th[t].op, Tail(s))
    BY <2>2, <2>3, Order
  <2>8. th'[t] # Idle
    <3>1. Idle.todo = << >>
      BY DEF Idle
    <3> QED  BY <3>1, <2>6, <2>7 DEF Orderly
  <2>9. Now(t)' = Head(Tail(s)) /\ Now(t)' # "idle"
    BY <2>6, <2>7, <2>8 DEF Now, IsIdle, Orderly, AllSteps
  <2>10. \A u \in Threads : u # t => Now(u)' = Now(u)
    BY <2>5 DEF Now, IsIdle
  <2>11. Moved(t, Head(Tail(s)), e, n)
    BY <2>2, <2>3, <2>5, <2>6, <2>9, <2>10 DEF Moved
  <2> QED  BY <2>1, <2>3, <2>5, <2>11
<1> QED  BY <1>2, <1>3

\* What Moved leaves true.
LEMMA MovedOK ==
  ASSUME ThreadsOK, NEW t \in Threads, NEW y, NEW e, NEW n, Moved(t, y, e, n),
         th' \in [Threads -> Thread]
  PROVE  ThreadsOK'
<1>1. ASSUME NEW u \in Threads, Busy(u)'
      PROVE  (th[u].op \in AllOps /\ th[u].todo \in Left(th[u].op))'
  <2>1. CASE u = t
    <3>1. y # "idle"
      BY <2>1, <1>1 DEF Moved, Busy, IsIdle
    <3> QED  BY <3>1, <2>1 DEF Moved
  <2>2. CASE u # t
    BY <2>2, <1>1 DEF Moved, Busy, IsIdle, ThreadsOK
  <2> QED  BY <2>1, <2>2
<1> QED  BY <1>1 DEF ThreadsOK

-----------------------------------------------------------------------------
(* Quiet and changing steps.                                               *)

Base == TypeInv /\ ThreadsOK

\* Each entry of a directory but the root's has an oid of its own.
LEMMA ChildrenBound ==
  ASSUME TypeInv, NEW p \in Oids, p # ROOT_OID
  PROVE  IsFiniteSet(Children(p)) /\ Cardinality(Children(p)) \in Counts
<1> DEFINE S == Children(p)
           T == 3 .. lastOid
           f == [d \in S |-> d.oid]
<1>1. lastOid \in Nat /\ started \in Nat /\ lastOid - 2 <= started /\ started <= MaxOps /\ lastOid >= 2
  BY Bounds DEF TypeInv, TypeOK, ORPHANS
<1>2. S \subseteq AllEntries /\ S \subseteq Dirent /\ \A d \in S : d.parent # ROOT_OID
  BY DEF Children, AllEntries, TypeInv, TypeOK
<1>3. \A d \in S : d.oid \in Oids /\ d.oid <= lastOid /\ d.oid > 2
  BY <1>2 DEF TypeInv, EntriesNumbered, Numbered, ORPHANS, Dirent
<1>4. f \in [S -> T]
  BY <1>1, <1>3, Bounds
<1>5. \A d, e \in S : f[d] = f[e] => d = e
  BY <1>2 DEF TypeInv, EntriesNumbered, OneEntryPerOid
<1>6. f \in Injection(S, T)
  BY <1>4, <1>5 DEF Injection, IsInjective
<1>7. IsFiniteSet(T) /\ Cardinality(T) <= lastOid - 2
  <2>1. 3 \in Int /\ lastOid \in Int
    BY <1>1
  <2>2. IsFiniteSet(T) /\ Cardinality(T) = IF 3 > lastOid THEN 0 ELSE lastOid - 3 + 1
    BY <2>1, FS_Interval
  <2> QED  BY <2>2, <1>1
<1> HIDE DEF f, S, T
<1>8. IsFiniteSet(S) /\ Cardinality(S) <= Cardinality(T)
  BY <1>6, <1>7, FS_Injection
<1>9. Cardinality(S) \in Nat /\ Cardinality(T) \in Nat
  BY <1>7, <1>8, FS_CardinalityType
<1> QED  BY <1>1, <1>7, <1>8, <1>9, Bounds DEF S

\* A put finds a free oid.
LEMMA NewEntryOK ==
  ASSUME Base, NEW t \in Threads, At(t, "put")
  PROVE  NewEntry(t) \in Dirent /\ lastOid + 1 \in Oids /\ lastOid + 1 <= ORPHANS + started
<1>1. t \in PutsLeft
  BY AtNow DEF PutsLeft, Base, Takes
<1>2. IsFiniteSet(PutsLeft) /\ lastOid - 2 + Cardinality(PutsLeft) <= started
  BY DEF Base, TypeInv, Room, ORPHANS
<1>3. Cardinality(PutsLeft) # 0 /\ Cardinality(PutsLeft) \in Nat
  BY <1>1, <1>2, FS_EmptySet, FS_CardinalityType
<1>4. lastOid \in Nat /\ started \in Nat /\ started <= MaxOps
  BY Bounds DEF Base, TypeInv, TypeOK, ORPHANS
<1>5. lastOid + 1 \in Oids /\ lastOid + 1 <= ORPHANS + started
  BY <1>2, <1>3, <1>4, Bounds DEF ORPHANS
<1>6. th[t] \in Thread /\ th[t].ent \in Dirent /\ 0 \in Oids
  BY Bounds DEF Base, ThreadsOK, Thread
<1> QED  BY <1>5, <1>6 DEF NewEntry, Thread, Dirent, None

\* The steps that leave both databases as they are ...
QuietSteps == {"find", "findInode", "perm", "permInode", "permTarget", "get", "getInode", "check",
               "incGet", "del", "size", "fetch"}

\* ... and what a thread knows after one that was not its last.
Learned(t, x, e, n) ==
  LET r == th[t]
  IN  /\ x = "find" => e \in ByName(ROOT_OID, r.name)
      /\ x \in {"perm", "permTarget"} => e \in ByOid(Checked(t))
      /\ x = "get" => e \in IF r.op = "create_link" THEN ByName(r.tparent, r.tname)
                            ELSE ByName(r.parent, r.name)
      /\ x \in {"getInode", "incGet"} => Stored(r.ent.inode) /\ n = inodes[r.ent.inode]
      /\ x \in {"findInode", "permInode", "getInode", "incGet", "size"} => e = r.ent

Quiet(t) ==
  \E x \in QuietSteps, e \in Dirent, n \in Counts : \E y :
    /\ At(t, x) /\ Moved(t, y, e, n) /\ th' \in [Threads -> Thread]
    /\ e \in dirents \cup {th[t].ent}
    /\ handles' \subseteq handles \cup dirents \cup {th[t].ent}
    /\ UNCHANGED <<dirents, inodes, lastOid, aborted, started>>
    /\ y = "idle" /\ x = "incGet" => ~Stored(th[t].ent.inode)
    /\ x = "del" => y = "idle"
    /\ y # "idle" => Follows(th[t].op, x, y) /\ Learned(t, x, e, n)

Gone(t, x) ==
  /\ At(t, x) /\ x \in QuietSteps /\ Fail(t)
  /\ x = "incGet" => ~Stored(th[t].ent.inode)
  /\ UNCHANGED <<dirents, inodes, lastOid, aborted, started>>

Passed(t, x, e, n) ==
  /\ At(t, x) /\ x \in QuietSteps \ {"del"} /\ Proceed(t, e, n)
  /\ e \in dirents \cup {th[t].ent} /\ n \in Counts
  /\ UNCHANGED <<dirents, inodes, lastOid, aborted, started>>
  /\ Learned(t, x, e, n)

LEMMA GoneIsQuiet ==
  ASSUME Base, NEW t \in Threads, NEW x, Gone(t, x)
  PROVE  Quiet(t)
<1>1. th[t].ent \in Dirent /\ th[t].count \in Counts
  BY DEF Base, ThreadsOK, Thread
<1>2. Moved(t, "idle", th[t].ent, th[t].count) /\ th' \in [Threads -> Thread]
  BY Failing DEF Gone, Base
<1>3. handles' = handles
  BY DEF Gone, Fail
<1> QED  BY <1>1, <1>2, <1>3 DEF Gone, Quiet

LEMMA PassedIsQuiet ==
  ASSUME Base, NEW t \in Threads, NEW x, NEW e, NEW n, Passed(t, x, e, n)
  PROVE  Quiet(t)
<1>1. th[t].ent \in Dirent /\ dirents \subseteq Dirent
  BY DEF Base, ThreadsOK, Thread, TypeInv, TypeOK
<1>2. e \in Dirent /\ n \in Counts
  BY <1>1 DEF Passed
<1>3. Busy(t) /\ Now(t) = x
  BY AtNow DEF Passed, Base
<1>4. PICK y : /\ Follows(th[t].op, x, y) /\ Moved(t, y, e, n) /\ th' \in [Threads -> Thread]
               /\ handles' = handles \/ handles' = handles \cup {e}
  BY <1>2, <1>3, Proceeding DEF Passed, Base
<1>5. ~(y = "idle" /\ x = "incGet")
  BY <1>4 DEF Follows
<1> QED  BY <1>2, <1>4, <1>5 DEF Passed, Quiet

LEMMA QuietActions ==
  ASSUME Base, NEW t \in Threads,
         \/ Find(t) \/ FindInode(t) \/ Perm(t) \/ PermInode(t) \/ Get(t) \/ GetInode(t) \/ Check(t)
         \/ IncGet(t) \/ Size(t)
  PROVE  Quiet(t)
<1> DEFINE r == th[t]
<1>1. SUFFICES (\E x : Gone(t, x)) \/ (\E x, e, n : Passed(t, x, e, n))
  BY GoneIsQuiet, PassedIsQuiet
<1>2. /\ r.count \in Counts /\ r.ent.inode \in Oids /\ r.parent \in Oids
      /\ inodes \in [Oids -> Counts \cup {Absent}]
  BY DEF Base, ThreadsOK, Thread, TypeInv, TypeOK, Dirent
<1>3. Stored(r.ent.inode) => inodes[r.ent.inode] \in Counts
  BY <1>2 DEF Stored
<1>4. \A x : At(t, x) => Now(t) = x
  BY AtNow DEF Base
<1>5. \A x, y : At(t, x) /\ At(t, y) => x = y
  BY <1>4
<1>6. CASE Find(t)
  <2>1. CASE Fail(t)
    BY <1>6, <2>1 DEF Find, Gone, QuietSteps, db, rest
  <2>2. ASSUME NEW d \in ByName(ROOT_OID, r.name), Found(t, d)
        PROVE  Passed(t, "find", d, r.count)
    BY <1>6, <2>2, <1>2 DEF Find, Found, Passed, QuietSteps, db, rest, Learned, ByName
  <2> QED  BY <1>6, <2>1, <2>2 DEF Find
<1>7. CASE FindInode(t)
  <2>1. CASE ~Stored(r.ent.inode)
    BY <1>7, <2>1 DEF FindInode, Gone, QuietSteps, db, rest
  <2>2. CASE Stored(r.ent.inode)
    <3>1. Passed(t, "findInode", r.ent, r.count)
      BY <1>7, <2>2, <1>2 DEF FindInode, Pass, Found, Passed, QuietSteps, db, rest, Learned
    <3> QED  BY <3>1
  <2> QED  BY <2>1, <2>2
<1>8. CASE Perm(t)
  <2>0. PICK x \in {"perm", "permTarget"} : At(t, x)
    BY <1>8 DEF Perm
  <2>1. CASE Fail(t)
    <3>1. Gone(t, x)
      BY <1>8, <2>0, <2>1 DEF Perm, Gone, QuietSteps, db, rest
    <3> QED  BY <3>1
  <2>2. ASSUME NEW d \in ByOid(Checked(t)), Found(t, d)
        PROVE  Passed(t, x, d, r.count)
    BY <1>8, <2>0, <2>2, <1>2 DEF Perm, Found, Passed, QuietSteps, db, rest, Learned, ByOid
  <2> QED  BY <1>8, <2>1, <2>2 DEF Perm
<1>9. CASE PermInode(t)
  <2>1. CASE Fail(t)
    BY <1>9, <2>1 DEF PermInode, Gone, QuietSteps, db, rest
  <2>2. CASE Pass(t)
    <3>1. Passed(t, "permInode", r.ent, r.count)
      BY <1>9, <2>2, <1>2 DEF PermInode, Pass, Found, Passed, QuietSteps, db, rest, Learned
    <3> QED  BY <3>1
  <2> QED  BY <1>9, <2>1, <2>2 DEF PermInode
<1>10. CASE Get(t)
  <2> DEFINE Hits == IF r.op = "create_link" THEN ByName(r.tparent, r.tname)
                     ELSE ByName(r.parent, r.name)
  <2>1. CASE Fail(t)
    BY <1>10, <2>1 DEF Get, Gone, QuietSteps, db, rest
  <2>2. ASSUME NEW d \in Hits, Found(t, d)
        PROVE  Passed(t, "get", d, r.count)
    BY <1>10, <2>2, <1>2 DEF Get, Found, Passed, QuietSteps, db, rest, Learned, ByName
  <2> QED  BY <1>10, <2>1, <2>2 DEF Get
<1>11. CASE GetInode(t)
  <2>1. CASE ~Stored(r.ent.inode)
    BY <1>11, <2>1 DEF GetInode, Gone, QuietSteps, db, rest
  <2>2. CASE Stored(r.ent.inode)
    <3>1. Passed(t, "getInode", r.ent, inodes[r.ent.inode])
      BY <1>11, <2>2, <1>3 DEF GetInode, Passed, QuietSteps, db, rest, Learned
    <3> QED  BY <3>1
  <2> QED  BY <2>1, <2>2
<1>12. CASE Check(t)
  <2>1. CASE Fail(t)
    BY <1>12, <2>1 DEF Check, Gone, QuietSteps, db, rest
  <2>2. CASE Pass(t)
    <3>1. Passed(t, "check", r.ent, r.count)
      BY <1>12, <2>2, <1>2 DEF Check, Pass, Found, Passed, QuietSteps, db, rest, Learned
    <3> QED  BY <3>1
  <2> QED  BY <1>12, <2>1, <2>2 DEF Check
<1>13. CASE IncGet(t)
  <2>1. CASE ~Stored(r.ent.inode)
    BY <1>13, <2>1 DEF IncGet, Gone, QuietSteps, db, rest
  <2>2. CASE Stored(r.ent.inode)
    <3>1. Passed(t, "incGet", r.ent, inodes[r.ent.inode])
      BY <1>13, <2>2, <1>3 DEF IncGet, Passed, QuietSteps, db, rest, Learned
    <3> QED  BY <3>1
  <2> QED  BY <2>1, <2>2
<1>14. CASE Size(t)
  <2> DEFINE k == Cardinality(Children(r.parent))
  <2>1. CASE k = 0
    BY <1>14, <2>1 DEF Size, Gone, QuietSteps, db, rest
  <2>2. CASE k # 0
    <3>1. r.op = "list_dir"
      BY <1>14, AtNow DEF Size, Takes, Base
    <3>2. r.parent # ROOT_OID
      BY <3>1 DEF Base, TypeInv, KnownEntry
    <3>3. k \in Counts
      BY <3>2, <1>2, ChildrenBound DEF Base
    <3>4. Passed(t, "size", r.ent, k)
      BY <1>14, <2>2, <3>3 DEF Size, Passed, QuietSteps, db, rest, Learned
    <3> QED  BY <3>4
  <2> QED  BY <2>1, <2>2
<1> QED  BY <1>6, <1>7, <1>8, <1>9, <1>10, <1>11, <1>12, <1>13, <1>14

\* The listing hands out what it has found.
LEMMA FetchIsQuiet ==
  ASSUME Base, NEW t \in Threads, Fetch(t)
  PROVE  Quiet(t)
<1>1. th[t].ent \in Dirent /\ th[t].count \in Counts
  BY DEF Base, ThreadsOK, Thread
<1>2. Moved(t, "idle", th[t].ent, th[t].count) /\ th' \in [Threads -> Thread]
  BY Failing DEF Fetch, Base
<1>3. handles' \subseteq handles \cup dirents
  BY DEF Fetch, Fail, Reply, Listings, Children
<1>4. At(t, "fetch") /\ UNCHANGED <<dirents, inodes, lastOid, aborted, started>>
  BY DEF Fetch, db
<1> QED  BY <1>1, <1>2, <1>3, <1>4 DEF Quiet, QuietSteps

\* The steps that change a database.
PutFails(t) ==
  /\ At(t, "put") /\ ByName(th[t].parent, th[t].name) # {}
  /\ Moved(t, "idle", th[t].ent, th[t].count)
  /\ lastOid' = lastOid + 1 /\ UNCHANGED <<dirents, inodes, aborted, started, handles>>

PutDone(t) ==
  /\ At(t, "put") /\ ByName(th[t].parent, th[t].name) = {}
  /\ \E y : Follows(th[t].op, "put", y) /\ Moved(t, y, NewEntry(t), th[t].count)
  /\ dirents' = dirents \cup {NewEntry(t)}
  /\ lastOid' = lastOid + 1 /\ UNCHANGED <<inodes, aborted, started>>
  /\ handles' \subseteq handles \cup {NewEntry(t)}

\* The steps whose entry and count stay.
Continues(t, x) ==
  /\ At(t, x)
  /\ \E y : Follows(th[t].op, x, y) /\ Moved(t, y, th[t].ent, th[t].count)
  /\ handles' \subseteq handles \cup {th[t].ent}
  /\ UNCHANGED <<lastOid, started>>

PutInodeDone(t) == Continues(t, "putInode") /\ PutCount(th[t].ent.inode, 1)
                   /\ UNCHANGED <<dirents, aborted>>
IncPutDone(t) == Continues(t, "incPut") /\ PutCount(th[t].ent.inode, th[t].count + 1)
                 /\ UNCHANGED <<dirents, aborted>>
DelDone(t) == /\ Continues(t, "del") /\ th[t].ent \in dirents /\ dirents' = dirents \ {th[t].ent}
              /\ UNCHANGED <<inodes, aborted>>
DelInodeDone(t) ==
  LET count == th[t].count - 1
  IN  /\ Continues(t, "delInode") /\ UNCHANGED dirents
      /\ \/ count = 0 /\ PutCount(th[t].ent.inode, Absent)
         \/ count > 0 /\ PutCount(th[t].ent.inode, count)
         \/ count < 0 /\ UNCHANGED inodes
      /\ aborted' = (count < 0)

Changing(t) == PutFails(t) \/ PutDone(t) \/ PutInodeDone(t) \/ IncPutDone(t) \/ DelDone(t)
               \/ DelInodeDone(t)

LEMMA Passing ==
  ASSUME Base, NEW t \in Threads, NEW x, At(t, x), Pass(t), UNCHANGED <<lastOid, started>>
  PROVE  Continues(t, x) /\ th' \in [Threads -> Thread]
<1>1. th[t].ent \in Dirent /\ th[t].count \in Counts
  BY DEF Base, ThreadsOK, Thread
<1>2. Busy(t) /\ Now(t) = x
  BY AtNow DEF Base
<1>3. /\ \E y : Follows(th[t].op, x, y) /\ Moved(t, y, th[t].ent, th[t].count)
      /\ th' \in [Threads -> Thread]
      /\ handles' = handles \/ handles' = handles \cup {th[t].ent}
  BY <1>1, <1>2, Proceeding DEF Pass, Found, Base
<1> QED  BY <1>3 DEF Continues

LEMMA Steps ==
  ASSUME Base, NEW t \in Threads, Step(t)
  PROVE  (Quiet(t) \/ Changing(t)) /\ th' \in [Threads -> Thread]
<1>1. Quiet(t) => th' \in [Threads -> Thread]
  BY DEF Quiet
<1>2. CASE Put(t)
  <2>1. CASE ByName(th[t].parent, th[t].name) # {}
    <3>1. Moved(t, "idle", th[t].ent, th[t].count) /\ th' \in [Threads -> Thread]
      BY <1>2, <2>1, Failing DEF Put, Base
    <3> QED  BY <1>2, <2>1, <3>1 DEF Put, Fail, PutFails, Changing
  <2>2. CASE ByName(th[t].parent, th[t].name) = {}
    <3>1. NewEntry(t) \in Dirent /\ th[t].count \in Counts /\ Busy(t) /\ Now(t) = "put"
      BY <1>2, NewEntryOK, AtNow DEF Base, ThreadsOK, Thread, Put
    <3>2. Proceed(t, NewEntry(t), th[t].count)
      BY <1>2, <2>2 DEF Put, Found
    <3>3. /\ \E y : Follows(th[t].op, "put", y) /\ Moved(t, y, NewEntry(t), th[t].count)
          /\ th' \in [Threads -> Thread]
          /\ handles' = handles \/ handles' = handles \cup {NewEntry(t)}
      BY <3>1, <3>2, Proceeding DEF Base
    <3> QED  BY <1>2, <2>2, <3>3 DEF Put, PutDone, Changing
  <2> QED  BY <2>1, <2>2
<1>3. CASE PutInode(t)
  BY <1>3, Passing DEF PutInode, PutInodeDone, Changing, rest
<1>4. CASE IncPut(t)
  BY <1>4, Passing DEF IncPut, IncPutDone, Changing, rest
<1>5. CASE Del(t)
  <2>1. CASE th[t].ent \in dirents
    BY <1>5, <2>1, Passing DEF Del, DelDone, Changing, rest
  <2>2. CASE th[t].ent \notin dirents
    <3>1. Gone(t, "del")
      BY <1>5, <2>2 DEF Del, Gone, QuietSteps, rest
    <3> QED  BY <1>1, <3>1, GoneIsQuiet
  <2> QED  BY <2>1, <2>2
<1>6. CASE DelInode(t)
  BY <1>6, Passing DEF DelInode, DelInodeDone, Changing
<1> QED  BY <1>1, <1>2, <1>3, <1>4, <1>5, <1>6, QuietActions, FetchIsQuiet DEF Step

-----------------------------------------------------------------------------
(* Types and room: what each part of the type invariant needs.             *)

LEMMA DirentParts ==
  \A d \in Dirent : /\ d.oid \in Oids /\ d.parent \in Oids /\ d.inode \in Oids
                    /\ d.oid \in Int /\ d.inode \in Int
                    /\ d.oid >= 0 /\ d.inode >= 0
BY Bounds DEF Dirent

LEMMA Typed ==
  ASSUME TypeInv
  PROVE  /\ dirents \subseteq Dirent /\ disk.written \subseteq Dirent /\ AllEntries \subseteq Dirent
         /\ inodes \in [Oids -> Counts \cup {Absent}]
         /\ \A o \in Oids : inodes[o] \in Int /\ disk.counts[o] \subseteq Counts \cup {Absent}
         /\ lastOid \in Nat /\ lastOid >= 2 /\ started \in Nat /\ started <= MaxOps
         /\ lastOid <= ORPHANS + started
BY Bounds DEF TypeInv, TypeOK, AllEntries, ORPHANS, Absent

\* What may be written to the files.
LEMMA Caches ==
  ASSUME TypeInv, CachesWrite, dirents' \subseteq Dirent, inodes' \in [Oids -> Counts \cup {Absent}]
  PROVE  /\ disk' \in [opened : SUBSET Dirent, written : SUBSET Dirent,
                       counts : [Oids -> SUBSET (Counts \cup {Absent})]]
         /\ disk'.written \subseteq disk.written \cup dirents'
         /\ \A o \in Oids : disk'.counts[o] \subseteq disk.counts[o] \cup {inodes'[o]}
<1>1. disk \in [opened : SUBSET Dirent, written : SUBSET Dirent,
                counts : [Oids -> SUBSET (Counts \cup {Absent})]]
  BY DEF TypeInv, TypeOK
<1>2. CASE UNCHANGED disk
  BY <1>1, <1>2
<1>3. CASE disk' = [disk EXCEPT !.written = @ \cup dirents',
                                !.counts = [o \in Oids |-> @[o] \cup {inodes'[o]}]]
  <2>1. /\ disk'.opened = disk.opened /\ disk'.written = disk.written \cup dirents'
        /\ disk'.counts = [o \in Oids |-> disk.counts[o] \cup {inodes'[o]}]
        /\ DOMAIN disk' = DOMAIN disk
    BY <1>1, <1>3
  <2>2. disk'.counts \in [Oids -> SUBSET (Counts \cup {Absent})]
    BY <1>1, <2>1
  <2>3. \A o \in Oids : disk'.counts[o] = disk.counts[o] \cup {inodes'[o]}
    BY <2>1
  <2>4. disk' \in [opened : SUBSET Dirent, written : SUBSET Dirent,
                   counts : [Oids -> SUBSET (Counts \cup {Absent})]]
    BY <1>1, <1>3, <2>2, <2>1
  <2> QED  BY <2>1, <2>3, <2>4
<1> QED  BY <1>2, <1>3 DEF CachesWrite

\* Entries stay numbered when some go and one with a new oid comes.
LEMMA StayNumbered ==
  ASSUME TypeInv, lastOid' \in Nat, lastOid' >= lastOid,
         \/ AllEntries' \subseteq AllEntries
         \/ \E e \in Dirent : /\ AllEntries' \subseteq AllEntries \cup {e}
                              /\ e.oid > lastOid /\ Numbered(e)'
  PROVE  EntriesNumbered'
<1>1. /\ IsFiniteSet(AllEntries) /\ \A d \in AllEntries : Numbered(d)
      /\ \A d, e \in AllEntries : d.oid = e.oid => d = e
  BY DEF TypeInv, EntriesNumbered, OneEntryPerOid
<1>2. ASSUME NEW d \in AllEntries
      PROVE  Numbered(d)' /\ d.oid <= lastOid
  <2>1. d.oid \in Int /\ d.inode \in Int /\ Numbered(d) /\ lastOid \in Int
    BY <1>1, Typed, DirentParts
  <2> QED  BY <2>1 DEF Numbered
<1>3. CASE AllEntries' \subseteq AllEntries
  <2>1. IsFiniteSet(AllEntries')
    BY <1>1, <1>3, FS_Subset
  <2> QED  BY <1>1, <1>2, <1>3, <2>1 DEF EntriesNumbered, OneEntryPerOid
<1>4. ASSUME NEW e \in Dirent, AllEntries' \subseteq AllEntries \cup {e}, e.oid > lastOid, Numbered(e)'
      PROVE  EntriesNumbered'
  <2>1. IsFiniteSet(AllEntries \cup {e})
    BY <1>1, FS_AddElement
  <2>2. IsFiniteSet(AllEntries')
    BY <2>1, <1>4, FS_Subset
  <2>3. \A d \in AllEntries : d.oid # e.oid
    BY <1>2, <1>4, Typed, DirentParts
  <2>4. \A c, d \in AllEntries \cup {e} : c.oid = d.oid => c = d
    BY <1>1, <2>3
  <2>5. \A d \in AllEntries' : Numbered(d)'
    BY <1>2, <1>4
  <2>6. OneEntryPerOid'
    BY <2>4, <1>4 DEF OneEntryPerOid
  <2> QED  BY <2>2, <2>5, <2>6 DEF EntriesNumbered
<1> QED  BY <1>3, <1>4

\* The new entry.
LEMMA NewIsNumbered ==
  ASSUME Base, NEW t \in Threads, At(t, "put"), lastOid' = lastOid + 1, NEW e, e = NewEntry(t)
  PROVE  /\ Numbered(e)' /\ e \in Dirent /\ e.oid = lastOid + 1
         /\ e.inode = IF th[t].op = "create_link" THEN th[t].ent.inode ELSE lastOid + 1
         /\ e.parent = th[t].parent /\ e.name = th[t].name
<1>1. e \in Dirent
  BY NewEntryOK
<1>2. /\ e.oid = lastOid + 1 /\ e.parent = th[t].parent /\ e.name = th[t].name
      /\ e.inode = IF th[t].op = "create_link" THEN th[t].ent.inode ELSE lastOid + 1
  BY DEF NewEntry
<1>3. KnownEntry(t) /\ th[t].ent.inode \in Int
  BY DirentParts DEF Base, TypeInv, ThreadsOK, Thread
<1>4. lastOid \in Nat /\ lastOid >= 2
  BY Typed DEF Base
<1>5. Numbered(e)'
  BY <1>2, <1>3, <1>4 DEF Numbered, KnownEntry, None, ORPHANS
<1> QED  BY <1>1, <1>2, <1>5

LEMMA StayKnown ==
  ASSUME Base, NEW t \in Threads, NEW y, NEW e, NEW n, Moved(t, y, e, n),
         lastOid' \in Nat, lastOid' >= lastOid,
         y # "idle" => e.oid <= lastOid' /\ e.inode <= lastOid' /\ (e.dir => e.oid # None)
  PROVE  \A u \in Threads : KnownEntry(u)'
<1> SUFFICES ASSUME NEW u \in Threads
             PROVE  KnownEntry(u)'
  OBVIOUS
<1>1. lastOid \in Nat /\ KnownEntry(u) /\ KnownEntry(t)
  BY Typed DEF Base, TypeInv
<1>2. th[u].ent.oid \in Int /\ th[u].ent.inode \in Int
  BY DirentParts DEF Base, ThreadsOK, Thread
<1>3. CASE u # t
  BY <1>1, <1>2, <1>3 DEF Moved, KnownEntry
<1>4. CASE u = t /\ y = "idle"
  <2>1. th'[u].ent = NoEntry /\ th'[u].op = "none"
    BY <1>4 DEF Moved, Idle
  <2>2. NoEntry.oid = 0 /\ NoEntry.inode = 0 /\ ~NoEntry.dir
    BY DEF NoEntry, Builtin, None
  <2> QED  BY <2>1, <2>2, <1>1 DEF KnownEntry
<1>5. CASE u = t /\ y # "idle"
  BY <1>1, <1>5 DEF Moved, KnownEntry
<1> QED  BY <1>3, <1>4, <1>5

\* Counting.
LEMMA Fewer ==
  ASSUME NEW S, NEW T, IsFiniteSet(S), T \subseteq S
  PROVE  /\ IsFiniteSet(T) /\ Cardinality(S) \in Nat /\ Cardinality(T) \in Nat
         /\ Cardinality(T) <= Cardinality(S)
         /\ \A x \in S : x \notin T => Cardinality(T) <= Cardinality(S) - 1
<1>1. IsFiniteSet(T) /\ Cardinality(T) <= Cardinality(S) /\ (Cardinality(S) = Cardinality(T) => S = T)
  BY FS_Subset
<1>2. Cardinality(S) \in Nat /\ Cardinality(T) \in Nat
  BY <1>1, FS_CardinalityType
<1> QED  BY <1>1, <1>2

LEMMA OneMore ==
  ASSUME NEW S, NEW T, NEW x, IsFiniteSet(S), T \subseteq S \cup {x}
  PROVE  /\ IsFiniteSet(T) /\ Cardinality(S) \in Nat /\ Cardinality(T) \in Nat
         /\ Cardinality(T) <= Cardinality(S) + 1
<1> DEFINE U == S \cup {x}
<1>1. IsFiniteSet(U) /\ (Cardinality(U) = Cardinality(S) \/ Cardinality(U) = Cardinality(S) + 1)
  BY FS_AddElement
<1>2. Cardinality(S) \in Nat /\ Cardinality(U) \in Nat
  BY <1>1, FS_CardinalityType
<1> HIDE DEF U
<1>3. T \subseteq U
  BY DEF U
<1>4. IsFiniteSet(T) /\ Cardinality(T) \in Nat /\ Cardinality(T) <= Cardinality(U)
  BY <1>1, <1>3, Fewer
<1> QED  BY <1>1, <1>2, <1>4

\* No step leaves more to store.
LEMMA LessLeft ==
  ASSUME Base, NEW t \in Threads, NEW y, NEW e, NEW n, Moved(t, y, e, n),
         y = "idle" \/ Follows(th[t].op, Now(t), y)
  PROVE  /\ CountsLeft' \subseteq CountsLeft /\ PutsLeft' \subseteq PutsLeft
         /\ Now(t) \in {"putInode", "incPut"} => t \notin CountsLeft'
         /\ Now(t) = "put" => t \notin PutsLeft'
<1>1. \A u \in Threads : u # t => th'[u] = th[u] /\ Now(u)' = Now(u)
  BY DEF Moved
<1>2. Idle.op = "none"
  BY DEF Idle
<1>3. CASE y = "idle"
  <2>1. th'[t].op = "none"
    BY <1>2, <1>3 DEF Moved
  <2>2. t \notin CountsLeft' /\ t \notin PutsLeft'
    BY <2>1 DEF CountsLeft, PutsLeft, Creations
  <2> QED  BY <1>1, <2>2 DEF CountsLeft, PutsLeft
<1>4. CASE y # "idle"
  <2>1. th'[t].op = th[t].op /\ Now(t)' = y
    BY <1>4 DEF Moved
  <2>2. t \in CountsLeft' => t \in CountsLeft /\ Now(t) \notin {"putInode", "incPut"}
    BY <1>4, <2>1 DEF CountsLeft, Follows
  <2>3. t \in PutsLeft' => t \in PutsLeft /\ Now(t) # "put"
    BY <1>4, <2>1 DEF PutsLeft, Follows
  <2> QED  BY <1>1, <2>2, <2>3 DEF CountsLeft, PutsLeft
<1> QED  BY <1>3, <1>4

LEMMA RoomKept ==
  ASSUME Base, NEW t \in Threads, NEW y, NEW e, NEW n \in Counts, Moved(t, y, e, n),
         y = "idle" \/ Follows(th[t].op, Now(t), y),
         started' = started,
         lastOid' = lastOid \/ (At(t, "put") /\ lastOid' = lastOid + 1),
         \A o \in Oids : disk'.counts[o] \subseteq disk.counts[o] \cup {inodes'[o]},
         \A o \in Oids : inodes'[o] \in Int /\ inodes'[o] + Cardinality(CountsLeft') <= started,
         y \in {"del", "delInode", "incPut"} => n + Cardinality(CountsLeft) <= started
  PROVE  Room'
<1> DEFINE C == CountsLeft  D == CountsLeft'
           P == PutsLeft    Q == PutsLeft'
<1>1. D \subseteq C /\ Q \subseteq P /\ (Now(t) = "put" => t \notin Q)
  BY LessLeft
<1>2. /\ IsFiniteSet(C) /\ IsFiniteSet(P)
      /\ Cardinality(C) <= started /\ lastOid - 2 + Cardinality(P) <= started
      /\ \A o \in Oids : \A m \in disk.counts[o] : m + Cardinality(C) <= started
      /\ \A u \in Threads : Now(u) \in {"del", "delInode", "incPut"} =>
           th[u].count + Cardinality(C) <= started
  BY DEF Base, TypeInv, Room, ORPHANS
<1>3. started \in Nat /\ lastOid \in Nat /\ \A o \in Oids : \A m \in disk.counts[o] : m \in Int
  BY Typed, Bounds DEF Base, Absent
<1>4. \A u \in Threads : th[u].count \in Nat
  BY Bounds DEF Base, ThreadsOK, Thread
<1>5. At(t, "put") => t \in P
  BY AtNow DEF Base, PutsLeft, Takes
<1>6. At(t, "put") => Now(t) = "put"
  BY AtNow DEF Base
<1> HIDE DEF C, D, P, Q
<1>7. /\ IsFiniteSet(D) /\ Cardinality(D) \in Nat /\ Cardinality(C) \in Nat
      /\ Cardinality(D) <= Cardinality(C)
  BY <1>1, <1>2, Fewer
<1>8. /\ IsFiniteSet(Q) /\ Cardinality(Q) \in Nat /\ Cardinality(P) \in Nat
      /\ Cardinality(Q) <= Cardinality(P)
      /\ At(t, "put") => Cardinality(Q) <= Cardinality(P) - 1
  BY <1>1, <1>2, <1>5, <1>6, Fewer
<1>9. Cardinality(D) <= started
  BY <1>2, <1>3, <1>7
<1>10. lastOid' - 2 + Cardinality(Q) <= started
  BY <1>2, <1>3, <1>8
<1>11. ASSUME NEW o \in Oids
       PROVE  /\ inodes'[o] + Cardinality(D) <= started
              /\ \A m \in disk'.counts[o] : m + Cardinality(D) <= started
  <2>1. inodes'[o] + Cardinality(D) <= started
    BY DEF D
  <2>2. ASSUME NEW m \in disk.counts[o]
        PROVE  m + Cardinality(D) <= started
    BY <1>2, <1>3, <1>7
  <2> QED  BY <2>1, <2>2
<1>12. ASSUME NEW u \in Threads, Now(u)' \in {"del", "delInode", "incPut"}
       PROVE  th'[u].count + Cardinality(D) <= started
  <2>1. CASE u = t
    <3>1. th'[u].count = n /\ n + Cardinality(C) <= started /\ n \in Nat
      BY <2>1, <1>12, Bounds DEF Moved, C
    <3> QED  BY <3>1, <1>3, <1>7
  <2>2. CASE u # t
    <3>1. th'[u].count = th[u].count /\ th[u].count + Cardinality(C) <= started
      BY <2>2, <1>12, <1>2 DEF Moved
    <3> QED  BY <3>1, <1>3, <1>4, <1>7
  <2> QED  BY <2>1, <2>2
<1> QED  BY <1>7, <1>8, <1>9, <1>10, <1>11, <1>12 DEF Room, ORPHANS, D, Q

\* What every step does to what the type invariant speaks of.
Effect(t, y, e, n) ==
  /\ Moved(t, y, e, n) /\ th' \in [Threads -> Thread]
  /\ y = "idle" \/ Follows(th[t].op, Now(t), y)
  /\ e \in Dirent /\ n \in Counts
  /\ e.oid <= lastOid' /\ e.inode <= lastOid' /\ (e.dir => e.oid # None)
  /\ lastOid' = lastOid \/ (At(t, "put") /\ lastOid' = lastOid + 1)
  /\ \/ dirents' \subseteq dirents
     \/ dirents' = dirents \cup {e} /\ e.oid > lastOid /\ Numbered(e)'
  /\ handles' \subseteq handles \cup dirents \cup {th[t].ent, e}
  /\ inodes' \in [Oids -> Counts \cup {Absent}]
  /\ \A o \in Oids : inodes'[o] + Cardinality(CountsLeft') <= started
  /\ y \in {"del", "delInode", "incPut"} => n + Cardinality(CountsLeft) <= started
  /\ started' = started

LEMMA EffectKeeps ==
  ASSUME Base, NEW t \in Threads, NEW y, NEW e, NEW n, Effect(t, y, e, n), CachesWrite,
         aborted' \in BOOLEAN, overrun' \in BOOLEAN, UNCHANGED <<threaded, restarts, crashed>>
  PROVE  Base'
<1>1. ThreadsOK'
  BY MovedOK DEF Base, Effect
<1>2. dirents' \subseteq Dirent /\ inodes' \in [Oids -> Counts \cup {Absent}]
  BY Typed DEF Base, Effect
<1>3. /\ disk' \in [opened : SUBSET Dirent, written : SUBSET Dirent,
                    counts : [Oids -> SUBSET (Counts \cup {Absent})]]
      /\ disk'.written \subseteq disk.written \cup dirents'
      /\ \A o \in Oids : disk'.counts[o] \subseteq disk.counts[o] \cup {inodes'[o]}
  BY <1>2, Caches DEF Base
<1>4. lastOid' \in Nat /\ lastOid' >= lastOid /\ lastOid' \in ORPHANS .. ORPHANS + started
  BY Typed, NewEntryOK DEF Base, Effect, ORPHANS
<1>5. EntriesNumbered'
  <2>1. CASE dirents' \subseteq dirents
    <3>1. AllEntries' \subseteq AllEntries
      BY <2>1, <1>3 DEF AllEntries
    <3> QED  BY <3>1, <1>4, StayNumbered DEF Base
  <2>2. CASE dirents' = dirents \cup {e} /\ e.oid > lastOid /\ Numbered(e)'
    <3>1. AllEntries' \subseteq AllEntries \cup {e}
      BY <2>2, <1>3 DEF AllEntries
    <3> QED  BY <2>2, <3>1, <1>4, StayNumbered DEF Base, Effect
  <2> QED  BY <2>1, <2>2 DEF Effect
<1>6. \A u \in Threads : KnownEntry(u)'
  BY <1>4, StayKnown DEF Effect
<1>7. Room'
  <2>1. \A o \in Oids : inodes'[o] \in Int
    BY <1>2, Bounds DEF Absent
  <2> QED  BY <1>3, <2>1, RoomKept DEF Effect
<1>8. handles' \subseteq Dirent /\ \A h \in handles' : h.dir => h.oid # None
  <2>1. handles \subseteq Dirent /\ \A h \in handles : h.dir => h.oid # None
    BY DEF Base, TypeInv, TypeOK
  <2>2. dirents \subseteq Dirent /\ \A h \in dirents : h.dir => h.oid # None
    BY DEF Base, TypeInv, TypeOK, EntriesNumbered, AllEntries, Numbered
  <2>3. th[t].ent \in Dirent /\ (th[t].ent.dir => th[t].ent.oid # None)
    BY DEF Base, TypeInv, KnownEntry, ThreadsOK, Thread
  <2> QED  BY <2>1, <2>2, <2>3 DEF Effect
<1>9. /\ started \in 0 .. MaxOps /\ restarts \in 0 .. MaxRestarts /\ crashed \in BOOLEAN
      /\ threaded \in BOOLEAN /\ started' = started
  BY DEF Base, TypeInv, TypeOK, Effect
<1>10. TypeOK'
  BY <1>1, <1>2, <1>3, <1>4, <1>8, <1>9 DEF TypeOK, ThreadsOK, Thread
<1> QED  BY <1>1, <1>5, <1>6, <1>7, <1>8, <1>9, <1>10 DEF Base, TypeInv

LEMMA RoomNow ==
  ASSUME Base
  PROVE  /\ IsFiniteSet(CountsLeft) /\ Cardinality(CountsLeft) \in Nat /\ started \in Nat
         /\ Cardinality(CountsLeft) <= started
         /\ \A o \in Oids : inodes[o] \in Int /\ inodes[o] + Cardinality(CountsLeft) <= started
         /\ \A u \in Threads : Now(u) \in {"del", "delInode", "incPut"} =>
              th[u].count + Cardinality(CountsLeft) <= started
BY Typed, FS_CardinalityType DEF Base, TypeInv, Room

LEMMA LessRoom ==
  ASSUME Base, NEW t \in Threads, NEW y, NEW e, NEW n, Moved(t, y, e, n),
         y = "idle" \/ Follows(th[t].op, Now(t), y), Busy(t)
  PROVE  /\ Cardinality(CountsLeft') \in Nat
         /\ Cardinality(CountsLeft') <= Cardinality(CountsLeft)
         /\ Now(t) \in {"putInode", "incPut"} =>
              Cardinality(CountsLeft') <= Cardinality(CountsLeft) - 1
<1> DEFINE C == CountsLeft  D == CountsLeft'
<1>1. D \subseteq C /\ (Now(t) \in {"putInode", "incPut"} => t \notin D)
  BY LessLeft
<1>2. Now(t) \in {"putInode", "incPut"} => t \in C
  BY BusyNow DEF Base, CountsLeft, Takes
<1>3. IsFiniteSet(C)
  BY RoomNow
<1> HIDE DEF C, D
<1>4. /\ Cardinality(D) \in Nat /\ Cardinality(D) <= Cardinality(C)
      /\ \A x \in C : x \notin D => Cardinality(D) <= Cardinality(C) - 1
  BY <1>1, <1>3, Fewer
<1> QED  BY <1>1, <1>2, <1>4 DEF C, D

LEMMA OldEntry ==
  ASSUME Base, NEW t \in Threads, NEW e \in dirents \cup {th[t].ent}
  PROVE  e \in Dirent /\ e.oid <= lastOid /\ e.inode <= lastOid /\ (e.dir => e.oid # None)
<1>1. CASE e = th[t].ent
  BY <1>1 DEF Base, TypeInv, KnownEntry, ThreadsOK, Thread
<1>2. CASE e \in dirents
  BY <1>2 DEF Base, TypeInv, TypeOK, EntriesNumbered, AllEntries, Numbered
<1> QED  BY <1>1, <1>2

LEMMA QuietEffect ==
  ASSUME Base, NEW t \in Threads, Quiet(t)
  PROVE  (\E y, e, n : Effect(t, y, e, n)) /\ aborted' \in BOOLEAN
<1>1. PICK x, e, n, y :
        /\ x \in QuietSteps /\ e \in Dirent /\ n \in Counts
        /\ At(t, x) /\ Moved(t, y, e, n) /\ th' \in [Threads -> Thread]
        /\ e \in dirents \cup {th[t].ent}
        /\ handles' \subseteq handles \cup dirents \cup {th[t].ent}
        /\ UNCHANGED <<dirents, inodes, lastOid, aborted, started>>
        /\ x = "del" => y = "idle"
        /\ y # "idle" => Follows(th[t].op, x, y) /\ Learned(t, x, e, n)
  BY DEF Quiet
<1>2. Busy(t) /\ Now(t) = x
  BY <1>1, AtNow DEF Base
<1>3. /\ Cardinality(CountsLeft') \in Nat /\ Cardinality(CountsLeft') <= Cardinality(CountsLeft)
  BY <1>1, <1>2, LessRoom
<1>4. \A o \in Oids : inodes'[o] + Cardinality(CountsLeft') <= started
  BY <1>1, <1>3, RoomNow
<1>5. y \in {"del", "delInode", "incPut"} => n + Cardinality(CountsLeft) <= started
  <2>1. ASSUME y \in {"del", "delInode", "incPut"}
        PROVE  x \in {"getInode", "incGet"}
    BY <2>1, <1>1 DEF Follows, QuietSteps
  <2>2. th[t].ent.inode \in Oids
    BY DirentParts DEF Base, ThreadsOK, Thread
  <2> QED  BY <2>1, <2>2, <1>1, RoomNow DEF Learned
<1>6. inodes' \in [Oids -> Counts \cup {Absent}] /\ aborted' \in BOOLEAN
  BY <1>1 DEF Base, TypeInv, TypeOK
<1>7. e.oid <= lastOid /\ e.inode <= lastOid /\ (e.dir => e.oid # None)
  BY <1>1, OldEntry
<1>8. Effect(t, y, e, n)
  BY <1>1, <1>2, <1>4, <1>5, <1>6, <1>7 DEF Effect
<1> QED  BY <1>6, <1>8

\* One count that is stored takes up what one operation less has left to store.
LEMMA StillRoom ==
  ASSUME NEW n \in Nat, NEW c \in Nat, NEW d \in Nat, NEW s \in Nat, n + c <= s, d <= c, s <= MaxOps
  PROVE  /\ d <= c - 1 => n + 1 \in Counts /\ n + 1 + d <= s
         /\ n - 1 > 0 => n - 1 \in Counts /\ n - 1 + d <= s
<1>1. MaxOps \in Nat /\ Counts = 0 .. MaxOps
  BY Bounds
<1>2. d <= c - 1 => n + 1 <= MaxOps /\ n + 1 + d <= s
  BY <1>1
<1>3. n - 1 > 0 => n - 1 <= MaxOps /\ n - 1 + d <= s
  BY <1>1
<1> QED  BY <1>1, <1>2, <1>3

LEMMA ChangingEffect ==
  ASSUME Base, NEW t \in Threads, Changing(t), th' \in [Threads -> Thread]
  PROVE  (\E y, e, n : Effect(t, y, e, n)) /\ aborted' \in BOOLEAN
<1> DEFINE r == th[t]  i == r.ent.inode
<1>0. /\ r.ent \in Dirent /\ r.count \in Counts /\ r.count \in Nat /\ i \in Oids
      /\ inodes \in [Oids -> Counts \cup {Absent}] /\ lastOid \in Nat
      /\ aborted \in BOOLEAN /\ 1 \in Int
      /\ r.ent.oid <= lastOid /\ r.ent.inode <= lastOid /\ (r.ent.dir => r.ent.oid # None)
  <2>1. r \in Thread
    BY DEF Base, ThreadsOK
  <2>2. r.ent \in Dirent /\ r.count \in Counts
    BY <2>1 DEF Thread
  <2>3. r.count \in Nat /\ i \in Oids
    BY <2>2, Bounds, DirentParts
  <2>4. inodes \in [Oids -> Counts \cup {Absent}] /\ lastOid \in Nat /\ aborted \in BOOLEAN
    BY Typed DEF Base, TypeInv, TypeOK
  <2>5. r.ent.oid <= lastOid /\ r.ent.inode <= lastOid /\ (r.ent.dir => r.ent.oid # None)
    BY OldEntry
  <2> QED  BY <2>2, <2>3, <2>4, <2>5
<1>1. ASSUME NEW x, Continues(t, x), dirents' \subseteq dirents,
             inodes' = inodes \/ \E k \in Counts \cup {Absent} : PutCount(i, k)
                                   /\ k + Cardinality(CountsLeft') <= started,
             x = "del" \/ x \in {"putInode", "incPut", "delInode"}
      PROVE  \E y, e, n : Effect(t, y, e, n)
  <2>1. PICK y : Follows(r.op, x, y) /\ Moved(t, y, r.ent, r.count)
    BY <1>1 DEF Continues
  <2>2. Busy(t) /\ Now(t) = x
    BY <1>1, AtNow DEF Continues, Base
  <2>3. /\ Cardinality(CountsLeft') \in Nat /\ Cardinality(CountsLeft') <= Cardinality(CountsLeft)
    BY <2>1, <2>2, LessRoom
  <2>4. \A o \in Oids : inodes[o] + Cardinality(CountsLeft') <= started
    BY <2>3, RoomNow
  <2>5. /\ inodes' \in [Oids -> Counts \cup {Absent}]
        /\ \A o \in Oids : inodes'[o] + Cardinality(CountsLeft') <= started
    BY <1>0, <1>1, <2>4 DEF PutCount
  <2>6. y \in {"del", "delInode", "incPut"} => r.count + Cardinality(CountsLeft) <= started
    <3>1. ASSUME y \in {"del", "delInode", "incPut"}
          PROVE  x = "del"
      BY <3>1, <2>1, <1>1 DEF Follows
    <3> QED  BY <3>1, <2>2, RoomNow
  <2>7. Effect(t, y, r.ent, r.count)
    BY <1>0, <1>1, <2>1, <2>2, <2>5, <2>6 DEF Effect, Continues
  <2> QED  BY <2>7
<1>2. ASSUME NEW x, Continues(t, x)
      PROVE  /\ Cardinality(CountsLeft') \in Nat /\ Cardinality(CountsLeft') <= Cardinality(CountsLeft)
             /\ x \in {"putInode", "incPut"} =>
                  Cardinality(CountsLeft') <= Cardinality(CountsLeft) - 1
             /\ x \in {"putInode", "incPut", "delInode"} => Now(t) = x
             /\ Cardinality(CountsLeft) \in Nat /\ started \in Nat /\ started <= MaxOps
             /\ Cardinality(CountsLeft) <= started
  <2>1. PICK y : Follows(r.op, x, y) /\ Moved(t, y, r.ent, r.count)
    BY <1>2 DEF Continues
  <2>2. Busy(t) /\ Now(t) = x
    BY <1>2, AtNow DEF Continues, Base
  <2> QED  BY <2>1, <2>2, LessRoom, RoomNow, Typed DEF Base
<1>3. CASE PutInodeDone(t)
  <2>1. Continues(t, "putInode")
    BY <1>3 DEF PutInodeDone
  <2>2. 1 \in Counts /\ 1 + Cardinality(CountsLeft') <= started
    BY <2>1, <1>2, Bounds
  <2> QED  BY <1>0, <1>1, <1>3, <2>1, <2>2 DEF PutInodeDone
<1>4. CASE IncPutDone(t)
  <2>1. Continues(t, "incPut")
    BY <1>4 DEF IncPutDone
  <2>2. r.count + Cardinality(CountsLeft) <= started
    BY <2>1, <1>2, RoomNow
  <2>3. r.count + 1 \in Counts /\ r.count + 1 + Cardinality(CountsLeft') <= started
    <3> DEFINE c == Cardinality(CountsLeft)  d == Cardinality(CountsLeft')
    <3>1. c \in Nat /\ d \in Nat /\ d <= c /\ d <= c - 1 /\ started \in Nat /\ started <= MaxOps
      BY <2>1, <1>2
    <3>2. r.count \in Nat /\ r.count + c <= started
      BY <2>2, <1>0
    <3> HIDE DEF c, d
    <3>3. r.count + 1 \in Counts /\ r.count + 1 + d <= started
      BY <3>1, <3>2, StillRoom
    <3> QED  BY <3>3 DEF d
  <2> QED  BY <1>0, <1>1, <1>4, <2>1, <2>3 DEF IncPutDone
<1>5. CASE DelDone(t)
  BY <1>0, <1>1, <1>5 DEF DelDone
<1>6. CASE DelInodeDone(t)
  <2>1. Continues(t, "delInode")
    BY <1>6 DEF DelInodeDone
  <2>2. r.count + Cardinality(CountsLeft) <= started
    BY <2>1, <1>2, RoomNow
  <2>3. r.count - 1 > 0 => r.count - 1 \in Counts /\ r.count - 1 + Cardinality(CountsLeft') <= started
    <3> DEFINE c == Cardinality(CountsLeft)  d == Cardinality(CountsLeft')
    <3>1. c \in Nat /\ d \in Nat /\ d <= c /\ started \in Nat /\ started <= MaxOps
      BY <2>1, <1>2
    <3>2. r.count \in Nat /\ r.count + c <= started
      BY <2>2, <1>0
    <3> HIDE DEF c, d
    <3>3. r.count - 1 > 0 => r.count - 1 \in Counts /\ r.count - 1 + d <= started
      BY <3>1, <3>2, StillRoom
    <3> QED  BY <3>3 DEF d
  <2>4. Absent + Cardinality(CountsLeft') <= started
    BY <2>1, <1>2 DEF Absent
  <2>5. inodes' = inodes \/ \E k \in Counts \cup {Absent} : PutCount(i, k)
                              /\ k + Cardinality(CountsLeft') <= started
    BY <1>6, <2>3, <2>4 DEF DelInodeDone
  <2>6. aborted' \in BOOLEAN
    BY <1>6 DEF DelInodeDone
  <2> QED  BY <1>1, <1>6, <2>1, <2>5, <2>6 DEF DelInodeDone
<1>7. CASE PutFails(t)
  <2>1. At(t, "put") /\ Moved(t, "idle", r.ent, r.count)
    BY <1>7 DEF PutFails
  <2>2. Busy(t) /\ Now(t) = "put"
    BY <2>1, AtNow DEF Base
  <2>3. /\ Cardinality(CountsLeft') \in Nat /\ Cardinality(CountsLeft') <= Cardinality(CountsLeft)
    BY <2>1, <2>2, LessRoom
  <2>4. \A o \in Oids : inodes'[o] + Cardinality(CountsLeft') <= started
    BY <1>7, <2>3, RoomNow DEF PutFails
  <2>5. r.ent.oid <= lastOid' /\ r.ent.inode <= lastOid'
    BY <1>0, <1>7, DirentParts DEF PutFails
  <2>6. Effect(t, "idle", r.ent, r.count)
    BY <1>0, <1>7, <2>1, <2>4, <2>5 DEF PutFails, Effect
  <2> QED  BY <1>0, <1>7, <2>6 DEF PutFails
<1>8. CASE PutDone(t)
  <2>1. At(t, "put") /\ lastOid' = lastOid + 1
    BY <1>8 DEF PutDone
  <2>2. Busy(t) /\ Now(t) = "put"
    BY <2>1, AtNow DEF Base
  <2>3. PICK e : e = NewEntry(t)
    OBVIOUS
  <2>4. PICK y : Follows(r.op, "put", y) /\ Moved(t, y, e, r.count)
    BY <1>8, <2>3 DEF PutDone
  <2>5. Numbered(e)' /\ e \in Dirent /\ e.oid = lastOid + 1
    BY <2>1, <2>3, NewIsNumbered
  <2>6. /\ Cardinality(CountsLeft') \in Nat /\ Cardinality(CountsLeft') <= Cardinality(CountsLeft)
    BY <2>2, <2>4, LessRoom
  <2>7. \A o \in Oids : inodes'[o] + Cardinality(CountsLeft') <= started
    BY <1>8, <2>6, RoomNow DEF PutDone
  <2>8. y \notin {"del", "delInode", "incPut"}
    BY <2>4 DEF Follows
  <2>9. e.oid <= lastOid' /\ e.inode <= lastOid' /\ (e.dir => e.oid # None) /\ e.oid > lastOid
    BY <2>1, <2>5, <1>0 DEF Numbered
  <2>10. Effect(t, y, e, r.count)
    BY <1>0, <1>8, <2>1, <2>2, <2>3, <2>4, <2>5, <2>7, <2>8, <2>9 DEF PutDone, Effect
  <2> QED  BY <1>0, <1>8, <2>10 DEF PutDone
<1> QED  BY <1>3, <1>4, <1>5, <1>6, <1>7, <1>8, <1>0 DEF Changing

\* A request has come.
Began(t, op, p, n, tp, tn) ==
  /\ op \in AllOps /\ n \in Names /\ p \in Oids /\ tp \in Oids /\ tn \in Names \cup {"id"}
  /\ IF op \in OnNamespaces THEN p = ROOT_OID ELSE p # ROOT_OID
  /\ op = "create_link" => tp # ROOT_OID /\ tn \in Names
  /\ op \in IF threaded THEN ThreadedOps ELSE Ops
  /\ Start(t, op, p, n, tp, tn)
  /\ th' \in [Threads -> Thread]
  /\ \A u \in Threads : u # t => th'[u] = th[u] /\ Now(u)' = Now(u)
  /\ Now(t) = "idle" /\ Now(t)' = Head(naming_op_array[op])
  /\ th'[t].todo = naming_op_array[op] /\ th'[t].op = op
  /\ th'[t].parent = p /\ th'[t].name = n /\ th'[t].tparent = tp /\ th'[t].tname = tn
  /\ th'[t].ent = NoEntry /\ th'[t].count = 0

LEMMA Starting ==
  ASSUME Base, NEW t \in Threads, NEW op \in AllOps, NEW p \in Oids, NEW n \in Names, NEW tp \in Oids,
         NEW tn \in Names \cup {"id"}, Start(t, op, p, n, tp, tn),
         IF op \in OnNamespaces THEN p = ROOT_OID ELSE p # ROOT_OID,
         op = "create_link" => tp # ROOT_OID /\ tn \in Names,
         op \in IF threaded THEN ThreadedOps ELSE Ops
  PROVE  Began(t, op, p, n, tp, tn)
<1> DEFINE path == naming_op_array[op]
<1>1. path \in Left(op) /\ Orderly(op, path) /\ path \in Todos
  BY FirstStep, Order, LeftIsTodo
<1>2. th' = [th EXCEPT ![t] = [Idle EXCEPT !.todo = path, !.op = op, !.parent = p, !.name = n,
                                           !.tparent = tp, !.tname = tn]]
  BY DEF Start
<1> HIDE DEF path
<1>3. Idle \in Thread /\ Idle.ent = NoEntry /\ Idle.count = 0 /\ Idle.todo = << >>
  BY IdleIsThread DEF Idle
<1>4. PICK r : r = [Idle EXCEPT !.todo = path, !.op = op, !.parent = p, !.name = n,
                                !.tparent = tp, !.tname = tn]
  OBVIOUS
<1>5. /\ r.todo = path /\ r.op = op /\ r.parent = p /\ r.name = n /\ r.tparent = tp /\ r.tname = tn
      /\ r.ent = NoEntry /\ r.count = 0
  BY <1>3, <1>4 DEF Thread
<1>6. r \in Thread
  BY <1>1, <1>3, <1>4 DEF Thread, BuiltinNames
<1>7. th' \in [Threads -> Thread] /\ th'[t] = r /\ \A u \in Threads : u # t => th'[u] = th[u]
  BY <1>2, <1>4, <1>6 DEF Base, ThreadsOK
<1>8. r # Idle
  BY <1>1, <1>3, <1>5 DEF Orderly
<1>9. Now(t)' = Head(path) /\ \A u \in Threads : u # t => Now(u)' = Now(u)
  BY <1>5, <1>7, <1>8 DEF Now, IsIdle
<1>10. Now(t) = "idle"
  BY DEF Start, Serves, Now
<1> QED  BY <1>5, <1>7, <1>9, <1>10 DEF Began, path

LEMMA StartSomeBegins ==
  ASSUME Base, NEW t \in Threads, StartSome(t)
  PROVE  \E op, p, n, tp, tn : Began(t, op, p, n, tp, tn)
<1>1. PICK op \in (IF threaded THEN ThreadedOps ELSE Ops), n \in Names :
        IF op \in OnNamespaces THEN Start(t, op, ROOT_OID, n, None, "id")
        ELSE \E p \in Directories :
               IF op = "create_link"
                 THEN \E tp \in Directories, tn \in Names : Start(t, op, p, n, tp, tn)
                 ELSE Start(t, op, p, n, None, "id")
  BY DEF StartSome
<1>2. op \in AllOps
  BY <1>1, NamingAssumption
<1>3. \A p \in Directories : p \in Oids /\ p # ROOT_OID
  BY DirentParts DEF Base, TypeInv, TypeOK, Directories, None, ROOT_OID
<1>4. ROOT_OID \in Oids /\ None \in Oids
  BY Bounds DEF ROOT_OID, None
<1>5. CASE op \in OnNamespaces
  <2>1. op # "create_link"
    BY <1>5 DEF OnNamespaces
  <2>2. Began(t, op, ROOT_OID, n, None, "id")
    BY <1>1, <1>2, <1>4, <1>5, <2>1, Starting
  <2> QED  BY <2>2
<1>6. CASE op \notin OnNamespaces /\ op # "create_link"
  <2>1. PICK p \in Directories : Start(t, op, p, n, None, "id")
    BY <1>1, <1>6
  <2>2. Began(t, op, p, n, None, "id")
    BY <1>1, <1>2, <1>3, <1>4, <1>6, <2>1, Starting
  <2> QED  BY <2>2
<1>7. CASE op \notin OnNamespaces /\ op = "create_link"
  <2>1. PICK p \in Directories, tp \in Directories, tn \in Names : Start(t, op, p, n, tp, tn)
    BY <1>1, <1>7
  <2>2. Began(t, op, p, n, tp, tn)
    BY <1>1, <1>2, <1>3, <1>7, <2>1, Starting
  <2> QED  BY <2>2
<1> QED  BY <1>5, <1>6, <1>7

LEMMA StartKeeps ==
  ASSUME Base, NEW t \in Threads, StartSome(t), CachesWrite, UNCHANGED <<threaded, restarts, crashed>>
  PROVE  Base'
<1>1. PICK op, p, n, tp, tn : Began(t, op, p, n, tp, tn)
  BY StartSomeBegins
<1>2. /\ started' = started + 1 /\ started < MaxOps
      /\ UNCHANGED <<dirents, inodes, handles, lastOid, aborted, overrun>>
  BY <1>1 DEF Began, Start, db
<1>3. ThreadsOK'
  <2>1. naming_op_array[op] \in Left(op)
    BY <1>1, FirstStep DEF Began
  <2>2. ASSUME NEW u \in Threads, Busy(u)'
        PROVE  (th[u].op \in AllOps /\ th[u].todo \in Left(th[u].op))'
    BY <1>1, <2>1, <2>2 DEF Began, Base, ThreadsOK, Busy, IsIdle
  <2> QED  BY <1>1, <2>2 DEF Began, ThreadsOK
<1>4. /\ disk' \in [opened : SUBSET Dirent, written : SUBSET Dirent,
                    counts : [Oids -> SUBSET (Counts \cup {Absent})]]
      /\ disk'.written \subseteq disk.written \cup dirents'
      /\ \A o \in Oids : disk'.counts[o] \subseteq disk.counts[o] \cup {inodes'[o]}
  BY <1>2, Typed, Caches DEF Base
<1>5. lastOid \in Nat /\ started \in Nat /\ MaxOps \in Nat /\ lastOid \in ORPHANS .. ORPHANS + started
      /\ \A o \in Oids : inodes[o] \in Int /\ \A m \in disk.counts[o] : m \in Int
  BY Typed, Bounds DEF Base, Absent, TypeInv, TypeOK
<1>6. EntriesNumbered'
  <2>1. AllEntries' \subseteq AllEntries
    BY <1>2, <1>4 DEF AllEntries
  <2> QED  BY <2>1, <1>2, <1>5, StayNumbered DEF Base
<1>7. ASSUME NEW u \in Threads
      PROVE  KnownEntry(u)'
  <2>1. CASE u = t
    <3>1. NoEntry.oid = 0 /\ NoEntry.inode = 0 /\ ~NoEntry.dir
      BY DEF NoEntry, Builtin, None
    <3>2. op = "list_dir" => p # ROOT_OID
      BY <1>1 DEF Began, OnNamespaces
    <3> QED  BY <2>1, <3>1, <3>2, <1>1, <1>2, <1>5 DEF Began, KnownEntry
  <2>2. CASE u # t
    BY <2>2, <1>1, <1>2 DEF Began, Base, TypeInv, KnownEntry
  <2> QED  BY <2>1, <2>2
<1>8. Room'
  <2> DEFINE C == CountsLeft  D == CountsLeft'
             P == PutsLeft    Q == PutsLeft'
  <2>1. D \subseteq C \cup {t} /\ Q \subseteq P \cup {t}
    BY <1>1 DEF Began, CountsLeft, PutsLeft
  <2>2. /\ IsFiniteSet(C) /\ IsFiniteSet(P)
        /\ Cardinality(C) <= started /\ lastOid - 2 + Cardinality(P) <= started
        /\ \A o \in Oids : /\ inodes[o] + Cardinality(C) <= started
                           /\ \A m \in disk.counts[o] : m + Cardinality(C) <= started
        /\ \A u \in Threads : Now(u) \in {"del", "delInode", "incPut"} =>
             th[u].count + Cardinality(C) <= started
    BY DEF Base, TypeInv, Room, ORPHANS
  <2>3. \A u \in Threads : th[u].count \in Nat
    BY Bounds DEF Base, ThreadsOK, Thread
  <2>4. Now(t)' \notin {"del", "delInode", "incPut"}
    BY <1>1, FirstStep DEF Began
  <2> HIDE DEF C, D, P, Q
  <2>5. /\ IsFiniteSet(D) /\ Cardinality(D) \in Nat /\ Cardinality(C) \in Nat
        /\ Cardinality(D) <= Cardinality(C) + 1
    BY <2>1, <2>2, OneMore
  <2>6. /\ IsFiniteSet(Q) /\ Cardinality(Q) \in Nat /\ Cardinality(P) \in Nat
        /\ Cardinality(Q) <= Cardinality(P) + 1
    BY <2>1, <2>2, OneMore
  <2>7. Cardinality(D) <= started' /\ lastOid' - 2 + Cardinality(Q) <= started'
    BY <2>2, <2>5, <2>6, <1>2, <1>5
  <2>8. ASSUME NEW o \in Oids
        PROVE  /\ inodes'[o] + Cardinality(D) <= started'
               /\ \A m \in disk'.counts[o] : m + Cardinality(D) <= started'
    <3>1. inodes'[o] + Cardinality(D) <= started'
      BY <2>2, <2>5, <1>2, <1>5
    <3>2. ASSUME NEW m \in disk.counts[o]
          PROVE  m + Cardinality(D) <= started'
      BY <2>2, <2>5, <1>2, <1>5
    <3> QED  BY <3>1, <3>2, <1>4
  <2>9. ASSUME NEW u \in Threads, Now(u)' \in {"del", "delInode", "incPut"}
        PROVE  th'[u].count + Cardinality(D) <= started'
    <3>1. u # t /\ th'[u] = th[u] /\ Now(u) \in {"del", "delInode", "incPut"}
      BY <2>4, <2>9, <1>1 DEF Began
    <3> QED  BY <3>1, <2>2, <2>3, <2>5, <1>2, <1>5
  <2> QED  BY <2>5, <2>6, <2>7, <2>8, <2>9 DEF Room, ORPHANS, D, Q
<1>9. handles' \subseteq Dirent /\ \A h \in handles' : h.dir => h.oid # None
  BY <1>2 DEF Base, TypeInv, TypeOK
<1>10. TypeOK'
  <2>1. started' \in 0 .. MaxOps /\ lastOid' \in ORPHANS .. ORPHANS + started'
    BY <1>2, <1>5 DEF ORPHANS
  <2> QED  BY <1>2, <1>3, <1>4, <1>9, <2>1 DEF Base, TypeInv, TypeOK, ThreadsOK, Thread
<1>11. threaded' \in BOOLEAN
  BY DEF Base, TypeInv
<1> QED  BY <1>3, <1>6, <1>7, <1>8, <1>9, <1>10, <1>11 DEF Base, TypeInv

\* What a restart finds.
Restarted ==
  /\ ~threaded /\ dirents' \subseteq AllEntries
  /\ inodes' \in [Oids -> Counts \cup {Absent}]
  /\ \A o \in Oids : inodes'[o] = inodes[o] \/ inodes'[o] \in disk.counts[o]
  /\ disk' = Opened(dirents', inodes')
  /\ th' = [t \in Threads |-> Idle]
  /\ aborted' = FALSE
  /\ restarts < MaxRestarts /\ restarts' = restarts + 1
  /\ UNCHANGED <<threaded, handles, lastOid, overrun, started>>
  /\ \/ AllIdle /\ UNCHANGED <<dirents, inodes, crashed>>
     \/ crashed' = TRUE /\ OnePerKey(dirents')

LEMMA Restarting ==
  ASSUME Base, Restart
  PROVE  Restarted
<1>1. /\ inodes \in [Oids -> Counts \cup {Absent}]
      /\ \A o \in Oids : disk.counts[o] \subseteq Counts \cup {Absent}
  BY Typed DEF Base
<1>2. CASE Shutdown
  BY <1>1, <1>2 DEF Shutdown, Restart, Restarted, db, AllEntries
<1>3. CASE Crash
  <2> DEFINE changed == {o \in Oids : Cardinality(disk.counts[o]) > 1}
  <2>1. dirents' \subseteq AllEntries /\ OnePerKey(dirents')
    BY <1>3 DEF Crash, AllEntries
  <2>2. PICK i : /\ \A o \in changed : i[o] \in disk.counts[o]
                 /\ inodes' = [o \in Oids |-> IF o \in changed THEN i[o] ELSE inodes[o]]
    BY <1>3 DEF Crash
  <2> HIDE DEF changed
  <2>3. \A o \in Oids : inodes'[o] = inodes[o] \/ inodes'[o] \in disk.counts[o]
    BY <2>2
  <2>4. inodes' \in [Oids -> Counts \cup {Absent}]
    BY <1>1, <2>2
  <2> QED  BY <1>3, <2>1, <2>3, <2>4 DEF Restart, Restarted, Crash
<1> QED  BY <1>2, <1>3 DEF Restart

LEMMA OpenedParts ==
  ASSUME NEW D, NEW I
  PROVE  /\ Opened(D, I).written = D /\ Opened(D, I).opened = D
         /\ \A o \in Oids : Opened(D, I).counts[o] = {I[o]}
         /\ D \in SUBSET Dirent /\ I \in [Oids -> Counts \cup {Absent}] =>
              Opened(D, I) \in [opened : SUBSET Dirent, written : SUBSET Dirent,
                                counts : [Oids -> SUBSET (Counts \cup {Absent})]]
<1>1. ASSUME I \in [Oids -> Counts \cup {Absent}]
      PROVE  [o \in Oids |-> {I[o]}] \in [Oids -> SUBSET (Counts \cup {Absent})]
  BY <1>1
<1> QED  BY <1>1 DEF Opened

LEMMA RestartKeeps ==
  ASSUME Base, Restart
  PROVE  Base'
<1>1. Restarted
  BY Restarting
<1>2. \A t \in Threads : th'[t] = Idle
  BY <1>1 DEF Restarted
<1>3. \A t \in Threads : Now(t)' = "idle" /\ ~Busy(t)'
  BY <1>2 DEF Now, IsIdle, Busy
<1>4. ThreadsOK'
  BY <1>1, <1>3, IdleIsThread DEF Restarted, ThreadsOK
<1>5. /\ dirents' \subseteq Dirent /\ lastOid' = lastOid /\ lastOid \in Nat /\ started' = started
      /\ inodes' \in [Oids -> Counts \cup {Absent}]
  BY <1>1, Typed DEF Base, Restarted
<1>6. /\ disk' \in [opened : SUBSET Dirent, written : SUBSET Dirent,
                    counts : [Oids -> SUBSET (Counts \cup {Absent})]]
      /\ disk'.written = dirents' /\ \A o \in Oids : disk'.counts[o] = {inodes'[o]}
  BY <1>1, <1>5, OpenedParts DEF Restarted
<1>7. EntriesNumbered'
  <2>1. AllEntries' \subseteq AllEntries
    BY <1>1, <1>6 DEF AllEntries, Restarted
  <2> QED  BY <2>1, <1>5, StayNumbered DEF Base
<1>8. \A t \in Threads : KnownEntry(t)'
  <2>1. Idle.ent = NoEntry /\ Idle.op = "none" /\ NoEntry.oid = 0 /\ NoEntry.inode = 0 /\ ~NoEntry.dir
    BY DEF Idle, NoEntry, Builtin, None
  <2> QED  BY <1>2, <1>5, <2>1 DEF KnownEntry
<1>9. Room'
  <2>1. CountsLeft' = {} /\ PutsLeft' = {}
    <3>1. Idle.op = "none"
      BY DEF Idle
    <3> QED  BY <1>2, <3>1 DEF CountsLeft, PutsLeft, Creations
  <2>2. IsFiniteSet({}) /\ Cardinality({}) = 0
    BY FS_EmptySet
  <2>3. lastOid - 2 <= started /\ started \in Nat
    BY Typed DEF Base, ORPHANS
  <2>4. \A o \in Oids : inodes[o] <= started /\ \A m \in disk.counts[o] : m <= started
    <3>1. Cardinality(CountsLeft) \in Nat /\ started \in Nat
      BY RoomNow
    <3>2. \A o \in Oids : inodes[o] \in Int /\ \A m \in disk.counts[o] : m \in Int
      BY Typed, Bounds DEF Base, Absent
    <3> QED  BY <3>1, <3>2 DEF Base, TypeInv, Room
  <2>5. \A o \in Oids : inodes'[o] <= started /\ inodes'[o] \in Int
    BY <1>1, <2>4, <1>5, Bounds DEF Restarted, Absent
  <2> QED  BY <1>3, <1>5, <1>6, <2>1, <2>2, <2>3, <2>5 DEF Room, ORPHANS
<1>10. TypeOK'
  <2>1. restarts' \in 0 .. MaxRestarts /\ crashed' \in BOOLEAN /\ aborted' \in BOOLEAN
    <3>1. restarts \in 0 .. MaxRestarts /\ crashed \in BOOLEAN /\ MaxRestarts \in Nat
      BY NamingAssumption DEF Base, TypeInv, TypeOK
    <3>2. restarts < MaxRestarts /\ restarts' = restarts + 1
      BY <1>1 DEF Restarted
    <3>3. restarts' \in 0 .. MaxRestarts
      BY <3>1, <3>2
    <3>4. (crashed' = crashed \/ crashed' = TRUE) /\ aborted' = FALSE
      BY <1>1 DEF Restarted
    <3> QED  BY <3>1, <3>3, <3>4
  <2> QED  BY <1>1, <1>4, <1>5, <1>6, <2>1
           DEF Restarted, Base, TypeInv, TypeOK, ThreadsOK, Thread
<1>11. threaded' \in BOOLEAN /\ \A h \in handles' : h.dir => h.oid # None
  BY <1>1 DEF Restarted, Base, TypeInv
<1> QED  BY <1>4, <1>7, <1>8, <1>9, <1>10, <1>11 DEF Base, TypeInv

LEMMA Overruns ==
  ASSUME Base, NEW t \in Threads, Step(t)
  PROVE  overrun' \in BOOLEAN
<1>1. overrun \in BOOLEAN
  BY DEF Base, TypeInv, TypeOK
<1> QED  BY <1>1 DEF Step, Find, FindInode, Perm, PermInode, Get, GetInode, Put, PutInode, Check,
                     IncGet, IncPut, Del, DelInode, Size, Fetch, rest

LEMMA NextKeepsBase ==
  ASSUME Base, [Next]_vars
  PROVE  Base'
<1>1. ASSUME NEW t \in Threads, Step(t), CachesWrite, UNCHANGED <<threaded, restarts, crashed>>
      PROVE  Base'
  <2>1. (Quiet(t) \/ Changing(t)) /\ th' \in [Threads -> Thread]
    BY <1>1, Steps
  <2>2. (\E y, e, n : Effect(t, y, e, n)) /\ aborted' \in BOOLEAN
    BY <2>1, QuietEffect, ChangingEffect
  <2> QED  BY <1>1, <2>2, EffectKeeps, Overruns
<1>2. CASE UNCHANGED vars
  BY <1>2 DEF vars, Base, TypeInv, TypeOK, ThreadsOK, EntriesNumbered, AllEntries, OneEntryPerOid,
     Numbered, KnownEntry, Room, CountsLeft, PutsLeft, Now, Busy, IsIdle
<1> QED  BY <1>1, <1>2, StartKeeps, RestartKeeps DEF Next, Operate, Finished

LEMMA InitBase ==
  ASSUME Init
  PROVE  Base
<1>1. \A t \in Threads : th[t] = Idle /\ Now(t) = "idle" /\ ~Busy(t)
  BY DEF Init, Now, Busy, IsIdle
<1>2. ThreadsOK
  BY <1>1, IdleIsThread DEF Init, ThreadsOK
<1>3. lastOid = 2 /\ started = 0 /\ 0 \in Oids /\ 1 \in Oids /\ 2 \in Oids
  BY Bounds DEF Init, ORPHANS
<1>4. dirents = {NoEntry, Builtin(1, "/"), Builtin(2, "orphans")}
  BY DEF Init, ORPHANS
<1>5. dirents \subseteq Dirent
  BY <1>3, <1>4 DEF NoEntry, Builtin, Dirent, None, ROOT_OID, BuiltinNames
<1>6. inodes \in [Oids -> Counts \cup {Absent}] /\ \A o \in Oids : inodes[o] <= 0 /\ inodes[o] \in Int
  BY Bounds DEF Init, Absent, ORPHANS
<1>7. /\ disk \in [opened : SUBSET Dirent, written : SUBSET Dirent,
                   counts : [Oids -> SUBSET (Counts \cup {Absent})]]
      /\ disk.written = dirents /\ \A o \in Oids : disk.counts[o] = {inodes[o]}
  BY <1>5, <1>6, OpenedParts DEF Init
<1>8. EntriesNumbered
  <2>1. AllEntries = dirents
    BY <1>7 DEF AllEntries
  <2>2. IsFiniteSet({Builtin(1, "/")})
    BY FS_Singleton
  <2>3. IsFiniteSet({Builtin(1, "/")} \cup {Builtin(2, "orphans")})
    BY <2>2, FS_AddElement
  <2>4. IsFiniteSet(({Builtin(1, "/")} \cup {Builtin(2, "orphans")}) \cup {NoEntry})
    BY <2>3, FS_AddElement
  <2>5. dirents = ({Builtin(1, "/")} \cup {Builtin(2, "orphans")}) \cup {NoEntry}
    BY <1>4
  <2>6. \A d \in dirents : d.oid <= 2 /\ d.inode <= 2 /\ (d.dir => d.oid # None) /\ d.parent = ROOT_OID
    <3>1. ASSUME NEW o \in 0 .. 2, NEW n
          PROVE  /\ Builtin(o, n).oid = o /\ Builtin(o, n).inode = o /\ Builtin(o, n).parent = ROOT_OID
                 /\ Builtin(o, n).dir => o # None
      BY DEF Builtin
    <3> QED  BY <1>4, <3>1 DEF NoEntry, None
  <2>7. \A d, e \in dirents : d.oid = e.oid => d = e
    <3>1. NoEntry.oid = 0 /\ Builtin(1, "/").oid = 1 /\ Builtin(2, "orphans").oid = 2
      BY DEF NoEntry, Builtin, None
    <3> QED  BY <1>4, <3>1
  <2> QED  BY <1>3, <2>1, <2>4, <2>5, <2>6, <2>7 DEF EntriesNumbered, Numbered, OneEntryPerOid
<1>9. \A t \in Threads : KnownEntry(t)
  <2>1. Idle.ent = NoEntry /\ Idle.op = "none" /\ NoEntry.oid = 0 /\ NoEntry.inode = 0 /\ ~NoEntry.dir
    BY DEF Idle, NoEntry, Builtin, None
  <2> QED  BY <1>1, <1>3, <2>1 DEF KnownEntry
<1>10. Room
  <2>1. CountsLeft = {} /\ PutsLeft = {}
    <3>1. Idle.op = "none"
      BY DEF Idle
    <3> QED  BY <1>1, <3>1 DEF CountsLeft, PutsLeft, Creations
  <2>2. IsFiniteSet({}) /\ Cardinality({}) = 0
    BY FS_EmptySet
  <2> QED  BY <1>1, <1>3, <1>6, <1>7, <2>1, <2>2 DEF Room, ORPHANS
<1>11. TypeOK
  <2>1. th \in [Threads -> Thread]
    BY <1>2 DEF ThreadsOK
  <2>2. handles = {} /\ aborted = FALSE /\ overrun = FALSE /\ crashed = FALSE /\ restarts = 0
    BY DEF Init
  <2>3. 0 \in 0 .. MaxOps /\ 0 \in 0 .. MaxRestarts /\ 2 \in ORPHANS .. ORPHANS + 0
    BY NamingAssumption DEF ORPHANS
  <2> QED  BY <1>3, <1>5, <1>6, <1>7, <2>1, <2>2, <2>3 DEF TypeOK, Thread
<1>12. threaded \in BOOLEAN
  BY NamingAssumption DEF Init
<1> QED  BY <1>2, <1>8, <1>9, <1>10, <1>11, <1>12 DEF Init, Base, TypeInv

LEMMA BaseHolds == Spec => []Base
<1>1. Init => Base
  BY InitBase
<1>2. Base /\ [Next]_vars => Base'
  BY NextKeepsBase
<1> QED  BY <1>1, <1>2, PTL DEF Spec

(***************************************************************************)
(* Types: no oid and no count is larger than the operations that were      *)
(* started account for, also after a crash that brings older records back. *)
(***************************************************************************)
THEOREM NamingTypeCorrect == Spec => []TypeOK
<1>1. Base => TypeOK
  BY DEF Base, TypeInv
<1> QED  BY <1>1, BaseHolds, PTL

-----------------------------------------------------------------------------
(* The server never aborts.                                                *)

\* A thread that is about to count a name of an entry knows that the entry is none of the three
\* of a new database, and that there is a name to count.
Countable(t) ==
  /\ Busy(t) => th[t].name \in Names
  /\ th[t].op = "create_link" => th[t].tname \in Names
  /\ Now(t) = "getInode" => th[t].ent.inode > ORPHANS
  /\ Now(t) = "put" /\ th[t].op = "create_link" => th[t].ent.inode > ORPHANS
  /\ Now(t) \in {"del", "delInode"} => th[t].count > 0

\* No count of a client's entry is zero, in the database or in what a crash may bring back.
AbortInv ==
  /\ ~aborted
  /\ \A d \in AllEntries : d.name \in Names => d.inode > ORPHANS
  /\ \A o \in Oids : o > ORPHANS => inodes[o] # 0 /\ 0 \notin disk.counts[o]
  /\ \A t \in Threads : Countable(t)

LEMMA CachesNow ==
  ASSUME Base, Base', CachesWrite
  PROVE  /\ AllEntries' \subseteq AllEntries \cup dirents'
         /\ \A o \in Oids : disk'.counts[o] \subseteq disk.counts[o] \cup {inodes'[o]}
<1>1. dirents' \subseteq Dirent /\ inodes' \in [Oids -> Counts \cup {Absent}]
  BY DEF Base, TypeInv, TypeOK
<1>2. /\ disk'.written \subseteq disk.written \cup dirents'
      /\ \A o \in Oids : disk'.counts[o] \subseteq disk.counts[o] \cup {inodes'[o]}
  BY <1>1, Caches DEF Base
<1> QED  BY <1>2 DEF AllEntries

\* The databases of a step that keeps AbortInv.
LEMMA StoredKeep ==
  ASSUME Base, Base', CachesWrite, AbortInv,
         \A d \in dirents' : d \in dirents \/ (d.name \in Names => d.inode > ORPHANS),
         \A o \in Oids : o > ORPHANS => inodes'[o] # 0
  PROVE  /\ \A d \in AllEntries' : d.name \in Names => d.inode > ORPHANS
         /\ \A o \in Oids : o > ORPHANS => inodes'[o] # 0 /\ 0 \notin disk'.counts[o]
<1>1. dirents \subseteq AllEntries
  BY DEF AllEntries
<1> QED  BY <1>1, CachesNow DEF AbortInv

LEMMA OthersCountable ==
  ASSUME AbortInv, NEW t \in Threads, NEW u \in Threads, u # t, th'[u] = th[u], Now(u)' = Now(u)
  PROVE  Countable(u)'
<1>1. Countable(u)
  BY DEF AbortInv
<1> QED  BY <1>1 DEF Countable, Busy, IsIdle

LEMMA MovedCountable ==
  ASSUME Base, AbortInv, NEW t \in Threads, NEW y, NEW e, NEW n, Moved(t, y, e, n), Busy(t),
         y = "getInode" => e.inode > ORPHANS,
         y = "put" /\ th[t].op = "create_link" => e.inode > ORPHANS,
         y \in {"del", "delInode"} => n > 0
  PROVE  \A u \in Threads : Countable(u)'
<1>1. CASE y = "idle"
  <2>1. th'[t] = Idle /\ Now(t)' = "idle" /\ Idle.op = "none"
    BY <1>1 DEF Moved, Idle
  <2>2. Countable(t)'
    BY <2>1 DEF Countable, Busy, IsIdle
  <2> QED  BY <2>2, OthersCountable DEF Moved
<1>2. CASE y # "idle"
  <2>1. Countable(t)
    BY DEF AbortInv
  <2>2. Countable(t)'
    BY <1>2, <2>1 DEF Countable, Moved
  <2> QED  BY <2>2, OthersCountable DEF Moved
<1> QED  BY <1>1, <1>2

LEMMA QuietAbort ==
  ASSUME Base, Base', AbortInv, NEW t \in Threads, Quiet(t), CachesWrite
  PROVE  AbortInv'
<1>1. PICK x, e, n, y :
        /\ x \in QuietSteps /\ e \in Dirent /\ n \in Counts
        /\ At(t, x) /\ Moved(t, y, e, n)
        /\ UNCHANGED <<dirents, inodes, lastOid, aborted, started>>
        /\ x = "del" => y = "idle"
        /\ y # "idle" => Follows(th[t].op, x, y) /\ Learned(t, x, e, n)
  BY DEF Quiet
<1>2. Busy(t) /\ Now(t) = x
  BY <1>1, AtNow DEF Base
<1>3. Countable(t)
  BY DEF AbortInv
<1>4. y = "getInode" => e.inode > ORPHANS
  <2>1. y = "getInode" => x = "get"
    BY <1>1 DEF Follows
  <2>2. x = "get" /\ y = "getInode" => e \in dirents /\ e.name \in Names
    BY <1>1, <1>2, <1>3 DEF Learned, ByName, Countable
  <2> QED  BY <2>1, <2>2 DEF AbortInv, AllEntries
<1>5. y = "put" /\ th[t].op = "create_link" => e.inode > ORPHANS
  <2>1. y = "put" /\ th[t].op = "create_link" => x = "getInode"
    BY <1>1 DEF Follows
  <2> QED  BY <2>1, <1>1, <1>2, <1>3 DEF Learned, Countable
<1>6. y \in {"del", "delInode"} => n > 0
  <2>1. y \in {"del", "delInode"} => x = "getInode"
    BY <1>1 DEF Follows
  <2>2. ASSUME x = "getInode", y # "idle"
        PROVE  n # 0
    <3>1. n = inodes[th[t].ent.inode] /\ th[t].ent.inode > ORPHANS
      BY <2>2, <1>1, <1>2, <1>3 DEF Learned, Countable
    <3>2. th[t].ent.inode \in Oids
      BY DEF Base, ThreadsOK, Thread, Dirent
    <3> QED  BY <3>1, <3>2 DEF AbortInv
  <2>3. n \in Nat
    BY <1>1, Bounds
  <2> QED  BY <2>1, <2>2, <2>3
<1>7. \A u \in Threads : Countable(u)'
  BY <1>1, <1>2, <1>4, <1>5, <1>6, MovedCountable
<1>8. /\ \A d \in AllEntries' : d.name \in Names => d.inode > ORPHANS
      /\ \A o \in Oids : o > ORPHANS => inodes'[o] # 0 /\ 0 \notin disk'.counts[o]
  BY <1>1, StoredKeep DEF AbortInv
<1> QED  BY <1>1, <1>7, <1>8 DEF AbortInv

LEMMA ChangingAbort ==
  ASSUME Base, Base', AbortInv, NEW t \in Threads, Changing(t), CachesWrite
  PROVE  AbortInv'
<1> DEFINE r == th[t]  i == r.ent.inode
<1>0. /\ r.count \in Nat /\ i \in Oids /\ inodes \in [Oids -> Counts \cup {Absent}]
      /\ \A o \in Oids : o > ORPHANS => inodes[o] # 0
  <2>1. r \in Thread
    BY DEF Base, ThreadsOK
  <2>2. r.count \in Nat /\ r.ent \in Dirent
    BY <2>1, Bounds DEF Thread
  <2>3. i \in Oids
    BY <2>2 DEF Dirent
  <2>4. inodes \in [Oids -> Counts \cup {Absent}]
    BY Typed DEF Base
  <2>5. \A o \in Oids : o > ORPHANS => inodes[o] # 0
    BY DEF AbortInv
  <2> QED  BY <2>2, <2>3, <2>4, <2>5
<1>1. SUFFICES /\ aborted' = FALSE
               /\ \A d \in dirents' : d \in dirents \/ (d.name \in Names => d.inode > ORPHANS)
               /\ \A o \in Oids : o > ORPHANS => inodes'[o] # 0
               /\ \A u \in Threads : Countable(u)'
  BY StoredKeep DEF AbortInv
<1>2. Countable(t) /\ ~aborted
  BY DEF AbortInv
<1>3. ASSUME NEW x, Continues(t, x), x \in {"putInode", "incPut", "del", "delInode"}
      PROVE  (\A u \in Threads : Countable(u)') /\ Now(t) = x
  <2>1. PICK y : Follows(r.op, x, y) /\ Moved(t, y, r.ent, r.count)
    BY <1>3 DEF Continues
  <2>2. Busy(t) /\ Now(t) = x
    BY <1>3, AtNow DEF Continues, Base
  <2>3. y \notin {"getInode", "put", "del"} /\ (y = "delInode" => x = "del")
    BY <2>1, <1>3 DEF Follows
  <2>4. y = "delInode" => r.count > 0
    BY <1>2, <2>2, <2>3 DEF Countable
  <2> QED  BY <2>1, <2>2, <2>3, <2>4, MovedCountable
<1>4. CASE PutInodeDone(t)
  <2>1. \A o \in Oids : o > ORPHANS => inodes'[o] # 0
    BY <1>0, <1>4 DEF PutInodeDone, PutCount
  <2>2. aborted' = FALSE
    BY <1>2, <1>4 DEF PutInodeDone, Base, TypeInv, TypeOK
  <2> QED  BY <1>3, <1>4, <2>1, <2>2 DEF PutInodeDone
<1>5. CASE IncPutDone(t)
  <2>1. \A o \in Oids : o > ORPHANS => inodes'[o] # 0
    BY <1>0, <1>5 DEF IncPutDone, PutCount
  <2>2. aborted' = FALSE
    BY <1>2, <1>5 DEF IncPutDone, Base, TypeInv, TypeOK
  <2> QED  BY <1>3, <1>5, <2>1, <2>2 DEF IncPutDone
<1>6. CASE DelDone(t)
  <2>2. aborted' = FALSE
    BY <1>2, <1>6 DEF DelDone, Base, TypeInv, TypeOK
  <2> QED  BY <1>0, <1>3, <1>6, <2>2 DEF DelDone
<1>7. CASE DelInodeDone(t)
  <2>1. Now(t) = "delInode" /\ \A u \in Threads : Countable(u)'
    BY <1>3, <1>7 DEF DelInodeDone
  <2>2. r.count > 0
    BY <2>1, <1>2 DEF Countable
  <2>3. ~(r.count - 1 < 0)
    BY <2>2, <1>0
  <2>4. aborted' = FALSE
    <3>1. aborted' = (r.count - 1 < 0)
      BY <1>7, Zenon DEF DelInodeDone
    <3>2. (r.count - 1 < 0) = FALSE
      BY <2>3
    <3> QED  BY <3>1, <3>2, Zenon
  <2>5. \A o \in Oids : o > ORPHANS => inodes'[o] # 0
    <3>1. ASSUME NEW c, c # 0, PutCount(i, c)
          PROVE  \A o \in Oids : o > ORPHANS => inodes'[o] # 0
      BY <1>0, <3>1 DEF PutCount
    <3>2. Absent # 0
      BY DEF Absent
    <3>3. CASE PutCount(i, Absent)
      BY <3>1, <3>2, <3>3
    <3>4. CASE r.count - 1 > 0 /\ PutCount(i, r.count - 1)
      <4>1. r.count - 1 # 0
        BY <3>4, <1>0
      <4> QED  BY <3>1, <3>4, <4>1
    <3>5. CASE inodes' = inodes
      BY <3>5, <1>0
    <3> QED  BY <1>7, <3>3, <3>4, <3>5 DEF DelInodeDone
  <2> QED  BY <1>7, <2>1, <2>4, <2>5 DEF DelInodeDone
<1>8. CASE PutFails(t)
  <2>1. Moved(t, "idle", r.ent, r.count) /\ Busy(t)
    BY <1>8, AtNow DEF PutFails, Base
  <2>2. \A u \in Threads : Countable(u)'
    BY <2>1, MovedCountable
  <2>3. aborted' = FALSE
    BY <1>2, <1>8 DEF PutFails, Base, TypeInv, TypeOK
  <2> QED  BY <1>0, <1>8, <2>2, <2>3 DEF PutFails
<1>9. CASE PutDone(t)
  <2>1. PICK e : e = NewEntry(t)
    OBVIOUS
  <2>2. PICK y : Follows(r.op, "put", y) /\ Moved(t, y, e, r.count)
    BY <1>9, <2>1 DEF PutDone
  <2>3. Busy(t) /\ Now(t) = "put" /\ At(t, "put") /\ lastOid' = lastOid + 1
    BY <1>9, AtNow DEF PutDone, Base
  <2>4. y \notin {"getInode", "put", "del", "delInode"}
    BY <2>2 DEF Follows
  <2>5. \A u \in Threads : Countable(u)'
    BY <2>2, <2>3, <2>4, MovedCountable
  <2>6. aborted' = FALSE
    BY <1>2, <1>9 DEF PutDone, Base, TypeInv, TypeOK
  <2>7. e.inode = IF r.op = "create_link" THEN i ELSE lastOid + 1
    BY <2>1, <2>3, NewIsNumbered
  <2>8. e.inode > ORPHANS
    <3>1. lastOid \in Nat /\ lastOid >= 2
      BY Typed DEF Base
    <3> QED  BY <3>1, <2>3, <2>7, <1>2 DEF Countable, ORPHANS
  <2> QED  BY <1>0, <1>9, <2>1, <2>5, <2>6, <2>8 DEF PutDone
<1> QED  BY <1>4, <1>5, <1>6, <1>7, <1>8, <1>9 DEF Changing

LEMMA StartAbort ==
  ASSUME Base, Base', AbortInv, NEW t \in Threads, StartSome(t), CachesWrite
  PROVE  AbortInv'
<1>1. PICK op, p, n, tp, tn : Began(t, op, p, n, tp, tn)
  BY StartSomeBegins
<1>2. UNCHANGED <<dirents, inodes, aborted>>
  BY <1>1 DEF Began, Start, db
<1>3. Countable(t)'
  <2>1. Now(t)' \in {"find", "perm", "put"} /\ (Now(t)' = "put" => op = "create_namespace")
    BY <1>1, FirstStep DEF Began
  <2> QED  BY <2>1, <1>1 DEF Began, Countable
<1>4. \A u \in Threads : Countable(u)'
  BY <1>1, <1>3, OthersCountable DEF Began
<1>5. /\ \A d \in AllEntries' : d.name \in Names => d.inode > ORPHANS
      /\ \A o \in Oids : o > ORPHANS => inodes'[o] # 0 /\ 0 \notin disk'.counts[o]
  BY <1>2, StoredKeep DEF AbortInv
<1> QED  BY <1>2, <1>4, <1>5 DEF AbortInv

LEMMA IdleCountable ==
  ASSUME NEW t \in Threads, th[t] = Idle
  PROVE  Countable(t)
<1>1. Now(t) = "idle" /\ ~Busy(t) /\ Idle.op = "none"
  BY DEF Now, IsIdle, Busy, Idle
<1> QED  BY <1>1 DEF Countable

LEMMA RestartAbort ==
  ASSUME Base, AbortInv, Restart
  PROVE  AbortInv'
<1>1. Restarted
  BY Restarting
<1>2. /\ disk'.written = dirents' /\ \A o \in Oids : disk'.counts[o] = {inodes'[o]}
  BY <1>1, OpenedParts DEF Restarted
<1>3. \A d \in AllEntries' : d.name \in Names => d.inode > ORPHANS
  <2>1. AllEntries' \subseteq AllEntries
    BY <1>1, <1>2 DEF AllEntries, Restarted
  <2> QED  BY <2>1 DEF AbortInv
<1>4. \A o \in Oids : o > ORPHANS => inodes'[o] # 0 /\ 0 \notin disk'.counts[o]
  BY <1>1, <1>2 DEF Restarted, AbortInv
<1>5. ASSUME NEW t \in Threads
      PROVE  Countable(t)'
  <2>1. th'[t] = Idle
    BY <1>1 DEF Restarted
  <2>2. Now(t)' = "idle" /\ ~Busy(t)' /\ Idle.op = "none"
    BY <2>1 DEF Now, IsIdle, Busy, Idle
  <2> QED  BY <2>1, <2>2 DEF Countable
<1> QED  BY <1>1, <1>3, <1>4, <1>5 DEF Restarted, AbortInv

LEMMA InitAbort ==
  ASSUME Init, Names \cap BuiltinNames = {}
  PROVE  AbortInv
<1>1. \A t \in Threads : Countable(t)
  BY IdleCountable DEF Init
<1>2. /\ disk.written = dirents /\ \A o \in Oids : disk.counts[o] = {inodes[o]}
  BY OpenedParts DEF Init
<1>3. \A d \in AllEntries : d.name \in BuiltinNames
  BY <1>2 DEF AllEntries, Init, NoEntry, Builtin, BuiltinNames
<1>4. \A o \in Oids : o > ORPHANS => inodes[o] # 0 /\ 0 \notin disk.counts[o]
  <2>1. \A o \in Oids : o > ORPHANS => inodes[o] = Absent
    BY Bounds DEF Init, ORPHANS
  <2> QED  BY <1>2, <2>1 DEF Absent
<1> QED  BY <1>1, <1>3, <1>4 DEF Init, AbortInv

LEMMA NextKeepsAbort ==
  ASSUME Base, Base', AbortInv, [Next]_vars
  PROVE  AbortInv'
<1>1. ASSUME NEW t \in Threads, Step(t), CachesWrite
      PROVE  AbortInv'
  BY <1>1, Steps, QuietAbort, ChangingAbort
<1>2. CASE UNCHANGED vars
  BY <1>2 DEF vars, AbortInv, AllEntries, Countable, Now, Busy, IsIdle
<1> QED  BY <1>1, <1>2, StartAbort, RestartAbort DEF Next, Operate, Finished

(***************************************************************************)
(* "negative ref count.  concurrency error.  abort.": db_del never takes a *)
(* count below zero, with or without threads and links, before and after   *)
(* crashes, as long as clients use none of the names of a new database     *)
(* (whose entries are not counted).                                        *)
(***************************************************************************)
THEOREM NamingNeverAborts == Names \cap BuiltinNames = {} => (Spec => []NoAbort)
<1> SUFFICES ASSUME Names \cap BuiltinNames = {}
             PROVE  Spec => []NoAbort
  OBVIOUS
<1>1. Init => AbortInv
  BY InitAbort
<1>2. AbortInv /\ Base /\ Base' /\ [Next]_vars => AbortInv'
  BY NextKeepsAbort
<1>3. AbortInv => NoAbort
  BY DEF AbortInv, NoAbort
<1> QED  BY <1>1, <1>2, <1>3, BaseHolds, PTL DEF Spec

-----------------------------------------------------------------------------
(* The databases agree.                                                    *)

\* The names of an inode, as its count says and as the entries say.
Count(i) == IF inodes[i] = Absent THEN 0 ELSE inodes[i]
Entries(i) == {d \in dirents : d.inode = i}

\* An operation is between its change of an entry and that of the count.
Adds(t, i) == Now(t) \in {"putInode", "incGet", "incPut"} /\ th[t].ent.inode = i
Drops(t, i) == Now(t) = "delInode" /\ th[t].ent.inode = i
Holds(t, i) == Adds(t, i) \/ Drops(t, i)

\* At most one operation is, and the count is off by what it still has to store.
Exact(i) ==
  /\ \A t, u \in Threads : Holds(t, i) /\ Holds(u, i) => t = u
  /\ (\A t \in Threads : ~Holds(t, i)) => Count(i) = Cardinality(Entries(i))
  /\ \A t \in Threads :
       /\ Adds(t, i) => Count(i) + 1 = Cardinality(Entries(i))
       /\ Drops(t, i) => Count(i) = Cardinality(Entries(i)) + 1

\* What an operation has found still holds when it stores what follows from it.
Knows(t) ==
  LET i == th[t].ent.inode
      link == th[t].op = "create_link"
  IN  /\ link => th[t].tparent # ROOT_OID
      /\ link /\ Now(t) \in {"getInode", "put", "incGet", "incPut"} => i > ORPHANS
      /\ link /\ Now(t) \in {"put", "incGet"} => Stored(i)
      /\ Now(t) = "putInode" => i > ORPHANS /\ ~Stored(i)
      /\ Now(t) \in {"incPut", "delInode"} => th[t].count = inodes[i]
      /\ Now(t) = "del" /\ th[t].ent \in dirents => th[t].count = inodes[i]

\* Without threads: one operation at a time.
Serial ==
  /\ \A t, u \in Threads : Busy(t) /\ Busy(u) => t = u
  /\ ParentsExist
  /\ \A t \in Threads :
       /\ th[t].op \in {"create_dir", "create_file", "create_link"} /\ Now(t) # "perm" =>
            ByOid(th[t].parent) # {}
       /\ th[t].op = "create_namespace" => th[t].parent = ROOT_OID
       /\ th[t].op \in Removals /\ Now(t) # "delInode" =>
            \A d \in ByName(th[t].parent, th[t].name) : Children(d.oid) = {}
       /\ th[t].op \in Removals /\ Now(t) \in {"getInode", "del"} =>
            th[t].ent.parent = th[t].parent /\ th[t].ent.name = th[t].name

\* With threads, and no links: an inode has the oid of its entry, and is counted once.
Threaded ==
  /\ \A t \in Threads : th[t].op # "create_link"
  /\ \A d \in dirents : d.inode = d.oid
  /\ \A i \in Oids : i > ORPHANS => inodes[i] \in {Absent, 1}

Agreeing ==
  /\ \A i \in Oids : i > ORPHANS => Exact(i)
  /\ \A i \in Oids : i <= ORPHANS => inodes[i] = 0
  /\ \A i \in Oids : i > ORPHANS => inodes[i] # 0
  /\ \A i \in Oids : i > lastOid => ~Stored(i)
  /\ \A d \in dirents : d.parent # ROOT_OID => d.inode > ORPHANS
  /\ \A t \in Threads : Knows(t)

Mode == IF threaded THEN Threaded ELSE Serial

\* The databases agree up to the operations under way; a crash leaves unique names only.
AgreeInv == UniqueNames /\ (~crashed => Agreeing /\ Mode)

\* Nothing happens to the threads but t.
Same(t) == \A u \in Threads : u # t => th'[u] = th[u] /\ Now(u)' = Now(u)

LEMMA Numbers ==
  ASSUME Base, NEW i \in Oids
  PROVE  /\ IsFiniteSet(Entries(i)) /\ Cardinality(Entries(i)) \in Nat
         /\ Count(i) \in Nat
         /\ Stored(i) => Count(i) = inodes[i] /\ inodes[i] \in Nat
         /\ ~Stored(i) => Count(i) = 0
<1>1. Entries(i) \subseteq AllEntries /\ IsFiniteSet(AllEntries)
  BY DEF Entries, AllEntries, Base, TypeInv, EntriesNumbered
<1>2. IsFiniteSet(Entries(i))
  BY <1>1, FS_Subset
<1>3. inodes[i] \in Counts \cup {Absent}
  BY Typed DEF Base
<1>4. /\ Count(i) \in Nat
      /\ Stored(i) => Count(i) = inodes[i] /\ inodes[i] \in Nat
      /\ ~Stored(i) => Count(i) = 0
  BY <1>3, Bounds DEF Count, Stored
<1> QED  BY <1>2, <1>4, FS_CardinalityType

LEMMA LoneThread ==
  ASSUME Base, Serial, NEW t \in Threads, Busy(t), NEW u \in Threads, u # t
  PROVE  th[u] = Idle /\ Now(u) = "idle" /\ ~Busy(u)
<1>1. ~Busy(u)
  BY DEF Serial
<1> QED  BY <1>1 DEF Busy, Now, IsIdle

\* When and how the count of an inode is exact after a step of the thread t.
LEMMA ExactStays ==
  ASSUME NEW i, NEW t \in Threads, Exact(i), Same(t),
         Adds(t, i)' <=> Adds(t, i), Drops(t, i)' <=> Drops(t, i),
         inodes'[i] = inodes[i], Entries(i)' = Entries(i)
  PROVE  Exact(i)'
<1>1. \A u \in Threads : (Adds(u, i)' <=> Adds(u, i)) /\ (Drops(u, i)' <=> Drops(u, i))
  BY DEF Same, Adds, Drops
<1>2. Count(i)' = Count(i)
  BY DEF Count
<1> QED  BY <1>1, <1>2 DEF Exact, Holds

LEMMA ExactTaken ==
  ASSUME NEW i, NEW t \in Threads, Same(t), \A u \in Threads : u # t => ~Holds(u, i),
         \/ Adds(t, i)' /\ (Count(i) + 1 = Cardinality(Entries(i)))'
         \/ Drops(t, i)' /\ (Count(i) = Cardinality(Entries(i)) + 1)'
  PROVE  Exact(i)'
<1>1. \A u \in Threads : u # t => ~Holds(u, i)'
  BY DEF Same, Holds, Adds, Drops
<1>2. ~(Adds(t, i)' /\ Drops(t, i)')
  BY DEF Adds, Drops
<1> QED  BY <1>1, <1>2 DEF Exact, Holds

LEMMA ExactReleased ==
  ASSUME NEW i, NEW t \in Threads, Same(t), \A u \in Threads : u # t => ~Holds(u, i),
         ~Holds(t, i)', (Count(i) = Cardinality(Entries(i)))'
  PROVE  Exact(i)'
<1>1. \A u \in Threads : ~Holds(u, i)'
  BY DEF Same, Holds, Adds, Drops
<1> QED  BY <1>1 DEF Exact, Holds

\* When the other threads know what they knew.
LEMMA OthersKnow ==
  ASSUME Base, Mode, Agreeing, NEW t \in Threads, Busy(t), Same(t), NEW u \in Threads, u # t,
         threaded => \/ Now(u) \notin {"putInode", "del", "delInode"}
                     \/ Now(u) = "del" /\ th[u].ent \notin dirents'
                     \/ /\ Now(u) = "del" => th[u].ent \in dirents
                        /\ inodes'[th[u].ent.inode] = inodes[th[u].ent.inode]
  PROVE  Knows(u)'
<1>1. th'[u] = th[u] /\ Now(u)' = Now(u) /\ Knows(u)
  BY DEF Same, Agreeing
<1>2. CASE threaded
  <2>1. th[u].op # "create_link"
    BY <1>2 DEF Mode, Threaded
  <2>2. Now(u) # "incPut"
    <3>1. Busy(u) => Takes(th[u].op, Now(u))
      BY BusyNow DEF Base
    <3> QED  BY <3>1, <2>1, BusyNow DEF Base, Takes
  <2> QED  BY <1>1, <1>2, <2>1, <2>2 DEF Knows, Stored
<1>3. CASE ~threaded
  <2>1. th[u] = Idle /\ Now(u) = "idle" /\ Idle.op = "none"
    BY <1>3, LoneThread DEF Mode, Idle
  <2> QED  BY <1>1, <2>1 DEF Knows
<1> QED  BY <1>2, <1>3

LEMMA StaySerial ==
  ASSUME Base, Serial, NEW t \in Threads, Busy(t), NEW y, NEW e, NEW n, Moved(t, y, e, n),
         y # "idle" => Follows(th[t].op, Now(t), y),
         ParentsExist',
         y # "idle" /\ th[t].op \in {"create_dir", "create_file", "create_link"} =>
           \E d \in dirents' : d.oid = th[t].parent,
         y \notin {"idle", "delInode"} /\ th[t].op \in Removals =>
           \A c, d \in dirents' : d.parent = th[t].parent /\ d.name = th[t].name => c.parent # d.oid,
         y \in {"getInode", "del"} /\ th[t].op \in Removals =>
           e.parent = th[t].parent /\ e.name = th[t].name
  PROVE  Serial'
<1>1. \A u \in Threads : u # t => th'[u] = Idle /\ Now(u)' = "idle" /\ ~Busy(u)'
  BY LoneThread DEF Moved, Busy, IsIdle
<1>2. Idle.op = "none" /\ "none" \notin Removals
  BY DEF Idle, Removals
<1>3. CASE y = "idle"
  <2>1. th'[t] = Idle
    BY <1>3 DEF Moved
  <2>2. \A u \in Threads : th'[u].op = "none" /\ ~Busy(u)'
    BY <1>1, <1>2, <2>1 DEF Busy, IsIdle
  <2> QED  BY <1>2, <2>2 DEF Serial
<1>4. CASE y # "idle"
  <2>1. /\ th'[t].op = th[t].op /\ th'[t].parent = th[t].parent /\ th'[t].name = th[t].name
        /\ th'[t].ent = e /\ Now(t)' = y
    BY <1>4 DEF Moved
  <2>2. th[t].op \in {"create_dir", "create_file", "create_link"} => ByOid(th[t].parent)' # {}
    BY <1>4, <2>1 DEF ByOid
  <2>3. th[t].op \in Removals /\ y # "delInode" =>
          (\A d \in ByName(th[t].parent, th[t].name) : Children(d.oid) = {})'
    BY <1>4, <2>1 DEF ByName, Children
  <2>4. \A v, w \in Threads : Busy(v)' /\ Busy(w)' => v = w
    BY <1>1
  <2>5. th'[t].op = "create_namespace" => th'[t].parent = ROOT_OID
    BY <2>1 DEF Serial
  <2>6. \A u \in Threads : u # t => th'[u].op = "none"
    BY <1>1, <1>2
  <2> QED  BY <1>2, <2>1, <2>2, <2>3, <2>4, <2>5, <2>6 DEF Serial
<1> QED  BY <1>3, <1>4

LEMMA StayThreaded ==
  ASSUME Threaded, NEW t \in Threads, NEW y, NEW e, NEW n, Moved(t, y, e, n),
         \A d \in dirents' : d \in dirents \/ d.inode = d.oid,
         \A i \in Oids : i > ORPHANS => inodes'[i] \in {inodes[i], Absent, 1}
  PROVE  Threaded'
<1>1. \A u \in Threads : th'[u].op # "create_link"
  <2>1. Idle.op = "none"
    BY DEF Idle
  <2> QED  BY <2>1 DEF Threaded, Moved
<1> QED  BY <1>1 DEF Threaded

LEMMA QuietAgree ==
  ASSUME Base, Agreeing, Mode, NEW t \in Threads, Quiet(t), threaded' = threaded
  PROVE  Agreeing' /\ Mode'
<1> DEFINE r == th[t]
<1>1. PICK x, e, n, y :
        /\ x \in QuietSteps /\ e \in Dirent /\ n \in Counts
        /\ At(t, x) /\ Moved(t, y, e, n)
        /\ UNCHANGED <<dirents, inodes, lastOid, aborted, started>>
        /\ y = "idle" /\ x = "incGet" => ~Stored(r.ent.inode)
        /\ x = "del" => y = "idle"
        /\ y # "idle" => Follows(r.op, x, y) /\ Learned(t, x, e, n)
  BY DEF Quiet
<1>2. Busy(t) /\ Now(t) = x /\ Takes(r.op, x) /\ r.op \in AllOps
  BY <1>1, AtNow DEF Base
<1>3. Same(t) /\ Knows(t)
  BY <1>1 DEF Moved, Same, Agreeing
<1>4. y \in {"putInode", "incGet", "incPut"} => x = "incGet" /\ y = "incPut"
  BY <1>1 DEF Follows, QuietSteps
<1>5. y # "delInode"
  BY <1>1 DEF Follows, QuietSteps
<1>6. ASSUME NEW i
      PROVE  (Adds(t, i)' <=> Adds(t, i)) /\ (Drops(t, i)' <=> Drops(t, i))
  <2>1. CASE x = "incGet"
    <3>1. r.op = "create_link"
      BY <1>2, <2>1 DEF Takes
    <3>2. Stored(r.ent.inode)
      BY <1>2, <1>3, <2>1, <3>1 DEF Knows
    <3>3. y = "incPut" /\ e = r.ent
      BY <1>1, <2>1, <3>2 DEF Follows, Learned
    <3>4. th'[t].ent = r.ent /\ Now(t)' = "incPut"
      BY <1>1, <3>3 DEF Moved
    <3> QED  BY <1>2, <2>1, <3>4 DEF Adds, Drops
  <2>2. CASE x # "incGet"
    <3>1. Now(t)' \notin {"putInode", "incGet", "incPut", "delInode"}
      BY <1>1, <1>4, <1>5, <2>2 DEF Moved
    <3>2. Now(t) \notin {"putInode", "incGet", "incPut", "delInode"}
      BY <1>1, <1>2, <2>2 DEF QuietSteps
    <3> QED  BY <3>1, <3>2 DEF Adds, Drops
  <2> QED  BY <2>1, <2>2
<1>7. ASSUME NEW i \in Oids, i > ORPHANS
      PROVE  Exact(i)'
  <2>1. Exact(i) /\ inodes'[i] = inodes[i] /\ Entries(i)' = Entries(i)
    BY <1>1, <1>7 DEF Agreeing, Entries
  <2> QED  BY <1>3, <1>6, <2>1, ExactStays
<1>8. Knows(t)'
  <2>1. CASE y = "idle"
    <3>1. th'[t] = Idle /\ Now(t)' = "idle" /\ Idle.op = "none"
      BY <1>1, <2>1 DEF Moved, Idle
    <3> QED  BY <3>1 DEF Knows
  <2>2. CASE y # "idle"
    <3> DEFINE link == r.op = "create_link"
    <3>1. /\ th'[t].op = r.op /\ th'[t].tparent = r.tparent /\ th'[t].ent = e /\ th'[t].count = n
          /\ Now(t)' = y
      BY <1>1, <2>2 DEF Moved
    <3>2. link => r.tparent # ROOT_OID
      BY <1>3 DEF Knows
    <3>3. ASSUME link, y \in {"getInode", "put", "incGet", "incPut"}
          PROVE  e.inode > ORPHANS
      <4>1. CASE x = "get"
        <5>1. e \in dirents /\ e.parent = r.tparent
          BY <1>1, <2>2, <3>3, <4>1 DEF Learned, ByName
        <5> QED  BY <3>2, <3>3, <5>1 DEF Agreeing
      <4>2. CASE x # "get"
        <5>1. x \in {"getInode", "incGet"}
          BY <1>1, <2>2, <3>3, <4>2 DEF Follows, QuietSteps
        <5>2. e = r.ent
          BY <1>1, <2>2, <5>1 DEF Learned
        <5> QED  BY <1>2, <1>3, <3>3, <5>1, <5>2 DEF Knows
      <4> QED  BY <4>1, <4>2
    <3>4. ASSUME link, y \in {"put", "incGet"}
          PROVE  Stored(e.inode)
      <4>1. x = "getInode"
        BY <1>1, <1>4, <2>2, <3>4 DEF Follows, QuietSteps
      <4> QED  BY <1>1, <2>2, <4>1 DEF Learned
    <3>5. ASSUME y \in {"incPut", "del"}
          PROVE  n = inodes[e.inode]
      <4>1. x \in {"incGet", "getInode"}
        BY <1>1, <2>2, <3>5 DEF Follows
      <4> QED  BY <1>1, <2>2, <4>1 DEF Learned
    <3> QED  BY <1>1, <1>4, <1>5, <3>1, <3>2, <3>3, <3>4, <3>5 DEF Knows, Stored
  <2> QED  BY <2>1, <2>2
<1>9. ASSUME NEW u \in Threads
      PROVE  Knows(u)'
  <2>1. CASE u # t
    BY <1>1, <1>2, <1>3, <2>1, OthersKnow
  <2> QED  BY <1>8, <2>1
<1>10. Agreeing'
  BY <1>1, <1>7, <1>9 DEF Agreeing, Stored
<1>11. CASE threaded
  <2>1. Threaded
    BY <1>11 DEF Mode
  <2>2. Threaded'
    BY <1>1, <2>1, StayThreaded
  <2> QED  BY <1>10, <1>11, <2>2 DEF Mode
<1>12. CASE ~threaded
  <2>1. Serial
    BY <1>12 DEF Mode
  <2>2. ParentsExist'
    BY <1>1, <2>1 DEF Serial, ParentsExist, ByOid
  <2>3. ASSUME y # "idle", r.op \in {"create_dir", "create_file", "create_link"}
        PROVE  \E d \in dirents' : d.oid = r.parent
    <3>1. CASE x = "perm"
      <4>1. ~At(t, "permTarget")
        BY <1>2, <3>1, AtNow DEF Base
      <4>2. Checked(t) = r.parent
        BY <2>3, <4>1 DEF Checked
      <4>3. e \in ByOid(Checked(t))
        BY <1>1, <2>3, <3>1 DEF Learned
      <4> QED  BY <1>1, <4>2, <4>3 DEF ByOid
    <3>2. CASE x # "perm"
      BY <1>1, <1>2, <2>1, <2>3, <3>2 DEF Serial, ByOid
    <3> QED  BY <3>1, <3>2
  <2>4. ASSUME r.op \in Removals
        PROVE  \A c, d \in dirents' : d.parent = r.parent /\ d.name = r.name => c.parent # d.oid
    <3>1. Now(t) # "delInode"
      BY <1>1, <1>2 DEF QuietSteps
    <3>2. \A d \in ByName(r.parent, r.name) : Children(d.oid) = {}
      BY <2>1, <2>4, <3>1 DEF Serial
    <3> QED  BY <1>1, <3>2 DEF ByName, Children
  <2>5. ASSUME y \in {"getInode", "del"}, r.op \in Removals
        PROVE  e.parent = r.parent /\ e.name = r.name
    <3>1. CASE y = "getInode"
      <4>1. x = "get" /\ r.op # "create_link"
        BY <1>1, <2>5, <3>1 DEF Follows, Removals
      <4> QED  BY <1>1, <3>1, <4>1 DEF Learned, ByName
    <3>2. CASE y = "del"
      <4>1. x = "getInode"
        BY <1>1, <3>2 DEF Follows
      <4>2. e = r.ent
        BY <1>1, <3>2, <4>1 DEF Learned
      <4> QED  BY <1>2, <2>1, <2>5, <4>1, <4>2 DEF Serial
    <3> QED  BY <2>5, <3>1, <3>2
  <2>6. Serial'
    BY <1>1, <1>2, <2>1, <2>2, <2>3, <2>4, <2>5, StaySerial
  <2> QED  BY <1>10, <1>12, <2>6 DEF Mode
<1> QED  BY <1>11, <1>12

LEMMA KnowsNothing ==
  ASSUME NEW t \in Threads, th'[t] = Idle, Now(t)' = "idle"
  PROVE  Knows(t)'
<1>1. Idle.op = "none"
  BY DEF Idle
<1> QED  BY <1>1 DEF Knows

\* An operation ends and neither database changes.
LEMMA EndAgree ==
  ASSUME Base, Agreeing, Mode, NEW t \in Threads, Busy(t), NEW e, NEW n, Moved(t, "idle", e, n),
         UNCHANGED <<dirents, inodes, threaded>>, lastOid' \in {lastOid, lastOid + 1},
         \A i \in Oids : i > ORPHANS => ~Holds(t, i)
  PROVE  Agreeing' /\ Mode'
<1>1. Same(t) /\ Now(t)' = "idle" /\ th'[t] = Idle
  BY DEF Moved, Same
<1>2. ASSUME NEW i \in Oids, i > ORPHANS
      PROVE  Exact(i)'
  <2>1. Exact(i) /\ inodes'[i] = inodes[i] /\ Entries(i)' = Entries(i)
    BY <1>2 DEF Agreeing, Entries
  <2>2. (Adds(t, i)' <=> Adds(t, i)) /\ (Drops(t, i)' <=> Drops(t, i))
    BY <1>1, <1>2 DEF Holds, Adds, Drops
  <2> QED  BY <1>1, <2>1, <2>2, ExactStays
<1>3. \A u \in Threads : Knows(u)'
  BY <1>1, KnowsNothing, OthersKnow
<1>4. \A i \in Oids : i > lastOid' => i > lastOid
  BY Typed, Bounds DEF Base
<1>5. Agreeing'
  BY <1>2, <1>3, <1>4 DEF Agreeing, Stored
<1>6. Threaded => Threaded'
  BY StayThreaded
<1>7. Serial => Serial'
  <2>1. Serial => ParentsExist'
    BY DEF Serial, ParentsExist, ByOid
  <2> QED  BY <2>1, StaySerial
<1> QED  BY <1>5, <1>6, <1>7 DEF Mode

LEMMA PutFailsAgree ==
  ASSUME Base, Agreeing, Mode, NEW t \in Threads, PutFails(t), threaded' = threaded
  PROVE  Agreeing' /\ Mode'
<1>1. Busy(t) /\ Now(t) = "put"
  BY AtNow DEF PutFails, Base
<1>2. \A i : ~Holds(t, i)
  BY <1>1 DEF Holds, Adds, Drops
<1> QED  BY <1>1, <1>2, EndAgree DEF PutFails

LEMMA PutDoneAgree ==
  ASSUME Base, Agreeing, Mode, NEW t \in Threads, PutDone(t), threaded' = threaded
  PROVE  Agreeing' /\ Mode'
<1> DEFINE r == th[t]  link == r.op = "create_link"  o == lastOid + 1
<1>1. PICK e : e = NewEntry(t)
  OBVIOUS
<1>2. PICK y : Follows(r.op, "put", y) /\ Moved(t, y, e, r.count)
  BY <1>1 DEF PutDone
<1>3. /\ At(t, "put") /\ Busy(t) /\ Now(t) = "put" /\ Takes(r.op, "put") /\ Same(t) /\ Knows(t)
      /\ dirents' = dirents \cup {e} /\ inodes' = inodes /\ lastOid' = o
  BY <1>1, <1>2, AtNow DEF PutDone, Base, Moved, Same, Agreeing
<1>4. /\ e \in Dirent /\ e.oid = o /\ e.inode = (IF link THEN r.ent.inode ELSE o)
      /\ e.parent = r.parent /\ e.name = r.name
  BY <1>1, <1>3, NewIsNumbered
<1>5. /\ lastOid \in Nat /\ lastOid >= 2 /\ o \in Oids /\ ~Stored(o) /\ e.inode \in Oids /\ o > ORPHANS
  <2>1. lastOid \in Nat /\ lastOid >= 2
    BY Typed DEF Base
  <2>2. o \in Oids /\ e.inode \in Oids
    BY <1>3, <1>4, NewEntryOK, DirentParts
  <2>3. o > lastOid /\ o > ORPHANS
    BY <2>1 DEF ORPHANS
  <2> QED  BY <2>1, <2>2, <2>3 DEF Agreeing
<1>6. \A d \in dirents : d.oid <= lastOid /\ d.inode <= lastOid /\ d.oid \in Int /\ d.inode \in Int
  BY Typed, DirentParts DEF Base, TypeInv, EntriesNumbered, Numbered, AllEntries
<1>7. e \notin dirents
  BY <1>4, <1>5, <1>6
<1>8. y = (IF link THEN "incGet" ELSE "putInode")
  BY <1>2 DEF Follows
<1>9. /\ th'[t].op = r.op /\ th'[t].tparent = r.tparent /\ th'[t].ent = e /\ Now(t)' = y
  BY <1>2, <1>8 DEF Moved
<1>10. link => r.tparent # ROOT_OID /\ e.inode > ORPHANS /\ Stored(e.inode) /\ ~threaded
  BY <1>3, <1>4 DEF Knows, Mode, Threaded
<1>11. \A u \in Threads : ~Holds(u, e.inode)
  <2>1. CASE link
    <3>1. Serial
      BY <2>1, <1>10 DEF Mode
    <3>2. \A u \in Threads : u # t => Now(u) = "idle"
      BY <1>3, <3>1, LoneThread
    <3> QED  BY <1>3, <3>2 DEF Holds, Adds, Drops
  <2>2. CASE ~link
    <3>1. \A u \in Threads : th[u].ent.inode <= lastOid /\ th[u].ent.inode \in Int
      BY DirentParts DEF Base, ThreadsOK, Thread, TypeInv, KnownEntry
    <3>2. \A u \in Threads : th[u].ent.inode # o
      BY <3>1, <1>5
    <3> QED  BY <2>2, <1>4, <3>2 DEF Holds, Adds, Drops
  <2> QED  BY <2>1, <2>2
<1>12. Exact(e.inode)'
  <2>1. PICK i : i = e.inode
    OBVIOUS
  <2>2. i \in Oids /\ i > ORPHANS
    BY <2>1, <1>4, <1>5, <1>10
  <2>3. Count(i) = Cardinality(Entries(i)) /\ IsFiniteSet(Entries(i))
    BY <2>1, <2>2, <1>11, Numbers DEF Agreeing, Exact
  <2>4. Entries(i)' = Entries(i) \cup {e} /\ e \notin Entries(i)
    BY <2>1, <1>3, <1>7 DEF Entries
  <2>5. Cardinality(Entries(i) \cup {e}) = Cardinality(Entries(i)) + 1
    BY <2>3, <2>4, FS_AddElement
  <2>6. Count(i)' = Count(i)
    BY <1>3 DEF Count
  <2>7. Adds(t, i)'
    BY <2>1, <1>8, <1>9 DEF Adds
  <2>8. Exact(i)'
    BY <2>1, <2>3, <2>4, <2>5, <2>6, <2>7, <1>3, <1>11, ExactTaken
  <2> QED  BY <2>1, <2>8 DEF Exact, Count, Entries, Holds, Adds, Drops
<1>13. ASSUME NEW i \in Oids, i > ORPHANS
       PROVE  Exact(i)'
  <2>1. CASE i = e.inode
    BY <2>1, <1>12 DEF Exact, Count, Entries, Holds, Adds, Drops
  <2>2. CASE i # e.inode
    <3>1. Entries(i)' = Entries(i) /\ inodes'[i] = inodes[i] /\ Exact(i)
      BY <2>2, <1>3, <1>13 DEF Entries, Agreeing
    <3>2. (Adds(t, i)' <=> Adds(t, i)) /\ (Drops(t, i)' <=> Drops(t, i))
      BY <2>2, <1>3, <1>8, <1>9 DEF Adds, Drops
    <3> QED  BY <1>3, <3>1, <3>2, ExactStays
  <2> QED  BY <2>1, <2>2
<1>14. \A u \in Threads : Knows(u)'
  <2>1. Knows(t)'
    BY <1>3, <1>4, <1>5, <1>8, <1>9, <1>10 DEF Knows, Stored
  <2>2. ASSUME NEW u \in Threads, u # t
        PROVE  Knows(u)'
    <3>1. th[u].ent.oid <= lastOid /\ th[u].ent.oid \in Int
      BY DirentParts DEF Base, ThreadsOK, Thread, TypeInv, KnownEntry
    <3>2. th[u].ent \in dirents' => th[u].ent \in dirents
      BY <3>1, <1>3, <1>4, <1>5
    <3> QED  BY <2>2, <3>2, <1>3, OthersKnow
  <2> QED  BY <2>1, <2>2
<1>15. Agreeing'
  <2>1. \A i \in Oids : i > lastOid' => i > lastOid
    BY <1>3, <1>5, Bounds
  <2>2. e.parent # ROOT_OID => e.inode > ORPHANS
    BY <1>4, <1>5, <1>10
  <2> QED  BY <1>3, <1>13, <1>14, <2>1, <2>2 DEF Agreeing, Stored
<1>16. Threaded => Threaded'
  <2>1. Threaded => ~link
    BY DEF Threaded
  <2> QED  BY <1>2, <1>3, <1>4, <2>1, StayThreaded
<1>17. Serial => Serial'
  <2> SUFFICES ASSUME Serial PROVE Serial'
    OBVIOUS
  <2>1. r.op \in {"create_dir", "create_file", "create_link"} => \E d \in dirents : d.oid = r.parent
    BY <1>3 DEF Serial, ByOid
  <2>2. r.op = "create_namespace" => r.parent = ROOT_OID
    BY DEF Serial
  <2>3. r.op \in {"create_namespace", "create_dir", "create_file", "create_link"}
    BY <1>3 DEF Takes, Creations
  <2>4. ParentsExist'
    BY <1>3, <1>4, <2>1, <2>2, <2>3 DEF Serial, ParentsExist, ByOid
  <2>5. r.op \notin Removals
    BY <2>3 DEF Removals
  <2> QED  BY <1>2, <1>3, <2>1, <2>4, <2>5, StaySerial
<1> QED  BY <1>15, <1>16, <1>17 DEF Mode

\* With threads, the entry that a thread is about to delete is the only one of its inode, and no
\* other operation is at work on that inode.
LEMMA LoneEntry ==
  ASSUME Base, Agreeing, Threaded, NEW u \in Threads, Now(u) = "del", th[u].ent \in dirents,
         NEW k, k = th[u].ent.inode, k > ORPHANS
  PROVE  Count(k) = 1 /\ Cardinality(Entries(k)) = 1 /\ \A t \in Threads : ~Holds(t, k)
<1>1. k \in Oids /\ th[u].count \in Counts
  BY DirentParts DEF Base, ThreadsOK, Thread
<1>2. th[u].count = inodes[k]
  BY DEF Agreeing, Knows
<1>3. Stored(k) /\ inodes[k] = 1
  BY <1>1, <1>2, Bounds DEF Stored, Absent, Threaded
<1>4. Count(k) = 1
  BY <1>3 DEF Count, Stored
<1>5. Entries(k) = {th[u].ent}
  <2>1. \A d \in Entries(k) : d \in AllEntries /\ d.oid = k
    BY DEF Entries, AllEntries, Threaded
  <2>2. th[u].ent \in Entries(k)
    BY DEF Entries
  <2> QED  BY <2>1, <2>2 DEF Base, TypeInv, EntriesNumbered, OneEntryPerOid
<1>6. Cardinality(Entries(k)) = 1
  BY <1>5, FS_Singleton
<1>7. Exact(k)
  BY <1>1 DEF Agreeing
<1> QED  BY <1>4, <1>6, <1>7 DEF Exact, Holds

\* A count is stored that is exact.
LEMMA CountAgree ==
  ASSUME Base, Agreeing, Mode, NEW t \in Threads, NEW x \in {"putInode", "incPut", "delInode"},
         Continues(t, x), UNCHANGED <<dirents, threaded>>,
         NEW k, k = th[t].ent.inode, k > ORPHANS,
         NEW c \in Counts \cup {Absent}, c # 0, PutCount(k, c),
         Cardinality(Entries(k)) = IF c = Absent THEN 0 ELSE c,
         threaded => c \in {Absent, 1}
  PROVE  Agreeing' /\ Mode'
<1> DEFINE r == th[t]
<1>1. PICK y : Follows(r.op, x, y) /\ Moved(t, y, r.ent, r.count)
  BY DEF Continues
<1>2. Busy(t) /\ Now(t) = x /\ Takes(r.op, x) /\ Same(t) /\ lastOid' = lastOid
  BY <1>1, AtNow DEF Continues, Base, Moved, Same
<1>3. y \in {"check", "idle"} /\ Now(t)' = y
  BY <1>1 DEF Follows, Moved
<1>4. k \in Oids /\ k <= lastOid
  BY DirentParts DEF Base, ThreadsOK, Thread, TypeInv, KnownEntry
<1>5. inodes'[k] = c /\ \A i \in Oids : i # k => inodes'[i] = inodes[i]
  BY <1>4, Typed DEF Base, PutCount
<1>6. Holds(t, k) /\ \A i : Holds(t, i) => i = k
  BY <1>2 DEF Holds, Adds, Drops
<1>7. \A u \in Threads : u # t => ~Holds(u, k)
  BY <1>4, <1>6 DEF Agreeing, Exact
<1>8. \A i : ~Holds(t, i)'
  BY <1>3 DEF Holds, Adds, Drops
<1>9. ASSUME NEW i \in Oids, i > ORPHANS
      PROVE  Exact(i)'
  <2>0. Entries(i)' = Entries(i)
    BY DEF Entries
  <2>1. CASE i = k
    <3>1. (Count(i) = Cardinality(Entries(i)))'
      BY <2>0, <2>1, <1>5 DEF Count
    <3> QED  BY <2>1, <3>1, <1>2, <1>7, <1>8, ExactReleased
  <2>2. CASE i # k
    <3>1. Exact(i) /\ inodes'[i] = inodes[i]
      BY <2>2, <1>5, <1>9 DEF Agreeing
    <3>2. (Adds(t, i)' <=> Adds(t, i)) /\ (Drops(t, i)' <=> Drops(t, i))
      BY <2>2, <1>6, <1>8 DEF Holds
    <3> QED  BY <2>0, <3>1, <3>2, <1>2, ExactStays
  <2> QED  BY <2>1, <2>2
<1>10. \A u \in Threads : Knows(u)'
  <2>1. Knows(t)'
    <3>1. CASE y = "idle"
      BY <3>1, <1>1, KnowsNothing DEF Moved
    <3>2. CASE y = "check"
      <4>1. th'[t].op = r.op /\ th'[t].tparent = r.tparent
        BY <1>1, <3>2 DEF Moved
      <4> QED  BY <3>2, <1>3, <4>1 DEF Knows, Agreeing
    <3> QED  BY <3>1, <3>2, <1>3
  <2>2. ASSUME NEW u \in Threads, u # t
        PROVE  Knows(u)'
    <3>1. ASSUME threaded, Now(u) \in {"putInode", "del", "delInode"},
                 Now(u) = "del" => th[u].ent \in dirents
          PROVE  inodes'[th[u].ent.inode] = inodes[th[u].ent.inode]
      <4>1. th[u].ent.inode \in Oids
        BY DirentParts DEF Base, ThreadsOK, Thread
      <4>2. Threaded
        BY <3>1 DEF Mode
      <4>3. CASE th[u].ent.inode = k
        <5>1. Now(u) \in {"putInode", "delInode"} => Holds(u, k)
          BY <4>3 DEF Holds, Adds, Drops
        <5>2. Now(u) = "del" => ~Holds(t, k)
          BY <3>1, <4>2, <4>3, LoneEntry
        <5> QED  BY <3>1, <5>1, <5>2, <1>6, <1>7, <2>2
      <4> QED  BY <4>1, <4>3, <1>5
    <3> QED  BY <2>2, <3>1, <1>2, OthersKnow
  <2> QED  BY <2>1, <2>2
<1>11. Agreeing'
  <2>1. \A i \in Oids : i > lastOid => i # k
    BY <1>4, Typed, Bounds DEF Base
  <2>2. \A i \in Oids : i <= ORPHANS => i # k
    BY <1>4, Bounds DEF ORPHANS
  <2>3. \A i \in Oids : i <= ORPHANS => inodes'[i] = 0
    BY <1>5, <2>2 DEF Agreeing
  <2>4. \A i \in Oids : i > ORPHANS => inodes'[i] # 0
    BY <1>5 DEF Agreeing
  <2>5. \A i \in Oids : i > lastOid' => ~Stored(i)'
    BY <1>2, <1>5, <2>1 DEF Agreeing, Stored
  <2> QED  BY <1>9, <1>10, <2>3, <2>4, <2>5 DEF Agreeing
<1>12. CASE threaded
  <2>1. Threaded
    BY <1>12 DEF Mode
  <2>2. Threaded'
    BY <1>1, <1>5, <1>12, <2>1, StayThreaded
  <2> QED  BY <1>11, <1>12, <2>2 DEF Mode
<1>13. CASE ~threaded
  <2>1. Serial
    BY <1>13 DEF Mode
  <2>2. ParentsExist'
    BY <2>1 DEF Serial, ParentsExist, ByOid
  <2>3. r.op \in {"create_dir", "create_file", "create_link"} => \E d \in dirents' : d.oid = r.parent
    BY <1>2, <2>1 DEF Serial, ByOid
  <2>4. y # "idle" => r.op \notin Removals
    BY <1>1, <1>2, <1>3 DEF Follows, Takes, Creations, Removals
  <2>5. Serial'
    BY <1>1, <1>2, <1>3, <2>1, <2>2, <2>3, <2>4, StaySerial
  <2> QED  BY <1>11, <1>13, <2>5 DEF Mode
<1> QED  BY <1>12, <1>13

LEMMA PutInodeDoneAgree ==
  ASSUME Base, Base', Agreeing, Mode, NEW t \in Threads, PutInodeDone(t), threaded' = threaded
  PROVE  Agreeing' /\ Mode'
<1>1. PICK k : k = th[t].ent.inode
  OBVIOUS
<1>2. Continues(t, "putInode") /\ PutCount(k, 1) /\ dirents' = dirents
  BY <1>1 DEF PutInodeDone
<1>3. Now(t) = "putInode" /\ Knows(t)
  BY <1>2, AtNow DEF Continues, Base, Agreeing
<1>4. k \in Oids /\ k > ORPHANS /\ ~Stored(k)
  BY <1>1, <1>3, DirentParts DEF Knows, Base, ThreadsOK, Thread
<1>5. Adds(t, k) /\ Exact(k)
  BY <1>1, <1>3, <1>4 DEF Adds, Agreeing
<1>6. Cardinality(Entries(k)) = 1
  BY <1>4, <1>5, Numbers DEF Exact
<1>7. 1 \in Counts
  <2>1. inodes'[k] = 1
    BY <1>2, <1>4, Typed DEF PutCount, Base
  <2>2. inodes'[k] \in Counts \cup {Absent}
    BY <1>4 DEF Base, TypeInv, TypeOK
  <2> QED  BY <2>1, <2>2 DEF Absent
<1> QED  BY <1>1, <1>2, <1>4, <1>6, <1>7, CountAgree DEF Absent

LEMMA IncPutDoneAgree ==
  ASSUME Base, Base', Agreeing, Mode, NEW t \in Threads, IncPutDone(t), threaded' = threaded
  PROVE  Agreeing' /\ Mode'
<1>1. PICK k : k = th[t].ent.inode
  OBVIOUS
<1>2. Continues(t, "incPut") /\ PutCount(k, th[t].count + 1) /\ dirents' = dirents
  BY <1>1 DEF IncPutDone
<1>3. Now(t) = "incPut" /\ Knows(t) /\ th[t].op = "create_link"
  BY <1>2, AtNow DEF Continues, Base, Agreeing, Takes
<1>4. k \in Oids /\ k > ORPHANS /\ th[t].count = inodes[k] /\ th[t].count \in Counts
  BY <1>1, <1>3, DirentParts DEF Knows, Base, ThreadsOK, Thread
<1>5. Adds(t, k) /\ Exact(k)
  BY <1>1, <1>3, <1>4 DEF Adds, Agreeing
<1>6. th[t].count \in Nat /\ Stored(k) /\ Count(k) = th[t].count
  BY <1>4, Bounds DEF Stored, Absent, Count
<1>7. Cardinality(Entries(k)) = th[t].count + 1
  BY <1>5, <1>6 DEF Exact
<1>8. th[t].count + 1 \in Counts \cup {Absent}
  <2>1. inodes'[k] = th[t].count + 1
    BY <1>2, <1>4, Typed DEF PutCount, Base
  <2> QED  BY <1>4, <2>1 DEF Base, TypeInv, TypeOK
<1>9. th[t].count + 1 # 0 /\ th[t].count + 1 # Absent
  BY <1>6 DEF Absent
<1>10. ~threaded
  BY <1>3 DEF Mode, Threaded
<1>11. PICK c : c = th[t].count + 1
  OBVIOUS
<1> QED  BY <1>1, <1>2, <1>4, <1>7, <1>8, <1>9, <1>10, <1>11, CountAgree

LEMMA DelInodeDoneAgree ==
  ASSUME Base, Base', Agreeing, Mode, NEW t \in Threads, DelInodeDone(t), threaded' = threaded
  PROVE  Agreeing' /\ Mode'
<1>1. PICK k, c : k = th[t].ent.inode /\ c = th[t].count - 1
  OBVIOUS
<1>2. /\ Continues(t, "delInode") /\ dirents' = dirents
      /\ \/ c = 0 /\ PutCount(k, Absent)
         \/ c > 0 /\ PutCount(k, c)
         \/ c < 0 /\ UNCHANGED inodes
  BY <1>1 DEF DelInodeDone
<1>3. Now(t) = "delInode" /\ Busy(t) /\ Knows(t)
  BY <1>2, AtNow DEF Continues, Base, Agreeing
<1>4. k \in Oids /\ th[t].count = inodes[k] /\ th[t].count \in Counts /\ th[t].count \in Nat
  BY <1>1, <1>3, DirentParts, Bounds DEF Knows, Base, ThreadsOK, Thread
<1>5. PICK y : Follows(th[t].op, "delInode", y) /\ Moved(t, y, th[t].ent, th[t].count)
  BY <1>2 DEF Continues
<1>6. y = "idle"
  BY <1>5 DEF Follows
<1>7. CASE k > ORPHANS
  <2>1. Drops(t, k) /\ Exact(k)
    BY <1>1, <1>3, <1>4, <1>7 DEF Drops, Agreeing
  <2>2. Count(k) = th[t].count
    BY <1>4, Bounds DEF Absent, Count
  <2>3. Cardinality(Entries(k)) \in Nat /\ th[t].count = Cardinality(Entries(k)) + 1
    BY <1>4, <2>1, <2>2, Numbers DEF Exact
  <2>4. c \in Nat /\ c = Cardinality(Entries(k)) /\ th[t].count = c + 1
    BY <1>1, <2>3
  <2>5. threaded => c = 0
    <3>1. threaded => inodes[k] \in {Absent, 1}
      BY <1>4, <1>7 DEF Mode, Threaded
    <3> QED  BY <1>4, <2>4, <3>1 DEF Absent
  <2>6. CASE c = 0
    <3>1. PutCount(k, Absent) /\ Absent # 0 /\ Cardinality(Entries(k)) = 0
      BY <1>2, <2>4, <2>6 DEF Absent
    <3> QED  BY <1>1, <1>2, <1>7, <3>1, CountAgree
  <2>7. CASE c # 0
    <3>1. PutCount(k, c) /\ c \in Counts /\ c # Absent
      BY <1>2, <1>4, <2>4, <2>7, Bounds DEF Absent
    <3> QED  BY <1>1, <1>2, <1>7, <2>4, <2>5, <2>7, <3>1, CountAgree
  <2> QED  BY <2>6, <2>7
<1>8. CASE ~(k > ORPHANS)
  <2>1. th[t].count = 0
    BY <1>4, <1>8, Bounds DEF Agreeing, ORPHANS
  <2>2. inodes' = inodes
    BY <1>1, <1>2, <2>1
  <2>3. \A i \in Oids : i > ORPHANS => ~Holds(t, i)
    BY <1>1, <1>3, <1>8 DEF Holds, Adds, Drops
  <2> QED  BY <1>2, <1>3, <1>5, <1>6, <2>2, <2>3, EndAgree DEF Continues
<1> QED  BY <1>7, <1>8

LEMMA DelDoneAgree ==
  ASSUME Base, Agreeing, Mode, NEW t \in Threads, DelDone(t), threaded' = threaded
  PROVE  Agreeing' /\ Mode'
<1> DEFINE r == th[t]
<1>1. PICK k, e : k = r.ent.inode /\ e = r.ent
  OBVIOUS
<1>2. PICK y : Follows(r.op, "del", y) /\ Moved(t, y, e, r.count)
  BY <1>1 DEF DelDone, Continues
<1>3. /\ Now(t) = "del" /\ Busy(t) /\ Takes(r.op, "del") /\ Same(t) /\ Knows(t)
      /\ e \in dirents /\ dirents' = dirents \ {e} /\ inodes' = inodes /\ lastOid' = lastOid
  BY <1>1, <1>2, AtNow DEF DelDone, Continues, Base, Moved, Same, Agreeing
<1>4. y = "delInode" /\ Now(t)' = "delInode" /\ th'[t].ent = e /\ th'[t].count = r.count
      /\ th'[t].op = r.op /\ th'[t].tparent = r.tparent
  BY <1>2 DEF Follows, Moved
<1>5. k \in Oids /\ r.op \in Removals /\ r.op # "create_link" /\ r.count = inodes[k]
  BY <1>1, <1>3, DirentParts DEF Base, ThreadsOK, Thread, Takes, Removals, Knows
<1>6. k > ORPHANS => \A u \in Threads : ~Holds(u, k)
  <2>1. CASE threaded
    BY <1>1, <1>3, <2>1, LoneEntry DEF Mode
  <2>2. CASE ~threaded
    <3>1. \A u \in Threads : u # t => Now(u) = "idle"
      BY <1>3, <2>2, LoneThread DEF Mode
    <3> QED  BY <1>3, <3>1 DEF Holds, Adds, Drops
  <2> QED  BY <2>1, <2>2
<1>7. ASSUME NEW i \in Oids, i > ORPHANS
      PROVE  Exact(i)'
  <2>1. CASE i = k
    <3>1. /\ Count(i) = Cardinality(Entries(i)) /\ IsFiniteSet(Entries(i))
          /\ Cardinality(Entries(i)) \in Nat
      BY <2>1, <1>6, <1>7, Numbers DEF Agreeing, Exact
    <3>2. Entries(i)' = Entries(i) \ {e} /\ e \in Entries(i)
      BY <1>1, <1>3, <2>1 DEF Entries
    <3>3. Cardinality(Entries(i) \ {e}) = Cardinality(Entries(i)) - 1
      BY <3>1, <3>2, FS_RemoveElement
    <3>4. Count(i)' = Count(i)
      BY <1>3 DEF Count
    <3>5. (Count(i) = Cardinality(Entries(i)) + 1)'
      BY <3>1, <3>2, <3>3, <3>4
    <3>6. Drops(t, i)'
      BY <1>1, <1>4, <2>1 DEF Drops
    <3> QED  BY <1>3, <1>6, <1>7, <2>1, <3>5, <3>6, ExactTaken
  <2>2. CASE i # k
    <3>1. Entries(i)' = Entries(i) /\ inodes'[i] = inodes[i] /\ Exact(i)
      BY <1>1, <1>3, <1>7, <2>2 DEF Entries, Agreeing
    <3>2. (Adds(t, i)' <=> Adds(t, i)) /\ (Drops(t, i)' <=> Drops(t, i))
      BY <1>1, <1>3, <1>4, <2>2 DEF Adds, Drops
    <3> QED  BY <1>3, <3>1, <3>2, ExactStays
  <2> QED  BY <2>1, <2>2
<1>8. \A u \in Threads : Knows(u)'
  <2>1. Knows(t)'
    BY <1>1, <1>3, <1>4, <1>5 DEF Knows
  <2>2. \A u \in Threads : u # t => Knows(u)'
    BY <1>3, OthersKnow
  <2> QED  BY <2>1, <2>2
<1>9. Agreeing'
  BY <1>3, <1>7, <1>8 DEF Agreeing, Stored
<1>10. CASE threaded
  <2>1. Threaded
    BY <1>10 DEF Mode
  <2>2. Threaded'
    BY <1>2, <1>3, <2>1, StayThreaded
  <2> QED  BY <1>9, <1>10, <2>2 DEF Mode
<1>11. CASE ~threaded
  <2>1. Serial
    BY <1>11 DEF Mode
  <2>2. e.parent = r.parent /\ e.name = r.name
    BY <1>1, <1>3, <1>5, <2>1 DEF Serial
  <2>3. \A d \in dirents : d.parent # e.oid
    BY <1>3, <1>5, <2>1, <2>2 DEF Serial, ByName, Children
  <2>4. ParentsExist'
    <3>1. ASSUME NEW d \in dirents', d.parent # ROOT_OID
          PROVE  \E w \in dirents' : w.oid = d.parent
      <4>1. PICK w \in dirents : w.oid = d.parent
        BY <1>3, <2>1, <3>1 DEF Serial, ParentsExist, ByOid
      <4>2. w # e
        BY <1>3, <2>3, <4>1
      <4> QED  BY <1>3, <4>1, <4>2
    <3> QED  BY <3>1 DEF ParentsExist, ByOid
  <2>5. Serial'
    BY <1>2, <1>3, <1>4, <1>5, <2>1, <2>4, StaySerial DEF Removals
  <2> QED  BY <1>9, <1>11, <2>5 DEF Mode
<1> QED  BY <1>10, <1>11

LEMMA StepAgree ==
  ASSUME Base, Base', Agreeing, Mode, NEW t \in Threads, Step(t), threaded' = threaded
  PROVE  Agreeing' /\ Mode'
<1>1. Quiet(t) \/ Changing(t)
  BY Steps
<1> QED  BY <1>1, QuietAgree, PutFailsAgree, PutDoneAgree, PutInodeDoneAgree, IncPutDoneAgree,
            DelDoneAgree, DelInodeDoneAgree DEF Changing

LEMMA StartAgree ==
  ASSUME Base, Agreeing, Mode, NEW t \in Threads, StartSome(t), threaded' = threaded,
         "create_link" \notin ThreadedOps
  PROVE  Agreeing' /\ Mode'
<1>1. PICK op, p, n, tp, tn : Began(t, op, p, n, tp, tn)
  BY StartSomeBegins
<1>2. Same(t) /\ Now(t) = "idle" /\ UNCHANGED <<dirents, inodes, lastOid>>
  BY <1>1 DEF Began, Start, Same, db
<1>3. th'[t].op = op /\ th'[t].parent = p /\ th'[t].name = n /\ th'[t].tparent = tp
  BY <1>1 DEF Began
<1>4. /\ Now(t)' \in {"find", "perm", "put"} /\ (Now(t)' = "put" => op = "create_namespace")
      /\ op \in {"create_dir", "create_file", "create_link"} => Now(t)' = "perm"
  BY <1>1, FirstStep DEF Began
<1>5. ASSUME NEW i \in Oids, i > ORPHANS
      PROVE  Exact(i)'
  <2>1. Entries(i)' = Entries(i) /\ inodes'[i] = inodes[i] /\ Exact(i)
    BY <1>2, <1>5 DEF Entries, Agreeing
  <2>2. (Adds(t, i)' <=> Adds(t, i)) /\ (Drops(t, i)' <=> Drops(t, i))
    BY <1>2, <1>4 DEF Adds, Drops
  <2> QED  BY <1>2, <2>1, <2>2, ExactStays
<1>6. Knows(t)'
  <2>1. op = "create_link" => tp # ROOT_OID
    BY <1>1 DEF Began
  <2> QED  BY <1>3, <1>4, <2>1 DEF Knows
<1>7. CASE threaded
  <2>1. ASSUME NEW u \in Threads, u # t
        PROVE  Knows(u)'
    <3>1. Knows(u) /\ th'[u] = th[u] /\ Now(u)' = Now(u)
      BY <2>1, <1>2 DEF Agreeing, Same
    <3> QED  BY <3>1, <1>2 DEF Knows, Stored
  <2>2. Agreeing'
    BY <1>2, <1>5, <1>6, <2>1 DEF Agreeing, Stored
  <2>3. op # "create_link"
    BY <1>1, <1>7 DEF Began
  <2>4. Threaded'
    BY <1>2, <1>3, <1>7, <2>3 DEF Mode, Threaded, Same
  <2> QED  BY <1>7, <2>2, <2>4 DEF Mode
<1>8. CASE ~threaded
  <2>1. Serial /\ AllIdle
    BY <1>1, <1>8 DEF Mode, Began, Start, Serves
  <2>2. \A u \in Threads : u # t => th'[u] = Idle /\ Now(u)' = "idle" /\ ~Busy(u)'
    BY <1>2, <2>1 DEF AllIdle, IsIdle, Same, Now, Busy
  <2>3. Idle.op = "none"
    BY DEF Idle
  <2>4. \A u \in Threads : u # t => Knows(u)'
    BY <2>2, <2>3 DEF Knows
  <2>5. Agreeing'
    BY <1>2, <1>5, <1>6, <2>4 DEF Agreeing, Stored
  <2>6. op = "create_namespace" => p = ROOT_OID
    BY <1>1 DEF Began, OnNamespaces
  <2>7. op \in Removals => (\A d \in ByName(p, n) : Children(d.oid) = {})'
    BY <1>1, <1>2, <1>8 DEF Began, Start, ByName, Children
  <2>8. Serial'
    <3>1. ParentsExist'
      BY <1>2, <2>1 DEF Serial, ParentsExist, ByOid
    <3>2. \A v, w \in Threads : Busy(v)' /\ Busy(w)' => v = w
      BY <2>2
    <3>3. "none" \notin Removals
      BY DEF Removals
    <3> QED  BY <1>3, <1>4, <2>2, <2>3, <2>6, <2>7, <3>1, <3>2, <3>3 DEF Serial
  <2> QED  BY <1>8, <2>5, <2>8 DEF Mode
<1> QED  BY <1>7, <1>8

\* Names stay unique: only DB_NOOVERWRITE decides.
LEMMA StepUnique ==
  ASSUME Base, UniqueNames, NEW t \in Threads, Step(t)
  PROVE  UniqueNames'
<1>1. Quiet(t) \/ Changing(t)
  BY Steps
<1>2. dirents' \subseteq dirents => UniqueNames'
  BY DEF UniqueNames, OnePerKey
<1>3. CASE PutDone(t)
  <2>1. PICK e : e = NewEntry(t)
    OBVIOUS
  <2>2. /\ e.parent = th[t].parent /\ e.name = th[t].name
        /\ ByName(th[t].parent, th[t].name) = {} /\ dirents' = dirents \cup {e}
    BY <1>3, <2>1, NewIsNumbered DEF PutDone
  <2>3. \A d \in dirents : ~(d.parent = e.parent /\ d.name = e.name)
    BY <2>2 DEF ByName
  <2> QED  BY <2>2, <2>3 DEF UniqueNames, OnePerKey
<1>4. Quiet(t) \/ (Changing(t) /\ ~PutDone(t)) => dirents' \subseteq dirents
  BY DEF Quiet, Changing, PutFails, PutInodeDone, IncPutDone, DelDone, DelInodeDone
<1> QED  BY <1>1, <1>2, <1>3, <1>4

LEMMA InitAgree ==
  ASSUME Init
  PROVE  AgreeInv
<1>1. \A t \in Threads : th[t] = Idle /\ Now(t) = "idle" /\ ~Busy(t)
  BY DEF Init, Now, Busy, IsIdle
<1>2. Idle.op = "none" /\ "none" \notin Removals
  BY DEF Idle, Removals
<1>3. \A d \in dirents : /\ d.parent = ROOT_OID /\ d.inode = d.oid /\ d.inode <= ORPHANS
                         /\ d \in {Builtin(0, "id"), Builtin(1, "/"), Builtin(2, "orphans")}
  BY DEF Init, NoEntry, Builtin, None, ORPHANS
<1>4. UniqueNames
  <2>1. \A d, e \in dirents : d.name = e.name => d = e
    BY <1>3 DEF Builtin
  <2> QED  BY <2>1 DEF UniqueNames, OnePerKey
<1>5. lastOid = ORPHANS /\ \A i \in Oids : inodes[i] = IF i <= ORPHANS THEN 0 ELSE Absent
  BY DEF Init
<1>6. ASSUME NEW i \in Oids, i > ORPHANS
      PROVE  Exact(i) /\ inodes[i] = Absent
  <2>1. inodes[i] = Absent
    BY <1>5, <1>6, Bounds DEF ORPHANS
  <2>2. Entries(i) = {}
    BY <1>3, <1>6, Bounds DEF Entries, ORPHANS
  <2>3. Count(i) = Cardinality(Entries(i))
    BY <2>1, <2>2, FS_EmptySet DEF Count
  <2>4. \A t \in Threads : ~Holds(t, i)
    BY <1>1 DEF Holds, Adds, Drops
  <2> QED  BY <2>1, <2>3, <2>4 DEF Exact, Holds
<1>7. Agreeing
  <2>1. \A t \in Threads : Knows(t)
    BY <1>1, <1>2 DEF Knows
  <2>2. Absent # 0
    BY DEF Absent
  <2> QED  BY <1>3, <1>5, <1>6, <2>1, <2>2 DEF Agreeing, Stored
<1>8. Threaded
  BY <1>1, <1>2, <1>3, <1>6 DEF Threaded
<1>9. Serial
  BY <1>1, <1>2, <1>3 DEF Serial, ParentsExist
<1> QED  BY <1>4, <1>7, <1>8, <1>9 DEF AgreeInv, Mode

LEMMA NextKeepsUnique ==
  ASSUME Base, UniqueNames, [Next]_vars
  PROVE  UniqueNames'
<1>1. ASSUME NEW t \in Threads, StartSome(t)
      PROVE  UniqueNames'
  <2>1. PICK op, p, n, tp, tn : Began(t, op, p, n, tp, tn)
    BY <1>1, StartSomeBegins
  <2>2. dirents' = dirents
    BY <2>1 DEF Began, Start, db
  <2> QED  BY <2>2 DEF UniqueNames, OnePerKey
<1>2. CASE Restart
  <2>1. dirents' = dirents \/ OnePerKey(dirents')
    BY <1>2, Restarting DEF Restarted
  <2> QED  BY <2>1 DEF UniqueNames, OnePerKey
<1>3. CASE UNCHANGED vars
  BY <1>3 DEF vars, UniqueNames, OnePerKey
<1> QED  BY <1>1, <1>2, <1>3, StepUnique DEF Next, Operate, Finished

(***************************************************************************)
(* A name in a directory stands for one entry, after a crash as well:      *)
(* DB_NOOVERWRITE alone decides which of the creations that race for a     *)
(* name succeeds.                                                          *)
(***************************************************************************)
THEOREM NamesAreUnique == Spec => []UniqueNames
<1>1. Init => UniqueNames
  BY InitAgree DEF AgreeInv
<1>2. UniqueNames /\ Base /\ [Next]_vars => UniqueNames'
  BY NextKeepsUnique
<1> QED  BY <1>1, <1>2, BaseHolds, PTL DEF Spec

\* A restart that is not a crash changes neither database, and all threads are idle.
LEMMA RestartAgree ==
  ASSUME Base, AgreeInv, Restart
  PROVE  AgreeInv'
<1>1. Restarted
  BY Restarting
<1>2. CASE crashed' = TRUE /\ OnePerKey(dirents')
  BY <1>2 DEF AgreeInv, UniqueNames
<1>3. CASE AllIdle /\ UNCHANGED <<dirents, inodes, crashed>>
  <2>1. \A t \in Threads : th'[t] = Idle /\ th[t] = Idle
    BY <1>1, <1>3 DEF Restarted, AllIdle, IsIdle
  <2>2. \A t \in Threads : Now(t)' = "idle" /\ Now(t) = "idle" /\ ~Busy(t)'
    BY <2>1 DEF Now, IsIdle, Busy
  <2>3. Idle.op = "none" /\ "none" \notin Removals
    BY DEF Idle, Removals
  <2>4. ASSUME ~crashed
        PROVE  Agreeing' /\ Mode'
    <3>1. Agreeing /\ Serial /\ ~threaded /\ threaded' = threaded /\ lastOid' = lastOid
      BY <1>1, <2>4 DEF AgreeInv, Mode, Restarted
    <3>2. ASSUME NEW i \in Oids, i > ORPHANS
          PROVE  Exact(i)'
      <4>1. Exact(i) /\ Count(i)' = Count(i) /\ Entries(i)' = Entries(i)
        BY <1>3, <3>1, <3>2 DEF Agreeing, Count, Entries
      <4>2. \A t \in Threads : ~Holds(t, i) /\ ~Holds(t, i)'
        BY <2>2 DEF Holds, Adds, Drops
      <4> QED  BY <4>1, <4>2 DEF Exact, Holds
    <3>3. \A t \in Threads : Knows(t)'
      BY <2>1, <2>2, KnowsNothing
    <3>4. Agreeing'
      BY <1>3, <3>1, <3>2, <3>3 DEF Agreeing, Stored
    <3>5. ParentsExist'
      BY <1>3, <3>1 DEF Serial, ParentsExist, ByOid
    <3>6. Serial'
      BY <2>1, <2>2, <2>3, <3>5 DEF Serial
    <3> QED  BY <3>1, <3>4, <3>6 DEF Mode
  <2> QED  BY <1>3, <2>4 DEF AgreeInv, UniqueNames
<1> QED  BY <1>1, <1>2, <1>3 DEF Restarted

LEMMA NextKeepsAgree ==
  ASSUME Base, Base', AgreeInv, [Next]_vars, "create_link" \notin ThreadedOps
  PROVE  AgreeInv'
<1>0. UniqueNames'
  BY NextKeepsUnique DEF AgreeInv
<1>1. ASSUME NEW t \in Threads, Step(t) \/ StartSome(t), UNCHANGED <<threaded, crashed>>
      PROVE  AgreeInv'
  <2>1. ~crashed => Agreeing' /\ Mode'
    BY <1>1, StepAgree, StartAgree DEF AgreeInv, Mode
  <2> QED  BY <1>0, <1>1, <2>1 DEF AgreeInv, Mode
<1>2. CASE UNCHANGED vars
  <2>1. /\ dirents' = dirents /\ inodes' = inodes /\ th' = th /\ lastOid' = lastOid
        /\ threaded' = threaded /\ crashed' = crashed
    BY <1>2 DEF vars
  <2>2. \A t \in Threads : Now(t)' = Now(t) /\ (Busy(t)' <=> Busy(t)) /\ (Knows(t)' <=> Knows(t))
    BY <2>1 DEF Now, Busy, IsIdle, Knows, Stored
  <2>3. \A i : Exact(i)' <=> Exact(i)
    BY <2>1, <2>2 DEF Exact, Count, Entries, Holds, Adds, Drops
  <2>4. Agreeing' <=> Agreeing
    BY <2>1, <2>2, <2>3 DEF Agreeing, Stored
  <2>5. Threaded' <=> Threaded
    BY <2>1 DEF Threaded
  <2>6. Serial' <=> Serial
    BY <2>1, <2>2 DEF Serial, ParentsExist, ByOid, ByName, Children
  <2> QED  BY <1>0, <2>1, <2>4, <2>5, <2>6 DEF AgreeInv, Mode
<1> QED  BY <1>1, <1>2, RestartAgree DEF Next, Operate, Finished

\* What the invariant says when no operation is under way.
LEMMA AgreeIsEnough ==
  ASSUME Base, AgreeInv
  PROVE  AgreeUntilCrash
<1> SUFFICES ASSUME ~crashed
             PROVE  DatabasesAgree /\ (threaded \/ ParentsExist)
  BY DEF AgreeUntilCrash
<1>1. UniqueNames /\ Agreeing
  BY DEF AgreeInv
<1>2. threaded \/ ParentsExist
  BY DEF AgreeInv, Mode, Serial
<1>3. ASSUME AllIdle, NEW i \in Oids, i > ORPHANS
      PROVE  Count(i) = Cardinality(Entries(i))
  <2>1. \A t \in Threads : ~Holds(t, i)
    BY <1>3 DEF AllIdle, Holds, Adds, Drops, Now
  <2> QED  BY <1>1, <1>3, <2>1 DEF Agreeing, Exact
<1>4. RefCountExact
  <2>1. ASSUME AllIdle, NEW i \in Oids, i > ORPHANS, inodes[i] # Absent
        PROVE  inodes[i] > 0 /\ inodes[i] = Cardinality({d \in dirents : d.inode = i})
    <3>1. Count(i) = inodes[i] /\ inodes[i] \in Nat /\ inodes[i] # 0
      BY <1>1, <2>1, Numbers DEF Stored, Agreeing
    <3> QED  BY <1>3, <2>1, <3>1 DEF Entries
  <2> QED  BY <2>1 DEF RefCountExact
<1>5. EntriesResolve
  <2>1. ASSUME AllIdle, NEW d \in dirents
        PROVE  inodes[d.inode] # Absent
    <3>1. d.inode \in Oids
      BY Typed, DirentParts DEF Base
    <3>2. CASE d.inode > ORPHANS
      <4>1. PICK i \in Oids : i = d.inode
        BY <3>1
      <4>2. d \in Entries(i) /\ IsFiniteSet(Entries(i))
        BY <4>1, Numbers DEF Entries
      <4>3. Cardinality(Entries(i)) # 0
        BY <4>2, FS_EmptySet
      <4> QED  BY <1>3, <2>1, <3>2, <4>1, <4>3 DEF Count
    <3>3. CASE ~(d.inode > ORPHANS)
      <4>1. inodes[d.inode] = 0
        BY <1>1, <3>1, <3>3, Bounds DEF Agreeing, ORPHANS
      <4> QED  BY <4>1 DEF Absent
    <3> QED  BY <3>2, <3>3
  <2> QED  BY <2>1 DEF EntriesResolve
<1> QED  BY <1>1, <1>2, <1>4, <1>5 DEF DatabasesAgree

LEMMA AgreeHolds == "create_link" \notin ThreadedOps => (Spec => []AgreeInv)
<1> SUFFICES ASSUME "create_link" \notin ThreadedOps
             PROVE  Spec => []AgreeInv
  OBVIOUS
<1>1. Init => AgreeInv
  BY InitAgree
<1>2. AgreeInv /\ Base /\ Base' /\ [Next]_vars => AgreeInv'
  BY NextKeepsAgree
<1> QED  BY <1>1, <1>2, BaseHolds, PTL DEF Spec

(***************************************************************************)
(* Until a crash, and while no operation is under way, every entry leads   *)
(* to its inode and every count is the number of its entries; without      *)
(* threads every entry is also in a directory that exists.  With threads   *)
(* this takes that no links are made: naming_db_put_link reads a count,    *)
(* and whatever naming_db_del stored in between is lost.                   *)
(***************************************************************************)
THEOREM NamingAgrees == "create_link" \notin ThreadedOps => (Spec => []AgreeUntilCrash)
<1> SUFFICES ASSUME "create_link" \notin ThreadedOps
             PROVE  Spec => []AgreeUntilCrash
  OBVIOUS
<1>1. Base /\ AgreeInv => AgreeUntilCrash
  BY AgreeIsEnough
<1> QED  BY <1>1, BaseHolds, AgreeHolds, PTL
=================================================================================
