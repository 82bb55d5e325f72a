------------------------------- MODULE Mount -------------------------------
(***************************************************************************)
(* Mounting a file system: lwfs_connect of the libsysio driver, run by     *)
(* several processes at once, over the naming server and the authorization *)
(* server.  The first to come creates the namespace, its container and the *)
(* lists of users; the others find them.  Nothing says who is the first    *)
(* but the errors LWFS_ERR_EXIST, and what is created is created in        *)
(* several steps, of one request (a server with threads serves others      *)
(* meanwhile) and of several (a process may end between them).             *)
(*                                                                         *)
(* The steps of the servers are those of Naming and Authr, for the one     *)
(* namespace and container of a file system, and for the lists that        *)
(* mounting reads or changes.  LWFS_FILE_CID is not set.                   *)
(*                                                                         *)
(* No name is one of FsLwfs, the module of the mounted file system, so     *)
(* that one module can extend both.                                        *)
(***************************************************************************)
EXTENDS Naturals, Sequences

CONSTANTS
    Users, Twice,    \* the users that mount, and those that do it in two processes
    ThreadedArgs,    \* --use-threads of both servers: the values to start with
    Midway,          \* the authorization server may crash while it serves a request
    MaxKeys,         \* bound on the starts of the authorization server
    MaxEnds,         \* bound on processes that end
    NoAcl

ASSUME MountAssumption ==
    /\ Twice \subseteq Users /\ ThreadedArgs \subseteq BOOLEAN /\ Midway \in BOOLEAN
    /\ MaxKeys \in Nat \ {0} /\ MaxEnds \in Nat /\ \A S \in SUBSET Users : NoAcl # S

Procs == (Users \X {1}) \cup (Twice \X {2})
Uid(p) == p[1]

\* The lists in the order create_container and mod_acl go through them.
Lists == <<"MODACL", "READ", "WRITE">>
ListOps == {Lists[i] : i \in 1..Len(Lists)}
OwnerOps == {"MODACL", "READ"}

VARIABLES
    threaded,
    entry, inode,    \* the naming server's: the namespace has its entry, its inode
    exists, lists,   \* the authorization server's: the container, its lists
    svcKey,          \* the key of its capabilities
    pc, turn,        \* where a process is, and the list its request has come to
    orig,            \* the list that mod_acl has read
    modaclKey,       \* the key of modacl_cap
    cap_ht,          \* the key of the cached capability to read and write, or 0
    since,           \* history: the key when the mount began
    ends

servers == <<entry, inode, exists, lists, svcKey>>
mine == <<turn, orig, modaclKey, cap_ht>>
mountVars == <<threaded, servers, pc, mine, since, ends>>

MountInit ==
    /\ threaded \in ThreadedArgs
    /\ entry = FALSE /\ inode = FALSE
    /\ exists = FALSE /\ lists = [o \in ListOps |-> NoAcl] /\ svcKey = 1
    /\ pc = [p \in Procs |-> "idle"] /\ turn = [p \in Procs |-> 1]
    /\ orig = [p \in Procs |-> {}]
    /\ modaclKey = [p \in Procs |-> 0] /\ cap_ht = [p \in Procs |-> 0]
    /\ since = [p \in Procs |-> 0] /\ ends = 0
-----------------------------------------------------------------------------
AtNaming == {"namespace", "nsinode", "find"}
InNaming == {"nsinode"}
InAuthr == {"putacl", "modget", "moddel", "modput", "capwrite"}

\* A server without threads ends one request before it looks at another.
At(p, label) ==
    /\ pc[p] = label
    /\ threaded \/ \A q \in Procs \ {p} :
          pc[q] \notin IF label \in AtNaming THEN InNaming ELSE InAuthr

Becomes(p, label) == pc' = [pc EXCEPT ![p] = label]
Fail(p) == Becomes(p, "failed")
Op(p) == Lists[turn[p]]

BeginMount(p) ==
    /\ pc[p] \in {"idle", "failed"}
    /\ Becomes(p, "namespace")
    /\ since' = [since EXCEPT ![p] = svcKey]
    /\ cap_ht' = [cap_ht EXCEPT ![p] = 0]
    /\ UNCHANGED <<threaded, servers, turn, orig, modaclKey, ends>>

\* A slip: a namespace that exists already is an error.
PutNamespaceOnce(p) ==
    /\ At(p, "namespace")
    /\ IF entry THEN Fail(p) /\ UNCHANGED entry ELSE entry' = TRUE /\ Becomes(p, "nsinode")
    /\ UNCHANGED <<threaded, inode, exists, lists, svcKey, mine, since, ends>>

\* lwfs_create_namespace: the entry ...
PutNamespace(p) ==
    /\ At(p, "namespace")
    /\ IF entry THEN Becomes(p, "find") /\ UNCHANGED entry
       ELSE entry' = TRUE /\ Becomes(p, "nsinode")
    /\ UNCHANGED <<threaded, inode, exists, lists, svcKey, mine, since, ends>>

\* ... and its inode.
PutInode(p) ==
    /\ At(p, "nsinode")
    /\ inode' = TRUE
    /\ Becomes(p, "create")
    /\ UNCHANGED <<threaded, entry, exists, lists, svcKey, mine, since, ends>>

\* lwfs_get_namespace, when there is one already.
GetNamespace(p) ==
    /\ At(p, "find")
    /\ IF inode THEN Becomes(p, "create") ELSE Fail(p)
    /\ UNCHANGED <<threaded, servers, mine, since, ends>>

\* A slip: the container is created over the one there is.
PutContainerOver(p) ==
    /\ At(p, "create")
    /\ exists' = TRUE
    /\ lists' = [o \in ListOps |-> NoAcl]
    /\ Becomes(p, "putacl") /\ turn' = [turn EXCEPT ![p] = 1]
    /\ UNCHANGED <<threaded, entry, inode, svcKey, orig, modaclKey, cap_ht, since, ends>>

\* create_container: the existence entry, then one list after another (the capability to
\* create, which everybody gets, only names the user).
PutContainer(p) ==
    /\ At(p, "create")
    /\ exists' = TRUE
    /\ IF exists THEN Becomes(p, "capmodacl") /\ UNCHANGED turn
       ELSE Becomes(p, "putacl") /\ turn' = [turn EXCEPT ![p] = 1]
    /\ UNCHANGED <<threaded, entry, inode, lists, svcKey, orig, modaclKey, cap_ht, since, ends>>

PutAcl(p) ==
    /\ At(p, "putacl")
    /\ lists' = [lists EXCEPT ![Op(p)] = IF Op(p) \in OwnerOps THEN {Uid(p)} ELSE {}]
    /\ IF turn[p] = Len(Lists)
       THEN Becomes(p, "modacl") /\ modaclKey' = [modaclKey EXCEPT ![p] = svcKey] /\ UNCHANGED turn
       ELSE turn' = [turn EXCEPT ![p] = @ + 1] /\ UNCHANGED <<pc, modaclKey>>
    /\ UNCHANGED <<threaded, entry, inode, exists, svcKey, orig, cap_ht, since, ends>>

OnList(p, o) == lists[o] # NoAcl /\ Uid(p) \in lists[o]

\* A slip: who finds the container does not see to its lists.
GetModAclCapOnly(p) ==
    /\ At(p, "capmodacl")
    /\ IF OnList(p, "MODACL") THEN Becomes(p, "capread") ELSE Fail(p)
    /\ UNCHANGED <<threaded, servers, mine, since, ends>>

\* The container exists: lwfs_get_cap for LWFS_CONTAINER_MODACL.
GetModAclCap(p) ==
    /\ At(p, "capmodacl")
    /\ IF OnList(p, "MODACL")
       THEN Becomes(p, "modacl") /\ modaclKey' = [modaclKey EXCEPT ![p] = svcKey]
       ELSE Fail(p) /\ UNCHANGED modaclKey
    /\ UNCHANGED <<threaded, servers, turn, orig, cap_ht, since, ends>>

\* mod_acl (lwfs_create_acl is the same call): the user is added to the lists to read and
\* to write, each of which is read, deleted and put again.
ModBegin(p) ==
    /\ At(p, "modacl")
    /\ IF modaclKey[p] = svcKey /\ OnList(p, "MODACL")
       THEN Becomes(p, "modget") /\ turn' = [turn EXCEPT ![p] = 2]
       ELSE Fail(p) /\ UNCHANGED turn
    /\ UNCHANGED <<threaded, servers, orig, modaclKey, cap_ht, since, ends>>

ModGet(p) ==
    /\ At(p, "modget")
    /\ IF lists[Op(p)] = NoAcl THEN Fail(p) /\ UNCHANGED orig
       ELSE Becomes(p, "moddel") /\ orig' = [orig EXCEPT ![p] = lists[Op(p)]]
    /\ UNCHANGED <<threaded, servers, turn, modaclKey, cap_ht, since, ends>>

ModDel(p) ==
    /\ At(p, "moddel")
    /\ IF lists[Op(p)] = NoAcl THEN Fail(p) /\ UNCHANGED lists
       ELSE Becomes(p, "modput") /\ lists' = [lists EXCEPT ![Op(p)] = NoAcl]
    /\ UNCHANGED <<threaded, entry, inode, exists, svcKey, mine, since, ends>>

ModPut(p) ==
    /\ At(p, "modput")
    /\ IF lists[Op(p)] # NoAcl THEN Fail(p) /\ UNCHANGED <<lists, turn>>
       ELSE /\ lists' = [lists EXCEPT ![Op(p)] = orig[p] \cup {Uid(p)}]
            /\ IF turn[p] = Len(Lists) THEN Becomes(p, "capread") /\ UNCHANGED turn
               ELSE Becomes(p, "modget") /\ turn' = [turn EXCEPT ![p] = @ + 1]
    /\ UNCHANGED <<threaded, entry, inode, exists, svcKey, orig, modaclKey, cap_ht, since, ends>>

\* lwfs_get_cap to read and write: one list, then the other.
GetCapRead(p) ==
    /\ At(p, "capread")
    /\ IF OnList(p, "READ") THEN Becomes(p, "capwrite") ELSE Fail(p)
    /\ UNCHANGED <<threaded, servers, mine, since, ends>>

GetCapWrite(p) ==
    /\ At(p, "capwrite")
    /\ IF OnList(p, "WRITE") THEN Becomes(p, "mounted") /\ cap_ht' = [cap_ht EXCEPT ![p] = svcKey]
       ELSE Fail(p) /\ UNCHANGED cap_ht
    /\ UNCHANGED <<threaded, servers, turn, orig, modaclKey, since, ends>>
-----------------------------------------------------------------------------
\* A process ends between two requests, and the next one mounts again.  (One that ends
\* during a request is a process whose request is served before it ends.)
End(p) ==
    /\ pc[p] \notin InNaming \cup InAuthr \cup {"idle", "failed"}
    /\ ends < MaxEnds /\ ends' = ends + 1
    /\ Becomes(p, "idle")
    /\ UNCHANGED <<threaded, servers, mine, since>>

\* The authorization server starts again, with another key and the same databases; the
\* requests it served meanwhile fail.
Restart ==
    /\ svcKey < MaxKeys /\ svcKey' = svcKey + 1
    /\ Midway \/ \A p \in Procs : pc[p] \notin InAuthr
    /\ pc' = [p \in Procs |-> IF pc[p] \in InAuthr THEN "failed" ELSE pc[p]]
    /\ UNCHANGED <<threaded, entry, inode, exists, lists, mine, since, ends>>

Proceed(p) ==
    \/ PutNamespace(p) \/ PutInode(p) \/ GetNamespace(p)
    \/ PutContainer(p) \/ PutAcl(p) \/ GetModAclCap(p)
    \/ ModBegin(p) \/ ModGet(p) \/ ModDel(p) \/ ModPut(p)
    \/ GetCapRead(p) \/ GetCapWrite(p)

MountNext ==
    \/ \E p \in Procs : BeginMount(p) \/ Proceed(p) \/ End(p)
    \/ Restart

\* The servers serve, and users whose mount fails try again.
MountSpec ==
    /\ MountInit /\ [][MountNext]_mountVars
    /\ \A p \in Procs : WF_mountVars(BeginMount(p)) /\ WF_mountVars(Proceed(p))
-----------------------------------------------------------------------------
\* The users of a list; one that mod_acl has taken out counts as what it will put.
Allowed(o) ==
    IF lists[o] # NoAcl THEN lists[o]
    ELSE UNION {orig[p] \cup {Uid(p)} : p \in {q \in Procs : pc[q] = "modput" /\ Op(q) = o}}

\* Whoever has mounted the file system stays on the lists to read and to write it, whatever
\* the mounts of other processes create, delete and put.
MountedHasAccess ==
    \A p \in Procs : pc[p] = "mounted" => Uid(p) \in Allowed("READ") \cap Allowed("WRITE")

\* The first try of a user who may change the container's lists succeeds, however far the
\* processes before it came, unless the authorization server was restarted meanwhile.
FirstTryMounts ==
    \A p \in Procs : pc[p] = "failed" => Uid(p) \notin Allowed("MODACL") \/ since[p] # svcKey

\* The same of servers without threads.
SerialFirstTryMounts == ~threaded => FirstTryMounts

\* A capability that a mounted process keeps in its cache is one that a storage server
\* still accepts.
CachedCapsVerify == \A p \in Procs : pc[p] = "mounted" => cap_ht[p] = svcKey

\* In the end every process has mounted the file system, or one of another user has.
MountedInTheEnd ==
    \A p \in Procs :
        <>[](pc[p] = "mounted" \/ \E q \in Procs : Uid(q) # Uid(p) /\ pc[q] = "mounted")

\* The same of servers without threads: a mount that failed, a process that ended between
\* two requests or a server started again is made up for by trying again.
SerialMountedInTheEnd == ~threaded => MountedInTheEnd
=============================================================================
