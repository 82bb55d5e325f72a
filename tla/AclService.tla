---------------------------- MODULE AclService ----------------------------
(***************************************************************************)
(* What the authorization server promises about access control: for every  *)
(* container and operation there is a set of users or nothing, and each    *)
(* change of one of these sets is a single step, the one that a request in *)
(* service asks for.                                                       *)
(***************************************************************************)
EXTENDS Functions

CONSTANTS Threads, Cids, Ops, Uids, InOrder, AnyCid, NoAcl, NoRequest

VARIABLES
    acl,     \* the users that may do an operation on a container
    named,   \* the users that it was ever given to or asked to be taken from
    req      \* the request that each thread serves

vars == <<acl, named, req>>

Init ==
    /\ acl = [k \in Cids \X Ops |-> NoAcl]
    /\ named = [k \in Cids \X Ops |-> {}]
    /\ req = [t \in Threads |-> NoRequest]

Others(t) == \A u \in Threads \ {t} : req'[u] = req[u]
Begin(t) == req[t] = NoRequest /\ req'[t] # NoRequest /\ Others(t) /\ UNCHANGED <<acl, named>>
Finish(t) == req[t] # NoRequest /\ req'[t] = NoRequest /\ Others(t) /\ UNCHANGED <<acl, named>>

Asks(t, op) == req[t] # NoRequest /\ req[t].op = op

Named(c, o, users) == named' = [named EXCEPT ![<<c, o>>] = @ \cup users]

\* A new container's list: its owner, or nobody.
Create(t, c, o) ==
    /\ Asks(t, "create") /\ req[t].cid \in {c, AnyCid}
    /\ acl[<<c, o>>] = NoAcl
    /\ \E users \in {{}, {req[t].uid}} :
          acl' = [acl EXCEPT ![<<c, o>>] = users] /\ Named(c, o, users)
    /\ UNCHANGED req

\* Nobody gets access who is not given it.  A user both added and removed loses access, as
\* does everybody else who is to, and nobody else, when all users named are in order.
Modify(t, c, o) ==
    LET k == <<c, o>>
        set == Range(req[t].set)
        unset == Range(req[t].unset)
    IN  /\ Asks(t, "modacl") /\ req[t].cid = c /\ o \in req[t].ops
        /\ acl[k] # NoAcl
        /\ Named(c, o, set \cup unset)
        /\ \E users \in SUBSET (acl[k] \cup set) :
              /\ named'[k] \subseteq InOrder => users = (acl[k] \cup set) \ unset
              /\ acl' = [acl EXCEPT ![k] = users]
        /\ UNCHANGED req

Remove(t, c, o) ==
    /\ Asks(t, "remove") /\ req[t].cid = c
    /\ acl[<<c, o>>] # NoAcl
    /\ acl' = [acl EXCEPT ![<<c, o>>] = NoAcl]
    /\ UNCHANGED <<named, req>>

Next ==
    \/ \E t \in Threads : Begin(t) \/ Finish(t)
    \/ \E t \in Threads, c \in Cids, o \in Ops :
          Create(t, c, o) \/ Modify(t, c, o) \/ Remove(t, c, o)

Spec == Init /\ [][Next]_vars
=============================================================================
