------------------------------ MODULE MCAuthr ------------------------------
(* The arrays of uids given to mod_acl in the instances of Authr. *)
EXTENDS Authr

LOCAL TLC == INSTANCE TLC

\* 0 and 6 are the ends of the uids in order when HalfWord is 8; with 12 they go in a circle,
\* and 12 comes after Inf.
Lists == {<<>>, <<0>>, <<6>>, <<12>>}
ShortLists == {<<>>, <<1>>, <<2>>}

\* MODACL with READ, and CREATE with READ.
SomeOps == {{2, 4}, {1, 4}}
JustModAcl == {{2}}

\* Each list by itself, with no uids: what removes it and puts it back.
NoUsers == {<<>>}
EachOp == {{1}, {2}, {3}}
Sym == TLC!Permutations(Threads)
=============================================================================
