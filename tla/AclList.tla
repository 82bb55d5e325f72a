------------------------------ MODULE AclList ------------------------------
(***************************************************************************)
(* The arrays of user ids in which the authorization server keeps an       *)
(* access-control list (authr_server.c): the comparison, qsort and bsearch *)
(* over it, and the functions that add and remove users.  A uid is one     *)
(* unsigned word here; the code compares four, from the last one down.     *)
(***************************************************************************)
EXTENDS Integers, Sequences, FiniteSets, Functions

CONSTANTS
    HalfWord,     \* half of the values of the word compared (2^31 in the code)
    LongIs32,     \* does a long have the width of the word?
    CrayPortals   \* is HAVE_CRAY_PORTALS defined?

ASSUME WordAssumption == HalfWord \in Nat \ {0}
ASSUME BuildAssumption == LongIs32 \in BOOLEAN /\ CrayPortals \in BOOLEAN

\* A removed or repeated uid is overwritten by all ones.
Inf == 2 * HalfWord - 1

\* The words that compare_uids puts in one order, from the greatest down and before Inf:
\* their differences fit a signed word.  With a longer long, or HAVE_CRAY_PORTALS, there
\* are none, and with the words of the high half the comparison goes in circles.
InOrder == IF LongIs32 /\ ~CrayPortals THEN 0 .. HalfWord - 2 ELSE {}

\* A slip: the difference is kept in an unsigned type.
CompareUidsUnsigned(a, b) == IF (b - a) % (2 * HalfWord) = 0 THEN 0 ELSE 1

\* The difference of the words is unsigned; a long of the same width gets its sign back,
\* a wider one never.
CompareUids(a, b) ==
    LET res == (b - a) % (2 * HalfWord)
    IN  IF res = 0 THEN 0
        ELSE IF LongIs32 /\ res >= HalfWord THEN -1 ELSE 1

\* The comparison given to qsort and bsearch.
Compar(a, b) == IF CrayPortals THEN -CompareUids(a, b) ELSE CompareUids(a, b)

First(s, n) == SubSeq(s, 1, n)

\* What qsort may leave in the array.  A comparison that is no order gives it no contract:
\* then the array may end in any arrangement.
Qsort(s) ==
    LET arranged == {[k \in DOMAIN s |-> s[p[k]]] : p \in Bijection(DOMAIN s, DOMAIN s)}
        ordered == {t \in arranged :
                       \A j, k \in DOMAIN s : j < k => Compar(t[j], t[k]) <= 0}
    IN  IF ordered = {} THEN arranged ELSE ordered

\* A slip: the repetitions are overwritten and stay.
RemoveDupsKeepTail(s) ==
    LET marked(t) == [k \in DOMAIN t |-> IF k > 1 /\ t[k] = t[k - 1] THEN Inf ELSE t[k]]
    IN  UNION {Qsort(marked(t)) : t \in Qsort(s)}

\* Sort, overwrite the repetitions, sort again and drop the tail.
RemoveDups(s) ==
    LET repeated(t) == {k \in DOMAIN t : k > 1 /\ t[k] = t[k - 1]}
        marked(t) == [k \in DOMAIN t |-> IF k \in repeated(t) THEN Inf ELSE t[k]]
    IN  UNION {{First(u, Len(s) - Cardinality(repeated(t))) : u \in Qsort(marked(t))} :
                  t \in Qsort(s)}

AddUids(orig, toadd) == RemoveDups(orig \o toadd)

\* A slip: the arrays advance the wrong way.
MatchedSwapped(o, r) ==
    LET walk[p \in (1..Len(o) + 1) \X (1..Len(r) + 1)] ==
            LET i == p[1]
                j == p[2]
                c == CompareUids(o[i], r[j])
            IN  IF i > Len(o) \/ j > Len(r) THEN {}
                ELSE IF c = 0 THEN {i} \cup walk[<<i + 1, j + 1>>]
                ELSE IF c < 0 THEN walk[<<i, j + 1>>] ELSE walk[<<i + 1, j>>]
    IN  walk[<<1, 1>>]

\* The places of o whose uid the merge of the two sorted arrays meets in r.
Matched(o, r) ==
    LET walk[p \in (1..Len(o) + 1) \X (1..Len(r) + 1)] ==
            LET i == p[1]
                j == p[2]
                c == CompareUids(o[i], r[j])
            IN  IF i > Len(o) \/ j > Len(r) THEN {}
                ELSE IF c = 0 THEN {i} \cup walk[<<i + 1, j + 1>>]
                ELSE IF c < 0 THEN walk[<<i + 1, j>>] ELSE walk[<<i, j + 1>>]
    IN  walk[<<1, 1>>]

RemoveUids(orig, torm) ==
    LET without(o, r) ==
            LET gone == Matched(o, r)
            IN  {First(u, Len(o) - Cardinality(gone)) :
                    u \in Qsort([k \in DOMAIN o |-> IF k \in gone THEN Inf ELSE o[k]])}
    IN  UNION {UNION {without(o, r) : r \in RemoveDups(torm)} : o \in RemoveDups(orig)}

\* What mod_acl makes of an ACL: grants first, then revocations.
ModifiedAcl(orig, set, unset) == UNION {RemoveUids(a, unset) : a \in AddUids(orig, set)}

\* bsearch of the C library: halve [l, h) until the uid is met.
Bsearch(uid, s) ==
    LET find[p \in (0..Len(s)) \X (0..Len(s))] ==
            LET l == p[1]
                h == p[2]
                m == (l + h) \div 2
                c == Compar(uid, s[m + 1])
            IN  IF l >= h THEN FALSE
                ELSE IF c = 0 THEN TRUE
                ELSE IF c < 0 THEN find[<<l, m>>] ELSE find[<<m + 1, h>>]
    IN  find[<<0, Len(s)>>]
=============================================================================
