------------------------------- MODULE Ordered -------------------------------
(***************************************************************************)
(* A list comprehension with a condition: the members of a list that are   *)
(* kept, in their order.  It is said by the places that are kept rather    *)
(* than by recursion, so that what it yields can be proved.                *)
(***************************************************************************)
EXTENDS Naturals, FiniteSets

\* The numbers of a finite set, the smallest first: the k-th has k - 1 below it.
Ascending(S) ==
    [k \in 1 .. Cardinality(S) |-> CHOOSE i \in S : Cardinality({j \in S : j < i}) = k - 1]

\* The members of s at these places.
AtPlaces(s, places) ==
    LET order == Ascending(places) IN [k \in DOMAIN order |-> s[order[k]]]

\* The members of s that are in S.
Only(s, S) == AtPlaces(s, {k \in DOMAIN s : s[k] \in S})
=============================================================================
