------------------------------ MODULE Sublists ------------------------------
(***************************************************************************)
(* The entries of a list at some of its places, in their order: what a     *)
(* loop leaves of a list when it passes over the others.                   *)
(***************************************************************************)
EXTENDS Naturals, Sequences, FiniteSets

\* The k-th of a set of places.
Nth(places, k) == CHOOSE i \in places : Cardinality({j \in places : j <= i}) = k

\* A list's entries at each set of its places.
Entries(list) ==
    [places \in SUBSET DOMAIN list |-> [k \in 1..Cardinality(places) |-> list[Nth(places, k)]]]

At(list, places) == Entries(list)[places]
=============================================================================
