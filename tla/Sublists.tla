------------------------------ MODULE Sublists ------------------------------
(***************************************************************************)
(* SELECT ... WHERE ... ORDER BY rowid, and DELETE ... WHERE, over a table  *)
(* that is a sequence in rowid order.  Kept is SelectSeq without recursion: *)
(* Collections_proofs says of it what the proofs about outboxes need.       *)
(***************************************************************************)
EXTENDS Integers, FiniteSets, Sequences

\* How many of the places I are not after i.
Rank(I, i) == Cardinality(I \cap 1..i)

\* The elements of s at the places I, in their order.
Kept(s, I) == [k \in 1..Cardinality(I) |-> s[CHOOSE i \in I : Rank(I, i) = k]]

\* s without the elements of A.
Without(s, A) == Kept(s, {i \in DOMAIN s : s[i] \notin A})
=============================================================================
