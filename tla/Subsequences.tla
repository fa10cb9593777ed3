----------------------------- MODULE Subsequences ------------------------------
(*****************************************************************************)
(* Parts of a sequence, chosen by their places.  SelectSeq chooses by a      *)
(* predicate on the elements, but the writer drops single items of a batch,  *)
(* and the provers know cardinalities where they do not know SelectSeq.      *)
(*****************************************************************************)
EXTENDS Integers, Sequences, FiniteSets

Elements(s) == {s[i] : i \in DOMAIN s}

Below(S, j) == {k \in S : k < j}

\* the i-th of the places in S
Place(S, i) == CHOOSE j \in S : Cardinality(Below(S, j)) = i - 1

\* the elements of s at the places in S, in their order
Picked(s, S) == [i \in 1..Cardinality(S) |-> s[Place(S, i)]]

===============================================================================
