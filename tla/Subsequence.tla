----------------------------- MODULE Subsequence -----------------------------
(***************************************************************************)
(* The elements of a sequence that are in a set, in their order: what      *)
(* SelectSeq gives, without its recursion and with a set for the test, so  *)
(* that it can be reasoned about.                                          *)
(***************************************************************************)
EXTENDS Integers, Sequences, FiniteSets

Places(s, S) == { i \in DOMAIN s : s[i] \in S }

\* How many of the places I come up to i.
Rank(I, i) == Cardinality({ j \in I : j <= i })

Only(s, S) ==
    LET I == Places(s, S)
    IN  [k \in 1 .. Cardinality(I) |-> s[CHOOSE i \in I : Rank(I, i) = k]]
===============================================================================
