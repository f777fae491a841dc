---------------------------- MODULE Subsequences ----------------------------
(***************************************************************************)
(* The elements of a sequence at a set of indices, in their order.  Unlike *)
(* SelectSeq this is no recursion, so that it can be reasoned about.       *)
(***************************************************************************)
EXTENDS Integers, FiniteSets

\* How many elements of S are no greater than i: the position of i among them.
Position(S, i) == Cardinality({j \in S : j <= i})

\* The element of S at position n.
Nth(S, n) == CHOOSE i \in S : Position(S, i) = n

\* The elements of s at the indices S.  As a function of the set TLC computes S only once.
Subsequence(s, S) ==
  [T \in SUBSET DOMAIN s |-> [n \in 1 .. Cardinality(T) |-> s[Nth(T, n)]]][S]
=============================================================================
