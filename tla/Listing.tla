------------------------------ MODULE Listing ------------------------------
(* Lists made of sets: sorting, and what a comprehension over a list keeps. *)
EXTENDS Naturals, Sequences, FiniteSets

\* The i-th element of a set in an order, for each i.
InOrder(S, Before(_, _)) ==
    [i \in 1 .. Cardinality(S) |->
        CHOOSE d \in S : Cardinality({c \in S : Before(c, d)}) = i - 1]

\* The elements of a sequence that are in a set, in their order.
Only(seq, S) ==
    LET places == InOrder({i \in DOMAIN seq : seq[i] \in S}, LAMBDA i, j : i < j)
    IN [n \in DOMAIN places |-> seq[places[n]]]
=============================================================================
