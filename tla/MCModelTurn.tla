---------------------------- MODULE MCModelTurn ----------------------------
(* A small instance of ModelTurn for TLC: a response calls one(a) or       *)
(* one(b), or one(a) beside two(b) in either order, so that the next       *)
(* response may use an id for the same arguments or for others.            *)
EXTENDS ModelTurn

CONSTANTS one, two, a, b

TheCallLists ==
    {<<[raw |-> one, args |-> x]>> : x \in {a, b}}
    \cup {<<[raw |-> one, args |-> a], [raw |-> two, args |-> b]>>,
          <<[raw |-> two, args |-> b], [raw |-> one, args |-> a]>>}
=============================================================================
