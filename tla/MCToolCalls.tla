---------------------------- MODULE MCToolCalls ----------------------------
(* Small instances of ToolCalls for TLC. *)
EXTENDS ToolCalls, TLC

CONSTANTS c1, c2, c3, test, push, wipe

Extend == [tool |-> "edit", old |-> "x", new |-> <<"x", "y">>, expect |-> "any"]
Rename == [tool |-> "edit", old |-> "x", new |-> <<"y">>, expect |-> "hash"]
Create == [tool |-> "write", new |-> <<"y">>, expect |-> "absent"]

Mixed == {Rename, Create}
Growing == {Extend}
=============================================================================
