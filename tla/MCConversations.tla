--------------------------- MODULE MCConversations ---------------------------
(* A small instance of Conversations for TLC. *)
EXTENDS Conversations

CONSTANTS t1, i1, i2, k1
=============================================================================
