----------------------------- MODULE MCNotebook -----------------------------
(* A small instance of Notebook for TLC. *)
EXTENDS Notebook

CONSTANTS n1, n2, n3
=============================================================================
