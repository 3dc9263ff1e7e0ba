--------------------------- MODULE MCTraceLedger ---------------------------
(* Small instances of TraceLedger for TLC. *)
EXTENDS TraceLedger

CONSTANTS t1, t2, k1, k2, k3, i1, i2, a1, w1, w2

Owner    == (k1 :> t1) @@ (k2 :> t1) @@ (k3 :> t2) @@ (i1 :> t1) @@ (i2 :> t2)
Kind     == (i1 :> "steering") @@ (i2 :> "traces")
Artifact == (k1 :> a1) @@ (k2 :> NoValue) @@ (k3 :> a1)
RankOf   == (t1 :> 1) @@ (t2 :> 2) @@ (i2 :> 1) @@ (i1 :> 2)
AnyWriter == Permutations(Writers)
=============================================================================
