-------------------------- MODULE MCServiceWrites --------------------------
(* Instances of ServiceWrites for TLC. *)
EXTENDS ServiceWrites, TLC

CONSTANTS g1, g2, i1, i2

Grids == {g1, g2}
Items == {i1, i2}
Pages == (g1 :> i1) @@ (g2 :> i2)
=============================================================================
