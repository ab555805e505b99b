------------------------------ MODULE MCEfiBcd ------------------------------
(***************************************************************************)
(* A BCD whose names stand at every distance from the end of a sector.      *)
(***************************************************************************)
EXTENDS EfiBcd

Filler(n) == [k \in 1 .. n |-> "a"]

MCBcds == {Filler(n) \o search \o Filler(m) : n \in 0 .. 8, m \in 0 .. 8}
=============================================================================
