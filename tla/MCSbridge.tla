------------------------------ MODULE MCSbridge -----------------------------
(* Constants of the TLC run of Sbridge: two nets that share the tunnel, two *)
(* virts and two remote PAs in the first, a bridge only in the second.      *)
EXTENDS Sbridge

McNetOf == [x \in {"v1", "v2", "r1", "r2"} |-> "n1"]
McRpaOf == ("w1" :> "r1")
=============================================================================
