------------------------------ MODULE MCLbridge -----------------------------
(***************************************************************************)
(* A small instance of Lbridge for TLC.                                    *)
(***************************************************************************)
EXTENDS Lbridge, TLC

CONSTANTS d, e, g, h, v1, v2, r1, r2, r3

\* Two PAs share the Geneve tunnel, one has a VXLAN tunnel, one is direct.
PaTypes  == (d :> "direct") @@ (e :> "vxlan/e2e") @@ (g :> "geneve/e2e") @@ (h :> "geneve/e2e")
VirtPas  == (v1 :> d) @@ (v2 :> g)
RemoteAt == (r1 :> e) @@ (r2 :> g) @@ (r3 :> h)
=============================================================================
