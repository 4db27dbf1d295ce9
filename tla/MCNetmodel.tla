----------------------------- MODULE MCNetmodel -----------------------------
(* Constants of the TLC runs of Netmodel. *)
EXTENDS Netmodel, TLC

CONSTANTS s1, n1, n2, p1, p2, v1, v2

OneNet == (n1 :> s1)
TwoNets == (n1 :> s1) @@ (n2 :> s1)
OneVirt == (v1 :> n1)
TwoVirts == (v1 :> n1) @@ (v2 :> n1)
Empty == <<>>
Ipv == ("i4" :> 4) @@ ("i6" :> 6)

\* The rules of a careful client.
AllRules == RuleNames

PhysSym == Permutations(Physes)
PhysVirtSym == Permutations(Physes) \cup Permutations(Virts)
=============================================================================
