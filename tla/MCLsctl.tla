------------------------------ MODULE MCLsctl -------------------------------
(***************************************************************************)
(* Small instances of Lsctl for TLC.                                       *)
(***************************************************************************)
EXTENDS Lsctl

\* strtol of a name: the names of nets are their ids here.
IdByName == [n \in NetNames |-> n]

\* Addresses and masks by their IP version.
IpVersions == [x \in Ips \cup Masks |-> IF x \in {"6", "m6"} THEN 6 ELSE 4]

\* The names of nets are alike.
Names == Permutations(NetNames)

AllCare == CareRules
=============================================================================
