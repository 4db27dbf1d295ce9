----------------------------- MODULE MCVirtRules ----------------------------
(* Constants of the TLC runs of VirtRules: r1, r2 and r3 share a priority,  *)
(* r3 matches what r1 does once it is masked, r4 matches on other fields,   *)
(* r5 is in the other direction.                                            *)
EXTENDS VirtRules

McPrio == [r \in Vrs |-> 1]
McDir == [r \in Vrs |-> IF r = "r5" THEN "out" ELSE "in"]
McMask == [r \in Vrs |-> IF r = "r4" THEN "src" ELSE "dst"]
McValue == [r \in Vrs |-> CASE r = "r2" -> 16 [] r = "r3" -> 9 [] OTHER -> 8]

\* "dst" ignores the lowest bits.
McMasked == [x \in {"src", "dst"} \X {8, 9, 16} |-> IF x[1] = "dst" THEN x[2] \div 8 ELSE x[2]]
=============================================================================
