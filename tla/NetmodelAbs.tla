---------------------------- MODULE NetmodelAbs -----------------------------
(***************************************************************************)
(* What lsdn_commit promises when no network operation fails               *)
(* (netmodel/lsdn.c:1551-1582, docs/netmodel.rst "Commit"), without a word *)
(* about objects and their states.  The user edits what he wants; a commit *)
(* either rejects it and leaves the kernel alone, or first removes every   *)
(* fact that is not wanted any more, then adds wanted facts until the      *)
(* kernel holds exactly those.                                             *)
(***************************************************************************)
CONSTANT Facts

VARIABLES
  want,     \* the facts the model in memory asks for
  kernel,   \* the facts that are installed
  phase,    \* idle, decommit or recommit
  result    \* of the last commit, NONE while the model is being edited

vars == <<want, kernel, phase, result>>

Init == want = {} /\ kernel = {} /\ phase = "idle" /\ result = "NONE"

Edit == /\ phase = "idle"
        /\ want' \in SUBSET Facts
        /\ result' = "NONE"
        /\ UNCHANGED <<kernel, phase>>

Reject == /\ phase = "idle"
          /\ result' = "VALIDATE"
          /\ UNCHANGED <<want, kernel, phase>>

Begin == /\ phase = "idle" /\ phase' = "decommit"
         /\ result' = "NONE"
         /\ UNCHANGED <<want, kernel>>

\* A wanted fact may be removed as well, when it is to be installed anew.
Remove == /\ phase = "decommit"
          /\ kernel' \in SUBSET kernel
          /\ UNCHANGED <<want, phase, result>>

Turn == /\ phase = "decommit" /\ phase' = "recommit"
        /\ kernel \subseteq want
        /\ UNCHANGED <<want, kernel, result>>

Add == /\ phase = "recommit"
       /\ kernel \subseteq kernel' /\ kernel' \subseteq want
       /\ UNCHANGED <<want, phase, result>>

Finish == /\ phase = "recommit" /\ phase' = "idle"
          /\ kernel = want
          /\ result' = "OK"
          /\ UNCHANGED <<want, kernel>>

Next == Edit \/ Reject \/ Begin \/ Remove \/ Turn \/ Add \/ Finish

Spec == Init /\ [][Next]_vars
=============================================================================
