------------------------------ MODULE MCLsctld ------------------------------
(***************************************************************************)
(* A small instance of Lsctld for TLC.                                     *)
(***************************************************************************)
EXTENDS Lsctld, TLC

CONSTANTS c1, c2

\* One script is longer than the script buffer, the other fits into it.  Both
\* use show and puts -nonewline, and the buffers of the C library and of the
\* channel of Tcl are full with the output of the second script.
Sizes   == (c1 :> 3) @@ (c2 :> 1)
Outputs == (c1 :> <<"print", "puts", "show">>) @@ (c2 :> <<"show", "print">>)
=============================================================================
