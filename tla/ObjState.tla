------------------------------ MODULE ObjState ------------------------------
(***************************************************************************)
(* The commit state that every object of the network model carries         *)
(* (netmodel/private/state.h) and the helpers that move it.  "none" stands *)
(* for an object that is not allocated.                                    *)
(***************************************************************************)

State == {"NEW", "RENEW", "DELETE", "OK", "ERR", "FAIL"}

ObjStates == State \cup {"none"}

\* The user may still hold a pointer to the object.
Live(s) == s \notin {"none", "DELETE"}

\* Mutant: a committed object is not marked when it changes.
RenewNever(s) == s

\* renew(): its assert (state # DELETE) is checked by the callers that can
\* meet it.
Renew(s) == IF s = "OK" THEN "RENEW" ELSE s

\* propagate(): a parent slated for renewal drags a committed child with it.
Propagate(from, to) == IF from = "RENEW" /\ to = "OK" THEN "RENEW" ELSE to

\* Mutant: committed objects are freed at once as well.
FreeHelperAlways(s) == "none"

\* free_helper(): objects that never reached the kernel are freed at once.
FreeHelper(s) == IF s = "NEW" THEN "none" ELSE "DELETE"

\* ack_decommit(): whether the caller has to decommit, and the new state.
NeedsDecommit(s) == s \in {"DELETE", "RENEW"}

AckDecommit(s) == IF s = "RENEW" THEN "NEW" ELSE s

\* Mutant: an object whose creation failed is not made new again.
AckStateKeepsErr(s) == IF s \in {"NEW", "RENEW"} THEN "OK" ELSE s

\* ack_state(), run for every object at the end of a commit.
AckState(s) ==
  CASE s \in {"NEW", "RENEW"} -> "OK"
    [] s = "ERR"              -> "NEW"
    [] OTHER                  -> s

\* Mutant: commit_pa goes on after create_pa failed.
StateOkAlways(s) == TRUE

\* state_ok()
StateOk(s) == s \in {"OK", "NEW"}

\* The results of the network operations.  The commit functions return any of
\* these; the decommit functions only OK or INCONSISTENT.
Err == {"OK", "NETLINK", "NOMEM", "INCONSISTENT"}

\* mark_commit_err(): the state after an operation on the object returned err,
\* whether the caller sees a failure, and whether a problem is reported.
MarkCommitErr(s, fatal, err) ==
  CASE s = "FAIL" \/ err = "OK"                                -> s
    [] err = "INCONSISTENT" \/ (fatal /\ err = "NETLINK")      -> "FAIL"
    [] OTHER                                                   -> "ERR"

CommitFailed(s, err) == s = "FAIL" \/ err # "OK"

Reported(s, err) == s # "FAIL" /\ err # "OK"

\* should_be_validated()
Should_be_validated(s) == s \in {"NEW", "RENEW"}
=============================================================================
