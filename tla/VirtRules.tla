------------------------------ MODULE VirtRules -----------------------------
(***************************************************************************)
(* The firewall rules of one virt (netmodel/rules.c:36-134) and what       *)
(* lsdn_commit does with them (validate_rules, commit_rules and            *)
(* decommit_rules, netmodel/lsdn.c:912-1020).  The virt's own part in a    *)
(* commit is reduced to what the rules see of it: remove_virt frees its    *)
(* two rulesets, add_virt makes them anew; the whole engine is in module   *)
(* NetCommit.  The matches of a rule are fixed when it is created: the     *)
(* lsdn_vr_add functions assert that the rule is NEW.                      *)
(***************************************************************************)
EXTENDS Ruleset, ObjState

CONSTANTS
  Vrs,               \* rules a client may create
  VrPrio, VrDir,     \* priority and direction
  VrMask, VrValue,   \* match targets with their masks, and the data to match
  Masked,            \* lsdn_rule_apply_mask: [masks \X values -> keys]
  Prios, Dirs,
  MayRenew,          \* the client changes a virt that has rules in the kernel
  Refusals           \* whether the kernel may refuse to add a filter

ASSUME VirtRulesAssumption ==
  /\ VrPrio \in [Vrs -> Prios] /\ VrDir \in [Vrs -> Dirs]
  /\ \A r \in Vrs : <<VrMask[r], VrValue[r]>> \in DOMAIN Masked
  /\ MayRenew \in BOOLEAN /\ Refusals \in BOOLEAN

VARIABLES
  virt, connected,   \* state of the virt; connected through a local phys
  committed,         \* committed_to # NULL: the rulesets exist
  vr,                \* states of the rules
  subprio,           \* lsdn_rule.subprio, once the rule was given to a ruleset
  linked,            \* the rules with fl_rule # NULL
  count,             \* vr_prio.commited_count
  mask,              \* targets and masks of the committed priority
  rs, filters,       \* rules_in and rules_out, the filters on the interface
  pc, todo,          \* the part of lsdn_commit, rules left in its loop
  ret, aborted

virtVars == <<virt, connected, committed>>
ruleVars == <<vr, subprio, linked, count, mask, rs, filters>>
vars == <<virtVars, ruleVars, pc, todo, ret, aborted>>

Slots == Dirs \X Prios

Slot(r) == <<VrDir[r], VrPrio[r]>>

\* vr_prio.rules_list
InSlot(x) == {r \in Vrs : vr[r] # "none" /\ Slot(r) = x}

Listed == {r \in Vrs : vr[r] # "none"}

VrInit ==
  /\ virt = "none" /\ connected = FALSE /\ committed = FALSE
  /\ vr = [r \in Vrs |-> "none"]
  /\ subprio = [r \in Vrs |-> 0]
  /\ linked = {}
  /\ count = [x \in Slots |-> 0]
  /\ mask = [x \in Slots |-> {}]
  /\ rs = [d \in Dirs |-> NoRules]
  /\ filters = [d \in Dirs |-> NoRules]
  /\ pc = "idle" /\ todo = {} /\ ret = "NONE" /\ aborted = "no"

-----------------------------------------------------------------------------
Editing == pc = "idle" /\ aborted = "no" /\ ret' = "NONE" /\ UNCHANGED <<pc, todo, aborted>>

VirtNew ==
  /\ Editing
  /\ virt = "none" /\ virt' = "NEW"
  /\ UNCHANGED <<connected, committed, ruleVars>>

\* lsdn_vr_new
VrNew(r) ==
  /\ Editing
  /\ Live(virt) /\ vr[r] = "none"
  /\ vr' = [vr EXCEPT ![r] = "NEW"]
  /\ UNCHANGED <<virtVars, subprio, linked, count, mask, rs, filters>>

\* lsdn_vr_free; the virt is not renewed.
VrFree(r) ==
  /\ Editing
  /\ Live(virt) /\ Live(vr[r])
  /\ vr' = [vr EXCEPT ![r] = FreeHelper(@)]
  /\ UNCHANGED <<virtVars, subprio, linked, count, mask, rs, filters>>

\* A client that knows of the trouble frees and makes a virt again instead.
Renewable == MayRenew \/ linked = {}

\* Connecting the virt to a local phys or to another one, and any other edit.
VirtEdit(c) ==
  /\ Editing
  /\ Live(virt) /\ Renewable
  /\ connected' = c
  /\ virt' = Renew(virt)
  /\ UNCHANGED <<committed, ruleVars>>

\* Mutant: the rules of the virt are not freed with it.
VirtFreeKeepsRules ==
  /\ Editing
  /\ Live(virt)
  /\ virt' = FreeHelper(virt)
  /\ connected' = (connected /\ virt # "NEW")
  /\ vr' = IF virt = "NEW" THEN [r \in Vrs |-> "none"] ELSE vr
  /\ UNCHANGED <<committed, subprio, linked, count, mask, rs, filters>>

\* lsdn_virt_free, lsdn_vrs_free_all included
VirtFree ==
  /\ Editing
  /\ Live(virt)
  /\ virt' = FreeHelper(virt)
  /\ connected' = (connected /\ virt # "NEW")
  /\ vr' = [r \in Vrs |-> IF vr[r] = "none" \/ virt = "NEW" THEN "none" ELSE FreeHelper(vr[r])]
  /\ UNCHANGED <<committed, subprio, linked, count, mask, rs, filters>>

-----------------------------------------------------------------------------
(***************************************************************************)
(* lsdn_validate and lsdn_commit.                                          *)
(***************************************************************************)

KeyOf(r) == Masked[<<VrMask[r], VrValue[r]>>]

\* Mutant: the rules of a priority may match alike.
RulesValidIncompatibleOnly ==
  \A q, r \in Listed : q # r /\ Slot(q) = Slot(r) => VrMask[q] = VrMask[r]

\* validate_rules: the rules of a priority match on the same fields and no two
\* of them match alike.  Rules that await their deletion count as well.
RulesValid ==
  \A q, r \in Listed : q # r /\ Slot(q) = Slot(r) =>
                         VrMask[q] = VrMask[r] /\ KeyOf(q) # KeyOf(r)

ValidateFails ==
  /\ pc = "idle" /\ aborted = "no" /\ virt # "none"
  /\ ~RulesValid
  /\ ret' = "VALIDATE"
  /\ UNCHANGED <<virtVars, ruleVars, pc, todo, aborted>>

CommitBegin ==
  /\ pc = "idle" /\ aborted = "no" /\ virt # "none"
  /\ RulesValid
  /\ ret' = "NONE"
  /\ virt' = AckDecommit(virt)
  /\ pc' = IF NeedsDecommit(virt) THEN "decommit" ELSE "recommit"
  /\ todo' = IF NeedsDecommit(virt) THEN Listed ELSE {}
  /\ UNCHANGED <<connected, committed, ruleVars, aborted>>

Running(phase) == pc = phase /\ aborted = "no"

RuleOf(r) == [id |-> r, key |-> Masked[<<mask[Slot(r)], VrValue[r]>>], subprio |-> subprio[r]]

\* Mutant: the priority stays defined when its last rule is gone.
LastOfNever(x) == FALSE

LastOf(x) == count[x] = 1

\* decommit_vr, whose errors nobody looks at.
DecommitVr(r) ==
  LET d == VrDir[r]
      x == Slot(r)
      out == RulesetRemove(rs[d], filters[d], VrPrio[r], RuleOf(r), TRUE)
  IN
  IF r \notin linked
  THEN aborted' = "fl_rule" /\ UNCHANGED <<linked, count, rs, filters>>
  ELSE /\ linked' = linked \ {r}
       /\ filters' = [filters EXCEPT ![d] = out.filters]
       /\ count' = [count EXCEPT ![x] = @ - 1]
       /\ rs' = [rs EXCEPT ![d] = IF LastOf(x) THEN Undefine(out.rs, VrPrio[r]) ELSE out.rs]
       /\ aborted' = IF LastOf(x) /\ ~PrioEmpty(out.rs, VrPrio[r]) THEN "remove_prio" ELSE "no"

\* One turn of decommit_rules.  The virt has been acknowledged by then and is
\* not RENEW any more.
DecommitRule(r) ==
  LET s == Propagate(virt, vr[r]) IN
  /\ Running("decommit")
  /\ r \in todo /\ todo' = todo \ {r}
  /\ vr' = [vr EXCEPT ![r] = AckDecommit(s)]
  /\ IF NeedsDecommit(s) THEN DecommitVr(r)
     ELSE UNCHANGED <<linked, count, rs, filters, aborted>>
  /\ UNCHANGED <<virtVars, subprio, mask, pc, ret>>

\* remove_virt frees the rulesets; a deleted virt is freed with its rules.
RemoveVirt ==
  LET gone == virt = "DELETE" IN
  /\ Running("decommit") /\ todo = {}
  /\ rs' = [d \in Dirs |-> NoRules]
  /\ aborted' = IF \A d \in Dirs : RulesetEmpty(rs[d]) THEN "no" ELSE "ruleset_free"
  /\ committed' = FALSE
  /\ virt' = IF gone THEN "none" ELSE virt
  /\ connected' = (connected /\ ~gone)
  /\ vr' = IF gone THEN [r \in Vrs |-> "none"] ELSE vr
  /\ pc' = "recommit"
  /\ UNCHANGED <<subprio, linked, count, mask, filters, todo, ret>>

\* Mutant: rules are committed with a new virt only.
CommitVirtNewOnly ==
  /\ Running("recommit")
  /\ committed' = (virt # "none" /\ connected)
  /\ todo' = IF committed' /\ virt = "NEW" THEN Listed ELSE {}
  /\ pc' = "rules"
  /\ UNCHANGED <<virt, connected, ruleVars, ret, aborted>>

\* commit_pa as far as the rules: add_virt for a new virt.
CommitVirt ==
  /\ Running("recommit")
  /\ committed' = (virt # "none" /\ connected)
  /\ todo' = IF committed' /\ StateOk(virt) THEN Listed ELSE {}
  /\ pc' = "rules"
  /\ UNCHANGED <<virt, connected, ruleVars, ret, aborted>>

\* commit_vr.  The first rule of a priority defines it and has its subprio
\* set; that of the others is whatever malloc left there.
CommitVr(r) ==
  LET d == VrDir[r]
      x == Slot(r)
      first == count[x] = 0
      defined == VrPrio[r] \in DOMAIN rs[d]
      base == IF first /\ ~defined THEN DefinePrio(rs[d], VrPrio[r]) ELSE rs[d]
  IN
  \E s \in IF first THEN {0} ELSE {0, 1}, accepted \in IF Refusals THEN BOOLEAN ELSE {TRUE} :
    LET m    == IF first THEN VrMask[r] ELSE mask[x]
        rule == [id |-> r, key |-> Masked[<<m, VrValue[r]>>], subprio |-> s]
        out  == RulesetAdd(base, filters[d], VrPrio[r], rule, accepted)
    IN
    /\ subprio' = [subprio EXCEPT ![r] = s]
    /\ mask' = [mask EXCEPT ![x] = m]
    /\ rs' = [rs EXCEPT ![d] = out.rs]
    /\ filters' = [filters EXCEPT ![d] = out.filters]
    /\ linked' = linked \cup {r}
    /\ count' = [count EXCEPT ![x] = @ + 1]
    /\ aborted' = IF first /\ defined THEN "define_prio"
                  ELSE IF out.err = "DUPLICATE" THEN "duplicate"
                  ELSE IF out.err # "OK" THEN "refused" ELSE "no"

\* One turn of commit_rules, run for every virt that is there.
CommitRule(r) ==
  /\ Running("rules")
  /\ r \in todo /\ todo' = todo \ {r}
  /\ vr' = [vr EXCEPT ![r] = AckState(@)]
  /\ IF vr[r] = "NEW" THEN CommitVr(r)
     ELSE UNCHANGED <<subprio, linked, count, mask, rs, filters, aborted>>
  /\ UNCHANGED <<virtVars, pc, ret>>

CommitEnd ==
  /\ Running("rules") /\ todo = {}
  /\ virt' = AckState(virt)
  /\ pc' = "idle" /\ ret' = "OK"
  /\ UNCHANGED <<connected, committed, ruleVars, todo, aborted>>

Stopped == aborted # "no" /\ UNCHANGED vars

Edit == VirtNew \/ VirtFree \/ (\E c \in BOOLEAN : VirtEdit(c)) \/ \E r \in Vrs : VrNew(r) \/ VrFree(r)

Commit == ValidateFails \/ CommitBegin \/ RemoveVirt \/ CommitVirt \/ CommitEnd
          \/ \E r \in Vrs : DecommitRule(r) \/ CommitRule(r)

Init == VrInit
Next == Edit \/ Commit \/ Stopped
Spec == Init /\ [][Next]_vars

-----------------------------------------------------------------------------
\* No assert of rules.c fails (281, 449), commit_vr meets neither a priority
\* that is already defined nor a rule that clashes (976, 983), and decommit_vr
\* no rule without a filter.  It does abort when the kernel refuses a rule.
NoRuleAborts == aborted \in {"no", "refused"}

FlowersOf(d) == {f \in Prios \X {Masked[m] : m \in DOMAIN Masked} :
                   f[1] \in DOMAIN rs[d] /\ f[2] \in DOMAIN rs[d][f[1]].fls}

\* At every step of a commit the three records of what is installed agree:
\* commited_count with the rules that have a filter, the rulesets with these
\* rules, and the filters of the interface with the rulesets.
RulesetsMatchFilters ==
  aborted = "no" =>
    /\ \A x \in Slots : /\ count[x] = Cardinality({r \in linked : Slot(r) = x})
                        /\ x[2] \in DOMAIN rs[x[1]] <=> count[x] > 0
    /\ linked = UNION {UNION {{s.id : s \in ToSet(rs[d][f[1]].fls[f[2]].sources)} :
                                 f \in FlowersOf(d)} : d \in Dirs}
    /\ \A d \in Dirs :
         {<<h, filters[d][h]>> : h \in DOMAIN filters[d]} =
         {<<<<f[1], rs[d][f[1]].fls[f[2]].handle>>,
            [key |-> f[2], acts |-> rs[d][f[1]].fls[f[2]].sources]>> : f \in FlowersOf(d)}

\* The rules the kernel applies, with what they match.
Applied == UNION {UNION {{<<d, h[1], filters[d][h].key, s.id>> : s \in ToSet(filters[d][h].acts)} :
                           h \in DOMAIN filters[d]} : d \in Dirs}

\* "After returning successfully, the current network model is in effect"
\* (lsdn.c:1553): every rule of a virt that is there is applied, on the packets
\* it was made for and in its direction and priority, also when it was added
\* to a virt that had been committed long ago.
RulesInEffect ==
  ret = "OK" /\ committed =>
    \A r \in Vrs : Live(vr[r]) => <<VrDir[r], VrPrio[r], KeyOf(r), r>> \in Applied

\* "virt is deleted then all its rules and rates are deleted as well"
\* (docs/netmodel.rst:311).
VirtTakesItsRules == virt = "none" => Applied = {} /\ linked = {}
=============================================================================
