------------------------------- MODULE Ruleset ------------------------------
(***************************************************************************)
(* Rulesets (netmodel/private/rules.h, netmodel/rules.c): rules grouped by *)
(* priority, the rules of one priority that match the same packets merged  *)
(* into one flower filter of the kernel.  The operators give the ruleset,  *)
(* the kernel's filters and the error code after a call.                   *)
(*                                                                         *)
(* A rule is a record with its masked match data (key) and its subprio. A  *)
(* ruleset is a function from the defined priorities to records of the     *)
(* next free handle and of the flower rules by key.  The filters are a     *)
(* function from <<prio, handle>> to what the kernel was told.  What an    *)
(* action does is left out, and with it the number of actions.             *)
(***************************************************************************)
EXTENDS Naturals, FiniteSets, SequencesExt

CONSTANT MaxHandle    \* 0xFFFF, where lsdn_idalloc_get stops

ASSUME RulesetAssumption == MaxHandle \in Nat

NoRules == <<>>

\* A hash table or the kernel's filters with an entry added or replaced.
Put(f, x, y) == [z \in DOMAIN f \cup {x} |-> IF z = x THEN y ELSE f[z]]

\* The same with an entry removed.
Undefine(f, x) == Restrict(f, DOMAIN f \ {x})

\* lsdn_ruleset_define_prio for a priority that is not defined; it returns
\* NULL for one that is.
DefinePrio(rs, p) == Put(rs, p, [next |-> 1, fls |-> NoRules])

\* lsdn_ruleset_remove_prio and lsdn_ruleset_free assert this.
PrioEmpty(rs, p) == DOMAIN rs[p].fls = {}

RulesetEmpty(rs) == \A p \in DOMAIN rs : PrioEmpty(rs, p)

\* lsdn_idalloc_get: handles are counted up and never returned.
OutOfHandles(prio) == prio.next = MaxHandle

\* The place of a new rule on the sources_list, which is sorted by subprio.
Place(sources, r) == 1 + Cardinality({i \in DOMAIN sources : sources[i].subprio < r.subprio})

Clashes(sources, r) == \E s \in ToSet(sources) : s.subprio = r.subprio

\* flush_fl_rule: create a filter or replace its actions.
Flush(filters, p, key, fl) ==
  Put(filters, <<p, fl.handle>>, [key |-> key, acts |-> fl.sources])

\* lsdn_ruleset_add.  When the kernel refuses, the flower rule is dropped with
\* all its sources; the deletion of a filter that was never made fails.
RulesetAdd(rs, filters, p, r, accepted) ==
  LET prio    == rs[p]
      known   == r.key \in DOMAIN prio.fls
      old     == IF known THEN prio.fls[r.key] ELSE [handle |-> prio.next, sources |-> <<>>]
      fl      == [old EXCEPT !.sources = InsertAt(@, Place(@, r), r)]
      next    == IF known THEN prio.next ELSE prio.next + 1
  IN
  IF ~known /\ OutOfHandles(prio)
    THEN [rs |-> rs, filters |-> filters, err |-> "NOMEM"]
  ELSE IF Clashes(old.sources, r)
    THEN [rs |-> rs, filters |-> filters, err |-> "DUPLICATE"]
  ELSE IF accepted
    THEN [rs      |-> [rs EXCEPT ![p] = [next |-> next, fls |-> Put(prio.fls, r.key, fl)]],
          filters |-> Flush(filters, p, r.key, fl),
          err     |-> "OK"]
    ELSE [rs      |-> [rs EXCEPT ![p] = [next |-> next, fls |-> Undefine(prio.fls, r.key)]],
          filters |-> Undefine(filters, <<p, fl.handle>>),
          err     |-> IF known THEN "NETLINK" ELSE "INCONSISTENT"]

\* lsdn_ruleset_remove for a rule that is on a sources_list.  The memory is
\* changed even when the kernel refuses.
RulesetRemove(rs, filters, p, r, accepted) ==
  LET fl   == [rs[p].fls[r.key] EXCEPT !.sources = RemoveAt(@, CHOOSE i \in DOMAIN @ : @[i] = r)]
      last == fl.sources = <<>>
  IN
  [rs      |-> [rs EXCEPT ![p].fls = IF last THEN Undefine(@, r.key) ELSE Put(@, r.key, fl)],
   filters |-> IF ~accepted THEN filters
               ELSE IF last THEN Undefine(filters, <<p, fl.handle>>)
               ELSE Flush(filters, p, r.key, fl),
   err     |-> IF accepted THEN "OK" ELSE "NETLINK"]
=============================================================================
