--------------------------- MODULE VirtRulesProofs --------------------------
(***************************************************************************)
(* Proofs about VirtRules, for any rules, priorities, directions and       *)
(* matches, any number of handles and any refusals.                        *)
(*                                                                         *)
(* The inductive invariant IInv has two halves.  States relates the states *)
(* of the rules to the state of the virt, the phase of the commit and the  *)
(* rules that are linked to a filter.  Books says what the rulesets and    *)
(* the filters hold for the linked rules: since validate_rules lets no two *)
(* rules of a priority match alike, every filter has exactly one source.   *)
(* After an abort only Ended is kept.                                      *)
(***************************************************************************)
EXTENDS VirtRules, FiniteSetTheorems, TLAPS

Keys == {Masked[m] : m \in DOMAIN Masked}

TypeInv ==
  /\ virt \in {"none", "NEW", "OK", "RENEW", "DELETE"}
  /\ connected \in BOOLEAN /\ committed \in BOOLEAN
  /\ vr \in [Vrs -> {"none", "NEW", "OK", "DELETE"}]
  /\ subprio \in [Vrs -> {0, 1}]
  /\ linked \subseteq Vrs /\ IsFiniteSet(linked)
  /\ mask = [x \in Slots |-> mask[x]]
  /\ rs = [d \in Dirs |-> rs[d]]
  /\ filters = [d \in Dirs |-> filters[d]]
  /\ pc \in {"idle", "decommit", "recommit", "rules"}
  /\ todo \subseteq Listed
  /\ ret \in {"NONE", "OK", "VALIDATE"}

\* The virt in each phase of the commit, and what the phase has done.
Phases ==
  /\ pc \in {"idle", "recommit"} => todo = {}
  /\ pc = "decommit" => virt \in {"NEW", "DELETE"}
  /\ pc \in {"recommit", "rules"} => virt \in {"none", "NEW", "OK"}
  /\ pc # "idle" => ret = "NONE" /\ RulesValid
  /\ pc = "rules" /\ committed => \A r \in Listed \ todo : vr[r] # "NEW"
  /\ ret = "OK" /\ committed => \A r \in Listed : vr[r] # "NEW"

\* A rule that was acknowledged has its filter, one that is not in the kernel
\* has none, and a virt that was never committed or is gone has no filters.
Links ==
  /\ \A r \in linked : vr[r] \in {"OK", "DELETE"}
  /\ \A r \in Vrs : vr[r] = "OK" => r \in linked
  /\ virt = "none" => Listed = {}
  /\ virt = "NEW" /\ pc \in {"idle", "recommit"} => linked = {}
  /\ virt = "DELETE" => \A r \in Vrs : vr[r] \in {"none", "DELETE"}
  /\ virt = "DELETE" /\ pc = "decommit" => linked \subseteq todo

\* A client that does not renew a virt with rules never meets a rule that
\* awaits its deletion and has no filter.
Kept ==
  /\ pc # "decommit" => \A r \in Vrs : vr[r] = "DELETE" => r \in linked
  /\ pc = "decommit" => \A r \in todo : vr[r] = "DELETE" => r \in linked
  /\ virt \in {"NEW", "RENEW"} /\ pc # "rules" => linked = {}
  /\ virt = "NEW" /\ pc = "decommit" => \A r \in Vrs : vr[r] # "DELETE"

States == TypeInv /\ Phases /\ Links /\ (MayRenew \/ Kept)

\* The linked rules of a priority.
In(x) == {r \in linked : Slot(r) = x}

Source(r) == [id |-> r, key |-> KeyOf(r), subprio |-> subprio[r]]

Flower(r) == rs[VrDir[r]][VrPrio[r]].fls[KeyOf(r)]

Handle(r) == <<VrPrio[r], Flower(r).handle>>

\* The linked rules of a priority match on the same fields, and none alike.
Apart ==
  /\ \A r \in linked : mask[Slot(r)] = VrMask[r]
  /\ \A q, r \in linked : Slot(q) = Slot(r) /\ KeyOf(q) = KeyOf(r) => q = r

Counts == count = [x \in Slots |-> Cardinality(In(x))]

\* The ruleset of a direction has a flower rule for every linked rule.
Rulesets ==
  \A d \in Dirs :
    /\ rs[d] = [p \in DOMAIN rs[d] |-> rs[d][p]]
    /\ DOMAIN rs[d] = {p \in Prios : In(<<d, p>>) # {}}
    /\ \A p \in DOMAIN rs[d] :
         /\ rs[d][p] = [next |-> rs[d][p].next, fls |-> rs[d][p].fls]
         /\ rs[d][p].next \in Nat
         /\ rs[d][p].fls = [k \in DOMAIN rs[d][p].fls |-> rs[d][p].fls[k]]
         /\ DOMAIN rs[d][p].fls = {KeyOf(r) : r \in In(<<d, p>>)}

Flowers ==
  /\ \A r \in linked :
       /\ Flower(r) = [handle |-> Flower(r).handle, sources |-> <<Source(r)>>]
       /\ Flower(r).handle \in Nat
       /\ Flower(r).handle < rs[VrDir[r]][VrPrio[r]].next
  /\ \A q, r \in linked : VrDir[q] = VrDir[r] /\ Handle(q) = Handle(r) => q = r

\* The filters of an interface are the flower rules.
Filters ==
  /\ \A d \in Dirs :
       /\ filters[d] = [h \in DOMAIN filters[d] |-> filters[d][h]]
       /\ DOMAIN filters[d] = {Handle(r) : r \in {q \in linked : VrDir[q] = d}}
  /\ \A r \in linked :
       filters[VrDir[r]][Handle(r)] = [key |-> KeyOf(r), acts |-> <<Source(r)>>]

Books == Apart /\ Counts /\ Rulesets /\ Flowers /\ Filters

\* An abort happens within a commit, and before the virt is freed.
Ended == pc # "idle" /\ ret = "NONE" /\ virt # "none"

Harmless == MayRenew \/ aborted = "refused"

IInv == IF aborted = "no" THEN States /\ Books ELSE Ended /\ Harmless

bookVars == <<subprio, linked, count, mask, rs, filters>>

(***************************************************************************)
(* The invariant holds initially, and implies the properties.              *)
(***************************************************************************)

\* A new virt has no rules, no filters and empty counts.
LEMMA InitIInv == Init => IInv
<1> SUFFICES ASSUME Init PROVE IInv
  OBVIOUS
<1> USE DEF Init, VrInit
<1>1. Listed = {} /\ linked = {} /\ \A x : In(x) = {}
  BY DEF Listed, In
<1>2. TypeInv
  BY <1>1, FS_EmptySet DEF TypeInv, NoRules
<1>3. Phases /\ Links /\ Kept
  BY <1>1 DEF Phases, Links, Kept
<1>4. Counts
  BY <1>1, FS_EmptySet DEF Counts
<1>5. Apart /\ Flowers
  BY <1>1 DEF Apart, Flowers
<1>6. Rulesets /\ Filters
  BY <1>1 DEF Rulesets, Filters, NoRules
<1> QED
  BY <1>2, <1>3, <1>4, <1>5, <1>6 DEF IInv, States, Books

\* The slot of a rule is its direction and its priority.
LEMMA SlotIs ==
  ASSUME NEW r \in Vrs
  PROVE  /\ VrDir[r] \in Dirs /\ VrPrio[r] \in Prios /\ KeyOf(r) \in Keys
         /\ Slot(r) \in Slots /\ Slot(r) = <<VrDir[r], VrPrio[r]>>
         /\ Slot(r)[1] = VrDir[r] /\ Slot(r)[2] = VrPrio[r]
BY VirtRulesAssumption DEF Slot, Slots, KeyOf, Keys

\* A ruleset has the priorities and the keys of the linked rules.
LEMMA RulesetIs ==
  ASSUME Rulesets, NEW d \in Dirs, NEW p \in Prios
  PROVE  /\ p \in DOMAIN rs[d] <=> In(<<d, p>>) # {}
         /\ p \in DOMAIN rs[d] => \A k : k \in DOMAIN rs[d][p].fls <=>
                                           \E r \in In(<<d, p>>) : k = KeyOf(r)
<1>1. DOMAIN rs[d] = {q \in Prios : In(<<d, q>>) # {}}
  BY DEF Rulesets
<1>2. ASSUME p \in DOMAIN rs[d]
      PROVE  DOMAIN rs[d][p].fls = {KeyOf(r) : r \in In(<<d, p>>)}
  BY <1>2 DEF Rulesets
<1> QED
  BY <1>1, <1>2

\* Every linked rule has its flower rule and its filter.
LEMMA LinkedInstalled ==
  ASSUME States, Books, NEW r \in linked
  PROVE  /\ VrPrio[r] \in DOMAIN rs[VrDir[r]]
         /\ KeyOf(r) \in DOMAIN rs[VrDir[r]][VrPrio[r]].fls
         /\ Handle(r) \in DOMAIN filters[VrDir[r]]
         /\ Flower(r).sources = <<Source(r)>>
         /\ filters[VrDir[r]][Handle(r)].acts = <<Source(r)>>
         /\ filters[VrDir[r]][Handle(r)].key = KeyOf(r)
<1>1. r \in Vrs /\ r \in In(<<VrDir[r], VrPrio[r]>>) /\ VrDir[r] \in Dirs /\ VrPrio[r] \in Prios
  BY SlotIs DEF States, TypeInv, In
<1>2. VrPrio[r] \in DOMAIN rs[VrDir[r]] /\ KeyOf(r) \in DOMAIN rs[VrDir[r]][VrPrio[r]].fls
  BY <1>1, RulesetIs DEF Books
<1>3. Handle(r) \in DOMAIN filters[VrDir[r]]
  BY <1>1 DEF Books, Filters
<1>4. Flower(r).sources = <<Source(r)>>
  BY DEF Books, Flowers
<1>5. filters[VrDir[r]][Handle(r)] = [key |-> KeyOf(r), acts |-> <<Source(r)>>]
  BY DEF Books, Filters
<1> QED
  BY <1>2, <1>3, <1>4, <1>5

\* The rules the kernel applies are the linked ones.
LEMMA AppliedIs ==
  ASSUME States, Books
  PROVE  Applied = {<<VrDir[r], VrPrio[r], KeyOf(r), r>> : r \in linked}
<1>1. ASSUME NEW r \in linked PROVE <<VrDir[r], VrPrio[r], KeyOf(r), r>> \in Applied
  <2> DEFINE d == VrDir[r]
             h == Handle(r)
  <2>1. d \in Dirs /\ h \in DOMAIN filters[d] /\ h[1] = VrPrio[r]
    BY LinkedInstalled, SlotIs DEF States, TypeInv, Handle
  <2>2. filters[d][h].key = KeyOf(r) /\ filters[d][h].acts = <<Source(r)>>
    BY LinkedInstalled
  <2>3. Source(r) \in ToSet(filters[d][h].acts) /\ Source(r).id = r
    BY <2>2 DEF ToSet, Source
  <2> HIDE DEF d, h
  <2>4. <<d, h[1], filters[d][h].key, Source(r).id>> \in Applied
    BY <2>1, <2>3 DEF Applied
  <2> QED
    BY <2>1, <2>2, <2>3, <2>4 DEF d
<1>2. ASSUME NEW a \in Applied PROVE a \in {<<VrDir[r], VrPrio[r], KeyOf(r), r>> : r \in linked}
  <2>0. PICK d \in Dirs :
          a \in UNION {{<<d, h[1], filters[d][h].key, s.id>> : s \in ToSet(filters[d][h].acts)} :
                         h \in DOMAIN filters[d]}
    BY DEF Applied
  <2>1. PICK h \in DOMAIN filters[d] :
          a \in {<<d, h[1], filters[d][h].key, s.id>> : s \in ToSet(filters[d][h].acts)}
    BY <2>0
  <2>2. PICK r \in linked : VrDir[r] = d /\ h = Handle(r)
    BY <2>1 DEF Books, Filters
  <2>3. filters[d][h].key = KeyOf(r) /\ filters[d][h].acts = <<Source(r)>> /\ h[1] = VrPrio[r]
    BY <2>2, LinkedInstalled DEF Handle
  <2>4. ToSet(filters[d][h].acts) = {Source(r)} /\ Source(r).id = r
    BY <2>3 DEF ToSet, Source
  <2> QED
    BY <2>1, <2>2, <2>3, <2>4
<1> QED
  BY <1>1, <1>2

\* The flower rules of a direction belong to its linked rules.
LEMMA FlowersAre ==
  ASSUME States, Books, NEW d \in Dirs
  PROVE  FlowersOf(d) = {<<VrPrio[r], KeyOf(r)>> : r \in {q \in linked : VrDir[q] = d}}
<1>1. ASSUME NEW r \in linked, VrDir[r] = d PROVE <<VrPrio[r], KeyOf(r)>> \in FlowersOf(d)
  BY <1>1, LinkedInstalled, SlotIs DEF FlowersOf, Keys, States, TypeInv
<1>2. ASSUME NEW f \in FlowersOf(d)
      PROVE  f \in {<<VrPrio[r], KeyOf(r)>> : r \in {q \in linked : VrDir[q] = d}}
  <2>1. PICK p \in Prios, k \in Keys :
          f = <<p, k>> /\ p \in DOMAIN rs[d] /\ k \in DOMAIN rs[d][p].fls
    BY DEF FlowersOf, Keys
  <2>2. PICK r \in In(<<d, p>>) : k = KeyOf(r)
    BY <2>1, RulesetIs DEF Books
  <2>3. r \in linked /\ VrDir[r] = d /\ VrPrio[r] = p
    BY <2>2, SlotIs DEF In, States, TypeInv
  <2> QED
    BY <2>1, <2>2, <2>3
<1> QED
  BY <1>1, <1>2

\* The three records of what is installed agree.
LEMMA BooksAgree == IInv => RulesetsMatchFilters
<1> SUFFICES ASSUME IInv, aborted = "no" PROVE RulesetsMatchFilters
  BY DEF RulesetsMatchFilters
<1> USE DEF IInv
<1>1. ASSUME NEW x \in Slots
      PROVE  /\ count[x] = Cardinality({r \in linked : Slot(r) = x})
             /\ x[2] \in DOMAIN rs[x[1]] <=> count[x] > 0
  <2>1. count[x] = Cardinality(In(x))
    BY DEF Books, Counts
  <2>2. IsFiniteSet(In(x))
    BY FS_Subset DEF States, TypeInv, In
  <2>3. In(x) # {} <=> count[x] > 0
    BY <2>1, <2>2, FS_EmptySet, FS_CardinalityType
  <2>4. x = <<x[1], x[2]>> /\ x[1] \in Dirs /\ x[2] \in Prios
    BY DEF Slots
  <2>5. x[2] \in DOMAIN rs[x[1]] <=> In(x) # {}
    BY <2>4, RulesetIs DEF Books
  <2> QED
    BY <2>1, <2>3, <2>5 DEF In
<1>2. linked = UNION {UNION {{s.id : s \in ToSet(rs[d][f[1]].fls[f[2]].sources)} :
                               f \in FlowersOf(d)} : d \in Dirs}
  <2> DEFINE Ids(d, f) == {s.id : s \in ToSet(rs[d][f[1]].fls[f[2]].sources)}
  <2>1. ASSUME NEW r \in linked PROVE Ids(VrDir[r], <<VrPrio[r], KeyOf(r)>>) = {r}
    <3>1. rs[VrDir[r]][VrPrio[r]].fls[KeyOf(r)].sources = <<Source(r)>>
      BY LinkedInstalled DEF Flower
    <3>2. ToSet(<<Source(r)>>) = {Source(r)} /\ Source(r).id = r
      BY DEF ToSet, Source
    <3> QED
      BY <3>1, <3>2
  <2> HIDE DEF Ids
  <2>2. ASSUME NEW r \in linked PROVE \E d \in Dirs : \E f \in FlowersOf(d) : r \in Ids(d, f)
    <3>1. VrDir[r] \in Dirs /\ <<VrPrio[r], KeyOf(r)>> \in FlowersOf(VrDir[r])
      BY FlowersAre, SlotIs DEF States, TypeInv
    <3>2. r \in Ids(VrDir[r], <<VrPrio[r], KeyOf(r)>>)
      BY <2>1
    <3> QED
      BY <3>1, <3>2
  <2>3. ASSUME NEW d \in Dirs, NEW f \in FlowersOf(d), NEW r \in Ids(d, f) PROVE r \in linked
    BY <2>1, FlowersAre
  <2>4. linked = UNION {UNION {Ids(d, f) : f \in FlowersOf(d)} : d \in Dirs}
    BY <2>2, <2>3
  <2> QED
    BY <2>4 DEF Ids
<1>3. ASSUME NEW d \in Dirs
      PROVE  {<<h, filters[d][h]>> : h \in DOMAIN filters[d]} =
             {<<<<f[1], rs[d][f[1]].fls[f[2]].handle>>,
                [key |-> f[2], acts |-> rs[d][f[1]].fls[f[2]].sources]>> : f \in FlowersOf(d)}
  <2> DEFINE L == {q \in linked : VrDir[q] = d}
             Entry(f) == <<<<f[1], rs[d][f[1]].fls[f[2]].handle>>,
                           [key |-> f[2], acts |-> rs[d][f[1]].fls[f[2]].sources]>>
  <2>1. ASSUME NEW r \in L
        PROVE  <<Handle(r), filters[d][Handle(r)]>> = Entry(<<VrPrio[r], KeyOf(r)>>)
    <3>1. filters[d][Handle(r)] = [key |-> KeyOf(r), acts |-> <<Source(r)>>]
      BY DEF Books, Filters
    <3>2. Flower(r).sources = <<Source(r)>> /\ Flower(r) = rs[d][VrPrio[r]].fls[KeyOf(r)]
      BY LinkedInstalled DEF Flower
    <3> QED
      BY <3>1, <3>2 DEF Handle
  <2>2. DOMAIN filters[d] = {Handle(r) : r \in L}
    BY DEF Books, Filters
  <2>3. FlowersOf(d) = {<<VrPrio[r], KeyOf(r)>> : r \in L}
    BY FlowersAre
  <2> HIDE DEF L, Entry
  <2> DEFINE Installed(h) == <<h, filters[d][h]>>
  <2>4. \A r \in L : Installed(Handle(r)) = Entry(<<VrPrio[r], KeyOf(r)>>)
    BY <2>1
  <2> HIDE DEF Installed
  <2>5. {Installed(h) : h \in DOMAIN filters[d]} = {Entry(f) : f \in FlowersOf(d)}
    <3>1. ASSUME NEW h \in DOMAIN filters[d] PROVE \E f \in FlowersOf(d) : Installed(h) = Entry(f)
      BY <2>2, <2>3, <2>4
    <3>2. ASSUME NEW f \in FlowersOf(d) PROVE \E h \in DOMAIN filters[d] : Installed(h) = Entry(f)
      BY <2>2, <2>3, <2>4
    <3> QED
      BY <3>1, <3>2
  <2> QED
    BY <2>5 DEF Entry, Installed
<1> QED
  BY <1>1, <1>2, <1>3 DEF RulesetsMatchFilters

\* A live rule that is not new is linked, and so applied.
LEMMA LiveApplied == IInv => RulesInEffect
<1> SUFFICES ASSUME IInv, ret = "OK", committed, NEW r \in Vrs, Live(vr[r])
             PROVE  <<VrDir[r], VrPrio[r], KeyOf(r), r>> \in Applied
  BY DEF RulesInEffect
<1>1. States /\ Books
  BY DEF IInv, Ended
<1>2. r \in linked
  BY <1>1 DEF States, TypeInv, Phases, Links, Listed, Live
<1> QED
  BY <1>1, <1>2, AppliedIs

\* A virt that is gone has no linked rules.
LEMMA GoneIsClean == IInv => VirtTakesItsRules
<1> SUFFICES ASSUME IInv, virt = "none" PROVE Applied = {} /\ linked = {}
  BY DEF VirtTakesItsRules
<1>1. States /\ Books
  BY DEF IInv, Ended
<1>2. linked = {}
  BY <1>1 DEF States, TypeInv, Links, Listed
<1> QED
  BY <1>1, <1>2, AppliedIs

(***************************************************************************)
(* Steps that leave rulesets and filters alone.                            *)
(***************************************************************************)

\* The books depend on nothing but what they are made of.
LEMMA BooksKept == Books /\ UNCHANGED bookVars => Books'
<1> SUFFICES ASSUME Books, UNCHANGED bookVars PROVE Books'
  OBVIOUS
<1>0. subprio' = subprio /\ linked' = linked /\ count' = count /\ mask' = mask /\ rs' = rs
      /\ filters' = filters
  BY DEF bookVars
<1>1. Apart' /\ Counts'
  BY <1>0 DEF Books, Apart, Counts, In
<1>2. Rulesets'
  BY <1>0 DEF Books, Rulesets, In
<1>3. \A r : Source(r)' = Source(r) /\ Flower(r)' = Flower(r) /\ Handle(r)' = Handle(r)
  BY <1>0 DEF Flower, Handle, Source
<1>4. Flowers'
  BY <1>0, <1>3 DEF Books, Flowers
<1>5. Filters'
  BY <1>0, <1>3 DEF Books, Filters
<1> QED
  BY <1>1, <1>2, <1>4, <1>5 DEF Books

\* lsdn_virt_new: the last virt took its rules along.
LEMMA VirtNewStep == IInv /\ VirtNew => IInv'
<1> SUFFICES ASSUME IInv, VirtNew PROVE IInv'
  OBVIOUS
<1> USE DEF VirtNew, Editing, ruleVars
<1>0. aborted = "no" /\ aborted' = "no" /\ States /\ Books
  BY DEF IInv
<1>1. Books'
  BY <1>0, BooksKept DEF bookVars
<1>2. linked = {} /\ Listed = {} /\ Listed' = Listed
  BY <1>0 DEF States, TypeInv, Links, Listed
<1>3. TypeInv' /\ Phases'
  BY <1>0, <1>2 DEF States, TypeInv, Phases
<1>4. Links' /\ (MayRenew \/ Kept)'
  BY <1>0, <1>2 DEF States, TypeInv, Links, Kept, Listed
<1> QED
  BY <1>0, <1>1, <1>3, <1>4 DEF IInv, States

\* lsdn_vr_new: the rule is not in the kernel yet.
LEMMA VrNewStep ==
  ASSUME IInv, NEW r \in Vrs, VrNew(r)
  PROVE  IInv'
<1> USE DEF VrNew, Editing, virtVars
<1>0. aborted = "no" /\ aborted' = "no" /\ States /\ Books
  BY DEF IInv
<1>1. Books'
  BY <1>0, BooksKept DEF bookVars
<1>2. /\ vr[r] = "none" /\ virt \notin {"none", "DELETE"} /\ r \notin linked
      /\ vr' = [vr EXCEPT ![r] = "NEW"] /\ vr'[r] = "NEW"
      /\ \A q \in Vrs : q # r => vr'[q] = vr[q]
  BY <1>0 DEF States, TypeInv, Links, Live
<1>3. TypeInv' /\ Phases'
  BY <1>0, <1>2 DEF States, TypeInv, Phases, Listed
<1>4. Links' /\ (MayRenew \/ Kept)'
  BY <1>0, <1>2 DEF States, TypeInv, Links, Kept
<1> QED
  BY <1>0, <1>1, <1>3, <1>4 DEF IInv, States

\* lsdn_vr_free: a rule with a filter waits for the commit.
LEMMA VrFreeStep ==
  ASSUME IInv, NEW r \in Vrs, VrFree(r)
  PROVE  IInv'
<1> USE DEF VrFree, Editing, virtVars
<1>0. aborted = "no" /\ aborted' = "no" /\ States /\ Books
  BY DEF IInv
<1>1. Books'
  BY <1>0, BooksKept DEF bookVars
<1>2. /\ virt \notin {"none", "DELETE"} /\ vr[r] \in {"NEW", "OK"}
      /\ vr'[r] = (IF vr[r] = "NEW" THEN "none" ELSE "DELETE")
      /\ vr' = [vr EXCEPT ![r] = IF vr[r] = "NEW" THEN "none" ELSE "DELETE"]
      /\ \A q \in Vrs : q # r => vr'[q] = vr[q]
  BY <1>0 DEF States, TypeInv, Live, FreeHelper
<1>3. TypeInv' /\ Phases'
  BY <1>0, <1>2 DEF States, TypeInv, Phases, Listed
<1>4. Links' /\ (MayRenew \/ Kept)'
  BY <1>0, <1>2 DEF States, TypeInv, Links, Kept
<1> QED
  BY <1>0, <1>1, <1>3, <1>4 DEF IInv, States

\* An edit of the virt: renewed with linked rules only if the client may.
LEMMA VirtEditStep ==
  ASSUME IInv, NEW c \in BOOLEAN, VirtEdit(c)
  PROVE  IInv'
<1> USE DEF VirtEdit, Editing, ruleVars
<1>0. aborted = "no" /\ aborted' = "no" /\ States /\ Books
  BY DEF IInv
<1>1. Books'
  BY <1>0, BooksKept DEF bookVars
<1>2. /\ virt \in {"NEW", "OK", "RENEW"} /\ virt' \in {"NEW", "RENEW"}
      /\ (virt' = "NEW") = (virt = "NEW") /\ (MayRenew \/ linked = {})
  BY <1>0 DEF States, TypeInv, Live, Renew, Renewable
<1>3. TypeInv' /\ Phases'
  BY <1>0, <1>2 DEF States, TypeInv, Phases, Listed
<1>4. Links' /\ (MayRenew \/ Kept)'
  BY <1>0, <1>2 DEF States, TypeInv, Links, Kept, Listed
<1> QED
  BY <1>0, <1>1, <1>3, <1>4 DEF IInv, States

\* lsdn_virt_free: a virt that was committed takes its rules into the commit.
LEMMA VirtFreeStep == IInv /\ VirtFree => IInv'
<1> SUFFICES ASSUME IInv, VirtFree PROVE IInv'
  OBVIOUS
<1> USE DEF VirtFree, Editing
<1>0. aborted = "no" /\ aborted' = "no" /\ States /\ Books
  BY DEF IInv
<1>1. Books'
  BY <1>0, BooksKept DEF bookVars
<1>2. CASE virt = "NEW"
  <2>1. linked = {} /\ virt' = "none" /\ vr' = [r \in Vrs |-> "none"]
    BY <1>0, <1>2 DEF States, Links, FreeHelper
  <2>2. Listed' = {}
    BY <2>1 DEF Listed
  <2>3. TypeInv' /\ Phases'
    BY <1>0, <2>1, <2>2 DEF States, TypeInv, Phases
  <2>4. Links' /\ (MayRenew \/ Kept)'
    BY <1>0, <2>1, <2>2 DEF States, TypeInv, Links, Kept
  <2> QED
    BY <1>0, <1>1, <2>3, <2>4 DEF IInv, States
<1>3. CASE virt # "NEW"
  <2>1. /\ virt \in {"OK", "RENEW"} /\ virt' = "DELETE"
        /\ vr' = [r \in Vrs |-> IF vr[r] \in {"none", "NEW"} THEN "none" ELSE "DELETE"]
    BY <1>0, <1>3 DEF States, TypeInv, Live, FreeHelper
  <2>2. TypeInv' /\ Phases'
    BY <1>0, <2>1 DEF States, TypeInv, Phases, Listed
  <2>3. Links' /\ (MayRenew \/ Kept)'
    BY <1>0, <2>1 DEF States, TypeInv, Links, Kept
  <2> QED
    BY <1>0, <1>1, <2>2, <2>3 DEF IInv, States
<1> QED
  BY <1>2, <1>3

\* A description that is not valid changes nothing but the result.
LEMMA ValidateFailsStep == IInv /\ ValidateFails => IInv'
<1> SUFFICES ASSUME IInv, ValidateFails PROVE IInv'
  OBVIOUS
<1> USE DEF ValidateFails, virtVars, ruleVars
<1>0. aborted = "no" /\ aborted' = "no" /\ States /\ Books
  BY DEF IInv
<1>1. Books'
  BY <1>0, BooksKept DEF bookVars
<1>2. TypeInv' /\ Phases'
  BY <1>0 DEF States, TypeInv, Phases, Listed
<1>3. Links' /\ (MayRenew \/ Kept)'
  BY <1>0 DEF States, Links, Kept, Listed
<1> QED
  BY <1>0, <1>1, <1>2, <1>3 DEF IInv, States

\* The rules stay valid as long as the same ones are there.
LEMMA ValidKept == RulesValid /\ Listed' \subseteq Listed => RulesValid'
BY DEF RulesValid, KeyOf, Slot

\* The commit begins with rules that are valid.
LEMMA CommitBeginStep == IInv /\ CommitBegin => IInv'
<1> SUFFICES ASSUME IInv, CommitBegin PROVE IInv'
  OBVIOUS
<1> USE DEF CommitBegin, ruleVars
<1>0. aborted = "no" /\ aborted' = "no" /\ States /\ Books /\ Listed' = Listed
  BY DEF IInv, Listed
<1>1. Books'
  BY <1>0, BooksKept DEF bookVars
<1>2. RulesValid'
  BY <1>0, ValidKept
<1>3. CASE NeedsDecommit(virt)
  <2>1. /\ virt \in {"RENEW", "DELETE"} /\ virt' = (IF virt = "RENEW" THEN "NEW" ELSE "DELETE")
        /\ pc' = "decommit" /\ todo' = Listed
    BY <1>3 DEF NeedsDecommit, AckDecommit
  <2>2. TypeInv' /\ Phases'
    BY <1>0, <1>2, <2>1 DEF States, TypeInv, Phases
  <2>3. Links' /\ (MayRenew \/ Kept)'
    BY <1>0, <2>1 DEF States, TypeInv, Links, Kept, Listed
  <2> QED
    BY <1>0, <1>1, <2>2, <2>3 DEF IInv, States
<1>4. CASE ~NeedsDecommit(virt)
  <2>1. virt \in {"NEW", "OK"} /\ virt' = virt /\ pc' = "recommit" /\ todo' = {}
    BY <1>0, <1>4 DEF NeedsDecommit, AckDecommit, States, TypeInv
  <2>2. TypeInv' /\ Phases'
    BY <1>0, <1>2, <2>1 DEF States, TypeInv, Phases
  <2>3. Links' /\ (MayRenew \/ Kept)'
    BY <1>0, <2>1 DEF States, TypeInv, Links, Kept, Listed
  <2> QED
    BY <1>0, <1>1, <2>2, <2>3 DEF IInv, States
<1> QED
  BY <1>3, <1>4

\* add_virt: the loop over the rules begins with all of them.
LEMMA CommitVirtStep == IInv /\ CommitVirt => IInv'
<1> SUFFICES ASSUME IInv, CommitVirt PROVE IInv'
  OBVIOUS
<1> USE DEF CommitVirt, Running, ruleVars
<1>0. aborted = "no" /\ aborted' = "no" /\ States /\ Books /\ Listed' = Listed
  BY DEF IInv, Listed
<1>1. Books'
  BY <1>0, BooksKept DEF bookVars
<1>2. /\ virt \in {"none", "NEW", "OK"} /\ committed' = (virt # "none" /\ connected)
      /\ todo' = IF committed' THEN Listed ELSE {}
  BY <1>0 DEF States, Phases, StateOk
<1>3. RulesValid'
  BY <1>0, ValidKept DEF States, Phases
<1>4. TypeInv' /\ Phases'
  BY <1>0, <1>2, <1>3 DEF States, TypeInv, Phases
<1>5. Links' /\ (MayRenew \/ Kept)'
  BY <1>0, <1>2 DEF States, TypeInv, Links, Kept, Listed
<1> QED
  BY <1>0, <1>1, <1>4, <1>5 DEF IInv, States

\* The end of the commit: all rules of a committed virt have been seen.
LEMMA CommitEndStep == IInv /\ CommitEnd => IInv'
<1> SUFFICES ASSUME IInv, CommitEnd PROVE IInv'
  OBVIOUS
<1> USE DEF CommitEnd, Running, ruleVars
<1>0. aborted = "no" /\ aborted' = "no" /\ States /\ Books /\ Listed' = Listed
  BY DEF IInv, Listed
<1>1. Books'
  BY <1>0, BooksKept DEF bookVars
<1>2. virt \in {"none", "NEW", "OK"} /\ virt' = IF virt = "none" THEN "none" ELSE "OK"
  BY <1>0 DEF States, Phases, AckState
<1>3. TypeInv' /\ Phases'
  BY <1>0, <1>2 DEF States, TypeInv, Phases
<1>4. Links' /\ (MayRenew \/ Kept)'
  BY <1>0, <1>2 DEF States, TypeInv, Links, Kept, Listed
<1> QED
  BY <1>0, <1>1, <1>3, <1>4 DEF IInv, States

(***************************************************************************)
(* The removal of rules.                                                   *)
(***************************************************************************)

\* The rulesets are empty when no rule is linked, and only then.
LEMMA EmptyMeansUnlinked ==
  ASSUME States, Books
  PROVE  (\A d \in Dirs : RulesetEmpty(rs[d])) <=> linked = {}
<1>1. ASSUME linked = {}, NEW d \in Dirs PROVE RulesetEmpty(rs[d])
  <2>1. DOMAIN rs[d] = {p \in Prios : In(<<d, p>>) # {}}
    BY DEF Books, Rulesets
  <2>2. DOMAIN rs[d] = {}
    BY <1>1, <2>1 DEF In
  <2> QED
    BY <2>2 DEF RulesetEmpty
<1>2. ASSUME \A d \in Dirs : RulesetEmpty(rs[d]), NEW r \in linked PROVE FALSE
  <2>1. VrDir[r] \in Dirs
    BY SlotIs DEF States, TypeInv
  <2>2. VrPrio[r] \in DOMAIN rs[VrDir[r]] /\ KeyOf(r) \in DOMAIN rs[VrDir[r]][VrPrio[r]].fls
    BY LinkedInstalled
  <2> QED
    BY <1>2, <2>1, <2>2 DEF RulesetEmpty, PrioEmpty
<1> QED
  BY <1>1, <1>2

\* remove_virt frees the rulesets, and a virt that is gone.
LEMMA RemoveVirtStep == IInv /\ RemoveVirt => IInv'
<1> SUFFICES ASSUME IInv, RemoveVirt PROVE IInv'
  OBVIOUS
<1> USE DEF RemoveVirt, Running
<1>0. aborted = "no" /\ States /\ Books
  BY DEF IInv
<1>1. virt \in {"NEW", "DELETE"} /\ (virt = "DELETE" \/ ~MayRenew => linked = {})
  BY <1>0 DEF States, Phases, Links, Kept
<1>2. (aborted' = "no") = (linked = {})
  BY <1>0, EmptyMeansUnlinked
<1>3. CASE linked # {}
  BY <1>0, <1>1, <1>2, <1>3 DEF IInv, Ended, Harmless, States, Phases
<1>4. CASE linked = {}
  <2>1. linked' = {} /\ \A x : In(x) = {} /\ In(x)' = {}
    BY <1>4 DEF In
  <2>2. Apart' /\ Flowers'
    BY <2>1 DEF Apart, Flowers
  <2>3. Counts'
    BY <1>0, <2>1 DEF Books, Counts
  <2>4. \A d \in Dirs : rs'[d] = NoRules
    OBVIOUS
  <2>5. Rulesets'
    BY <2>1, <2>4 DEF Rulesets, NoRules
  <2>6. Filters'
    BY <1>0, <1>4, <2>1 DEF Books, Filters
  <2>7. CASE virt = "DELETE"
    <3>1. virt' = "none" /\ vr' = [r \in Vrs |-> "none"]
      BY <2>7
    <3>2. Listed' = {} /\ RulesValid'
      BY <3>1 DEF Listed, RulesValid
    <3>3. TypeInv' /\ Phases'
      BY <1>0, <2>7, <3>1, <3>2 DEF States, TypeInv, Phases, NoRules
    <3>4. Links' /\ (MayRenew \/ Kept)'
      BY <2>1, <3>1, <3>2 DEF Links, Kept
    <3> QED
      BY <1>2, <1>4, <2>2, <2>3, <2>5, <2>6, <3>3, <3>4 DEF IInv, States, Books
  <2>8. CASE virt = "NEW"
    <3>1. virt' = "NEW" /\ vr' = vr
      BY <2>8
    <3>2. Listed' = Listed /\ RulesValid'
      BY <1>0, <3>1, ValidKept DEF Listed, States, Phases
    <3>3. TypeInv' /\ Phases'
      BY <1>0, <2>8, <3>1, <3>2 DEF States, TypeInv, Phases, NoRules
    <3>4. Links' /\ (MayRenew \/ Kept)'
      BY <1>0, <2>1, <2>8, <3>1, <3>2 DEF States, TypeInv, Links, Kept
    <3> QED
      BY <1>2, <1>4, <2>2, <2>3, <2>5, <2>6, <3>3, <3>4 DEF IInv, States, Books
  <2> QED
    BY <1>1, <2>7, <2>8
<1> QED
  BY <1>3, <1>4

\* lsdn_ruleset_remove: the rule was the only source of its flower rule.
LEMMA RemoveIs ==
  ASSUME States, Books, NEW r \in linked
  PROVE  LET out == RulesetRemove(rs[VrDir[r]], filters[VrDir[r]], VrPrio[r], RuleOf(r), TRUE) IN
         /\ out.rs = [rs[VrDir[r]] EXCEPT ![VrPrio[r]] =
                        [next |-> @.next, fls |-> Undefine(@.fls, KeyOf(r))]]
         /\ out.filters = Undefine(filters[VrDir[r]], Handle(r))
<1> DEFINE d == VrDir[r]
           p == VrPrio[r]
           k == KeyOf(r)
           s == Source(r)
           fl == [rs[d][p].fls[k] EXCEPT
                    !.sources = RemoveAt(@, CHOOSE i \in DOMAIN @ : @[i] = s)]
<1>1. RuleOf(r) = s
  BY DEF RuleOf, Source, KeyOf, Books, Apart
<1>2. s.key = k
  BY DEF Source
<1>3. Flower(r) = [handle |-> Flower(r).handle, sources |-> <<s>>] /\ Flower(r) = rs[d][p].fls[k]
  BY DEF Books, Flowers, Flower
<1>4. RemoveAt(<<s>>, CHOOSE i \in DOMAIN <<s>> : <<s>>[i] = s) = <<>>
  <2>1. (CHOOSE i \in DOMAIN <<s>> : <<s>>[i] = s) = 1
    OBVIOUS
  <2>2. RemoveAt(<<s>>, 1) = <<>>
    BY DEF RemoveAt
  <2> QED
    BY <2>1, <2>2
<1>5. fl.sources = <<>> /\ fl.handle = Flower(r).handle
  <2> DEFINE Cut(q) == RemoveAt(q, CHOOSE i \in DOMAIN q : q[i] = s)
             h == Flower(r).handle
  <2>1. fl = [rs[d][p].fls[k] EXCEPT !.sources = Cut(@)]
    OBVIOUS
  <2>2. Cut(<<s>>) = <<>>
    BY <1>4
  <2> HIDE DEF Cut, h, fl
  <2>3. rs[d][p].fls[k] = [handle |-> h, sources |-> <<s>>]
    BY <1>3 DEF h
  <2>4. fl = [handle |-> h, sources |-> Cut(<<s>>)]
    BY <2>1, <2>3
  <2> QED
    BY <2>2, <2>4 DEF h
<1>6. p \in DOMAIN rs[d] /\ rs[d][p] = [next |-> rs[d][p].next, fls |-> rs[d][p].fls]
      /\ rs[d] = [q \in DOMAIN rs[d] |-> rs[d][q]]
  BY LinkedInstalled, SlotIs, ZenonT(40) DEF Books, Rulesets, States, TypeInv
<1>7. [rs[d] EXCEPT ![p].fls = Undefine(@, k)] =
      [rs[d] EXCEPT ![p] = [next |-> @.next, fls |-> Undefine(@.fls, k)]]
  BY <1>6
<1> HIDE DEF s, k
<1>8. RulesetRemove(rs[d], filters[d], p, s, TRUE) =
        [rs |-> [rs[d] EXCEPT ![p].fls = Undefine(@, k)],
         filters |-> Undefine(filters[d], <<p, fl.handle>>), err |-> "OK"]
  BY <1>2, <1>5 DEF RulesetRemove
<1>9. <<p, fl.handle>> = Handle(r)
  BY <1>5 DEF Handle
<1> HIDE DEF fl
<1> DEFINE left == [rs[d] EXCEPT ![p].fls = Undefine(@, k)]
           out == RulesetRemove(rs[d], filters[d], p, RuleOf(r), TRUE)
<1>10. out = [rs |-> left, filters |-> Undefine(filters[d], Handle(r)), err |-> "OK"]
  BY <1>1, <1>8, <1>9
<1> HIDE DEF left, out
<1>11. out.rs = left /\ out.filters = Undefine(filters[d], Handle(r))
  BY <1>10
<1> QED
  BY <1>7, <1>11 DEF k, left, out

\* What decommit_vr does to a linked rule: it leaves the ruleset, its filter is
\* removed, and the last rule of a priority takes the priority along.
LEMMA UnlinkIs ==
  ASSUME States, Books, NEW r \in linked, DecommitVr(r)
  PROVE  LET d == VrDir[r]
             p == VrPrio[r]
             last == In(Slot(r)) = {r}
         IN /\ aborted' = "no" /\ linked' = linked \ {r} /\ IsFiniteSet(linked')
            /\ count' = [x \in Slots |-> Cardinality(In(x)')]
            /\ filters' = [filters EXCEPT ![d] = Undefine(filters[d], Handle(r))]
            /\ rs' = [e \in Dirs |-> rs'[e]] /\ \A e \in Dirs \ {d} : rs'[e] = rs[e]
            /\ rs'[d] = [q \in DOMAIN rs'[d] |-> rs'[d][q]]
            /\ DOMAIN rs'[d] = IF last THEN DOMAIN rs[d] \ {p} ELSE DOMAIN rs[d]
            /\ \A q \in DOMAIN rs'[d] \ {p} : rs'[d][q] = rs[d][q]
            /\ ~last => rs'[d][p] = [next |-> rs[d][p].next,
                                     fls |-> Undefine(rs[d][p].fls, KeyOf(r))]
<1> DEFINE d == VrDir[r]
           p == VrPrio[r]
           x == Slot(r)
           last == In(x) = {r}
           R == [rs[d] EXCEPT ![p] = [next |-> @.next, fls |-> Undefine(@.fls, KeyOf(r))]]
           out == RulesetRemove(rs[d], filters[d], p, RuleOf(r), TRUE)
<1>1. /\ r \in Vrs /\ d \in Dirs /\ p \in Prios /\ x \in Slots /\ x = <<d, p>>
      /\ rs = [e \in Dirs |-> rs[e]] /\ linked \subseteq Vrs /\ IsFiniteSet(linked)
  BY SlotIs DEF States, TypeInv
<1>2. out.rs = R /\ out.filters = Undefine(filters[d], Handle(r))
  BY RemoveIs
<1>3. /\ linked' = linked \ {r}
      /\ filters' = [filters EXCEPT ![d] = out.filters]
      /\ count' = [count EXCEPT ![x] = @ - 1]
      /\ rs' = [rs EXCEPT ![d] = IF LastOf(x) THEN Undefine(out.rs, p) ELSE out.rs]
      /\ aborted' = IF LastOf(x) /\ ~PrioEmpty(out.rs, p) THEN "remove_prio" ELSE "no"
  BY DEF DecommitVr
<1> HIDE DEF out
<1>4. IsFiniteSet(linked') /\ \A y : IsFiniteSet(In(y))
  BY <1>1, <1>3, FS_Subset DEF In
<1>5. r \in In(x) /\ In(x)' = In(x) \ {r} /\ \A y : y # x => In(y)' = In(y)
  BY <1>1, <1>3 DEF In
<1>6. Cardinality(In(x)') = Cardinality(In(x)) - 1
  BY <1>4, <1>5, FS_RemoveElement
<1>7. count' = [y \in Slots |-> Cardinality(In(y)')]
  <2>1. count = [y \in Slots |-> Cardinality(In(y))]
    BY DEF Books, Counts
  <2>2. \A y \in Slots : count'[y] = Cardinality(In(y)')
    BY <1>1, <1>3, <1>5, <1>6, <2>1
  <2>3. count' = [y \in Slots |-> count'[y]]
    BY <1>3, <2>1
  <2> QED
    BY <2>2, <2>3
<1>8. LastOf(x) <=> last
  <2>1. count[x] = Cardinality(In(x))
    BY <1>1 DEF Books, Counts
  <2>2. last => Cardinality(In(x)) = 1
    BY FS_Singleton
  <2>3. Cardinality(In(x)) = 1 => Cardinality(In(x) \ {r}) = 0
    BY <1>5, <1>6
  <2>4. Cardinality(In(x) \ {r}) = 0 => In(x) \ {r} = {}
    BY <1>4, FS_Subset, FS_EmptySet
  <2> QED
    BY <1>5, <2>1, <2>2, <2>3, <2>4 DEF LastOf
<1>9. /\ p \in DOMAIN rs[d] /\ rs[d] = [q \in DOMAIN rs[d] |-> rs[d][q]]
      /\ DOMAIN rs[d][p].fls = {KeyOf(q) : q \in In(x)}
  <2>1. p \in DOMAIN rs[d]
    BY LinkedInstalled
  <2>2. DOMAIN rs[d][p].fls = {KeyOf(q) : q \in In(<<d, p>>)}
    BY <1>1, <2>1 DEF Books, Rulesets
  <2>3. rs[d] = [q \in DOMAIN rs[d] |-> rs[d][q]]
    BY <1>1 DEF Books, Rulesets
  <2> QED
    BY <1>1, <2>1, <2>2, <2>3
<1>10. last => PrioEmpty(R, p)
  <2>1. last => DOMAIN rs[d][p].fls \ {KeyOf(r)} = {}
    BY <1>9
  <2>2. R[p].fls = Undefine(rs[d][p].fls, KeyOf(r))
    BY <1>9
  <2> QED
    BY <2>1, <2>2 DEF PrioEmpty, Undefine, Restrict
<1>11. aborted' = "no"
  BY <1>2, <1>3, <1>8, <1>10
<1>12. /\ rs' = [e \in Dirs |-> rs'[e]] /\ \A e \in Dirs \ {d} : rs'[e] = rs[e]
       /\ rs'[d] = IF last THEN Undefine(R, p) ELSE R
  BY <1>1, <1>2, <1>3, <1>8
<1>13. /\ DOMAIN R = DOMAIN rs[d] /\ R = [q \in DOMAIN R |-> R[q]]
       /\ \A q \in DOMAIN R \ {p} : R[q] = rs[d][q]
       /\ R[p] = [next |-> rs[d][p].next, fls |-> Undefine(rs[d][p].fls, KeyOf(r))]
  BY <1>9
<1> HIDE DEF R
<1>14. Undefine(R, p) = [q \in DOMAIN R \ {p} |-> R[q]]
  BY DEF Undefine, Restrict
<1>15. rs'[d] = [q \in DOMAIN rs'[d] |-> rs'[d][q]]
  BY <1>12, <1>13, <1>14
<1>16. /\ DOMAIN rs'[d] = IF last THEN DOMAIN rs[d] \ {p} ELSE DOMAIN rs[d]
       /\ \A q \in DOMAIN rs'[d] \ {p} : rs'[d][q] = rs[d][q]
  BY <1>12, <1>13, <1>14
<1>17. ~last => rs'[d][p] = [next |-> rs[d][p].next, fls |-> Undefine(rs[d][p].fls, KeyOf(r))]
  BY <1>12, <1>13
<1> QED
  BY <1>2, <1>3, <1>4, <1>7, <1>11, <1>12, <1>15, <1>16, <1>17

\* The books after a linked rule was removed.
LEMMA UnlinkBooks ==
  ASSUME States, Books, NEW r \in linked, DecommitVr(r), UNCHANGED <<subprio, mask>>
  PROVE  Books' /\ rs' = [e \in Dirs |-> rs'[e]] /\ filters' = [e \in Dirs |-> filters'[e]]
<1> DEFINE d == VrDir[r]
           p == VrPrio[r]
           x == Slot(r)
           last == In(x) = {r}
<1>1. /\ r \in Vrs /\ d \in Dirs /\ p \in Prios /\ x = <<d, p>>
      /\ filters = [e \in Dirs |-> filters[e]] /\ linked \subseteq Vrs
  BY SlotIs DEF States, TypeInv
<1>2. /\ linked' = linked \ {r}
      /\ count' = [y \in Slots |-> Cardinality(In(y)')]
      /\ filters' = [filters EXCEPT ![d] = Undefine(filters[d], Handle(r))]
      /\ rs' = [e \in Dirs |-> rs'[e]] /\ \A e \in Dirs \ {d} : rs'[e] = rs[e]
      /\ rs'[d] = [q \in DOMAIN rs'[d] |-> rs'[d][q]]
      /\ DOMAIN rs'[d] = IF last THEN DOMAIN rs[d] \ {p} ELSE DOMAIN rs[d]
      /\ \A q \in DOMAIN rs'[d] \ {p} : rs'[d][q] = rs[d][q]
      /\ ~last => rs'[d][p] = [next |-> rs[d][p].next,
                               fls |-> Undefine(rs[d][p].fls, KeyOf(r))]
  BY UnlinkIs
<1>3. r \in In(x) /\ In(x)' = In(x) \ {r} /\ \A y : y # x => In(y)' = In(y)
  BY <1>1, <1>2 DEF In
<1>4. Apart' /\ Counts'
  BY <1>2 DEF Books, Apart, Counts
<1>5. \A f, k : DOMAIN Undefine(f, k) = DOMAIN f \ {k}
                /\ Undefine(f, k) = [z \in DOMAIN Undefine(f, k) |-> Undefine(f, k)[z]]
                /\ \A z \in DOMAIN f \ {k} : Undefine(f, k)[z] = f[z]
  BY DEF Undefine, Restrict
<1>6. ASSUME NEW q \in linked'
      PROVE  /\ Flower(q)' = Flower(q)
             /\ rs'[VrDir[q]][VrPrio[q]].next = rs[VrDir[q]][VrPrio[q]].next
  <2>1. /\ q \in linked /\ q # r /\ q \in Vrs
        /\ VrDir[q] \in Dirs /\ Slot(q) = <<VrDir[q], VrPrio[q]>>
    BY <1>1, <1>2, SlotIs
  <2>2. VrPrio[q] \in DOMAIN rs[VrDir[q]] /\ KeyOf(q) \in DOMAIN rs[VrDir[q]][VrPrio[q]].fls
    BY <2>1, LinkedInstalled
  <2>3. CASE VrDir[q] # d
    BY <1>2, <2>1, <2>3 DEF Flower
  <2>4. CASE VrDir[q] = d /\ VrPrio[q] # p
    BY <1>2, <2>2, <2>4 DEF Flower
  <2>5. CASE VrDir[q] = d /\ VrPrio[q] = p
    <3>1. Slot(q) = x /\ ~last
      BY <1>1, <2>1, <2>5 DEF In
    <3>2. KeyOf(q) # KeyOf(r)
      BY <2>1, <3>1 DEF Books, Apart
    <3>3. rs'[d][p] = [next |-> rs[d][p].next, fls |-> Undefine(rs[d][p].fls, KeyOf(r))]
      BY <1>2, <3>1
    <3>4. rs'[d][p].fls[KeyOf(q)] = rs[d][p].fls[KeyOf(q)] /\ rs'[d][p].next = rs[d][p].next
      BY <1>5, <2>2, <2>5, <3>2, <3>3
    <3> QED
      BY <2>5, <3>4 DEF Flower
  <2> QED
    BY <2>3, <2>4, <2>5
<1>7. \A q \in linked' : q \in linked /\ Handle(q)' = Handle(q) /\ Source(q)' = Source(q)
  BY <1>2, <1>6 DEF Handle, Source
<1>8. Flowers'
  <2>1. ASSUME NEW q \in linked'
        PROVE  /\ Flower(q)' = [handle |-> Flower(q)'.handle, sources |-> <<Source(q)'>>]
               /\ Flower(q)'.handle \in Nat
               /\ Flower(q)'.handle < rs'[VrDir[q]][VrPrio[q]].next
    BY <1>6, <1>7 DEF Books, Flowers
  <2>2. ASSUME NEW q \in linked', NEW t \in linked', VrDir[q] = VrDir[t], Handle(q)' = Handle(t)'
        PROVE  q = t
    BY <1>7, <2>2 DEF Books, Flowers
  <2> QED
    BY <2>1, <2>2 DEF Flowers
<1>9. Rulesets'
  <2> SUFFICES ASSUME NEW e \in Dirs
               PROVE  /\ rs'[e] = [q \in DOMAIN rs'[e] |-> rs'[e][q]]
                      /\ DOMAIN rs'[e] = {q \in Prios : In(<<e, q>>)' # {}}
                      /\ \A q \in DOMAIN rs'[e] :
                           /\ rs'[e][q] = [next |-> rs'[e][q].next, fls |-> rs'[e][q].fls]
                           /\ rs'[e][q].next \in Nat
                           /\ rs'[e][q].fls = [k \in DOMAIN rs'[e][q].fls |-> rs'[e][q].fls[k]]
                           /\ DOMAIN rs'[e][q].fls = {KeyOf(t) : t \in In(<<e, q>>)'}
    BY DEF Rulesets
  <2>0. /\ rs[e] = [q \in DOMAIN rs[e] |-> rs[e][q]]
        /\ DOMAIN rs[e] = {q \in Prios : In(<<e, q>>) # {}}
        /\ \A q \in DOMAIN rs[e] :
             /\ rs[e][q] = [next |-> rs[e][q].next, fls |-> rs[e][q].fls]
             /\ rs[e][q].next \in Nat
             /\ rs[e][q].fls = [k \in DOMAIN rs[e][q].fls |-> rs[e][q].fls[k]]
             /\ DOMAIN rs[e][q].fls = {KeyOf(t) : t \in In(<<e, q>>)}
    BY DEF Books, Rulesets
  <2>1. CASE e # d
    <3>1. rs'[e] = rs[e] /\ \A q : In(<<e, q>>)' = In(<<e, q>>)
      BY <1>1, <1>2, <1>3, <2>1
    <3> QED
      BY <2>0, <3>1
  <2>2. CASE e = d
    <3>1. \A q : q # p => In(<<d, q>>)' = In(<<d, q>>)
      BY <1>1, <1>3
    <3>2. DOMAIN rs'[d] = {q \in Prios : In(<<d, q>>)' # {}}
      <4>1. DOMAIN rs[d] = {q \in Prios : In(<<d, q>>) # {}}
        BY <2>0, <2>2
      <4>2. In(<<d, p>>) # {} /\ (last <=> In(<<d, p>>)' = {})
        BY <1>1, <1>3
      <4>3. DOMAIN rs'[d] = IF last THEN DOMAIN rs[d] \ {p} ELSE DOMAIN rs[d]
        BY <1>2
      <4> HIDE DEF last
      <4> QED
        BY <1>1, <3>1, <4>1, <4>2, <4>3
    <3>3. ASSUME NEW q \in DOMAIN rs'[d], q # p
          PROVE  rs'[d][q] = rs[d][q] /\ q \in DOMAIN rs[d] /\ In(<<d, q>>)' = In(<<d, q>>)
      BY <1>2, <3>1, <3>3
    <3>4. ASSUME p \in DOMAIN rs'[d]
          PROVE  /\ rs'[d][p] = [next |-> rs[d][p].next, fls |-> Undefine(rs[d][p].fls, KeyOf(r))]
                 /\ p \in DOMAIN rs[d]
                 /\ DOMAIN Undefine(rs[d][p].fls, KeyOf(r)) = {KeyOf(t) : t \in In(<<d, p>>)'}
      <4>1. p \in DOMAIN rs[d] /\ ~last
        BY <1>2, <3>4
      <4>2. DOMAIN Undefine(rs[d][p].fls, KeyOf(r)) = {KeyOf(t) : t \in In(x)} \ {KeyOf(r)}
        <5>1. DOMAIN rs[d][p].fls = {KeyOf(t) : t \in In(<<d, p>>)}
          BY <2>0, <2>2, <4>1
        <5> QED
          BY <1>1, <1>5, <5>1
      <4>3. \A t \in In(x) : KeyOf(t) = KeyOf(r) => t = r
        BY DEF Books, Apart, In
      <4>4. {KeyOf(t) : t \in In(x)} \ {KeyOf(r)} = {KeyOf(t) : t \in In(x) \ {r}}
        BY <4>3
      <4> QED
        BY <1>1, <1>2, <1>3, <4>1, <4>2, <4>4
    <3>5. ASSUME NEW q \in DOMAIN rs'[d]
          PROVE  /\ rs'[d][q] = [next |-> rs'[d][q].next, fls |-> rs'[d][q].fls]
                 /\ rs'[d][q].next \in Nat
                 /\ rs'[d][q].fls = [k \in DOMAIN rs'[d][q].fls |-> rs'[d][q].fls[k]]
                 /\ DOMAIN rs'[d][q].fls = {KeyOf(t) : t \in In(<<d, q>>)'}
      <4>1. CASE q # p
        BY <2>0, <2>2, <3>3, <4>1
      <4>2. CASE q = p
        <5> DEFINE U == Undefine(rs[d][p].fls, KeyOf(r))
        <5>1. rs[d][p].next \in Nat /\ U = [z \in DOMAIN U |-> U[z]]
          <6>1. p \in DOMAIN rs[d]
            BY <3>4, <4>2
          <6>2. rs[d][p].next \in Nat
            BY <2>0, <2>2, <6>1
          <6> QED
            BY <1>5, <6>2
        <5>2. rs'[d][p] = [next |-> rs[d][p].next, fls |-> U]
              /\ DOMAIN U = {KeyOf(t) : t \in In(<<d, p>>)'}
          BY <3>4, <4>2
        <5> HIDE DEF U
        <5> QED
          BY <4>2, <5>1, <5>2
      <4> QED
        BY <4>1, <4>2
    <3> QED
      BY <1>2, <2>2, <3>2, <3>5
  <2> QED
    BY <2>1, <2>2
<1>10. Filters'
  <2>1. /\ filters'[d] = Undefine(filters[d], Handle(r))
        /\ \A e \in Dirs : e # d => filters'[e] = filters[e]
    BY <1>1, <1>2
  <2>2. ASSUME NEW e \in Dirs
        PROVE  /\ filters'[e] = [h \in DOMAIN filters'[e] |-> filters'[e][h]]
               /\ DOMAIN filters'[e] = {Handle(q)' : q \in {t \in linked' : VrDir[t] = e}}
    <3>0. filters[e] = [h \in DOMAIN filters[e] |-> filters[e][h]]
          /\ DOMAIN filters[e] = {Handle(q) : q \in {t \in linked : VrDir[t] = e}}
      BY DEF Books, Filters
    <3>1. {Handle(q)' : q \in {t \in linked' : VrDir[t] = e}}
          = {Handle(q) : q \in {t \in linked' : VrDir[t] = e}}
      BY <1>7
    <3>2. CASE e # d
      <4>1. {t \in linked' : VrDir[t] = e} = {t \in linked : VrDir[t] = e}
        BY <1>2, <3>2
      <4>2. filters'[e] = filters[e]
        BY <2>1, <3>2
      <4> QED
        BY <3>0, <3>1, <4>1, <4>2
    <3>3. CASE e = d
      <4>1. \A q \in linked : VrDir[q] = d /\ Handle(q) = Handle(r) => q = r
        BY DEF Books, Flowers
      <4>2. {Handle(q) : q \in {t \in linked : VrDir[t] = d}} \ {Handle(r)}
            = {Handle(q) : q \in {t \in linked' : VrDir[t] = d}}
        BY <1>2, <4>1
      <4>3. filters'[d] = [h \in DOMAIN filters'[d] |-> filters'[d][h]]
        BY <1>5, <2>1
      <4>4. DOMAIN filters'[d] = DOMAIN filters[d] \ {Handle(r)}
        BY <1>5, <2>1
      <4> QED
        BY <3>0, <3>1, <3>3, <4>2, <4>3, <4>4
    <3> QED
      BY <3>2, <3>3
  <2>3. ASSUME NEW q \in linked'
        PROVE  filters'[VrDir[q]][Handle(q)'] = [key |-> KeyOf(q), acts |-> <<Source(q)'>>]
    <3>1. q \in linked /\ q # r /\ Handle(q)' = Handle(q) /\ Source(q)' = Source(q)
      BY <1>2, <1>7
    <3>2. filters[VrDir[q]][Handle(q)] = [key |-> KeyOf(q), acts |-> <<Source(q)>>]
          /\ Handle(q) \in DOMAIN filters[VrDir[q]] /\ VrDir[q] \in Dirs
      BY <1>1, <3>1, LinkedInstalled, SlotIs DEF Books, Filters
    <3>3. VrDir[q] = d => Handle(q) # Handle(r)
      BY <3>1 DEF Books, Flowers
    <3>4. filters'[VrDir[q]][Handle(q)] = filters[VrDir[q]][Handle(q)]
      BY <1>5, <2>1, <3>2, <3>3
    <3> QED
      BY <3>1, <3>2, <3>4
  <2> QED
    BY <2>2, <2>3 DEF Filters, KeyOf
<1>11. filters' = [e \in Dirs |-> filters'[e]]
  BY <1>1, <1>2
<1> QED
  BY <1>2, <1>4, <1>8, <1>9, <1>10, <1>11 DEF Books

\* A turn of decommit_rules.
LEMMA DecommitRuleStep ==
  ASSUME IInv, NEW r \in Vrs, DecommitRule(r)
  PROVE  IInv'
<1> USE DEF DecommitRule, Running, virtVars
<1>0. aborted = "no" /\ States /\ Books /\ pc = "decommit" /\ r \in todo
  BY DEF IInv
<1>1. virt \in {"NEW", "DELETE"} /\ vr[r] \in {"NEW", "OK", "DELETE"}
  BY <1>0 DEF States, TypeInv, Phases, Listed
<1>2. Propagate(virt, vr[r]) = vr[r] /\ AckDecommit(vr[r]) = vr[r]
  BY <1>1 DEF Propagate, AckDecommit
<1>3. vr' = vr /\ Listed' = Listed /\ todo' = todo \ {r}
  BY <1>0, <1>2 DEF States, TypeInv, Listed
<1>4. RulesValid' /\ ret = "NONE"
  BY <1>0, <1>3, ValidKept DEF States, Phases
<1>5. Phases'
  BY <1>0, <1>1, <1>3, <1>4 DEF Phases
<1>6. CASE vr[r] # "DELETE"
  <2>1. UNCHANGED <<linked, count, rs, filters, aborted>>
    BY <1>1, <1>2, <1>6 DEF NeedsDecommit
  <2>2. Books'
    BY <1>0, <2>1, BooksKept DEF bookVars
  <2>3. TypeInv'
    BY <1>0, <1>3, <2>1 DEF States, TypeInv
  <2>4. Links' /\ (MayRenew \/ Kept)'
    BY <1>0, <1>1, <1>3, <1>6, <2>1 DEF States, TypeInv, Links, Kept
  <2> QED
    BY <1>0, <1>5, <2>1, <2>2, <2>3, <2>4 DEF IInv, States
<1>7. CASE vr[r] = "DELETE" /\ r \notin linked
  <2>1. aborted' = "fl_rule"
    BY <1>2, <1>7 DEF NeedsDecommit, DecommitVr
  <2>2. MayRenew
    BY <1>0, <1>7 DEF States, Kept
  <2> QED
    BY <1>0, <1>1, <1>4, <2>1, <2>2 DEF IInv, Ended, Harmless
<1>8. CASE vr[r] = "DELETE" /\ r \in linked
  <2>1. DecommitVr(r)
    BY <1>2, <1>8 DEF NeedsDecommit
  <2>2. aborted' = "no" /\ linked' = linked \ {r} /\ IsFiniteSet(linked')
    BY <1>0, <1>8, <2>1, UnlinkIs
  <2>3. Books' /\ rs' = [e \in Dirs |-> rs'[e]] /\ filters' = [e \in Dirs |-> filters'[e]]
    BY <1>0, <1>8, <2>1, UnlinkBooks
  <2>4. TypeInv'
    BY <1>0, <1>3, <2>2, <2>3 DEF States, TypeInv
  <2>5. Links' /\ (MayRenew \/ Kept)'
    BY <1>0, <1>1, <1>3, <1>8, <2>2 DEF States, TypeInv, Links, Kept
  <2> QED
    BY <1>5, <2>2, <2>3, <2>4, <2>5 DEF IInv, States
<1> QED
  BY <1>6, <1>7, <1>8

(***************************************************************************)
(* The addition of rules.                                                  *)
(***************************************************************************)

\* lsdn_ruleset_add of a rule that matches like no other: it gets a flower rule
\* and a filter of its own, unless handles run out or the kernel refuses.
LEMMA AddIs ==
  ASSUME NEW R, NEW F, NEW p, NEW r, NEW accepted \in BOOLEAN, r.key \notin DOMAIN R[p].fls
  PROVE  LET out == RulesetAdd(R, F, p, r, accepted)
             n   == R[p].next
         IN \/ out.err \in {"NOMEM", "INCONSISTENT"}
            \/ /\ out.err = "OK"
               /\ out.rs = [R EXCEPT ![p] =
                              [next |-> n + 1,
                               fls |-> Put(R[p].fls, r.key, [handle |-> n, sources |-> <<r>>])]]
               /\ out.filters = Put(F, <<p, n>>, [key |-> r.key, acts |-> <<r>>])
<1> DEFINE n == R[p].next
           Ins(q) == InsertAt(q, Place(q, r), r)
           old == [handle |-> n, sources |-> <<>>]
           fl == [old EXCEPT !.sources = Ins(@)]
           out == RulesetAdd(R, F, p, r, accepted)
<1>1. Place(<<>>, r) = 1
  <2>1. {i \in DOMAIN <<>> : <<>>[i].subprio < r.subprio} = {}
    OBVIOUS
  <2> QED
    BY <2>1, FS_EmptySet DEF Place
<1>2. Ins(<<>>) = <<r>>
  <2>1. SubSeq(<<>>, 1, 0) = <<>> /\ Len(<<>>) = 0 /\ 1 - 1 = 0
    OBVIOUS
  <2>2. (<<>> \o <<r>>) \o <<>> = <<r>>
    <3>1. <<r>> \in Seq({r}) /\ <<>> \in Seq({r})
      OBVIOUS
    <3> QED
      BY <3>1
  <2> QED
    BY <1>1, <2>1, <2>2 DEF InsertAt
<1> HIDE DEF Ins
<1>3. fl = [handle |-> n, sources |-> <<r>>]
  BY <1>2
<1>4. ~Clashes(<<>>, r)
  BY DEF Clashes, ToSet
<1>5. fl.handle = n /\ fl.sources = <<r>> /\ old.sources = <<>>
  BY <1>3
<1> HIDE DEF old, fl
<1>6. out = IF OutOfHandles(R[p])
              THEN [rs |-> R, filters |-> F, err |-> "NOMEM"]
            ELSE IF accepted
              THEN [rs |-> [R EXCEPT ![p] = [next |-> n + 1, fls |-> Put(R[p].fls, r.key, fl)]],
                    filters |-> Put(F, <<p, n>>, [key |-> r.key, acts |-> <<r>>]), err |-> "OK"]
              ELSE [rs |-> [R EXCEPT ![p] = [next |-> n + 1, fls |-> Undefine(R[p].fls, r.key)]],
                    filters |-> Undefine(F, <<p, n>>), err |-> "INCONSISTENT"]
  BY <1>4, <1>5 DEF RulesetAdd, Flush, fl, old, Ins
<1> DEFINE R1 == [R EXCEPT ![p] = [next |-> n + 1, fls |-> Put(R[p].fls, r.key, fl)]]
           F1 == Put(F, <<p, n>>, [key |-> r.key, acts |-> <<r>>])
           R2 == [R EXCEPT ![p] = [next |-> n + 1, fls |-> Undefine(R[p].fls, r.key)]]
           F2 == Undefine(F, <<p, n>>)
<1>7. out = IF OutOfHandles(R[p]) THEN [rs |-> R, filters |-> F, err |-> "NOMEM"]
            ELSE IF accepted THEN [rs |-> R1, filters |-> F1, err |-> "OK"]
            ELSE [rs |-> R2, filters |-> F2, err |-> "INCONSISTENT"]
  BY <1>6
<1> HIDE DEF R1, F1, R2, F2, out
<1>8. out.err \in {"NOMEM", "INCONSISTENT"} \/ (out.err = "OK" /\ out.rs = R1 /\ out.filters = F1)
  BY <1>7
<1> QED
  BY <1>3, <1>8 DEF R1, F1, out

\* What commit_vr does: the rule is linked and gets a filter with a handle of
\* its own; the first of a priority defines it.
LEMMA LinkIs ==
  ASSUME States, Books, RulesValid, NEW r \in Vrs, vr[r] = "NEW", CommitVr(r)
  PROVE  \/ aborted' = "refused"
         \/ LET d == VrDir[r]
                p == VrPrio[r]
                first == In(Slot(r)) = {}
                rule(s) == [id |-> r, key |-> KeyOf(r), subprio |-> s]
            IN \E s \in {0, 1}, n \in Nat :
               /\ aborted' = "no" /\ linked' = linked \cup {r} /\ IsFiniteSet(linked')
               /\ ~first => n = rs[d][p].next
               /\ subprio' = [subprio EXCEPT ![r] = s]
               /\ mask' = [mask EXCEPT ![Slot(r)] = VrMask[r]]
               /\ count' = [x \in Slots |-> Cardinality(In(x)')]
               /\ filters' = [filters EXCEPT ![d] =
                    Put(filters[d], <<p, n>>, [key |-> KeyOf(r), acts |-> <<rule(s)>>])]
               /\ rs' = [e \in Dirs |-> rs'[e]] /\ \A e \in Dirs \ {d} : rs'[e] = rs[e]
               /\ rs'[d] = [q \in DOMAIN rs'[d] |-> rs'[d][q]]
               /\ DOMAIN rs'[d] = DOMAIN rs[d] \cup {p}
               /\ \A q \in DOMAIN rs[d] \ {p} : rs'[d][q] = rs[d][q]
               /\ rs'[d][p] = [next |-> n + 1,
                               fls |-> Put(IF first THEN NoRules ELSE rs[d][p].fls, KeyOf(r),
                                           [handle |-> n, sources |-> <<rule(s)>>])]
<1> DEFINE d == VrDir[r]
           p == VrPrio[r]
           x == Slot(r)
           k == KeyOf(r)
           first == In(x) = {}
           rule(s) == [id |-> r, key |-> k, subprio |-> s]
           base == IF first THEN DefinePrio(rs[d], p) ELSE rs[d]
           out(s, a) == RulesetAdd(base, filters[d], p, rule(s), a)
<1>1. /\ d \in Dirs /\ p \in Prios /\ x \in Slots /\ x = <<d, p>> /\ r \notin linked
      /\ rs = [e \in Dirs |-> rs[e]] /\ linked \subseteq Vrs /\ IsFiniteSet(linked)
      /\ mask = [y \in Slots |-> mask[y]]
  BY SlotIs DEF States, TypeInv, Links
<1>2. \A y : IsFiniteSet(In(y))
  BY <1>1, FS_Subset DEF In
<1>3. count = [y \in Slots |-> Cardinality(In(y))]
  BY DEF Books, Counts
<1>4. (count[x] = 0) <=> first
  BY <1>1, <1>2, <1>3, FS_EmptySet
<1>5. (p \in DOMAIN rs[d]) <=> ~first
  BY <1>1, RulesetIs DEF Books
<1>6. \A q \in In(x) : VrMask[q] = VrMask[r] /\ KeyOf(q) # k /\ mask[x] = VrMask[q]
  <2> SUFFICES ASSUME NEW q \in In(x)
               PROVE  VrMask[q] = VrMask[r] /\ KeyOf(q) # k /\ mask[x] = VrMask[q]
    OBVIOUS
  <2>1. q \in Listed /\ r \in Listed /\ q # r /\ Slot(q) = Slot(r)
    BY <1>1 DEF In, Listed, States, Links
  <2>2. mask[x] = VrMask[q]
    BY DEF In, Books, Apart
  <2> QED
    BY <2>1, <2>2 DEF RulesValid
<1>7. (IF first THEN VrMask[r] ELSE mask[x]) = VrMask[r]
  BY <1>6
<1>8. k \notin DOMAIN base[p].fls
  <2>1. CASE first
    <3>1. base[p] = [next |-> 1, fls |-> NoRules]
      BY <2>1 DEF DefinePrio, Put
    <3> QED
      BY <3>1 DEF NoRules
  <2>2. CASE ~first
    BY <1>1, <1>5, <1>6, <2>2, RulesetIs DEF Books
  <2> QED
    BY <2>1, <2>2
<1>9. PICK s \in {0, 1}, a \in BOOLEAN :
        /\ subprio' = [subprio EXCEPT ![r] = s]
        /\ mask' = [mask EXCEPT ![x] = VrMask[r]]
        /\ rs' = [rs EXCEPT ![d] = out(s, a).rs]
        /\ filters' = [filters EXCEPT ![d] = out(s, a).filters]
        /\ linked' = linked \cup {r}
        /\ count' = [count EXCEPT ![x] = @ + 1]
        /\ aborted' = IF out(s, a).err = "DUPLICATE" THEN "duplicate"
                      ELSE IF out(s, a).err # "OK" THEN "refused" ELSE "no"
  <2>1. (IF count[x] = 0 /\ p \notin DOMAIN rs[d] THEN DefinePrio(rs[d], p) ELSE rs[d]) = base
    BY <1>4, <1>5
  <2>2. Masked[<<VrMask[r], VrValue[r]>>] = k
    BY DEF KeyOf
  <2>3. \E s \in IF count[x] = 0 THEN {0} ELSE {0, 1},
           a \in IF Refusals THEN BOOLEAN ELSE {TRUE} :
        /\ subprio' = [subprio EXCEPT ![r] = s]
        /\ mask' = [mask EXCEPT ![x] = VrMask[r]]
        /\ rs' = [rs EXCEPT ![d] = out(s, a).rs]
        /\ filters' = [filters EXCEPT ![d] = out(s, a).filters]
        /\ linked' = linked \cup {r}
        /\ count' = [count EXCEPT ![x] = @ + 1]
        /\ aborted' = IF count[x] = 0 /\ p \in DOMAIN rs[d] THEN "define_prio"
                      ELSE IF out(s, a).err = "DUPLICATE" THEN "duplicate"
                      ELSE IF out(s, a).err # "OK" THEN "refused" ELSE "no"
    <3>1. (IF count[x] = 0 THEN VrMask[r] ELSE mask[x]) = VrMask[r]
      BY <1>4, <1>7
    <3> DEFINE B == IF count[x] = 0 /\ p \notin DOMAIN rs[d] THEN DefinePrio(rs[d], p) ELSE rs[d]
               M == IF count[x] = 0 THEN VrMask[r] ELSE mask[x]
               mrule(s) == [id |-> r, key |-> Masked[<<M, VrValue[r]>>], subprio |-> s]
               res(s, a) == RulesetAdd(B, filters[d], p, mrule(s), a)
    <3>2. \E s \in IF count[x] = 0 THEN {0} ELSE {0, 1},
             a \in IF Refusals THEN BOOLEAN ELSE {TRUE} :
            /\ subprio' = [subprio EXCEPT ![r] = s]
            /\ mask' = [mask EXCEPT ![x] = M]
            /\ rs' = [rs EXCEPT ![d] = res(s, a).rs]
            /\ filters' = [filters EXCEPT ![d] = res(s, a).filters]
            /\ linked' = linked \cup {r}
            /\ count' = [count EXCEPT ![x] = @ + 1]
            /\ aborted' = IF count[x] = 0 /\ p \in DOMAIN rs[d] THEN "define_prio"
                          ELSE IF res(s, a).err = "DUPLICATE" THEN "duplicate"
                          ELSE IF res(s, a).err # "OK" THEN "refused" ELSE "no"
      BY DEF CommitVr
    <3>3. M = VrMask[r] /\ B = base
      BY <2>1, <3>1
    <3> HIDE DEF M, B, base, k
    <3>4. \A s, a : res(s, a) = out(s, a)
      BY <2>2, <3>3
    <3> HIDE DEF res, out
    <3> QED
      BY <3>2, <3>3, <3>4
  <2> HIDE DEF out
  <2> QED
    BY <1>4, <1>5, <2>3
<1> DEFINE n == base[p].next
           fl == [handle |-> n, sources |-> <<rule(s)>>]
<1>10. \/ out(s, a).err \in {"NOMEM", "INCONSISTENT"}
       \/ /\ out(s, a).err = "OK"
          /\ out(s, a).rs = [base EXCEPT ![p] = [next |-> n + 1, fls |-> Put(base[p].fls, k, fl)]]
          /\ out(s, a).filters = Put(filters[d], <<p, n>>, [key |-> k, acts |-> <<rule(s)>>])
  <2>1. rule(s).key = k
    OBVIOUS
  <2> HIDE DEF rule, base, k
  <2> QED
    BY <1>8, <2>1, AddIs
<1>11. CASE out(s, a).err \in {"NOMEM", "INCONSISTENT"}
  <2> HIDE DEF out
  <2> QED
    BY <1>9, <1>11
<1>12. CASE out(s, a).err = "OK"
  <2>1. n \in Nat /\ (~first => n = rs[d][p].next)
    <3>1. CASE first
      <4>1. base[p] = [next |-> 1, fls |-> NoRules]
        BY <3>1 DEF DefinePrio, Put
      <4> QED
        BY <3>1, <4>1
    <3>2. CASE ~first
      BY <1>1, <1>5, <3>2 DEF Books, Rulesets
    <3> QED
      BY <3>1, <3>2
  <2>2. base[p].fls = IF first THEN NoRules ELSE rs[d][p].fls
    <3>1. CASE first
      <4>1. base[p] = [next |-> 1, fls |-> NoRules]
        BY <3>1 DEF DefinePrio, Put
      <4> QED
        BY <3>1, <4>1
    <3>2. CASE ~first
      BY <3>2
    <3> QED
      BY <3>1, <3>2
  <2>3. /\ base = [q \in DOMAIN base |-> base[q]] /\ DOMAIN base = DOMAIN rs[d] \cup {p}
        /\ \A q \in DOMAIN rs[d] \ {p} : base[q] = rs[d][q]
    <3>1. CASE first
      BY <3>1 DEF DefinePrio, Put
    <3>2. CASE ~first
      BY <1>1, <1>5, <3>2 DEF Books, Rulesets
    <3> QED
      BY <3>1, <3>2
  <2>4. /\ IsFiniteSet(linked') /\ r \notin In(x) /\ In(x)' = In(x) \cup {r}
        /\ \A y : y # x => In(y)' = In(y)
    BY <1>1, <1>9, FS_AddElement DEF In
  <2>5. Cardinality(In(x)') = Cardinality(In(x)) + 1
    BY <1>2, <2>4, FS_AddElement
  <2>6. count' = [y \in Slots |-> Cardinality(In(y)')]
    <3>1. \A y \in Slots : count'[y] = Cardinality(In(y)')
      BY <1>1, <1>3, <1>9, <2>4, <2>5
    <3>2. count' = [y \in Slots |-> count'[y]]
      BY <1>3, <1>9
    <3> QED
      BY <3>1, <3>2
  <2>7. /\ aborted' = "no"
        /\ rs' = [rs EXCEPT ![d] =
                    [base EXCEPT ![p] = [next |-> n + 1, fls |-> Put(base[p].fls, k, fl)]]]
        /\ filters' = [filters EXCEPT ![d] =
                         Put(filters[d], <<p, n>>, [key |-> k, acts |-> <<rule(s)>>])]
    <3> HIDE DEF out, base
    <3> QED
      BY <1>9, <1>10, <1>12
  <2> DEFINE F == Put(base[p].fls, k, fl)
  <2> HIDE DEF base, F
  <2>8. /\ rs'[d] = [base EXCEPT ![p] = [next |-> n + 1, fls |-> F]]
        /\ rs' = [e \in Dirs |-> rs'[e]] /\ \A e \in Dirs \ {d} : rs'[e] = rs[e]
    BY <1>1, <2>7 DEF F
  <2>9. /\ rs'[d] = [q \in DOMAIN rs'[d] |-> rs'[d][q]]
        /\ DOMAIN rs'[d] = DOMAIN rs[d] \cup {p}
        /\ \A q \in DOMAIN rs[d] \ {p} : rs'[d][q] = rs[d][q]
        /\ rs'[d][p] = [next |-> n + 1, fls |-> F]
    BY <2>3, <2>8
  <2>10. F = Put(IF first THEN NoRules ELSE rs[d][p].fls, k, fl)
    BY <2>2 DEF F
  <2> HIDE DEF n
  <2> QED
    BY <1>9, <2>1, <2>4, <2>6, <2>7, <2>8, <2>9, <2>10, ZenonT(40)
<1> QED
  <2> HIDE DEF out
  <2> QED
    BY <1>10, <1>11, <1>12

\* The books after a rule was added.
LEMMA LinkBooks ==
  ASSUME States, Books, RulesValid, NEW r \in Vrs, vr[r] = "NEW",
         CommitVr(r), aborted' # "refused"
  PROVE  /\ Books' /\ aborted' = "no" /\ linked' = linked \cup {r} /\ IsFiniteSet(linked')
         /\ rs' = [e \in Dirs |-> rs'[e]] /\ filters' = [e \in Dirs |-> filters'[e]]
         /\ mask' = [x \in Slots |-> mask'[x]] /\ subprio' \in [Vrs -> {0, 1}]
<1> DEFINE d == VrDir[r]
           p == VrPrio[r]
           x == Slot(r)
           k == KeyOf(r)
           first == In(x) = {}
           old == IF first THEN NoRules ELSE rs[d][p].fls
           rule(s) == [id |-> r, key |-> k, subprio |-> s]
<1>1. /\ d \in Dirs /\ p \in Prios /\ x \in Slots /\ x = <<d, p>> /\ r \notin linked
      /\ linked \subseteq Vrs /\ subprio \in [Vrs -> {0, 1}]
      /\ filters = [e \in Dirs |-> filters[e]] /\ mask = [y \in Slots |-> mask[y]]
  BY SlotIs DEF States, TypeInv, Links
<1>2. PICK s \in {0, 1}, n \in Nat :
        /\ aborted' = "no" /\ linked' = linked \cup {r} /\ IsFiniteSet(linked')
        /\ ~first => n = rs[d][p].next
        /\ subprio' = [subprio EXCEPT ![r] = s]
        /\ mask' = [mask EXCEPT ![x] = VrMask[r]]
        /\ count' = [y \in Slots |-> Cardinality(In(y)')]
        /\ filters' = [filters EXCEPT ![d] =
                         Put(filters[d], <<p, n>>, [key |-> k, acts |-> <<rule(s)>>])]
        /\ rs' = [e \in Dirs |-> rs'[e]] /\ \A e \in Dirs \ {d} : rs'[e] = rs[e]
        /\ rs'[d] = [q \in DOMAIN rs'[d] |-> rs'[d][q]]
        /\ DOMAIN rs'[d] = DOMAIN rs[d] \cup {p}
        /\ \A q \in DOMAIN rs[d] \ {p} : rs'[d][q] = rs[d][q]
        /\ rs'[d][p] = [next |-> n + 1,
                        fls |-> Put(old, k, [handle |-> n, sources |-> <<rule(s)>>])]
  BY LinkIs
<1>3. r \notin In(x) /\ In(x)' = In(x) \cup {r} /\ \A y : y # x => In(y)' = In(y)
  BY <1>1, <1>2 DEF In
<1>4. \A q \in In(x) : VrMask[q] = VrMask[r] /\ KeyOf(q) # k
  <2> SUFFICES ASSUME NEW q \in In(x) PROVE VrMask[q] = VrMask[r] /\ KeyOf(q) # k
    OBVIOUS
  <2>1. q \in Listed /\ r \in Listed /\ q # r /\ Slot(q) = Slot(r)
    BY <1>1 DEF In, Listed, States, Links
  <2> QED
    BY <2>1 DEF RulesValid
<1>5. \A f, y, z : /\ DOMAIN Put(f, y, z) = DOMAIN f \cup {y} /\ Put(f, y, z)[y] = z
                   /\ Put(f, y, z) = [w \in DOMAIN Put(f, y, z) |-> Put(f, y, z)[w]]
                   /\ \A w \in DOMAIN f \ {y} : Put(f, y, z)[w] = f[w]
  BY DEF Put
<1>6. Counts'
  BY <1>2 DEF Counts
<1>7. Apart'
  <2>1. ASSUME NEW q \in linked' PROVE mask'[Slot(q)] = VrMask[q]
    <3>1. CASE Slot(q) = x
      BY <1>1, <1>2, <1>4, <3>1 DEF In
    <3>2. CASE Slot(q) # x
      <4>1. q \in linked /\ mask[Slot(q)] = VrMask[q] /\ Slot(q) \in Slots
        BY <1>1, <1>2, <3>2, SlotIs DEF Books, Apart
      <4> QED
        BY <1>1, <1>2, <3>2, <4>1
    <3> QED
      BY <3>1, <3>2
  <2>2. ASSUME NEW q \in linked', NEW t \in linked', Slot(q) = Slot(t), KeyOf(q) = KeyOf(t)
        PROVE  q = t
    BY <1>2, <1>4, <2>2 DEF In, Books, Apart
  <2> QED
    BY <2>1, <2>2 DEF Apart
<1>8. /\ Flower(r)' = [handle |-> n, sources |-> <<rule(s)>>] /\ Source(r)' = rule(s)
      /\ rs'[d][p].next = n + 1 /\ Handle(r)' = <<p, n>>
  <2> DEFINE F == Put(old, k, [handle |-> n, sources |-> <<rule(s)>>])
  <2>1. F[k] = [handle |-> n, sources |-> <<rule(s)>>]
    BY <1>5
  <2>2. rs'[d][p] = [next |-> n + 1, fls |-> F]
    BY <1>2
  <2> HIDE DEF F
  <2>3. rs'[d][p].fls[k] = [handle |-> n, sources |-> <<rule(s)>>] /\ rs'[d][p].next = n + 1
    BY <2>1, <2>2
  <2>4. Source(r)' = rule(s)
    BY <1>1, <1>2 DEF Source
  <2> QED
    BY <2>3, <2>4 DEF Flower, Handle
<1>9. ASSUME NEW q \in linked
      PROVE  /\ Flower(q)' = Flower(q) /\ Handle(q)' = Handle(q) /\ Source(q)' = Source(q)
             /\ rs'[VrDir[q]][VrPrio[q]].next = IF Slot(q) = x THEN n + 1
                                                ELSE rs[VrDir[q]][VrPrio[q]].next
             /\ Slot(q) = x => n = rs[VrDir[q]][VrPrio[q]].next
  <2>1. q # r /\ q \in Vrs /\ VrDir[q] \in Dirs /\ Slot(q) = <<VrDir[q], VrPrio[q]>>
    BY <1>1, SlotIs
  <2>2. VrPrio[q] \in DOMAIN rs[VrDir[q]] /\ KeyOf(q) \in DOMAIN rs[VrDir[q]][VrPrio[q]].fls
    BY LinkedInstalled
  <2>3. Source(q)' = Source(q)
    BY <1>1, <1>2, <2>1 DEF Source
  <2>4. CASE VrDir[q] # d
    BY <1>1, <1>2, <2>1, <2>3, <2>4 DEF Flower, Handle
  <2>5. CASE VrDir[q] = d /\ VrPrio[q] # p
    BY <1>1, <1>2, <2>1, <2>2, <2>3, <2>5 DEF Flower, Handle
  <2>6. CASE VrDir[q] = d /\ VrPrio[q] = p
    <3>1. Slot(q) = x /\ ~first /\ KeyOf(q) # k
      BY <1>1, <1>4, <2>1, <2>6 DEF In
    <3> DEFINE F == Put(old, k, [handle |-> n, sources |-> <<rule(s)>>])
    <3>2. old = rs[d][p].fls
      BY <3>1
    <3>3. F[KeyOf(q)] = rs[d][p].fls[KeyOf(q)]
      BY <1>5, <2>2, <2>6, <3>1, <3>2
    <3>4. rs'[d][p] = [next |-> n + 1, fls |-> F] /\ n = rs[d][p].next
      BY <1>2, <3>1
    <3> HIDE DEF F
    <3> QED
      BY <2>3, <2>6, <3>1, <3>3, <3>4 DEF Flower, Handle
  <2> QED
    BY <2>4, <2>5, <2>6
<1>10. Flowers'
  <2>1. ASSUME NEW q \in linked'
        PROVE  /\ Flower(q)' = [handle |-> Flower(q)'.handle, sources |-> <<Source(q)'>>]
               /\ Flower(q)'.handle \in Nat
               /\ Flower(q)'.handle < rs'[VrDir[q]][VrPrio[q]].next
    <3>1. CASE q = r
      BY <1>8, <3>1
    <3>2. CASE q \in linked
      <4>1. /\ Flower(q) = [handle |-> Flower(q).handle, sources |-> <<Source(q)>>]
            /\ Flower(q).handle \in Nat
            /\ Flower(q).handle < rs[VrDir[q]][VrPrio[q]].next
        BY <3>2 DEF Books, Flowers
      <4> QED
        BY <1>9, <3>2, <4>1
    <3> QED
      BY <1>2, <3>1, <3>2
  <2>2. ASSUME NEW q \in linked, VrDir[q] = d PROVE Handle(q)' # Handle(r)'
    <3>1. Handle(q)' = <<VrPrio[q], Flower(q).handle>>
      BY <1>9 DEF Handle
    <3>2. VrPrio[q] = p => Flower(q).handle < n
      <4>1. VrPrio[q] = p => Slot(q) = x
        BY <1>1, <2>2, SlotIs
      <4> QED
        BY <1>9, <4>1 DEF Books, Flowers
    <3>3. Flower(q).handle \in Nat
      BY DEF Books, Flowers
    <3> QED
      BY <1>8, <3>1, <3>2, <3>3
  <2>3. ASSUME NEW q \in linked', NEW t \in linked', VrDir[q] = VrDir[t], Handle(q)' = Handle(t)'
        PROVE  q = t
    <3>1. CASE q \in linked /\ t \in linked
      BY <1>9, <2>3, <3>1 DEF Books, Flowers
    <3>2. CASE ~(q \in linked /\ t \in linked)
      BY <1>2, <2>2, <2>3, <3>2
    <3> QED
      BY <3>1, <3>2
  <2> QED
    BY <2>1, <2>3 DEF Flowers
<1>11. Rulesets'
  <2> SUFFICES ASSUME NEW e \in Dirs
               PROVE  /\ rs'[e] = [q \in DOMAIN rs'[e] |-> rs'[e][q]]
                      /\ DOMAIN rs'[e] = {q \in Prios : In(<<e, q>>)' # {}}
                      /\ \A q \in DOMAIN rs'[e] :
                           /\ rs'[e][q] = [next |-> rs'[e][q].next, fls |-> rs'[e][q].fls]
                           /\ rs'[e][q].next \in Nat
                           /\ rs'[e][q].fls = [j \in DOMAIN rs'[e][q].fls |-> rs'[e][q].fls[j]]
                           /\ DOMAIN rs'[e][q].fls = {KeyOf(t) : t \in In(<<e, q>>)'}
    BY DEF Rulesets
  <2>0. /\ rs[e] = [q \in DOMAIN rs[e] |-> rs[e][q]]
        /\ DOMAIN rs[e] = {q \in Prios : In(<<e, q>>) # {}}
        /\ \A q \in DOMAIN rs[e] :
             /\ rs[e][q] = [next |-> rs[e][q].next, fls |-> rs[e][q].fls]
             /\ rs[e][q].next \in Nat
             /\ rs[e][q].fls = [j \in DOMAIN rs[e][q].fls |-> rs[e][q].fls[j]]
             /\ DOMAIN rs[e][q].fls = {KeyOf(t) : t \in In(<<e, q>>)}
    BY DEF Books, Rulesets
  <2>1. CASE e # d
    <3>1. rs'[e] = rs[e] /\ \A q : In(<<e, q>>)' = In(<<e, q>>)
      BY <1>1, <1>2, <1>3, <2>1
    <3> QED
      BY <2>0, <3>1
  <2>2. CASE e = d
    <3>1. \A q : q # p => In(<<d, q>>)' = In(<<d, q>>)
      BY <1>1, <1>3
    <3>2. DOMAIN rs'[d] = {q \in Prios : In(<<d, q>>)' # {}}
      <4>1. DOMAIN rs[d] = {q \in Prios : In(<<d, q>>) # {}}
        BY <2>0, <2>2
      <4>2. In(<<d, p>>)' # {} /\ DOMAIN rs'[d] = DOMAIN rs[d] \cup {p}
        BY <1>1, <1>2, <1>3
      <4> QED
        BY <1>1, <3>1, <4>1, <4>2
    <3>3. DOMAIN old = {KeyOf(t) : t \in In(<<d, p>>)}
      <4>1. CASE first
        BY <1>1, <4>1 DEF NoRules
      <4>2. CASE ~first
        <5>1. p \in DOMAIN rs[d]
          BY <1>1, <2>0, <2>2, <4>2
        <5> QED
          BY <2>0, <2>2, <4>2, <5>1
      <4> QED
        BY <4>1, <4>2
    <3> DEFINE F == Put(old, k, [handle |-> n, sources |-> <<rule(s)>>])
    <3>4. F = [j \in DOMAIN F |-> F[j]] /\ DOMAIN F = {KeyOf(t) : t \in In(<<d, p>>)'}
      <4> HIDE DEF old
      <4>1. DOMAIN F = DOMAIN old \cup {k} /\ F = [j \in DOMAIN F |-> F[j]]
        BY DEF Put
      <4> HIDE DEF F
      <4> QED
        BY <1>1, <1>3, <3>3, <4>1
    <3>5. rs'[d][p] = [next |-> n + 1, fls |-> F]
      BY <1>2
    <3> HIDE DEF F
    <3>6. ASSUME NEW q \in DOMAIN rs'[d]
          PROVE  /\ rs'[d][q] = [next |-> rs'[d][q].next, fls |-> rs'[d][q].fls]
                 /\ rs'[d][q].next \in Nat
                 /\ rs'[d][q].fls = [j \in DOMAIN rs'[d][q].fls |-> rs'[d][q].fls[j]]
                 /\ DOMAIN rs'[d][q].fls = {KeyOf(t) : t \in In(<<d, q>>)'}
      <4>1. CASE q # p
        <5>1. q \in DOMAIN rs[d] /\ rs'[d][q] = rs[d][q] /\ In(<<d, q>>)' = In(<<d, q>>)
          BY <1>2, <3>1, <4>1
        <5> QED
          BY <2>0, <2>2, <5>1
      <4>2. CASE q = p
        BY <3>4, <3>5, <4>2
      <4> QED
        BY <4>1, <4>2
    <3> QED
      BY <1>2, <2>2, <3>2, <3>6
  <2> QED
    BY <2>1, <2>2
<1>12. Filters'
  <2> DEFINE entry == [key |-> k, acts |-> <<rule(s)>>]
  <2>1. filters'[d] = Put(filters[d], <<p, n>>, entry)
        /\ \A e \in Dirs : e # d => filters'[e] = filters[e]
    BY <1>1, <1>2
  <2> HIDE DEF entry
  <2>2. ASSUME NEW e \in Dirs
        PROVE  /\ filters'[e] = [h \in DOMAIN filters'[e] |-> filters'[e][h]]
               /\ DOMAIN filters'[e] = {Handle(q)' : q \in {t \in linked' : VrDir[t] = e}}
    <3>0. filters[e] = [h \in DOMAIN filters[e] |-> filters[e][h]]
          /\ DOMAIN filters[e] = {Handle(q) : q \in {t \in linked : VrDir[t] = e}}
      BY DEF Books, Filters
    <3>1. {Handle(q)' : q \in {t \in linked : VrDir[t] = e}}
          = {Handle(q) : q \in {t \in linked : VrDir[t] = e}}
      BY <1>9
    <3>2. CASE e # d
      <4>1. {t \in linked' : VrDir[t] = e} = {t \in linked : VrDir[t] = e}
        BY <1>2, <3>2
      <4>2. filters'[e] = filters[e]
        BY <2>1, <3>2
      <4> QED
        BY <3>0, <3>1, <4>1, <4>2
    <3>3. CASE e = d
      <4>1. {t \in linked' : VrDir[t] = d} = {t \in linked : VrDir[t] = d} \cup {r}
        BY <1>2
      <4>2. filters'[d] = [h \in DOMAIN filters'[d] |-> filters'[d][h]]
            /\ DOMAIN filters'[d] = DOMAIN filters[d] \cup {Handle(r)'}
        <5>1. filters'[d] = Put(filters[d], Handle(r)', entry)
          BY <1>8, <2>1
        <5> QED
          BY <5>1 DEF Put
      <4>3. DOMAIN filters'[d] =
              {Handle(q)' : q \in {t \in linked : VrDir[t] = d}} \cup {Handle(r)'}
        BY <3>0, <3>1, <3>3, <4>2
      <4>4. DOMAIN filters'[d] = {Handle(q)' : q \in {t \in linked' : VrDir[t] = d}}
        BY <4>1, <4>3
      <4> QED
        BY <3>3, <4>2, <4>4
    <3> QED
      BY <3>2, <3>3
  <2>3. ASSUME NEW q \in linked'
        PROVE  filters'[VrDir[q]][Handle(q)'] = [key |-> KeyOf(q), acts |-> <<Source(q)'>>]
    <3>1. CASE q = r
      <4>1. filters'[d][<<p, n>>] = entry
        BY <1>5, <2>1
      <4> QED
        BY <1>8, <3>1, <4>1 DEF entry
    <3>2. CASE q \in linked /\ q # r
      <4>1. filters[VrDir[q]][Handle(q)] = [key |-> KeyOf(q), acts |-> <<Source(q)>>]
            /\ Handle(q) \in DOMAIN filters[VrDir[q]] /\ VrDir[q] \in Dirs
        BY <1>1, <3>2, LinkedInstalled, SlotIs DEF Books, Filters
      <4>2. Handle(q)' = Handle(q) /\ Source(q)' = Source(q)
        BY <1>9, <3>2
      <4>3. VrDir[q] = d => Handle(q) # <<p, n>>
        BY <1>2, <1>8, <1>10, <3>2, <4>2 DEF Flowers
      <4>4. filters'[VrDir[q]][Handle(q)] = filters[VrDir[q]][Handle(q)]
        BY <1>5, <2>1, <4>1, <4>3
      <4> QED
        BY <4>1, <4>2, <4>4
    <3> QED
      BY <1>2, <3>1, <3>2
  <2> QED
    BY <2>2, <2>3 DEF Filters, KeyOf
<1>13. /\ filters' = [e \in Dirs |-> filters'[e]] /\ mask' = [y \in Slots |-> mask'[y]]
       /\ subprio' \in [Vrs -> {0, 1}]
  BY <1>1, <1>2
<1> QED
  BY <1>2, <1>6, <1>7, <1>10, <1>11, <1>12, <1>13 DEF Books

\* A turn of commit_rules.
LEMMA CommitRuleStep ==
  ASSUME IInv, NEW r \in Vrs, CommitRule(r)
  PROVE  IInv'
<1> USE DEF CommitRule, Running, virtVars
<1>0. aborted = "no" /\ States /\ Books /\ pc = "rules" /\ r \in todo
  BY DEF IInv
<1>1. /\ virt \in {"none", "NEW", "OK"} /\ vr[r] \in {"NEW", "OK", "DELETE"} /\ virt # "none"
      /\ ret = "NONE" /\ RulesValid
  BY <1>0 DEF States, TypeInv, Phases, Links, Listed
<1>2. /\ vr' = [vr EXCEPT ![r] = IF vr[r] = "NEW" THEN "OK" ELSE vr[r]] /\ todo' = todo \ {r}
      /\ Listed' = Listed
  BY <1>0, <1>1 DEF AckState, States, TypeInv, Listed
<1>3. RulesValid'
  BY <1>1, <1>2, ValidKept
<1>4. Phases'
  BY <1>0, <1>1, <1>2, <1>3 DEF States, TypeInv, Phases, Listed
<1>5. CASE vr[r] # "NEW"
  <2>1. UNCHANGED <<subprio, linked, count, mask, rs, filters, aborted>> /\ vr' = vr
    BY <1>0, <1>2, <1>5 DEF States, TypeInv
  <2>2. Books'
    BY <1>0, <2>1, BooksKept DEF bookVars
  <2>3. TypeInv'
    BY <1>0, <1>2, <2>1 DEF States, TypeInv
  <2>4. Links' /\ (MayRenew \/ Kept)'
    BY <1>0, <1>1, <1>2, <2>1 DEF States, TypeInv, Links, Kept
  <2> QED
    BY <1>0, <1>4, <2>1, <2>2, <2>3, <2>4 DEF IInv, States
<1>6. CASE vr[r] = "NEW" /\ aborted' = "refused"
  BY <1>0, <1>1, <1>6 DEF IInv, Ended, Harmless
<1>7. CASE vr[r] = "NEW" /\ aborted' # "refused"
  <2>1. CommitVr(r)
    BY <1>7
  <2>2. /\ Books' /\ aborted' = "no" /\ linked' = linked \cup {r} /\ IsFiniteSet(linked')
        /\ rs' = [e \in Dirs |-> rs'[e]] /\ filters' = [e \in Dirs |-> filters'[e]]
        /\ mask' = [x \in Slots |-> mask'[x]] /\ subprio' \in [Vrs -> {0, 1}]
    BY <1>0, <1>1, <1>7, <2>1, LinkBooks
  <2>3. TypeInv'
    BY <1>0, <1>2, <2>2, ZenonT(40) DEF States, TypeInv
  <2>4. Links' /\ (MayRenew \/ Kept)'
    BY <1>0, <1>1, <1>2, <1>7, <2>2 DEF States, TypeInv, Links, Kept
  <2> QED
    BY <1>4, <2>2, <2>3, <2>4 DEF IInv, States
<1> QED
  BY <1>5, <1>6, <1>7

(***************************************************************************)
(* The theorems.                                                           *)
(***************************************************************************)

\* A stutter and an aborted process change nothing.
LEMMA Stutter == IInv /\ UNCHANGED vars => IInv'
<1> SUFFICES ASSUME IInv, UNCHANGED vars PROVE IInv'
  OBVIOUS
<1> USE DEF vars, virtVars, ruleVars
<1>1. Listed' = Listed /\ (RulesValid => RulesValid')
  BY ValidKept DEF Listed
<1>2. CASE aborted = "no"
  <2>1. Books'
    BY <1>2, BooksKept DEF IInv, bookVars
  <2>2. TypeInv' /\ Phases' /\ Links' /\ (MayRenew \/ Kept)'
    BY <1>1, <1>2 DEF IInv, States, TypeInv, Phases, Links, Kept
  <2> QED
    BY <1>2, <2>1, <2>2 DEF IInv, States
<1>3. CASE aborted # "no"
  BY <1>3 DEF IInv, Ended, Harmless
<1> QED
  BY <1>2, <1>3

\* Every step keeps the invariant.
LEMMA NextIInv == IInv /\ [Next]_vars => IInv'
<1> SUFFICES ASSUME IInv, [Next]_vars PROVE IInv'
  OBVIOUS
<1>1. CASE Edit
  BY <1>1, VirtNewStep, VirtFreeStep, VirtEditStep, VrNewStep, VrFreeStep DEF Edit
<1>2. CASE Commit
  BY <1>2, ValidateFailsStep, CommitBeginStep, RemoveVirtStep, CommitVirtStep, CommitEndStep,
     DecommitRuleStep, CommitRuleStep DEF Commit
<1>3. CASE Stopped \/ UNCHANGED vars
  BY <1>3, Stutter DEF Stopped
<1> QED
  BY <1>1, <1>2, <1>3 DEF Next

\* IInv is an invariant of the specification.
LEMMA Invariance == Spec => []IInv
BY InitIInv, NextIInv, PTL DEF Spec

\* For every client, also one that renews a virt with rules, and all refusals:
\* commited_count, the rulesets and the filters of the interface agree at every
\* step of every commit (commit_vr, decommit_vr in lsdn.c; rules.c).
THEOREM RulesetsAlwaysMatch == Spec => []RulesetsMatchFilters
BY Invariance, BooksAgree, PTL

\* For every client and all refusals: after a commit that returned OK every
\* live rule of a committed virt is applied to the packets it was made for.
THEOREM RulesTakeEffect == Spec => []RulesInEffect
BY Invariance, LiveApplied, PTL

\* For every client and all refusals: no rule outlives its virt, neither in
\* the kernel nor in the books.
THEOREM VirtsTakeTheirRules == Spec => []VirtTakesItsRules
BY Invariance, GoneIsClean, PTL

\* For a client that does not renew a virt with rules in the kernel: no assert
\* of rules.c fails, commit_vr meets no defined priority and no clash, and
\* decommit_vr no rule without its flower rule.
THEOREM RulesNeverAbort == ASSUME ~MayRenew PROVE Spec => []NoRuleAborts
<1>1. IInv => NoRuleAborts
  BY DEF IInv, Harmless, NoRuleAborts
<1> QED
  BY <1>1, Invariance, PTL
=============================================================================
