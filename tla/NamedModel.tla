----------------------------- MODULE NamedModel -----------------------------
(***************************************************************************)
(* The network model as a script sees it: objects with names, attributes   *)
(* and commit states, and the calls of the C API (netmodel/lsdn.c,         *)
(* names.c, rules.c) that the lsctl commands make, as operators that map a *)
(* model to the model after the call.  Module NetApi has the same calls    *)
(* with the books of the commit engine; here a commit is one step.         *)
(*                                                                         *)
(* Abstractions.  An object is a number, 0 is the NULL pointer, and the    *)
(* lowest free number is allocated next.  RENEW is not told apart from OK: *)
(* a script cannot see it.  Allocation failures are left out: they abort   *)
(* the process while the context is the first one, made with               *)
(* abort_on_nomem, and are returned in one that cleanup made.              *)
(* m.bug remembers the assert that failed or the bad pointer that was      *)
(* used; after it the process is gone.                                     *)
(***************************************************************************)
EXTENDS ObjState, Naturals, FiniteSets, Sequences, TLC

CONSTANTS
  MaxSettings, MaxNets, MaxPhyses, MaxVirts,   \* objects allocated at a time
  NULL                                         \* no name, no value

ASSUME NamedModelAssumption == {MaxSettings, MaxNets, MaxPhyses, MaxVirts} \subseteq Nat

SettingsIds == 1..MaxSettings
NetIds      == 1..MaxNets
PhysIds     == 1..MaxPhyses
VirtIds     == 1..MaxVirts

NoSettings == [state |-> "none", name |-> NULL, type |-> NULL]
NoNet      == [state |-> "none", name |-> NULL, settings |-> 0, vid |-> NULL]
NoPhys     == [state |-> "none", name |-> NULL, ip |-> NULL, iface |-> NULL,
               local |-> FALSE]
NoPa       == [state |-> "none", explicit |-> FALSE]
NoVirt     == [state |-> "none", name |-> NULL, net |-> 0, phys |-> 0,
               iface |-> NULL, mac |-> NULL, rules |-> {},
               rate |-> [d \in {"in", "out"} |-> NULL]]

\* lsdn_context_new
EmptyModel ==
  [settings |-> [i \in SettingsIds |-> NoSettings],
   net      |-> [i \in NetIds |-> NoNet],
   phys     |-> [i \in PhysIds |-> NoPhys],
   pa       |-> [a \in PhysIds \X NetIds |-> NoPa],
   virt     |-> [i \in VirtIds |-> NoVirt],
   bug      |-> "no"]

\* A failed assert or a bad pointer; the first one ends the process.
Bug(m, bad, what) == IF bad /\ m.bug = "no" THEN [m EXCEPT !.bug = what] ELSE m

-----------------------------------------------------------------------------
(***************************************************************************)
(* Names (names.c).  The name of an object that awaits its deletion stays  *)
(* in the table until the object is released.                              *)
(***************************************************************************)

Allocated(tab) == {i \in DOMAIN tab : tab[i].state # "none"}

\* lsdn_names_search
Names_search(tab, name) == {i \in Allocated(tab) : name # NULL /\ tab[i].name = name}

\* Mutant: objects that await their deletion are found as well.
ByNameAll(tab, name) ==
  LET S == Names_search(tab, name) IN
  IF S = {} THEN 0 ELSE CHOOSE i \in S : TRUE

\* lsdn_settings_by_name, lsdn_net_by_name, lsdn_phys_by_name, lsdn_virt_by_name
ByName(tab, name) ==
  LET S == {i \in Names_search(tab, name) : tab[i].state # "DELETE"} IN
  IF S = {} THEN 0 ELSE CHOOSE i \in S : TRUE

\* lsdn_name_set: a name that is in use is refused, and the object keeps the
\* name it has.
Name_set(tab, i, name) ==
  IF Names_search(tab, name) = {} THEN [tab EXCEPT ![i].name = name] ELSE tab

\* The names of the virts of one net.
VirtNames(m, n) == [i \in {j \in VirtIds : m.virt[j].net = n} |-> m.virt[i]]

\* lsdn_mk_settings_name, lsdn_mk_phys_name: the name of a settings or phys
\* object that was not given one.  The code counts all objects ever made; here
\* the number of the object stands for the count.
Generated(i) == ToString(i)

Free(tab) == DOMAIN tab \ Allocated(tab)

NextId(tab) == CHOOSE i \in Free(tab) : \A j \in Free(tab) : i <= j

\* lsdn_phys_new asserts that the name it makes is not in use.
Phys_new(m, p) ==
  Bug([m EXCEPT !.phys[p] = [NoPhys EXCEPT !.state = "NEW", !.name = Generated(p)]],
      Names_search(m.phys, Generated(p)) # {}, "phys_new")

-----------------------------------------------------------------------------
(***************************************************************************)
(* Freeing.                                                                *)
(***************************************************************************)

\* free_helper on one object of a table
FreeObject(o, absent) ==
  IF FreeHelper(o.state) = "none" THEN absent ELSE [o EXCEPT !.state = "DELETE"]

Connected(m, a) == {v \in VirtIds : m.virt[v].state # "none"
                                    /\ <<m.virt[v].phys, m.virt[v].net>> = a}

\* free_pa_if_possible, for the PAs in A
FreePasIfPossible(m, A) ==
  [m EXCEPT !.pa = [a \in DOMAIN m.pa |->
     IF a \in A /\ m.pa[a].state # "none" /\ ~m.pa[a].explicit /\ Connected(m, a) = {}
     THEN FreeObject(m.pa[a], NoPa) ELSE m.pa[a]]]

\* phys_detach_by_pa
DetachPas(m, A) ==
  FreePasIfPossible(
    [m EXCEPT !.pa = [a \in DOMAIN m.pa |->
       IF a \in A THEN [m.pa[a] EXCEPT !.explicit = FALSE] ELSE m.pa[a]]], A)

\* lsdn_vrs_free_all
Vrs_free_all(rules) ==
  {[r EXCEPT !.state = "DELETE"] : r \in {q \in rules : q.state # "NEW"}}

\* lsdn_virt_free, for the virts in V
VirtsFree(m, V) ==
  FreePasIfPossible(
    [m EXCEPT !.virt = [v \in VirtIds |->
       IF v \in V
       THEN FreeObject([m.virt[v] EXCEPT !.rules = Vrs_free_all(@)], NoVirt)
       ELSE m.virt[v]]],
    {<<m.virt[v].phys, m.virt[v].net>> : v \in {u \in V : m.virt[u].state = "NEW"}})

\* The objects S of a table freed
FreeObjects(tab, S, absent) ==
  [i \in DOMAIN tab |-> IF i \in S THEN FreeObject(tab[i], absent) ELSE tab[i]]

\* lsdn_net_free, for the nets in N: net_do_free asserts that nothing is left
\* in the net.
NetsFree(m, N) ==
  LET m1 == DetachPas(VirtsFree(m, {v \in VirtIds : m.virt[v].net \in N}), PhysIds \X N)
      Left(n) == \/ \E v \in VirtIds : m1.virt[v].net = n
                 \/ \E p \in PhysIds : m1.pa[<<p, n>>].state # "none"
  IN Bug([m1 EXCEPT !.net = FreeObjects(@, N, NoNet)],
         \E n \in N : m.net[n].state = "NEW" /\ Left(n), "net_do_free")

\* lsdn_phys_free, for the physes in P: renew() asserts that a virt it
\* disconnects is not being deleted.
PhysesFree(m, P) ==
  LET through == {v \in VirtIds : m.virt[v].phys \in P}
      m1 == [m EXCEPT !.virt = [v \in VirtIds |->
               IF v \in through THEN [m.virt[v] EXCEPT !.phys = 0] ELSE m.virt[v]]]
  IN Bug([DetachPas(m1, P \X NetIds) EXCEPT !.phys = FreeObjects(@, P, NoPhys)],
         \E v \in through : m.virt[v].state = "DELETE", "renew")

-----------------------------------------------------------------------------
(***************************************************************************)
(* Attachments and connections.  renew() asserts that the object is not    *)
(* being deleted, and a pointer to a released object must not be used.     *)
(***************************************************************************)

FindOrCreate(o) == IF o.state = "none" THEN [NoPa EXCEPT !.state = "NEW"] ELSE o

\* lsdn_phys_attach
PhysAttach(m, p, n) ==
  Bug([m EXCEPT !.pa[<<p, n>>] = [FindOrCreate(@) EXCEPT !.explicit = TRUE]],
      ~Live(m.phys[p].state) \/ m.net[n].state = "none", "renew")

\* lsdn_phys_detach
PhysDetach(m, p, n) == DetachPas(m, {<<p, n>>})

\* lsdn_virt_connect; without an interface lsdn_if_set_name copies NULL.
VirtConnect(m, v, p, iface) ==
  Bug([m EXCEPT !.pa[<<p, m.virt[v].net>>] = FindOrCreate(@),
                !.virt[v].phys = p, !.virt[v].iface = iface],
      iface = NULL \/ m.phys[p].state = "none", "strdup")

-----------------------------------------------------------------------------
(***************************************************************************)
(* lsdn_commit past its validation, as NetCommit shows it to end: what was *)
(* freed is released, the rest is in the kernel.  Rules that were freed    *)
(* stay when their virt is not renewed (module VirtRules): Sweep has the   *)
(* virts that are.  pa_do_free and net_do_free assert that nothing uses    *)
(* the object; phys_do_free only relies on it.                             *)
(***************************************************************************)
Release(tab, absent) ==
  [i \in DOMAIN tab |->
     CASE tab[i].state = "DELETE" -> absent
       [] tab[i].state = "none"   -> tab[i]
       [] OTHER                   -> [tab[i] EXCEPT !.state = "OK"]]

CommitRules(rules, renewed) ==
  {[r EXCEPT !.state = IF @ = "DELETE" THEN @ ELSE "OK"] :
     r \in {q \in rules : renewed => q.state # "DELETE"}}

Commit(m, Sweep) ==
  LET dying == {v \in VirtIds : m.virt[v].state = "DELETE"}
      virts == [v \in VirtIds |->
                  IF v \in dying THEN NoVirt
                  ELSE [m.virt[v] EXCEPT !.rules = CommitRules(@, v \in Sweep)]]
      m1 == FreePasIfPossible([m EXCEPT !.virt = Release(virts, NoVirt)],
              {<<m.virt[v].phys, m.virt[v].net>> : v \in dying})
      Dying(o) == o.state = "DELETE"
      used == \/ \E a \in DOMAIN m.pa :
                   /\ Dying(m1.pa[a])
                   /\ m1.pa[a].explicit \/ Connected(m1, a) # {}
              \/ \E a \in DOMAIN m.pa :
                   /\ Live(m1.pa[a].state)
                   /\ Dying(m1.phys[a[1]]) \/ Dying(m1.net[a[2]])
              \/ \E v \in VirtIds : Live(m1.virt[v].state) /\ Dying(m1.net[m1.virt[v].net])
  IN Bug([m1 EXCEPT !.settings = Release(@, NoSettings), !.net = Release(@, NoNet),
                    !.phys = Release(@, NoPhys), !.pa = Release(@, NoPa)],
         used, "do_free")

\* lsdn_context_cleanup and lsdn_context_free: everything is freed, the nets
\* with their settings, and committed; then lsdn_context_new.  What failed on
\* the way is remembered.
Context_cleanup(m) ==
  LET m1 == PhysesFree(m, Allocated(m.phys))
      m2 == NetsFree(m1, Allocated(m.net))
      m3 == [m2 EXCEPT !.settings = FreeObjects(@, Allocated(@), NoSettings)]
  IN [EmptyModel EXCEPT !.bug = Commit(m3, VirtIds).bug]
=============================================================================
