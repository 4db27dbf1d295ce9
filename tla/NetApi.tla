------------------------------- MODULE NetApi -------------------------------
(***************************************************************************)
(* The in-memory network model of LSDN and the C API that edits it         *)
(* (netmodel/lsdn.c): settings, nets, physes, phys attachments (PAs) and   *)
(* virts, each with its commit state.  An edit never talks to the kernel;  *)
(* it only leaves traces (NEW, RENEW, DELETE) for the next lsdn_commit,    *)
(* which is in module NetCommit.                                           *)
(*                                                                         *)
(* Abstractions.  An object is a member of a fixed set and may be created  *)
(* again after it was freed, as malloc may return the same address.  The   *)
(* network of a virt and the settings of a net never change (constants).   *)
(* There is at most one PA for a phys and a net, so a PA is the pair       *)
(* <<p, n>>.  The intrusive lists are derived sets: the members are the    *)
(* allocated objects that point at the list's owner.  Names and virt rules *)
(* are left to other modules; allocation failures of the edits are left    *)
(* out, an edit that fails for lack of memory has no effect.               *)
(***************************************************************************)
EXTENDS ObjState, Naturals, FiniteSets

CONSTANTS
  Settings, Nets, Physes, Virts,   \* the objects a client may create
  NetSettings,                     \* lsdn_net.settings
  VirtNet,                         \* lsdn_virt.network
  Ifaces, Ips, Macs, Dirs, Rates,  \* attribute values; Dirs \subseteq {"in", "out"}
  Rules,                           \* the rules below that the client keeps
  NULL

RuleNames == {"attach_first", "disconnect_first", "one_local", "no_reuse",
              "commit_between", "stay_local"}

ASSUME NetApiAssumption ==
  /\ NetSettings \in [Nets -> Settings]
  /\ VirtNet \in [Virts -> Nets]
  /\ Rules \subseteq RuleNames
  /\ NULL \notin Physes \cup Nets \cup Virts \cup Ifaces \cup Ips \cup Macs \cup Rates
  /\ (Virts \cup {NULL}) \cap (Physes \X Nets) = {}

VARIABLES
  \* commit states
  settings, net, phys, pa, virt,
  \* what the user asked for
  is_local, attr_iface, attr_ip, explicitly_attached,
  connected_through, attr_mac, attr_rate,
  \* what the library remembers of the kernel
  committed_as_local, committed_to, rpas, rvirts, policing, pending_free,
  \* the context: open, being cleaned up, freed; the assert that failed
  life, aborted,
  \* result of the last call of lsdn_commit or lsdn_validate, NONE after an edit
  ret

objVars  == <<settings, net, phys, pa, virt>>
physAttr == <<is_local, attr_iface, attr_ip>>
virtAttr == <<attr_mac, attr_rate>>
linkVars == <<explicitly_attached, connected_through>>
bookVars == <<committed_as_local, committed_to, rpas, rvirts, policing>>
ctxVars  == <<life, aborted>>
apiVars  == <<objVars, physAttr, virtAttr, linkVars, bookVars, pending_free,
              ctxVars, ret>>

PAs == Physes \X Nets

\* lsdn_phys_attachment.connected_virt_list and lsdn_net.attached_list
ConnectedVirts(a) == {v \in Virts : virt[v] # "none" /\ VirtNet[v] = a[2]
                                    /\ connected_through[v] = a[1]}

PaOf(v) == <<connected_through[v], VirtNet[v]>>

NoRates == [d \in Dirs |-> NULL]

ApiInit ==
  /\ settings = [s \in Settings |-> "none"]
  /\ net      = [n \in Nets |-> "none"]
  /\ phys     = [p \in Physes |-> "none"]
  /\ pa       = [a \in PAs |-> "none"]
  /\ virt     = [v \in Virts |-> "none"]
  /\ is_local   = [p \in Physes |-> FALSE]
  /\ attr_iface = [p \in Physes |-> NULL]
  /\ attr_ip    = [p \in Physes |-> NULL]
  /\ explicitly_attached = {}
  /\ connected_through = [v \in Virts |-> NULL]
  /\ attr_mac  = [v \in Virts |-> NULL]
  /\ attr_rate = [v \in Virts |-> NoRates]
  /\ committed_as_local = [p \in Physes |-> FALSE]
  /\ committed_to = [v \in Virts |-> NULL]
  /\ rpas = {} /\ rvirts = {} /\ policing = {} /\ pending_free = {}
  /\ life = "open" /\ aborted = "no" /\ ret = "NONE"

-----------------------------------------------------------------------------
(***************************************************************************)
(* The rules a careful client keeps.  The first three are documented       *)
(* (lsdn.c:465, lsdn.c:519, docs/netmodel.rst:208).  The others are not:   *)
(* without them an assert fails, or destroy_pa is called for a PA that was *)
(* not created.                                                            *)
(***************************************************************************)

\* A virt is connected through an attached phys.
ConnectsAttached(v, p) ==
  "attach_first" \in Rules => <<p, VirtNet[v]>> \in explicitly_attached

\* The virts are disconnected or freed before their phys is detached.
DetachesIdle(a) ==
  "disconnect_first" \in Rules => \A v \in ConnectedVirts(a) : virt[v] = "DELETE"

\* At most one of the physes attached to a net is local.
OneLocal(p, n) ==
  "one_local" \in Rules => \A q \in Physes \ {p} : ~(is_local[q] /\ Live(pa[<<q, n>>]))

\* A PA that awaits its deletion is not attached or connected to again
\* before the commit.
NotDying(a) == "no_reuse" \in Rules => pa[a] # "DELETE"

\* A phys is not freed between the freeing of a virt it connects and the
\* commit.
NoDyingVirt(P) ==
  "commit_between" \in Rules =>
     \A v \in Virts : connected_through[v] \in P => virt[v] # "DELETE"

\* A phys that was committed as local is not unclaimed.
UnclaimsFresh(p) == "stay_local" \in Rules => ~committed_as_local[p]

-----------------------------------------------------------------------------
(***************************************************************************)
(* Every edit leaves the commit engine's books alone.                      *)
(***************************************************************************)

Editing == life = "open" /\ aborted = "no" /\ ret' = "NONE"

SettingsNew(s) ==
  /\ Editing
  /\ settings[s] = "none"
  /\ settings' = [settings EXCEPT ![s] = "NEW"]
  /\ UNCHANGED <<net, phys, pa, virt, physAttr, virtAttr, linkVars, bookVars,
                 pending_free, ctxVars>>

\* lsdn_net_new
NetNew(n) ==
  /\ Editing
  /\ net[n] = "none" /\ Live(settings[NetSettings[n]])
  /\ net' = [net EXCEPT ![n] = "NEW"]
  /\ UNCHANGED <<settings, phys, pa, virt, physAttr, virtAttr, linkVars,
                 bookVars, pending_free, ctxVars>>

\* lsdn_phys_new
PhysNew(p) ==
  /\ Editing
  /\ phys[p] = "none"
  /\ phys' = [phys EXCEPT ![p] = "NEW"]
  /\ UNCHANGED <<settings, net, pa, virt, physAttr, virtAttr, linkVars,
                 bookVars, pending_free, ctxVars>>

\* lsdn_virt_new
VirtNew(v) ==
  /\ Editing
  /\ virt[v] = "none" /\ Live(net[VirtNet[v]])
  /\ virt' = [virt EXCEPT ![v] = "NEW"]
  /\ UNCHANGED <<settings, net, phys, pa, physAttr, virtAttr, linkVars,
                 bookVars, pending_free, ctxVars>>

-----------------------------------------------------------------------------
(***************************************************************************)
(* Freeing.  lsdn_virt_free, lsdn_net_free, lsdn_settings_free,            *)
(* lsdn_phys_free and lsdn_phys_detach are built from the same three       *)
(* pieces: free the virts V, disconnect the virts D, detach the PAs A.     *)
(***************************************************************************)

\* The virts of V that virt_do_free takes away at once.
FreedNow(V) == {v \in V : virt[v] = "NEW"}

\* Mutant: the virts that stay connected do not keep the PA alive.
FreeablePasInUse(A, X) ==
  {a \in PAs : /\ pa[a] # "none"
               /\ a \in A \cup {PaOf(v) : v \in X}
               /\ a \notin explicitly_attached \ A}

\* free_pa_if_possible(), called for the detached PAs and for the PA of every
\* virt that is freed, once the virts X are off the connected_virt_lists.
FreeablePas(A, X) ==
  {a \in PAs : /\ pa[a] # "none"
               /\ a \in A \cup {PaOf(v) : v \in X}
               /\ a \notin explicitly_attached \ A
               /\ ConnectedVirts(a) \subseteq X}

Release(V, D, A) ==
  LET gone == FreedNow(V)
      idle == FreeablePas(A, gone \cup D)
  IN
  /\ virt' = [v \in Virts |-> IF v \in V THEN FreeHelper(virt[v])
                              ELSE IF v \in D THEN Renew(virt[v]) ELSE virt[v]]
  /\ connected_through' =
       [v \in Virts |-> IF v \in gone \cup D THEN NULL ELSE connected_through[v]]
  /\ attr_mac' = [v \in Virts |-> IF v \in gone THEN NULL ELSE attr_mac[v]]
  /\ attr_rate' = [v \in Virts |-> IF v \in gone THEN NoRates ELSE attr_rate[v]]
  /\ explicitly_attached' = explicitly_attached \ A
  /\ pa' = [a \in PAs |-> IF a \in idle THEN FreeHelper(pa[a]) ELSE pa[a]]
  /\ pending_free' = pending_free \cup {v \in V : virt[v] # "NEW"}
                                  \cup {a \in idle : pa[a] # "NEW"}

\* Mutant: a net is freed without its virts.
VirtsInNone(N) == {}

\* The virts of the nets N, and the virts connected through the physes P.
VirtsIn(N) == {v \in Virts : virt[v] # "none" /\ VirtNet[v] \in N}

VirtsThrough(P) == {v \in Virts : virt[v] # "none" /\ connected_through[v] \in P}

\* lsdn_virt_free
VirtFree(v) ==
  /\ Editing
  /\ Live(virt[v])
  /\ Release({v}, {}, {})
  /\ UNCHANGED <<settings, net, phys, physAttr, bookVars, ctxVars>>

\* net_do_free and settings_do_free assert that nothing uses the object.
NetsEmpty(N) == \A n \in N : /\ \A v \in Virts : VirtNet[v] = n => virt'[v] = "none"
                             /\ \A p \in Physes : pa'[<<p, n>>] = "none"

CAssert(ok, name) == aborted' = IF ok THEN aborted ELSE name

\* lsdn_net_free
NetFree(n) ==
  /\ Editing
  /\ Live(net[n])
  /\ Release(VirtsIn({n}), {}, Physes \X {n})
  /\ net' = [net EXCEPT ![n] = FreeHelper(@)]
  /\ CAssert(net[n] = "NEW" => NetsEmpty({n}), "net_do_free")
  /\ UNCHANGED <<settings, phys, physAttr, bookVars, life>>

\* lsdn_settings_free
SettingsFree(s) ==
  LET users == {n \in Nets : net[n] # "none" /\ NetSettings[n] = s}
      fresh == {n \in users : net[n] = "NEW"}
  IN
  /\ Editing
  /\ Live(settings[s])
  /\ Release(VirtsIn(users), {}, Physes \X users)
  /\ net' = [n \in Nets |-> IF n \in users THEN FreeHelper(net[n]) ELSE net[n]]
  /\ settings' = [settings EXCEPT ![s] = FreeHelper(@)]
  /\ CAssert(NetsEmpty(fresh) /\ (settings[s] = "NEW" => users = fresh), "settings_do_free")
  /\ UNCHANGED <<phys, physAttr, bookVars, life>>

\* Mutant: the freeing of one phys clears committed_as_local of all.
ResetPhysFlags(P) ==
  /\ is_local' = [p \in Physes |-> is_local[p] /\ p \notin P]
  /\ attr_iface' = [p \in Physes |-> IF p \in P THEN NULL ELSE attr_iface[p]]
  /\ attr_ip' = [p \in Physes |-> IF p \in P THEN NULL ELSE attr_ip[p]]
  /\ committed_as_local' = [p \in Physes |-> FALSE]

\* What is left of a phys that is freed at once.
ResetPhys(P) ==
  /\ is_local' = [p \in Physes |-> is_local[p] /\ p \notin P]
  /\ attr_iface' = [p \in Physes |-> IF p \in P THEN NULL ELSE attr_iface[p]]
  /\ attr_ip' = [p \in Physes |-> IF p \in P THEN NULL ELSE attr_ip[p]]
  /\ committed_as_local' = [p \in Physes |-> committed_as_local[p] /\ p \notin P]

\* renew() asserts that a virt it is called for is not being deleted.
NoneDeleted(V) == \A v \in V : virt[v] # "DELETE"

\* lsdn_phys_free: disconnect the virts, detach the PAs, free the phys.
PhysFree(p) ==
  /\ Editing
  /\ Live(phys[p])
  /\ NoDyingVirt({p})
  /\ Release({}, VirtsThrough({p}), {p} \X Nets)
  /\ phys' = [phys EXCEPT ![p] = FreeHelper(@)]
  /\ ResetPhys({q \in {p} : phys[q] = "NEW"})
  /\ CAssert(NoneDeleted(VirtsThrough({p})), "renew")
  /\ UNCHANGED <<settings, net, committed_to, rpas, rvirts, policing, life>>

\* lsdn_context_cleanup up to its call of lsdn_commit: every phys is freed,
\* then every settings object with its nets and virts.
ContextCleanup ==
  LET users == {n \in Nets : net[n] # "none"}
      D     == VirtsThrough(Physes)
      gone  == {v \in Virts : virt[v] = "NEW"}
  IN
  /\ Editing
  /\ NoDyingVirt(Physes)
  /\ virt' = [v \in Virts |-> IF virt[v] = "none" THEN "none" ELSE FreeHelper(virt[v])]
  /\ connected_through' = [v \in Virts |-> NULL]
  /\ attr_mac' = [v \in Virts |-> IF v \in gone THEN NULL ELSE attr_mac[v]]
  /\ attr_rate' = [v \in Virts |-> IF v \in gone THEN NoRates ELSE attr_rate[v]]
  /\ explicitly_attached' = {}
  /\ pa' = [a \in PAs |-> IF pa[a] = "none" THEN "none" ELSE FreeHelper(pa[a])]
  /\ pending_free' = {v \in Virts : virt[v] \notin {"none", "NEW"}}
                     \cup {a \in PAs : pa[a] \notin {"none", "NEW"}}
  /\ net' = [n \in Nets |-> IF net[n] = "none" THEN "none" ELSE FreeHelper(net[n])]
  /\ settings' = [s \in Settings |-> IF settings[s] = "none" THEN "none"
                                     ELSE FreeHelper(settings[s])]
  /\ phys' = [p \in Physes |-> IF phys[p] = "none" THEN "none" ELSE FreeHelper(phys[p])]
  /\ ResetPhys({p \in Physes : phys[p] = "NEW"})
  /\ CAssert(NoneDeleted(D) /\ NetsEmpty({n \in users : net[n] = "NEW"}), "renew")
  /\ life' = "closing"
  /\ UNCHANGED <<committed_to, rpas, rvirts, policing>>

-----------------------------------------------------------------------------
(***************************************************************************)
(* Attachments and connections.                                            *)
(***************************************************************************)

\* find_or_create_attachement finds a PA that is to be deleted as well.
FindOrCreate(s) == IF s = "none" THEN "NEW" ELSE s

\* lsdn_phys_attach
PhysAttach(p, n) ==
  LET a == <<p, n>> IN
  /\ Editing
  /\ Live(phys[p]) /\ Live(net[n]) /\ a \notin explicitly_attached
  /\ NotDying(a)
  /\ is_local[p] => OneLocal(p, n)
  /\ pa' = [pa EXCEPT ![a] = FindOrCreate(@)]
  /\ explicitly_attached' = explicitly_attached \cup {a}
  /\ phys' = [phys EXCEPT ![p] = Renew(@)]
  /\ UNCHANGED <<settings, net, virt, physAttr, virtAttr, connected_through,
                 bookVars, pending_free, ctxVars>>

\* lsdn_phys_detach
PhysDetach(p, n) ==
  /\ Editing
  /\ Live(phys[p]) /\ Live(net[n]) /\ pa[<<p, n>>] # "none"
  /\ DetachesIdle(<<p, n>>)
  /\ Release({}, {}, {<<p, n>>})
  /\ UNCHANGED <<settings, net, phys, physAttr, bookVars, ctxVars>>

\* lsdn_virt_connect, which disconnects the virt first.  The PA it leaves is
\* not freed, even when nothing else keeps it.
VirtConnect(v, p) ==
  LET a == <<p, VirtNet[v]>> IN
  /\ Editing
  /\ Live(virt[v]) /\ Live(phys[p])
  /\ ConnectsAttached(v, p) /\ NotDying(a)
  /\ pa' = [pa EXCEPT ![a] = FindOrCreate(@)]
  /\ connected_through' = [connected_through EXCEPT ![v] = p]
  /\ virt' = [virt EXCEPT ![v] = Renew(@)]
  /\ UNCHANGED <<settings, net, phys, physAttr, virtAttr, explicitly_attached,
                 bookVars, pending_free, ctxVars>>

\* lsdn_virt_disconnect
VirtDisconnect(v) ==
  /\ Editing
  /\ Live(virt[v]) /\ connected_through[v] # NULL
  /\ connected_through' = [connected_through EXCEPT ![v] = NULL]
  /\ virt' = [virt EXCEPT ![v] = Renew(@)]
  /\ UNCHANGED <<settings, net, phys, pa, physAttr, virtAttr,
                 explicitly_attached, bookVars, pending_free, ctxVars>>

-----------------------------------------------------------------------------
(***************************************************************************)
(* Attributes.  NULL clears one.  The setters renew only when the value    *)
(* changes, except that of a rate, which always renews.                    *)
(***************************************************************************)

PhysEdit(p) ==
  /\ Editing
  /\ Live(phys[p])
  /\ phys' = [phys EXCEPT ![p] = Renew(@)]
  /\ UNCHANGED <<settings, net, pa, virt, virtAttr, linkVars, bookVars,
                 pending_free, ctxVars>>

\* lsdn_phys_set_iface, lsdn_phys_clear_iface
PhysSetIface(p, x) ==
  /\ PhysEdit(p)
  /\ attr_iface[p] # x
  /\ attr_iface' = [attr_iface EXCEPT ![p] = x]
  /\ UNCHANGED <<is_local, attr_ip>>

\* lsdn_phys_set_ip, lsdn_phys_clear_ip
PhysSetIp(p, x) ==
  /\ PhysEdit(p)
  /\ attr_ip[p] # x
  /\ attr_ip' = [attr_ip EXCEPT ![p] = x]
  /\ UNCHANGED <<is_local, attr_iface>>

\* lsdn_phys_claim_local
ClaimLocal(p) ==
  /\ PhysEdit(p)
  /\ ~is_local[p]
  /\ \A n \in Nets : Live(pa[<<p, n>>]) => OneLocal(p, n)
  /\ is_local' = [is_local EXCEPT ![p] = TRUE]
  /\ UNCHANGED <<attr_iface, attr_ip>>

\* lsdn_phys_unclaim_local; committed_as_local stays as it is.
UnclaimLocal(p) ==
  /\ PhysEdit(p)
  /\ is_local[p]
  /\ UnclaimsFresh(p)
  /\ is_local' = [is_local EXCEPT ![p] = FALSE]
  /\ UNCHANGED <<attr_iface, attr_ip>>

VirtEdit(v) ==
  /\ Editing
  /\ Live(virt[v])
  /\ virt' = [virt EXCEPT ![v] = Renew(@)]
  /\ UNCHANGED <<settings, net, phys, pa, physAttr, linkVars, bookVars,
                 pending_free, ctxVars>>

\* lsdn_virt_set_mac, lsdn_virt_clear_mac
VirtSetMac(v, x) ==
  /\ VirtEdit(v)
  /\ attr_mac[v] # x
  /\ attr_mac' = [attr_mac EXCEPT ![v] = x]
  /\ UNCHANGED attr_rate

\* lsdn_virt_set_rate_in, lsdn_virt_set_rate_out and the two that clear
VirtSetRate(v, d, x) ==
  /\ VirtEdit(v)
  /\ x = NULL => attr_rate[v][d] # NULL
  /\ attr_rate' = [attr_rate EXCEPT ![v][d] = x]
  /\ UNCHANGED attr_mac

Edit ==
  \/ \E s \in Settings : SettingsNew(s) \/ SettingsFree(s)
  \/ \E n \in Nets : NetNew(n) \/ NetFree(n)
  \/ \E p \in Physes : PhysNew(p) \/ PhysFree(p) \/ ClaimLocal(p) \/ UnclaimLocal(p)
  \/ \E v \in Virts : VirtNew(v) \/ VirtFree(v) \/ VirtDisconnect(v)
  \/ \E p \in Physes, n \in Nets : PhysAttach(p, n) \/ PhysDetach(p, n)
  \/ \E v \in Virts, p \in Physes : VirtConnect(v, p)
  \/ \E p \in Physes, x \in Ifaces \cup {NULL} : PhysSetIface(p, x)
  \/ \E p \in Physes, x \in Ips \cup {NULL} : PhysSetIp(p, x)
  \/ \E v \in Virts, x \in Macs \cup {NULL} : VirtSetMac(v, x)
  \/ \E v \in Virts, d \in Dirs, x \in Rates \cup {NULL} : VirtSetRate(v, d, x)
  \/ ContextCleanup
=============================================================================
