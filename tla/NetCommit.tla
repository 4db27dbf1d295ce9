------------------------------ MODULE NetCommit -----------------------------
(***************************************************************************)
(* lsdn_validate and lsdn_commit (netmodel/lsdn.c:860-1680).               *)
(*                                                                         *)
(* A commit is a sequence of calls of the network operations (lsdn_net_ops *)
(* in netmodel/private/net.h), each of which may fail.  One action is one  *)
(* such call together with the bookkeeping around it.  The kernel is a set *)
(* of facts <<kind, key, config>>, config being the attributes the fact    *)
(* was installed with:                                                     *)
(*   <<"pa", <<p, n>>, ...>>          create_pa / destroy_pa               *)
(*   <<"virt", v, ...>>               add_virt / remove_virt               *)
(*   <<"rate", <<v, d>>, ...>>        policing rules of a virt             *)
(*   <<"rpa", <<l, r, n>>, ...>>      add_remote_pa / remove_remote_pa     *)
(*   <<"rvirt", <<l, r, v>>, ...>>    add_remote_virt / remove_remote_virt *)
(* An operation a network type leaves out is one that always succeeds and  *)
(* whose facts nobody looks at.  The order in which the lists are walked   *)
(* depends on the order of creation and is left open.                      *)
(***************************************************************************)
EXTENDS NetApi

CONSTANTS
  NeedIp, NeedMac,     \* validate_pa wants an IP, validate_virt a MAC
  IpVersion,           \* [Ips -> versions]
  RemoteByIp,          \* remove_remote_pa names the remote machine by its IP
                       \* (vxlan_e2e_remove_remote_pa)
  SameId, SamePort,    \* sets of two nets: equal type and vnet_id; VXLAN nets,
                       \* one static and one not, on one port
  BadRates,            \* the rates validate_rate rejects
  FaultKinds,          \* what may go wrong, see below
  MaxFaults            \* bound on the number of failures in a behaviour

ASSUME NetCommitAssumption ==
  /\ NeedIp \in BOOLEAN /\ NeedMac \in BOOLEAN /\ RemoteByIp \in BOOLEAN
  /\ SameId \subseteq SUBSET Nets /\ SamePort \subseteq SUBSET Nets
  /\ BadRates \subseteq Rates
  /\ MaxFaults \in Nat

VARIABLES
  kernel,             \* what the network operations have installed
  pc,                 \* where lsdn_commit is
  cur,                \* decommit: the net being walked; commit: the PA
  left,               \* nets or physes still to be walked
  pas,                \* PAs of the current phys still to be committed
  todo,               \* what is left of the inner loop of commit_pa
  cv,                 \* the virt between add_virt and commit_rates
  dv, dp,             \* the virt in decommit_virt, the PA in decommit_pa
  problems, inconsistent,   \* lsdn_context: problem_count > 0, inconsistent
  faults              \* failures so far

loopVars == <<cur, left, pas, todo, cv>>
errVars  == <<problems, inconsistent, faults>>
userVars == <<physAttr, virtAttr, linkVars>>
commitVars == <<kernel, pc, loopVars, dv, dp, errVars>>

CommitInit ==
  /\ kernel = {} /\ pc = "idle"
  /\ cur = NULL /\ left = {} /\ pas = {} /\ todo = {} /\ cv = NULL
  /\ dv = NULL /\ dp = NULL
  /\ problems = FALSE /\ inconsistent = FALSE /\ faults = 0

-----------------------------------------------------------------------------
(***************************************************************************)
(* Failures.  NETLINK and NOMEM: an operation of the recommit phase fails  *)
(* and has cleaned up after itself.  BROKEN: it fails and so does its own  *)
(* cleanup.  CLEANUP: an operation that removes something fails.  MALLOC:  *)
(* commit_pa runs out of memory itself.  RATES: the policing rule is       *)
(* refused.  NOIF: the interface of a virt does not exist.  SOCKET: no     *)
(* netlink socket.                                                         *)
(***************************************************************************)

MayFail(kind) == kind \in FaultKinds /\ faults < MaxFaults

AddResults == {"OK"} \cup {e \in {"NETLINK", "NOMEM"} : MayFail(e)}
                     \cup {e \in {"INCONSISTENT"} : MayFail("BROKEN")}

RemoveResults == {"OK"} \cup {e \in {"INCONSISTENT"} : MayFail("CLEANUP")}

\* Mutant: a failed operation leaves its work behind.
AddedAnyway(f, err) == {kernel \cup {f}}

\* What the kernel may hold after an attempt to add or to remove.
Added(f, err) == CASE err = "OK"           -> {kernel \cup {f}}
                   [] err = "INCONSISTENT" -> {kernel, kernel \cup {f}}
                   [] OTHER                -> {kernel}

\* Mutant: an operation that removes something does nothing.
WithoutNothing(kind, key) == kernel

\* Mutant: it removes everything of the same kind.
WithoutKind(kind, key) == {f \in kernel : f[1] # kind}

Without(kind, key) == {f \in kernel : ~(f[1] = kind /\ f[2] = key)}

Removed(kind, key, err) == IF err = "OK" THEN {Without(kind, key)}
                           ELSE {kernel, Without(kind, key)}

Has(kind, key) == \E f \in kernel : f[1] = kind /\ f[2] = key

PaFact(a) == <<"pa", a, <<attr_iface[a[1]], attr_ip[a[1]]>>>>
VirtFact(v) == <<"virt", v, <<connected_through[v], attr_mac[v]>>>>
RateFact(v, d) == <<"rate", <<v, d>>, attr_rate[v][d]>>
RpaFact(rpa) == <<"rpa", rpa, attr_ip[rpa[2]]>>
RvirtFact(rv) == <<"rvirt", rv, attr_mac[rv[3]]>>

\* The accounting of a step whose operation on an object in state s returned err.
Note(s, err) ==
  /\ problems' = (problems \/ Reported(s, err))
  /\ faults' = IF err = "OK" \/ faults = MaxFaults THEN faults ELSE faults + 1
  /\ UNCHANGED inconsistent

-----------------------------------------------------------------------------
(***************************************************************************)
(* lsdn_validate.                                                          *)
(***************************************************************************)

\* States are propagated even when the validation then fails.
PropagatedPa == [a \in PAs |-> Propagate(net[a[2]], Propagate(phys[a[1]], pa[a]))]

\* Mutant: attachments are renewed with their phys, but not their virts.
PropagatedVirtNone == virt

PropagatedVirt ==
  [v \in Virts |-> IF virt[v] # "none" /\ connected_through[v] # NULL
                   THEN Propagate(PropagatedPa[PaOf(v)], virt[v]) ELSE virt[v]]

\* Virts that validation looks at, on PAs of physes that stay.
CheckedVirts(a) == {v \in ConnectedVirts(a) : Should_be_validated(PropagatedVirt[v])}

LivePas == {a \in PAs : pa[a] # "none" /\ phys[a[1]] # "DELETE"}

\* report_virts
NotAttached == \E a \in LivePas \ explicitly_attached : CheckedVirts(a) # {}

PhysNoAttr ==
  \E a \in LivePas \cap explicitly_attached :
    \/ is_local[a[1]] /\ attr_iface[a[1]] = NULL
    \/ NeedIp /\ Should_be_validated(PropagatedPa[a]) /\ attr_ip[a[1]] = NULL

\* validate_virt of the static networks, called from validate_virts_pa
VirtNoAttr ==
  NeedMac /\ \E a \in LivePas \cap explicitly_attached :
               \E v \in CheckedVirts(a) : attr_mac[v] = NULL

\* The first half of validate_virts_pa asks the system for the interface.
VirtsToResolve ==
  UNION {CheckedVirts(a) : a \in {b \in LivePas \cap explicitly_attached : is_local[b[1]]}}

\* validate_virts_net compares the virts that are new or renewed
DupMac ==
  \E v, w \in Virts :
    /\ v # w /\ VirtNet[v] = VirtNet[w] /\ net[VirtNet[v]] # "DELETE"
    /\ Should_be_validated(PropagatedVirt[v]) /\ Should_be_validated(PropagatedVirt[w])
    /\ attr_mac[v] # NULL /\ attr_mac[v] = attr_mac[w]

BadRate == \E v \in Virts, d \in Dirs :
             virt[v] # "none" /\ net[VirtNet[v]] # "DELETE" /\ attr_rate[v][d] \in BadRates

HasLocal(n) == \E p \in Physes : pa[<<p, n>>] # "none" /\ is_local[p]

\* cross_validate_networks
NetsClash ==
  \E m, n \in {x \in Nets : net[x] \notin {"none", "DELETE"}} :
    m # n /\ ({m, n} \in SameId \/ ({m, n} \in SamePort /\ HasLocal(m) /\ HasLocal(n)))

HasIp(p) == Live(phys[p]) /\ attr_ip[p] # NULL

DupIp == \E p, q \in Physes : p # q /\ HasIp(p) /\ HasIp(q) /\ attr_ip[p] = attr_ip[q]

IncompatibleIpv ==
  \E n \in Nets, p, q \in Physes :
    /\ pa[<<p, n>>] # "none" /\ pa[<<q, n>>] # "none" /\ HasIp(p) /\ HasIp(q)
    /\ IpVersion[attr_ip[p]] # IpVersion[attr_ip[q]]

Invalid == \/ NotAttached \/ PhysNoAttr \/ VirtNoAttr \/ DupMac \/ BadRate
           \/ NetsClash \/ DupIp \/ IncompatibleIpv

Validation ==
  /\ pa' = PropagatedPa
  /\ virt' = PropagatedVirt
  /\ UNCHANGED <<settings, net, phys, userVars, bookVars, pending_free, aborted,
                 kernel, cur, pas, todo, cv, dv, dp, problems, inconsistent>>

Calling == pc = "idle" /\ life # "closed" /\ aborted = "no"

\* lsdn_commit returns; lsdn_context_cleanup then frees the context.
Return(r) == ret' = r /\ life' = IF life = "closing" THEN "closed" ELSE life

\* lsdn_validate finds problems, called by the user or by lsdn_commit.
ValidateFails ==
  /\ Calling
  /\ \/ Invalid /\ UNCHANGED faults
     \/ VirtsToResolve # {} /\ MayFail("NOIF") /\ faults' = faults + 1
  /\ Validation
  /\ Return("VALIDATE")
  /\ UNCHANGED <<pc, left>>

\* lsdn_validate called by the user finds none.
ValidatePasses ==
  /\ Calling /\ life = "open"
  /\ ~Invalid
  /\ Validation
  /\ ret' = "NONE"
  /\ UNCHANGED <<pc, left, faults, life>>

\* lsdn_context_ensure_socket fails.
CommitNoSocket ==
  /\ Calling
  /\ ~Invalid /\ MayFail("SOCKET")
  /\ Validation
  /\ Return("NETLINK")
  /\ faults' = faults + 1
  /\ UNCHANGED <<pc, left>>

\* lsdn_commit up to its decommit phase.
CommitBegin ==
  /\ Calling
  /\ ~Invalid
  /\ Validation
  /\ pc' = "decommit"
  /\ left' = {n \in Nets : net[n] # "none"}
  /\ ret' = "NONE"
  /\ UNCHANGED <<faults, life>>

-----------------------------------------------------------------------------
(***************************************************************************)
(* decommit_virt and decommit_pa, called for dv and dp.  The recommit      *)
(* phase calls them as well, to roll back.                                 *)
(***************************************************************************)

Running(phase) == pc = phase /\ dv = NULL /\ dp = NULL /\ aborted = "no"

\* Mutant: decommit_virt forgets the remote virts.
ViewsNone(v) == {}

Views(v)  == {rv \in rvirts : rv[3] = v}                        \* virt_view_list
RpasOf(a) == {r \in rpas : r[3] = a[2] /\ a[1] \in {r[1], r[2]}}
PaViews(a) == {r \in RpasOf(a) : r[2] = a[1]}                   \* pa_view_list
RvirtsOf(r) == {rv \in rvirts : rv[1] = r[1] /\ rv[2] = r[2] /\ VirtNet[rv[3]] = r[3]}

\* ack_delete(), which only the decommit phase calls.
Deleted(X) == IF pc = "decommit" THEN X \cap pending_free ELSE {}

PolicingOf(v) == {x \in policing : x[1] = v}

\* The decommit phase reaches a virt that was freed or renewed.  It walks the
\* list once: no step of the phase makes a virt, or a PA, that was reached in
\* need of it again.
DecommitVirt(v) ==
  /\ Running("decommit")
  /\ VirtNet[v] = cur /\ NeedsDecommit(virt[v])
  /\ dv' = v
  /\ virt' = [virt EXCEPT ![v] = AckDecommit(@)]
  /\ UNCHANGED <<settings, net, phys, pa, userVars, bookVars, pending_free, ctxVars,
                 ret, kernel, pc, loopVars, dp, errVars>>

\* decommit_rates, the first thing decommit_virt does.  When a removal fails,
\* any of the policing rules may be left in the kernel.
RemoveRates ==
  /\ aborted = "no" /\ dv # NULL /\ PolicingOf(dv) # {}
  /\ LET rules == {f \in kernel : f[1] = "rate" /\ f[2] \in PolicingOf(dv)} IN
     \E err \in RemoveResults, K \in SUBSET rules :
       /\ err = "OK" => K = {}
       /\ kernel' = (kernel \ rules) \cup K
       /\ virt' = [virt EXCEPT ![dv] = MarkCommitErr(@, TRUE, err)]
       /\ Note(virt[dv], err)
  /\ policing' = policing \ PolicingOf(dv)
  /\ UNCHANGED <<settings, net, phys, pa, userVars, committed_as_local, committed_to,
                 rpas, rvirts, pending_free, ctxVars, ret, pc, loopVars, dv, dp>>

\* decommit_remote_virt, called by decommit_virt and by decommit_remote_pa.
\* decommit_pa walks the pa_view_list first, then the remote_pa_list.
RpasToRemove == IF dp = NULL THEN {}
                ELSE IF PaViews(dp) # {} THEN PaViews(dp) ELSE RpasOf(dp)

RemoveRemoteVirt(rv) ==
  /\ aborted = "no"
  /\ \/ dv # NULL /\ PolicingOf(dv) = {} /\ rv \in Views(dv)
     \/ dv = NULL /\ \E r \in RpasToRemove : rv \in RvirtsOf(r)
  /\ \E err \in RemoveResults :
       /\ kernel' \in Removed("rvirt", rv, err)
       /\ virt' = [virt EXCEPT ![rv[3]] = MarkCommitErr(@, TRUE, err)]
       /\ Note(virt[rv[3]], err)
  /\ rvirts' = rvirts \ {rv}
  /\ UNCHANGED <<settings, net, phys, pa, userVars, committed_as_local, committed_to,
                 rpas, policing, pending_free, ctxVars, ret, pc, loopVars, dv, dp>>

\* The end of decommit_virt, and ack_delete.  virt_do_free lets go of the PA.
RemoveVirt ==
  /\ aborted = "no" /\ dv # NULL /\ PolicingOf(dv) = {} /\ Views(dv) = {}
  /\ \E err \in IF committed_to[dv] = NULL THEN {"OK"} ELSE RemoveResults :
       /\ kernel' \in IF committed_to[dv] = NULL THEN {kernel} ELSE Removed("virt", dv, err)
       /\ LET s    == MarkCommitErr(virt[dv], TRUE, err)
              gone == Deleted({dv})
              idle == FreeablePas({}, gone)
          IN
          /\ Note(virt[dv], err)
          /\ virt' = [virt EXCEPT ![dv] = IF gone = {} THEN s ELSE "none"]
          /\ pa' = [a \in PAs |-> IF a \in idle THEN FreeHelper(pa[a]) ELSE pa[a]]
          /\ pending_free' = (pending_free \ gone) \cup {a \in idle : pa[a] # "NEW"}
          /\ connected_through' = [v \in Virts |-> IF v \in gone THEN NULL ELSE connected_through[v]]
          /\ attr_mac' = [v \in Virts |-> IF v \in gone THEN NULL ELSE attr_mac[v]]
          /\ attr_rate' = [v \in Virts |-> IF v \in gone THEN NoRates ELSE attr_rate[v]]
  /\ committed_to' = [committed_to EXCEPT ![dv] = NULL]
  /\ dv' = NULL
  /\ UNCHANGED <<settings, net, phys, physAttr, explicitly_attached, committed_as_local,
                 rpas, rvirts, policing, ctxVars, ret, pc, loopVars, dp>>

\* Mutant: attachments and nets do not wait for the virts.
VirtsDoneNever(n) == TRUE

\* The decommit phase reaches a PA once the virts of the net are done.
VirtsDone(n) == \A v \in Virts : VirtNet[v] = n => ~NeedsDecommit(virt[v])

DecommitPa(a) ==
  /\ Running("decommit")
  /\ a[2] = cur /\ NeedsDecommit(pa[a]) /\ VirtsDone(cur)
  /\ dp' = a
  /\ pa' = [pa EXCEPT ![a] = AckDecommit(@)]
  /\ UNCHANGED <<settings, net, phys, virt, userVars, bookVars, pending_free, ctxVars,
                 ret, kernel, pc, loopVars, dv, errVars>>

\* decommit_remote_pa after its remote virts are gone.  vxlan_e2e deletes the
\* entry for the IP the phys has now, which need not be the one it was made for.
RpaRemoval(r) == IF RemoteByIp /\ RpaFact(r) \notin kernel THEN {"NETLINK"} ELSE RemoveResults

RemoveRemotePa(r) ==
  /\ aborted = "no" /\ dv = NULL /\ dp # NULL
  /\ r \in RpasToRemove /\ RvirtsOf(r) = {}
  /\ LET remote == <<r[2], r[3]>> IN
     \E err \in RpaRemoval(r) :
       /\ kernel' \in IF err = "NETLINK" THEN {kernel} ELSE Removed("rpa", r, err)
       /\ pa' = [pa EXCEPT ![remote] = MarkCommitErr(@, TRUE, err)]
       /\ Note(pa[remote], err)
  /\ rpas' = rpas \ {r}
  /\ CAssert(RemoteByIp => attr_ip[r[2]] # NULL, "remove_remote_pa")
  /\ UNCHANGED <<settings, net, phys, virt, userVars, committed_as_local, committed_to,
                 rvirts, policing, pending_free, life, ret, pc, loopVars, dv, dp>>

\* The end of decommit_pa, and ack_delete.  destroy_pa is called when the phys
\* is marked as committed; pa_do_free has its asserts.
DestroyPa ==
  /\ aborted = "no" /\ dv = NULL /\ dp # NULL /\ RpasOf(dp) = {}
  /\ \E err \in IF committed_as_local[dp[1]] THEN RemoveResults ELSE {"OK"} :
       /\ kernel' \in IF committed_as_local[dp[1]] THEN Removed("pa", dp, err) ELSE {kernel}
       /\ Note(pa[dp], err)
       /\ pa' = [pa EXCEPT ![dp] = IF Deleted({dp}) # {} THEN "none"
                                   ELSE MarkCommitErr(@, TRUE, err)]
  /\ CAssert(Deleted({dp}) # {} => ConnectedVirts(dp) = {} /\ dp \notin explicitly_attached,
            "pa_do_free")
  /\ pending_free' = pending_free \ Deleted({dp})
  /\ dp' = NULL
  /\ UNCHANGED <<settings, net, phys, virt, userVars, bookVars, life, ret, pc, loopVars, dv>>

PasDone(n) == \A p \in Physes : ~NeedsDecommit(pa[<<p, n>>])

\* The outer loop of the decommit phase.
DecommitNet(n) ==
  /\ Running("decommit") /\ cur = NULL
  /\ n \in left
  /\ cur' = n /\ left' = left \ {n}
  /\ UNCHANGED <<apiVars, kernel, pc, pas, todo, cv, dv, dp, errVars>>

DecommitNetEnd ==
  /\ Running("decommit") /\ cur # NULL
  /\ VirtsDone(cur) /\ PasDone(cur)
  /\ net' = [net EXCEPT ![cur] = IF @ = "DELETE" THEN "none" ELSE AckDecommit(@)]
  /\ CAssert(net[cur] = "DELETE" =>
              /\ \A v \in Virts : VirtNet[v] = cur => virt[v] = "none"
              /\ \A p \in Physes : pa[<<p, cur>>] = "none", "net_do_free")
  /\ cur' = NULL
  /\ UNCHANGED <<settings, phys, pa, virt, userVars, bookVars, pending_free, life, ret,
                 kernel, pc, left, pas, todo, cv, dv, dp, errVars>>

\* The loops over the physes and the settings, up to the recommit phase.
DecommitEnd ==
  LET gone == {p \in Physes : phys[p] = "DELETE"} IN
  /\ Running("decommit") /\ cur = NULL /\ left = {}
  /\ phys' = [p \in Physes |-> IF p \in gone THEN "none" ELSE AckDecommit(phys[p])]
  /\ ResetPhys(gone)
  /\ settings' = [s \in Settings |-> IF settings[s] = "DELETE" THEN "none"
                                     ELSE AckDecommit(settings[s])]
  /\ CAssert(\A n \in Nets : net[n] # "none" => settings[NetSettings[n]] # "DELETE",
            "settings_do_free")
  /\ pc' = "commit"
  /\ left' = {p \in Physes \ gone : phys[p] # "none" /\ is_local[p]}
  /\ UNCHANGED <<net, pa, virt, virtAttr, linkVars, committed_to, rpas, rvirts, policing,
                 pending_free, life, ret, kernel, cur, pas, todo, cv, dv, dp, errVars>>

-----------------------------------------------------------------------------
(***************************************************************************)
(* The recommit phase: commit_pa for the PAs of the local physes.          *)
(***************************************************************************)

CommitPhys(p) ==
  /\ Running("commit") /\ pas = {}
  /\ p \in left
  /\ left' = left \ {p}
  /\ committed_as_local' = [committed_as_local EXCEPT ![p] = TRUE]
  /\ pas' = {a \in PAs : a[1] = p /\ pa[a] # "none"}
  /\ UNCHANGED <<objVars, userVars, committed_to, rpas, rvirts, policing, pending_free,
                 ctxVars, ret, kernel, pc, cur, todo, cv, dv, dp, errVars>>

\* Mutant: add_virt is called for virts that are installed already.
NewVirtsAll(a) == ConnectedVirts(a)

NewVirts(a) == {v \in ConnectedVirts(a) : virt[v] = "NEW"}

\* commit_pa as far as the virts; it gives up when the PA could not be created.
CreatePa(a) ==
  /\ Running("commit")
  /\ a \in pas
  /\ pas' = pas \ {a}
  /\ \E err \in IF pa[a] = "NEW" THEN AddResults ELSE {"OK"} :
       LET s == MarkCommitErr(pa[a], FALSE, err) IN
       /\ kernel' \in IF pa[a] = "NEW" THEN Added(PaFact(a), err) ELSE {kernel}
       /\ pa' = [pa EXCEPT ![a] = s]
       /\ Note(pa[a], err)
       /\ IF StateOk(s)
          THEN pc' = "virts" /\ cur' = a /\ todo' = NewVirts(a)
          ELSE UNCHANGED <<pc, cur, todo>>
  /\ UNCHANGED <<settings, net, phys, virt, userVars, bookVars, pending_free, ctxVars, ret,
                 left, cv, dv, dp>>

\* add_virt for a new virt on the PA.
AddVirt(v) ==
  /\ Running("virts") /\ cv = NULL
  /\ v \in todo
  /\ \E err \in AddResults :
       /\ kernel' \in Added(VirtFact(v), err)
       /\ virt' = [virt EXCEPT ![v] = MarkCommitErr(@, FALSE, err)]
       /\ Note(virt[v], err)
       /\ IF err = "OK"
          THEN /\ committed_to' = [committed_to EXCEPT ![v] = cur[1]]
               /\ cv' = v /\ UNCHANGED todo
          ELSE todo' = todo \ {v} /\ UNCHANGED <<committed_to, cv>>
  /\ UNCHANGED <<settings, net, phys, pa, userVars, committed_as_local, rpas, rvirts,
                 policing, pending_free, ctxVars, ret, pc, cur, left, pas, dv, dp>>

\* commit_pa cannot copy the interface of the virt.
AddVirtNoMem(v) ==
  /\ Running("virts") /\ cv = NULL
  /\ v \in todo /\ MayFail("MALLOC")
  /\ virt' = [virt EXCEPT ![v] = "ERR"]
  /\ Note("OK", "NOMEM")
  /\ todo' = todo \ {v}
  /\ UNCHANGED <<settings, net, phys, pa, userVars, bookVars, pending_free, ctxVars, ret,
                 kernel, pc, cur, left, pas, cv, dv, dp>>

Wanted(v) == {d \in Dirs : attr_rate[v][d] # NULL}

RatesEnd == /\ Running("virts") /\ cv # NULL
            /\ todo' = todo \ {cv} /\ cv' = NULL
            /\ UNCHANGED <<settings, net, phys, pa, userVars, committed_as_local, rpas,
                           rvirts, pending_free, ctxVars, ret, pc, cur, left, pas, dv, dp>>

\* commit_rates succeeds.  commit_rates_inout also returns OK when the kernel
\* refuses the policing rule and the priority is undefined again, which never
\* fails (rules.c:447-453).
CommitRates ==
  /\ RatesEnd
  /\ \E refused \in SUBSET Wanted(cv) :
       LET rules == {<<cv, d>> : d \in Wanted(cv) \ refused} IN
       /\ refused # {} => MayFail("RATES")
       /\ kernel' = kernel \cup {RateFact(cv, d) : d \in Wanted(cv) \ refused}
       /\ policing' = policing \cup rules
       /\ faults' = IF refused = {} THEN faults ELSE faults + 1
  /\ UNCHANGED <<virt, committed_to, problems, inconsistent>>

\* commit_rates runs out of memory and has undone its work; remove_virt is
\* called to roll back.
CommitRatesNoMem ==
  /\ RatesEnd
  /\ Wanted(cv) # {} /\ MayFail("NOMEM")
  /\ problems' = TRUE
  /\ \E err \in RemoveResults :
       /\ err # "OK" => faults + 1 < MaxFaults
       /\ kernel' \in Removed("virt", cv, err)
       /\ virt' = [virt EXCEPT ![cv] = IF err = "OK" THEN "ERR" ELSE "FAIL"]
       /\ committed_to' = IF err = "OK" THEN [committed_to EXCEPT ![cv] = NULL] ELSE committed_to
       /\ inconsistent' = (inconsistent \/ err # "OK")
       /\ faults' = IF err = "OK" THEN faults + 1 ELSE faults + 2
  /\ UNCHANGED policing

\* It runs out of memory for "out" and decommit_rates cannot take back "in".
CommitRatesUndoFails ==
  /\ RatesEnd
  /\ Wanted(cv) = {"in", "out"} /\ MayFail("NOMEM") /\ MayFail("CLEANUP")
  /\ faults + 1 < MaxFaults /\ faults' = faults + 2
  /\ problems' = TRUE
  /\ virt' = [virt EXCEPT ![cv] = "FAIL"]
  /\ kernel' \in {kernel, kernel \cup {RateFact(cv, "in")}}
  /\ UNCHANGED <<committed_to, policing, inconsistent>>

\* On to the other PAs of the net.
CommitRemotes ==
  /\ Running("virts") /\ todo = {}
  /\ pc' = "remotes"
  /\ todo' = {q \in Physes \ {cur[1]} : pa[<<q, cur[2]>>] # "none"}
  /\ UNCHANGED <<apiVars, kernel, cur, left, pas, cv, dv, dp, errVars>>

IsNew(a) == pa[a] = "NEW"

SkipRemotePa(q) ==
  /\ Running("remotes")
  /\ q \in todo /\ ~IsNew(cur) /\ ~IsNew(<<q, cur[2]>>)
  /\ todo' = todo \ {q}
  /\ UNCHANGED <<apiVars, kernel, pc, cur, left, pas, cv, dv, dp, errVars>>

\* add_remote_pa; when it fails the remote PA is decommitted altogether.
AddRemotePa(q) ==
  LET remote == <<q, cur[2]>>
      rpa    == <<cur[1], q, cur[2]>>
  IN
  /\ Running("remotes")
  /\ q \in todo /\ (IsNew(cur) \/ IsNew(remote))
  /\ todo' = todo \ {q}
  /\ \E err \in AddResults :
       /\ kernel' \in Added(RpaFact(rpa), err)
       /\ pa' = [pa EXCEPT ![remote] = MarkCommitErr(@, FALSE, err)]
       /\ Note(pa[remote], err)
       /\ IF CommitFailed(pa[remote], err)
          THEN dp' = remote /\ UNCHANGED rpas
          ELSE rpas' = rpas \cup {rpa} /\ UNCHANGED dp
  /\ UNCHANGED <<settings, net, phys, virt, userVars, committed_as_local, committed_to,
                 rvirts, policing, pending_free, ctxVars, ret, pc, cur, left, pas, cv, dv>>

\* No memory for the lsdn_remote_pa: the local PA is marked, the remote one
\* decommitted.
AddRemotePaNoMem(q) ==
  LET remote == <<q, cur[2]>> IN
  /\ Running("remotes")
  /\ q \in todo /\ (IsNew(cur) \/ IsNew(remote)) /\ MayFail("MALLOC")
  /\ todo' = todo \ {q}
  /\ pa' = [pa EXCEPT ![cur] = "ERR"]
  /\ Note("OK", "NOMEM")
  /\ dp' = remote
  /\ UNCHANGED <<settings, net, phys, virt, userVars, bookVars, pending_free, ctxVars, ret,
                 kernel, pc, cur, left, pas, cv, dv>>

\* On to the virts of the PAs on remote_pa_list.
Remotes(a) == {r \in rpas : r[1] = a[1] /\ r[3] = a[2]}

CommitRemoteVirts ==
  /\ Running("remotes") /\ todo = {}
  /\ pc' = "rvirts"
  /\ todo' = UNION {ConnectedVirts(<<r[2], r[3]>>) : r \in Remotes(cur)}
  /\ UNCHANGED <<apiVars, kernel, cur, left, pas, cv, dv, dp, errVars>>

SkipRemoteVirt(v) ==
  /\ Running("rvirts")
  /\ v \in todo /\ ~IsNew(cur) /\ virt[v] # "NEW"
  /\ todo' = todo \ {v}
  /\ UNCHANGED <<apiVars, kernel, pc, cur, left, pas, cv, dv, dp, errVars>>

\* add_remote_virt; when it fails the virt is decommitted altogether.  The
\* lsdn_remote_virt is on its lists by then.
AddRemoteVirt(v) ==
  LET rv == <<cur[1], connected_through[v], v>> IN
  /\ Running("rvirts")
  /\ v \in todo /\ (IsNew(cur) \/ virt[v] = "NEW")
  /\ todo' = todo \ {v}
  /\ rvirts' = rvirts \cup {rv}
  /\ \E err \in AddResults :
       /\ kernel' \in Added(RvirtFact(rv), err)
       /\ virt' = [virt EXCEPT ![v] = MarkCommitErr(@, FALSE, err)]
       /\ Note(virt[v], err)
       /\ dv' = IF CommitFailed(virt[v], err) THEN v ELSE NULL
  /\ UNCHANGED <<settings, net, phys, pa, userVars, committed_as_local, committed_to,
                 rpas, policing, pending_free, ctxVars, ret, pc, cur, left, pas, cv, dp>>

AddRemoteVirtNoMem(v) ==
  /\ Running("rvirts")
  /\ v \in todo /\ (IsNew(cur) \/ virt[v] = "NEW") /\ MayFail("MALLOC")
  /\ todo' = todo \ {v}
  /\ pa' = [pa EXCEPT ![cur] = "ERR"]
  /\ Note("OK", "NOMEM")
  /\ dv' = v
  /\ UNCHANGED <<settings, net, phys, virt, userVars, bookVars, pending_free, ctxVars, ret,
                 kernel, pc, cur, left, pas, cv, dp>>

\* Mutant: the PA stays the current one.
CommitPaEndKeepsCur ==
  /\ Running("rvirts") /\ todo = {}
  /\ pc' = "commit"
  /\ UNCHANGED <<apiVars, kernel, cur, left, pas, todo, cv, dv, dp, errVars>>

CommitPaEnd ==
  /\ Running("rvirts") /\ todo = {}
  /\ pc' = "commit" /\ cur' = NULL
  /\ UNCHANGED <<apiVars, kernel, left, pas, todo, cv, dv, dp, errVars>>

-----------------------------------------------------------------------------
(***************************************************************************)
(* The ack phase and the result.  problem_count and inconsistent have no   *)
(* use after this and are reset by the next lsdn_validate.                 *)
(***************************************************************************)

CommitEnd ==
  /\ Running("commit") /\ left = {} /\ pas = {}
  /\ settings' = [s \in Settings |-> AckState(settings[s])]
  /\ phys' = [p \in Physes |-> AckState(phys[p])]
  /\ net' = [n \in Nets |-> AckState(net[n])]
  /\ pa' = [a \in PAs |-> AckState(pa[a])]
  /\ virt' = [v \in Virts |-> AckState(virt[v])]
  /\ Return(IF inconsistent THEN "INCONSISTENT" ELSE IF problems THEN "COMMIT" ELSE "OK")
  /\ pc' = "idle" /\ problems' = FALSE /\ inconsistent' = FALSE
  /\ UNCHANGED <<userVars, bookVars, pending_free, aborted, kernel, loopVars, dv, dp, faults>>

CommitStep ==
  \/ \E v \in Virts : DecommitVirt(v) \/ AddVirt(v) \/ AddVirtNoMem(v)
                      \/ SkipRemoteVirt(v) \/ AddRemoteVirt(v) \/ AddRemoteVirtNoMem(v)
  \/ RemoveRates
  \/ \E rv \in rvirts : RemoveRemoteVirt(rv)
  \/ RemoveVirt
  \/ \E a \in PAs : DecommitPa(a) \/ CreatePa(a)
  \/ \E r \in rpas : RemoveRemotePa(r)
  \/ DestroyPa
  \/ \E n \in Nets : DecommitNet(n)
  \/ DecommitNetEnd
  \/ DecommitEnd
  \/ \E p \in Physes : CommitPhys(p)
  \/ CommitRates
  \/ CommitRatesNoMem
  \/ CommitRatesUndoFails
  \/ CommitRemotes
  \/ \E q \in Physes : SkipRemotePa(q) \/ AddRemotePa(q) \/ AddRemotePaNoMem(q)
  \/ CommitRemoteVirts
  \/ CommitPaEnd
  \/ CommitEnd
=============================================================================
