---------------------------- MODULE ResultProofs ----------------------------
(***************************************************************************)
(* What a commit leaves behind, for every set of objects and a client that *)
(* keeps the rules.  StaleInv and FullInv (NetmodelInv) are proved on top  *)
(* of IInv: what stays in the kernel has the attributes of the model, and, *)
(* when nothing fails, only what the commit has not come to is missing.    *)
(***************************************************************************)
EXTENDS CommitProofs

-----------------------------------------------------------------------------
(***************************************************************************)
(* What a commit never removes.                                            *)
(***************************************************************************)

\* decommit_virt and decommit_pa work on objects that are not up to date.
LEMMA NotOk ==
  ASSUME IInv
  PROVE  /\ dv # NULL => dv \in Virts /\ virt[dv] # "OK"
         /\ dp # NULL => dp \in PAs /\ pa[dp] # "OK"
<1>1. /\ dv \in Virts \cup {NULL} /\ dp \in PAs \cup {NULL}
      /\ pc \in {"idle", "decommit", "commit", "virts", "remotes", "rvirts"}
  BY DEF IInv, TypeOK, LoopTypes, OrNull, Phases
<1> QED
  BY <1>1 DEF IInv, Loops, Idle, Decommitting, Walking, Recommit, InVirts, InRemotes, InRvirts

\* A remote virt that goes with a remote PA is not up to date.
LEMMA ViewNotOk ==
  ASSUME IInv, dv = NULL, dp # NULL, NEW r \in RpasOf(dp), NEW rv \in RvirtsOf(r)
  PROVE  virt[rv[3]] # "OK" \/ pa[<<rv[1], VirtNet[rv[3]]>>] # "OK"
<1>1. /\ r \in rpas /\ r[3] = dp[2] /\ dp[1] \in {r[1], r[2]} /\ rv \in rvirts
      /\ rv[1] = r[1] /\ rv[2] = r[2] /\ VirtNet[rv[3]] = r[3] /\ rv[3] \in Virts
  BY DEF RpasOf, RvirtsOf, IInv, TypeOK, BookTypes
<1>2. dp \in PAs /\ pa[dp] # "OK" /\ dp = <<dp[1], dp[2]>>
  BY NotOk, PaPair
<1>3. CASE dp[1] = r[1]
  BY <1>1, <1>2, <1>3
<1>4. CASE dp[1] = r[2] /\ virt[rv[3]] = "OK"
  <2>1. connected_through[rv[3]] = rv[2]
    BY <1>1, <1>4, NotNull DEF IInv, Books, RvirtSet
  <2>2. PaOf(rv[3]) = dp /\ connected_through[rv[3]] # NULL
    BY <2>1, <1>1, <1>2, <1>4, NotNull, PaPair DEF PaOf
  <2>3. pc = "decommit" => virt[rv[3]] # "OK"
    BY <2>2, <1>1 DEF IInv, Loops, Propagated
  <2>4. pc # "decommit" => pc = "remotes" /\ pa[dp] = "ERR"
    BY NotNull DEF IInv, Loops, Idle, Walking, Recommit, InVirts, InRemotes, InRvirts, TypeOK,
       LoopTypes, Phases
  <2>5. pc = "remotes" => pa[<<r[2], r[3]>>] # "ERR"
    BY <1>1 DEF IInv, Books, RpaSet, Installed
  <2> QED
    BY <2>3, <2>4, <2>5, <1>1, <1>2, <1>4
<1> QED
  BY <1>1, <1>3, <1>4

\* What a step of the commit takes out of the kernel.
LEMMA StepRemoves ==
  ASSUME IInv, Clean, CommitStep, NEW f \in kernel \ kernel'
  PROVE  ~UpToDate(f)
<1> USE CleanResults
<1>1. CASE \E v \in Virts : DecommitVirt(v) \/ AddVirt(v) \/ AddVirtNoMem(v)
                      \/ SkipRemoteVirt(v) \/ AddRemoteVirt(v) \/ AddRemoteVirtNoMem(v)
  BY <1>1 DEF DecommitVirt, AddVirt, AddVirtNoMem, SkipRemoteVirt, AddRemoteVirt,
     AddRemoteVirtNoMem, Added
<1>2. CASE RemoveRates
  <2>1. f[1] = "rate" /\ f[2] \in PolicingOf(dv) /\ dv # NULL
    BY <1>2 DEF RemoveRates
  <2>2. f[2][1] = dv
    BY <2>1 DEF PolicingOf
  <2> QED
    BY <2>1, <2>2, NotOk DEF UpToDate
<1>3. ASSUME NEW rv \in rvirts, RemoveRemoteVirt(rv) PROVE ~UpToDate(f)
  <2>1. f[1] = "rvirt" /\ f[2] = rv
    BY <1>3 DEF RemoveRemoteVirt, Removed, Without
  <2>2. virt[rv[3]] # "OK" \/ pa[<<rv[1], VirtNet[rv[3]]>>] # "OK"
    <3>1. CASE dv # NULL
      BY <3>1, <1>3, NotOk DEF RemoveRemoteVirt, Views
    <3>2. CASE dv = NULL
      <4>1. PICK r \in RpasToRemove : rv \in RvirtsOf(r)
        BY <3>2, <1>3 DEF RemoveRemoteVirt
      <4>2. dp # NULL /\ r \in RpasOf(dp)
        BY <4>1 DEF RpasToRemove, PaViews
      <4> QED
        BY <3>2, <4>1, <4>2, ViewNotOk
    <3> QED
      BY <3>1, <3>2
  <2> QED
    BY <2>1, <2>2 DEF UpToDate
<1>4. CASE RemoveVirt
  <2>1. f[1] = "virt" /\ f[2] = dv /\ dv # NULL
    BY <1>4 DEF RemoveVirt, Removed, Without
  <2> QED
    BY <2>1, NotOk DEF UpToDate
<1>5. CASE \E a \in PAs : DecommitPa(a) \/ CreatePa(a)
  BY <1>5 DEF DecommitPa, CreatePa, Added
<1>6. ASSUME NEW r \in rpas, RemoveRemotePa(r) PROVE ~UpToDate(f)
  <2>1. f[1] = "rpa" /\ f[2] = r /\ dp # NULL
    BY <1>6 DEF RemoveRemotePa, Removed, Without, RpaRemoval
  <2>2. r[3] = dp[2] /\ dp[1] \in {r[1], r[2]}
    BY <1>6 DEF RemoveRemotePa, RpasToRemove, PaViews, RpasOf
  <2>3. dp = <<dp[1], dp[2]>> /\ pa[dp] # "OK"
    BY <2>1, NotOk, PaPair
  <2>4. pa[<<r[1], r[3]>>] # "OK" \/ pa[<<r[2], r[3]>>] # "OK"
    BY <2>2, <2>3
  <2> QED
    BY <2>1, <2>4 DEF UpToDate
<1>7. CASE DestroyPa
  <2>1. f[1] = "pa" /\ f[2] = dp /\ dp # NULL
    BY <1>7 DEF DestroyPa, Removed, Without
  <2> QED
    BY <2>1, NotOk DEF UpToDate
<1>8. CASE CommitRatesNoMem
  <2>1. f[1] = "virt" /\ f[2] = cv /\ cv # NULL /\ pc = "virts"
    BY <1>8 DEF CommitRatesNoMem, RatesEnd, Running, Removed, Without
  <2>2. virt[cv] = "NEW"
    BY <2>1 DEF IInv, Loops, InVirts
  <2> QED
    BY <2>1, <2>2 DEF UpToDate
<1>9. CASE \/ (\E n \in Nets : DecommitNet(n)) \/ DecommitNetEnd \/ DecommitEnd
           \/ (\E p \in Physes : CommitPhys(p)) \/ CommitRates \/ CommitRatesUndoFails
           \/ CommitRemotes \/ CommitRemoteVirts \/ CommitPaEnd \/ CommitEnd
           \/ (\E q \in Physes : SkipRemotePa(q) \/ AddRemotePa(q) \/ AddRemotePaNoMem(q))
  BY <1>9 DEF DecommitNet, DecommitNetEnd, DecommitEnd, CommitPhys, CommitRates,
     CommitRatesUndoFails, CommitRemotes, CommitRemoteVirts, CommitPaEnd, CommitEnd, SkipRemotePa,
     AddRemotePa, AddRemotePaNoMem, Added
<1> QED
  BY <1>1, <1>2, <1>3, <1>4, <1>5, <1>6, <1>7, <1>8, <1>9 DEF CommitStep

\* For every set of objects, a client that keeps the rules and operations that
\* clean up when they fail: no step of lsdn_commit, nor the roll back of
\* commit_pa, removes from the kernel what is installed for objects that did
\* not change ("A commit has no effect on an OK object", docs/internals.rst).
THEOREM UntouchedAlwaysStays ==
  ASSUME Careful, Clean
  PROVE  Spec => UntouchedStays
<1>1. ASSUME IInv, [Next]_vars
      PROVE  [\A f \in kernel \ kernel' : ~UpToDate(f)]_vars
  <2>1. CASE CommitStep
    BY <1>1, <2>1, StepRemoves
  <2>2. CASE ~CommitStep
    <3>1. kernel' = kernel
      BY <1>1, <2>2 DEF Next, Client, Call, ValidateFails, ValidatePasses, CommitNoSocket,
         CommitBegin, Validation, Stopped, vars, commitVars
    <3> QED
      BY <3>1
  <2> QED
    BY <2>1, <2>2
<1> QED
  BY <1>1, Invariance, PTL DEF Spec, UntouchedStays

-----------------------------------------------------------------------------
(***************************************************************************)
(* What is installed is current.  Between commits: an edit that changes an *)
(* attribute takes the object out of OK.                                   *)
(***************************************************************************)

EditMoves ==
  /\ \A p \in Physes : phys'[p] = "OK" => /\ phys[p] = "OK"
                                          /\ attr_iface'[p] = attr_iface[p]
                                          /\ attr_ip'[p] = attr_ip[p]
  /\ \A a \in PAs : /\ pa'[a] = "OK" => pa[a] = "OK"
                    /\ pa'[a] = "NEW" => pa[a] \in {"none", "NEW"}
  /\ \A v \in Virts : virt'[v] = "OK" => /\ virt[v] = "OK"
                                         /\ connected_through'[v] = connected_through[v]
                                         /\ attr_mac'[v] = attr_mac[v]
                                         /\ attr_rate'[v] = attr_rate[v]
  /\ \A p \in Physes : committed_as_local'[p] => committed_as_local[p]

LEMMA ReleaseMoves ==
  ASSUME NEW V, NEW D, NEW A, Release(V, D, A)
  PROVE  /\ \A a \in PAs : /\ pa'[a] = "OK" => pa[a] = "OK"
                           /\ pa'[a] = "NEW" => pa[a] \in {"none", "NEW"}
         /\ \A v \in Virts : virt'[v] = "OK" => /\ virt[v] = "OK"
                                                /\ connected_through'[v] = connected_through[v]
                                                /\ attr_mac'[v] = attr_mac[v]
                                                /\ attr_rate'[v] = attr_rate[v]
<1> DEFINE idle == FreeablePas(A, FreedNow(V) \cup D)
<1>1. \A a \in PAs : pa'[a] = IF a \in idle THEN FreeHelper(pa[a]) ELSE pa[a]
  BY DEF Release
<1>2. FreedNow(V) \subseteq V
  BY DEF FreedNow
<1>3. \A v \in Virts : virt'[v] = IF v \in V THEN FreeHelper(virt[v])
                              ELSE IF v \in D THEN Renew(virt[v]) ELSE virt[v]
  BY DEF Release
<1>4. \A v \in Virts : virt'[v] = "OK" => v \notin V /\ v \notin D /\ virt[v] = "OK"
  BY <1>3 DEF FreeHelper, Renew
<1>5. \A v \in Virts \ (V \cup D) : /\ connected_through'[v] = connected_through[v]
                                    /\ attr_mac'[v] = attr_mac[v]
                                    /\ attr_rate'[v] = attr_rate[v]
  BY <1>2 DEF Release
<1> HIDE DEF idle
<1>6. \A a \in PAs : /\ pa'[a] = "OK" => pa[a] = "OK"
                     /\ pa'[a] = "NEW" => pa[a] \in {"none", "NEW"}
  BY <1>1 DEF FreeHelper
<1> QED
  BY <1>4, <1>5, <1>6

LEMMA EditMovesOn ==
  ASSUME IInv, Edit
  PROVE  EditMoves
<1> USE DEF IInv, TypeOK, ObjTypes, UserTypes, BookTypes, EditMoves
<1>1. ASSUME NEW s \in Settings, SettingsNew(s) PROVE EditMoves
  BY <1>1 DEF SettingsNew, physAttr, virtAttr, linkVars, bookVars
<1>2. ASSUME NEW s \in Settings, SettingsFree(s) PROVE EditMoves
  <2> DEFINE users == {n \in Nets : net[n] # "none" /\ NetSettings[n] = s}
  <2>1. /\ Release(VirtsIn(users), {}, Physes \X users)
        /\ UNCHANGED <<phys, physAttr, bookVars>>
    BY <1>2 DEF SettingsFree
  <2> QED
    BY <2>1, ReleaseMoves DEF physAttr, bookVars
<1>3. ASSUME NEW n \in Nets, NetNew(n) PROVE EditMoves
  BY <1>3 DEF NetNew, physAttr, virtAttr, linkVars, bookVars
<1>4. ASSUME NEW n \in Nets, NetFree(n) PROVE EditMoves
  <2>1. /\ Release(VirtsIn({n}), {}, Physes \X {n})
        /\ UNCHANGED <<phys, physAttr, bookVars>>
    BY <1>4 DEF NetFree
  <2> QED
    BY <2>1, ReleaseMoves DEF physAttr, bookVars
<1>5. ASSUME NEW p \in Physes, PhysNew(p) PROVE EditMoves
  BY <1>5 DEF PhysNew, physAttr, virtAttr, linkVars, bookVars
<1>6. ASSUME NEW p \in Physes, PhysFree(p) PROVE EditMoves
  <2>1. /\ Release({}, VirtsThrough({p}), {p} \X Nets)
        /\ phys' = [phys EXCEPT ![p] = FreeHelper(@)]
        /\ ResetPhys({q \in {p} : phys[q] = "NEW"})
    BY <1>6 DEF PhysFree
  <2>2. \A q \in Physes : /\ phys'[q] = "OK" => q # p /\ phys[q] = "OK"
                          /\ q # p => /\ attr_iface'[q] = attr_iface[q]
                                      /\ attr_ip'[q] = attr_ip[q]
                          /\ committed_as_local'[q] => committed_as_local[q]
    BY <2>1 DEF FreeHelper, ResetPhys
  <2> QED
    BY <2>1, <2>2, ReleaseMoves
<1>7. ASSUME NEW p \in Physes, PhysEdit(p), \A q \in Physes \ {p} : /\ attr_iface'[q] = attr_iface[q]
                                                                    /\ attr_ip'[q] = attr_ip[q],
             \/ phys'[p] # "OK"
             \/ UNCHANGED <<attr_iface, attr_ip>>
      PROVE  EditMoves
  BY <1>7 DEF PhysEdit, Renew, virtAttr, linkVars, bookVars
<1>8. ASSUME NEW p \in Physes, ClaimLocal(p) \/ UnclaimLocal(p) PROVE EditMoves
  BY <1>7, <1>8 DEF ClaimLocal, UnclaimLocal
<1>9. ASSUME NEW p \in Physes,
             \/ \E x \in Ifaces \cup {NULL} : PhysSetIface(p, x)
             \/ \E x \in Ips \cup {NULL} : PhysSetIp(p, x)
      PROVE  EditMoves
  <2>1. PhysEdit(p) /\ phys'[p] # "OK"
    BY <1>9 DEF PhysSetIface, PhysSetIp, PhysEdit, Renew
  <2>2. \A q \in Physes \ {p} : attr_iface'[q] = attr_iface[q] /\ attr_ip'[q] = attr_ip[q]
    BY <1>9 DEF PhysSetIface, PhysSetIp
  <2> QED
    BY <2>1, <2>2, <1>7
<1>10. ASSUME NEW v \in Virts, VirtNew(v) PROVE EditMoves
  BY <1>10 DEF VirtNew, physAttr, virtAttr, linkVars, bookVars
<1>11. ASSUME NEW v \in Virts, VirtFree(v) PROVE EditMoves
  BY <1>11, ReleaseMoves DEF VirtFree, physAttr, bookVars
<1>12. ASSUME NEW v \in Virts, VirtDisconnect(v) PROVE EditMoves
  BY <1>12 DEF VirtDisconnect, Renew, physAttr, virtAttr, bookVars
<1>13. ASSUME NEW p \in Physes, NEW n \in Nets, PhysAttach(p, n) PROVE EditMoves
  <2>1. <<p, n>> \in PAs
    BY DEF PAs
  <2> QED
    BY <2>1, <1>13 DEF PhysAttach, FindOrCreate, Renew, physAttr, virtAttr, bookVars
<1>14. ASSUME NEW p \in Physes, NEW n \in Nets, PhysDetach(p, n) PROVE EditMoves
  BY <1>14, ReleaseMoves DEF PhysDetach, physAttr, bookVars
<1>15. ASSUME NEW v \in Virts, NEW p \in Physes, VirtConnect(v, p) PROVE EditMoves
  <2>1. <<p, VirtNet[v]>> \in PAs
    BY NetApiAssumption DEF PAs
  <2> QED
    BY <2>1, <1>15 DEF VirtConnect, FindOrCreate, Renew, physAttr, virtAttr, bookVars
<1>16. ASSUME NEW v \in Virts,
              \/ \E x \in Macs \cup {NULL} : VirtSetMac(v, x)
              \/ \E d \in Dirs, x \in Rates \cup {NULL} : VirtSetRate(v, d, x)
       PROVE  EditMoves
  <2>1. VirtEdit(v) /\ virt'[v] # "OK"
    BY <1>16 DEF VirtSetMac, VirtSetRate, VirtEdit, Renew
  <2>2. \A w \in Virts \ {v} : attr_mac'[w] = attr_mac[w] /\ attr_rate'[w] = attr_rate[w]
    BY <1>16 DEF VirtSetMac, VirtSetRate
  <2> QED
    BY <2>1, <2>2 DEF VirtEdit, Renew, physAttr, linkVars, bookVars
<1>17. ASSUME ContextCleanup PROVE EditMoves
  <2>1. \A v \in Virts : virt'[v] # "OK"
    BY <1>17 DEF ContextCleanup, FreeHelper
  <2>2. \A a \in PAs : pa'[a] \notin {"OK", "NEW"}
    BY <1>17 DEF ContextCleanup, FreeHelper
  <2>3. \A p \in Physes : phys'[p] # "OK" /\ (committed_as_local'[p] => committed_as_local[p])
    BY <1>17 DEF ContextCleanup, FreeHelper, ResetPhys
  <2> QED
    BY <2>1, <2>2, <2>3
<1> QED
  BY <1>1, <1>2, <1>3, <1>4, <1>5, <1>6, <1>8, <1>9, <1>10, <1>11, <1>12, <1>13, <1>14, <1>15,
     <1>16, <1>17 DEF Edit

LEMMA ValidationMoves ==
  ASSUME IInv, Validation
  PROVE  EditMoves
<1>1. \A a \in PAs : pa'[a] = PropagatedPa[a]
  BY DEF Validation
<1>2. \A v \in Virts : virt'[v] = PropagatedVirt[v]
  BY DEF Validation
<1>3. \A a \in PAs : PropagatedPa[a] = "RENEW" \/ PropagatedPa[a] = pa[a]
  BY DEF PropagatedPa, Propagate
<1>4. \A v \in Virts : PropagatedVirt[v] = "RENEW" \/ PropagatedVirt[v] = virt[v]
  BY DEF PropagatedVirt, Propagate
<1> QED
  BY <1>1, <1>2, <1>3, <1>4 DEF Validation, EditMoves, userVars, physAttr, virtAttr, linkVars,
     bookVars

\* Something is installed for the object.
PaHas(a) == a \in Keys("pa") \/ \E r \in rpas : r[2] = a[1] /\ r[3] = a[2]

VirtHas(v) == committed_to[v] # NULL \/ \E rv \in rvirts : rv[3] = v

LEMMA PaHasIs ==
  ASSUME IInv, NEW a \in PAs, PaHas(a)
  PROVE  \/ pa[a] \in Installed
         \/ pc = "decommit" /\ dp = a
         \/ Recommit /\ pa[a] = "NEW"
<1>1. CASE a \in Keys("pa")
  BY <1>1 DEF IInv, Books, PaSet, HasPa, Made, Visited
<1>2. ASSUME NEW r \in rpas, r[2] = a[1], r[3] = a[2]
      PROVE  \/ pa[a] \in Installed
             \/ pc = "decommit" /\ dp = a
             \/ Recommit /\ pa[a] = "NEW"
  <2>1. <<r[2], r[3]>> = a
    BY <1>2, PaPair
  <2> QED
    BY <1>2, <2>1 DEF IInv, Books, RpaSet, PastRemote, Visited
<1> QED
  BY <1>1, <1>2 DEF PaHas

LEMMA VirtHasIs ==
  ASSUME IInv, NEW v \in Virts, VirtHas(v)
  PROVE  \/ virt[v] \in Installed
         \/ dv = v
         \/ Recommit /\ virt[v] = "NEW"
<1>1. CASE committed_to[v] # NULL
  BY <1>1 DEF IInv, Books, VirtSet, PastVirt, Visited
<1>2. ASSUME NEW rv \in rvirts, rv[3] = v
      PROVE  virt[v] \in Installed \/ dv = v \/ (Recommit /\ virt[v] = "NEW")
  BY <1>2 DEF IInv, Books, RvirtSet, PastRemoteVirt, Visited
<1> QED
  BY <1>1, <1>2 DEF VirtHas

\* The facts in the kernel are about something.
LEMMA FactHas ==
  ASSUME IInv, NEW f \in kernel
  PROVE  /\ f[1] \in {"pa", "virt", "rate", "rpa", "rvirt"} /\ f = <<f[1], f[2], f[3]>>
         /\ f[1] = "pa" => /\ f[2] \in PAs /\ PaHas(f[2])
         /\ f[1] = "virt" => /\ f[2] \in Virts /\ committed_to[f[2]] # NULL /\ VirtHas(f[2])
                             /\ f[3] = <<f[3][1], f[3][2]>>
         /\ f[1] = "rate" => /\ f[2] \in policing /\ f[2] \in Virts \X Dirs
                             /\ committed_to[f[2][1]] # NULL /\ VirtHas(f[2][1])
         /\ f[1] = "rpa" => /\ f[2] \in rpas /\ f[2] \in Physes \X Physes \X Nets
                            /\ PaHas(<<f[2][2], f[2][3]>>) /\ <<f[2][2], f[2][3]>> \in PAs
         /\ f[1] = "rvirt" => /\ f[2] \in rvirts /\ f[2] \in Physes \X Physes \X Virts
                              /\ VirtHas(f[2][3])
<1>1. f \in AllFacts /\ f[2] \in Keys(f[1])
  BY DEF IInv, TypeOK, BookTypes, Keys
<1>2. /\ f[1] \in {"pa", "virt", "rate", "rpa", "rvirt"} /\ f = <<f[1], f[2], f[3]>>
      /\ f[1] = "pa" => f[2] \in PAs
      /\ f[1] = "virt" => f[2] \in Virts /\ f[3] = <<f[3][1], f[3][2]>>
      /\ f[1] = "rate" => f[2] \in Virts \X Dirs
      /\ f[1] = "rpa" => f[2] \in Physes \X Physes \X Nets
      /\ f[1] = "rvirt" => f[2] \in Physes \X Physes \X Virts
  BY <1>1 DEF AllFacts
<1>3. /\ f[1] = "rpa" => f[2] \in rpas
      /\ f[1] = "rvirt" => f[2] \in rvirts
      /\ f[1] = "rate" => f[2] \in policing
      /\ f[1] = "virt" => committed_to[f[2]] # NULL
  BY <1>1, <1>2 DEF IInv, Books, BooksMatchKernel
<1>4. f[1] = "rate" => committed_to[f[2][1]] # NULL
  BY <1>3 DEF IInv, Books, RateSet
<1>5. f[1] = "rpa" => <<f[2][2], f[2][3]>> \in PAs
  BY <1>2 DEF PAs
<1>6. f[1] = "pa" => PaHas(f[2])
  BY <1>1 DEF PaHas
<1>7. f[1] = "rpa" => PaHas(<<f[2][2], f[2][3]>>)
  BY <1>3 DEF PaHas
<1>8. f[1] = "rvirt" => VirtHas(f[2][3])
  BY <1>3 DEF VirtHas
<1> QED
  BY <1>2, <1>3, <1>4, <1>5, <1>6, <1>7, <1>8 DEF VirtHas

LEMMA CurrentKept ==
  ASSUME IInv, FactsCurrent,
         \A f \in kernel' : f \in kernel \/ IsCurrent(f)',
         \A a \in PAs : PaHas(a) /\ PaStays(a)' =>
           PaStays(a) /\ attr_iface'[a[1]] = attr_iface[a[1]] /\ attr_ip'[a[1]] = attr_ip[a[1]],
         \A v \in Virts : VirtHas(v) /\ VirtStays(v)' =>
           VirtStays(v) /\ attr_mac'[v] = attr_mac[v] /\ attr_rate'[v] = attr_rate[v]
  PROVE  FactsCurrent'
<1> SUFFICES ASSUME NEW f \in kernel', f \in kernel PROVE IsCurrent(f)'
  BY DEF FactsCurrent
<1>1. IsCurrent(f)
  BY DEF FactsCurrent
<1>2. PaCurrent(f)'
  BY <1>1, FactHas DEF IsCurrent, PaCurrent
<1>3. VirtCurrent(f)'
  BY <1>1, FactHas DEF IsCurrent, VirtCurrent
<1>4. RateCurrent(f)'
  <2>1. f[1] = "rate" => f[2][1] \in Virts /\ VirtHas(f[2][1])
    BY FactHas
  <2> QED
    BY <2>1, <1>1 DEF IsCurrent, RateCurrent
<1>5. RpaCurrent(f)'
  <2>1. f[1] = "rpa" => PaHas(<<f[2][2], f[2][3]>>) /\ <<f[2][2], f[2][3]>> \in PAs
    BY FactHas
  <2> QED
    BY <2>1, <1>1 DEF IsCurrent, RpaCurrent
<1>6. RvirtCurrent(f)'
  <2>1. f[1] = "rvirt" => f[2][3] \in Virts /\ VirtHas(f[2][3])
    BY FactHas
  <2> QED
    BY <2>1, <1>1 DEF IsCurrent, RvirtCurrent
<1> QED
  BY <1>2, <1>3, <1>4, <1>5, <1>6 DEF IsCurrent

\* An edit or a validation.
LEMMA EditCurrent ==
  ASSUME IInv, IInv', FactsCurrent, EditMoves, UNCHANGED kernel, pc = "idle",
         pc' \in {"idle", "decommit"}
  PROVE  FactsCurrent'
<1>1. ~Recommit /\ ~Recommit'
  BY DEF Recommit
<1>2. ASSUME NEW a \in PAs, PaHas(a), PaStays(a)'
      PROVE  PaStays(a) /\ attr_iface'[a[1]] = attr_iface[a[1]] /\ attr_ip'[a[1]] = attr_ip[a[1]]
  <2>1. pa'[a] = "OK" /\ phys'[a[1]] # "RENEW" /\ a[1] \in Physes
    BY <1>1, <1>2, PaPair DEF PaStays
  <2>2. phys'[a[1]] = "OK"
    BY <2>1, <1>1 DEF IInv, Objects, States, Settled, Owned, Dying, Fresh, Alloc, Live
  <2> QED
    BY <2>1, <2>2 DEF EditMoves, PaStays
<1>3. ASSUME NEW v \in Virts, VirtHas(v), VirtStays(v)'
      PROVE  VirtStays(v) /\ attr_mac'[v] = attr_mac[v] /\ attr_rate'[v] = attr_rate[v]
  BY <1>1, <1>3 DEF VirtStays, EditMoves
<1> QED
  BY <1>2, <1>3, CurrentKept

\* A step of the commit other than the ends of its two phases.
CommitMoves ==
  /\ UNCHANGED <<phys, attr_iface, attr_ip>>
  /\ Recommit' <=> Recommit
  /\ \A a \in PAs : /\ pa'[a] = "OK" => pa[a] = "OK"
                    /\ Recommit /\ pa'[a] = "NEW" => pa[a] = "NEW"
                    /\ pa[a] = "OK" => pa'[a] # "NEW"
  /\ \A v \in Virts : virt'[v] = "OK" \/ (Recommit /\ virt'[v] = "NEW") =>
       /\ virt[v] = virt'[v] /\ connected_through'[v] = connected_through[v]
       /\ attr_mac'[v] = attr_mac[v] /\ attr_rate'[v] = attr_rate[v]

LEMMA StepMoves ==
  ASSUME IInv, Clean, CommitStep, ~DecommitEnd, ~CommitEnd
  PROVE  CommitMoves
<1> USE CleanResults, NoMark DEF CommitMoves, IInv, TypeOK, ObjTypes, userVars, physAttr, virtAttr,
        linkVars, Recommit, MarkCommitErr
<1>1. ASSUME NEW v \in Virts, DecommitVirt(v) PROVE CommitMoves
  BY <1>1 DEF DecommitVirt, AckDecommit, Running
<1>2. ASSUME NEW v \in Virts, AddVirt(v) PROVE CommitMoves
  BY <1>2 DEF AddVirt, Running
<1>3. ASSUME NEW v \in Virts, AddRemoteVirt(v) PROVE CommitMoves
  BY <1>3 DEF AddRemoteVirt, Running
<1>4. ASSUME NEW v \in Virts, AddVirtNoMem(v) \/ AddRemoteVirtNoMem(v) PROVE CommitMoves
  BY <1>4 DEF AddVirtNoMem, AddRemoteVirtNoMem
<1>5. ASSUME RemoveRates PROVE CommitMoves
  <2>1. dv \in Virts
    BY <1>5, NotOk DEF RemoveRates
  <2> QED
    BY <1>5, <2>1 DEF RemoveRates
<1>6. ASSUME NEW rv \in rvirts, RemoveRemoteVirt(rv) PROVE CommitMoves
  BY <1>6 DEF RemoveRemoteVirt, BookTypes
<1>7. ASSUME RemoveVirt PROVE CommitMoves
  <2> DEFINE gone == Deleted({dv})
             idle == FreeablePas({}, gone)
  <2>1. dv \in Virts
    BY <1>7, NotOk DEF RemoveVirt
  <2>2. /\ virt' = [virt EXCEPT ![dv] = IF gone = {} THEN virt[dv] ELSE "none"]
        /\ pa' = [a \in PAs |-> IF a \in idle THEN FreeHelper(pa[a]) ELSE pa[a]]
        /\ connected_through' = [v \in Virts |-> IF v \in gone THEN NULL ELSE connected_through[v]]
        /\ attr_mac' = [v \in Virts |-> IF v \in gone THEN NULL ELSE attr_mac[v]]
        /\ attr_rate' = [v \in Virts |-> IF v \in gone THEN NoRates ELSE attr_rate[v]]
        /\ UNCHANGED <<phys, physAttr, pc>>
    BY <1>7 DEF RemoveVirt
  <2>3. gone \subseteq {dv}
    BY DEF Deleted
  <2> HIDE DEF gone, idle
  <2> QED
    BY <2>1, <2>2, <2>3 DEF FreeHelper
<1>8. ASSUME NEW a \in PAs, DecommitPa(a) PROVE CommitMoves
  BY <1>8 DEF DecommitPa, AckDecommit, Running
<1>9. ASSUME NEW a \in PAs, CreatePa(a) PROVE CommitMoves
  BY <1>9 DEF CreatePa, Running
<1>10. ASSUME NEW r \in rpas, RemoveRemotePa(r) PROVE CommitMoves
  <2>1. <<r[2], r[3]>> \in PAs
    BY DEF BookTypes, PAs
  <2> QED
    BY <1>10, <2>1 DEF RemoveRemotePa, RpaRemoval
<1>11. ASSUME DestroyPa PROVE CommitMoves
  <2>1. dp \in PAs
    BY <1>11, NotOk DEF DestroyPa
  <2> QED
    BY <1>11, <2>1 DEF DestroyPa
<1>12. ASSUME NEW n \in Nets, DecommitNet(n) PROVE CommitMoves
  BY <1>12 DEF DecommitNet, apiVars, objVars
<1>13. ASSUME DecommitNetEnd PROVE CommitMoves
  BY <1>13 DEF DecommitNetEnd
<1>14. ASSUME NEW p \in Physes, CommitPhys(p) PROVE CommitMoves
  BY <1>14 DEF CommitPhys, objVars
<1>15. ASSUME CommitRates PROVE CommitMoves
  BY <1>15 DEF CommitRates, RatesEnd
<1>16. ASSUME CommitRatesNoMem PROVE CommitMoves
  <2>1. cv \in Virts
    BY <1>16 DEF CommitRatesNoMem, RatesEnd, LoopTypes, OrNull
  <2> QED
    BY <1>16, <2>1 DEF CommitRatesNoMem, RatesEnd
<1>17. ASSUME CommitRatesUndoFails PROVE CommitMoves
  BY <1>17 DEF CommitRatesUndoFails
<1>18. ASSUME NEW q \in Physes, AddRemotePa(q) PROVE CommitMoves
  <2>1. <<q, cur[2]>> \in PAs
    BY <1>18 DEF AddRemotePa, Running, LoopTypes, PAs
  <2> QED
    BY <1>18, <2>1 DEF AddRemotePa, Running
<1>19. ASSUME \/ \E q \in Physes : AddRemotePaNoMem(q) \/ SkipRemotePa(q)
              \/ \E v \in Virts : SkipRemoteVirt(v)
              \/ CommitRemotes \/ CommitRemoteVirts \/ CommitPaEnd
       PROVE  CommitMoves
  BY <1>19 DEF AddRemotePaNoMem, SkipRemotePa, SkipRemoteVirt, CommitRemotes, CommitRemoteVirts,
     CommitPaEnd, apiVars, objVars, Running
<1> QED
  BY <1>1, <1>2, <1>3, <1>4, <1>5, <1>6, <1>7, <1>8, <1>9, <1>10, <1>11, <1>12, <1>13, <1>14,
     <1>15, <1>16, <1>17, <1>18, <1>19 DEF CommitStep

\* What a step of the commit adds to the kernel.
LEMMA StepAdds ==
  ASSUME IInv, Clean, CommitStep, NEW f \in kernel' \ kernel
  PROVE  \/ \E a \in pas : CreatePa(a) /\ f = PaFact(a)
         \/ \E v \in todo : AddVirt(v) /\ f = VirtFact(v)
         \/ \E d \in Wanted(cv) : CommitRates /\ f = RateFact(cv, d)
         \/ \E q \in todo : AddRemotePa(q) /\ f = RpaFact(<<cur[1], q, cur[2]>>)
         \/ \E v \in todo : AddRemoteVirt(v) /\ f = RvirtFact(<<cur[1], connected_through[v], v>>)
<1> USE CleanResults
<1>1. ASSUME NEW v \in Virts, AddVirt(v) PROVE v \in todo /\ f = VirtFact(v)
  BY <1>1 DEF AddVirt, Added
<1>2. ASSUME NEW v \in Virts, AddRemoteVirt(v)
      PROVE  v \in todo /\ f = RvirtFact(<<cur[1], connected_through[v], v>>)
  BY <1>2 DEF AddRemoteVirt, Added
<1>3. ASSUME NEW a \in PAs, CreatePa(a) PROVE a \in pas /\ f = PaFact(a)
  BY <1>3 DEF CreatePa, Added
<1>4. ASSUME NEW q \in Physes, AddRemotePa(q)
      PROVE  q \in todo /\ f = RpaFact(<<cur[1], q, cur[2]>>)
  BY <1>4 DEF AddRemotePa, Added
<1>5. ASSUME CommitRates PROVE \E d \in Wanted(cv) : f = RateFact(cv, d)
  BY <1>5 DEF CommitRates
<1>6. ~RemoveRates /\ ~RemoveVirt /\ ~DestroyPa /\ ~CommitRatesNoMem /\ ~CommitRatesUndoFails
  BY DEF RemoveRates, RemoveVirt, DestroyPa, CommitRatesNoMem, CommitRatesUndoFails, Removed, Without
<1>7. /\ \A rv \in rvirts : ~RemoveRemoteVirt(rv)
      /\ \A r \in rpas : ~RemoveRemotePa(r)
  BY DEF RemoveRemoteVirt, RemoveRemotePa, Removed, Without
<1>8. /\ \A v \in Virts : ~DecommitVirt(v) /\ ~AddVirtNoMem(v) /\ ~SkipRemoteVirt(v)
                          /\ ~AddRemoteVirtNoMem(v)
      /\ \A a \in PAs : ~DecommitPa(a)
      /\ \A n \in Nets : ~DecommitNet(n)
      /\ \A q \in Physes : ~CommitPhys(q) /\ ~SkipRemotePa(q) /\ ~AddRemotePaNoMem(q)
      /\ ~DecommitNetEnd /\ ~DecommitEnd /\ ~CommitRemotes /\ ~CommitRemoteVirts
      /\ ~CommitPaEnd /\ ~CommitEnd
  BY DEF DecommitVirt, AddVirtNoMem, SkipRemoteVirt, AddRemoteVirtNoMem, DecommitPa, DecommitNet,
     CommitPhys, SkipRemotePa, AddRemotePaNoMem, DecommitNetEnd, DecommitEnd, CommitRemotes,
     CommitRemoteVirts, CommitPaEnd, CommitEnd
<1> QED
  BY <1>1, <1>2, <1>3, <1>4, <1>5, <1>6, <1>7, <1>8 DEF CommitStep

LEMMA AddedCurrent ==
  ASSUME IInv, Clean, CommitStep, NEW f \in kernel' \ kernel
  PROVE  IsCurrent(f)'
<1> USE DEF IsCurrent, PaCurrent, VirtCurrent, RateCurrent, RpaCurrent, RvirtCurrent
<1>1. ASSUME NEW a \in pas, CreatePa(a), f = PaFact(a) PROVE IsCurrent(f)'
  <2>1. UNCHANGED <<attr_iface, attr_ip>>
    BY <1>1 DEF CreatePa, userVars, physAttr
  <2>2. f[1] = "pa" /\ f[2] = a /\ f[3] = <<attr_iface[a[1]], attr_ip[a[1]]>>
    BY <1>1 DEF PaFact
  <2> QED
    BY <2>1, <2>2
<1>2. ASSUME NEW v \in todo, AddVirt(v), f = VirtFact(v) PROVE IsCurrent(f)'
  <2>1. UNCHANGED attr_mac
    BY <1>2 DEF AddVirt, userVars, virtAttr
  <2>2. f[1] = "virt" /\ f[2] = v /\ f[3][2] = attr_mac[v]
    BY <1>2 DEF VirtFact
  <2> QED
    BY <2>1, <2>2
<1>3. ASSUME NEW d \in Wanted(cv), CommitRates, f = RateFact(cv, d) PROVE IsCurrent(f)'
  <2>1. UNCHANGED attr_rate
    BY <1>3 DEF CommitRates, RatesEnd, userVars, virtAttr
  <2>2. f[1] = "rate" /\ f[2] = <<cv, d>> /\ f[3] = attr_rate[cv][d] /\ attr_rate[cv][d] # NULL
    BY <1>3 DEF RateFact, Wanted
  <2> QED
    BY <2>1, <2>2
<1>4. ASSUME NEW q \in todo, AddRemotePa(q), f = RpaFact(<<cur[1], q, cur[2]>>)
      PROVE  IsCurrent(f)'
  <2>1. UNCHANGED attr_ip
    BY <1>4 DEF AddRemotePa, userVars, physAttr
  <2>2. f[1] = "rpa" /\ f[2] = <<cur[1], q, cur[2]>> /\ f[3] = attr_ip[q]
    BY <1>4 DEF RpaFact
  <2> QED
    BY <2>1, <2>2
<1>5. ASSUME NEW v \in todo, AddRemoteVirt(v), f = RvirtFact(<<cur[1], connected_through[v], v>>)
      PROVE  IsCurrent(f)'
  <2>1. UNCHANGED attr_mac
    BY <1>5 DEF AddRemoteVirt, userVars, virtAttr
  <2>2. f[1] = "rvirt" /\ f[2] = <<cur[1], connected_through[v], v>> /\ f[3] = attr_mac[v]
    BY <1>5 DEF RvirtFact
  <2> QED
    BY <2>1, <2>2
<1> QED
  BY <1>1, <1>2, <1>3, <1>4, <1>5, StepAdds

LEMMA CommitCurrent ==
  ASSUME IInv, Clean, CommitStep, FactsCurrent
  PROVE  FactsCurrent'
<1>1. \A f \in kernel' : f \in kernel \/ IsCurrent(f)'
  BY AddedCurrent
<1>2. CASE ~DecommitEnd /\ ~CommitEnd
  <2>1. CommitMoves
    BY <1>2, StepMoves
  <2>2. \A a \in PAs : PaStays(a)' =>
          PaStays(a) /\ attr_iface'[a[1]] = attr_iface[a[1]] /\ attr_ip'[a[1]] = attr_ip[a[1]]
    BY <2>1 DEF CommitMoves, PaStays
  <2>3. \A v \in Virts : VirtStays(v)' =>
          VirtStays(v) /\ attr_mac'[v] = attr_mac[v] /\ attr_rate'[v] = attr_rate[v]
    BY <2>1 DEF CommitMoves, VirtStays
  <2> QED
    BY <1>1, <2>2, <2>3, CurrentKept
<1>3. CASE DecommitEnd
  <2>1. /\ pc = "decommit" /\ ~Recommit /\ dv = NULL /\ dp = NULL /\ cur = NULL /\ left = {}
        /\ UNCHANGED <<pa, virt, attr_mac, attr_rate>>
        /\ ResetPhys({p \in Physes : phys[p] = "DELETE"})
    BY <1>3 DEF DecommitEnd, Running, Recommit, virtAttr
  <2>2. ASSUME NEW a \in PAs, PaHas(a)
        PROVE  PaStays(a) /\ attr_iface'[a[1]] = attr_iface[a[1]] /\ attr_ip'[a[1]] = attr_ip[a[1]]
    <3>1. pa[a] \in Installed /\ a[1] \in Physes /\ a[2] \in Nets
      BY <2>1, <2>2, PaHasIs, NotNull, PaPair
    <3>2. pa[a] = "OK"
      BY <2>1, <3>1, NotNull DEF IInv, Loops, Decommitting, NeedsDecommit, Installed
    <3>3. phys[a[1]] \notin {"RENEW", "DELETE"}
      BY <2>1, <3>1, <3>2 DEF IInv, Loops, Propagated, Objects, Dying, Live
    <3> QED
      BY <2>1, <3>1, <3>2, <3>3 DEF PaStays, ResetPhys
  <2>3. ASSUME NEW v \in Virts, VirtHas(v)
        PROVE  VirtStays(v) /\ attr_mac'[v] = attr_mac[v] /\ attr_rate'[v] = attr_rate[v]
    <3>1. virt[v] \in Installed /\ VirtNet[v] \in Nets
      BY <2>1, <2>3, VirtHasIs, NotNull, NetApiAssumption
    <3>2. virt[v] = "OK"
      BY <2>1, <3>1, NotNull DEF IInv, Loops, Decommitting, NeedsDecommit, Installed
    <3> QED
      BY <2>1, <3>2 DEF VirtStays
  <2> QED
    BY <1>1, <2>2, <2>3, CurrentKept
<1>4. CASE CommitEnd
  <2>1. /\ pc = "commit" /\ Recommit /\ dv = NULL /\ dp = NULL
        /\ UNCHANGED <<attr_mac, attr_rate, attr_iface, attr_ip>>
    BY <1>4 DEF CommitEnd, Running, Recommit, userVars, physAttr, virtAttr
  <2>2. ASSUME NEW a \in PAs, PaHas(a) PROVE PaStays(a)
    <3>1. (pa[a] \in Installed \/ pa[a] = "NEW") /\ a[1] \in Physes
      BY <2>1, <2>2, PaHasIs, NotNull, PaPair
    <3> QED
      BY <2>1, <3>1 DEF PaStays, IInv, Objects, States, Settled, Tried, Installed
  <2>3. ASSUME NEW v \in Virts, VirtHas(v) PROVE VirtStays(v)
    <3>1. virt[v] \in Installed \/ virt[v] = "NEW"
      BY <2>1, <2>3, VirtHasIs, NotNull
    <3> QED
      BY <2>1, <3>1 DEF VirtStays, IInv, Objects, States, Tried, Installed
  <2> QED
    BY <1>1, <2>1, <2>2, <2>3, CurrentKept
<1> QED
  BY <1>2, <1>3, <1>4

-----------------------------------------------------------------------------
(***************************************************************************)
(* The result of the commit, and the end of the context.                   *)
(***************************************************************************)

\* A commit is under way until CommitEnd.
LEMMA StepRuns ==
  ASSUME IInv, CommitStep
  PROVE  /\ pc # "idle"
         /\ CommitEnd \/ (UNCHANGED <<ret, life>> /\ pc' # "idle")
<1>0. pc = "idle" => dv = NULL /\ dp = NULL
  BY DEF IInv, Loops, Idle
<1>1. ASSUME NEW v \in Virts,
             DecommitVirt(v) \/ AddVirt(v) \/ AddVirtNoMem(v)
             \/ SkipRemoteVirt(v) \/ AddRemoteVirt(v) \/ AddRemoteVirtNoMem(v)
      PROVE  pc # "idle" /\ UNCHANGED <<ret, life, pc>>
  BY <1>1 DEF DecommitVirt, AddVirt, AddVirtNoMem, SkipRemoteVirt, AddRemoteVirt,
     AddRemoteVirtNoMem, Running, ctxVars, apiVars
<1>2. ASSUME RemoveRates \/ RemoveVirt \/ DestroyPa PROVE pc # "idle" /\ UNCHANGED <<ret, life, pc>>
  BY <1>0, <1>2 DEF RemoveRates, RemoveVirt, DestroyPa, ctxVars
<1>3. ASSUME NEW rv \in rvirts, RemoveRemoteVirt(rv) PROVE pc # "idle" /\ UNCHANGED <<ret, life, pc>>
  BY <1>0, <1>3 DEF RemoveRemoteVirt, RpasToRemove, ctxVars
<1>4. ASSUME NEW r \in rpas, RemoveRemotePa(r) PROVE pc # "idle" /\ UNCHANGED <<ret, life, pc>>
  BY <1>0, <1>4 DEF RemoveRemotePa
<1>5. ASSUME NEW a \in PAs, DecommitPa(a) \/ CreatePa(a)
      PROVE  pc # "idle" /\ pc' # "idle" /\ UNCHANGED <<ret, life>>
  BY <1>5 DEF DecommitPa, CreatePa, Running, ctxVars
<1>6. ASSUME \/ \E n \in Nets : DecommitNet(n)
             \/ \E p \in Physes : CommitPhys(p) \/ SkipRemotePa(p) \/ AddRemotePa(p)
                                  \/ AddRemotePaNoMem(p)
             \/ DecommitNetEnd \/ DecommitEnd \/ CommitRemotes \/ CommitRemoteVirts \/ CommitPaEnd
      PROVE  pc # "idle" /\ pc' # "idle" /\ UNCHANGED <<ret, life>>
  BY <1>6 DEF DecommitNet, CommitPhys, SkipRemotePa, AddRemotePa, AddRemotePaNoMem, DecommitNetEnd,
     DecommitEnd, CommitRemotes, CommitRemoteVirts, CommitPaEnd, Running, ctxVars, apiVars
<1>7. ASSUME CommitRates \/ CommitRatesNoMem \/ CommitRatesUndoFails
      PROVE  pc # "idle" /\ pc' # "idle" /\ UNCHANGED <<ret, life>>
  BY <1>7 DEF CommitRates, CommitRatesNoMem, CommitRatesUndoFails, RatesEnd, Running, ctxVars
<1>8. ASSUME CommitEnd PROVE pc # "idle"
  BY <1>8 DEF CommitEnd, Running
<1> QED
  BY <1>1, <1>2, <1>3, <1>4, <1>5, <1>6, <1>7, <1>8 DEF CommitStep

LEMMA CommitReturned ==
  ASSUME IInv, CommitStep, Returned
  PROVE  Returned'
<1>1. CASE CommitEnd
  <2>1. pc = "commit" /\ pc' = "idle" /\ Recommit
    BY <1>1 DEF CommitEnd, Running, Recommit
  <2>2. AllIn({"none", "NEW", "OK", "ERR"})
    BY <2>1 DEF IInv, Objects, States, Settled, Tried, AllIn
  <2>3. AllIn({"none", "NEW", "OK"})'
    BY <1>1, <2>2 DEF CommitEnd, AllIn, AckState
  <2> QED
    BY <2>1, <2>3 DEF Returned
<1>2. CASE ~CommitEnd
  <2>1. pc # "idle" /\ ret = "NONE" /\ ret' = "NONE" /\ pc' # "idle"
    BY <1>2, StepRuns DEF Returned
  <2> QED
    BY <2>1 DEF Returned
<1> QED
  BY <1>1, <1>2

LEMMA EditReturned ==
  ASSUME Client \/ Call, Returned
  PROVE  Returned'
<1>1. CASE Client
  <2>1. ret' = "NONE"
    BY <1>1 DEF Client, Edit, SettingsNew, SettingsFree, NetNew, NetFree, PhysNew, PhysFree,
       ClaimLocal, UnclaimLocal, VirtNew, VirtFree, VirtDisconnect, PhysAttach, PhysDetach,
       VirtConnect, PhysSetIface, PhysSetIp, VirtSetMac, VirtSetRate, ContextCleanup, PhysEdit,
       VirtEdit, Editing
  <2> QED
    BY <2>1 DEF Returned
<1>2. CASE Call
  <2>1. /\ pc = "idle" /\ ret' \in {"NONE", "VALIDATE", "NETLINK"}
        /\ pc' = "idle" \/ ret' = "NONE"
    BY <1>2 DEF Call, ValidateFails, ValidatePasses, CommitNoSocket, CommitBegin, Calling, Return
  <2> QED
    BY <2>1 DEF Returned
<1> QED
  BY <1>1, <1>2

\* Only lsdn_context_cleanup closes the context, and it frees everything.
LEMMA EditClosing ==
  ASSUME Client, Closing
  PROVE  Closing'
<1>1. CASE ContextCleanup
  <2>1. AllIn({"none", "DELETE"})'
    BY <1>1 DEF ContextCleanup, AllIn, FreeHelper
  <2> QED
    BY <1>1, <2>1 DEF ContextCleanup, Closing
<1>2. CASE ~ContextCleanup
  <2>1. life = "open" /\ life' = life
    BY <1>2 DEF Client, Edit, SettingsNew, SettingsFree, NetNew, NetFree, PhysNew, PhysFree,
       ClaimLocal, UnclaimLocal, VirtNew, VirtFree, VirtDisconnect, PhysAttach, PhysDetach,
       VirtConnect, PhysSetIface, PhysSetIp, VirtSetMac, VirtSetRate, PhysEdit, VirtEdit, Editing,
       ctxVars
  <2> QED
    BY <2>1 DEF Closing
<1> QED
  BY <1>1, <1>2

\* The model of a context that is being cleaned up is valid.
LEMMA ClosingIsValid ==
  ASSUME IInv, Closing, life # "open"
  PROVE  ~Invalid /\ VirtsToResolve = {} /\ PropagatedPa = pa /\ PropagatedVirt = virt
<1>1. /\ AllIn({"none", "DELETE"}) /\ explicitly_attached = {}
      /\ \A v \in Virts : connected_through[v] = NULL
  BY DEF Closing
<1>2. PropagatedPa = pa
  BY <1>1 DEF IInv, TypeOK, ObjTypes, PropagatedPa, Propagate, AllIn
<1>3. PropagatedVirt = virt
  BY <1>1 DEF IInv, TypeOK, ObjTypes, PropagatedVirt, Propagate, AllIn
<1>4. \A a \in PAs : CheckedVirts(a) = {}
  BY <1>1, NotNull, PaPair DEF CheckedVirts, ConnectedVirts
<1>5. ~NotAttached
  BY <1>4 DEF NotAttached, LivePas
<1>6. ~PhysNoAttr /\ ~VirtNoAttr /\ VirtsToResolve = {}
  BY <1>1 DEF PhysNoAttr, VirtNoAttr, VirtsToResolve
<1>7. ~DupMac
  BY <1>1, <1>3 DEF DupMac, Should_be_validated, AllIn
<1>8. ~BadRate
  <2>1. ASSUME NEW v \in Virts, virt[v] # "none" PROVE net[VirtNet[v]] = "DELETE"
    BY <1>1, <2>1, NetApiAssumption DEF IInv, Objects, Owned, Alloc, AllIn
  <2> QED
    BY <2>1 DEF BadRate
<1>9. ~NetsClash
  BY <1>1 DEF NetsClash, AllIn
<1>10. ~DupIp /\ ~IncompatibleIpv
  BY <1>1 DEF DupIp, IncompatibleIpv, HasIp, Live, AllIn
<1> QED
  BY <1>2, <1>3, <1>5, <1>6, <1>7, <1>8, <1>9, <1>10 DEF Invalid

LEMMA CallClosing ==
  ASSUME IInv, Call, Closing
  PROVE  Closing'
<1>1. /\ Validation /\ life # "closed"
      /\ life' \in {life, "closed"}
      /\ life = "open" => life' = "open"
      /\ pc = "idle"
  BY DEF Call, ValidateFails, ValidatePasses, CommitNoSocket, CommitBegin, Calling, Return
<1>2. CASE life = "open"
  BY <1>1, <1>2 DEF Closing
<1>3. CASE life # "open"
  <2>1. /\ ~Invalid /\ VirtsToResolve = {} /\ UNCHANGED <<pa, virt>>
    BY <1>1, <1>3, ClosingIsValid DEF Validation
  <2>2. CommitNoSocket \/ CommitBegin
    BY <1>3, <2>1 DEF Call, ValidateFails, ValidatePasses
  <2>3. life' = "closed" => pc' = "idle" /\ ret' = "NETLINK"
    BY <1>1, <2>2 DEF CommitNoSocket, CommitBegin, Calling, Return
  <2>4. AllIn({"none", "DELETE"})'
    BY <1>1, <1>3, <2>1 DEF Closing, AllIn, Validation
  <2>5. UNCHANGED <<explicitly_attached, connected_through>>
    BY <1>1 DEF Validation, userVars, linkVars
  <2> QED
    BY <1>3, <2>3, <2>4, <2>5 DEF Closing
<1> QED
  BY <1>2, <1>3

LEMMA CommitClosing ==
  ASSUME IInv, IInv', Clean, CommitStep, Closing
  PROVE  Closing'
<1>1. CASE life = "open"
  <2>1. life' = "open"
    BY <1>1, StepRuns DEF CommitEnd, Return
  <2> QED
    BY <2>1 DEF Closing
<1>2. CASE life = "closed"
  BY <1>2, StepRuns DEF Closing
<1> SUFFICES ASSUME life = "closing" PROVE Closing'
  BY <1>1, <1>2 DEF IInv, TypeOK, ErrTypes
<1>3. /\ AllIn({"none", "DELETE"}) /\ explicitly_attached = {}
      /\ \A v \in Virts : connected_through[v] = NULL
  BY DEF Closing
<1>4. ASSUME Recommit PROVE CommitEnd /\ AllIn({"none"})
  <2>1. AllIn({"none"})
    BY <1>3, <1>4 DEF IInv, Objects, States, Settled, Tried, AllIn
  <2>2. pas = {} /\ left = {}
    BY <1>4, <2>1 DEF IInv, Loops, Walking, AllIn, Alloc, TypeOK, LoopTypes, Recommit
  <2>3. pc = "commit"
    BY <1>4, <2>1 DEF IInv, Loops, Walking, AllIn, TypeOK, LoopTypes, Recommit
  <2>4. dv = NULL /\ dp = NULL
    BY <1>4, <2>3 DEF IInv, Loops, Walking
  <2> QED
    BY <2>1, <2>2, <2>3, <2>4 DEF CommitStep, DecommitVirt, AddVirt, AddVirtNoMem, SkipRemoteVirt,
       AddRemoteVirt, AddRemoteVirtNoMem, RemoveRates, RemoveRemoteVirt, RpasToRemove, RemoveVirt,
       DecommitPa, CreatePa, RemoveRemotePa, DestroyPa, DecommitNet, DecommitNetEnd, DecommitEnd,
       CommitPhys, CommitRates, CommitRatesNoMem, CommitRatesUndoFails, RatesEnd, CommitRemotes,
       SkipRemotePa, AddRemotePa, AddRemotePaNoMem, CommitRemoteVirts, CommitPaEnd, Running
<1>5. CASE Recommit
  <2>1. CommitEnd /\ AllIn({"none"})
    BY <1>4, <1>5
  <2>2. AllIn({"none"})' /\ pc' = "idle" /\ UNCHANGED <<explicitly_attached, connected_through>>
    BY <2>1 DEF CommitEnd, AllIn, AckState, userVars, linkVars
  <2>3. AllIn({"none", "DELETE"})'
    BY <2>2 DEF AllIn
  <2> QED
    BY <1>3, <2>2, <2>3 DEF Closing
<1>6. CASE ~Recommit
  <2>1. pc = "decommit" /\ life' = "closing"
    <3>1. pc = "decommit"
      BY <1>6, StepRuns DEF Recommit, IInv, TypeOK, LoopTypes, Phases
    <3> QED
      BY <3>1, StepRuns DEF CommitEnd, Running
  <2>2. /\ AllIn({"none", "DELETE"})'
        /\ explicitly_attached' = {}
        /\ \A v \in Virts : connected_through'[v] = NULL
    <3> USE CleanResults, NoMark DEF AllIn, IInv, TypeOK, ObjTypes, userVars, linkVars, AckDecommit
    <3>1. CASE (\E v \in Virts : DecommitVirt(v)) \/ (\E a \in PAs : DecommitPa(a))
               \/ (\E n \in Nets : DecommitNet(n)) \/ DecommitNetEnd
      BY <3>1, <1>3 DEF DecommitVirt, DecommitPa, DecommitNet, DecommitNetEnd, apiVars, objVars
    <3>2. CASE RemoveRates
      <4>1. virt' = [virt EXCEPT ![dv] = virt[dv]] /\ UNCHANGED <<settings, net, phys, pa, userVars>>
        BY <3>2 DEF RemoveRates
      <4> QED
        BY <4>1, <1>3
    <3>3. ASSUME NEW rv \in rvirts, RemoveRemoteVirt(rv)
          PROVE  /\ AllIn({"none", "DELETE"})'
                 /\ explicitly_attached' = {}
                 /\ \A v \in Virts : connected_through'[v] = NULL
      <4>1. virt' = [virt EXCEPT ![rv[3]] = virt[rv[3]]]
            /\ UNCHANGED <<settings, net, phys, pa, userVars>>
        BY <3>3 DEF RemoveRemoteVirt
      <4> QED
        BY <4>1, <1>3
    <3>4. CASE RemoveVirt
      <4> DEFINE idle == FreeablePas({}, Deleted({dv}))
      <4>1. /\ virt' = [virt EXCEPT ![dv] = IF Deleted({dv}) = {} THEN virt[dv] ELSE "none"]
            /\ pa' = [a \in PAs |-> IF a \in idle THEN FreeHelper(pa[a]) ELSE pa[a]]
            /\ connected_through' = [v \in Virts |-> IF v \in Deleted({dv}) THEN NULL
                                                     ELSE connected_through[v]]
            /\ UNCHANGED <<settings, net, phys, explicitly_attached>>
        BY <3>4 DEF RemoveVirt
      <4> HIDE DEF idle
      <4> QED
        BY <4>1, <1>3 DEF FreeHelper
    <3>5. ASSUME NEW r \in rpas, RemoveRemotePa(r)
          PROVE  /\ AllIn({"none", "DELETE"})'
                 /\ explicitly_attached' = {}
                 /\ \A v \in Virts : connected_through'[v] = NULL
      <4>1. pa' = [pa EXCEPT ![<<r[2], r[3]>>] = pa[<<r[2], r[3]>>]]
            /\ UNCHANGED <<settings, net, phys, virt, userVars>>
        BY <3>5 DEF RemoveRemotePa, RpaRemoval
      <4> QED
        BY <4>1, <1>3
    <3>6. CASE DestroyPa
      <4>1. pa' = [pa EXCEPT ![dp] = IF Deleted({dp}) # {} THEN "none" ELSE pa[dp]]
            /\ UNCHANGED <<settings, net, phys, virt, userVars>>
        BY <3>6 DEF DestroyPa
      <4> QED
        BY <4>1, <1>3
    <3>7. CASE DecommitEnd
      BY <3>7, <1>3 DEF DecommitEnd
    <3> QED
      BY <2>1, <3>1, <3>2, <3>3, <3>4, <3>5, <3>6, <3>7 DEF CommitStep, AddVirt, AddVirtNoMem,
         SkipRemoteVirt, AddRemoteVirt, AddRemoteVirtNoMem, CreatePa, CommitPhys, CommitRates,
         CommitRatesNoMem, CommitRatesUndoFails, RatesEnd, CommitRemotes, SkipRemotePa, AddRemotePa,
         AddRemotePaNoMem, CommitRemoteVirts, CommitPaEnd, CommitEnd, Running
  <2> QED
    BY <2>1, <2>2 DEF Closing
<1> QED
  BY <1>5, <1>6

-----------------------------------------------------------------------------
(***************************************************************************)
(* Once nothing is left to decommit, what is installed is what is wanted.  *)
(***************************************************************************)

Clear == /\ IInv /\ FactsCurrent /\ dv = NULL /\ dp = NULL /\ pc # "decommit"
         /\ AllIn({"none", "NEW", "OK", "ERR"})

LEMMA ClearAttached ==
  ASSUME Clear, NEW a \in PAs, pa[a] \in {"NEW", "OK"}
  PROVE  a \in Attached
<1>1. a[1] \in Physes /\ Live(pa[a])
  BY PaPair DEF Live
<1>2. a \in explicitly_attached
  BY <1>1 DEF Clear, IInv, Objects, Linked, AllIn
<1>3. Live(phys[a[1]])
  BY <1>1 DEF Clear, IInv, Objects, Owned, Alloc, Live, AllIn
<1> QED
  BY <1>1, <1>2, <1>3 DEF Attached

LEMMA ClearPa ==
  ASSUME Clear, NEW a \in PAs, PaHas(a)
  PROVE  PaStays(a) /\ a \in Attached
<1>1. pa[a] \in Installed \/ (Recommit /\ pa[a] = "NEW")
  BY PaHasIs, NotNull DEF Clear
<1>2. pa[a] = "OK" \/ (Recommit /\ pa[a] = "NEW")
  BY <1>1 DEF Clear, AllIn, Installed
<1>3. phys[a[1]] # "RENEW"
  BY PaPair DEF Clear, AllIn
<1> QED
  BY <1>2, <1>3, ClearAttached DEF PaStays

LEMMA ClearMade ==
  ASSUME Clear, NEW a \in PAs, HasPa(a)
  PROVE  a \in LocalPas
<1>1. a \in Keys("pa") /\ a[1] \in Physes /\ committed_as_local[a[1]]
  BY PaPair DEF Clear, IInv, Books, PaSet, HasPa
<1>2. is_local[a[1]]
  BY <1>1 DEF Clear, IInv, Objects, Locals
<1>3. PaHas(a)
  BY <1>1 DEF PaHas
<1> QED
  BY <1>2, <1>3, ClearPa DEF LocalPas

LEMMA ClearVirt ==
  ASSUME Clear, NEW v \in Virts, VirtHas(v)
  PROVE  /\ VirtStays(v) /\ virt[v] \in {"NEW", "OK"}
         /\ committed_to[v] # NULL => /\ connected_through[v] = committed_to[v]
                                      /\ PaOf(v) \in LocalPas /\ v \in WantedVirts
<1>1. virt[v] \in Installed \/ (Recommit /\ virt[v] = "NEW")
  BY VirtHasIs, NotNull DEF Clear
<1>2. virt[v] = "OK" \/ (Recommit /\ virt[v] = "NEW")
  BY <1>1 DEF Clear, AllIn, Installed
<1>3. ASSUME committed_to[v] # NULL
      PROVE  connected_through[v] = committed_to[v] /\ PaOf(v) \in LocalPas /\ v \in WantedVirts
  <2>1. connected_through[v] = committed_to[v] /\ HasPa(<<committed_to[v], VirtNet[v]>>)
    BY <1>2, <1>3, NotNull DEF Clear, IInv, Books, VirtSet
  <2>2. PaOf(v) \in PAs /\ HasPa(PaOf(v))
    BY <1>3, <2>1, PaOfTyped DEF PaOf, Clear, IInv
  <2>3. PaOf(v) \in LocalPas
    BY <2>2, ClearMade
  <2> QED
    BY <1>2, <1>3, <2>1, <2>3 DEF WantedVirts, OnPa, Live
<1> QED
  BY <1>2, <1>3 DEF VirtStays

LEMMA ClearRpa ==
  ASSUME Clear, NEW r \in rpas
  PROVE  r \in WantedRpas
<1>1. /\ r \in Physes \X Physes \X Nets /\ <<r[1], r[3]>> \in PAs /\ <<r[2], r[3]>> \in PAs
      /\ r[1] # r[2] /\ HasPa(<<r[1], r[3]>>)
  BY DEF Clear, IInv, TypeOK, BookTypes, PAs, Books, RpaSet
<1>2. PaHas(<<r[2], r[3]>>)
  BY DEF PaHas
<1> QED
  BY <1>1, <1>2, ClearMade, ClearPa DEF WantedRpas

LEMMA ClearWanted ==
  ASSUME Clear
  PROVE  kernel \subseteq Desired
<1> SUFFICES ASSUME NEW f \in kernel PROVE f \in Desired
  OBVIOUS
<1>0. IsCurrent(f) /\ IInv
  BY DEF Clear, FactsCurrent
<1>1. CASE f[1] = "pa"
  <2>1. f[2] \in PAs /\ PaHas(f[2]) /\ f = <<"pa", f[2], f[3]>>
    BY <1>0, <1>1, FactHas
  <2>2. f[2] \in Keys("pa")
    BY <1>1 DEF Keys
  <2>3. f[2] \in LocalPas
    BY <2>1, <2>2, ClearMade DEF Clear, IInv, Books, PaSet
  <2>4. f[3] = <<attr_iface[f[2][1]], attr_ip[f[2][1]]>>
    BY <1>0, <1>1, <2>1, ClearPa DEF IsCurrent, PaCurrent
  <2>5. f = PaFact(f[2])
    BY <2>1, <2>4 DEF PaFact
  <2> QED
    BY <2>3, <2>5 DEF Desired
<1>2. CASE f[1] = "virt"
  <2>1. /\ f[2] \in Virts /\ committed_to[f[2]] # NULL /\ VirtHas(f[2])
        /\ f = <<"virt", f[2], f[3]>> /\ f[3] = <<f[3][1], f[3][2]>>
    BY <1>0, <1>2, FactHas
  <2>2. VirtStays(f[2]) /\ connected_through[f[2]] = committed_to[f[2]] /\ f[2] \in WantedVirts
    BY <2>1, ClearVirt
  <2>3. f[3][1] = committed_to[f[2]]
    BY <1>2 DEF Clear, IInv, Books, VirtFacts
  <2>4. f[3][2] = attr_mac[f[2]]
    BY <1>0, <1>2, <2>2 DEF IsCurrent, VirtCurrent
  <2>5. f = VirtFact(f[2])
    BY <2>1, <2>2, <2>3, <2>4 DEF VirtFact
  <2> QED
    BY <2>2, <2>5 DEF Desired
<1>3. CASE f[1] = "rate"
  <2>1. /\ f[2] \in Virts \X Dirs /\ committed_to[f[2][1]] # NULL /\ VirtHas(f[2][1])
        /\ f = <<"rate", f[2], f[3]>>
    BY <1>0, <1>3, FactHas
  <2>0. f[2] = <<f[2][1], f[2][2]>> /\ f[2][1] \in Virts /\ f[2][2] \in Dirs
    BY <2>1
  <2>2. VirtStays(f[2][1]) /\ f[2][1] \in WantedVirts
    BY <2>0, <2>1, ClearVirt
  <2>3. f[3] # NULL /\ f[3] = attr_rate[f[2][1]][f[2][2]]
    BY <1>0, <1>3, <2>2 DEF IsCurrent, RateCurrent
  <2>4. f = RateFact(f[2][1], f[2][2])
    BY <2>0, <2>1, <2>3 DEF RateFact
  <2>5. f[2] \in WantedRates
    BY <2>0, <2>1, <2>2, <2>3 DEF WantedRates
  <2> QED
    BY <2>4, <2>5 DEF Desired
<1>4. CASE f[1] = "rpa"
  <2>1. /\ f[2] \in rpas /\ PaHas(<<f[2][2], f[2][3]>>) /\ <<f[2][2], f[2][3]>> \in PAs
        /\ f = <<"rpa", f[2], f[3]>>
    BY <1>0, <1>4, FactHas
  <2>2. f[3] = attr_ip[f[2][2]]
    BY <1>0, <1>4, <2>1, ClearPa DEF IsCurrent, RpaCurrent
  <2>3. f = RpaFact(f[2]) /\ f[2] \in WantedRpas
    BY <2>1, <2>2, ClearRpa DEF RpaFact
  <2> QED
    BY <2>3 DEF Desired
<1>5. CASE f[1] = "rvirt"
  <2> DEFINE v == f[2][3]
             n == VirtNet[v]
  <2>1. /\ f[2] \in rvirts /\ f[2] \in Physes \X Physes \X Virts /\ VirtHas(v) /\ v \in Virts
        /\ f = <<"rvirt", f[2], f[3]>> /\ f[2][2] \in Physes
    BY <1>0, <1>5, FactHas
  <2>2. VirtStays(v) /\ virt[v] \in {"NEW", "OK"}
    BY <2>1, ClearVirt
  <2>3. <<f[2][1], f[2][2], n>> \in rpas /\ connected_through[v] = f[2][2]
    BY <2>1, <2>2, NotNull DEF Clear, IInv, Books, RvirtSet
  <2>4. OnPa(v, <<f[2][2], n>>)
    BY <2>1, <2>2, <2>3, NotNull DEF OnPa, PaOf, Live
  <2>5. f[3] = attr_mac[v]
    BY <1>0, <1>5, <2>2 DEF IsCurrent, RvirtCurrent
  <2>6. f = RvirtFact(f[2]) /\ f[2] \in WantedRvirts
    BY <2>1, <2>3, <2>4, <2>5, ClearRpa DEF RvirtFact, WantedRvirts
  <2> QED
    BY <2>6 DEF Desired
<1> QED
  BY <1>0, <1>1, <1>2, <1>3, <1>4, <1>5, FactHas

-----------------------------------------------------------------------------
LEMMA InitStale == Init => StaleInv
BY DEF Init, ApiInit, CommitInit, StaleInv, FactsCurrent, Returned, Closing

LEMMA NextStale ==
  ASSUME Careful, Clean, IInv, IInv', StaleInv, [Next]_vars
  PROVE  StaleInv'
<1> USE DEF StaleInv
<1>1. CASE Client
  <2>1. Edit /\ pc = "idle" /\ pc' = "idle" /\ UNCHANGED kernel
    BY <1>1 DEF Client, commitVars
  <2> QED
    BY <1>1, <2>1, EditMovesOn, EditCurrent, EditReturned, EditClosing
<1>2. CASE Call
  <2>1. Validation /\ pc = "idle" /\ pc' \in {"idle", "decommit"} /\ UNCHANGED kernel
    BY <1>2 DEF Call, ValidateFails, ValidatePasses, CommitNoSocket, CommitBegin, Calling, Validation
  <2> QED
    BY <1>2, <2>1, ValidationMoves, EditCurrent, EditReturned, CallClosing
<1>3. CASE CommitStep
  BY <1>3, CommitCurrent, CommitReturned, CommitClosing
<1>4. CASE UNCHANGED vars
  <2>1. UNCHANGED <<settings, net, phys, pa, virt, attr_iface, attr_ip, attr_mac, attr_rate,
                    explicitly_attached, connected_through, kernel, pc, ret, life>>
    BY <1>4 DEF vars, apiVars, objVars, physAttr, virtAttr, linkVars, ctxVars, commitVars
  <2>2. FactsCurrent'
    BY <2>1 DEF FactsCurrent, IsCurrent, PaCurrent, VirtCurrent, RateCurrent, RpaCurrent,
       RvirtCurrent, PaStays, VirtStays, Recommit
  <2>3. Returned' /\ Closing'
    BY <2>1 DEF Returned, Closing, AllIn
  <2> QED
    BY <2>2, <2>3
<1> QED
  BY <1>1, <1>2, <1>3, <1>4 DEF Next, Stopped

LEMMA StaleInvariance ==
  ASSUME Careful, Clean
  PROVE  Spec => [](IInv /\ StaleInv)
<1>1. ASSUME IInv, IInv', StaleInv, [Next]_vars PROVE StaleInv'
  BY <1>1, NextStale
<1> QED
  BY <1>1, InitStale, Invariance, PTL DEF Spec

\* For every set of objects, a client that keeps the rules and operations that
\* may fail but clean up: when lsdn_commit has returned, in whole or in part,
\* everything in the kernel is what the model asks for, with the attributes it
\* has there.
THEOREM NothingStaysStale ==
  ASSUME Careful, Clean
  PROVE  Spec => []NothingStale
<1>1. ASSUME IInv, StaleInv PROVE NothingStale
  <2> SUFFICES ASSUME ret \in {"OK", "COMMIT"} PROVE kernel \subseteq Desired
    BY DEF NothingStale
  <2>1. pc = "idle" /\ AllIn({"none", "NEW", "OK"}) /\ FactsCurrent
    BY <1>1 DEF StaleInv, Returned
  <2>2. dv = NULL /\ dp = NULL
    BY <1>1, <2>1 DEF IInv, Loops, Idle
  <2>3. Clear
    BY <1>1, <2>1, <2>2 DEF Clear, AllIn
  <2> QED
    BY <2>3, ClearWanted
<1> QED
  BY <1>1, StaleInvariance, PTL

\* For every set of objects, a client that keeps the rules and operations that
\* may fail but clean up: lsdn_context_cleanup frees every object and leaves
\* nothing in the kernel, in whatever state it finds the model, unless it has
\* no netlink socket.
THEOREM CleanupAlwaysEmpties ==
  ASSUME Careful, Clean
  PROVE  Spec => []CleanupLeavesNothing
<1>1. ASSUME IInv, StaleInv PROVE CleanupLeavesNothing
  <2> SUFFICES ASSUME life = "closed", ret # "NETLINK"
               PROVE  /\ kernel = {} /\ rpas = {} /\ rvirts = {} /\ pending_free = {}
                      /\ AllIn({"none"})
    BY DEF CleanupLeavesNothing, AllIn
  <2>1. AllIn({"none"}) /\ pc = "idle"
    BY <1>1 DEF StaleInv, Closing
  <2>2. dv = NULL /\ dp = NULL /\ ~Recommit
    BY <1>1, <2>1 DEF IInv, Loops, Idle, Recommit
  <2>3. \A a \in PAs : ~PaHas(a)
    BY <1>1, <2>1, <2>2, PaHasIs DEF AllIn, Installed
  <2>4. \A v \in Virts : ~VirtHas(v)
    BY <1>1, <2>1, <2>2, VirtHasIs, NotNull DEF AllIn, Installed
  <2>5. kernel = {}
    <3> SUFFICES ASSUME NEW f \in kernel PROVE FALSE
      OBVIOUS
    <3>1. f[1] = "rate" => f[2][1] \in Virts
      BY <1>1, FactHas
    <3>2. f[1] = "rvirt" => f[2][3] \in Virts
      BY <1>1, FactHas
    <3> QED
      BY <1>1, <2>3, <2>4, <3>1, <3>2, FactHas
  <2>6. rpas = {}
    <3> SUFFICES ASSUME NEW r \in rpas PROVE FALSE
      OBVIOUS
    <3>1. <<r[2], r[3]>> \in PAs
      BY <1>1 DEF IInv, TypeOK, BookTypes, PAs
    <3> QED
      BY <2>3, <3>1 DEF PaHas
  <2>7. rvirts = {}
    BY <1>1, <2>6 DEF IInv, Books, RvirtSet
  <2>8. pending_free = {}
    BY <1>1, <2>1 DEF IInv, TypeOK, BookTypes, Objects, Pending, AllIn
  <2> QED
    BY <2>1, <2>5, <2>6, <2>7, <2>8
<1> QED
  BY <1>1, StaleInvariance, PTL

-----------------------------------------------------------------------------
(***************************************************************************)
(* When nothing fails, only what the commit has not come to is missing.    *)
(***************************************************************************)

LEMMA ReliableClean ==
  ASSUME Reliable
  PROVE  /\ Clean /\ AddResults = {"OK"} /\ RemoveResults = {"OK"}
         /\ \A kind : MayFail(kind) => kind \in {"SOCKET", "NOIF"}
BY DEF Reliable, Clean, AddResults, RemoveResults, MayFail

\* What was installed is still there when it is up to date.
LEMMA KeyStays ==
  ASSUME \A f \in kernel \ kernel' : ~UpToDate(f),
         NEW kind, NEW k \in Keys(kind), \A f : f[1] = kind /\ f[2] = k => UpToDate(f)
  PROVE  k \in Keys(kind)'
<1>1. PICK f \in kernel : f[1] = kind /\ f[2] = k
  BY DEF Keys
<1>2. f \in kernel'
  BY <1>1
<1> QED
  BY <1>1, <1>2 DEF Keys

\* An edit, a validation, a step of the decommit phase.
LEMMA FullKept ==
  ASSUME IInv, IInv', Full, kernel' \subseteq kernel, \A f \in kernel \ kernel' : ~UpToDate(f),
         \A a \in PAs : pa'[a] = "OK" => pa[a] = "OK",
         \A v \in Virts : virt'[v] = "OK" => /\ virt[v] = "OK"
                                             /\ connected_through'[v] = connected_through[v]
                                             /\ attr_rate'[v] = attr_rate[v],
         \A a \in PAs : HasPa(a)' => ~Visited(a)',
         \A v \in Virts : virt'[v] = "NEW" /\ v \in Keys("virt")' => ~Recommit'
  PROVE  Full'
<1>0. \A kind : Keys(kind)' \subseteq Keys(kind)
  BY DEF Keys
<1>1. ASSUME NEW a \in PAs, HasPa(a)' PROVE HasPa(a)
  BY <1>0, <1>1 DEF IInv, Books, PaSet
<1>2. ASSUME NEW v \in Virts, VirtDue(v)' PROVE v \in Keys("virt")'
  <2>0. connected_through'[v] # NULL /\ <<connected_through'[v], VirtNet[v]>> \in PAs
    BY <1>2, NetApiAssumption DEF VirtDue, IInv, TypeOK, UserTypes, OrNull, PAs
  <2>1. PICK a \in PAs : a = <<connected_through'[v], VirtNet[v]>>
    BY <2>0
  <2>2. PaOf(v)' = a
    BY <2>1 DEF PaOf
  <2>3. HasPa(a)'
    BY <1>2, <2>2 DEF VirtDue, HasPa, Made, Visited, Recommit
  <2>4. virt'[v] = "OK"
    BY <1>2, <2>2, <2>3 DEF VirtDue, PastVirt, Visited, Recommit
  <2>5. connected_through[v] # NULL /\ PaOf(v) = a /\ virt[v] = "OK"
    BY <2>0, <2>1, <2>4 DEF PaOf
  <2>6. v \in Keys("virt")
    BY <1>1, <2>3, <2>5 DEF VirtDue, Full
  <2> QED
    BY <2>5, <2>6, KeyStays DEF UpToDate
<1>3. ASSUME NEW v \in Virts, NEW d \in Dirs, RateDue(v, d)' PROVE <<v, d>> \in Keys("rate")'
  <2>1. virt'[v] = "OK" /\ v \in Keys("virt") /\ attr_rate'[v][d] # NULL
    BY <1>0, <1>3 DEF RateDue
  <2>2. <<v, d>> \in Keys("rate") /\ virt[v] = "OK"
    BY <2>1 DEF RateDue, Full
  <2>3. \A f : f[1] = "rate" /\ f[2] = <<v, d>> => UpToDate(f)
    BY <2>2 DEF UpToDate
  <2> QED
    BY <2>2, <2>3, KeyStays
<1>4. ASSUME NEW a \in PAs, NEW b \in PAs, RpaDue(a, b)'
      PROVE  <<a[1], b[1], a[2]>> \in Keys("rpa")'
  <2>1. a # b /\ a[2] = b[2] /\ HasPa(a)' /\ pa'[a] = "OK" /\ pa'[b] = "OK"
    BY <1>4 DEF RpaDue, PastRemote
  <2>2. pa[a] = "OK" /\ pa[b] = "OK" /\ HasPa(a)
    BY <2>1, <1>1
  <2>3. <<a[1], b[1], a[2]>> \in Keys("rpa")
    BY <2>1, <2>2 DEF RpaDue, Full
  <2>4. a = <<a[1], a[2]>> /\ b = <<b[1], a[2]>>
    BY <2>1, PaPair
  <2>5. \A f : f[1] = "rpa" /\ f[2] = <<a[1], b[1], a[2]>> => UpToDate(f)
    BY <2>2, <2>4 DEF UpToDate
  <2> QED
    BY <2>3, <2>5, KeyStays
<1>5. ASSUME NEW r \in Keys("rpa")', NEW v \in Virts, RvirtDue(r, v)'
      PROVE  <<r[1], r[2], v>> \in Keys("rvirt")'
  <2> DEFINE a == <<r[1], r[3]>>
  <2>1. r \in rpas' /\ r \in Keys("rpa")
    BY <1>0 DEF IInv, Books, BooksMatchKernel
  <2>2. a \in PAs
    BY <2>1 DEF IInv, TypeOK, BookTypes, PAs
  <2>3. HasPa(a)'
    BY <2>1 DEF IInv, Books, RpaSet
  <2>4. r[3] = VirtNet[v] /\ connected_through'[v] = r[2] /\ pa'[a] = "OK" /\ virt'[v] = "OK"
    BY <1>5, <2>2, <2>3 DEF RvirtDue, PastRemoteVirt
  <2>5. connected_through[v] = r[2] /\ pa[a] = "OK" /\ virt[v] = "OK"
    BY <2>2, <2>4
  <2>6. <<r[1], r[2], v>> \in Keys("rvirt")
    BY <2>1, <2>4, <2>5 DEF RvirtDue, Full
  <2>7. \A f : f[1] = "rvirt" /\ f[2] = <<r[1], r[2], v>> => UpToDate(f)
    BY <2>4, <2>5 DEF UpToDate
  <2> QED
    BY <2>6, <2>7, KeyStays
<1> QED
  BY <1>2, <1>3, <1>4, <1>5 DEF Full

\* A step of the recommit phase in which nothing fails.
Quiet ==
  /\ kernel \subseteq kernel' /\ Recommit'
  /\ UNCHANGED <<settings, net, phys, pa, virt, is_local, attr_iface, attr_ip, attr_mac, attr_rate,
                 explicitly_attached, connected_through>>
  /\ ~problems' /\ ~inconsistent'

LEMMA NothingRolledBack ==
  ASSUME IInv, NoErrors, Recommit
  PROVE  dv = NULL /\ dp = NULL
<1>1. dv \in Virts \cup {NULL} /\ dp \in PAs \cup {NULL}
  BY DEF IInv, TypeOK, LoopTypes, OrNull
<1> QED
  BY <1>1 DEF IInv, Loops, Walking, InVirts, InRemotes, InRvirts, NoErrors, Recommit

LEMMA RecommitSteps ==
  ASSUME IInv, Reliable, NoErrors, Recommit, CommitStep
  PROVE  \/ \E p \in Physes : CommitPhys(p) \/ SkipRemotePa(p) \/ AddRemotePa(p)
         \/ \E a \in PAs : CreatePa(a)
         \/ \E v \in Virts : AddVirt(v) \/ SkipRemoteVirt(v) \/ AddRemoteVirt(v)
         \/ CommitRates \/ CommitRemotes \/ CommitRemoteVirts \/ CommitPaEnd \/ CommitEnd
<1>1. dv = NULL /\ dp = NULL /\ pc # "decommit"
      /\ ~MayFail("MALLOC") /\ ~MayFail("NOMEM")
  BY NothingRolledBack, ReliableClean DEF Recommit
<1> QED
  BY <1>1 DEF CommitStep, DecommitVirt, AddVirtNoMem, AddRemoteVirtNoMem, RemoveRates,
     RemoveRemoteVirt, RpasToRemove, RemoveVirt, DecommitPa, RemoveRemotePa, DestroyPa, DecommitNet,
     DecommitNetEnd, DecommitEnd, CommitRatesNoMem, CommitRatesUndoFails, AddRemotePaNoMem, Running

LEMMA NoteOk ==
  ASSUME NEW s, Note(s, "OK"), ~problems, ~inconsistent
  PROVE  ~problems' /\ ~inconsistent'
BY DEF Note, Reported

LEMMA RecommitQuiet ==
  ASSUME IInv, Reliable, NoErrors, Recommit, CommitStep, ~CommitEnd
  PROVE  Quiet
<1> USE ReliableClean, NoMark, NothingRolledBack
        DEF Quiet, NoErrors, IInv, TypeOK, ObjTypes, userVars, physAttr, virtAttr, linkVars, objVars,
        apiVars, errVars
<1>1. ASSUME NEW p \in Physes, CommitPhys(p) PROVE Quiet
  BY <1>1 DEF CommitPhys, Recommit, Running
<1>2. ASSUME NEW a \in PAs, CreatePa(a) PROVE Quiet
  <2>1. pa' = [pa EXCEPT ![a] = pa[a]] /\ kernel \subseteq kernel'
        /\ UNCHANGED <<settings, net, phys, virt, userVars>>
    BY <1>2 DEF CreatePa, Added
  <2>2. Recommit' /\ Note(pa[a], "OK")
    BY <1>2 DEF CreatePa, Recommit
  <2> QED
    BY <2>1, <2>2, NoteOk
<1>3. ASSUME NEW v \in Virts, AddVirt(v) PROVE Quiet
  <2>1. virt' = [virt EXCEPT ![v] = virt[v]] /\ kernel \subseteq kernel'
        /\ UNCHANGED <<settings, net, phys, pa, userVars>>
    BY <1>3 DEF AddVirt, Added
  <2>2. Recommit' /\ Note(virt[v], "OK")
    BY <1>3 DEF AddVirt, Recommit
  <2> QED
    BY <2>1, <2>2, NoteOk
<1>4. ASSUME CommitRates PROVE Quiet
  BY <1>4 DEF CommitRates, RatesEnd, Recommit
<1>5. ASSUME NEW q \in Physes, AddRemotePa(q) PROVE Quiet
  <2>0. <<q, cur[2]>> \in PAs
    BY <1>5 DEF AddRemotePa, Running, LoopTypes, PAs
  <2>1. /\ pa' = [pa EXCEPT ![<<q, cur[2]>>] = pa[<<q, cur[2]>>]]
        /\ kernel \subseteq kernel' /\ UNCHANGED <<settings, net, phys, virt, userVars>>
    BY <1>5 DEF AddRemotePa, Added
  <2>2. Recommit' /\ Note(pa[<<q, cur[2]>>], "OK")
    BY <1>5 DEF AddRemotePa, Recommit
  <2> QED
    BY <2>0, <2>1, <2>2, NoteOk
<1>6. ASSUME NEW v \in Virts, AddRemoteVirt(v) PROVE Quiet
  <2>1. virt' = [virt EXCEPT ![v] = virt[v]] /\ kernel \subseteq kernel'
        /\ UNCHANGED <<settings, net, phys, pa, userVars>>
    BY <1>6 DEF AddRemoteVirt, Added
  <2>2. Recommit' /\ Note(virt[v], "OK")
    BY <1>6 DEF AddRemoteVirt, Recommit
  <2> QED
    BY <2>1, <2>2, NoteOk
<1>7. ASSUME \/ \E q \in Physes : SkipRemotePa(q)
             \/ \E v \in Virts : SkipRemoteVirt(v)
             \/ CommitRemotes \/ CommitRemoteVirts \/ CommitPaEnd
      PROVE  Quiet
  <2>1. UNCHANGED <<apiVars, kernel, errVars>>
    BY <1>7 DEF SkipRemotePa, SkipRemoteVirt, CommitRemotes, CommitRemoteVirts, CommitPaEnd
  <2>2. Recommit'
    BY <1>7 DEF SkipRemotePa, SkipRemoteVirt, CommitRemotes, CommitRemoteVirts, CommitPaEnd, Recommit
  <2> QED
    BY <2>1, <2>2
<1> QED
  BY <1>1, <1>2, <1>3, <1>4, <1>5, <1>6, <1>7, RecommitSteps

\* What has become due since is installed.
LEMMA FullGrows ==
  ASSUME Full, kernel \subseteq kernel',
         \A v \in Virts : VirtDue(v)' => VirtDue(v) \/ v \in Keys("virt")',
         \A v \in Virts, d \in Dirs : RateDue(v, d)' => RateDue(v, d) \/ <<v, d>> \in Keys("rate")',
         \A a, b \in PAs : RpaDue(a, b)' => RpaDue(a, b) \/ <<a[1], b[1], a[2]>> \in Keys("rpa")',
         \A r \in Keys("rpa")', v \in Virts : RvirtDue(r, v)' =>
           (r \in Keys("rpa") /\ RvirtDue(r, v)) \/ <<r[1], r[2], v>> \in Keys("rvirt")'
  PROVE  Full'
<1>1. \A kind : Keys(kind) \subseteq Keys(kind)'
  BY DEF Keys
<1>2. \A v \in Virts : VirtDue(v)' => v \in Keys("virt")'
  BY <1>1 DEF Full
<1>3. \A v \in Virts, d \in Dirs : RateDue(v, d)' => <<v, d>> \in Keys("rate")'
  BY <1>1 DEF Full
<1>4. \A a, b \in PAs : RpaDue(a, b)' => <<a[1], b[1], a[2]>> \in Keys("rpa")'
  BY <1>1 DEF Full
<1>5. \A r \in Keys("rpa")', v \in Virts : RvirtDue(r, v)' => <<r[1], r[2], v>> \in Keys("rvirt")'
  BY <1>1 DEF Full
<1> QED
  BY <1>2, <1>3, <1>4, <1>5 DEF Full
LEMMA VirtDueIs ==
  ASSUME IInv, Quiet, NEW v \in Virts, VirtDue(v)'
  PROVE  \E a \in PAs : /\ PaOf(v) = a /\ connected_through[v] # NULL /\ HasPa(a)'
                        /\ virt[v] = "OK" \/ (virt[v] = "NEW" /\ PastVirt(a, v)')
<1>0. UNCHANGED <<connected_through, virt>>
  BY DEF Quiet
<1>1. connected_through[v] # NULL
  BY <1>0 DEF VirtDue
<1>2. PICK a \in PAs : a = PaOf(v)
  BY <1>1, PaOfTyped DEF IInv
<1>3. PaOf(v)' = a
  BY <1>0, <1>2 DEF PaOf
<1>4. HasPa(a)'
  BY <1>3 DEF VirtDue, HasPa, Made, Visited, Recommit
<1>5. virt[v] = "OK" \/ (virt[v] = "NEW" /\ PastVirt(a, v)')
  BY <1>0, <1>3 DEF VirtDue, PastVirt, Visited, Recommit
<1> QED
  BY <1>1, <1>2, <1>4, <1>5

LEMMA RvirtDueIs ==
  ASSUME IInv', Quiet, NEW r \in Keys("rpa")', NEW v \in Virts, RvirtDue(r, v)'
  PROVE  /\ r[3] = VirtNet[v] /\ connected_through[v] = r[2] /\ virt[v] \in {"NEW", "OK"}
         /\ <<r[1], r[3]>> \in PAs /\ HasPa(<<r[1], r[3]>>)' /\ r[2] \in Physes
         /\ (pa[<<r[1], r[3]>>] = "OK" /\ virt[v] = "OK") \/ PastRemoteVirt(<<r[1], r[3]>>, v)'
<1>0. UNCHANGED <<connected_through, virt, pa>>
  BY DEF Quiet
<1>1. r \in rpas'
  BY DEF IInv, Books, BooksMatchKernel
<1>2. <<r[1], r[3]>> \in PAs /\ r[2] \in Physes
  BY <1>1 DEF IInv, TypeOK, BookTypes, PAs
<1>3. HasPa(<<r[1], r[3]>>)'
  BY <1>1 DEF IInv, Books, RpaSet
<1> QED
  BY <1>0, <1>2, <1>3 DEF RvirtDue

\* A step that makes no PA.
LEMMA FullOnwards ==
  ASSUME IInv, IInv', Full, Quiet, Recommit,
         Keys("pa")' = Keys("pa"),
         \A v \in Virts, a \in PAs :
           /\ PaOf(v) = a /\ connected_through[v] # NULL /\ virt[v] = "NEW" /\ HasPa(a)'
           /\ PastVirt(a, v)'
           => PastVirt(a, v) \/ v \in Keys("virt")',
         \A v \in Virts, d \in Dirs : RateDue(v, d)' => RateDue(v, d) \/ <<v, d>> \in Keys("rate")',
         \A a, b \in PAs :
           /\ a # b /\ a[2] = b[2] /\ HasPa(a)' /\ pa[b] \in {"NEW", "OK"} /\ PastRemote(a, b[1])'
           => \/ PastRemote(a, b[1]) \/ (pa[a] = "OK" /\ pa[b] = "OK")
              \/ <<a[1], b[1], a[2]>> \in Keys("rpa")',
         \A r \in Keys("rpa")', v \in Virts :
           r \notin Keys("rpa") => ~RvirtDue(r, v)',
         \A r \in Keys("rpa"), v \in Virts :
           /\ r[3] = VirtNet[v] /\ connected_through[v] = r[2] /\ virt[v] \in {"NEW", "OK"}
           /\ <<r[1], r[3]>> \in PAs /\ HasPa(<<r[1], r[3]>>)' /\ r[2] \in Physes
           /\ PastRemoteVirt(<<r[1], r[3]>>, v)'
           => \/ PastRemoteVirt(<<r[1], r[3]>>, v) \/ (pa[<<r[1], r[3]>>] = "OK" /\ virt[v] = "OK")
              \/ <<r[1], r[2], v>> \in Keys("rvirt")'
  PROVE  Full'
<1>0. UNCHANGED <<pa, virt>> /\ kernel \subseteq kernel'
  BY DEF Quiet
<1>1. \A a \in PAs : HasPa(a)' => HasPa(a)
  BY DEF IInv, Books, PaSet
<1>2. ASSUME NEW v \in Virts, VirtDue(v)' PROVE VirtDue(v) \/ v \in Keys("virt")'
  <2>1. PICK a \in PAs : /\ PaOf(v) = a /\ connected_through[v] # NULL /\ HasPa(a)'
                         /\ virt[v] = "OK" \/ (virt[v] = "NEW" /\ PastVirt(a, v)')
    BY <1>2, VirtDueIs
  <2> QED
    BY <1>1, <2>1 DEF VirtDue
<1>3. ASSUME NEW a \in PAs, NEW b \in PAs, RpaDue(a, b)'
      PROVE  RpaDue(a, b) \/ <<a[1], b[1], a[2]>> \in Keys("rpa")'
  BY <1>0, <1>1, <1>3 DEF RpaDue
<1>4. ASSUME NEW r \in Keys("rpa")', NEW v \in Virts, RvirtDue(r, v)'
      PROVE  (r \in Keys("rpa") /\ RvirtDue(r, v)) \/ <<r[1], r[2], v>> \in Keys("rvirt")'
  <2>1. r \in Keys("rpa")
    BY <1>4
  <2> QED
    BY <1>4, <2>1, RvirtDueIs DEF RvirtDue
<1> QED
  BY <1>0, <1>2, <1>3, <1>4, FullGrows

\* The rates that are due do not change.
LEMMA RatesSame ==
  ASSUME Quiet, Recommit, Keys("virt")' = Keys("virt"), UNCHANGED cv
  PROVE  \A v \in Virts, d \in Dirs : RateDue(v, d)' => RateDue(v, d)
BY DEF RateDue, Quiet

LEMMA FullCommitPhys ==
  ASSUME IInv, IInv', Full, Quiet, Recommit, NEW p \in Physes, CommitPhys(p)
  PROVE  Full'
<1>1. /\ pas = {} /\ left' = left \ {p} /\ UNCHANGED <<pa, pc, cur, todo, cv, kernel>>
      /\ pas' = {a \in PAs : a[1] = p /\ pa[a] # "none"} /\ pc = "commit"
  BY DEF CommitPhys, Running, objVars
<1>2. \A kind : Keys(kind)' = Keys(kind)
  BY <1>1, KeysSame
<1>3. ASSUME NEW a \in PAs, HasPa(a)', Visited(a)' PROVE Visited(a)
  <2>1. pa[a] # "none"
    BY <1>1, <1>3 DEF HasPa, Made, Installed
  <2> QED
    BY <1>1, <1>3, <2>1 DEF Visited, Recommit
<1>4. \A v \in Virts, d \in Dirs : RateDue(v, d)' => RateDue(v, d)
  BY <1>1, <1>2, RatesSame
<1>5. \A v \in Virts, a \in PAs : HasPa(a)' /\ PastVirt(a, v)' => PastVirt(a, v)
  BY <1>1, <1>3 DEF PastVirt
<1>6. \A a \in PAs : \A q : HasPa(a)' /\ PastRemote(a, q)' => PastRemote(a, q)
  BY <1>1, <1>3 DEF PastRemote
<1>7. \A a \in PAs : \A v : HasPa(a)' /\ PastRemoteVirt(a, v)' => PastRemoteVirt(a, v)
  BY <1>1, <1>3 DEF PastRemoteVirt
<1> QED
  BY <1>2, <1>4, <1>5, <1>6, <1>7, FullOnwards

LEMMA FullCreatePa ==
  ASSUME IInv, IInv', Reliable, NoErrors, Full, NewPas, Quiet, Recommit, NEW c \in PAs, CreatePa(c)
  PROVE  Full'
<1>1. /\ pas' = pas \ {c} /\ cur' = c /\ pc' = "virts" /\ todo' = NewVirts(c) /\ pc = "commit"
      /\ UNCHANGED <<pa, virt, cv, left, committed_as_local, connected_through>>
      /\ cv = NULL /\ cur = NULL /\ c \in pas /\ pa[c] \in {"NEW", "OK"}
      /\ kernel' = IF pa[c] = "NEW" THEN kernel \cup {PaFact(c)} ELSE kernel
  <2>1. /\ pc = "commit" /\ cv = NULL /\ cur = NULL /\ c \in pas
        /\ UNCHANGED <<pa, virt, connected_through>>
    BY DEF CreatePa, Running, IInv, Loops, Walking, Recommit, TypeOK, LoopTypes, Quiet
  <2>2. pa[c] \in {"NEW", "OK"}
    BY <2>1 DEF IInv, Loops, Walking, Alloc, Recommit, NoErrors, Objects, States, Tried
  <2> QED
    BY <2>1, <2>2, ReliableClean, NoMark DEF CreatePa, Added, StateOk, bookVars
<1>2. /\ \A kind : kind # "pa" => Keys(kind)' = Keys(kind)
      /\ Keys("pa")' \subseteq Keys("pa") \cup {c}
  <2>1. CASE pa[c] = "NEW"
    <3>1. kernel' = kernel \cup {PaFact(c)} /\ PaFact(c)[1] = "pa" /\ PaFact(c)[2] = c
      BY <1>1, <2>1 DEF PaFact
    <3> QED
      BY <3>1, KeysAdded
  <2>2. CASE pa[c] # "NEW"
    BY <1>1, <2>2, KeysSame
  <2> QED
    BY <2>1, <2>2
<1>3. ASSUME NEW a \in PAs, HasPa(a)', a # c \/ pa[a] = "OK" PROVE HasPa(a)
  <2>1. CASE a # c
    BY <1>2, <1>3, <2>1 DEF IInv, Books, PaSet
  <2>2. CASE pa[a] = "OK"
    BY <1>1, <1>3, <2>2 DEF HasPa, Made, Installed
  <2> QED
    BY <1>3, <2>1, <2>2
<1>4. ASSUME NEW a \in PAs, a # c, Visited(a)' PROVE Visited(a)
  BY <1>1, <1>4 DEF Visited, Recommit
<1>5. ASSUME NEW v \in Virts, VirtDue(v)' PROVE VirtDue(v)
  <2>1. PICK a \in PAs : /\ PaOf(v) = a /\ connected_through[v] # NULL /\ HasPa(a)'
                         /\ virt[v] = "OK" \/ (virt[v] = "NEW" /\ PastVirt(a, v)')
    BY <1>5, VirtDueIs
  <2>2. CASE a = c
    <3>1. v \in ConnectedVirts(c)
      BY <2>1, <2>2 DEF ConnectedVirts, PaOf
    <3>2. virt[v] # "NEW"
      BY <1>1, <2>1, <2>2, <3>1, NotNull DEF PastVirt, NewVirts
    <3>3. pa[c] = "OK" /\ virt[v] = "OK"
      BY <1>1, <2>1, <2>2, <3>2 DEF NewPas
    <3> QED
      BY <1>3, <2>1, <2>2, <3>3 DEF VirtDue
  <2>3. CASE a # c
    BY <1>1, <1>3, <1>4, <2>1, <2>3 DEF VirtDue, PastVirt
  <2> QED
    BY <2>2, <2>3
<1>6. \A v \in Virts, d \in Dirs : RateDue(v, d)' => RateDue(v, d)
  BY <1>1, <1>2, RatesSame
<1>7. ASSUME NEW a \in PAs, NEW b \in PAs, RpaDue(a, b)' PROVE RpaDue(a, b)
  <2>1. CASE a = c
    <3>1. pa[a] = "OK" /\ pa[b] = "OK"
      BY <1>1, <1>7, <2>1 DEF RpaDue, PastRemote
    <3> QED
      BY <1>1, <1>3, <1>7, <3>1 DEF RpaDue
  <2>2. CASE a # c
    BY <1>1, <1>3, <1>4, <1>7, <2>2 DEF RpaDue, PastRemote
  <2> QED
    BY <2>1, <2>2
<1>8. ASSUME NEW r \in Keys("rpa")', NEW v \in Virts, RvirtDue(r, v)'
      PROVE  r \in Keys("rpa") /\ RvirtDue(r, v)
  <2>1. PICK a \in PAs : a = <<r[1], r[3]>>
    BY <1>8, RvirtDueIs
  <2>2. (pa[a] = "OK" /\ virt[v] = "OK") \/ PastRemoteVirt(a, v)
    BY <1>1, <1>4, <1>8, <2>1, RvirtDueIs DEF PastRemoteVirt
  <2> QED
    BY <1>2, <1>8, <2>1, <2>2, RvirtDueIs DEF RvirtDue
<1> QED
  BY <1>5, <1>6, <1>7, <1>8, FullGrows DEF Quiet

LEMMA FullAddVirt ==
  ASSUME IInv, IInv', Reliable, Full, Quiet, Recommit, NEW w \in Virts, AddVirt(w)
  PROVE  Full'
<1>1. /\ cv = NULL /\ cv' = w /\ kernel' = kernel \cup {VirtFact(w)} /\ w \in todo /\ pc = "virts"
      /\ UNCHANGED <<todo, pc, cur, left, pas, virt>>
  BY ReliableClean DEF AddVirt, Added, Running, Quiet
<1>2. VirtFact(w)[1] = "virt" /\ VirtFact(w)[2] = w
  BY DEF VirtFact
<1>3. Keys("virt")' = Keys("virt") \cup {w} /\ \A kind : kind # "virt" => Keys(kind)' = Keys(kind)
  BY <1>1, <1>2, KeysAdded
<1>4. \A a \in PAs : Visited(a)' => Visited(a)
  BY <1>1 DEF Visited, Recommit
<1>5. \A v \in Virts, a \in PAs : PastVirt(a, v)' => PastVirt(a, v) \/ v \in Keys("virt")'
  BY <1>1, <1>3, <1>4 DEF PastVirt
<1>6. ASSUME NEW v \in Virts, NEW d \in Dirs, RateDue(v, d)' PROVE RateDue(v, d)
  <2>1. virt[w] = "NEW"
    BY <1>1 DEF IInv, Loops, InVirts
  <2>2. v # w
    BY <1>1, <1>6, <2>1 DEF RateDue
  <2> QED
    BY <1>1, <1>3, <1>6, <2>2, NotNull DEF RateDue, Quiet
<1>7. \A a \in PAs : \A q : PastRemote(a, q)' => PastRemote(a, q)
  BY <1>1, <1>4 DEF PastRemote
<1>8. \A a \in PAs : \A v : PastRemoteVirt(a, v)' => PastRemoteVirt(a, v)
  BY <1>1, <1>4 DEF PastRemoteVirt
<1> QED
  BY <1>3, <1>5, <1>6, <1>7, <1>8, FullOnwards

LEMMA FullCommitRates ==
  ASSUME IInv, IInv', Reliable, Full, Quiet, Recommit, CommitRates
  PROVE  Full'
<1>1. /\ cv \in Virts /\ cv' = NULL /\ todo' = todo \ {cv} /\ pc = "virts"
      /\ UNCHANGED <<pc, cur, left, pas, virt, attr_rate>>
      /\ kernel' = kernel \cup {RateFact(cv, d) : d \in Wanted(cv)}
  <2>1. /\ cv \in Virts /\ cv' = NULL /\ todo' = todo \ {cv} /\ pc = "virts"
        /\ UNCHANGED <<pc, cur, left, pas, virt, attr_rate>>
    BY DEF CommitRates, RatesEnd, Running, IInv, TypeOK, LoopTypes, OrNull, Quiet
  <2>2. kernel' = kernel \cup {RateFact(cv, d) : d \in Wanted(cv) \ {}}
    BY ReliableClean DEF CommitRates
  <2> QED
    BY <2>1, <2>2
<1>2. \A kind : kind # "rate" => Keys(kind)' = Keys(kind)
  <2>1. \A d : RateFact(cv, d)[1] = "rate"
    BY DEF RateFact
  <2>2. \A kind, x : kind # "rate" => (x \in Keys(kind)' <=> x \in Keys(kind))
    BY <1>1, <2>1 DEF Keys
  <2> QED
    BY <2>2
<1>3. cv \in Keys("virt")'
  <2>1. committed_to[cv] # NULL
    BY <1>1, NotNull, PaPair DEF IInv, Loops, InVirts, TypeOK, LoopTypes
  <2> QED
    BY <1>1, <1>2, <2>1 DEF IInv, Books, BooksMatchKernel
<1>4. \A a \in PAs : Visited(a)' => Visited(a)
  BY <1>1 DEF Visited, Recommit
<1>5. \A v \in Virts, a \in PAs : PastVirt(a, v)' => PastVirt(a, v) \/ v \in Keys("virt")'
  BY <1>1, <1>3, <1>4, NotNull DEF PastVirt
<1>6. ASSUME NEW v \in Virts, NEW d \in Dirs, RateDue(v, d)'
      PROVE  RateDue(v, d) \/ <<v, d>> \in Keys("rate")'
  <2>1. CASE v = cv
    <3>1. d \in Wanted(cv)
      BY <1>1, <1>6, <2>1 DEF RateDue, Wanted
    <3>2. RateFact(cv, d) \in kernel' /\ RateFact(cv, d)[1] = "rate" /\ RateFact(cv, d)[2] = <<v, d>>
      BY <1>1, <2>1, <3>1 DEF RateFact
    <3> QED
      BY <3>2 DEF Keys
  <2>2. CASE v # cv
    BY <1>1, <1>2, <1>6, <2>2 DEF RateDue
  <2> QED
    BY <2>1, <2>2
<1>7. \A a \in PAs : \A q : PastRemote(a, q)' => PastRemote(a, q)
  BY <1>1, <1>4 DEF PastRemote
<1>8. \A a \in PAs : \A v : PastRemoteVirt(a, v)' => PastRemoteVirt(a, v)
  BY <1>1, <1>4 DEF PastRemoteVirt
<1> QED
  BY <1>2, <1>5, <1>6, <1>7, <1>8, FullOnwards

LEMMA FullCommitRemotes ==
  ASSUME IInv, IInv', Full, Quiet, Recommit, CommitRemotes
  PROVE  Full'
<1>1. /\ pc = "virts" /\ pc' = "remotes" /\ todo = {} /\ UNCHANGED <<kernel, cur, left, pas, cv>>
      /\ todo' = {q \in Physes \ {cur[1]} : pa[<<q, cur[2]>>] # "none"}
  BY DEF CommitRemotes, Running
<1>2. \A kind : Keys(kind)' = Keys(kind)
  BY <1>1, KeysSame
<1>3. \A v \in Virts, d \in Dirs : RateDue(v, d)' => RateDue(v, d)
  BY <1>1, <1>2, RatesSame
<1>4. \A a \in PAs : Visited(a)' => Visited(a)
  BY <1>1 DEF Visited, Recommit
<1>5. \A v \in Virts, a \in PAs : PastVirt(a, v)' => PastVirt(a, v)
  BY <1>1, <1>4 DEF PastVirt
<1>6. ASSUME NEW a \in PAs, NEW b \in PAs, a # b, a[2] = b[2], pa[b] \in {"NEW", "OK"},
             PastRemote(a, b[1])'
      PROVE  PastRemote(a, b[1])
  <2>1. a = <<a[1], a[2]>> /\ b = <<b[1], a[2]>> /\ b[1] \in Physes
    BY <1>6, PaPair
  <2>2. a = cur => b[1] \in todo'
    BY <1>1, <1>6, <2>1
  <2> QED
    BY <1>1, <1>4, <1>6, <2>2 DEF PastRemote
<1>7. \A a \in PAs : \A v : PastRemoteVirt(a, v)' => PastRemoteVirt(a, v)
  BY <1>1, <1>4 DEF PastRemoteVirt
<1> QED
  BY <1>2, <1>3, <1>5, <1>6, <1>7, FullOnwards

LEMMA FullSkipRemotePa ==
  ASSUME IInv, IInv', Full, Quiet, Recommit, NEW q \in Physes, SkipRemotePa(q)
  PROVE  Full'
<1>1. /\ pc = "remotes" /\ todo' = todo \ {q} /\ UNCHANGED <<pc, kernel, cur, left, pas, cv>>
      /\ pa[cur] # "NEW" /\ pa[<<q, cur[2]>>] # "NEW"
  BY DEF SkipRemotePa, Running, IsNew
<1>2. \A kind : Keys(kind)' = Keys(kind)
  BY <1>1, KeysSame
<1>3. \A v \in Virts, d \in Dirs : RateDue(v, d)' => RateDue(v, d)
  BY <1>1, <1>2, RatesSame
<1>4. \A a \in PAs : Visited(a)' => Visited(a)
  BY <1>1 DEF Visited, Recommit
<1>5. \A v \in Virts, a \in PAs : PastVirt(a, v)' => PastVirt(a, v)
  BY <1>1, <1>4 DEF PastVirt
<1>6. ASSUME NEW a \in PAs, NEW b \in PAs, a[2] = b[2], pa[b] \in {"NEW", "OK"},
             PastRemote(a, b[1])', ~PastRemote(a, b[1])
      PROVE  pa[a] = "OK" /\ pa[b] = "OK"
  <2>1. a = cur /\ b[1] = q
    BY <1>1, <1>4, <1>6 DEF PastRemote
  <2>2. b = <<q, cur[2]>>
    BY <1>6, <2>1, PaPair
  <2>3. pa[cur] \in {"NEW", "OK"}
    BY <1>1 DEF IInv, Loops, Walking, Recommit
  <2> QED
    BY <1>1, <1>6, <2>1, <2>2, <2>3
<1>7. \A a \in PAs : \A v : PastRemoteVirt(a, v)' => PastRemoteVirt(a, v)
  BY <1>1, <1>4 DEF PastRemoteVirt
<1> QED
  BY <1>2, <1>3, <1>5, <1>6, <1>7, FullOnwards

LEMMA FullAddRemotePa ==
  ASSUME IInv, IInv', Reliable, Full, NewPas, Quiet, Recommit, NEW q \in Physes, AddRemotePa(q)
  PROVE  Full'
<1> DEFINE rpa == <<cur[1], q, cur[2]>>
<1>1. /\ pc = "remotes" /\ todo' = todo \ {q} /\ UNCHANGED <<pc, cur, left, pas, cv, virt>>
      /\ pa[cur] = "NEW" \/ pa[<<q, cur[2]>>] = "NEW"
      /\ kernel' = kernel \cup {RpaFact(rpa)} /\ cur \in PAs
  BY ReliableClean DEF AddRemotePa, Running, IsNew, Added, Quiet, IInv, TypeOK, LoopTypes
<1>2. Keys("rpa")' = Keys("rpa") \cup {rpa} /\ \A kind : kind # "rpa" => Keys(kind)' = Keys(kind)
  <2>1. RpaFact(rpa)[1] = "rpa" /\ RpaFact(rpa)[2] = rpa
    BY DEF RpaFact
  <2> QED
    BY <1>1, <2>1, KeysAdded
<1>3. \A v \in Virts, d \in Dirs : RateDue(v, d)' => RateDue(v, d)
  BY <1>1, <1>2, RatesSame
<1>4. \A a \in PAs : Visited(a)' => Visited(a)
  BY <1>1 DEF Visited, Recommit
<1>5. \A v \in Virts, a \in PAs : PastVirt(a, v)' => PastVirt(a, v)
  BY <1>1, <1>4 DEF PastVirt
<1>6. ASSUME NEW a \in PAs, NEW b \in PAs, PastRemote(a, b[1])', ~PastRemote(a, b[1])
      PROVE  <<a[1], b[1], a[2]>> \in Keys("rpa")'
  <2>1. a = cur /\ b[1] = q
    BY <1>1, <1>4, <1>6 DEF PastRemote
  <2> QED
    BY <1>2, <2>1
<1>7. \A a \in PAs : \A v : PastRemoteVirt(a, v)' => PastRemoteVirt(a, v)
  BY <1>1, <1>4 DEF PastRemoteVirt
<1>8. ASSUME NEW r \in Keys("rpa")', NEW v \in Virts, r \notin Keys("rpa"), RvirtDue(r, v)'
      PROVE  FALSE
  <2>1. r[1] = cur[1] /\ r[2] = q /\ r[3] = cur[2]
    BY <1>2, <1>8
  <2>2. <<r[1], r[3]>> = cur
    BY <1>1, <2>1, PaPair
  <2>3. ~PastRemoteVirt(<<r[1], r[3]>>, v)'
    BY <1>1, <2>2 DEF PastRemoteVirt
  <2>4. pa[cur] = "OK" /\ virt[v] = "OK" /\ connected_through[v] = q /\ VirtNet[v] = cur[2]
    BY <1>8, <2>1, <2>2, <2>3, RvirtDueIs
  <2>5. PaOf(v) = <<q, cur[2]>> /\ pa[PaOf(v)] = "NEW" /\ connected_through[v] # NULL
    BY <1>1, <2>4, NotNull DEF PaOf
  <2> QED
    BY <2>4, <2>5 DEF NewPas
<1> HIDE DEF rpa
<1> QED
  BY <1>2, <1>3, <1>5, <1>6, <1>7, <1>8, FullOnwards

LEMMA FullCommitRemoteVirts ==
  ASSUME IInv, IInv', Full, Quiet, Recommit, CommitRemoteVirts
  PROVE  Full'
<1>1. /\ pc = "remotes" /\ pc' = "rvirts" /\ todo = {} /\ UNCHANGED <<kernel, cur, left, pas, cv>>
      /\ todo' = UNION {ConnectedVirts(<<r[2], r[3]>>) : r \in Remotes(cur)} /\ cur \in PAs
  BY DEF CommitRemoteVirts, Running, IInv, TypeOK, LoopTypes
<1>2. \A kind : Keys(kind)' = Keys(kind)
  BY <1>1, KeysSame
<1>3. \A v \in Virts, d \in Dirs : RateDue(v, d)' => RateDue(v, d)
  BY <1>1, <1>2, RatesSame
<1>4. \A a \in PAs : Visited(a)' => Visited(a)
  BY <1>1 DEF Visited, Recommit
<1>5. \A v \in Virts, a \in PAs : PastVirt(a, v)' => PastVirt(a, v)
  BY <1>1, <1>4 DEF PastVirt
<1>6. \A a \in PAs : \A q : PastRemote(a, q)' => PastRemote(a, q)
  BY <1>1, <1>4 DEF PastRemote
<1>7. ASSUME NEW r \in Keys("rpa"), NEW v \in Virts,
             r[3] = VirtNet[v], connected_through[v] = r[2], virt[v] \in {"NEW", "OK"},
             r[2] \in Physes,
             PastRemoteVirt(<<r[1], r[3]>>, v)', <<r[1], r[3]>> \in PAs
      PROVE  PastRemoteVirt(<<r[1], r[3]>>, v)
  <2>1. ASSUME <<r[1], r[3]>> = cur PROVE v \in todo'
    <3>1. r \in rpas
      BY DEF IInv, Books, BooksMatchKernel
    <3>2. r \in Remotes(cur)
      BY <1>1, <2>1, <3>1 DEF Remotes
    <3>3. v \in ConnectedVirts(<<r[2], r[3]>>)
      BY <1>7 DEF ConnectedVirts
    <3> QED
      BY <1>1, <3>2, <3>3
  <2> QED
    BY <1>1, <1>4, <1>7, <2>1 DEF PastRemoteVirt
<1> QED
  BY <1>2, <1>3, <1>5, <1>6, <1>7, FullOnwards

LEMMA FullSkipRemoteVirt ==
  ASSUME IInv, IInv', Full, Quiet, Recommit, NEW w \in Virts, SkipRemoteVirt(w)
  PROVE  Full'
<1>1. /\ pc = "rvirts" /\ todo' = todo \ {w} /\ UNCHANGED <<pc, kernel, cur, left, pas, cv>>
      /\ pa[cur] # "NEW" /\ virt[w] # "NEW"
  BY DEF SkipRemoteVirt, Running, IsNew
<1>2. \A kind : Keys(kind)' = Keys(kind)
  BY <1>1, KeysSame
<1>3. \A v \in Virts, d \in Dirs : RateDue(v, d)' => RateDue(v, d)
  BY <1>1, <1>2, RatesSame
<1>4. \A a \in PAs : Visited(a)' => Visited(a)
  BY <1>1 DEF Visited, Recommit
<1>5. \A v \in Virts, a \in PAs : PastVirt(a, v)' => PastVirt(a, v)
  BY <1>1, <1>4 DEF PastVirt
<1>6. \A a \in PAs : \A q : PastRemote(a, q)' => PastRemote(a, q)
  BY <1>1, <1>4 DEF PastRemote
<1>7. ASSUME NEW a \in PAs, NEW v \in Virts, virt[v] \in {"NEW", "OK"},
             PastRemoteVirt(a, v)', ~PastRemoteVirt(a, v)
      PROVE  pa[a] = "OK" /\ virt[v] = "OK"
  <2>1. a = cur /\ v = w
    BY <1>1, <1>4, <1>7 DEF PastRemoteVirt
  <2>2. pa[cur] \in {"NEW", "OK"}
    BY <1>1 DEF IInv, Loops, Walking, Recommit
  <2> QED
    BY <1>1, <1>7, <2>1, <2>2
<1> QED
  BY <1>2, <1>3, <1>5, <1>6, <1>7, FullOnwards

LEMMA FullAddRemoteVirt ==
  ASSUME IInv, IInv', Reliable, Full, Quiet, Recommit, NEW w \in Virts, AddRemoteVirt(w)
  PROVE  Full'
<1> DEFINE rv == <<cur[1], connected_through[w], w>>
<1>1. /\ pc = "rvirts" /\ todo' = todo \ {w} /\ UNCHANGED <<pc, cur, left, pas, cv>>
      /\ kernel' = kernel \cup {RvirtFact(rv)}
  BY ReliableClean DEF AddRemoteVirt, Running, Added
<1>2. Keys("rvirt")' = Keys("rvirt") \cup {rv} /\ \A kind : kind # "rvirt" => Keys(kind)' = Keys(kind)
  <2>1. RvirtFact(rv)[1] = "rvirt" /\ RvirtFact(rv)[2] = rv
    BY DEF RvirtFact
  <2> QED
    BY <1>1, <2>1, KeysAdded
<1>3. \A v \in Virts, d \in Dirs : RateDue(v, d)' => RateDue(v, d)
  BY <1>1, <1>2, RatesSame
<1>4. \A a \in PAs : Visited(a)' => Visited(a)
  BY <1>1 DEF Visited, Recommit
<1>5. \A v \in Virts, a \in PAs : PastVirt(a, v)' => PastVirt(a, v)
  BY <1>1, <1>4 DEF PastVirt
<1>6. \A a \in PAs : \A q : PastRemote(a, q)' => PastRemote(a, q)
  BY <1>1, <1>4 DEF PastRemote
<1>7. ASSUME NEW r \in Keys("rpa"), NEW v \in Virts, connected_through[v] = r[2],
             <<r[1], r[3]>> \in PAs,
             PastRemoteVirt(<<r[1], r[3]>>, v)', ~PastRemoteVirt(<<r[1], r[3]>>, v)
      PROVE  <<r[1], r[2], v>> \in Keys("rvirt")'
  <2>1. <<r[1], r[3]>> = cur /\ v = w
    BY <1>1, <1>4, <1>7 DEF PastRemoteVirt
  <2>2. <<r[1], r[2], v>> = rv
    BY <1>7, <2>1
  <2> QED
    BY <1>2, <2>2
<1> HIDE DEF rv
<1> QED
  BY <1>2, <1>3, <1>5, <1>6, <1>7, FullOnwards

LEMMA FullCommitPaEnd ==
  ASSUME IInv, IInv', Full, Quiet, Recommit, CommitPaEnd
  PROVE  Full'
<1>1. /\ pc = "rvirts" /\ pc' = "commit" /\ todo = {} /\ UNCHANGED <<kernel, left, pas, todo, cv>>
  BY DEF CommitPaEnd, Running
<1>2. \A kind : Keys(kind)' = Keys(kind)
  BY <1>1, KeysSame
<1>3. \A v \in Virts, d \in Dirs : RateDue(v, d)' => RateDue(v, d)
  BY <1>1, <1>2, RatesSame
<1>4. \A a \in PAs : Visited(a)' => Visited(a)
  BY <1>1 DEF Visited, Recommit
<1>5. \A v \in Virts, a \in PAs : PastVirt(a, v)' => PastVirt(a, v)
  BY <1>1, <1>4 DEF PastVirt
<1>6. \A a \in PAs : \A q : PastRemote(a, q)' => PastRemote(a, q)
  BY <1>1, <1>4 DEF PastRemote
<1>7. \A a \in PAs : \A v : PastRemoteVirt(a, v)' => PastRemoteVirt(a, v)
  BY <1>1, <1>4 DEF PastRemoteVirt
<1> QED
  BY <1>2, <1>3, <1>5, <1>6, <1>7, FullOnwards

\* The end of the decommit phase: no local PA was visited yet.
LEMMA FullDecommitEnd ==
  ASSUME IInv, IInv', Full, DecommitEnd
  PROVE  Full'
<1>1. /\ UNCHANGED <<pa, virt, kernel, connected_through, attr_rate>>
      /\ left' = {p \in Physes : phys[p] # "DELETE" /\ phys[p] # "none" /\ is_local[p]}
      /\ ResetPhys({p \in Physes : phys[p] = "DELETE"}) /\ pc = "decommit" /\ dv = NULL
  BY DEF DecommitEnd, virtAttr, linkVars, Running
<1>2. ASSUME NEW a \in PAs, HasPa(a)' PROVE ~Visited(a)'
  <2>1. committed_as_local'[a[1]] /\ a[1] \in Physes
    BY <1>2, PaPair DEF HasPa
  <2>2. phys[a[1]] # "DELETE" /\ committed_as_local[a[1]]
    BY <1>1, <2>1 DEF ResetPhys
  <2>3. is_local[a[1]] /\ phys[a[1]] # "none"
    BY <2>1, <2>2 DEF IInv, Objects, Locals, Alloc
  <2> QED
    BY <1>1, <2>1, <2>2, <2>3 DEF Visited
<1>3. ASSUME NEW v \in Virts, virt'[v] = "NEW", v \in Keys("virt")' PROVE FALSE
  <2>1. virt[v] = "NEW" /\ v \in Keys("virt")
    BY <1>1, <1>3, KeysSame
  <2>2. committed_to[v] # NULL
    BY <2>1 DEF IInv, Books, BooksMatchKernel
  <2> QED
    BY <1>1, <2>1, <2>2, NotNull DEF IInv, Books, VirtSet, PastVirt, Visited, Recommit, Installed
<1> QED
  BY <1>1, <1>2, <1>3, FullKept

\* The end of the commit: it has come past everything.
LEMMA FullCommitEnd ==
  ASSUME IInv, IInv', NoErrors, Full, CommitEnd
  PROVE  FullInv'
<1>1. /\ UNCHANGED <<userVars, kernel, cv, dv, dp>> /\ pc = "commit" /\ left = {} /\ pas = {}
      /\ cur = NULL /\ cv = NULL /\ pc' = "idle" /\ Recommit /\ ~Recommit'
  BY DEF CommitEnd, Running, Recommit, IInv, Loops, Walking, TypeOK, LoopTypes, loopVars
<1>2. AllIn({"none", "NEW", "OK"})
  BY <1>1 DEF IInv, Objects, States, Settled, Tried, NoErrors, AllIn
<1>3. AllIn({"none", "OK"})'
  BY <1>2 DEF CommitEnd, AllIn, AckState
<1>4. /\ \A a \in PAs : pa'[a] # "none" => pa[a] \in {"NEW", "OK"}
      /\ \A v \in Virts : virt'[v] # "none" => virt[v] \in {"NEW", "OK"}
  BY <1>2 DEF CommitEnd, AllIn, AckState
<1>5. NoErrors'
  BY <1>3 DEF NoErrors, AllIn, CommitEnd
<1>6. NewPas'
  <2>1. ASSUME NEW v \in Virts, connected_through'[v] # NULL PROVE pa'[PaOf(v)'] # "NEW"
    <3>1. PaOf(v)' \in PAs
      BY <2>1, NetApiAssumption DEF IInv, TypeOK, UserTypes, OrNull, PaOf, PAs
    <3> QED
      BY <1>3, <3>1 DEF AllIn
  <2> QED
    BY <2>1 DEF NewPas
<1>7. \A kind : Keys(kind)' = Keys(kind)
  BY <1>1, KeysSame
<1>8. \A a \in PAs : HasPa(a)' => HasPa(a)
  BY <1>7 DEF IInv, Books, PaSet
<1>9. /\ \A a \in PAs : Visited(a)
      /\ \A a \in PAs : \A v : PastVirt(a, v)
      /\ \A a \in PAs : \A q : PastRemote(a, q)
      /\ \A a \in PAs : \A v : PastRemoteVirt(a, v)
  <2>1. \A a \in PAs : Visited(a) /\ cur # a
    BY <1>1, NotNull DEF Visited
  <2> QED
    BY <2>1 DEF PastVirt, PastRemote, PastRemoteVirt
<1>10. ASSUME NEW v \in Virts, VirtDue(v)' PROVE v \in Keys("virt")'
  <2>1. connected_through[v] # NULL /\ virt'[v] = "OK" /\ UNCHANGED connected_through
    BY <1>1, <1>10 DEF VirtDue, PastVirt, Visited, userVars, linkVars
  <2>2. PICK a \in PAs : a = PaOf(v)
    BY <2>1, PaOfTyped DEF IInv
  <2>3. PaOf(v)' = a
    BY <2>1, <2>2 DEF PaOf
  <2>4. HasPa(a)'
    BY <1>10, <2>3 DEF VirtDue, HasPa, Made, Visited, Recommit
  <2>5. VirtDue(v)
    BY <1>4, <1>8, <1>9, <2>1, <2>2, <2>4 DEF VirtDue
  <2> QED
    BY <1>7, <2>5 DEF Full
<1>11. ASSUME NEW v \in Virts, NEW d \in Dirs, RateDue(v, d)' PROVE <<v, d>> \in Keys("rate")'
  <2>1. RateDue(v, d)
    BY <1>1, <1>4, <1>7, <1>11, NotNull DEF RateDue, userVars, virtAttr
  <2> QED
    BY <1>7, <2>1 DEF Full
<1>12. ASSUME NEW a \in PAs, NEW b \in PAs, RpaDue(a, b)'
       PROVE  <<a[1], b[1], a[2]>> \in Keys("rpa")'
  <2>1. RpaDue(a, b)
    BY <1>4, <1>8, <1>9, <1>12 DEF RpaDue
  <2> QED
    BY <1>7, <2>1 DEF Full
<1>13. ASSUME NEW r \in Keys("rpa")', NEW v \in Virts, RvirtDue(r, v)'
       PROVE  <<r[1], r[2], v>> \in Keys("rvirt")'
  <2>1. r \in Keys("rpa") /\ r \in rpas
    BY <1>7 DEF IInv, Books, BooksMatchKernel
  <2>2. <<r[1], r[3]>> \in PAs
    BY <2>1 DEF IInv, TypeOK, BookTypes, PAs
  <2>3. RvirtDue(r, v)
    BY <1>1, <1>4, <1>9, <1>13, <2>2 DEF RvirtDue, userVars, linkVars
  <2> QED
    BY <1>7, <2>1, <2>3 DEF Full
<1>14. Full'
  BY <1>10, <1>11, <1>12, <1>13 DEF Full
<1> QED
  BY <1>5, <1>6, <1>14 DEF FullInv

\* No problem is counted.
LEMMA StepTidy ==
  ASSUME IInv, Reliable, NoErrors, CommitStep, pc = "decommit"
  PROVE  ~problems' /\ ~inconsistent'
<1> USE ReliableClean, NoteOk DEF NoErrors
<1>1. ASSUME NEW rv \in rvirts, RemoveRemoteVirt(rv) PROVE ~problems' /\ ~inconsistent'
  BY <1>1 DEF RemoveRemoteVirt
<1>2. ASSUME NEW r \in rpas, RemoveRemotePa(r) PROVE ~problems' /\ ~inconsistent'
  BY <1>2 DEF RemoveRemotePa, RpaRemoval, Reliable
<1>3. ASSUME RemoveRates PROVE ~problems' /\ ~inconsistent'
  BY <1>3 DEF RemoveRates
<1>4. ASSUME RemoveVirt PROVE ~problems' /\ ~inconsistent'
  BY <1>4 DEF RemoveVirt
<1>5. ASSUME DestroyPa PROVE ~problems' /\ ~inconsistent'
  BY <1>5 DEF DestroyPa
<1>6. ASSUME \/ \E v \in Virts : DecommitVirt(v)
             \/ \E a \in PAs : DecommitPa(a)
             \/ \E n \in Nets : DecommitNet(n)
             \/ DecommitNetEnd \/ DecommitEnd
      PROVE  ~problems' /\ ~inconsistent'
  <2>1. UNCHANGED errVars
    BY <1>6 DEF DecommitVirt, DecommitPa, DecommitNet, DecommitNetEnd, DecommitEnd
  <2> QED
    BY <2>1 DEF errVars
<1> QED
  BY <1>1, <1>2, <1>3, <1>4, <1>5, <1>6 DEF CommitStep, AddVirt, AddVirtNoMem, SkipRemoteVirt,
     AddRemoteVirt, AddRemoteVirtNoMem, CreatePa, CommitPhys, CommitRates, CommitRatesNoMem,
     CommitRatesUndoFails, RatesEnd, CommitRemotes, SkipRemotePa, AddRemotePa, AddRemotePaNoMem,
     CommitRemoteVirts, CommitPaEnd, CommitEnd, Running

\* What a client's call, a validation or a step of the decommit phase leaves.
LEMMA NewPasKept ==
  ASSUME IInv, IInv', NewPas,
         \A a \in PAs : pa'[a] = "NEW" => \/ pa[a] \in {"none", "NEW", "DELETE"}
                                          \/ pc = "decommit" /\ pa[a] = "RENEW",
         \A v \in Virts : virt'[v] = "OK" => /\ virt[v] = "OK"
                                             /\ connected_through'[v] = connected_through[v]
  PROVE  NewPas'
<1> SUFFICES ASSUME NEW v \in Virts, connected_through'[v] # NULL, pa'[PaOf(v)'] = "NEW",
                    virt'[v] = "OK"
             PROVE  FALSE
  BY DEF NewPas
<1>1. /\ virt[v] = "OK" /\ connected_through[v] # NULL /\ PaOf(v) = PaOf(v)'
      /\ connected_through'[v] = connected_through[v]
  BY DEF PaOf
<1>2. PaOf(v) \in PAs
  BY <1>1, PaOfTyped DEF IInv
<1>3. Live(pa[PaOf(v)])
  BY <1>1 DEF IInv, Objects, Linked
<1>4. pa[PaOf(v)] = "RENEW" /\ pc = "decommit"
  BY <1>1, <1>2, <1>3 DEF NewPas, Live
<1> QED
  BY <1>1, <1>4 DEF IInv, Loops, Propagated

LEMMA EditFull ==
  ASSUME IInv, IInv', Client \/ Call, FullInv
  PROVE  FullInv'
<1>1. /\ EditMoves /\ UNCHANGED <<kernel, problems, inconsistent>>
      /\ pc = "idle" /\ pc' \in {"idle", "decommit"} /\ ret' # "OK"
  <2>1. CASE Client
    <3>1. Edit /\ UNCHANGED commitVars /\ pc = "idle"
      BY <2>1 DEF Client
    <3>2. ret' = "NONE"
      BY <2>1 DEF Client, Edit, SettingsNew, SettingsFree, NetNew, NetFree, PhysNew, PhysFree,
         ClaimLocal, UnclaimLocal, VirtNew, VirtFree, VirtDisconnect, PhysAttach, PhysDetach,
         VirtConnect, PhysSetIface, PhysSetIp, VirtSetMac, VirtSetRate, ContextCleanup, PhysEdit,
         VirtEdit, Editing
    <3> QED
      BY <3>1, <3>2, EditMovesOn DEF commitVars, errVars
  <2>2. CASE Call
    <3>1. /\ Validation /\ pc = "idle" /\ pc' \in {"idle", "decommit"}
          /\ ret' \in {"NONE", "VALIDATE", "NETLINK"}
      BY <2>2 DEF Call, ValidateFails, ValidatePasses, CommitNoSocket, CommitBegin, Calling, Return
    <3> QED
      BY <3>1, ValidationMoves DEF Validation
  <2> QED
    BY <2>1, <2>2
<1>2. ~Recommit /\ ~Recommit'
  BY <1>1 DEF Recommit
<1>3. NoErrors'
  BY <1>1, <1>2 DEF FullInv, NoErrors, IInv, Objects, States, Tried
<1>4. NewPas'
  BY <1>1, NewPasKept DEF FullInv, EditMoves
<1>5. \A a \in PAs : ~Visited(a)'
  BY <1>2 DEF Visited
<1>6. Full'
  BY <1>1, <1>2, <1>5, FullKept DEF FullInv, EditMoves
<1> QED
  BY <1>3, <1>4, <1>6 DEF FullInv

LEMMA DecommitFull ==
  ASSUME IInv, IInv', Reliable, CommitStep, ~Recommit, Returned, FullInv
  PROVE  FullInv'
<1>1. pc = "decommit" /\ ~CommitEnd /\ ret' = "NONE"
  BY StepRuns DEF Recommit, IInv, TypeOK, LoopTypes, Phases, CommitEnd, Running, Returned
<1>2. ~problems' /\ ~inconsistent' /\ Clean
  BY <1>1, StepTidy, ReliableClean DEF FullInv
<1>3. CASE DecommitEnd
  <2>1. UNCHANGED <<pa, virt, connected_through>>
    BY <1>3 DEF DecommitEnd, linkVars
  <2>2. NoErrors'
    BY <1>1, <1>2, <2>1 DEF FullInv, NoErrors
  <2>3. NewPas'
    BY <2>1 DEF FullInv, NewPas, PaOf
  <2> QED
    BY <1>3, <2>2, <2>3, FullDecommitEnd DEF FullInv
<1>4. CASE ~DecommitEnd
  <2>1. CommitMoves
    BY <1>1, <1>2, <1>4, StepMoves
  <2>2. ~Recommit'
    BY <2>1 DEF CommitMoves
  <2>3. NoErrors'
    BY <1>1, <1>2, <2>2 DEF NoErrors, IInv, Objects, States, Tried
  <2>4. \A a \in PAs : pa[a] \in {"none", "NEW", "RENEW", "OK", "DELETE"}
    BY DEF IInv, Objects, States, Tried
  <2>5. NewPas'
    BY <1>1, <2>1, <2>4, NewPasKept DEF FullInv, CommitMoves
  <2>6. kernel' \subseteq kernel
    BY <1>1, <1>2, StepAdds DEF CreatePa, AddVirt, CommitRates, RatesEnd, AddRemotePa,
       AddRemoteVirt, Running
  <2>7. \A f \in kernel \ kernel' : ~UpToDate(f)
    BY <1>2, StepRemoves
  <2>8. \A a \in PAs : ~Visited(a)'
    BY <2>2 DEF Visited
  <2>9. Full'
    BY <2>1, <2>2, <2>6, <2>7, <2>8, FullKept DEF FullInv, CommitMoves
  <2> QED
    BY <2>3, <2>5, <2>9 DEF FullInv
<1> QED
  BY <1>3, <1>4

LEMMA RecommitFull ==
  ASSUME IInv, IInv', Reliable, CommitStep, Recommit, Returned, FullInv
  PROVE  FullInv'
<1>1. CASE CommitEnd
  BY <1>1, FullCommitEnd DEF FullInv
<1>2. CASE ~CommitEnd
  <2> USE DEF FullInv
  <2>1. Quiet
    BY <1>2, RecommitQuiet
  <2>2. ret' = "NONE"
    BY <1>2, StepRuns DEF Returned
  <2>3. NoErrors'
    BY <2>1, <2>2 DEF NoErrors, Quiet
  <2>4. NewPas'
    BY <2>1 DEF NewPas, Quiet, PaOf
  <2>5. Full'
    BY <1>2, <2>1, RecommitSteps, FullCommitPhys, FullCreatePa, FullAddVirt, FullCommitRates,
       FullCommitRemotes, FullSkipRemotePa, FullAddRemotePa, FullCommitRemoteVirts,
       FullSkipRemoteVirt, FullAddRemoteVirt, FullCommitPaEnd
  <2> QED
    BY <2>3, <2>4, <2>5
<1> QED
  BY <1>1, <1>2

LEMMA InitFull == Init => FullInv
<1> SUFFICES ASSUME Init PROVE FullInv
  OBVIOUS
<1>1. /\ pa = [a \in PAs |-> "none"] /\ virt = [v \in Virts |-> "none"] /\ kernel = {}
      /\ problems = FALSE /\ inconsistent = FALSE /\ ret = "NONE"
  BY DEF Init, ApiInit, CommitInit
<1>2. \A kind : Keys(kind) = {}
  BY <1>1 DEF Keys
<1>3. NoErrors /\ NewPas
  BY <1>1 DEF NoErrors, NewPas
<1>4. Full
  BY <1>1, <1>2 DEF Full, VirtDue, RateDue, RpaDue, RvirtDue
<1> QED
  BY <1>3, <1>4 DEF FullInv

LEMMA StutterFull ==
  ASSUME UNCHANGED vars, FullInv
  PROVE  FullInv'
<1>1. UNCHANGED <<settings, net, phys, pa, virt, attr_rate, connected_through, committed_as_local,
                  kernel, pc, ret, problems, inconsistent, cur, left, pas, todo, cv, dp>>
  BY DEF vars, apiVars, objVars, virtAttr, linkVars, bookVars, commitVars, loopVars, errVars
<1>2. NoErrors' /\ NewPas'
  BY <1>1 DEF FullInv, NoErrors, NewPas, AllIn, PaOf
<1>3. Full'
  BY <1>1, ZenonT(40) DEF FullInv, Full, Keys, VirtDue, RateDue, RpaDue, RvirtDue, HasPa, Made, PastVirt,
     PastRemote, PastRemoteVirt, Visited, Recommit, PaOf
<1> QED
  BY <1>2, <1>3 DEF FullInv

LEMMA FullInvariance ==
  ASSUME Careful, Reliable
  PROVE  Spec => [](IInv /\ StaleInv /\ FullInv)
<1>1. ASSUME IInv, IInv', StaleInv, FullInv, [Next]_vars PROVE FullInv'
  <2>1. Returned
    BY <1>1 DEF StaleInv
  <2> QED
    BY <1>1, <2>1, EditFull, DecommitFull, RecommitFull, StutterFull DEF Next, Stopped
<1>2. Spec => [](IInv /\ StaleInv)
  BY ReliableClean, StaleInvariance
<1> QED
  BY <1>1, <1>2, InitFull, PTL DEF Spec

-----------------------------------------------------------------------------
(***************************************************************************)
(* After a commit everything that is wanted is installed.                  *)
(***************************************************************************)

\* lsdn_commit has returned and everything is committed.
Done == Clear /\ Full /\ pc = "idle" /\ AllIn({"none", "OK"})

LEMMA DonePa ==
  ASSUME Done, NEW a \in LocalPas
  PROVE  a \in PAs /\ pa[a] = "OK" /\ HasPa(a)
<1>1. a \in PAs /\ Live(pa[a]) /\ Live(phys[a[1]]) /\ is_local[a[1]] /\ a[1] \in Physes
  BY PaPair DEF LocalPas, Attached, Done, Clear, IInv, TypeOK, UserTypes
<1>2. pa[a] = "OK" /\ phys[a[1]] = "OK"
  BY <1>1 DEF Done, AllIn, Live
<1>3. committed_as_local[a[1]]
  BY <1>1, <1>2 DEF Done, Clear, IInv, Objects, Locals, Recommit
<1> QED
  BY <1>1, <1>2, <1>3 DEF HasPa, Made, Installed

LEMMA DoneVirt ==
  ASSUME Done, NEW v \in WantedVirts
  PROVE  v \in Virts /\ virt[v] = "OK" /\ v \in Keys("virt")
<1>1. PICK a \in LocalPas : OnPa(v, a)
  BY DEF WantedVirts
<1>2. v \in Virts /\ virt[v] = "OK" /\ connected_through[v] # NULL /\ PaOf(v) = a
  BY <1>1 DEF WantedVirts, OnPa, Live, Done, AllIn
<1>3. VirtDue(v)
  BY <1>1, <1>2, DonePa DEF VirtDue
<1> QED
  BY <1>2, <1>3 DEF Done, Full

LEMMA DoneRpa ==
  ASSUME Done, NEW r \in WantedRpas
  PROVE  /\ r \in Physes \X Physes \X Nets /\ <<r[1], r[3]>> \in PAs /\ <<r[2], r[3]>> \in PAs
         /\ pa[<<r[1], r[3]>>] = "OK" /\ pa[<<r[2], r[3]>>] = "OK" /\ r \in Keys("rpa")
<1>1. /\ r \in Physes \X Physes \X Nets /\ <<r[1], r[3]>> \in LocalPas /\ <<r[2], r[3]>> \in Attached
      /\ r[1] # r[2]
  BY DEF WantedRpas
<1>2. <<r[1], r[3]>> \in PAs /\ <<r[2], r[3]>> \in PAs /\ r = <<r[1], r[2], r[3]>>
  BY <1>1 DEF PAs
<1>3. pa[<<r[1], r[3]>>] = "OK" /\ HasPa(<<r[1], r[3]>>)
  BY <1>1, DonePa
<1>4. pa[<<r[2], r[3]>>] = "OK"
  BY <1>1, <1>2 DEF Attached, Live, Done, AllIn
<1>5. PICK a \in PAs : a = <<r[1], r[3]>>
  BY <1>2
<1>6. PICK b \in PAs : b = <<r[2], r[3]>>
  BY <1>2
<1>7. a[1] = r[1] /\ a[2] = r[3] /\ b[1] = r[2] /\ b[2] = r[3] /\ a # b
  BY <1>1, <1>5, <1>6
<1>8. RpaDue(a, b)
  BY <1>3, <1>4, <1>5, <1>6, <1>7 DEF RpaDue
<1>9. r \in Keys("rpa")
  BY <1>2, <1>7, <1>8 DEF Done, Full
<1> QED
  BY <1>1, <1>2, <1>3, <1>4, <1>9

LEMMA WantedThere ==
  ASSUME Done
  PROVE  Desired \subseteq kernel
<1>0. FactsCurrent /\ IInv /\ dv = NULL
  BY DEF Done, Clear
<1>1. ASSUME NEW a \in LocalPas PROVE PaFact(a) \in kernel
  <2>1. a \in PAs /\ pa[a] = "OK" /\ a \in Keys("pa") /\ a[1] \in Physes
    BY DonePa, PaPair DEF Done, Clear, IInv, Books, PaSet
  <2>2. PICK f \in kernel : f[1] = "pa" /\ f[2] = a
    BY <2>1 DEF Keys
  <2>3. PaStays(a)
    BY <2>1 DEF PaStays, Done, AllIn
  <2>4. f[3] = <<attr_iface[a[1]], attr_ip[a[1]]>>
    BY <1>0, <2>2, <2>3 DEF FactsCurrent, IsCurrent, PaCurrent
  <2>5. f = PaFact(a)
    BY <1>0, <2>2, <2>4, FactHas DEF PaFact
  <2> QED
    BY <2>5
<1>2. ASSUME NEW v \in WantedVirts PROVE VirtFact(v) \in kernel
  <2>1. v \in Virts /\ virt[v] = "OK" /\ v \in Keys("virt")
    BY DoneVirt
  <2>2. PICK f \in kernel : f[1] = "virt" /\ f[2] = v
    BY <2>1 DEF Keys
  <2>3. committed_to[v] # NULL /\ connected_through[v] = committed_to[v]
    BY <1>0, <2>1, NotNull DEF IInv, Books, BooksMatchKernel, VirtSet
  <2>4. f[3][1] = connected_through[v]
    BY <1>0, <2>2, <2>3 DEF IInv, Books, VirtFacts
  <2>5. f[3][2] = attr_mac[v]
    BY <1>0, <2>1, <2>2 DEF FactsCurrent, IsCurrent, VirtCurrent, VirtStays
  <2>6. f = <<f[1], f[2], f[3]>> /\ f[3] = <<f[3][1], f[3][2]>>
    BY <1>0, <2>2, FactHas
  <2>7. f = VirtFact(v)
    BY <2>2, <2>4, <2>5, <2>6 DEF VirtFact
  <2> QED
    BY <2>7
<1>3. ASSUME NEW x \in WantedRates PROVE RateFact(x[1], x[2]) \in kernel
  <2>1. x[1] \in WantedVirts /\ x[2] \in Dirs /\ attr_rate[x[1]][x[2]] # NULL
    BY DEF WantedRates
  <2>2. x[1] \in Virts /\ virt[x[1]] = "OK" /\ x[1] \in Keys("virt")
    BY <2>1, DoneVirt
  <2>3. RateDue(x[1], x[2])
    BY <2>1, <2>2 DEF RateDue
  <2>4. <<x[1], x[2]>> \in Keys("rate")
    BY <2>1, <2>2, <2>3 DEF Done, Full
  <2>5. PICK f \in kernel : f[1] = "rate" /\ f[2] = <<x[1], x[2]>>
    BY <2>4 DEF Keys
  <2>6. f[3] = attr_rate[x[1]][x[2]]
    BY <1>0, <2>2, <2>5 DEF FactsCurrent, IsCurrent, RateCurrent, VirtStays
  <2>7. f = RateFact(x[1], x[2])
    BY <1>0, <2>5, <2>6, FactHas DEF RateFact
  <2> QED
    BY <2>7
<1>4. ASSUME NEW r \in WantedRpas PROVE RpaFact(r) \in kernel
  <2>1. /\ r \in Keys("rpa") /\ <<r[2], r[3]>> \in PAs /\ pa[<<r[2], r[3]>>] = "OK"
        /\ r[2] \in Physes
    BY DoneRpa
  <2>2. PICK f \in kernel : f[1] = "rpa" /\ f[2] = r
    BY <2>1 DEF Keys
  <2>3. PaStays(<<r[2], r[3]>>)
    BY <2>1 DEF PaStays, Done, AllIn
  <2>4. f[3] = attr_ip[r[2]]
    BY <1>0, <2>2, <2>3 DEF FactsCurrent, IsCurrent, RpaCurrent
  <2>5. f = RpaFact(r)
    BY <1>0, <2>2, <2>4, FactHas DEF RpaFact
  <2> QED
    BY <2>5
<1>5. ASSUME NEW rv \in WantedRvirts PROVE RvirtFact(rv) \in kernel
  <2>1. /\ rv \in Physes \X Physes \X Virts /\ <<rv[1], rv[2], VirtNet[rv[3]]>> \in WantedRpas
        /\ OnPa(rv[3], <<rv[2], VirtNet[rv[3]]>>)
    BY DEF WantedRvirts
  <2>2. PICK v \in Virts : v = rv[3]
    BY <2>1
  <2>3. PICK r \in WantedRpas : r = <<rv[1], rv[2], VirtNet[v]>>
    BY <2>1, <2>2
  <2>4. r[1] = rv[1] /\ r[2] = rv[2] /\ r[3] = VirtNet[v] /\ rv = <<r[1], r[2], v>>
    BY <2>1, <2>2, <2>3
  <2>5. r \in Keys("rpa") /\ pa[<<r[1], r[3]>>] = "OK"
    BY DoneRpa
  <2>6. virt[v] = "OK" /\ connected_through[v] = r[2]
    BY <2>1, <2>2, <2>4 DEF OnPa, PaOf, Live, Done, AllIn
  <2>7. RvirtDue(r, v)
    BY <2>4, <2>5, <2>6 DEF RvirtDue
  <2>8. rv \in Keys("rvirt")
    BY <2>4, <2>5, <2>7 DEF Done, Full
  <2>9. PICK f \in kernel : f[1] = "rvirt" /\ f[2] = rv
    BY <2>8 DEF Keys
  <2>10. f[3] = attr_mac[rv[3]]
    BY <1>0, <2>2, <2>6, <2>9 DEF FactsCurrent, IsCurrent, RvirtCurrent, VirtStays
  <2>11. f = RvirtFact(rv)
    BY <1>0, <2>9, <2>10, FactHas DEF RvirtFact
  <2> QED
    BY <2>11
<1> QED
  BY <1>1, <1>2, <1>3, <1>4, <1>5 DEF Desired

LEMMA OkIsDone ==
  ASSUME IInv, StaleInv, FullInv, ret = "OK"
  PROVE  kernel = Desired
<1>1. pc = "idle" /\ AllIn({"none", "OK"}) /\ FactsCurrent
  BY DEF StaleInv, Returned, FullInv, NoErrors
<1>2. dv = NULL /\ dp = NULL
  BY <1>1 DEF IInv, Loops, Idle
<1>3. Clear
  BY <1>1, <1>2 DEF Clear, AllIn
<1>4. Done
  BY <1>1, <1>3 DEF Done, FullInv
<1> QED
  BY <1>3, <1>4, ClearWanted, WantedThere

\* For every set of objects, a client that keeps the rules and network
\* operations that do not fail: when lsdn_commit has returned LSDNE_OK, the kernel holds
\* exactly what the model asks for ("After returning successfully, the current
\* network model is in effect", lsdn.c:1553).
THEOREM OkAlwaysInstalled ==
  ASSUME Careful, Reliable
  PROVE  Spec => []OkMeansInstalled
<1>1. ASSUME IInv, StaleInv, FullInv PROVE OkMeansInstalled
  BY <1>1, OkIsDone DEF OkMeansInstalled
<1> QED
  BY <1>1, FullInvariance, PTL

-----------------------------------------------------------------------------
(***************************************************************************)
(* The commit implements NetmodelAbs.  No step of it changes what the      *)
(* model asks for.                                                         *)
(***************************************************************************)

LEMMA AttachedIs == IInv => Attached = explicitly_attached
<1> SUFFICES ASSUME IInv PROVE Attached = explicitly_attached
  OBVIOUS
<1>1. ASSUME NEW a \in explicitly_attached PROVE Live(pa[a]) /\ Live(phys[a[1]])
  <2>1. a \in PAs /\ Live(pa[a]) /\ a[1] \in Physes
    BY <1>1, PaPair DEF IInv, TypeOK, UserTypes, Objects, Linked
  <2> QED
    BY <2>1 DEF IInv, Objects, Owned, Dying, Alloc, Live
<1> QED
  BY <1>1 DEF Attached

LEMMA DesiredTyped == IInv => Desired \subseteq AllFacts
<1> SUFFICES ASSUME IInv PROVE Desired \subseteq AllFacts
  OBVIOUS
<1> USE DEF IInv, TypeOK, UserTypes, OrNull
<1>1. \A a \in LocalPas : PaFact(a) \in AllFacts
  <2>1. ASSUME NEW a \in LocalPas PROVE PaFact(a) \in {"pa"} \X PAs \X (OrNull(Ifaces) \X OrNull(Ips))
    <3>1. a \in PAs /\ a[1] \in Physes
      BY PaPair DEF LocalPas, Attached
    <3> QED
      BY <3>1 DEF PaFact
  <2> QED
    BY <2>1 DEF AllFacts
<1>2. \A v \in WantedVirts : VirtFact(v) \in AllFacts
  BY DEF WantedVirts, VirtFact, AllFacts
<1>3. \A x \in WantedRates : RateFact(x[1], x[2]) \in AllFacts
  <2>1. ASSUME NEW x \in WantedRates
        PROVE  RateFact(x[1], x[2]) \in {"rate"} \X (Virts \X Dirs) \X OrNull(Rates)
    <3>1. x[1] \in Virts /\ x[2] \in Dirs
      BY DEF WantedRates, WantedVirts
    <3> QED
      BY <3>1 DEF RateFact
  <2> QED
    BY <2>1 DEF AllFacts
<1>4. \A r \in WantedRpas : RpaFact(r) \in AllFacts
  BY DEF WantedRpas, RpaFact, AllFacts
<1>5. \A rv \in WantedRvirts : RvirtFact(rv) \in AllFacts
  BY DEF WantedRvirts, RvirtFact, AllFacts
<1> QED
  BY <1>1, <1>2, <1>3, <1>4, <1>5 DEF Desired

\* What the model asks for depends on the attributes of what stays.
LEMMA DesiredSame ==
  ASSUME IInv, IInv', UNCHANGED explicitly_attached,
         \A a \in explicitly_attached : /\ is_local'[a[1]] <=> is_local[a[1]]
                                        /\ attr_iface'[a[1]] = attr_iface[a[1]]
                                        /\ attr_ip'[a[1]] = attr_ip[a[1]],
         \A v \in Virts : /\ Live(virt'[v]) <=> Live(virt[v])
                          /\ Live(virt[v]) => /\ connected_through'[v] = connected_through[v]
                                              /\ attr_mac'[v] = attr_mac[v]
                                              /\ attr_rate'[v] = attr_rate[v]
  PROVE  Desired' = Desired
<1>1. Attached' = explicitly_attached /\ Attached = explicitly_attached
  <2>1. (Attached = explicitly_attached)'
    BY AttachedIs, PTL
  <2> QED
    BY <2>1, AttachedIs
<1>2. LocalPas' = LocalPas
  BY <1>1 DEF LocalPas
<1>3. \A a \in LocalPas : PaFact(a)' = PaFact(a)
  BY <1>1 DEF LocalPas, PaFact
<1>4. \A v \in Virts, a \in PAs : OnPa(v, a)' <=> OnPa(v, a)
  BY DEF OnPa, PaOf
<1>5. LocalPas \subseteq PAs
  BY DEF LocalPas, Attached, IInv, TypeOK, UserTypes
<1>6. WantedVirts' = WantedVirts
  BY <1>2, <1>4, <1>5 DEF WantedVirts
<1>7. \A v \in WantedVirts : v \in Virts /\ Live(virt[v])
  BY DEF WantedVirts, OnPa
<1>8. \A v \in WantedVirts : VirtFact(v)' = VirtFact(v)
  BY <1>7 DEF VirtFact
<1>9. WantedRates' = WantedRates
  <2>1. ASSUME NEW x \in WantedVirts \X Dirs PROVE attr_rate'[x[1]][x[2]] = attr_rate[x[1]][x[2]]
    BY <1>7
  <2> QED
    BY <1>6, <2>1 DEF WantedRates
<1>10. \A x \in WantedRates : RateFact(x[1], x[2])' = RateFact(x[1], x[2])
  <2>1. \A x \in WantedRates : x[1] \in WantedVirts
    BY DEF WantedRates
  <2> QED
    BY <1>7, <2>1 DEF RateFact
<1>11. WantedRpas' = WantedRpas
  BY <1>1, <1>2 DEF WantedRpas
<1>12. ASSUME NEW r \in WantedRpas PROVE RpaFact(r)' = RpaFact(r)
  <2>1. <<r[2], r[3]>> \in explicitly_attached
    BY <1>1 DEF WantedRpas
  <2>2. attr_ip'[r[2]] = attr_ip[r[2]]
    BY <2>1
  <2> QED
    BY <2>2 DEF RpaFact
<1>13. WantedRvirts' = WantedRvirts
  <2>1. ASSUME NEW rv \in Physes \X Physes \X Virts
        PROVE  OnPa(rv[3], <<rv[2], VirtNet[rv[3]]>>)' <=> OnPa(rv[3], <<rv[2], VirtNet[rv[3]]>>)
    <3>1. rv[3] \in Virts /\ <<rv[2], VirtNet[rv[3]]>> \in PAs
      BY NetApiAssumption DEF PAs
    <3> QED
      BY <1>4, <3>1
  <2> QED
    BY <1>11, <2>1 DEF WantedRvirts
<1>14. ASSUME NEW rv \in WantedRvirts PROVE RvirtFact(rv)' = RvirtFact(rv)
  <2>1. rv[3] \in Virts /\ Live(virt[rv[3]])
    BY DEF WantedRvirts, OnPa
  <2> QED
    BY <2>1 DEF RvirtFact
<1>15. /\ {PaFact(a) : a \in LocalPas}' = {PaFact(a) : a \in LocalPas}
       /\ {VirtFact(v) : v \in WantedVirts}' = {VirtFact(v) : v \in WantedVirts}
  BY <1>2, <1>3, <1>6, <1>8
<1>16. {RateFact(x[1], x[2]) : x \in WantedRates}' = {RateFact(x[1], x[2]) : x \in WantedRates}
  BY <1>9, <1>10
<1>17. /\ {RpaFact(r) : r \in WantedRpas}' = {RpaFact(r) : r \in WantedRpas}
       /\ {RvirtFact(rv) : rv \in WantedRvirts}' = {RvirtFact(rv) : rv \in WantedRvirts}
  BY <1>11, <1>12, <1>13, <1>14
<1> QED
  BY <1>15, <1>16, <1>17 DEF Desired

LEMMA ValidationDesires ==
  ASSUME IInv, IInv', Validation
  PROVE  Desired' = Desired
<1>1. \A v \in Virts : PropagatedVirt[v] = virt[v] \/ (PropagatedVirt[v] = "RENEW" /\ virt[v] = "OK")
  BY DEF PropagatedVirt, Propagate
<1>2. \A v \in Virts : Live(virt'[v]) <=> Live(virt[v])
  BY <1>1 DEF Validation, Live
<1>3. UNCHANGED <<explicitly_attached, is_local, attr_iface, attr_ip, connected_through, attr_mac,
                  attr_rate>>
  BY DEF Validation, userVars, physAttr, virtAttr, linkVars
<1> QED
  BY <1>2, <1>3, DesiredSame

LEMMA CommitDesires ==
  ASSUME IInv, IInv', Reliable, NoErrors, CommitStep
  PROVE  Desired' = Desired
<1> USE ReliableClean, NoMark, NoteOk DEF IInv, TypeOK, ObjTypes, userVars, physAttr, virtAttr,
        linkVars
<1>1. CASE Recommit /\ ~CommitEnd
  <2>1. Quiet
    BY <1>1, RecommitQuiet
  <2> QED
    BY <2>1, DesiredSame DEF Quiet
<1>2. CASE CommitEnd
  <2>1. UNCHANGED userVars /\ \A v \in Virts : Live(virt'[v]) <=> Live(virt[v])
    BY <1>2 DEF CommitEnd, AckState, Live, ObjStates, State
  <2> QED
    BY <2>1, DesiredSame
<1>3. CASE DecommitEnd
  <2>1. /\ UNCHANGED <<virt, virtAttr, linkVars>>
        /\ ResetPhys({p \in Physes : phys[p] = "DELETE"})
    BY <1>3 DEF DecommitEnd
  <2>2. ASSUME NEW a \in explicitly_attached
        PROVE  /\ is_local'[a[1]] <=> is_local[a[1]]
               /\ attr_iface'[a[1]] = attr_iface[a[1]] /\ attr_ip'[a[1]] = attr_ip[a[1]]
    <3>1. a \in PAs /\ a[1] \in Physes /\ phys[a[1]] # "DELETE"
      BY PaPair, AttachedIs DEF UserTypes, Attached, Live
    <3> QED
      BY <2>1, <3>1 DEF ResetPhys
  <2> QED
    BY <2>1, <2>2, DesiredSame
<1>4. CASE \/ \E v \in Virts : DecommitVirt(v)
           \/ \E a \in PAs : DecommitPa(a)
           \/ \E n \in Nets : DecommitNet(n)
           \/ DecommitNetEnd \/ DestroyPa
           \/ \E r \in rpas : RemoveRemotePa(r)
  <2>1. UNCHANGED <<physAttr, virtAttr, linkVars>>
        /\ \A v \in Virts : Live(virt'[v]) <=> Live(virt[v])
    BY <1>4 DEF DecommitVirt, DecommitPa, DecommitNet, DecommitNetEnd, DestroyPa, RemoveRemotePa,
       AckDecommit, Live, apiVars, objVars
  <2> QED
    BY <2>1, DesiredSame
<1>5. CASE RemoveRates
  <2>1. UNCHANGED <<physAttr, virtAttr, linkVars>> /\ virt' = [virt EXCEPT ![dv] = virt[dv]]
    BY <1>5 DEF RemoveRates
  <2> QED
    BY <2>1, DesiredSame
<1>6. ASSUME NEW rv \in rvirts, RemoveRemoteVirt(rv) PROVE Desired' = Desired
  <2>1. UNCHANGED <<physAttr, virtAttr, linkVars>> /\ virt' = [virt EXCEPT ![rv[3]] = virt[rv[3]]]
    BY <1>6 DEF RemoveRemoteVirt
  <2> QED
    BY <2>1, DesiredSame
<1>7. CASE RemoveVirt
  <2> DEFINE gone == Deleted({dv})
  <2>1. /\ virt' = [virt EXCEPT ![dv] = IF gone = {} THEN virt[dv] ELSE "none"]
        /\ connected_through' = [v \in Virts |-> IF v \in gone THEN NULL ELSE connected_through[v]]
        /\ attr_mac' = [v \in Virts |-> IF v \in gone THEN NULL ELSE attr_mac[v]]
        /\ attr_rate' = [v \in Virts |-> IF v \in gone THEN NoRates ELSE attr_rate[v]]
        /\ UNCHANGED <<physAttr, explicitly_attached>>
    BY <1>7 DEF RemoveVirt
  <2>2. dv \in Virts
    BY <1>7, NotOk DEF RemoveVirt
  <2>3. gone \subseteq {dv} /\ (gone # {} => virt[dv] = "DELETE")
    BY <2>2 DEF Deleted, Objects, Pending
  <2> HIDE DEF gone
  <2>4. \A v \in Virts : /\ Live(virt'[v]) <=> Live(virt[v])
                         /\ Live(virt[v]) => v \notin gone
    BY <2>1, <2>2, <2>3 DEF Live
  <2> QED
    BY <2>1, <2>4, DesiredSame
<1>8. Recommit \/ pc = "decommit"
  BY StepRuns DEF Recommit, LoopTypes, Phases
<1>9. pc = "decommit" /\ CommitStep =>
        \/ \E v \in Virts : DecommitVirt(v)
        \/ \E a \in PAs : DecommitPa(a)
        \/ \E n \in Nets : DecommitNet(n)
        \/ \E r \in rpas : RemoveRemotePa(r)
        \/ \E rv \in rvirts : RemoveRemoteVirt(rv)
        \/ DecommitNetEnd \/ DestroyPa \/ DecommitEnd \/ RemoveRates \/ RemoveVirt
  BY DEF CommitStep, AddVirt, AddVirtNoMem, SkipRemoteVirt, AddRemoteVirt, AddRemoteVirtNoMem,
     CreatePa, CommitPhys, CommitRates, CommitRatesNoMem, CommitRatesUndoFails, RatesEnd,
     CommitRemotes, SkipRemotePa, AddRemotePa, AddRemotePaNoMem, CommitRemoteVirts, CommitPaEnd,
     CommitEnd, Running
<1> QED
  BY <1>1, <1>2, <1>3, <1>4, <1>5, <1>6, <1>7, <1>8, <1>9

LEMMA ClearIsWanted == Clear => kernel \subseteq Desired
BY ClearWanted

LEMMA OkIsInstalled == IInv /\ StaleInv /\ FullInv /\ ret = "OK" => kernel = Desired
BY OkIsDone

\* At every step of the recommit phase.
LEMMA RecommitClear ==
  IInv /\ StaleInv /\ FullInv /\ Recommit => kernel \subseteq Desired
<1> SUFFICES ASSUME IInv, StaleInv, FullInv, Recommit PROVE kernel \subseteq Desired
  OBVIOUS
<1>1. dv = NULL /\ dp = NULL /\ pc # "decommit"
  BY NothingRolledBack DEF FullInv, Recommit
<1>2. AllIn({"none", "NEW", "OK", "ERR"})
  BY DEF IInv, Objects, States, Settled, Tried, AllIn
<1> QED
  BY <1>1, <1>2, ClearWanted DEF Clear, StaleInv

LEMMA InitAbs == Init => Abs!Init
<1> SUFFICES ASSUME Init PROVE Abs!Init
  OBVIOUS
<1>1. /\ pa = [a \in PAs |-> "none"] /\ virt = [v \in Virts |-> "none"] /\ kernel = {}
      /\ pc = "idle" /\ ret = "NONE" /\ explicitly_attached = {}
  BY DEF Init, ApiInit, CommitInit
<1>2. Attached = {}
  BY <1>1 DEF Attached
<1>3. LocalPas = {} /\ WantedRpas = {}
  BY <1>2 DEF LocalPas, WantedRpas
<1>4. WantedVirts = {} /\ WantedRvirts = {}
  BY <1>3 DEF WantedVirts, WantedRvirts
<1>5. WantedRates = {}
  BY <1>4 DEF WantedRates
<1>6. Desired = {}
  BY <1>3, <1>4, <1>5 DEF Desired
<1> QED
  BY <1>1, <1>6 DEF Abs!Init

LEMMA NextAbs ==
  ASSUME IInv, IInv', StaleInv, StaleInv', FullInv, FullInv', Reliable, "SOCKET" \notin FaultKinds,
         [Next]_vars
  PROVE  [Abs!Next]_(Abs!vars)
<1> USE DEF Abs!Next, Abs!vars
<1>1. CASE Client
  <2>1. pc = "idle" /\ UNCHANGED <<pc, kernel>>
    BY <1>1 DEF Client, commitVars
  <2>2. ret' = "NONE"
    BY <1>1 DEF Client, Edit, SettingsNew, SettingsFree, NetNew, NetFree, PhysNew, PhysFree,
       ClaimLocal, UnclaimLocal, VirtNew, VirtFree, VirtDisconnect, PhysAttach, PhysDetach,
       VirtConnect, PhysSetIface, PhysSetIp, VirtSetMac, VirtSetRate, ContextCleanup, PhysEdit,
       VirtEdit, Editing
  <2>3. (Desired \subseteq AllFacts)'
    BY DesiredTyped, PTL
  <2>4. Abs!Edit
    BY <2>1, <2>2, <2>3 DEF Abs!Edit
  <2> QED
    BY <2>4
<1>2. CASE Call
  <2>1. Validation /\ pc = "idle" /\ UNCHANGED kernel
    BY <1>2 DEF Call, ValidateFails, ValidatePasses, CommitNoSocket, CommitBegin, Calling, Validation
  <2>2. Desired' = Desired
    BY <2>1, ValidationDesires
  <2>3. CASE ValidateFails
    <3>1. Abs!Reject
      BY <2>1, <2>2, <2>3 DEF Abs!Reject, ValidateFails, Return
    <3> QED
      BY <3>1
  <2>4. CASE ValidatePasses
    <3>1. Desired \subseteq AllFacts
      BY DesiredTyped
    <3>2. Abs!Edit
      BY <2>1, <2>2, <2>4, <3>1 DEF Abs!Edit, ValidatePasses
    <3> QED
      BY <3>2
  <2>5. CASE CommitBegin
    <3>1. Abs!Begin
      BY <2>1, <2>2, <2>5 DEF Abs!Begin, CommitBegin
    <3> QED
      BY <3>1
  <2>6. ~CommitNoSocket
    BY DEF CommitNoSocket, MayFail
  <2> QED
    BY <1>2, <2>3, <2>4, <2>5, <2>6 DEF Call
<1>3. CASE CommitStep /\ ~Recommit
  <2>1. pc = "decommit" /\ ret' = ret /\ ~CommitEnd
    BY <1>3, StepRuns DEF Recommit, IInv, TypeOK, LoopTypes, Phases, CommitEnd, Running
  <2>2. Desired' = Desired
    BY <1>3, CommitDesires DEF FullInv
  <2>3. CASE DecommitEnd
    <3>1. pc' = "commit" /\ UNCHANGED kernel
      BY <2>3 DEF DecommitEnd
    <3>2. Recommit'
      BY <3>1 DEF Recommit
    <3>3. (kernel \subseteq Desired)'
      BY <3>2, RecommitClear, PTL
    <3>4. Abs!Turn
      BY <2>1, <2>2, <3>1, <3>3 DEF Abs!Turn
    <3> QED
      BY <3>4
  <2>4. CASE ~DecommitEnd
    <3>1. pc' = "decommit"
      BY <1>3, <2>1, <2>4, ReliableClean, StepMoves, StepRuns
         DEF CommitMoves, Recommit, IInv, TypeOK, LoopTypes, Phases
    <3>2. kernel' \subseteq kernel
      BY <1>3, <2>1, ReliableClean, StepAdds DEF CreatePa, AddVirt, CommitRates, RatesEnd,
         AddRemotePa, AddRemoteVirt, Running
    <3>3. Abs!Remove
      BY <2>1, <2>2, <3>1, <3>2 DEF Abs!Remove
    <3> QED
      BY <3>3
  <2> QED
    BY <2>3, <2>4
<1>4. CASE CommitStep /\ Recommit
  <2>1. pc \notin {"idle", "decommit"}
    BY <1>4 DEF Recommit
  <2>2. Desired' = Desired
    BY <1>4, CommitDesires DEF FullInv
  <2>3. CASE CommitEnd
    <3>1. pc' = "idle" /\ UNCHANGED kernel /\ ret' = "OK"
      BY <2>3 DEF CommitEnd, Return, FullInv, NoErrors
    <3>2. (ret = "OK")'
      BY <3>1
    <3>3. (kernel = Desired)'
      BY <3>2, OkIsInstalled, PTL
    <3>4. Abs!Finish
      BY <2>1, <2>2, <3>1, <3>3 DEF Abs!Finish
    <3> QED
      BY <3>4
  <2>4. CASE ~CommitEnd
    <3>1. Quiet /\ ret' = ret
      BY <1>4, <2>4, RecommitQuiet, StepRuns DEF FullInv
    <3>2. Recommit' /\ kernel \subseteq kernel'
      BY <3>1 DEF Quiet
    <3>3. (kernel \subseteq Desired)'
      BY <3>2, RecommitClear, PTL
    <3>4. pc' \notin {"idle", "decommit"}
      BY <3>2 DEF Recommit
    <3>5. Abs!Add
      BY <2>1, <2>2, <3>1, <3>2, <3>3, <3>4 DEF Abs!Add
    <3> QED
      BY <3>5
  <2> QED
    BY <2>3, <2>4
<1>5. CASE UNCHANGED vars
  <2>1. UNCHANGED <<kernel, pc, ret, explicitly_attached, is_local, attr_iface, attr_ip, virt,
                    connected_through, attr_mac, attr_rate>>
    BY <1>5 DEF vars, apiVars, objVars, physAttr, virtAttr, linkVars, commitVars
  <2>2. Desired' = Desired
    BY <2>1, DesiredSame
  <2> QED
    BY <2>1, <2>2
<1> QED
  BY <1>1, <1>2, <1>3, <1>4, <1>5 DEF Next, Stopped

\* For every set of objects, a client that keeps the rules, a netlink socket
\* and network operations that do not fail: lsdn_commit implements the commit
\* of NetmodelAbs.  It first only removes, until nothing is installed that the
\* model does not ask for; it then only adds what the model asks for, and
\* returns LSDNE_OK when all of it is installed.
THEOREM CommitRefines ==
  ASSUME Careful, Reliable, "SOCKET" \notin FaultKinds
  PROVE  Spec => ImplementsAbs
<1>1. ASSUME IInv, IInv', StaleInv, StaleInv', FullInv, FullInv', [Next]_vars
      PROVE  [Abs!Next]_(Abs!vars)
  BY <1>1, NextAbs
<1> QED
  BY <1>1, InitAbs, FullInvariance, PTL DEF Spec, ImplementsAbs, Abs!Spec
=============================================================================
