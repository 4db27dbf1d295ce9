--------------------------- MODULE NetmodelProofs ---------------------------
(***************************************************************************)
(* Proofs about Netmodel for every set of objects, every client, whether   *)
(* it keeps the rules or not, and every failure of the network operations. *)
(* The second part is about the invariant of NetmodelInv, for careful      *)
(* clients: it holds at the start, and every edit and every validation     *)
(* keeps it.                                                               *)
(***************************************************************************)
EXTENDS NetmodelInv, TLAPS

(***************************************************************************)
(* The helpers of state.h stay within the states.                          *)
(***************************************************************************)

\* Every helper that moves a commit state yields a commit state.
LEMMA StateHelpers ==
  ASSUME NEW s \in ObjStates
  PROVE  /\ Renew(s) \in ObjStates /\ FreeHelper(s) \in ObjStates
         /\ AckDecommit(s) \in ObjStates /\ AckState(s) \in ObjStates
         /\ FindOrCreate(s) \in ObjStates
         /\ \A t : Propagate(t, s) \in ObjStates
         /\ \A f, e : MarkCommitErr(s, f, e) \in ObjStates
  BY DEF ObjStates, State, Renew, FreeHelper, AckDecommit, AckState, FindOrCreate,
         Propagate, MarkCommitErr

\* What the network operations install for objects of the model is a fact.
LEMMA FactTypes ==
  ASSUME UserTypes
  PROVE  /\ \A a \in PAs : PaFact(a) \in AllFacts
         /\ \A v \in Virts : VirtFact(v) \in AllFacts
         /\ \A v \in Virts, d \in Dirs : RateFact(v, d) \in AllFacts
         /\ \A r \in Physes \X Physes \X Nets : RpaFact(r) \in AllFacts
         /\ \A rv \in Physes \X Physes \X Virts : RvirtFact(rv) \in AllFacts
<1>1. ASSUME NEW a \in PAs PROVE PaFact(a) \in AllFacts
  BY <1>1 DEF PaFact, UserTypes, AllFacts, PAs
<1>2. ASSUME NEW v \in Virts PROVE VirtFact(v) \in AllFacts
  BY <1>2 DEF VirtFact, UserTypes, AllFacts
<1>3. ASSUME NEW v \in Virts, NEW d \in Dirs PROVE RateFact(v, d) \in AllFacts
  BY <1>3 DEF RateFact, UserTypes, AllFacts
<1>4. ASSUME NEW r \in Physes \X Physes \X Nets PROVE RpaFact(r) \in AllFacts
  BY <1>4 DEF RpaFact, UserTypes, AllFacts
<1>5. ASSUME NEW rv \in Physes \X Physes \X Virts PROVE RvirtFact(rv) \in AllFacts
  BY <1>5 DEF RvirtFact, UserTypes, AllFacts
<1> QED BY <1>1, <1>2, <1>3, <1>4, <1>5

\* The initial state has the types.
LEMMA InitTypes == Init => TypeOK
<1> SUFFICES ASSUME Init PROVE TypeOK
  OBVIOUS
<1>1. ObjTypes
  BY DEF Init, ApiInit, ObjTypes, ObjStates, State
<1>2. UserTypes
  BY DEF Init, ApiInit, UserTypes, OrNull, NoRates
<1>3. BookTypes
  BY DEF Init, ApiInit, CommitInit, BookTypes, OrNull
<1>4. LoopTypes /\ ErrTypes
  BY DEF Init, ApiInit, CommitInit, LoopTypes, ErrTypes, OrNull, Phases
<1> QED BY <1>1, <1>2, <1>3, <1>4 DEF TypeOK

ApiTypes == ObjTypes /\ UserTypes /\ BookTypes

\* Release, from which every freeing is built, keeps the types of what it writes.
LEMMA ReleaseTypes ==
  ASSUME ApiTypes, NEW V \in SUBSET Virts, NEW D, NEW A, Release(V, D, A)
  PROVE  /\ virt' \in [Virts -> ObjStates] /\ pa' \in [PAs -> ObjStates]
         /\ connected_through' \in [Virts -> OrNull(Physes)]
         /\ attr_mac' \in [Virts -> OrNull(Macs)]
         /\ attr_rate' \in [Virts -> [Dirs -> OrNull(Rates)]]
         /\ explicitly_attached' \subseteq PAs
         /\ pending_free' \subseteq Virts \cup PAs
<1>1. virt' \in [Virts -> ObjStates] /\ pa' \in [PAs -> ObjStates]
  BY StateHelpers DEF ApiTypes, ObjTypes, Release
<1>2. /\ connected_through' \in [Virts -> OrNull(Physes)]
      /\ attr_mac' \in [Virts -> OrNull(Macs)]
      /\ attr_rate' \in [Virts -> [Dirs -> OrNull(Rates)]]
  BY DEF ApiTypes, UserTypes, Release, OrNull, NoRates
<1>3. explicitly_attached' \subseteq PAs /\ pending_free' \subseteq Virts \cup PAs
  BY DEF ApiTypes, UserTypes, BookTypes, Release, FreeablePas
<1> QED BY <1>1, <1>2, <1>3

(***************************************************************************)
(* The edits.                                                              *)
(***************************************************************************)

\* Every call of the API that edits the model keeps the types.
LEMMA EditTypes ==
  ASSUME ApiTypes, Edit, kernel' = kernel
  PROVE  ApiTypes'
<1> USE StateHelpers DEF ApiTypes
<1>1. ASSUME NEW s \in Settings, SettingsNew(s) PROVE ApiTypes'
  BY <1>1 DEF SettingsNew, ObjTypes, UserTypes, BookTypes, ObjStates, State,
     physAttr, virtAttr, linkVars, bookVars
<1>2. ASSUME NEW n \in Nets, NetNew(n) PROVE ApiTypes'
  BY <1>2 DEF NetNew, ObjTypes, UserTypes, BookTypes, ObjStates, State,
     physAttr, virtAttr, linkVars, bookVars
<1>3. ASSUME NEW p \in Physes, PhysNew(p) PROVE ApiTypes'
  BY <1>3 DEF PhysNew, ObjTypes, UserTypes, BookTypes, ObjStates, State,
     physAttr, virtAttr, linkVars, bookVars
<1>4. ASSUME NEW v \in Virts, VirtNew(v) PROVE ApiTypes'
  BY <1>4 DEF VirtNew, ObjTypes, UserTypes, BookTypes, ObjStates, State,
     physAttr, virtAttr, linkVars, bookVars
<1>5. ASSUME NEW s \in Settings, SettingsFree(s) PROVE ApiTypes'
  <2>1. PICK V, A : V \in SUBSET Virts /\ Release(V, {}, A)
    BY <1>5 DEF SettingsFree, VirtsIn
  <2>2. net' \in [Nets -> ObjStates] /\ settings' \in [Settings -> ObjStates]
    BY <1>5 DEF SettingsFree, ObjTypes
  <2>3. UNCHANGED <<phys, physAttr, bookVars>>
    BY <1>5 DEF SettingsFree
  <2> QED BY <2>1, <2>2, <2>3, ReleaseTypes DEF ObjTypes, UserTypes, BookTypes, physAttr, bookVars
<1>6. ASSUME NEW n \in Nets, NetFree(n) PROVE ApiTypes'
  <2>1. PICK V, A : V \in SUBSET Virts /\ Release(V, {}, A)
    BY <1>6 DEF NetFree, VirtsIn
  <2>2. net' \in [Nets -> ObjStates]
    BY <1>6 DEF NetFree, ObjTypes
  <2>3. UNCHANGED <<settings, phys, physAttr, bookVars>>
    BY <1>6 DEF NetFree
  <2> QED BY <2>1, <2>2, <2>3, ReleaseTypes DEF ObjTypes, UserTypes, BookTypes, physAttr, bookVars
<1>7. ASSUME NEW p \in Physes, PhysFree(p) PROVE ApiTypes'
  <2>1. PICK D, A : Release({}, D, A)
    BY <1>7 DEF PhysFree
  <2>2. phys' \in [Physes -> ObjStates]
    BY <1>7 DEF PhysFree, ObjTypes
  <2>3. /\ is_local' \in [Physes -> BOOLEAN] /\ committed_as_local' \in [Physes -> BOOLEAN]
        /\ attr_iface' \in [Physes -> OrNull(Ifaces)] /\ attr_ip' \in [Physes -> OrNull(Ips)]
    BY <1>7 DEF PhysFree, ResetPhys, UserTypes, OrNull
  <2>4. UNCHANGED <<settings, net, committed_to, rpas, rvirts, policing>>
    BY <1>7 DEF PhysFree
  <2> QED BY <2>1, <2>2, <2>3, <2>4, ReleaseTypes DEF ObjTypes, UserTypes, BookTypes
<1>8. ASSUME NEW v \in Virts, VirtFree(v) PROVE ApiTypes'
  <2>1. Release({v}, {}, {}) /\ UNCHANGED <<settings, net, phys, physAttr, bookVars>>
    BY <1>8 DEF VirtFree
  <2> QED BY <2>1, ReleaseTypes DEF ObjTypes, UserTypes, BookTypes, physAttr, bookVars
<1>9. ASSUME NEW p \in Physes, NEW n \in Nets, PhysDetach(p, n) PROVE ApiTypes'
  <2>1. Release({}, {}, {<<p, n>>}) /\ UNCHANGED <<settings, net, phys, physAttr, bookVars>>
    BY <1>9 DEF PhysDetach
  <2> QED BY <2>1, ReleaseTypes DEF ObjTypes, UserTypes, BookTypes, physAttr, bookVars
<1>10. ASSUME NEW p \in Physes, NEW n \in Nets, PhysAttach(p, n) PROVE ApiTypes'
  BY <1>10 DEF PhysAttach, PAs, ObjTypes, UserTypes, BookTypes, physAttr, virtAttr, bookVars
<1>11. ASSUME NEW v \in Virts, NEW p \in Physes, VirtConnect(v, p) PROVE ApiTypes'
  BY <1>11, NetApiAssumption DEF VirtConnect, PAs, ObjTypes, UserTypes, BookTypes, physAttr, virtAttr,
     bookVars, OrNull
<1>12. ASSUME NEW v \in Virts, VirtDisconnect(v) PROVE ApiTypes'
  BY <1>12 DEF VirtDisconnect, ObjTypes, UserTypes, BookTypes, physAttr, virtAttr, bookVars, OrNull
<1>13. ASSUME NEW p \in Physes, NEW x \in Ifaces \cup {NULL}, PhysSetIface(p, x) PROVE ApiTypes'
  BY <1>13 DEF PhysSetIface, PhysEdit, ObjTypes, UserTypes, BookTypes, virtAttr, linkVars, bookVars,
     OrNull
<1>14. ASSUME NEW p \in Physes, NEW x \in Ips \cup {NULL}, PhysSetIp(p, x) PROVE ApiTypes'
  BY <1>14 DEF PhysSetIp, PhysEdit, ObjTypes, UserTypes, BookTypes, virtAttr, linkVars, bookVars,
     OrNull
<1>15. ASSUME NEW p \in Physes, ClaimLocal(p) \/ UnclaimLocal(p) PROVE ApiTypes'
  <2>1. is_local' \in [Physes -> BOOLEAN] /\ UNCHANGED <<attr_iface, attr_ip>>
    BY <1>15 DEF ClaimLocal, UnclaimLocal, UserTypes
  <2>2. PhysEdit(p)
    BY <1>15 DEF ClaimLocal, UnclaimLocal
  <2> QED BY <2>1, <2>2 DEF PhysEdit, ObjTypes, UserTypes, BookTypes, virtAttr, linkVars, bookVars
<1>16. ASSUME NEW v \in Virts, NEW x \in Macs \cup {NULL}, VirtSetMac(v, x) PROVE ApiTypes'
  BY <1>16 DEF VirtSetMac, VirtEdit, ObjTypes, UserTypes, BookTypes, physAttr, linkVars, bookVars,
     OrNull
<1>17. ASSUME NEW v \in Virts, NEW d \in Dirs, NEW x \in Rates \cup {NULL}, VirtSetRate(v, d, x)
       PROVE ApiTypes'
  BY <1>17 DEF VirtSetRate, VirtEdit, ObjTypes, UserTypes, BookTypes, physAttr, linkVars, bookVars,
     OrNull
<1>18. ASSUME ContextCleanup PROVE ApiTypes'
  <2>1. ObjTypes'
    BY <1>18 DEF ContextCleanup, ObjTypes, ObjStates, State
  <2>2. UserTypes' 
    BY <1>18 DEF ContextCleanup, ResetPhys, UserTypes, OrNull, NoRates
  <2>3. BookTypes'
    BY <1>18 DEF ContextCleanup, ResetPhys, BookTypes
  <2> QED BY <2>1, <2>2, <2>3
<1> QED BY <1>1, <1>2, <1>3, <1>4, <1>5, <1>6, <1>7, <1>8, <1>9, <1>10, <1>11, <1>12, <1>13,
           <1>14, <1>15, <1>16, <1>17, <1>18 DEF Edit

(***************************************************************************)
(* lsdn_validate and lsdn_commit.                                          *)
(***************************************************************************)

\* The propagation of RENEW keeps the types.
LEMMA ValidationTypes ==
  ASSUME TypeOK, Validation
  PROVE  ApiTypes'
<1>1. PropagatedPa \in [PAs -> ObjStates]
  BY StateHelpers DEF PropagatedPa, TypeOK, ObjTypes
<1>2. PropagatedVirt \in [Virts -> ObjStates]
  BY StateHelpers DEF PropagatedVirt, TypeOK, ObjTypes
<1> QED BY <1>1, <1>2 DEF Validation, TypeOK, ApiTypes, ObjTypes, UserTypes, BookTypes, userVars,
           physAttr, virtAttr, linkVars, bookVars

\* A call of lsdn_validate, and lsdn_commit up to its decommit phase, keep the types.
LEMMA CallTypes ==
  ASSUME TypeOK, Call
  PROVE  TypeOK'
<1>1. Validation /\ pc = "idle"
  BY DEF Call, ValidateFails, ValidatePasses, CommitNoSocket, CommitBegin, Calling
<1>2. ErrTypes'
  BY <1>1 DEF Call, ValidateFails, ValidatePasses, CommitNoSocket, CommitBegin, Return,
     Validation, TypeOK, ErrTypes
<1>3. LoopTypes'
  BY <1>1 DEF Call, ValidateFails, ValidatePasses, CommitNoSocket, CommitBegin, Validation,
     TypeOK, LoopTypes, OrNull, Phases, userVars, linkVars
<1> QED BY <1>1, <1>2, <1>3, ValidationTypes DEF TypeOK, ApiTypes

\* What an attempt to add or to remove leaves in the kernel is a set of facts.
LEMMA KernelTypes ==
  ASSUME BookTypes, NEW err, NEW kind, NEW key
  PROVE  /\ \A f \in AllFacts : Added(f, err) \subseteq SUBSET AllFacts
         /\ Removed(kind, key, err) \subseteq SUBSET AllFacts
  BY DEF BookTypes, Added, Removed, Without

\* The accounting of failures keeps its types.
LEMMA NoteTypes ==
  ASSUME ErrTypes, NEW s, NEW err, Note(s, err), UNCHANGED life
  PROVE  ErrTypes'
<1>1. problems' \in BOOLEAN
  BY DEF Note, ErrTypes, Reported
<1> QED BY <1>1 DEF Note, ErrTypes

\* Every step of the decommit phase keeps the types.
LEMMA DecommitTypes ==
  ASSUME TypeOK,
         \/ \E v \in Virts : DecommitVirt(v)
         \/ RemoveRates
         \/ \E rv \in rvirts : RemoveRemoteVirt(rv)
         \/ RemoveVirt
         \/ \E a \in PAs : DecommitPa(a)
         \/ \E r \in rpas : RemoveRemotePa(r)
         \/ DestroyPa
         \/ \E n \in Nets : DecommitNet(n)
         \/ DecommitNetEnd
         \/ DecommitEnd
  PROVE  TypeOK'
<1> USE StateHelpers DEF TypeOK
<1>1. ASSUME NEW v \in Virts, DecommitVirt(v) PROVE TypeOK'
  BY <1>1 DEF DecommitVirt, ObjTypes, UserTypes, BookTypes, LoopTypes, ErrTypes, userVars,
     physAttr, virtAttr, linkVars, bookVars, ctxVars, loopVars, errVars, OrNull
<1>2. CASE RemoveRates
  <2>1. dv \in Virts
    BY <1>2 DEF RemoveRates, LoopTypes, OrNull
  <2>2. PICK err :
          /\ kernel' \subseteq kernel
          /\ virt' = [virt EXCEPT ![dv] = MarkCommitErr(@, TRUE, err)]
          /\ Note(virt[dv], err)
    BY <1>2 DEF RemoveRates
  <2>3. ErrTypes'
    BY <1>2, <2>2, NoteTypes DEF RemoveRates, ctxVars
  <2> QED BY <1>2, <2>1, <2>2, <2>3 DEF RemoveRates, ObjTypes, UserTypes, BookTypes, LoopTypes,
     userVars, physAttr, virtAttr, linkVars, ctxVars, loopVars
<1>3. ASSUME NEW rv \in rvirts, RemoveRemoteVirt(rv) PROVE TypeOK'
  <2>1. rv[3] \in Virts
    BY DEF BookTypes
  <2>2. PICK err : /\ kernel' \in Removed("rvirt", rv, err)
                   /\ virt' = [virt EXCEPT ![rv[3]] = MarkCommitErr(@, TRUE, err)]
                   /\ Note(virt[rv[3]], err)
    BY <1>3 DEF RemoveRemoteVirt
  <2>3. ErrTypes' /\ kernel' \subseteq AllFacts
    BY <1>3, <2>2, NoteTypes, KernelTypes DEF RemoveRemoteVirt, ctxVars
  <2> QED BY <1>3, <2>1, <2>2, <2>3 DEF RemoveRemoteVirt, ObjTypes, UserTypes, BookTypes, LoopTypes,
     userVars, physAttr, virtAttr, linkVars, ctxVars, loopVars
<1>4. CASE RemoveVirt
  <2>1. dv \in Virts
    BY <1>4 DEF RemoveVirt, LoopTypes, OrNull
  <2>2. PICK err : 
          /\ kernel' \in IF committed_to[dv] = NULL THEN {kernel} ELSE Removed("virt", dv, err)
          /\ Note(virt[dv], err)
          /\ virt' = [virt EXCEPT ![dv] = IF Deleted({dv}) = {} THEN MarkCommitErr(virt[dv], TRUE, err)
                                          ELSE "none"]
          /\ pa' = [a \in PAs |-> IF a \in FreeablePas({}, Deleted({dv})) THEN FreeHelper(pa[a]) ELSE pa[a]]
          /\ pending_free' = (pending_free \ Deleted({dv}))
                              \cup {a \in FreeablePas({}, Deleted({dv})) : pa[a] # "NEW"}
          /\ connected_through' = [v \in Virts |-> IF v \in Deleted({dv}) THEN NULL ELSE connected_through[v]]
          /\ attr_mac' = [v \in Virts |-> IF v \in Deleted({dv}) THEN NULL ELSE attr_mac[v]]
          /\ attr_rate' = [v \in Virts |-> IF v \in Deleted({dv}) THEN NoRates ELSE attr_rate[v]]
    BY <1>4 DEF RemoveVirt
  <2>3. ErrTypes' /\ kernel' \subseteq AllFacts
    BY <1>4, <2>2, NoteTypes, KernelTypes DEF RemoveVirt, ctxVars, BookTypes
  <2>4. ObjTypes'
    BY <1>4, <2>1, <2>2 DEF RemoveVirt, ObjTypes, ObjStates
  <2>5. UserTypes'
    BY <1>4, <2>2 DEF RemoveVirt, UserTypes, OrNull, NoRates, physAttr
  <2>6. BookTypes'
    BY <1>4, <2>1, <2>2, <2>3 DEF RemoveVirt, BookTypes, OrNull, FreeablePas
  <2>7. LoopTypes'
    BY <1>4, <2>1, <2>2 DEF RemoveVirt, LoopTypes, OrNull, loopVars, Deleted, UserTypes
  <2> QED BY <2>3, <2>4, <2>5, <2>6, <2>7
<1>5. ASSUME NEW a \in PAs, DecommitPa(a) PROVE TypeOK'
  BY <1>5 DEF DecommitPa, ObjTypes, UserTypes, BookTypes, LoopTypes, ErrTypes, userVars,
     physAttr, virtAttr, linkVars, bookVars, ctxVars, loopVars, errVars, OrNull
<1>6. ASSUME NEW r \in rpas, RemoveRemotePa(r) PROVE TypeOK'
  <2>1. <<r[2], r[3]>> \in PAs
    BY DEF BookTypes, PAs
  <2>2. PICK err : /\ kernel' \in IF err = "NETLINK" THEN {kernel} ELSE Removed("rpa", r, err)
                   /\ pa' = [pa EXCEPT ![<<r[2], r[3]>>] = MarkCommitErr(@, TRUE, err)]
                   /\ Note(pa[<<r[2], r[3]>>], err)
    BY <1>6 DEF RemoveRemotePa
  <2>3. ErrTypes' /\ kernel' \subseteq AllFacts
    BY <1>6, <2>2, NoteTypes, KernelTypes DEF RemoveRemotePa, BookTypes
  <2> QED BY <1>6, <2>1, <2>2, <2>3 DEF RemoveRemotePa, ObjTypes, UserTypes, BookTypes, LoopTypes,
     userVars, physAttr, virtAttr, linkVars, loopVars
<1>7. CASE DestroyPa
  <2>1. dp \in PAs
    BY <1>7 DEF DestroyPa, LoopTypes, OrNull
  <2>2. PICK err : /\ kernel' \in IF committed_as_local[dp[1]] THEN Removed("pa", dp, err) ELSE {kernel}
                   /\ pa' = [pa EXCEPT ![dp] = IF Deleted({dp}) # {} THEN "none"
                                               ELSE MarkCommitErr(@, TRUE, err)]
                   /\ Note(pa[dp], err)
    BY <1>7 DEF DestroyPa
  <2>3. ErrTypes' /\ kernel' \subseteq AllFacts
    BY <1>7, <2>2, NoteTypes, KernelTypes DEF DestroyPa, BookTypes
  <2> QED BY <1>7, <2>1, <2>2, <2>3 DEF DestroyPa, ObjTypes, ObjStates, UserTypes, BookTypes, LoopTypes,
     userVars, physAttr, virtAttr, linkVars, bookVars, loopVars, OrNull
<1>8. ASSUME NEW n \in Nets, DecommitNet(n) PROVE TypeOK'
  BY <1>8 DEF DecommitNet, Running, ObjTypes, UserTypes, BookTypes, LoopTypes, ErrTypes, apiVars, objVars,
     physAttr, virtAttr, linkVars, bookVars, ctxVars, errVars, OrNull
<1>9. CASE DecommitNetEnd
  <2>1. cur \in Nets
    BY <1>9 DEF DecommitNetEnd, Running, LoopTypes, OrNull
  <2>2. net' \in [Nets -> ObjStates]
    BY <1>9, <2>1 DEF DecommitNetEnd, ObjTypes, ObjStates
  <2> QED BY <1>9, <2>1, <2>2 DEF DecommitNetEnd, Running, ObjTypes, UserTypes, BookTypes, LoopTypes, ErrTypes,
     userVars, physAttr, virtAttr, linkVars, bookVars, errVars, OrNull
<1>10. CASE DecommitEnd
  <2>1. /\ phys' \in [Physes -> ObjStates] /\ settings' \in [Settings -> ObjStates]
    BY <1>10 DEF DecommitEnd, ObjTypes, ObjStates
  <2>2. /\ is_local' \in [Physes -> BOOLEAN] /\ committed_as_local' \in [Physes -> BOOLEAN]
        /\ attr_iface' \in [Physes -> OrNull(Ifaces)] /\ attr_ip' \in [Physes -> OrNull(Ips)]
    BY <1>10 DEF DecommitEnd, ResetPhys, UserTypes, OrNull
  <2> QED BY <1>10, <2>1, <2>2 DEF DecommitEnd, Running, ObjTypes, UserTypes, BookTypes, LoopTypes, ErrTypes,
     virtAttr, linkVars, errVars, OrNull, Phases
<1> QED BY <1>1, <1>2, <1>3, <1>4, <1>5, <1>6, <1>7, <1>8, <1>9, <1>10

\* Every step of the recommit phase and the end of lsdn_commit keep the types.
LEMMA RecommitTypes ==
  ASSUME TypeOK,
         \/ \E p \in Physes : CommitPhys(p)
         \/ \E a \in PAs : CreatePa(a)
         \/ \E v \in Virts : AddVirt(v) \/ AddVirtNoMem(v)
         \/ CommitRates \/ CommitRatesNoMem \/ CommitRatesUndoFails
         \/ CommitRemotes
         \/ \E q \in Physes : SkipRemotePa(q) \/ AddRemotePa(q) \/ AddRemotePaNoMem(q)
         \/ CommitRemoteVirts
         \/ \E v \in Virts : SkipRemoteVirt(v) \/ AddRemoteVirt(v) \/ AddRemoteVirtNoMem(v)
         \/ CommitPaEnd
         \/ CommitEnd
  PROVE  TypeOK'
<1> USE StateHelpers DEF TypeOK
<1>1. ASSUME NEW p \in Physes, CommitPhys(p) PROVE TypeOK'
  <2>1. committed_as_local' \in [Physes -> BOOLEAN]
    BY <1>1 DEF CommitPhys, BookTypes
  <2> QED BY <1>1, <2>1 DEF CommitPhys, Running, ObjTypes, UserTypes, BookTypes, LoopTypes, ErrTypes,
     objVars, userVars, physAttr, virtAttr, linkVars, ctxVars, errVars
<1>2. ASSUME NEW a \in PAs, CreatePa(a) PROVE TypeOK'
  <2>1. PICK err :
          /\ kernel' \in IF pa[a] = "NEW" THEN Added(PaFact(a), err) ELSE {kernel}
          /\ pa' = [pa EXCEPT ![a] = MarkCommitErr(pa[a], FALSE, err)]
          /\ Note(pa[a], err)
          /\ \/ pc' = "virts" /\ cur' = a /\ todo' = NewVirts(a)
             \/ UNCHANGED <<pc, cur, todo>>
    BY <1>2 DEF CreatePa
  <2>2. ErrTypes' /\ kernel' \subseteq AllFacts
    BY <1>2, <2>1, NoteTypes, KernelTypes, FactTypes DEF CreatePa, ctxVars, BookTypes
  <2>3. LoopTypes'
    BY <1>2, <2>1 DEF CreatePa, Running, LoopTypes, NewVirts, ConnectedVirts, Phases
  <2> QED BY <1>2, <2>1, <2>2, <2>3 DEF CreatePa, ObjTypes, UserTypes, BookTypes, userVars,
     physAttr, virtAttr, linkVars, bookVars
<1>3. ASSUME NEW v \in Virts, AddVirt(v) PROVE TypeOK'
  <2>1. PICK err :
          /\ kernel' \in Added(VirtFact(v), err)
          /\ virt' = [virt EXCEPT ![v] = MarkCommitErr(@, FALSE, err)]
          /\ Note(virt[v], err)
          /\ \/ /\ committed_to' = [committed_to EXCEPT ![v] = cur[1]]
                /\ cv' = v /\ UNCHANGED todo
             \/ todo' = todo \ {v} /\ UNCHANGED <<committed_to, cv>>
    BY <1>3 DEF AddVirt
  <2>2. ErrTypes' /\ kernel' \subseteq AllFacts
    BY <1>3, <2>1, NoteTypes, KernelTypes, FactTypes DEF AddVirt, ctxVars
  <2>3. cur \in PAs /\ pc = "virts"
    BY <1>3 DEF AddVirt, Running, LoopTypes
  <2>4. LoopTypes'
    BY <1>3, <2>1, <2>3 DEF AddVirt, LoopTypes, OrNull, Phases
  <2>5. committed_to' \in [Virts -> OrNull(Physes)]
    BY <2>1, <2>3 DEF BookTypes, OrNull, PAs
  <2> QED BY <1>3, <2>1, <2>2, <2>4, <2>5 DEF AddVirt, ObjTypes, UserTypes, BookTypes, userVars,
     physAttr, virtAttr, linkVars
<1>4. ASSUME NEW v \in Virts, AddVirtNoMem(v) PROVE TypeOK'
  <2>1. ErrTypes'
    BY <1>4, NoteTypes DEF AddVirtNoMem, ctxVars
  <2> QED BY <1>4, <2>1 DEF AddVirtNoMem, Running, ObjTypes, ObjStates, State, UserTypes, BookTypes,
     LoopTypes, userVars, physAttr, virtAttr, linkVars, bookVars
<1>5. ASSUME RatesEnd PROVE cv \in Virts /\ LoopTypes' /\ UserTypes'
  BY <1>5 DEF RatesEnd, Running, LoopTypes, UserTypes, OrNull, userVars, physAttr, virtAttr, linkVars
<1>6. ASSUME RatesEnd, virt' \in [Virts -> ObjStates], committed_to' \in [Virts -> OrNull(Physes)],
             policing' \subseteq Virts \X Dirs, kernel' \subseteq AllFacts, 
             problems' \in BOOLEAN, inconsistent' \in BOOLEAN, faults' \in Nat
      PROVE  TypeOK'
  BY <1>5, <1>6 DEF RatesEnd, ObjTypes, BookTypes, ErrTypes, ctxVars
<1>7. CASE CommitRates
  <2>1. PICK refused \in SUBSET Wanted(cv) :
          /\ kernel' = kernel \cup {RateFact(cv, d) : d \in Wanted(cv) \ refused}
          /\ policing' = policing \cup {<<cv, d>> : d \in Wanted(cv) \ refused}
          /\ faults' = IF refused = {} THEN faults ELSE faults + 1
    BY <1>7 DEF CommitRates
  <2>2. kernel' \subseteq AllFacts /\ policing' \subseteq Virts \X Dirs
    BY <1>5, <1>7, <2>1, FactTypes DEF CommitRates, Wanted, BookTypes
  <2> QED BY <1>6, <1>7, <2>1, <2>2 DEF CommitRates, ObjTypes, BookTypes, ErrTypes
<1>8. CASE CommitRatesNoMem
  <2>1. PICK err :
          /\ kernel' \in Removed("virt", cv, err)
          /\ virt' = [virt EXCEPT ![cv] = IF err = "OK" THEN "ERR" ELSE "FAIL"]
          /\ committed_to' = IF err = "OK" THEN [committed_to EXCEPT ![cv] = NULL] ELSE committed_to
          /\ inconsistent' = (inconsistent \/ err # "OK")
          /\ faults' = IF err = "OK" THEN faults + 1 ELSE faults + 2
    BY <1>8 DEF CommitRatesNoMem
  <2>2. kernel' \subseteq AllFacts
    BY <2>1, KernelTypes
  <2>3. virt' \in [Virts -> ObjStates] /\ committed_to' \in [Virts -> OrNull(Physes)]
    BY <1>5, <1>8, <2>1 DEF CommitRatesNoMem, ObjTypes, ObjStates, State, BookTypes, OrNull
  <2>4. inconsistent' \in BOOLEAN /\ problems' \in BOOLEAN /\ faults' \in Nat
    BY <1>8, <2>1 DEF CommitRatesNoMem, ErrTypes
  <2> QED BY <1>6, <1>8, <2>2, <2>3, <2>4 DEF CommitRatesNoMem, BookTypes
<1>9. CASE CommitRatesUndoFails
  <2>1. kernel' \subseteq AllFacts
    BY <1>5, <1>9, FactTypes DEF CommitRatesUndoFails, Wanted, BookTypes
  <2>2. virt' \in [Virts -> ObjStates]
    BY <1>5, <1>9 DEF CommitRatesUndoFails, ObjTypes, ObjStates, State
  <2> QED BY <1>6, <1>9, <2>1, <2>2 DEF CommitRatesUndoFails, BookTypes, ErrTypes
<1>10. CASE CommitRemotes
  BY <1>10 DEF CommitRemotes, Running, ObjTypes, UserTypes, BookTypes, LoopTypes, ErrTypes, apiVars,
     objVars, physAttr, virtAttr, linkVars, bookVars, ctxVars, errVars, Phases
<1>11. ASSUME NEW q \in Physes, SkipRemotePa(q) PROVE TypeOK'
  BY <1>11 DEF SkipRemotePa, Running, ObjTypes, UserTypes, BookTypes, LoopTypes, ErrTypes, apiVars,
     objVars, physAttr, virtAttr, linkVars, bookVars, ctxVars, errVars
<1>12. ASSUME NEW q \in Physes, AddRemotePa(q) PROVE TypeOK'
  <2>1. /\ pc = "remotes" /\ cur \in PAs
        /\ <<q, cur[2]>> \in PAs /\ <<cur[1], q, cur[2]>> \in Physes \X Physes \X Nets
    BY <1>12 DEF AddRemotePa, Running, LoopTypes, PAs
  <2>2. PICK err :
          /\ kernel' \in Added(RpaFact(<<cur[1], q, cur[2]>>), err)
          /\ pa' = [pa EXCEPT ![<<q, cur[2]>>] = MarkCommitErr(@, FALSE, err)]
          /\ Note(pa[<<q, cur[2]>>], err)
          /\ \/ dp' = <<q, cur[2]>> /\ UNCHANGED rpas
             \/ rpas' = rpas \cup {<<cur[1], q, cur[2]>>} /\ UNCHANGED dp
    BY <1>12 DEF AddRemotePa
  <2>3. ErrTypes' /\ kernel' \subseteq AllFacts
    BY <1>12, <2>1, <2>2, NoteTypes, KernelTypes, FactTypes DEF AddRemotePa, ctxVars
  <2>4. ObjTypes' /\ LoopTypes'
    BY <1>12, <2>1, <2>2 DEF AddRemotePa, ObjTypes, LoopTypes, OrNull
  <2>5. UserTypes' /\ BookTypes'
    BY <1>12, <2>1, <2>2, <2>3 DEF AddRemotePa, UserTypes, BookTypes, userVars, physAttr, virtAttr, linkVars
  <2> QED BY <2>3, <2>4, <2>5
<1>13. ASSUME NEW q \in Physes, AddRemotePaNoMem(q) PROVE TypeOK'
  <2>1. pc = "remotes" /\ cur \in PAs /\ <<q, cur[2]>> \in PAs
    BY <1>13 DEF AddRemotePaNoMem, Running, LoopTypes, PAs
  <2>2. ErrTypes'
    BY <1>13, NoteTypes DEF AddRemotePaNoMem, ctxVars
  <2> QED BY <1>13, <2>1, <2>2 DEF AddRemotePaNoMem, ObjTypes, ObjStates, State, UserTypes, BookTypes,
     LoopTypes, OrNull, userVars, physAttr, virtAttr, linkVars, bookVars
<1>14. CASE CommitRemoteVirts
  <2>1. \A r \in rpas : \A v \in ConnectedVirts(<<r[2], r[3]>>) :
          v \in Virts /\ connected_through[v] = r[2] /\ r[2] # NULL
    BY NetApiAssumption DEF ConnectedVirts, BookTypes
  <2>2. \A v \in todo' : v \in Virts /\ connected_through[v] # NULL
    BY <1>14, <2>1 DEF CommitRemoteVirts, Remotes
  <2> QED BY <1>14, <2>2 DEF CommitRemoteVirts, Running, ObjTypes, UserTypes, BookTypes, LoopTypes, ErrTypes,
     apiVars, objVars, physAttr, virtAttr, linkVars, bookVars, ctxVars, errVars, Phases
<1>15. ASSUME NEW v \in Virts, SkipRemoteVirt(v) PROVE TypeOK'
  BY <1>15 DEF SkipRemoteVirt, Running, ObjTypes, UserTypes, BookTypes, LoopTypes, ErrTypes, apiVars,
     objVars, physAttr, virtAttr, linkVars, bookVars, ctxVars, errVars
<1>16. ASSUME NEW v \in Virts, AddRemoteVirt(v) PROVE TypeOK'
  <2>1. pc = "rvirts" /\ cur \in PAs /\ connected_through[v] \in Physes
    BY <1>16 DEF AddRemoteVirt, Running, LoopTypes, UserTypes, OrNull
  <2>2. <<cur[1], connected_through[v], v>> \in Physes \X Physes \X Virts
    BY <2>1 DEF PAs
  <2>3. PICK err :
          /\ kernel' \in Added(RvirtFact(<<cur[1], connected_through[v], v>>), err)
          /\ virt' = [virt EXCEPT ![v] = MarkCommitErr(@, FALSE, err)]
          /\ Note(virt[v], err)
          /\ dv' \in {v, NULL}
    BY <1>16 DEF AddRemoteVirt
  <2>4. ErrTypes' /\ kernel' \subseteq AllFacts
    BY <1>16, <2>2, <2>3, NoteTypes, KernelTypes, FactTypes DEF AddRemoteVirt, ctxVars
  <2>5. ObjTypes' /\ LoopTypes'
    BY <1>16, <2>1, <2>3 DEF AddRemoteVirt, ObjTypes, LoopTypes, OrNull, userVars, linkVars
  <2>6. UserTypes' /\ BookTypes'
    BY <1>16, <2>2, <2>3, <2>4 DEF AddRemoteVirt, UserTypes, BookTypes, userVars, physAttr, virtAttr, linkVars
  <2> QED BY <2>4, <2>5, <2>6
<1>17. ASSUME NEW v \in Virts, AddRemoteVirtNoMem(v) PROVE TypeOK'
  <2>1. pc = "rvirts" /\ cur \in PAs
    BY <1>17 DEF AddRemoteVirtNoMem, Running, LoopTypes
  <2>2. ErrTypes'
    BY <1>17, NoteTypes DEF AddRemoteVirtNoMem, ctxVars
  <2> QED BY <1>17, <2>1, <2>2 DEF AddRemoteVirtNoMem, ObjTypes, ObjStates, State, UserTypes, BookTypes,
     LoopTypes, OrNull, userVars, physAttr, virtAttr, linkVars, bookVars
<1>18. CASE CommitPaEnd
  BY <1>18 DEF CommitPaEnd, Running, ObjTypes, UserTypes, BookTypes, LoopTypes, ErrTypes, apiVars,
     objVars, physAttr, virtAttr, linkVars, bookVars, ctxVars, errVars, Phases
<1>19. CASE CommitEnd
  <2>1. ObjTypes'
    BY <1>19 DEF CommitEnd, ObjTypes
  <2>2. ErrTypes'
    BY <1>19 DEF CommitEnd, Return, ErrTypes
  <2> QED BY <1>19, <2>1, <2>2 DEF CommitEnd, Running, UserTypes, BookTypes, LoopTypes,
     userVars, physAttr, virtAttr, linkVars, bookVars, loopVars, Phases
<1> QED BY <1>1, <1>2, <1>3, <1>4, <1>7, <1>8, <1>9, <1>10, <1>11, <1>12, <1>13, <1>14,
           <1>15, <1>16, <1>17, <1>18, <1>19

\* A step of any kind keeps the types.
LEMMA NextTypes == TypeOK /\ [Next]_vars => TypeOK'
<1> SUFFICES ASSUME TypeOK, [Next]_vars PROVE TypeOK'
  OBVIOUS
<1>1. CASE Client
  <2>1. ApiTypes'
    BY <1>1, EditTypes DEF Client, TypeOK, ApiTypes, commitVars
  <2>2. life' \in {"open", "closing", "closed"}
    BY <1>1 DEF Client, Edit, SettingsNew, SettingsFree, NetNew, NetFree, PhysNew, PhysFree,
       ClaimLocal, UnclaimLocal, VirtNew, VirtFree, VirtDisconnect, PhysAttach, PhysDetach,
       VirtConnect, PhysSetIface, PhysSetIp, VirtSetMac, VirtSetRate, PhysEdit, VirtEdit,
       ContextCleanup, ctxVars, TypeOK, ErrTypes
  <2> QED BY <1>1, <2>1, <2>2 DEF Client, TypeOK, ApiTypes, LoopTypes, ErrTypes, commitVars,
             loopVars, errVars
<1>2. CASE Call
  BY <1>2, CallTypes
<1>3. CASE CommitStep
  BY <1>3, DecommitTypes, RecommitTypes DEF CommitStep
<1>4. CASE UNCHANGED vars
  BY <1>4 DEF vars, apiVars, commitVars, objVars, physAttr, virtAttr, linkVars, bookVars, ctxVars,
     loopVars, errVars, TypeOK, ObjTypes, UserTypes, BookTypes, LoopTypes, ErrTypes
<1> QED BY <1>1, <1>2, <1>3, <1>4 DEF Next, Stopped

\* Type correctness of the network model and of lsdn_commit, for every client
\* and every failure.
THEOREM TypeCorrect == Spec => []TypeOK
<1>1. Init => TypeOK
  BY InitTypes
<1>2. TypeOK /\ [Next]_vars => TypeOK'
  BY NextTypes
<1> QED BY <1>1, <1>2, PTL DEF Spec

(***************************************************************************)
(* No failure goes unreported.                                             *)
(***************************************************************************)

NoErr ==
  /\ \A s \in Settings : settings[s] # "ERR"
  /\ \A n \in Nets : net[n] # "ERR"
  /\ \A p \in Physes : phys[p] # "ERR"
  /\ \A a \in PAs : pa[a] # "ERR"
  /\ \A v \in Virts : virt[v] # "ERR"

\* NoErr says of each kind of object what FailuresReported says of all.
LEMMA NoErrSuffices == NoErr \/ (pc # "idle" /\ problems) => FailuresReported
<1>1. DOMAIN AllStates = {"settings", "net", "phys", "pa", "virt"}
  BY DEF AllStates
<1>2. /\ AllStates["settings"] = {settings[x] : x \in Settings}
      /\ AllStates["net"] = {net[x] : x \in Nets}
      /\ AllStates["phys"] = {phys[x] : x \in Physes}
      /\ AllStates["pa"] = {pa[x] : x \in PAs}
      /\ AllStates["virt"] = {virt[x] : x \in Virts}
  BY DEF AllStates
<1>3. NoErr => ~SomeObject("ERR")
  BY <1>1, <1>2 DEF SomeObject, NoErr
<1> QED BY <1>3 DEF FailuresReported

\* The helpers of state.h make nothing ERR.
LEMMA HelpersKeepErr ==
  ASSUME NEW s, s # "ERR"
  PROVE  /\ Renew(s) # "ERR" /\ FreeHelper(s) # "ERR" /\ AckDecommit(s) # "ERR"
         /\ FindOrCreate(s) # "ERR"
         /\ \A t : Propagate(t, s) # "ERR"
  BY DEF Renew, FreeHelper, AckDecommit, FindOrCreate, Propagate

\* mark_commit_err makes an object ERR only when it reports a problem.
LEMMA MarkReports ==
  ASSUME NEW s, NEW fatal, NEW err, s # "ERR", Note(s, err)
  PROVE  MarkCommitErr(s, fatal, err) # "ERR" \/ problems'
<1>1. CASE Reported(s, err)
  BY <1>1, Zenon DEF Note
<1>2. CASE ~Reported(s, err)
  BY <1>2 DEF Reported, MarkCommitErr
<1> QED BY <1>1, <1>2

\* Release makes nothing ERR.
LEMMA ReleaseKeepsErr ==
  ASSUME NEW V, NEW D, NEW A, Release(V, D, A), NoErr
  PROVE  /\ \A v \in Virts : virt'[v] # "ERR"
         /\ \A a \in PAs : pa'[a] # "ERR"
  BY HelpersKeepErr DEF Release, NoErr

\* No call that edits the model makes an object ERR.
LEMMA EditKeepsErr ==
  ASSUME ObjTypes, NoErr, Edit
  PROVE  NoErr'
<1> USE HelpersKeepErr DEF NoErr, ObjTypes
<1>1. ASSUME NEW s \in Settings, SettingsNew(s) \/ SettingsFree(s) PROVE NoErr'
  <2>1. CASE SettingsNew(s)
    BY <2>1 DEF SettingsNew
  <2>2. CASE SettingsFree(s)
    BY <2>2, ReleaseKeepsErr DEF SettingsFree
  <2> QED BY <1>1, <2>1, <2>2
<1>2. ASSUME NEW n \in Nets, NetNew(n) \/ NetFree(n) PROVE NoErr'
  <2>1. CASE NetNew(n)
    BY <2>1 DEF NetNew
  <2>2. CASE NetFree(n)
    BY <2>2, ReleaseKeepsErr DEF NetFree
  <2> QED BY <1>2, <2>1, <2>2
<1>3. ASSUME NEW p \in Physes, PhysNew(p) \/ PhysFree(p) PROVE NoErr'
  <2>1. CASE PhysNew(p)
    BY <2>1 DEF PhysNew
  <2>2. CASE PhysFree(p)
    BY <2>2, ReleaseKeepsErr DEF PhysFree
  <2> QED BY <1>3, <2>1, <2>2
<1>4. ASSUME NEW v \in Virts, VirtNew(v) \/ VirtFree(v) \/ VirtDisconnect(v) PROVE NoErr'
  <2>1. CASE VirtFree(v)
    BY <2>1, ReleaseKeepsErr DEF VirtFree
  <2> QED BY <1>4, <2>1 DEF VirtNew, VirtDisconnect
<1>5. ASSUME NEW p \in Physes, NEW n \in Nets, PhysAttach(p, n) \/ PhysDetach(p, n) PROVE NoErr'
  <2>1. CASE PhysDetach(p, n)
    BY <2>1, ReleaseKeepsErr DEF PhysDetach
  <2> QED BY <1>5, <2>1 DEF PhysAttach, PAs
<1>6. ASSUME NEW v \in Virts, NEW p \in Physes, VirtConnect(v, p) PROVE NoErr'
  BY <1>6, NetApiAssumption DEF VirtConnect, PAs
<1>7. ASSUME NEW p \in Physes, PhysEdit(p) PROVE NoErr'
  BY <1>7 DEF PhysEdit
<1>8. ASSUME NEW v \in Virts, VirtEdit(v) PROVE NoErr'
  BY <1>8 DEF VirtEdit
<1>9. CASE ContextCleanup
  BY <1>9 DEF ContextCleanup
<1> QED BY <1>1, <1>2, <1>3, <1>4, <1>5, <1>6, <1>7, <1>8, <1>9
        DEF Edit, ClaimLocal, UnclaimLocal, PhysSetIface, PhysSetIp, VirtSetMac, VirtSetRate

\* No step of a commit but its last one goes back to idle or forgets a problem.
LEMMA ProblemsStay ==
  ASSUME TypeOK, pc # "idle", CommitStep
  PROVE  CommitEnd \/ (pc' # "idle" /\ (problems => problems'))
  BY ZenonT(40) DEF CommitStep, DecommitVirt, AddVirt, AddVirtNoMem, SkipRemoteVirt, AddRemoteVirt,
     AddRemoteVirtNoMem, RemoveRates, RemoveRemoteVirt, RemoveVirt, DecommitPa, CreatePa,
     RemoveRemotePa, DestroyPa, DecommitNet, DecommitNetEnd, DecommitEnd, CommitPhys, CommitRates,
     CommitRatesNoMem, CommitRatesUndoFails, RatesEnd, CommitRemotes,
     SkipRemotePa, AddRemotePa, AddRemotePaNoMem, CommitRemoteVirts, CommitPaEnd, Note, errVars

\* A step of the decommit phase that makes an object ERR reports it.
LEMMA DecommitReports ==
  ASSUME TypeOK, NoErr,
         \/ \E v \in Virts : DecommitVirt(v)
         \/ RemoveRates
         \/ \E rv \in rvirts : RemoveRemoteVirt(rv)
         \/ RemoveVirt
         \/ \E a \in PAs : DecommitPa(a)
         \/ \E r \in rpas : RemoveRemotePa(r)
         \/ DestroyPa
         \/ \E n \in Nets : DecommitNet(n)
         \/ DecommitNetEnd
         \/ DecommitEnd
  PROVE  NoErr' \/ problems'
<1> USE HelpersKeepErr DEF TypeOK, NoErr, ObjTypes
<1>1. ASSUME NEW v \in Virts, DecommitVirt(v) PROVE NoErr'
  BY <1>1 DEF DecommitVirt
<1>2. CASE RemoveRates
  <2>1. PICK err : /\ virt' = [virt EXCEPT ![dv] = MarkCommitErr(@, TRUE, err)]
                   /\ Note(virt[dv], err)
    BY <1>2 DEF RemoveRates
  <2> QED BY <1>2, <2>1, MarkReports DEF RemoveRates
<1>3. ASSUME NEW rv \in rvirts, RemoveRemoteVirt(rv) PROVE NoErr' \/ problems'
  <2>1. PICK err : /\ virt' = [virt EXCEPT ![rv[3]] = MarkCommitErr(@, TRUE, err)]
                   /\ Note(virt[rv[3]], err)
    BY <1>3 DEF RemoveRemoteVirt
  <2> QED BY <1>3, <2>1, MarkReports DEF RemoveRemoteVirt
<1>4. CASE RemoveVirt
  <2>1. dv \in Virts
    BY <1>4 DEF RemoveVirt, LoopTypes, OrNull
  <2>2. PICK err :
          /\ Note(virt[dv], err)
          /\ virt' = [virt EXCEPT ![dv] = IF Deleted({dv}) = {} THEN MarkCommitErr(virt[dv], TRUE, err)
                                          ELSE "none"]
          /\ pa' = [a \in PAs |-> IF a \in FreeablePas({}, Deleted({dv})) THEN FreeHelper(pa[a]) ELSE pa[a]]
    BY <1>4 DEF RemoveVirt
  <2> QED BY <1>4, <2>1, <2>2, MarkReports DEF RemoveVirt
<1>5. ASSUME NEW a \in PAs, DecommitPa(a) PROVE NoErr'
  BY <1>5 DEF DecommitPa
<1>6. ASSUME NEW r \in rpas, RemoveRemotePa(r) PROVE NoErr' \/ problems'
  <2>1. PICK err : /\ pa' = [pa EXCEPT ![<<r[2], r[3]>>] = MarkCommitErr(@, TRUE, err)]
                   /\ Note(pa[<<r[2], r[3]>>], err)
    BY <1>6 DEF RemoveRemotePa
  <2> QED BY <1>6, <2>1, MarkReports DEF RemoveRemotePa
<1>7. CASE DestroyPa
  <2>1. PICK err : /\ pa' = [pa EXCEPT ![dp] = IF Deleted({dp}) # {} THEN "none"
                                               ELSE MarkCommitErr(@, TRUE, err)]
                   /\ Note(pa[dp], err)
    BY <1>7 DEF DestroyPa
  <2> QED BY <1>7, <2>1, MarkReports DEF DestroyPa
<1>8. ASSUME NEW n \in Nets, DecommitNet(n) PROVE NoErr'
  BY <1>8 DEF DecommitNet, apiVars, objVars
<1>9. CASE DecommitNetEnd
  BY <1>9 DEF DecommitNetEnd
<1>10. CASE DecommitEnd
  BY <1>10 DEF DecommitEnd
<1> QED BY <1>1, <1>2, <1>3, <1>4, <1>5, <1>6, <1>7, <1>8, <1>9, <1>10

\* A step of the recommit phase that makes an object ERR reports it.
LEMMA RecommitReports ==
  ASSUME TypeOK, NoErr,
         \/ \E p \in Physes : CommitPhys(p)
         \/ \E a \in PAs : CreatePa(a)
         \/ \E v \in Virts : AddVirt(v) \/ AddVirtNoMem(v)
         \/ CommitRates \/ CommitRatesNoMem \/ CommitRatesUndoFails
         \/ CommitRemotes
         \/ \E q \in Physes : SkipRemotePa(q) \/ AddRemotePa(q) \/ AddRemotePaNoMem(q)
         \/ CommitRemoteVirts
         \/ \E v \in Virts : SkipRemoteVirt(v) \/ AddRemoteVirt(v) \/ AddRemoteVirtNoMem(v)
         \/ CommitPaEnd
  PROVE  NoErr' \/ problems'
<1> USE HelpersKeepErr DEF TypeOK, NoErr, ObjTypes
<1>1. ASSUME NEW p \in Physes, CommitPhys(p) PROVE NoErr'
  BY <1>1 DEF CommitPhys, objVars
<1>2. ASSUME NEW a \in PAs, CreatePa(a) PROVE NoErr' \/ problems'
  <2>1. PICK err : /\ pa' = [pa EXCEPT ![a] = MarkCommitErr(pa[a], FALSE, err)]
                   /\ Note(pa[a], err)
    BY <1>2 DEF CreatePa
  <2> QED BY <1>2, <2>1, MarkReports DEF CreatePa
<1>3. ASSUME NEW v \in Virts, AddVirt(v) PROVE NoErr' \/ problems'
  <2>1. PICK err : /\ virt' = [virt EXCEPT ![v] = MarkCommitErr(@, FALSE, err)]
                   /\ Note(virt[v], err)
    BY <1>3 DEF AddVirt
  <2> QED BY <1>3, <2>1, MarkReports DEF AddVirt
<1>4. ASSUME NEW v \in Virts, AddVirtNoMem(v) PROVE problems'
  BY <1>4 DEF AddVirtNoMem, Note, Reported
<1>5. CASE CommitRates
  BY <1>5 DEF CommitRates, RatesEnd
<1>6. CASE CommitRatesNoMem \/ CommitRatesUndoFails
  BY <1>6 DEF CommitRatesNoMem, CommitRatesUndoFails
<1>7. CASE CommitRemotes \/ CommitRemoteVirts \/ CommitPaEnd
  BY <1>7 DEF CommitRemotes, CommitRemoteVirts, CommitPaEnd, apiVars, objVars
<1>8. ASSUME NEW q \in Physes, SkipRemotePa(q) PROVE NoErr'
  BY <1>8 DEF SkipRemotePa, apiVars, objVars
<1>9. ASSUME NEW q \in Physes, AddRemotePa(q) PROVE NoErr' \/ problems'
  <2>1. PICK err : /\ pa' = [pa EXCEPT ![<<q, cur[2]>>] = MarkCommitErr(@, FALSE, err)]
                   /\ Note(pa[<<q, cur[2]>>], err)
    BY <1>9 DEF AddRemotePa
  <2> QED BY <1>9, <2>1, MarkReports DEF AddRemotePa
<1>10. ASSUME NEW q \in Physes, AddRemotePaNoMem(q) PROVE problems'
  BY <1>10 DEF AddRemotePaNoMem, Note, Reported
<1>11. ASSUME NEW v \in Virts, SkipRemoteVirt(v) PROVE NoErr'
  BY <1>11 DEF SkipRemoteVirt, apiVars, objVars
<1>12. ASSUME NEW v \in Virts, AddRemoteVirt(v) PROVE NoErr' \/ problems'
  <2>1. PICK err : /\ virt' = [virt EXCEPT ![v] = MarkCommitErr(@, FALSE, err)]
                   /\ Note(virt[v], err)
    BY <1>12 DEF AddRemoteVirt
  <2> QED BY <1>12, <2>1, MarkReports DEF AddRemoteVirt
<1>13. ASSUME NEW v \in Virts, AddRemoteVirtNoMem(v) PROVE problems'
  BY <1>13 DEF AddRemoteVirtNoMem, Note, Reported
<1> QED BY <1>1, <1>2, <1>3, <1>4, <1>5, <1>6, <1>7, <1>8, <1>9, <1>10, <1>11, <1>12, <1>13

ErrInv == /\ NoErr \/ (pc # "idle" /\ problems)
          /\ pc = "idle" => dv = NULL /\ dp = NULL

\* Every step keeps ErrInv.
LEMMA NextReports == TypeOK /\ ErrInv /\ [Next]_vars => ErrInv'
<1> SUFFICES ASSUME TypeOK, ErrInv, [Next]_vars PROVE ErrInv'
  OBVIOUS
<1>1. CASE Client
  BY <1>1, EditKeepsErr DEF Client, TypeOK, ErrInv, commitVars
<1>2. CASE Call
  <2>1. NoErr /\ Validation
    BY <1>2 DEF Call, ValidateFails, ValidatePasses, CommitNoSocket, CommitBegin, Calling, ErrInv
  <2>2. NoErr'
    BY <2>1, HelpersKeepErr DEF Validation, PropagatedPa, PropagatedVirt, NoErr
  <2>3. dv' = NULL /\ dp' = NULL
    BY <1>2, <2>1 DEF Call, ValidateFails, ValidatePasses, CommitNoSocket, CommitBegin, Calling,
       Validation, ErrInv
  <2> QED BY <2>2, <2>3 DEF ErrInv
<1>3. CASE CommitStep
  <2>1. CASE CommitEnd
    BY <2>1 DEF CommitEnd, Running, AckState, NoErr, ErrInv
  <2>2. pc # "idle"
    BY <1>3 DEF ErrInv, CommitStep, Running, DecommitVirt, AddVirt, AddVirtNoMem, SkipRemoteVirt,
       AddRemoteVirt, AddRemoteVirtNoMem, RemoveRates, RemoveRemoteVirt, RpasToRemove, RemoveVirt,
       DecommitPa, CreatePa, RemoveRemotePa, DestroyPa, DecommitNet, DecommitNetEnd, DecommitEnd,
       CommitPhys, CommitRates, CommitRatesNoMem, CommitRatesUndoFails, RatesEnd,
       CommitRemotes, SkipRemotePa, AddRemotePa, AddRemotePaNoMem, CommitRemoteVirts, CommitPaEnd,
       CommitEnd
  <2>3. CASE ~CommitEnd
    <3>1. pc' # "idle" /\ (problems => problems')
      BY <1>3, <2>2, <2>3, ProblemsStay
    <3>2. NoErr => NoErr' \/ problems'
      BY <1>3, <2>3, DecommitReports, RecommitReports DEF CommitStep
    <3> QED BY <3>1, <3>2 DEF ErrInv
  <2> QED BY <2>1, <2>3
<1>4. CASE UNCHANGED vars
  BY <1>4 DEF vars, apiVars, objVars, commitVars, errVars, ErrInv, NoErr
<1> QED BY <1>1, <1>2, <1>3, <1>4 DEF Next, Stopped

\* Whatever fails and whatever the client does, an object is ERR only during a
\* commit that will not return LSDNE_OK.
THEOREM FailuresAreReported == Spec => []FailuresReported
<1>1. Init => ErrInv
  BY DEF Init, ApiInit, CommitInit, ErrInv, NoErr
<1>2. TypeOK /\ ErrInv /\ [Next]_vars => ErrInv'
  BY NextReports
<1>3. ErrInv => FailuresReported
  BY NoErrSuffices DEF ErrInv
<1> QED BY <1>1, <1>2, <1>3, TypeCorrect, PTL DEF Spec

-----------------------------------------------------------------------------
(***************************************************************************)
(* The invariant of NetmodelInv under the edits and the validation.        *)
(***************************************************************************)

\* A PA is its phys and its net.
LEMMA PaPair ==
  ASSUME NEW a \in PAs
  PROVE  a[1] \in Physes /\ a[2] \in Nets /\ a = <<a[1], a[2]>>
BY DEF PAs

\* A virt's PA.
LEMMA PaOfTyped ==
  ASSUME TypeOK, NEW v \in Virts, connected_through[v] # NULL
  PROVE  PaOf(v) \in PAs
BY NetApiAssumption DEF TypeOK, UserTypes, PaOf, PAs, OrNull

\* Between calls the loops are empty, and an edit leaves them alone.
LEMMA EditLoops ==
  ASSUME pc = "idle", Loops, UNCHANGED <<pc, loopVars, dv, dp>>
  PROVE  Loops'
<1>1. pc' = "idle" /\ ~Recommit'
  BY DEF Recommit
<1>2. Idle'
  BY <1>1 DEF Loops, Idle, loopVars
<1> QED BY <1>1, <1>2 DEF Loops, Propagated, Decommitting, Walking, InVirts, InRemotes, InRvirts

\* What an edit must not do to the states for the books to stay right: bring
\* an object to the states of what is installed or take it away from them, or
\* reconnect a virt that stays OK.
KeepsInstalled ==
  /\ \A a \in PAs : pa'[a] \in Installed <=> pa[a] \in Installed
  /\ \A a \in PAs : pa[a] \in Installed => committed_as_local'[a[1]] = committed_as_local[a[1]]
  /\ \A v \in Virts : virt'[v] \in Installed <=> virt[v] \in Installed
  /\ \A v \in Virts : virt'[v] = "OK" =>
       virt[v] = "OK" /\ connected_through'[v] = connected_through[v]

\* Such an edit keeps the books, and so does lsdn_validate, which may begin a
\* commit.
LEMMA EditBooks ==
  ASSUME TypeOK, pc = "idle", pc' \in {"idle", "decommit"}, Loops, Books, KeepsInstalled,
         UNCHANGED <<kernel, dv, dp>>, UNCHANGED <<committed_to, rpas, rvirts, policing>>
  PROVE  Books'
<1> USE NetApiAssumption DEF TypeOK, BookTypes, OrNull
<1>1. /\ ~Recommit' /\ ~Recommit /\ dv' = NULL /\ dv = NULL /\ dp' = NULL /\ dp = NULL
      /\ NULL \notin PAs
  BY DEF Recommit, Loops, Idle, PAs
<1>2. \A a \in PAs : Made(a) <=> pa[a] \in Installed
  BY <1>1 DEF Made, Visited
<1>3. \A a \in PAs : Made(a)' <=> pa'[a] \in Installed
  BY <1>1 DEF Made, Visited
<1>4. \A a \in PAs : HasPa(a)' <=> HasPa(a)
  BY <1>2, <1>3 DEF HasPa, KeepsInstalled
<1>5. kernel' = kernel
  OBVIOUS
<1>6. PaSet'
  BY <1>4, <1>5 DEF Books, PaSet, Keys
<1>7. VirtSet'
  <2> SUFFICES ASSUME NEW v \in Virts, committed_to[v] # NULL
               PROVE  /\ virt'[v] \in Installed
                      /\ virt'[v] = "OK" => connected_through'[v] = committed_to[v]
                      /\ HasPa(<<committed_to[v], VirtNet[v]>>)'
    BY <1>1 DEF VirtSet, Installed
  <2>1. <<committed_to[v], VirtNet[v]>> \in PAs
    BY DEF PAs
  <2>2. virt[v] \in Installed /\ HasPa(<<committed_to[v], VirtNet[v]>>)
        /\ (virt[v] = "OK" => connected_through[v] = committed_to[v])
    BY <1>1 DEF Books, VirtSet, PastVirt, Visited
  <2> QED BY <1>4, <2>1, <2>2 DEF KeepsInstalled
<1>8. RateSet' /\ VirtFacts' /\ BooksMatchKernel'
  BY <1>1, <1>5 DEF Books, RateSet, VirtFacts, BooksMatchKernel, Keys
<1>9. RpaSet'
  <2> SUFFICES ASSUME NEW r \in rpas
               PROVE  /\ r[1] # r[2] /\ HasPa(<<r[1], r[3]>>)'
                      /\ \A p \in {r[1], r[2]} : pa'[<<p, r[3]>>] \in Installed
    BY DEF RpaSet
  <2>1. <<r[1], r[3]>> \in PAs /\ <<r[2], r[3]>> \in PAs
    BY DEF PAs
  <2>2. r[1] # r[2] /\ HasPa(<<r[1], r[3]>>)
        /\ pa[<<r[1], r[3]>>] \in Installed /\ pa[<<r[2], r[3]>>] \in Installed
    BY <1>1 DEF Books, RpaSet, PastRemote, Visited
  <2> QED BY <1>4, <2>1, <2>2 DEF KeepsInstalled
<1>10. RvirtSet'
  <2> SUFFICES ASSUME NEW rv \in rvirts
               PROVE  /\ <<rv[1], rv[2], VirtNet[rv[3]]>> \in rpas
                      /\ virt'[rv[3]] \in Installed
                      /\ virt'[rv[3]] = "OK" => connected_through'[rv[3]] = rv[2]
    BY <1>1 DEF RvirtSet, Installed
  <2>1. rv[3] \in Virts
    OBVIOUS
  <2>2. /\ <<rv[1], rv[2], VirtNet[rv[3]]>> \in rpas /\ virt[rv[3]] \in Installed
        /\ virt[rv[3]] = "OK" => connected_through[rv[3]] = rv[2]
    BY <1>1, <2>1 DEF Books, RvirtSet, PastRemoteVirt, Visited
  <2> QED BY <2>1, <2>2 DEF KeepsInstalled
<1>11. ErrSet'
  BY <1>1 DEF ErrSet
<1> QED BY <1>6, <1>7, <1>8, <1>9, <1>10, <1>11 DEF Books

(***************************************************************************)
(* Freeing.                                                                *)
(***************************************************************************)

\* What Release is called with: virts that are there, virts that are not
\* being deleted, and PAs with no others connected.
Releasable(V, D, A) ==
  /\ V \in SUBSET Virts /\ D \in SUBSET Virts /\ A \in SUBSET PAs
  /\ \A v \in V : virt[v] # "none"
  /\ \A v \in D : virt[v] \notin {"none", "DELETE"}
  /\ \A v \in Virts : connected_through[v] # NULL /\ PaOf(v) \in A =>
       v \in V \cup D \/ virt[v] = "DELETE"

\* The PAs that are freed with them.
IdlePas(V, D, A) == FreeablePas(A, FreedNow(V) \cup D)

\* The virts connected to a PA are the ones on its list.
LEMMA OnList ==
  ASSUME TypeOK, Linked, NEW a \in PAs, NEW v \in Virts
  PROVE  v \in ConnectedVirts(a) <=> connected_through[v] # NULL /\ PaOf(v) = a
<1>1. PaOf(v) = a <=> connected_through[v] = a[1] /\ VirtNet[v] = a[2]
  BY PaPair DEF PaOf
<1>2. a[1] # NULL
  BY PaPair, NetApiAssumption
<1> QED BY <1>1, <1>2 DEF ConnectedVirts, Linked

\* free_pa_if_possible takes the PAs on which only the virts X are connected.
LEMMA FreeableHas ==
  ASSUME TypeOK, Linked, NEW A, NEW X, NEW a \in PAs
  PROVE  a \in FreeablePas(A, X) <=>
           /\ pa[a] # "none" /\ a \notin explicitly_attached \ A
           /\ a \in A \/ \E v \in X : PaOf(v) = a
           /\ \A v \in Virts : connected_through[v] # NULL /\ PaOf(v) = a => v \in X
<1>1. ConnectedVirts(a) \subseteq X <=> \A v \in Virts : v \in ConnectedVirts(a) => v \in X
  BY DEF ConnectedVirts
<1>2. a \in {PaOf(v) : v \in X} <=> \E v \in X : PaOf(v) = a
  OBVIOUS
<1>3. \A v \in Virts : v \in ConnectedVirts(a) <=> connected_through[v] # NULL /\ PaOf(v) = a
  BY OnList
<1> QED BY <1>1, <1>2, <1>3 DEF FreeablePas

\* The PAs on which nothing is connected any more.
LEMMA IdleHas ==
  ASSUME TypeOK, Linked, NEW V, NEW D, NEW A, Releasable(V, D, A), NEW a \in PAs
  PROVE  a \in IdlePas(V, D, A) <=>
           /\ pa[a] # "none" /\ a \notin explicitly_attached \ A
           /\ a \in A \/ \E v \in FreedNow(V) \cup D : PaOf(v) = a
           /\ \A v \in Virts : connected_through[v] # NULL /\ PaOf(v) = a
                => v \in FreedNow(V) \cup D
BY FreeableHas DEF IdlePas

(***************************************************************************)
(* The objects between calls, when Recommit is false.                      *)
(***************************************************************************)

IdleStates == {"none", "NEW", "RENEW", "OK", "DELETE"}

StatesI ==
  /\ \A s \in Settings : settings[s] \in IdleStates \ {"RENEW"}
  /\ \A n \in Nets : net[n] \in IdleStates \ {"RENEW"}
  /\ \A p \in Physes : phys[p] \in IdleStates
  /\ \A a \in PAs : pa[a] \in IdleStates
  /\ \A v \in Virts : virt[v] \in IdleStates

FreshI ==
  /\ \A n \in Nets : settings[NetSettings[n]] = "NEW" => net[n] \in {"none", "NEW"}
  /\ \A a \in PAs : net[a[2]] = "NEW" \/ phys[a[1]] = "NEW" => pa[a] \in {"none", "NEW"}
  /\ \A v \in Virts : net[VirtNet[v]] = "NEW" => virt[v] \in {"none", "NEW"}

LocalsI ==
  /\ \A p \in Physes : committed_as_local[p] => is_local[p]
  /\ \A p \in Physes : is_local[p] => Alloc(phys[p])
  /\ \A a, b \in PAs : a[2] = b[2] /\ Live(pa[a]) /\ Live(pa[b])
                       /\ is_local[a[1]] /\ is_local[b[1]] => a = b
  /\ \A p \in Physes : is_local[p] /\ ~committed_as_local[p] => phys[p] # "OK"

ObjectsI == StatesI /\ Owned /\ Dying /\ FreshI /\ Linked /\ Pending /\ LocalsI

\* Outside of the recommit phase Objects is ObjectsI, now and after the step.
LEMMA NotRecommit ==
  /\ ~Recommit => (Objects <=> ObjectsI)
  /\ ~Recommit' => (Objects' <=> ObjectsI')
<1>1. ASSUME ~Recommit PROVE Objects <=> ObjectsI
  <2>1. States <=> StatesI
    BY <1>1 DEF States, StatesI, Settled, Tried, IdleStates
  <2>2. Fresh <=> FreshI
    BY <1>1 DEF Fresh, FreshI
  <2>3. Locals <=> LocalsI
    BY <1>1 DEF Locals, LocalsI
  <2> QED BY <2>1, <2>2, <2>3 DEF Objects, ObjectsI
<1>2. ASSUME ~Recommit' PROVE Objects' <=> ObjectsI'
  <2>1. States' <=> StatesI'
    BY <1>2 DEF States, StatesI, Settled, Tried, IdleStates
  <2>2. Fresh' <=> FreshI'
    BY <1>2 DEF Fresh, FreshI
  <2>3. Locals' <=> LocalsI'
    BY <1>2 DEF Locals, LocalsI
  <2> QED BY <2>1, <2>2, <2>3 DEF Objects, ObjectsI
<1> QED BY <1>1, <1>2

\* What every edit does.
EditKeeps ==
  /\ ObjectsI' /\ aborted' = "no" /\ KeepsInstalled
  /\ UNCHANGED <<committed_to, rpas, rvirts, policing>>

\* An edit that keeps what EditKeeps says keeps the invariant.
LEMMA EditInv ==
  ASSUME IInv, pc = "idle", UNCHANGED commitVars, TypeOK', EditKeeps
  PROVE  IInv'
<1>1. ~Recommit /\ ~Recommit'
  BY DEF Recommit, commitVars
<1>2. Objects'
  BY <1>1, NotRecommit DEF EditKeeps
<1>3. Loops'
  BY EditLoops DEF IInv, commitVars
<1>4. Books'
  BY EditBooks DEF IInv, EditKeeps, commitVars
<1> QED BY <1>2, <1>3, <1>4 DEF IInv, EditKeeps

(***************************************************************************)
(* Creating.                                                               *)
(***************************************************************************)

\* lsdn_settings_new, lsdn_net_new, lsdn_phys_new, lsdn_virt_new.
LEMMA NewKeeps ==
  ASSUME TypeOK, ObjectsI, aborted = "no",
         \/ \E s \in Settings : SettingsNew(s)
         \/ \E n \in Nets : NetNew(n)
         \/ \E p \in Physes : PhysNew(p)
         \/ \E v \in Virts : VirtNew(v)
  PROVE  EditKeeps
<1> USE NetApiAssumption, PaPair DEF TypeOK, ObjTypes, ObjectsI, Alloc, Live, EditKeeps, ctxVars,
    bookVars,
      KeepsInstalled, Installed, physAttr, linkVars, objVars, IdleStates
<1>1. ASSUME NEW s \in Settings, SettingsNew(s) PROVE EditKeeps
  <2>1. StatesI' /\ Owned' /\ Dying'
    BY <1>1 DEF SettingsNew, StatesI, Owned, Dying
  <2>2. FreshI' /\ Linked'
    BY <1>1 DEF SettingsNew, FreshI, Linked, Owned, PaOf
  <2>3. Pending' /\ LocalsI'
    BY <1>1 DEF SettingsNew, Pending, LocalsI
  <2> QED BY <1>1, <2>1, <2>2, <2>3 DEF SettingsNew
<1>2. ASSUME NEW n \in Nets, NetNew(n) PROVE EditKeeps
  <2>1. StatesI' /\ Owned' /\ Dying'
    BY <1>2 DEF NetNew, StatesI, Owned, Dying
  <2>2. FreshI' /\ Linked'
    BY <1>2 DEF NetNew, FreshI, Linked, Owned, PaOf
  <2>3. Pending' /\ LocalsI'
    BY <1>2 DEF NetNew, Pending, LocalsI
  <2> QED BY <1>2, <2>1, <2>2, <2>3 DEF NetNew
<1>3. ASSUME NEW p \in Physes, PhysNew(p) PROVE EditKeeps
  <2>1. StatesI' /\ Owned' /\ Dying'
    BY <1>3 DEF PhysNew, StatesI, Owned, Dying
  <2>2. FreshI' /\ Linked'
    BY <1>3 DEF PhysNew, FreshI, Linked, Owned, PaOf
  <2>3. Pending' /\ LocalsI'
    BY <1>3 DEF PhysNew, Pending, LocalsI
  <2> QED BY <1>3, <2>1, <2>2, <2>3 DEF PhysNew
<1>4. ASSUME NEW v \in Virts, VirtNew(v) PROVE EditKeeps
  <2>1. StatesI' /\ Owned' /\ Dying'
    BY <1>4 DEF VirtNew, StatesI, Owned, Dying
  <2>2. FreshI' /\ Linked'
    BY <1>4, SMTT(30) DEF VirtNew, FreshI, Linked, Owned, PaOf
  <2>3. Pending' /\ LocalsI'
    BY <1>4 DEF VirtNew, Pending, LocalsI
  <2> QED BY <1>4, <2>1, <2>2, <2>3 DEF VirtNew
<1> QED BY <1>1, <1>2, <1>3, <1>4

(***************************************************************************)
(* Attributes.                                                             *)
(***************************************************************************)

\* What an edit of a phys that leaves is_local alone has to keep.
LEMMA PhysEditKeeps ==
  ASSUME TypeOK, ObjectsI, aborted = "no", NEW p \in Physes, PhysEdit(p),
         \/ UNCHANGED is_local
         \/ /\ Careful /\ UnclaimsFresh(p)
            /\ is_local' = [is_local EXCEPT ![p] = FALSE]
         \/ /\ Careful /\ \A n \in Nets : Live(pa[<<p, n>>]) => OneLocal(p, n)
            /\ is_local' = [is_local EXCEPT ![p] = TRUE]
  PROVE  EditKeeps
<1> USE NetApiAssumption, PaPair DEF TypeOK, ObjTypes, ObjectsI, Alloc, Live, EditKeeps, ctxVars,
    bookVars,
      KeepsInstalled, Installed, linkVars, objVars, IdleStates, PhysEdit, Renew
<1>1. StatesI' /\ Owned' /\ Dying'
  BY DEF StatesI, Owned, Dying
<1>2. FreshI' /\ Linked'
  BY DEF FreshI, Linked, Owned, PaOf
<1>3. Pending'
  BY DEF Pending
<1>4. LocalsI'
  <2>1. is_local \in [Physes -> BOOLEAN]
    BY DEF UserTypes
  <2>2. CASE UNCHANGED is_local
    BY <2>2 DEF LocalsI
  <2>3. CASE Careful /\ UnclaimsFresh(p) /\ is_local' = [is_local EXCEPT ![p] = FALSE]
    BY <2>1, <2>3 DEF LocalsI, Careful, RuleNames, UnclaimsFresh
  <2>4. CASE /\ Careful /\ \A n \in Nets : Live(pa[<<p, n>>]) => OneLocal(p, n)
             /\ is_local' = [is_local EXCEPT ![p] = TRUE]
    <3>1. \A q \in Physes, n \in Nets : q # p /\ is_local[q] /\ Live(pa[<<q, n>>])
                                          => ~Live(pa[<<p, n>>])
      BY <2>4 DEF Careful, RuleNames, OneLocal
    <3>2. \A a, b \in PAs : a[2] = b[2] /\ Live(pa'[a]) /\ Live(pa'[b])
                       /\ is_local'[a[1]] /\ is_local'[b[1]] => a = b
      <4> SUFFICES ASSUME NEW a \in PAs, NEW b \in PAs, a[2] = b[2], Live(pa[a]), Live(pa[b]),
                          is_local'[a[1]], is_local'[b[1]], a # b
                   PROVE  FALSE
        OBVIOUS
      <4>1. a = <<a[1], a[2]>> /\ b = <<b[1], b[2]>> /\ a[1] # b[1]
        BY PaPair, Zenon
      <4> QED BY <2>1, <2>4, <3>1, <4>1 DEF LocalsI
    <3> QED BY <2>1, <2>4, <3>2 DEF LocalsI
  <2> QED BY <2>2, <2>3, <2>4
<1> QED BY <1>1, <1>2, <1>3, <1>4

\* The attributes of a phys and whether it is local.
LEMMA PhysAttrKeeps ==
  ASSUME Careful, TypeOK, ObjectsI, aborted = "no", NEW p \in Physes,
         \/ \E x \in Ifaces \cup {NULL} : PhysSetIface(p, x)
         \/ \E x \in Ips \cup {NULL} : PhysSetIp(p, x)
         \/ ClaimLocal(p)
         \/ UnclaimLocal(p)
  PROVE  EditKeeps
BY PhysEditKeeps DEF PhysSetIface, PhysSetIp, ClaimLocal, UnclaimLocal

\* The attributes of a virt.
LEMMA VirtAttrKeeps ==
  ASSUME TypeOK, ObjectsI, aborted = "no", NEW v \in Virts, VirtEdit(v)
  PROVE  EditKeeps
<1> USE NetApiAssumption, PaPair DEF TypeOK, ObjTypes, ObjectsI, Alloc, Live, EditKeeps, ctxVars,
    bookVars,
      KeepsInstalled, Installed, linkVars, physAttr, objVars, IdleStates, VirtEdit, Renew
<1>1. StatesI' /\ Owned' /\ Dying'
  BY DEF StatesI, Owned, Dying
<1>2. FreshI' /\ Linked'
  BY DEF FreshI, Linked, Owned, PaOf
<1>3. Pending' /\ LocalsI'
  BY DEF Pending, LocalsI
<1> QED BY <1>1, <1>2, <1>3

(***************************************************************************)
(* Attachments and connections.                                            *)
(***************************************************************************)

\* lsdn_phys_attach.
LEMMA AttachKeeps ==
  ASSUME Careful, TypeOK, ObjectsI, aborted = "no", NEW p \in Physes, NEW n \in Nets,
         PhysAttach(p, n)
  PROVE  EditKeeps
<1> USE NetApiAssumption DEF TypeOK, ObjTypes, ObjectsI, Alloc, Live, EditKeeps, ctxVars,
    bookVars,
      KeepsInstalled, Installed, linkVars, physAttr, objVars, IdleStates, PhysAttach, Renew
<1> DEFINE b == <<p, n>>
<1>1. b \in PAs /\ b[1] = p /\ b[2] = n
  BY DEF PAs
<1>2. /\ pa' = [pa EXCEPT ![b] = FindOrCreate(@)]
      /\ explicitly_attached' = explicitly_attached \cup {b}
      /\ pa[b] # "DELETE" /\ (is_local[p] => OneLocal(p, n))
  BY DEF Careful, RuleNames, NotDying
<1> HIDE DEF b
<1>3. \A a \in PAs : pa'[a] = pa[a] \/ (a = b /\ pa[a] = "none" /\ pa'[a] = "NEW")
  BY <1>1, <1>2 DEF FindOrCreate
<1>4. pa'[b] # "none"
  BY <1>1, <1>2 DEF FindOrCreate
<1>5. StatesI' /\ Owned' /\ Dying'
  BY <1>1, <1>2, <1>3, PaPair DEF StatesI, Owned, Dying
<1>6. FreshI'
  BY <1>1, <1>2, <1>3, PaPair DEF FreshI
<1>7. Linked'
  <2>1. \A v \in Virts : PaOf(v)' = PaOf(v)
    BY DEF PaOf
  <2> QED BY <1>1, <1>2, <1>3, <1>4, <2>1, PaOfTyped DEF Linked
<1>8. Pending'
  BY <1>1, <1>2, <1>3 DEF Pending
<1>9. LocalsI'
  <2>1. \A a, c \in PAs : a[2] = c[2] /\ Live(pa'[a]) /\ Live(pa'[c])
                       /\ is_local[a[1]] /\ is_local[c[1]] => a = c
    <3>1. ASSUME NEW a \in PAs, a # b, a[2] = n, is_local[p], is_local[a[1]], Live(pa[a])
          PROVE  FALSE
      <4>1. a = <<a[1], n>> /\ a[1] \in Physes \ {p}
        BY <3>1, PaPair DEF b
      <4> QED BY <1>2, <3>1, <4>1 DEF OneLocal, Careful, RuleNames
    <3> QED BY <1>1, <1>3, <3>1, PaPair DEF LocalsI
  <2> QED BY <1>1, <1>3, <2>1 DEF LocalsI
<1> QED BY <1>3, <1>5, <1>6, <1>7, <1>8, <1>9

\* lsdn_virt_connect.
LEMMA ConnectKeeps ==
  ASSUME Careful, TypeOK, ObjectsI, aborted = "no", NEW v \in Virts, NEW p \in Physes,
         VirtConnect(v, p)
  PROVE  EditKeeps
<1> USE NetApiAssumption DEF TypeOK, ObjTypes, ObjectsI, Alloc, Live, EditKeeps, ctxVars,
    bookVars,
      KeepsInstalled, Installed, linkVars, physAttr, objVars, IdleStates, VirtConnect, Renew
<1>1. <<p, VirtNet[v]>> \in explicitly_attached
  BY DEF Careful, RuleNames, ConnectsAttached
<1>2. <<p, VirtNet[v]>> \in PAs /\ Live(pa[<<p, VirtNet[v]>>])
  BY <1>1 DEF PAs, Linked
<1>3. pa' = pa
  BY <1>2 DEF FindOrCreate
<1>4. \A w \in Virts : PaOf(w)' = IF w = v THEN <<p, VirtNet[v]>> ELSE PaOf(w)
  BY DEF PaOf, UserTypes
<1>5. connected_through' = [connected_through EXCEPT ![v] = p]
  OBVIOUS
<1>6. StatesI' /\ Owned' /\ Dying' /\ FreshI'
  BY <1>3 DEF StatesI, Owned, Dying, FreshI
<1>7. Linked'
  <2>1. \A a \in PAs : Live(pa[a]) /\ a \notin explicitly_attached =>
           \E w \in Virts : w # v /\ connected_through[w] # NULL /\ PaOf(w) = a
    BY DEF Linked
  <2>2. \A w \in Virts : w # v => connected_through'[w] = connected_through[w]
        /\ PaOf(w)' = PaOf(w)
                                    /\ virt'[w] = virt[w]
    BY <1>4, <1>5 DEF UserTypes
  <2>3. connected_through'[v] = p /\ PaOf(v)' = <<p, VirtNet[v]>> /\ virt'[v] # "none"
    BY <1>4, <1>5 DEF UserTypes
  <2> QED BY <1>1, <1>2, <1>3, <2>1, <2>2, <2>3 DEF Linked
<1>8. Pending' /\ LocalsI'
  BY <1>3 DEF Pending, LocalsI
<1> QED BY <1>3, <1>6, <1>7, <1>8

\* lsdn_virt_disconnect.
LEMMA DisconnectKeeps ==
  ASSUME TypeOK, ObjectsI, aborted = "no", NEW v \in Virts, VirtDisconnect(v)
  PROVE  EditKeeps
<1> USE NetApiAssumption DEF TypeOK, ObjTypes, ObjectsI, Alloc, Live, EditKeeps, ctxVars,
    bookVars,
      KeepsInstalled, Installed, linkVars, physAttr, objVars, IdleStates, VirtDisconnect, Renew
<1>1. StatesI' /\ Owned' /\ Dying' /\ FreshI'
  BY DEF StatesI, Owned, Dying, FreshI
<1>2. Linked'
  <2>1. \A a \in PAs : Live(pa[a]) /\ a \notin explicitly_attached =>
           \E w \in Virts : w # v /\ connected_through[w] # NULL /\ PaOf(w) = a
    BY DEF Linked
  <2>2. \A w \in Virts : w # v => connected_through'[w] = connected_through[w]
        /\ PaOf(w)' = PaOf(w)
                                    /\ virt'[w] = virt[w]
    BY DEF UserTypes, PaOf
  <2>3. connected_through'[v] = NULL
    BY DEF UserTypes
  <2> QED BY <2>1, <2>2, <2>3 DEF Linked
<1>3. Pending' /\ LocalsI'
  BY DEF Pending, LocalsI
<1> QED BY <1>1, <1>2, <1>3

(***************************************************************************)
(* Freeing, continued.                                                     *)
(***************************************************************************)

\* What Release does to the single objects.
LEMMA ReleaseEffect ==
  ASSUME TypeOK, ObjectsI, NEW V, NEW D, NEW A, Releasable(V, D, A), Release(V, D, A)
  PROVE  /\ \A v \in Virts :
              /\ v \in V => virt'[v] = FreeHelper(virt[v])
              /\ v \in D \ V => virt'[v] = Renew(virt[v])
              /\ v \notin V \cup D => virt'[v] = virt[v]
              /\ v \in FreedNow(V) \cup D => connected_through'[v] = NULL
              /\ v \notin FreedNow(V) \cup D =>
                   connected_through'[v] = connected_through[v] /\ PaOf(v)' = PaOf(v)
         /\ \A a \in PAs :
              /\ a \in IdlePas(V, D, A) => pa'[a] = FreeHelper(pa[a]) /\ pa[a] # "none"
              /\ a \notin IdlePas(V, D, A) => pa'[a] = pa[a]
         /\ explicitly_attached' = explicitly_attached \ A
         /\ pending_free' = pending_free \cup {v \in V : virt[v] # "NEW"}
                                  \cup {a \in IdlePas(V, D, A) : pa[a] # "NEW"}
<1> DEFINE X == FreedNow(V) \cup D
<1>1. connected_through' = [v \in Virts |-> IF v \in X THEN NULL ELSE connected_through[v]]
  BY DEF Release
<1>2. \A v \in Virts : /\ v \in X => connected_through'[v] = NULL
                       /\ v \notin X => connected_through'[v] = connected_through[v]
                            /\ PaOf(v)' = PaOf(v)
  BY <1>1 DEF PaOf
<1>3. \A a \in PAs : a \in IdlePas(V, D, A) => pa[a] # "none"
  BY DEF IdlePas, FreeablePas
<1>4. pa' = [a \in PAs |-> IF a \in IdlePas(V, D, A) THEN FreeHelper(pa[a]) ELSE pa[a]]
  BY DEF Release, IdlePas
<1>5. virt' = [v \in Virts |-> IF v \in V THEN FreeHelper(virt[v])
                              ELSE IF v \in D THEN Renew(virt[v]) ELSE virt[v]]
  BY DEF Release
<1>6. \A a \in PAs :
              /\ a \in IdlePas(V, D, A) => pa'[a] = FreeHelper(pa[a]) /\ pa[a] # "none"
              /\ a \notin IdlePas(V, D, A) => pa'[a] = pa[a]
  BY <1>3, <1>4
<1>7. \A v \in Virts :
              /\ v \in V => virt'[v] = FreeHelper(virt[v])
              /\ v \in D \ V => virt'[v] = Renew(virt[v])
              /\ v \notin V \cup D => virt'[v] = virt[v]
  BY <1>5
<1>8. /\ explicitly_attached' = explicitly_attached \ A
      /\ pending_free' = pending_free \cup {v \in V : virt[v] # "NEW"}
                                  \cup {a \in IdlePas(V, D, A) : pa[a] # "NEW"}
  BY DEF Release, IdlePas
<1> QED BY <1>2, <1>6, <1>7, <1>8

\* The states that Release leaves.
LEMMA ReleaseStates ==
  ASSUME TypeOK, ObjectsI, NEW V, NEW D, NEW A, Releasable(V, D, A), Release(V, D, A)
  PROVE  /\ \A v \in Virts : /\ virt'[v] \in IdleStates
                             /\ virt[v] = "none" <=> (virt'[v] = "none" /\ virt[v] # "NEW")
                             /\ virt[v] = "none" => virt'[v] = "none"
                             /\ virt[v] = "NEW" => virt'[v] \in {"none", "NEW"}
                             /\ virt'[v] = "NEW" => virt[v] = "NEW"
                             /\ virt[v] = "DELETE" => virt'[v] = "DELETE"
                             /\ virt'[v] \in Installed <=> virt[v] \in Installed
                             /\ virt'[v] = "OK" => virt[v] = "OK"
                                  /\ connected_through'[v] = connected_through[v]
                             /\ v \in V => ~Live(virt'[v])
         /\ \A a \in PAs : /\ pa'[a] \in IdleStates
                           /\ pa[a] = "none" => pa'[a] = "none"
                           /\ pa[a] = "NEW" => pa'[a] \in {"none", "NEW"}
                           /\ pa'[a] = "NEW" => pa[a] = "NEW"
                           /\ pa[a] = "DELETE" => pa'[a] = "DELETE"
                           /\ pa'[a] \in Installed <=> pa[a] \in Installed
                           /\ Live(pa'[a]) => pa'[a] = pa[a]
<1>1. StatesI
  BY DEF ObjectsI
<1>2. ASSUME NEW v \in Virts
      PROVE  /\ virt'[v] \in IdleStates
             /\ virt[v] = "none" <=> (virt'[v] = "none" /\ virt[v] # "NEW")
             /\ virt[v] = "none" => virt'[v] = "none"
             /\ virt[v] = "NEW" => virt'[v] \in {"none", "NEW"}
             /\ virt'[v] = "NEW" => virt[v] = "NEW"
             /\ virt[v] = "DELETE" => virt'[v] = "DELETE"
             /\ virt'[v] \in Installed <=> virt[v] \in Installed
             /\ virt'[v] = "OK" => virt[v] = "OK" /\ connected_through'[v] = connected_through[v]
             /\ v \in V => ~Live(virt'[v])
  <2>1. virt[v] \in IdleStates
    BY <1>1 DEF StatesI
  <2>2. /\ v \in V => virt[v] # "none" /\ virt'[v] = FreeHelper(virt[v])
        /\ v \in D \ V => virt'[v] = Renew(virt[v]) /\ virt[v] \notin {"none", "DELETE"}
        /\ v \notin V \cup D => virt'[v] = virt[v] /\ connected_through'[v] = connected_through[v]
    BY ReleaseEffect DEF Releasable, FreedNow
  <2> QED BY <2>1, <2>2 DEF IdleStates, Installed, Live, FreeHelper, Renew
<1>3. ASSUME NEW a \in PAs
      PROVE  /\ pa'[a] \in IdleStates
             /\ pa[a] = "none" => pa'[a] = "none"
             /\ pa[a] = "NEW" => pa'[a] \in {"none", "NEW"}
             /\ pa'[a] = "NEW" => pa[a] = "NEW"
             /\ pa[a] = "DELETE" => pa'[a] = "DELETE"
             /\ pa'[a] \in Installed <=> pa[a] \in Installed
             /\ Live(pa'[a]) => pa'[a] = pa[a]
  <2>1. pa[a] \in IdleStates
    BY <1>1 DEF StatesI
  <2>2. pa'[a] = pa[a] \/ (pa[a] # "none" /\ pa'[a] = FreeHelper(pa[a]))
    BY ReleaseEffect
  <2> QED BY <2>1, <2>2 DEF IdleStates, Installed, Live, FreeHelper
<1> QED BY <1>2, <1>3

\* Release keeps the links.
LEMMA ReleaseLinked ==
  ASSUME TypeOK, ObjectsI, NEW V, NEW D, NEW A, Releasable(V, D, A), Release(V, D, A)
  PROVE  Linked'
<1> USE DEF ObjectsI
<1>1. \A v \in Virts : virt'[v] = "none" => connected_through'[v] = NULL
  <2> SUFFICES ASSUME NEW v \in Virts, virt'[v] = "none" PROVE connected_through'[v] = NULL
    OBVIOUS
  <2>1. CASE virt[v] = "none"
    BY <2>1, ReleaseEffect DEF Linked
  <2>2. CASE virt[v] # "none"
    <3>1. v \in V /\ virt[v] = "NEW"
      BY <2>2, ReleaseEffect DEF FreeHelper, Renew
    <3> QED BY <3>1, ReleaseEffect DEF FreedNow
  <2> QED BY <2>1, <2>2
<1>2. \A v \in Virts : connected_through'[v] # NULL => Live(pa'[PaOf(v)'])
  <2> SUFFICES ASSUME NEW v \in Virts, connected_through'[v] # NULL PROVE Live(pa'[PaOf(v)'])
    OBVIOUS
  <2>1. v \notin FreedNow(V) \cup D /\ connected_through[v] # NULL /\ PaOf(v)' = PaOf(v)
    BY ReleaseEffect
  <2>2. PaOf(v) \in PAs /\ Live(pa[PaOf(v)])
    BY <2>1, PaOfTyped DEF Linked
  <2>3. PaOf(v) \notin IdlePas(V, D, A)
    BY <2>1, <2>2, IdleHas
  <2> QED BY <2>1, <2>2, <2>3, ReleaseEffect
<1>3. \A v \in Virts : connected_through'[v] # NULL /\ virt'[v] # "DELETE"
                        => PaOf(v)' \in explicitly_attached'
  <2> SUFFICES ASSUME NEW v \in Virts, connected_through'[v] # NULL, virt'[v] # "DELETE"
               PROVE  PaOf(v)' \in explicitly_attached'
    OBVIOUS
  <2>1. v \notin FreedNow(V) \cup D /\ connected_through[v] # NULL /\ PaOf(v)' = PaOf(v)
    BY ReleaseEffect
  <2>2. v \notin V
    BY <2>1, ReleaseEffect DEF FreeHelper, FreedNow
  <2>3. virt[v] # "DELETE"
    BY <2>1, <2>2, ReleaseEffect
  <2>4. PaOf(v) \in explicitly_attached
    BY <2>1, <2>3 DEF Linked
  <2>5. PaOf(v) \notin A
    BY <2>1, <2>2, <2>3 DEF Releasable
  <2> QED BY <2>1, <2>4, <2>5, ReleaseEffect
<1>4. \A a \in explicitly_attached' : Live(pa'[a])
  <2> SUFFICES ASSUME NEW a \in explicitly_attached' PROVE Live(pa'[a])
    OBVIOUS
  <2>1. a \in PAs /\ a \in explicitly_attached \ A
    BY ReleaseEffect DEF TypeOK, UserTypes
  <2>2. a \notin IdlePas(V, D, A)
    BY <2>1, IdleHas
  <2> QED BY <2>1, <2>2, ReleaseEffect DEF Linked
<1>5. \A a \in PAs : Live(pa'[a]) /\ a \notin explicitly_attached' =>
       \E v \in Virts : connected_through'[v] # NULL /\ PaOf(v)' = a
  <2> SUFFICES ASSUME NEW a \in PAs, Live(pa'[a]), a \notin explicitly_attached'
               PROVE  \E v \in Virts : connected_through'[v] # NULL /\ PaOf(v)' = a
    OBVIOUS
  <2>1. a \notin IdlePas(V, D, A) /\ Live(pa[a])
    BY ReleaseEffect DEF FreeHelper, Live
  <2>2. a \notin explicitly_attached \ A
    BY ReleaseEffect
  <2>3. \E v \in Virts : connected_through[v] # NULL /\ PaOf(v) = a /\ v \notin FreedNow(V) \cup D
    <3>1. CASE a \in A
      BY <2>1, <2>2, <3>1, IdleHas DEF Live
    <3>2. CASE a \notin A
      <4>1. PICK v \in Virts : connected_through[v] # NULL /\ PaOf(v) = a
        BY <2>1, <2>2, <3>2 DEF Linked
      <4>2. virt[v] = "DELETE"
        BY <2>2, <3>2, <4>1 DEF Linked
      <4> QED BY <4>1, <4>2 DEF FreedNow, Releasable
    <3> QED BY <3>1, <3>2
  <2> QED BY <2>3, ReleaseEffect
<1> QED BY <1>1, <1>2, <1>3, <1>4, <1>5 DEF Linked

\* Release puts on the pending list exactly what it makes DELETE.
LEMMA ReleasePending ==
  ASSUME TypeOK, ObjectsI, NEW V, NEW D, NEW A, Releasable(V, D, A), Release(V, D, A)
  PROVE  Pending'
<1>1. ASSUME NEW v \in Virts PROVE v \in pending_free' <=> virt'[v] = "DELETE"
  <2>1. v \notin PAs
    BY NetApiAssumption DEF PAs
  <2>2. v \in pending_free' <=> v \in pending_free \/ (v \in V /\ virt[v] # "NEW")
    BY <2>1, ReleaseEffect DEF IdlePas, FreeablePas
  <2>3. v \in pending_free <=> virt[v] = "DELETE"
    BY DEF ObjectsI, Pending
  <2>4. virt[v] \in IdleStates
    BY DEF ObjectsI, StatesI
  <2>5. /\ v \in V => virt'[v] = FreeHelper(virt[v])
        /\ v \in D \ V => virt'[v] = Renew(virt[v]) /\ virt[v] # "DELETE"
        /\ v \notin V \cup D => virt'[v] = virt[v]
    BY ReleaseEffect DEF Releasable
  <2> QED BY <2>2, <2>3, <2>4, <2>5 DEF FreeHelper, Renew, IdleStates
<1>2. ASSUME NEW a \in PAs PROVE a \in pending_free' <=> pa'[a] = "DELETE"
  <2>1. a \notin Virts
    BY NetApiAssumption DEF PAs
  <2>2. a \in pending_free' <=> a \in pending_free \/ (a \in IdlePas(V, D, A) /\ pa[a] # "NEW")
    BY <2>1, ReleaseEffect DEF Releasable
  <2>3. a \in pending_free <=> pa[a] = "DELETE"
    BY DEF ObjectsI, Pending
  <2>4. /\ a \in IdlePas(V, D, A) => pa'[a] = FreeHelper(pa[a]) /\ pa[a] # "none"
        /\ a \notin IdlePas(V, D, A) => pa'[a] = pa[a]
    BY ReleaseEffect
  <2> QED BY <2>2, <2>3, <2>4 DEF FreeHelper
<1> QED BY <1>1, <1>2 DEF Pending

\* lsdn_virt_free and lsdn_phys_detach free no more than Release does.
LEMMA ReleaseKeeps ==
  ASSUME TypeOK, ObjectsI, aborted = "no", NEW V, NEW D, NEW A, Releasable(V, D, A),
         Release(V, D, A),
         UNCHANGED <<settings, net, phys, physAttr, bookVars, ctxVars>>
  PROVE  EditKeeps
<1> USE NetApiAssumption DEF ObjectsI, physAttr, bookVars, ctxVars
<1>1. StatesI'
  BY ReleaseStates DEF StatesI
<1>2. Owned'
  BY ReleaseStates DEF Owned, Alloc
<1>3. Dying'
  BY ReleaseStates, ReleaseEffect DEF Dying, Live
<1>4. FreshI'
  BY ReleaseStates DEF FreshI
<1>5. LocalsI'
  BY ReleaseStates DEF LocalsI, Alloc
<1>6. KeepsInstalled
  BY ReleaseStates DEF KeepsInstalled
<1> QED BY <1>1, <1>2, <1>3, <1>4, <1>5, <1>6, ReleaseLinked, ReleasePending DEF EditKeeps

\* lsdn_virt_free lets go of its PA.
LEMMA VirtFreeKeeps ==
  ASSUME TypeOK, ObjectsI, aborted = "no", NEW v \in Virts, VirtFree(v)
  PROVE  EditKeeps
<1>1. Releasable({v}, {}, {})
  BY DEF VirtFree, Live, Releasable
<1> QED BY <1>1, ReleaseKeeps DEF VirtFree

\* lsdn_phys_detach.
LEMMA DetachKeeps ==
  ASSUME Careful, TypeOK, ObjectsI, aborted = "no", NEW p \in Physes, NEW n \in Nets,
         PhysDetach(p, n)
  PROVE  EditKeeps
<1>1. <<p, n>> \in PAs /\ DetachesIdle(<<p, n>>)
  BY DEF PhysDetach, PAs
<1>2. \A v \in Virts : connected_through[v] # NULL /\ PaOf(v) = <<p, n>> => virt[v] = "DELETE"
  BY <1>1, OnList DEF DetachesIdle, Careful, RuleNames, ObjectsI
<1>3. Releasable({}, {}, {<<p, n>>})
  BY <1>1, <1>2 DEF Releasable
<1> QED BY <1>3, ReleaseKeeps DEF PhysDetach

\* The virts of the nets N, and the PAs of those nets.
LEMMA NetsReleasable ==
  ASSUME TypeOK, Linked, NEW N \in SUBSET Nets
  PROVE  Releasable(VirtsIn(N), {}, Physes \X N)
<1>1. \A v \in Virts : connected_through[v] # NULL /\ PaOf(v) \in Physes \X N => v \in VirtsIn(N)
  BY DEF PaOf, VirtsIn, Linked
<1> QED BY <1>1 DEF Releasable, VirtsIn, PAs

\* Whatever hangs on a net that was never committed goes with it at once.
LEMMA NewNetsEmpty ==
  ASSUME TypeOK, ObjectsI, NEW N \in SUBSET Nets, NEW M \in SUBSET N,
         Release(VirtsIn(N), {}, Physes \X N), \A n \in M : net[n] = "NEW"
  PROVE  NetsEmpty(M)
<1>1. Releasable(VirtsIn(N), {}, Physes \X N)
  BY NetsReleasable DEF ObjectsI
<1>2. ASSUME NEW n \in M, NEW v \in Virts, VirtNet[v] = n PROVE virt'[v] = "none"
  <2>1. virt[v] \in {"none", "NEW"}
    BY <1>2 DEF ObjectsI, FreshI
  <2>2. CASE virt[v] = "none"
    BY <2>2, <1>1, ReleaseStates
  <2>3. CASE virt[v] = "NEW"
    <3>1. v \in VirtsIn(N)
      BY <1>2, <2>3 DEF VirtsIn
    <3> QED BY <1>1, <2>3, <3>1, ReleaseEffect DEF FreeHelper
  <2> QED BY <2>1, <2>2, <2>3
<1>3. ASSUME NEW n \in M, NEW p \in Physes PROVE pa'[<<p, n>>] = "none"
  <2> DEFINE a == <<p, n>>
  <2>1. a \in PAs /\ a[2] = n /\ a \in Physes \X N
    BY DEF PAs
  <2> HIDE DEF a
  <2>2. pa[a] \in {"none", "NEW"}
    BY <2>1 DEF ObjectsI, FreshI
  <2>3. CASE pa[a] = "none"
    BY <1>1, <2>1, <2>3, ReleaseStates DEF a
  <2>4. CASE pa[a] = "NEW"
    <3>1. \A v \in Virts : connected_through[v] # NULL /\ PaOf(v) = a
            => v \in FreedNow(VirtsIn(N))
      <4> SUFFICES ASSUME NEW v \in Virts, connected_through[v] # NULL, PaOf(v) = a
                   PROVE  v \in FreedNow(VirtsIn(N))
        OBVIOUS
      <4>1. VirtNet[v] = n
        BY DEF PaOf, a
      <4>2. virt[v] = "NEW"
        BY <4>1 DEF ObjectsI, FreshI, Linked
      <4> QED BY <4>1, <4>2 DEF FreedNow, VirtsIn
    <3>2. a \in IdlePas(VirtsIn(N), {}, Physes \X N)
      BY <1>1, <2>1, <2>4, <3>1, IdleHas DEF ObjectsI
    <3> QED BY <1>1, <2>1, <2>4, <3>2, ReleaseEffect DEF FreeHelper, a
  <2> QED BY <2>2, <2>3, <2>4
<1> QED BY <1>2, <1>3 DEF NetsEmpty

\* The nets N are freed, with settings that nothing else uses.
LEMMA NetsFreed ==
  ASSUME TypeOK, ObjectsI, NEW N \in SUBSET Nets, \A n \in N : net[n] # "none",
         Release(VirtsIn(N), {}, Physes \X N),
         net' = [n \in Nets |-> IF n \in N THEN FreeHelper(net[n]) ELSE net[n]],
         NEW S \in SUBSET Settings, \A s \in S : settings[s] # "none",
         settings' = [s \in Settings |-> IF s \in S THEN FreeHelper(settings[s])
                                           ELSE settings[s]],
         \A n \in Nets : NetSettings[n] \in S /\ net[n] # "none" => n \in N,
         aborted' = "no", UNCHANGED <<phys, physAttr, bookVars, life>>
  PROVE  EditKeeps
<1> USE NetApiAssumption DEF physAttr, bookVars, ObjectsI
<1>1. Releasable(VirtsIn(N), {}, Physes \X N)
  BY NetsReleasable
<1>2. NetsEmpty({n \in N : net[n] = "NEW"})
  BY NewNetsEmpty
<1>3. \A n \in Nets : IF n \in N THEN net'[n] = FreeHelper(net[n]) ELSE net'[n] = net[n]
  OBVIOUS
<1>4. \A s \in Settings : IF s \in S THEN settings'[s] = FreeHelper(settings[s])
        ELSE settings'[s] = settings[s]
  OBVIOUS
<1>5. StatesI'
  BY <1>1, <1>3, <1>4, ReleaseStates DEF StatesI, FreeHelper, IdleStates
<1>6. \A n \in Nets : net'[n] = "none" =>
         /\ \A v \in Virts : VirtNet[v] = n => virt'[v] = "none"
         /\ \A p \in Physes : pa'[<<p, n>>] = "none"
  <2> SUFFICES ASSUME NEW n \in Nets, net'[n] = "none"
               PROVE  /\ \A v \in Virts : VirtNet[v] = n => virt'[v] = "none"
                      /\ \A p \in Physes : pa'[<<p, n>>] = "none"
    OBVIOUS
  <2>1. CASE n \in N
    <3>1. net[n] = "NEW"
      BY <1>3, <2>1 DEF FreeHelper
    <3> QED BY <1>2, <2>1, <3>1 DEF NetsEmpty
  <2>2. CASE n \notin N
    <3>1. net[n] = "none"
      BY <1>3, <2>2
    <3>2. \A v \in Virts : VirtNet[v] = n => virt[v] = "none"
      BY <3>1 DEF Owned, Alloc
    <3>3. ASSUME NEW p \in Physes PROVE <<p, n>> \in PAs /\ pa[<<p, n>>] = "none"
      BY <3>1 DEF Owned, Alloc, PAs
    <3> QED BY <1>1, <3>2, <3>3, ReleaseStates
  <2> QED BY <2>1, <2>2
<1>7. Owned'
  <2>1. ASSUME NEW n \in Nets, Alloc(net'[n]) PROVE Alloc(settings'[NetSettings[n]])
    <3>1. net[n] # "none" /\ settings[NetSettings[n]] # "none"
      BY <1>3, <2>1 DEF Alloc, Owned, FreeHelper
    <3>2. CASE NetSettings[n] \in S
      <4>1. n \in N /\ net[n] # "NEW"
        BY <1>3, <2>1, <3>1, <3>2 DEF FreeHelper, Alloc
      <4>2. settings[NetSettings[n]] # "NEW"
        BY <3>1, <4>1 DEF FreshI
      <4> QED BY <1>4, <3>1, <3>2, <4>2 DEF Alloc, FreeHelper
    <3> QED BY <1>4, <3>1, <3>2 DEF Alloc
  <2>2. ASSUME NEW a \in PAs, Alloc(pa'[a]) PROVE Alloc(phys'[a[1]]) /\ Alloc(net'[a[2]])
    <3>1. pa[a] # "none"
      BY <1>1, <2>2, ReleaseStates DEF Alloc
    <3>2. Alloc(net'[a[2]])
      BY <1>6, <2>2, PaPair DEF Alloc
    <3> QED BY <3>1, <3>2 DEF Owned, Alloc
  <2>3. ASSUME NEW v \in Virts, Alloc(virt'[v]) PROVE Alloc(net'[VirtNet[v]])
    BY <1>6, <2>3 DEF Alloc
  <2> QED BY <2>1, <2>2, <2>3 DEF Owned
<1>8. Dying'
  <2>1. ASSUME NEW n \in Nets, settings'[NetSettings[n]] = "DELETE" PROVE ~Live(net'[n])
    <3>1. CASE NetSettings[n] \in S
      BY <1>3, <2>1, <3>1 DEF FreeHelper, Live
    <3>2. CASE NetSettings[n] \notin S
      BY <1>3, <1>4, <2>1, <3>2 DEF FreeHelper, Live, Dying
    <3> QED BY <3>1, <3>2
  <2>2. ASSUME NEW a \in PAs, phys'[a[1]] = "DELETE" PROVE ~Live(pa'[a])
    BY <1>1, <2>2, ReleaseStates DEF Dying, Live
  <2>3. ASSUME NEW a \in PAs, net'[a[2]] = "DELETE" PROVE a \notin explicitly_attached'
    <3>1. CASE a[2] \in N
      BY <1>1, <3>1, PaPair, ReleaseEffect
    <3>2. CASE a[2] \notin N
      BY <1>1, <1>3, <2>3, <3>2, PaPair, ReleaseEffect DEF Dying
    <3> QED BY <3>1, <3>2
  <2>4. ASSUME NEW v \in Virts, net'[VirtNet[v]] = "DELETE" PROVE ~Live(virt'[v])
    <3>1. CASE VirtNet[v] \in N /\ virt[v] # "none"
      BY <1>1, <3>1, ReleaseStates DEF VirtsIn
    <3>2. CASE virt[v] = "none"
      BY <1>1, <3>2, ReleaseStates DEF Live
    <3>3. CASE VirtNet[v] \notin N
      <4>1. net[VirtNet[v]] = "DELETE"
        BY <1>3, <2>4, <3>3
      <4>2. virt[v] \in {"none", "DELETE"}
        BY <4>1 DEF Dying, Live
      <4> QED BY <1>1, <4>2, ReleaseStates DEF Live
    <3> QED BY <3>1, <3>2, <3>3
  <2> QED BY <2>1, <2>2, <2>3, <2>4 DEF Dying
<1>9. FreshI'
  <2>1. \A n \in Nets : net'[n] = "NEW" => net[n] = "NEW"
    BY <1>3 DEF FreeHelper
  <2>2. ASSUME NEW n \in Nets, settings'[NetSettings[n]] = "NEW" PROVE net'[n] \in {"none", "NEW"}
    <3>1. settings[NetSettings[n]] = "NEW"
      BY <1>4, <2>2 DEF FreeHelper
    <3>2. net[n] \in {"none", "NEW"}
      BY <3>1 DEF FreshI
    <3> QED BY <1>3, <3>2 DEF FreeHelper
  <2>3. ASSUME NEW a \in PAs, net'[a[2]] = "NEW" \/ phys'[a[1]] = "NEW"
        PROVE  pa'[a] \in {"none", "NEW"}
    <3>1. pa[a] \in {"none", "NEW"}
      BY <2>1, <2>3, PaPair DEF FreshI
    <3> QED BY <1>1, <3>1, ReleaseStates
  <2>4. ASSUME NEW v \in Virts, net'[VirtNet[v]] = "NEW" PROVE virt'[v] \in {"none", "NEW"}
    <3>1. virt[v] \in {"none", "NEW"}
      BY <2>1, <2>4 DEF FreshI
    <3> QED BY <1>1, <3>1, ReleaseStates
  <2> QED BY <2>2, <2>3, <2>4 DEF FreshI
<1>10. LocalsI'
  BY <1>1, ReleaseStates DEF LocalsI, Alloc
<1>11. KeepsInstalled
  BY <1>1, ReleaseStates DEF KeepsInstalled
<1> QED BY <1>1, <1>5, <1>7, <1>8, <1>9, <1>10, <1>11, ReleaseLinked, ReleasePending DEF EditKeeps

\* lsdn_net_free, with the virts and the PAs of the net.
LEMMA NetFreeKeeps ==
  ASSUME TypeOK, ObjectsI, aborted = "no", NEW n \in Nets, NetFree(n)
  PROVE  EditKeeps
<1>1. Release(VirtsIn({n}), {}, Physes \X {n})
  BY DEF NetFree
<1>2. net' = [m \in Nets |-> IF m \in {n} THEN FreeHelper(net[m]) ELSE net[m]]
  BY DEF NetFree, TypeOK, ObjTypes
<1>3. settings' = [s \in Settings |-> IF s \in {} THEN FreeHelper(settings[s]) ELSE settings[s]]
  BY DEF NetFree, TypeOK, ObjTypes
<1>4. net[n] = "NEW" => NetsEmpty({n})
  BY <1>1, NewNetsEmpty
<1>5. aborted' = "no" /\ UNCHANGED <<phys, physAttr, bookVars, life>>
  BY <1>4 DEF NetFree, CAssert
<1>6. net[n] # "none"
  BY DEF NetFree, Live
<1> QED BY <1>1, <1>2, <1>3, <1>5, <1>6, NetsFreed

\* lsdn_settings_free, with its nets.
LEMMA SettingsFreeKeeps ==
  ASSUME TypeOK, ObjectsI, aborted = "no", NEW s \in Settings, SettingsFree(s)
  PROVE  EditKeeps
<1> DEFINE users == {n \in Nets : net[n] # "none" /\ NetSettings[n] = s}
           fresh == {n \in users : net[n] = "NEW"}
<1>1. Release(VirtsIn(users), {}, Physes \X users)
  BY DEF SettingsFree
<1>2. net' = [m \in Nets |-> IF m \in users THEN FreeHelper(net[m]) ELSE net[m]]
  BY DEF SettingsFree
<1>3. settings' = [t \in Settings |-> IF t \in {s} THEN FreeHelper(settings[t]) ELSE settings[t]]
  BY DEF SettingsFree, TypeOK, ObjTypes
<1>4. settings[s] = "NEW" => users = fresh
  BY DEF ObjectsI, FreshI
<1>5. users \in SUBSET Nets /\ fresh \in SUBSET users /\ (\A n \in users : net[n] # "none")
      /\ (\A n \in fresh : net[n] = "NEW")
      /\ \A n \in Nets : NetSettings[n] \in {s} /\ net[n] # "none" => n \in users
  OBVIOUS
<1>6. settings[s] # "none"
  BY DEF SettingsFree, Live
<1>7. CAssert(NetsEmpty(fresh) /\ (settings[s] = "NEW" => users = fresh), "settings_do_free")
      /\ UNCHANGED <<phys, physAttr, bookVars, life>>
  BY DEF SettingsFree
<1> HIDE DEF users, fresh
<1>8. NetsEmpty(fresh)
  BY <1>1, <1>5, NewNetsEmpty
<1>9. aborted' = "no"
  BY <1>4, <1>7, <1>8 DEF CAssert
<1> QED BY <1>1, <1>2, <1>3, <1>5, <1>6, <1>7, <1>9, NetsFreed

\* lsdn_phys_free, with its PAs.
LEMMA PhysFreeKeeps ==
  ASSUME Careful, TypeOK, ObjectsI, aborted = "no", NEW p \in Physes, PhysFree(p)
  PROVE  EditKeeps
<1> USE NetApiAssumption DEF ObjectsI
<1> DEFINE D == VirtsThrough({p})
           A == {p} \X Nets
<1>1. Release({}, D, A) /\ UNCHANGED <<settings, net, committed_to, rpas, rvirts, policing, life>>
  BY DEF PhysFree
<1>2. phys' = [q \in Physes |-> IF q = p THEN FreeHelper(phys[q]) ELSE phys[q]]
      /\ phys[p] \notin {"none", "DELETE"}
  BY DEF PhysFree, TypeOK, ObjTypes, Live
<1>3. \A v \in D : virt[v] \notin {"none", "DELETE"}
  BY DEF PhysFree, NoDyingVirt, Careful, RuleNames, VirtsThrough
<1>4. aborted' = "no"
  BY <1>3 DEF PhysFree, CAssert, NoneDeleted
<1>5. /\ is_local' = [q \in Physes |-> is_local[q] /\ ~(q = p /\ phys[p] = "NEW")]
      /\ committed_as_local' = [q \in Physes |-> committed_as_local[q]
                                                 /\ ~(q = p /\ phys[p] = "NEW")]
  <2>1. \A q \in Physes : q \notin {r \in {p} : phys[r] = "NEW"} <=> ~(q = p /\ phys[p] = "NEW")
    OBVIOUS
  <2>2. ResetPhys({r \in {p} : phys[r] = "NEW"})
    BY DEF PhysFree
  <2> QED BY <2>1, <2>2, Zenon DEF ResetPhys
<1>6. \A v \in Virts : connected_through[v] # NULL /\ PaOf(v) \in A => v \in D
  BY DEF PaOf, VirtsThrough, Linked
<1>7. D \in SUBSET Virts /\ A \in SUBSET PAs
  BY DEF VirtsThrough, PAs
<1>8. \A a \in PAs : a \in A <=> a[1] = p
  BY PaPair DEF PAs
<1> HIDE DEF D, A
<1>9. Releasable({}, D, A)
  BY <1>3, <1>6, <1>7 DEF Releasable
<1>10. \A a \in PAs : a[1] = p => /\ ~Live(pa'[a])
                                  /\ phys[p] = "NEW" => pa'[a] = "none"
  <2> SUFFICES ASSUME NEW a \in PAs, a[1] = p
               PROVE  ~Live(pa'[a]) /\ (phys[p] = "NEW" => pa'[a] = "none")
    OBVIOUS
  <2>1. CASE pa[a] = "none"
    BY <1>1, <1>9, <2>1, ReleaseStates DEF Live
  <2>2. CASE pa[a] # "none"
    <3>1. a \in IdlePas({}, D, A)
      BY <1>6, <1>8, <1>9, <2>2, IdleHas
    <3>2. pa'[a] = FreeHelper(pa[a])
      BY <1>1, <1>9, <3>1, ReleaseEffect
    <3>3. phys[p] = "NEW" => pa[a] = "NEW"
      BY <2>2 DEF FreshI
    <3> QED BY <3>2, <3>3 DEF FreeHelper, Live
  <2> QED BY <2>1, <2>2
<1>11. StatesI'
  BY <1>1, <1>2, <1>9, ReleaseStates DEF StatesI, FreeHelper, IdleStates
<1>12. Owned'
  <2>1. ASSUME NEW a \in PAs, Alloc(pa'[a]) PROVE Alloc(phys'[a[1]])
    <3>1. Alloc(phys[a[1]])
      BY <1>1, <1>9, <2>1, ReleaseStates DEF Alloc, Owned
    <3> QED BY <1>2, <1>10, <2>1, <3>1, PaPair DEF FreeHelper, Alloc
  <2>2. ASSUME NEW a \in PAs, Alloc(pa'[a]) PROVE Alloc(net'[a[2]])
    BY <1>1, <1>9, <2>2, ReleaseStates DEF Alloc, Owned
  <2>3. ASSUME NEW v \in Virts, Alloc(virt'[v]) PROVE Alloc(net'[VirtNet[v]])
    BY <1>1, <1>9, <2>3, ReleaseStates DEF Alloc, Owned
  <2> QED BY <1>1, <2>1, <2>2, <2>3 DEF Owned
<1>13. Dying'
  <2>1. ASSUME NEW a \in PAs, phys'[a[1]] = "DELETE" PROVE ~Live(pa'[a])
    <3>1. CASE a[1] = p
      BY <1>10, <3>1
    <3>2. CASE a[1] # p
      <4>1. ~Live(pa[a])
        BY <1>2, <2>1, <3>2, PaPair DEF Dying
      <4> QED BY <1>1, <1>9, <4>1, ReleaseStates DEF Live
    <3> QED BY <3>1, <3>2
  <2>2. ASSUME NEW v \in Virts, net'[VirtNet[v]] = "DELETE" PROVE ~Live(virt'[v])
    <3>1. virt[v] \in {"none", "DELETE"}
      BY <1>1, <2>2 DEF Dying, Live
    <3> QED BY <1>1, <1>9, <3>1, ReleaseStates DEF Live
  <2>3. ASSUME NEW a \in PAs, net'[a[2]] = "DELETE" PROVE a \notin explicitly_attached'
    BY <1>1, <1>9, <2>3, ReleaseEffect DEF Dying
  <2> QED BY <1>1, <2>1, <2>2, <2>3 DEF Dying
<1>14. FreshI'
  <2>1. ASSUME NEW a \in PAs, net'[a[2]] = "NEW" \/ phys'[a[1]] = "NEW"
        PROVE  pa'[a] \in {"none", "NEW"}
    <3>1. pa[a] \in {"none", "NEW"}
      BY <1>1, <1>2, <2>1, PaPair DEF FreshI, FreeHelper
    <3> QED BY <1>1, <1>9, <3>1, ReleaseStates
  <2>2. ASSUME NEW v \in Virts, net'[VirtNet[v]] = "NEW" PROVE virt'[v] \in {"none", "NEW"}
    <3>1. virt[v] \in {"none", "NEW"}
      BY <1>1, <2>2 DEF FreshI
    <3> QED BY <1>1, <1>9, <3>1, ReleaseStates
  <2> QED BY <1>1, <2>1, <2>2 DEF FreshI
<1>15. LocalsI'
  <2>1. \A q \in Physes : /\ is_local'[q] <=> is_local[q] /\ ~(q = p /\ phys[p] = "NEW")
                          /\ committed_as_local'[q] <=> committed_as_local[q]
                               /\ ~(q = p /\ phys[p] = "NEW")
    BY <1>5
  <2>2. \A a \in PAs : Live(pa'[a]) => Live(pa[a])
    BY <1>1, <1>9, ReleaseStates DEF Live
  <2>3. \A q \in Physes : /\ q # p => phys'[q] = phys[q]
                          /\ q = p => phys'[q] = FreeHelper(phys[p])
    BY <1>2
  <2>4. \A a, b \in PAs : a[2] = b[2] /\ Live(pa'[a]) /\ Live(pa'[b])
                       /\ is_local'[a[1]] /\ is_local'[b[1]] => a = b
    BY <2>1, <2>2, PaPair DEF LocalsI
  <2>5. \A q \in Physes : is_local'[q] => Alloc(phys'[q])
    BY <2>1, <2>3 DEF LocalsI, Alloc, FreeHelper
  <2>6. \A q \in Physes : is_local'[q] /\ ~committed_as_local'[q] => phys'[q] # "OK"
    BY <2>1, <2>3 DEF LocalsI, FreeHelper
  <2> QED BY <2>1, <2>4, <2>5, <2>6 DEF LocalsI
<1>16. KeepsInstalled
  <2>1. ASSUME NEW a \in PAs, pa[a] \in Installed
        PROVE  committed_as_local'[a[1]] = committed_as_local[a[1]]
    <3>1. ~(a[1] = p /\ phys[p] = "NEW")
      BY <2>1 DEF FreshI, Installed
    <3>2. committed_as_local[a[1]] \in BOOLEAN /\ a[1] \in Physes
      BY PaPair DEF TypeOK, BookTypes
    <3> QED BY <1>5, <3>1, <3>2, Zenon
  <2> QED BY <1>1, <1>9, <2>1, ReleaseStates DEF KeepsInstalled
<1> QED BY <1>1, <1>4, <1>9, <1>11, <1>12, <1>13, <1>14, <1>15, <1>16, ReleaseLinked,
           ReleasePending DEF EditKeeps

\* lsdn_context_cleanup leaves nothing live.
LEMMA CleanupKeeps ==
  ASSUME Careful, TypeOK, ObjectsI, aborted = "no", ContextCleanup
  PROVE  EditKeeps
<1> USE NetApiAssumption DEF ObjectsI
<1>1. /\ \A v \in Virts : virt'[v] = IF virt[v] = "none" THEN "none" ELSE FreeHelper(virt[v])
      /\ \A v \in Virts : connected_through'[v] = NULL
      /\ explicitly_attached' = {}
      /\ \A a \in PAs : pa'[a] = IF pa[a] = "none" THEN "none" ELSE FreeHelper(pa[a])
      /\ \A n \in Nets : net'[n] = IF net[n] = "none" THEN "none" ELSE FreeHelper(net[n])
      /\ \A s \in Settings : settings'[s] = IF settings[s] = "none" THEN "none"
           ELSE FreeHelper(settings[s])
      /\ \A p \in Physes : phys'[p] = IF phys[p] = "none" THEN "none" ELSE FreeHelper(phys[p])
      /\ UNCHANGED <<committed_to, rpas, rvirts, policing>>
      /\ pending_free' = {v \in Virts : virt[v] \notin {"none", "NEW"}}
                     \cup {a \in PAs : pa[a] \notin {"none", "NEW"}}
  BY DEF ContextCleanup
<1>2. \A p \in Physes : /\ is_local'[p] <=> is_local[p] /\ phys[p] # "NEW"
                        /\ committed_as_local'[p] <=> committed_as_local[p] /\ phys[p] # "NEW"
  BY DEF ContextCleanup, ResetPhys
<1>3. aborted' = "no"
  <2>1. NoneDeleted(VirtsThrough(Physes))
    BY DEF ContextCleanup, NoDyingVirt, Careful, RuleNames, VirtsThrough, NoneDeleted
  <2>2. NetsEmpty({n \in {m \in Nets : net[m] # "none"} : net[n] = "NEW"})
    <3> SUFFICES ASSUME NEW n \in Nets, net[n] = "NEW"
                 PROVE  /\ \A v \in Virts : VirtNet[v] = n => virt'[v] = "none"
                        /\ \A p \in Physes : pa'[<<p, n>>] = "none"
      BY DEF NetsEmpty
    <3>1. \A p \in Physes : <<p, n>> \in PAs /\ pa[<<p, n>>] \in {"none", "NEW"}
      BY DEF FreshI, PAs
    <3> QED BY <1>1, <3>1 DEF FreshI, FreeHelper
  <2> QED BY <2>1, <2>2 DEF ContextCleanup, CAssert
<1>4. StatesI'
  BY <1>1 DEF StatesI, FreeHelper, IdleStates
<1>5. Owned'
  BY <1>1, PaPair DEF Owned, Alloc, FreeHelper, FreshI
<1>6. Dying'
  BY <1>1, PaPair DEF Dying, Live, FreeHelper
<1>7. FreshI'
  BY <1>1, PaPair DEF FreshI, FreeHelper
<1>8. Linked'
  BY <1>1 DEF Linked, Live, FreeHelper
<1>9. Pending'
  <2>1. \A v \in Virts : v \notin PAs
    BY DEF PAs
  <2> QED BY <1>1, <2>1 DEF Pending, FreeHelper
<1>10. LocalsI'
  <2>1. \A a \in PAs : ~Live(pa'[a])
    BY <1>1 DEF Live, FreeHelper
  <2> QED BY <1>1, <1>2, <2>1 DEF LocalsI, Alloc, FreeHelper
<1>11. KeepsInstalled
  <2>1. ASSUME NEW a \in PAs, pa[a] \in Installed
        PROVE  committed_as_local'[a[1]] = committed_as_local[a[1]]
    <3>1. phys[a[1]] # "NEW"
      BY <2>1 DEF FreshI, Installed
    <3>2. committed_as_local[a[1]] \in BOOLEAN /\ a[1] \in Physes
      BY PaPair DEF TypeOK, BookTypes
    <3>3. committed_as_local' = [p \in Physes |-> committed_as_local[p]
                                                  /\ p \notin {q \in Physes : phys[q] = "NEW"}]
      BY DEF ContextCleanup, ResetPhys
    <3>4. a[1] \notin {q \in Physes : phys[q] = "NEW"}
      BY <3>1
    <3> QED BY <3>2, <3>3, <3>4, Zenon
  <2>2. \A v \in Virts : /\ virt'[v] \in Installed <=> virt[v] \in Installed
                         /\ virt'[v] # "OK"
    BY <1>1 DEF FreeHelper, Installed, StatesI, IdleStates
  <2>3. \A a \in PAs : pa'[a] \in Installed <=> pa[a] \in Installed
    BY <1>1 DEF FreeHelper, Installed, StatesI, IdleStates
  <2> QED BY <2>1, <2>2, <2>3 DEF KeepsInstalled
<1> QED BY <1>1, <1>3, <1>4, <1>5, <1>6, <1>7, <1>8, <1>9, <1>10, <1>11 DEF EditKeeps

(***************************************************************************)
(* Every call of the client keeps the invariant.                           *)
(***************************************************************************)

\* Every edit of a careful client keeps the invariant.
LEMMA EditStep ==
  ASSUME Careful, IInv, Client, TypeOK'
  PROVE  IInv'
<1>1. TypeOK /\ ObjectsI /\ aborted = "no" /\ pc = "idle" /\ UNCHANGED commitVars /\ Edit
  BY NotRecommit DEF IInv, Client, Recommit
<1>2. EditKeeps
  BY <1>1, NewKeeps, PhysAttrKeeps, VirtAttrKeeps, AttachKeeps, ConnectKeeps, DisconnectKeeps,
     VirtFreeKeeps, DetachKeeps, NetFreeKeeps, SettingsFreeKeeps, PhysFreeKeeps, CleanupKeeps
     DEF Edit, VirtSetMac, VirtSetRate
<1> QED BY <1>1, <1>2, EditInv

\* The initial states satisfy the invariant.
LEMMA InitInv == Init => IInv
<1> SUFFICES ASSUME Init PROVE IInv
  OBVIOUS
<1>1. TypeOK /\ ~Recommit
  BY InitTypes DEF Init, CommitInit, Recommit
<1>2. ObjectsI
  BY DEF Init, ApiInit, ObjectsI, StatesI, IdleStates, Owned, Dying, FreshI, Linked, Pending,
     LocalsI,
     Alloc, Live
<1>3. Loops
  BY DEF Init, CommitInit, Loops, Idle, Propagated, Decommitting, Walking, InVirts, InRemotes,
     InRvirts,
     Recommit
<1>4. Books
  <2> USE DEF Init, ApiInit, CommitInit
  <2>1. \A kind : Keys(kind) = {}
    BY DEF Keys
  <2>2. PaSet /\ VirtSet
    BY <2>1, PaPair DEF PaSet, VirtSet, HasPa
  <2>3. RateSet /\ RpaSet /\ RvirtSet /\ VirtFacts
    BY DEF RateSet, RpaSet, RvirtSet, VirtFacts
  <2>4. ErrSet
    BY <1>1 DEF ErrSet
  <2>5. BooksMatchKernel
    BY <2>1 DEF BooksMatchKernel
  <2> QED BY <2>2, <2>3, <2>4, <2>5 DEF Books
<1> QED BY <1>1, <1>2, <1>3, <1>4, NotRecommit DEF IInv, Init, ApiInit

\* What lsdn_validate does to the states.
LEMMA ValidationKeeps ==
  ASSUME TypeOK, ObjectsI, aborted = "no", Validation
  PROVE  EditKeeps
<1> USE NetApiAssumption DEF ObjectsI, Validation, userVars, physAttr, virtAttr, linkVars,
    bookVars
<1>1. \A a \in PAs : pa'[a] = pa[a] \/ (pa[a] = "OK" /\ pa'[a] = "RENEW")
  BY DEF PropagatedPa, Propagate
<1>2. \A v \in Virts : virt'[v] = virt[v] \/ (virt[v] = "OK" /\ virt'[v] = "RENEW")
  BY DEF PropagatedVirt, Propagate
<1>3. \A v \in Virts : PaOf(v)' = PaOf(v)
  BY DEF PaOf
<1>4. StatesI' /\ Owned' /\ Dying'
  BY <1>1, <1>2 DEF StatesI, Owned, Dying, Alloc, Live, IdleStates
<1>5. FreshI'
  BY <1>1, <1>2 DEF FreshI
<1>6. Linked'
  BY <1>1, <1>2, <1>3, PaOfTyped, SMTT(30) DEF Linked, Live, TypeOK, UserTypes
<1>7. Pending' /\ LocalsI'
  BY <1>1, <1>2 DEF Pending, LocalsI, Live
<1>8. KeepsInstalled
  BY <1>1, <1>2 DEF KeepsInstalled, Installed
<1> QED BY <1>4, <1>5, <1>6, <1>7, <1>8 DEF EditKeeps

\* lsdn_commit goes into its decommit phase.
LEMMA BeginLoops ==
  ASSUME TypeOK, ObjectsI, pc = "idle", Loops, Validation, pc' = "decommit",
         left' = {n \in Nets : net[n] # "none"}
  PROVE  Loops'
<1> USE NetApiAssumption DEF Validation
<1>1. /\ pas = {} /\ todo = {} /\ cv = NULL /\ dv = NULL /\ dp = NULL /\ cur = NULL
      /\ NULL \notin PAs
      /\ UNCHANGED <<pas, todo, cv, dv, dp, cur>>
  BY DEF Loops, Idle, TypeOK, LoopTypes, PAs
<1>2. Propagated'
  <2>1. \A a \in PAs : phys'[a[1]] = "RENEW" => pa'[a] # "OK"
    BY DEF PropagatedPa, Propagate
  <2>2. ASSUME NEW v \in Virts, connected_through'[v] # NULL, pa'[PaOf(v)'] = "RENEW"
        PROVE  virt'[v] # "OK"
    <3>1. PaOf(v)' = PaOf(v) /\ connected_through'[v] = connected_through[v]
      BY DEF PaOf, userVars, linkVars
    <3>2. virt[v] # "none"
      BY <2>2, <3>1 DEF ObjectsI, Linked
    <3> QED BY <2>2, <3>1, <3>2 DEF PropagatedVirt, Propagate
  <2>3. \A v \in Virts : connected_through'[v] # NULL => PaOf(v)' # NULL
    BY DEF PaOf, userVars, linkVars, TypeOK, UserTypes, PAs, OrNull
  <2> QED BY <1>1, <2>1, <2>2, <2>3 DEF Propagated
<1>3. Decommitting'
  <2>1. \A a \in PAs : NeedsDecommit(pa'[a]) => a[2] \in left'
    <3> SUFFICES ASSUME NEW a \in PAs, NeedsDecommit(pa'[a]) PROVE net[a[2]] # "none"
      BY PaPair
    <3>1. pa[a] # "none"
      BY DEF PropagatedPa, Propagate, NeedsDecommit
    <3> QED BY <3>1 DEF ObjectsI, Owned, Alloc
  <2>2. \A v \in Virts : NeedsDecommit(virt'[v]) => VirtNet[v] \in left'
    <3> SUFFICES ASSUME NEW v \in Virts, NeedsDecommit(virt'[v]) PROVE net[VirtNet[v]] # "none"
      OBVIOUS
    <3>1. virt[v] # "none"
      BY DEF PropagatedVirt, Propagate, NeedsDecommit
    <3> QED BY <3>1 DEF ObjectsI, Owned, Alloc
  <2> QED BY <1>1, <2>1, <2>2 DEF Decommitting
<1> QED BY <1>2, <1>3 DEF Loops, Idle, Walking, InVirts, InRemotes, InRvirts, Recommit

\* Every call of lsdn_validate does, and the beginning of every commit.
LEMMA CallStep ==
  ASSUME IInv, Call, TypeOK'
  PROVE  IInv'
<1>1. Validation /\ pc = "idle" /\ TypeOK /\ aborted = "no" /\ ~Recommit
  BY DEF Call, ValidateFails, ValidatePasses, CommitNoSocket, CommitBegin, Calling, IInv, Recommit
<1>2. ObjectsI
  BY <1>1, NotRecommit DEF IInv
<1>3. EditKeeps
  BY <1>1, <1>2, ValidationKeeps
<1>4. \/ UNCHANGED <<pc, left>>
      \/ pc' = "decommit" /\ left' = {n \in Nets : net[n] # "none"}
  BY DEF Call, ValidateFails, ValidatePasses, CommitNoSocket, CommitBegin
<1>5. pc' \in {"idle", "decommit"} /\ ~Recommit'
  BY <1>1, <1>4 DEF Recommit
<1>6. Objects'
  BY <1>3, <1>5, NotRecommit DEF EditKeeps
<1>7. Books'
  BY <1>1, <1>3, <1>5, EditBooks DEF IInv, EditKeeps, Validation
<1>8. Loops'
  BY <1>1, <1>2, <1>4, EditLoops, BeginLoops DEF IInv, Validation, loopVars
<1> QED BY <1>3, <1>6, <1>7, <1>8 DEF IInv, EditKeeps
=============================================================================
