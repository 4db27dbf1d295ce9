---------------------------- MODULE CommitProofs ----------------------------
(***************************************************************************)
(* The invariant of NetmodelInv is kept by every step of lsdn_commit, and  *)
(* what follows from it.                                                   *)
(***************************************************************************)
EXTENDS NetmodelProofs

(***************************************************************************)
(* Helpers.                                                                *)
(***************************************************************************)

\* Neither a PA nor a virt is NULL.
LEMMA NotNull == NULL \notin PAs /\ NULL \notin Virts /\ NULL \notin Nets /\ NULL \notin Physes
BY NetApiAssumption DEF PAs

\* An operation that adds has cleaned up or succeeded, one that removes has
\* succeeded.
LEMMA CleanResults ==
  ASSUME Clean
  PROVE  /\ RemoveResults = {"OK"} /\ AddResults \subseteq {"OK", "NETLINK", "NOMEM"}
         /\ ~RemoteByIp /\ ~MayFail("MALLOC") /\ ~MayFail("CLEANUP")
BY DEF Clean, RemoveResults, AddResults, MayFail

\* The keys after a removal.
LEMMA KeysWithout ==
  ASSUME NEW kind, NEW key, kernel' = Without(kind, key)
  PROVE  /\ Keys(kind)' = Keys(kind) \ {key}
         /\ \A k : k # kind => Keys(k)' = Keys(k)
<1>1. \A k, x : x \in Keys(k)' <=> x \in Keys(k) /\ ~(k = kind /\ x = key)
  BY DEF Keys, Without
<1>2. Keys(kind)' = Keys(kind) \ {key}
  BY <1>1
<1>3. ASSUME NEW k, k # kind PROVE Keys(k)' = Keys(k)
  BY <1>1, <1>3
<1> QED BY <1>2, <1>3

\* The keys after an addition.
LEMMA KeysAdded ==
  ASSUME NEW f, kernel' = kernel \cup {f}
  PROVE  /\ Keys(f[1])' = Keys(f[1]) \cup {f[2]}
         /\ \A k : k # f[1] => Keys(k)' = Keys(k)
<1>1. \A k, x : x \in Keys(k)' <=> x \in Keys(k) \/ (k = f[1] /\ x = f[2])
  BY DEF Keys
<1>2. Keys(f[1])' = Keys(f[1]) \cup {f[2]}
  BY <1>1
<1>3. ASSUME NEW k, k # f[1] PROVE Keys(k)' = Keys(k)
  BY <1>1, <1>3
<1> QED BY <1>2, <1>3

\* The keys when nothing is installed or removed.
LEMMA KeysSame ==
  ASSUME UNCHANGED kernel
  PROVE  \A k : Keys(k)' = Keys(k)
BY DEF Keys

\* A state that no failure marks.
LEMMA NoMark == \A s, fatal : MarkCommitErr(s, fatal, "OK") = s
BY DEF MarkCommitErr

\* What the objects and the user's wishes are made of.
objectVars == <<settings, net, phys, pa, virt, explicitly_attached, connected_through,
                is_local, committed_as_local, pending_free>>

\* The objects stay right while nothing about them changes.
LEMMA ObjectsFrame ==
  ASSUME Objects, UNCHANGED objectVars, UNCHANGED <<pc, left>>
  PROVE  Objects'
<1> USE DEF objectVars
<1>0. (Recommit' <=> Recommit) /\ Settled' = Settled /\ Tried' = Tried
  BY DEF Recommit, Settled, Tried
<1>1. States'
  BY <1>0 DEF Objects, States
<1>2. Owned' /\ Dying'
  BY DEF Objects, Owned, Dying
<1>3. Fresh'
  BY <1>0 DEF Objects, Fresh
<1>4. Linked' /\ Pending'
  BY DEF Objects, Linked, Pending, PaOf
<1>5. Locals'
  BY <1>0 DEF Objects, Locals
<1> QED BY <1>1, <1>2, <1>3, <1>4, <1>5 DEF Objects

\* The loops stand still while decommit_virt and decommit_pa remove things.
LEMMA LoopsFrame ==
  ASSUME Loops, UNCHANGED objectVars, UNCHANGED <<pc, loopVars, dv, dp, committed_to>>,
         policing' \subseteq policing,
         pc = "rvirts" => UNCHANGED rpas
  PROVE  Loops'
<1> USE DEF objectVars, loopVars
<1>0. Recommit' <=> Recommit
  BY DEF Recommit
<1>1. Idle'
  BY DEF Loops, Idle
<1>2. Propagated'
  BY DEF Loops, Propagated, PaOf
<1>3. Decommitting'
  BY DEF Loops, Decommitting, VirtsDone
<1>4. Walking'
  BY <1>0 DEF Loops, Walking
<1>5. InVirts'
  BY DEF Loops, InVirts, PaOf, PolicingOf
<1>6. InRemotes' /\ InRvirts'
  BY DEF Loops, InRemotes, InRvirts
<1> QED BY <1>1, <1>2, <1>3, <1>4, <1>5, <1>6 DEF Loops

\* So does what is made and how far commit_pa has come.
LEMMA PastFrame ==
  ASSUME UNCHANGED objectVars, UNCHANGED <<pc, loopVars, dv, dp>>
  PROVE  /\ Recommit' <=> Recommit
         /\ \A a : HasPa(a)' <=> HasPa(a)
         /\ \A a, v : PastVirt(a, v)' <=> PastVirt(a, v)
         /\ \A a, q : PastRemote(a, q)' <=> PastRemote(a, q)
         /\ \A a, v : PastRemoteVirt(a, v)' <=> PastRemoteVirt(a, v)
BY DEF objectVars, loopVars, Recommit, HasPa, Made, Visited, PastVirt, PastRemote, PastRemoteVirt

\* ErrSet says nothing of what is installed.
LEMMA ErrFrame ==
  ASSUME ErrSet, UNCHANGED objectVars, UNCHANGED <<pc, loopVars, dv, dp>>
  PROVE  ErrSet'
<1>1. /\ Recommit' <=> Recommit
      /\ \A a, q : PastRemote(a, q)' <=> PastRemote(a, q)
      /\ \A a, v : PastRemoteVirt(a, v)' <=> PastRemoteVirt(a, v)
  BY PastFrame
<1> QED BY <1>1 DEF ErrSet, objectVars

\* The links hold on to what is live.
LEMMA LinkedFrame ==
  ASSUME TypeOK, Linked, UNCHANGED <<explicitly_attached, connected_through>>,
         \A a \in PAs : Live(pa'[a]) <=> Live(pa[a]),
         \A v \in Virts : /\ virt'[v] = "none" <=> virt[v] = "none"
                          /\ virt'[v] = "DELETE" <=> virt[v] = "DELETE"
  PROVE  Linked'
<1>1. \A v \in Virts : PaOf(v)' = PaOf(v)
  BY DEF PaOf
<1>2. \A v \in Virts : connected_through[v] # NULL => PaOf(v) \in PAs
  BY PaOfTyped
<1>3. explicitly_attached \subseteq PAs
  BY DEF TypeOK, UserTypes
<1> QED BY <1>1, <1>2, <1>3 DEF Linked

(***************************************************************************)
(* decommit_virt and decommit_pa remove things, one by one.                *)
(***************************************************************************)

\* Where they stand when a removal is over and nothing but the lists and the
\* kernel has changed.
LEMMA Removal ==
  ASSUME IInv, TypeOK', UNCHANGED objectVars,
         UNCHANGED <<committed_to, pc, loopVars, dv, dp, aborted>>,
         kernel' \subseteq kernel, Keys("pa")' = Keys("pa"), BooksMatchKernel',
         rpas' \subseteq rpas, rvirts' \subseteq rvirts, policing' \subseteq policing,
         \A rv \in rvirts' : <<rv[1], rv[2], VirtNet[rv[3]]>> \in rpas',
         pc = "rvirts" => UNCHANGED rpas
  PROVE  IInv'
<1> USE DEF IInv
<1>1. Objects' /\ Loops'
  BY ObjectsFrame, LoopsFrame DEF loopVars
<1>2. /\ Recommit' <=> Recommit
      /\ \A a : HasPa(a)' <=> HasPa(a)
      /\ \A a, v : PastVirt(a, v)' <=> PastVirt(a, v)
      /\ \A a, q : PastRemote(a, q)' <=> PastRemote(a, q)
      /\ \A a, v : PastRemoteVirt(a, v)' <=> PastRemoteVirt(a, v)
  BY PastFrame
<1>3. PaSet'
  BY <1>2 DEF Books, PaSet
<1>4. VirtSet'
  BY <1>2 DEF Books, VirtSet, PaOf, objectVars
<1>5. RateSet' /\ VirtFacts'
  BY DEF Books, RateSet, VirtFacts
<1>6. RpaSet'
  BY <1>2 DEF Books, RpaSet, objectVars
<1>7. RvirtSet'
  BY <1>2 DEF Books, RvirtSet, objectVars
<1>8. ErrSet'
  BY ErrFrame DEF Books
<1> QED BY <1>1, <1>3, <1>4, <1>5, <1>6, <1>7, <1>8 DEF Books

\* RemoveRates: the policing rules of a virt.
LEMMA RemoveRatesStep ==
  ASSUME Clean, IInv, RemoveRates, TypeOK'
  PROVE  IInv'
<1> USE DEF IInv
<1> DEFINE P == PolicingOf(dv)
           rules == {f \in kernel : f[1] = "rate" /\ f[2] \in P}
<1>1. dv \in Virts
  BY DEF RemoveRates, TypeOK, LoopTypes, OrNull
<1>2. kernel' = kernel \ rules /\ virt' = virt
  <2>1. \E err \in RemoveResults, K \in SUBSET rules :
          /\ err = "OK" => K = {}
          /\ kernel' = (kernel \ rules) \cup K
          /\ virt' = [virt EXCEPT ![dv] = MarkCommitErr(@, TRUE, err)]
    BY DEF RemoveRates
  <2> HIDE DEF rules
  <2>2. kernel' = kernel \ rules /\ virt' = [virt EXCEPT ![dv] = MarkCommitErr(@, TRUE, "OK")]
    BY <2>1, CleanResults
  <2> QED BY <1>1, <2>2, NoMark DEF TypeOK, ObjTypes
<1>3. policing' = policing \ P
      /\ UNCHANGED <<committed_to, rpas, rvirts, pc, loopVars, dv, dp, aborted>>
      /\ UNCHANGED objectVars
  BY <1>2 DEF RemoveRates, objectVars, userVars, physAttr, linkVars, ctxVars
<1>4. \A k, x : x \in Keys(k)' <=> x \in Keys(k) /\ ~(k = "rate" /\ x \in P)
  BY <1>2 DEF Keys
<1> HIDE DEF P
<1>5. \A k : k # "rate" => Keys(k)' = Keys(k)
  BY <1>4
<1>6. Keys("rate")' = Keys("rate") \ P
  BY <1>4
<1>7. BooksMatchKernel'
  BY <1>3, <1>5, <1>6 DEF Books, BooksMatchKernel
<1>8. \A rv \in rvirts : <<rv[1], rv[2], VirtNet[rv[3]]>> \in rpas
  BY DEF Books, RvirtSet
<1> QED BY <1>2, <1>3, <1>5, <1>7, <1>8, Removal

\* RemoveRemoteVirt: a remote virt of dv, or of a remote PA of dp.
LEMMA RemoveRemoteVirtStep ==
  ASSUME Clean, IInv, NEW rv \in rvirts, RemoveRemoteVirt(rv), TypeOK'
  PROVE  IInv'
<1> USE DEF IInv
<1>1. rv[3] \in Virts
  BY DEF TypeOK, BookTypes
<1>2. kernel' = Without("rvirt", rv) /\ virt' = virt
  <2>1. kernel' = Without("rvirt", rv)
        /\ virt' = [virt EXCEPT ![rv[3]] = MarkCommitErr(@, TRUE, "OK")]
    BY CleanResults DEF RemoveRemoteVirt, Removed
  <2> QED BY <1>1, <2>1, NoMark DEF TypeOK, ObjTypes
<1>3. rvirts' = rvirts \ {rv}
      /\ UNCHANGED <<committed_to, rpas, policing, pc, loopVars, dv, dp, aborted>>
      /\ UNCHANGED objectVars
  BY <1>2 DEF RemoveRemoteVirt, objectVars, userVars, physAttr, linkVars, ctxVars
<1>5. \A k : k # "rvirt" => Keys(k)' = Keys(k)
  BY <1>2, KeysWithout
<1>6. Keys("rvirt")' = Keys("rvirt") \ {rv}
  BY <1>2, KeysWithout
<1>7. BooksMatchKernel'
  BY <1>3, <1>5, <1>6 DEF Books, BooksMatchKernel
<1>8. \A x \in rvirts' : <<x[1], x[2], VirtNet[x[3]]>> \in rpas'
  BY <1>3 DEF Books, RvirtSet
<1>9. kernel' \subseteq kernel
  BY <1>2 DEF Without
<1> QED BY <1>3, <1>5, <1>7, <1>8, <1>9, Removal

\* RemoveRemotePa: a remote PA that has no remote virts any more.
LEMMA RemoveRemotePaStep ==
  ASSUME Clean, IInv, NEW r \in rpas, RemoveRemotePa(r), TypeOK'
  PROVE  IInv'
<1> USE DEF IInv
<1>1. <<r[2], r[3]>> \in PAs /\ dp # NULL
  BY DEF TypeOK, BookTypes, PAs, RemoveRemotePa
<1>2. kernel' = Without("rpa", r) /\ pa' = pa
  <2>1. RpaRemoval(r) = {"OK"}
    BY CleanResults DEF RpaRemoval
  <2>2. kernel' = Without("rpa", r)
        /\ pa' = [pa EXCEPT ![<<r[2], r[3]>>] = MarkCommitErr(@, TRUE, "OK")]
    BY <2>1 DEF RemoveRemotePa, Removed
  <2> QED BY <1>1, <2>2, NoMark DEF TypeOK, ObjTypes
<1>3. rpas' = rpas \ {r} /\ UNCHANGED <<committed_to, rvirts, policing, pc, loopVars, dv, dp>>
      /\ UNCHANGED objectVars /\ aborted' = aborted
  BY <1>2, CleanResults DEF RemoveRemotePa, objectVars, userVars, physAttr, linkVars, CAssert
<1>5. \A k : k # "rpa" => Keys(k)' = Keys(k)
  BY <1>2, KeysWithout
<1>6. Keys("rpa")' = Keys("rpa") \ {r}
  BY <1>2, KeysWithout
<1>7. BooksMatchKernel'
  BY <1>3, <1>5, <1>6 DEF Books, BooksMatchKernel
<1>8. \A x \in rvirts' : <<x[1], x[2], VirtNet[x[3]]>> \in rpas'
  <2> SUFFICES ASSUME NEW x \in rvirts PROVE <<x[1], x[2], VirtNet[x[3]]>> \in rpas \ {r}
    BY <1>3
  <2>1. <<x[1], x[2], VirtNet[x[3]]>> \in rpas
    BY DEF Books, RvirtSet
  <2>2. RvirtsOf(r) = {}
    BY DEF RemoveRemotePa
  <2>3. <<x[1], x[2], VirtNet[x[3]]>> # r
    BY <2>2 DEF RvirtsOf
  <2> QED BY <2>1, <2>3
<1>9. kernel' \subseteq kernel
  BY <1>2 DEF Without
<1>10. pc # "rvirts"
  BY <1>1 DEF Loops, InRvirts
<1> QED BY <1>3, <1>5, <1>7, <1>8, <1>9, <1>10, Removal

(***************************************************************************)
(* The books in the decommit phase, when commit_pa has come nowhere.       *)
(***************************************************************************)

HasPaD(a) == committed_as_local[a[1]] /\ (pa[a] \in Installed \/ (pa[a] = "NEW" /\ dp = a))

PaSetD == \A a \in PAs : a \in Keys("pa") <=> HasPaD(a)

VirtSetD ==
  \A v \in Virts : committed_to[v] # NULL =>
    /\ virt[v] \in Installed \/ dv = v
    /\ virt[v] \in {"NEW", "OK"} /\ dv # v => connected_through[v] = committed_to[v]
    /\ HasPaD(<<committed_to[v], VirtNet[v]>>)

RpaSetD ==
  \A r \in rpas :
    /\ r[1] # r[2] /\ HasPaD(<<r[1], r[3]>>)
    /\ \A p \in {r[1], r[2]} : pa[<<p, r[3]>>] \in Installed \/ dp = <<p, r[3]>>

RvirtSetD ==
  \A rv \in rvirts :
    /\ <<rv[1], rv[2], VirtNet[rv[3]]>> \in rpas
    /\ virt[rv[3]] \in Installed \/ dv = rv[3]
    /\ virt[rv[3]] \in {"NEW", "OK"} /\ dv # rv[3] => connected_through[rv[3]] = rv[2]

BooksD == PaSetD /\ VirtSetD /\ RateSet /\ RpaSetD /\ RvirtSetD /\ VirtFacts /\ BooksMatchKernel

LoopsD == Propagated /\ Decommitting

\* In that phase Books is BooksD, now and after the step.
LEMMA InDecommit ==
  /\ pc = "decommit" => (Books <=> BooksD) /\ (Objects <=> ObjectsI) /\ (Loops <=> LoopsD)
  /\ pc' = "decommit" => (Books' <=> BooksD') /\ (Objects' <=> ObjectsI') /\ (Loops' <=> LoopsD')
<1>1. ASSUME pc = "decommit"
      PROVE  (Books <=> BooksD) /\ (Objects <=> ObjectsI) /\ (Loops <=> LoopsD)
  <2>1. ~Recommit
    BY <1>1 DEF Recommit
  <2>2. \A a : HasPa(a) <=> HasPaD(a)
    BY <1>1, <2>1 DEF HasPa, HasPaD, Made, Visited
  <2>3. PaSet <=> PaSetD
    BY <2>2 DEF PaSet, PaSetD
  <2>4. VirtSet <=> VirtSetD
    BY <1>1, <2>1, <2>2 DEF VirtSet, VirtSetD, PastVirt, Visited
  <2>5. RpaSet <=> RpaSetD
    BY <1>1, <2>1, <2>2 DEF RpaSet, RpaSetD, PastRemote, Visited
  <2>6. RvirtSet <=> RvirtSetD
    BY <2>1 DEF RvirtSet, RvirtSetD, PastRemoteVirt, Visited
  <2>7. ErrSet
    BY <2>1 DEF ErrSet
  <2>8. Loops <=> LoopsD
    BY <1>1, <2>1 DEF Loops, LoopsD, Idle, Walking, InVirts, InRemotes, InRvirts
  <2> QED BY <2>1, <2>3, <2>4, <2>5, <2>6, <2>7, <2>8, NotRecommit DEF Books, BooksD
<1>2. ASSUME pc' = "decommit"
      PROVE  (Books' <=> BooksD') /\ (Objects' <=> ObjectsI') /\ (Loops' <=> LoopsD')
  <2>1. ~Recommit'
    BY <1>2 DEF Recommit
  <2>2. \A a : HasPa(a)' <=> HasPaD(a)'
    BY <1>2, <2>1 DEF HasPa, HasPaD, Made, Visited
  <2>3. PaSet' <=> PaSetD'
    BY <2>2 DEF PaSet, PaSetD
  <2>4. VirtSet' <=> VirtSetD'
    <3>1. \A a, v : ~PastVirt(a, v)'
      BY <2>1 DEF PastVirt, Visited
    <3>2. \A v \in Virts : HasPa(<<committed_to[v], VirtNet[v]>>)'
            <=> HasPaD(<<committed_to[v], VirtNet[v]>>)'
      BY <1>2, <2>1 DEF HasPa, HasPaD, Made, Visited
    <3> QED BY <1>2, <3>1, <3>2 DEF VirtSet, VirtSetD
  <2>5. RpaSet' <=> RpaSetD'
    BY <1>2, <2>1, <2>2 DEF RpaSet, RpaSetD, PastRemote, Visited
  <2>6. RvirtSet' <=> RvirtSetD'
    BY <2>1 DEF RvirtSet, RvirtSetD, PastRemoteVirt, Visited
  <2>7. ErrSet'
    BY <2>1 DEF ErrSet
  <2>8. Loops' <=> LoopsD'
    BY <1>2, <2>1 DEF Loops, LoopsD, Idle, Walking, InVirts, InRemotes, InRvirts
  <2> QED BY <2>1, <2>3, <2>4, <2>5, <2>6, <2>7, <2>8, NotRecommit DEF Books, BooksD
<1> QED BY <1>1, <1>2

\* The invariant in the decommit phase.
DInv == TypeOK /\ aborted = "no" /\ ObjectsI /\ LoopsD /\ BooksD

\* In the decommit phase IInv is DInv, now and after the step.
LEMMA DInvSuffices ==
  /\ pc = "decommit" => (IInv <=> DInv)
  /\ pc' = "decommit" => (IInv' <=> DInv')
BY InDecommit DEF IInv, DInv

(***************************************************************************)
(* The steps of the decommit phase.                                        *)
(***************************************************************************)

\* DecommitVirt: a virt that was renewed is NEW from here on.
LEMMA DecommitVirtStep ==
  ASSUME IInv, NEW v \in Virts, DecommitVirt(v), TypeOK'
  PROVE  IInv'
<1> USE NetApiAssumption DEF DInv
<1>1. pc = "decommit" /\ pc' = "decommit" /\ DInv /\ dv = NULL /\ dp = NULL /\ dv' = v
      /\ dp' = NULL
  BY DInvSuffices DEF DecommitVirt, Running
<1>2. /\ virt[v] \in {"DELETE", "RENEW"} /\ VirtNet[v] = cur
      /\ virt'[v] = AckDecommit(virt[v]) /\ \A w \in Virts \ {v} : virt'[w] = virt[w]
  BY DEF DecommitVirt, NeedsDecommit, TypeOK, ObjTypes, IInv
<1>3. /\ UNCHANGED <<settings, net, phys, pa, is_local, committed_as_local, explicitly_attached,
                     connected_through, committed_to, rpas, rvirts, policing, pending_free,
                     aborted,
                     kernel, cur, left, pas, todo, cv>>
  BY DEF DecommitVirt, userVars, physAttr, linkVars, bookVars, ctxVars, loopVars
<1>4. \A w \in Virts : virt'[w] = virt[w] \/ (w = v /\ virt[w] = "RENEW" /\ virt'[w] = "NEW")
  BY <1>2 DEF AckDecommit
<1>5. virt'[v] \in {"NEW", "DELETE"}
  BY <1>2 DEF AckDecommit
<1>6. ObjectsI'
  <2>1. StatesI' /\ Owned' /\ Dying' /\ FreshI'
    BY <1>1, <1>3, <1>4 DEF ObjectsI, StatesI, Owned, Dying, FreshI, Alloc, Live, IdleStates
  <2>2. Linked'
    BY <1>1, <1>3, <1>4 DEF ObjectsI, Linked, PaOf
  <2>3. Pending' /\ LocalsI'
    BY <1>1, <1>3, <1>4 DEF ObjectsI, Pending, LocalsI
  <2> QED BY <2>1, <2>2, <2>3 DEF ObjectsI
<1>7. LoopsD'
  <2>1. Propagated'
    BY <1>1, <1>3, <1>4 DEF LoopsD, Propagated, PaOf
  <2>2. Decommitting'
    BY <1>1, <1>2, <1>3, <1>4, <1>5 DEF LoopsD, Decommitting, NeedsDecommit
  <2> QED BY <2>1, <2>2 DEF LoopsD
<1>8. BooksD'
  <2>1. PaSetD'
    BY <1>1, <1>3, KeysSame DEF BooksD, PaSetD, HasPaD
  <2>2. VirtSetD'
    <3>1. \A w \in Virts : HasPaD(<<committed_to[w], VirtNet[w]>>)'
            <=> HasPaD(<<committed_to[w], VirtNet[w]>>)
      BY <1>1, <1>3 DEF HasPaD
    <3> QED BY <1>1, <1>3, <1>4, <3>1 DEF BooksD, VirtSetD, Installed
  <2>3. RateSet' /\ VirtFacts'
    BY <1>1, <1>3 DEF BooksD, RateSet, VirtFacts
  <2>4. RpaSetD'
    BY <1>1, <1>3 DEF BooksD, RpaSetD, HasPaD
  <2>5. RvirtSetD'
    BY <1>1, <1>3, <1>4 DEF BooksD, RvirtSetD, Installed, TypeOK, BookTypes
  <2>6. BooksMatchKernel'
    <3>1. rvirts \subseteq Keys("rvirt")
      BY <1>1, NotNull DEF BooksD, BooksMatchKernel, TypeOK, BookTypes
    <3> QED BY <1>1, <1>3, <3>1, KeysSame DEF BooksD, BooksMatchKernel
  <2> QED BY <2>1, <2>2, <2>3, <2>4, <2>5, <2>6 DEF BooksD
<1> QED BY <1>1, <1>3, <1>6, <1>7, <1>8, DInvSuffices

\* DecommitPa: a PA that was renewed is NEW from here on.
LEMMA DecommitPaStep ==
  ASSUME IInv, NEW b \in PAs, DecommitPa(b), TypeOK'
  PROVE  IInv'
<1> USE NetApiAssumption DEF DInv
<1>1. pc = "decommit" /\ pc' = "decommit" /\ DInv /\ dv = NULL /\ dp = NULL /\ dp' = b
      /\ dv' = NULL
  BY DInvSuffices DEF DecommitPa, Running
<1>2. /\ pa[b] \in {"DELETE", "RENEW"} /\ b[2] = cur /\ VirtsDone(cur)
      /\ pa'[b] = AckDecommit(pa[b]) /\ \A a \in PAs \ {b} : pa'[a] = pa[a]
  BY DEF DecommitPa, NeedsDecommit, TypeOK, ObjTypes, IInv
<1>3. /\ UNCHANGED <<settings, net, phys, virt, is_local, committed_as_local, explicitly_attached,
                     connected_through, committed_to, rpas, rvirts, policing, pending_free,
                     aborted,
                     kernel, cur, left, pas, todo, cv>>
  BY DEF DecommitPa, userVars, physAttr, linkVars, bookVars, ctxVars, loopVars
<1>4. \A a \in PAs : pa'[a] = pa[a] \/ (a = b /\ pa[a] = "RENEW" /\ pa'[a] = "NEW")
  BY <1>2 DEF AckDecommit
<1>5. pa'[b] \in {"NEW", "DELETE"}
  BY <1>2 DEF AckDecommit
<1>6. \A v \in Virts : PaOf(v)' = PaOf(v)
  BY <1>3 DEF PaOf
<1>7. ObjectsI'
  <2>1. StatesI' /\ Owned' /\ Dying' /\ FreshI'
    BY <1>1, <1>3, <1>4 DEF ObjectsI, StatesI, Owned, Dying, FreshI, Alloc, Live, IdleStates
  <2>2. Linked'
    <3>1. \A a \in PAs : Live(pa'[a]) <=> Live(pa[a])
      BY <1>4 DEF Live
    <3> QED BY <1>1, <1>3, <3>1, LinkedFrame DEF ObjectsI
  <2>3. Pending' /\ LocalsI'
    BY <1>1, <1>3, <1>4 DEF ObjectsI, Pending, LocalsI, Live
  <2> QED BY <2>1, <2>2, <2>3 DEF ObjectsI
<1>8. LoopsD'
  <2>1. ASSUME NEW v \in Virts, connected_through[v] # NULL, pa'[PaOf(v)] = "RENEW" \/ PaOf(v) = b
        PROVE  virt[v] # "OK"
    <3>1. PaOf(v) \in PAs /\ Live(pa[PaOf(v)])
      BY <1>1, <2>1, PaOfTyped DEF ObjectsI, Linked
    <3>2. pa[PaOf(v)] = "RENEW"
      BY <1>2, <1>4, <2>1, <3>1 DEF Live
    <3> QED BY <1>1, <2>1, <3>2 DEF LoopsD, Propagated
  <2>2. Propagated'
    BY <1>1, <1>3, <1>4, <1>6, <2>1 DEF LoopsD, Propagated
  <2>3. Decommitting'
    BY <1>1, <1>2, <1>3, <1>4, <1>5 DEF LoopsD, Decommitting, NeedsDecommit, VirtsDone
  <2> QED BY <2>2, <2>3 DEF LoopsD
<1>9. \A a \in PAs : HasPaD(a)' <=> HasPaD(a)
  BY <1>1, <1>2, <1>3, <1>4, <1>5, NotNull DEF HasPaD, Installed
<1>10. BooksD'
  <2>1. PaSetD'
    BY <1>1, <1>3, <1>9, KeysSame DEF BooksD, PaSetD
  <2>2. VirtSetD'
    <3>1. \A v \in Virts : committed_to[v] # NULL => <<committed_to[v], VirtNet[v]>> \in PAs
      BY <1>1 DEF TypeOK, BookTypes, OrNull, PAs
    <3>2. ASSUME NEW v \in Virts, committed_to[v] # NULL
          PROVE  /\ virt[v] \in Installed
                 /\ virt[v] \in {"NEW", "OK"} => connected_through[v] = committed_to[v]
                 /\ HasPaD(<<committed_to[v], VirtNet[v]>>)'
      BY <1>1, <1>3, <1>9, <3>1, <3>2, NotNull DEF BooksD, VirtSetD
    <3> QED BY <1>1, <1>3, <3>2 DEF VirtSetD
  <2>3. RateSet' /\ VirtFacts'
    BY <1>1, <1>3 DEF BooksD, RateSet, VirtFacts
  <2>4. RpaSetD'
    <3> SUFFICES ASSUME NEW r \in rpas
                 PROVE  /\ r[1] # r[2] /\ HasPaD(<<r[1], r[3]>>)'
                        /\ \A p \in {r[1], r[2]} : pa'[<<p, r[3]>>] \in Installed
                             \/ b = <<p, r[3]>>
      BY <1>1, <1>3 DEF RpaSetD
    <3>1. <<r[1], r[3]>> \in PAs /\ <<r[2], r[3]>> \in PAs
      BY <1>1 DEF TypeOK, BookTypes, PAs
    <3>2. /\ r[1] # r[2] /\ HasPaD(<<r[1], r[3]>>)
          /\ \A p \in {r[1], r[2]} : pa[<<p, r[3]>>] \in Installed
      BY <1>1, <3>1, NotNull DEF BooksD, RpaSetD
    <3> QED BY <1>4, <1>9, <3>1, <3>2 DEF Installed
  <2>5. RvirtSetD'
    BY <1>1, <1>3 DEF BooksD, RvirtSetD
  <2>6. BooksMatchKernel'
    BY <1>1, <1>3, KeysSame DEF BooksD, BooksMatchKernel
  <2> QED BY <2>1, <2>2, <2>3, <2>4, <2>5, <2>6 DEF BooksD
<1> QED BY <1>1, <1>3, <1>7, <1>8, <1>10, DInvSuffices

\* RemoveVirt in the decommit phase: a virt that was freed goes, and with it
\* a PA that only it kept.
LEMMA RemoveVirtDecommit ==
  ASSUME Clean, IInv, pc = "decommit", RemoveVirt, TypeOK'
  PROVE  IInv'
<1> USE NetApiAssumption DEF DInv
<1> DEFINE gone == IF virt[dv] = "DELETE" THEN {dv} ELSE {}
           idle == FreeablePas({}, gone)
<1>1. DInv /\ dv \in Virts /\ dp = NULL /\ VirtNet[dv] = cur /\ virt[dv] \in {"NEW", "DELETE"}
  BY DInvSuffices DEF RemoveVirt, TypeOK, LoopTypes, OrNull, LoopsD, Decommitting
<1>2. Deleted({dv}) = gone
  BY <1>1 DEF Deleted, ObjectsI, Pending
<1>3. /\ virt' = [virt EXCEPT ![dv] = IF gone = {} THEN virt[dv] ELSE "none"]
      /\ pa' = [a \in PAs |-> IF a \in idle THEN FreeHelper(pa[a]) ELSE pa[a]]
      /\ pending_free' = (pending_free \ gone) \cup {a \in idle : pa[a] # "NEW"}
      /\ connected_through' = [v \in Virts |-> IF v \in gone THEN NULL ELSE connected_through[v]]
      /\ kernel' = IF committed_to[dv] = NULL THEN kernel ELSE Without("virt", dv)
  BY <1>2, CleanResults, NoMark DEF RemoveVirt, Removed
<1>4. /\ committed_to' = [committed_to EXCEPT ![dv] = NULL] /\ dv' = NULL /\ dp' = NULL
      /\ pc' = "decommit" /\ PolicingOf(dv) = {} /\ Views(dv) = {}
      /\ UNCHANGED <<settings, net, phys, is_local, explicitly_attached, committed_as_local,
                     rpas, rvirts,
                     policing, aborted, cur, left, pas, todo, cv>>
  BY <1>1 DEF RemoveVirt, physAttr, ctxVars, loopVars
<1>5. /\ \A v \in gone : v = dv /\ virt[v] = "DELETE"
      /\ virt[dv] = "DELETE" => dv \in gone
      /\ gone \subseteq Virts
  BY <1>1
<1>6. \A a \in PAs : a \in idle <=>
           /\ pa[a] # "none" /\ a \notin explicitly_attached
           /\ \E v \in gone : PaOf(v) = a
           /\ \A v \in Virts : connected_through[v] # NULL /\ PaOf(v) = a => v \in gone
  BY <1>1, FreeableHas DEF ObjectsI
<1>7. idle \subseteq PAs
  BY DEF FreeablePas
<1>8. gone = {} <=> virt[dv] # "DELETE"
  OBVIOUS
<1> HIDE DEF gone, idle
<1>9. \A v \in Virts : /\ v # dv => virt'[v] = virt[v]
                       /\ v \in gone => virt'[v] = "none" /\ connected_through'[v] = NULL
                       /\ v \notin gone => virt'[v] = virt[v]
                            /\ connected_through'[v] = connected_through[v]
                                           /\ PaOf(v)' = PaOf(v)
  BY <1>1, <1>3, <1>5, <1>8 DEF PaOf, TypeOK, ObjTypes
<1>10. \A a \in PAs : pa'[a] = pa[a]
         \/ (a \in idle /\ pa[a] # "none" /\ pa'[a] = FreeHelper(pa[a]))
  BY <1>3, <1>6
<1>11. \A a \in PAs : pa[a] \in IdleStates
  BY <1>1 DEF ObjectsI, StatesI
<1>12. \A a \in PAs : /\ pa'[a] \in Installed <=> pa[a] \in Installed
                      /\ Live(pa'[a]) <=> Live(pa[a]) /\ a \notin idle
                      /\ pa'[a] \in IdleStates
                      /\ pa[a] \in {"none", "NEW"} => pa'[a] \in {"none", "NEW"}
                      /\ pa'[a] # "none" => pa[a] # "none"
                      /\ pa'[a] \in {"OK", "RENEW", "NEW"} => pa'[a] = pa[a]
  BY <1>3, <1>6, <1>10, <1>11 DEF FreeHelper, Installed, IdleStates, Live
<1>13. ObjectsI'
  <2>1. StatesI'
    BY <1>1, <1>4, <1>9, <1>12 DEF ObjectsI, StatesI, IdleStates
  <2>2. Owned' /\ Dying'
    BY <1>1, <1>4, <1>9, <1>12, PaPair DEF ObjectsI, Owned, Dying, Alloc, Live
  <2>3. FreshI'
    BY <1>1, <1>4, <1>9, <1>12 DEF ObjectsI, FreshI
  <2>4. Linked'
    <3>1. \A v \in Virts : virt'[v] = "none" => connected_through'[v] = NULL
      BY <1>1, <1>9 DEF ObjectsI, Linked
    <3>2. ASSUME NEW v \in Virts, connected_through'[v] # NULL
          PROVE  Live(pa'[PaOf(v)']) /\ (virt'[v] # "DELETE" => PaOf(v)' \in explicitly_attached')
      <4>1. v \notin gone /\ connected_through[v] # NULL /\ PaOf(v)' = PaOf(v)
            /\ virt'[v] = virt[v]
        BY <1>9, <3>2
      <4>2. PaOf(v) \in PAs /\ Live(pa[PaOf(v)])
            /\ (virt[v] # "DELETE" => PaOf(v) \in explicitly_attached)
        BY <1>1, <4>1, PaOfTyped DEF ObjectsI, Linked
      <4>3. PaOf(v) \notin idle
        BY <1>6, <4>1, <4>2
      <4> QED BY <1>4, <1>12, <4>1, <4>2, <4>3
    <3>3. \A a \in explicitly_attached' : Live(pa'[a])
      BY <1>1, <1>4, <1>6, <1>12 DEF ObjectsI, Linked, TypeOK, UserTypes
    <3>4. ASSUME NEW a \in PAs, Live(pa'[a]), a \notin explicitly_attached'
          PROVE  \E v \in Virts : connected_through'[v] # NULL /\ PaOf(v)' = a
      <4>1. Live(pa[a]) /\ a \notin idle /\ a \notin explicitly_attached
        BY <1>4, <1>12, <3>4
      <4>2. PICK v \in Virts : connected_through[v] # NULL /\ PaOf(v) = a
        BY <1>1, <4>1 DEF ObjectsI, Linked
      <4>3. CASE v \notin gone
        BY <1>9, <4>2, <4>3
      <4>4. CASE v \in gone
        <5>1. PICK w \in Virts : connected_through[w] # NULL /\ PaOf(w) = a /\ w \notin gone
          BY <1>6, <4>1, <4>2, <4>4 DEF Live
        <5> QED BY <1>9, <5>1
      <4> QED BY <4>3, <4>4
    <3> QED BY <3>1, <3>2, <3>3, <3>4 DEF Linked
  <2>5. Pending'
    <3>1. ASSUME NEW v \in Virts PROVE v \in pending_free' <=> virt'[v] = "DELETE"
      <4>1. v \notin PAs
        BY DEF PAs
      <4>2. v \in pending_free <=> virt[v] = "DELETE"
        BY <1>1 DEF ObjectsI, Pending
      <4> QED BY <1>3, <1>7, <1>9, <4>1, <4>2
    <3>2. ASSUME NEW a \in PAs PROVE a \in pending_free' <=> pa'[a] = "DELETE"
      <4>1. a \notin gone
        BY <1>5 DEF PAs
      <4>2. a \in pending_free <=> pa[a] = "DELETE"
        BY <1>1 DEF ObjectsI, Pending
      <4>3. a \in pending_free' <=> a \in pending_free \/ (a \in idle /\ pa[a] # "NEW")
        BY <1>3, <4>1
      <4>4. pa'[a] = IF a \in idle THEN FreeHelper(pa[a]) ELSE pa[a]
        BY <1>3
      <4> QED BY <4>2, <4>3, <4>4 DEF FreeHelper
    <3> QED BY <3>1, <3>2 DEF Pending
  <2>6. LocalsI'
    BY <1>1, <1>4, <1>12 DEF ObjectsI, LocalsI
  <2> QED BY <2>1, <2>2, <2>3, <2>4, <2>5, <2>6 DEF ObjectsI
<1>14. LoopsD'
  <2>1. Propagated'
    <3>1. \A a \in PAs : phys'[a[1]] = "RENEW" => pa'[a] # "OK"
      BY <1>1, <1>4, <1>12 DEF LoopsD, Propagated
    <3>2. ASSUME NEW v \in Virts, connected_through'[v] # NULL, pa'[PaOf(v)'] = "RENEW"
                   \/ dp' = PaOf(v)'
          PROVE  virt'[v] # "OK"
      <4>1. connected_through[v] # NULL /\ PaOf(v)' = PaOf(v) /\ virt'[v] = virt[v]
            /\ PaOf(v) \in PAs
        BY <1>1, <1>9, <3>2, PaOfTyped
      <4>2. pa[PaOf(v)] = "RENEW"
        BY <1>4, <1>12, <3>2, <4>1, NotNull
      <4> QED BY <1>1, <4>1, <4>2 DEF LoopsD, Propagated
    <3> QED BY <3>1, <3>2 DEF Propagated
  <2>2. Decommitting'
    <3>1. ASSUME NEW a \in PAs, NeedsDecommit(pa'[a]) PROVE a[2] \in left' \cup {cur'}
      <4>1. CASE a \in idle
        <5>1. PaOf(dv) = a
          BY <1>5, <1>6, <4>1
        <5>2. a[2] = cur
          BY <1>1, <5>1 DEF PaOf
        <5> QED BY <1>4, <5>2
      <4>2. CASE a \notin idle
        BY <1>1, <1>4, <1>10, <3>1, <4>2 DEF LoopsD, Decommitting
      <4> QED BY <4>1, <4>2
    <3>2. ASSUME NEW v \in Virts, NeedsDecommit(virt'[v]) PROVE VirtNet[v] \in left' \cup {cur'}
      <4>1. virt'[v] = virt[v]
        BY <1>9, <3>2 DEF NeedsDecommit
      <4> QED BY <1>1, <1>4, <3>2, <4>1 DEF LoopsD, Decommitting
    <3> QED BY <1>1, <1>4, <3>1, <3>2 DEF LoopsD, Decommitting
  <2> QED BY <2>1, <2>2 DEF LoopsD
<1>15. \A a \in PAs : HasPaD(a)' <=> HasPaD(a)
  BY <1>1, <1>4, <1>12, NotNull DEF HasPaD
<1>16. BooksD'
  <2>1. /\ \A k : k # "virt" => Keys(k)' = Keys(k)
        /\ Keys("virt")' = Keys("virt") \ {dv}
    <3>1. CASE committed_to[dv] = NULL
      <4>1. dv \notin Keys("virt")
        BY <1>1, <3>1 DEF BooksD, BooksMatchKernel
      <4> QED BY <1>3, <3>1, <4>1, KeysSame
    <3>2. CASE committed_to[dv] # NULL
      BY <1>3, <3>2, KeysWithout
    <3> QED BY <3>1, <3>2
  <2>2. PaSetD'
    BY <1>1, <1>15, <2>1 DEF BooksD, PaSetD
  <2>3. \A v \in Virts : /\ v # dv => committed_to'[v] = committed_to[v]
                         /\ v = dv => committed_to'[v] = NULL
    BY <1>1, <1>4 DEF TypeOK, BookTypes
  <2>4. VirtSetD'
    <3> SUFFICES ASSUME NEW v \in Virts, committed_to'[v] # NULL
                 PROVE  /\ virt'[v] \in Installed
                        /\ virt'[v] \in {"NEW", "OK"} => connected_through'[v] = committed_to'[v]
                        /\ HasPaD(<<committed_to[v], VirtNet[v]>>)'
      BY DEF VirtSetD
    <3>1. v # dv /\ committed_to[v] # NULL /\ committed_to'[v] = committed_to[v]
      BY <2>3
    <3>2. virt'[v] = virt[v] /\ connected_through'[v] = connected_through[v]
      BY <1>5, <1>9, <3>1
    <3>3. <<committed_to[v], VirtNet[v]>> \in PAs
      BY <1>1, <3>1 DEF TypeOK, BookTypes, OrNull, PAs
    <3>4. PICK b \in PAs : b = <<committed_to[v], VirtNet[v]>>
      BY <3>3
    <3>5. HasPaD(b)'
      BY <1>1, <1>15, <3>1, <3>4 DEF BooksD, VirtSetD
    <3>6. HasPaD(<<committed_to[v], VirtNet[v]>>)'
      BY <3>1, <3>4, <3>5 DEF HasPaD
    <3> QED BY <1>1, <3>1, <3>2, <3>6 DEF BooksD, VirtSetD
  <2>5. RateSet'
    BY <1>1, <1>4, <2>3 DEF BooksD, RateSet, PolicingOf, TypeOK, BookTypes
  <2>6. VirtFacts'
    <3>1. \A f \in kernel' : f \in kernel /\ (f[1] = "virt" => f[2] # dv)
      <4>1. CASE committed_to[dv] = NULL
        BY <1>1, <1>3, <4>1 DEF BooksD, BooksMatchKernel, Keys
      <4>2. CASE committed_to[dv] # NULL
        BY <1>3, <4>2 DEF Without
      <4> QED BY <4>1, <4>2
    <3>2. \A f \in kernel : f[1] = "virt" => f[2] \in Virts
      BY <1>1 DEF BooksD, BooksMatchKernel, Keys
    <3> QED BY <1>1, <2>3, <3>1, <3>2 DEF BooksD, VirtFacts
  <2>7. RpaSetD'
    <3> SUFFICES ASSUME NEW r \in rpas
                 PROVE  /\ r[1] # r[2] /\ HasPaD(<<r[1], r[3]>>)'
                        /\ \A p \in {r[1], r[2]} : pa'[<<p, r[3]>>] \in Installed
      BY <1>4 DEF RpaSetD
    <3>1. <<r[1], r[3]>> \in PAs /\ <<r[2], r[3]>> \in PAs
      BY <1>1 DEF TypeOK, BookTypes, PAs
    <3>2. /\ r[1] # r[2] /\ HasPaD(<<r[1], r[3]>>)
          /\ \A p \in {r[1], r[2]} : pa[<<p, r[3]>>] \in Installed
      BY <1>1, <3>1, NotNull DEF BooksD, RpaSetD
    <3> QED BY <1>12, <1>15, <3>1, <3>2
  <2>8. RvirtSetD'
    <3> SUFFICES ASSUME NEW rv \in rvirts
                 PROVE  /\ <<rv[1], rv[2], VirtNet[rv[3]]>> \in rpas
                        /\ virt'[rv[3]] \in Installed
                        /\ virt'[rv[3]] \in {"NEW", "OK"} => connected_through'[rv[3]] = rv[2]
      BY <1>4 DEF RvirtSetD
    <3>1. rv[3] \in Virts /\ rv[3] # dv
      BY <1>1, <1>4 DEF TypeOK, BookTypes, Views
    <3> QED BY <1>1, <1>5, <1>9, <3>1 DEF BooksD, RvirtSetD
  <2>9. BooksMatchKernel'
    <3>1. rvirts' = Keys("rvirt")'
      BY <1>1, <1>4, <2>1 DEF BooksD, BooksMatchKernel, Views
    <3>2. {v \in Virts : committed_to'[v] # NULL} = {v \in Virts : committed_to[v] # NULL} \ {dv}
      BY <2>3
    <3> QED BY <1>1, <1>4, <2>1, <3>1, <3>2 DEF BooksD, BooksMatchKernel
  <2> QED BY <2>2, <2>4, <2>5, <2>6, <2>7, <2>8, <2>9 DEF BooksD
<1> QED BY <1>1, <1>4, <1>13, <1>14, <1>16, DInvSuffices

\* DestroyPa in the decommit phase: a PA that was freed goes.
LEMMA DestroyPaDecommit ==
  ASSUME Clean, IInv, pc = "decommit", DestroyPa, TypeOK'
  PROVE  IInv'
<1> USE NetApiAssumption DEF DInv
<1>1. DInv /\ dp \in PAs /\ dv = NULL /\ dp[2] = cur /\ pa[dp] \in {"NEW", "DELETE"}
      /\ VirtsDone(cur)
      /\ RpasOf(dp) = {}
  BY DInvSuffices DEF DestroyPa, TypeOK, LoopTypes, OrNull, LoopsD, Decommitting
<1>2. Deleted({dp}) = IF pa[dp] = "DELETE" THEN {dp} ELSE {}
  BY <1>1 DEF Deleted, ObjectsI, Pending
<1>3. pa[dp] = "DELETE" => ConnectedVirts(dp) = {} /\ dp \notin explicitly_attached
  <2>1. pa[dp] = "DELETE" => \A v \in Virts : v \notin ConnectedVirts(dp)
    BY <1>1, OnList DEF ObjectsI, Linked, Live
  <2> QED BY <1>1, <2>1 DEF ConnectedVirts, ObjectsI, Linked, Live
<1>4. /\ pa' = [pa EXCEPT ![dp] = IF pa[dp] = "DELETE" THEN "none" ELSE pa[dp]]
      /\ kernel' = IF committed_as_local[dp[1]] THEN Without("pa", dp) ELSE kernel
      /\ aborted' = "no"
      /\ pending_free' = pending_free \ (IF pa[dp] = "DELETE" THEN {dp} ELSE {})
  BY <1>1, <1>2, <1>3, CleanResults, NoMark DEF DestroyPa, Removed, CAssert
<1>5. /\ dp' = NULL /\ dv' = NULL /\ pc' = "decommit"
      /\ UNCHANGED <<settings, net, phys, virt, is_local, explicitly_attached, connected_through,
                     committed_as_local, committed_to, rpas, rvirts, policing, cur, left, pas,
                     todo, cv>>
  BY <1>1 DEF DestroyPa, userVars, physAttr, linkVars, bookVars, loopVars
<1>6. PICK b \in PAs : b = dp
  BY <1>1
<1>7. \A a \in PAs : /\ a # b => pa'[a] = pa[a]
                     /\ pa'[a] = pa[a] \/ (a = b /\ pa[a] = "DELETE" /\ pa'[a] = "none")
                     /\ pa'[b] \in {"none", "NEW"}
  BY <1>1, <1>4, <1>6 DEF TypeOK, ObjTypes
<1>8. \A a \in PAs : Live(pa'[a]) <=> Live(pa[a])
  BY <1>7 DEF Live
<1>9. ObjectsI'
  <2>1. StatesI' /\ Owned' /\ Dying' /\ FreshI'
    BY <1>1, <1>5, <1>7 DEF ObjectsI, StatesI, Owned, Dying, FreshI, Alloc, Live, IdleStates
  <2>2. Linked'
    BY <1>1, <1>5, <1>8, LinkedFrame DEF ObjectsI
  <2>3. Pending'
    <3>1. \A v \in Virts : v # b
      BY DEF PAs
    <3>2. \A x : x \in pending_free' <=> x \in pending_free /\ ~(x = b /\ pa[b] = "DELETE")
      BY <1>4, <1>6
    <3>3. pa[b] = "DELETE" => pa'[b] = "none"
      BY <1>1, <1>4, <1>6 DEF TypeOK, ObjTypes
    <3> QED BY <1>1, <1>5, <1>7, <3>1, <3>2, <3>3 DEF ObjectsI, Pending
  <2>4. LocalsI'
    BY <1>1, <1>5, <1>8 DEF ObjectsI, LocalsI
  <2> QED BY <2>1, <2>2, <2>3, <2>4 DEF ObjectsI
<1>10. LoopsD'
  <2>1. Propagated'
    <3>1. \A a \in PAs : phys'[a[1]] = "RENEW" => pa'[a] # "OK"
      BY <1>1, <1>5, <1>7 DEF LoopsD, Propagated
    <3>2. ASSUME NEW v \in Virts, connected_through'[v] # NULL, pa'[PaOf(v)'] = "RENEW"
                   \/ dp' = PaOf(v)'
          PROVE  virt'[v] # "OK"
      <4>1. connected_through[v] # NULL /\ PaOf(v)' = PaOf(v) /\ PaOf(v) \in PAs
        BY <1>1, <1>5, <3>2, PaOfTyped DEF PaOf
      <4>2. pa[PaOf(v)] = "RENEW"
        BY <1>5, <1>7, <3>2, <4>1, NotNull
      <4> QED BY <1>1, <1>5, <4>1, <4>2 DEF LoopsD, Propagated
    <3> QED BY <3>1, <3>2 DEF Propagated
  <2>2. Decommitting'
    BY <1>1, <1>5, <1>7 DEF LoopsD, Decommitting, NeedsDecommit
  <2> QED BY <2>1, <2>2 DEF LoopsD
<1>11. \A v \in Virts : committed_to[v] # NULL => <<committed_to[v], VirtNet[v]>> # b
  <2> SUFFICES ASSUME NEW v \in Virts, committed_to[v] # NULL, <<committed_to[v], VirtNet[v]>> = b
               PROVE  FALSE
    OBVIOUS
  <2>1. virt[v] \in Installed /\ ~NeedsDecommit(virt[v])
    BY <1>1, <1>6, NotNull DEF BooksD, VirtSetD, VirtsDone
  <2>2. virt[v] = "OK"
    BY <2>1 DEF Installed, NeedsDecommit
  <2>3. connected_through[v] # NULL /\ PaOf(v) = b
    BY <1>1, <2>2, NotNull DEF BooksD, VirtSetD, PaOf
  <2> QED BY <1>1, <1>6, <2>2, <2>3 DEF LoopsD, Propagated
<1>12. \A a \in PAs : a # b => (HasPaD(a)' <=> HasPaD(a))
  BY <1>5, <1>6, <1>7, NotNull DEF HasPaD
<1>13. ~HasPaD(b)'
  BY <1>5, <1>7, NotNull DEF HasPaD, Installed
<1>14. BooksD'
  <2>1. /\ \A k : k # "pa" => Keys(k)' = Keys(k)
        /\ Keys("pa")' = Keys("pa") \ {b}
    <3>1. CASE ~committed_as_local[dp[1]]
      <4>1. b \notin Keys("pa")
        BY <1>1, <1>6, <3>1 DEF BooksD, PaSetD, HasPaD
      <4> QED BY <1>4, <3>1, <4>1, KeysSame
    <3>2. CASE committed_as_local[dp[1]]
      BY <1>4, <1>6, <3>2, KeysWithout
    <3> QED BY <3>1, <3>2
  <2>2. PaSetD'
    BY <1>1, <1>12, <1>13, <2>1 DEF BooksD, PaSetD
  <2>3. VirtSetD'
    <3> SUFFICES ASSUME NEW v \in Virts, committed_to[v] # NULL
                 PROVE  /\ virt[v] \in Installed
                        /\ virt[v] \in {"NEW", "OK"} => connected_through[v] = committed_to[v]
                        /\ HasPaD(<<committed_to[v], VirtNet[v]>>)'
      BY <1>5 DEF VirtSetD
    <3>1. <<committed_to[v], VirtNet[v]>> \in PAs
      BY <1>1 DEF TypeOK, BookTypes, OrNull, PAs
    <3>2. PICK c \in PAs : c = <<committed_to[v], VirtNet[v]>>
      BY <3>1
    <3>3. HasPaD(c)'
      BY <1>1, <1>11, <1>12, <3>2 DEF BooksD, VirtSetD
    <3>4. HasPaD(<<committed_to[v], VirtNet[v]>>)'
      BY <1>5, <3>2, <3>3 DEF HasPaD
    <3> QED BY <1>1, <3>4, NotNull DEF BooksD, VirtSetD
  <2>4. RateSet'
    BY <1>1, <1>5 DEF BooksD, RateSet
  <2>5. VirtFacts'
    <3>1. kernel' \subseteq kernel
      BY <1>4 DEF Without
    <3> QED BY <1>1, <1>5, <3>1 DEF BooksD, VirtFacts
  <2>6. RpaSetD'
    <3> SUFFICES ASSUME NEW r \in rpas
                 PROVE  /\ r[1] # r[2] /\ HasPaD(<<r[1], r[3]>>)'
                        /\ \A p \in {r[1], r[2]} : pa'[<<p, r[3]>>] \in Installed
      BY <1>5 DEF RpaSetD
    <3>1. <<r[1], r[3]>> \in PAs /\ <<r[2], r[3]>> \in PAs
      BY <1>1 DEF TypeOK, BookTypes, PAs
    <3>2. <<r[1], r[3]>> # b /\ <<r[2], r[3]>> # b
      BY <1>1, <1>6 DEF RpasOf
    <3>3. /\ r[1] # r[2] /\ HasPaD(<<r[1], r[3]>>)
          /\ \A p \in {r[1], r[2]} : pa[<<p, r[3]>>] \in Installed
      BY <1>1, <1>6, <3>2 DEF BooksD, RpaSetD
    <3> QED BY <1>7, <1>12, <3>1, <3>2, <3>3
  <2>7. RvirtSetD'
    BY <1>1, <1>5 DEF BooksD, RvirtSetD
  <2>8. BooksMatchKernel'
    BY <1>1, <1>5, <2>1 DEF BooksD, BooksMatchKernel
  <2> QED BY <2>2, <2>3, <2>4, <2>5, <2>6, <2>7, <2>8 DEF BooksD
<1> QED BY <1>4, <1>5, <1>9, <1>10, <1>14, DInvSuffices

\* DecommitNet, DecommitNetEnd: the loop over the nets.  A deleted net is
\* empty by the time it is freed.
LEMMA DecommitNetStep ==
  ASSUME IInv, NEW n \in Nets, DecommitNet(n), TypeOK'
  PROVE  IInv'
<1> USE DEF DInv
<1>1. pc = "decommit" /\ pc' = "decommit" /\ DInv /\ dv = NULL /\ dp = NULL /\ cur = NULL
      /\ n \in left /\ cur' = n /\ left' = left \ {n}
      /\ UNCHANGED <<apiVars, kernel, pas, todo, cv, dv, dp>>
  BY DInvSuffices DEF DecommitNet, Running
<1>2. UNCHANGED objectVars /\ UNCHANGED <<committed_to, rpas, rvirts, policing, aborted>>
  BY <1>1 DEF apiVars, objVars, physAttr, linkVars, bookVars, ctxVars, objectVars
<1>3. ObjectsI'
  <2>1. StatesI' /\ Owned' /\ Dying' /\ FreshI'
    BY <1>1, <1>2 DEF ObjectsI, StatesI, Owned, Dying, FreshI, objectVars
  <2>2. Linked' /\ Pending' /\ LocalsI'
    BY <1>1, <1>2 DEF ObjectsI, Linked, Pending, LocalsI, objectVars, PaOf
  <2> QED BY <2>1, <2>2 DEF ObjectsI
<1>4. LoopsD'
  <2>1. Propagated'
    BY <1>1, <1>2 DEF LoopsD, Propagated, objectVars, PaOf
  <2>2. left \cup {cur} \subseteq left' \cup {cur'} \cup {NULL}
    BY <1>1
  <2>3. Decommitting'
    BY <1>1, <1>2, <2>2, NotNull, PaPair, NetApiAssumption DEF LoopsD, Decommitting, objectVars
  <2> QED BY <2>1, <2>3 DEF LoopsD
<1>5. BooksD'
  <2>1. PaSetD'
    BY <1>1, <1>2, KeysSame DEF BooksD, PaSetD, HasPaD, objectVars
  <2>2. VirtSetD' /\ RateSet' /\ VirtFacts'
    BY <1>1, <1>2 DEF BooksD, VirtSetD, HasPaD, RateSet, VirtFacts, objectVars
  <2>3. RpaSetD' /\ RvirtSetD'
    BY <1>1, <1>2 DEF BooksD, RpaSetD, RvirtSetD, HasPaD, objectVars
  <2>4. BooksMatchKernel'
    BY <1>1, <1>2, KeysSame DEF BooksD, BooksMatchKernel
  <2> QED BY <2>1, <2>2, <2>3, <2>4 DEF BooksD
<1> QED BY <1>1, <1>2, <1>3, <1>4, <1>5, DInvSuffices

\* DecommitNetEnd: a net is done, and gone if it was freed.
LEMMA DecommitNetEndStep ==
  ASSUME IInv, DecommitNetEnd, TypeOK'
  PROVE  IInv'
<1> USE NetApiAssumption DEF DInv
<1>1. pc = "decommit" /\ pc' = "decommit" /\ DInv /\ dv = NULL /\ dp = NULL /\ cur \in Nets
      /\ cur' = NULL
      /\ UNCHANGED <<settings, phys, pa, virt, is_local, explicitly_attached, connected_through,
                     committed_as_local, committed_to, rpas, rvirts, policing, pending_free,
                     kernel, left, pas, todo, cv, dv, dp>>
      /\ VirtsDone(cur) /\ PasDone(cur)
  BY DInvSuffices
     DEF DecommitNetEnd, Running, TypeOK, LoopTypes, OrNull, userVars, physAttr, linkVars,
     bookVars
<1>2. PICK m \in Nets : m = cur
  BY <1>1
<1>3. net[m] = "DELETE" => /\ \A v \in Virts : VirtNet[v] = m => virt[v] = "none"
                           /\ \A p \in Physes : pa[<<p, m>>] = "none"
  <2> SUFFICES ASSUME net[m] = "DELETE"
               PROVE  /\ \A v \in Virts : VirtNet[v] = m => virt[v] = "none"
                      /\ \A p \in Physes : pa[<<p, m>>] = "none"
    OBVIOUS
  <2>1. ASSUME NEW v \in Virts, VirtNet[v] = m PROVE virt[v] = "none"
    BY <1>1, <1>2, <2>1 DEF ObjectsI, Dying, Live, VirtsDone, NeedsDecommit
  <2>2. ASSUME NEW p \in Physes PROVE pa[<<p, m>>] = "none"
    <3>1. PICK a \in PAs : a = <<p, m>>
      BY DEF PAs
    <3>2. a \notin explicitly_attached
      BY <1>1, <3>1 DEF ObjectsI, Dying
    <3>3. ~Live(pa[a])
      <4> SUFFICES ASSUME Live(pa[a]) PROVE FALSE
        OBVIOUS
      <4>1. PICK v \in Virts : connected_through[v] # NULL /\ PaOf(v) = a
        BY <1>1, <3>2 DEF ObjectsI, Linked
      <4>2. virt[v] = "none"
        BY <2>1, <3>1, <4>1 DEF PaOf
      <4> QED BY <1>1, <4>1, <4>2 DEF ObjectsI, Linked
    <3> QED BY <1>1, <1>2, <3>1, <3>3 DEF Live, PasDone, NeedsDecommit
  <2> QED BY <2>1, <2>2
<1>4. aborted' = "no"
  BY <1>1, <1>2, <1>3 DEF DecommitNetEnd, CAssert
<1>5. \A n \in Nets : net'[n] = IF n = m /\ net[n] = "DELETE" THEN "none" ELSE net[n]
  BY <1>1, <1>2 DEF DecommitNetEnd, AckDecommit, TypeOK, ObjTypes, ObjectsI, StatesI
<1>6. ObjectsI'
  <2>1. StatesI' /\ Dying' /\ FreshI'
    BY <1>1, <1>5, PaPair DEF ObjectsI, StatesI, Dying, FreshI, Live, IdleStates
  <2>2. Owned'
    <3>1. \A a \in PAs : Alloc(pa[a]) => Alloc(net'[a[2]])
      BY <1>1, <1>3, <1>5, PaPair DEF ObjectsI, Owned, Alloc
    <3> QED BY <1>1, <1>3, <1>5, <3>1 DEF ObjectsI, Owned, Alloc
  <2>3. Linked' /\ Pending' /\ LocalsI'
    BY <1>1 DEF ObjectsI, Linked, Pending, LocalsI, PaOf
  <2> QED BY <2>1, <2>2, <2>3 DEF ObjectsI
<1>7. LoopsD'
  <2>1. Propagated'
    BY <1>1 DEF LoopsD, Propagated, PaOf
  <2>2. \A a \in PAs : NeedsDecommit(pa[a]) => a[2] # m
    BY <1>1, <1>2, PaPair DEF PasDone
  <2>3. Decommitting'
    BY <1>1, <1>2, <1>5, <2>2 DEF LoopsD, Decommitting, VirtsDone
  <2> QED BY <2>1, <2>3 DEF LoopsD
<1>8. BooksD'
  <2>1. PaSetD'
    BY <1>1, KeysSame DEF BooksD, PaSetD, HasPaD
  <2>2. VirtSetD' /\ RateSet' /\ VirtFacts'
    BY <1>1 DEF BooksD, VirtSetD, HasPaD, RateSet, VirtFacts
  <2>3. RpaSetD' /\ RvirtSetD'
    BY <1>1 DEF BooksD, RpaSetD, RvirtSetD, HasPaD
  <2>4. BooksMatchKernel'
    BY <1>1, KeysSame DEF BooksD, BooksMatchKernel
  <2> QED BY <2>1, <2>2, <2>3, <2>4 DEF BooksD
<1> QED BY <1>1, <1>4, <1>6, <1>7, <1>8, DInvSuffices

(***************************************************************************)
(* The invariant in the recommit phase, when nothing is being deleted.     *)
(***************************************************************************)

StatesR ==
  /\ \A s \in Settings : settings[s] \in {"none", "NEW", "OK"}
  /\ \A n \in Nets : net[n] \in {"none", "NEW", "OK"}
  /\ \A p \in Physes : phys[p] \in {"none", "NEW", "OK"}
  /\ \A a \in PAs : pa[a] \in {"none", "NEW", "OK", "ERR"}
  /\ \A v \in Virts : virt[v] \in {"none", "NEW", "OK", "ERR"}

LocalsR ==
  /\ \A p \in Physes : committed_as_local[p] => is_local[p]
  /\ \A p \in Physes : is_local[p] => Alloc(phys[p])
  /\ \A a, b \in PAs : a[2] = b[2] /\ Live(pa[a]) /\ Live(pa[b])
                       /\ is_local[a[1]] /\ is_local[b[1]] => a = b
  /\ \A p \in Physes : is_local[p] /\ ~committed_as_local[p] => p \in left
  /\ \A a \in PAs : a[1] \in left /\ ~committed_as_local[a[1]] => pa[a] \in {"none", "NEW"}

ObjectsR == StatesR /\ Owned /\ Linked /\ Pending /\ LocalsR

LoopsR == Walking /\ InVirts /\ InRemotes /\ InRvirts

HasPaR(a) == committed_as_local[a[1]] /\ (pa[a] = "OK" \/ (pa[a] = "NEW" /\ Visited(a)))

VirtSetR ==
  \A v \in Virts : committed_to[v] # NULL =>
    /\ virt[v] = "OK" \/ (virt[v] = "NEW" /\ PastVirt(PaOf(v), v))
    /\ connected_through[v] = committed_to[v]
    /\ HasPaR(PaOf(v))

RpaSetR ==
  \A r \in rpas :
    /\ r[1] # r[2] /\ HasPaR(<<r[1], r[3]>>)
    /\ \A p \in {r[1], r[2]} :
         \/ pa[<<p, r[3]>>] = "OK"
         \/ pa[<<p, r[3]>>] = "NEW" /\ PastRemote(<<r[1], r[3]>>, r[2])

RvirtSetR ==
  \A rv \in rvirts :
    LET n == VirtNet[rv[3]] IN
    /\ <<rv[1], rv[2], n>> \in rpas
    /\ \/ virt[rv[3]] = "OK"
       \/ dv = rv[3]
       \/ virt[rv[3]] = "NEW" /\ PastRemoteVirt(<<rv[1], n>>, rv[3])
    /\ pa[<<rv[1], n>>] = "NEW" => PastRemoteVirt(<<rv[1], n>>, rv[3])
    /\ virt[rv[3]] \in {"NEW", "OK"} => connected_through[rv[3]] = rv[2]

BooksR == /\ \A a \in PAs : a \in Keys("pa") <=> HasPaR(a)
          /\ VirtSetR /\ RateSet /\ RpaSetR /\ RvirtSetR /\ ErrSet /\ VirtFacts
          /\ BooksMatchKernel

RInv == TypeOK /\ aborted = "no" /\ ObjectsR /\ LoopsR /\ BooksR

\* A virt that is rolled back is in the state ERR.
LEMMA RolledBack ==
  /\ Recommit /\ LoopsR => dv = NULL \/ virt[dv] = "ERR"
  /\ Recommit' /\ LoopsR' => dv' = NULL \/ virt'[dv'] = "ERR"
BY DEF Recommit, LoopsR, Walking, InVirts, InRemotes, InRvirts

\* In the recommit phase IInv gives RInv, and RInv gives IInv back.
LEMMA InRecommit ==
  /\ Recommit => (IInv => RInv)
  /\ Recommit' => (RInv' => IInv')
<1>1. ASSUME Recommit, IInv PROVE RInv
  <2> USE <1>1 DEF IInv
  <2>1. ObjectsR
    BY DEF Objects, ObjectsR, States, StatesR, Settled, Tried, Locals, LocalsR
  <2>2. LoopsR
    BY DEF Loops, LoopsR
  <2>3. \A a \in PAs : HasPa(a) <=> HasPaR(a)
    <3> SUFFICES ASSUME NEW a \in PAs PROVE HasPa(a) <=> HasPaR(a)
      OBVIOUS
    <3>1. pa[a] \in {"none", "NEW", "OK", "ERR"}
      BY <2>1 DEF ObjectsR, StatesR
    <3> QED BY <3>1 DEF HasPa, HasPaR, Made, Installed, Recommit
  <2>4. VirtSetR
    <3> SUFFICES ASSUME NEW v \in Virts, committed_to[v] # NULL
                 PROVE  /\ virt[v] = "OK" \/ (virt[v] = "NEW" /\ PastVirt(PaOf(v), v))
                        /\ connected_through[v] = committed_to[v]
                        /\ HasPaR(PaOf(v))
      BY DEF VirtSetR
    <3>1. virt[v] \in {"none", "NEW", "OK", "ERR"}
      BY <2>1 DEF ObjectsR, StatesR
    <3>2. virt[v] = "OK" \/ (virt[v] = "NEW" /\ PastVirt(PaOf(v), v))
      BY <3>1 DEF Books, VirtSet, Installed, Recommit
    <3>3. dv # v
      BY <2>2, <3>2, RolledBack, NotNull
    <3>4. connected_through[v] = committed_to[v] /\ HasPa(<<committed_to[v], VirtNet[v]>>)
      BY <3>2, <3>3 DEF Books, VirtSet
    <3>5. PaOf(v) = <<committed_to[v], VirtNet[v]>> /\ PaOf(v) \in PAs
      BY <3>4, PaOfTyped DEF PaOf
    <3> QED BY <2>3, <3>2, <3>4, <3>5
  <2>5. RpaSetR
    <3> SUFFICES ASSUME NEW r \in rpas
                 PROVE  /\ r[1] # r[2] /\ HasPaR(<<r[1], r[3]>>)
                        /\ \A p \in {r[1], r[2]} :
                             \/ pa[<<p, r[3]>>] = "OK"
                             \/ pa[<<p, r[3]>>] = "NEW" /\ PastRemote(<<r[1], r[3]>>, r[2])
      BY DEF RpaSetR
    <3>1. <<r[1], r[3]>> \in PAs /\ <<r[2], r[3]>> \in PAs
      BY DEF TypeOK, BookTypes, PAs
    <3>2. \A p \in {r[1], r[2]} : pa[<<p, r[3]>>] \in {"none", "NEW", "OK", "ERR"}
      BY <2>1, <3>1 DEF ObjectsR, StatesR
    <3> QED BY <2>3, <3>1, <3>2 DEF Books, RpaSet, Installed, Recommit
  <2>6. RvirtSetR
    <3> SUFFICES ASSUME NEW rv \in rvirts, NEW n \in Nets, n = VirtNet[rv[3]]
                 PROVE  /\ <<rv[1], rv[2], n>> \in rpas
                        /\ \/ virt[rv[3]] = "OK"
                           \/ dv = rv[3]
                           \/ virt[rv[3]] = "NEW" /\ PastRemoteVirt(<<rv[1], n>>, rv[3])
                        /\ pa[<<rv[1], n>>] = "NEW" => PastRemoteVirt(<<rv[1], n>>, rv[3])
                        /\ virt[rv[3]] \in {"NEW", "OK"} => connected_through[rv[3]] = rv[2]
      BY NetApiAssumption DEF RvirtSetR, TypeOK, BookTypes
    <3>1. rv[3] \in Virts
      BY DEF TypeOK, BookTypes
    <3>2. virt[rv[3]] \in {"none", "NEW", "OK", "ERR"}
      BY <2>1, <3>1 DEF ObjectsR, StatesR
    <3>3. virt[rv[3]] \in {"NEW", "OK"} => dv # rv[3]
      BY <2>2, <3>1, RolledBack, NotNull
    <3> QED BY <3>2, <3>3 DEF Books, RvirtSet, Installed
  <2> QED BY <2>1, <2>2, <2>3, <2>4, <2>5, <2>6 DEF RInv, Books, BooksR, PaSet
<1>2. ASSUME Recommit', RInv' PROVE IInv'
  <2> USE <1>2 DEF RInv
  <2>0. pc' \in {"commit", "virts", "remotes", "rvirts"}
    BY DEF Recommit
  <2>1. Objects'
    <3>1. States' /\ Locals'
      BY DEF ObjectsR, States, StatesR, Settled, Tried, Locals, LocalsR
    <3>2. Dying' /\ Fresh'
      BY PaPair, NetApiAssumption DEF ObjectsR, StatesR, Dying, Fresh
    <3> QED BY <3>1, <3>2 DEF Objects, ObjectsR
  <2>2. Loops'
    BY <2>0 DEF Loops, LoopsR, Idle, Propagated, Decommitting
  <2>3. \A a \in PAs : HasPa(a)' <=> HasPaR(a)'
    <3> SUFFICES ASSUME NEW a \in PAs PROVE HasPa(a)' <=> HasPaR(a)'
      OBVIOUS
    <3>1. pa'[a] \in {"none", "NEW", "OK", "ERR"}
      BY DEF ObjectsR, StatesR
    <3> QED BY <2>0, <3>1 DEF HasPa, HasPaR, Made, Installed
  <2>4. VirtSet'
    <3> SUFFICES ASSUME NEW v \in Virts, committed_to'[v] # NULL
                 PROVE  /\ \/ virt'[v] \in Installed
                           \/ virt'[v] = "NEW" /\ connected_through'[v] # NULL
                                /\ PastVirt(PaOf(v), v)'
                        /\ connected_through'[v] = committed_to'[v]
                        /\ HasPa(<<committed_to[v], VirtNet[v]>>)'
      BY DEF VirtSet
    <3>1. /\ virt'[v] = "OK" \/ (virt'[v] = "NEW" /\ PastVirt(PaOf(v), v)')
          /\ connected_through'[v] = committed_to'[v]
          /\ HasPaR(PaOf(v))'
      BY DEF BooksR, VirtSetR
    <3>2. PICK b \in PAs : b = PaOf(v)'
      BY <3>1, NetApiAssumption DEF PaOf, TypeOK, BookTypes, PAs, OrNull
    <3>3. HasPa(b)'
      BY <2>3, <3>1, <3>2 DEF HasPaR
    <3>4. b = <<committed_to'[v], VirtNet[v]>>
      BY <3>1, <3>2 DEF PaOf
    <3>5. HasPa(<<committed_to[v], VirtNet[v]>>)'
      BY <3>3, <3>4 DEF HasPa, Made, Visited
    <3> QED BY <3>1, <3>5 DEF Installed
  <2>5. RpaSet'
    <3> SUFFICES ASSUME NEW r \in rpas'
                 PROVE  /\ r[1] # r[2] /\ HasPa(<<r[1], r[3]>>)'
                        /\ \A p \in {r[1], r[2]} :
                             \/ pa'[<<p, r[3]>>] \in Installed
                             \/ pa'[<<p, r[3]>>] = "NEW" /\ PastRemote(<<r[1], r[3]>>, r[2])'
      BY DEF RpaSet
    <3>1. <<r[1], r[3]>> \in PAs /\ <<r[2], r[3]>> \in PAs
      BY DEF TypeOK, BookTypes, PAs
    <3> QED BY <2>3, <3>1 DEF BooksR, RpaSetR, Installed
  <2>6. RvirtSet'
    BY DEF BooksR, RvirtSetR, RvirtSet, Installed
  <2> QED BY <2>1, <2>2, <2>3, <2>4, <2>5, <2>6 DEF IInv, Books, BooksR, PaSet
<1> QED BY <1>1, <1>2

\* DecommitEnd: everything that was renewed or deleted has been taken down.
LEMMA DecommitEndStep ==
  ASSUME IInv, DecommitEnd, TypeOK'
  PROVE  IInv'
<1> USE NetApiAssumption DEF DInv
<1> DEFINE gone == {p \in Physes : phys[p] = "DELETE"}
<1>1. DInv /\ pc = "decommit" /\ dv = NULL /\ dp = NULL /\ cur = NULL /\ left = {}
  BY DInvSuffices DEF DecommitEnd, Running
<1>2. /\ \A n \in Nets : net[n] \in {"none", "NEW", "OK"}
      /\ \A a \in PAs : pa[a] \in {"none", "NEW", "OK"}
      /\ \A v \in Virts : virt[v] \in {"none", "NEW", "OK"}
  BY <1>1, NotNull, PaPair
     DEF LoopsD, Decommitting, NeedsDecommit, ObjectsI, StatesI, IdleStates
<1>3. /\ \A p \in Physes : phys'[p] = IF phys[p] = "DELETE" THEN "none" ELSE AckDecommit(phys[p])
      /\ \A s \in Settings : settings'[s] = IF settings[s] = "DELETE" THEN "none"
           ELSE AckDecommit(settings[s])
      /\ \A p \in Physes : /\ is_local'[p] <=> is_local[p] /\ phys[p] # "DELETE"
                           /\ committed_as_local'[p] <=> committed_as_local[p]
                                /\ phys[p] # "DELETE"
      /\ pc' = "commit" /\ \A p : p \in left' <=> p \in Physes /\ Live(phys[p]) /\ is_local[p]
  BY DEF DecommitEnd, ResetPhys, Live
<1>4. /\ UNCHANGED <<net, pa, virt, explicitly_attached, connected_through, committed_to, rpas,
                     rvirts,
                     policing, pending_free, kernel, cur, pas, todo, cv, dv, dp>>
  BY DEF DecommitEnd, linkVars
<1>5. aborted' = "no"
  <2>1. \A n \in Nets : net[n] # "none" => settings[NetSettings[n]] # "DELETE"
    BY <1>1, <1>2 DEF ObjectsI, Dying, Live
  <2> QED BY <1>1, <2>1 DEF DecommitEnd, CAssert
<1>6. \A a \in PAs : pa[a] # "none" => Live(phys[a[1]])
  BY <1>1, <1>2, PaPair DEF ObjectsI, Dying, Owned, Alloc, Live
<1>7. Recommit'
  BY <1>3 DEF Recommit
<1>8. ObjectsR'
  <2>1. StatesR'
    BY <1>1, <1>2, <1>3, <1>4 DEF ObjectsI, StatesI, StatesR, IdleStates, AckDecommit
  <2>2. Owned'
    <3>1. \A a \in PAs : Alloc(pa[a]) => Alloc(phys'[a[1]])
      BY <1>3, <1>6, PaPair DEF Alloc, Live, AckDecommit
    <3>2. \A n \in Nets : Alloc(net[n]) => Alloc(settings'[NetSettings[n]])
      BY <1>1, <1>2, <1>3 DEF ObjectsI, Owned, Dying, Alloc, Live, AckDecommit
    <3> QED BY <1>1, <1>4, <3>1, <3>2 DEF ObjectsI, Owned
  <2>3. Linked' /\ Pending'
    BY <1>1, <1>4 DEF ObjectsI, Linked, Pending, PaOf
  <2>4. LocalsR'
    <3>1. \A p \in Physes : /\ committed_as_local'[p] => is_local'[p]
                            /\ is_local'[p] => Alloc(phys'[p]) /\ p \in left'
      BY <1>1, <1>3 DEF ObjectsI, LocalsI, Alloc, Live, AckDecommit
    <3>2. \A a, b \in PAs : a[2] = b[2] /\ Live(pa[a]) /\ Live(pa[b])
                       /\ is_local'[a[1]] /\ is_local'[b[1]] => a = b
      BY <1>1, <1>3, PaPair DEF ObjectsI, LocalsI
    <3>3. ASSUME NEW a \in PAs, a[1] \in left', ~committed_as_local'[a[1]]
          PROVE  pa[a] \in {"none", "NEW"}
      <4>1. phys[a[1]] \in {"NEW", "RENEW"}
        BY <1>1, <1>3, <3>3, PaPair DEF ObjectsI, LocalsI, StatesI, IdleStates, Live
      <4> QED BY <1>1, <1>2, <4>1 DEF ObjectsI, FreshI, LoopsD, Propagated
    <3> QED BY <1>4, <3>1, <3>2, <3>3 DEF LocalsR
  <2> QED BY <2>1, <2>2, <2>3, <2>4 DEF ObjectsR
<1>9. LoopsR'
  <2>1. pas' = {} /\ todo' = {} /\ cv' = NULL /\ dv' = NULL /\ dp' = NULL
    BY <1>1, <1>4 DEF LoopsD, Decommitting
  <2>2. \A p \in left' : Alloc(phys'[p]) /\ is_local'[p]
    BY <1>3 DEF Alloc, Live, AckDecommit
  <2> QED BY <1>3, <2>1, <2>2 DEF LoopsR, Walking, InVirts, InRemotes, InRvirts
<1>10. \A a \in PAs : HasPaR(a)' <=> HasPaD(a)
  <2> SUFFICES ASSUME NEW a \in PAs PROVE HasPaR(a)' <=> HasPaD(a)
    OBVIOUS
  <2>1. pa'[a] = pa[a] /\ a[1] \in Physes /\ dp # a
    BY <1>1, <1>4, PaPair, NotNull
  <2>2. CASE pa[a] = "none"
    BY <2>1, <2>2 DEF HasPaR, HasPaD, Installed
  <2>3. CASE pa[a] # "none"
    <3>1. committed_as_local'[a[1]] <=> committed_as_local[a[1]]
      BY <1>3, <1>6, <2>1, <2>3 DEF Live
    <3>2. committed_as_local[a[1]] => a[1] \in left'
      BY <1>1, <1>3, <1>6, <2>1, <2>3 DEF ObjectsI, LocalsI
    <3> QED BY <1>2, <2>1, <2>3, <3>1, <3>2 DEF HasPaR, HasPaD, Visited, Installed
  <2> QED BY <2>2, <2>3
<1>11. BooksR'
  <2>1. \A a \in PAs : a \in Keys("pa")' <=> HasPaR(a)'
    BY <1>1, <1>4, <1>10, KeysSame DEF BooksD, PaSetD
  <2>2. VirtSetR'
    <3> SUFFICES ASSUME NEW v \in Virts, committed_to[v] # NULL
                 PROVE  virt[v] = "OK" /\ connected_through[v] = committed_to[v]
                        /\ HasPaR(PaOf(v))'
      BY <1>4 DEF VirtSetR
    <3>1. virt[v] = "OK"
      BY <1>1, <1>2, NotNull DEF BooksD, VirtSetD, Installed
    <3>2. connected_through[v] = committed_to[v] /\ HasPaD(<<committed_to[v], VirtNet[v]>>)
      BY <1>1, <3>1, NotNull DEF BooksD, VirtSetD
    <3>3. PICK b \in PAs : b = PaOf(v)
      BY <1>1, <3>2, PaOfTyped
    <3>4. HasPaR(b)'
      BY <1>10, <3>2, <3>3 DEF PaOf
    <3>5. HasPaR(PaOf(v))'
      BY <1>4, <3>3, <3>4 DEF HasPaR, Visited, PaOf
    <3> QED BY <3>1, <3>2, <3>5
  <2>3. RateSet' /\ VirtFacts'
    BY <1>1, <1>4 DEF BooksD, RateSet, VirtFacts
  <2>4. ASSUME NEW r \in rpas
        PROVE  /\ r[1] # r[2] /\ HasPaR(<<r[1], r[3]>>)'
               /\ pa[<<r[1], r[3]>>] = "OK" /\ pa[<<r[2], r[3]>>] = "OK"
    <3>1. <<r[1], r[3]>> \in PAs /\ <<r[2], r[3]>> \in PAs
      BY <1>1 DEF TypeOK, BookTypes, PAs
    <3>2. /\ r[1] # r[2] /\ HasPaD(<<r[1], r[3]>>)
          /\ \A p \in {r[1], r[2]} : pa[<<p, r[3]>>] \in Installed
      BY <1>1, <3>1, NotNull DEF BooksD, RpaSetD
    <3> QED BY <1>2, <1>10, <3>1, <3>2 DEF Installed
  <2>5. RpaSetR'
    BY <1>4, <2>4 DEF RpaSetR
  <2>6. RvirtSetR'
    <3> SUFFICES ASSUME NEW rv \in rvirts
                 PROVE  /\ <<rv[1], rv[2], VirtNet[rv[3]]>> \in rpas
                        /\ virt[rv[3]] = "OK" /\ pa[<<rv[1], VirtNet[rv[3]]>>] # "NEW"
                        /\ connected_through[rv[3]] = rv[2]
      BY <1>4 DEF RvirtSetR
    <3>1. rv[3] \in Virts
      BY <1>1 DEF TypeOK, BookTypes
    <3>2. <<rv[1], rv[2], VirtNet[rv[3]]>> \in rpas /\ virt[rv[3]] = "OK"
      BY <1>1, <1>2, <3>1, NotNull DEF BooksD, RvirtSetD, Installed
    <3>3. PICK r \in rpas : r = <<rv[1], rv[2], VirtNet[rv[3]]>>
      BY <3>2
    <3>4. pa[<<rv[1], VirtNet[rv[3]]>>] = "OK"
      BY <2>4, <3>3
    <3> QED BY <1>1, <3>1, <3>2, <3>4, NotNull DEF BooksD, RvirtSetD
  <2>7. ErrSet'
    BY <1>2, <1>4 DEF ErrSet
  <2>8. BooksMatchKernel'
    BY <1>1, <1>4, KeysSame DEF BooksD, BooksMatchKernel
  <2> QED BY <2>1, <2>2, <2>3, <2>5, <2>6, <2>7, <2>8 DEF BooksR
<1> QED BY <1>5, <1>7, <1>8, <1>9, <1>11, InRecommit DEF RInv

(***************************************************************************)
(* The steps of the recommit phase.  The loops only go on, so what         *)
(* commit_pa has come past stays past.                                     *)
(***************************************************************************)

Onwards ==
  /\ \A a \in PAs : Visited(a) => Visited(a)'
  /\ \A a \in PAs, v \in Virts : PastVirt(a, v) => PastVirt(a, v)'
  /\ \A a \in PAs, q \in Physes : PastRemote(a, q) => PastRemote(a, q)'
  /\ \A a \in PAs, v \in Virts : PastRemoteVirt(a, v) => PastRemoteVirt(a, v)'

recommitConst == <<settings, net, phys, explicitly_attached, connected_through, is_local,
                   pending_free, aborted>>

\* The local PA whose remote PAs and remote virts name the failed ones.
SeenPa(a) == \E p \in Physes : /\ is_local[p] /\ Live(pa[<<p, a[2]>>])
                               /\ PastRemote(<<p, a[2]>>, a[1])'

SeenVirt(v) == \E p \in Physes : /\ is_local[p] /\ Live(pa[<<p, VirtNet[v]>>])
                                 /\ PastRemoteVirt(<<p, VirtNet[v]>>, v)'

\* A PA may fail when nothing is installed on it, a virt when it is not, or
\* is about to be rolled back.
PaMarked(a) ==
  /\ pa[a] \in {"NEW", "OK"} /\ pa'[a] = "ERR" /\ a[1] \notin left
  /\ ~HasPaR(a) /\ \A r \in rpas : a # <<r[1], r[3]>> /\ a # <<r[2], r[3]>>
  /\ is_local[a[1]] \/ SeenPa(a)

VirtMarked(v) ==
  /\ virt[v] \in {"NEW", "OK"} /\ virt'[v] = "ERR"
  /\ committed_to'[v] = NULL /\ connected_through[v] # NULL
  /\ \A rv \in rvirts : rv[3] = v => dv' = v
  /\ is_local[connected_through[v]] \/ SeenVirt(v)

Marks == /\ \A a \in PAs : pa'[a] = pa[a] \/ PaMarked(a)
         /\ \A v \in Virts : virt'[v] = virt[v] \/ VirtMarked(v)

\* The objects stay right when a step only marks what failed.
LEMMA RecommitObjects ==
  ASSUME RInv, UNCHANGED recommitConst, UNCHANGED <<committed_as_local, left>>, Marks
  PROVE  ObjectsR'
<1> USE DEF RInv, ObjectsR, recommitConst
<1>1. \A a \in PAs : pa'[a] = pa[a]
        \/ (pa[a] \in {"NEW", "OK"} /\ pa'[a] = "ERR" /\ a[1] \notin left)
  BY DEF Marks, PaMarked
<1>2. \A v \in Virts : virt'[v] = virt[v] \/ (virt[v] \in {"NEW", "OK"} /\ virt'[v] = "ERR")
  BY DEF Marks, VirtMarked
<1>3. \A a \in PAs : Live(pa'[a]) <=> Live(pa[a])
  BY <1>1 DEF Live
<1>4. StatesR'
  BY <1>1, <1>2 DEF StatesR
<1>5. Owned'
  BY <1>1, <1>2 DEF Owned, Alloc
<1>6. Linked'
  BY <1>2, <1>3, LinkedFrame
<1>7. Pending'
  BY <1>1, <1>2 DEF Pending
<1>8. LocalsR'
  BY <1>1, <1>3 DEF LocalsR
<1> QED BY <1>4, <1>5, <1>6, <1>7, <1>8

\* A virt that is on its PA, a remote PA and a remote virt, as the books have
\* them after the step.
NewVirt(v) == /\ virt'[v] = "NEW" /\ connected_through[v] = committed_to'[v]
              /\ PastVirt(PaOf(v), v)' /\ HasPaR(PaOf(v))'

NewRpa(r) == /\ r[1] # r[2] /\ HasPaR(<<r[1], r[3]>>)' /\ PastRemote(<<r[1], r[3]>>, r[2])'
             /\ \A p \in {r[1], r[2]} : pa'[<<p, r[3]>>] \in {"NEW", "OK"}

NewRvirt(rv) ==
  LET n == VirtNet[rv[3]] IN
  /\ <<rv[1], rv[2], n>> \in rpas /\ PastRemoteVirt(<<rv[1], n>>, rv[3])'
  /\ virt'[rv[3]] \in {"NEW", "OK"} \/ dv' = rv[3]
  /\ connected_through[rv[3]] = rv[2]

\* What a step leaves alone stays right, what it adds has to be.
LEMMA RecommitBooks ==
  ASSUME RInv, Recommit, Recommit', TypeOK', Onwards, UNCHANGED recommitConst, Marks,
         \A a \in PAs : HasPaR(a) => HasPaR(a)',
         \A v \in Virts : committed_to'[v] # NULL
           => committed_to'[v] = committed_to[v] \/ NewVirt(v),
         rpas \subseteq rpas', \A r \in rpas' \ rpas : NewRpa(r),
         \A rv \in rvirts' \ rvirts : NewRvirt(rv),
         dv' = dv \/ dv = NULL \/ \A rv \in rvirts' : rv[3] # dv
  PROVE  VirtSetR' /\ RpaSetR' /\ RvirtSetR' /\ ErrSet'
<1> USE NetApiAssumption DEF RInv, recommitConst
<1>1. \A a \in PAs : pa'[a] = pa[a] \/ PaMarked(a)
  BY DEF Marks
<1>2. \A v \in Virts : virt'[v] = virt[v] \/ VirtMarked(v)
  BY DEF Marks
<1>3. \A v \in Virts : PaOf(v)' = PaOf(v)
  BY DEF PaOf
<1>4. VirtSetR'
  <2> SUFFICES ASSUME NEW v \in Virts, committed_to'[v] # NULL
               PROVE  /\ virt'[v] = "OK" \/ (virt'[v] = "NEW" /\ PastVirt(PaOf(v), v)')
                      /\ connected_through'[v] = committed_to'[v]
                      /\ HasPaR(PaOf(v))'
    BY DEF VirtSetR
  <2>1. CASE NewVirt(v)
    BY <2>1 DEF NewVirt
  <2>2. CASE committed_to'[v] = committed_to[v]
    <3>1. virt'[v] = virt[v]
      BY <1>2 DEF VirtMarked
    <3>2. /\ virt[v] = "OK" \/ (virt[v] = "NEW" /\ PastVirt(PaOf(v), v))
          /\ connected_through[v] = committed_to[v] /\ HasPaR(PaOf(v))
      BY <2>2 DEF BooksR, VirtSetR
    <3>3. PICK b \in PAs : b = PaOf(v)
      BY <2>2, <3>2, PaOfTyped
    <3>4. HasPaR(b)' /\ (PastVirt(b, v) => PastVirt(b, v)')
      BY <3>2, <3>3 DEF Onwards
    <3>5. HasPaR(PaOf(v))'
      BY <1>3, <3>3, <3>4 DEF HasPaR, Visited
    <3>6. PastVirt(PaOf(v), v) => PastVirt(PaOf(v), v)'
      BY <1>3, <3>3, <3>4 DEF PastVirt, Visited
    <3> QED BY <2>2, <3>1, <3>2, <3>5, <3>6
  <2> QED BY <2>1, <2>2
<1>5. RpaSetR'
  <2> SUFFICES ASSUME NEW r \in rpas'
               PROVE  /\ r[1] # r[2] /\ HasPaR(<<r[1], r[3]>>)'
                      /\ \A p \in {r[1], r[2]} :
                           \/ pa'[<<p, r[3]>>] = "OK"
                           \/ pa'[<<p, r[3]>>] = "NEW" /\ PastRemote(<<r[1], r[3]>>, r[2])'
    BY DEF RpaSetR
  <2>1. CASE NewRpa(r)
    BY <2>1 DEF NewRpa
  <2>2. CASE r \in rpas
    <3>1. <<r[1], r[3]>> \in PAs /\ <<r[2], r[3]>> \in PAs /\ r[2] \in Physes
      BY <2>2 DEF TypeOK, BookTypes, PAs
    <3>2. pa'[<<r[1], r[3]>>] = pa[<<r[1], r[3]>>] /\ pa'[<<r[2], r[3]>>] = pa[<<r[2], r[3]>>]
      BY <1>1, <2>2, <3>1 DEF PaMarked
    <3>3. /\ r[1] # r[2] /\ HasPaR(<<r[1], r[3]>>)
          /\ \A p \in {r[1], r[2]} :
               \/ pa[<<p, r[3]>>] = "OK"
               \/ pa[<<p, r[3]>>] = "NEW" /\ PastRemote(<<r[1], r[3]>>, r[2])
      BY <2>2 DEF BooksR, RpaSetR
    <3>4. HasPaR(<<r[1], r[3]>>)'
          /\ (PastRemote(<<r[1], r[3]>>, r[2]) => PastRemote(<<r[1], r[3]>>, r[2])')
      BY <3>1, <3>3 DEF Onwards
    <3> QED BY <3>2, <3>3, <3>4
  <2> QED BY <2>1, <2>2
<1>6. RvirtSetR'
  <2> SUFFICES ASSUME NEW rv \in rvirts', NEW n \in Nets, n = VirtNet[rv[3]]
               PROVE  /\ <<rv[1], rv[2], n>> \in rpas'
                      /\ \/ virt'[rv[3]] = "OK"
                         \/ dv' = rv[3]
                         \/ virt'[rv[3]] = "NEW" /\ PastRemoteVirt(<<rv[1], n>>, rv[3])'
                      /\ pa'[<<rv[1], n>>] = "NEW" => PastRemoteVirt(<<rv[1], n>>, rv[3])'
                      /\ virt'[rv[3]] \in {"NEW", "OK"} => connected_through'[rv[3]] = rv[2]
    BY DEF RvirtSetR, TypeOK, BookTypes
  <2>0. rv[3] \in Virts /\ <<rv[1], n>> \in PAs
    BY DEF TypeOK, BookTypes, PAs
  <2>1. CASE NewRvirt(rv)
    BY <2>1 DEF NewRvirt
  <2>2. CASE rv \in rvirts
    <3>1. /\ <<rv[1], rv[2], n>> \in rpas
          /\ \/ virt[rv[3]] = "OK"
             \/ dv = rv[3]
             \/ virt[rv[3]] = "NEW" /\ PastRemoteVirt(<<rv[1], n>>, rv[3])
          /\ pa[<<rv[1], n>>] = "NEW" => PastRemoteVirt(<<rv[1], n>>, rv[3])
          /\ virt[rv[3]] \in {"NEW", "OK"} => connected_through[rv[3]] = rv[2]
      BY <2>2 DEF BooksR, RvirtSetR
    <3>2. PastRemoteVirt(<<rv[1], n>>, rv[3]) => PastRemoteVirt(<<rv[1], n>>, rv[3])'
      BY <2>0 DEF Onwards
    <3>3. pa'[<<rv[1], n>>] = "NEW" => pa[<<rv[1], n>>] = "NEW"
      BY <1>1, <2>0 DEF PaMarked
    <3>4. virt'[rv[3]] = virt[rv[3]] \/ (virt'[rv[3]] = "ERR" /\ dv' = rv[3])
      BY <1>2, <2>0, <2>2 DEF VirtMarked
    <3>5. dv = rv[3] => dv' = rv[3]
      BY <2>0, NotNull
    <3> QED BY <3>1, <3>2, <3>3, <3>4, <3>5
  <2> QED BY <2>1, <2>2
<1>7. ErrSet'
  <2>1. \A a \in PAs : Live(pa[a]) => Live(pa'[a])
    BY <1>1 DEF PaMarked, Live
  <2>2. ASSUME NEW a \in PAs, pa'[a] = "ERR", ~is_local[a[1]]
        PROVE  \E p \in Physes : /\ is_local[p] /\ Live(pa'[<<p, a[2]>>])
                                 /\ PastRemote(<<p, a[2]>>, a[1])'
    <3>1. \E p \in Physes : /\ is_local[p] /\ Live(pa[<<p, a[2]>>])
                            /\ PastRemote(<<p, a[2]>>, a[1])'
      <4>1. CASE PaMarked(a)
        BY <2>2, <4>1 DEF PaMarked, SeenPa
      <4>2. CASE pa[a] = "ERR"
        <5>1. PICK p \in Physes : /\ is_local[p] /\ Live(pa[<<p, a[2]>>])
                                  /\ PastRemote(<<p, a[2]>>, a[1])
          BY <2>2, <4>2 DEF BooksR, ErrSet
        <5>2. <<p, a[2]>> \in PAs /\ a[1] \in Physes
          BY PaPair DEF PAs
        <5> QED BY <5>1, <5>2 DEF Onwards
      <4> QED BY <1>1, <2>2, <4>1, <4>2
    <3>2. \A p \in Physes : <<p, a[2]>> \in PAs
      BY PaPair DEF PAs
    <3> QED BY <2>1, <3>1, <3>2
  <2>3. ASSUME NEW v \in Virts, virt'[v] = "ERR"
        PROVE  /\ connected_through[v] # NULL
               /\ ~is_local[connected_through[v]] =>
                    \E p \in Physes : /\ is_local[p] /\ Live(pa'[<<p, VirtNet[v]>>])
                                      /\ PastRemoteVirt(<<p, VirtNet[v]>>, v)'
    <3>1. \A p \in Physes : <<p, VirtNet[v]>> \in PAs
      BY DEF PAs
    <3>2. CASE VirtMarked(v)
      BY <2>1, <3>1, <3>2 DEF VirtMarked, SeenVirt
    <3>3. CASE virt[v] = "ERR"
      <4>1. /\ connected_through[v] # NULL
            /\ ~is_local[connected_through[v]] =>
                 \E p \in Physes : /\ is_local[p] /\ Live(pa[<<p, VirtNet[v]>>])
                                   /\ PastRemoteVirt(<<p, VirtNet[v]>>, v)
        BY <3>3 DEF BooksR, ErrSet
      <4> QED BY <2>1, <3>1, <4>1 DEF Onwards
    <3> QED BY <1>2, <2>3, <3>2, <3>3
  <2> QED BY <2>2, <2>3 DEF ErrSet
<1> QED BY <1>4, <1>5, <1>6, <1>7

\* What is made stays made while the same PAs are to be walked.
LEMMA SameMade ==
  ASSUME Recommit, Recommit', UNCHANGED <<pas, left, committed_as_local>>,
         \A a \in PAs : pa'[a] = pa[a] \/ PaMarked(a)
  PROVE  \A a \in PAs : HasPaR(a)' <=> HasPaR(a)
<1>1. \A a \in PAs : Visited(a)' <=> Visited(a)
  BY DEF Visited
<1> QED BY <1>1 DEF HasPaR, PaMarked

\* The invariant after a step, from its parts.
LEMMA RecommitStep ==
  ASSUME Recommit', TypeOK', aborted' = "no", ObjectsR', LoopsR', BooksR'
  PROVE  IInv'
BY InRecommit DEF RInv

\* A step of the loops in which no operation is called.
LEMMA LoopStep ==
  ASSUME RInv, Recommit, Recommit', TypeOK', Onwards, LoopsR', UNCHANGED objectVars,
         UNCHANGED <<committed_to, rpas, rvirts, policing, kernel, aborted, left, pas>>,
         dv' = dv \/ dv = NULL \/ \A rv \in rvirts : rv[3] # dv
  PROVE  IInv'
<1> USE DEF RInv
<1>1. UNCHANGED recommitConst /\ UNCHANGED <<pa, virt, committed_as_local>>
  BY DEF objectVars, recommitConst
<1>2. Marks
  BY <1>1 DEF Marks
<1>3. ObjectsR'
  BY <1>1, <1>2, RecommitObjects
<1>4. \A a \in PAs : HasPaR(a)' <=> HasPaR(a)
  BY <1>1, SameMade
<1>5. VirtSetR' /\ RpaSetR' /\ RvirtSetR' /\ ErrSet'
  BY <1>1, <1>2, <1>4, RecommitBooks
<1>6. \A k : Keys(k)' = Keys(k)
  BY KeysSame
<1>7. BooksMatchKernel'
  BY <1>6, NotNull DEF BooksR, BooksMatchKernel, TypeOK, BookTypes
<1>8. RateSet' /\ VirtFacts' /\ \A a \in PAs : a \in Keys("pa")' <=> HasPaR(a)'
  BY <1>4, <1>6 DEF BooksR, RateSet, VirtFacts
<1>9. BooksR'
  BY <1>5, <1>7, <1>8 DEF BooksR
<1> QED BY <1>3, <1>9, RecommitStep

\* There is one local PA in a net.
LEMMA OnlyLocal ==
  ASSUME RInv, NEW a \in PAs, NEW b \in PAs, a[2] = b[2], is_local[a[1]], is_local[b[1]],
         Live(pa[a]), Live(pa[b])
  PROVE  a = b
BY DEF RInv, ObjectsR, LocalsR

\* A PA that is made is local.
LEMMA MadeLocal ==
  ASSUME RInv, NEW a \in PAs, HasPaR(a)
  PROVE  is_local[a[1]] /\ Live(pa[a])
BY PaPair DEF RInv, ObjectsR, LocalsR, HasPaR, Live

\* The PA that commit_pa works on.
LEMMA Current ==
  ASSUME RInv, pc \in {"virts", "remotes", "rvirts"}
  PROVE  /\ cur \in PAs /\ cur[1] \in Physes /\ cur[2] \in Nets /\ cur = <<cur[1], cur[2]>>
         /\ is_local[cur[1]] /\ Live(pa[cur]) /\ Visited(cur) /\ HasPaR(cur)
         /\ cur \notin pas /\ cur[1] \notin left /\ committed_as_local[cur[1]]
         /\ pa[cur] \in {"NEW", "OK"}
<1>1. cur \in PAs
  BY DEF RInv, TypeOK, LoopTypes
<1>2. /\ cur \notin pas /\ cur[1] \notin left /\ committed_as_local[cur[1]]
      /\ is_local[cur[1]] /\ pa[cur] \in {"NEW", "OK"}
  BY DEF RInv, LoopsR, Walking, Recommit
<1>3. Visited(cur)
  BY <1>2 DEF Visited, Recommit
<1> QED BY <1>1, <1>2, <1>3, PaPair DEF HasPaR, Live

\* CommitPhys: on to the PAs of a local phys.
LEMMA CommitPhysStep ==
  ASSUME IInv, NEW q \in Physes, CommitPhys(q), TypeOK'
  PROVE  IInv'
<1> USE DEF RInv
<1>1. pc = "commit" /\ pc' = "commit" /\ Recommit /\ Recommit' /\ dv = NULL /\ dp = NULL
      /\ pas = {} /\ q \in left
      /\ left' = left \ {q} /\ pas' = {a \in PAs : a[1] = q /\ pa[a] # "none"}
  BY DEF CommitPhys, Running, Recommit
<1>2. RInv
  BY <1>1, InRecommit
<1>3. UNCHANGED recommitConst
      /\ UNCHANGED <<pa, virt, committed_to, rpas, rvirts, policing, kernel, cur, todo, cv, dv,
                     dp>>
      /\ cur = NULL
  BY <1>1, <1>2
     DEF CommitPhys, objVars, userVars, physAttr, linkVars, ctxVars, recommitConst, TypeOK,
     LoopTypes
<1>4. \A p \in Physes : committed_as_local'[p] <=> committed_as_local[p] \/ p = q
  BY <1>2 DEF CommitPhys, TypeOK, BookTypes
<1>5. is_local[q] /\ Alloc(phys[q])
  BY <1>1, <1>2 DEF LoopsR, Walking
<1>6. ObjectsR'
  <2>1. StatesR' /\ Owned' /\ Pending'
    BY <1>2, <1>3 DEF ObjectsR, StatesR, Owned, Pending, recommitConst
  <2>2. Linked'
    BY <1>2, <1>3 DEF ObjectsR, Linked, recommitConst, PaOf
  <2>3. LocalsR'
    BY <1>1, <1>2, <1>3, <1>4, <1>5, PaPair DEF ObjectsR, LocalsR, recommitConst
  <2> QED BY <2>1, <2>2, <2>3 DEF ObjectsR
<1>7. LoopsR'
  <2>1. Walking'
    BY <1>1, <1>2, <1>3, <1>4, <1>5 DEF LoopsR, Walking, recommitConst, Alloc
  <2> QED BY <1>1, <2>1 DEF LoopsR, InVirts, InRemotes, InRvirts
<1>8. \A a \in PAs : Visited(a) => Visited(a)' /\ a[1] # q
  BY <1>1 DEF Visited
<1>9. Onwards
  BY <1>1, <1>3, <1>8, NotNull DEF Onwards, PastVirt, PastRemote, PastRemoteVirt
<1>10. \A a \in PAs : HasPaR(a)' <=> HasPaR(a)
  <2> SUFFICES ASSUME NEW a \in PAs PROVE HasPaR(a)' <=> HasPaR(a)
    OBVIOUS
  <2>1. CASE a[1] # q
    <3>1. Visited(a)' <=> Visited(a)
      BY <1>1, <2>1 DEF Visited
    <3> QED BY <1>3, <1>4, <2>1, <3>1, PaPair DEF HasPaR
  <2>2. CASE a[1] = q
    <3>1. ~Visited(a) /\ (pa[a] # "none" => ~Visited(a)')
      BY <1>1, <2>2 DEF Visited
    <3>2. ~committed_as_local[q] => pa[a] # "OK"
      BY <1>1, <1>2, <2>2 DEF ObjectsR, LocalsR
    <3> QED BY <1>3, <1>4, <2>2, <3>1, <3>2, PaPair DEF HasPaR
  <2> QED BY <2>1, <2>2
<1>11. BooksR'
  <2>1. VirtSetR' /\ RpaSetR' /\ RvirtSetR' /\ ErrSet'
    BY <1>1, <1>2, <1>3, <1>9, <1>10, RecommitBooks DEF Marks
  <2>2. RateSet' /\ VirtFacts' /\ BooksMatchKernel' /\ \A a \in PAs : a \in Keys("pa")'
          <=> HasPaR(a)'
    BY <1>2, <1>3, <1>10, KeysSame DEF BooksR, RateSet, VirtFacts, BooksMatchKernel
  <2> QED BY <2>1, <2>2 DEF BooksR
<1>12. aborted' = "no"
  BY <1>2, <1>3 DEF recommitConst
<1> QED BY <1>1, <1>6, <1>7, <1>11, <1>12, RecommitStep

\* CreatePa: a local PA is made, or is not and commit_pa gives it up.
LEMMA CreatePaStep ==
  ASSUME Clean, IInv, NEW b \in PAs, CreatePa(b), TypeOK'
  PROVE  IInv'
<1> USE DEF RInv
<1>1. pc = "commit" /\ Recommit /\ dv = NULL /\ dp = NULL /\ b \in pas /\ pas' = pas \ {b}
  BY DEF CreatePa, Running, Recommit
<1>2. RInv
  BY <1>1, InRecommit
<1>3. /\ UNCHANGED recommitConst
      /\ UNCHANGED <<virt, committed_as_local, committed_to, rpas, rvirts, policing, left, cv,
                     dv, dp>>
      /\ cur = NULL /\ cv = NULL /\ todo = {}
  BY <1>1, <1>2
     DEF CreatePa, userVars, physAttr, linkVars, bookVars, ctxVars, recommitConst, TypeOK,
     LoopTypes,
     LoopsR, Walking
<1>4. /\ is_local[b[1]] /\ committed_as_local[b[1]] /\ b[1] \notin left
      /\ pa[b] \in {"NEW", "OK", "ERR"}
      /\ ~Visited(b)
  BY <1>1, <1>2 DEF LoopsR, Walking, Alloc, ObjectsR, StatesR, Visited
<1>5. PICK err \in {"OK", "NETLINK", "NOMEM"} :
        /\ pa[b] # "NEW" => err = "OK"
        /\ kernel' = IF pa[b] = "NEW" /\ err = "OK" THEN kernel \cup {PaFact(b)} ELSE kernel
        /\ pa' = [pa EXCEPT ![b] = MarkCommitErr(pa[b], FALSE, err)]
        /\ IF StateOk(MarkCommitErr(pa[b], FALSE, err))
           THEN pc' = "virts" /\ cur' = b /\ todo' = NewVirts(b)
           ELSE UNCHANGED <<pc, cur, todo>>
  <2>1. \E err \in IF pa[b] = "NEW" THEN AddResults ELSE {"OK"} :
          /\ kernel' \in IF pa[b] = "NEW" THEN Added(PaFact(b), err) ELSE {kernel}
          /\ pa' = [pa EXCEPT ![b] = MarkCommitErr(pa[b], FALSE, err)]
          /\ IF StateOk(MarkCommitErr(pa[b], FALSE, err))
             THEN pc' = "virts" /\ cur' = b /\ todo' = NewVirts(b)
             ELSE UNCHANGED <<pc, cur, todo>>
    BY DEF CreatePa
  <2>2. AddResults \subseteq {"OK", "NETLINK", "NOMEM"}
    BY CleanResults
  <2>3. \A err \in {"OK", "NETLINK", "NOMEM"} :
          Added(PaFact(b), err) = {IF err = "OK" THEN kernel \cup {PaFact(b)} ELSE kernel}
    BY DEF Added
  <2> QED BY <2>1, <2>2, <2>3
<1>6. pc' \in {"commit", "virts"} /\ Recommit'
  BY <1>1, <1>5 DEF Recommit
<1>7. \A a \in PAs : Visited(a)' <=> Visited(a) \/ a = b
  BY <1>1, <1>3, <1>4, <1>6 DEF Visited, Recommit
<1>8. Onwards
  <2>1. \A a \in PAs : Visited(a) => a # b /\ Visited(a)'
    BY <1>4, <1>7
  <2>2. \A a \in PAs : a # b => cur' # a
    BY <1>3, <1>5, NotNull
  <2> QED BY <2>1, <2>2 DEF Onwards, PastVirt, PastRemote, PastRemoteVirt
<1>9. CASE pa[b] # "NEW" \/ err = "OK"
  <2>1. pa' = pa
    BY <1>5, <1>9, NoMark, <1>2 DEF TypeOK, ObjTypes
  <2>2. Marks
    BY <1>3, <2>1 DEF Marks
  <2>3. ObjectsR'
    BY <1>2, <1>3, <2>2, RecommitObjects
  <2>4. \A a \in PAs : HasPaR(a)' <=> HasPaR(a) \/ (a = b /\ pa[a] = "NEW")
    BY <1>3, <1>4, <1>7, <2>1 DEF HasPaR
  <2>5. \A a \in PAs : a \in Keys("pa")' <=> a \in Keys("pa") \/ (a = b /\ pa[a] = "NEW")
    <3>1. CASE pa[b] = "NEW"
      <4>1. kernel' = kernel \cup {PaFact(b)} /\ PaFact(b)[1] = "pa" /\ PaFact(b)[2] = b
        BY <1>5, <1>9, <3>1 DEF PaFact
      <4>2. Keys("pa")' = Keys("pa") \cup {b}
        BY <4>1, KeysAdded
      <4> QED BY <3>1, <4>2
    <3>2. CASE pa[b] # "NEW"
      <4>1. Keys("pa")' = Keys("pa")
        BY <1>5, <3>2, KeysSame
      <4> QED BY <3>2, <4>1
    <3> QED BY <3>1, <3>2
  <2>6. \A k : k # "pa" => Keys(k)' = Keys(k)
    BY <1>5, KeysAdded, KeysSame DEF PaFact
  <2>7. VirtSetR' /\ RpaSetR' /\ RvirtSetR' /\ ErrSet'
    BY <1>1, <1>2, <1>3, <1>6, <1>8, <2>2, <2>4, RecommitBooks
  <2>8. VirtFacts'
    BY <1>2, <1>3, <1>5 DEF BooksR, VirtFacts, PaFact
  <2>9. BooksR'
    BY <1>2, <1>3, <2>4, <2>5, <2>6, <2>7, <2>8 DEF BooksR, RateSet, BooksMatchKernel
  <2>10. LoopsR'
    <3>1. CASE pa[b] = "ERR"
      <4>1. pc' = "commit" /\ cur' = NULL /\ todo' = {}
        BY <1>1, <1>3, <1>5, <1>9, <3>1 DEF MarkCommitErr, StateOk
      <4>2. Walking'
        BY <1>1, <1>2, <1>3, <2>1, <4>1 DEF LoopsR, Walking, Recommit, recommitConst
      <4> QED BY <4>1, <4>2 DEF LoopsR, InVirts, InRemotes, InRvirts
    <3>2. CASE pa[b] \in {"NEW", "OK"}
      <4>1. pc' = "virts" /\ cur' = b /\ todo' = NewVirts(b)
        BY <1>5, <1>9, <3>2 DEF MarkCommitErr, StateOk
      <4>2. Walking'
        BY <1>1, <1>2, <1>3, <1>4, <2>1, <3>2, <4>1 DEF LoopsR, Walking, Recommit, recommitConst
      <4>3. \A v \in NewVirts(b) : virt[v] = "NEW" /\ connected_through[v] # NULL /\ PaOf(v) = b
        BY <1>2, OnList DEF NewVirts, ConnectedVirts, ObjectsR
      <4>4. InVirts'
        BY <1>1, <1>3, <4>1, <4>3 DEF InVirts, recommitConst, PaOf
      <4> QED BY <4>1, <4>2, <4>4 DEF LoopsR, InRemotes, InRvirts
    <3> QED BY <1>4, <3>1, <3>2
  <2> QED BY <1>2, <1>3, <1>6, <2>3, <2>9, <2>10, RecommitStep DEF recommitConst
<1>10. CASE pa[b] = "NEW" /\ err # "OK"
  <2>1. /\ pa'[b] = "ERR" /\ (\A a \in PAs \ {b} : pa'[a] = pa[a]) /\ kernel' = kernel
        /\ pc' = "commit" /\ cur' = NULL /\ todo' = {}
    BY <1>1, <1>2, <1>3, <1>5, <1>10 DEF MarkCommitErr, StateOk, TypeOK, ObjTypes
  <2>2. ~HasPaR(b)
    BY <1>4, <1>10 DEF HasPaR
  <2>3. ASSUME NEW r \in rpas PROVE b # <<r[1], r[3]>> /\ b # <<r[2], r[3]>>
    <3>1. <<r[1], r[3]>> \in PAs /\ HasPaR(<<r[1], r[3]>>) /\ r[1] # r[2]
      BY <1>2 DEF BooksR, RpaSetR, TypeOK, BookTypes, PAs
    <3>2. is_local[r[1]] /\ Live(pa[<<r[1], r[3]>>])
      BY <1>2, <3>1, MadeLocal
    <3>3. Live(pa[b])
      BY <1>10 DEF Live
    <3>4. b[2] = r[3] => b = <<r[1], r[3]>>
      BY <1>2, <1>4, <3>1, <3>2, <3>3, OnlyLocal
    <3> QED BY <2>2, <3>1, <3>4
  <2>4. PaMarked(b)
    BY <1>4, <1>10, <2>1, <2>2, <2>3 DEF PaMarked
  <2>5. Marks
    BY <1>3, <2>1, <2>4 DEF Marks
  <2>6. ObjectsR'
    BY <1>2, <1>3, <2>5, RecommitObjects
  <2>7. \A a \in PAs : HasPaR(a)' <=> HasPaR(a)
    BY <1>3, <1>7, <2>1, <2>2 DEF HasPaR
  <2>8. VirtSetR' /\ RpaSetR' /\ RvirtSetR' /\ ErrSet'
    BY <1>1, <1>2, <1>3, <1>6, <1>8, <2>5, <2>7, RecommitBooks
  <2>9. BooksR'
    BY <1>2, <1>3, <2>1, <2>7, <2>8, KeysSame DEF BooksR, RateSet, BooksMatchKernel, VirtFacts
  <2>10. LoopsR'
    <3>1. Walking'
      BY <1>1, <1>2, <1>3, <2>1 DEF LoopsR, Walking, Recommit, recommitConst, TypeOK, LoopTypes
    <3> QED BY <2>1, <3>1 DEF LoopsR, InVirts, InRemotes, InRvirts
  <2> QED BY <1>2, <1>3, <1>6, <2>6, <2>9, <2>10, RecommitStep DEF recommitConst
<1> QED BY <1>9, <1>10

\* The loops go on in the net of the PA that commit_pa works on: what it has
\* come past stays past.
LEMMA InnerOnwards ==
  ASSUME RInv, pc \in {"virts", "remotes", "rvirts"}, UNCHANGED <<cur, pas, left>>,
         \/ pc' = "virts" /\ pc = "virts" /\ \A v \in Virts : v \in todo' /\ v # cv'
              => v \in todo /\ v # cv
         \/ pc = "virts" /\ pc' = "remotes" /\ todo = {}
         \/ pc = "remotes" /\ pc' = "remotes" /\ todo' \subseteq todo
         \/ pc = "remotes" /\ pc' = "rvirts" /\ todo = {}
         \/ pc = "rvirts" /\ pc' = "rvirts" /\ todo' \subseteq todo
         \/ pc = "rvirts" /\ pc' = "commit" /\ todo = {}
  PROVE  Recommit /\ Recommit' /\ Onwards
<1>1. Recommit /\ Recommit'
  BY DEF Recommit
<1>2. \A a \in PAs : Visited(a) <=> Visited(a)'
  BY <1>1 DEF Visited
<1> QED BY <1>1, <1>2 DEF Onwards, PastVirt, PastRemote, PastRemoteVirt

\* A remote PA of the net that commit_pa works on is a remote PA of cur.
LEMMA RpaOfCur ==
  ASSUME RInv, pc \in {"virts", "remotes", "rvirts"}, NEW r \in rpas, r[3] = cur[2]
  PROVE  r[1] = cur[1] /\ r = <<cur[1], r[2], cur[2]>> /\ r[2] \in Physes \ {cur[1]}
         /\ pa[<<r[2], cur[2]>>] \in {"NEW", "OK"} /\ ~is_local[r[2]]
<1>1. /\ <<r[1], r[3]>> \in PAs /\ <<r[2], r[3]>> \in PAs /\ r[2] \in Physes
      /\ r = <<r[1], r[2], r[3]>>
      /\ HasPaR(<<r[1], r[3]>>) /\ r[1] # r[2] /\ pa[<<r[2], r[3]>>] \in {"NEW", "OK"}
  BY DEF RInv, BooksR, RpaSetR, TypeOK, BookTypes, PAs
<1>2. /\ cur \in PAs /\ cur = <<cur[1], cur[2]>> /\ is_local[cur[1]] /\ Live(pa[cur])
  BY Current
<1>3. is_local[r[1]] /\ Live(pa[<<r[1], r[3]>>])
  BY <1>1, MadeLocal
<1>4. <<r[1], r[3]>> = cur
  BY <1>1, <1>2, <1>3, OnlyLocal
<1>5. Live(pa[<<r[2], r[3]>>])
  BY <1>1 DEF Live
<1>6. ~is_local[r[2]]
  BY <1>1, <1>2, <1>4, <1>5, OnlyLocal
<1> QED BY <1>1, <1>2, <1>4, <1>6

\* The virts that are committed in that net are connected through cur.
LEMMA CommittedToCur ==
  ASSUME RInv, pc \in {"virts", "remotes", "rvirts"}, NEW v \in Virts, VirtNet[v] = cur[2],
         committed_to[v] # NULL
  PROVE  connected_through[v] = cur[1] /\ committed_to[v] = cur[1]
<1>1. /\ cur \in PAs /\ cur = <<cur[1], cur[2]>> /\ is_local[cur[1]] /\ Live(pa[cur])
  BY Current
<1>2. connected_through[v] = committed_to[v] /\ HasPaR(PaOf(v))
  BY DEF RInv, BooksR, VirtSetR
<1>3. PaOf(v) \in PAs
  BY <1>2, PaOfTyped DEF RInv
<1>4. is_local[PaOf(v)[1]] /\ Live(pa[PaOf(v)]) /\ PaOf(v)[2] = VirtNet[v]
  BY <1>2, <1>3, MadeLocal DEF PaOf
<1>5. PaOf(v) = cur
  BY <1>1, <1>3, <1>4, OnlyLocal
<1> QED BY <1>1, <1>2, <1>5 DEF PaOf

\* What failed before commit_pa comes to it is local.
LEMMA ErrIsLocal ==
  ASSUME RInv, pc \in {"virts", "remotes", "rvirts"}
  PROVE  /\ pc = "virts" => \A a \in PAs : a[2] = cur[2] /\ pa[a] = "ERR" => is_local[a[1]]
         /\ pc \in {"virts", "remotes"} => \A v \in Virts : VirtNet[v] = cur[2] /\ virt[v] = "ERR"
                                              => is_local[connected_through[v]]
<1>1. /\ cur \in PAs /\ cur = <<cur[1], cur[2]>> /\ is_local[cur[1]] /\ Live(pa[cur]) /\ Recommit
  BY Current DEF Recommit
<1>2. ASSUME NEW p \in Physes, NEW n \in Nets, n = cur[2], is_local[p], Live(pa[<<p, n>>])
      PROVE  <<p, n>> = cur
  <2>1. <<p, n>> \in PAs
    BY DEF PAs
  <2> QED BY <1>1, <1>2, <2>1, OnlyLocal
<1>3. \A q : pc = "virts" => ~PastRemote(cur, q)
  BY DEF PastRemote
<1>4. \A v : pc \in {"virts", "remotes"} => ~PastRemoteVirt(cur, v)
  BY DEF PastRemoteVirt
<1>5. ASSUME pc = "virts", NEW a \in PAs, a[2] = cur[2], pa[a] = "ERR", ~is_local[a[1]]
      PROVE  FALSE
  <2>1. PICK p \in Physes : is_local[p] /\ Live(pa[<<p, a[2]>>]) /\ PastRemote(<<p, a[2]>>, a[1])
    BY <1>1, <1>5 DEF RInv, BooksR, ErrSet
  <2>2. <<p, a[2]>> = cur
    BY <1>2, <1>5, <2>1, PaPair
  <2> QED BY <1>3, <1>5, <2>1, <2>2
<1>6. ASSUME pc \in {"virts", "remotes"}, NEW v \in Virts, VirtNet[v] = cur[2], virt[v] = "ERR",
             ~is_local[connected_through[v]] PROVE FALSE
  <2>1. PICK p \in Physes : is_local[p] /\ Live(pa[<<p, VirtNet[v]>>])
             /\ PastRemoteVirt(<<p, VirtNet[v]>>, v)
    BY <1>1, <1>6 DEF RInv, BooksR, ErrSet
  <2>2. <<p, VirtNet[v]>> = cur
    BY <1>2, <1>6, <2>1, NetApiAssumption
  <2> QED BY <1>4, <1>6, <2>1, <2>2
<1> QED BY <1>5, <1>6

\* What a step that only moves the loops leaves alone.
LEMMA MovesOnly ==
  ASSUME UNCHANGED apiVars
  PROVE  UNCHANGED objectVars /\ UNCHANGED <<committed_to, rpas, rvirts, policing, aborted>>
BY DEF apiVars, objVars, physAttr, virtAttr, linkVars, bookVars, ctxVars, objectVars

\* CommitRemotes: on to the other PAs of the net.
LEMMA CommitRemotesStep ==
  ASSUME IInv, CommitRemotes, TypeOK'
  PROVE  IInv'
<1>1. /\ pc = "virts" /\ pc' = "remotes" /\ todo = {} /\ dv = NULL /\ dp = NULL
      /\ todo' = {q \in Physes \ {cur[1]} : pa[<<q, cur[2]>>] # "none"}
      /\ UNCHANGED <<kernel, cur, left, pas, cv, dv, dp>>
  BY DEF CommitRemotes, Running
<1>2. RInv /\ UNCHANGED objectVars /\ UNCHANGED <<committed_to, rpas, rvirts, policing, aborted>>
  BY <1>1, InRecommit, MovesOnly DEF CommitRemotes, Recommit
<1>3. Recommit /\ Recommit' /\ Onwards
  BY <1>1, <1>2, InnerOnwards
<1>4. /\ cur \in PAs /\ cur[2] \in Nets /\ cur = <<cur[1], cur[2]>> /\ is_local[cur[1]]
      /\ Live(pa[cur])
  BY <1>1, <1>2, Current
<1>5. cv = NULL
  BY <1>1, <1>2 DEF RInv, LoopsR, InVirts
<1>6. ASSUME NEW q \in Physes \ {cur[1]}, pa[<<q, cur[2]>>] # "none"
      PROVE  pa[<<q, cur[2]>>] \in {"NEW", "OK"}
  <2>1. PICK a \in PAs : a = <<q, cur[2]>>
    BY <1>4 DEF PAs
  <2>2. pa[a] \in {"NEW", "OK", "ERR"}
    BY <1>2, <1>6, <2>1 DEF RInv, ObjectsR, StatesR
  <2>3. ASSUME pa[a] = "ERR" PROVE FALSE
    <3>1. is_local[a[1]]
      BY <1>1, <1>2, <2>1, <2>3, ErrIsLocal
    <3>2. a = cur
      BY <1>2, <1>4, <2>1, <2>3, <3>1, OnlyLocal DEF Live
    <3> QED BY <1>4, <2>1, <3>2
  <2> QED BY <2>1, <2>2, <2>3
<1>7. LoopsR'
  <2>1. Walking'
    BY <1>1, <1>2, <1>3 DEF RInv, LoopsR, Walking, objectVars
  <2>2. InRemotes'
    BY <1>1, <1>2, <1>5, <1>6 DEF InRemotes, objectVars
  <2> QED BY <1>1, <2>1, <2>2 DEF LoopsR, InVirts, InRvirts
<1> QED BY <1>1, <1>2, <1>3, <1>7, LoopStep

\* SkipRemotePa: neither PA is new.
LEMMA SkipRemotePaStep ==
  ASSUME IInv, NEW q \in Physes, SkipRemotePa(q), TypeOK'
  PROVE  IInv'
<1>1. /\ pc = "remotes" /\ pc' = "remotes" /\ dv = NULL /\ dp = NULL /\ todo' = todo \ {q}
      /\ UNCHANGED <<kernel, cur, left, pas, cv, dv, dp>>
  BY DEF SkipRemotePa, Running
<1>2. RInv /\ UNCHANGED objectVars /\ UNCHANGED <<committed_to, rpas, rvirts, policing, aborted>>
  BY <1>1, InRecommit, MovesOnly DEF SkipRemotePa, Recommit
<1>3. Recommit /\ Recommit' /\ Onwards
  BY <1>1, <1>2, InnerOnwards
<1>4. LoopsR'
  <2>1. Walking'
    BY <1>1, <1>2, <1>3 DEF RInv, LoopsR, Walking, objectVars
  <2>2. InRemotes'
    BY <1>1, <1>2 DEF RInv, LoopsR, InRemotes, objectVars
  <2> QED BY <1>1, <2>1, <2>2 DEF LoopsR, InVirts, InRvirts
<1> QED BY <1>1, <1>2, <1>3, <1>4, LoopStep

\* CommitRemoteVirts: on to the virts of the remote PAs.
LEMMA CommitRemoteVirtsStep ==
  ASSUME IInv, CommitRemoteVirts, TypeOK'
  PROVE  IInv'
<1>1. /\ pc = "remotes" /\ pc' = "rvirts" /\ todo = {} /\ dv = NULL /\ dp = NULL
      /\ todo' = UNION {ConnectedVirts(<<r[2], r[3]>>) : r \in Remotes(cur)}
      /\ UNCHANGED <<kernel, cur, left, pas, cv, dv, dp>>
  BY DEF CommitRemoteVirts, Running
<1>2. RInv /\ UNCHANGED objectVars /\ UNCHANGED <<committed_to, rpas, rvirts, policing, aborted>>
  BY <1>1, InRecommit, MovesOnly DEF CommitRemoteVirts, Recommit
<1>3. Recommit /\ Recommit' /\ Onwards
  BY <1>1, <1>2, InnerOnwards
<1>5. cv = NULL
  BY <1>1, <1>2 DEF RInv, LoopsR, InRemotes
<1>6. ASSUME NEW v \in todo'
      PROVE  /\ VirtNet[v] = cur[2] /\ virt[v] \in {"NEW", "OK"}
             /\ <<cur[1], connected_through[v], cur[2]>> \in rpas
  <2>1. PICK r \in Remotes(cur) : v \in ConnectedVirts(<<r[2], r[3]>>)
    BY <1>1
  <2>2. r \in rpas /\ r[3] = cur[2]
    BY <2>1 DEF Remotes
  <2>3. r = <<cur[1], r[2], cur[2]>> /\ r[2] \in Physes /\ ~is_local[r[2]]
    BY <1>1, <1>2, <2>2, RpaOfCur
  <2>4. v \in Virts /\ connected_through[v] # NULL /\ PaOf(v) = <<r[2], r[3]>>
    BY <1>2, <2>1, <2>2, OnList DEF RInv, ConnectedVirts, ObjectsR, TypeOK, BookTypes, PAs
  <2>5. connected_through[v] = r[2] /\ VirtNet[v] = cur[2]
    BY <2>2, <2>4 DEF PaOf
  <2>6. virt[v] # "ERR"
    BY <1>1, <1>2, <2>3, <2>4, <2>5, ErrIsLocal
  <2>7. virt[v] \in {"NEW", "OK"}
    BY <1>2, <2>4, <2>6 DEF RInv, ObjectsR, StatesR, Linked
  <2> QED BY <2>2, <2>3, <2>5, <2>7
<1>7. LoopsR'
  <2>1. Walking'
    BY <1>1, <1>2, <1>3 DEF RInv, LoopsR, Walking, objectVars
  <2>2. InRvirts'
    BY <1>1, <1>2, <1>5, <1>6 DEF InRvirts, objectVars
  <2> QED BY <1>1, <2>1, <2>2 DEF LoopsR, InVirts, InRemotes
<1> QED BY <1>1, <1>2, <1>3, <1>7, LoopStep

\* SkipRemoteVirt: neither the local PA nor the virt is new.
LEMMA SkipRemoteVirtStep ==
  ASSUME IInv, NEW v \in Virts, SkipRemoteVirt(v), TypeOK'
  PROVE  IInv'
<1>1. /\ pc = "rvirts" /\ pc' = "rvirts" /\ dv = NULL /\ dp = NULL /\ todo' = todo \ {v}
      /\ UNCHANGED <<kernel, cur, left, pas, cv, dv, dp>>
  BY DEF SkipRemoteVirt, Running
<1>2. RInv /\ UNCHANGED objectVars /\ UNCHANGED <<committed_to, rpas, rvirts, policing, aborted>>
  BY <1>1, InRecommit, MovesOnly DEF SkipRemoteVirt, Recommit
<1>3. Recommit /\ Recommit' /\ Onwards
  BY <1>1, <1>2, InnerOnwards
<1>4. LoopsR'
  <2>1. Walking'
    BY <1>1, <1>2, <1>3 DEF RInv, LoopsR, Walking, objectVars
  <2>2. InRvirts'
    BY <1>1, <1>2 DEF RInv, LoopsR, InRvirts, objectVars
  <2> QED BY <1>1, <2>1, <2>2 DEF LoopsR, InVirts, InRemotes
<1> QED BY <1>1, <1>2, <1>3, <1>4, LoopStep

\* CommitPaEnd: commit_pa returns.
LEMMA CommitPaEndStep ==
  ASSUME IInv, CommitPaEnd, TypeOK'
  PROVE  IInv'
<1>1. /\ pc = "rvirts" /\ pc' = "commit" /\ todo = {} /\ dv = NULL /\ dp = NULL /\ cur' = NULL
      /\ UNCHANGED <<kernel, left, pas, todo, cv, dv, dp>>
  BY DEF CommitPaEnd, Running
<1>2. RInv /\ UNCHANGED objectVars /\ UNCHANGED <<committed_to, rpas, rvirts, policing, aborted>>
  BY <1>1, InRecommit, MovesOnly DEF CommitPaEnd, Recommit
<1>3. Recommit /\ Recommit'
  BY <1>1 DEF Recommit
<1>4. Onwards
  <2>1. \A a \in PAs : Visited(a) <=> Visited(a)'
    BY <1>1, <1>3 DEF Visited
  <2> QED BY <1>1, <2>1 DEF Onwards, PastVirt, PastRemote, PastRemoteVirt
<1>5. LoopsR'
  <2>1. Walking'
    BY <1>1, <1>2, <1>3 DEF RInv, LoopsR, Walking, InRvirts, objectVars
  <2> QED BY <1>1, <2>1 DEF LoopsR, InVirts, InRemotes, InRvirts
<1> QED BY <1>1, <1>2, <1>3, <1>4, <1>5, LoopStep

\* A virt that commit_pa has not come to is not installed.
LEMMA NotYet ==
  ASSUME RInv, pc = "virts", NEW v \in todo, v # cv
  PROVE  committed_to[v] = NULL /\ PolicingOf(v) = {}
<1>1. v \in Virts /\ virt[v] = "NEW" /\ PaOf(v) = cur
  BY DEF RInv, LoopsR, InVirts, TypeOK, LoopTypes
<1>2. ~PastVirt(PaOf(v), v)
  BY <1>1 DEF PastVirt
<1>3. committed_to[v] = NULL
  BY <1>1, <1>2 DEF RInv, BooksR, VirtSetR
<1> QED BY <1>3 DEF RInv, BooksR, RateSet, PolicingOf

\* Nor does anyone see it.
LEMMA NoViewsYet ==
  ASSUME RInv, pc = "virts", NEW v \in todo, NEW rv \in rvirts
  PROVE  rv[3] # v
<1> SUFFICES ASSUME rv[3] = v PROVE FALSE
  OBVIOUS
<1>1. v \in Virts /\ virt[v] = "NEW" /\ PaOf(v) = cur /\ dv = NULL
  BY DEF RInv, LoopsR, InVirts, TypeOK, LoopTypes
<1>2. VirtNet[v] = cur[2] /\ cur = <<cur[1], cur[2]>>
  BY <1>1, Current DEF PaOf
<1>3. <<rv[1], rv[2], VirtNet[v]>> \in rpas /\ PastRemoteVirt(<<rv[1], VirtNet[v]>>, v)
  BY <1>1, NotNull DEF RInv, BooksR, RvirtSetR
<1>4. PICK r \in rpas : r = <<rv[1], rv[2], VirtNet[v]>>
  BY <1>3
<1>5. r[1] = cur[1]
  BY <1>2, <1>4, RpaOfCur
<1>6. PastRemoteVirt(cur, v)
  BY <1>2, <1>3, <1>4, <1>5
<1> QED BY <1>6 DEF PastRemoteVirt

\* A virt of the local PA fails, and is not installed.
LEMMA VirtFails ==
  ASSUME RInv, pc = "virts", pc' = "virts", TypeOK', NEW v \in todo, todo' = todo \ {v},
         cv \in {NULL, v}, cv' = NULL,
         virt' = [virt EXCEPT ![v] = "ERR"], committed_to' = [committed_to EXCEPT ![v] = NULL],
         UNCHANGED recommitConst,
         UNCHANGED <<pa, committed_as_local, rpas, rvirts, policing, left, pas, cur, dv, dp>>,
         PolicingOf(v) = {}, kernel' \subseteq kernel,
         Keys("virt")' = Keys("virt") \ {v}, \A k : k # "virt" => Keys(k)' = Keys(k)
  PROVE  IInv'
<1> USE DEF RInv
<1>1. v \in Virts /\ virt[v] = "NEW" /\ PaOf(v) = cur /\ connected_through[v] # NULL
  BY DEF LoopsR, InVirts, TypeOK, LoopTypes
<1>2. /\ virt'[v] = "ERR" /\ (\A w \in Virts \ {v} : virt'[w] = virt[w])
      /\ committed_to'[v] = NULL /\ \A w \in Virts \ {v} : committed_to'[w] = committed_to[w]
  BY <1>1 DEF TypeOK, ObjTypes, BookTypes
<1>3. Recommit /\ Recommit' /\ Onwards
  BY InnerOnwards
<1>4. connected_through[v] = cur[1] /\ is_local[cur[1]]
  BY <1>1, Current DEF PaOf
<1>5. VirtMarked(v)
  BY <1>1, <1>2, <1>4, NoViewsYet DEF VirtMarked
<1>6. Marks
  BY <1>2, <1>5 DEF Marks
<1>7. ObjectsR'
  BY <1>6, RecommitObjects
<1>8. \A a \in PAs : HasPaR(a)' <=> HasPaR(a)
  BY <1>3, <1>6, SameMade DEF Marks
<1>9. VirtSetR' /\ RpaSetR' /\ RvirtSetR' /\ ErrSet'
  BY <1>2, <1>3, <1>6, <1>8, RecommitBooks
<1>10. RateSet'
  <2>1. \A x \in policing : x[1] \in Virts /\ x[1] # v
    BY DEF PolicingOf, TypeOK, BookTypes
  <2> QED BY <1>2, <2>1 DEF BooksR, RateSet
<1>11. VirtFacts'
  <2> SUFFICES ASSUME NEW f \in kernel', f[1] = "virt" PROVE f[3][1] = committed_to'[f[2]]
    BY DEF VirtFacts
  <2>1. f[2] \in Keys("virt")'
    BY DEF Keys
  <2>2. f[2] \in Virts \ {v}
    BY <2>1 DEF BooksR, BooksMatchKernel
  <2> QED BY <1>2, <2>2 DEF BooksR, VirtFacts
<1>12. BooksMatchKernel'
  BY <1>1, <1>2 DEF BooksR, BooksMatchKernel
<1>13. BooksR'
  BY <1>8, <1>9, <1>10, <1>11, <1>12 DEF BooksR
<1>14. LoopsR'
  <2>1. Walking'
    BY <1>3 DEF LoopsR, Walking, recommitConst
  <2>2. InVirts'
    <3>1. \A w \in todo' : w \in Virts \ {v} /\ w \in todo
      BY DEF TypeOK, LoopTypes
    <3> QED BY <1>2, <3>1 DEF LoopsR, InVirts, recommitConst, PaOf
  <2> QED BY <2>1, <2>2 DEF LoopsR, InRemotes, InRvirts
<1> QED BY <1>3, <1>7, <1>13, <1>14, RecommitStep DEF recommitConst

\* AddVirt: a virt is installed on the local PA, or is not.
LEMMA AddVirtStep ==
  ASSUME Clean, IInv, NEW v \in Virts, AddVirt(v), TypeOK'
  PROVE  IInv'
<1> USE DEF RInv
<1>1. pc = "virts" /\ pc' = "virts" /\ dv = NULL /\ dp = NULL /\ cv = NULL /\ v \in todo
  BY DEF AddVirt, Running
<1>2. /\ RInv /\ UNCHANGED recommitConst
      /\ UNCHANGED <<pa, committed_as_local, rpas, rvirts, policing, left, pas, cur, dv, dp>>
  BY <1>1, InRecommit DEF AddVirt, Recommit, userVars, physAttr, linkVars, ctxVars, recommitConst
<1>3. virt[v] = "NEW" /\ PaOf(v) = cur /\ connected_through[v] # NULL
  BY <1>1, <1>2 DEF LoopsR, InVirts
<1>4. committed_to[v] = NULL /\ PolicingOf(v) = {}
  BY <1>1, <1>2, NotYet, NotNull
<1>5. PICK err \in {"OK", "NETLINK", "NOMEM"} :
        /\ kernel' \in Added(VirtFact(v), err)
        /\ virt' = [virt EXCEPT ![v] = MarkCommitErr(@, FALSE, err)]
        /\ IF err = "OK"
           THEN /\ committed_to' = [committed_to EXCEPT ![v] = cur[1]]
                /\ cv' = v /\ UNCHANGED todo
           ELSE todo' = todo \ {v} /\ UNCHANGED <<committed_to, cv>>
  BY CleanResults DEF AddVirt
<1>6. v \notin Keys("virt")
  BY <1>2, <1>4 DEF BooksR, BooksMatchKernel
<1>7. CASE err # "OK"
  <2>1. kernel' = kernel /\ virt' = [virt EXCEPT ![v] = "ERR"]
    BY <1>3, <1>5, <1>7 DEF Added, MarkCommitErr
  <2>2. committed_to' = [committed_to EXCEPT ![v] = NULL] /\ todo' = todo \ {v} /\ cv' = NULL
    BY <1>1, <1>2, <1>4, <1>5, <1>7 DEF TypeOK, BookTypes
  <2>3. \A k : Keys(k)' = Keys(k)
    BY <2>1, KeysSame
  <2>4. Keys("virt")' = Keys("virt") \ {v}
    BY <1>6, <2>3
  <2> QED BY <1>1, <1>2, <1>4, <2>1, <2>2, <2>3, <2>4, VirtFails
<1>8. CASE err = "OK"
  <2>1. kernel' = kernel \cup {VirtFact(v)} /\ virt' = virt
    BY <1>2, <1>5, <1>8, NoMark DEF Added, TypeOK, ObjTypes
  <2>2. /\ todo' = todo /\ cv' = v /\ committed_to'[v] = cur[1]
        /\ \A w \in Virts \ {v} : committed_to'[w] = committed_to[w]
    BY <1>2, <1>5, <1>8 DEF TypeOK, BookTypes
  <2>3. Keys("virt")' = Keys("virt") \cup {v} /\ \A k : k # "virt" => Keys(k)' = Keys(k)
    <3>1. VirtFact(v)[1] = "virt" /\ VirtFact(v)[2] = v
      BY DEF VirtFact
    <3> QED BY <2>1, <3>1, KeysAdded
  <2>4. Recommit /\ Recommit' /\ Onwards
    BY <1>1, <1>2, <2>2, InnerOnwards, NotNull
  <2>5. /\ cur \in PAs /\ cur[1] \in Physes /\ cur = <<cur[1], cur[2]>> /\ HasPaR(cur)
        /\ Visited(cur)
        /\ connected_through[v] = cur[1]
    BY <1>1, <1>2, <1>3, Current DEF PaOf
  <2>6. Marks
    BY <1>2, <2>1 DEF Marks
  <2>7. ObjectsR'
    BY <1>2, <2>6, RecommitObjects
  <2>8. \A a \in PAs : HasPaR(a)' <=> HasPaR(a)
    BY <1>2, <2>4, <2>6, SameMade DEF Marks
  <2>9. NewVirt(v)
    <3>1. PaOf(v)' = cur /\ cur' = cur
      BY <1>2, <1>3 DEF PaOf, recommitConst
    <3>2. HasPaR(PaOf(v))'
      BY <2>5, <2>8, <3>1 DEF HasPaR, Visited
    <3>3. PastVirt(PaOf(v), v)'
      BY <1>2, <2>2, <2>4, <2>5, <3>1 DEF PastVirt, Visited
    <3> QED BY <1>3, <2>1, <2>2, <2>5, <3>2, <3>3 DEF NewVirt
  <2>10. VirtSetR' /\ RpaSetR' /\ RvirtSetR' /\ ErrSet'
    BY <1>2, <2>2, <2>4, <2>6, <2>8, <2>9, RecommitBooks
  <2>11. RateSet'
    BY <1>2, <2>2, <2>5, NotNull DEF BooksR, RateSet, TypeOK, BookTypes
  <2>12. VirtFacts'
    <3> SUFFICES ASSUME NEW f \in kernel', f[1] = "virt" PROVE f[3][1] = committed_to'[f[2]]
      BY DEF VirtFacts
    <3>1. CASE f = VirtFact(v)
      BY <2>2, <2>5, <3>1 DEF VirtFact
    <3>2. CASE f \in kernel
      <4>1. f[2] \in Keys("virt")
        BY <3>2 DEF Keys
      <4>2. f[2] \in Virts \ {v}
        BY <1>2, <1>6, <4>1 DEF BooksR, BooksMatchKernel
      <4> QED BY <1>2, <2>2, <3>2, <4>2 DEF BooksR, VirtFacts
    <3> QED BY <2>1, <3>1, <3>2
  <2>13. BooksMatchKernel'
    BY <1>2, <2>2, <2>3, <2>5, NotNull DEF BooksR, BooksMatchKernel
  <2>14. BooksR'
    BY <1>2, <2>3, <2>8, <2>10, <2>11, <2>12, <2>13 DEF BooksR
  <2>15. LoopsR'
    <3>1. Walking'
      BY <1>1, <1>2, <2>4 DEF LoopsR, Walking, recommitConst
    <3>2. InVirts'
      <4>1. PolicingOf(v)' = {}
        BY <1>2, <1>4 DEF PolicingOf
      <4> QED BY <1>1, <1>2, <2>1, <2>2, <4>1 DEF LoopsR, InVirts, recommitConst, PaOf, PolicingOf
    <3> QED BY <1>1, <3>1, <3>2 DEF LoopsR, InRemotes, InRvirts
  <2> QED BY <1>2, <2>4, <2>7, <2>14, <2>15, RecommitStep DEF recommitConst
<1> QED BY <1>7, <1>8

\* CommitRates: the policing rules of a virt that was installed.
LEMMA CommitRatesStep ==
  ASSUME IInv, CommitRates, TypeOK'
  PROVE  IInv'
<1> USE DEF RInv
<1>1. /\ pc = "virts" /\ pc' = "virts" /\ dv = NULL /\ dp = NULL /\ cv # NULL
      /\ todo' = todo \ {cv} /\ cv' = NULL
  BY DEF CommitRates, RatesEnd, Running
<1>2. /\ RInv /\ UNCHANGED recommitConst /\ UNCHANGED objectVars
      /\ UNCHANGED <<virt, pa, committed_to, committed_as_local, rpas, rvirts, left, pas, cur,
                     dv, dp>>
  BY <1>1, InRecommit
     DEF CommitRates, RatesEnd, Recommit, userVars, physAttr, linkVars, ctxVars, recommitConst,
     objectVars
<1>3. /\ cv \in Virts /\ cv \in todo /\ committed_to[cv] = cur[1] /\ cur[1] # NULL
  BY <1>1, <1>2, Current, NotNull DEF LoopsR, InVirts, TypeOK, LoopTypes, OrNull
<1>4. PICK D \in SUBSET Wanted(cv) : /\ kernel' = kernel \cup {RateFact(cv, d) : d \in D}
                                     /\ policing' = policing \cup {<<cv, d>> : d \in D}
  <2>1. PICK refused \in SUBSET Wanted(cv) :
          /\ kernel' = kernel \cup {RateFact(cv, d) : d \in Wanted(cv) \ refused}
          /\ policing' = policing \cup {<<cv, d>> : d \in Wanted(cv) \ refused}
    BY DEF CommitRates
  <2> QED BY <2>1
<1>5. Recommit /\ Recommit' /\ Onwards
  BY <1>1, <1>2, InnerOnwards
<1>6. Marks
  BY <1>2 DEF Marks
<1>7. ObjectsR'
  BY <1>2, <1>6, RecommitObjects
<1>8. \A a \in PAs : HasPaR(a)' <=> HasPaR(a)
  BY <1>2, <1>5, <1>6, SameMade DEF Marks
<1>9. VirtSetR' /\ RpaSetR' /\ RvirtSetR' /\ ErrSet'
  BY <1>2, <1>5, <1>6, <1>8, RecommitBooks
<1>10. RateSet'
  BY <1>2, <1>3, <1>4 DEF BooksR, RateSet
<1>11. VirtFacts'
  BY <1>2, <1>4 DEF BooksR, VirtFacts, RateFact
<1>12. \A k, x : x \in Keys(k)' <=> x \in Keys(k) \/ (k = "rate" /\ x \in {<<cv, d>> : d \in D})
  <2>1. \A f \in {RateFact(cv, d) : d \in D} : f[1] = "rate" /\ f[2] \in {<<cv, d>> : d \in D}
    BY DEF RateFact
  <2>2. \A x \in {<<cv, d>> : d \in D} : \E f \in {RateFact(cv, d) : d \in D} : f[1] = "rate"
        /\ f[2] = x
    <3> SUFFICES ASSUME NEW d \in D
                 PROVE  \E f \in {RateFact(cv, e) : e \in D} : f[1] = "rate" /\ f[2] = <<cv, d>>
      OBVIOUS
    <3>1. RateFact(cv, d) \in {RateFact(cv, e) : e \in D} /\ RateFact(cv, d)[1] = "rate"
          /\ RateFact(cv, d)[2] = <<cv, d>>
      BY DEF RateFact
    <3> QED BY <3>1
  <2> QED BY <1>4, <2>1, <2>2 DEF Keys
<1>13. Keys("rate")' = Keys("rate") \cup {<<cv, d>> : d \in D}
  BY <1>12
<1>14. ASSUME NEW k, k # "rate" PROVE Keys(k)' = Keys(k)
  BY <1>12, <1>14
<1>15. BooksMatchKernel'
  BY <1>2, <1>4, <1>13, <1>14 DEF BooksR, BooksMatchKernel
<1>16. BooksR'
  BY <1>2, <1>8, <1>9, <1>10, <1>11, <1>14, <1>15 DEF BooksR
<1>17. LoopsR'
  <2>1. Walking'
    BY <1>1, <1>2, <1>5 DEF LoopsR, Walking, recommitConst
  <2>2. InVirts'
    BY <1>1, <1>2 DEF LoopsR, InVirts, recommitConst, PaOf
  <2> QED BY <1>1, <2>1, <2>2 DEF LoopsR, InRemotes, InRvirts
<1> QED BY <1>2, <1>5, <1>7, <1>16, <1>17, RecommitStep DEF recommitConst

\* CommitRatesNoMem: the virt is removed again.
LEMMA CommitRatesNoMemStep ==
  ASSUME Clean, IInv, CommitRatesNoMem, TypeOK'
  PROVE  IInv'
<1>1. /\ pc = "virts" /\ pc' = "virts" /\ dv = NULL /\ dp = NULL /\ cv # NULL
      /\ todo' = todo \ {cv} /\ cv' = NULL
  BY DEF CommitRatesNoMem, RatesEnd, Running
<1>2. /\ RInv /\ UNCHANGED recommitConst
      /\ UNCHANGED <<pa, committed_as_local, rpas, rvirts, policing, left, pas, cur, dv, dp>>
  BY <1>1, InRecommit
     DEF CommitRatesNoMem, RatesEnd, Recommit, userVars, physAttr, linkVars, ctxVars,
     recommitConst
<1>3. cv \in todo /\ PolicingOf(cv) = {}
  BY <1>1, <1>2 DEF RInv, LoopsR, InVirts, TypeOK, LoopTypes, OrNull
<1>4. /\ kernel' = Without("virt", cv) /\ virt' = [virt EXCEPT ![cv] = "ERR"]
      /\ committed_to' = [committed_to EXCEPT ![cv] = NULL]
  BY CleanResults DEF CommitRatesNoMem, Removed
<1>5. Keys("virt")' = Keys("virt") \ {cv} /\ (\A k : k # "virt" => Keys(k)' = Keys(k))
      /\ kernel' \subseteq kernel
  BY <1>4, KeysWithout DEF Without
<1> QED BY <1>1, <1>2, <1>3, <1>4, <1>5, VirtFails

\* AddRemotePa: a remote PA is added to the local one, or has to be rolled
\* back.
LEMMA AddRemotePaStep ==
  ASSUME Clean, IInv, NEW q \in Physes, AddRemotePa(q), TypeOK'
  PROVE  IInv'
<1> USE DEF RInv
<1>1. /\ pc = "remotes" /\ pc' = "remotes" /\ dv = NULL /\ dp = NULL /\ q \in todo
      /\ todo' = todo \ {q}
      /\ IsNew(cur) \/ IsNew(<<q, cur[2]>>)
  BY DEF AddRemotePa, Running
<1>2. /\ RInv /\ UNCHANGED recommitConst
      /\ UNCHANGED <<virt, committed_as_local, committed_to, rvirts, policing, left, pas, cur,
                     cv, dv>>
  BY <1>1, InRecommit
     DEF AddRemotePa, Recommit, userVars, physAttr, linkVars, ctxVars, recommitConst
<1>3. /\ cur \in PAs /\ cur[1] \in Physes /\ cur[2] \in Nets /\ cur = <<cur[1], cur[2]>>
      /\ is_local[cur[1]] /\ Live(pa[cur]) /\ Visited(cur) /\ HasPaR(cur)
      /\ pa[cur] \in {"NEW", "OK"}
  BY <1>1, <1>2, Current
<1>4. PICK b \in PAs : b = <<q, cur[2]>>
  BY <1>3 DEF PAs
<1>5. b[1] = q /\ b[2] = cur[2] /\ b # cur /\ q # cur[1] /\ pa[b] \in {"NEW", "OK"} /\ Live(pa[b])
  BY <1>1, <1>2, <1>3, <1>4 DEF LoopsR, InRemotes, Live
<1>6. PICK r \in Physes \X Physes \X Nets : r = <<cur[1], q, cur[2]>>
  BY <1>3
<1>7. PICK err \in {"OK", "NETLINK", "NOMEM"} :
        /\ kernel' \in Added(RpaFact(r), err)
        /\ pa' = [pa EXCEPT ![b] = MarkCommitErr(@, FALSE, err)]
        /\ IF CommitFailed(pa[b], err)
           THEN dp' = b /\ UNCHANGED rpas
           ELSE rpas' = rpas \cup {r} /\ UNCHANGED dp
  BY <1>4, <1>6, CleanResults DEF AddRemotePa
<1>8. Recommit /\ Recommit' /\ Onwards
  BY <1>1, <1>2, InnerOnwards
<1>9. PastRemote(cur, q)' /\ ~PastRemote(cur, q) /\ PastRemote(<<cur[1], cur[2]>>, q)'
  BY <1>1, <1>2, <1>3, <1>8 DEF PastRemote, Visited
<1>10. ~is_local[q] /\ q \notin left
  <2>1. ~is_local[q]
    BY <1>2, <1>3, <1>5, OnlyLocal
  <2> QED BY <1>2, <1>8, <2>1 DEF LoopsR, Walking
<1>11. CASE err = "OK"
  <2>1. kernel' = kernel \cup {RpaFact(r)} /\ pa' = pa /\ rpas' = rpas \cup {r} /\ dp' = dp
    BY <1>2, <1>5, <1>7, <1>11, NoMark DEF Added, TypeOK, ObjTypes, CommitFailed
  <2>2. Keys("rpa")' = Keys("rpa") \cup {r} /\ \A k : k # "rpa" => Keys(k)' = Keys(k)
    <3>1. RpaFact(r)[1] = "rpa" /\ RpaFact(r)[2] = r
      BY DEF RpaFact
    <3> QED BY <2>1, <3>1, KeysAdded
  <2>3. Marks
    BY <1>2, <2>1 DEF Marks
  <2>4. ObjectsR'
    BY <1>2, <2>3, RecommitObjects
  <2>5. \A a \in PAs : HasPaR(a)' <=> HasPaR(a)
    BY <1>2, <1>8, <2>3, SameMade DEF Marks
  <2>6. NewRpa(r)
    <3>1. HasPaR(<<cur[1], cur[2]>>)'
      BY <1>2, <1>3, <2>5 DEF HasPaR, Visited
    <3>2. \A p \in {r[1], r[2]} : pa'[<<p, r[3]>>] \in {"NEW", "OK"}
      BY <1>3, <1>4, <1>5, <1>6, <2>1
    <3>3. HasPaR(<<r[1], r[3]>>)' /\ PastRemote(<<r[1], r[3]>>, r[2])' /\ r[1] # r[2]
      BY <1>2, <1>3, <1>5, <1>6, <1>9, <3>1 DEF HasPaR, Visited, PastRemote
    <3> QED BY <3>2, <3>3 DEF NewRpa
  <2>7. VirtSetR' /\ RpaSetR' /\ RvirtSetR' /\ ErrSet'
    BY <1>2, <1>8, <2>1, <2>3, <2>5, <2>6, RecommitBooks
  <2>8. RateSet' /\ VirtFacts'
    BY <1>2, <2>1 DEF BooksR, RateSet, VirtFacts, RpaFact
  <2>9. BooksMatchKernel'
    BY <1>2, <2>1, <2>2 DEF BooksR, BooksMatchKernel
  <2>10. BooksR'
    BY <1>2, <2>2, <2>5, <2>7, <2>8, <2>9 DEF BooksR
  <2>11. LoopsR'
    <3>1. Walking'
      BY <1>1, <1>2, <1>8, <2>1 DEF LoopsR, Walking, recommitConst
    <3>2. InRemotes'
      BY <1>1, <1>2, <2>1 DEF LoopsR, InRemotes
    <3> QED BY <1>1, <3>1, <3>2 DEF LoopsR, InVirts, InRvirts
  <2> QED BY <1>2, <1>8, <2>4, <2>10, <2>11, RecommitStep DEF recommitConst
<1>12. CASE err # "OK"
  <2>1. /\ kernel' = kernel /\ pa'[b] = "ERR" /\ (\A a \in PAs \ {b} : pa'[a] = pa[a])
             /\ rpas' = rpas
        /\ dp' = b
    BY <1>2, <1>5, <1>7, <1>12 DEF Added, TypeOK, ObjTypes, CommitFailed, MarkCommitErr
  <2>2. ~HasPaR(b)
    BY <1>2, <1>5, <1>10, MadeLocal
  <2>3. ASSUME NEW s \in rpas PROVE b # <<s[1], s[3]>> /\ b # <<s[2], s[3]>>
    <3>1. HasPaR(<<s[1], s[3]>>)
      BY <1>2 DEF BooksR, RpaSetR
    <3>2. ASSUME b = <<s[2], s[3]>> PROVE FALSE
      <4>1. s[2] = q /\ s[3] = cur[2]
        BY <1>5, <3>2
      <4>2. s = r
        BY <1>1, <1>2, <1>6, <4>1, RpaOfCur
      <4>3. \A p \in {s[1], s[2]} : pa[<<p, s[3]>>] = "OK" \/ PastRemote(<<s[1], s[3]>>, s[2])
        BY <1>2 DEF BooksR, RpaSetR
      <4>4. pa[<<cur[1], cur[2]>>] = "OK" /\ pa[<<q, cur[2]>>] = "OK"
        BY <1>3, <1>6, <1>9, <4>2, <4>3
      <4> QED BY <1>1, <1>3, <4>4 DEF IsNew
    <3> QED BY <2>2, <3>1, <3>2
  <2>4. SeenPa(b)
    <3>1. PICK p \in Physes : p = cur[1]
      BY <1>3
    <3>2. PastRemote(<<p, b[2]>>, b[1])'
      BY <1>2, <1>3, <1>5, <1>9, <3>1 DEF PastRemote, Visited
    <3>3. is_local[p] /\ Live(pa[<<p, b[2]>>])
      BY <1>3, <1>5, <3>1
    <3> QED BY <3>2, <3>3 DEF SeenPa
  <2>5. PaMarked(b)
    BY <1>5, <1>10, <2>1, <2>2, <2>3, <2>4 DEF PaMarked
  <2>6. Marks
    BY <1>2, <2>1, <2>5 DEF Marks
  <2>7. ObjectsR'
    BY <1>2, <2>6, RecommitObjects
  <2>8. \A a \in PAs : HasPaR(a)' <=> HasPaR(a)
    BY <1>2, <1>8, <2>6, SameMade DEF Marks
  <2>9. VirtSetR' /\ RpaSetR' /\ RvirtSetR' /\ ErrSet'
    BY <1>2, <1>8, <2>1, <2>6, <2>8, RecommitBooks
  <2>10. BooksR'
    BY <1>2, <2>1, <2>8, <2>9, KeysSame DEF BooksR, RateSet, BooksMatchKernel, VirtFacts
  <2>11. LoopsR'
    <3>1. Walking'
      <4>1. pa'[cur] = pa[cur] /\ \A a \in pas : Alloc(pa'[a])
        BY <1>2, <1>3, <1>5, <1>8, <2>1 DEF LoopsR, Walking, Alloc, TypeOK, LoopTypes
      <4> QED BY <1>1, <1>2, <1>8, <4>1 DEF LoopsR, Walking, recommitConst
    <3>2. InRemotes'
      <4>1. \A p \in todo' : p \in todo /\ <<p, cur[2]>> \in PAs \ {b}
        BY <1>1, <1>2, <1>3, <1>4 DEF TypeOK, LoopTypes, PAs
      <4> QED BY <1>1, <1>2, <1>5, <2>1, <4>1 DEF LoopsR, InRemotes
    <3> QED BY <1>1, <3>1, <3>2 DEF LoopsR, InVirts, InRvirts
  <2> QED BY <1>2, <1>8, <2>7, <2>10, <2>11, RecommitStep DEF recommitConst
<1> QED BY <1>11, <1>12

\* AddRemoteVirt: a remote virt is added to the local PA, or has to be rolled
\* back.
LEMMA AddRemoteVirtStep ==
  ASSUME Clean, IInv, NEW v \in Virts, AddRemoteVirt(v), TypeOK'
  PROVE  IInv'
<1> USE DEF RInv
<1>1. /\ pc = "rvirts" /\ pc' = "rvirts" /\ dv = NULL /\ dp = NULL /\ v \in todo
      /\ todo' = todo \ {v}
  BY DEF AddRemoteVirt, Running
<1>2. /\ RInv /\ UNCHANGED recommitConst
      /\ UNCHANGED <<pa, committed_as_local, committed_to, rpas, policing, left, pas, cur, cv,
                     dp>>
  BY <1>1, InRecommit
     DEF AddRemoteVirt, Recommit, userVars, physAttr, linkVars, ctxVars, recommitConst
<1>3. /\ cur \in PAs /\ cur[1] \in Physes /\ cur[2] \in Nets /\ cur = <<cur[1], cur[2]>>
      /\ is_local[cur[1]] /\ Live(pa[cur]) /\ Visited(cur)
  BY <1>1, <1>2, Current
<1>4. VirtNet[v] = cur[2] /\ virt[v] \in {"NEW", "OK"}
      /\ <<cur[1], connected_through[v], cur[2]>> \in rpas
  BY <1>1, <1>2 DEF LoopsR, InRvirts
<1>5. connected_through[v] \in Physes /\ connected_through[v] # cur[1]
      /\ connected_through[v] # NULL
  <2>1. PICK r \in rpas : r = <<cur[1], connected_through[v], cur[2]>>
    BY <1>4
  <2>2. r[2] \in Physes \ {cur[1]}
    BY <1>1, <1>2, <2>1, RpaOfCur
  <2> QED BY <2>1, <2>2, NotNull
<1>6. PICK x \in Physes \X Physes \X Virts : x = <<cur[1], connected_through[v], v>>
  BY <1>3, <1>5
<1>7. PICK err \in {"OK", "NETLINK", "NOMEM"} :
        /\ kernel' \in Added(RvirtFact(x), err)
        /\ virt' = [virt EXCEPT ![v] = MarkCommitErr(@, FALSE, err)]
        /\ dv' = IF CommitFailed(virt[v], err) THEN v ELSE NULL
  BY <1>6, CleanResults DEF AddRemoteVirt
<1>8. rvirts' = rvirts \cup {x} /\ x[1] = cur[1] /\ x[2] = connected_through[v] /\ x[3] = v
  BY <1>6 DEF AddRemoteVirt
<1>9. Recommit /\ Recommit' /\ Onwards
  BY <1>1, <1>2, InnerOnwards
<1>10. PastRemoteVirt(<<cur[1], VirtNet[v]>>, v)'
  BY <1>1, <1>2, <1>3, <1>4, <1>9 DEF PastRemoteVirt, Visited
<1>11. virt'[v] \in {"NEW", "OK"} \/ dv' = v
  BY <1>2, <1>4, <1>7, NoMark DEF TypeOK, ObjTypes, CommitFailed
<1>12. NewRvirt(x)
  <2>1. PastRemoteVirt(<<x[1], VirtNet[x[3]]>>, x[3])'
    BY <1>8, <1>10, <1>2 DEF PastRemoteVirt, Visited
  <2> QED BY <1>2, <1>4, <1>8, <1>11, <2>1 DEF NewRvirt, recommitConst
<1>13. Marks
  <2>1. CASE err = "OK"
    BY <1>2, <1>7, <2>1, NoMark DEF TypeOK, ObjTypes, Marks
  <2>2. CASE err # "OK"
    <3>1. virt'[v] = "ERR" /\ (\A w \in Virts \ {v} : virt'[w] = virt[w]) /\ dv' = v
      BY <1>2, <1>4, <1>7, <2>2 DEF TypeOK, ObjTypes, MarkCommitErr, CommitFailed
    <3>2. committed_to'[v] = NULL
      BY <1>1, <1>2, <1>4, <1>5, CommittedToCur
    <3>3. SeenVirt(v)
      <4>1. PICK p \in Physes : p = cur[1]
        BY <1>3
      <4>2. PastRemoteVirt(<<p, VirtNet[v]>>, v)'
        BY <1>2, <1>10, <4>1 DEF PastRemoteVirt, Visited
      <4>3. is_local[p] /\ Live(pa[<<p, VirtNet[v]>>])
        BY <1>3, <1>4, <4>1
      <4> QED BY <4>2, <4>3 DEF SeenVirt
    <3>4. VirtMarked(v)
      BY <1>4, <1>5, <3>1, <3>2, <3>3 DEF VirtMarked
    <3> QED BY <1>2, <3>1, <3>4 DEF Marks
  <2> QED BY <2>1, <2>2
<1>14. ObjectsR'
  BY <1>2, <1>13, RecommitObjects
<1>15. \A a \in PAs : HasPaR(a)' <=> HasPaR(a)
  BY <1>2, <1>9, <1>13, SameMade DEF Marks
<1>16. VirtSetR' /\ RpaSetR' /\ RvirtSetR' /\ ErrSet'
  BY <1>1, <1>2, <1>8, <1>9, <1>12, <1>13, <1>15, RecommitBooks
<1>17. VirtFacts' /\ RateSet' /\ \A k : k # "rvirt" => Keys(k)' = Keys(k)
  <2>1. kernel' = kernel \/ kernel' = kernel \cup {RvirtFact(x)}
    BY <1>7 DEF Added
  <2>2. VirtFacts' /\ RateSet'
    BY <1>2, <2>1 DEF BooksR, VirtFacts, RateSet, RvirtFact
  <2>3. RvirtFact(x)[1] = "rvirt"
    BY DEF RvirtFact
  <2>4. \A k : k # "rvirt" => Keys(k)' = Keys(k)
    BY <2>1, <2>3, KeysAdded, KeysSame
  <2> QED BY <2>2, <2>4
<1>18. BooksMatchKernel'
  <2>1. Keys("rvirt") = rvirts
    <3>1. \A rv \in rvirts : rv[3] # dv
      BY <1>1, <1>2, NotNull DEF TypeOK, BookTypes
    <3>2. Keys("rvirt") \subseteq rvirts /\ \A rv \in rvirts \ Keys("rvirt") : rv[3] = dv
      BY <1>2 DEF BooksR, BooksMatchKernel
    <3> QED BY <3>1, <3>2
  <2>2. CASE err = "OK"
    <3>1. kernel' = kernel \cup {RvirtFact(x)} /\ RvirtFact(x)[1] = "rvirt" /\ RvirtFact(x)[2] = x
      BY <1>7, <2>2 DEF Added, RvirtFact
    <3>2. Keys("rvirt")' = Keys("rvirt") \cup {x}
      BY <3>1, KeysAdded
    <3> QED BY <1>2, <1>8, <1>17, <2>1, <3>2 DEF BooksR, BooksMatchKernel
  <2>3. CASE err # "OK"
    <3>1. kernel' = kernel /\ dv' = v
      BY <1>7, <2>3 DEF Added, CommitFailed
    <3>2. Keys("rvirt")' = Keys("rvirt")
      BY <3>1, KeysSame
    <3> QED BY <1>2, <1>8, <1>17, <2>1, <3>1, <3>2 DEF BooksR, BooksMatchKernel
  <2> QED BY <2>2, <2>3
<1>19. BooksR'
  BY <1>2, <1>15, <1>16, <1>17, <1>18 DEF BooksR
<1>20. LoopsR'
  <2>1. Walking'
    BY <1>1, <1>2, <1>9 DEF LoopsR, Walking, recommitConst
  <2>2. InRvirts'
    <3>1. \A w \in todo' : w \in todo /\ virt'[w] = virt[w]
      BY <1>1, <1>2, <1>7 DEF TypeOK, ObjTypes, LoopTypes
    <3>2. dv' # NULL => dv' = v /\ virt'[v] = "ERR"
      BY <1>2, <1>4, <1>7 DEF TypeOK, ObjTypes, MarkCommitErr, CommitFailed
    <3> QED BY <1>1, <1>2, <1>4, <1>5, <3>1, <3>2 DEF LoopsR, InRvirts, recommitConst
  <2> QED BY <1>1, <2>1, <2>2 DEF LoopsR, InVirts, InRemotes
<1> QED BY <1>2, <1>9, <1>14, <1>19, <1>20, RecommitStep DEF recommitConst

\* The end of decommit_virt for a remote virt that could not be added: there
\* is nothing of it on this machine.
LEMMA RemoveVirtRecommit ==
  ASSUME IInv, RemoveVirt, pc = "rvirts", TypeOK'
  PROVE  IInv'
<1>1. Recommit /\ RInv /\ dv # NULL /\ pc' = "rvirts" /\ Views(dv) = {} /\ dv' = NULL
  BY InRecommit DEF RemoveVirt, Recommit
<1>2. dv \in Virts /\ virt[dv] = "ERR" /\ cv = NULL /\ dp = NULL
  BY <1>1 DEF RInv, LoopsR, InRvirts, TypeOK, LoopTypes, OrNull
<1>3. committed_to[dv] = NULL
  BY <1>1, <1>2 DEF RInv, BooksR, VirtSetR
<1>4. Deleted({dv}) = {}
  BY DEF Deleted
<1>5. FreeablePas({}, {}) = {}
  BY DEF FreeablePas
<1>6. /\ kernel' = kernel /\ virt' = [virt EXCEPT ![dv] = MarkCommitErr(virt[dv], TRUE, "OK")]
      /\ pa' = [a \in PAs |-> pa[a]] /\ pending_free' = pending_free
      /\ connected_through' = [v \in Virts |-> connected_through[v]]
  BY <1>3, <1>4, <1>5 DEF RemoveVirt
<1>7. UNCHANGED <<kernel, virt, pa, pending_free, connected_through>>
  <2>1. virt' = virt
    BY <1>1, <1>2, <1>6, NoMark DEF RInv, TypeOK, ObjTypes
  <2>2. pa' = pa /\ connected_through' = connected_through
    BY <1>1, <1>6 DEF RInv, TypeOK, ObjTypes, UserTypes
  <2> QED BY <1>6, <2>1, <2>2
<1>8. committed_to' = committed_to
  BY <1>1, <1>2, <1>3 DEF RemoveVirt, RInv, TypeOK, BookTypes
<1>9. UNCHANGED objectVars
      /\ UNCHANGED <<rpas, rvirts, policing, aborted, cur, left, pas, todo, cv, dp, pc>>
  BY <1>7 DEF RemoveVirt, objectVars, physAttr, ctxVars, loopVars
<1>10. Recommit' /\ Onwards
  BY <1>1, <1>9, InnerOnwards
<1>11. LoopsR'
  <2>1. Walking'
    BY <1>1, <1>9, <1>10 DEF RInv, LoopsR, Walking, objectVars
  <2>2. InRvirts'
    BY <1>1, <1>2, <1>9 DEF RInv, LoopsR, InRvirts, objectVars
  <2> QED BY <1>1, <2>1, <2>2 DEF LoopsR, InVirts, InRemotes
<1>12. \A rv \in rvirts : rv[3] # dv
  BY <1>1 DEF Views
<1> QED BY <1>1, <1>7, <1>8, <1>9, <1>10, <1>11, <1>12, LoopStep

\* The end of decommit_pa for a remote PA that could not be added.
LEMMA DestroyPaRecommit ==
  ASSUME IInv, DestroyPa, pc = "remotes", TypeOK'
  PROVE  IInv'
<1>1. Recommit /\ RInv /\ dp # NULL /\ pc' = "remotes" /\ dv = NULL /\ dp' = NULL
  BY InRecommit DEF DestroyPa, Recommit
<1>2. dp \in PAs /\ pa[dp] = "ERR" /\ dp[2] = cur[2] /\ dp[1] # cur[1] /\ dp[1] \in Physes
  BY <1>1, PaPair DEF RInv, LoopsR, InRemotes, TypeOK, LoopTypes, OrNull
<1>3. /\ cur \in PAs /\ is_local[cur[1]] /\ Live(pa[cur])
  BY <1>1, Current
<1>4. ~committed_as_local[dp[1]]
  <2>1. ~is_local[dp[1]]
    BY <1>1, <1>2, <1>3, OnlyLocal DEF Live
  <2> QED BY <1>1, <1>2, <2>1 DEF RInv, ObjectsR, LocalsR
<1>5. Deleted({dp}) = {}
  BY DEF Deleted
<1>6. /\ kernel' = kernel /\ pa' = [pa EXCEPT ![dp] = MarkCommitErr(@, TRUE, "OK")]
      /\ pending_free' = pending_free /\ aborted' = aborted
  BY <1>4, <1>5 DEF DestroyPa, CAssert
<1>7. pa' = pa
  BY <1>1, <1>2, <1>6, NoMark DEF RInv, TypeOK, ObjTypes
<1>8. /\ UNCHANGED objectVars
      /\ UNCHANGED <<committed_to, rpas, rvirts, policing, cur, left, pas, todo, cv, dv, pc>>
  BY <1>6, <1>7 DEF DestroyPa, objectVars, userVars, physAttr, linkVars, bookVars, loopVars
<1>9. Recommit' /\ Onwards
  BY <1>1, <1>8, InnerOnwards
<1>10. LoopsR'
  <2>1. Walking'
    BY <1>1, <1>8, <1>9 DEF RInv, LoopsR, Walking, objectVars
  <2>2. InRemotes'
    BY <1>1, <1>8 DEF RInv, LoopsR, InRemotes, objectVars
  <2> QED BY <1>1, <2>1, <2>2 DEF LoopsR, InVirts, InRvirts
<1> QED BY <1>1, <1>6, <1>8, <1>9, <1>10, LoopStep

(***************************************************************************)
(* The end of the commit.                                                  *)
(***************************************************************************)

\* CommitEnd: everything that was installed is OK, what failed is new again.
LEMMA CommitEndStep ==
  ASSUME IInv, CommitEnd, TypeOK'
  PROVE  IInv'
<1> USE DEF RInv
<1>1. pc = "commit" /\ Recommit /\ dv = NULL /\ dp = NULL /\ pas = {} /\ left = {}
      /\ pc' = "idle" /\ ~Recommit'
  BY DEF CommitEnd, Running, Recommit
<1>2. RInv
  BY <1>1, InRecommit
<1>3. /\ UNCHANGED <<is_local, committed_as_local, explicitly_attached, connected_through,
                     committed_to,
                     rpas, rvirts, policing, pending_free, aborted, kernel, cur, left, pas, todo,
                     cv, dv, dp>>
      /\ todo = {} /\ cv = NULL
  BY <1>1, <1>2 DEF CommitEnd, userVars, physAttr, linkVars, bookVars, loopVars, LoopsR, Walking
<1>4. /\ \A s \in Settings : settings'[s] = IF settings[s] = "none" THEN "none" ELSE "OK"
      /\ \A n \in Nets : net'[n] = IF net[n] = "none" THEN "none" ELSE "OK"
      /\ \A p \in Physes : phys'[p] = IF phys[p] = "none" THEN "none" ELSE "OK"
  BY <1>2 DEF CommitEnd, AckState, ObjectsR, StatesR
<1>5. /\ \A a \in PAs : pa'[a] = IF pa[a] = "none" THEN "none" ELSE IF pa[a] = "ERR" THEN "NEW"
           ELSE "OK"
      /\ \A v \in Virts : virt'[v] = IF virt[v] = "none" THEN "none"
           ELSE IF virt[v] = "ERR" THEN "NEW" ELSE "OK"
  BY <1>2 DEF CommitEnd, AckState, ObjectsR, StatesR
<1>6. /\ \A a \in PAs : pa[a] \in {"none", "NEW", "OK", "ERR"}
      /\ \A v \in Virts : virt[v] \in {"none", "NEW", "OK", "ERR"}
  BY <1>2 DEF ObjectsR, StatesR
<1>7. ObjectsI'
  <2>1. StatesI' /\ Dying' /\ FreshI'
    BY <1>4, <1>5, PaPair, NetApiAssumption DEF StatesI, Dying, FreshI, IdleStates
  <2>2. Owned'
    BY <1>2, <1>4, <1>5, PaPair, NetApiAssumption DEF ObjectsR, Owned, Alloc
  <2>3. \A a \in PAs : Live(pa'[a]) <=> Live(pa[a])
    BY <1>5, <1>6 DEF Live
  <2>4. \A v \in Virts : /\ virt'[v] = "none" <=> virt[v] = "none"
                         /\ virt'[v] = "DELETE" <=> virt[v] = "DELETE"
    BY <1>5, <1>6
  <2>5. Linked'
    BY <1>2, <1>3, <2>3, <2>4, LinkedFrame DEF ObjectsR
  <2>6. Pending'
    BY <1>2, <1>3, <1>5, <1>6 DEF ObjectsR, Pending
  <2>7. LocalsI'
    BY <1>1, <1>2, <1>3, <1>4, <2>3 DEF ObjectsR, LocalsR, LocalsI, Alloc
  <2> QED BY <2>1, <2>2, <2>5, <2>6, <2>7 DEF ObjectsI
<1>8. Loops'
  BY <1>1, <1>3 DEF Loops, Idle, Propagated, Decommitting, Walking, InVirts, InRemotes, InRvirts
<1>9. \A a \in PAs : HasPa(a)' <=> HasPaR(a)
  <2>1. \A a \in PAs : Visited(a)
    BY <1>1 DEF Visited
  <2>2. \A a \in PAs : Made(a)' <=> pa'[a] = "OK"
    BY <1>1, <1>5 DEF Made, Visited, Installed
  <2> QED BY <1>3, <1>5, <1>6, <2>1, <2>2 DEF HasPa, HasPaR
<1>10. Books'
  <2>1. PaSet'
    BY <1>2, <1>3, <1>9, KeysSame DEF BooksR, PaSet
  <2>2. VirtSet'
    <3> SUFFICES ASSUME NEW v \in Virts, committed_to[v] # NULL
                 PROVE  /\ virt'[v] = "OK" /\ connected_through[v] = committed_to[v]
                        /\ HasPa(<<committed_to[v], VirtNet[v]>>)'
      BY <1>3 DEF VirtSet, Installed
    <3>1. virt[v] \in {"NEW", "OK"} /\ connected_through[v] = committed_to[v] /\ HasPaR(PaOf(v))
      BY <1>2 DEF BooksR, VirtSetR
    <3>2. PICK b \in PAs : b = PaOf(v)
      BY <1>2, <3>1, PaOfTyped
    <3>3. HasPa(b)'
      BY <1>9, <3>1, <3>2
    <3>4. HasPa(<<committed_to[v], VirtNet[v]>>)'
      BY <1>3, <3>1, <3>2, <3>3 DEF HasPa, Made, Visited, Recommit, PaOf
    <3> QED BY <1>5, <3>1, <3>4
  <2>3. RateSet' /\ VirtFacts'
    BY <1>2, <1>3 DEF BooksR, RateSet, VirtFacts
  <2>4. RpaSet'
    <3> SUFFICES ASSUME NEW r \in rpas
                 PROVE  /\ r[1] # r[2] /\ HasPa(<<r[1], r[3]>>)'
                        /\ \A p \in {r[1], r[2]} : pa'[<<p, r[3]>>] = "OK"
      BY <1>3 DEF RpaSet, Installed
    <3>1. <<r[1], r[3]>> \in PAs /\ <<r[2], r[3]>> \in PAs
      BY <1>2 DEF TypeOK, BookTypes, PAs
    <3>2. r[1] # r[2] /\ HasPaR(<<r[1], r[3]>>)
          /\ \A p \in {r[1], r[2]} : pa[<<p, r[3]>>] \in {"NEW", "OK"}
      BY <1>2 DEF BooksR, RpaSetR
    <3> QED BY <1>5, <1>9, <3>1, <3>2
  <2>5. RvirtSet'
    <3> SUFFICES ASSUME NEW rv \in rvirts
                 PROVE  /\ <<rv[1], rv[2], VirtNet[rv[3]]>> \in rpas /\ virt'[rv[3]] = "OK"
                        /\ connected_through[rv[3]] = rv[2]
      BY <1>1, <1>3 DEF RvirtSet, Installed
    <3>1. rv[3] \in Virts
      BY <1>2 DEF TypeOK, BookTypes
    <3>2. virt[rv[3]] \in {"NEW", "OK"} /\ <<rv[1], rv[2], VirtNet[rv[3]]>> \in rpas
      BY <1>1, <1>2, <3>1, NotNull DEF BooksR, RvirtSetR
    <3>3. connected_through[rv[3]] = rv[2]
      BY <1>2, <3>2 DEF BooksR, RvirtSetR
    <3> QED BY <1>5, <3>1, <3>2, <3>3
  <2>6. ErrSet'
    BY <1>1 DEF ErrSet
  <2>7. BooksMatchKernel'
    BY <1>2, <1>3, KeysSame DEF BooksR, BooksMatchKernel
  <2> QED BY <2>1, <2>2, <2>3, <2>4, <2>5, <2>6, <2>7 DEF Books
<1> QED BY <1>1, <1>2, <1>3, <1>7, <1>8, <1>10, NotRecommit DEF IInv

(***************************************************************************)
(* The invariant.                                                          *)
(***************************************************************************)

\* Every step of lsdn_commit keeps it.
LEMMA CommitInv ==
  ASSUME Clean, IInv, CommitStep, TypeOK'
  PROVE  IInv'
<1>1. ASSUME NEW v \in Virts,
             DecommitVirt(v) \/ AddVirt(v) \/ SkipRemoteVirt(v) \/ AddRemoteVirt(v)
      PROVE  IInv'
  BY <1>1, DecommitVirtStep, AddVirtStep, SkipRemoteVirtStep, AddRemoteVirtStep
<1>2. ASSUME NEW v \in Virts, AddVirtNoMem(v) \/ AddRemoteVirtNoMem(v)
      PROVE  IInv'
  BY <1>2, CleanResults DEF AddVirtNoMem, AddRemoteVirtNoMem
<1>3. ASSUME NEW a \in PAs, DecommitPa(a) \/ CreatePa(a)
      PROVE  IInv'
  BY <1>3, DecommitPaStep, CreatePaStep
<1>4. ASSUME NEW q \in Physes, CommitPhys(q) \/ SkipRemotePa(q) \/ AddRemotePa(q)
      PROVE  IInv'
  BY <1>4, CommitPhysStep, SkipRemotePaStep, AddRemotePaStep
<1>5. ASSUME NEW q \in Physes, AddRemotePaNoMem(q)
      PROVE  IInv'
  BY <1>5, CleanResults DEF AddRemotePaNoMem
<1>6. CASE RemoveVirt
  <2>1. pc \in {"decommit", "rvirts"}
    BY <1>6
       DEF RemoveVirt, IInv, TypeOK, LoopTypes, Phases, Loops, Idle, Walking, Recommit, InVirts,
       InRemotes
  <2> QED BY <1>6, <2>1, RemoveVirtDecommit, RemoveVirtRecommit
<1>7. CASE DestroyPa
  <2>1. pc \in {"decommit", "remotes"}
    BY <1>7
       DEF DestroyPa, IInv, TypeOK, LoopTypes, Phases, Loops, Idle, Walking, Recommit, InVirts,
       InRvirts
  <2> QED BY <1>7, <2>1, DestroyPaDecommit, DestroyPaRecommit
<1>8. CASE CommitRatesUndoFails
  BY <1>8, CleanResults DEF CommitRatesUndoFails
<1>9. CASE CommitRates \/ CommitRatesNoMem \/ CommitRemotes \/ CommitRemoteVirts \/ CommitPaEnd
             \/ CommitEnd
  BY <1>9, CommitRatesStep, CommitRatesNoMemStep, CommitRemotesStep, CommitRemoteVirtsStep,
     CommitPaEndStep,
     CommitEndStep
<1>10. CASE DecommitNetEnd \/ DecommitEnd
  BY <1>10, DecommitNetEndStep, DecommitEndStep
<1>11. ASSUME NEW n \in Nets, DecommitNet(n)
       PROVE  IInv'
  BY <1>11, DecommitNetStep
<1>12. CASE RemoveRates
  BY <1>12, RemoveRatesStep
<1>13. ASSUME NEW rv \in rvirts, RemoveRemoteVirt(rv)
       PROVE  IInv'
  BY <1>13, RemoveRemoteVirtStep
<1>14. ASSUME NEW r \in rpas, RemoveRemotePa(r)
       PROVE  IInv'
  BY <1>14, RemoveRemotePaStep
<1> QED BY <1>1, <1>2, <1>3, <1>4, <1>5, <1>6, <1>7, <1>8, <1>9, <1>10, <1>11, <1>12, <1>13,
           <1>14 DEF CommitStep

\* What IInv speaks of, for the steps that change nothing.
LEMMA StutterInv ==
  ASSUME IInv, UNCHANGED vars, TypeOK'
  PROVE  IInv'
<1>1. UNCHANGED objectVars
      /\ UNCHANGED <<committed_to, rpas, rvirts, policing, aborted, pc, loopVars, dv, dp, kernel>>
  BY DEF vars, apiVars, commitVars, objVars, physAttr, virtAttr, linkVars, bookVars, ctxVars,
     objectVars
<1>2. BooksMatchKernel' /\ Keys("pa")' = Keys("pa")
  BY <1>1, KeysSame DEF IInv, Books, BooksMatchKernel
<1>3. \A rv \in rvirts : <<rv[1], rv[2], VirtNet[rv[3]]>> \in rpas
  BY DEF IInv, Books, RvirtSet
<1> QED BY <1>1, <1>2, <1>3, Removal

\* The invariant holds at every step of a client that keeps the rules, when
\* the operations clean up after themselves.
LEMMA Invariance ==
  ASSUME Careful, Clean
  PROVE  Spec => []IInv
<1>1. ASSUME IInv, [Next]_vars PROVE IInv'
  <2>1. TypeOK'
    BY <1>1, NextTypes DEF IInv
  <2>2. CASE Client
    BY <1>1, <2>1, <2>2, EditStep
  <2>3. CASE Call
    BY <1>1, <2>1, <2>3, CallStep
  <2>4. CASE CommitStep
    BY <1>1, <2>1, <2>4, CommitInv
  <2>5. CASE Stopped \/ UNCHANGED vars
    BY <1>1, <2>1, <2>5, StutterInv DEF Stopped
  <2> QED BY <1>1, <2>2, <2>3, <2>4, <2>5 DEF Next
<1> QED BY <1>1, InitInv, PTL DEF Spec

(***************************************************************************)
(* What the invariant says of a client that keeps the rules of the API     *)
(* (Careful) and of operations that clean up when they fail (Clean).       *)
(***************************************************************************)

\* No assert of lsdn.c fails, neither in an edit nor at any step of a commit
\* in which operations fail.
THEOREM AssertsHold ==
  ASSUME Careful, Clean
  PROVE  Spec => []NoAssertFails
<1>1. IInv => NoAssertFails
  BY DEF IInv, NoAssertFails
<1> QED BY <1>1, Invariance, PTL

\* lsdn_commit, lsdn_phys_free, lsdn_net_free and the others never leave a
\* pointer to an object they freed.
THEOREM NothingDangles ==
  ASSUME Careful, Clean
  PROVE  Spec => []NoDanglingPointers
<1>1. ASSUME IInv PROVE NoDanglingPointers
  <2> USE <1>1 DEF IInv
  <2>1. /\ \A a \in PAs : Alloc(pa[a]) => Alloc(phys[a[1]]) /\ Alloc(net[a[2]])
        /\ \A n \in Nets : Alloc(net[n]) => Alloc(settings[NetSettings[n]])
    BY DEF Objects, Owned
  <2>2. \A v \in Virts : Alloc(virt[v]) =>
          /\ Alloc(net[VirtNet[v]])
          /\ connected_through[v] # NULL => Alloc(pa[PaOf(v)])
          /\ committed_to[v] # NULL => Alloc(pa[<<committed_to[v], VirtNet[v]>>])
    <3>1. \A v \in Virts : /\ Alloc(virt[v]) => Alloc(net[VirtNet[v]])
                           /\ connected_through[v] # NULL => Alloc(pa[PaOf(v)])
      BY DEF Objects, Owned, Linked, Live, Alloc
    <3>2. \A v \in Virts : committed_to[v] # NULL => Alloc(pa[<<committed_to[v], VirtNet[v]>>])
      BY DEF Books, VirtSet, HasPa, Made, Installed, Alloc
    <3> QED BY <3>1, <3>2
  <2>3. \A r \in rpas : Alloc(pa[<<r[1], r[3]>>]) /\ Alloc(pa[<<r[2], r[3]>>])
    <3>1. \A a \in PAs : pc = "decommit" /\ dp = a => Alloc(pa[a])
      BY NotNull DEF Loops, Decommitting, Alloc
    <3>2. \A r \in rpas : <<r[1], r[3]>> \in PAs /\ <<r[2], r[3]>> \in PAs
      BY DEF TypeOK, BookTypes, PAs
    <3> QED BY <3>1, <3>2 DEF Books, RpaSet, Installed, Alloc
  <2>4. \A rv \in rvirts : Alloc(virt[rv[3]]) /\ <<rv[1], rv[2], VirtNet[rv[3]]>> \in rpas
    <3>1. dv # NULL => Alloc(virt[dv])
      BY DEF TypeOK, LoopTypes, Phases, Loops, Idle, Decommitting, Walking, InVirts, InRemotes,
         InRvirts,
         Recommit, Alloc
    <3>2. \A rv \in rvirts : rv[3] # NULL
      BY NotNull DEF TypeOK, BookTypes
    <3> QED BY <3>1, <3>2 DEF Books, RvirtSet, Installed, Alloc
  <2> QED BY <2>1, <2>2, <2>3, <2>4 DEF NoDanglingPointers
<1> QED BY <1>1, Invariance, PTL

\* At every step of a commit the lists of the model name exactly what the
\* network operations have installed, whatever has failed before.
THEOREM BooksAlwaysMatch ==
  ASSUME Careful, Clean
  PROVE  Spec => []BooksMatchKernel
<1>1. IInv => BooksMatchKernel
  BY DEF IInv, Books
<1> QED BY <1>1, Invariance, PTL

\* commit_pa never adds what is there, nor to a PA or remote PA that is not.
THEOREM AddsAreOrdered ==
  ASSUME Careful, Clean
  PROVE  Spec => []AddsInOrder
<1>1. ASSUME IInv PROVE AddsInOrder
  <2>0. \A k, x : Has(k, x) <=> x \in Keys(k)
    BY DEF Has, Keys
  <2>1. ASSUME Running("commit"), NEW a \in pas, IsNew(a) PROVE ~Has("pa", a)
    <3>1. a \in PAs /\ ~Visited(a) /\ pc = "commit"
      BY <1>1, <2>1 DEF IInv, TypeOK, LoopTypes, Visited, Running
    <3>2. ~HasPa(a)
      BY <2>1, <3>1 DEF HasPa, Made, Installed, IsNew
    <3> QED BY <1>1, <2>0, <3>1, <3>2 DEF IInv, Books, PaSet
  <2>2. ASSUME Running("virts") \/ Running("remotes") \/ Running("rvirts")
        PROVE  RInv /\ Has("pa", cur)
    <3>1. RInv
      BY <1>1, <2>2, InRecommit DEF Running, Recommit
    <3>2. cur \in PAs /\ HasPaR(cur)
      BY <2>2, <3>1, Current DEF Running
    <3> QED BY <2>0, <3>1, <3>2 DEF RInv, BooksR
  <2>3. ASSUME Running("virts"), cv = NULL, NEW v \in todo PROVE ~Has("virt", v)
    <3>1. RInv /\ pc = "virts" /\ v # cv
      BY <2>2, <2>3, NotNull DEF Running, RInv, TypeOK, LoopTypes
    <3>2. committed_to[v] = NULL
      BY <3>1, NotYet
    <3> QED BY <2>0, <3>1, <3>2 DEF RInv, BooksR, BooksMatchKernel
  <2>4. ASSUME Running("remotes"), NEW q \in todo, IsNew(cur) \/ IsNew(<<q, cur[2]>>)
        PROVE  ~Has("rpa", <<cur[1], q, cur[2]>>)
    <3>1. RInv /\ pc = "remotes"
      BY <2>2, <2>4 DEF Running
    <3>2. cur = <<cur[1], cur[2]>>
      BY <3>1, Current
    <3>3. ASSUME NEW r \in rpas, r = <<cur[1], q, cur[2]>> PROVE FALSE
      <4>1. \A p \in {r[1], r[2]} : pa[<<p, r[3]>>] = "OK" \/ PastRemote(<<r[1], r[3]>>, r[2])
        BY <3>1 DEF RInv, BooksR, RpaSetR
      <4>2. ~PastRemote(cur, q)
        BY <2>4, <3>1 DEF PastRemote
      <4>3. pa[<<cur[1], cur[2]>>] = "OK" /\ pa[<<q, cur[2]>>] = "OK"
        BY <3>2, <3>3, <4>1, <4>2
      <4> QED BY <2>4, <3>2, <4>3 DEF IsNew
    <3> QED BY <2>0, <3>1, <3>3 DEF RInv, BooksR, BooksMatchKernel
  <2>5. ASSUME Running("rvirts"), NEW v \in todo, IsNew(cur) \/ virt[v] = "NEW"
        PROVE  /\ ~Has("rvirt", <<cur[1], connected_through[v], v>>)
               /\ Has("rpa", <<cur[1], connected_through[v], cur[2]>>)
    <3>1. RInv /\ pc = "rvirts" /\ dv = NULL /\ v \in Virts
      BY <2>2, <2>5 DEF Running, RInv, TypeOK, LoopTypes
    <3>2. cur = <<cur[1], cur[2]>>
      BY <3>1, Current
    <3>3. VirtNet[v] = cur[2] /\ <<cur[1], connected_through[v], cur[2]>> \in rpas
      BY <2>5, <3>1 DEF RInv, LoopsR, InRvirts
    <3>4. ASSUME NEW rv \in rvirts, rv = <<cur[1], connected_through[v], v>> PROVE FALSE
      <4>1. rv[1] = cur[1] /\ rv[3] = v
        BY <3>4
      <4>2. /\ virt[v] = "NEW" => PastRemoteVirt(<<cur[1], cur[2]>>, v)
            /\ pa[<<cur[1], cur[2]>>] = "NEW" => PastRemoteVirt(<<cur[1], cur[2]>>, v)
        BY <3>1, <3>3, <4>1, NotNull DEF RInv, BooksR, RvirtSetR
      <4>3. ~PastRemoteVirt(cur, v)
        BY <2>5, <3>1 DEF PastRemoteVirt
      <4> QED BY <2>5, <3>2, <4>2, <4>3 DEF IsNew
    <3> QED BY <2>0, <3>1, <3>3, <3>4 DEF RInv, BooksR, BooksMatchKernel
  <2> QED BY <2>1, <2>2, <2>3, <2>4, <2>5 DEF AddsInOrder
<1> QED BY <1>1, Invariance, PTL

\* destroy_pa finds a PA that was created and on which nothing is left.
THEOREM DestroysOnlyEmpty ==
  ASSUME Careful, Clean
  PROVE  Spec => []DestroysEmptyPa
<1>1. ASSUME IInv PROVE DestroysEmptyPa
  <2> SUFFICES ASSUME dp # NULL, dv = NULL, RpasOf(dp) = {}, committed_as_local[dp[1]]
               PROVE  /\ Has("pa", dp)
                      /\ \A f \in kernel : f[1] = "virt"
                           => ~(VirtNet[f[2]] = dp[2] /\ f[3][1] = dp[1])
                      /\ \A r \in Keys("rpa") : <<r[1], r[3]>> # dp
                      /\ \A rv \in Keys("rvirt") : <<rv[1], VirtNet[rv[3]]>> # dp
    BY DEF DestroysEmptyPa
  <2>1. dp \in PAs /\ dp = <<dp[1], dp[2]>> /\ dp[1] \in Physes
    BY <1>1, PaPair DEF IInv, TypeOK, LoopTypes, OrNull
  <2>2. pc # "remotes"
    <3> SUFFICES ASSUME pc = "remotes" PROVE FALSE
      OBVIOUS
    <3>1. RInv
      BY <1>1, InRecommit DEF Recommit
    <3>2. pa[dp] = "ERR" /\ dp[2] = cur[2] /\ dp[1] # cur[1]
      BY <3>1 DEF RInv, LoopsR, InRemotes
    <3>3. is_local[dp[1]]
      BY <2>1, <3>1 DEF RInv, ObjectsR, LocalsR
    <3>4. dp = cur
      BY <2>1, <3>1, <3>2, <3>3, Current, OnlyLocal DEF Live
    <3> QED BY <3>2, <3>4
  <2>3. pc = "decommit"
    BY <1>1, <2>2
       DEF IInv, TypeOK, LoopTypes, Phases, Loops, Idle, Walking, InVirts, InRvirts, Recommit
  <2>4. DInv /\ dp[2] = cur /\ pa[dp] \in {"NEW", "DELETE"} /\ VirtsDone(cur)
    BY <1>1, <2>3, DInvSuffices DEF DInv, LoopsD, Decommitting
  <2>5. Has("pa", dp)
    <3>1. dp \in Keys("pa")
      BY <2>1, <2>4 DEF DInv, BooksD, PaSetD, HasPaD, Installed
    <3> QED BY <3>1 DEF Keys, Has
  <2>6. ASSUME NEW f \in kernel, f[1] = "virt", VirtNet[f[2]] = dp[2], f[3][1] = dp[1] PROVE FALSE
    <3>1. PICK v \in Virts : v = f[2] /\ committed_to[v] # NULL
      <4>1. f[2] \in Keys("virt")
        BY <2>6 DEF Keys
      <4> QED BY <2>4, <4>1 DEF DInv, BooksD, BooksMatchKernel
    <3>2. committed_to[v] = dp[1]
      BY <2>4, <2>6, <3>1 DEF DInv, BooksD, VirtFacts
    <3>3. virt[v] = "OK" /\ connected_through[v] = dp[1]
      BY <2>4, <2>6, <3>1, <3>2, NotNull
         DEF DInv, BooksD, VirtSetD, Installed, VirtsDone, NeedsDecommit
    <3>4. PaOf(v) = dp
      BY <2>1, <2>6, <3>1, <3>3 DEF PaOf
    <3> QED BY <2>3, <2>4, <3>1, <3>2, <3>3, <3>4 DEF DInv, LoopsD, Propagated
  <2>7. ASSUME NEW r \in rpas PROVE <<r[1], r[3]>> # dp
    BY <2>1 DEF RpasOf
  <2>8. \A r \in Keys("rpa") : <<r[1], r[3]>> # dp
    BY <2>4, <2>7 DEF DInv, BooksD, BooksMatchKernel
  <2>9. ASSUME NEW rv \in Keys("rvirt") PROVE <<rv[1], VirtNet[rv[3]]>> # dp
    <3>1. <<rv[1], rv[2], VirtNet[rv[3]]>> \in rpas
      BY <2>4, <2>9 DEF DInv, BooksD, BooksMatchKernel, RvirtSetD
    <3>2. PICK r \in rpas : r = <<rv[1], rv[2], VirtNet[rv[3]]>>
      BY <3>1
    <3> QED BY <2>7, <3>2
  <2> QED BY <2>5, <2>6, <2>8, <2>9
<1> QED BY <1>1, Invariance, PTL
=============================================================================
