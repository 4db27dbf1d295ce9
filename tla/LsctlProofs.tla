---------------------------- MODULE LsctlProofs -----------------------------
(***************************************************************************)
(* Proofs about module Lsctl, for any number of objects, names and         *)
(* arguments and scripts of any length that keep the rules in              *)
(* CarefulScripts:                                                         *)
(*                                                                         *)
(*   NothingUndefinedHappens   no pointer to a released object is used, no *)
(*                             assert of the model fails and nothing is    *)
(*                             written behind the scope stack              *)
(*   ContextAlwaysMatches      the context is that of the blocks being     *)
(*                             evaluated                                   *)
(*                                                                         *)
(* The inductive invariant Inv says three things of the world.  Fine: the  *)
(* model is one that a commit can release (virts and PAs follow the states *)
(* of their net and phys).  Nested: the context is that of the blocks, no  *)
(* kind of block is open twice and the block of a virt is the innermost.   *)
(* Within: the nets and physes that the blocks belong to are live.  One    *)
(* lemma per command takes a world to the world after the command, and     *)
(* InvStep has one step per action.                                        *)
(***************************************************************************)
EXTENDS Lsctl, SequenceTheorems, WellFoundedInduction, TLAPS

(***************************************************************************)
(* The network model.                                                      *)
(***************************************************************************)
\* The records have their fields.
Shape(model) ==
  /\ DOMAIN model = {"settings", "net", "phys", "pa", "virt", "bug"}
  /\ DOMAIN model.net = NetIds /\ DOMAIN model.phys = PhysIds
  /\ DOMAIN model.virt = VirtIds /\ DOMAIN model.pa = PhysIds \X NetIds
  /\ \A n \in NetIds : DOMAIN model.net[n] = {"state", "name", "settings", "vid"}
  /\ \A p \in PhysIds : DOMAIN model.phys[p] = {"state", "name", "ip", "iface", "local"}
  /\ \A v \in VirtIds :
       DOMAIN model.virt[v] = {"state", "name", "net", "phys", "iface", "mac", "rules", "rate"}
  /\ \A a \in PhysIds \X NetIds : DOMAIN model.pa[a] = {"state", "explicit"}

\* A virt is in a net that is there, and is not committed before its net or
\* left when its net goes; its phys is not going.
FineVirt(model, v) ==
  LET o == model.virt[v] IN
  /\ o.state = "none" => o.net = 0 /\ o.phys = 0
  /\ o.state # "none" =>
       /\ o.net \in NetIds /\ o.phys \in PhysIds \cup {0}
       /\ model.net[o.net].state # "none"
       /\ model.net[o.net].state = "NEW" => o.state = "NEW"
       /\ model.net[o.net].state = "DELETE" => o.state = "DELETE"
       /\ o.phys # 0 => Live(model.phys[o.phys].state)

\* The same of a PA; one that stays behind in a net that goes has a virt that
\* goes as well and takes it along.
FinePa(model, p, n) ==
  LET o == model.pa[<<p, n>>] IN
  o.state # "none" =>
    /\ model.net[n].state # "none"
    /\ model.net[n].state = "NEW" => o.state = "NEW"
    /\ Live(o.state) => Live(model.phys[p].state)
    /\ Live(o.state) /\ model.net[n].state = "DELETE" =>
         /\ ~o.explicit
         /\ \E v \in VirtIds : model.virt[v].state # "none" /\ model.virt[v].phys = p
                               /\ model.virt[v].net = n

Fine(model) ==
  /\ Shape(model) /\ model.bug = "no"
  /\ \A v \in VirtIds : FineVirt(model, v)
  /\ \A p \in PhysIds, n \in NetIds : FinePa(model, p, n)

\* Nets and physes that are live stay so.
Keeps(before, after) ==
  /\ \A n \in NetIds : Live(before.net[n].state) => Live(after.net[n].state)
  /\ \A p \in PhysIds : Live(before.phys[p].state) => Live(after.phys[p].state)

\* Zero is no object.
LEMMA ZeroId == 0 \notin NetIds /\ 0 \notin PhysIds /\ 0 \notin VirtIds
BY DEF NetIds, PhysIds, VirtIds

\* A new context.
LEMMA EmptyFine == Fine(EmptyModel)
<1>1. /\ EmptyModel.net = [i \in NetIds |-> NoNet] /\ EmptyModel.phys = [i \in PhysIds |-> NoPhys]
      /\ EmptyModel.pa = [a \in PhysIds \X NetIds |-> NoPa]
      /\ EmptyModel.virt = [i \in VirtIds |-> NoVirt] /\ EmptyModel.bug = "no"
      /\ DOMAIN EmptyModel = {"settings", "net", "phys", "pa", "virt", "bug"}
  BY DEF EmptyModel
<1>2. /\ DOMAIN NoNet = {"state", "name", "settings", "vid"}
      /\ DOMAIN NoPhys = {"state", "name", "ip", "iface", "local"}
      /\ DOMAIN NoVirt = {"state", "name", "net", "phys", "iface", "mac", "rules", "rate"}
      /\ DOMAIN NoPa = {"state", "explicit"} /\ NoPa.state = "none"
      /\ NoVirt.state = "none" /\ NoVirt.net = 0 /\ NoVirt.phys = 0
  BY DEF NoNet, NoPhys, NoVirt, NoPa
<1> QED BY <1>1, <1>2 DEF Fine, Shape, FineVirt, FinePa

\* What is found by name is live.
LEMMA ByNameLive ==
  ASSUME NEW tab, NEW name
  PROVE  ByName(tab, name) = 0
         \/ (ByName(tab, name) \in DOMAIN tab /\ Live(tab[ByName(tab, name)].state)
             /\ ByName(tab, name) \in Names_search(tab, name))
<1> DEFINE S == {i \in Names_search(tab, name) : tab[i].state # "DELETE"}
<1>1. CASE S = {}
  BY <1>1 DEF ByName
<1>2. CASE S # {}
  <2>1. ByName(tab, name) = CHOOSE i \in S : TRUE
    BY <1>2 DEF ByName
  <2>2. ByName(tab, name) \in S
    <3> HIDE DEF S
    <3> QED BY <1>2, <2>1
  <2> QED BY <2>2 DEF Names_search, Allocated, Live
<1> QED BY <1>1, <1>2

\* A set of numbers that is not empty has a least one.
LEMMA LeastExists ==
  ASSUME NEW S \in SUBSET Nat, S # {}
  PROVE  \E x \in S : \A y \in S : x =< y
<1> DEFINE R == OpToRel(<, Nat)
<1>1. IsWellFoundedOn(R, Nat)
  BY NatLessThanWellFounded
<1>2. PICK x \in S : \A y \in S : ~(<<y, x>> \in R)
  <2> HIDE DEF R
  <2> QED BY <1>1, WFMin
<1>3. \A y \in S : y < x => <<y, x>> \in R
  BY DEF OpToRel
<1>4. \A y \in S : ~(y < x)
  <2> HIDE DEF R
  <2> QED BY <1>2, <1>3
<1>5. \A y \in S : x =< y
  BY <1>4
<1> QED BY <1>5

\* The next object is free when there is room.
LEMMA NextIdFree ==
  ASSUME NEW tab, NEW k, DOMAIN tab = 1..k, k \in Nat, Free(tab) # {}
  PROVE  NextId(tab) \in DOMAIN tab /\ tab[NextId(tab)].state = "none"
<1>1. Free(tab) \in SUBSET Nat /\ Free(tab) \subseteq DOMAIN tab
  BY DEF Free
<1>2. \E x \in Free(tab) : \A y \in Free(tab) : x <= y
  BY <1>1, LeastExists
<1>3. NextId(tab) \in Free(tab)
  BY <1>2 DEF NextId
<1> QED BY <1>3 DEF Free, Allocated

\* Bug does nothing when nothing is bad.
LEMMA NoBug == ASSUME NEW model, NEW what PROVE Bug(model, FALSE, what) = model
BY DEF Bug

\* A model whose objects are in the same states, at the same places.
LEMMA SameFine ==
  ASSUME NEW model, Fine(model), NEW next, Shape(next), next.bug = "no", next.pa = model.pa,
         \A n \in NetIds : next.net[n].state = model.net[n].state,
         \A p \in PhysIds : next.phys[p].state = model.phys[p].state,
         \A v \in VirtIds : /\ next.virt[v].state = model.virt[v].state
                            /\ next.virt[v].net = model.virt[v].net
                            /\ next.virt[v].phys = model.virt[v].phys
  PROVE  Fine(next) /\ Keeps(model, next)
<1>1. \A v \in VirtIds : FineVirt(next, v)
  <2> SUFFICES ASSUME NEW v \in VirtIds PROVE FineVirt(next, v)
    OBVIOUS
  <2>1. FineVirt(model, v)
    BY DEF Fine
  <2> QED BY <2>1 DEF FineVirt
<1>2. \A p \in PhysIds, n \in NetIds : FinePa(next, p, n)
  BY DEF Fine, FinePa
<1> QED BY <1>1, <1>2 DEF Fine, Keeps

-----------------------------------------------------------------------------
(***************************************************************************)
(* Making objects.                                                         *)
(***************************************************************************)

\* A name changes nothing else.
LEMMA NameSetSame ==
  ASSUME NEW tab, NEW i, NEW name, NEW j \in DOMAIN tab, NEW F, DOMAIN tab[j] = F, "state" \in F
  PROVE  /\ DOMAIN Name_set(tab, i, name) = DOMAIN tab
         /\ DOMAIN Name_set(tab, i, name)[j] = F
         /\ Name_set(tab, i, name)[j].state = tab[j].state
BY DEF Name_set

\* lsdn_net_new: nothing is left of the net that had the number before.
LEMMA NewNetFine ==
  ASSUME NEW model, Fine(model), NEW n \in NetIds, model.net[n].state = "none", NEW s, NEW vid
  PROVE  LET new == [NoNet EXCEPT !.state = "NEW", !.settings = s, !.vid = vid]
             next == [model EXCEPT !.net[n] = new]
         IN Fine(next) /\ Keeps(model, next) /\ Live(next.net[n].state)
<1> DEFINE new == [NoNet EXCEPT !.state = "NEW", !.settings = s, !.vid = vid]
           next == [model EXCEPT !.net[n] = new]
<1>1. new.state = "NEW" /\ DOMAIN new = {"state", "name", "settings", "vid"}
  BY DEF NoNet
<1> HIDE DEF new
<1>2. /\ next.net = [model.net EXCEPT ![n] = new] /\ next.phys = model.phys /\ next.pa = model.pa
      /\ next.virt = model.virt /\ next.bug = "no" /\ DOMAIN next = DOMAIN model
  BY DEF Fine, Shape
<1> HIDE DEF next
<1>3. \A k \in NetIds : next.net[k] = IF k = n THEN new ELSE model.net[k]
  BY <1>2 DEF Fine, Shape
<1>4. Shape(next)
  BY <1>1, <1>2, <1>3 DEF Fine, Shape
<1>5. \A v \in VirtIds : FineVirt(next, v)
  BY <1>2, <1>3 DEF Fine, FineVirt
<1>6. \A p \in PhysIds, k \in NetIds : FinePa(next, p, k)
  BY <1>2, <1>3 DEF Fine, FinePa
<1>7. Keeps(model, next) /\ Live(next.net[n].state)
  BY <1>1, <1>2, <1>3 DEF Keeps, Live
<1> QED BY <1>2, <1>4, <1>5, <1>6, <1>7 DEF Fine, new, next

\* lsdn_phys_new
LEMMA NewPhysFine ==
  ASSUME NEW model, Fine(model), NEW p \in PhysIds, model.phys[p].state = "none",
         Names_search(model.phys, Generated(p)) = {}
  PROVE  LET next == Phys_new(model, p)
         IN Fine(next) /\ Keeps(model, next) /\ Live(next.phys[p].state)
<1> DEFINE new == [NoPhys EXCEPT !.state = "NEW", !.name = Generated(p)]
           next == [model EXCEPT !.phys[p] = new]
<1>0. Phys_new(model, p) = next
  <2>1. (Names_search(model.phys, Generated(p)) # {}) = FALSE
    OBVIOUS
  <2> QED BY <2>1, NoBug DEF Phys_new
<1>1. new.state = "NEW" /\ DOMAIN new = {"state", "name", "ip", "iface", "local"}
  BY DEF NoPhys
<1> HIDE DEF new
<1>2. /\ next.phys = [model.phys EXCEPT ![p] = new] /\ next.net = model.net /\ next.pa = model.pa
      /\ next.virt = model.virt /\ next.bug = "no" /\ DOMAIN next = DOMAIN model
  BY DEF Fine, Shape
<1> HIDE DEF next
<1>3. \A k \in PhysIds : next.phys[k] = IF k = p THEN new ELSE model.phys[k]
  BY <1>2 DEF Fine, Shape
<1>4. Shape(next)
  BY <1>1, <1>2, <1>3 DEF Fine, Shape
<1>5. \A v \in VirtIds : FineVirt(next, v)
  BY <1>1, <1>2, <1>3 DEF Fine, FineVirt, Live
<1>6. \A k \in PhysIds, n \in NetIds : FinePa(next, k, n)
  BY <1>1, <1>2, <1>3 DEF Fine, FinePa, Live
<1>7. Keeps(model, next) /\ Live(next.phys[p].state)
  BY <1>1, <1>2, <1>3 DEF Keeps, Live
<1> QED BY <1>0, <1>2, <1>4, <1>5, <1>6, <1>7 DEF Fine, new, next

\* lsdn_virt_new
LEMMA NewVirtFine ==
  ASSUME NEW model, Fine(model), NEW v \in VirtIds, model.virt[v].state = "none",
         NEW n \in NetIds, Live(model.net[n].state),
         NEW new, new.state = "NEW", new.net = n, new.phys = 0,
         DOMAIN new = {"state", "name", "net", "phys", "iface", "mac", "rules", "rate"}
  PROVE  LET next == [model EXCEPT !.virt[v] = new]
         IN /\ Fine(next) /\ Keeps(model, next)
            /\ Live(next.virt[v].state) /\ next.virt[v].net = n
<1> DEFINE next == [model EXCEPT !.virt[v] = new]
<1>2. /\ next.virt = [model.virt EXCEPT ![v] = new] /\ next.net = model.net /\ next.pa = model.pa
      /\ next.phys = model.phys /\ next.bug = "no" /\ DOMAIN next = DOMAIN model
  BY DEF Fine, Shape
<1> HIDE DEF next
<1>3. \A k \in VirtIds : next.virt[k] = IF k = v THEN new ELSE model.virt[k]
  BY <1>2 DEF Fine, Shape
<1>4. Shape(next)
  BY <1>2, <1>3 DEF Fine, Shape
<1>5. \A k \in VirtIds : FineVirt(next, k)
  BY <1>2, <1>3 DEF Fine, FineVirt, Live
<1>6. \A p \in PhysIds, k \in NetIds : FinePa(next, p, k)
  <2> SUFFICES ASSUME NEW p \in PhysIds, NEW k \in NetIds PROVE FinePa(next, p, k)
    OBVIOUS
  <2>1. FinePa(model, p, k)
    BY DEF Fine
  <2>2. \A u \in VirtIds : model.virt[u].state # "none" => next.virt[u] = model.virt[u]
    BY <1>3
  <2> QED BY <1>2, <2>1, <2>2 DEF FinePa
<1>7. Keeps(model, next) /\ Live(next.virt[v].state) /\ next.virt[v].net = n
  BY <1>2, <1>3 DEF Keeps, Live
<1> QED BY <1>2, <1>4, <1>5, <1>6, <1>7 DEF Fine, next

\* The PA of p and n becomes o, and a virt of the net may move to the phys.
PaStep(model, p, n, o, next) ==
  /\ o.state = FindOrCreate(model.pa[<<p, n>>]).state /\ DOMAIN o = {"state", "explicit"}
  /\ DOMAIN next = DOMAIN model /\ next.bug = "no" /\ next.net = model.net
  /\ next.phys = model.phys /\ next.pa = [model.pa EXCEPT ![<<p, n>>] = o]
  /\ DOMAIN next.virt = VirtIds
  /\ \A v \in VirtIds :
       \/ next.virt[v] = model.virt[v]
       \/ /\ model.virt[v].state # "none" /\ model.virt[v].net = n
          /\ next.virt[v].state = model.virt[v].state /\ next.virt[v].net = n
          /\ next.virt[v].phys = p /\ DOMAIN next.virt[v] = DOMAIN model.virt[v]

\* lsdn_phys_attach and lsdn_virt_connect make the PA if there is none; the
\* phys and the net are live.
LEMMA PaFine ==
  ASSUME NEW model, Fine(model), NEW p \in PhysIds, NEW n \in NetIds,
         Live(model.phys[p].state), Live(model.net[n].state),
         NEW o, NEW next, PaStep(model, p, n, o, next)
  PROVE  Fine(next) /\ Keeps(model, next)
<1> USE DEF PaStep
<1>1. \A a \in PhysIds \X NetIds : next.pa[a] = IF a = <<p, n>> THEN o ELSE model.pa[a]
  BY DEF Fine, Shape
<1>2. Shape(next)
  BY <1>1 DEF Fine, Shape
<1>3. o.state = IF model.pa[<<p, n>>].state = "none" THEN "NEW" ELSE model.pa[<<p, n>>].state
  BY DEF FindOrCreate, NoPa
<1>4. \A v \in VirtIds : FineVirt(next, v)
  <2> SUFFICES ASSUME NEW v \in VirtIds PROVE FineVirt(next, v)
    OBVIOUS
  <2>1. FineVirt(model, v)
    BY DEF Fine
  <2> QED BY <2>1, ZeroId DEF FineVirt
<1>5. \A q \in PhysIds, k \in NetIds : FinePa(next, q, k)
  <2> SUFFICES ASSUME NEW q \in PhysIds, NEW k \in NetIds PROVE FinePa(next, q, k)
    OBVIOUS
  <2>1. FinePa(model, q, k)
    BY DEF Fine
  <2>2. CASE k = n
    <3>1. next.pa[<<q, k>>].state = model.pa[<<q, k>>].state
          \/ (q = p /\ model.pa[<<q, k>>].state = "none" /\ next.pa[<<q, k>>].state = "NEW")
      BY <1>1, <1>3
    <3> QED BY <2>1, <2>2, <3>1 DEF FinePa, Live
  <2>3. CASE k # n
    <3>1. next.pa[<<q, k>>] = model.pa[<<q, k>>]
      BY <1>1, <2>3
    <3>2. \A v \in VirtIds : model.virt[v].net = k => next.virt[v] = model.virt[v]
      BY <2>3
    <3> QED BY <2>1, <3>1, <3>2 DEF FinePa
  <2> QED BY <2>2, <2>3
<1>6. Keeps(model, next)
  BY DEF Keeps
<1> QED BY <1>2, <1>4, <1>5, <1>6 DEF Fine

\* lsdn_phys_attach
LEMMA PhysAttachFine ==
  ASSUME NEW model, Fine(model), NEW p \in PhysIds, NEW n \in NetIds,
         Live(model.phys[p].state), Live(model.net[n].state)
  PROVE  Fine(PhysAttach(model, p, n)) /\ Keeps(model, PhysAttach(model, p, n))
<1> DEFINE o == [FindOrCreate(model.pa[<<p, n>>]) EXCEPT !.explicit = TRUE]
           next == [model EXCEPT !.pa[<<p, n>>] = o]
<1>1. PhysAttach(model, p, n) = next
  <2>1. (~Live(model.phys[p].state) \/ model.net[n].state = "none") = FALSE
    BY DEF Live
  <2>2. PhysAttach(model, p, n) = Bug(next, ~Live(model.phys[p].state) \/ model.net[n].state = "none", "renew")
    BY DEF PhysAttach
  <2> QED BY <2>1, <2>2, NoBug
<1>2. DOMAIN FindOrCreate(model.pa[<<p, n>>]) = {"state", "explicit"}
  BY DEF Fine, Shape, FindOrCreate, NoPa
<1>3. o.state = FindOrCreate(model.pa[<<p, n>>]).state /\ DOMAIN o = {"state", "explicit"}
  BY <1>2
<1> HIDE DEF o
<1>4. /\ DOMAIN next = DOMAIN model /\ next.bug = "no" /\ next.net = model.net
      /\ next.phys = model.phys /\ next.pa = [model.pa EXCEPT ![<<p, n>>] = o]
           /\ next.virt = model.virt
  BY DEF Fine, Shape
<1>5. DOMAIN next.virt = VirtIds
  BY <1>4 DEF Fine, Shape
<1> HIDE DEF next
<1>6. PaStep(model, p, n, o, next)
  BY <1>3, <1>4, <1>5 DEF PaStep
<1> QED BY <1>1, <1>6, PaFine

\* lsdn_virt_connect
LEMMA VirtConnectFine ==
  ASSUME NEW model, Fine(model), NEW p \in PhysIds, Live(model.phys[p].state),
         NEW v \in VirtIds, model.virt[v].state # "none",
         Live(model.net[model.virt[v].net].state), NEW iface, iface # NULL
  PROVE  /\ Fine(VirtConnect(model, v, p, iface)) /\ Keeps(model, VirtConnect(model, v, p, iface))
<1> DEFINE n == model.virt[v].net
           o == FindOrCreate(model.pa[<<p, n>>])
           next == [model EXCEPT !.pa[<<p, n>>] = o, !.virt[v].phys = p, !.virt[v].iface = iface]
<1>1. VirtConnect(model, v, p, iface) = next
  <2>1. (iface = NULL \/ model.phys[p].state = "none") = FALSE
    BY DEF Live
  <2>2. VirtConnect(model, v, p, iface) = Bug(next, iface = NULL \/ model.phys[p].state = "none", "strdup")
    BY DEF VirtConnect
  <2> QED BY <2>1, <2>2, NoBug
<1>0. n \in NetIds
  BY DEF Fine, FineVirt
<1>2. DOMAIN o = {"state", "explicit"}
  BY <1>0 DEF Fine, Shape, FindOrCreate, NoPa
<1> HIDE DEF o
<1>4. /\ DOMAIN next = DOMAIN model /\ next.bug = "no" /\ next.net = model.net
      /\ next.phys = model.phys /\ next.pa = [model.pa EXCEPT ![<<p, n>>] = o]
      /\ DOMAIN next.virt = VirtIds
      /\ \A u \in VirtIds \ {v} : next.virt[u] = model.virt[u]
      /\ next.virt[v] = [model.virt[v] EXCEPT !.phys = p, !.iface = iface]
  BY DEF Fine, Shape
<1>5. /\ next.virt[v].state = model.virt[v].state /\ next.virt[v].net = n
      /\ next.virt[v].phys = p /\ DOMAIN next.virt[v] = DOMAIN model.virt[v]
  BY <1>4 DEF Fine, Shape
<1>6. \A u \in VirtIds :
           \/ next.virt[u] = model.virt[u]
           \/ /\ model.virt[u].state # "none" /\ model.virt[u].net = n
              /\ next.virt[u].state = model.virt[u].state /\ next.virt[u].net = n
              /\ next.virt[u].phys = p /\ DOMAIN next.virt[u] = DOMAIN model.virt[u]
  BY <1>4, <1>5
<1> HIDE DEF next
<1>7. Live(model.net[n].state) /\ o.state = FindOrCreate(model.pa[<<p, n>>]).state
  BY DEF o
<1> HIDE DEF n
<1>8. PaStep(model, p, n, o, next)
  BY <1>2, <1>4, <1>6, <1>7 DEF PaStep
<1>9. Fine(next) /\ Keeps(model, next)
  BY <1>0, <1>7, <1>8, PaFine
<1> QED BY <1>1, <1>9

-----------------------------------------------------------------------------
(***************************************************************************)
(* Freeing objects.                                                        *)
(***************************************************************************)

\* free_helper: what was never committed is gone, the rest awaits its
\* deletion.
LEMMA FreeObjectIs ==
  ASSUME NEW o, NEW absent, NEW F, DOMAIN o = F, "state" \in F
  PROVE  /\ o.state = "NEW" => FreeObject(o, absent) = absent
         /\ o.state # "NEW" => /\ FreeObject(o, absent).state = "DELETE"
                               /\ DOMAIN FreeObject(o, absent) = F
                               /\ \A f \in F \ {"state"} : FreeObject(o, absent)[f] = o[f]
BY DEF FreeObject, FreeHelper

\* What free_pa_if_possible leaves alone.
LEMMA FreePasIs ==
  ASSUME NEW model, Shape(model), NEW A
  PROVE  LET next == FreePasIfPossible(model, A) IN
         /\ Shape(next) /\ next.bug = model.bug /\ next.net = model.net /\ next.phys = model.phys
         /\ next.virt = model.virt /\ next.settings = model.settings
         /\ \A a \in PhysIds \X NetIds :
              next.pa[a] = IF a \in A /\ model.pa[a].state # "none" /\ ~model.pa[a].explicit
                              /\ Connected(model, a) = {}
                           THEN FreeObject(model.pa[a], NoPa) ELSE model.pa[a]
<1> DEFINE pas == [a \in DOMAIN model.pa |->
                     IF a \in A /\ model.pa[a].state # "none" /\ ~model.pa[a].explicit
                        /\ Connected(model, a) = {}
                     THEN FreeObject(model.pa[a], NoPa) ELSE model.pa[a]]
           next == FreePasIfPossible(model, A)
<1>1. next = [model EXCEPT !.pa = pas]
  BY DEF FreePasIfPossible
<1>2. /\ DOMAIN pas = PhysIds \X NetIds
      /\ \A a \in PhysIds \X NetIds :
           pas[a] = IF a \in A /\ model.pa[a].state # "none" /\ ~model.pa[a].explicit
                        /\ Connected(model, a) = {}
                     THEN FreeObject(model.pa[a], NoPa) ELSE model.pa[a]
  BY DEF Shape
<1>3. \A a \in PhysIds \X NetIds : DOMAIN pas[a] = {"state", "explicit"}
  <2>1. \A a \in PhysIds \X NetIds : DOMAIN FreeObject(model.pa[a], NoPa) = {"state", "explicit"}
    <3>1. DOMAIN NoPa = {"state", "explicit"}
      BY DEF NoPa
    <3>2. \A a \in PhysIds \X NetIds : DOMAIN model.pa[a] = {"state", "explicit"}
      BY DEF Shape
    <3> QED BY <3>1, <3>2, FreeObjectIs
  <2>2. \A a \in PhysIds \X NetIds : DOMAIN model.pa[a] = {"state", "explicit"}
    BY DEF Shape
  <2> HIDE DEF pas
  <2> QED BY <1>2, <2>1, <2>2
<1> HIDE DEF pas, next
<1>4. /\ next.bug = model.bug /\ next.net = model.net /\ next.phys = model.phys /\ next.pa = pas
      /\ next.virt = model.virt /\ next.settings = model.settings /\ DOMAIN next = DOMAIN model
  BY <1>1 DEF Shape
<1>5. Shape(next)
  BY <1>2, <1>3, <1>4 DEF Shape
<1> QED BY <1>2, <1>4, <1>5 DEF next

\* The same of phys_detach_by_pa.
LEMMA DetachPasIs ==
  ASSUME NEW model, Shape(model), NEW A
  PROVE  LET next == DetachPas(model, A) IN
         /\ Shape(next) /\ next.bug = model.bug /\ next.net = model.net /\ next.phys = model.phys
         /\ next.virt = model.virt
         /\ \A a \in PhysIds \X NetIds :
              /\ a \notin A => next.pa[a] = model.pa[a]
              /\ a \in A =>
                   /\ model.pa[a].state = "none" => next.pa[a].state = "none"
                   /\ next.pa[a].state # "none" => ~next.pa[a].explicit
                   /\ Connected(model, a) # {} => next.pa[a].state = model.pa[a].state
                   /\ Connected(model, a) = {} /\ model.pa[a].state # "none" =>
                        next.pa[a].state = FreeHelper(model.pa[a].state)
<1> DEFINE pas == [a \in DOMAIN model.pa |->
                     IF a \in A THEN [model.pa[a] EXCEPT !.explicit = FALSE] ELSE model.pa[a]]
           mid == [model EXCEPT !.pa = pas]
           next == DetachPas(model, A)
<1>1. next = FreePasIfPossible(mid, A)
  BY DEF DetachPas
<1>2. /\ DOMAIN pas = PhysIds \X NetIds
      /\ \A a \in PhysIds \X NetIds :
           /\ a \notin A => pas[a] = model.pa[a]
           /\ a \in A => pas[a].state = model.pa[a].state /\ pas[a].explicit = FALSE
           /\ DOMAIN pas[a] = {"state", "explicit"}
  BY DEF Shape
<1> HIDE DEF pas
<1>3. /\ mid.bug = model.bug /\ mid.net = model.net /\ mid.phys = model.phys /\ mid.pa = pas
      /\ mid.virt = model.virt /\ DOMAIN mid = DOMAIN model
  BY DEF Shape
<1> HIDE DEF mid
<1>4. Shape(mid) /\ \A a : Connected(mid, a) = Connected(model, a)
  BY <1>2, <1>3 DEF Shape, Connected
<1>5. /\ Shape(next) /\ next.bug = mid.bug /\ next.net = mid.net /\ next.phys = mid.phys
      /\ next.virt = mid.virt
      /\ \A a \in PhysIds \X NetIds :
           next.pa[a] = IF a \in A /\ mid.pa[a].state # "none" /\ ~mid.pa[a].explicit
                           /\ Connected(mid, a) = {}
                        THEN FreeObject(mid.pa[a], NoPa) ELSE mid.pa[a]
  BY <1>1, <1>4, FreePasIs
<1> HIDE DEF next
<1>6. ASSUME NEW a \in PhysIds \X NetIds, a \in A
      PROVE  /\ model.pa[a].state = "none" => next.pa[a].state = "none"
             /\ next.pa[a].state # "none" => ~next.pa[a].explicit
             /\ Connected(model, a) # {} => next.pa[a].state = model.pa[a].state
             /\ Connected(model, a) = {} /\ model.pa[a].state # "none" =>
                  next.pa[a].state = FreeHelper(model.pa[a].state)
  <2> DEFINE o == mid.pa[a]
  <2>1. o.state = model.pa[a].state /\ o.explicit = FALSE /\ DOMAIN o = {"state", "explicit"}
    BY <1>2, <1>3, <1>6
  <2>2. next.pa[a] = IF model.pa[a].state # "none"
          /\ Connected(model, a) = {} THEN FreeObject(o, NoPa) ELSE o
    BY <1>4, <1>5, <1>6, <2>1
  <2> HIDE DEF o
  <2>3. NoPa.state = "none"
    BY DEF NoPa
  <2>4. /\ o.state = "NEW" => FreeObject(o, NoPa) = NoPa
        /\ o.state # "NEW" => FreeObject(o, NoPa).state = "DELETE"
             /\ FreeObject(o, NoPa).explicit = FALSE
    BY <2>1, FreeObjectIs
  <2> QED BY <2>1, <2>2, <2>3, <2>4 DEF FreeHelper
<1>7. \A a \in PhysIds \X NetIds : a \notin A => next.pa[a] = model.pa[a]
  BY <1>2, <1>3, <1>5
<1> QED BY <1>3, <1>5, <1>6, <1>7 DEF next

\* lsdn_virt_free, for virts that are there.
LEMMA VirtsFreeIs ==
  ASSUME NEW model, Shape(model), NEW V \in SUBSET VirtIds
  PROVE  LET next == VirtsFree(model, V) IN
         /\ Shape(next) /\ next.bug = model.bug /\ next.net = model.net /\ next.phys = model.phys
         /\ \A v \in VirtIds \ V : next.virt[v] = model.virt[v]
         /\ \A v \in V :
              /\ model.virt[v].state = "NEW" => next.virt[v] = NoVirt
              /\ model.virt[v].state # "NEW" => /\ next.virt[v].state = "DELETE"
                                                /\ next.virt[v].net = model.virt[v].net
                                                /\ next.virt[v].phys = model.virt[v].phys
         /\ \A a \in PhysIds \X NetIds :
              \/ next.pa[a] = model.pa[a]
              \/ /\ next.pa[a].state = FreeHelper(model.pa[a].state) /\ model.pa[a].state # "none"
                 /\ \E v \in V : a = <<model.virt[v].phys, model.virt[v].net>>
<1> DEFINE virts == [v \in VirtIds |->
                       IF v \in V
                       THEN FreeObject([model.virt[v] EXCEPT !.rules = Vrs_free_all(@)], NoVirt)
                       ELSE model.virt[v]]
           mid == [model EXCEPT !.virt = virts]
           A == {<<model.virt[v].phys, model.virt[v].net>> : v \in {u \in V :
             model.virt[u].state = "NEW"}}
           next == VirtsFree(model, V)
           F == {"state", "name", "net", "phys", "iface", "mac", "rules", "rate"}
<1>1. next = FreePasIfPossible(mid, A)
  BY DEF VirtsFree
<1>2. ASSUME NEW v \in V
      PROVE  /\ model.virt[v].state = "NEW" => virts[v] = NoVirt
             /\ model.virt[v].state # "NEW" => /\ virts[v].state = "DELETE"
                                               /\ virts[v].net = model.virt[v].net
                                               /\ virts[v].phys = model.virt[v].phys
             /\ DOMAIN virts[v] = F
  <2> DEFINE o == [model.virt[v] EXCEPT !.rules = Vrs_free_all(@)]
  <2>1. /\ o.state = model.virt[v].state /\ o.net = model.virt[v].net /\ o.phys = model.virt[v].phys
        /\ DOMAIN o = F
    BY <1>2 DEF Shape
  <2>2. virts[v] = FreeObject(o, NoVirt)
    BY <1>2
  <2> HIDE DEF o, virts
  <2>3. DOMAIN NoVirt = F
    BY DEF NoVirt
  <2>4. /\ o.state = "NEW" => FreeObject(o, NoVirt) = NoVirt
        /\ o.state # "NEW" => /\ FreeObject(o, NoVirt).state = "DELETE"
                              /\ DOMAIN FreeObject(o, NoVirt) = F
                              /\ FreeObject(o, NoVirt).net = o.net
                              /\ FreeObject(o, NoVirt).phys = o.phys
    BY <2>1, FreeObjectIs
  <2> QED BY <2>1, <2>2, <2>3, <2>4
<1>3. DOMAIN virts = VirtIds /\ \A v \in VirtIds \ V : virts[v] = model.virt[v]
  OBVIOUS
<1> HIDE DEF virts
<1>4. /\ mid.bug = model.bug /\ mid.net = model.net /\ mid.phys = model.phys /\ mid.pa = model.pa
      /\ mid.virt = virts /\ DOMAIN mid = DOMAIN model
  BY DEF Shape
<1> HIDE DEF mid, A
<1>5. Shape(mid)
  BY <1>2, <1>3, <1>4 DEF Shape
<1>6. /\ Shape(next) /\ next.bug = mid.bug /\ next.net = mid.net /\ next.phys = mid.phys
      /\ next.virt = mid.virt
      /\ \A a \in PhysIds \X NetIds :
           next.pa[a] = IF a \in A /\ mid.pa[a].state # "none" /\ ~mid.pa[a].explicit
                           /\ Connected(mid, a) = {}
                        THEN FreeObject(mid.pa[a], NoPa) ELSE mid.pa[a]
  BY <1>1, <1>5, FreePasIs
<1> HIDE DEF next
<1>7. ASSUME NEW a \in PhysIds \X NetIds
      PROVE  \/ next.pa[a] = model.pa[a]
             \/ /\ next.pa[a].state = FreeHelper(model.pa[a].state) /\ model.pa[a].state # "none"
                /\ \E v \in V : a = <<model.virt[v].phys, model.virt[v].net>>
  <2>1. CASE a \in A /\ model.pa[a].state # "none" /\ next.pa[a] = FreeObject(model.pa[a], NoPa)
    <3>1. NoPa.state = "none" /\ DOMAIN model.pa[a] = {"state", "explicit"}
      BY DEF NoPa, Shape
    <3>2. next.pa[a].state = FreeHelper(model.pa[a].state)
      BY <2>1, <3>1, FreeObjectIs DEF FreeHelper
    <3> QED BY <2>1, <3>2 DEF A
  <2> QED BY <1>4, <1>6, <2>1
<1> QED BY <1>2, <1>3, <1>4, <1>6, <1>7 DEF next

\* virt -remove: a virt of a net that stays.
LEMMA VirtFreeFine ==
  ASSUME NEW model, Fine(model), NEW u \in VirtIds, model.virt[u].state # "none",
         Live(model.net[model.virt[u].net].state)
  PROVE  Fine(VirtsFree(model, {u})) /\ Keeps(model, VirtsFree(model, {u}))
<1> DEFINE next == VirtsFree(model, {u})
           n == model.virt[u].net
<1>1. /\ Shape(next) /\ next.bug = model.bug /\ next.net = model.net /\ next.phys = model.phys
      /\ \A v \in VirtIds \ {u} : next.virt[v] = model.virt[v]
      /\ model.virt[u].state = "NEW" => next.virt[u] = NoVirt
      /\ model.virt[u].state # "NEW" => /\ next.virt[u].state = "DELETE"
                                        /\ next.virt[u].net = n
                                        /\ next.virt[u].phys = model.virt[u].phys
      /\ \A a \in PhysIds \X NetIds :
           \/ next.pa[a] = model.pa[a]
           \/ /\ next.pa[a].state = FreeHelper(model.pa[a].state) /\ model.pa[a].state # "none"
              /\ a = <<model.virt[u].phys, n>>
  <2>1. {u} \in SUBSET VirtIds /\ Shape(model)
    BY DEF Fine
  <2> QED BY <2>1, VirtsFreeIs
<1> HIDE DEF next, n
<1>2. Live(model.net[n].state) /\ model.virt[u].net = n /\ n \in NetIds
  BY DEF n, Fine, FineVirt
<1>3. \A v \in VirtIds : FineVirt(next, v)
  <2> SUFFICES ASSUME NEW v \in VirtIds PROVE FineVirt(next, v)
    OBVIOUS
  <2>1. FineVirt(model, v)
    BY DEF Fine
  <2>2. CASE v # u
    BY <1>1, <2>1, <2>2 DEF FineVirt
  <2>3. CASE v = u /\ model.virt[u].state = "NEW"
    <3>1. next.virt[v].state = "none" /\ next.virt[v].net = 0 /\ next.virt[v].phys = 0
      BY <1>1, <2>3 DEF NoVirt
    <3> QED BY <3>1 DEF FineVirt
  <2>4. CASE v = u /\ model.virt[u].state # "NEW"
    BY <1>1, <1>2, <2>1, <2>4 DEF FineVirt, Live
  <2> QED BY <2>2, <2>3, <2>4
<1>4. \A p \in PhysIds, k \in NetIds : FinePa(next, p, k)
  <2> SUFFICES ASSUME NEW p \in PhysIds, NEW k \in NetIds PROVE FinePa(next, p, k)
    OBVIOUS
  <2>1. FinePa(model, p, k)
    BY DEF Fine
  <2>2. CASE next.pa[<<p, k>>] = model.pa[<<p, k>>]
    <3>1. model.net[k].state = "DELETE" => \A v \in VirtIds : model.virt[v].net = k =>
            next.virt[v] = model.virt[v]
      BY <1>1, <1>2 DEF Live
    <3> QED BY <1>1, <2>1, <2>2, <3>1 DEF FinePa
  <2>3. CASE /\ next.pa[<<p, k>>].state = FreeHelper(model.pa[<<p, k>>].state)
             /\ model.pa[<<p, k>>].state # "none" /\ k = n
    <3>1. next.pa[<<p, k>>].state = IF model.pa[<<p, k>>].state = "NEW" THEN "none" ELSE "DELETE"
      BY <2>3 DEF FreeHelper
    <3> QED BY <1>1, <2>1, <2>3, <3>1 DEF FinePa, Live
  <2>4. next.pa[<<p, k>>] = model.pa[<<p, k>>]
        \/ (/\ next.pa[<<p, k>>].state = FreeHelper(model.pa[<<p, k>>].state)
            /\ model.pa[<<p, k>>].state # "none" /\ k = n)
    BY <1>1
  <2> QED BY <2>2, <2>3, <2>4
<1>5. Keeps(model, next)
  BY <1>1 DEF Keeps
<1> QED BY <1>1, <1>3, <1>4, <1>5 DEF Fine, next

\* detach
LEMMA PhysDetachFine ==
  ASSUME NEW model, Fine(model), NEW p \in PhysIds, NEW n \in NetIds, Live(model.net[n].state)
  PROVE  Fine(PhysDetach(model, p, n)) /\ Keeps(model, PhysDetach(model, p, n))
<1> DEFINE next == PhysDetach(model, p, n)
<1>1. /\ Shape(next) /\ next.bug = model.bug /\ next.net = model.net /\ next.phys = model.phys
      /\ next.virt = model.virt
      /\ \A a \in PhysIds \X NetIds :
              /\ a \notin {<<p, n>>} => next.pa[a] = model.pa[a]
              /\ a \in {<<p, n>>} =>
                   /\ model.pa[a].state = "none" => next.pa[a].state = "none"
                   /\ next.pa[a].state # "none" => ~next.pa[a].explicit
                   /\ Connected(model, a) # {} => next.pa[a].state = model.pa[a].state
                   /\ Connected(model, a) = {} /\ model.pa[a].state # "none" =>
                        next.pa[a].state = FreeHelper(model.pa[a].state)
  BY DetachPasIs DEF PhysDetach, Fine
<1> HIDE DEF next
<1>2. \A v \in VirtIds : FineVirt(next, v)
  BY <1>1 DEF Fine, FineVirt
<1>3. \A q \in PhysIds, k \in NetIds : FinePa(next, q, k)
  <2> SUFFICES ASSUME NEW q \in PhysIds, NEW k \in NetIds PROVE FinePa(next, q, k)
    OBVIOUS
  <2>1. FinePa(model, q, k)
    BY DEF Fine
  <2>2. CASE <<q, k>> # <<p, n>>
    BY <1>1, <2>1, <2>2 DEF FinePa
  <2>3. CASE q = p /\ k = n
    <3>1. next.pa[<<q, k>>].state \in {model.pa[<<q, k>>].state, "none"}
          \/ (next.pa[<<q, k>>].state = "DELETE" /\ model.pa[<<q, k>>].state \notin {"NEW", "none"})
      BY <1>1, <2>3 DEF FreeHelper
    <3> QED BY <1>1, <2>1, <2>3, <3>1 DEF FinePa, Live
  <2> QED BY <2>2, <2>3
<1>4. Keeps(model, next)
  BY <1>1 DEF Keeps
<1> QED BY <1>1, <1>2, <1>3, <1>4 DEF Fine, next

\* free_helper on some objects of a table
LEMMA FreeObjectsIs ==
  ASSUME NEW tab, NEW S, NEW absent, NEW F, "state" \in F, DOMAIN absent = F, absent.state = "none",
         NEW i \in DOMAIN tab, DOMAIN tab[i] = F
  PROVE  LET r == FreeObjects(tab, S, absent) IN
         /\ DOMAIN r = DOMAIN tab /\ DOMAIN r[i] = F
         /\ i \notin S => r[i] = tab[i]
         /\ i \in S => r[i].state = IF tab[i].state = "NEW" THEN "none" ELSE "DELETE"
<1>1. DOMAIN FreeObjects(tab, S, absent) = DOMAIN tab
      /\ FreeObjects(tab, S, absent)[i] = IF i \in S THEN FreeObject(tab[i], absent) ELSE tab[i]
  BY DEF FreeObjects
<1>2. /\ tab[i].state = "NEW" => FreeObject(tab[i], absent) = absent
      /\ tab[i].state # "NEW" => /\ FreeObject(tab[i], absent).state = "DELETE"
                                 /\ DOMAIN FreeObject(tab[i], absent) = F
  BY FreeObjectIs
<1> QED BY <1>1, <1>2

\* net -remove and the nets of a context that goes; all of them are there.
LEMMA NetsFreeFine ==
  ASSUME NEW model, Fine(model), NEW N \in SUBSET NetIds, \A n \in N : model.net[n].state # "none"
  PROVE  LET next == NetsFree(model, N) IN
         /\ Fine(next) /\ next.phys = model.phys
         /\ \A k \in NetIds \ N : next.net[k] = model.net[k]
         /\ \A v \in VirtIds : next.virt[v].phys \in {0, model.virt[v].phys}
         /\ \A p \in PhysIds, n \in N : next.pa[<<p, n>>].state # "none" =>
                                          ~next.pa[<<p, n>>].explicit
<1> DEFINE V == {v \in VirtIds : model.virt[v].net \in N}
           mid == VirtsFree(model, V)
           m1 == DetachPas(mid, PhysIds \X N)
           Left(n) == \/ \E v \in VirtIds : m1.virt[v].net = n
                      \/ \E p \in PhysIds : m1.pa[<<p, n>>].state # "none"
           bad == \E n \in N : model.net[n].state = "NEW" /\ Left(n)
           last == [m1 EXCEPT !.net = FreeObjects(@, N, NoNet)]
           next == NetsFree(model, N)
<1>1. next = Bug(last, bad, "net_do_free")
  BY DEF NetsFree
<1>2. Shape(model) /\ model.bug = "no" /\ V \in SUBSET VirtIds
  BY DEF Fine
<1>3. \A v \in V : FineVirt(model, v) /\ model.virt[v].state # "none" /\ v \in VirtIds
        /\ model.virt[v].net \in N
  BY ZeroId DEF Fine, FineVirt
<1>4. \A v \in VirtIds \ V : model.virt[v].net \notin N
  OBVIOUS
<1> HIDE DEF V
<1>5. /\ Shape(mid) /\ mid.bug = model.bug /\ mid.net = model.net /\ mid.phys = model.phys
      /\ \A v \in VirtIds \ V : mid.virt[v] = model.virt[v]
      /\ \A v \in V :
           /\ model.virt[v].state = "NEW" => mid.virt[v] = NoVirt
           /\ model.virt[v].state # "NEW" => /\ mid.virt[v].state = "DELETE"
                                             /\ mid.virt[v].net = model.virt[v].net
                                             /\ mid.virt[v].phys = model.virt[v].phys
      /\ \A a \in PhysIds \X NetIds :
           \/ mid.pa[a] = model.pa[a]
           \/ /\ mid.pa[a].state = FreeHelper(model.pa[a].state) /\ model.pa[a].state # "none"
              /\ \E v \in V : a = <<model.virt[v].phys, model.virt[v].net>>
  BY <1>2, VirtsFreeIs
<1> HIDE DEF mid
<1>6. /\ Shape(m1) /\ m1.bug = mid.bug /\ m1.net = mid.net /\ m1.phys = mid.phys
      /\ m1.virt = mid.virt
      /\ \A a \in PhysIds \X NetIds :
           /\ a \notin PhysIds \X N => m1.pa[a] = mid.pa[a]
           /\ a \in PhysIds \X N =>
                /\ mid.pa[a].state = "none" => m1.pa[a].state = "none"
                /\ m1.pa[a].state # "none" => ~m1.pa[a].explicit
                /\ Connected(mid, a) # {} => m1.pa[a].state = mid.pa[a].state
                /\ Connected(mid, a) = {} /\ mid.pa[a].state # "none" =>
                     m1.pa[a].state = FreeHelper(mid.pa[a].state)
  BY <1>5, DetachPasIs
<1> HIDE DEF m1
<1>7. \A v \in VirtIds :
        \/ v \notin V /\ m1.virt[v] = model.virt[v]
        \/ v \in V /\ model.virt[v].state = "NEW" /\ m1.virt[v].state = "none"
           /\ m1.virt[v].net = 0 /\ m1.virt[v].phys = 0
        \/ v \in V /\ model.virt[v].state # "NEW" /\ m1.virt[v].state = "DELETE"
           /\ m1.virt[v].net = model.virt[v].net /\ m1.virt[v].phys = model.virt[v].phys
  <2>1. NoVirt.state = "none" /\ NoVirt.net = 0 /\ NoVirt.phys = 0
    BY DEF NoVirt
  <2> QED BY <1>3, <1>5, <1>6, <2>1
<1>8. \A p \in PhysIds, k \in NetIds : k \notin N => m1.pa[<<p, k>>] = model.pa[<<p, k>>]
  <2> SUFFICES ASSUME NEW p \in PhysIds, NEW k \in NetIds, k \notin N
               PROVE  m1.pa[<<p, k>>] = model.pa[<<p, k>>]
    OBVIOUS
  <2>1. m1.pa[<<p, k>>] = mid.pa[<<p, k>>]
    BY <1>6
  <2> QED BY <1>3, <1>5, <2>1
<1>9. ASSUME NEW p \in PhysIds, NEW n \in N, model.net[n].state = "NEW"
      PROVE  m1.pa[<<p, n>>].state = "none"
  <2>1. model.pa[<<p, n>>].state \in {"none", "NEW"}
    BY <1>9 DEF Fine, FinePa
  <2>2. mid.pa[<<p, n>>].state \in {"none", "NEW"}
    BY <1>5, <2>1 DEF FreeHelper
  <2>3. Connected(mid, <<p, n>>) = {}
    <3>1. \A v \in VirtIds : mid.virt[v].net # n \/ mid.virt[v].state = "none"
      BY <1>3, <1>4, <1>6, <1>7, <1>9 DEF FineVirt
    <3> QED BY <3>1 DEF Connected
  <2> QED BY <1>6, <2>2, <2>3 DEF FreeHelper
<1>10. bad = FALSE
  <2>1. ASSUME NEW n \in N, model.net[n].state = "NEW" PROVE \A v \in VirtIds : m1.virt[v].net # n
    BY <1>3, <1>4, <1>7, <2>1, ZeroId DEF FineVirt
  <2> QED BY <1>9, <2>1
<1>11. next = last
  <2> HIDE DEF bad, last, next
  <2> QED BY <1>1, <1>10, NoBug
<1> HIDE DEF bad, next
<1> DEFINE nets == FreeObjects(model.net, N, NoNet)
<1>12. /\ DOMAIN nets = NetIds
       /\ \A k \in NetIds :
            /\ DOMAIN nets[k] = {"state", "name", "settings", "vid"}
            /\ k \notin N => nets[k] = model.net[k]
            /\ k \in N => nets[k].state = IF model.net[k].state = "NEW" THEN "none" ELSE "DELETE"
  <2>1. DOMAIN NoNet = {"state", "name", "settings", "vid"} /\ NoNet.state = "none"
    BY DEF NoNet
  <2>2. DOMAIN model.net = NetIds
        /\ \A k \in NetIds : DOMAIN model.net[k] = {"state", "name", "settings", "vid"}
    BY <1>2 DEF Shape
  <2>3. DOMAIN nets = NetIds
    BY <2>2 DEF FreeObjects
  <2>4. ASSUME NEW k \in NetIds
        PROVE  /\ DOMAIN nets[k] = {"state", "name", "settings", "vid"}
               /\ k \notin N => nets[k] = model.net[k]
               /\ k \in N => nets[k].state = IF model.net[k].state = "NEW" THEN "none" ELSE "DELETE"
    <3> DEFINE F == {"state", "name", "settings", "vid"}
    <3>1. "state" \in F /\ DOMAIN NoNet = F /\ k \in DOMAIN model.net /\ DOMAIN model.net[k] = F
      BY <2>1, <2>2
    <3> HIDE DEF F
    <3>2. /\ DOMAIN FreeObjects(model.net, N, NoNet)[k] = F
          /\ k \notin N => FreeObjects(model.net, N, NoNet)[k] = model.net[k]
          /\ k \in N => FreeObjects(model.net, N, NoNet)[k].state =
                          IF model.net[k].state = "NEW" THEN "none" ELSE "DELETE"
      BY <2>1, <3>1, FreeObjectsIs
    <3> QED BY <3>2 DEF F
  <2> QED BY <2>3, <2>4
<1> HIDE DEF nets
<1>13. /\ last.net = nets /\ last.phys = model.phys /\ last.pa = m1.pa
       /\ last.virt = m1.virt /\ last.bug = "no" /\ DOMAIN last = DOMAIN m1
  BY <1>2, <1>5, <1>6 DEF Shape, nets
<1> HIDE DEF last
<1>15. Shape(last)
  BY <1>2, <1>6, <1>12, <1>13 DEF Shape
<1>16. \A v \in VirtIds : FineVirt(last, v)
  <2> SUFFICES ASSUME NEW v \in VirtIds PROVE FineVirt(last, v)
    OBVIOUS
  <2>1. FineVirt(model, v)
    BY DEF Fine
  <2>2. CASE v \notin V
    <3>1. last.virt[v] = model.virt[v] /\ model.virt[v].net \notin N
      BY <1>4, <1>7, <1>13, <2>2
    <3> QED BY <1>12, <1>13, <2>1, <3>1 DEF FineVirt
  <2>3. CASE v \in V /\ model.virt[v].state = "NEW"
    <3>1. last.virt[v].state = "none" /\ last.virt[v].net = 0 /\ last.virt[v].phys = 0
      BY <1>7, <1>13, <2>3
    <3> QED BY <3>1 DEF FineVirt
  <2>4. CASE v \in V /\ model.virt[v].state # "NEW"
    <3> DEFINE n == model.virt[v].net
    <3>1. last.virt[v].state = "DELETE" /\ last.virt[v].net = n
            /\ last.virt[v].phys = model.virt[v].phys
          /\ n \in N /\ n \in NetIds /\ model.virt[v].state # "none"
      BY <1>3, <1>7, <1>13, <2>4
    <3>2. model.net[n].state # "NEW" /\ last.net[n].state = "DELETE"
      BY <1>12, <1>13, <2>1, <2>4, <3>1 DEF FineVirt
    <3> QED BY <1>13, <2>1, <3>1, <3>2 DEF FineVirt
  <2> QED BY <2>2, <2>3, <2>4
<1>17. \A p \in PhysIds, k \in NetIds : FinePa(last, p, k)
  <2> SUFFICES ASSUME NEW p \in PhysIds, NEW k \in NetIds PROVE FinePa(last, p, k)
    OBVIOUS
  <2>1. FinePa(model, p, k)
    BY DEF Fine
  <2>2. CASE k \notin N
    <3>1. last.pa[<<p, k>>] = model.pa[<<p, k>>] /\ last.net[k] = model.net[k]
            /\ last.phys = model.phys
      BY <1>8, <1>12, <1>13, <2>2
    <3>2. \A v \in VirtIds : model.virt[v].net = k => last.virt[v] = model.virt[v]
      BY <1>3, <1>7, <1>13, <2>2
    <3> QED BY <2>1, <3>1, <3>2 DEF FinePa
  <2>3. CASE k \in N /\ model.net[k].state = "NEW"
    <3>1. last.pa[<<p, k>>].state = "none"
      BY <1>9, <1>13, <2>3
    <3> QED BY <3>1 DEF FinePa
  <2>4. CASE k \in N /\ model.net[k].state # "NEW"
    <3> DEFINE a == <<p, k>>
    <3>0. a \in PhysIds \X NetIds /\ a \in PhysIds \X N
      BY <2>4
    <3>1. last.net[k].state = "DELETE" /\ last.pa[a] = m1.pa[a] /\ last.phys = model.phys
      BY <1>12, <1>13, <2>4
    <3>2. m1.pa[a].state # "none" => ~m1.pa[a].explicit
      BY <1>6, <3>0
    <3>3. Live(m1.pa[a].state) => Connected(mid, a) # {} /\ m1.pa[a].state = mid.pa[a].state
      BY <1>6, <3>0 DEF FreeHelper, Live
    <3>4. Live(mid.pa[a].state) => mid.pa[a] = model.pa[a]
      BY <1>5, <3>0 DEF FreeHelper, Live
    <3>5. Connected(mid, a) # {} =>
            \E v \in VirtIds : last.virt[v].state # "none" /\ last.virt[v].phys = p
              /\ last.virt[v].net = k
      BY <1>6, <1>13 DEF Connected
    <3> QED BY <2>1, <2>4, <3>1, <3>2, <3>3, <3>4, <3>5 DEF FinePa, Live
  <2> QED BY <2>2, <2>3, <2>4
<1>18. \A v \in VirtIds : last.virt[v].phys \in {0, model.virt[v].phys}
  BY <1>7, <1>13
<1>19. \A p \in PhysIds, n \in N : last.pa[<<p, n>>].state # "none" => ~last.pa[<<p, n>>].explicit
  BY <1>6, <1>13
<1> QED BY <1>11, <1>12, <1>13, <1>15, <1>16, <1>17, <1>18, <1>19 DEF Fine, next

\* phys -remove and the physes of a context that goes, when no virt that
\* awaits its deletion is connected there
LEMMA PhysesFreeFine ==
  ASSUME NEW model, Fine(model), NEW P \in SUBSET PhysIds,
         \A v \in VirtIds : model.virt[v].phys \in P => model.virt[v].state # "DELETE"
  PROVE  LET next == PhysesFree(model, P) IN
         /\ Fine(next) /\ next.net = model.net
         /\ \A q \in PhysIds \ P : next.phys[q] = model.phys[q]
         /\ \A v \in VirtIds :
              next.virt[v].phys = IF model.virt[v].phys \in P THEN 0 ELSE model.virt[v].phys
<1> DEFINE through == {v \in VirtIds : model.virt[v].phys \in P}
           virts == [v \in VirtIds |->
                       IF v \in through THEN [model.virt[v] EXCEPT !.phys = 0] ELSE model.virt[v]]
           m1 == [model EXCEPT !.virt = virts]
           m2 == DetachPas(m1, P \X NetIds)
           last == [m2 EXCEPT !.phys = FreeObjects(@, P, NoPhys)]
           next == PhysesFree(model, P)
           F == {"state", "name", "net", "phys", "iface", "mac", "rules", "rate"}
<1>1. next = Bug(last, \E v \in through : model.virt[v].state = "DELETE", "renew")
  BY DEF PhysesFree
<1>2. (\E v \in through : model.virt[v].state = "DELETE") = FALSE
  OBVIOUS
<1>3. next = last
  <2> HIDE DEF through, last, next
  <2> QED BY <1>1, <1>2, NoBug
<1> HIDE DEF next
<1>4. Shape(model) /\ model.bug = "no"
  BY DEF Fine
<1>5. /\ DOMAIN virts = VirtIds
      /\ \A v \in VirtIds :
           /\ virts[v].state = model.virt[v].state /\ virts[v].net = model.virt[v].net
           /\ virts[v].phys = IF model.virt[v].phys \in P THEN 0 ELSE model.virt[v].phys
           /\ DOMAIN virts[v] = F
  BY <1>4 DEF Shape
<1> HIDE DEF through, virts
<1>6. /\ m1.bug = model.bug /\ m1.net = model.net /\ m1.phys = model.phys /\ m1.pa = model.pa
      /\ m1.virt = virts /\ DOMAIN m1 = DOMAIN model
  BY <1>4 DEF Shape
<1> HIDE DEF m1
<1>7. Shape(m1)
  BY <1>4, <1>5, <1>6 DEF Shape
<1>8. /\ Shape(m2) /\ m2.bug = m1.bug /\ m2.net = m1.net /\ m2.phys = m1.phys
      /\ m2.virt = m1.virt
      /\ \A a \in PhysIds \X NetIds :
           /\ a \notin P \X NetIds => m2.pa[a] = m1.pa[a]
           /\ a \in P \X NetIds =>
                /\ m1.pa[a].state = "none" => m2.pa[a].state = "none"
                /\ m2.pa[a].state # "none" => ~m2.pa[a].explicit
                /\ Connected(m1, a) # {} => m2.pa[a].state = m1.pa[a].state
                /\ Connected(m1, a) = {} /\ m1.pa[a].state # "none" =>
                     m2.pa[a].state = FreeHelper(m1.pa[a].state)
  BY <1>7, DetachPasIs
<1> HIDE DEF m2
<1> DEFINE physes == FreeObjects(model.phys, P, NoPhys)
<1>9. /\ DOMAIN physes = PhysIds
      /\ \A q \in PhysIds : /\ DOMAIN physes[q] = {"state", "name", "ip", "iface", "local"}
                            /\ q \notin P => physes[q] = model.phys[q]
  <2>1. DOMAIN NoPhys = {"state", "name", "ip", "iface", "local"} /\ NoPhys.state = "none"
    BY DEF NoPhys
  <2>2. DOMAIN model.phys = PhysIds
        /\ \A q \in PhysIds : DOMAIN model.phys[q] = {"state", "name", "ip", "iface", "local"}
    BY <1>4 DEF Shape
  <2>3. DOMAIN physes = PhysIds
    BY <2>2 DEF FreeObjects
  <2>4. ASSUME NEW q \in PhysIds
        PROVE  /\ DOMAIN physes[q] = {"state", "name", "ip", "iface", "local"}
               /\ q \notin P => physes[q] = model.phys[q]
    <3> DEFINE G == {"state", "name", "ip", "iface", "local"}
    <3>1. "state" \in G /\ DOMAIN NoPhys = G /\ q \in DOMAIN model.phys /\ DOMAIN model.phys[q] = G
      BY <2>1, <2>2
    <3> HIDE DEF G
    <3>2. /\ DOMAIN FreeObjects(model.phys, P, NoPhys)[q] = G
          /\ q \notin P => FreeObjects(model.phys, P, NoPhys)[q] = model.phys[q]
      BY <2>1, <3>1, FreeObjectsIs
    <3> QED BY <3>2 DEF G
  <2> QED BY <2>3, <2>4
<1> HIDE DEF physes
<1>10. /\ last.phys = physes /\ last.net = model.net /\ last.pa = m2.pa
       /\ last.virt = virts /\ last.bug = "no" /\ DOMAIN last = DOMAIN m2
  BY <1>4, <1>6, <1>8 DEF Shape, physes
<1> HIDE DEF last
<1>12. Shape(last)
  BY <1>4, <1>5, <1>8, <1>9, <1>10 DEF Shape
<1>13. \A v \in VirtIds : FineVirt(last, v)
  <2> SUFFICES ASSUME NEW v \in VirtIds PROVE FineVirt(last, v)
    OBVIOUS
  <2>1. FineVirt(model, v)
    BY DEF Fine
  <2>2. /\ last.virt[v].state = model.virt[v].state /\ last.virt[v].net = model.virt[v].net
        /\ last.virt[v].phys = IF model.virt[v].phys \in P THEN 0 ELSE model.virt[v].phys
    BY <1>5, <1>10
  <2> QED BY <1>9, <1>10, <2>1, <2>2 DEF FineVirt
<1>14. \A q \in PhysIds, k \in NetIds : FinePa(last, q, k)
  <2> SUFFICES ASSUME NEW q \in PhysIds, NEW k \in NetIds PROVE FinePa(last, q, k)
    OBVIOUS
  <2>1. FinePa(model, q, k)
    BY DEF Fine
  <2>2. CASE q \notin P
    <3>1. last.pa[<<q, k>>] = model.pa[<<q, k>>] /\ last.phys[q] = model.phys[q]
            /\ last.net = model.net
      BY <1>6, <1>8, <1>9, <1>10, <2>2
    <3>2. \A v \in VirtIds : model.virt[v].phys = q =>
            /\ last.virt[v].state = model.virt[v].state /\ last.virt[v].net = model.virt[v].net
            /\ last.virt[v].phys = q
      BY <1>5, <1>10, <2>2
    <3> QED BY <2>1, <3>1, <3>2 DEF FinePa
  <2>3. CASE q \in P
    <3> DEFINE a == <<q, k>>
    <3>0. a \in PhysIds \X NetIds /\ a \in P \X NetIds
      BY <2>3
    <3>1. Connected(m1, a) = {}
      <4>1. \A v \in VirtIds : virts[v].phys # q
        BY <1>5, <2>3, ZeroId
      <4> QED BY <1>6, <4>1 DEF Connected
    <3>2. last.pa[a].state \in {"none", "DELETE"} /\ (model.pa[a].state = "none" =>
            last.pa[a].state = "none")
          /\ (model.pa[a].state = "NEW" => last.pa[a].state = "none")
      BY <1>6, <1>8, <1>10, <3>0, <3>1 DEF FreeHelper
    <3> QED BY <1>10, <2>1, <2>3, <3>2 DEF FinePa, Live
  <2> QED BY <2>2, <2>3
<1> QED BY <1>3, <1>5, <1>9, <1>10, <1>12, <1>13, <1>14 DEF Fine, next

-----------------------------------------------------------------------------
(***************************************************************************)
(* Commit.                                                                 *)
(***************************************************************************)

\* What is released and what is committed.
LEMMA ReleaseIs ==
  ASSUME NEW tab, NEW absent, absent.state = "none", NEW i \in DOMAIN tab, NEW F,
         DOMAIN tab[i] = F, DOMAIN absent = F, "state" \in F
  PROVE  /\ DOMAIN Release(tab, absent) = DOMAIN tab
         /\ DOMAIN Release(tab, absent)[i] = F
         /\ tab[i].state = "DELETE" => Release(tab, absent)[i] = absent
         /\ tab[i].state = "none" => Release(tab, absent)[i] = tab[i]
         /\ tab[i].state \notin {"DELETE", "none"} =>
              /\ Release(tab, absent)[i].state = "OK"
              /\ \A f \in F \ {"state"} : Release(tab, absent)[i][f] = tab[i][f]
<1>1. DOMAIN Release(tab, absent) = DOMAIN tab
  BY DEF Release
<1>2. CASE tab[i].state = "DELETE"
  <2>1. Release(tab, absent)[i] = absent
    BY <1>2 DEF Release
  <2> QED BY <1>1, <1>2, <2>1
<1>3. CASE tab[i].state = "none"
  <2>1. Release(tab, absent)[i] = tab[i]
    BY <1>3 DEF Release
  <2> QED BY <1>1, <1>3, <2>1
<1>4. CASE tab[i].state \notin {"DELETE", "none"}
  <2>1. Release(tab, absent)[i] = [tab[i] EXCEPT !.state = "OK"]
    BY <1>4 DEF Release
  <2>2. DOMAIN Release(tab, absent)[i] = F /\ Release(tab, absent)[i].state = "OK"
    BY <2>1
  <2>3. \A f \in F \ {"state"} : Release(tab, absent)[i][f] = tab[i][f]
    BY <2>1
  <2> QED BY <1>1, <1>4, <2>2, <2>3
<1> QED BY <1>2, <1>3, <1>4

\* The virts after a commit.
CommittedVirts(model, Sweep) ==
  LET dying == {u \in VirtIds : model.virt[u].state = "DELETE"}
      virts == [u \in VirtIds |->
                  IF u \in dying THEN NoVirt
                  ELSE [model.virt[u] EXCEPT !.rules = CommitRules(@, u \in Sweep)]]
  IN Release(virts, NoVirt)

\* Those that await their deletion are gone, the others are committed.
LEMMA CommitVirts ==
  ASSUME NEW model, Fine(model), NEW Sweep, NEW v \in VirtIds
  PROVE  LET r == CommittedVirts(model, Sweep)
         IN /\ DOMAIN r = VirtIds /\ DOMAIN r[v] = {"state", "name", "net", "phys", "iface", "mac", "rules", "rate"}
            /\ ~Live(model.virt[v].state) => r[v].state = "none" /\ r[v].net = 0 /\ r[v].phys = 0
            /\ Live(model.virt[v].state) =>
                 r[v].state = "OK" /\ r[v].net = model.virt[v].net /\ r[v].phys = model.virt[v].phys
<1> DEFINE dying == {u \in VirtIds : model.virt[u].state = "DELETE"}
           virts == [u \in VirtIds |->
                       IF u \in dying THEN NoVirt
                       ELSE [model.virt[u] EXCEPT !.rules = CommitRules(@, u \in Sweep)]]
           F == {"state", "name", "net", "phys", "iface", "mac", "rules", "rate"}
<1>1. NoVirt.state = "none" /\ NoVirt.net = 0 /\ NoVirt.phys = 0 /\ DOMAIN NoVirt = F
  BY DEF NoVirt
<1>2. /\ DOMAIN virts = VirtIds /\ DOMAIN virts[v] = F
      /\ model.virt[v].state = "DELETE" => virts[v] = NoVirt
      /\ model.virt[v].state # "DELETE" =>
           /\ virts[v].state = model.virt[v].state /\ virts[v].net = model.virt[v].net
           /\ virts[v].phys = model.virt[v].phys
  BY <1>1 DEF Fine, Shape
<1>3. FineVirt(model, v)
  BY DEF Fine
<1> HIDE DEF virts, F
<1>4. "state" \in F /\ "net" \in F \ {"state"} /\ "phys" \in F \ {"state"} /\ v \in DOMAIN virts
  BY <1>2 DEF F
<1>5. /\ DOMAIN Release(virts, NoVirt) = DOMAIN virts
      /\ DOMAIN Release(virts, NoVirt)[v] = F
      /\ virts[v].state = "DELETE" => Release(virts, NoVirt)[v] = NoVirt
      /\ virts[v].state = "none" => Release(virts, NoVirt)[v] = virts[v]
      /\ virts[v].state \notin {"DELETE", "none"} =>
           /\ Release(virts, NoVirt)[v].state = "OK"
           /\ \A f \in F \ {"state"} : Release(virts, NoVirt)[v][f] = virts[v][f]
  BY <1>1, <1>2, <1>4, ReleaseIs
<1> DEFINE r == Release(virts, NoVirt)
<1> HIDE DEF r
<1>6. ~Live(model.virt[v].state) => r[v].state = "none" /\ r[v].net = 0 /\ r[v].phys = 0
  BY <1>1, <1>2, <1>3, <1>5 DEF Live, FineVirt, r
<1>7. Live(model.virt[v].state) =>
        r[v].state = "OK" /\ r[v].net = model.virt[v].net /\ r[v].phys = model.virt[v].phys
  BY <1>2, <1>4, <1>5 DEF Live, r
<1> QED BY <1>2, <1>5, <1>6, <1>7 DEF r, virts, F, CommittedVirts

\* commit
LEMMA CommitFine ==
  ASSUME NEW model, Fine(model), NEW Sweep,
         \A a \in PhysIds \X NetIds : model.pa[a].state = "DELETE" =>
           ~model.pa[a].explicit /\ Connected(model, a) = {}
  PROVE  Fine(Commit(model, Sweep))
<1> DEFINE dying == {v \in VirtIds : model.virt[v].state = "DELETE"}
           r == CommittedVirts(model, Sweep)
           m0 == [model EXCEPT !.virt = r]
           A == {<<model.virt[v].phys, model.virt[v].net>> : v \in dying}
           m1 == FreePasIfPossible(m0, A)
           Dying(o) == o.state = "DELETE"
           used == \/ \E a \in DOMAIN model.pa :
                        /\ Dying(m1.pa[a])
                        /\ m1.pa[a].explicit \/ Connected(m1, a) # {}
                   \/ \E a \in DOMAIN model.pa :
                        /\ Live(m1.pa[a].state)
                        /\ Dying(m1.phys[a[1]]) \/ Dying(m1.net[a[2]])
                   \/ \E v \in VirtIds : Live(m1.virt[v].state) /\ Dying(m1.net[m1.virt[v].net])
           last == [m1 EXCEPT !.settings = Release(@, NoSettings), !.net = Release(@, NoNet),
                              !.phys = Release(@, NoPhys), !.pa = Release(@, NoPa)]
<1>1. Commit(model, Sweep) = Bug(last, used, "do_free")
  BY DEF Commit, CommittedVirts
<1>2. Shape(model) /\ model.bug = "no"
  BY DEF Fine
<1>3. \A v \in VirtIds :
           /\ DOMAIN r[v] = {"state", "name", "net", "phys", "iface", "mac", "rules", "rate"}
           /\ ~Live(model.virt[v].state) => r[v].state = "none" /\ r[v].net = 0 /\ r[v].phys = 0
           /\ Live(model.virt[v].state) =>
                r[v].state = "OK" /\ r[v].net = model.virt[v].net /\ r[v].phys = model.virt[v].phys
  <2> SUFFICES ASSUME NEW v \in VirtIds
               PROVE  /\ DOMAIN r[v] = {"state", "name", "net", "phys", "iface", "mac", "rules", "rate"}
                      /\ ~Live(model.virt[v].state) => r[v].state = "none" /\ r[v].net = 0
                           /\ r[v].phys = 0
                      /\ Live(model.virt[v].state) =>
                           r[v].state = "OK" /\ r[v].net = model.virt[v].net
                             /\ r[v].phys = model.virt[v].phys
    OBVIOUS
  <2> QED BY CommitVirts
<1>4. DOMAIN r = VirtIds
  BY DEF CommittedVirts, Release
<1>5. \A v \in dying : <<model.virt[v].phys, model.virt[v].net>> \in A
  OBVIOUS
<1> HIDE DEF r
<1>6. /\ m0.bug = model.bug /\ m0.net = model.net /\ m0.phys = model.phys /\ m0.pa = model.pa
      /\ m0.virt = r /\ DOMAIN m0 = DOMAIN model
  BY <1>2 DEF Shape
<1> HIDE DEF m0, A
<1>7. Shape(m0)
  BY <1>2, <1>3, <1>4, <1>6 DEF Shape
<1>8. /\ Shape(m1) /\ m1.bug = m0.bug /\ m1.net = m0.net /\ m1.phys = m0.phys
      /\ m1.virt = m0.virt
      /\ \A a \in PhysIds \X NetIds :
           m1.pa[a] = IF a \in A /\ m0.pa[a].state # "none" /\ ~m0.pa[a].explicit
                         /\ Connected(m0, a) = {}
                      THEN FreeObject(m0.pa[a], NoPa) ELSE m0.pa[a]
  BY <1>7, FreePasIs
<1> HIDE DEF m1
<1>9. \A a \in PhysIds \X NetIds : Connected(m1, a) = Connected(m0, a)
        /\ Connected(m0, a) \subseteq Connected(model, a)
  BY <1>3, <1>6, <1>8 DEF Connected, Live
<1>10. ASSUME NEW a \in PhysIds \X NetIds
       PROVE  \/ /\ m1.pa[a] = model.pa[a]
                 /\ a \in A /\ model.pa[a].state # "none" /\ ~model.pa[a].explicit =>
                      Connected(m0, a) # {}
              \/ /\ m1.pa[a].state \in {"none", "DELETE"} /\ Connected(m0, a) = {}
                 /\ m1.pa[a].state = "DELETE" => ~m1.pa[a].explicit
  <2>1. NoPa.state = "none" /\ DOMAIN model.pa[a] = {"state", "explicit"}
    BY <1>2 DEF NoPa, Shape
  <2>2. /\ model.pa[a].state = "NEW" => FreeObject(model.pa[a], NoPa) = NoPa
        /\ model.pa[a].state # "NEW" =>
             /\ FreeObject(model.pa[a], NoPa).state = "DELETE"
             /\ FreeObject(model.pa[a], NoPa).explicit = model.pa[a].explicit
    BY <2>1, FreeObjectIs
  <2> QED BY <1>6, <1>8, <2>1, <2>2
<1>11. ASSUME NEW p \in PhysIds, NEW n \in NetIds, Live(m1.pa[<<p, n>>].state)
       PROVE  m1.pa[<<p, n>>] = model.pa[<<p, n>>] /\ Live(model.phys[p].state)
                /\ Live(model.net[n].state)
  <2>1. FinePa(model, p, n) /\ <<p, n>> \in PhysIds \X NetIds
    BY DEF Fine
  <2>2. /\ m1.pa[<<p, n>>] = model.pa[<<p, n>>]
        /\ <<p, n>> \in A /\ ~model.pa[<<p, n>>].explicit => Connected(m0, <<p, n>>) # {}
    BY <1>10, <1>11, <2>1 DEF Live
  <2>3. Live(model.phys[p].state) /\ model.net[n].state # "none"
    BY <1>11, <2>1, <2>2 DEF FinePa, Live
  <2>4. CASE model.net[n].state = "DELETE"
    <3>1. PICK v \in VirtIds : model.virt[v].state # "none" /\ model.virt[v].phys = p
            /\ model.virt[v].net = n
      BY <1>11, <2>1, <2>2, <2>4 DEF FinePa, Live
    <3>2. \A u \in VirtIds : model.virt[u].net = n => model.virt[u].state = "DELETE"
      BY <2>4, ZeroId DEF Fine, FineVirt
    <3>3. <<p, n>> \in A
      BY <1>5, <3>1, <3>2
    <3>4. ~model.pa[<<p, n>>].explicit
      BY <1>11, <2>1, <2>2, <2>4 DEF FinePa, Live
    <3>5. Connected(m0, <<p, n>>) = {}
      <4>1. \A u \in VirtIds : r[u].state # "none" => model.virt[u].net # n /\ r[u].net # n
        BY <1>3, <3>2 DEF Live
      <4> QED BY <1>6, <4>1 DEF Connected
    <3> QED BY <2>2, <3>3, <3>4, <3>5
  <2> QED BY <2>2, <2>3, <2>4 DEF Live
<1>12. ASSUME NEW v \in VirtIds, r[v].state # "none"
       PROVE  /\ Live(model.virt[v].state) /\ r[v].net = model.virt[v].net
                   /\ r[v].phys = model.virt[v].phys
              /\ r[v].state = "OK" /\ r[v].net \in NetIds /\ Live(model.net[r[v].net].state)
              /\ r[v].phys \in PhysIds \cup {0} /\ (r[v].phys # 0 =>
                   Live(model.phys[r[v].phys].state))
  <2>1. FineVirt(model, v)
    BY DEF Fine
  <2> QED BY <1>3, <1>12, <2>1 DEF FineVirt, Live
<1>13. used = FALSE
  <2>1. ASSUME NEW a \in DOMAIN model.pa, m1.pa[a].state = "DELETE"
        PROVE  ~m1.pa[a].explicit /\ Connected(m1, a) = {}
    <3>1. a \in PhysIds \X NetIds
      BY <1>2 DEF Shape
    <3> QED BY <1>9, <1>10, <2>1, <3>1
  <2>2. ASSUME NEW a \in DOMAIN model.pa, Live(m1.pa[a].state)
        PROVE  m1.phys[a[1]].state # "DELETE" /\ m1.net[a[2]].state # "DELETE"
    <3>1. a[1] \in PhysIds /\ a[2] \in NetIds /\ a = <<a[1], a[2]>>
      BY <1>2 DEF Shape
    <3> QED BY <1>6, <1>8, <1>11, <2>2, <3>1 DEF Live
  <2>3. ASSUME NEW v \in VirtIds, Live(m1.virt[v].state)
        PROVE  m1.net[m1.virt[v].net].state # "DELETE"
    BY <1>6, <1>8, <1>12, <2>3 DEF Live
  <2> QED BY <2>1, <2>2, <2>3
<1>14. Commit(model, Sweep) = last
  <2> HIDE DEF used, last
  <2> QED BY <1>1, <1>13, NoBug
<1> HIDE DEF used
<1>15. /\ last.net = Release(model.net, NoNet) /\ last.phys = Release(model.phys, NoPhys)
       /\ last.pa = Release(m1.pa, NoPa) /\ last.virt = r /\ last.bug = "no"
       /\ DOMAIN last = DOMAIN model
  BY <1>2, <1>6, <1>8 DEF Shape
<1> HIDE DEF last
<1>16. /\ DOMAIN last.net = NetIds
       /\ \A n \in NetIds :
            /\ DOMAIN last.net[n] = {"state", "name", "settings", "vid"}
            /\ Live(model.net[n].state) => last.net[n].state = "OK"
  <2>1. DOMAIN last.net = NetIds
    BY <1>2, <1>15 DEF Shape, Release
  <2>2. NoNet.state = "none" /\ DOMAIN NoNet = {"state", "name", "settings", "vid"}
    BY DEF NoNet
  <2>3. \A n \in NetIds : n \in DOMAIN model.net
          /\ DOMAIN model.net[n] = {"state", "name", "settings", "vid"}
    BY <1>2 DEF Shape
  <2>4. \A n \in NetIds :
          /\ DOMAIN Release(model.net, NoNet)[n] = {"state", "name", "settings", "vid"}
          /\ model.net[n].state \notin {"DELETE", "none"} =>
               Release(model.net, NoNet)[n].state = "OK"
    <3> SUFFICES ASSUME NEW n \in NetIds
                 PROVE  /\ DOMAIN Release(model.net, NoNet)[n] = {"state", "name", "settings", "vid"}
                        /\ model.net[n].state \notin {"DELETE", "none"} =>
                             Release(model.net, NoNet)[n].state = "OK"
      OBVIOUS
    <3> DEFINE F == DOMAIN NoNet
    <3>1. n \in DOMAIN model.net /\ DOMAIN model.net[n] = F /\ "state" \in F /\ NoNet.state = "none"
      BY <2>2, <2>3
    <3> HIDE DEF F
    <3>2. /\ DOMAIN Release(model.net, NoNet)[n] = F
          /\ model.net[n].state = "DELETE" => Release(model.net, NoNet)[n] = NoNet
          /\ model.net[n].state = "none" => Release(model.net, NoNet)[n] = model.net[n]
          /\ model.net[n].state \notin {"DELETE", "none"} =>
               Release(model.net, NoNet)[n].state = "OK"
      BY <3>1, ReleaseIs DEF F
    <3> QED BY <2>2, <3>2 DEF F
  <2> QED BY <1>15, <2>1, <2>4 DEF Live
<1>17. /\ DOMAIN last.phys = PhysIds
       /\ \A p \in PhysIds :
            /\ DOMAIN last.phys[p] = {"state", "name", "ip", "iface", "local"}
            /\ Live(model.phys[p].state) => last.phys[p].state = "OK"
  <2>1. DOMAIN last.phys = PhysIds
    BY <1>2, <1>15 DEF Shape, Release
  <2>2. NoPhys.state = "none" /\ DOMAIN NoPhys = {"state", "name", "ip", "iface", "local"}
    BY DEF NoPhys
  <2>3. \A n \in PhysIds : n \in DOMAIN model.phys
          /\ DOMAIN model.phys[n] = {"state", "name", "ip", "iface", "local"}
    BY <1>2 DEF Shape
  <2>4. \A p \in PhysIds :
          /\ DOMAIN Release(model.phys, NoPhys)[p] = {"state", "name", "ip", "iface", "local"}
          /\ model.phys[p].state \notin {"DELETE", "none"} =>
               Release(model.phys, NoPhys)[p].state = "OK"
    <3> SUFFICES ASSUME NEW p \in PhysIds
                 PROVE  /\ DOMAIN Release(model.phys, NoPhys)[p] = {"state", "name", "ip", "iface", "local"}
                        /\ model.phys[p].state \notin {"DELETE", "none"} =>
                             Release(model.phys, NoPhys)[p].state = "OK"
      OBVIOUS
    <3> DEFINE F == DOMAIN NoPhys
    <3>1. p \in DOMAIN model.phys /\ DOMAIN model.phys[p] = F /\ "state" \in F
            /\ NoPhys.state = "none"
      BY <2>2, <2>3
    <3> HIDE DEF F
    <3>2. /\ DOMAIN Release(model.phys, NoPhys)[p] = F
          /\ model.phys[p].state = "DELETE" => Release(model.phys, NoPhys)[p] = NoPhys
          /\ model.phys[p].state = "none" => Release(model.phys, NoPhys)[p] = model.phys[p]
          /\ model.phys[p].state \notin {"DELETE", "none"} =>
               Release(model.phys, NoPhys)[p].state = "OK"
      BY <3>1, ReleaseIs DEF F
    <3> QED BY <2>2, <3>2 DEF F
  <2> QED BY <1>15, <2>1, <2>4 DEF Live
<1>18. /\ DOMAIN last.pa = PhysIds \X NetIds
       /\ \A a \in PhysIds \X NetIds :
            /\ DOMAIN last.pa[a] = {"state", "explicit"}
            /\ last.pa[a].state # "none" => Live(m1.pa[a].state)
  <2>1. DOMAIN last.pa = PhysIds \X NetIds
    BY <1>8, <1>15 DEF Shape, Release
  <2>2. NoPa.state = "none" /\ DOMAIN NoPa = {"state", "explicit"}
    BY DEF NoPa
  <2>3. \A a \in PhysIds \X NetIds : a \in DOMAIN m1.pa /\ DOMAIN m1.pa[a] = {"state", "explicit"}
    BY <1>8 DEF Shape
  <2>4. \A a \in PhysIds \X NetIds :
          /\ DOMAIN Release(m1.pa, NoPa)[a] = {"state", "explicit"}
          /\ m1.pa[a].state = "DELETE" => Release(m1.pa, NoPa)[a] = NoPa
          /\ m1.pa[a].state = "none" => Release(m1.pa, NoPa)[a] = m1.pa[a]
    <3> SUFFICES ASSUME NEW a \in PhysIds \X NetIds
                 PROVE  /\ DOMAIN Release(m1.pa, NoPa)[a] = {"state", "explicit"}
                        /\ m1.pa[a].state = "DELETE" => Release(m1.pa, NoPa)[a] = NoPa
                        /\ m1.pa[a].state = "none" => Release(m1.pa, NoPa)[a] = m1.pa[a]
      OBVIOUS
    <3> DEFINE F == DOMAIN NoPa
    <3>1. a \in DOMAIN m1.pa /\ DOMAIN m1.pa[a] = F /\ "state" \in F /\ NoPa.state = "none"
      BY <2>2, <2>3
    <3> HIDE DEF F
    <3>2. /\ DOMAIN Release(m1.pa, NoPa)[a] = F
          /\ m1.pa[a].state = "DELETE" => Release(m1.pa, NoPa)[a] = NoPa
          /\ m1.pa[a].state = "none" => Release(m1.pa, NoPa)[a] = m1.pa[a]
          /\ m1.pa[a].state \notin {"DELETE", "none"} => Release(m1.pa, NoPa)[a].state = "OK"
      BY <3>1, ReleaseIs DEF F
    <3> QED BY <2>2, <3>2 DEF F
  <2> QED BY <1>15, <2>1, <2>2, <2>4 DEF Live
<1>19. Shape(last)
  BY <1>2, <1>3, <1>4, <1>15, <1>16, <1>17, <1>18 DEF Shape
<1>20. \A v \in VirtIds : FineVirt(last, v)
  <2> SUFFICES ASSUME NEW v \in VirtIds PROVE FineVirt(last, v)
    OBVIOUS
  <2>1. CASE r[v].state = "none"
    <3>1. r[v].net = 0 /\ r[v].phys = 0
      BY <1>3, <2>1
    <3> QED BY <1>15, <2>1, <3>1 DEF FineVirt
  <2>2. CASE r[v].state # "none"
    <3>1. /\ r[v].net \in NetIds /\ last.net[r[v].net].state = "OK"
               /\ r[v].phys \in PhysIds \cup {0}
          /\ r[v].phys # 0 => last.phys[r[v].phys].state = "OK"
      BY <1>12, <1>16, <1>17, <2>2
    <3> QED BY <1>15, <2>2, <3>1 DEF FineVirt, Live
  <2> QED BY <2>1, <2>2
<1>21. \A p \in PhysIds, n \in NetIds : FinePa(last, p, n)
  <2> SUFFICES ASSUME NEW p \in PhysIds, NEW n \in NetIds, last.pa[<<p, n>>].state # "none"
               PROVE  FinePa(last, p, n)
    BY DEF FinePa
  <2>1. last.net[n].state = "OK" /\ last.phys[p].state = "OK"
    BY <1>11, <1>16, <1>17, <1>18
  <2> QED BY <2>1 DEF FinePa, Live
<1> QED BY <1>14, <1>15, <1>19, <1>20, <1>21 DEF Fine

-----------------------------------------------------------------------------
(***************************************************************************)
(* Blocks.                                                                 *)
(***************************************************************************)
Kinds == {"net", "phys", "virt"}

Frame == [kind : Kinds, id : Nat \ {0}]

\* The context and the blocks of a world.  No kind of block is open twice and
\* nothing is opened within the block of a virt.
Nested(w) ==
  /\ DOMAIN w = {"m", "ctx", "frames", "res"} /\ DOMAIN w.ctx = {"net", "phys", "virt", "stack"}
  /\ w.frames \in Seq(Frame) /\ w.ctx.stack \in Seq(Scopes)
  /\ Len(w.ctx.stack) = Len(w.frames) + 1 /\ w.ctx.stack[1] = "S_ROOT"
  /\ \A i \in 1..Len(w.frames) : w.ctx.stack[i + 1] = ScopeOf[w.frames[i].kind]
  /\ \A i, j \in 1..Len(w.frames) : w.frames[i].kind = w.frames[j].kind => i = j
  /\ \A i \in 1..Len(w.frames) : w.frames[i].kind = "virt" => i = Len(w.frames)
  /\ \A i \in 1..Len(w.frames) : w.ctx[w.frames[i].kind] = w.frames[i].id
  /\ \A kind \in Kinds : (\A i \in 1..Len(w.frames) : w.frames[i].kind # kind) => w.ctx[kind] = 0

\* The nets and physes of the blocks are live.
Within(w) ==
  \A i \in 1..Len(w.frames) :
    /\ w.frames[i].kind = "net" => w.frames[i].id \in NetIds /\ Live(w.m.net[w.frames[i].id].state)
    /\ w.frames[i].kind = "phys" => w.frames[i].id \in PhysIds
         /\ Live(w.m.phys[w.frames[i].id].state)

WorldOk(w) == Nested(w) /\ Fine(w.m) /\ Within(w)

\* Another model under the same blocks.
LEMMA SameBlocks ==
  ASSUME NEW w, WorldOk(w), NEW x, DOMAIN x = DOMAIN w, x.ctx = w.ctx, x.frames = w.frames,
         Fine(x.m), Keeps(w.m, x.m)
  PROVE  WorldOk(x)
<1>1. Nested(x)
  BY DEF WorldOk, Nested
<1>2. Within(x)
  BY DEF WorldOk, Within, Keeps
<1> QED BY <1>1, <1>2 DEF WorldOk

\* Nothing is lost when nothing changes, and then again.
LEMMA KeepsAll ==
  /\ \A x : Keeps(x, x)
  /\ \A x, y, z : Keeps(x, y) /\ Keeps(y, z) => Keeps(x, z)
BY DEF Keeps

\* A command that fails.
LEMMA FailOk == ASSUME NEW w, WorldOk(w) PROVE WorldOk(Fail(w))
<1>1. DOMAIN Fail(w) = DOMAIN w /\ Fail(w).ctx = w.ctx /\ Fail(w).frames = w.frames
        /\ Fail(w).m = w.m
  BY DEF Fail, WorldOk, Nested
<1> QED BY <1>1, SameBlocks, KeepsAll DEF WorldOk

\* A command that changes the model.
LEMMA ModelOk ==
  ASSUME NEW w, WorldOk(w), NEW model, Fine(model), Keeps(w.m, model)
  PROVE  /\ WorldOk([w EXCEPT !.m = model]) /\ [w EXCEPT !.m = model].m = model
         /\ [w EXCEPT !.m = model].ctx = w.ctx /\ [w EXCEPT !.m = model].frames = w.frames
<1> DEFINE x == [w EXCEPT !.m = model]
<1>1. DOMAIN x = DOMAIN w /\ x.ctx = w.ctx /\ x.frames = w.frames /\ x.m = model
  BY DEF WorldOk, Nested
<1> HIDE DEF x
<1> QED BY <1>1, SameBlocks DEF x

\* The scope is that of the innermost block.
LEMMA ScopeIs ==
  ASSUME NEW w, WorldOk(w)
  PROVE  /\ Get_scope(w) = "S_ROOT" => w.frames = <<>>
         /\ Get_scope(w) # "S_VIRT" => \A i \in 1..Len(w.frames) : w.frames[i].kind # "virt"
         /\ Get_scope(w) \in Scopes
<1> DEFINE n == Len(w.frames)
<1>1. /\ w.frames \in Seq(Frame) /\ n \in Nat /\ w.ctx.stack \in Seq(Scopes)
      /\ Len(w.ctx.stack) = n + 1 /\ w.ctx.stack[1] = "S_ROOT"
      /\ \A i \in 1..n : w.ctx.stack[i + 1] = ScopeOf[w.frames[i].kind]
      /\ \A i \in 1..n : w.frames[i].kind = "virt" => i = n
  BY DEF WorldOk, Nested
<1>2. \A i \in 1..n : w.frames[i] \in Frame
  BY <1>1
<1>3. \A i \in 1..n : w.frames[i].kind \in Kinds
  BY <1>2 DEF Frame
<1>4. Get_scope(w) = w.ctx.stack[n + 1] /\ Get_scope(w) \in Scopes
  BY <1>1 DEF Get_scope
<1>5. CASE n = 0
  <2>1. w.frames = <<>>
    BY <1>1, <1>5
  <2> QED BY <1>4, <1>5, <2>1
<1>6. CASE n # 0
  <2>1. n \in 1..n
    BY <1>1, <1>6
  <2>2. Get_scope(w) = ScopeOf[w.frames[n].kind]
    BY <1>1, <1>4, <2>1
  <2>3. Get_scope(w) # "S_ROOT" /\ (w.frames[n].kind = "virt" => Get_scope(w) = "S_VIRT")
    BY <1>3, <2>1, <2>2 DEF ScopeOf, Kinds
  <2> QED BY <1>1, <1>4, <2>3
<1> QED BY <1>5, <1>6

\* Where another block may be opened, at most one is open: that of the scope.
LEMMA OneBlock ==
  ASSUME NEW w, WorldOk(w), Len(w.ctx.stack) < MAX_SCOPE_NESTING
  PROVE  \A i \in 1..Len(w.frames) : ScopeOf[w.frames[i].kind] = Get_scope(w)
<1> DEFINE n == Len(w.frames)
<1>1. /\ n \in Nat /\ Len(w.ctx.stack) = n + 1
      /\ \A i \in 1..n : w.ctx.stack[i + 1] = ScopeOf[w.frames[i].kind]
  BY DEF WorldOk, Nested
<1>2. \A i \in 1..n : i = n
  BY <1>1 DEF MAX_SCOPE_NESTING
<1> QED BY <1>1, <1>2 DEF Get_scope

\* What a command is about is live: the object of a block, or one found by
\* its name.
LEMMA ResolvedLive ==
  ASSUME NEW w, WorldOk(w), NEW arg
  PROVE  /\ Resolved(w, "net", arg) # 0 =>
              Resolved(w, "net", arg) \in NetIds /\ Live(w.m.net[Resolved(w, "net", arg)].state)
         /\ Resolved(w, "phys", arg) # 0 =>
              Resolved(w, "phys", arg) \in PhysIds /\ Live(w.m.phys[Resolved(w, "phys", arg)].state)
<1>1. DOMAIN w.m.net = NetIds /\ DOMAIN w.m.phys = PhysIds
  BY DEF WorldOk, Fine, Shape
<1>2. ASSUME NEW kind \in {"net", "phys"}, w.ctx[kind] # 0
      PROVE  \E i \in 1..Len(w.frames) : w.frames[i].kind = kind /\ w.frames[i].id = w.ctx[kind]
  <2>1. kind \in Kinds
    BY DEF Kinds
  <2>2. PICK i \in 1..Len(w.frames) : w.frames[i].kind = kind
    BY <1>2, <2>1 DEF WorldOk, Nested
  <2> QED BY <2>2 DEF WorldOk, Nested
<1>3. w.ctx["net"] # 0 => w.ctx["net"] \in NetIds /\ Live(w.m.net[w.ctx["net"]].state)
  BY <1>2 DEF WorldOk, Within
<1>4. w.ctx["phys"] # 0 => w.ctx["phys"] \in PhysIds /\ Live(w.m.phys[w.ctx["phys"]].state)
  BY <1>2 DEF WorldOk, Within
<1>5. Resolved(w, "net", arg) # 0 =>
              Resolved(w, "net", arg) \in NetIds /\ Live(w.m.net[Resolved(w, "net", arg)].state)
  <2>1. ByName(w.m.net, arg) = 0 \/ (ByName(w.m.net, arg) \in NetIds
          /\ Live(w.m.net[ByName(w.m.net, arg)].state))
    BY <1>1, ByNameLive
  <2> QED BY <1>3, <2>1 DEF Resolved
<1>6. Resolved(w, "phys", arg) # 0 =>
              Resolved(w, "phys", arg) \in PhysIds /\ Live(w.m.phys[Resolved(w, "phys", arg)].state)
  <2>1. ByName(w.m.phys, arg) = 0 \/ (ByName(w.m.phys, arg) \in PhysIds
          /\ Live(w.m.phys[ByName(w.m.phys, arg)].state))
    BY <1>1, ByNameLive
  <2> QED BY <1>4, <2>1 DEF Resolved
<1> QED BY <1>5, <1>6

\* The beginning of a block.
LEMMA BeginOk ==
  ASSUME NEW w, WorldOk(w), NEW kind \in Kinds, NEW id \in Nat \ {0},
         Len(w.ctx.stack) < MAX_SCOPE_NESTING,
         \A i \in 1..Len(w.frames) : w.frames[i].kind # kind /\ w.frames[i].kind # "virt",
         kind = "net" => id \in NetIds /\ Live(w.m.net[id].state),
         kind = "phys" => id \in PhysIds /\ Live(w.m.phys[id].state)
  PROVE  /\ WorldOk(Begin_block(w, kind, id)) /\ Begin_block(w, kind, id).m = w.m
         /\ Begin_block(w, kind, id).frames # <<>>
<1> DEFINE n == Len(w.frames)
           f == [kind |-> kind, id |-> id]
           x == Begin_block(w, kind, id)
           st == w.ctx.stack
<1>1. /\ DOMAIN w = {"m", "ctx", "frames", "res"} /\ DOMAIN w.ctx = {"net", "phys", "virt", "stack"}
      /\ w.frames \in Seq(Frame) /\ st \in Seq(Scopes) /\ n \in Nat
      /\ Len(st) = n + 1 /\ st[1] = "S_ROOT"
      /\ \A i \in 1..n : st[i + 1] = ScopeOf[w.frames[i].kind]
      /\ \A i, j \in 1..n : w.frames[i].kind = w.frames[j].kind => i = j
      /\ \A i \in 1..n : w.ctx[w.frames[i].kind] = w.frames[i].id
      /\ \A k \in Kinds : (\A i \in 1..n : w.frames[i].kind # k) => w.ctx[k] = 0
  BY DEF WorldOk, Nested
<1>2. \A i \in 1..n : w.frames[i] \in Frame /\ w.frames[i].kind \in {"net", "phys"}
  <2>1. \A i \in 1..n : w.frames[i] \in Frame
    BY <1>1
  <2> QED BY <2>1 DEF Frame, Kinds
<1>4. f \in Frame /\ f.kind = kind /\ f.id = id /\ ScopeOf[kind] \in Scopes /\ kind # "stack"
  BY DEF Frame, ScopeOf, Kinds, Scopes
<1>5. Push_scope(w, ScopeOf[kind]) = [w EXCEPT !.ctx.stack = Append(@, ScopeOf[kind])]
  BY <1>1 DEF Push_scope, MAX_SCOPE_NESTING
<1>6. x = [[w EXCEPT !.ctx.stack = Append(@, ScopeOf[kind])] EXCEPT !.ctx[kind] = id, !.frames = Append(@, f)]
  BY <1>5 DEF Begin_block
<1> HIDE DEF f, x
<1>7. /\ DOMAIN x = {"m", "ctx", "frames", "res"} /\ x.m = w.m /\ x.frames = Append(w.frames, f)
      /\ x.ctx = [[w.ctx EXCEPT !.stack = Append(st, ScopeOf[kind])] EXCEPT ![kind] = id]
  BY <1>1, <1>6
<1>8. /\ DOMAIN x.ctx = {"net", "phys", "virt", "stack"} /\ x.ctx.stack = Append(st, ScopeOf[kind])
      /\ x.ctx[kind] = id /\ \A k \in Kinds \ {kind} : x.ctx[k] = w.ctx[k]
  BY <1>1, <1>4, <1>7 DEF Kinds
<1>9. /\ x.frames \in Seq(Frame) /\ Len(x.frames) = n + 1 /\ x.frames[n + 1] = f
      /\ \A i \in 1..n : x.frames[i] = w.frames[i]
  BY <1>1, <1>4, <1>7
<1>10. /\ x.ctx.stack \in Seq(Scopes) /\ Len(x.ctx.stack) = n + 2
            /\ x.ctx.stack[n + 2] = ScopeOf[kind]
       /\ \A i \in 1..(n + 1) : x.ctx.stack[i] = st[i]
  BY <1>1, <1>4, <1>8
<1>11. \A i \in 1..(n + 1) : i \in 1..n \/ i = n + 1
  BY <1>1
<1> HIDE DEF n, st
<1>12. \A i \in 1..(n + 1) : x.ctx.stack[i + 1] = ScopeOf[x.frames[i].kind]
  <2>1. \A i \in 1..n : i + 1 \in 1..(n + 1)
    BY <1>1
  <2>2. n + 1 + 1 = n + 2
    BY <1>1
  <2>3. \A i \in 1..n : x.ctx.stack[i + 1] = st[i + 1] /\ x.frames[i].kind = w.frames[i].kind
    BY <1>9, <1>10, <2>1
  <2>4. \A i \in 1..n : x.ctx.stack[i + 1] = ScopeOf[x.frames[i].kind]
    BY <1>1, <2>3
  <2>5. x.ctx.stack[n + 1 + 1] = ScopeOf[x.frames[n + 1].kind]
    BY <1>4, <1>9, <1>10, <2>2
  <2> QED BY <1>11, <2>4, <2>5
<1>13. \A i, j \in 1..(n + 1) : x.frames[i].kind = x.frames[j].kind => i = j
  <2>1. \A i \in 1..n : x.frames[i].kind = w.frames[i].kind /\ x.frames[i].kind # kind
    BY <1>9 DEF n
  <2>2. x.frames[n + 1].kind = kind
    BY <1>4, <1>9
  <2> QED BY <1>1, <1>11, <2>1, <2>2
<1>14. \A i \in 1..(n + 1) : x.frames[i].kind = "virt" => i = n + 1
  BY <1>9, <1>11 DEF n
<1>15. \A i \in 1..(n + 1) : x.ctx[x.frames[i].kind] = x.frames[i].id
  <2>1. \A i \in 1..n : w.frames[i].kind \in Kinds \ {kind}
    BY <1>2 DEF n, Kinds
  <2>2. \A i \in 1..n : x.ctx[w.frames[i].kind] = w.ctx[w.frames[i].kind]
    BY <1>8, <2>1
  <2>3. \A i \in 1..n : w.ctx[w.frames[i].kind] = w.frames[i].id
    BY <1>1
  <2>4. \A i \in 1..n : x.ctx[x.frames[i].kind] = x.frames[i].id
    BY <1>9, <2>2, <2>3
  <2>5. x.ctx[x.frames[n + 1].kind] = x.frames[n + 1].id
    BY <1>4, <1>8, <1>9
  <2> QED BY <1>11, <2>4, <2>5
<1>16. \A k \in Kinds : (\A i \in 1..(n + 1) : x.frames[i].kind # k) => x.ctx[k] = 0
  <2> SUFFICES ASSUME NEW k \in Kinds, \A i \in 1..(n + 1) : x.frames[i].kind # k PROVE x.ctx[k] = 0
    OBVIOUS
  <2>1. n + 1 \in 1..(n + 1) /\ \A i \in 1..n : i \in 1..(n + 1)
    BY <1>1
  <2>2. k # kind /\ \A i \in 1..n : w.frames[i].kind # k
    BY <1>4, <1>9, <2>1
  <2> QED BY <1>1, <1>8, <2>2
<1>17. x.ctx.stack[1] = "S_ROOT"
  BY <1>1, <1>10
<1>18. Nested(x)
  <2>1. Len(x.ctx.stack) = Len(x.frames) + 1
    BY <1>1, <1>9, <1>10
  <2>2. DOMAIN x = {"m", "ctx", "frames", "res"} /\ DOMAIN x.ctx = {"net", "phys", "virt", "stack"}
    BY <1>7, <1>8
  <2>3. x.frames \in Seq(Frame) /\ x.ctx.stack \in Seq(Scopes) /\ Len(x.frames) = n + 1
    BY <1>9, <1>10
  <2> QED BY <1>12, <1>13, <1>14, <1>15, <1>16, <1>17, <2>1, <2>2, <2>3 DEF Nested
<1>19. Within(x)
  <2> SUFFICES ASSUME NEW i \in 1..(n + 1)
               PROVE  /\ x.frames[i].kind = "net" => x.frames[i].id \in NetIds
                           /\ Live(x.m.net[x.frames[i].id].state)
                      /\ x.frames[i].kind = "phys" => x.frames[i].id \in PhysIds
                           /\ Live(x.m.phys[x.frames[i].id].state)
    BY <1>9 DEF Within
  <2>1. CASE i \in 1..n
    BY <1>7, <1>9, <2>1 DEF WorldOk, Within, n
  <2>2. CASE i = n + 1
    BY <1>4, <1>7, <1>9, <2>2
  <2> QED BY <1>11, <2>1, <2>2
<1>20. x.frames # <<>>
  BY <1>1, <1>9
<1> QED BY <1>7, <1>18, <1>19, <1>20 DEF WorldOk, x

\* The end of a block.
LEMMA EndOk ==
  ASSUME NEW w, WorldOk(w), w.frames # <<>>
  PROVE  WorldOk(End_block(w)) /\ End_block(w).m = w.m
<1> DEFINE n == Len(w.frames)
           f == w.frames[n]
           x == End_block(w)
           st == w.ctx.stack
<1>1. /\ DOMAIN w = {"m", "ctx", "frames", "res"} /\ DOMAIN w.ctx = {"net", "phys", "virt", "stack"}
      /\ w.frames \in Seq(Frame) /\ st \in Seq(Scopes) /\ n \in Nat /\ n # 0
      /\ Len(st) = n + 1 /\ st[1] = "S_ROOT"
      /\ \A i \in 1..n : st[i + 1] = ScopeOf[w.frames[i].kind]
      /\ \A i, j \in 1..n : w.frames[i].kind = w.frames[j].kind => i = j
      /\ \A i \in 1..n : w.frames[i].kind = "virt" => i = n
      /\ \A i \in 1..n : w.ctx[w.frames[i].kind] = w.frames[i].id
      /\ \A k \in Kinds : (\A i \in 1..n : w.frames[i].kind # k) => w.ctx[k] = 0
  BY DEF WorldOk, Nested
<1>2. f.kind \in Kinds /\ n \in 1..n
  <2>1. f \in Frame /\ n \in 1..n
    BY <1>1
  <2> QED BY <2>1 DEF Frame
<1> DEFINE k == f.kind
           y == [w EXCEPT !.frames = SubSeq(@, 1, Len(@) - 1), !.ctx[k] = 0]
<1>3. x = [y EXCEPT !.ctx.stack = SubSeq(@, 1, Len(@) - 1)]
  BY DEF End_block, Pop_scope
<1> HIDE DEF k
<1>4. /\ DOMAIN y = {"m", "ctx", "frames", "res"} /\ y.m = w.m
      /\ y.frames = SubSeq(w.frames, 1, n - 1) /\ y.ctx = [w.ctx EXCEPT ![k] = 0]
  BY <1>1
<1> HIDE DEF y, x
<1>5. k \in Kinds /\ k # "stack" /\ k = w.frames[n].kind
  BY <1>2 DEF k, Kinds
<1>6. /\ DOMAIN y.ctx = {"net", "phys", "virt", "stack"} /\ y.ctx.stack = st /\ y.ctx[k] = 0
      /\ \A c \in Kinds \ {k} : y.ctx[c] = w.ctx[c]
  BY <1>1, <1>4, <1>5 DEF Kinds
<1>7. /\ DOMAIN x = {"m", "ctx", "frames", "res"} /\ x.m = w.m
      /\ x.frames = SubSeq(w.frames, 1, n - 1)
      /\ x.ctx = [y.ctx EXCEPT !.stack = SubSeq(st, 1, Len(st) - 1)]
  BY <1>3, <1>4, <1>6
<1>8. /\ DOMAIN x.ctx = {"net", "phys", "virt", "stack"} /\ x.ctx.stack = SubSeq(st, 1, Len(st) - 1)
      /\ x.ctx[k] = 0 /\ \A c \in Kinds \ {k} : x.ctx[c] = w.ctx[c]
  BY <1>5, <1>6, <1>7 DEF Kinds
<1>9. /\ x.frames \in Seq(Frame) /\ Len(x.frames) = n - 1
      /\ \A i \in 1..(n - 1) : x.frames[i] = w.frames[i]
  <2>1. n - 1 \in Nat /\ 1..(n - 1) \subseteq 1..n /\ n = Len(w.frames)
    BY <1>1
  <2>2. /\ SubSeq(w.frames, 1, n - 1) \in Seq(Frame) /\ Len(SubSeq(w.frames, 1, n - 1)) = n - 1
        /\ \A i \in 1..(n - 1) : SubSeq(w.frames, 1, n - 1)[i] = w.frames[i]
    <3>1. \A i \in 1..(n - 1) : w.frames[i] \in Frame
      BY <1>1, <2>1
    <3>2. n - 1 \in Int /\ 1 \in Int
      BY <2>1
    <3> HIDE DEF n
    <3>3. /\ SubSeq(w.frames, 1, n - 1) \in Seq(Frame)
          /\ Len(SubSeq(w.frames, 1, n - 1)) = IF 1 <= n - 1 THEN n - 1 - 1 + 1 ELSE 0
          /\ \A i \in 1..(n - 1 - 1 + 1) : SubSeq(w.frames, 1, n - 1)[i] = w.frames[1 + i - 1]
      BY <3>1, <3>2, SubSeqProperties
    <3>4. n - 1 - 1 + 1 = n - 1 /\ \A i \in 1..(n - 1) : 1 + i - 1 = i
      BY <2>1
    <3> QED BY <2>1, <3>3, <3>4
  <2> QED BY <1>7, <2>2
<1>10. /\ x.ctx.stack \in Seq(Scopes) /\ Len(x.ctx.stack) = n
            /\ \A i \in 1..n : x.ctx.stack[i] = st[i]
  BY <1>1, <1>8
<1>11. \A i \in 1..(n - 1) : i \in 1..n /\ i # n /\ i + 1 \in 1..n
  BY <1>1
<1>0. n - 1 \in Nat /\ (n - 1) + 1 = n /\ 1 \in 1..n /\ \A i \in 1..n : i = n \/ i \in 1..(n - 1)
  BY <1>1
<1> HIDE DEF n, st, f
<1>12. \A i \in 1..(n - 1) : x.ctx.stack[i + 1] = ScopeOf[x.frames[i].kind]
  BY <1>1, <1>9, <1>10, <1>11
<1>13. \A i, j \in 1..(n - 1) : x.frames[i].kind = x.frames[j].kind => i = j
  BY <1>1, <1>9, <1>11
<1>14. \A i \in 1..(n - 1) : x.frames[i].kind = "virt" => i = n - 1
  BY <1>1, <1>9, <1>11
<1>15. \A i \in 1..(n - 1) : x.ctx[x.frames[i].kind] = x.frames[i].id
  <2>1. \A i \in 1..(n - 1) : w.frames[i].kind \in Kinds \ {k}
    <3>1. \A i \in 1..(n - 1) : w.frames[i].kind # k
      BY <1>1, <1>2, <1>5, <1>11
    <3>2. \A i \in 1..n : w.frames[i] \in Frame
      BY <1>1 DEF n
    <3>3. \A i \in 1..n : w.frames[i].kind \in Kinds
      BY <3>2 DEF Frame
    <3> QED BY <1>11, <3>1, <3>3
  <2>2. \A i \in 1..(n - 1) : x.ctx[w.frames[i].kind] = w.ctx[w.frames[i].kind]
    BY <1>8, <2>1
  <2>3. \A i \in 1..(n - 1) : w.ctx[w.frames[i].kind] = w.frames[i].id
    BY <1>1, <1>11
  <2> QED BY <1>9, <2>2, <2>3
<1>16. \A c \in Kinds : (\A i \in 1..(n - 1) : x.frames[i].kind # c) => x.ctx[c] = 0
  <2> SUFFICES ASSUME NEW c \in Kinds, \A i \in 1..(n - 1) :
                 x.frames[i].kind # c, c # k PROVE x.ctx[c] = 0
    BY <1>8
  <2>1. \A i \in 1..n : w.frames[i].kind # c
    BY <1>0, <1>5, <1>9
  <2> QED BY <1>1, <1>8, <2>1
<1>17. x.ctx.stack[1] = "S_ROOT"
  BY <1>0, <1>1, <1>10
<1>18. Nested(x)
  <2>1. Len(x.ctx.stack) = Len(x.frames) + 1
    BY <1>0, <1>9, <1>10
  <2>2. DOMAIN x = {"m", "ctx", "frames", "res"} /\ DOMAIN x.ctx = {"net", "phys", "virt", "stack"}
    BY <1>7, <1>8
  <2>3. x.frames \in Seq(Frame) /\ x.ctx.stack \in Seq(Scopes) /\ Len(x.frames) = n - 1
    BY <1>9, <1>10
  <2> QED BY <1>12, <1>13, <1>14, <1>15, <1>16, <1>17, <2>1, <2>2, <2>3 DEF Nested
<1>19. Within(x)
  BY <1>7, <1>9, <1>11 DEF WorldOk, Within, n
<1> QED BY <1>7, <1>18, <1>19 DEF WorldOk, x

-----------------------------------------------------------------------------
(***************************************************************************)
(* Commands that set attributes.                                           *)
(***************************************************************************)

NetFields  == {"state", "name", "settings", "vid"}
PhysFields == {"state", "name", "ip", "iface", "local"}
VirtFields == {"state", "name", "net", "phys", "iface", "mac", "rules", "rate"}

\* Other settings.
LEMMA SettingsFine ==
  ASSUME NEW model, Fine(model), NEW tab
  PROVE  LET next == [model EXCEPT !.settings = tab] IN Fine(next) /\ Keeps(model, next)
<1> DEFINE next == [model EXCEPT !.settings = tab]
<1>1. /\ DOMAIN next = DOMAIN model /\ next.net = model.net /\ next.phys = model.phys
      /\ next.pa = model.pa /\ next.virt = model.virt /\ next.bug = model.bug
  BY DEF Fine, Shape
<1> HIDE DEF next
<1>2. Shape(next) /\ next.bug = "no"
  BY <1>1 DEF Fine, Shape
<1>3. Fine(next) /\ Keeps(model, next)
  BY <1>1, <1>2, SameFine
<1> QED BY <1>3 DEF next

\* Other nets in the same states.
LEMMA NetTableFine ==
  ASSUME NEW model, Fine(model), NEW tab, DOMAIN tab = NetIds,
         \A n \in NetIds : DOMAIN tab[n] = NetFields /\ tab[n].state = model.net[n].state
  PROVE  LET next == [model EXCEPT !.net = tab]
         IN Fine(next) /\ Keeps(model, next) /\ next.net = tab
<1> DEFINE next == [model EXCEPT !.net = tab]
<1>1. /\ DOMAIN next = DOMAIN model /\ next.net = tab /\ next.phys = model.phys
      /\ next.pa = model.pa /\ next.virt = model.virt /\ next.bug = model.bug
  BY DEF Fine, Shape
<1> HIDE DEF next
<1>2. Shape(next) /\ next.bug = "no"
  BY <1>1 DEF Fine, Shape, NetFields
<1>3. Fine(next) /\ Keeps(model, next)
  BY <1>1, <1>2, SameFine
<1> QED BY <1>1, <1>3 DEF next

\* Other physes in the same states.
LEMMA PhysTableFine ==
  ASSUME NEW model, Fine(model), NEW tab, DOMAIN tab = PhysIds,
         \A p \in PhysIds : DOMAIN tab[p] = PhysFields /\ tab[p].state = model.phys[p].state
  PROVE  LET next == [model EXCEPT !.phys = tab]
         IN Fine(next) /\ Keeps(model, next) /\ next.phys = tab
<1> DEFINE next == [model EXCEPT !.phys = tab]
<1>1. /\ DOMAIN next = DOMAIN model /\ next.phys = tab /\ next.net = model.net
      /\ next.pa = model.pa /\ next.virt = model.virt /\ next.bug = model.bug
  BY DEF Fine, Shape
<1> HIDE DEF next
<1>2. Shape(next) /\ next.bug = "no"
  BY <1>1 DEF Fine, Shape, PhysFields
<1>3. Fine(next) /\ Keeps(model, next)
  BY <1>1, <1>2, SameFine
<1> QED BY <1>1, <1>3 DEF next

\* Other virts in the same states, at the same places.
LEMMA VirtTableFine ==
  ASSUME NEW model, Fine(model), NEW tab, DOMAIN tab = VirtIds,
         \A v \in VirtIds : /\ DOMAIN tab[v] = VirtFields /\ tab[v].state = model.virt[v].state
                            /\ tab[v].net = model.virt[v].net /\ tab[v].phys = model.virt[v].phys
  PROVE  LET next == [model EXCEPT !.virt = tab]
         IN Fine(next) /\ Keeps(model, next) /\ next.virt = tab /\ next.net = model.net
            /\ next.phys = model.phys
<1> DEFINE next == [model EXCEPT !.virt = tab]
<1>1. /\ DOMAIN next = DOMAIN model /\ next.virt = tab /\ next.net = model.net
      /\ next.pa = model.pa /\ next.phys = model.phys /\ next.bug = model.bug
  BY DEF Fine, Shape
<1> HIDE DEF next
<1>2. Shape(next) /\ next.bug = "no"
  BY <1>1 DEF Fine, Shape, VirtFields
<1>3. Fine(next) /\ Keeps(model, next)
  BY <1>1, <1>2, SameFine
<1> QED BY <1>1, <1>3 DEF next

\* The name of a net.
LEMMA NetNameFine ==
  ASSUME NEW model, Fine(model), NEW i, NEW name
  PROVE  LET next == [model EXCEPT !.net = Name_set(@, i, name)]
         IN Fine(next) /\ Keeps(model, next)
<1> DEFINE tab == Name_set(model.net, i, name)
<1>1. DOMAIN model.net = NetIds /\ \A n \in NetIds : DOMAIN model.net[n] = NetFields
  BY DEF Fine, Shape, NetFields
<1>2. "state" \in NetFields
  BY DEF NetFields
<1>3. DOMAIN tab = NetIds
  BY <1>1 DEF Name_set
<1>4. \A n \in NetIds : DOMAIN tab[n] = NetFields /\ tab[n].state = model.net[n].state
  BY <1>1, <1>2, NameSetSame
<1> HIDE DEF tab
<1>5. LET next == [model EXCEPT !.net = tab] IN Fine(next) /\ Keeps(model, next)
  BY <1>3, <1>4, NetTableFine
<1>6. "net" \in DOMAIN model
  BY DEF Fine, Shape
<1>7. [model EXCEPT !.net = tab] = [model EXCEPT !.net = Name_set(@, i, name)]
  BY <1>6 DEF tab
<1> QED BY <1>5, <1>7

\* The name of a phys.
LEMMA PhysNameFine ==
  ASSUME NEW model, Fine(model), NEW i, NEW name
  PROVE  LET next == [model EXCEPT !.phys = Name_set(@, i, name)]
         IN Fine(next) /\ Keeps(model, next)
<1> DEFINE tab == Name_set(model.phys, i, name)
<1>1. DOMAIN model.phys = PhysIds /\ \A n \in PhysIds : DOMAIN model.phys[n] = PhysFields
  BY DEF Fine, Shape, PhysFields
<1>2. "state" \in PhysFields
  BY DEF PhysFields
<1>3. DOMAIN tab = PhysIds
  BY <1>1 DEF Name_set
<1>4. \A n \in PhysIds : DOMAIN tab[n] = PhysFields /\ tab[n].state = model.phys[n].state
  BY <1>1, <1>2, NameSetSame
<1> HIDE DEF tab
<1>5. LET next == [model EXCEPT !.phys = tab] IN Fine(next) /\ Keeps(model, next)
  BY <1>3, <1>4, PhysTableFine
<1>6. "phys" \in DOMAIN model
  BY DEF Fine, Shape
<1>7. [model EXCEPT !.phys = tab] = [model EXCEPT !.phys = Name_set(@, i, name)]
  BY <1>6 DEF tab
<1> QED BY <1>5, <1>7

\* A command that changes an attribute of the virt of its block.
LEMMA VirtAttrOk ==
  ASSUME NEW w, WorldOk(w), NEW v, NEW f \in {"rules", "rate"}, NEW value
  PROVE  WorldOk([w EXCEPT !.m = [w.m EXCEPT !.virt =
                    [w.m.virt EXCEPT ![v] = [w.m.virt[v] EXCEPT ![f] = value]]]])
<1> DEFINE tab == [w.m.virt EXCEPT ![v] = [w.m.virt[v] EXCEPT ![f] = value]]
<1>1. /\ Fine(w.m) /\ DOMAIN w.m.virt = VirtIds /\ "virt" \in DOMAIN w.m /\ "m" \in DOMAIN w
      /\ \A u \in VirtIds : DOMAIN w.m.virt[u] = VirtFields
  BY DEF WorldOk, Fine, Shape, VirtFields, Nested
<1>2. DOMAIN tab = VirtIds
  BY <1>1
<1>3. \A u \in VirtIds : /\ DOMAIN tab[u] = VirtFields /\ tab[u].state = w.m.virt[u].state
                         /\ tab[u].net = w.m.virt[u].net /\ tab[u].phys = w.m.virt[u].phys
  BY <1>1 DEF VirtFields
<1> HIDE DEF tab
<1>4. Fine([w.m EXCEPT !.virt = tab]) /\ Keeps(w.m, [w.m EXCEPT !.virt = tab])
  BY <1>1, <1>2, <1>3, VirtTableFine
<1>5. WorldOk([w EXCEPT !.m = [w.m EXCEPT !.virt = tab]])
  BY <1>4, ModelOk
<1> QED BY <1>1, <1>5 DEF tab

\* settings: the table of settings is the only thing that changes.
LEMMA SettingsOk ==
  ASSUME NEW w, WorldOk(w), NEW type, NEW name
  PROVE  WorldOk(Tcl_settings(w, type, name))
<1> DEFINE s == NextId(w.m.settings)
           nm == IF name = NULL THEN "default" ELSE name
           tab == [w.m.settings EXCEPT ![s] =
                      [NoSettings EXCEPT !.state = "NEW", !.type = type,
                                         !.name = Generated(s)]]
           new == Name_set(tab, s, nm)
           done == [w EXCEPT !.m.settings = new]
<1>1. Tcl_settings(w, type, name) \in {Fail(w), Fail(done), done}
  BY DEF Tcl_settings
<1> HIDE DEF new
<1>2. Fine([w.m EXCEPT !.settings = new]) /\ Keeps(w.m, [w.m EXCEPT !.settings = new])
  BY SettingsFine DEF WorldOk
<1>3. WorldOk([w EXCEPT !.m = [w.m EXCEPT !.settings = new]])
  BY <1>2, ModelOk
<1>4. "m" \in DOMAIN w
  BY DEF WorldOk, Nested
<1>5. WorldOk(done)
  BY <1>3, <1>4
<1> QED BY <1>1, <1>5, FailOk

\* rule
LEMMA RuleOk ==
  ASSUME NEW w, WorldOk(w), NEW dir, dir # BAD, NEW prio, NEW action, NEW args, NEW junk
  PROVE  WorldOk(Tcl_rule(w, dir, prio, action, args, junk))
<1> DEFINE v == w.ctx.virt
           r == [dir |-> dir, prio |-> prio, matches |-> RuleMatches(args, junk), state |-> "NEW"]
           done == [w EXCEPT !.m.virt[v].rules = @ \cup {r}]
<1>1. Tcl_rule(w, dir, prio, action, args, junk) \in {Fail(w), done}
  BY DEF Tcl_rule
<1> HIDE DEF r
<1>2. done = [w EXCEPT !.m = [w.m EXCEPT !.virt =
                [w.m.virt EXCEPT ![v] = [w.m.virt[v] EXCEPT !["rules"] =
                   w.m.virt[v].rules \cup {r}]]]]
  OBVIOUS
<1>3. WorldOk(done)
  BY <1>2, VirtAttrOk
<1> QED BY <1>1, <1>3, FailOk

\* flushVr
LEMMA FlushOk == ASSUME NEW w, WorldOk(w) PROVE WorldOk(Tcl_flushVr(w))
<1> DEFINE v == w.ctx.virt
           done == [w EXCEPT !.m.virt[v].rules = Vrs_free_all(@)]
<1>1. Tcl_flushVr(w) \in {Fail(w), done}
  BY DEF Tcl_flushVr
<1>2. done = [w EXCEPT !.m = [w.m EXCEPT !.virt =
                [w.m.virt EXCEPT ![v] = [w.m.virt[v] EXCEPT !["rules"] =
                   Vrs_free_all(w.m.virt[v].rules)]]]]
  OBVIOUS
<1>3. WorldOk(done)
  BY <1>2, VirtAttrOk
<1> QED BY <1>1, <1>3, FailOk

\* rate
LEMMA RateOk ==
  ASSUME NEW w, WorldOk(w), NEW dir, dir # BAD, NEW avg, NEW burst, NEW burst_rate
  PROVE  WorldOk(Tcl_rate(w, dir, avg, burst, burst_rate))
<1> DEFINE v == w.ctx.virt
           r == IF {avg, burst, burst_rate} = {NULL} THEN NULL
                ELSE <<avg, burst, IF burst_rate = NULL THEN "0" ELSE burst_rate>>
           done == [w EXCEPT !.m.virt[v].rate[dir] = r]
<1>1. Tcl_rate(w, dir, avg, burst, burst_rate) \in {Fail(w), done}
  BY DEF Tcl_rate
<1> HIDE DEF r
<1>2. done = [w EXCEPT !.m = [w.m EXCEPT !.virt =
                [w.m.virt EXCEPT ![v] = [w.m.virt[v] EXCEPT !["rate"] =
                   [w.m.virt[v].rate EXCEPT ![dir] = r]]]]]
  OBVIOUS
<1>3. WorldOk(done)
  BY <1>2, VirtAttrOk
<1> QED BY <1>1, <1>3, FailOk

-----------------------------------------------------------------------------
(***************************************************************************)
(* Commands that define and remove objects.                                *)
(***************************************************************************)

\* net: the net that is found or made is live, and so is the phys it is
\* attached to; its block is opened at the top or in the block of a phys.
LEMMA NetOk ==
  ASSUME NEW w, WorldOk(w), NEW name, NEW vid, NEW sname, NEW pname, NEW block \in BOOLEAN,
         Get_scope(w) \in {"S_PHYS", "S_ROOT"}, Room(w.m.net, name),
         block => Len(w.ctx.stack) < MAX_SCOPE_NESTING
  PROVE  WorldOk(Tcl_net(w, name, vid, sname, pname, FALSE, block))
<1> DEFINE n == ByName(w.m.net, name)
           s == ByName(w.m.settings, IF sname = NULL THEN "default" ELSE sname)
           p == Resolved(w, "phys", pname)
           id == IF n # 0 THEN n ELSE NextId(w.m.net)
           vd == IF vid = NULL THEN VidOf[name] ELSE vid
           new == [NoNet EXCEPT !.state = "NEW", !.settings = s, !.vid = vd]
           m1 == IF n # 0 THEN w.m ELSE [w.m EXCEPT !.net[id] = new]
           m2 == IF p = 0 THEN m1 ELSE PhysAttach(m1, p, id)
           m3 == [m2 EXCEPT !.net = Name_set(@, id, name)]
           w1 == [w EXCEPT !.m = m3]
<1>1. Tcl_net(w, name, vid, sname, pname, FALSE, block)
        \in {Fail(w), IF block THEN Begin_block(w1, "net", id) ELSE w1}
  BY DEF Tcl_net
<1>2. Fine(w.m) /\ DOMAIN w.m.net = NetIds
  BY DEF WorldOk, Fine, Shape
<1>3. id \in NetIds /\ (n = 0 => w.m.net[id].state = "none") /\ (n # 0 => Live(w.m.net[id].state))
  <2>1. CASE n # 0
    BY <1>2, <2>1, ByNameLive
  <2>2. CASE n = 0
    <3>1. Free(w.m.net) # {} /\ MaxNets \in Nat
      BY <2>2, NamedModelAssumption DEF Room
    <3>2. NextId(w.m.net) \in DOMAIN w.m.net /\ w.m.net[NextId(w.m.net)].state = "none"
      BY <1>2, <3>1, NextIdFree DEF NetIds
    <3> QED BY <1>2, <2>2, <3>2
  <2> QED BY <2>1, <2>2
<1> HIDE DEF n, s, vd, id
<1>4. Fine(m1) /\ Keeps(w.m, m1) /\ Live(m1.net[id].state)
  <2>1. CASE n # 0
    BY <1>2, <1>3, <2>1, KeepsAll
  <2>2. CASE n = 0
    BY <1>2, <1>3, <2>2, NewNetFine
  <2> QED BY <2>1, <2>2
<1> HIDE DEF m1, p
<1>5. Fine(m2) /\ Keeps(m1, m2)
  <2>1. p # 0 => p \in PhysIds /\ Live(w.m.phys[p].state)
    BY ResolvedLive DEF p
  <2>2. p # 0 => Live(m1.phys[p].state)
    BY <1>4, <2>1 DEF Keeps
  <2> QED BY <1>3, <1>4, <2>1, <2>2, PhysAttachFine, KeepsAll
<1> HIDE DEF m2
<1>6. Fine(m3) /\ Keeps(m2, m3)
  BY <1>5, NetNameFine
<1> HIDE DEF m3
<1>7. Keeps(w.m, m3) /\ Live(m3.net[id].state)
  <2>1. Keeps(m1, m3) /\ Keeps(w.m, m3)
    BY <1>4, <1>5, <1>6, KeepsAll
  <2> QED BY <1>3, <1>4, <2>1 DEF Keeps
<1>8. WorldOk(w1) /\ w1.m = m3 /\ w1.ctx = w.ctx /\ w1.frames = w.frames
  BY <1>6, <1>7, ModelOk
<1> HIDE DEF w1
<1>9. ASSUME block PROVE WorldOk(Begin_block(w1, "net", id))
  <2>1. \A i \in 1..Len(w.frames) : w.frames[i].kind # "net"
    BY <1>9, OneBlock DEF ScopeOf
  <2>2. \A i \in 1..Len(w.frames) : w.frames[i].kind # "virt"
    BY ScopeIs
  <2>3. id \in Nat \ {0}
    BY <1>3 DEF NetIds
  <2> QED BY <1>3, <1>7, <1>8, <1>9, <2>1, <2>2, <2>3, BeginOk DEF Kinds
<1> QED BY <1>1, <1>8, <1>9, FailOk

\* net -remove: a net that no block belongs to goes; the blocks stay.
LEMMA NetRemoveOk ==
  ASSUME NEW w, WorldOk(w), NEW name, NEW vid, NEW sname, NEW pname, NEW block,
         \A i \in DOMAIN w.frames : w.frames[i] # [kind |-> "net", id |-> ByName(w.m.net, name)]
  PROVE  WorldOk(Tcl_net(w, name, vid, sname, pname, TRUE, block))
<1> DEFINE n == ByName(w.m.net, name)
           next == NetsFree(w.m, {n})
           x == [w EXCEPT !.m = next]
<1>1. Tcl_net(w, name, vid, sname, pname, TRUE, block) \in {Fail(w), IF n = 0 THEN Fail(w) ELSE x}
  BY DEF Tcl_net
<1> SUFFICES ASSUME n # 0 PROVE WorldOk(x)
  BY <1>1, FailOk
<1>2. Fine(w.m) /\ DOMAIN w.m.net = NetIds
  BY DEF WorldOk, Fine, Shape
<1>3. n \in NetIds /\ Live(w.m.net[n].state)
  BY <1>2, ByNameLive
<1>4. Fine(next) /\ next.phys = w.m.phys /\ \A k \in NetIds \ {n} : next.net[k] = w.m.net[k]
  <2>1. {n} \in SUBSET NetIds /\ \A k \in {n} : w.m.net[k].state # "none"
    BY <1>3 DEF Live
  <2> QED BY <1>2, <2>1, NetsFreeFine
<1> HIDE DEF next, n
<1>5. DOMAIN x = DOMAIN w /\ x.ctx = w.ctx /\ x.frames = w.frames /\ x.m = next
  BY DEF WorldOk, Nested
<1> HIDE DEF x
<1>6. Nested(x)
  BY <1>5 DEF WorldOk, Nested
<1>7. \A i \in 1..Len(w.frames) : w.frames[i].kind = "net" => w.frames[i].id # n
  <2>1. w.frames \in Seq(Frame) /\ DOMAIN w.frames = 1..Len(w.frames)
    BY DEF WorldOk, Nested
  <2>2. \A i \in 1..Len(w.frames) : w.frames[i] \in Frame
    BY <2>1
  <2>3. \A i \in 1..Len(w.frames) : w.frames[i] # [kind |-> "net", id |-> n]
    BY <2>1 DEF n
  <2>4. \A f \in Frame : f.kind = "net" /\ f.id = n => f = [kind |-> "net", id |-> n]
    BY DEF Frame
  <2> QED BY <2>2, <2>3, <2>4
<1>8. Within(x)
  BY <1>4, <1>5, <1>7 DEF WorldOk, Within
<1> QED BY <1>4, <1>5, <1>6, <1>8 DEF WorldOk

\* phys -remove, with the virts that are connected through it committed.
LEMMA PhysRemoveOk ==
  ASSUME NEW w, WorldOk(w), NEW name, NEW iface, NEW ip, NEW nname, NEW clear, NEW args,
         \A i \in DOMAIN w.frames : w.frames[i] # [kind |-> "phys", id |-> ByName(w.m.phys, name)],
         \A v \in VirtIds : ByName(w.m.phys, name) # 0 /\ w.m.virt[v].phys = ByName(w.m.phys, name)
                              => w.m.virt[v].state # "DELETE"
  PROVE  WorldOk(Tcl_phys(w, name, iface, ip, nname, TRUE, clear, args))
<1> DEFINE p == ByName(w.m.phys, name)
           next == PhysesFree(w.m, {p})
           x == [w EXCEPT !.m = next]
<1>1. Tcl_phys(w, name, iface, ip, nname, TRUE, clear, args) \in {Fail(w), IF p = 0 THEN Fail(w) ELSE x}
  BY DEF Tcl_phys
<1> SUFFICES ASSUME p # 0 PROVE WorldOk(x)
  BY <1>1, FailOk
<1>2. Fine(w.m) /\ DOMAIN w.m.phys = PhysIds
  BY DEF WorldOk, Fine, Shape
<1>3. p \in PhysIds /\ Live(w.m.phys[p].state)
  BY <1>2, ByNameLive
<1>4. Fine(next) /\ next.net = w.m.net /\ \A k \in PhysIds \ {p} : next.phys[k] = w.m.phys[k]
  <2>1. {p} \in SUBSET PhysIds
        /\ \A v \in VirtIds : w.m.virt[v].phys \in {p} => w.m.virt[v].state # "DELETE"
    BY <1>3
  <2> QED BY <1>2, <2>1, PhysesFreeFine
<1> HIDE DEF next, p
<1>5. DOMAIN x = DOMAIN w /\ x.ctx = w.ctx /\ x.frames = w.frames /\ x.m = next
  BY DEF WorldOk, Nested
<1> HIDE DEF x
<1>6. Nested(x)
  BY <1>5 DEF WorldOk, Nested
<1>7. \A i \in 1..Len(w.frames) : w.frames[i].kind = "phys" => w.frames[i].id # p
  <2>1. w.frames \in Seq(Frame) /\ DOMAIN w.frames = 1..Len(w.frames)
    BY DEF WorldOk, Nested
  <2>2. \A i \in 1..Len(w.frames) : w.frames[i] \in Frame
    BY <2>1
  <2>3. \A i \in 1..Len(w.frames) : w.frames[i] # [kind |-> "phys", id |-> p]
    BY <2>1 DEF p
  <2>4. \A f \in Frame : f.kind = "phys" /\ f.id = p => f = [kind |-> "phys", id |-> p]
    BY DEF Frame
  <2> QED BY <2>2, <2>3, <2>4
<1>8. Within(x)
  BY <1>4, <1>5, <1>7 DEF WorldOk, Within
<1> QED BY <1>4, <1>5, <1>6, <1>8 DEF WorldOk

\* phys: as for a net; the block is closed again when there is none.
LEMMA PhysOk ==
  ASSUME NEW w, WorldOk(w), NEW name, NEW iface, NEW ip, NEW nname, NEW clear,
         NEW args \in {"none", "block"},
         Get_scope(w) \in {"S_NET", "S_ROOT"}, Room(w.m.phys, name),
         Len(w.ctx.stack) < MAX_SCOPE_NESTING,
         ByName(w.m.phys, name) = 0 => Names_search(w.m.phys, Generated(NextId(w.m.phys))) = {}
  PROVE  WorldOk(Tcl_phys(w, name, iface, ip, nname, FALSE, clear, args))
<1> DEFINE q == ByName(w.m.phys, name)
           n == Resolved(w, "net", nname)
           p == IF q # 0 THEN q ELSE NextId(w.m.phys)
           m1 == IF q # 0 THEN w.m ELSE Phys_new(w.m, p)
           named == IF name = NULL THEN m1 ELSE [m1 EXCEPT !.phys = Name_set(@, p, name)]
           m2 == [named EXCEPT !.phys[p].iface = Keep(@, iface, "iface" \in clear),
                               !.phys[p].ip = Keep(@, ip, "ip" \in clear)]
           m3 == IF n = 0 THEN m2 ELSE PhysAttach(m2, p, n)
           w1 == [w EXCEPT !.m = m3]
           w2 == Begin_block(w1, "phys", p)
<1>1. Tcl_phys(w, name, iface, ip, nname, FALSE, clear, args)
        \in {Fail(w), Fail([w EXCEPT !.m = m1]), w2, End_block(w2)}
  BY DEF Tcl_phys
<1>2. Fine(w.m) /\ DOMAIN w.m.phys = PhysIds
  BY DEF WorldOk, Fine, Shape
<1>3. p \in PhysIds /\ (q = 0 => w.m.phys[p].state = "none") /\ (q # 0 => Live(w.m.phys[p].state))
  <2>1. CASE q # 0
    BY <1>2, <2>1, ByNameLive
  <2>2. CASE q = 0
    <3>1. Free(w.m.phys) # {} /\ MaxPhyses \in Nat
      BY <2>2, NamedModelAssumption DEF Room
    <3>2. NextId(w.m.phys) \in DOMAIN w.m.phys /\ w.m.phys[NextId(w.m.phys)].state = "none"
      BY <1>2, <3>1, NextIdFree DEF PhysIds
    <3> QED BY <1>2, <2>2, <3>2
  <2> QED BY <2>1, <2>2
<1>n. q = 0 => Names_search(w.m.phys, Generated(p)) = {}
  OBVIOUS
<1> HIDE DEF q, p
<1>4. Fine(m1) /\ Keeps(w.m, m1) /\ Live(m1.phys[p].state)
  <2>1. CASE q # 0
    BY <1>2, <1>3, <2>1, KeepsAll
  <2>2. CASE q = 0
    BY <1>2, <1>3, <1>n, <2>2, NewPhysFine
  <2> QED BY <2>1, <2>2
<1> HIDE DEF m1, n
<1>5. Fine(named) /\ Keeps(m1, named)
  BY <1>4, PhysNameFine, KeepsAll
<1> HIDE DEF named
<1>6. Fine(m2) /\ Keeps(named, m2)
  <2> DEFINE o == [[named.phys[p] EXCEPT !.iface = Keep(@, iface, "iface" \in clear)]
                     EXCEPT !.ip = Keep(@, ip, "ip" \in clear)]
             tab == [named.phys EXCEPT ![p] = o]
  <2>1. /\ DOMAIN named.phys = PhysIds /\ "phys" \in DOMAIN named
        /\ \A i \in PhysIds : DOMAIN named.phys[i] = PhysFields
    BY <1>5 DEF Fine, Shape, PhysFields
  <2>2. DOMAIN o = PhysFields /\ o.state = named.phys[p].state
    BY <1>3, <2>1 DEF PhysFields
  <2>3. m2 = [named EXCEPT !.phys = tab]
    BY <1>3, <2>1 DEF PhysFields
  <2> HIDE DEF o
  <2>4. DOMAIN tab = PhysIds /\ \A i \in PhysIds : DOMAIN tab[i] = PhysFields
          /\ tab[i].state = named.phys[i].state
    BY <1>3, <2>1, <2>2
  <2> HIDE DEF tab, m2
  <2> QED BY <1>5, <2>3, <2>4, PhysTableFine
<1> HIDE DEF m2
<1>7. Fine(m3) /\ Keeps(w.m, m3) /\ Live(m3.phys[p].state)
  <2>1. Keeps(m1, m2) /\ Keeps(w.m, m2)
    BY <1>4, <1>5, <1>6, KeepsAll
  <2>2. Live(m2.phys[p].state)
    BY <1>3, <1>4, <2>1 DEF Keeps
  <2>3. n # 0 => n \in NetIds /\ Live(w.m.net[n].state)
    BY ResolvedLive DEF n
  <2>4. n # 0 => Live(m2.net[n].state)
    BY <2>1, <2>3 DEF Keeps
  <2>5. Fine(m3) /\ Keeps(m2, m3)
    BY <1>3, <1>6, <2>2, <2>3, <2>4, PhysAttachFine, KeepsAll
  <2>6. Keeps(w.m, m3)
    BY <2>1, <2>5, KeepsAll
  <2> HIDE DEF m3
  <2> QED BY <1>3, <2>2, <2>5, <2>6 DEF Keeps
<1> HIDE DEF m3
<1>8. WorldOk(w1) /\ w1.m = m3 /\ w1.ctx = w.ctx /\ w1.frames = w.frames
  BY <1>7, ModelOk
<1> HIDE DEF w1
<1>9. WorldOk(w2) /\ w2.frames # <<>>
  <2>1. \A i \in 1..Len(w.frames) : w.frames[i].kind # "phys"
    BY OneBlock DEF ScopeOf
  <2>2. \A i \in 1..Len(w.frames) : w.frames[i].kind # "virt"
    BY ScopeIs
  <2>3. p \in Nat \ {0}
    BY <1>3 DEF PhysIds
  <2> QED BY <1>3, <1>7, <1>8, <2>1, <2>2, <2>3, BeginOk DEF Kinds
<1> HIDE DEF w2
<1>10. WorldOk([w EXCEPT !.m = m1])
  BY <1>4, ModelOk
<1>11. WorldOk(End_block(w2))
  BY <1>9, EndOk
<1> QED BY <1>1, <1>9, <1>10, <1>11, FailOk

\* The virt a command is about is in the net the command is about.
LEMMA VirtByName ==
  ASSUME NEW model, NEW n, NEW name, NEW u, u = ByName(VirtNames(model, n), name), u # 0
  PROVE  u \in VirtIds /\ Live(model.virt[u].state) /\ model.virt[u].net = n
<1> DEFINE tab == VirtNames(model, n)
<1>1. DOMAIN tab = {j \in VirtIds : model.virt[j].net = n}
        /\ \A j \in DOMAIN tab : tab[j] = model.virt[j]
  BY DEF VirtNames
<1> HIDE DEF tab
<1>2. u \in DOMAIN tab /\ Live(tab[u].state)
  BY ByNameLive DEF tab
<1> QED BY <1>1, <1>2

\* A net that a command needs is there.
LEMMA NeededNet ==
  ASSUME NEW w, NEW nname, ~ResolveFails(w, "net", nname, TRUE)
  PROVE  Resolved(w, "net", nname) # 0
BY DEF ResolveFails, Resolved

\* virt: the virt that is found or made is in a live net.
LEMMA VirtOk ==
  ASSUME NEW w, WorldOk(w), NEW nname, NEW name, NEW mac, NEW pname, NEW iface, NEW clear,
         NEW block \in BOOLEAN,
         Get_scope(w) \in {"S_PHYS", "S_NET", "S_ROOT"},
         ByName(VirtNames(w.m, Resolved(w, "net", nname)), name) # 0 \/ Free(w.m.virt) # {},
         Resolved(w, "phys", pname) # 0 => iface # NULL,
         block => Len(w.ctx.stack) < MAX_SCOPE_NESTING
  PROVE  WorldOk(Tcl_virt(w, nname, name, mac, pname, iface, FALSE, clear, block))
<1> DEFINE n == Resolved(w, "net", nname)
           u == ByName(VirtNames(w.m, n), name)
           p == Resolved(w, "phys", pname)
           v == IF u # 0 THEN u ELSE NextId(w.m.virt)
           m1 == IF u # 0 THEN w.m
                 ELSE [w.m EXCEPT !.virt[v] = [NoVirt EXCEPT !.state = "NEW", !.net = n]]
           dup == name = NULL \/ Names_search(VirtNames(m1, n), name) # {}
           m2 == [m1 EXCEPT !.virt[v].name = IF dup THEN @ ELSE name,
                            !.virt[v].mac = Keep(@, mac, clear)]
           m3 == IF p = 0 THEN m2 ELSE VirtConnect(m2, v, p, iface)
           w1 == [w EXCEPT !.m = m3]
<1> SUFFICES ASSUME ~ResolveFails(w, "net", nname, TRUE)
             PROVE  WorldOk(Tcl_virt(w, nname, name, mac, pname, iface, FALSE, clear, block))
  BY FailOk DEF Tcl_virt
<1>0. n \in NetIds /\ Live(w.m.net[n].state) /\ w.m.net[n].state # "none"
  <2>1. n # 0
    BY NeededNet
  <2>2. n \in NetIds /\ Live(w.m.net[n].state)
    BY <2>1, ResolvedLive
  <2> QED BY <2>2 DEF Live
<1>1. Tcl_virt(w, nname, name, mac, pname, iface, FALSE, clear, block)
        \in {Fail(w), Fail([w EXCEPT !.m = m1]), IF block THEN Begin_block(w1, "virt", v) ELSE w1}
  BY <1>0 DEF Tcl_virt
<1>2. Fine(w.m) /\ DOMAIN w.m.virt = VirtIds
  BY DEF WorldOk, Fine, Shape
<1> HIDE DEF n
<1>3. v \in VirtIds /\ (u = 0 => w.m.virt[v].state = "none")
      /\ (u # 0 => Live(w.m.virt[v].state) /\ w.m.virt[v].net = n)
  <2>1. CASE u # 0
    <3>1. u \in VirtIds /\ Live(w.m.virt[u].state) /\ w.m.virt[u].net = n
      BY <2>1, VirtByName
    <3> QED BY <2>1, <3>1
  <2>2. CASE u = 0
    <3>1. Free(w.m.virt) # {} /\ MaxVirts \in Nat
      BY <2>2, NamedModelAssumption DEF n
    <3>2. NextId(w.m.virt) \in DOMAIN w.m.virt /\ w.m.virt[NextId(w.m.virt)].state = "none"
      BY <1>2, <3>1, NextIdFree DEF VirtIds
    <3> QED BY <1>2, <2>2, <3>2
  <2> QED BY <2>1, <2>2
<1> HIDE DEF u, v
<1>4. Fine(m1) /\ Keeps(w.m, m1) /\ Live(m1.virt[v].state) /\ m1.virt[v].net = n
  <2>1. CASE u # 0
    BY <1>2, <1>3, <2>1, KeepsAll
  <2>2. CASE u = 0
    <3> DEFINE new == [NoVirt EXCEPT !.state = "NEW", !.net = n]
    <3>1. /\ new.state = "NEW" /\ new.net = n /\ new.phys = 0
          /\ DOMAIN new = {"state", "name", "net", "phys", "iface", "mac", "rules", "rate"}
      BY DEF NoVirt
    <3>2. w.m.virt[v].state = "none" /\ m1 = [w.m EXCEPT !.virt[v] = new]
      BY <1>3, <2>2
    <3> DEFINE next == [w.m EXCEPT !.virt[v] = new]
    <3> HIDE DEF new
    <3>3. /\ Fine(next) /\ Keeps(w.m, next)
          /\ Live(next.virt[v].state) /\ next.virt[v].net = n
      <4> DEFINE old == w.m
      <4>1. /\ Fine(old) /\ old.virt[v].state = "none" /\ v \in VirtIds /\ n \in NetIds
            /\ Live(old.net[n].state) /\ next = [old EXCEPT !.virt[v] = new]
        BY <1>0, <1>2, <1>3, <3>2
      <4> HIDE DEF m1, m2, m3, w1, p, dup, old, next
      <4>2. /\ Fine(next) /\ Keeps(old, next)
            /\ Live(next.virt[v].state) /\ next.virt[v].net = n
        BY <3>1, <4>1, NewVirtFine
      <4> QED BY <4>2 DEF old
    <3> HIDE DEF next, m1
    <3> QED BY <3>2, <3>3 DEF next
  <2> QED BY <2>1, <2>2
<1> HIDE DEF m1, dup
<1>5. Fine(m2) /\ Keeps(m1, m2) /\ Live(m2.virt[v].state) /\ m2.virt[v].net = n
  <2> DEFINE o == [[m1.virt[v] EXCEPT !.name = IF dup THEN @ ELSE name]
                     EXCEPT !.mac = Keep(@, mac, clear)]
             tab == [m1.virt EXCEPT ![v] = o]
  <2>1. /\ DOMAIN m1.virt = VirtIds /\ "virt" \in DOMAIN m1
        /\ \A i \in VirtIds : DOMAIN m1.virt[i] = VirtFields
    BY <1>4 DEF Fine, Shape, VirtFields
  <2>2. /\ DOMAIN o = VirtFields /\ o.state = m1.virt[v].state /\ o.net = m1.virt[v].net
        /\ o.phys = m1.virt[v].phys
    BY <1>3, <2>1 DEF VirtFields
  <2>3. m2 = [m1 EXCEPT !.virt = tab]
    BY <1>3, <2>1 DEF VirtFields
  <2> HIDE DEF o
  <2>4. /\ DOMAIN tab = VirtIds /\ tab[v] = o
        /\ \A i \in VirtIds : /\ DOMAIN tab[i] = VirtFields /\ tab[i].state = m1.virt[i].state
                              /\ tab[i].net = m1.virt[i].net /\ tab[i].phys = m1.virt[i].phys
    BY <1>3, <2>1, <2>2
  <2> HIDE DEF tab, m2
  <2>5. Fine(m2) /\ Keeps(m1, m2) /\ m2.virt = tab
    BY <1>4, <2>3, <2>4, VirtTableFine
  <2> QED BY <1>4, <2>2, <2>4, <2>5
<1> HIDE DEF m2, p
<1>6. Fine(m3) /\ Keeps(w.m, m3)
  <2>1. Keeps(w.m, m2)
    BY <1>4, <1>5, KeepsAll
  <2>2. Live(m2.net[n].state)
    BY <1>0, <2>1 DEF Keeps
  <2>3. p # 0 => p \in PhysIds /\ Live(w.m.phys[p].state)
    BY ResolvedLive DEF p
  <2>4. p # 0 => Live(m2.phys[p].state) /\ iface # NULL
    BY <2>1, <2>3 DEF Keeps, p
  <2>5. m2.virt[v].state # "none"
    BY <1>5 DEF Live
  <2>6. Fine(m3) /\ Keeps(m2, m3)
    BY <1>3, <1>5, <2>2, <2>3, <2>4, <2>5, VirtConnectFine, KeepsAll
  <2> QED BY <2>1, <2>6, KeepsAll
<1> HIDE DEF m3
<1>7. WorldOk(w1) /\ w1.m = m3 /\ w1.ctx = w.ctx /\ w1.frames = w.frames
  BY <1>6, ModelOk
<1> HIDE DEF w1
<1>8. ASSUME block PROVE WorldOk(Begin_block(w1, "virt", v))
  <2>1. \A i \in 1..Len(w.frames) : w.frames[i].kind # "virt"
    BY ScopeIs
  <2>2. v \in Nat \ {0}
    BY <1>3 DEF VirtIds
  <2> QED BY <1>7, <1>8, <2>1, <2>2, BeginOk DEF Kinds
<1>9. WorldOk([w EXCEPT !.m = m1])
  BY <1>4, ModelOk
<1> QED BY <1>1, <1>7, <1>8, <1>9, FailOk

\* virt -remove
LEMMA VirtRemoveOk ==
  ASSUME NEW w, WorldOk(w), NEW nname, NEW name, NEW mac, NEW pname, NEW iface, NEW clear, NEW block
  PROVE  WorldOk(Tcl_virt(w, nname, name, mac, pname, iface, TRUE, clear, block))
<1> DEFINE n == Resolved(w, "net", nname)
           u == ByName(VirtNames(w.m, n), name)
           x == [w EXCEPT !.m = VirtsFree(@, {u})]
<1> SUFFICES ASSUME ~ResolveFails(w, "net", nname, TRUE)
             PROVE  WorldOk(Tcl_virt(w, nname, name, mac, pname, iface, TRUE, clear, block))
  BY FailOk DEF Tcl_virt
<1>1. n \in NetIds /\ Live(w.m.net[n].state) /\ w.m.net[n].state # "none"
  <2>1. n # 0
    BY NeededNet
  <2>2. n \in NetIds /\ Live(w.m.net[n].state)
    BY <2>1, ResolvedLive
  <2> QED BY <2>2 DEF Live
<1>2. Tcl_virt(w, nname, name, mac, pname, iface, TRUE, clear, block)
        \in {Fail(w), IF u = 0 THEN Fail(w) ELSE x}
  BY <1>1 DEF Tcl_virt
<1> HIDE DEF n
<1>3. ASSUME u # 0 PROVE WorldOk(x)
  <2>1. u \in VirtIds /\ Live(w.m.virt[u].state) /\ w.m.virt[u].net = n
    BY <1>3, VirtByName
  <2>2. w.m.virt[u].state # "none" /\ Live(w.m.net[w.m.virt[u].net].state) /\ Fine(w.m)
    BY <1>1, <2>1 DEF Live, WorldOk
  <2> HIDE DEF u
  <2>3. Fine(VirtsFree(w.m, {u})) /\ Keeps(w.m, VirtsFree(w.m, {u}))
    BY <2>1, <2>2, VirtFreeFine
  <2>4. WorldOk([w EXCEPT !.m = VirtsFree(w.m, {u})])
    BY <2>3, ModelOk
  <2> QED BY <2>4
<1> QED BY <1>2, <1>3, FailOk

-----------------------------------------------------------------------------
(***************************************************************************)
(* The other commands.                                                     *)
(***************************************************************************)

\* The objects of a list up to the first that is not there.
LEMMA FoundIs ==
  ASSUME NEW tab, NEW list, Len(list) \in 0..2
  PROVE  /\ Found(tab, list) \in 0..Len(list)
         /\ \A i \in 1..Found(tab, list) : ByName(tab, list[i]) # 0
<1> DEFINE P(k) == /\ \A i \in 1..k : ByName(tab, list[i]) # 0
                   /\ k < Len(list) => ByName(tab, list[k + 1]) = 0
<1>1. \E k \in 0..Len(list) : P(k)
  <2>1. CASE Len(list) = 0 \/ ByName(tab, list[1]) = 0
    <3>1. 0 \in 0..Len(list) /\ P(0)
      BY <2>1
    <3> QED BY <3>1
  <2>2. CASE Len(list) # 0 /\ ByName(tab, list[1]) # 0
               /\ (Len(list) = 1 \/ ByName(tab, list[2]) = 0)
    <3>1. 1 \in 0..Len(list) /\ P(1)
      BY <2>2
    <3> QED BY <3>1
  <2>3. CASE Len(list) = 2 /\ ByName(tab, list[1]) # 0 /\ ByName(tab, list[2]) # 0
    <3>1. 2 \in 0..Len(list) /\ P(2)
      BY <2>3
    <3> QED BY <3>1
  <2> QED BY <2>1, <2>2, <2>3
<1>2. Found(tab, list) = CHOOSE k \in 0..Len(list) : P(k)
  BY DEF Found
<1>3. Found(tab, list) \in 0..Len(list) /\ P(Found(tab, list))
  <2> HIDE DEF P
  <2> QED BY <1>1, <1>2
<1> QED BY <1>3

\* The end of a command that takes a list.
LEMMA ListOk ==
  ASSUME NEW w, WorldOk(w), NEW model, Fine(model), Keeps(w.m, model), NEW x,
         x \in {[w EXCEPT !.m = model], Fail([w EXCEPT !.m = model])}
  PROVE  WorldOk(x)
<1>1. WorldOk([w EXCEPT !.m = model])
  BY ModelOk
<1>2. WorldOk(Fail([w EXCEPT !.m = model]))
  <2> DEFINE y == [w EXCEPT !.m = model]
  <2> HIDE DEF y
  <2> QED BY <1>1, FailOk DEF y
<1> QED BY <1>1, <1>2

\* lsdn_phys_claim_local
LEMMA ClaimLocalFine ==
  ASSUME NEW model, Fine(model), NEW p \in PhysIds, Live(model.phys[p].state)
  PROVE  Fine(ClaimLocal(model, p)) /\ Keeps(model, ClaimLocal(model, p))
<1> DEFINE tab == [model.phys EXCEPT ![p] = [model.phys[p] EXCEPT !.local = TRUE]]
<1>1. /\ DOMAIN model.phys = PhysIds /\ "phys" \in DOMAIN model
      /\ \A i \in PhysIds : DOMAIN model.phys[i] = PhysFields
  BY DEF Fine, Shape, PhysFields
<1>2. ClaimLocal(model, p) = [model EXCEPT !.phys = tab]
  <2>1. (~Live(model.phys[p].state)) = FALSE
    OBVIOUS
  <2>2. ClaimLocal(model, p) = Bug([model EXCEPT !.phys[p].local = TRUE], FALSE, "renew")
    BY <2>1 DEF ClaimLocal
  <2> QED BY <2>2, NoBug
<1>3. DOMAIN tab = PhysIds /\ \A i \in PhysIds : DOMAIN tab[i] = PhysFields
        /\ tab[i].state = model.phys[i].state
  BY <1>1 DEF PhysFields
<1> HIDE DEF tab
<1> QED BY <1>2, <1>3, PhysTableFine

\* claimLocal, for one phys or a list.
LEMMA ClaimLocalOk ==
  ASSUME NEW w, WorldOk(w), NEW pname, NEW list, Len(list) \in 0..2
  PROVE  WorldOk(Tcl_claimLocal(w, pname, list))
<1> DEFINE p == Resolved(w, "phys", pname)
           tab == w.m.phys
           k == Found(tab, list)
           p1 == ByName(tab, list[1])
           p2 == ByName(tab, list[2])
           m0 == ClaimLocal(w.m, p)
           m1 == IF k < 1 THEN w.m ELSE ClaimLocal(w.m, p1)
           m2 == IF k < 2 THEN m1 ELSE ClaimLocal(m1, p2)
<1>1. \/ Tcl_claimLocal(w, pname, list) = Fail(w)
      \/ p # 0 /\ Tcl_claimLocal(w, pname, list) = [w EXCEPT !.m = m0]
      \/ Tcl_claimLocal(w, pname, list) \in {[w EXCEPT !.m = m2], Fail([w EXCEPT !.m = m2])}
  BY DEF Tcl_claimLocal, ForList
<1>2. Fine(w.m) /\ DOMAIN tab = PhysIds
  BY DEF WorldOk, Fine, Shape
<1>3. p # 0 => p \in PhysIds /\ Live(tab[p].state)
  BY ResolvedLive
<1>4. /\ k \in 0..Len(list) /\ (k >= 1 => p1 # 0) /\ (k >= 2 => p2 # 0)
  BY FoundIs
<1>5. /\ p1 # 0 => p1 \in PhysIds /\ Live(tab[p1].state)
      /\ p2 # 0 => p2 \in PhysIds /\ Live(tab[p2].state)
  BY <1>2, ByNameLive
<1> HIDE DEF p, k, p1, p2
<1>6. Fine(m1) /\ Keeps(w.m, m1)
  BY <1>2, <1>4, <1>5, ClaimLocalFine, KeepsAll
<1> HIDE DEF m1
<1>7. Fine(m2) /\ Keeps(w.m, m2)
  <2>1. p2 # 0 => Live(m1.phys[p2].state)
    BY <1>5, <1>6 DEF Keeps
  <2>2. Fine(m2) /\ Keeps(m1, m2)
    BY <1>4, <1>5, <1>6, <2>1, ClaimLocalFine, KeepsAll
  <2> QED BY <1>6, <2>2, KeepsAll
<1>8. p # 0 => Fine(m0) /\ Keeps(w.m, m0)
  BY <1>2, <1>3, ClaimLocalFine
<1> HIDE DEF m0, m2, tab
<1>9. p # 0 => WorldOk([w EXCEPT !.m = m0])
  BY <1>8, ModelOk
<1> QED BY <1>1, <1>7, <1>9, ListOk, FailOk

\* attach: all objects the command names stay live from call to call.
LEMMA AttachOk ==
  ASSUME NEW w, WorldOk(w), NEW pname, NEW nname, NEW list, Len(list) \in 0..2
  PROVE  WorldOk(Tcl_attach(w, pname, nname, list))
<1> DEFINE p == Resolved(w, "phys", pname)
           n == Resolved(w, "net", nname)
           j == Found(w.m.phys, list)
           p1 == ByName(w.m.phys, list[1])
           p2 == ByName(w.m.phys, list[2])
           a1 == IF j < 1 THEN w.m ELSE PhysAttach(w.m, p1, n)
           a2 == IF j < 2 THEN a1 ELSE PhysAttach(a1, p2, n)
           k == Found(w.m.net, list)
           n1 == ByName(w.m.net, list[1])
           n2 == ByName(w.m.net, list[2])
           b1 == IF k < 1 THEN w.m ELSE PhysAttach(w.m, p, n1)
           b2 == IF k < 2 THEN b1 ELSE PhysAttach(b1, p, n2)
           m0 == PhysAttach(w.m, p, n)
           done == Tcl_attach(w, pname, nname, list)
<1>1. \/ done = Fail(w)
      \/ p # 0 /\ n # 0 /\ done = [w EXCEPT !.m = m0]
      \/ n # 0 /\ done \in {[w EXCEPT !.m = a2], Fail([w EXCEPT !.m = a2])}
      \/ p # 0 /\ done \in {[w EXCEPT !.m = b2], Fail([w EXCEPT !.m = b2])}
  BY DEF Tcl_attach, Attach_or_detach, ForList
<1>2. Fine(w.m) /\ DOMAIN w.m.phys = PhysIds /\ DOMAIN w.m.net = NetIds
  BY DEF WorldOk, Fine, Shape
<1>3. /\ p # 0 => p \in PhysIds /\ Live(w.m.phys[p].state)
      /\ n # 0 => n \in NetIds /\ Live(w.m.net[n].state)
  BY ResolvedLive
<1>4. /\ j \in 0..Len(list) /\ (j >= 1 => p1 # 0) /\ (j >= 2 => p2 # 0)
      /\ k \in 0..Len(list) /\ (k >= 1 => n1 # 0) /\ (k >= 2 => n2 # 0)
  BY FoundIs
<1>5. /\ p1 # 0 => p1 \in PhysIds /\ Live(w.m.phys[p1].state)
      /\ p2 # 0 => p2 \in PhysIds /\ Live(w.m.phys[p2].state)
  BY <1>2, ByNameLive
<1>6. /\ n1 # 0 => n1 \in NetIds /\ Live(w.m.net[n1].state)
      /\ n2 # 0 => n2 \in NetIds /\ Live(w.m.net[n2].state)
  BY <1>2, ByNameLive
<1> HIDE DEF p, n, j, k, p1, p2, n1, n2
<1>7. ASSUME n # 0 PROVE Fine(a2) /\ Keeps(w.m, a2)
  <2>1. Fine(a1) /\ Keeps(w.m, a1)
    BY <1>2, <1>3, <1>4, <1>5, <1>7, PhysAttachFine, KeepsAll
  <2> HIDE DEF a1
  <2>2. Live(a1.net[n].state) /\ (p2 # 0 => Live(a1.phys[p2].state))
    BY <1>3, <1>5, <1>7, <2>1 DEF Keeps
  <2>3. Fine(a2) /\ Keeps(a1, a2)
    BY <1>3, <1>4, <1>5, <1>7, <2>1, <2>2, PhysAttachFine, KeepsAll
  <2> QED BY <2>1, <2>3, KeepsAll
<1>8. ASSUME p # 0 PROVE Fine(b2) /\ Keeps(w.m, b2)
  <2>1. Fine(b1) /\ Keeps(w.m, b1)
    BY <1>2, <1>3, <1>4, <1>6, <1>8, PhysAttachFine, KeepsAll
  <2> HIDE DEF b1
  <2>2. Live(b1.phys[p].state) /\ (n2 # 0 => Live(b1.net[n2].state))
    BY <1>3, <1>6, <1>8, <2>1 DEF Keeps
  <2>3. Fine(b2) /\ Keeps(b1, b2)
    BY <1>3, <1>4, <1>6, <1>8, <2>1, <2>2, PhysAttachFine, KeepsAll
  <2> QED BY <2>1, <2>3, KeepsAll
<1>9. ASSUME p # 0, n # 0 PROVE WorldOk([w EXCEPT !.m = m0])
  <2>1. Fine(m0) /\ Keeps(w.m, m0)
    BY <1>2, <1>3, <1>9, PhysAttachFine
  <2> HIDE DEF m0
  <2> QED BY <2>1, ModelOk
<1> HIDE DEF m0, a2, b2, done
<1> QED BY <1>1, <1>7, <1>8, <1>9, ListOk, FailOk DEF done

\* detach
LEMMA DetachOk ==
  ASSUME NEW w, WorldOk(w), NEW pname, NEW nname, NEW list, Len(list) \in 0..2
  PROVE  WorldOk(Tcl_detach(w, pname, nname, list))
<1> DEFINE p == Resolved(w, "phys", pname)
           n == Resolved(w, "net", nname)
           j == Found(w.m.phys, list)
           p1 == ByName(w.m.phys, list[1])
           p2 == ByName(w.m.phys, list[2])
           a1 == IF j < 1 THEN w.m ELSE PhysDetach(w.m, p1, n)
           a2 == IF j < 2 THEN a1 ELSE PhysDetach(a1, p2, n)
           k == Found(w.m.net, list)
           n1 == ByName(w.m.net, list[1])
           n2 == ByName(w.m.net, list[2])
           b1 == IF k < 1 THEN w.m ELSE PhysDetach(w.m, p, n1)
           b2 == IF k < 2 THEN b1 ELSE PhysDetach(b1, p, n2)
           m0 == PhysDetach(w.m, p, n)
           done == Tcl_detach(w, pname, nname, list)
<1>1. \/ done = Fail(w)
      \/ p # 0 /\ n # 0 /\ done = [w EXCEPT !.m = m0]
      \/ n # 0 /\ done \in {[w EXCEPT !.m = a2], Fail([w EXCEPT !.m = a2])}
      \/ p # 0 /\ done \in {[w EXCEPT !.m = b2], Fail([w EXCEPT !.m = b2])}
  BY DEF Tcl_detach, Attach_or_detach, ForList
<1>2. Fine(w.m) /\ DOMAIN w.m.phys = PhysIds /\ DOMAIN w.m.net = NetIds
  BY DEF WorldOk, Fine, Shape
<1>3. /\ p # 0 => p \in PhysIds /\ Live(w.m.phys[p].state)
      /\ n # 0 => n \in NetIds /\ Live(w.m.net[n].state)
  BY ResolvedLive
<1>4. /\ j \in 0..Len(list) /\ (j >= 1 => p1 # 0) /\ (j >= 2 => p2 # 0)
      /\ k \in 0..Len(list) /\ (k >= 1 => n1 # 0) /\ (k >= 2 => n2 # 0)
  BY FoundIs
<1>5. /\ p1 # 0 => p1 \in PhysIds /\ Live(w.m.phys[p1].state)
      /\ p2 # 0 => p2 \in PhysIds /\ Live(w.m.phys[p2].state)
  BY <1>2, ByNameLive
<1>6. /\ n1 # 0 => n1 \in NetIds /\ Live(w.m.net[n1].state)
      /\ n2 # 0 => n2 \in NetIds /\ Live(w.m.net[n2].state)
  BY <1>2, ByNameLive
<1> HIDE DEF p, n, j, k, p1, p2, n1, n2
<1>7. ASSUME n # 0 PROVE Fine(a2) /\ Keeps(w.m, a2)
  <2>1. Fine(a1) /\ Keeps(w.m, a1)
    BY <1>2, <1>3, <1>4, <1>5, <1>7, PhysDetachFine, KeepsAll
  <2> HIDE DEF a1
  <2>2. Live(a1.net[n].state)
    BY <1>3, <1>7, <2>1 DEF Keeps
  <2>3. Fine(a2) /\ Keeps(a1, a2)
    BY <1>3, <1>4, <1>5, <1>7, <2>1, <2>2, PhysDetachFine, KeepsAll
  <2> QED BY <2>1, <2>3, KeepsAll
<1>8. ASSUME p # 0 PROVE Fine(b2) /\ Keeps(w.m, b2)
  <2>1. Fine(b1) /\ Keeps(w.m, b1)
    BY <1>2, <1>3, <1>4, <1>6, <1>8, PhysDetachFine, KeepsAll
  <2> HIDE DEF b1
  <2>2. n2 # 0 => Live(b1.net[n2].state)
    BY <1>6, <2>1 DEF Keeps
  <2>3. Fine(b2) /\ Keeps(b1, b2)
    BY <1>3, <1>4, <1>6, <1>8, <2>1, <2>2, PhysDetachFine, KeepsAll
  <2> QED BY <2>1, <2>3, KeepsAll
<1>9. ASSUME p # 0, n # 0 PROVE WorldOk([w EXCEPT !.m = m0])
  <2>1. Fine(m0) /\ Keeps(w.m, m0)
    BY <1>2, <1>3, <1>9, PhysDetachFine
  <2> HIDE DEF m0
  <2> QED BY <2>1, ModelOk
<1> HIDE DEF m0, a2, b2, done
<1> QED BY <1>1, <1>7, <1>8, <1>9, ListOk, FailOk DEF done

\* A new model at the top of the script.
LEMMA RootOk ==
  ASSUME NEW w, WorldOk(w), Get_scope(w) = "S_ROOT", NEW model, Fine(model)
  PROVE  WorldOk([w EXCEPT !.m = model])
<1> DEFINE x == [w EXCEPT !.m = model]
<1>1. DOMAIN x = DOMAIN w /\ x.ctx = w.ctx /\ x.frames = w.frames /\ x.m = model
  BY DEF WorldOk, Nested
<1>2. w.frames = <<>>
  BY ScopeIs
<1> HIDE DEF x
<1>3. Nested(x)
  BY <1>1 DEF WorldOk, Nested
<1>4. Within(x)
  BY <1>1, <1>2 DEF Within
<1> QED BY <1>1, <1>3, <1>4 DEF WorldOk, x

\* commit: no block is open.
LEMMA CommitOk ==
  ASSUME NEW w, WorldOk(w), NEW outcome, NEW Sweep,
         \A a \in PhysIds \X NetIds : w.m.pa[a].state = "DELETE" =>
           ~w.m.pa[a].explicit /\ Connected(w.m, a) = {}
  PROVE  WorldOk(Tcl_commit(w, outcome, Sweep))
<1> DEFINE next == Commit(w.m, Sweep)
           v == [w EXCEPT !.m = next]
<1>1. \/ Tcl_commit(w, outcome, Sweep) = Fail(w)
      \/ Get_scope(w) = "S_ROOT" /\ Tcl_commit(w, outcome, Sweep) \in {v, Fail(v)}
  BY DEF Tcl_commit, Check_scope
<1>2. Fine(next)
  BY CommitFine DEF WorldOk
<1> HIDE DEF next
<1>3. Get_scope(w) = "S_ROOT" => WorldOk(v)
  BY <1>2, RootOk
<1> HIDE DEF v
<1> QED BY <1>1, <1>3, FailOk

\* cleanup and free, when no virt that awaits its deletion is connected: all
\* virts are disconnected and all PAs detached before the commit.
LEMMA ContextCleanupFine ==
  ASSUME NEW model, Fine(model),
         \A v \in VirtIds : model.virt[v].phys # 0 => model.virt[v].state # "DELETE"
  PROVE  Fine(Context_cleanup(model))
<1> DEFINE P == Allocated(model.phys)
           N == Allocated(model.net)
           m1 == PhysesFree(model, P)
           m2 == NetsFree(m1, N)
           m3 == [m2 EXCEPT !.settings = FreeObjects(@, Allocated(@), NoSettings)]
<1>1. Shape(model) /\ \A v \in VirtIds : FineVirt(model, v)
  BY DEF Fine
<1>2. P \in SUBSET PhysIds /\ N \in SUBSET NetIds /\ \A n \in N : model.net[n].state # "none"
  BY <1>1 DEF Shape, Allocated
<1>3. \A v \in VirtIds : /\ model.virt[v].phys \in P \cup {0}
                         /\ model.virt[v].phys \in P => model.virt[v].state # "DELETE"
  <2>1. \A v \in VirtIds : model.virt[v].phys # 0 => model.virt[v].phys \in P
    BY <1>1 DEF Shape, FineVirt, Live, Allocated
  <2> QED BY <1>2, <2>1, ZeroId
<1>n. \A n \in NetIds : model.net[n].state # "none" => n \in N
  BY <1>1 DEF Shape, Allocated
<1> HIDE DEF P, N
<1>4. Fine(m1) /\ m1.net = model.net /\ \A v \in VirtIds : m1.virt[v].phys = 0
  BY <1>2, <1>3, PhysesFreeFine
<1> HIDE DEF m1
<1>5. /\ Fine(m2) /\ \A v \in VirtIds : m2.virt[v].phys = 0
      /\ \A k \in NetIds \ N : m2.net[k] = model.net[k]
      /\ \A p \in PhysIds, n \in N : m2.pa[<<p, n>>].state # "none" => ~m2.pa[<<p, n>>].explicit
  <2>1. /\ Fine(m2) /\ \A v \in VirtIds : m2.virt[v].phys \in {0, m1.virt[v].phys}
        /\ \A k \in NetIds \ N : m2.net[k] = m1.net[k]
        /\ \A p \in PhysIds, n \in N : m2.pa[<<p, n>>].state # "none" => ~m2.pa[<<p, n>>].explicit
    BY <1>2, <1>4, NetsFreeFine
  <2> QED BY <1>4, <2>1
<1> HIDE DEF m2
<1>6. /\ m3.net = m2.net /\ m3.phys = m2.phys /\ m3.pa = m2.pa /\ m3.virt = m2.virt
      /\ m3.bug = m2.bug /\ DOMAIN m3 = DOMAIN m2
  BY <1>5 DEF Fine, Shape
<1> HIDE DEF m3
<1>7. Fine(m3)
  <2>1. Shape(m3) /\ m3.bug = "no"
    BY <1>5, <1>6 DEF Fine, Shape
  <2> QED BY <1>5, <1>6, <2>1, SameFine
<1>8. \A a \in PhysIds \X NetIds : m3.pa[a].state = "DELETE" =>
        ~m3.pa[a].explicit /\ Connected(m3, a) = {}
  <2> SUFFICES ASSUME NEW p \in PhysIds, NEW n \in NetIds, m3.pa[<<p, n>>].state = "DELETE"
               PROVE  ~m3.pa[<<p, n>>].explicit /\ Connected(m3, <<p, n>>) = {}
    OBVIOUS
  <2>1. Connected(m3, <<p, n>>) = {}
    BY <1>5, <1>6, ZeroId DEF Connected
  <2>2. m2.net[n].state # "none"
    BY <1>5, <1>6 DEF Fine, FinePa
  <2>3. n \in N
    BY <1>5, <1>n, <2>2
  <2> QED BY <1>5, <1>6, <2>1, <2>3
<1>9. Commit(m3, VirtIds).bug = "no"
  BY <1>7, <1>8, CommitFine DEF Fine
<1>10. Context_cleanup(model) = [EmptyModel EXCEPT !.bug = "no"]
  BY <1>9 DEF Context_cleanup, m3, m2, m1, P, N
<1>11. EmptyModel.bug = "no" /\ [EmptyModel EXCEPT !.bug = "no"] = EmptyModel
  BY DEF EmptyModel
<1> QED BY <1>10, <1>11, EmptyFine

\* cleanup: no block is open.
LEMMA CleanupOk ==
  ASSUME NEW w, WorldOk(w), NEW wrong,
         Get_scope(w) = "S_ROOT" =>
           \A v \in VirtIds : w.m.virt[v].phys # 0 => w.m.virt[v].state # "DELETE"
  PROVE  WorldOk(Tcl_cleanup(w, wrong))
<1>1. \/ Tcl_cleanup(w, wrong) = Fail(w)
      \/ Get_scope(w) = "S_ROOT" /\ Tcl_cleanup(w, wrong) = [w EXCEPT !.m = Context_cleanup(w.m)]
  BY DEF Tcl_cleanup, Check_scope
<1>2. Get_scope(w) = "S_ROOT" => Fine(Context_cleanup(w.m))
  BY ContextCleanupFine DEF WorldOk
<1> QED BY <1>1, <1>2, RootOk, FailOk

\* validate and show change nothing.
LEMMA ValidateOk ==
  ASSUME NEW w, WorldOk(w), NEW outcome
  PROVE  WorldOk(Tcl_validate(w, outcome)) /\ WorldOk(Tcl_show(w))
BY FailOk DEF Tcl_validate, Tcl_show

\* The script goes on after an error.
LEMMA CatchOk == ASSUME NEW w, WorldOk(w) PROVE WorldOk([w EXCEPT !.res = "TCL_OK"])
<1> DEFINE x == [w EXCEPT !.res = "TCL_OK"]
<1>1. DOMAIN x = DOMAIN w /\ x.ctx = w.ctx /\ x.frames = w.frames /\ x.m = w.m
  BY DEF WorldOk, Nested
<1> HIDE DEF x
<1>2. WorldOk(x)
  BY <1>1, SameBlocks, KeepsAll DEF WorldOk
<1> QED BY <1>2 DEF x

-----------------------------------------------------------------------------
(***************************************************************************)
(* The interpreter.                                                        *)
(***************************************************************************)

\* Scripts keep the rules that the code relies on.
CarefulScripts ==
  {"contents", "nesting", "enclosing", "reuse", "commit between", "if", "direction",
   "generated"} \subseteq Care

Inv == WorldOk(world) /\ NoReuse(m)

\* The world of the interpreter.
LEMMA WorldIs ==
  /\ world.m = m /\ world.ctx = ctx /\ world.frames = frames /\ world.res = res
  /\ DOMAIN world = {"m", "ctx", "frames", "res"}
BY DEF world

\* A new interpreter.
LEMMA InvInit == Init => Inv
<1> SUFFICES ASSUME Init PROVE Inv
  OBVIOUS
<1>1. WorldOk(world)
  <2>1. /\ world.frames = <<>> /\ world.ctx = RootCtx /\ world.m = EmptyModel
        /\ DOMAIN world = {"m", "ctx", "frames", "res"}
    BY WorldIs DEF Init
  <2>2. /\ RootCtx.stack = <<"S_ROOT">> /\ DOMAIN RootCtx = {"net", "phys", "virt", "stack"}
        /\ RootCtx["net"] = 0 /\ RootCtx["phys"] = 0 /\ RootCtx["virt"] = 0
    BY DEF RootCtx
  <2>3. /\ <<"S_ROOT">> \in Seq(Scopes) /\ Len(<<"S_ROOT">>) = Len(<<>>) + 1
             /\ <<"S_ROOT">>[1] = "S_ROOT"
        /\ <<>> \in Seq(Frame) /\ 1..Len(<<>>) = {}
    BY DEF Scopes
  <2>4. Nested(world)
    BY <2>1, <2>2, <2>3 DEF Nested, Kinds
  <2>5. Within(world)
    BY <2>1, <2>3 DEF Within
  <2> QED BY <2>1, <2>4, <2>5, EmptyFine DEF WorldOk
<1>2. NoReuse(m)
  <2>1. m.pa = [a \in PhysIds \X NetIds |-> NoPa] /\ NoPa.state = "none"
    BY DEF Init, EmptyModel, NoPa
  <2> QED BY <2>1 DEF NoReuse
<1> QED BY <1>1, <1>2 DEF Inv

\* A command that leaves a world in order.
LEMMA BecomesOk == ASSUME NEW w, WorldOk(w), Becomes(w) PROVE Inv'
<1>1. w.m = m' /\ w.ctx = ctx' /\ w.frames = frames' /\ w.res = res' /\ NoReuse(m')
  BY DEF Becomes
<1>2. /\ world'.m = m' /\ world'.ctx = ctx' /\ world'.frames = frames'
      /\ DOMAIN world' = {"m", "ctx", "frames", "res"}
  BY DEF world
<1>3. DOMAIN world' = DOMAIN w /\ world'.ctx = w.ctx /\ world'.frames = w.frames /\ world'.m = w.m
  BY <1>1, <1>2 DEF WorldOk, Nested
<1>4. WorldOk(world')
  BY <1>3, SameBlocks, KeepsAll DEF WorldOk
<1>5. WorldOk(world') = WorldOk(world)'
  BY DEF WorldOk, Nested, Within, Fine, Shape, FineVirt, FinePa
<1> QED BY <1>1, <1>4 DEF Inv

\* Lists of names are short: a bound of the model.
LEMMA NamesLists ==
  ASSUME NEW S, NEW list \in {<<>>} \cup Lists(S)
  PROVE  Len(list) \in 0..2
<1>1. \A x : Len(<<x>>) = 1
  OBVIOUS
<1>2. ASSUME NEW a \in S \X S PROVE Len(a) = 2
  <2>1. PICK x \in S, y \in S : a = <<x, y>>
    OBVIOUS
  <2> QED BY <2>1
<1> QED BY <1>1, <1>2 DEF Lists, Pairs

\* The same of the lists of attach and detach.
LEMMA AttachLists == ASSUME NEW a \in AttachArgs PROVE Len(a[3]) \in 0..2
<1> DEFINE P == Optional(PhysNames)
           N == Optional(NetNames)
           L == Lists(PhysNames)
           K == Pairs(NetNames)
<1>1. \/ a \in {<<p, n, <<>>>> : p \in P, n \in N}
      \/ a \in {<<p, NULL, list>> : p \in P, list \in K}
      \/ a \in {<<NULL, n, list>> : n \in N, list \in L}
  BY DEF AttachArgs
<1>2. (\A list \in K : Len(list) \in 0..2) /\ (\A list \in L : Len(list) \in 0..2)
        /\ Len(<<>>) \in 0..2
  BY NamesLists DEF Lists
<1> HIDE DEF P, N, L, K
<1>3. a[3] = <<>> \/ a[3] \in K \/ a[3] \in L
  BY <1>1
<1> QED BY <1>2, <1>3

\* Every command of a careful script keeps the invariant.
LEMMA InvStep == ASSUME CarefulScripts, Inv, [Next]_vars PROVE Inv'
<1> USE DEF CarefulScripts
<1>0. WorldOk(world) /\ NoReuse(m)
  BY DEF Inv
<1>d. \A dir \in Directions : dir # BAD
  BY LsextAssumption DEF Directions
<1>1. CASE Settings
  <2>1. PICK type, name : Becomes(Tcl_settings(world, type, name))
    BY <1>1 DEF Settings
  <2> QED BY <1>0, <2>1, SettingsOk, BecomesOk
<1>2. CASE Net
  <2>1. PICK name \in NetNames, a \in NetArgs, block \in BOOLEAN :
          /\ Get_scope(world) \in {"S_PHYS", "S_ROOT"} /\ Room(world.m.net, name)
          /\ block => Len(world.ctx.stack) < MAX_SCOPE_NESTING
          /\ Becomes(Tcl_net(world, name, a[1], a[2], a[3], FALSE, block))
    BY <1>2, WorldIs DEF Net, Reads, MayOpen
  <2>2. WorldOk(Tcl_net(world, name, a[1], a[2], a[3], FALSE, block))
    BY <1>0, <2>1, NetOk
  <2> QED BY <2>1, <2>2, BecomesOk
<1>3. CASE NetRemove
  <2>1. PICK name : /\ \A i \in DOMAIN world.frames :
                         world.frames[i] # [kind |-> "net", id |-> ByName(world.m.net, name)]
                    /\ Becomes(Tcl_net(world, name, NULL, NULL, NULL, TRUE, FALSE))
    BY <1>3, WorldIs DEF NetRemove, NotEnclosing
  <2> QED BY <1>0, <2>1, NetRemoveOk, BecomesOk
<1>4. CASE Phys
  <2>1. PICK name \in Optional(PhysNames), n \in Optional(NetNames), args \in {"none", "block"} :
          /\ PhysGuard(name) /\ Becomes(Tcl_phys(world, name, NULL, NULL, n, FALSE, {}, args))
    BY <1>4 DEF Phys
  <2>2. /\ Get_scope(world) \in {"S_NET", "S_ROOT"} /\ Room(world.m.phys, name)
        /\ Len(world.ctx.stack) < MAX_SCOPE_NESTING
        /\ ByName(world.m.phys, name) = 0 =>
             Names_search(world.m.phys, Generated(NextId(world.m.phys))) = {}
    BY <2>1, WorldIs DEF PhysGuard, Reads, MayOpen
  <2>3. WorldOk(Tcl_phys(world, name, NULL, NULL, n, FALSE, {}, args))
    BY <1>0, <2>2, PhysOk
  <2> QED BY <2>1, <2>3, BecomesOk
<1>5. CASE PhysAttrs
  <2>1. PICK name, a : /\ PhysGuard(name)
                       /\ Becomes(Tcl_phys(world, name, a[1], a[2], NULL, FALSE, a[3], "none"))
    BY <1>5 DEF PhysAttrs
  <2>2. /\ Get_scope(world) \in {"S_NET", "S_ROOT"} /\ Room(world.m.phys, name)
        /\ Len(world.ctx.stack) < MAX_SCOPE_NESTING
        /\ ByName(world.m.phys, name) = 0 =>
             Names_search(world.m.phys, Generated(NextId(world.m.phys))) = {}
    BY <2>1, WorldIs DEF PhysGuard, Reads, MayOpen
  <2>3. WorldOk(Tcl_phys(world, name, a[1], a[2], NULL, FALSE, a[3], "none"))
    BY <1>0, <2>2, PhysOk
  <2> QED BY <2>1, <2>3, BecomesOk
<1>6. CASE PhysRemove
  <2>1. PICK name :
          /\ \A i \in DOMAIN world.frames :
               world.frames[i] # [kind |-> "phys", id |-> ByName(world.m.phys, name)]
          /\ \A v \in VirtIds : ByName(world.m.phys, name) # 0
                                /\ world.m.virt[v].phys = ByName(world.m.phys, name)
                                  => world.m.virt[v].state # "DELETE"
          /\ Becomes(Tcl_phys(world, name, NULL, NULL, NULL, TRUE, {}, "none"))
    BY <1>6, WorldIs DEF PhysRemove, NotEnclosing
  <2>2. WorldOk(Tcl_phys(world, name, NULL, NULL, NULL, TRUE, {}, "none"))
    BY <1>0, <2>1, PhysRemoveOk
  <2> QED BY <2>1, <2>2, BecomesOk
<1>7. CASE Virt
  <2>1. PICK n \in Optional(NetNames), name \in Optional(VirtLabels), p \in Optional(PhysNames),
             iface \in Optional(Ifaces), block \in BOOLEAN :
          /\ VirtGuard(n, name, p, iface) /\ (block => MayOpen)
          /\ Becomes(Tcl_virt(world, n, name, NULL, p, iface, FALSE, FALSE, block))
    BY <1>7 DEF Virt
  <2>2. /\ Get_scope(world) \in {"S_PHYS", "S_NET", "S_ROOT"}
        /\ ByName(VirtNames(world.m, Resolved(world, "net", n)), name) # 0 \/ Free(world.m.virt) # {}
        /\ Resolved(world, "phys", p) # 0 => iface # NULL
        /\ block => Len(world.ctx.stack) < MAX_SCOPE_NESTING
    BY <2>1, WorldIs DEF VirtGuard, VirtTable, Reads, MayOpen
  <2>3. WorldOk(Tcl_virt(world, n, name, NULL, p, iface, FALSE, FALSE, block))
    BY <1>0, <2>2, VirtOk
  <2> QED BY <2>1, <2>3, BecomesOk
<1>8. CASE VirtMac
  <2>1. PICK n, name, a :
          /\ VirtGuard(n, name, NULL, NULL)
          /\ Becomes(Tcl_virt(world, n, name, a[1], NULL, NULL, FALSE, a[2], FALSE))
    BY <1>8 DEF VirtMac
  <2>2. /\ Get_scope(world) \in {"S_PHYS", "S_NET", "S_ROOT"}
        /\ ByName(VirtNames(world.m, Resolved(world, "net", n)), name) # 0 \/ Free(world.m.virt) # {}
        /\ Resolved(world, "phys", NULL) # 0 => NULL # NULL
    BY <2>1, WorldIs DEF VirtGuard, VirtTable, Reads
  <2>3. WorldOk(Tcl_virt(world, n, name, a[1], NULL, NULL, FALSE, a[2], FALSE))
    BY <1>0, <2>2, VirtOk
  <2> QED BY <2>1, <2>3, BecomesOk
<1>9. CASE VirtRemove
  <2>1. PICK n, name : Becomes(Tcl_virt(world, n, name, NULL, NULL, NULL, TRUE, FALSE, FALSE))
    BY <1>9 DEF VirtRemove
  <2> QED BY <1>0, <2>1, VirtRemoveOk, BecomesOk
<1>10. CASE Rule
  <2>1. PICK dir, prio, args, junk :
          dir \in Directions /\ Becomes(Tcl_rule(world, dir, prio, "drop", args, junk))
    BY <1>10 DEF Rule
  <2>2. dir # BAD
    BY <1>d, <2>1
  <2> QED BY <1>0, <2>1, <2>2, RuleOk, BecomesOk
<1>11. CASE FlushVr
  BY <1>0, <1>11, FlushOk, BecomesOk DEF FlushVr
<1>12. CASE Rate
  <2>1. PICK dir, a :
          dir \in Directions /\ Becomes(Tcl_rate(world, dir, a[1], a[2], a[3]))
    BY <1>12 DEF Rate
  <2>2. dir # BAD
    BY <1>d, <2>1
  <2> QED BY <1>0, <2>1, <2>2, RateOk, BecomesOk
<1>13. CASE ClaimLocalCmd
  <2>1. PICK p \in Optional(PhysNames), list \in {<<>>} \cup Lists(PhysNames) :
          Becomes(Tcl_claimLocal(world, p, list))
    BY <1>13 DEF ClaimLocalCmd
  <2>2. Len(list) \in 0..2
    BY <2>1, NamesLists
  <2> QED BY <1>0, <2>1, <2>2, ClaimLocalOk, BecomesOk
<1>14. \A a \in AttachArgs : Len(a[3]) \in 0..2
  BY AttachLists
<1>15. CASE Attach
  <2>1. PICK a \in AttachArgs : Becomes(Tcl_attach(world, a[1], a[2], a[3]))
    BY <1>15 DEF Attach
  <2>2. Len(a[3]) \in 0..2
    BY <1>14
  <2> QED BY <1>0, <2>1, <2>2, AttachOk, BecomesOk
<1>16. CASE Detach
  <2>1. PICK a \in AttachArgs : Becomes(Tcl_detach(world, a[1], a[2], a[3]))
    BY <1>16 DEF Detach
  <2>2. Len(a[3]) \in 0..2
    BY <1>14
  <2> QED BY <1>0, <2>1, <2>2, DetachOk, BecomesOk
<1>17. CASE CommitCmd
  <2>1. PICK outcome, Sweep : Becomes(Tcl_commit(world, outcome, Sweep))
    BY <1>17 DEF CommitCmd
  <2>2. \A a \in PhysIds \X NetIds : world.m.pa[a].state = "DELETE" =>
           ~world.m.pa[a].explicit /\ Connected(world.m, a) = {}
    <3>1. DOMAIN m.pa = PhysIds \X NetIds
      BY <1>0, WorldIs DEF WorldOk, Fine, Shape
    <3> QED BY <1>0, <3>1, WorldIs DEF NoReuse
  <2> QED BY <1>0, <2>1, <2>2, CommitOk, BecomesOk
<1>18. CASE Validate \/ Show
  BY <1>0, <1>18, ValidateOk, BecomesOk DEF Validate, Show
<1>19. CASE Cleanup
  <2>1. PICK wrong \in BOOLEAN :
          /\ \A v \in VirtIds : world.m.virt[v].phys # 0 => world.m.virt[v].state # "DELETE"
          /\ Becomes(Tcl_cleanup(world, wrong))
    BY <1>19, WorldIs DEF Cleanup
  <2>2. WorldOk(Tcl_cleanup(world, wrong))
    BY <1>0, <2>1, CleanupOk
  <2> QED BY <2>1, <2>2, BecomesOk
<1>20. CASE Refused
  <2>1. CASE Check_scope(world, {"S_VIRT"})
    <3>1. Get_scope(world) # "S_ROOT" /\ Becomes(Tcl_cleanup(world, FALSE))
      BY <1>20, <2>1 DEF Refused, Check_scope
    <3>2. WorldOk(Tcl_cleanup(world, FALSE))
      BY <1>0, <3>1, CleanupOk
    <3> QED BY <3>1, <3>2, BecomesOk
  <2>2. CASE ~Check_scope(world, {"S_VIRT"})
    BY <1>0, <1>20, <2>2, FlushOk, BecomesOk DEF Refused
  <2> QED BY <2>1, <2>2
<1>21. CASE EndBlock
  <2>1. world.frames # <<>> /\ Becomes(End_block(world))
    BY <1>21, WorldIs DEF EndBlock
  <2> QED BY <1>0, <2>1, EndOk, BecomesOk
<1>22. CASE Catch
  <2>1. Becomes([world EXCEPT !.res = "TCL_OK"])
    BY <1>22 DEF Catch
  <2> QED BY <1>0, <2>1, CatchOk, BecomesOk
<1>23. CASE UNCHANGED vars
  <2>1. world' = world /\ m' = m
    BY <1>23 DEF vars, world
  <2>2. WorldOk(world') /\ NoReuse(m')
    BY <1>0, <2>1
  <2> QED BY <2>2 DEF Inv
<1> QED BY <1>1, <1>2, <1>3, <1>4, <1>5, <1>6, <1>7, <1>8, <1>9, <1>10, <1>11, <1>12, <1>13,
           <1>15, <1>16, <1>17, <1>18, <1>19, <1>20, <1>21, <1>22, <1>23 DEF Next

\* The inductive invariant: the model, the context and the blocks fit together
\* after every command, failed or not, of a careful script.
THEOREM LsctlInv == ASSUME CarefulScripts PROVE Spec => []Inv
<1>1. Inv /\ [Next]_vars => Inv'
  BY InvStep
<1> QED BY <1>1, InvInit, PTL DEF Spec

\* No sequence of commands, failing in any way and at any level, makes the code
\* use a released object, fail an assert or write past the scope stack
\* (lsctl/lsext.c and netmodel/lsdn.c), cleanup and free included, as long as
\* the scripts are careful: two blocks deep at most, and a commit after the
\* removal of a virt before its phys or the context goes.
THEOREM NothingUndefinedHappens == ASSUME CarefulScripts PROVE Spec => []NothingUndefined
<1>1. Inv => NothingUndefined
  BY WorldIs DEF Inv, WorldOk, Fine, NothingUndefined
<1> QED BY <1>1, LsctlInv, PTL

\* The context that the proofs describe is the one of ContextMatchesBlocks.
LEMMA BlocksMatch == ASSUME Inv PROVE ContextMatchesBlocks
<1> DEFINE n == Len(frames)
           scopes == [i \in DOMAIN frames |-> ScopeOf[frames[i].kind]]
<1>1. /\ frames \in Seq(Frame) /\ ctx.stack \in Seq(Scopes) /\ Len(ctx.stack) = n + 1
      /\ n \in Nat /\ DOMAIN frames = 1..n
      /\ ctx.stack[1] = "S_ROOT" /\ \A i \in 1..n : ctx.stack[i + 1] = ScopeOf[frames[i].kind]
      /\ \A i, j \in 1..n : frames[i].kind = frames[j].kind => i = j
      /\ \A i \in 1..n : ctx[frames[i].kind] = frames[i].id
      /\ \A kind \in Kinds : (\A i \in 1..n : frames[i].kind # kind) => ctx[kind] = 0
  <2>1. Nested(world) /\ world.ctx = ctx /\ world.frames = frames
    BY WorldIs DEF Inv, WorldOk
  <2> QED BY <2>1 DEF Nested
<1>2. ctx.stack = <<"S_ROOT">> \o scopes
  <2>1. \A i \in 1..n : ScopeOf[frames[i].kind] \in Scopes
    <3>1. \A i \in 1..n : frames[i] \in Frame
      BY <1>1
    <3> QED BY <3>1 DEF Frame, Kinds, ScopeOf, Scopes
  <2>2. scopes \in Seq(Scopes) /\ Len(scopes) = n
          /\ \A i \in 1..n : scopes[i] = ScopeOf[frames[i].kind]
    BY <1>1, <2>1
  <2> HIDE DEF scopes, n
  <2>3. <<"S_ROOT">> \in Seq(Scopes) /\ Len(<<"S_ROOT">>) = 1
    BY DEF Scopes
  <2>4. /\ <<"S_ROOT">> \o scopes \in Seq(Scopes) /\ Len(<<"S_ROOT">> \o scopes) = n + 1
        /\ \A i \in 1..(n + 1) :
             (<<"S_ROOT">> \o scopes)[i] = IF i = 1 THEN "S_ROOT" ELSE scopes[i - 1]
    BY <1>1, <2>2, <2>3
  <2>5. \A i \in 1..(n + 1) : i = 1 \/ (i - 1 \in 1..n /\ (i - 1) + 1 = i)
    BY <1>1
  <2>6. \A i \in 1..(n + 1) : ctx.stack[i] = (<<"S_ROOT">> \o scopes)[i]
    <3> SUFFICES ASSUME NEW i \in 1..(n + 1) PROVE ctx.stack[i] = (<<"S_ROOT">> \o scopes)[i]
      OBVIOUS
    <3>1. CASE i = 1
      BY <1>1, <2>4, <3>1
    <3>2. CASE i # 1
      <4>1. i - 1 \in 1..n /\ (i - 1) + 1 = i
        BY <2>5, <3>2
      <4>2. ctx.stack[(i - 1) + 1] = ScopeOf[frames[i - 1].kind]
        BY <1>1, <4>1
      <4> QED BY <2>2, <2>4, <3>2, <4>1, <4>2
    <3> QED BY <3>1, <3>2
  <2>7. ctx.stack \in Seq(Scopes) /\ Len(ctx.stack) = n + 1
    BY <1>1
  <2>8. <<"S_ROOT">> \o scopes \in Seq(Scopes) /\ Len(<<"S_ROOT">> \o scopes) = n + 1
    BY <2>4
  <2> QED BY <2>6, <2>7, <2>8, SeqEqual
<1>3. ASSUME NEW kind \in {"net", "phys", "virt"}
      PROVE  IF Enclosing(kind) = {} THEN ctx[kind] = 0 ELSE {ctx[kind]} = Enclosing(kind)
  <2>1. Enclosing(kind) = {frames[i].id : i \in {j \in 1..n : frames[j].kind = kind}}
    BY <1>1 DEF Enclosing
  <2>2. CASE \A i \in 1..n : frames[i].kind # kind
    <3>1. Enclosing(kind) = {}
      BY <2>1, <2>2
    <3> QED BY <1>1, <2>2, <3>1 DEF Kinds
  <2>3. CASE \E i \in 1..n : frames[i].kind = kind
    <3>1. PICK i \in 1..n : frames[i].kind = kind
      BY <2>3
    <3>2. {j \in 1..n : frames[j].kind = kind} = {i}
      BY <1>1, <3>1
    <3>3. Enclosing(kind) = {frames[i].id}
      BY <2>1, <3>2
    <3> QED BY <1>1, <3>1, <3>3
  <2> QED BY <2>2, <2>3
<1> QED BY <1>2, <1>3 DEF ContextMatchesBlocks

\* The scopes and the objects of struct tcl_ctx are those of the blocks being
\* evaluated, whatever failed before (pop_scope and the resets after Tcl_Eval).
THEOREM ContextAlwaysMatches == ASSUME CarefulScripts PROVE Spec => []ContextMatchesBlocks
<1> QED BY BlocksMatch, LsctlInv, PTL
=============================================================================
