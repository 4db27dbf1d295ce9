---------------------------- MODULE SbridgeProofs ---------------------------
(***************************************************************************)
(* Proofs about Sbridge, for any nets, virts and remote PAs, any number of *)
(* actions per filter and chains per tunnel, and any refusals.             *)
(*                                                                         *)
(* The invariants of Sbridge speak of the time between operations, so the  *)
(* inductive invariant IInv says for every step of an operation what it    *)
(* has done so far:                                                        *)
(*   Progress     on which lists the object of the operation is,           *)
(*   Booked       how the lists depend on one another,                     *)
(*   Counted      the users of the tunnel and the classified interfaces,   *)
(*   ForwardsSet  the forwarding rules,                                    *)
(*   ListsSound   the broadcast lists as data structures,                  *)
(*   ChainsApart  no two interfaces of the tunnel have the same chain,     *)
(*   InKernel     the kernel has the filters that are in memory,           *)
(*   FloodsSet    which interface floods to which route.                   *)
(* After a failed assert only FloodsStayInNet and FreedEmpty are kept.     *)
(***************************************************************************)
EXTENDS Sbridge, FiniteSetTheorems, SequenceTheorems, WellFoundedInduction, TLAPS

(***************************************************************************)
(* The inductive invariant.                                                *)
(***************************************************************************)

\* What the running operation is about.
ObjTyped ==
  /\ stage \in {"idle", "init", "match", "fallback", "pull", "push", "mac",
                "unmac", "unroute", "unif", "free", "release"}
  /\ stage \in {"init", "free", "release"} => obj \in Nets
  /\ stage \in {"match", "fallback", "pull", "unif"} => obj \in Ifs
  /\ stage \in {"push", "unroute"} => obj \in Routes
  /\ stage \in {"mac", "unmac"} => obj \in Owners

\* Whether a bridge has no interface but its own.
Bare(n) == \A i \in if_list : i # n => BridgeOf(i) # n

\* Where the object of the operation is, and what it still has.
Progress ==
  /\ stage \in {"init", "release"} => obj \notin dummies
  /\ stage \in {"match", "fallback", "pull"} => obj \notin if_list /\ BridgeOf(obj) \in dummies
  /\ stage \in {"match", "free", "unif"} /\ obj \in Nets => Bare(obj)
  /\ stage = "push" => obj \notin route_list /\ RouteIf(obj) \in if_list
  /\ stage = "mac" => RouteOf(obj) \in route_list
  /\ stage = "unmac" => obj \in mac_list
  /\ stage = "unroute" => obj \in route_list /\ \A m \in mac_list : RouteOf(m) # obj
  /\ stage = "unif" => obj \in if_list /\ \A r \in route_list : RouteIf(r) # obj
  /\ stage = "free" => obj \in dummies /\ obj \notin if_list

\* Bridges that are on their way in or out.
Halfway == IF stage \in {"match", "fallback", "pull", "free"} /\ obj \in Nets THEN {obj} ELSE {}

\* A MAC has its route, a route its interface, an interface its bridge.
Booked ==
  /\ if_list \subseteq Ifs /\ route_list \subseteq Routes /\ mac_list \subseteq Owners
  /\ \A m \in mac_list : RouteOf(m) \in route_list
  /\ \A r \in route_list : RouteIf(r) \in if_list
  /\ \A i \in if_list : BridgeOf(i) \in dummies
  /\ dummies = (if_list \cap Nets) \cup Halfway

\* Interfaces whose incoming packets are led to their broadcast chain.
Classed(i) == i \in if_list \/ (stage \in {"fallback", "pull"} /\ i = obj)

\* The users of the tunnel, and the rules that classify packets.
Counted ==
  /\ IsFiniteSet(dummies) /\ dummies \subseteq Nets
  /\ refcount = Cardinality(dummies) + (IF stage \in {"init", "release"} THEN 1 ELSE 0)
  /\ tunnel = (refcount > 0)
  /\ class \subseteq Ifs \X {"match", "fallback"}
  /\ \A i \in Ifs : (<<i, "match">> \in class) = Classed(i)
  /\ \A i \in Ifs : <<i, "fallback">> \in class => Classed(i)

Rules(M) == {ForwardRule(m) : m \in M}

\* The forwarding rules are those of the MACs; one may be missing on its way out.
ForwardsSet ==
  /\ forward \subseteq Rules(mac_list)
  /\ Rules(IF stage = "unmac" THEN mac_list \ {obj} ELSE mac_list) \subseteq forward

Control == ObjTyped /\ Progress /\ Booked /\ Counted /\ ForwardsSet

Filters == [prio : Nat, free : Nat, acts : [1..MaxActs -> Routes \cup {NoEntry}]]

BroadcastLists == [chain : Nat, next : Nat, filters : Seq(Filters)]

\* The entries for routes through the tunnel.
Tunnelled(f) == {p \in InUse(f) : f.acts[p] \in Rpas}

\* The count of actions that are left is right.
Accounted(f) == f.free + Cardinality(InUse(f)) + Cardinality(Tunnelled(f)) = MaxActs

\* A list whose filters have priorities of their own and hold an action once.
IsBroadcast(b) ==
  /\ b \in BroadcastLists
  /\ \A k \in 1..Len(b.filters) : Accounted(b.filters[k]) /\ b.filters[k].prio < b.next
  /\ \A j, k \in 1..Len(b.filters) : b.filters[j].prio = b.filters[k].prio => j = k
  /\ \A j, k \in 1..Len(b.filters) : \A p, q \in 1..MaxActs :
       b.filters[j].acts[p] = b.filters[k].acts[q] /\ b.filters[j].acts[p] # NoEntry
         => j = k /\ p = q

ListsSound ==
  /\ broadcast \in [Ifs -> BroadcastLists]
  /\ \A i \in Ifs : IsBroadcast(broadcast[i])

\* The chains of the tunnel are used by one interface at a time.
ChainsApart ==
  /\ next_chain \in Nat /\ next_chain >= 1
  /\ \A i \in Ifs : IF Classed(i) THEN broadcast[i].chain >= 1
                                  ELSE broadcast[i].chain = 0 /\ broadcast[i].filters = <<>>
  /\ \A i \in Nets : Classed(i) => broadcast[i].chain < next_chain
  /\ \A i, j \in Nets : Classed(i) /\ Classed(j) /\ broadcast[i].chain = broadcast[j].chain => i = j

\* Where the kernel keeps a filter of an interface.
Place(i, f) == <<Device(i), broadcast[i].chain, f.prio>>

InKernel ==
  /\ floods = [k \in DOMAIN floods |-> floods[k]]
  /\ \A k \in DOMAIN floods : \E i \in Ifs : \E f \in FiltersOf(i) : k = Place(i, f)
  /\ \A i \in Ifs : \A f \in FiltersOf(i) :
       Place(i, f) \in DOMAIN floods /\ floods[Place(i, f)] = Flushed(f)

\* Whether a broadcast from an interface has to leave through a route.
Joined(i, r) == BridgeOf(RouteIf(r)) = BridgeOf(i) /\ RouteIf(r) # i

\* What the loop of the running operation has still to do.
LoopTyped ==
  /\ stage = "pull" => todo \subseteq {r \in route_list : Joined(obj, r)}
  /\ stage = "push" => todo \subseteq {i \in if_list : Joined(i, obj)}
  /\ stage = "unroute" => todo \subseteq {i \in Ifs : Joined(i, obj)}
  /\ stage = "unif" => todo \subseteq {r \in Routes : Joined(obj, r)}

\* Whether it does so by now.
Flooded(i, r) ==
  /\ Joined(i, r)
  /\ \/ stage = "pull" /\ i = obj /\ r \in route_list \ todo
     \/ stage = "push" /\ r = obj /\ i \in if_list \ todo
     \/ stage = "unroute" /\ r = obj /\ i \in todo
     \/ stage = "unif" /\ i = obj /\ r \in todo
     \/ /\ i \in if_list /\ r \in route_list
        /\ ~(stage = "unroute" /\ r = obj) /\ ~(stage = "unif" /\ i = obj)

FloodsSet == \A i \in Ifs : \A r \in Routes : (r \in Actions(broadcast[i])) = Flooded(i, r)

Flooding == ListsSound /\ ChainsApart /\ InKernel /\ LoopTyped /\ FloodsSet

IInv ==
  /\ FreedEmpty /\ FloodsStayInNet /\ IsFiniteSet(route_list)
  /\ aborted = "no" => Control /\ Flooding

(***************************************************************************)
(* Broadcast lists.                                                        *)
(***************************************************************************)

\* A set of numbers that is not empty has a least one.
LEMMA LeastExists ==
  ASSUME NEW S \in SUBSET Nat, S # {}
  PROVE  \E x \in S : \A y \in S : x =< y
<1> DEFINE R == OpToRel(<, Nat)
<1>1. IsWellFoundedOn(R, Nat)
  BY NatLessThanWellFounded
<1>2. PICK x \in S : \A y \in S : ~(<<y, x>> \in R)
  <2> HIDE DEF R
  <2> QED BY <1>1, WFMin
<1>3. \A y \in S : y < x => <<y, x>> \in R
  BY DEF OpToRel
<1>4. \A y \in S : ~(y < x)
  <2> HIDE DEF R
  <2> QED BY <1>2, <1>3
<1>5. \A y \in S : x =< y
  BY <1>4
<1> QED BY <1>5

\* The least place is one of the places.
LEMMA MinIsMember ==
  ASSUME NEW S \in SUBSET Nat, S # {}
  PROVE  Min(S) \in S
BY LeastExists DEF Min

\* The entries of a table are finitely many.
LEMMA EntriesFinite ==
  ASSUME NEW f \in Filters
  PROVE  /\ IsFiniteSet(InUse(f)) /\ Cardinality(InUse(f)) \in Nat
         /\ IsFiniteSet(Tunnelled(f)) /\ Cardinality(Tunnelled(f)) \in Nat
<1>1. IsFiniteSet(1..MaxActs)
  BY FS_Interval, BroadcastAssumption
<1>2. InUse(f) \in SUBSET (1..MaxActs) /\ Tunnelled(f) \in SUBSET InUse(f)
  BY DEF InUse, Tunnelled
<1> QED BY <1>1, <1>2, FS_Subset, FS_CardinalityType

\* A filter that has actions left has a free entry: lsdn_find_free_action does
\* not abort.
LEMMA RoomMeansEntry ==
  ASSUME NEW f \in Filters, Accounted(f), f.free >= 1
  PROVE  FreeEntry(f) \in 1..MaxActs /\ f.acts[FreeEntry(f)] = NoEntry
<1> DEFINE I == {i \in 1..Len(f.acts) : f.acts[i] = NoEntry}
<1>1. f.acts \in Seq(Routes \cup {NoEntry}) /\ Len(f.acts) = MaxActs
  BY BroadcastAssumption DEF Filters
<1>2. FreeEntry(f) = IF I # {} THEN Min(I) ELSE 0
  BY DEF FreeEntry, SelectInSeq
<1>3. InUse(f) # 1..MaxActs
  <2>1. Cardinality(InUse(f)) < MaxActs
    BY EntriesFinite, BroadcastAssumption DEF Accounted, Filters
  <2>2. Cardinality(1..MaxActs) = MaxActs
    BY FS_Interval, BroadcastAssumption
  <2> QED BY <2>1, <2>2, EntriesFinite, BroadcastAssumption
<1>4. I # {} /\ I \in SUBSET Nat
  BY <1>1, <1>3 DEF InUse
<1>5. Min(I) \in I
  <2> HIDE DEF I
  <2> QED BY <1>4, MinIsMember
<1> QED BY <1>1, <1>2, <1>4, <1>5

\* A new filter is empty.
LEMMA NewFilterSound ==
  ASSUME NEW n \in Nat
  PROVE  /\ NewFilter(n) \in Filters /\ Accounted(NewFilter(n))
         /\ NewFilter(n).prio = n /\ NewFilter(n).free = MaxActs
         /\ \A p \in 1..MaxActs : NewFilter(n).acts[p] = NoEntry
<1>1. NewFilter(n) \in Filters
  BY BroadcastAssumption DEF NewFilter, Filters
<1>2. InUse(NewFilter(n)) = {} /\ Tunnelled(NewFilter(n)) = {}
  BY DEF InUse, Tunnelled, NewFilter
<1>3. Accounted(NewFilter(n))
  <2>1. NewFilter(n).free = MaxActs
    BY DEF NewFilter
  <2> QED BY <1>2, <2>1, FS_EmptySet, BroadcastAssumption DEF Accounted
<1> QED BY <1>1, <1>3 DEF NewFilter

\* An element put in front of a sequence.
LEMMA InFront ==
  ASSUME NEW S, NEW n \in S, NEW s \in Seq(S)
  PROVE  LET F == <<n>> \o s IN
         /\ F \in Seq(S) /\ Len(F) \in Nat /\ Len(s) \in Nat
         /\ Len(F) = Len(s) + 1 /\ F[1] = n /\ DOMAIN F = 1..Len(F)
         /\ \A j \in 1..Len(F) : j # 1 => j - 1 \in 1..Len(s) /\ F[j] = s[j-1]
         /\ \A j \in 1..Len(s) : j + 1 \in 1..Len(F) /\ F[j+1] = s[j] /\ s[j] \in S
         /\ ToSet(F) = ToSet(s) \cup {n}
<1> DEFINE F == <<n>> \o s
<1>1. F \in Seq(S) /\ Len(F) = Len(s) + 1 /\ Len(s) \in Nat /\ F[1] = n
  OBVIOUS
<1>2. \A j \in 1..Len(s) : j + 1 \in 1..Len(F) /\ F[j+1] = s[j] /\ s[j] \in S
  OBVIOUS
<1>3. ASSUME NEW j \in 1..Len(F), j # 1
      PROVE  j - 1 \in 1..Len(s) /\ F[j] = s[j-1]
  <2>1. j - 1 \in 1..Len(s)
    BY <1>1, <1>3
  <2>2. F[(j - 1) + 1] = s[j - 1]
    BY <1>2, <2>1
  <2>3. (j - 1) + 1 = j
    BY <1>1
  <2> QED BY <2>1, <2>2, <2>3
<1>4. DOMAIN F = 1..Len(F) /\ DOMAIN s = 1..Len(s) /\ 1 \in 1..Len(F)
  BY <1>1
<1> HIDE DEF F
<1>5. ToSet(F) = ToSet(s) \cup {n}
  <2>1. ASSUME NEW f \in ToSet(F)
        PROVE  f \in ToSet(s) \cup {n}
    <3>1. PICK j \in 1..Len(F) : f = F[j]
      BY <1>4 DEF ToSet
    <3>2. j = 1 \/ (j - 1 \in 1..Len(s) /\ f = s[j-1])
      BY <1>3, <3>1
    <3> QED BY <1>1, <1>4, <3>1, <3>2 DEF ToSet
  <2>2. ASSUME NEW f \in ToSet(s)
        PROVE  f \in ToSet(F)
    <3>1. PICK j \in 1..Len(s) : f = s[j]
      BY <1>4 DEF ToSet
    <3> QED BY <1>2, <1>4, <3>1 DEF ToSet
  <2>3. n \in ToSet(F)
    BY <1>1, <1>4 DEF ToSet
  <2> QED BY <2>1, <2>2, <2>3
<1> QED BY <1>1, <1>2, <1>3, <1>4, <1>5 DEF F

\* lsdn_find_free_action finds a filter with enough actions left.
LEMMA RoomFound ==
  ASSUME NEW b, IsBroadcast(b), NEW cost \in 1..2
  PROVE  LET room == WithRoom(b, cost)
             k    == RoomIn(room, cost)
         IN  /\ IsBroadcast(room) /\ room.chain = b.chain
             /\ k \in 1..Len(room.filters) /\ room.filters[k].free >= cost
             /\ Actions(room) = Actions(b)
             /\ ToSet(b.filters) \subseteq ToSet(room.filters)
<1> DEFINE room == WithRoom(b, cost)
           k    == RoomIn(room, cost)
           I(c) == {i \in 1..Len(c.filters) : c.filters[i].free >= cost}
<1>1. \A c : RoomIn(c, cost) = IF I(c) # {} THEN Min(I(c)) ELSE 0
  BY DEF RoomIn, SelectInSeq
<1>2. b \in BroadcastLists /\ b.filters \in Seq(Filters) /\ b.next \in Nat
      /\ DOMAIN b.filters = 1..Len(b.filters)
  BY DEF IsBroadcast, BroadcastLists
<1>3. CASE \E j \in DOMAIN b.filters : b.filters[j].free >= cost
  <2>1. room = b
    BY <1>3 DEF WithRoom
  <2>2. I(b) # {} /\ I(b) \in SUBSET Nat
    BY <1>2, <1>3
  <2>3. k \in I(b)
    <3>1. k = RoomIn(b, cost)
      BY <2>1
    <3> HIDE DEF I, room, k
    <3> QED BY <1>1, <2>2, <3>1, MinIsMember
  <2> QED BY <2>1, <2>3
<1>4. CASE ~\E j \in DOMAIN b.filters : b.filters[j].free >= cost
  <2> DEFINE n == NewFilter(b.next)
             F == <<n>> \o b.filters
  <2>1. room = [chain |-> b.chain, next |-> b.next + 1, filters |-> F]
    BY <1>2, <1>4 DEF WithRoom, BroadcastLists
  <2>2. /\ n \in Filters /\ Accounted(n) /\ n.prio = b.next /\ n.free = MaxActs
        /\ \A p \in 1..MaxActs : n.acts[p] = NoEntry
    BY <1>2, NewFilterSound
  <2> HIDE DEF n
  <2>3. /\ F \in Seq(Filters) /\ Len(F) \in Nat /\ Len(b.filters) \in Nat
        /\ Len(F) = Len(b.filters) + 1 /\ F[1] = n /\ DOMAIN F = 1..Len(F)
        /\ \A j \in 1..Len(F) : j # 1 => j - 1 \in 1..Len(b.filters) /\ F[j] = b.filters[j-1]
        /\ ToSet(F) = ToSet(b.filters) \cup {n}
    BY <1>2, <2>2, InFront
  <2>4. \A h \in 1..Len(b.filters) : /\ b.filters[h].prio \in Nat /\ b.filters[h].prio < b.next
                                    /\ Accounted(b.filters[h])
    <3> TAKE h \in 1..Len(b.filters)
    <3>1. b.filters[h] \in Filters
      BY <1>2, InFront, <2>2
    <3> QED BY <3>1 DEF Filters, IsBroadcast
  <2> HIDE DEF F
  <2>5. IsBroadcast(room)
    <3>1. room \in BroadcastLists
      BY <1>2, <2>1, <2>3 DEF BroadcastLists
    <3>2. ASSUME NEW j \in 1..Len(F)
          PROVE  Accounted(F[j]) /\ F[j].prio < b.next + 1
      <4>1. CASE j = 1
        BY <1>2, <2>2, <2>3, <4>1
      <4>2. CASE j # 1
        <5> DEFINE h == j - 1
        <5>1. h \in 1..Len(b.filters) /\ F[j] = b.filters[h]
          BY <2>3, <4>2
        <5> HIDE DEF h
        <5> QED BY <1>2, <2>4, <5>1
      <4> QED BY <4>1, <4>2
    <3>3. ASSUME NEW i \in 1..Len(F), NEW j \in 1..Len(F), F[i].prio = F[j].prio
          PROVE  i = j
      <4> DEFINE g == i - 1
                 h == j - 1
      <4>1. /\ i # 1 => g \in 1..Len(b.filters) /\ F[i] = b.filters[g]
            /\ j # 1 => h \in 1..Len(b.filters) /\ F[j] = b.filters[h]
        BY <2>3
      <4>2. \A k1, k2 \in 1..Len(b.filters) : b.filters[k1].prio = b.filters[k2].prio => k1 = k2
        BY DEF IsBroadcast
      <4>3. g = h => i = j
        BY <2>3
      <4> HIDE DEF g, h
      <4>4. CASE i = 1
        BY <1>2, <2>2, <2>3, <2>4, <3>3, <4>1, <4>4
      <4>5. CASE j = 1
        BY <1>2, <2>2, <2>3, <2>4, <3>3, <4>1, <4>5
      <4> QED BY <3>3, <4>1, <4>2, <4>3, <4>4, <4>5
    <3>4. ASSUME NEW i \in 1..Len(F), NEW j \in 1..Len(F), NEW p \in 1..MaxActs,
                 NEW q \in 1..MaxActs, F[i].acts[p] = F[j].acts[q], F[i].acts[p] # NoEntry
          PROVE  i = j /\ p = q
      <4> DEFINE g == i - 1
                 h == j - 1
      <4>1. i # 1 /\ j # 1
        BY <2>2, <2>3, <3>4
      <4>2. /\ g \in 1..Len(b.filters) /\ F[i] = b.filters[g]
            /\ h \in 1..Len(b.filters) /\ F[j] = b.filters[h]
        BY <2>3, <4>1
      <4>3. g = h => i = j
        BY <2>3
      <4> HIDE DEF g, h
      <4>4. /\ b.filters[g].acts[p] = b.filters[h].acts[q] /\ b.filters[g].acts[p] # NoEntry
        BY <3>4, <4>2
      <4>5. g = h /\ p = q
        BY <4>2, <4>4, SMTT(30) DEF IsBroadcast
      <4> QED BY <4>3, <4>5
    <3> HIDE DEF room
    <3> QED BY <2>1, <3>1, <3>2, <3>3, <3>4 DEF IsBroadcast
  <2>6. 1 \in I(room)
    BY <1>2, <2>1, <2>2, <2>3, SbridgeAssumption, BroadcastAssumption
  <2>7. k \in I(room)
    <3>1. I(room) # {} /\ I(room) \in SUBSET Nat
      BY <2>6, <2>4
    <3> HIDE DEF I, room
    <3> QED BY <1>1, <3>1, MinIsMember
  <2>8. Actions(room) = Actions(b)
    <3>2. {x \in ToSet(n.acts) : x # NoEntry} = {}
      BY <2>2 DEF ToSet, Filters
    <3>3. room.filters = F
      BY <2>1
    <3> QED BY <2>3, <3>2, <3>3 DEF Actions
  <2>9. ToSet(b.filters) \subseteq ToSet(room.filters)
    <3>1. room.filters = F
      BY <2>1
    <3> HIDE DEF room
    <3> QED BY <2>3, <3>1
  <2> QED BY <2>1, <2>5, <2>7, <2>8, <2>9
<1> QED BY <1>3, <1>4

\* What is on a list, by place.
LEMMA ActionsAre ==
  ASSUME NEW b \in BroadcastLists, NEW x
  PROVE  /\ x \in Actions(b) <=>
              /\ x # NoEntry
              /\ \E k \in 1..Len(b.filters) : \E p \in 1..MaxActs : b.filters[k].acts[p] = x
         /\ Actions(b) \subseteq Routes
         /\ ToSet(b.filters) = {b.filters[k] : k \in 1..Len(b.filters)}
<1>1. b.filters \in Seq(Filters)
  BY DEF BroadcastLists
<1>2. \A k \in 1..Len(b.filters) : b.filters[k] \in Filters
  BY <1>1
<1>3. ToSet(b.filters) = {b.filters[k] : k \in 1..Len(b.filters)}
  BY <1>1 DEF ToSet
<1>4. \A f \in Filters : ToSet(f.acts) = {f.acts[p] : p \in 1..MaxActs}
  BY DEF ToSet, Filters
<1>5. \A f \in Filters : \A p \in 1..MaxActs : f.acts[p] \in Routes \cup {NoEntry}
  BY DEF Filters
<1>6. x \in Actions(b) <=>
        \E k \in 1..Len(b.filters) : \E p \in 1..MaxActs : b.filters[k].acts[p] = x /\ x # NoEntry
  <2>1. x \in Actions(b) <=> \E f \in ToSet(b.filters) : x \in ToSet(f.acts) /\ x # NoEntry
    BY DEF Actions
  <2>2. x \in Actions(b) <=>
          \E k \in 1..Len(b.filters) : x \in ToSet(b.filters[k].acts) /\ x # NoEntry
    BY <1>3, <2>1
  <2>3. \A k \in 1..Len(b.filters) :
          x \in ToSet(b.filters[k].acts) <=> \E p \in 1..MaxActs : b.filters[k].acts[p] = x
    BY <1>2, <1>4, ZenonT(40)
  <2> QED BY <2>2, <2>3
<1>7. Actions(b) \subseteq Routes
  <2> SUFFICES ASSUME NEW y \in Actions(b) PROVE y \in Routes
    OBVIOUS
  <2>1. PICK f \in ToSet(b.filters) : y \in ToSet(f.acts) /\ y # NoEntry
    BY DEF Actions
  <2>2. f \in Filters
    BY <1>2, <1>3, <2>1
  <2>3. PICK p \in 1..MaxActs : y = f.acts[p]
    BY <1>4, <2>1, <2>2
  <2> QED BY <1>5, <2>1, <2>2, <2>3
<1> QED BY <1>3, <1>6, <1>7

\* A filter with one entry set, and a list with one filter replaced.
Entered(f, n, p, x) == [prio |-> f.prio, free |-> n, acts |-> [f.acts EXCEPT ![p] = x]]

Replaced(b, k, g) == [chain |-> b.chain, next |-> b.next, filters |-> [b.filters EXCEPT ![k] = g]]

Updated(b, k, n, p, x) == [b EXCEPT !.filters[k].free = n, !.filters[k].acts[p] = x]

\* Every priority of a list is one of the other.
KeepsPrios(b, c) == \A f \in ToSet(b.filters) : \E h \in ToSet(c.filters) : h.prio = f.prio

\* One action is replaced by another, or by none.
Swapped(b, c, y, x) == Actions(c) = ((Actions(b) \ {y}) \cup {x}) \ {NoEntry}

\* One entry of one filter changes: the list stays sound, and the priorities
\* stay in use.
LEMMA EntryChanged ==
  ASSUME NEW b, IsBroadcast(b), NEW k \in 1..Len(b.filters), NEW p \in 1..MaxActs,
         NEW x, x = NoEntry \/ (x \in Routes /\ x \notin Actions(b)), NEW n,
         NEW g \in Filters, Accounted(g), g = Entered(b.filters[k], n, p, x)
  PROVE  LET c == Replaced(b, k, g) IN
         /\ IsBroadcast(c) /\ c.chain = b.chain
         /\ Swapped(b, c, b.filters[k].acts[p], x)
         /\ KeepsPrios(b, c)
<1> DEFINE B == b.filters
           C == [B EXCEPT ![k] = g]
           c == Replaced(b, k, g)
<1>0. /\ c.filters = C /\ c.next = b.next /\ c.chain = b.chain /\ k \in 1..Len(B)
      /\ c = [chain |-> b.chain, next |-> b.next, filters |-> C]
      /\ g.prio = B[k].prio /\ g.acts = [B[k].acts EXCEPT ![p] = x]
  BY DEF Replaced, Entered
<1> HIDE DEF c
<1>1. b \in BroadcastLists /\ B \in Seq(Filters) /\ Len(B) \in Nat /\ b.chain \in Nat /\ b.next \in Nat
  BY DEF IsBroadcast, BroadcastLists
<1>2. C \in Seq(Filters) /\ Len(C) = Len(B) /\ C[k] = g
      /\ \A j \in 1..Len(B) : j # k => C[j] = B[j]
  BY <1>1
<1>3. \A j \in 1..Len(B) : /\ B[j] \in Filters /\ Accounted(B[j]) /\ B[j].prio < b.next
                           /\ B[j].prio \in Nat /\ B[j].acts \in [1..MaxActs -> Routes \cup {NoEntry}]
  <2> TAKE j \in 1..Len(B)
  <2>1. B[j] \in Filters
    BY <1>1
  <2>2. Accounted(B[j]) /\ B[j].prio < b.next
    BY DEF IsBroadcast
  <2> QED BY <2>1, <2>2 DEF Filters
<1>4. \A i, j \in 1..Len(B) : B[i].prio = B[j].prio => i = j
  BY DEF IsBroadcast
<1>5. \A i, j \in 1..Len(B) : \A r, q \in 1..MaxActs :
        B[i].acts[r] = B[j].acts[q] /\ B[i].acts[r] # NoEntry => i = j /\ r = q
  BY DEF IsBroadcast
<1>6. x # NoEntry => \A j \in 1..Len(B) : \A q \in 1..MaxActs : B[j].acts[q] # x
  BY <1>1, ActionsAre
<1>7. c \in BroadcastLists
  BY <1>0, <1>1, <1>2 DEF BroadcastLists
<1>8. \A j \in 1..Len(C) : Accounted(C[j]) /\ C[j].prio < b.next
  <2> HIDE DEF C
  <2> QED BY <1>0, <1>2, <1>3
<1>9. \A i, j \in 1..Len(C) : C[i].prio = C[j].prio => i = j
  <2> HIDE DEF C
  <2> QED BY <1>0, <1>2, <1>4
<1>10. \A q \in 1..MaxActs : C[k].acts[q] = IF q = p THEN x ELSE B[k].acts[q]
  <2>1. B[k].acts \in [1..MaxActs -> Routes \cup {NoEntry}]
    BY <1>3
  <2>2. C[k].acts = [B[k].acts EXCEPT ![p] = x]
    BY <1>0, <1>2
  <2> HIDE DEF B, C
  <2> QED BY <2>1, <2>2
<1>11. ASSUME NEW i \in 1..Len(C), NEW j \in 1..Len(C), NEW r \in 1..MaxActs, NEW q \in 1..MaxActs,
              C[i].acts[r] = C[j].acts[q], C[i].acts[r] # NoEntry
       PROVE  i = j /\ r = q
  <2> HIDE DEF C, B
  <2>1. CASE i = k /\ r = p
    <3>1. C[j].acts[q] = x /\ x # NoEntry
      BY <1>10, <1>11, <2>1
    <3>2. j = k /\ q = p
      BY <1>2, <1>6, <1>10, <3>1
    <3> QED BY <2>1, <3>2
  <2>2. CASE j = k /\ q = p
    <3>1. C[i].acts[r] = x /\ x # NoEntry
      BY <1>10, <1>11, <2>2
    <3>2. i = k /\ r = p
      BY <1>2, <1>6, <1>10, <3>1
    <3> QED BY <2>2, <3>2
  <2>3. CASE ~(i = k /\ r = p) /\ ~(j = k /\ q = p)
    <3>1. C[i].acts[r] = B[i].acts[r] /\ C[j].acts[q] = B[j].acts[q]
      BY <1>2, <1>10, <2>3
    <3>2. B[i].acts[r] = B[j].acts[q] /\ B[i].acts[r] # NoEntry
      BY <1>11, <3>1
    <3> QED BY <1>2, <1>5, <3>2
  <2> QED BY <2>1, <2>2, <2>3
<1>12. IsBroadcast(c)
  <2> HIDE DEF C
  <2> QED BY <1>0, <1>7, <1>8, <1>9, <1>11 DEF IsBroadcast
<1>13. ASSUME NEW y
       PROVE  y \in Actions(c) <=> y \in ((Actions(b) \ {B[k].acts[p]}) \cup {x}) \ {NoEntry}
  <2>1. y \in Actions(c) <=>
          y # NoEntry /\ \E j \in 1..Len(C) : \E q \in 1..MaxActs : C[j].acts[q] = y
    <3> HIDE DEF C
    <3> QED BY <1>0, <1>7, ActionsAre
  <2>2. y \in Actions(b) <=>
          y # NoEntry /\ \E j \in 1..Len(B) : \E q \in 1..MaxActs : B[j].acts[q] = y
    BY <1>1, ActionsAre
  <2> HIDE DEF C, B
  <2>3. ASSUME y # NoEntry, NEW j \in 1..Len(C), NEW q \in 1..MaxActs, C[j].acts[q] = y
        PROVE  y = x \/ (y \in Actions(b) /\ y # B[k].acts[p])
    <3>1. CASE j = k /\ q = p
      BY <1>10, <2>3, <3>1
    <3>2. CASE ~(j = k /\ q = p)
      <4>1. B[j].acts[q] = y
        BY <1>2, <1>10, <2>3, <3>2
      <4>2. y \in Actions(b)
        BY <1>2, <2>2, <2>3, <4>1
      <4>3. y # B[k].acts[p]
        BY <1>0, <1>2, <1>5, <2>3, <3>2, <4>1
      <4> QED BY <4>2, <4>3
    <3> QED BY <3>1, <3>2
  <2>4. ASSUME y # NoEntry, y # x, y # B[k].acts[p],
               NEW j \in 1..Len(B), NEW q \in 1..MaxActs, B[j].acts[q] = y
        PROVE  y \in Actions(c)
    <3>1. C[j].acts[q] = y
      BY <1>2, <1>10, <2>4
    <3> QED BY <1>2, <2>1, <2>4, <3>1
  <2>5. y = x /\ x # NoEntry => y \in Actions(c)
    <3>1. C[k].acts[p] = x /\ k \in 1..Len(C)
      BY <1>0, <1>2, <1>10
    <3> QED BY <2>1, <3>1
  <2> QED BY <2>1, <2>2, <2>3, <2>4, <2>5
<1>14. ASSUME NEW f \in ToSet(B)
       PROVE  \E h \in ToSet(C) : h.prio = f.prio
  <2>1. PICK j \in 1..Len(B) : f = B[j]
    BY <1>1 DEF ToSet
  <2>2. C[j].prio = f.prio /\ j \in DOMAIN C
    BY <1>0, <1>1, <1>2, <2>1
  <2> HIDE DEF C
  <2> QED BY <2>2 DEF ToSet
<1> HIDE DEF C
<1>15. Swapped(b, c, B[k].acts[p], x)
  BY <1>13 DEF Swapped
<1>16. KeepsPrios(b, c)
  BY <1>0, <1>14 DEF KeepsPrios
<1> QED BY <1>0, <1>12, <1>15, <1>16 DEF c

\* What an update of one filter leaves of the list.
LEMMA FilterExcept ==
  ASSUME NEW b \in BroadcastLists, NEW k \in 1..Len(b.filters), NEW m, NEW p, NEW x
  PROVE  Updated(b, k, m, p, x) = Replaced(b, k, Entered(b.filters[k], m, p, x))
<1> DEFINE B == b.filters
           f == B[k]
           g == Entered(f, m, p, x)
           h == [f EXCEPT !.free = m]
           G == [B EXCEPT ![k] = h]
           c == [b EXCEPT !.filters = G]
           A == [f.acts EXCEPT ![p] = x]
<1>1. B \in Seq(Filters) /\ DOMAIN B = 1..Len(B) /\ k \in 1..Len(B) /\ f \in Filters
  BY DEF BroadcastLists
<1>2. b = [chain |-> b.chain, next |-> b.next, filters |-> B]
  BY DEF BroadcastLists
<1>3. f = [prio |-> f.prio, free |-> f.free, acts |-> f.acts]
  BY <1>1 DEF Filters
<1>4. h = [prio |-> f.prio, free |-> m, acts |-> f.acts]
  BY <1>3
<1>5. [h EXCEPT !.acts = A] = g
  <2>1. [h EXCEPT !.acts = A] = [prio |-> f.prio, free |-> m, acts |-> A]
    <3> HIDE DEF f, A, h
    <3> QED BY <1>4
  <2> QED BY <2>1 DEF Entered
<1>6. c = [chain |-> b.chain, next |-> b.next, filters |-> G]
  <2> HIDE DEF G
  <2> QED BY <1>2
<1>7. G[k] = h /\ [G EXCEPT ![k] = g] = [B EXCEPT ![k] = g]
  <2> HIDE DEF h, B, g
  <2> QED BY <1>1
<1>8. Updated(b, k, m, p, x) =
        [c EXCEPT !.filters = [c.filters EXCEPT ![k] =
          [c.filters[k] EXCEPT !.acts = [c.filters[k].acts EXCEPT ![p] = x]]]]
  BY DEF Updated
<1>9. c.filters = G /\ c.filters[k] = h /\ c.filters[k].acts = f.acts
  <2> HIDE DEF G, c, h, f
  <2> QED BY <1>4, <1>6, <1>7
<1>10. Updated(b, k, m, p, x) =
         [c EXCEPT !.filters = [G EXCEPT ![k] = [h EXCEPT !.acts = A]]]
  <2> HIDE DEF G, c, h, f
  <2> QED BY <1>8, <1>9
<1>11. [c EXCEPT !.filters = [B EXCEPT ![k] = g]] = Replaced(b, k, g)
  <2> HIDE DEF G, c, g
  <2> QED BY <1>6 DEF Replaced
<1> HIDE DEF G, c, h, A
<1> QED BY <1>5, <1>7, <1>10, <1>11

\* lsdn_broadcast_add puts an action on the list.
LEMMA AddKeepsList ==
  ASSUME NEW b, IsBroadcast(b), NEW x \in Routes \ Actions(b)
  PROVE  LET c == BroadcastAdd(b, x, Cost(x))
         IN  /\ IsBroadcast(c) /\ c.chain = b.chain
             /\ Actions(c) = Actions(b) \cup {x}
             /\ KeepsPrios(b, c)
<1> DEFINE cost == Cost(x)
           room == WithRoom(b, cost)
           k    == RoomIn(room, cost)
           f    == room.filters[k]
           p    == FreeEntry(f)
           g    == Entered(f, f.free - cost, p, x)
           c    == BroadcastAdd(b, x, cost)
           d    == Replaced(room, k, g)
<1>1. cost \in 1..2 /\ x # NoEntry
  BY SbridgeAssumption DEF Cost, Routes
<1>2. /\ IsBroadcast(room) /\ room.chain = b.chain
      /\ k \in 1..Len(room.filters) /\ room.filters[k].free >= cost
      /\ Actions(room) = Actions(b) /\ ToSet(b.filters) \subseteq ToSet(room.filters)
  <2> HIDE DEF cost
  <2> QED BY <1>1, RoomFound
<1>3. c = Updated(room, k, f.free - cost, p, x)
  BY DEF BroadcastAdd, Updated
<1> HIDE DEF room, k, c
<1>4. room \in BroadcastLists /\ room.filters \in Seq(Filters) /\ f \in Filters /\ Accounted(f)
  BY <1>2 DEF IsBroadcast, BroadcastLists
<1>5. p \in 1..MaxActs /\ f.acts[p] = NoEntry
  <2>1. f.free >= 1
    BY <1>1, <1>2, <1>4 DEF Filters
  <2> HIDE DEF f
  <2> QED BY <1>4, <2>1, RoomMeansEntry
<1>6. c = d
  <2> HIDE DEF p, cost
  <2> QED BY <1>2, <1>3, <1>4, FilterExcept
<1>7. g \in Filters
  BY <1>1, <1>2, <1>4, <1>5 DEF Filters, Entered
<1>8. Accounted(g)
  <2>1. InUse(g) = InUse(f) \cup {p} /\ p \notin InUse(f)
    <3> HIDE DEF f, p
    <3> QED BY <1>1, <1>4, <1>5 DEF InUse, Filters, Entered
  <2>2. /\ x \in Rpas => Tunnelled(g) = Tunnelled(f) \cup {p} /\ p \notin Tunnelled(f)
        /\ x \notin Rpas => Tunnelled(g) = Tunnelled(f)
    <3>1. \A q \in 1..MaxActs : g.acts[q] = IF q = p THEN x ELSE f.acts[q]
      <4> HIDE DEF f, p
      <4> QED BY <1>4, <1>5 DEF Filters, Entered
    <3> HIDE DEF g, f, p
    <3> QED BY <1>5, <2>1, <3>1 DEF Tunnelled, InUse
  <2>3. Cardinality(InUse(g)) = Cardinality(InUse(f)) + 1
    BY <1>4, <2>1, EntriesFinite, FS_AddElement
  <2>4. /\ x \in Rpas => Cardinality(Tunnelled(g)) = Cardinality(Tunnelled(f)) + 1
        /\ x \notin Rpas => Cardinality(Tunnelled(g)) = Cardinality(Tunnelled(f))
    BY <1>4, <2>2, EntriesFinite, FS_AddElement
  <2>5. /\ Cardinality(InUse(f)) \in Nat /\ Cardinality(Tunnelled(f)) \in Nat /\ f.free \in Nat
    BY <1>4, EntriesFinite DEF Filters
  <2>6. g.free = f.free - (IF x \in Rpas THEN 2 ELSE 1)
    BY DEF Cost, Entered
  <2>7. f.free + Cardinality(InUse(f)) + Cardinality(Tunnelled(f)) = MaxActs
    BY <1>4 DEF Accounted
  <2>8. g.free + Cardinality(InUse(g)) + Cardinality(Tunnelled(g)) = MaxActs
    <3> HIDE DEF g, f
    <3> QED BY <2>3, <2>4, <2>5, <2>6, <2>7
  <2> QED BY <2>8 DEF Accounted
<1>10. /\ IsBroadcast(d)
       /\ Swapped(room, d, f.acts[p], x)
       /\ KeepsPrios(room, d)
  <2> HIDE DEF g, p, d
  <2> DEFINE n == f.free - cost
  <2>1. g = Entered(room.filters[k], n, p, x) /\ d = Replaced(room, k, g)
    BY DEF g, d
  <2> HIDE DEF n
  <2>2. /\ IsBroadcast(room) /\ k \in 1..Len(room.filters) /\ p \in 1..MaxActs
        /\ g \in Filters /\ Accounted(g)
    BY <1>2, <1>5, <1>7, <1>8
  <2>3. x = NoEntry \/ (x \in Routes /\ x \notin Actions(room))
    BY <1>2
  <2>4. /\ IsBroadcast(Replaced(room, k, g)) /\ KeepsPrios(room, Replaced(room, k, g))
        /\ Swapped(room, Replaced(room, k, g), room.filters[k].acts[p], x)
    BY <2>1, <2>2, <2>3, EntryChanged, Zenon
  <2> QED BY <2>1, <2>4
<1>11. d.chain = b.chain
  BY <1>2 DEF Replaced
<1>12. NoEntry \notin Actions(b)
  BY DEF Actions
<1> HIDE DEF d, f, p
<1>13. KeepsPrios(b, d)
  BY <1>2, <1>10 DEF KeepsPrios
<1> QED BY <1>1, <1>2, <1>5, <1>6, <1>10, <1>11, <1>12, <1>13 DEF c, Swapped

\* lsdn_broadcast_remove takes it off again.
LEMMA RemoveKeepsList ==
  ASSUME NEW b, IsBroadcast(b), NEW x \in Routes, x \in Actions(b)
  PROVE  LET c == BroadcastRemove(b, x, Cost(x))
         IN  /\ IsBroadcast(c) /\ c.chain = b.chain
             /\ Actions(c) = Actions(b) \ {x}
             /\ KeepsPrios(b, c)
<1> DEFINE cost == Cost(x)
           k    == FilterOf(b, x)
           f    == b.filters[k]
           p    == EntryOf(b, x)
           g    == Entered(f, f.free + cost, p, NoEntry)
           c    == BroadcastRemove(b, x, cost)
           d    == Replaced(b, k, g)
           I    == {i \in 1..Len(b.filters) : Contains(b.filters[i].acts, x)}
           J    == {i \in 1..Len(f.acts) : f.acts[i] = x}
<1>1. cost \in 1..2 /\ x # NoEntry
  BY SbridgeAssumption DEF Cost, Routes
<1>2. b \in BroadcastLists /\ b.filters \in Seq(Filters)
  BY DEF IsBroadcast, BroadcastLists
<1>3. \A e \in Filters : Len(e.acts) = MaxActs
  BY BroadcastAssumption DEF Filters
<1>4. k \in I
  <2>1. k = IF I # {} THEN Min(I) ELSE 0
    BY DEF FilterOf, SelectInSeq
  <2>2. PICK j \in 1..Len(b.filters), q \in 1..MaxActs : b.filters[j].acts[q] = x
    BY <1>2, ActionsAre
  <2>3. j \in I
    BY <1>2, <1>3, <2>2 DEF Contains
  <2>4. I # {} /\ I \in SUBSET Nat
    BY <1>2, <2>3
  <2> HIDE DEF I, k
  <2> QED BY <2>1, <2>4, MinIsMember
<1>5. k \in 1..Len(b.filters) /\ f \in Filters /\ Accounted(f)
  <2> HIDE DEF k
  <2> QED BY <1>2, <1>4 DEF IsBroadcast
<1>6. p \in J
  <2>1. p = IF J # {} THEN Min(J) ELSE 0
    BY DEF EntryOf, SelectInSeq
  <2>2. J # {} /\ J \in SUBSET Nat
    <3> HIDE DEF k
    <3> QED BY <1>3, <1>4, <1>5, BroadcastAssumption DEF Contains
  <2> HIDE DEF J, p
  <2> QED BY <2>1, <2>2, MinIsMember
<1>7. p \in 1..MaxActs /\ f.acts[p] = x
  <2> HIDE DEF f, p
  <2> QED BY <1>3, <1>5, <1>6
<1>8. c = d
  <2>1. c = Updated(b, k, f.free + cost, p, NoEntry)
    BY DEF BroadcastRemove, Updated
  <2> HIDE DEF k, p, cost, c
  <2> QED BY <1>2, <1>5, <2>1, FilterExcept
<1> HIDE DEF k, p, c
<1>9. g \in Filters
  BY <1>1, <1>5, <1>7 DEF Filters, Entered
<1>10. Accounted(g)
  <2>1. InUse(g) = InUse(f) \ {p} /\ p \in InUse(f)
    <3> HIDE DEF f
    <3> QED BY <1>1, <1>5, <1>7 DEF InUse, Filters, Entered
  <2>2. /\ x \in Rpas => Tunnelled(g) = Tunnelled(f) \ {p} /\ p \in Tunnelled(f)
        /\ x \notin Rpas => Tunnelled(g) = Tunnelled(f)
    <3> HIDE DEF f
    <3> QED BY <1>5, <1>7, <2>1 DEF Tunnelled, Filters, Entered
  <2>3. Cardinality(InUse(g)) = Cardinality(InUse(f)) - 1
    BY <1>5, <2>1, EntriesFinite, FS_RemoveElement
  <2>4. /\ x \in Rpas => Cardinality(Tunnelled(g)) = Cardinality(Tunnelled(f)) - 1
        /\ x \notin Rpas => Cardinality(Tunnelled(g)) = Cardinality(Tunnelled(f))
    BY <1>5, <2>2, EntriesFinite, FS_RemoveElement
  <2>5. /\ Cardinality(InUse(f)) \in Nat /\ Cardinality(Tunnelled(f)) \in Nat /\ f.free \in Nat
    BY <1>5, EntriesFinite DEF Filters
  <2>6. g.free = f.free + (IF x \in Rpas THEN 2 ELSE 1)
    BY DEF Cost, Entered
  <2>7. f.free + Cardinality(InUse(f)) + Cardinality(Tunnelled(f)) = MaxActs
    BY <1>5 DEF Accounted
  <2>8. g.free + Cardinality(InUse(g)) + Cardinality(Tunnelled(g)) = MaxActs
    <3> HIDE DEF g, f
    <3> QED BY <2>3, <2>4, <2>5, <2>6, <2>7
  <2> QED BY <2>8 DEF Accounted
<1>12. /\ IsBroadcast(d)
       /\ Swapped(b, d, f.acts[p], NoEntry)
       /\ KeepsPrios(b, d)
  <2> HIDE DEF g, d
  <2>1. g = Entered(b.filters[k], f.free + cost, p, NoEntry) /\ d = Replaced(b, k, g)
    BY DEF g, d
  <2>2. /\ k \in 1..Len(b.filters) /\ p \in 1..MaxActs /\ g \in Filters /\ Accounted(g)
        /\ NoEntry = NoEntry
    BY <1>5, <1>7, <1>9, <1>10
  <2> QED BY <2>1, <2>2, EntryChanged, Zenon
<1>13. d.chain = b.chain
  BY DEF Replaced
<1>14. NoEntry \notin Actions(b)
  BY DEF Actions
<1> HIDE DEF d, f
<1> QED BY <1>7, <1>8, <1>12, <1>13, <1>14 DEF c, Swapped

(***************************************************************************)
(* The steps of the operations keep the books of the bridge.               *)
(***************************************************************************)

\* create_pa as far as the tunnel keeps the books.
LEMMA CreatePaControl ==
  ASSUME Control, aborted = "no", NEW n \in Nets, CreatePa(n)
  PROVE  Control'
<1> USE SbridgeAssumption DEF Control, CreatePa, At, Return, tunVars, listVars, brVars,
        Ifs, Routes, Owners
<1>1. ObjTyped'
  BY DEF ObjTyped
<1>2. Progress'
  BY DEF ObjTyped, Progress, Booked, Bare, BridgeOf, RouteIf, RouteOf
<1>3. Booked'
  BY DEF ObjTyped, Progress, Booked, Halfway, Bare, BridgeOf, RouteIf, RouteOf
<1>4. Counted'
  <2>1. Cardinality(dummies) \in Nat
    BY FS_CardinalityType DEF Counted
  <2>2. UNCHANGED <<dummies, class, if_list>>
    OBVIOUS
  <2>3. stage = "idle" /\ (\A i \in Ifs : Classed(i)' = Classed(i))
    BY <2>2 DEF Classed
  <2>4. \/ refcount' = refcount + 1 /\ tunnel' = TRUE /\ stage' = "init"
        \/ refcount' = refcount /\ tunnel' = tunnel /\ stage' = "idle"
    OBVIOUS
  <2>5. refcount = Cardinality(dummies)
    BY <2>1, <2>3 DEF Counted
  <2>6. refcount' = Cardinality(dummies') + (IF stage' \in {"init", "release"} THEN 1 ELSE 0)
    BY <2>1, <2>2, <2>4, <2>5
  <2>7. tunnel' = (refcount' > 0)
    <3>1. CASE refcount' = refcount + 1 /\ tunnel' = TRUE
      <4>1. refcount' > 0
        BY <2>1, <2>5, <3>1
      <4>2. (refcount' > 0) = TRUE
        BY <4>1
      <4> QED BY <3>1, <4>2, Zenon
    <3>2. CASE refcount' = refcount /\ tunnel' = tunnel
      BY <3>2 DEF Counted
    <3> QED BY <2>4, <3>1, <3>2
  <2> QED BY <2>2, <2>3, <2>6, <2>7 DEF Counted
<1>5. ForwardsSet'
  BY DEF ObjTyped, Progress, ForwardsSet, Rules, ForwardRule
<1> QED BY <1>1, <1>2, <1>3, <1>4, <1>5

\* The start of destroy_pa keeps the books.
LEMMA DestroyPaControl ==
  ASSUME Control, aborted = "no", NEW n \in Nets, DestroyPa(n)
  PROVE  Control'
<1> USE SbridgeAssumption DEF Control, DestroyPa, At, Begin, tunVars, listVars, brVars,
        Ifs, Routes, Owners
<1>1. ObjTyped'
  BY DEF ObjTyped
<1>2. Progress'
  <2>1. n \in if_list
    BY DEF Booked, Halfway
  <2>2. \A r \in route_list : RouteIf(r) # n
    BY DEF Booked, RouteIf
  <2> QED BY <2>1, <2>2 DEF Progress, Bare
<1>3. Booked'
  BY DEF ObjTyped, Progress, Booked, Halfway, Bare, BridgeOf, RouteIf, RouteOf
<1>4. Counted'
  BY FS_CardinalityType, FS_AddElement, FS_RemoveElement DEF ObjTyped, Progress, Booked,
     Halfway, Counted, Classed
<1>5. ForwardsSet'
  BY DEF ObjTyped, Progress, ForwardsSet, Rules, ForwardRule
<1> QED BY <1>1, <1>2, <1>3, <1>4, <1>5

\* The start of add_virt keeps the books.
LEMMA AddVirtControl ==
  ASSUME Control, aborted = "no", NEW v \in Virts, AddVirt(v)
  PROVE  Control'
<1> USE SbridgeAssumption DEF Control, AddVirt, At, Begin, Return, tunVars, listVars,
        brVars, Ifs, Routes, Owners
<1>1. ObjTyped'
  BY DEF ObjTyped
<1>2. Progress'
  BY DEF ObjTyped, Progress, Booked, Bare, BridgeOf, RouteIf, RouteOf
<1>3. Booked'
  BY DEF ObjTyped, Progress, Booked, Halfway, Bare, BridgeOf, RouteIf, RouteOf
<1>4. Counted'
  BY FS_CardinalityType, FS_AddElement, FS_RemoveElement DEF ObjTyped, Progress, Booked,
     Halfway, Counted, Classed
<1>5. ForwardsSet'
  BY DEF ObjTyped, Progress, ForwardsSet, Rules, ForwardRule
<1> QED BY <1>1, <1>2, <1>3, <1>4, <1>5

\* The start of add_remote_pa keeps the books.
LEMMA AddRemotePaControl ==
  ASSUME Control, aborted = "no", NEW r \in Rpas, AddRemotePa(r)
  PROVE  Control'
<1> USE SbridgeAssumption DEF Control, AddRemotePa, At, Begin, tunVars, listVars,
        brVars, Ifs, Routes, Owners
<1>1. ObjTyped'
  BY DEF ObjTyped
<1>2. Progress'
  BY DEF ObjTyped, Progress, Booked, Bare, BridgeOf, RouteIf, RouteOf
<1>3. Booked'
  BY DEF ObjTyped, Progress, Booked, Halfway, Bare, BridgeOf, RouteIf, RouteOf
<1>4. Counted'
  BY FS_CardinalityType, FS_AddElement, FS_RemoveElement DEF ObjTyped, Progress, Booked,
     Halfway, Counted, Classed
<1>5. ForwardsSet'
  BY DEF ObjTyped, Progress, ForwardsSet, Rules, ForwardRule
<1> QED BY <1>1, <1>2, <1>3, <1>4, <1>5

\* The start of remove_remote_pa keeps the books.
LEMMA RemoveRemotePaControl ==
  ASSUME Control, aborted = "no", NEW r \in Rpas, RemoveRemotePa(r)
  PROVE  Control'
<1> USE SbridgeAssumption DEF Control, RemoveRemotePa, At, Begin, tunVars, listVars,
        brVars, Ifs, Routes, Owners
<1>1. ObjTyped'
  BY DEF ObjTyped
<1>2. Progress'
  BY DEF ObjTyped, Progress, Booked, Bare, BridgeOf, RouteIf, RouteOf
<1>3. Booked'
  BY DEF ObjTyped, Progress, Booked, Halfway, Bare, BridgeOf, RouteIf, RouteOf
<1>4. Counted'
  BY FS_CardinalityType, FS_AddElement, FS_RemoveElement DEF ObjTyped, Progress, Booked,
     Halfway, Counted, Classed
<1>5. ForwardsSet'
  BY DEF ObjTyped, Progress, ForwardsSet, Rules, ForwardRule
<1> QED BY <1>1, <1>2, <1>3, <1>4, <1>5

\* The start of add_remote_virt keeps the books.
LEMMA AddRemoteVirtControl ==
  ASSUME Control, aborted = "no", NEW w \in Rvirts, AddRemoteVirt(w)
  PROVE  Control'
<1> USE SbridgeAssumption DEF Control, AddRemoteVirt, At, Begin, tunVars, listVars,
        brVars, Ifs, Routes, Owners
<1>1. ObjTyped'
  BY DEF ObjTyped
<1>2. Progress'
  BY DEF ObjTyped, Progress, Booked, Bare, BridgeOf, RouteIf, RouteOf
<1>3. Booked'
  BY DEF ObjTyped, Progress, Booked, Halfway, Bare, BridgeOf, RouteIf, RouteOf
<1>4. Counted'
  BY FS_CardinalityType, FS_AddElement, FS_RemoveElement DEF ObjTyped, Progress, Booked,
     Halfway, Counted, Classed
<1>5. ForwardsSet'
  BY DEF ObjTyped, Progress, ForwardsSet, Rules, ForwardRule
<1> QED BY <1>1, <1>2, <1>3, <1>4, <1>5

\* The start of remove_virt and remove_remote_virt keeps the books.
LEMMA RemoveMacControl ==
  ASSUME Control, aborted = "no", NEW m \in Owners, RemoveMac(m)
  PROVE  Control'
<1> USE SbridgeAssumption DEF Control, RemoveMac, At, Begin, tunVars, listVars, brVars,
        Ifs, Routes, Owners
<1>1. ObjTyped'
  BY DEF ObjTyped
<1>2. Progress'
  BY DEF ObjTyped, Progress, Booked, Bare, BridgeOf, RouteIf, RouteOf
<1>3. Booked'
  BY DEF ObjTyped, Progress, Booked, Halfway, Bare, BridgeOf, RouteIf, RouteOf
<1>4. Counted'
  BY FS_CardinalityType, FS_AddElement, FS_RemoveElement DEF ObjTyped, Progress, Booked,
     Halfway, Counted, Classed
<1>5. ForwardsSet'
  BY DEF ObjTyped, Progress, ForwardsSet, Rules, ForwardRule
<1> QED BY <1>1, <1>2, <1>3, <1>4, <1>5

\* lsdn_sbridge_init keeps the books.
LEMMA SbridgeInitControl ==
  ASSUME Control, aborted = "no", SbridgeInit
  PROVE  Control'
<1> USE SbridgeAssumption DEF Control, SbridgeInit, At, Goto, tunVars, listVars, brVars,
        Ifs, Routes, Owners
<1>1. ObjTyped'
  BY DEF ObjTyped, InitFailed
<1>2. Progress'
  BY DEF ObjTyped, Progress, Booked, Bare, BridgeOf, RouteIf, RouteOf, InitFailed
<1>3. Booked'
  BY DEF ObjTyped, Progress, Booked, Halfway, Bare, BridgeOf, RouteIf, RouteOf, InitFailed
<1>4. Counted'
  <2>1. obj \in Nets \ dummies
    BY DEF ObjTyped, Progress
  <2>2. /\ Cardinality(dummies) \in Nat
        /\ IsFiniteSet(dummies \cup {obj})
        /\ Cardinality(dummies \cup {obj}) = Cardinality(dummies) + 1
    BY <2>1, FS_CardinalityType, FS_AddElement DEF Counted
  <2>3. \A i \in Ifs : Classed(i)' = Classed(i)
    BY DEF Classed, InitFailed
  <2> QED BY <2>1, <2>2, <2>3 DEF Counted, InitFailed
<1>5. ForwardsSet'
  BY DEF ObjTyped, Progress, ForwardsSet, Rules, ForwardRule, InitFailed
<1> QED BY <1>1, <1>2, <1>3, <1>4, <1>5

\* The rule of lsdn_sbridge_add_if that leads to the broadcast chain keeps the books.
LEMMA AddIfMatchControl ==
  ASSUME Control, aborted = "no", AddIfMatch
  PROVE  Control'
<1> USE SbridgeAssumption DEF Control, AddIfMatch, At, Goto, Return, listVars, Ifs,
        Routes, Owners
<1>1. ObjTyped'
  BY DEF ObjTyped
<1>2. Progress'
  BY DEF ObjTyped, Progress, Booked, Bare, BridgeOf, RouteIf, RouteOf
<1>3. Booked'
  BY DEF ObjTyped, Progress, Booked, Halfway, Bare, BridgeOf, RouteIf, RouteOf
<1>4. Counted'
  BY FS_CardinalityType, FS_AddElement, FS_RemoveElement DEF ObjTyped, Progress, Booked,
     Halfway, Counted, Classed
<1>5. ForwardsSet'
  BY DEF ObjTyped, Progress, ForwardsSet, Rules, ForwardRule
<1> QED BY <1>1, <1>2, <1>3, <1>4, <1>5

\* The rule of lsdn_sbridge_add_if for the other packets keeps the books.
LEMMA AddIfFallbackControl ==
  ASSUME Control, aborted = "no", AddIfFallback
  PROVE  Control'
<1> USE SbridgeAssumption DEF Control, AddIfFallback, At, Goto, tunVars, listVars,
        brVars, Ifs, Routes, Owners
<1>1. ObjTyped'
  BY DEF ObjTyped
<1>2. Progress'
  BY DEF ObjTyped, Progress, Booked, Bare, BridgeOf, RouteIf, RouteOf
<1>3. Booked'
  BY DEF ObjTyped, Progress, Booked, Halfway, Bare, BridgeOf, RouteIf, RouteOf
<1>4. Counted'
  BY FS_CardinalityType, FS_AddElement, FS_RemoveElement DEF ObjTyped, Progress, Booked,
     Halfway, Counted, Classed
<1>5. ForwardsSet'
  BY DEF ObjTyped, Progress, ForwardsSet, Rules, ForwardRule
<1> QED BY <1>1, <1>2, <1>3, <1>4, <1>5

\* The end of lsdn_sbridge_add_if keeps the books.
LEMMA AddIfEndControl ==
  ASSUME Control, aborted = "no", AddIfEnd
  PROVE  Control'
<1> USE SbridgeAssumption DEF Control, AddIfEnd, At, Goto, Return, tunVars, brVars, Ifs,
        Routes, Owners
<1>1. ObjTyped'
  BY DEF ObjTyped
<1>2. Progress'
  BY DEF ObjTyped, Progress, Booked, Bare, BridgeOf, RouteIf, RouteOf
<1>3. Booked'
  BY DEF ObjTyped, Progress, Booked, Halfway, Bare, BridgeOf, RouteIf, RouteOf
<1>4. Counted'
  BY FS_CardinalityType, FS_AddElement, FS_RemoveElement DEF ObjTyped, Progress, Booked,
     Halfway, Counted, Classed
<1>5. ForwardsSet'
  BY DEF ObjTyped, Progress, ForwardsSet, Rules, ForwardRule
<1> QED BY <1>1, <1>2, <1>3, <1>4, <1>5

\* The end of lsdn_sbridge_add_route keeps the books.
LEMMA AddRouteEndControl ==
  ASSUME Control, aborted = "no", AddRouteEnd
  PROVE  Control'
<1> USE SbridgeAssumption DEF Control, AddRouteEnd, At, Goto, Return, tunVars, brVars,
        Ifs, Routes, Owners
<1>1. ObjTyped'
  BY DEF ObjTyped
<1>2. Progress'
  BY DEF ObjTyped, Progress, Booked, Bare, BridgeOf, RouteIf, RouteOf
<1>3. Booked'
  BY DEF ObjTyped, Progress, Booked, Halfway, Bare, BridgeOf, RouteIf, RouteOf
<1>4. Counted'
  BY FS_CardinalityType, FS_AddElement, FS_RemoveElement DEF ObjTyped, Progress, Booked,
     Halfway, Counted, Classed
<1>5. ForwardsSet'
  BY DEF ObjTyped, Progress, ForwardsSet, Rules, ForwardRule
<1> QED BY <1>1, <1>2, <1>3, <1>4, <1>5

\* lsdn_sbridge_add_mac keeps the books.
LEMMA AddMacControl ==
  ASSUME Control, aborted = "no", AddMac
  PROVE  Control'
<1> USE SbridgeAssumption DEF Control, AddMac, At, Goto, Return, tunVars, brVars, Ifs,
        Routes, Owners
<1>1. ObjTyped'
  BY DEF ObjTyped
<1>2. Progress'
  BY DEF ObjTyped, Progress, Booked, Bare, BridgeOf, RouteIf, RouteOf
<1>3. Booked'
  BY DEF ObjTyped, Progress, Booked, Halfway, Bare, BridgeOf, RouteIf, RouteOf
<1>4. Counted'
  BY FS_CardinalityType, FS_AddElement, FS_RemoveElement DEF ObjTyped, Progress, Booked,
     Halfway, Counted, Classed
<1>5. ForwardsSet'
  BY DEF ObjTyped, Progress, ForwardsSet, Rules, ForwardRule
<1> QED BY <1>1, <1>2, <1>3, <1>4, <1>5

\* lsdn_sbridge_remove_mac keeps the books.
LEMMA UnMacControl ==
  ASSUME Control, aborted = "no", UnMac
  PROVE  Control'
<1> USE SbridgeAssumption DEF Control, UnMac, At, Goto, Return, tunVars, brVars, Ifs,
        Routes, Owners
<1>1. ObjTyped'
  BY DEF ObjTyped
<1>2. Progress'
  BY DEF ObjTyped, Progress, Booked, Bare, BridgeOf, RouteIf, RouteOf
<1>3. Booked'
  BY DEF ObjTyped, Progress, Booked, Halfway, Bare, BridgeOf, RouteIf, RouteOf
<1>4. Counted'
  BY FS_CardinalityType, FS_AddElement, FS_RemoveElement DEF ObjTyped, Progress, Booked,
     Halfway, Counted, Classed
<1>5. ForwardsSet'
  BY DEF ObjTyped, Progress, ForwardsSet, Rules, ForwardRule
<1> QED BY <1>1, <1>2, <1>3, <1>4, <1>5

\* The end of lsdn_sbridge_remove_route keeps the books.
LEMMA UnRouteEndControl ==
  ASSUME Control, aborted = "no", UnRouteEnd
  PROVE  Control'
<1> USE SbridgeAssumption DEF Control, UnRouteEnd, At, Goto, Return, tunVars, brVars,
        Ifs, Routes, Owners
<1>1. ObjTyped'
  BY DEF ObjTyped
<1>2. Progress'
  BY DEF ObjTyped, Progress, Booked, Bare, BridgeOf, RouteIf, RouteOf
<1>3. Booked'
  BY DEF ObjTyped, Progress, Booked, Halfway, Bare, BridgeOf, RouteIf, RouteOf
<1>4. Counted'
  BY FS_CardinalityType, FS_AddElement, FS_RemoveElement DEF ObjTyped, Progress, Booked,
     Halfway, Counted, Classed
<1>5. ForwardsSet'
  BY DEF ObjTyped, Progress, ForwardsSet, Rules, ForwardRule
<1> QED BY <1>1, <1>2, <1>3, <1>4, <1>5

\* The end of lsdn_sbridge_remove_if keeps the books.
LEMMA UnIfEndControl ==
  ASSUME Control, aborted = "no", UnIfEnd
  PROVE  Control'
<1> USE SbridgeAssumption DEF Control, UnIfEnd, At, Goto, Return, tunVars, Ifs, Routes,
        Owners
<1>1. ObjTyped'
  BY DEF ObjTyped
<1>2. Progress'
  BY DEF ObjTyped, Progress, Booked, Bare, BridgeOf, RouteIf, RouteOf
<1>3. Booked'
  BY DEF ObjTyped, Progress, Booked, Halfway, Bare, BridgeOf, RouteIf, RouteOf
<1>4. Counted'
  BY FS_CardinalityType, FS_AddElement, FS_RemoveElement DEF ObjTyped, Progress, Booked,
     Halfway, Counted, Classed
<1>5. ForwardsSet'
  BY DEF ObjTyped, Progress, ForwardsSet, Rules, ForwardRule
<1> QED BY <1>1, <1>2, <1>3, <1>4, <1>5

\* lsdn_sbridge_free keeps the books.
LEMMA SbridgeFreeControl ==
  ASSUME Control, aborted = "no", SbridgeFree
  PROVE  Control'
<1> USE SbridgeAssumption DEF Control, SbridgeFree, At, Goto, tunVars, listVars, brVars,
        Ifs, Routes, Owners
<1>1. ObjTyped'
  BY DEF ObjTyped
<1>2. Progress'
  BY DEF ObjTyped, Progress, Booked, Bare, BridgeOf, RouteIf, RouteOf
<1>3. Booked'
  BY DEF ObjTyped, Progress, Booked, Halfway, Bare, BridgeOf, RouteIf, RouteOf
<1>4. Counted'
  <2>1. obj \in dummies
    BY DEF Progress
  <2>2. /\ Cardinality(dummies) \in Nat
        /\ IsFiniteSet(dummies \ {obj})
        /\ Cardinality(dummies \ {obj}) = Cardinality(dummies) - 1
    BY <2>1, FS_CardinalityType, FS_RemoveElement DEF Counted
  <2>3. \A i \in Ifs : Classed(i)' = Classed(i)
    BY DEF Classed
  <2> QED BY <2>1, <2>2, <2>3 DEF Counted
<1>5. ForwardsSet'
  BY DEF ObjTyped, Progress, ForwardsSet, Rules, ForwardRule
<1> QED BY <1>1, <1>2, <1>3, <1>4, <1>5

\* vxlan_release_stunnel keeps the books.
LEMMA ReleaseStunnelControl ==
  ASSUME Control, aborted = "no", ReleaseStunnel
  PROVE  Control'
<1> USE SbridgeAssumption DEF Control, ReleaseStunnel, At, Return, listVars, Ifs,
        Routes, Owners
<1>1. ObjTyped'
  BY DEF ObjTyped
<1>2. Progress'
  BY DEF ObjTyped, Progress, Booked, Bare, BridgeOf, RouteIf, RouteOf
<1>3. Booked'
  BY DEF ObjTyped, Progress, Booked, Halfway, Bare, BridgeOf, RouteIf, RouteOf
<1>4. Counted'
  BY FS_CardinalityType, FS_AddElement, FS_RemoveElement DEF ObjTyped, Progress, Booked,
     Halfway, Counted, Classed
<1>5. ForwardsSet'
  BY DEF ObjTyped, Progress, ForwardsSet, Rules, ForwardRule
<1> QED BY <1>1, <1>2, <1>3, <1>4, <1>5

\* A broadcast rule for a new interface keeps the books.
LEMMA PullControl ==
  ASSUME Control, aborted = "no", NEW r \in Routes, Pull(r)
  PROVE  Control'
<1> USE SbridgeAssumption DEF Control, Pull, At, Goto, tunVars, listVars, Ifs, Routes,
        Owners
<1>1. ObjTyped'
  BY DEF ObjTyped
<1>2. Progress'
  BY DEF ObjTyped, Progress, Booked, Bare, BridgeOf, RouteIf, RouteOf
<1>3. Booked'
  BY DEF ObjTyped, Progress, Booked, Halfway, Bare, BridgeOf, RouteIf, RouteOf
<1>4. Counted'
  BY FS_CardinalityType, FS_AddElement, FS_RemoveElement DEF ObjTyped, Progress, Booked,
     Halfway, Counted, Classed
<1>5. ForwardsSet'
  BY DEF ObjTyped, Progress, ForwardsSet, Rules, ForwardRule
<1> QED BY <1>1, <1>2, <1>3, <1>4, <1>5

\* The flush of one broadcast rule of an interface keeps the books.
LEMMA UnIfControl ==
  ASSUME Control, aborted = "no", NEW r \in Routes, UnIf(r)
  PROVE  Control'
<1> USE SbridgeAssumption DEF Control, UnIf, At, Goto, tunVars, listVars, Ifs, Routes,
        Owners
<1>1. ObjTyped'
  BY DEF ObjTyped
<1>2. Progress'
  BY DEF ObjTyped, Progress, Booked, Bare, BridgeOf, RouteIf, RouteOf
<1>3. Booked'
  BY DEF ObjTyped, Progress, Booked, Halfway, Bare, BridgeOf, RouteIf, RouteOf
<1>4. Counted'
  BY FS_CardinalityType, FS_AddElement, FS_RemoveElement DEF ObjTyped, Progress, Booked,
     Halfway, Counted, Classed
<1>5. ForwardsSet'
  BY DEF ObjTyped, Progress, ForwardsSet, Rules, ForwardRule
<1> QED BY <1>1, <1>2, <1>3, <1>4, <1>5

\* A broadcast rule for a new route keeps the books.
LEMMA PushControl ==
  ASSUME Control, aborted = "no", NEW i \in Ifs, Push(i)
  PROVE  Control'
<1> USE SbridgeAssumption DEF Control, Push, At, Goto, tunVars, listVars, Ifs, Routes,
        Owners
<1>1. ObjTyped'
  BY DEF ObjTyped
<1>2. Progress'
  BY DEF ObjTyped, Progress, Booked, Bare, BridgeOf, RouteIf, RouteOf
<1>3. Booked'
  BY DEF ObjTyped, Progress, Booked, Halfway, Bare, BridgeOf, RouteIf, RouteOf
<1>4. Counted'
  BY FS_CardinalityType, FS_AddElement, FS_RemoveElement DEF ObjTyped, Progress, Booked,
     Halfway, Counted, Classed
<1>5. ForwardsSet'
  BY DEF ObjTyped, Progress, ForwardsSet, Rules, ForwardRule
<1> QED BY <1>1, <1>2, <1>3, <1>4, <1>5

\* The flush of one broadcast rule to a route keeps the books.
LEMMA UnRouteControl ==
  ASSUME Control, aborted = "no", NEW i \in Ifs, UnRoute(i)
  PROVE  Control'
<1> USE SbridgeAssumption DEF Control, UnRoute, At, Goto, tunVars, listVars, Ifs,
        Routes, Owners
<1>1. ObjTyped'
  BY DEF ObjTyped
<1>2. Progress'
  BY DEF ObjTyped, Progress, Booked, Bare, BridgeOf, RouteIf, RouteOf
<1>3. Booked'
  BY DEF ObjTyped, Progress, Booked, Halfway, Bare, BridgeOf, RouteIf, RouteOf
<1>4. Counted'
  BY FS_CardinalityType, FS_AddElement, FS_RemoveElement DEF ObjTyped, Progress, Booked,
     Halfway, Counted, Classed
<1>5. ForwardsSet'
  BY DEF ObjTyped, Progress, ForwardsSet, Rules, ForwardRule
<1> QED BY <1>1, <1>2, <1>3, <1>4, <1>5

(***************************************************************************)
(* The kernel floods as the lists say: steps that touch neither.           *)
(***************************************************************************)

\* Lists hold routes.
LEMMA ActionsTyped ==
  ASSUME ListsSound
  PROVE  \A i \in Ifs : Actions(broadcast[i]) \subseteq Routes
BY ActionsAre DEF ListsSound, IsBroadcast

\* create_pa as far as the tunnel keeps the floods as the lists say.
LEMMA CreatePaFlooding ==
  ASSUME Control, Flooding, aborted = "no", NEW n \in Nets, CreatePa(n)
  PROVE  Flooding'
<1> USE SbridgeAssumption DEF Control, Flooding, CreatePa, At, Return, tunVars,
        listVars, brVars, Ifs, Routes, Owners
<1>1. ListsSound'
  BY DEF ListsSound
<1>2. ChainsApart'
  <2>1. \A i \in Ifs : Classed(i)' = Classed(i)
    BY DEF Classed
  <2>2. CASE refcount # 0 \/ next_chain' = next_chain
    BY <2>1, <2>2 DEF ChainsApart
  <2>3. CASE refcount = 0 /\ next_chain' = 1
    <3>1. dummies = {}
      BY <2>3, FS_EmptySet, FS_CardinalityType DEF Counted
    <3>2. \A i \in Nets : ~Classed(i)
      BY <3>1 DEF Classed, Booked
    <3> QED BY <2>1, <2>3, <3>2 DEF ChainsApart
  <2> QED BY <2>2, <2>3
<1>3. InKernel'
  BY DEF InKernel, FiltersOf, Place
<1>4. LoopTyped'
  BY DEF LoopTyped, FloodsSet, Joined, Flooded, ObjTyped, Progress, Booked, IfsOf,
     Pushed, Pulled, FloodingTo, BridgeOf, RouteIf
<1>5. FloodsSet'
  <2> SUFFICES ASSUME NEW j \in Ifs, NEW s \in Routes
               PROVE  Flooded(j, s)' = Flooded(j, s)
    BY DEF FloodsSet
  <2> QED BY DEF FloodsSet, LoopTyped, Joined, Flooded, ObjTyped, Progress, Booked,
             IfsOf, Pushed, Pulled, FloodingTo, BridgeOf, RouteIf
<1> QED BY <1>1, <1>2, <1>3, <1>4, <1>5

\* The start of destroy_pa keeps the floods as the lists say.
LEMMA DestroyPaFlooding ==
  ASSUME Control, Flooding, aborted = "no", NEW n \in Nets, DestroyPa(n)
  PROVE  Flooding'
<1> USE SbridgeAssumption DEF Control, Flooding, DestroyPa, At, Begin, tunVars,
        listVars, brVars, Ifs, Routes, Owners
<1>1. ListsSound'
  BY DEF ListsSound
<1>2. ChainsApart'
  BY DEF ChainsApart, Classed, ObjTyped, Progress
<1>3. InKernel'
  BY DEF InKernel, FiltersOf, Place
<1>4. LoopTyped'
  <2>1. n \in Ifs => Actions(broadcast[n]) \subseteq {r \in Routes : Joined(n, r)}
    BY ActionsTyped DEF FloodsSet, Flooded
  <2> QED BY <2>1 DEF LoopTyped, ObjTyped, Joined
<1>5. FloodsSet'
  <2> SUFFICES ASSUME NEW j \in Ifs, NEW s \in Routes
               PROVE  Flooded(j, s)' = Flooded(j, s)
    BY DEF FloodsSet
  <2> QED BY DEF FloodsSet, LoopTyped, Joined, Flooded, ObjTyped, Progress, Booked,
             IfsOf, Pushed, Pulled, FloodingTo, BridgeOf, RouteIf
<1> QED BY <1>1, <1>2, <1>3, <1>4, <1>5

\* The start of add_virt keeps the floods as the lists say.
LEMMA AddVirtFlooding ==
  ASSUME Control, Flooding, aborted = "no", NEW v \in Virts, AddVirt(v)
  PROVE  Flooding'
<1> USE SbridgeAssumption DEF Control, Flooding, AddVirt, At, Begin, Return, tunVars,
        listVars, brVars, Ifs, Routes, Owners
<1>1. ListsSound'
  BY DEF ListsSound
<1>2. ChainsApart'
  BY DEF ChainsApart, Classed, ObjTyped, Progress
<1>3. InKernel'
  BY DEF InKernel, FiltersOf, Place
<1>4. LoopTyped'
  BY DEF LoopTyped, FloodsSet, Joined, Flooded, ObjTyped, Progress, Booked, IfsOf,
     Pushed, Pulled, FloodingTo, BridgeOf, RouteIf
<1>5. FloodsSet'
  <2> SUFFICES ASSUME NEW j \in Ifs, NEW s \in Routes
               PROVE  Flooded(j, s)' = Flooded(j, s)
    BY DEF FloodsSet
  <2> QED BY DEF FloodsSet, LoopTyped, Joined, Flooded, ObjTyped, Progress, Booked,
             IfsOf, Pushed, Pulled, FloodingTo, BridgeOf, RouteIf
<1> QED BY <1>1, <1>2, <1>3, <1>4, <1>5

\* The start of add_remote_pa keeps the floods as the lists say.
LEMMA AddRemotePaFlooding ==
  ASSUME Control, Flooding, aborted = "no", NEW r \in Rpas, AddRemotePa(r)
  PROVE  Flooding'
<1> USE SbridgeAssumption DEF Control, Flooding, AddRemotePa, At, Begin, tunVars,
        listVars, brVars, Ifs, Routes, Owners
<1>1. ListsSound'
  BY DEF ListsSound
<1>2. ChainsApart'
  BY DEF ChainsApart, Classed, ObjTyped, Progress
<1>3. InKernel'
  BY DEF InKernel, FiltersOf, Place
<1>4. LoopTyped'
  BY DEF LoopTyped, FloodsSet, Joined, Flooded, ObjTyped, Progress, Booked, IfsOf,
     Pushed, Pulled, FloodingTo, BridgeOf, RouteIf
<1>5. FloodsSet'
  <2> SUFFICES ASSUME NEW j \in Ifs, NEW s \in Routes
               PROVE  Flooded(j, s)' = Flooded(j, s)
    BY DEF FloodsSet
  <2> QED BY DEF FloodsSet, LoopTyped, Joined, Flooded, ObjTyped, Progress, Booked,
             IfsOf, Pushed, Pulled, FloodingTo, BridgeOf, RouteIf
<1> QED BY <1>1, <1>2, <1>3, <1>4, <1>5

\* The start of remove_remote_pa keeps the floods as the lists say.
LEMMA RemoveRemotePaFlooding ==
  ASSUME Control, Flooding, aborted = "no", NEW r \in Rpas, RemoveRemotePa(r)
  PROVE  Flooding'
<1> USE SbridgeAssumption DEF Control, Flooding, RemoveRemotePa, At, Begin, tunVars,
        listVars, brVars, Ifs, Routes, Owners
<1>1. ListsSound'
  BY DEF ListsSound
<1>2. ChainsApart'
  BY DEF ChainsApart, Classed, ObjTyped, Progress
<1>3. InKernel'
  BY DEF InKernel, FiltersOf, Place
<1>0. r \in Routes => FloodingTo(r) = {i \in Ifs : Flooded(i, r)}
  BY DEF FloodsSet, FloodingTo
<1>4. LoopTyped'
  BY <1>0 DEF LoopTyped, Flooded, Joined, ObjTyped
<1>5. FloodsSet'
  <2> SUFFICES ASSUME NEW j \in Ifs, NEW s \in Routes
               PROVE  Flooded(j, s)' = Flooded(j, s)
    BY DEF FloodsSet
  <2> QED BY <1>0 DEF Flooded, Joined, ObjTyped, Progress, Booked, RouteOf
<1> QED BY <1>1, <1>2, <1>3, <1>4, <1>5

\* The start of add_remote_virt keeps the floods as the lists say.
LEMMA AddRemoteVirtFlooding ==
  ASSUME Control, Flooding, aborted = "no", NEW w \in Rvirts, AddRemoteVirt(w)
  PROVE  Flooding'
<1> USE SbridgeAssumption DEF Control, Flooding, AddRemoteVirt, At, Begin, tunVars,
        listVars, brVars, Ifs, Routes, Owners
<1>1. ListsSound'
  BY DEF ListsSound
<1>2. ChainsApart'
  BY DEF ChainsApart, Classed, ObjTyped, Progress
<1>3. InKernel'
  BY DEF InKernel, FiltersOf, Place
<1>4. LoopTyped'
  BY DEF LoopTyped, FloodsSet, Joined, Flooded, ObjTyped, Progress, Booked, IfsOf,
     Pushed, Pulled, FloodingTo, BridgeOf, RouteIf
<1>5. FloodsSet'
  <2> SUFFICES ASSUME NEW j \in Ifs, NEW s \in Routes
               PROVE  Flooded(j, s)' = Flooded(j, s)
    BY DEF FloodsSet
  <2> QED BY DEF FloodsSet, LoopTyped, Joined, Flooded, ObjTyped, Progress, Booked,
             IfsOf, Pushed, Pulled, FloodingTo, BridgeOf, RouteIf
<1> QED BY <1>1, <1>2, <1>3, <1>4, <1>5

\* The start of remove_virt and remove_remote_virt keeps the floods as the lists say.
LEMMA RemoveMacFlooding ==
  ASSUME Control, Flooding, aborted = "no", NEW m \in Owners, RemoveMac(m)
  PROVE  Flooding'
<1> USE SbridgeAssumption DEF Control, Flooding, RemoveMac, At, Begin, tunVars,
        listVars, brVars, Ifs, Routes, Owners
<1>1. ListsSound'
  BY DEF ListsSound
<1>2. ChainsApart'
  BY DEF ChainsApart, Classed, ObjTyped, Progress
<1>3. InKernel'
  BY DEF InKernel, FiltersOf, Place
<1>4. LoopTyped'
  BY DEF LoopTyped, FloodsSet, Joined, Flooded, ObjTyped, Progress, Booked, IfsOf,
     Pushed, Pulled, FloodingTo, BridgeOf, RouteIf
<1>5. FloodsSet'
  <2> SUFFICES ASSUME NEW j \in Ifs, NEW s \in Routes
               PROVE  Flooded(j, s)' = Flooded(j, s)
    BY DEF FloodsSet
  <2> QED BY DEF FloodsSet, LoopTyped, Joined, Flooded, ObjTyped, Progress, Booked,
             IfsOf, Pushed, Pulled, FloodingTo, BridgeOf, RouteIf
<1> QED BY <1>1, <1>2, <1>3, <1>4, <1>5

\* lsdn_sbridge_init keeps the floods as the lists say.
LEMMA SbridgeInitFlooding ==
  ASSUME Control, Flooding, aborted = "no", SbridgeInit
  PROVE  Flooding'
<1> USE SbridgeAssumption DEF Control, Flooding, SbridgeInit, At, Goto, tunVars,
        listVars, brVars, Ifs, Routes, Owners, InitFailed
<1>1. ListsSound'
  BY DEF ListsSound
<1>2. ChainsApart'
  BY DEF ChainsApart, Classed, ObjTyped, Progress
<1>3. InKernel'
  BY DEF InKernel, FiltersOf, Place
<1>4. LoopTyped'
  BY DEF LoopTyped, FloodsSet, Joined, Flooded, ObjTyped, Progress, Booked, IfsOf,
     Pushed, Pulled, FloodingTo, BridgeOf, RouteIf
<1>5. FloodsSet'
  <2> SUFFICES ASSUME NEW j \in Ifs, NEW s \in Routes
               PROVE  Flooded(j, s)' = Flooded(j, s)
    BY DEF FloodsSet
  <2> QED BY DEF FloodsSet, LoopTyped, Joined, Flooded, ObjTyped, Progress, Booked,
             IfsOf, Pushed, Pulled, FloodingTo, BridgeOf, RouteIf
<1> QED BY <1>1, <1>2, <1>3, <1>4, <1>5

\* The rule of lsdn_sbridge_add_if for the other packets keeps the floods as the lists say.
LEMMA AddIfFallbackFlooding ==
  ASSUME Control, Flooding, aborted = "no", AddIfFallback
  PROVE  Flooding'
<1> USE SbridgeAssumption DEF Control, Flooding, AddIfFallback, At, Goto, tunVars,
        listVars, brVars, Ifs, Routes, Owners
<1>1. ListsSound'
  BY DEF ListsSound
<1>2. ChainsApart'
  BY DEF ChainsApart, Classed, ObjTyped, Progress
<1>3. InKernel'
  BY DEF InKernel, FiltersOf, Place
<1>4. LoopTyped'
  BY DEF LoopTyped, FloodsSet, Joined, Flooded, ObjTyped, Progress, Booked, IfsOf,
     Pushed, Pulled, FloodingTo, BridgeOf, RouteIf
<1>5. FloodsSet'
  <2> SUFFICES ASSUME NEW j \in Ifs, NEW s \in Routes
               PROVE  Flooded(j, s)' = Flooded(j, s)
    BY DEF FloodsSet
  <2> QED BY DEF FloodsSet, LoopTyped, Joined, Flooded, ObjTyped, Progress, Booked,
             IfsOf, Pushed, Pulled, FloodingTo, BridgeOf, RouteIf
<1> QED BY <1>1, <1>2, <1>3, <1>4, <1>5

\* The end of lsdn_sbridge_add_if keeps the floods as the lists say.
LEMMA AddIfEndFlooding ==
  ASSUME Control, Flooding, aborted = "no", AddIfEnd
  PROVE  Flooding'
<1> USE SbridgeAssumption DEF Control, Flooding, AddIfEnd, At, Goto, Return, tunVars,
        brVars, Ifs, Routes, Owners
<1>1. ListsSound'
  BY DEF ListsSound
<1>2. ChainsApart'
  BY DEF ChainsApart, Classed, ObjTyped, Progress
<1>3. InKernel'
  BY DEF InKernel, FiltersOf, Place
<1>4. LoopTyped'
  BY DEF LoopTyped, FloodsSet, Joined, Flooded, ObjTyped, Progress, Booked, IfsOf,
     Pushed, Pulled, FloodingTo, BridgeOf, RouteIf
<1>5. FloodsSet'
  <2> SUFFICES ASSUME NEW j \in Ifs, NEW s \in Routes
               PROVE  Flooded(j, s)' = Flooded(j, s)
    BY DEF FloodsSet
  <2> QED BY DEF FloodsSet, LoopTyped, Joined, Flooded, ObjTyped, Progress, Booked,
             IfsOf, Pushed, Pulled, FloodingTo, BridgeOf, RouteIf
<1> QED BY <1>1, <1>2, <1>3, <1>4, <1>5

\* The end of lsdn_sbridge_add_route keeps the floods as the lists say.
LEMMA AddRouteEndFlooding ==
  ASSUME Control, Flooding, aborted = "no", AddRouteEnd
  PROVE  Flooding'
<1> USE SbridgeAssumption DEF Control, Flooding, AddRouteEnd, At, Goto, Return, tunVars,
        brVars, Ifs, Routes, Owners
<1>1. ListsSound'
  BY DEF ListsSound
<1>2. ChainsApart'
  BY DEF ChainsApart, Classed, ObjTyped, Progress
<1>3. InKernel'
  BY DEF InKernel, FiltersOf, Place
<1>4. LoopTyped'
  BY DEF LoopTyped, FloodsSet, Joined, Flooded, ObjTyped, Progress, Booked, IfsOf,
     Pushed, Pulled, FloodingTo, BridgeOf, RouteIf
<1>5. FloodsSet'
  <2> SUFFICES ASSUME NEW j \in Ifs, NEW s \in Routes
               PROVE  Flooded(j, s)' = Flooded(j, s)
    BY DEF FloodsSet
  <2> QED BY DEF FloodsSet, LoopTyped, Joined, Flooded, ObjTyped, Progress, Booked,
             IfsOf, Pushed, Pulled, FloodingTo, BridgeOf, RouteIf
<1> QED BY <1>1, <1>2, <1>3, <1>4, <1>5

\* lsdn_sbridge_add_mac keeps the floods as the lists say.
LEMMA AddMacFlooding ==
  ASSUME Control, Flooding, aborted = "no", AddMac
  PROVE  Flooding'
<1> USE SbridgeAssumption DEF Control, Flooding, AddMac, At, Goto, Return, tunVars,
        brVars, Ifs, Routes, Owners
<1>1. ListsSound'
  BY DEF ListsSound
<1>2. ChainsApart'
  BY DEF ChainsApart, Classed, ObjTyped, Progress
<1>3. InKernel'
  BY DEF InKernel, FiltersOf, Place
<1>4. LoopTyped'
  BY DEF LoopTyped, FloodsSet, Joined, Flooded, ObjTyped, Progress, Booked, IfsOf,
     Pushed, Pulled, FloodingTo, BridgeOf, RouteIf
<1>5. FloodsSet'
  <2> SUFFICES ASSUME NEW j \in Ifs, NEW s \in Routes
               PROVE  Flooded(j, s)' = Flooded(j, s)
    BY DEF FloodsSet
  <2> QED BY DEF FloodsSet, LoopTyped, Joined, Flooded, ObjTyped, Progress, Booked,
             IfsOf, Pushed, Pulled, FloodingTo, BridgeOf, RouteIf
<1> QED BY <1>1, <1>2, <1>3, <1>4, <1>5

\* lsdn_sbridge_remove_mac keeps the floods as the lists say.
LEMMA UnMacFlooding ==
  ASSUME Control, Flooding, aborted = "no", UnMac
  PROVE  Flooding'
<1> USE SbridgeAssumption DEF Control, Flooding, UnMac, At, Goto, Return, tunVars,
        brVars, Ifs, Routes, Owners
<1>1. ListsSound'
  BY DEF ListsSound
<1>2. ChainsApart'
  BY DEF ChainsApart, Classed, ObjTyped, Progress
<1>3. InKernel'
  BY DEF InKernel, FiltersOf, Place
<1>0. obj \in Routes => FloodingTo(obj) = {i \in Ifs : Flooded(i, obj)}
  BY DEF FloodsSet, FloodingTo
<1>4. LoopTyped'
  BY <1>0 DEF LoopTyped, Flooded, Joined, ObjTyped
<1>5. FloodsSet'
  <2> SUFFICES ASSUME NEW j \in Ifs, NEW s \in Routes
               PROVE  Flooded(j, s)' = Flooded(j, s)
    BY DEF FloodsSet
  <2> QED BY <1>0 DEF Flooded, Joined, ObjTyped, Progress, Booked, RouteOf
<1> QED BY <1>1, <1>2, <1>3, <1>4, <1>5

\* The end of lsdn_sbridge_remove_route keeps the floods as the lists say.
LEMMA UnRouteEndFlooding ==
  ASSUME Control, Flooding, aborted = "no", UnRouteEnd
  PROVE  Flooding'
<1> USE SbridgeAssumption DEF Control, Flooding, UnRouteEnd, At, Goto, Return, tunVars,
        brVars, Ifs, Routes, Owners
<1>1. ListsSound'
  BY DEF ListsSound
<1>2. ChainsApart'
  BY DEF ChainsApart, Classed, ObjTyped, Progress
<1>3. InKernel'
  BY DEF InKernel, FiltersOf, Place
<1>4. LoopTyped'
  <2>1. obj \in Ifs => Actions(broadcast[obj]) \subseteq {r \in Routes : Joined(obj, r)}
    BY ActionsTyped DEF FloodsSet, Flooded
  <2> QED BY <2>1 DEF LoopTyped, ObjTyped, Joined
<1>5. FloodsSet'
  <2> SUFFICES ASSUME NEW j \in Ifs, NEW s \in Routes
               PROVE  Flooded(j, s)' = Flooded(j, s)
    BY DEF FloodsSet
  <2> QED BY DEF FloodsSet, LoopTyped, Joined, Flooded, ObjTyped, Progress, Booked,
             IfsOf, Pushed, Pulled, FloodingTo, BridgeOf, RouteIf
<1> QED BY <1>1, <1>2, <1>3, <1>4, <1>5

\* lsdn_sbridge_free keeps the floods as the lists say.
LEMMA SbridgeFreeFlooding ==
  ASSUME Control, Flooding, aborted = "no", SbridgeFree
  PROVE  Flooding'
<1> USE SbridgeAssumption DEF Control, Flooding, SbridgeFree, At, Goto, tunVars,
        listVars, brVars, Ifs, Routes, Owners
<1>1. ListsSound'
  BY DEF ListsSound
<1>2. ChainsApart'
  BY DEF ChainsApart, Classed, ObjTyped, Progress
<1>3. InKernel'
  BY DEF InKernel, FiltersOf, Place
<1>4. LoopTyped'
  BY DEF LoopTyped, FloodsSet, Joined, Flooded, ObjTyped, Progress, Booked, IfsOf,
     Pushed, Pulled, FloodingTo, BridgeOf, RouteIf
<1>5. FloodsSet'
  <2> SUFFICES ASSUME NEW j \in Ifs, NEW s \in Routes
               PROVE  Flooded(j, s)' = Flooded(j, s)
    BY DEF FloodsSet
  <2> QED BY DEF FloodsSet, LoopTyped, Joined, Flooded, ObjTyped, Progress, Booked,
             IfsOf, Pushed, Pulled, FloodingTo, BridgeOf, RouteIf
<1> QED BY <1>1, <1>2, <1>3, <1>4, <1>5

(***************************************************************************)
(* The kernel floods as the lists say: steps that change them.             *)
(***************************************************************************)

\* Two interfaces that lead packets to the same chain are one.
LEMMA SameChain ==
  ASSUME ChainsApart, NEW i \in Ifs, NEW j \in Ifs, Classed(i), Classed(j),
         Device(i) = Device(j), broadcast[i].chain = broadcast[j].chain
  PROVE  i = j
BY SbridgeAssumption DEF ChainsApart, Device, Ifs

\* An interface with filters is classified, and a filter has its priority.
LEMMA FiltersTyped ==
  ASSUME ListsSound, ChainsApart, NEW i \in Ifs, NEW f \in FiltersOf(i)
  PROVE  Classed(i) /\ f \in Filters /\ Accounted(f)
<1>1. broadcast[i] \in BroadcastLists /\ broadcast[i].filters \in Seq(Filters)
  BY DEF ListsSound, BroadcastLists
<1>2. PICK k \in 1..Len(broadcast[i].filters) : f = broadcast[i].filters[k]
  BY <1>1 DEF FiltersOf, ToSet
<1>3. f \in Filters
  BY <1>1, <1>2
<1>4. Accounted(f)
  BY <1>2 DEF ListsSound, IsBroadcast
<1>5. Classed(i)
  BY <1>2 DEF ChainsApart
<1> QED BY <1>3, <1>4, <1>5

\* Filters of a list have priorities of their own.
LEMMA PriosApart ==
  ASSUME NEW b, IsBroadcast(b), NEW f \in ToSet(b.filters), NEW g \in ToSet(b.filters),
         f.prio = g.prio
  PROVE  f = g
<1>1. b \in BroadcastLists
  BY DEF IsBroadcast
<1>2. PICK j \in 1..Len(b.filters), k \in 1..Len(b.filters) : f = b.filters[j] /\ g = b.filters[k]
  BY <1>1 DEF BroadcastLists, ToSet
<1> QED BY <1>2 DEF IsBroadcast

\* A flush after a change of one list brings the kernel up to date.
LEMMA FlushKeepsKernel ==
  ASSUME ListsSound, ChainsApart, InKernel, NEW i \in Ifs, Classed(i),
         NEW c, IsBroadcast(c), c.chain = broadcast[i].chain, KeepsPrios(broadcast[i], c),
         broadcast' = [broadcast EXCEPT ![i] = c], Flush(i)
  PROVE  InKernel'
<1> DEFINE F == ToSet(c.filters)
           K(f) == <<Device(i), c.chain, f.prio>>
           S == {K(f) : f \in F}
<1>1. broadcast'[i] = c /\ \A j \in Ifs : j # i => broadcast'[j] = broadcast[j]
  BY DEF ListsSound
<1>2. floods' = [k \in S \cup DOMAIN floods |->
                   IF k \in S THEN Flushed(FilterAt(i, k)) ELSE floods[k]]
  BY <1>1 DEF Flush, Key
<1>3. ASSUME NEW f \in F
      PROVE  K(f) \in S /\ FilterAt(i, K(f)) = f
  <2>1. \A g \in F : K(g) = K(f) => g = f
    BY PriosApart
  <2>2. FilterAt(i, K(f)) = CHOOSE g \in F : K(g) = K(f)
    BY <1>1 DEF FilterAt, Key
  <2>3. (CHOOSE g \in F : K(g) = K(f)) = f
    <3> HIDE DEF K, F
    <3> QED BY <2>1
  <2> QED BY <2>2, <2>3
<1>5. /\ floods' = [k \in DOMAIN floods' |-> floods'[k]]
      /\ DOMAIN floods' = S \cup DOMAIN floods
      /\ \A k \in S : floods'[k] = Flushed(FilterAt(i, k))
      /\ \A k \in DOMAIN floods \ S : floods'[k] = floods[k]
  <2> HIDE DEF S
  <2> QED BY <1>2
<1>6. \A j \in Ifs : FiltersOf(j)' = IF j = i THEN F ELSE FiltersOf(j)
  BY <1>1 DEF FiltersOf
<1>7. \A f : Place(i, f)' = K(f)
  BY <1>1 DEF Place
<1>8. \A j \in Ifs : j # i => \A f : Place(j, f)' = Place(j, f)
  BY <1>1 DEF Place
<1>9. ASSUME NEW k \in DOMAIN floods'
      PROVE  \E j \in Ifs : \E f \in FiltersOf(j)' : k = Place(j, f)'
  <2>1. CASE k \in S
    <3>1. PICK f \in F : k = K(f)
      BY <2>1
    <3> HIDE DEF K, S, F
    <3> QED BY <1>6, <1>7, <3>1
  <2>2. CASE k \notin S
    <3>0. PICK j \in Ifs : \E f \in FiltersOf(j) : k = Place(j, f)
      BY <1>5, <2>2 DEF InKernel
    <3>1. PICK f \in FiltersOf(j) : k = Place(j, f)
      BY <3>0
    <3>2. CASE j = i
      <4>1. PICK h \in F : h.prio = f.prio
        BY <3>1, <3>2 DEF KeepsPrios, FiltersOf
      <4>2. k = K(h)
        BY <3>1, <3>2, <4>1 DEF Place
      <4> QED BY <2>2, <4>2
    <3>3. CASE j # i
      <4> HIDE DEF K, S, F
      <4> QED BY <1>6, <1>8, <3>1, <3>3
    <3> QED BY <3>2, <3>3
  <2> QED BY <2>1, <2>2
<1>10. ASSUME NEW j \in Ifs, NEW f \in FiltersOf(j)'
       PROVE  Place(j, f)' \in DOMAIN floods' /\ floods'[Place(j, f)'] = Flushed(f)
  <2>1. CASE j = i
    <3>1. f \in F /\ Place(j, f)' = K(f)
      BY <1>6, <1>7, <2>1
    <3> HIDE DEF K, S, F
    <3> QED BY <1>3, <1>5, <3>1
  <2>2. CASE j # i
    <3>1. f \in FiltersOf(j) /\ Place(j, f)' = Place(j, f)
      BY <1>6, <1>8, <2>2
    <3>2. Place(j, f) \in DOMAIN floods /\ floods[Place(j, f)] = Flushed(f)
      BY <3>1 DEF InKernel
    <3>3. Place(j, f) \notin S
      <4> SUFFICES ASSUME NEW g \in F, Place(j, f) = K(g) PROVE FALSE
        OBVIOUS
      <4>1. Device(j) = Device(i) /\ broadcast[j].chain = broadcast[i].chain
        BY DEF Place
      <4>2. Classed(j)
        BY <3>1, FiltersTyped
      <4> QED BY <2>2, <4>1, <4>2, SameChain
    <3> HIDE DEF S
    <3> QED BY <1>5, <3>1, <3>2, <3>3
  <2> QED BY <2>1, <2>2
<1> QED BY <1>5, <1>9, <1>10 DEF InKernel

\* A list of an interface changes: lists stay sound and chains stay apart.
LEMMA ListChanges ==
  ASSUME ListsSound, ChainsApart, NEW i \in Ifs, Classed(i),
         NEW c, IsBroadcast(c), c.chain = broadcast[i].chain,
         broadcast' = [broadcast EXCEPT ![i] = c],
         next_chain' = next_chain, \A j \in Ifs : Classed(j)' = Classed(j)
  PROVE  /\ ListsSound' /\ ChainsApart'
         /\ broadcast'[i] = c /\ \A j \in Ifs : j # i => broadcast'[j] = broadcast[j]
<1>1. broadcast'[i] = c /\ \A j \in Ifs : j # i => broadcast'[j] = broadcast[j]
  BY DEF ListsSound
<1>2. ListsSound'
  <2>1. c \in BroadcastLists
    BY DEF IsBroadcast
  <2>2. \A j \in Ifs : IsBroadcast(broadcast'[j])
    BY <1>1 DEF ListsSound
  <2> QED BY <2>1, <2>2 DEF ListsSound
<1>3. \A j \in Ifs : broadcast'[j].chain = broadcast[j].chain
  BY <1>1
<1>4. ChainsApart'
  BY <1>1, <1>3 DEF ChainsApart, Ifs
<1> QED BY <1>1, <1>2, <1>4

\* if_br_make, when the kernel takes the filter.
LEMMA MakeUpdates ==
  ASSUME Flooding, NEW i \in Ifs, Classed(i), NEW r \in Routes, r \notin Actions(broadcast[i]),
         broadcast' = [broadcast EXCEPT ![i] = BroadcastAdd(@, r, Cost(r))], Flush(i),
         next_chain' = next_chain, \A j \in Ifs : Classed(j)' = Classed(j)
  PROVE  /\ ListsSound' /\ ChainsApart' /\ InKernel'
         /\ Actions(broadcast'[i]) = Actions(broadcast[i]) \cup {r}
         /\ \A j \in Ifs : j # i => broadcast'[j] = broadcast[j]
<1> DEFINE b == broadcast[i]
           c == BroadcastAdd(b, r, Cost(r))
<1>1. IsBroadcast(b) /\ ListsSound /\ ChainsApart /\ InKernel
  BY DEF Flooding, ListsSound
<1>2. /\ IsBroadcast(c) /\ c.chain = b.chain /\ Actions(c) = Actions(b) \cup {r}
      /\ KeepsPrios(b, c)
  <2> HIDE DEF b
  <2>1. r \in Routes \ Actions(b)
    BY DEF b
  <2> QED BY <1>1, <2>1, AddKeepsList
<1>3. broadcast' = [broadcast EXCEPT ![i] = c]
  OBVIOUS
<1> HIDE DEF c
<1>4. /\ ListsSound' /\ ChainsApart' /\ broadcast'[i] = c
      /\ \A j \in Ifs : j # i => broadcast'[j] = broadcast[j]
  BY <1>1, <1>2, <1>3, ListChanges
<1>5. InKernel'
  BY <1>1, <1>2, <1>3, FlushKeepsKernel
<1> QED BY <1>2, <1>4, <1>5

\* if_br_action_free
LEMMA FreeUpdates ==
  ASSUME Flooding, NEW i \in Ifs, Classed(i), NEW r \in Routes, r \in Actions(broadcast[i]),
         IfBrFree(i, r), next_chain' = next_chain, \A j \in Ifs : Classed(j)' = Classed(j)
  PROVE  /\ ListsSound' /\ ChainsApart' /\ InKernel'
         /\ Actions(broadcast'[i]) = Actions(broadcast[i]) \ {r}
         /\ \A j \in Ifs : j # i => broadcast'[j] = broadcast[j]
<1> DEFINE b == broadcast[i]
           c == BroadcastRemove(b, r, Cost(r))
<1>1. IsBroadcast(b) /\ ListsSound /\ ChainsApart /\ InKernel
  BY DEF Flooding, ListsSound
<1>2. /\ IsBroadcast(c) /\ c.chain = b.chain /\ Actions(c) = Actions(b) \ {r}
      /\ KeepsPrios(b, c)
  <2> HIDE DEF b
  <2>1. r \in Actions(b)
    BY DEF b
  <2> QED BY <1>1, <2>1, RemoveKeepsList
<1>3. broadcast' = [broadcast EXCEPT ![i] = c] /\ Flush(i)
  BY DEF IfBrFree
<1> HIDE DEF c
<1>4. /\ ListsSound' /\ ChainsApart' /\ broadcast'[i] = c
      /\ \A j \in Ifs : j # i => broadcast'[j] = broadcast[j]
  BY <1>1, <1>2, <1>3, ListChanges
<1>5. InKernel'
  BY <1>1, <1>2, <1>3, FlushKeepsKernel
<1> QED BY <1>2, <1>4, <1>5

\* One route is pulled to the new interface.
LEMMA PullFlooding ==
  ASSUME Control, Flooding, aborted = "no", NEW r \in Routes, Pull(r), aborted' = "no"
  PROVE  Flooding'
<1>1. /\ stage = "pull" /\ stage' = "pull" /\ obj' = obj /\ obj \in Ifs
      /\ r \in todo /\ todo' = todo \ {r}
      /\ UNCHANGED <<if_list, route_list, next_chain>>
  BY DEF Pull, At, Goto, tunVars, listVars, Control, ObjTyped
<1>2. broadcast' = [broadcast EXCEPT ![obj] = BroadcastAdd(@, r, Cost(r))] /\ Flush(obj)
  BY DEF Pull, IfBrMake, CAssert
<1>3. Classed(obj) /\ \A j \in Ifs : Classed(j)' = Classed(j)
  BY <1>1 DEF Classed
<1>4. Joined(obj, r) /\ r \in route_list /\ r \notin Actions(broadcast[obj])
  BY <1>1 DEF Flooding, LoopTyped, FloodsSet, Flooded, Control, Progress
<1>5. /\ ListsSound' /\ ChainsApart' /\ InKernel'
      /\ Actions(broadcast'[obj]) = Actions(broadcast[obj]) \cup {r}
      /\ \A j \in Ifs : j # obj => broadcast'[j] = broadcast[j]
  BY <1>1, <1>2, <1>3, <1>4, MakeUpdates
<1>6. LoopTyped'
  BY <1>1 DEF Flooding, LoopTyped, Joined
<1>7. FloodsSet'
  <2> SUFFICES ASSUME NEW j \in Ifs, NEW s \in Routes
               PROVE  (s \in Actions(broadcast'[j])) = Flooded(j, s)'
    BY DEF FloodsSet
  <2>1. (s \in Actions(broadcast[j])) = Flooded(j, s)
    BY DEF Flooding, FloodsSet
  <2>2. CASE j = obj /\ s = r
    BY <1>1, <1>4, <1>5, <2>2 DEF Flooded, Joined
  <2>3. CASE ~(j = obj /\ s = r)
    <3>1. s \in Actions(broadcast'[j]) <=> s \in Actions(broadcast[j])
      BY <1>5, <2>3
    <3>2. Flooded(j, s)' <=> Flooded(j, s)
      BY <1>1, <2>3 DEF Flooded, Joined
    <3>3. Flooded(j, s) \in BOOLEAN /\ Flooded(j, s)' \in BOOLEAN
      BY DEF Flooded
    <3> QED BY <2>1, <3>1, <3>2, <3>3
  <2> QED BY <2>2, <2>3
<1> QED BY <1>5, <1>6, <1>7 DEF Flooding

\* The new route is pushed to one interface.
LEMMA PushFlooding ==
  ASSUME Control, Flooding, aborted = "no", NEW i \in Ifs, Push(i), aborted' = "no"
  PROVE  Flooding'
<1>1. /\ stage = "push" /\ stage' = "push" /\ obj' = obj /\ obj \in Routes
      /\ i \in todo /\ todo' = todo \ {i}
      /\ UNCHANGED <<if_list, route_list, next_chain>>
  BY DEF Push, At, Goto, tunVars, listVars, Control, ObjTyped
<1>2. broadcast' = [broadcast EXCEPT ![i] = BroadcastAdd(@, obj, Cost(obj))] /\ Flush(i)
  BY DEF Push, IfBrMake, CAssert
<1>3. Joined(i, obj) /\ i \in if_list /\ obj \notin Actions(broadcast[i])
  BY <1>1 DEF Flooding, LoopTyped, FloodsSet, Flooded, Control, Progress
<1>4. Classed(i) /\ \A j \in Ifs : Classed(j)' = Classed(j)
  BY <1>1, <1>3 DEF Classed
<1>5. /\ ListsSound' /\ ChainsApart' /\ InKernel'
      /\ Actions(broadcast'[i]) = Actions(broadcast[i]) \cup {obj}
      /\ \A j \in Ifs : j # i => broadcast'[j] = broadcast[j]
  BY <1>1, <1>2, <1>3, <1>4, MakeUpdates
<1>6. LoopTyped'
  BY <1>1 DEF Flooding, LoopTyped, Joined
<1>7. FloodsSet'
  <2> SUFFICES ASSUME NEW j \in Ifs, NEW s \in Routes
               PROVE  (s \in Actions(broadcast'[j])) = Flooded(j, s)'
    BY DEF FloodsSet
  <2>1. (s \in Actions(broadcast[j])) = Flooded(j, s)
    BY DEF Flooding, FloodsSet
  <2>2. CASE j = i /\ s = obj
    BY <1>1, <1>3, <1>5, <2>2 DEF Flooded, Joined
  <2>3. CASE ~(j = i /\ s = obj)
    <3>1. s \in Actions(broadcast'[j]) <=> s \in Actions(broadcast[j])
      BY <1>5, <2>3
    <3>2. Flooded(j, s)' <=> Flooded(j, s)
      BY <1>1, <2>3 DEF Flooded, Joined
    <3>3. Flooded(j, s) \in BOOLEAN /\ Flooded(j, s)' \in BOOLEAN
      BY DEF Flooded
    <3> QED BY <2>1, <3>1, <3>2, <3>3
  <2> QED BY <2>2, <2>3
<1> QED BY <1>5, <1>6, <1>7 DEF Flooding

\* One interface forgets the route.
LEMMA UnRouteFlooding ==
  ASSUME Control, Flooding, aborted = "no", NEW i \in Ifs, UnRoute(i)
  PROVE  Flooding'
<1>1. /\ stage = "unroute" /\ stage' = "unroute" /\ obj' = obj /\ obj \in Routes
      /\ i \in todo /\ todo' = todo \ {i} /\ IfBrFree(i, obj)
      /\ UNCHANGED <<if_list, route_list, next_chain>>
  BY DEF UnRoute, At, Goto, tunVars, listVars, Control, ObjTyped
<1>2. Joined(i, obj) /\ obj \in Actions(broadcast[i])
  BY <1>1 DEF Flooding, LoopTyped, FloodsSet, Flooded
<1>3. Classed(i) /\ \A j \in Ifs : Classed(j)' = Classed(j)
  <2>1. broadcast[i].filters # <<>>
    BY <1>2 DEF Actions, ToSet
  <2> QED BY <1>1, <2>1 DEF Classed, Flooding, ChainsApart
<1>4. /\ ListsSound' /\ ChainsApart' /\ InKernel'
      /\ Actions(broadcast'[i]) = Actions(broadcast[i]) \ {obj}
      /\ \A j \in Ifs : j # i => broadcast'[j] = broadcast[j]
  BY <1>1, <1>2, <1>3, FreeUpdates
<1>5. LoopTyped'
  BY <1>1 DEF Flooding, LoopTyped, Joined
<1>6. FloodsSet'
  <2> SUFFICES ASSUME NEW j \in Ifs, NEW s \in Routes
               PROVE  (s \in Actions(broadcast'[j])) = Flooded(j, s)'
    BY DEF FloodsSet
  <2>1. (s \in Actions(broadcast[j])) = Flooded(j, s)
    BY DEF Flooding, FloodsSet
  <2>2. CASE j = i /\ s = obj
    <3>1. s \notin Actions(broadcast'[j])
      BY <1>4, <2>2
    <3>2. ~Flooded(j, s)'
      BY <1>1, <2>2 DEF Flooded
    <3>3. Flooded(j, s)' \in BOOLEAN
      BY DEF Flooded
    <3> QED BY <3>1, <3>2, <3>3
  <2>3. CASE ~(j = i /\ s = obj)
    <3>1. s \in Actions(broadcast'[j]) <=> s \in Actions(broadcast[j])
      BY <1>4, <2>3
    <3>2. Flooded(j, s)' <=> Flooded(j, s)
      BY <1>1, <2>3 DEF Flooded, Joined
    <3>3. Flooded(j, s) \in BOOLEAN /\ Flooded(j, s)' \in BOOLEAN
      BY DEF Flooded
    <3> QED BY <2>1, <3>1, <3>2, <3>3
  <2> QED BY <2>2, <2>3
<1> QED BY <1>4, <1>5, <1>6 DEF Flooding

\* The interface forgets one route.
LEMMA UnIfFlooding ==
  ASSUME Control, Flooding, aborted = "no", NEW r \in Routes, UnIf(r)
  PROVE  Flooding'
<1>1. /\ stage = "unif" /\ stage' = "unif" /\ obj' = obj /\ obj \in Ifs /\ obj \in if_list
      /\ r \in todo /\ todo' = todo \ {r} /\ IfBrFree(obj, r)
      /\ UNCHANGED <<if_list, route_list, next_chain>>
  BY DEF UnIf, At, Goto, tunVars, listVars, Control, ObjTyped, Progress
<1>2. Joined(obj, r) /\ r \in Actions(broadcast[obj])
  BY <1>1 DEF Flooding, LoopTyped, FloodsSet, Flooded
<1>3. Classed(obj) /\ \A j \in Ifs : Classed(j)' = Classed(j)
  BY <1>1 DEF Classed
<1>4. /\ ListsSound' /\ ChainsApart' /\ InKernel'
      /\ Actions(broadcast'[obj]) = Actions(broadcast[obj]) \ {r}
      /\ \A j \in Ifs : j # obj => broadcast'[j] = broadcast[j]
  BY <1>1, <1>2, <1>3, FreeUpdates
<1>5. LoopTyped'
  BY <1>1 DEF Flooding, LoopTyped, Joined
<1>6. FloodsSet'
  <2> SUFFICES ASSUME NEW j \in Ifs, NEW s \in Routes
               PROVE  (s \in Actions(broadcast'[j])) = Flooded(j, s)'
    BY DEF FloodsSet
  <2>1. (s \in Actions(broadcast[j])) = Flooded(j, s)
    BY DEF Flooding, FloodsSet
  <2>2. CASE j = obj /\ s = r
    <3>1. s \notin Actions(broadcast'[j])
      BY <1>4, <2>2
    <3>2. ~Flooded(j, s)'
      BY <1>1, <2>2 DEF Flooded
    <3>3. Flooded(j, s)' \in BOOLEAN
      BY DEF Flooded
    <3> QED BY <3>1, <3>2, <3>3
  <2>3. CASE ~(j = obj /\ s = r)
    <3>1. s \in Actions(broadcast'[j]) <=> s \in Actions(broadcast[j])
      BY <1>4, <2>3
    <3>2. Flooded(j, s)' <=> Flooded(j, s)
      BY <1>1, <2>3 DEF Flooded, Joined
    <3>3. Flooded(j, s) \in BOOLEAN /\ Flooded(j, s)' \in BOOLEAN
      BY DEF Flooded
    <3> QED BY <2>1, <3>1, <3>2, <3>3
  <2> QED BY <2>2, <2>3
<1> QED BY <1>4, <1>5, <1>6 DEF Flooding

\* lsdn_broadcast_init
LEMMA NewBroadcastSound ==
  ASSUME NEW id \in Nat
  PROVE  /\ IsBroadcast(NewBroadcast(id)) /\ NewBroadcast(id).chain = id
         /\ NewBroadcast(id).filters = <<>> /\ Actions(NewBroadcast(id)) = {}
<1>1. NewBroadcast(id) = [chain |-> id, next |-> 1, filters |-> <<>>]
  BY DEF NewBroadcast
<1>2. NewBroadcast(id) \in BroadcastLists
  BY <1>1 DEF BroadcastLists
<1>3. Len(NewBroadcast(id).filters) = 0 /\ ToSet(NewBroadcast(id).filters) = {}
  BY <1>1 DEF ToSet
<1>4. IsBroadcast(NewBroadcast(id))
  BY <1>2, <1>3 DEF IsBroadcast
<1> QED BY <1>1, <1>3, <1>4 DEF Actions

\* The new interface gets a chain that no other has.
LEMMA AddIfMatchFlooding ==
  ASSUME Control, Flooding, aborted = "no", AddIfMatch
  PROVE  Flooding'
<1> DEFINE id == ChainId(obj)
           b == NewBroadcast(id)
<1>1. /\ stage = "match" /\ obj \in Ifs /\ obj \notin if_list
      /\ UNCHANGED <<if_list, route_list, floods>>
  BY DEF AddIfMatch, At, listVars, Control, ObjTyped, Progress
<1>2. ~Classed(obj) /\ \A j \in Ifs : Classed(j) => j # obj
  BY <1>1 DEF Classed
<1>3. id \in Nat /\ id >= 1 /\ next_chain \in Nat
  BY DEF ChainId, Flooding, ChainsApart
<1>4. IsBroadcast(b) /\ b.chain = id /\ b.filters = <<>> /\ Actions(b) = {}
  BY <1>3, NewBroadcastSound
<1>5. broadcast[obj].filters = <<>> /\ Actions(broadcast[obj]) = {}
  BY <1>1, <1>2 DEF Flooding, ChainsApart, Actions, ToSet
<1> HIDE DEF b
<1>6. CASE broadcast' = broadcast /\ stage' \in {"free", "idle"}
  <2>1. \A j \in Ifs : Classed(j)' = Classed(j)
    BY <1>1, <1>6 DEF Classed
  <2>2. next_chain' \in Nat /\ next_chain' >= next_chain
    BY <1>3 DEF AddIfMatch
  <2>3. ListsSound'
    BY <1>6 DEF Flooding, ListsSound
  <2>4. ChainsApart'
    BY <1>6, <2>1, <2>2, <2>3, <1>3 DEF Flooding, ChainsApart, ListsSound,
       BroadcastLists, Ifs
  <2>5. InKernel'
    BY <1>1, <1>6 DEF Flooding, InKernel, FiltersOf, Place
  <2>6. LoopTyped'
    BY <1>6 DEF LoopTyped
  <2>7. \A j \in Ifs : \A s \in Routes : Flooded(j, s)' = Flooded(j, s)
    BY <1>1, <1>6 DEF Flooded, Joined
  <2>8. FloodsSet'
    BY <1>6, <2>7 DEF Flooding, FloodsSet
  <2> QED BY <2>3, <2>4, <2>5, <2>6, <2>8 DEF Flooding
<1>7. CASE /\ broadcast' = [broadcast EXCEPT ![obj] = b] /\ stage' = "fallback" /\ obj' = obj
           /\ next_chain' = IF obj \in Nets THEN next_chain + 1 ELSE next_chain
  <2>1. broadcast'[obj] = b /\ \A j \in Ifs : j # obj => broadcast'[j] = broadcast[j]
    BY <1>1, <1>7 DEF Flooding, ListsSound
  <2>2. \A j \in Ifs : Classed(j)' <=> Classed(j) \/ j = obj
    BY <1>1, <1>7 DEF Classed
  <2>3. ListsSound'
    <3>1. b \in BroadcastLists
      BY <1>4 DEF IsBroadcast
    <3>2. \A j \in Ifs : IsBroadcast(broadcast'[j])
      BY <1>4, <2>1 DEF Flooding, ListsSound
    <3> QED BY <1>1, <1>7, <3>1, <3>2 DEF Flooding, ListsSound
  <2>4. ChainsApart'
    <3>1. next_chain' \in Nat /\ next_chain' >= next_chain /\ (obj \in Nets => id < next_chain')
      BY <1>3, <1>7 DEF ChainId
    <3>2. \A j \in Ifs : broadcast[j].chain \in Nat
      BY DEF Flooding, ListsSound, BroadcastLists
    <3>3. \A j \in Ifs : IF Classed(j)' THEN broadcast'[j].chain >= 1
                         ELSE broadcast'[j].chain = 0 /\ broadcast'[j].filters = <<>>
      BY <1>3, <1>4, <2>1, <2>2 DEF Flooding, ChainsApart
    <3>4. \A j \in Nets : Classed(j)' => broadcast'[j].chain < next_chain'
      BY <1>3, <1>4, <2>1, <2>2, <3>1, <3>2 DEF Flooding, ChainsApart, Ifs
    <3>5. obj \in Nets => \A j \in Nets : Classed(j) => broadcast[j].chain # id
      BY <1>3, <3>2 DEF ChainId, Flooding, ChainsApart, Ifs
    <3>6. ASSUME NEW i \in Nets, NEW j \in Nets, Classed(i)', Classed(j)',
                 broadcast'[i].chain = broadcast'[j].chain
          PROVE  i = j
      <4>1. i \in Ifs /\ j \in Ifs
        BY DEF Ifs
      <4>2. CASE i = obj \/ j = obj
        BY <1>4, <2>1, <2>2, <3>5, <3>6, <4>1, <4>2
      <4>3. CASE i # obj /\ j # obj
        BY <2>1, <2>2, <3>6, <4>1, <4>3 DEF Flooding, ChainsApart
      <4> QED BY <4>2, <4>3
    <3>7. next_chain' >= 1
      BY <1>3, <3>1 DEF Flooding, ChainsApart
    <3> QED BY <3>1, <3>3, <3>4, <3>6, <3>7 DEF ChainsApart
  <2>5. InKernel'
    <3>1. \A j \in Ifs : FiltersOf(j)' = FiltersOf(j)
      BY <1>4, <1>5, <2>1 DEF FiltersOf
    <3>2. \A j \in Ifs : \A f \in FiltersOf(j) : Place(j, f)' = Place(j, f)
      <4>1. FiltersOf(obj) = {}
        BY <1>5 DEF FiltersOf, ToSet
      <4> QED BY <2>1, <4>1 DEF Place
    <3> QED BY <1>1, <3>1, <3>2 DEF Flooding, InKernel
  <2>6. LoopTyped'
    BY <1>7 DEF LoopTyped
  <2>7. \A j \in Ifs : \A s \in Routes : Flooded(j, s)' = Flooded(j, s)
    BY <1>1, <1>7 DEF Flooded, Joined
  <2>8. \A j \in Ifs : Actions(broadcast'[j]) = Actions(broadcast[j])
    BY <1>4, <1>5, <2>1
  <2>9. FloodsSet'
    BY <2>7, <2>8 DEF Flooding, FloodsSet
  <2> QED BY <2>3, <2>4, <2>5, <2>6, <2>9 DEF Flooding
<1>8. \/ broadcast' = broadcast /\ stage' \in {"free", "idle"}
      \/ /\ broadcast' = [broadcast EXCEPT ![obj] = b] /\ stage' = "fallback" /\ obj' = obj
         /\ next_chain' = IF obj \in Nets THEN next_chain + 1 ELSE next_chain
  BY DEF AddIfMatch, Goto, Return, b
<1> QED BY <1>6, <1>7, <1>8

\* The interface is gone, and its filters with it.
LEMMA UnIfEndFlooding ==
  ASSUME Control, Flooding, aborted = "no", UnIfEnd
  PROVE  Flooding'
<1> DEFINE b == NewBroadcast(0)
<1>1. /\ stage = "unif" /\ todo = {} /\ obj \in Ifs /\ obj \in if_list
      /\ if_list' = if_list \ {obj} /\ UNCHANGED <<route_list, next_chain>>
      /\ broadcast' = [broadcast EXCEPT ![obj] = b] /\ stage' \in {"free", "idle"}
      /\ floods' = [k \in DOMAIN floods \ ChainOf(obj) |-> floods[k]]
  BY DEF UnIfEnd, At, Goto, Return, tunVars, Control, ObjTyped, Progress, Restrict
<1>2. IsBroadcast(b) /\ b.chain = 0 /\ b.filters = <<>> /\ Actions(b) = {}
  BY NewBroadcastSound
<1> HIDE DEF b
<1>3. broadcast'[obj] = b /\ \A j \in Ifs : j # obj => broadcast'[j] = broadcast[j]
  BY <1>1 DEF Flooding, ListsSound
<1>4. \A j \in Ifs : Classed(j)' <=> Classed(j) /\ j # obj
  BY <1>1 DEF Classed
<1>5. ListsSound'
  <2>1. b \in BroadcastLists
    BY <1>2 DEF IsBroadcast
  <2>2. \A j \in Ifs : IsBroadcast(broadcast'[j])
    BY <1>2, <1>3 DEF Flooding, ListsSound
  <2> QED BY <1>1, <2>1, <2>2 DEF Flooding, ListsSound
<1>6. ChainsApart'
  <2>1. \A j \in Ifs : IF Classed(j)' THEN broadcast'[j].chain >= 1
                       ELSE broadcast'[j].chain = 0 /\ broadcast'[j].filters = <<>>
    BY <1>2, <1>3, <1>4 DEF Flooding, ChainsApart
  <2>2. \A j \in Nets : Classed(j)' => Classed(j) /\ broadcast'[j] = broadcast[j]
    BY <1>3, <1>4 DEF Ifs
  <2> QED BY <1>1, <2>1, <2>2 DEF Flooding, ChainsApart
<1>7. InKernel'
  <2>1. \A j \in Ifs : FiltersOf(j)' = IF j = obj THEN {} ELSE FiltersOf(j)
    <3>1. ToSet(b.filters) = {}
      BY <1>2 DEF ToSet
    <3> QED BY <1>3, <3>1 DEF FiltersOf
  <2>2. \A j \in Ifs : j # obj => \A f : Place(j, f)' = Place(j, f)
    BY <1>3 DEF Place
  <2>3. /\ floods' = [k \in DOMAIN floods' |-> floods'[k]]
        /\ DOMAIN floods' = DOMAIN floods \ ChainOf(obj)
        /\ \A k \in DOMAIN floods' : floods'[k] = floods[k]
    BY <1>1
  <2>4. ASSUME NEW k \in DOMAIN floods'
        PROVE  \E j \in Ifs : \E f \in FiltersOf(j)' : k = Place(j, f)'
    <3>1. PICK j \in Ifs : \E f \in FiltersOf(j) : k = Place(j, f)
      BY <2>3 DEF Flooding, InKernel
    <3>2. PICK f \in FiltersOf(j) : k = Place(j, f)
      BY <3>1
    <3>3. j # obj
      BY <2>3, <3>2 DEF ChainOf, Place
    <3> QED BY <2>1, <2>2, <3>2, <3>3
  <2>5. ASSUME NEW j \in Ifs, NEW f \in FiltersOf(j)'
        PROVE  Place(j, f)' \in DOMAIN floods' /\ floods'[Place(j, f)'] = Flushed(f)
    <3>1. j # obj /\ f \in FiltersOf(j) /\ Place(j, f)' = Place(j, f)
      BY <2>1, <2>2
    <3>2. Place(j, f) \in DOMAIN floods /\ floods[Place(j, f)] = Flushed(f)
      BY <3>1 DEF Flooding, InKernel
    <3>3. Place(j, f) \notin ChainOf(obj)
      <4> SUFFICES ASSUME Place(j, f) \in ChainOf(obj) PROVE FALSE
        OBVIOUS
      <4>1. Device(j) = Device(obj) /\ broadcast[j].chain = broadcast[obj].chain
        BY DEF ChainOf, Place
      <4>2. Classed(j)
        BY <3>1, FiltersTyped DEF Flooding
      <4>3. Classed(obj)
        BY <1>1 DEF Classed
      <4> QED BY <1>1, <3>1, <4>1, <4>2, <4>3, SameChain DEF Flooding
    <3> QED BY <2>3, <3>1, <3>2, <3>3
  <2> QED BY <2>3, <2>4, <2>5 DEF InKernel
<1>8. LoopTyped'
  BY <1>1 DEF LoopTyped
<1>9. FloodsSet'
  <2> SUFFICES ASSUME NEW j \in Ifs, NEW s \in Routes
               PROVE  (s \in Actions(broadcast'[j])) = Flooded(j, s)'
    BY DEF FloodsSet
  <2>1. (s \in Actions(broadcast[j])) = Flooded(j, s)
    BY DEF Flooding, FloodsSet
  <2>2. CASE j = obj
    <3>1. s \notin Actions(broadcast'[j])
      BY <1>2, <1>3, <2>2
    <3>2. ~Flooded(j, s)'
      BY <1>1, <2>2 DEF Flooded
    <3>3. Flooded(j, s)' \in BOOLEAN
      BY DEF Flooded
    <3> QED BY <3>1, <3>2, <3>3
  <2>3. CASE j # obj
    <3>1. broadcast'[j] = broadcast[j]
      BY <1>3, <2>3
    <3>2. Flooded(j, s)' <=> Flooded(j, s)
      BY <1>1, <2>3 DEF Flooded, Joined
    <3>3. Flooded(j, s) \in BOOLEAN /\ Flooded(j, s)' \in BOOLEAN
      BY DEF Flooded
    <3> QED BY <2>1, <3>1, <3>2, <3>3
  <2> QED BY <2>2, <2>3
<1> QED BY <1>5, <1>6, <1>7, <1>8, <1>9 DEF Flooding

\* The tunnel goes when nothing floods from it.
LEMMA ReleaseStunnelFlooding ==
  ASSUME Control, Flooding, aborted = "no", ReleaseStunnel
  PROVE  Flooding'
<1>1. /\ stage = "release" /\ stage' = "idle"
      /\ UNCHANGED <<if_list, route_list, broadcast, next_chain>>
  BY DEF ReleaseStunnel, At, Return, listVars
<1>2. floods' = floods
  <2>1. CASE refcount # 1
    BY <2>1 DEF ReleaseStunnel
  <2>2. CASE refcount = 1
    <3>1. Cardinality(dummies) = 0 /\ dummies = {}
      BY <1>1, <2>2, FS_EmptySet, FS_CardinalityType DEF Control, Counted
    <3>2. \A i \in Nets : ~Classed(i)
      BY <1>1, <3>1 DEF Classed, Control, Booked
    <3>3. \A k \in DOMAIN floods : k[1] # "tunnel"
      <4> TAKE k \in DOMAIN floods
      <4>1. PICK i \in Ifs : \E f \in FiltersOf(i) : k = Place(i, f)
        BY DEF Flooding, InKernel
      <4>2. Classed(i) /\ k[1] = Device(i)
        BY <4>1, FiltersTyped DEF Flooding, Place
      <4> QED BY <3>2, <4>2, SbridgeAssumption DEF Device, Ifs
    <3>4. {k \in DOMAIN floods : k[1] # "tunnel"} = DOMAIN floods
      BY <3>3
    <3>5. floods' = Restrict(floods, DOMAIN floods)
      BY <2>2, <3>4 DEF ReleaseStunnel
    <3> QED BY <3>5 DEF Restrict, Flooding, InKernel
  <2> QED BY <2>1, <2>2
<1>3. \A j \in Ifs : Classed(j)' = Classed(j)
  BY <1>1 DEF Classed
<1>4. \A j \in Ifs : \A s \in Routes : Flooded(j, s)' = Flooded(j, s)
  BY <1>1 DEF Flooded, Joined
<1>5. ListsSound' /\ LoopTyped' /\ FloodsSet'
  BY <1>1, <1>4 DEF Flooding, ListsSound, LoopTyped, FloodsSet
<1>6. ChainsApart'
  BY <1>1, <1>3 DEF Flooding, ChainsApart, Ifs
<1>7. InKernel'
  BY <1>1, <1>2 DEF Flooding, InKernel, FiltersOf, Place
<1> QED BY <1>5, <1>6, <1>7 DEF Flooding

(***************************************************************************)
(* What follows from the invariant.                                        *)
(***************************************************************************)

\* A place in the kernel's filters that a broadcast from an interface reaches
\* is an entry of its list.
LEMMA HitIsEntry ==
  ASSUME Flooding, NEW i \in Ifs, NEW h \in Hits(i)
  PROVE  \E j \in 1..Len(broadcast[i].filters) : \E p \in 1..MaxActs :
           LET f == broadcast[i].filters[j] IN
           /\ Classed(i) /\ h = <<Place(i, f), p>> /\ f.acts[p] # NoEntry
           /\ floods[h[1]][h[2]] = f.acts[p]
<1>1. PICK k \in ChainOf(i) : \E p \in DOMAIN floods[k] : h = <<k, p>>
  BY DEF Hits
<1>2. PICK p \in DOMAIN floods[k] : h = <<k, p>>
  BY <1>1
<1>3. k \in DOMAIN floods /\ k[1] = Device(i) /\ k[2] = broadcast[i].chain
  BY DEF ChainOf
<1>4. PICK n \in Ifs : \E f \in FiltersOf(n) : k = Place(n, f)
  BY <1>3 DEF Flooding, InKernel
<1>5. PICK f \in FiltersOf(n) : k = Place(n, f)
  BY <1>4
<1>6. Classed(n) /\ Device(n) = Device(i) /\ broadcast[n].chain = broadcast[i].chain
  BY <1>3, <1>5, FiltersTyped DEF Flooding, Place
<1>7. Classed(i)
  <2>1. broadcast[n].chain >= 1
    BY <1>6 DEF Flooding, ChainsApart
  <2> QED BY <1>6, <2>1 DEF Flooding, ChainsApart
<1>8. n = i
  BY <1>6, <1>7, SameChain DEF Flooding
<1>9. PICK j \in 1..Len(broadcast[i].filters) : f = broadcast[i].filters[j]
  <2>1. broadcast[i].filters \in Seq(Filters)
    BY DEF Flooding, ListsSound, BroadcastLists
  <2> QED BY <1>8, <2>1 DEF FiltersOf, ToSet
<1>10. floods[k] = Flushed(f)
  BY <1>5 DEF Flooding, InKernel
<1>11. p \in InUse(f) /\ floods[k][p] = f.acts[p]
  BY <1>10 DEF Flushed, Restrict
<1> QED BY <1>2, <1>5, <1>7, <1>8, <1>9, <1>11 DEF InUse

\* Every entry is such a place.
LEMMA EntryIsHit ==
  ASSUME Flooding, NEW i \in Ifs, NEW j \in 1..Len(broadcast[i].filters), NEW p \in 1..MaxActs,
         broadcast[i].filters[j].acts[p] # NoEntry
  PROVE  LET f == broadcast[i].filters[j]
             h == <<Place(i, f), p>>
         IN  h \in Hits(i) /\ floods[h[1]][h[2]] = f.acts[p]
<1> DEFINE f == broadcast[i].filters[j]
           k == Place(i, f)
<1>1. f \in FiltersOf(i)
  <2>1. broadcast[i].filters \in Seq(Filters)
    BY DEF Flooding, ListsSound, BroadcastLists
  <2> QED BY <2>1 DEF FiltersOf, ToSet
<1>2. k \in DOMAIN floods /\ floods[k] = Flushed(f)
  BY <1>1 DEF Flooding, InKernel
<1>3. k \in ChainOf(i)
  BY <1>2 DEF ChainOf, Place
<1>4. p \in DOMAIN floods[k] /\ floods[k][p] = f.acts[p]
  BY <1>2 DEF Flushed, Restrict, InUse
<1> HIDE DEF k, f
<1>5. <<k, p>> \in Hits(i)
  BY <1>3, <1>4 DEF Hits
<1> QED BY <1>4, <1>5 DEF k, f

\* Packets stay in their net.
LEMMA FloodsInNet ==
  ASSUME Flooding
  PROVE  FloodsStayInNet
<1> SUFFICES ASSUME NEW i \in Ifs, NEW h \in Hits(i)
             PROVE  LET out == RouteIf(floods[h[1]][h[2]]) IN
                    BridgeOf(out) = BridgeOf(i) /\ out # i
  BY DEF FloodsStayInNet
<1> DEFINE r == floods[h[1]][h[2]]
<1>1. PICK j \in 1..Len(broadcast[i].filters), p \in 1..MaxActs :
        broadcast[i].filters[j].acts[p] # NoEntry /\ r = broadcast[i].filters[j].acts[p]
  BY HitIsEntry
<1>2. broadcast[i] \in BroadcastLists
  BY DEF Flooding, ListsSound
<1>3. r \in Actions(broadcast[i]) /\ r \in Routes
  <2> HIDE DEF r
  <2> QED BY <1>1, <1>2, ActionsAre
<1> HIDE DEF r
<1>4. Joined(i, r)
  BY <1>3 DEF Flooding, FloodsSet, Flooded
<1> QED BY <1>4 DEF Joined, r

\* So they do when neither the kernel's filters nor the chains change.
LEMMA SameFloods ==
  ASSUME FloodsStayInNet, floods' = floods,
         \A i \in Ifs : broadcast'[i].chain = broadcast[i].chain
  PROVE  FloodsStayInNet'
<1>1. \A i \in Ifs : Hits(i)' = Hits(i)
  BY DEF Hits, ChainOf
<1> QED BY <1>1 DEF FloodsStayInNet

\* Broadcasts leave once through every other route.
LEMMA FloodsAreExact ==
  ASSUME IInv
  PROVE  FloodsExact
<1> SUFFICES ASSUME Quiet, NEW i \in if_list
             PROVE  /\ {floods[h[1]][h[2]] : h \in Hits(i)} = Others(i)
                    /\ Cardinality(Hits(i)) = Cardinality(Others(i))
  BY DEF FloodsExact
<1> DEFINE B == broadcast[i].filters
           F == [h \in Hits(i) |-> floods[h[1]][h[2]]]
<1>1. Control /\ Flooding /\ stage = "idle" /\ i \in Ifs
  BY DEF IInv, Quiet, At, Control, Booked
<1>2. broadcast[i] \in BroadcastLists /\ IsBroadcast(broadcast[i])
  BY <1>1 DEF Flooding, ListsSound
<1>3. Others(i) = {r \in route_list : Joined(i, r)} /\ route_list \subseteq Routes
  BY <1>1 DEF Others, Joined, Control, Booked
<1>4. Actions(broadcast[i]) = Others(i)
  <2>1. \A r \in Routes : r \in Actions(broadcast[i]) <=> r \in Others(i)
    BY <1>1, <1>3 DEF Flooding, FloodsSet, Flooded
  <2>2. Actions(broadcast[i]) \subseteq Routes
    BY <1>2, ActionsAre
  <2> QED BY <1>3, <2>1, <2>2
<1>5. ASSUME NEW h \in Hits(i)
      PROVE  F[h] \in Others(i)
  <2>1. PICK j \in 1..Len(B), p \in 1..MaxActs : B[j].acts[p] # NoEntry /\ F[h] = B[j].acts[p]
    BY <1>1, HitIsEntry
  <2>2. F[h] \in Actions(broadcast[i])
    <3> HIDE DEF F
    <3> QED BY <1>2, <2>1, ActionsAre
  <2> QED BY <1>4, <2>2
<1>6. ASSUME NEW r \in Others(i)
      PROVE  \E h \in Hits(i) : F[h] = r
  <2>1. PICK j \in 1..Len(B), p \in 1..MaxActs : B[j].acts[p] # NoEntry /\ r = B[j].acts[p]
    BY <1>2, <1>4, ActionsAre
  <2>2. <<Place(i, B[j]), p>> \in Hits(i) /\ F[<<Place(i, B[j]), p>>] = r
    BY <1>1, <2>1, EntryIsHit
  <2> QED BY <2>2
<1>7. ASSUME NEW g \in Hits(i), NEW h \in Hits(i), F[g] = F[h]
      PROVE  g = h
  <2>1. PICK j \in 1..Len(B), p \in 1..MaxActs :
          g = <<Place(i, B[j]), p>> /\ B[j].acts[p] # NoEntry /\ F[g] = B[j].acts[p]
    BY <1>1, HitIsEntry
  <2>2. PICK k \in 1..Len(B), q \in 1..MaxActs :
          h = <<Place(i, B[k]), q>> /\ B[k].acts[q] # NoEntry /\ F[h] = B[k].acts[q]
    BY <1>1, HitIsEntry
  <2>3. j = k /\ p = q
    <3>1. B[j].acts[p] = B[k].acts[q] /\ B[j].acts[p] # NoEntry
      BY <1>7, <2>1, <2>2
    <3> QED BY <1>2, <3>1, SMTT(30) DEF IsBroadcast
  <2> QED BY <2>1, <2>2, <2>3
<1>8. {floods[h[1]][h[2]] : h \in Hits(i)} = Others(i)
  BY <1>5, <1>6
<1>9. F \in Injection(Hits(i), Others(i)) /\ F \in Surjection(Hits(i), Others(i))
  <2>1. F \in [Hits(i) -> Others(i)]
    BY <1>5
  <2> HIDE DEF F
  <2> QED BY <1>6, <1>7, <2>1 DEF Injection, Surjection, IsInjective
<1>10. IsFiniteSet(Others(i))
  BY <1>3, FS_Subset DEF IInv
<1>11. Cardinality(Hits(i)) = Cardinality(Others(i))
  <2> HIDE DEF F
  <2> QED BY <1>9, <1>10, FS_Injection
<1> QED BY <1>8, <1>11

\* The counts of free actions are right, and the kernel has the filters.
LEMMA TablesAreRight ==
  ASSUME Flooding
  PROVE  TablesMatchFilters
<1>1. ASSUME NEW i \in Ifs, NEW f \in FiltersOf(i)
      PROVE  f.free + Cardinality(InUse(f)) + Cardinality({p \in InUse(f) : f.acts[p] \in Rpas}) = MaxActs
  BY FiltersTyped DEF Flooding, Accounted, Tunnelled
<1> DEFINE A == {<<k, floods[k]>> : k \in DOMAIN floods}
           C(i) == {<<Place(i, f), Flushed(f)>> : f \in FiltersOf(i)}
<1>2. ASSUME NEW x \in A
      PROVE  \E i \in Ifs : x \in C(i)
  <2>1. PICK k \in DOMAIN floods : x = <<k, floods[k]>>
    OBVIOUS
  <2>2. PICK i \in Ifs : \E f \in FiltersOf(i) : k = Place(i, f)
    BY DEF Flooding, InKernel
  <2>3. PICK f \in FiltersOf(i) : k = Place(i, f)
    BY <2>2
  <2>4. floods[k] = Flushed(f)
    BY <2>3 DEF Flooding, InKernel
  <2> QED BY <2>1, <2>3, <2>4
<1>3. ASSUME NEW i \in Ifs, NEW x \in C(i)
      PROVE  x \in A
  BY DEF Flooding, InKernel
<1>4. A = UNION {C(i) : i \in Ifs}
  <2> HIDE DEF A, C
  <2> QED BY <1>2, <1>3
<1> QED BY <1>1, <1>4 DEF TablesMatchFilters, Place

(***************************************************************************)
(* The theorems.                                                           *)
(***************************************************************************)

\* The asserts of lsdn_sbridge_free hold.
LEMMA FreeIsSafe ==
  ASSUME Control, aborted = "no", SbridgeFree
  PROVE  aborted' = "no"
<1>1. /\ obj \in Nets /\ Bare(obj) /\ obj \notin if_list /\ stage = "free"
      /\ if_list \subseteq Ifs /\ forward \subseteq Rules(mac_list)
  BY DEF SbridgeFree, At, Control, ObjTyped, Progress, Booked, ForwardsSet
<1>2. \A i \in if_list : BridgeOf(i) # obj
  BY <1>1 DEF Bare
<1>3. IfsOf(obj) = {}
  BY <1>2 DEF IfsOf
<1>4. ASSUME NEW x \in forward
      PROVE  x[1] # obj
  <2>1. PICK m \in mac_list : x = ForwardRule(m)
    BY <1>1 DEF Rules
  <2>2. RouteIf(RouteOf(m)) \in if_list
    BY DEF Control, Booked
  <2> QED BY <1>2, <2>1, <2>2 DEF ForwardRule
<1> QED BY <1>3, <1>4 DEF SbridgeFree, CAssert

\* The assert of lsdn_ruleset_free holds.
LEMMA ReleaseIsSafe ==
  ASSUME Control, aborted = "no", ReleaseStunnel
  PROVE  aborted' = "no"
<1>1. stage = "release"
  BY DEF ReleaseStunnel, At
<1>2. ASSUME refcount = 1, NEW x \in class
      PROVE  x[1] \notin Nets
  <2>1. dummies = {}
    BY <1>1, <1>2, FS_EmptySet, FS_CardinalityType DEF Control, Counted
  <2>2. \A i \in Nets : ~Classed(i)
    BY <1>1, <2>1 DEF Classed, Control, Booked
  <2>3. PICK i \in Ifs : x = <<i, "match">> \/ x = <<i, "fallback">>
    BY DEF Control, Counted
  <2>4. Classed(i)
    BY <2>3 DEF Control, Counted
  <2> QED BY <2>2, <2>3, <2>4
<1> QED BY <1>2 DEF ReleaseStunnel, CAssert

\* A step of a running operation.
Running ==
  \/ \E n \in Nets : CreatePa(n) \/ DestroyPa(n)
  \/ \E v \in Virts : AddVirt(v)
  \/ \E r \in Rpas : AddRemotePa(r) \/ RemoveRemotePa(r)
  \/ \E w \in Rvirts : AddRemoteVirt(w)
  \/ \E m \in Owners : RemoveMac(m)
  \/ SbridgeInit \/ AddIfMatch \/ AddIfFallback \/ AddIfEnd \/ AddRouteEnd \/ AddMac
  \/ \E r \in Routes : Pull(r) \/ UnIf(r)
  \/ \E i \in Ifs : Push(i) \/ UnRoute(i)
  \/ UnMac \/ UnRouteEnd \/ UnIfEnd \/ SbridgeFree \/ ReleaseStunnel

\* Every step of an operation keeps the books of the bridge.
LEMMA ControlKept ==
  ASSUME Control, aborted = "no", Running
  PROVE  Control'
BY CreatePaControl, DestroyPaControl, AddVirtControl, AddRemotePaControl,
   RemoveRemotePaControl, AddRemoteVirtControl, RemoveMacControl, SbridgeInitControl,
   AddIfMatchControl, AddIfFallbackControl, AddIfEndControl, AddRouteEndControl,
   AddMacControl, PullControl, UnIfControl, PushControl, UnRouteControl, UnMacControl,
   UnRouteEndControl, UnIfEndControl, SbridgeFreeControl, ReleaseStunnelControl
   DEF Running

\* Every step of an operation keeps the floods as the lists say, unless the
\* kernel refused a filter of a broadcast list.
LEMMA FloodingKept ==
  ASSUME Control, Flooding, aborted = "no", Running, aborted' # "freed_action"
  PROVE  Flooding'
<1>1. CASE \E r \in Routes : Pull(r)
  <2>1. PICK r \in Routes : Pull(r)
    BY <1>1
  <2>2. aborted' = "no"
    BY <2>1 DEF Pull, IfBrMake, CAssert
  <2> QED BY <2>1, <2>2, PullFlooding
<1>2. CASE \E i \in Ifs : Push(i)
  <2>1. PICK i \in Ifs : Push(i)
    BY <1>2
  <2>2. aborted' = "no"
    BY <2>1 DEF Push, IfBrMake, CAssert
  <2> QED BY <2>1, <2>2, PushFlooding
<1> QED BY <1>1, <1>2,
   CreatePaFlooding, DestroyPaFlooding, AddVirtFlooding, AddRemotePaFlooding,
   RemoveRemotePaFlooding, AddRemoteVirtFlooding, RemoveMacFlooding, SbridgeInitFlooding,
   AddIfMatchFlooding, AddIfFallbackFlooding, AddIfEndFlooding, AddRouteEndFlooding,
   AddMacFlooding, UnIfFlooding, UnRouteFlooding, UnMacFlooding,
   UnRouteEndFlooding, UnIfEndFlooding, SbridgeFreeFlooding, ReleaseStunnelFlooding
   DEF Running

\* A refused filter leaves the kernel and the chains alone.
LEMMA RefusedFlood ==
  ASSUME Control, Flooding, FloodsStayInNet, aborted = "no", Running, aborted' = "freed_action"
  PROVE  FloodsStayInNet'
<1>1. PICK i \in Ifs, r \in Routes :
        /\ broadcast' = [broadcast EXCEPT ![i] = BroadcastAdd(@, r, Cost(r))]
        /\ floods' = floods /\ r \notin Actions(broadcast[i])
  <2>1. CASE \E r \in Routes : Pull(r)
    <3>1. PICK r \in Routes : Pull(r)
      BY <2>1
    <3>2. /\ stage = "pull" /\ obj \in Ifs /\ r \in todo
          /\ broadcast' = [broadcast EXCEPT ![obj] = BroadcastAdd(@, r, Cost(r))]
          /\ floods' = floods
      BY <3>1 DEF Pull, At, IfBrMake, CAssert, Control, ObjTyped
    <3>3. r \notin Actions(broadcast[obj])
      BY <3>2 DEF Flooding, FloodsSet, Flooded, Control, Progress
    <3> QED BY <3>2, <3>3
  <2>2. CASE \E i \in Ifs : Push(i)
    <3>1. PICK i \in Ifs : Push(i)
      BY <2>2
    <3>2. /\ stage = "push" /\ obj \in Routes /\ i \in todo
          /\ broadcast' = [broadcast EXCEPT ![i] = BroadcastAdd(@, obj, Cost(obj))]
          /\ floods' = floods
      BY <3>1 DEF Push, At, IfBrMake, CAssert, Control, ObjTyped
    <3>3. obj \notin Actions(broadcast[i])
      BY <3>2 DEF Flooding, FloodsSet, Flooded, Control, Progress
    <3> QED BY <3>2, <3>3
  <2>3. (\E r \in Routes : Pull(r)) \/ (\E i \in Ifs : Push(i))
    BY DEF Running, CreatePa, DestroyPa, AddVirt, AddRemotePa, RemoveRemotePa,
       AddRemoteVirt,
           RemoveMac, SbridgeInit, AddIfMatch, AddIfFallback, AddIfEnd, AddRouteEnd, AddMac,
           UnIf, UnRoute, UnMac, UnRouteEnd, UnIfEnd, SbridgeFree, ReleaseStunnel,
           Begin, At, CAssert
  <2> QED BY <2>1, <2>2, <2>3
<1>2. IsBroadcast(broadcast[i]) /\ broadcast \in [Ifs -> BroadcastLists]
  BY DEF Flooding, ListsSound
<1>3. BroadcastAdd(broadcast[i], r, Cost(r)).chain = broadcast[i].chain
  BY <1>1, <1>2, AddKeepsList
<1>4. \A j \in Ifs : broadcast'[j].chain = broadcast[j].chain
  BY <1>1, <1>2, <1>3
<1> QED BY <1>1, <1>4, SameFloods

\* The lists of routes stay finite.
LEMMA RoutesFinite ==
  ASSUME Running, IsFiniteSet(route_list)
  PROVE  IsFiniteSet(route_list')
<1>1. route_list' \in {route_list, route_list \cup {obj}, route_list \ {obj}}
  BY DEF Running, CreatePa, DestroyPa, AddVirt, AddRemotePa, RemoveRemotePa,
     AddRemoteVirt,
         RemoveMac, SbridgeInit, AddIfMatch, AddIfFallback, AddIfEnd, AddRouteEnd, AddMac,
         Pull, Push, UnIf, UnRoute, UnMac, UnRouteEnd, UnIfEnd, SbridgeFree, ReleaseStunnel,
         listVars
<1>2. IsFiniteSet(route_list \cup {obj}) /\ IsFiniteSet(route_list \ {obj})
  BY FS_AddElement, FS_RemoveElement
<1> QED BY <1>1, <1>2

\* The invariant holds at the start.
LEMMA InitInv == Init => IInv
<1> SUFFICES ASSUME Init PROVE IInv
  OBVIOUS
<1> USE SbridgeAssumption DEF Init, SbInit
<1>1. IsFiniteSet(dummies) /\ Cardinality(dummies) = 0 /\ IsFiniteSet(route_list)
  BY FS_EmptySet
<1>2. Control
  <2>1. ObjTyped /\ Progress
    BY DEF ObjTyped, Progress
  <2>2. Booked
    BY DEF Booked, Halfway
  <2>3. \A i \in Ifs : Classed(i) = FALSE
    BY DEF Classed
  <2>4. Counted
    <3>1. refcount = Cardinality(dummies) /\ tunnel = FALSE /\ (refcount > 0) = FALSE
      BY <1>1
    <3>2. stage \notin {"init", "release"} /\ class = {} /\ dummies = {}
      OBVIOUS
    <3>3. ASSUME NEW i \in Ifs
          PROVE  /\ (<<i, "match">> \in class) = FALSE
                 /\ (<<i, "fallback">> \in class) = FALSE
      BY <3>2
    <3> HIDE DEF Init, SbInit
    <3>4. \A i \in Ifs : /\ (<<i, "match">> \in class) = Classed(i)
                         /\ <<i, "fallback">> \in class => Classed(i)
      BY <2>3, <3>3, Zenon
    <3>5. tunnel = (refcount > 0)
      BY <3>1, Zenon
    <3>6. refcount = Cardinality(dummies) + 0
      BY <1>1, <3>1
    <3> QED BY <1>1, <3>2, <3>4, <3>5, <3>6 DEF Counted
  <2>5. Rules({}) = {} /\ mac_list = {} /\ stage = "idle"
    BY DEF Rules
  <2>6. ForwardsSet
    BY <2>5 DEF ForwardsSet
  <2> QED BY <2>1, <2>2, <2>4, <2>6 DEF Control
<1>3. \A i \in Ifs : IsBroadcast(broadcast[i]) /\ broadcast[i].chain = 0
                     /\ broadcast[i].filters = <<>> /\ Actions(broadcast[i]) = {}
  BY NewBroadcastSound
<1>4. ListsSound
  <2>1. NewBroadcast(0) \in BroadcastLists
    BY NewBroadcastSound DEF IsBroadcast
  <2> QED BY <1>3, <2>1 DEF ListsSound
<1>5. \A i \in Ifs : ~Classed(i)
  BY DEF Classed
<1>6. ChainsApart
  BY <1>3, <1>5 DEF ChainsApart, Ifs
<1>7. InKernel
  <2>1. \A i \in Ifs : FiltersOf(i) = {}
    BY <1>3 DEF FiltersOf, ToSet
  <2>2. DOMAIN floods = {} /\ floods = [k \in DOMAIN floods |-> floods[k]]
    OBVIOUS
  <2> QED BY <2>1, <2>2 DEF InKernel
<1>8. LoopTyped
  BY DEF LoopTyped
<1>9. FloodsSet
  <2>1. \A i, r : Flooded(i, r) = FALSE
    BY DEF Flooded
  <2>2. ASSUME NEW i \in Ifs, NEW r \in Routes
        PROVE  (r \in Actions(broadcast[i])) = FALSE
    BY <1>3
  <2> HIDE DEF Init, SbInit
  <2>3. \A i \in Ifs : \A r \in Routes : (r \in Actions(broadcast[i])) = Flooded(i, r)
    BY <2>1, <2>2, Zenon
  <2> QED BY <2>3 DEF FloodsSet
<1>10. Flooding
  BY <1>4, <1>6, <1>7, <1>8, <1>9 DEF Flooding
<1>11. FloodsStayInNet
  BY <1>10, FloodsInNet
<1>12. FreedEmpty
  BY DEF FreedEmpty
<1> QED BY <1>1, <1>2, <1>10, <1>11, <1>12 DEF IInv

\* The invariant is inductive.
LEMMA StepInv == IInv /\ [Next]_vars => IInv'
<1> SUFFICES ASSUME IInv, [Next]_vars PROVE IInv'
  OBVIOUS
<1>1. CASE Running
  <2>1. aborted = "no"
    BY <1>1 DEF Running, CreatePa, DestroyPa, AddVirt, AddRemotePa, RemoveRemotePa,
         AddRemoteVirt, RemoveMac, SbridgeInit, AddIfMatch, AddIfFallback, AddIfEnd,
         AddRouteEnd, AddMac, Pull, Push, UnIf, UnRoute, UnMac, UnRouteEnd, UnIfEnd,
         SbridgeFree, ReleaseStunnel, Begin, At
  <2>2. Control /\ Flooding /\ FloodsStayInNet /\ IsFiniteSet(route_list)
    BY <2>1 DEF IInv
  <2>3. Control'
    BY <1>1, <2>1, <2>2, ControlKept
  <2>4. aborted' # "freed_action" => Flooding'
    BY <1>1, <2>1, <2>2, FloodingKept
  <2>5. FloodsStayInNet'
    <3>1. CASE aborted' = "freed_action"
      BY <1>1, <2>1, <2>2, <3>1, RefusedFlood
    <3>2. CASE aborted' # "freed_action"
      <4>1. Flooding'
        BY <2>4, <3>2
      <4> QED BY <4>1, FloodsInNet, PTL
    <3> QED BY <3>1, <3>2
  <2>6. FreedEmpty'
    <3>1. SbridgeFree \/ ReleaseStunnel => aborted' = "no"
      BY <2>1, <2>2, FreeIsSafe, ReleaseIsSafe
    <3>2. SbridgeFree \/ ReleaseStunnel
          \/ aborted' \in {"no", "freed_action", "remove_route", "list_remove"}
      BY <1>1, <2>1 DEF Running, CreatePa, DestroyPa, AddVirt, AddRemotePa,
         RemoveRemotePa,
         AddRemoteVirt, RemoveMac, SbridgeInit, AddIfMatch, AddIfFallback, AddIfEnd,
         AddRouteEnd, AddMac, Pull, Push, UnIf, UnRoute, UnMac, UnRouteEnd, UnIfEnd,
         Begin, At, CAssert, IfBrMake
    <3> QED BY <3>1, <3>2 DEF FreedEmpty
  <2>7. IsFiniteSet(route_list')
    BY <1>1, <2>2, RoutesFinite
  <2> QED BY <2>3, <2>4, <2>5, <2>6, <2>7 DEF IInv
<1>2. CASE UNCHANGED vars
  <2> USE <1>2 DEF vars, tunVars, listVars, brVars
  <2>1. FreedEmpty' /\ IsFiniteSet(route_list')
    BY DEF IInv, FreedEmpty
  <2>2. FloodsStayInNet'
    BY SameFloods DEF IInv
  <2>3. \A i : Classed(i)' = Classed(i)
    BY DEF Classed
  <2>4. Control => Control'
    <3>1. ObjTyped' = ObjTyped
      BY DEF ObjTyped
    <3>2. Progress' = Progress
      BY DEF Progress, Bare
    <3>3. Booked' = Booked
      BY DEF Booked, Halfway
    <3>4. Counted => Counted'
      BY <2>3 DEF Counted
    <3>5. ForwardsSet' = ForwardsSet
      BY DEF ForwardsSet
    <3> QED BY <3>1, <3>2, <3>3, <3>4, <3>5 DEF Control
  <2>5. Flooding => Flooding'
    <3>1. ListsSound => ListsSound'
      BY DEF ListsSound
    <3>2. ChainsApart => ChainsApart'
      BY <2>3 DEF ChainsApart
    <3>3. InKernel => InKernel'
      BY DEF InKernel, FiltersOf, Place
    <3>4. LoopTyped => LoopTyped'
      BY DEF LoopTyped
    <3>5. \A i, r : Flooded(i, r)' = Flooded(i, r)
      BY DEF Flooded
    <3>6. FloodsSet => FloodsSet'
      BY <3>5 DEF FloodsSet
    <3> QED BY <3>1, <3>2, <3>3, <3>4, <3>6 DEF Flooding
  <2> QED BY <2>1, <2>2, <2>4, <2>5 DEF IInv
<1> QED BY <1>1, <1>2 DEF Next, Running, Stopped

\* The inductive invariant.
LEMMA Invariance == Spec => []IInv
BY InitInv, StepInv, PTL DEF Spec

\* Whatever the order of operations and refusals, a broadcast between operations
\* leaves once through every route of the bridge but those of its interface.
THEOREM FloodsAlwaysExact == Spec => []FloodsExact
<1>1. IInv => FloodsExact
  BY FloodsAreExact
<1> QED BY <1>1, Invariance, PTL

\* At every step, and after a failed assert, packets stay in their net, though
\* the nets share the tunnel and lsdn_idalloc_get gives chains out again after
\* the last of them is gone.
THEOREM NetsAlwaysApart == Spec => []FloodsStayInNet
<1>1. IInv => FloodsStayInNet
  BY DEF IInv
<1> QED BY <1>1, Invariance, PTL

\* No filter gets more actions than it takes, lsdn_find_free_action always finds
\* a free entry, and the kernel has the filters that are in memory.
THEOREM TablesAlwaysMatch == Spec => []TablesMatchFilters
<1>1. IInv => TablesMatchFilters
  <2> SUFFICES ASSUME IInv PROVE TablesMatchFilters
    OBVIOUS
  <2>1. CASE aborted = "no"
    BY <2>1, TablesAreRight DEF IInv
  <2>2. CASE aborted # "no"
    BY <2>2 DEF TablesMatchFilters
  <2> QED BY <2>1, <2>2
<1> QED BY <1>1, Invariance, PTL

\* Between operations a bridge forwards to the MACs on its lists and to no others.
THEOREM ForwardsAlwaysExact == Spec => []ForwardsExact
<1>1. IInv => ForwardsExact
  BY DEF IInv, ForwardsExact, Quiet, At, Control, ForwardsSet, Rules
<1> QED BY <1>1, Invariance, PTL

\* Between operations the tunnel is counted and the interfaces are classified.
THEOREM TunnelAlwaysCounted == Spec => []TunnelCounted
<1>1. IInv => TunnelCounted
  <2> SUFFICES ASSUME IInv, Quiet PROVE TunnelCounted
    BY DEF TunnelCounted
  <2>1. Control /\ stage = "idle"
    BY DEF IInv, Quiet, At
  <2>2. Cardinality(dummies) \in Nat
    BY <2>1, FS_CardinalityType DEF Control, Counted
  <2>3. refcount = Cardinality(dummies) /\ tunnel = (refcount > 0)
    BY <2>1, <2>2 DEF Control, Counted
  <2>4. dummies = if_list \cap Nets
    BY <2>1 DEF Control, Booked, Halfway
  <2>5. {x[1] : x \in {y \in class : y[2] = "match"}} = if_list
    <3>1. ASSUME NEW x \in class, x[2] = "match"
          PROVE  x[1] \in if_list
      BY <2>1, <3>1 DEF Control, Counted, Classed
    <3>2. ASSUME NEW i \in if_list
          PROVE  <<i, "match">> \in class
      BY <2>1 DEF Control, Counted, Classed, Booked
    <3>3. \A x : x \in {y[1] : y \in {z \in class : z[2] = "match"}} <=> x \in if_list
      <4>1. ASSUME NEW x \in {y[1] : y \in {z \in class : z[2] = "match"}}
            PROVE  x \in if_list
        BY <3>1
      <4>2. ASSUME NEW i \in if_list
            PROVE  i \in {y[1] : y \in {z \in class : z[2] = "match"}}
        <5>1. <<i, "match">> \in {z \in class : z[2] = "match"} /\ <<i, "match">>[1] = i
          BY <3>2
        <5> QED BY <5>1
      <4> QED BY <4>1, <4>2
    <3> QED BY <3>3
  <2> QED BY <2>3, <2>4, <2>5 DEF TunnelCounted
<1> QED BY <1>1, Invariance, PTL

\* A bridge is freed after everything on it, and the tunnel after its bridges:
\* the asserts of lsdn_sbridge_free and lsdn_ruleset_free hold.
THEOREM AlwaysFreedEmpty == Spec => []FreedEmpty
<1>1. IInv => FreedEmpty
  BY DEF IInv
<1> QED BY <1>1, Invariance, PTL
=============================================================================
