---------------------------- MODULE LbridgeProofs ----------------------------
(***************************************************************************)
(* Proofs about the learning bridge for every set of PAs, virts and remote *)
(* PAs of every network type, whichever of the calls the kernel refuses.   *)
(***************************************************************************)
EXTENDS Lbridge, FiniteSetTheorems, TLAPS

(***************************************************************************)
(* Names of interfaces, and what is on them.                               *)
(***************************************************************************)

\* The names of interfaces tell them apart, by kind and by owner.
LEMMA Names ==
  /\ \A a, b : (Bridge(a) = Bridge(b) <=> a = b) /\ (Tunnel(a) = Tunnel(b) <=> a = b)
  /\ \A a, b : (Dummy(a) = Dummy(b) <=> a = b) /\ (VirtIf(a) = VirtIf(b) <=> a = b)
  /\ \A a, b : PhysIf(a) = PhysIf(b) <=> a = b
  /\ \A a, b : /\ Bridge(a) # Tunnel(b) /\ Bridge(a) # Dummy(b) /\ Bridge(a) # VirtIf(b)
               /\ Bridge(a) # PhysIf(b) /\ Bridge(a) # Stunnel
  /\ \A a, b : /\ Tunnel(a) # Dummy(b) /\ Tunnel(a) # VirtIf(b) /\ Tunnel(a) # PhysIf(b)
               /\ Tunnel(a) # Stunnel
  /\ \A a, b : /\ Dummy(a) # VirtIf(b) /\ Dummy(a) # PhysIf(b) /\ Dummy(a) # Stunnel
  /\ \A a, b : /\ VirtIf(a) # PhysIf(b) /\ VirtIf(a) # Stunnel /\ PhysIf(a) # Stunnel
BY DEF Bridge, Tunnel, Dummy, VirtIf, PhysIf, Stunnel

\* A port, a filter, a qdisc and an entry are told apart by their fields.
LEMMA Items ==
  /\ \A i, a : Port(i, a).port = i /\ Port(i, a).bridge = Bridge(a)
  /\ \A i, n : Filter(i, n).on = i /\ Filter(i, n).name = n
  /\ \A i, d : Qdisc(i, d).on = i /\ Qdisc(i, d).dir = d
  /\ \A a, r : Entry(a, r).on = Tunnel(a) /\ Entry(a, r).to = r
BY DEF Port, Filter, Qdisc, Entry

(***************************************************************************)
(* Changes of the kernel.                                                  *)
(***************************************************************************)
IsKernel(k) ==
  k = [links |-> k.links, ports |-> k.ports, up |-> k.up, qdiscs |-> k.qdiscs,
       filters |-> k.filters, fdb |-> k.fdb]

AddLink(k, i)   == [k EXCEPT !.links = @ \cup {i}]
SetUp(k, i)     == [k EXCEPT !.up = @ \cup {i}]
AddQdisc(k, q)  == [k EXCEPT !.qdiscs = @ \cup {q}]
AddFilter(k, f) == [k EXCEPT !.filters = @ \cup {f}]

\* What each change does to the parts of the kernel.
LEMMA Changes ==
  ASSUME NEW k, IsKernel(k), NEW i
  PROVE  /\ AddLink(k, i) = [links |-> k.links \cup {i}, ports |-> k.ports, up |-> k.up,
              qdiscs |-> k.qdiscs, filters |-> k.filters, fdb |-> k.fdb]
         /\ SetUp(k, i) = [links |-> k.links, ports |-> k.ports, up |-> k.up \cup {i},
              qdiscs |-> k.qdiscs, filters |-> k.filters, fdb |-> k.fdb]
         /\ AddQdisc(k, i) = [links |-> k.links, ports |-> k.ports, up |-> k.up,
              qdiscs |-> k.qdiscs \cup {i}, filters |-> k.filters, fdb |-> k.fdb]
         /\ AddFilter(k, i) = [links |-> k.links, ports |-> k.ports, up |-> k.up,
              qdiscs |-> k.qdiscs, filters |-> k.filters \cup {i}, fdb |-> k.fdb]
BY DEF IsKernel, AddLink, SetUp, AddQdisc, AddFilter

\* Making an interface a port, and no port.
LEMMA Masters ==
  ASSUME NEW k, IsKernel(k), NEW i
  PROVE  /\ \A a \in Pas : SetMaster(k, Bridge(a), i) =
              [links |-> k.links, ports |-> {x \in k.ports : x.port # i} \cup {Port(i, a)},
               up |-> k.up, qdiscs |-> k.qdiscs, filters |-> k.filters, fdb |-> k.fdb]
         /\ SetMaster(k, NULL, i) =
              [links |-> k.links, ports |-> {x \in k.ports : x.port # i},
               up |-> k.up, qdiscs |-> k.qdiscs, filters |-> k.filters, fdb |-> k.fdb]
<1>1. ASSUME NEW a \in Pas
      PROVE  SetMaster(k, Bridge(a), i) =
               [k EXCEPT !.ports = {x \in k.ports : x.port # i} \cup {Port(i, a)}]
  BY <1>1, LbridgeAssumption, Bridge(a) # NULL DEF SetMaster, Bridge, Port
<1>2. SetMaster(k, NULL, i) = [k EXCEPT !.ports = {x \in k.ports : x.port # i}]
  BY {x \in k.ports : x.port # i} \cup {} = {x \in k.ports : x.port # i} DEF SetMaster
<1>3. \A S : [k EXCEPT !.ports = S] = 
        [links |-> k.links, ports |-> S, up |-> k.up, qdiscs |-> k.qdiscs,
         filters |-> k.filters, fdb |-> k.fdb]
  BY DEF IsKernel
<1> QED BY <1>1, <1>2, <1>3

(***************************************************************************)
(* An operation so far.                                                    *)
(***************************************************************************)
IsOp(w) == w = [k |-> w.k, refcount |-> w.refcount, refused |-> w.refused, err |-> w.err]

\* What a call does to an operation.
LEMMA CallSteps ==
  ASSUME NEW w, IsOp(w), NEW name, NEW k
  PROVE  /\ IsOp(Call(w, name, k))
         /\ w.err # "OK" => Call(w, name, k) = w
         /\ w.err = "OK" => Call(w, name, k).err \in {"OK", "ERR"}
         /\ Call(w, name, k).refcount = w.refcount
         /\ Call(w, name, k).err = "OK" => w.err = "OK" /\ Call(w, name, k).k = k
         /\ w.err = "OK" /\ Call(w, name, k).err # "OK" => Call(w, name, k).k = w.k
BY SMTT(30) DEF IsOp, Call

\* What an undoing call does: an error that comes out of it as it went in,
\* other than abort, means that the call was made.
LEMMA UndoSteps ==
  ASSUME NEW w, IsOp(w), NEW name, NEW k
  PROVE  /\ IsOp(Undo(w, name, k))
         /\ Undo(w, name, k).refcount = w.refcount
         /\ Undo(w, name, k).err \in {w.err, "INCONSISTENT"}
         /\ Undo(w, name, k).err \in {"OK", "ERR"} =>
              Undo(w, name, k).err = w.err /\ Undo(w, name, k).k = k
BY DEF IsOp, Undo

(***************************************************************************)
(* A deletion undoes what was put on a link that is fresh.                 *)
(***************************************************************************)
Fresh(k, i) ==
  /\ i \notin k.links /\ i \notin k.up
  /\ \A x \in k.ports : x.port # i /\ x.bridge # i
  /\ \A x \in k.qdiscs : x.on # i
  /\ \A x \in k.filters : x.on # i
  /\ \A x \in k.fdb : x.on # i

NoPort(k, i) == \A x \in k.ports : x.port # i

\* Deleting a link restores the kernel that did not have it, whatever was
\* put on the link meanwhile.
LEMMA DeleteRestores ==
  ASSUME NEW k, IsKernel(k), NEW i, Fresh(k, i), NEW K,
         K.links \ {i} = k.links, K.up \ {i} = k.up,
         {x \in K.ports : x.port # i /\ x.bridge # i} = k.ports,
         {x \in K.qdiscs : x.on # i} = k.qdiscs,
         {x \in K.filters : x.on # i} = k.filters,
         {x \in K.fdb : x.on # i} = k.fdb
  PROVE  LinkDelete(K, i) = k
BY DEF IsKernel, LinkDelete

(***************************************************************************)
(* The operations, from calls to the operations of the network types.  The *)
(* result of an operation that ended with no error is the kernel k and the *)
(* refcount n; one that ended with an error changed nothing.               *)
(***************************************************************************)
Outcome(w, r, k, n) ==
  /\ IsOp(r)
  /\ r.err = "OK"  => r.k = k /\ r.refcount = n
  /\ r.err = "ERR" => r.k = w.k /\ r.refcount = w.refcount

\* An operation starts with what the kernel and the counter are.
LEMMA Starts ==
  \A R : /\ IsOp(Op(R)) /\ Op(R).err = "OK"
         /\ Op(R).k = kernel /\ Op(R).refcount = refcount
BY DEF IsOp, Op

\* A call that is refused changes nothing.
LEMMA CallOutcome ==
  ASSUME NEW w, IsOp(w), w.err = "OK", NEW name, NEW k
  PROVE  Outcome(w, Call(w, name, k), k, w.refcount)
BY CallSteps DEF Outcome

BridgeMade(k, a) == SetUp(AddLink(k, Bridge(a)), Bridge(a))

\* lsdn_lbridge_init makes a bridge, or leaves the kernel as it was.
LEMMA InitBridgeOutcome ==
  ASSUME NEW w, IsOp(w), NEW a
  PROVE  /\ Init_bridge(w, a).refcount = w.refcount
         /\ IsOp(Init_bridge(w, a))
         /\ w.err # "OK" => Init_bridge(w, a) = w
         /\ w.err = "OK" /\ IsKernel(w.k) /\ Fresh(w.k, Bridge(a)) =>
              Outcome(w, Init_bridge(w, a), BridgeMade(w.k, a), w.refcount)
<1> DEFINE k1 == AddLink(w.k, Bridge(a))
           w1 == Call(w, "bridge", k1)
           w2 == Call(w1, "bridge_up", SetUp(w1.k, Bridge(a)))
           w3 == Undo(w2, "-bridge", LinkDelete(w2.k, Bridge(a)))
<1>1. Init_bridge(w, a) =
        IF w.err = "OK" /\ w1.err = "OK" /\ w2.err # "OK" THEN w3 ELSE w2
  BY DEF Init_bridge, AddLink, SetUp
<1>2. /\ IsOp(w1) /\ w1.refcount = w.refcount
      /\ w.err # "OK" => w1 = w
      /\ w1.err = "OK" => w1.k = k1
      /\ w.err = "OK" => w1.err \in {"OK", "ERR"}
      /\ w.err = "OK" /\ w1.err # "OK" => w1.k = w.k
  BY CallSteps
<1> HIDE DEF w1
<1>3. /\ IsOp(w2) /\ w2.refcount = w1.refcount
      /\ w1.err # "OK" => w2 = w1
      /\ w2.err = "OK" => w1.err = "OK" /\ w2.k = SetUp(w1.k, Bridge(a))
      /\ w1.err = "OK" /\ w2.err # "OK" => w2.k = w1.k
  BY <1>2, CallSteps
<1> HIDE DEF w2
<1>4. /\ IsOp(w3) /\ w3.refcount = w2.refcount
      /\ w2.err # "OK" => w3.err # "OK"
      /\ w3.err = "ERR" => w3.k = LinkDelete(w2.k, Bridge(a))
  BY <1>3, UndoSteps
<1> HIDE DEF w3
<1>5. ASSUME IsKernel(w.k), Fresh(w.k, Bridge(a))
      PROVE  LinkDelete(k1, Bridge(a)) = w.k
  BY <1>5, Changes, DeleteRestores DEF Fresh
<1> QED BY <1>1, <1>2, <1>3, <1>4, <1>5 DEF Outcome, BridgeMade

PortMade(k, a, i) == SetUp(SetMaster(k, Bridge(a), i), i)

\* lsdn_lbridge_add makes a port, or leaves the kernel as it was.
LEMMA AddOutcome ==
  ASSUME NEW w, IsOp(w), NEW a \in Pas, NEW i
  PROVE  /\ Add(w, a, i).refcount = w.refcount
         /\ IsOp(Add(w, a, i))
         /\ w.err # "OK" => Add(w, a, i) = w
         /\ w.err = "OK" /\ IsKernel(w.k) /\ NoPort(w.k, i) =>
              Outcome(w, Add(w, a, i), PortMade(w.k, a, i), w.refcount)
<1> DEFINE k1 == SetMaster(w.k, Bridge(a), i)
           w1 == Call(w, "port", k1)
           w2 == Call(w1, "port_up", SetUp(w1.k, i))
           w3 == Undo(w2, "-port", SetMaster(w2.k, NULL, i))
<1>1. Add(w, a, i) =
        IF w.err = "OK" /\ w1.err = "OK" /\ w2.err # "OK" THEN w3 ELSE w2
  BY SMTT(30) DEF Add, SetUp
<1>2. /\ IsOp(w1) /\ w1.refcount = w.refcount
      /\ w.err # "OK" => w1 = w
      /\ w1.err = "OK" => w1.k = k1
      /\ w.err = "OK" => w1.err \in {"OK", "ERR"}
      /\ w.err = "OK" /\ w1.err # "OK" => w1.k = w.k
  BY CallSteps
<1> HIDE DEF w1
<1>3. /\ IsOp(w2) /\ w2.refcount = w1.refcount
      /\ w1.err # "OK" => w2 = w1
      /\ w2.err = "OK" => w1.err = "OK" /\ w2.k = SetUp(w1.k, i)
      /\ w1.err = "OK" /\ w2.err # "OK" => w2.k = w1.k
  BY <1>2, CallSteps
<1> HIDE DEF w2
<1>4. /\ IsOp(w3) /\ w3.refcount = w2.refcount
      /\ w2.err # "OK" => w3.err # "OK"
      /\ w3.err = "ERR" => w3.k = SetMaster(w2.k, NULL, i)
  BY <1>3, UndoSteps
<1> HIDE DEF w3
<1>5. ASSUME IsKernel(w.k), NoPort(w.k, i)
      PROVE  SetMaster(k1, NULL, i) = w.k
  <2>1. IsKernel(k1) /\ k1.ports = w.k.ports \cup {Port(i, a)}
    BY <1>5, Masters DEF IsKernel, NoPort
  <2>2. {x \in k1.ports : x.port # i} = w.k.ports
    BY <1>5, <2>1, Items DEF NoPort
  <2>3. /\ k1.links = w.k.links /\ k1.up = w.k.up /\ k1.qdiscs = w.k.qdiscs
        /\ k1.filters = w.k.filters /\ k1.fdb = w.k.fdb
    BY <1>5, Masters
  <2> HIDE DEF k1
  <2>4. SetMaster(k1, NULL, i) =
          [links |-> k1.links, ports |-> {x \in k1.ports : x.port # i},
           up |-> k1.up, qdiscs |-> k1.qdiscs, filters |-> k1.filters, fdb |-> k1.fdb]
    BY <2>1, Masters
  <2> QED BY <1>5, <2>2, <2>3, <2>4 DEF IsKernel
<1> QED BY <1>1, <1>2, <1>3, <1>4, <1>5 DEF Outcome, PortMade

\* The parts of the kernel once a bridge, and a port, is made.
LEMMA MadeParts ==
  ASSUME NEW k, IsKernel(k), NEW a \in Pas, NEW i
  PROVE  /\ BridgeMade(k, a) =
              [links |-> k.links \cup {Bridge(a)}, ports |-> k.ports,
               up |-> k.up \cup {Bridge(a)}, qdiscs |-> k.qdiscs, filters |-> k.filters,
               fdb |-> k.fdb]
         /\ IsKernel(BridgeMade(k, a))
         /\ PortMade(k, a, i) =
              [links |-> k.links, ports |-> {x \in k.ports : x.port # i} \cup {Port(i, a)},
               up |-> k.up \cup {i}, qdiscs |-> k.qdiscs, filters |-> k.filters,
               fdb |-> k.fdb]
         /\ IsKernel(PortMade(k, a, i))
<1>1. BridgeMade(k, a) =
              [links |-> k.links \cup {Bridge(a)}, ports |-> k.ports,
               up |-> k.up \cup {Bridge(a)}, qdiscs |-> k.qdiscs, filters |-> k.filters,
               fdb |-> k.fdb]
  <2> DEFINE K == AddLink(k, Bridge(a))
  <2>1. K = [links |-> k.links \cup {Bridge(a)}, ports |-> k.ports, up |-> k.up,
              qdiscs |-> k.qdiscs, filters |-> k.filters, fdb |-> k.fdb]
    BY Changes
  <2> HIDE DEF K
  <2>2. IsKernel(K)
    BY <2>1 DEF IsKernel
  <2>3. SetUp(K, Bridge(a)) =
          [links |-> K.links, ports |-> K.ports, up |-> K.up \cup {Bridge(a)},
           qdiscs |-> K.qdiscs, filters |-> K.filters, fdb |-> K.fdb]
    BY <2>2, Changes
  <2> QED BY <2>1, <2>3 DEF BridgeMade, K
<1>2. PortMade(k, a, i) =
              [links |-> k.links, ports |-> {x \in k.ports : x.port # i} \cup {Port(i, a)},
               up |-> k.up \cup {i}, qdiscs |-> k.qdiscs, filters |-> k.filters,
               fdb |-> k.fdb]
  <2> DEFINE K == SetMaster(k, Bridge(a), i)
  <2>1. K = [links |-> k.links, ports |-> {x \in k.ports : x.port # i} \cup {Port(i, a)},
             up |-> k.up, qdiscs |-> k.qdiscs, filters |-> k.filters, fdb |-> k.fdb]
    BY Masters
  <2> HIDE DEF K
  <2>2. IsKernel(K)
    BY <2>1 DEF IsKernel
  <2>3. SetUp(K, i) = [links |-> K.links, ports |-> K.ports, up |-> K.up \cup {i},
              qdiscs |-> K.qdiscs, filters |-> K.filters, fdb |-> K.fdb]
    BY <2>2, Changes
  <2> QED BY <2>1, <2>3 DEF PortMade, K
<1>3. IsKernel(BridgeMade(k, a))
  BY <1>1 DEF IsKernel
<1>4. IsKernel(PortMade(k, a, i))
  BY <1>2 DEF IsKernel
<1> QED BY <1>1, <1>2, <1>3, <1>4

LbridgeMade(k, a) == PortMade(BridgeMade(k, a), a, TunnelIf(a))

\* lsdn_lbridge_create_pa makes the bridge and the port of the PA, or leaves
\* the kernel as it was.
LEMMA LbridgeCreateOutcome ==
  ASSUME NEW w, IsOp(w), NEW a \in Pas
  PROVE  /\ IsOp(Lbridge_create_pa(w, a))
         /\ w.err # "OK" => Lbridge_create_pa(w, a) = w
         /\ w.err = "OK" /\ IsKernel(w.k) /\ Fresh(w.k, Bridge(a)) /\ NoPort(w.k, TunnelIf(a))
              => Outcome(w, Lbridge_create_pa(w, a), LbridgeMade(w.k, a), w.refcount)
<1> DEFINE i  == TunnelIf(a)
           w1 == Init_bridge(w, a)
           w2 == Add(w1, a, i)
           w3 == Free_bridge(w2, a)
<1>1. Lbridge_create_pa(w, a) = IF w1.err = "OK" /\ w2.err # "OK" THEN w3 ELSE w2
  BY DEF Lbridge_create_pa
<1>2. /\ IsOp(w1) /\ w1.refcount = w.refcount
      /\ w.err # "OK" => w1 = w
  BY InitBridgeOutcome
<1>3. IsOp(w2) /\ w2.refcount = w1.refcount /\ (w1.err # "OK" => w2 = w1)
  <2> HIDE DEF w1
  <2> QED BY <1>2, AddOutcome
<1>4. /\ IsOp(w3) /\ w3.refcount = w2.refcount
      /\ w2.err # "OK" => w3.err # "OK"
      /\ w3.err = "ERR" => w2.err = "ERR" /\ w3.k = LinkDelete(w2.k, Bridge(a))
  <2> HIDE DEF w2
  <2> QED BY <1>3, UndoSteps DEF Free_bridge
<1>5. ASSUME w.err = "OK", IsKernel(w.k), Fresh(w.k, Bridge(a)), NoPort(w.k, i)
      PROVE  Outcome(w, Lbridge_create_pa(w, a), LbridgeMade(w.k, a), w.refcount)
  <2>1. Outcome(w, w1, BridgeMade(w.k, a), w.refcount)
    BY <1>5, InitBridgeOutcome
  <2>2. IsKernel(BridgeMade(w.k, a)) /\ NoPort(BridgeMade(w.k, a), i)
    BY <1>5, MadeParts DEF NoPort
  <2>3. w1.err = "OK" => Outcome(w1, w2, LbridgeMade(w.k, a), w1.refcount)
    <3> HIDE DEF w1
    <3> QED BY <1>2, <2>1, <2>2, AddOutcome DEF Outcome, LbridgeMade
  <2>4. LinkDelete(BridgeMade(w.k, a), Bridge(a)) = w.k
    BY <1>5, MadeParts, DeleteRestores DEF Fresh
  <2> HIDE DEF w1, w2, w3
  <2> QED BY <1>1, <1>2, <1>3, <1>4, <2>1, <2>3, <2>4 DEF Outcome
<1> HIDE DEF w1, w2, w3
<1> QED BY <1>1, <1>2, <1>3, <1>4, <1>5

TunnelMade(k, a) == LbridgeMade(AddLink(k, Tunnel(a)), a)

\* vlan_create_pa, vxlan_mcast_create_pa and vxlan_e2e_create_pa make the
\* tunnel, the bridge and the port, or leave the kernel as it was.
LEMMA TunnelCreateOutcome ==
  ASSUME NEW w, IsOp(w), w.err = "OK", IsKernel(w.k), NEW a \in Pas, TypeOf[a] # "direct",
         Fresh(w.k, Bridge(a)), Fresh(w.k, Tunnel(a))
  PROVE  Outcome(w, Tunnel_create_pa(w, a), TunnelMade(w.k, a), w.refcount)
<1> DEFINE k1 == AddLink(w.k, Tunnel(a))
           w1 == Call(w, "tunnel", k1)
           w2 == Lbridge_create_pa(w1, a)
           w3 == Undo(w2, "-tunnel", LinkDelete(w2.k, Tunnel(a)))
<1>1. Tunnel_create_pa(w, a) = IF w1.err = "OK" /\ w2.err # "OK" THEN w3 ELSE w2
  BY DEF Tunnel_create_pa, AddLink
<1>2. Outcome(w, w1, k1, w.refcount)
  BY CallOutcome
<1>3. /\ k1 = [links |-> w.k.links \cup {Tunnel(a)}, ports |-> w.k.ports, up |-> w.k.up,
               qdiscs |-> w.k.qdiscs, filters |-> w.k.filters, fdb |-> w.k.fdb]
      /\ TunnelIf(a) = Tunnel(a)
  BY Changes DEF TunnelIf
<1>4. IsKernel(k1) /\ Fresh(k1, Bridge(a)) /\ NoPort(k1, TunnelIf(a))
  BY <1>3, Names DEF IsKernel, Fresh, NoPort
<1>5. LinkDelete(k1, Tunnel(a)) = w.k
  BY <1>3, DeleteRestores DEF Fresh
<1> HIDE DEF w1, k1
<1>6. /\ IsOp(w2) /\ (w1.err # "OK" => w2 = w1)
      /\ w1.err = "OK" => Outcome(w1, w2, LbridgeMade(k1, a), w1.refcount)
  BY <1>2, <1>4, LbridgeCreateOutcome DEF Outcome
<1> HIDE DEF w2
<1>7. /\ IsOp(w3) /\ w3.refcount = w2.refcount
      /\ w2.err # "OK" => w3.err # "OK"
      /\ w3.err = "ERR" => w2.err = "ERR" /\ w3.k = LinkDelete(w2.k, Tunnel(a))
  BY <1>6, UndoSteps
<1> HIDE DEF w3
<1> QED BY <1>1, <1>2, <1>5, <1>6, <1>7 DEF Outcome, TunnelMade, k1

\* direct_create_pa makes the interface a port of a new bridge, or leaves the
\* kernel as it was; with no error only if there is such an interface.
LEMMA DirectCreateOutcome ==
  ASSUME NEW w, IsOp(w), w.err = "OK", IsKernel(w.k), NEW a \in Pas, TypeOf[a] = "direct",
         Fresh(w.k, Bridge(a)), NoPort(w.k, PhysIf(a))
  PROVE  /\ Outcome(w, Direct_create_pa(w, a), LbridgeMade(w.k, a), w.refcount)
         /\ Direct_create_pa(w, a).err = "OK" => PhysIf(a) \in w.k.links
<1>1. CASE PhysIf(a) \notin w.k.links
  BY <1>1 DEF Direct_create_pa, IsOp, Outcome
<1>2. CASE PhysIf(a) \in w.k.links
  <2>1. TunnelIf(a) = PhysIf(a)
    BY DEF TunnelIf
  <2> QED BY <1>2, <2>1, LbridgeCreateOutcome DEF Direct_create_pa
<1> QED BY <1>1, <1>2

\* lsdn_prepare_rulesets' ingress qdisc: made, or abort.
LEMMA InQdiscSteps ==
  ASSUME NEW w, IsOp(w), NEW i
  PROVE  /\ IsOp(In_qdisc(w, i)) /\ In_qdisc(w, i).refcount = w.refcount
         /\ w.err # "OK" => In_qdisc(w, i) = w
         /\ w.err = "OK" => In_qdisc(w, i).err \in {"OK", "ABORT"}
         /\ In_qdisc(w, i).err = "OK" =>
              w.err = "OK" /\ In_qdisc(w, i).k = AddQdisc(w.k, Qdisc(i, "in"))
<1> DEFINE w1 == Call(w, "in_qdisc", AddQdisc(w.k, Qdisc(i, "in")))
<1>1. In_qdisc(w, i) = IF w.err = "OK" /\ w1.err # "OK" THEN [w1 EXCEPT !.err = "ABORT"] ELSE w1
  BY DEF In_qdisc, AddQdisc
<1>2. /\ IsOp(w1) /\ w1.refcount = w.refcount
      /\ w.err # "OK" => w1 = w
      /\ w1.err = "OK" => w.err = "OK" /\ w1.k = AddQdisc(w.k, Qdisc(i, "in"))
  BY CallSteps
<1> HIDE DEF w1
<1>3. /\ IsOp([w1 EXCEPT !.err = "ABORT"]) /\ [w1 EXCEPT !.err = "ABORT"].err = "ABORT"
      /\ [w1 EXCEPT !.err = "ABORT"].refcount = w1.refcount
  BY <1>2 DEF IsOp
<1> QED BY <1>1, <1>2, <1>3

StunnelMade(k) ==
  SetUp(AddQdisc(SetUp(AddLink(k, Stunnel), Stunnel), Qdisc(Stunnel, "in")), Stunnel)

\* The parts of the kernel once the shared tunnel is made, and that its
\* deletion undoes all of it.
LEMMA StunnelParts ==
  ASSUME NEW k, IsKernel(k)
  PROVE  /\ StunnelMade(k) =
              [links |-> k.links \cup {Stunnel}, ports |-> k.ports,
               up |-> k.up \cup {Stunnel}, qdiscs |-> k.qdiscs \cup {Qdisc(Stunnel, "in")},
               filters |-> k.filters, fdb |-> k.fdb]
         /\ IsKernel(StunnelMade(k))
         /\ Fresh(k, Stunnel) =>
              /\ LinkDelete(AddLink(k, Stunnel), Stunnel) = k
              /\ LinkDelete(SetUp(AddLink(k, Stunnel), Stunnel), Stunnel) = k
              /\ LinkDelete(AddQdisc(SetUp(AddLink(k, Stunnel), Stunnel),
                                     Qdisc(Stunnel, "in")), Stunnel) = k
              /\ LinkDelete(StunnelMade(k), Stunnel) = k
<1> DEFINE q  == Qdisc(Stunnel, "in")
           k1 == AddLink(k, Stunnel)
           k2 == SetUp(k1, Stunnel)
           k3 == AddQdisc(k2, q)
           k4 == SetUp(k3, Stunnel)
<1>1. k1 = [links |-> k.links \cup {Stunnel}, ports |-> k.ports, up |-> k.up,
            qdiscs |-> k.qdiscs, filters |-> k.filters, fdb |-> k.fdb]
  BY Changes
<1> HIDE DEF k1
<1>2. IsKernel(k1)
  BY <1>1 DEF IsKernel
<1>3. k2 = [links |-> k1.links, ports |-> k1.ports, up |-> k1.up \cup {Stunnel},
            qdiscs |-> k1.qdiscs, filters |-> k1.filters, fdb |-> k1.fdb]
  BY <1>2, Changes
<1> HIDE DEF k2
<1>4. IsKernel(k2)
  BY <1>3 DEF IsKernel
<1>5. k3 = [links |-> k2.links, ports |-> k2.ports, up |-> k2.up,
            qdiscs |-> k2.qdiscs \cup {q}, filters |-> k2.filters, fdb |-> k2.fdb]
  BY <1>4, Changes
<1> HIDE DEF k3
<1>6. IsKernel(k3)
  BY <1>5 DEF IsKernel
<1>7. k4 = [links |-> k3.links, ports |-> k3.ports, up |-> k3.up \cup {Stunnel},
            qdiscs |-> k3.qdiscs, filters |-> k3.filters, fdb |-> k3.fdb]
  BY <1>6, Changes
<1> HIDE DEF k4
<1>8. k4 = [links |-> k.links \cup {Stunnel}, ports |-> k.ports, up |-> k.up \cup {Stunnel},
            qdiscs |-> k.qdiscs \cup {q}, filters |-> k.filters, fdb |-> k.fdb]
  BY <1>1, <1>3, <1>5, <1>7
<1>9. IsKernel(k4)
  BY <1>8 DEF IsKernel
<1>10. q.on = Stunnel
  BY Items
<1> HIDE DEF q
<1>11. ASSUME Fresh(k, Stunnel) PROVE LinkDelete(k1, Stunnel) = k
  BY <1>1, <1>11, DeleteRestores DEF Fresh
<1>12. ASSUME Fresh(k, Stunnel) PROVE LinkDelete(k2, Stunnel) = k
  BY <1>1, <1>3, <1>12, DeleteRestores DEF Fresh
<1>13. ASSUME Fresh(k, Stunnel) PROVE LinkDelete(k3, Stunnel) = k
  BY <1>1, <1>3, <1>5, <1>10, <1>13, DeleteRestores DEF Fresh
<1>14. ASSUME Fresh(k, Stunnel) PROVE LinkDelete(k4, Stunnel) = k
  BY <1>8, <1>10, <1>14, DeleteRestores DEF Fresh
<1>15. StunnelMade(k) = k4
  BY DEF StunnelMade, k4, k3, k2, k1, q
<1> QED BY <1>8, <1>9, <1>11, <1>12, <1>13, <1>14, <1>15 DEF k3, k2, k1, q

\* geneve_use_stunnel counts one more user of the tunnel, which it makes for
\* the first, or leaves the kernel and the counter as they were.
LEMMA UseStunnelOutcome ==
  ASSUME NEW w, IsOp(w), w.err = "OK", w.refcount \in Nat, IsKernel(w.k),
         w.refcount = 0 => Fresh(w.k, Stunnel)
  PROVE  Outcome(w, Use_stunnel(w), IF w.refcount > 0 THEN w.k ELSE StunnelMade(w.k),
                 w.refcount + 1)
<1> DEFINE k1 == AddLink(w.k, Stunnel)
           w1 == Call(w, "tunnel", k1)
           w2 == Call(w1, "tunnel_up", SetUp(w1.k, Stunnel))
           w3 == In_qdisc(w2, Stunnel)
           w4 == Call(w3, "tunnel_up_again", SetUp(w3.k, Stunnel))
           w5 == Undo(w4, "-tunnel", LinkDelete(w4.k, Stunnel))
           w6 == IF w.refcount > 0 THEN w
                 ELSE IF w1.err = "OK" /\ w4.err # "OK" THEN w5 ELSE w4
<1>1. Use_stunnel(w) = IF w6.err = "OK" THEN [w6 EXCEPT !.refcount = @ + 1] ELSE w6
  BY DEF Use_stunnel, AddLink, SetUp
<1>2. Outcome(w, w6, IF w.refcount > 0 THEN w.k ELSE StunnelMade(w.k), w.refcount)
  <2>1. CASE w.refcount > 0
    BY <2>1 DEF Outcome
  <2>2. CASE ~(w.refcount > 0)
    <3>1. /\ IsOp(w1) /\ w1.refcount = w.refcount
          /\ w1.err \in {"OK", "ERR"}
          /\ w1.err = "OK" => w1.k = k1
          /\ w1.err # "OK" => w1.k = w.k
      BY CallSteps
    <3> HIDE DEF w1
    <3>2. /\ IsOp(w2) /\ w2.refcount = w1.refcount
          /\ w1.err # "OK" => w2 = w1
          /\ w2.err = "OK" => w1.err = "OK" /\ w2.k = SetUp(w1.k, Stunnel)
          /\ w1.err = "OK" /\ w2.err # "OK" => w2.k = w1.k
      BY <3>1, CallSteps
    <3> HIDE DEF w2
    <3>3. /\ IsOp(w3) /\ w3.refcount = w2.refcount
          /\ w2.err # "OK" => w3 = w2
          /\ w2.err = "OK" => w3.err \in {"OK", "ABORT"}
          /\ w3.err = "OK" => w2.err = "OK" /\ w3.k = AddQdisc(w2.k, Qdisc(Stunnel, "in"))
      BY <3>2, InQdiscSteps
    <3> HIDE DEF w3
    <3>4. /\ IsOp(w4) /\ w4.refcount = w3.refcount
          /\ w3.err # "OK" => w4 = w3
          /\ w4.err = "OK" => w3.err = "OK" /\ w4.k = SetUp(w3.k, Stunnel)
          /\ w3.err = "OK" /\ w4.err # "OK" => w4.k = w3.k
      BY <3>3, CallSteps
    <3> HIDE DEF w4
    <3>5. /\ IsOp(w5) /\ w5.refcount = w4.refcount
          /\ w4.err # "OK" => w5.err # "OK"
          /\ w5.err = "ERR" => w4.err = "ERR" /\ w5.k = LinkDelete(w4.k, Stunnel)
      BY <3>4, UndoSteps
    <3> HIDE DEF w5
    <3>6. Fresh(w.k, Stunnel)
      BY <2>2
    <3>7. w1.err = "OK" /\ w4.err = "ERR" => LinkDelete(w4.k, Stunnel) = w.k
      BY <3>1, <3>2, <3>3, <3>4, <3>6, StunnelParts
    <3>8. w4.err = "OK" => w4.k = StunnelMade(w.k)
      BY <3>1, <3>2, <3>3, <3>4 DEF StunnelMade
    <3> QED BY <2>2, <3>1, <3>2, <3>3, <3>4, <3>5, <3>7, <3>8 DEF Outcome
  <2> QED BY <2>1, <2>2
<1> HIDE DEF w6
<1>3. IsOp(w6) /\ w6.err = "OK" =>
        /\ IsOp([w6 EXCEPT !.refcount = @ + 1])
        /\ [w6 EXCEPT !.refcount = @ + 1].refcount = w6.refcount + 1
        /\ [w6 EXCEPT !.refcount = @ + 1].k = w6.k
        /\ [w6 EXCEPT !.refcount = @ + 1].err = "OK"
  BY DEF IsOp
<1> QED BY <1>1, <1>2, <1>3 DEF Outcome

\* geneve_release_stunnel counts one user less and deletes the tunnel after
\* the last; it aborts rather than to fail.
LEMMA ReleaseSteps ==
  ASSUME NEW w, IsOp(w)
  PROVE  LET r == Release_stunnel(w) IN
         /\ IsOp(r) /\ r.refcount = w.refcount - 1 /\ r.err \in {w.err, "ABORT"}
         /\ r.err # "ABORT" =>
              r.k = IF w.refcount - 1 > 0 THEN w.k ELSE LinkDelete(w.k, Stunnel)
BY DEF Release_stunnel, IsOp

GeneveMade(k, n, a) == BridgeMade(IF n > 0 THEN k ELSE StunnelMade(k), a)

\* geneve_e2e_create_pa counts a user of the tunnel and makes the bridge, or
\* leaves the kernel and the counter as they were.
LEMMA GeneveCreateOutcome ==
  ASSUME NEW w, IsOp(w), w.err = "OK", w.refcount \in Nat, IsKernel(w.k), NEW a \in Pas,
         w.refcount = 0 => Fresh(w.k, Stunnel), Fresh(w.k, Bridge(a))
  PROVE  Outcome(w, Geneve_e2e_create_pa(w, a), GeneveMade(w.k, w.refcount, a), w.refcount + 1)
<1> DEFINE k1 == IF w.refcount > 0 THEN w.k ELSE StunnelMade(w.k)
           w1 == Use_stunnel(w)
           w2 == Init_bridge(w1, a)
           w3 == Release_stunnel(w2)
<1>1. Geneve_e2e_create_pa(w, a) = IF w1.err = "OK" /\ w2.err # "OK" THEN w3 ELSE w2
  BY DEF Geneve_e2e_create_pa
<1>2. Outcome(w, w1, k1, w.refcount + 1)
  BY UseStunnelOutcome
<1> HIDE DEF w1
<1>3. IsKernel(k1) /\ Fresh(k1, Bridge(a))
  <2>1. Fresh(StunnelMade(w.k), Bridge(a)) /\ IsKernel(StunnelMade(w.k))
    BY StunnelParts, Names, Items DEF Fresh
  <2> QED BY <2>1
<1>4. LinkDelete(k1, Stunnel) = w.k \/ w.refcount > 0
  BY StunnelParts
<1> HIDE DEF k1
<1>5. /\ IsOp(w2) /\ w2.refcount = w1.refcount /\ (w1.err # "OK" => w2 = w1)
      /\ w1.err = "OK" => Outcome(w1, w2, BridgeMade(k1, a), w1.refcount)
  BY <1>2, <1>3, InitBridgeOutcome DEF Outcome
<1> HIDE DEF w2
<1>6. /\ IsOp(w3) /\ w3.refcount = w2.refcount - 1 /\ w3.err \in {w2.err, "ABORT"}
      /\ w3.err # "ABORT" =>
           w3.k = IF w2.refcount - 1 > 0 THEN w2.k ELSE LinkDelete(w2.k, Stunnel)
  BY <1>5, ReleaseSteps
<1> HIDE DEF w3
<1>7. CASE w1.err = "OK" /\ w2.err # "OK"
  <2>1. w2.refcount = w.refcount + 1 /\ (w2.err = "ERR" => w2.k = k1)
    BY <1>2, <1>5, <1>7 DEF Outcome
  <2>2. w.refcount + 1 - 1 = w.refcount
    OBVIOUS
  <2>3. w3.err = "ERR" => w3.k = w.k /\ w3.refcount = w.refcount
    BY <1>4, <1>6, <2>1, <2>2 DEF k1
  <2> QED BY <1>1, <1>6, <1>7, <2>3 DEF Outcome
<1>8. CASE ~(w1.err = "OK" /\ w2.err # "OK")
  <2>1. Geneve_e2e_create_pa(w, a) = w2
    BY <1>1, <1>8
  <2>2. GeneveMade(w.k, w.refcount, a) = BridgeMade(k1, a)
    BY DEF GeneveMade, k1
  <2> QED BY <1>2, <1>5, <1>8, <2>1, <2>2 DEF Outcome
<1> QED BY <1>7, <1>8

(***************************************************************************)
(* Operations that remove: with no error every call was made.  They never  *)
(* end with an error that has changed nothing, only inconsistent or abort. *)
(***************************************************************************)
LbridgeUnmade(k, a) ==
  LinkDelete(LinkDelete(SetMaster(k, NULL, TunnelIf(a)), Bridge(a)), TunnelIf(a))

\* lsdn_lbridge_destroy_pa with the deletion of the tunnel.
LEMMA LbridgeDestroySteps ==
  ASSUME NEW w, IsOp(w), w.err = "OK", NEW a
  PROVE  LET r == Lbridge_destroy_pa(w, a) IN
         /\ IsOp(r) /\ r.refcount = w.refcount /\ r.err # "ERR"
         /\ r.err = "OK" => r.k = LbridgeUnmade(w.k, a)
<1> DEFINE i  == TunnelIf(a)
           w1 == Undo(w, "-port", SetMaster(w.k, NULL, i))
           w2 == Undo(w1, "-bridge", LinkDelete(w1.k, Bridge(a)))
           w3 == Undo(w2, "-tunnel", LinkDelete(w2.k, i))
<1>1. Lbridge_destroy_pa(w, a) = w3
  BY DEF Lbridge_destroy_pa, Remove, Free_bridge
<1>2. /\ IsOp(w1) /\ w1.refcount = w.refcount /\ w1.err \in {"OK", "INCONSISTENT"}
      /\ w1.err = "OK" => w1.k = SetMaster(w.k, NULL, i)
  BY UndoSteps
<1> HIDE DEF w1
<1>3. /\ IsOp(w2) /\ w2.refcount = w1.refcount /\ w2.err \in {"OK", "INCONSISTENT"}
      /\ w2.err = "OK" => w1.err = "OK" /\ w2.k = LinkDelete(w1.k, Bridge(a))
  BY <1>2, UndoSteps
<1> HIDE DEF w2
<1>4. /\ IsOp(w3) /\ w3.refcount = w2.refcount /\ w3.err \in {"OK", "INCONSISTENT"}
      /\ w3.err = "OK" => w2.err = "OK" /\ w3.k = LinkDelete(w2.k, i)
  BY <1>3, UndoSteps
<1> HIDE DEF w3
<1> QED BY <1>1, <1>2, <1>3, <1>4 DEF LbridgeUnmade

GeneveUnmade(k, n, a) ==
  IF n - 1 > 0 THEN LinkDelete(k, Bridge(a)) ELSE LinkDelete(LinkDelete(k, Bridge(a)), Stunnel)

\* geneve_e2e_destroy_pa
LEMMA GeneveDestroySteps ==
  ASSUME NEW w, IsOp(w), w.err = "OK", NEW a
  PROVE  LET r == Geneve_e2e_destroy_pa(w, a) IN
         /\ IsOp(r) /\ r.refcount = w.refcount - 1 /\ r.err # "ERR"
         /\ r.err = "OK" => r.k = GeneveUnmade(w.k, w.refcount, a)
<1> DEFINE w1 == Undo(w, "-bridge", LinkDelete(w.k, Bridge(a)))
           w2 == Release_stunnel(w1)
<1>1. Geneve_e2e_destroy_pa(w, a) = w2
  BY DEF Geneve_e2e_destroy_pa, Free_bridge
<1>2. /\ IsOp(w1) /\ w1.refcount = w.refcount /\ w1.err \in {"OK", "INCONSISTENT"}
      /\ w1.err = "OK" => w1.k = LinkDelete(w.k, Bridge(a))
  BY UndoSteps
<1> HIDE DEF w1
<1>3. /\ IsOp(w2) /\ w2.refcount = w1.refcount - 1 /\ w2.err \in {w1.err, "ABORT"}
      /\ w2.err # "ABORT" =>
           w2.k = IF w1.refcount - 1 > 0 THEN w1.k ELSE LinkDelete(w1.k, Stunnel)
  BY <1>2, ReleaseSteps
<1> HIDE DEF w2
<1> QED BY <1>1, <1>2, <1>3 DEF GeneveUnmade

NoQdisc(k, q)  == [k EXCEPT !.qdiscs = @ \ {q}]
NoFilter(k, f) == [k EXCEPT !.filters = @ \ {f}]

\* What taking away a qdisc and a filter does to the parts of the kernel.
LEMMA Removals ==
  ASSUME NEW k, IsKernel(k), NEW i
  PROVE  /\ NoQdisc(k, i) = [links |-> k.links, ports |-> k.ports, up |-> k.up,
              qdiscs |-> k.qdiscs \ {i}, filters |-> k.filters, fdb |-> k.fdb]
         /\ NoFilter(k, i) = [links |-> k.links, ports |-> k.ports, up |-> k.up,
              qdiscs |-> k.qdiscs, filters |-> k.filters \ {i}, fdb |-> k.fdb]
BY DEF IsKernel, NoQdisc, NoFilter

\* lsdn_cleanup_rulesets takes away the qdiscs.
LEMMA CleanupSteps ==
  ASSUME NEW w, IsOp(w), NEW i
  PROVE  /\ LET r == Cleanup_rulesets(w, i, {"in", "out"}) IN
            /\ IsOp(r) /\ r.refcount = w.refcount /\ r.err \in {w.err, "INCONSISTENT"}
            /\ r.err \in {"OK", "ERR"} => 
                 /\ r.err = w.err
                 /\ r.k = NoQdisc(NoQdisc(w.k, Qdisc(i, "out")), Qdisc(i, "in"))
         /\ LET r == Cleanup_rulesets(w, i, {"out"}) IN
            /\ IsOp(r) /\ r.refcount = w.refcount /\ r.err \in {w.err, "INCONSISTENT"}
            /\ r.err \in {"OK", "ERR"} =>
                 r.err = w.err /\ r.k = NoQdisc(w.k, Qdisc(i, "out"))
<1> DEFINE w1 == Undo(w, "-out_qdisc", NoQdisc(w.k, Qdisc(i, "out")))
           w2 == Undo(w1, "-in_qdisc", NoQdisc(w1.k, Qdisc(i, "in")))
<1>1. /\ Cleanup_rulesets(w, i, {"in", "out"}) = w2
      /\ Cleanup_rulesets(w, i, {"out"}) = w1
  BY DEF Cleanup_rulesets, NoQdisc
<1>2. /\ IsOp(w1) /\ w1.refcount = w.refcount /\ w1.err \in {w.err, "INCONSISTENT"}
      /\ w1.err \in {"OK", "ERR"} => w1.err = w.err /\ w1.k = NoQdisc(w.k, Qdisc(i, "out"))
  BY UndoSteps
<1> HIDE DEF w1
<1>3. /\ IsOp(w2) /\ w2.refcount = w1.refcount /\ w2.err \in {w1.err, "INCONSISTENT"}
      /\ w2.err \in {"OK", "ERR"} => w2.err = w1.err /\ w2.k = NoQdisc(w1.k, Qdisc(i, "in"))
  BY <1>2, UndoSteps
<1> HIDE DEF w2
<1> QED BY <1>1, <1>2, <1>3

QdiscsMade(k, i) == AddQdisc(AddQdisc(k, Qdisc(i, "out")), Qdisc(i, "in"))

VirtMade(k, v) == PortMade(QdiscsMade(k, VirtIf(v)), PaOf[v], VirtIf(v))

\* The parts of the kernel once the qdiscs of an interface are made, and that
\* the cleanup takes them away again.
LEMMA QdiscParts ==
  ASSUME NEW k, IsKernel(k), NEW i
  PROVE  /\ QdiscsMade(k, i) =
              [links |-> k.links, ports |-> k.ports, up |-> k.up,
               qdiscs |-> k.qdiscs \cup {Qdisc(i, "out"), Qdisc(i, "in")},
               filters |-> k.filters, fdb |-> k.fdb]
         /\ IsKernel(QdiscsMade(k, i))
         /\ NoQdisc(NoQdisc(k, Qdisc(i, "out")), Qdisc(i, "in")) =
              [links |-> k.links, ports |-> k.ports, up |-> k.up,
               qdiscs |-> k.qdiscs \ {Qdisc(i, "out"), Qdisc(i, "in")},
               filters |-> k.filters, fdb |-> k.fdb]
<1> DEFINE o == Qdisc(i, "out")
           j == Qdisc(i, "in")
           k1 == AddQdisc(k, o)
           k2 == NoQdisc(k, o)
<1>1. /\ k1 = [links |-> k.links, ports |-> k.ports, up |-> k.up,
               qdiscs |-> k.qdiscs \cup {o}, filters |-> k.filters, fdb |-> k.fdb]
      /\ k2 = [links |-> k.links, ports |-> k.ports, up |-> k.up,
               qdiscs |-> k.qdiscs \ {o}, filters |-> k.filters, fdb |-> k.fdb]
  BY Changes, Removals
<1> HIDE DEF k1, k2
<1>2. IsKernel(k1) /\ IsKernel(k2)
  BY <1>1 DEF IsKernel
<1>3. /\ AddQdisc(k1, j) = [links |-> k1.links, ports |-> k1.ports, up |-> k1.up,
            qdiscs |-> k1.qdiscs \cup {j}, filters |-> k1.filters, fdb |-> k1.fdb]
      /\ NoQdisc(k2, j) = [links |-> k2.links, ports |-> k2.ports, up |-> k2.up,
            qdiscs |-> k2.qdiscs \ {j}, filters |-> k2.filters, fdb |-> k2.fdb]
  BY <1>2, Changes, Removals
<1>4. QdiscsMade(k, i) = AddQdisc(k1, j) /\ NoQdisc(NoQdisc(k, o), j) = NoQdisc(k2, j)
  BY DEF QdiscsMade, k1, k2
<1> HIDE DEF o, j
<1>5. /\ QdiscsMade(k, i) = [links |-> k.links, ports |-> k.ports, up |-> k.up,
            qdiscs |-> k.qdiscs \cup {o, j}, filters |-> k.filters, fdb |-> k.fdb]
      /\ NoQdisc(NoQdisc(k, o), j) = [links |-> k.links, ports |-> k.ports, up |-> k.up,
            qdiscs |-> k.qdiscs \ {o, j}, filters |-> k.filters, fdb |-> k.fdb]
  BY <1>1, <1>3, <1>4
<1>6. IsKernel(QdiscsMade(k, i))
  BY <1>5 DEF IsKernel
<1> QED BY <1>5, <1>6 DEF o, j

\* lsdn_lbridge_add_virt makes the interface a port with its qdiscs, or
\* leaves the kernel as it was.
LEMMA AddVirtOutcome ==
  ASSUME NEW w, IsOp(w), w.err = "OK", IsKernel(w.k), NEW v \in Virts,
         NoPort(w.k, VirtIf(v)), \A x \in w.k.qdiscs : x.on # VirtIf(v)
  PROVE  Outcome(w, Lbridge_add_virt(w, v), VirtMade(w.k, v), w.refcount)
<1> DEFINE i  == VirtIf(v)
           k1 == QdiscsMade(w.k, i)
           w0 == Out_qdisc(w, i)
           w1 == In_qdisc(w0, i)
           w2 == Add(w1, PaOf[v], i)
           w3 == Cleanup_rulesets(w2, i, {"in", "out"})
<1>1. Lbridge_add_virt(w, v) = IF w1.err = "OK" /\ w2.err # "OK" THEN w3 ELSE w2
  BY DEF Lbridge_add_virt
<1>2. /\ IsOp(w0) /\ w0.refcount = w.refcount /\ w0.err \in {"OK", "ERR"}
      /\ w0.err = "OK" => w0.k = AddQdisc(w.k, Qdisc(i, "out"))
      /\ w0.err # "OK" => w0.k = w.k
  BY CallSteps DEF Out_qdisc, AddQdisc
<1> HIDE DEF w0
<1>3. /\ IsOp(w1) /\ w1.refcount = w0.refcount
      /\ w0.err # "OK" => w1 = w0
      /\ w0.err = "OK" => w1.err \in {"OK", "ABORT"}
      /\ w1.err = "OK" => w0.err = "OK" /\ w1.k = AddQdisc(w0.k, Qdisc(i, "in"))
  BY <1>2, InQdiscSteps
<1> HIDE DEF w1
<1>4. w1.err = "OK" => w1.k = k1
  BY <1>2, <1>3 DEF QdiscsMade
<1>5. IsKernel(k1) /\ NoPort(k1, i)
  BY QdiscParts DEF NoPort
<1>6. NoQdisc(NoQdisc(k1, Qdisc(i, "out")), Qdisc(i, "in")) = w.k
  <2> HIDE DEF k1, i
  <2>1. /\ IsKernel(k1)
        /\ k1 = [links |-> w.k.links, ports |-> w.k.ports, up |-> w.k.up,
               qdiscs |-> w.k.qdiscs \cup {Qdisc(i, "out"), Qdisc(i, "in")},
               filters |-> w.k.filters, fdb |-> w.k.fdb]
    BY QdiscParts DEF k1
  <2>2. Qdisc(i, "out") \notin w.k.qdiscs /\ Qdisc(i, "in") \notin w.k.qdiscs
    BY Items DEF i
  <2>3. k1.qdiscs \ {Qdisc(i, "out"), Qdisc(i, "in")} = w.k.qdiscs
    BY <2>1, <2>2
  <2>4. NoQdisc(NoQdisc(k1, Qdisc(i, "out")), Qdisc(i, "in")) =
              [links |-> k1.links, ports |-> k1.ports, up |-> k1.up,
               qdiscs |-> k1.qdiscs \ {Qdisc(i, "out"), Qdisc(i, "in")},
               filters |-> k1.filters, fdb |-> k1.fdb]
    BY <2>1, QdiscParts
  <2> QED BY <2>1, <2>3, <2>4 DEF IsKernel
<1> HIDE DEF k1
<1>7. PaOf[v] \in Pas
  BY LbridgeAssumption
<1>8. /\ IsOp(w2) /\ w2.refcount = w1.refcount /\ (w1.err # "OK" => w2 = w1)
      /\ w1.err = "OK" => Outcome(w1, w2, PortMade(k1, PaOf[v], i), w1.refcount)
  BY <1>3, <1>4, <1>5, <1>7, AddOutcome
<1> HIDE DEF w2
<1>9. /\ IsOp(w3) /\ w3.refcount = w2.refcount
      /\ w2.err # "OK" => w3.err # "OK"
      /\ w3.err = "ERR" =>
           w2.err = "ERR" /\ w3.k = NoQdisc(NoQdisc(w2.k, Qdisc(i, "out")), Qdisc(i, "in"))
  BY <1>8, CleanupSteps
<1> HIDE DEF w3
<1>10. VirtMade(w.k, v) = PortMade(k1, PaOf[v], i)
  BY DEF VirtMade, k1
<1> QED BY <1>1, <1>2, <1>3, <1>4, <1>6, <1>8, <1>9, <1>10 DEF Outcome

VirtUnmade(k, v) ==
  NoQdisc(NoQdisc(SetMaster(k, NULL, VirtIf(v)), Qdisc(VirtIf(v), "out")),
          Qdisc(VirtIf(v), "in"))

\* lsdn_lbridge_remove_virt
LEMMA RemoveVirtSteps ==
  ASSUME NEW w, IsOp(w), w.err = "OK", NEW v
  PROVE  LET r == Lbridge_remove_virt(w, v) IN
         /\ IsOp(r) /\ r.refcount = w.refcount /\ r.err # "ERR"
         /\ r.err = "OK" => r.k = VirtUnmade(w.k, v)
<1> DEFINE i  == VirtIf(v)
           w1 == Undo(w, "-port", SetMaster(w.k, NULL, i))
           w2 == Cleanup_rulesets(w1, i, {"in", "out"})
<1>1. Lbridge_remove_virt(w, v) = w2
  BY DEF Lbridge_remove_virt, Remove
<1>2. /\ IsOp(w1) /\ w1.refcount = w.refcount /\ w1.err \in {"OK", "INCONSISTENT"}
      /\ w1.err = "OK" => w1.k = SetMaster(w.k, NULL, i)
  BY UndoSteps
<1> HIDE DEF w1
<1>3. /\ IsOp(w2) /\ w2.refcount = w1.refcount /\ w2.err \in {w1.err, "INCONSISTENT"}
      /\ w2.err \in {"OK", "ERR"} => 
           /\ w2.err = w1.err
           /\ w2.k = NoQdisc(NoQdisc(w1.k, Qdisc(i, "out")), Qdisc(i, "in"))
  BY <1>2, CleanupSteps
<1> HIDE DEF w2
<1> QED BY <1>1, <1>2, <1>3 DEF VirtUnmade

(***************************************************************************)
(* Routes: the dummy of a remote PA and the rules around it.               *)
(***************************************************************************)

\* K is k and what was put on the link i.
Near(k, K, i) ==
  /\ IsKernel(K)
  /\ K.links \ {i} = k.links /\ K.up \ {i} = k.up
  /\ {x \in K.ports : x.port # i /\ x.bridge # i} = k.ports
  /\ {x \in K.qdiscs : x.on # i} = k.qdiscs
  /\ {x \in K.filters : x.on # i} = k.filters
  /\ {x \in K.fdb : x.on # i} = k.fdb

\* The calls of an operation on a link leave the rest of the kernel alone.
LEMMA NearKept ==
  ASSUME NEW k, NEW K, NEW i, Near(k, K, i)
  PROVE  /\ Near(k, AddLink(K, i), i) /\ Near(k, SetUp(K, i), i)
         /\ \A d : Near(k, AddQdisc(K, Qdisc(i, d)), i)
         /\ \A d : Near(k, NoQdisc(K, Qdisc(i, d)), i)
         /\ \A n : Near(k, AddFilter(K, Filter(i, n)), i)
         /\ \A n : Near(k, NoFilter(K, Filter(i, n)), i)
         /\ Near(k, SetMaster(K, NULL, i), i)
         /\ \A a \in Pas : Near(k, SetMaster(K, Bridge(a), i), i)
<1>0. IsKernel(K)
  BY DEF Near
<1>1. Near(k, AddLink(K, i), i)
  BY <1>0, Changes DEF Near, IsKernel
<1>2. Near(k, SetUp(K, i), i)
  BY <1>0, Changes DEF Near, IsKernel
<1>3. ASSUME NEW q, q.on = i PROVE Near(k, AddQdisc(K, q), i) /\ Near(k, NoQdisc(K, q), i)
  <2> DEFINE A == AddQdisc(K, q)
             B == NoQdisc(K, q)
  <2>1. /\ A = [links |-> K.links, ports |-> K.ports, up |-> K.up,
              qdiscs |-> K.qdiscs \cup {q}, filters |-> K.filters, fdb |-> K.fdb]
        /\ B = [links |-> K.links, ports |-> K.ports, up |-> K.up,
              qdiscs |-> K.qdiscs \ {q}, filters |-> K.filters, fdb |-> K.fdb]
    BY <1>0, Changes, Removals
  <2> HIDE DEF A, B
  <2>2. IsKernel(A) /\ IsKernel(B)
    BY <2>1 DEF IsKernel
  <2>3. {x \in A.qdiscs : x.on # i} = k.qdiscs /\ {x \in B.qdiscs : x.on # i} = k.qdiscs
    BY <1>3, <2>1 DEF Near
  <2>4. Near(k, A, i) /\ Near(k, B, i)
    BY <2>1, <2>2, <2>3 DEF Near
  <2> QED BY <2>4 DEF A, B
<1>4. ASSUME NEW f, f.on = i PROVE Near(k, AddFilter(K, f), i) /\ Near(k, NoFilter(K, f), i)
  <2> DEFINE A == AddFilter(K, f)
             B == NoFilter(K, f)
  <2>1. /\ A = [links |-> K.links, ports |-> K.ports, up |-> K.up,
              qdiscs |-> K.qdiscs, filters |-> K.filters \cup {f}, fdb |-> K.fdb]
        /\ B = [links |-> K.links, ports |-> K.ports, up |-> K.up,
              qdiscs |-> K.qdiscs, filters |-> K.filters \ {f}, fdb |-> K.fdb]
    BY <1>0, Changes, Removals
  <2> HIDE DEF A, B
  <2>2. IsKernel(A) /\ IsKernel(B)
    BY <2>1 DEF IsKernel
  <2>3. {x \in A.filters : x.on # i} = k.filters /\ {x \in B.filters : x.on # i} = k.filters
    BY <1>4, <2>1 DEF Near
  <2>4. Near(k, A, i) /\ Near(k, B, i)
    BY <2>1, <2>2, <2>3 DEF Near
  <2> QED BY <2>4 DEF A, B
<1>5. ASSUME NEW P, {x \in P : x.port # i} = {x \in K.ports : x.port # i}, NEW L,
             L = [links |-> K.links, ports |-> P, up |-> K.up, qdiscs |-> K.qdiscs,
                  filters |-> K.filters, fdb |-> K.fdb]
      PROVE  Near(k, L, i)
  <2>1. IsKernel(L)
    BY <1>5 DEF IsKernel
  <2>2. {x \in L.ports : x.port # i /\ x.bridge # i} = k.ports
    BY <1>5 DEF Near
  <2> QED BY <1>5, <2>1, <2>2 DEF Near
<1>6. Near(k, SetMaster(K, NULL, i), i)
  <2> DEFINE L == SetMaster(K, NULL, i)
             P == {x \in K.ports : x.port # i}
  <2>1. L = [links |-> K.links, ports |-> P, up |-> K.up, qdiscs |-> K.qdiscs,
             filters |-> K.filters, fdb |-> K.fdb]
    BY <1>0, Masters
  <2>2. {x \in P : x.port # i} = {x \in K.ports : x.port # i}
    OBVIOUS
  <2> HIDE DEF L, P
  <2>3. Near(k, L, i)
    BY <1>5, <2>1, <2>2
  <2> QED BY <2>3 DEF L
<1>7. ASSUME NEW a \in Pas PROVE Near(k, SetMaster(K, Bridge(a), i), i)
  <2> DEFINE L == SetMaster(K, Bridge(a), i)
             P == {x \in K.ports : x.port # i} \cup {Port(i, a)}
  <2>1. L = [links |-> K.links, ports |-> P, up |-> K.up, qdiscs |-> K.qdiscs,
             filters |-> K.filters, fdb |-> K.fdb]
    BY <1>0, Masters
  <2>2. {x \in P : x.port # i} = {x \in K.ports : x.port # i}
    BY Items
  <2> HIDE DEF L, P
  <2>3. Near(k, L, i)
    BY <1>5, <2>1, <2>2
  <2> QED BY <2>3 DEF L
<1> QED BY <1>1, <1>2, <1>3, <1>4, <1>6, <1>7, Items

\* A rule on another link comes and goes, and the rest stays near.
LEMMA NearRule ==
  ASSUME NEW k, IsKernel(k), NEW K, NEW i, NEW f, f.on # i, f \notin k.filters
  PROVE  /\ Near(k, K, i) => Near(AddFilter(k, f), AddFilter(K, f), i)
         /\ Near(AddFilter(k, f), K, i) => Near(k, NoFilter(K, f), i)
<1> DEFINE kf == AddFilter(k, f)
<1>1. kf = [links |-> k.links, ports |-> k.ports, up |-> k.up, qdiscs |-> k.qdiscs,
            filters |-> k.filters \cup {f}, fdb |-> k.fdb]
  BY Changes
<1> HIDE DEF kf
<1>2. ASSUME Near(k, K, i) PROVE Near(kf, AddFilter(K, f), i)
  <2> DEFINE L == AddFilter(K, f)
  <2>1. L = [links |-> K.links, ports |-> K.ports, up |-> K.up, qdiscs |-> K.qdiscs,
             filters |-> K.filters \cup {f}, fdb |-> K.fdb]
    BY <1>2, Changes DEF Near
  <2> HIDE DEF L
  <2>2. IsKernel(L)
    BY <2>1 DEF IsKernel
  <2>3. {x \in L.filters : x.on # i} = kf.filters
    BY <1>1, <1>2, <2>1 DEF Near
  <2>4. Near(kf, L, i)
    BY <1>1, <1>2, <2>1, <2>2, <2>3 DEF Near
  <2> QED BY <2>4 DEF L
<1>3. ASSUME Near(kf, K, i) PROVE Near(k, NoFilter(K, f), i)
  <2> DEFINE L == NoFilter(K, f)
  <2>1. L = [links |-> K.links, ports |-> K.ports, up |-> K.up, qdiscs |-> K.qdiscs,
             filters |-> K.filters \ {f}, fdb |-> K.fdb]
    BY <1>3, Removals DEF Near
  <2> HIDE DEF L
  <2>2. IsKernel(L)
    BY <2>1 DEF IsKernel
  <2>3. {x \in L.filters : x.on # i} = k.filters
    BY <1>1, <1>3, <2>1 DEF Near
  <2>4. Near(k, L, i)
    BY <1>1, <1>3, <2>1, <2>2, <2>3 DEF Near
  <2> QED BY <2>4 DEF L
<1> QED BY <1>2, <1>3 DEF kf

\* Deleting the link leaves what was there before it.
LEMMA NearDeleted ==
  ASSUME NEW k, IsKernel(k), NEW i, Fresh(k, i)
  PROVE  Near(k, k, i) /\ \A K : Near(k, K, i) => LinkDelete(K, i) = k
<1>1. Near(k, k, i)
  BY DEF Near, Fresh
<1>2. ASSUME NEW K, Near(k, K, i) PROVE LinkDelete(K, i) = k
  BY <1>2, DeleteRestores DEF Near
<1> QED BY <1>1, <1>2

RouteBase(k, r) ==
  LET i == Dummy(r) IN
  AddFilter(AddFilter(AddFilter(AddQdisc(AddLink(k, i), Qdisc(i, "out")),
                                Filter(i, "drop_marked")), Filter(i, "redirect")),
            FromTunnel(r))

RouteMade(k, r) == SetUp(PortMade(RouteBase(k, r), At[r], Dummy(r)), Dummy(r))

Parts(l, p, u, q, f, d) ==
  [links |-> l, ports |-> p, up |-> u, qdiscs |-> q, filters |-> f, fdb |-> d]

\* The parts of the kernel once a route is made.
LEMMA RouteParts ==
  ASSUME NEW k, IsKernel(k), NEW r \in Remotes
  PROVE  LET i == Dummy(r) IN
         /\ IsKernel(RouteBase(k, r)) /\ RouteBase(k, r).ports = k.ports
         /\ RouteMade(k, r) =
              [links |-> k.links \cup {i},
               ports |-> {x \in k.ports : x.port # i} \cup {Port(i, At[r])},
               up |-> k.up \cup {i}, qdiscs |-> k.qdiscs \cup {Qdisc(i, "out")},
               filters |-> k.filters \cup
                 {Filter(i, "drop_marked"), Filter(i, "redirect"), FromTunnel(r)},
               fdb |-> k.fdb]
<1> DEFINE i == Dummy(r)
           q  == Qdisc(i, "out")
           f  == Filter(i, "drop_marked")
           g  == Filter(i, "redirect")
           h  == FromTunnel(r)
           P  == {x \in k.ports : x.port # i} \cup {Port(i, At[r])}
           L  == k.links \cup {i}
           Q  == k.qdiscs \cup {q}
           F  == k.filters \cup {f} \cup {g} \cup {h}
<1>0. k = Parts(k.links, k.ports, k.up, k.qdiscs, k.filters, k.fdb)
  BY DEF IsKernel, Parts
<1>1. RouteBase(k, r) =
        AddFilter(AddFilter(AddFilter(AddQdisc(AddLink(k, i), q), f), g), h)
  BY DEF RouteBase
<1>2. At[r] \in Pas
  BY LbridgeAssumption
<1> HIDE DEF i, q, f, g, h
<1>3. RouteBase(k, r) = Parts(L, k.ports, k.up, Q, F, k.fdb)
  <2> DEFINE l == k.links
             p == k.ports
             u == k.up
             c == k.qdiscs
             e == k.filters
             d == k.fdb
  <2> HIDE DEF l, p, u, c, e, d
  <2>1. AddLink(Parts(l, p, u, c, e, d), i) = Parts(l \cup {i}, p, u, c, e, d)
    BY DEF Parts, AddLink, AddQdisc, AddFilter, SetUp
  <2> DEFINE l1 == l \cup {i}
  <2> HIDE DEF l1
  <2>2. AddQdisc(Parts(l1, p, u, c, e, d), q) = Parts(l1, p, u, c \cup {q}, e, d)
    BY DEF Parts, AddLink, AddQdisc, AddFilter, SetUp
  <2> DEFINE c1 == c \cup {q}
  <2> HIDE DEF c1
  <2>3. AddFilter(Parts(l1, p, u, c1, e, d), f) = Parts(l1, p, u, c1, e \cup {f}, d)
    BY DEF Parts, AddLink, AddQdisc, AddFilter, SetUp
  <2> DEFINE e1 == e \cup {f}
  <2> HIDE DEF e1
  <2>4. AddFilter(Parts(l1, p, u, c1, e1, d), g) = Parts(l1, p, u, c1, e1 \cup {g}, d)
    BY DEF Parts, AddLink, AddQdisc, AddFilter, SetUp
  <2> DEFINE e2 == e1 \cup {g}
  <2> HIDE DEF e2
  <2>5. AddFilter(Parts(l1, p, u, c1, e2, d), h) = Parts(l1, p, u, c1, e2 \cup {h}, d)
    BY DEF Parts, AddLink, AddQdisc, AddFilter, SetUp
  <2>6. RouteBase(k, r) = Parts(l1, p, u, c1, e2 \cup {h}, d)
    BY <1>0, <1>1, <2>1, <2>2, <2>3, <2>4, <2>5 DEF l, p, u, c, e, d, l1, c1, e1, e2
  <2> QED BY <2>6 DEF l1, c1, e1, e2, l, p, u, c, e, d
<1> HIDE DEF L, Q, F
<1>4. PortMade(RouteBase(k, r), At[r], i) = Parts(L, P, k.up \cup {i}, Q, F, k.fdb)
  <2>1. IsKernel(RouteBase(k, r))
    BY <1>3 DEF Parts, IsKernel
  <2>2. PortMade(RouteBase(k, r), At[r], i) =
          [links |-> RouteBase(k, r).links,
           ports |-> {x \in RouteBase(k, r).ports : x.port # i} \cup {Port(i, At[r])},
           up |-> RouteBase(k, r).up \cup {i}, qdiscs |-> RouteBase(k, r).qdiscs,
           filters |-> RouteBase(k, r).filters, fdb |-> RouteBase(k, r).fdb]
    BY <1>2, <2>1, MadeParts
  <2> QED BY <1>3, <2>2 DEF Parts
<1> HIDE DEF P
<1>5. SetUp(PortMade(RouteBase(k, r), At[r], i), i) =
        Parts(L, P, k.up \cup {i} \cup {i}, Q, F, k.fdb)
  <2> DEFINE u == k.up \cup {i}
  <2> HIDE DEF u
  <2>1. SetUp(Parts(L, P, u, Q, F, k.fdb), i) = Parts(L, P, u \cup {i}, Q, F, k.fdb)
    BY DEF Parts, AddLink, AddQdisc, AddFilter, SetUp
  <2> QED BY <1>4, <2>1 DEF u
<1>6. k.up \cup {i} \cup {i} = k.up \cup {i}
  OBVIOUS
<1>7. RouteMade(k, r) = Parts(L, P, k.up \cup {i}, Q, F, k.fdb)
  BY <1>5, <1>6 DEF RouteMade, i
<1>8. F = k.filters \cup {f, g, h}
  BY DEF F
<1>9. IsKernel(RouteBase(k, r)) /\ RouteBase(k, r).ports = k.ports
  BY <1>3 DEF Parts, IsKernel
<1> QED BY <1>7, <1>8, <1>9 DEF Parts, i, q, f, g, h, L, Q, P

\* lsdn_lbridge_add_route makes the dummy, its rules and its port, or leaves
\* the kernel as it was, whichever of the seven calls was refused.
LEMMA AddRouteOutcome ==
  ASSUME NEW w, IsOp(w), w.err = "OK", IsKernel(w.k), NEW r \in Remotes,
         Fresh(w.k, Dummy(r)), FromTunnel(r) \notin w.k.filters
  PROVE  Outcome(w, Lbridge_add_route(w, r), RouteMade(w.k, r), w.refcount)
<1> DEFINE i  == Dummy(r)
           f  == FromTunnel(r)
           w1 == Call(w, "dummy", [w.k EXCEPT !.links = @ \cup {i}])
           w2 == Out_qdisc(w1, i)
           w3 == Call(w2, "mark_filter",
                      [w2.k EXCEPT !.filters = @ \cup {Filter(i, "drop_marked")}])
           w4 == Call(w3, "out_rule", [w3.k EXCEPT !.filters = @ \cup {Filter(i, "redirect")}])
           w5 == Call(w4, "in_rule", [w4.k EXCEPT !.filters = @ \cup {FromTunnel(r)}])
           w6 == Add(w5, At[r], i)
           w7 == Call(w6, "dummy_up", [w6.k EXCEPT !.up = @ \cup {i}])
           u6 == IF w6.err = "OK" THEN Remove(w7, i) ELSE w7
           u5 == IF w5.err = "OK" THEN UnInRule(u6, r) ELSE u6
           u4 == IF w4.err = "OK" THEN UnOutRule(u5, r) ELSE u5
           u2 == IF w2.err = "OK" THEN Cleanup_rulesets(u4, i, {"out"}) ELSE u4
           u1 == UnDummy(u2, r)
<1>0. Lbridge_add_route(w, r) = IF w7.err = "OK" \/ w1.err # "OK" THEN w7 ELSE u1
  BY DEF Lbridge_add_route
<1>1. /\ IsOp(w1) /\ w1.refcount = w.refcount /\ w1.err \in {"OK", "ERR"}
      /\ w1.err = "OK" => w1.k = AddLink(w.k, i)
      /\ w1.err # "OK" => w1.k = w.k
  BY CallSteps DEF AddLink
<1> HIDE DEF w1
<1>2. /\ IsOp(w2) /\ w2.refcount = w1.refcount /\ w2.err \in {"OK", "ERR"}
      /\ w1.err # "OK" => w2 = w1
      /\ w2.err = "OK" => w1.err = "OK" /\ w2.k = AddQdisc(w1.k, Qdisc(i, "out"))
      /\ w2.err # "OK" => w2.k = w1.k
  BY <1>1, CallSteps DEF Out_qdisc, AddQdisc
<1> HIDE DEF w2
<1>3. /\ IsOp(w3) /\ w3.refcount = w2.refcount /\ w3.err \in {"OK", "ERR"}
      /\ w2.err # "OK" => w3 = w2
      /\ w3.err = "OK" => w2.err = "OK" /\ w3.k = AddFilter(w2.k, Filter(i, "drop_marked"))
      /\ w3.err # "OK" => w3.k = w2.k
  BY <1>2, CallSteps DEF AddFilter
<1> HIDE DEF w3
<1>4. /\ IsOp(w4) /\ w4.refcount = w3.refcount /\ w4.err \in {"OK", "ERR"}
      /\ w3.err # "OK" => w4 = w3
      /\ w4.err = "OK" => w3.err = "OK" /\ w4.k = AddFilter(w3.k, Filter(i, "redirect"))
      /\ w4.err # "OK" => w4.k = w3.k
  BY <1>3, CallSteps DEF AddFilter
<1> HIDE DEF w4
<1>5. /\ IsOp(w5) /\ w5.refcount = w4.refcount /\ w5.err \in {"OK", "ERR"}
      /\ w4.err # "OK" => w5 = w4
      /\ w5.err = "OK" => w4.err = "OK" /\ w5.k = AddFilter(w4.k, f)
      /\ w5.err # "OK" => w5.k = w4.k
  BY <1>4, CallSteps DEF AddFilter
<1> HIDE DEF w5
<1>6. At[r] \in Pas
  BY LbridgeAssumption
<1>7. /\ w5.err = "OK" => w5.k = RouteBase(w.k, r)
      /\ IsKernel(RouteBase(w.k, r)) /\ NoPort(RouteBase(w.k, r), i)
  <2>1. w5.err = "OK" => w5.k = RouteBase(w.k, r)
    BY <1>1, <1>2, <1>3, <1>4, <1>5 DEF RouteBase
  <2>2. IsKernel(RouteBase(w.k, r)) /\ RouteBase(w.k, r).ports = w.k.ports
    BY RouteParts
  <2> QED BY <2>1, <2>2 DEF NoPort, Fresh
<1>8. /\ IsOp(w6) /\ w6.refcount = w5.refcount
      /\ w5.err # "OK" => w6 = w5
      /\ w6.err = "OK" => w5.err = "OK" /\ w6.k = PortMade(w5.k, At[r], i)
      /\ w6.err = "ERR" => w6.k = w5.k
  BY <1>5, <1>6, <1>7, AddOutcome DEF Outcome
<1> HIDE DEF w6
<1>9. /\ IsOp(w7) /\ w7.refcount = w6.refcount
      /\ w6.err # "OK" => w7 = w6
      /\ w7.err = "OK" => w6.err = "OK" /\ w7.k = SetUp(w6.k, i)
      /\ w6.err = "OK" /\ w7.err # "OK" => w7.err = "ERR" /\ w7.k = w6.k
  BY <1>8, CallSteps DEF SetUp
<1> HIDE DEF w7
<1>10. CASE w7.err = "OK"
  <2>1. w7.k = RouteMade(w.k, r)
    BY <1>7, <1>8, <1>9, <1>10 DEF RouteMade
  <2>2. w7.refcount = w.refcount
    BY <1>1, <1>2, <1>3, <1>4, <1>5, <1>8, <1>9
  <2> QED BY <1>0, <1>9, <1>10, <2>1, <2>2 DEF Outcome
<1>11. CASE w1.err # "OK"
  BY <1>0, <1>1, <1>2, <1>3, <1>4, <1>5, <1>8, <1>9, <1>11 DEF Outcome
<1>12. CASE w7.err # "OK" /\ w1.err = "OK"
  <2>1. /\ IsOp(u6) /\ u6.refcount = w7.refcount /\ u6.err # "OK"
        /\ u6.err = "ERR" => w7.err = "ERR"
        /\ u6.err = "ERR" /\ w6.err = "OK" => u6.k = SetMaster(w7.k, NULL, i)
        /\ w6.err # "OK" => u6 = w7
    BY <1>9, <1>12, UndoSteps DEF Remove
  <2> HIDE DEF u6
  <2>2. /\ IsOp(u5) /\ u5.refcount = u6.refcount /\ u5.err # "OK"
        /\ u5.err = "ERR" => u6.err = "ERR"
        /\ u5.err = "ERR" /\ w5.err = "OK" => u5.k = NoFilter(u6.k, f)
        /\ w5.err # "OK" => u5 = u6
    BY <2>1, UndoSteps DEF UnInRule, NoFilter
  <2> HIDE DEF u5
  <2>3. /\ IsOp(u4) /\ u4.refcount = u5.refcount /\ u4.err # "OK"
        /\ u4.err = "ERR" => u5.err = "ERR"
        /\ u4.err = "ERR" /\ w4.err = "OK" => u4.k = NoFilter(u5.k, Filter(i, "redirect"))
        /\ w4.err # "OK" => u4 = u5
    BY <2>2, UndoSteps DEF UnOutRule, NoFilter
  <2> HIDE DEF u4
  <2>4. /\ IsOp(u2) /\ u2.refcount = u4.refcount /\ u2.err # "OK"
        /\ u2.err = "ERR" => u4.err = "ERR"
        /\ u2.err = "ERR" /\ w2.err = "OK" => u2.k = NoQdisc(u4.k, Qdisc(i, "out"))
        /\ w2.err # "OK" => u2 = u4
    BY <2>3, CleanupSteps
  <2> HIDE DEF u2
  <2>5. /\ IsOp(u1) /\ u1.refcount = u2.refcount /\ u1.err # "OK"
        /\ u1.err = "ERR" => u2.err = "ERR" /\ u1.k = LinkDelete(u2.k, i)
    BY <2>4, UndoSteps DEF UnDummy
  <2> HIDE DEF u1
  <2>6. u1.refcount = w.refcount
    BY <1>1, <1>2, <1>3, <1>4, <1>5, <1>8, <1>9, <2>1, <2>2, <2>3, <2>4, <2>5
  <2>7. ASSUME u1.err = "ERR" PROVE u1.k = w.k
    <3>1. u2.err = "ERR" /\ u4.err = "ERR" /\ u5.err = "ERR" /\ u6.err = "ERR" /\ w7.err = "ERR"
      BY <2>1, <2>2, <2>3, <2>4, <2>5, <2>7
    <3>2. f.on # i
      BY Items, Names DEF FromTunnel
    <3> HIDE DEF i, f
    <3>3. Near(w.k, w.k, i) /\ \A K : Near(w.k, K, i) => LinkDelete(K, i) = w.k
      BY NearDeleted DEF i
    <3>4. Near(w.k, w1.k, i)
      BY <1>1, <1>12, <3>3, NearKept
    <3>5. Near(w.k, w2.k, i)
      BY <1>2, <3>4, NearKept
    <3>6. Near(w.k, w3.k, i)
      BY <1>3, <3>5, NearKept
    <3>7. Near(w.k, w4.k, i)
      BY <1>4, <3>6, NearKept
    <3>8. Near(w.k, u5.k, i)
      <4>1. CASE w5.err # "OK"
        BY <1>5, <1>8, <1>9, <2>1, <2>2, <3>7, <4>1
      <4>2. CASE w5.err = "OK"
        <5> DEFINE kf == AddFilter(w.k, f)
        <5>1. Near(kf, w5.k, i)
          BY <1>5, <3>2, <3>7, <4>2, NearRule DEF f
        <5> HIDE DEF kf
        <5>2. CASE w6.err = "OK"
          <6>1. w7.k = SetUp(SetMaster(w5.k, Bridge(At[r]), i), i)
            BY <1>8, <1>9, <1>12, <5>2 DEF PortMade
          <6>2. Near(kf, SetMaster(w5.k, Bridge(At[r]), i), i)
            BY <1>6, <5>1, NearKept
          <6>3. Near(kf, w7.k, i)
            BY <6>1, <6>2, NearKept
          <6>4. Near(kf, u6.k, i)
            BY <2>1, <3>1, <5>2, <6>3, NearKept
          <6> QED BY <2>2, <2>7, <3>1, <3>2, <4>2, <6>4, NearRule DEF kf, f
        <5>3. CASE w6.err # "OK"
          <6>1. w7 = w6 /\ w6.err = "ERR" /\ u6 = w7 /\ w6.k = w5.k
            BY <1>8, <1>9, <2>1, <3>1, <5>3
          <6> QED BY <2>2, <3>1, <3>2, <4>2, <5>1, <6>1, NearRule DEF kf, f
        <5> QED BY <5>2, <5>3
      <4> QED BY <4>1, <4>2
    <3>9. Near(w.k, u4.k, i)
      BY <2>3, <3>1, <3>8, NearKept
    <3>10. Near(w.k, u2.k, i)
      BY <2>4, <3>1, <3>9, NearKept
    <3> QED BY <2>5, <2>7, <3>3, <3>10
  <2> QED BY <1>0, <1>12, <2>5, <2>6, <2>7 DEF Outcome
<1> QED BY <1>10, <1>11, <1>12

RouteUnmade(k, r) ==
  LinkDelete(NoQdisc(NoFilter(NoFilter(SetMaster(k, NULL, Dummy(r)), FromTunnel(r)),
                              Filter(Dummy(r), "redirect")), Qdisc(Dummy(r), "out")),
             Dummy(r))

\* lsdn_lbridge_remove_route
LEMMA RemoveRouteSteps ==
  ASSUME NEW w, IsOp(w), w.err = "OK", NEW r
  PROVE  LET x == Lbridge_remove_route(w, r) IN
         /\ IsOp(x) /\ x.refcount = w.refcount /\ x.err # "ERR"
         /\ x.err = "OK" => x.k = RouteUnmade(w.k, r)
<1> DEFINE i  == Dummy(r)
           w1 == Undo(w, "-port", SetMaster(w.k, NULL, i))
           w2 == Undo(w1, "-in_rule", NoFilter(w1.k, FromTunnel(r)))
           w3 == Undo(w2, "-out_rule", NoFilter(w2.k, Filter(i, "redirect")))
           w4 == Cleanup_rulesets(w3, i, {"out"})
           w5 == Undo(w4, "-dummy", LinkDelete(w4.k, i))
<1>0. Lbridge_remove_route(w, r) = w5
  BY DEF Lbridge_remove_route, Remove, UnInRule, UnOutRule, UnDummy, NoFilter
<1>1. /\ IsOp(w1) /\ w1.refcount = w.refcount /\ w1.err \in {"OK", "INCONSISTENT"}
      /\ w1.err = "OK" => w1.k = SetMaster(w.k, NULL, i)
  BY UndoSteps
<1> HIDE DEF w1
<1>2. /\ IsOp(w2) /\ w2.refcount = w1.refcount /\ w2.err \in {"OK", "INCONSISTENT"}
      /\ w2.err = "OK" => w1.err = "OK" /\ w2.k = NoFilter(w1.k, FromTunnel(r))
  BY <1>1, UndoSteps
<1> HIDE DEF w2
<1>3. /\ IsOp(w3) /\ w3.refcount = w2.refcount /\ w3.err \in {"OK", "INCONSISTENT"}
      /\ w3.err = "OK" => w2.err = "OK" /\ w3.k = NoFilter(w2.k, Filter(i, "redirect"))
  BY <1>2, UndoSteps
<1> HIDE DEF w3
<1>4. /\ IsOp(w4) /\ w4.refcount = w3.refcount /\ w4.err \in {"OK", "INCONSISTENT"}
      /\ w4.err = "OK" => w3.err = "OK" /\ w4.k = NoQdisc(w3.k, Qdisc(i, "out"))
  BY <1>3, CleanupSteps
<1> HIDE DEF w4
<1>5. /\ IsOp(w5) /\ w5.refcount = w4.refcount /\ w5.err \in {"OK", "INCONSISTENT"}
      /\ w5.err = "OK" => w4.err = "OK" /\ w5.k = LinkDelete(w4.k, i)
  BY <1>4, UndoSteps
<1> HIDE DEF w5
<1> QED BY <1>0, <1>1, <1>2, <1>3, <1>4, <1>5 DEF RouteUnmade

(***************************************************************************)
(* The inductive invariant: between operations the kernel k is exactly what *)
(* the PAs P, virts V and remote PAs R call for, every interface that is up *)
(* is there, and n counts the users of the shared tunnel.                   *)
(***************************************************************************)
Geneves(P) == {a \in P : TypeOf[a] = "geneve/e2e"}
Owners(P)  == {a \in P : TypeOf[a] \notin {"direct", "geneve/e2e"}}
Shared(P)  == IF Geneves(P) = {} THEN {} ELSE {Stunnel}
Routed(R)  == {r \in R : TypeOf[At[r]] = "geneve/e2e"}

Members(P, V, R) ==
  /\ P \subseteq Pas /\ IsFiniteSet(P) /\ V \subseteq Virts /\ R \subseteq Remotes
  /\ \A v \in V : PaOf[v] \in P
  /\ \A r \in R : At[r] \in P

LinksExact(k, P, R) ==
  k.links \ PhysIfs = VirtIfs \cup {Bridge(a) : a \in P} \cup {Tunnel(a) : a \in Owners(P)}
                      \cup {Dummy(r) : r \in Routed(R)} \cup Shared(P)

PortsExact(k, P, V, R) ==
  k.ports = {Port(TunnelIf(a), a) : a \in P \ Geneves(P)}
            \cup {Port(VirtIf(v), PaOf[v]) : v \in V}
            \cup {Port(Dummy(r), At[r]) : r \in Routed(R)}

UpExact(k, V) ==
  /\ k.up \subseteq k.links
  /\ k.links \ (PhysIfs \cup VirtIfs) \subseteq k.up
  /\ {VirtIf(v) : v \in V} \subseteq k.up

QdiscsExact(k, P, V, R) ==
  k.qdiscs = {Qdisc(VirtIf(v), d) : v \in V, d \in {"in", "out"}}
             \cup {Qdisc(Dummy(r), "out") : r \in Routed(R)}
             \cup {Qdisc(i, "in") : i \in Shared(P)}

FiltersExact(k, R) ==
  k.filters = {Filter(Dummy(r), f) : r \in Routed(R), f \in {"drop_marked", "redirect"}}
              \cup {FromTunnel(r) : r \in Routed(R)}

FdbExact(k, R) == k.fdb = {Entry(At[r], r) : r \in R \ Routed(R)}

Exact(k, P, V, R, n) ==
  /\ Members(P, V, R) /\ IsKernel(k) /\ n = Cardinality(Geneves(P))
  /\ LinksExact(k, P, R) /\ PortsExact(k, P, V, R) /\ UpExact(k, V)
  /\ QdiscsExact(k, P, V, R) /\ FiltersExact(k, R) /\ FdbExact(k, R)

IInv == Ready => Exact(kernel, pas, virts, remotes, refcount)

\* The invariant holds at the start.
LEMMA InitExact == Init => IInv
<1> SUFFICES ASSUME Init PROVE Exact(kernel, pas, virts, remotes, refcount)
  BY DEF IInv
<1>1. pas = {} /\ virts = {} /\ remotes = {} /\ refcount = 0 /\ kernel = EmptyKernel
  BY DEF Init
<1>2. Members(pas, virts, remotes)
  BY <1>1, FS_EmptySet DEF Members
<1>3. Geneves(pas) = {} /\ Owners(pas) = {} /\ Routed(remotes) = {} /\ Shared(pas) = {}
  BY <1>1 DEF Geneves, Owners, Routed, Shared
<1>4. IsKernel(kernel) /\ refcount = Cardinality(Geneves(pas))
  BY <1>1, <1>3, FS_EmptySet DEF EmptyKernel, IsKernel
<1>5. kernel.links \ PhysIfs = VirtIfs
  BY <1>1, Names DEF EmptyKernel, PhysIfs, VirtIfs
<1>6. LinksExact(kernel, pas, remotes) /\ UpExact(kernel, virts)
  BY <1>1, <1>3, <1>5 DEF LinksExact, UpExact, EmptyKernel
<1>7. /\ PortsExact(kernel, pas, virts, remotes) /\ QdiscsExact(kernel, pas, virts, remotes)
      /\ FiltersExact(kernel, remotes) /\ FdbExact(kernel, remotes)
  BY <1>1, <1>3 DEF PortsExact, QdiscsExact, FiltersExact, FdbExact, EmptyKernel
<1> QED BY <1>2, <1>4, <1>6, <1>7 DEF Exact

\* The invariant says what the property says.
LEMMA ExactIsExact == IInv => KernelIsExact
BY DEF IInv, Exact, KernelIsExact, LinksExact, PortsExact, UpExact, QdiscsExact,
       FiltersExact, FdbExact, Geneves, Owners, Shared, Routed, GenevePas, Routes

(***************************************************************************)
(* What is not there yet.                                                  *)
(***************************************************************************)

\* The tunnel is shared by as many PAs as the counter says.
LEMMA Counted ==
  ASSUME NEW k, NEW P, NEW V, NEW R, NEW n, Exact(k, P, V, R, n)
  PROVE  /\ IsFiniteSet(Geneves(P)) /\ n \in Nat
         /\ n = 0 <=> Geneves(P) = {}
         /\ Geneves(P) = {} => Routed(R) = {}
<1>1. IsFiniteSet(Geneves(P))
  BY FS_Subset DEF Exact, Members, Geneves
<1>2. Geneves(P) = {} => Routed(R) = {}
  BY DEF Exact, Members, Geneves, Routed
<1> QED BY <1>1, <1>2, FS_CardinalityType, FS_EmptySet DEF Exact

\* What there is in an exact kernel, and what it belongs to.
LEMMA Contents ==
  ASSUME NEW k, NEW P, NEW V, NEW R, NEW n, Exact(k, P, V, R, n)
  PROVE  /\ \A x \in k.links : \/ x \in PhysIfs \cup VirtIfs \cup Shared(P)
                               \/ \E a \in P : x = Bridge(a) \/ x = Tunnel(a)
                               \/ \E r \in Routed(R) : x = Dummy(r)
         /\ \A x \in k.ports :
              \/ \E a \in P : (x.port = PhysIf(a) \/ x.port = Tunnel(a)) /\ x.bridge = Bridge(a)
              \/ \E v \in V : x.port = VirtIf(v) /\ x.bridge = Bridge(PaOf[v])
              \/ \E r \in Routed(R) : x.port = Dummy(r) /\ x.bridge = Bridge(At[r])
         /\ \A x \in k.qdiscs : \/ \E v \in V : x.on = VirtIf(v)
                                \/ \E r \in Routed(R) : x.on = Dummy(r)
                                \/ x.on \in Shared(P)
         /\ \A x \in k.filters : \E r \in Routed(R) : x.on = Dummy(r) \/ x = FromTunnel(r)
         /\ \A x \in k.fdb : \E r \in R : x.on = Tunnel(At[r])
<1>1. \A x \in k.links : \/ x \in PhysIfs \cup VirtIfs \cup Shared(P)
                         \/ \E a \in P : x = Bridge(a) \/ x = Tunnel(a)
                         \/ \E r \in Routed(R) : x = Dummy(r)
  <2>1. LinksExact(k, P, R) /\ Owners(P) \subseteq P
    BY DEF Exact, Owners
  <2> QED BY <2>1 DEF LinksExact
<1>2. ASSUME NEW x \in k.ports
      PROVE  \/ \E a \in P : (x.port = PhysIf(a) \/ x.port = Tunnel(a)) /\ x.bridge = Bridge(a)
             \/ \E v \in V : x.port = VirtIf(v) /\ x.bridge = Bridge(PaOf[v])
             \/ \E r \in Routed(R) : x.port = Dummy(r) /\ x.bridge = Bridge(At[r])
  <2>1. \/ \E a \in P : x = Port(TunnelIf(a), a)
        \/ \E v \in V : x = Port(VirtIf(v), PaOf[v])
        \/ \E r \in Routed(R) : x = Port(Dummy(r), At[r])
    BY DEF Exact, PortsExact
  <2>2. \A a : TunnelIf(a) = PhysIf(a) \/ TunnelIf(a) = Tunnel(a)
    BY DEF TunnelIf
  <2> QED BY <2>1, <2>2, Items
<1>3. ASSUME NEW x \in k.qdiscs
      PROVE  \/ \E v \in V : x.on = VirtIf(v)
             \/ \E r \in Routed(R) : x.on = Dummy(r)
             \/ x.on \in Shared(P)
  <2>1. \/ \E v \in V, d \in {"in", "out"} : x = Qdisc(VirtIf(v), d)
        \/ \E r \in Routed(R) : x = Qdisc(Dummy(r), "out")
        \/ \E i \in Shared(P) : x = Qdisc(i, "in")
    BY DEF Exact, QdiscsExact
  <2> QED BY <2>1, Items
<1>4. ASSUME NEW x \in k.filters
      PROVE  \E r \in Routed(R) : x.on = Dummy(r) \/ x = FromTunnel(r)
  <2>1. \/ \E r \in Routed(R), f \in {"drop_marked", "redirect"} : x = Filter(Dummy(r), f)
        \/ \E r \in Routed(R) : x = FromTunnel(r)
    BY DEF Exact, FiltersExact
  <2> QED BY <2>1, Items
<1>5. \A x \in k.fdb : \E r \in R : x.on = Tunnel(At[r])
  BY Items DEF Exact, FdbExact
<1> QED BY <1>1, <1>2, <1>3, <1>4, <1>5

\* Rules on the shared tunnel are told apart by the remote PA.
LEMMA TunnelRules ==
  /\ \A r : FromTunnel(r).on = Stunnel
  /\ \A r, s : FromTunnel(r) = FromTunnel(s) <=> r = s
BY Items DEF FromTunnel

\* The bridge, and the tunnel or the port, of a PA that is to be created.
LEMMA FreshPa ==
  ASSUME NEW k, NEW P, NEW V, NEW R, NEW n, Exact(k, P, V, R, n), NEW a, a \notin P
  PROVE  Fresh(k, Bridge(a)) /\ Fresh(k, Tunnel(a)) /\ NoPort(k, PhysIf(a))
<1>0. Members(P, V, R) /\ Routed(R) \subseteq R /\ Shared(P) \subseteq {Stunnel}
  BY DEF Exact, Routed, Shared
<1>1. Bridge(a) \notin k.links /\ Tunnel(a) \notin k.links
  <2>1. Bridge(a) \notin PhysIfs \cup VirtIfs /\ Tunnel(a) \notin PhysIfs \cup VirtIfs
    BY Names DEF PhysIfs, VirtIfs
  <2>2. Bridge(a) \notin k.links
    BY <1>0, <2>1, Contents, Names
  <2>3. Tunnel(a) \notin k.links
    BY <1>0, <2>1, Contents, Names
  <2> QED BY <2>2, <2>3
<1>2. Bridge(a) \notin k.up /\ Tunnel(a) \notin k.up
  BY <1>1 DEF Exact, UpExact
<1>3. ASSUME NEW x \in k.ports
      PROVE  /\ x.port # Bridge(a) /\ x.port # Tunnel(a) /\ x.port # PhysIf(a)
             /\ x.bridge # Bridge(a) /\ x.bridge # Tunnel(a)
  <2>1. CASE \E b \in P : (x.port = PhysIf(b) \/ x.port = Tunnel(b)) /\ x.bridge = Bridge(b)
    BY <2>1, Names
  <2>2. CASE \E v \in V : x.port = VirtIf(v) /\ x.bridge = Bridge(PaOf[v])
    BY <1>0, <2>2, Names DEF Members
  <2>3. CASE \E r \in Routed(R) : x.port = Dummy(r) /\ x.bridge = Bridge(At[r])
    BY <1>0, <2>3, Names DEF Members
  <2> QED BY <2>1, <2>2, <2>3, Contents
<1>4. \A x \in k.qdiscs : x.on # Bridge(a) /\ x.on # Tunnel(a)
  BY <1>0, Contents, Names
<1>5. \A x \in k.filters : x.on # Bridge(a) /\ x.on # Tunnel(a)
  BY Contents, Names, TunnelRules
<1>6. \A x \in k.fdb : x.on # Bridge(a) /\ x.on # Tunnel(a)
  BY <1>0, Contents, Names DEF Members
<1> QED BY <1>1, <1>2, <1>3, <1>4, <1>5, <1>6 DEF Fresh, NoPort

\* The shared tunnel, as long as nobody uses it.
LEMMA FreshStunnel ==
  ASSUME NEW k, NEW P, NEW V, NEW R, NEW n, Exact(k, P, V, R, n), n = 0
  PROVE  Fresh(k, Stunnel)
<1>0. Routed(R) = {} /\ Shared(P) = {}
  BY Counted DEF Shared
<1>1. Stunnel \notin k.links
  BY <1>0, Contents, Names DEF PhysIfs, VirtIfs
<1>2. Stunnel \notin k.up
  BY <1>1 DEF Exact, UpExact
<1>3. \A x \in k.ports : x.port # Stunnel /\ x.bridge # Stunnel
  BY <1>0, Contents, Names
<1>4. \A x \in k.qdiscs : x.on # Stunnel
  BY <1>0, Contents, Names
<1>5. \A x \in k.filters : x.on # Stunnel
  BY <1>0, Contents
<1>6. \A x \in k.fdb : x.on # Stunnel
  BY Contents, Names
<1> QED BY <1>1, <1>2, <1>3, <1>4, <1>5, <1>6 DEF Fresh

\* The port and qdiscs of a virt that is to be added.
LEMMA FreshVirt ==
  ASSUME NEW k, NEW P, NEW V, NEW R, NEW n, Exact(k, P, V, R, n), NEW v, v \notin V
  PROVE  NoPort(k, VirtIf(v)) /\ \A x \in k.qdiscs : x.on # VirtIf(v)
<1>0. Shared(P) \subseteq {Stunnel}
  BY DEF Shared
<1>1. \A x \in k.ports : x.port # VirtIf(v)
  BY Contents, Names
<1>2. \A x \in k.qdiscs : x.on # VirtIf(v)
  BY <1>0, Contents, Names
<1> QED BY <1>1, <1>2 DEF NoPort

\* The dummy and the rules of a remote PA that is to be added.
LEMMA FreshRemote ==
  ASSUME NEW k, NEW P, NEW V, NEW R, NEW n, Exact(k, P, V, R, n), NEW r, r \notin R
  PROVE  Fresh(k, Dummy(r)) /\ FromTunnel(r) \notin k.filters
<1>0. Routed(R) \subseteq R /\ Shared(P) \subseteq {Stunnel}
  BY DEF Routed, Shared
<1>1. Dummy(r) \notin k.links
  BY <1>0, Contents, Names DEF PhysIfs, VirtIfs
<1>2. Dummy(r) \notin k.up
  BY <1>1 DEF Exact, UpExact
<1>3. \A x \in k.ports : x.port # Dummy(r) /\ x.bridge # Dummy(r)
  BY <1>0, Contents, Names
<1>4. \A x \in k.qdiscs : x.on # Dummy(r)
  BY <1>0, Contents, Names
<1>5. ASSUME NEW x \in k.filters PROVE x.on # Dummy(r) /\ x # FromTunnel(r)
  BY <1>0, Contents, Names, TunnelRules
<1>6. \A x \in k.fdb : x.on # Dummy(r)
  BY Contents, Names
<1> QED BY <1>1, <1>2, <1>3, <1>4, <1>5, <1>6 DEF Fresh

(***************************************************************************)
(* Every operation that ended with no error makes the kernel exact for     *)
(* what there is then.                                                     *)
(***************************************************************************)

\* Creating a PA whose port is the interface of its phys or a tunnel of its
\* own; L are the links it adds.
LEMMA CreateExact ==
  ASSUME NEW k, NEW P, NEW V, NEW R, NEW n, Exact(k, P, V, R, n),
         NEW a \in Pas, a \notin P, TypeOf[a] # "geneve/e2e", NEW K,
         IF TypeOf[a] = "direct" THEN K = LbridgeMade(k, a) /\ PhysIf(a) \in k.links
                                 ELSE K = TunnelMade(k, a)
  PROVE  Exact(K, P \cup {a}, V, R, n)
<1> DEFINE Q == P \cup {a}
           L == IF TypeOf[a] = "direct" THEN {} ELSE {Tunnel(a)}
<1>0. /\ Members(P, V, R) /\ IsKernel(k) /\ n = Cardinality(Geneves(P))
      /\ LinksExact(k, P, R) /\ PortsExact(k, P, V, R) /\ UpExact(k, V)
      /\ QdiscsExact(k, P, V, R) /\ FiltersExact(k, R) /\ FdbExact(k, R)
  BY DEF Exact
<1>1. /\ K = [links |-> k.links \cup L \cup {Bridge(a)},
              ports |-> {x \in k.ports : x.port # TunnelIf(a)} \cup {Port(TunnelIf(a), a)},
              up |-> k.up \cup {Bridge(a)} \cup {TunnelIf(a)},
              qdiscs |-> k.qdiscs, filters |-> k.filters, fdb |-> k.fdb]
  <2>1. ASSUME NEW j, IsKernel(j)
        PROVE  LbridgeMade(j, a) =
             [links |-> j.links \cup {Bridge(a)},
              ports |-> {x \in j.ports : x.port # TunnelIf(a)} \cup {Port(TunnelIf(a), a)},
              up |-> j.up \cup {Bridge(a)} \cup {TunnelIf(a)},
              qdiscs |-> j.qdiscs, filters |-> j.filters, fdb |-> j.fdb]
    <3> DEFINE b == BridgeMade(j, a)
    <3>1. /\ IsKernel(b)
          /\ b = [links |-> j.links \cup {Bridge(a)}, ports |-> j.ports,
                  up |-> j.up \cup {Bridge(a)}, qdiscs |-> j.qdiscs,
                  filters |-> j.filters, fdb |-> j.fdb]
      BY <2>1, MadeParts
    <3> HIDE DEF b
    <3>2. PortMade(b, a, TunnelIf(a)) =
             [links |-> b.links,
              ports |-> {x \in b.ports : x.port # TunnelIf(a)} \cup {Port(TunnelIf(a), a)},
              up |-> b.up \cup {TunnelIf(a)},
              qdiscs |-> b.qdiscs, filters |-> b.filters, fdb |-> b.fdb]
      BY <3>1, MadeParts
    <3> QED BY <3>1, <3>2 DEF LbridgeMade, b
  <2>2. CASE TypeOf[a] = "direct"
    <3>1. k.links \cup L = k.links
      BY <2>2
    <3> QED BY <1>0, <2>1, <2>2, <3>1
  <2>3. CASE TypeOf[a] # "direct"
    <3> DEFINE j == AddLink(k, Tunnel(a))
    <3>1. j = [links |-> k.links \cup {Tunnel(a)}, ports |-> k.ports, up |-> k.up,
               qdiscs |-> k.qdiscs, filters |-> k.filters, fdb |-> k.fdb]
      BY <1>0, Changes
    <3>2. K = LbridgeMade(j, a)
      BY <2>3 DEF TunnelMade
    <3> HIDE DEF j
    <3>3. IsKernel(j)
      BY <3>1 DEF IsKernel
    <3> QED BY <2>1, <2>3, <3>1, <3>2, <3>3
  <2> QED BY <2>2, <2>3
<1>2. /\ Geneves(Q) = Geneves(P) /\ Shared(Q) = Shared(P)
      /\ Owners(Q) = Owners(P) \cup (IF TypeOf[a] = "direct" THEN {} ELSE {a})
  BY DEF Geneves, Shared, Owners
<1>3. Members(Q, V, R)
  BY <1>0, FS_AddElement DEF Members
<1>4. IsKernel(K)
  BY <1>1 DEF IsKernel
<1>5. Bridge(a) \notin PhysIfs /\ Tunnel(a) \notin PhysIfs
  BY Names DEF PhysIfs
<1>6. LinksExact(K, Q, R)
  <2>1. K.links \ PhysIfs = (k.links \ PhysIfs) \cup L \cup {Bridge(a)}
    BY <1>1, <1>5
  <2>2. {Bridge(b) : b \in Q} = {Bridge(b) : b \in P} \cup {Bridge(a)}
    OBVIOUS
  <2>3. {Tunnel(b) : b \in Owners(Q)} = {Tunnel(b) : b \in Owners(P)} \cup L
    BY <1>2
  <2> HIDE DEF Q, L
  <2> QED BY <1>0, <1>2, <2>1, <2>2, <2>3 DEF LinksExact
<1>7. PortsExact(K, Q, V, R)
  <2>1. NoPort(k, TunnelIf(a))
    BY FreshPa DEF TunnelIf, Fresh, NoPort
  <2>2. K.ports = k.ports \cup {Port(TunnelIf(a), a)}
    BY <1>1, <2>1 DEF NoPort
  <2>3. a \in Q \ Geneves(Q) /\ Q \ Geneves(Q) = (P \ Geneves(P)) \cup {a}
    BY DEF Geneves
  <2>4. {Port(TunnelIf(b), b) : b \in Q \ Geneves(Q)} =
          {Port(TunnelIf(b), b) : b \in P \ Geneves(P)} \cup {Port(TunnelIf(a), a)}
    BY <2>3
  <2> HIDE DEF Q
  <2> QED BY <1>0, <2>2, <2>4 DEF PortsExact
<1>8. UpExact(K, V)
  <2>1. TunnelIf(a) \in k.links \cup L
    BY DEF TunnelIf
  <2>2. L \subseteq {TunnelIf(a)}
    BY DEF TunnelIf
  <2> HIDE DEF L
  <2> QED BY <1>0, <1>1, <2>1, <2>2 DEF UpExact
<1>9. QdiscsExact(K, Q, V, R) /\ FiltersExact(K, R) /\ FdbExact(K, R)
  BY <1>0, <1>1, <1>2 DEF QdiscsExact, FiltersExact, FdbExact
<1> QED BY <1>0, <1>2, <1>3, <1>4, <1>6, <1>7, <1>8, <1>9 DEF Exact

\* Creating a PA that shares the tunnel.
LEMMA GeneveCreateExact ==
  ASSUME NEW k, NEW P, NEW V, NEW R, NEW n, Exact(k, P, V, R, n),
         NEW a \in Pas, a \notin P, TypeOf[a] = "geneve/e2e"
  PROVE  Exact(GeneveMade(k, n, a), P \cup {a}, V, R, n + 1)
<1> DEFINE Q == P \cup {a}
           K == GeneveMade(k, n, a)
           D == {Qdisc(Stunnel, "in")}
<1>0. /\ Members(P, V, R) /\ IsKernel(k) /\ n = Cardinality(Geneves(P))
      /\ LinksExact(k, P, R) /\ PortsExact(k, P, V, R) /\ UpExact(k, V)
      /\ QdiscsExact(k, P, V, R) /\ FiltersExact(k, R) /\ FdbExact(k, R)
  BY DEF Exact
<1>1. /\ n \in Nat /\ IsFiniteSet(Geneves(P))
      /\ n > 0 => Shared(P) = {Stunnel}
      /\ ~(n > 0) => Shared(P) = {}
  BY Counted DEF Shared
<1>2. /\ n > 0 => Stunnel \in k.links /\ Stunnel \in k.up /\ D \subseteq k.qdiscs
  <2> SUFFICES ASSUME n > 0 PROVE Stunnel \in k.links /\ Stunnel \in k.up /\ D \subseteq k.qdiscs
    OBVIOUS
  <2>1. Stunnel \in k.links
    BY <1>0, <1>1 DEF LinksExact
  <2>2. Stunnel \notin PhysIfs \cup VirtIfs
    BY Names DEF PhysIfs, VirtIfs
  <2> QED BY <1>0, <1>1, <2>1, <2>2 DEF UpExact, QdiscsExact
<1>3. K = [links |-> k.links \cup {Stunnel} \cup {Bridge(a)}, ports |-> k.ports,
           up |-> k.up \cup {Stunnel} \cup {Bridge(a)}, qdiscs |-> k.qdiscs \cup D,
           filters |-> k.filters, fdb |-> k.fdb]
  <2> DEFINE j == IF n > 0 THEN k ELSE StunnelMade(k)
  <2>1. /\ IsKernel(j)
        /\ j = [links |-> k.links \cup {Stunnel}, ports |-> k.ports,
                up |-> k.up \cup {Stunnel}, qdiscs |-> k.qdiscs \cup D,
                filters |-> k.filters, fdb |-> k.fdb]
    <3>1. CASE n > 0
      <4> HIDE DEF D
      <4>1. /\ k.links \cup {Stunnel} = k.links /\ k.up \cup {Stunnel} = k.up
            /\ k.qdiscs \cup D = k.qdiscs
        BY <1>2, <3>1
      <4> QED BY <1>0, <3>1, <4>1 DEF IsKernel
    <3>2. CASE ~(n > 0)
      BY <1>0, <3>2, StunnelParts
    <3> QED BY <3>1, <3>2
  <2>2. K = BridgeMade(j, a)
    BY DEF GeneveMade
  <2> HIDE DEF j, K, D
  <2>3. BridgeMade(j, a) =
          [links |-> j.links \cup {Bridge(a)}, ports |-> j.ports, up |-> j.up \cup {Bridge(a)},
           qdiscs |-> j.qdiscs, filters |-> j.filters, fdb |-> j.fdb]
    BY <2>1, MadeParts
  <2> QED BY <2>1, <2>2, <2>3
<1> HIDE DEF K
<1>4. /\ Geneves(Q) = Geneves(P) \cup {a} /\ a \notin Geneves(P)
      /\ Shared(Q) = {Stunnel} /\ Owners(Q) = Owners(P)
      /\ Q \ Geneves(Q) = P \ Geneves(P)
  BY DEF Geneves, Shared, Owners
<1>5. n + 1 = Cardinality(Geneves(Q))
  BY <1>0, <1>1, <1>4, FS_AddElement
<1>6. Members(Q, V, R)
  BY <1>0, FS_AddElement DEF Members
<1>7. IsKernel(K)
  BY <1>3 DEF IsKernel
<1>8. Shared(P) \subseteq {Stunnel}
  BY DEF Shared
<1>9. LinksExact(K, Q, R)
  <2>1. Bridge(a) \notin PhysIfs /\ Stunnel \notin PhysIfs
    BY Names DEF PhysIfs
  <2>2. K.links \ PhysIfs = (k.links \ PhysIfs) \cup {Stunnel} \cup {Bridge(a)}
    BY <1>3, <2>1
  <2>3. {Bridge(b) : b \in Q} = {Bridge(b) : b \in P} \cup {Bridge(a)}
    OBVIOUS
  <2> HIDE DEF Q
  <2> QED BY <1>0, <1>4, <1>8, <2>2, <2>3 DEF LinksExact
<1>10. PortsExact(K, Q, V, R) /\ FiltersExact(K, R) /\ FdbExact(K, R)
  <2>1. K.ports = k.ports /\ K.filters = k.filters /\ K.fdb = k.fdb
    BY <1>3
  <2> HIDE DEF Q
  <2> QED BY <1>0, <1>4, <2>1 DEF PortsExact, FiltersExact, FdbExact
<1>11. UpExact(K, V)
  <2>1. /\ K.links = k.links \cup {Stunnel} \cup {Bridge(a)}
        /\ K.up = k.up \cup {Stunnel} \cup {Bridge(a)}
    BY <1>3
  <2> QED BY <1>0, <2>1 DEF UpExact
<1>12. QdiscsExact(K, Q, V, R)
  <2>1. {Qdisc(i, "in") : i \in Shared(Q)} = {Qdisc(i, "in") : i \in Shared(P)} \cup D
    BY <1>4, <1>8
  <2> HIDE DEF Q, D
  <2> QED BY <1>0, <1>3, <2>1 DEF QdiscsExact
<1> QED BY <1>5, <1>6, <1>7, <1>9, <1>10, <1>11, <1>12 DEF Exact, K

\* Destroying a PA with a port of its own, once nothing is connected to it.
LEMMA DestroyExact ==
  ASSUME NEW k, NEW P, NEW V, NEW R, NEW n, Exact(k, P, V, R, n),
         NEW a \in P, TypeOf[a] # "geneve/e2e",
         \A v \in V : PaOf[v] # a, \A r \in R : At[r] # a
  PROVE  Exact(LbridgeUnmade(k, a), P \ {a}, V, R, n)
<1> DEFINE Q == P \ {a}
           K == LbridgeUnmade(k, a)
           B == Bridge(a)
           i == TunnelIf(a)
<1>0. /\ Members(P, V, R) /\ IsKernel(k) /\ n = Cardinality(Geneves(P))
      /\ LinksExact(k, P, R) /\ PortsExact(k, P, V, R) /\ UpExact(k, V)
      /\ QdiscsExact(k, P, V, R) /\ FiltersExact(k, R) /\ FdbExact(k, R)
  BY DEF Exact
<1>1. Routed(R) \subseteq R /\ Shared(P) \subseteq {Stunnel}
  BY DEF Routed, Shared
<1>2. /\ \A b : i # Bridge(b) /\ i # VirtIf(b) /\ i # Dummy(b) /\ (b # a => i # TunnelIf(b))
      /\ i # Stunnel /\ (i = PhysIf(a) \/ i = Tunnel(a))
  BY Names DEF TunnelIf
<1>3. /\ \A b : B # VirtIf(b) /\ B # Dummy(b) /\ B # Tunnel(b) /\ B # PhysIf(b)
      /\ \A b : B = Bridge(b) <=> b = a
      /\ B # Stunnel
  BY Names
<1> HIDE DEF i, B
<1>4. K = [links   |-> k.links \ {B, i},
           ports   |-> {x \in k.ports : x.port # i /\ x.bridge # i /\ x.port # B /\ x.bridge # B},
           up      |-> k.up \ {B, i},
           qdiscs  |-> {x \in k.qdiscs : x.on # i /\ x.on # B},
           filters |-> {x \in k.filters : x.on # i /\ x.on # B},
           fdb     |-> {x \in k.fdb : x.on # i /\ x.on # B}]
  <2> DEFINE j == SetMaster(k, NULL, i)
             l == LinkDelete(j, B)
  <2>1. j = [links |-> k.links, ports |-> {x \in k.ports : x.port # i}, up |-> k.up,
             qdiscs |-> k.qdiscs, filters |-> k.filters, fdb |-> k.fdb]
    BY <1>0, Masters
  <2>2. K = LinkDelete(l, i)
    BY DEF LbridgeUnmade, i, B
  <2> HIDE DEF j, K
  <2>3. /\ l.links = k.links \ {B} /\ l.up = k.up \ {B}
        /\ l.ports = {x \in k.ports : x.port # i /\ x.port # B /\ x.bridge # B}
        /\ l.qdiscs = {x \in k.qdiscs : x.on # B}
        /\ l.filters = {x \in k.filters : x.on # B} /\ l.fdb = {x \in k.fdb : x.on # B}
    BY <2>1 DEF LinkDelete
  <2> HIDE DEF l
  <2>4. K = [links |-> l.links \ {i},
             ports |-> {x \in l.ports : x.port # i /\ x.bridge # i},
             up |-> l.up \ {i}, qdiscs |-> {x \in l.qdiscs : x.on # i},
             filters |-> {x \in l.filters : x.on # i}, fdb |-> {x \in l.fdb : x.on # i}]
    BY <2>2 DEF LinkDelete
  <2>5. /\ l.links \ {i} = k.links \ {B, i} /\ l.up \ {i} = k.up \ {B, i}
        /\ {x \in l.ports : x.port # i /\ x.bridge # i} =
             {x \in k.ports : x.port # i /\ x.bridge # i /\ x.port # B /\ x.bridge # B}
        /\ {x \in l.qdiscs : x.on # i} = {x \in k.qdiscs : x.on # i /\ x.on # B}
        /\ {x \in l.filters : x.on # i} = {x \in k.filters : x.on # i /\ x.on # B}
        /\ {x \in l.fdb : x.on # i} = {x \in k.fdb : x.on # i /\ x.on # B}
    BY <2>3
  <2> QED BY <2>4, <2>5
<1> HIDE DEF K
<1>5. /\ Geneves(Q) = Geneves(P) /\ Shared(Q) = Shared(P) /\ Owners(Q) = Owners(P) \ {a}
      /\ Q \ Geneves(Q) = (P \ Geneves(P)) \ {a} /\ a \in P \ Geneves(P)
  BY DEF Geneves, Shared, Owners
<1>6. Members(Q, V, R)
  BY <1>0, FS_RemoveElement DEF Members
<1>7. IsKernel(K)
  BY <1>4 DEF IsKernel
<1>8. LinksExact(K, Q, R)
  <2>1. {Bridge(b) : b \in Q} = {Bridge(b) : b \in P} \ {B}
    BY <1>3
  <2>2. {Tunnel(b) : b \in Owners(Q)} = {Tunnel(b) : b \in Owners(P)} \ {i}
    BY <1>5, Names DEF i, TunnelIf, Owners
  <2>3. B \notin VirtIfs /\ i \notin VirtIfs
    BY <1>2, <1>3 DEF VirtIfs
  <2>4. /\ \A b : i # Bridge(b) /\ B # Tunnel(b) /\ i # Dummy(b) /\ B # Dummy(b)
        /\ i # Stunnel /\ B # Stunnel
    BY <1>2, <1>3
  <2>5. K.links \ PhysIfs = (k.links \ PhysIfs) \ {B, i}
    BY <1>4
  <2> HIDE DEF Q
  <2>6. /\ VirtIfs \ {B, i} = VirtIfs
        /\ {Bridge(b) : b \in P} \ {B, i} = {Bridge(b) : b \in Q}
        /\ {Tunnel(b) : b \in Owners(P)} \ {B, i} = {Tunnel(b) : b \in Owners(Q)}
        /\ {Dummy(r) : r \in Routed(R)} \ {B, i} = {Dummy(r) : r \in Routed(R)}
        /\ Shared(P) \ {B, i} = Shared(Q)
    BY <1>1, <1>5, <2>1, <2>2, <2>3, <2>4
  <2> QED BY <1>0, <2>5, <2>6 DEF LinksExact
<1>9. PortsExact(K, Q, V, R)
  <2> DEFINE Own(S)  == {Port(TunnelIf(b), b) : b \in S}
             Of_V    == {Port(VirtIf(v), PaOf[v]) : v \in V}
             Of_R    == {Port(Dummy(r), At[r]) : r \in Routed(R)}
             Keep(x) == x.port # i /\ x.bridge # i /\ x.port # B /\ x.bridge # B
  <2>1. \A x \in Of_V \cup Of_R : Keep(x)
    BY <1>1, <1>2, <1>3, Items
  <2>2. \A b : b # a => Keep(Port(TunnelIf(b), b))
    <3>1. \A b : TunnelIf(b) # B
      BY <1>3 DEF TunnelIf
    <3> QED BY <1>2, <1>3, <3>1, Items
  <2>3. ~Keep(Port(TunnelIf(a), a))
    BY Items DEF i
  <2>4. K.ports = {x \in k.ports : Keep(x)} /\ k.ports = Own(P \ Geneves(P)) \cup Of_V \cup Of_R
    BY <1>0, <1>4 DEF PortsExact
  <2> HIDE DEF Keep, Of_V, Of_R
  <2>5. Own(Q \ Geneves(Q)) = {x \in Own(P \ Geneves(P)) : Keep(x)}
    BY <1>5, <2>2, <2>3
  <2> HIDE DEF Own, Q
  <2>6. K.ports = Own(Q \ Geneves(Q)) \cup Of_V \cup Of_R
    BY <2>1, <2>4, <2>5
  <2> QED BY <2>6 DEF PortsExact, Own, Of_V, Of_R
<1>10. UpExact(K, V)
  <2>1. \A v : VirtIf(v) # B /\ VirtIf(v) # i
    BY <1>2, <1>3
  <2>2. K.links = k.links \ {B, i} /\ K.up = k.up \ {B, i}
    BY <1>4
  <2> QED BY <1>0, <2>1, <2>2 DEF UpExact
<1>11. QdiscsExact(K, Q, V, R) /\ FiltersExact(K, R) /\ FdbExact(K, R)
  <2>1. \A x \in k.qdiscs : x.on # i /\ x.on # B
    BY <1>1, <1>2, <1>3, Contents
  <2>2. \A x \in k.filters : x.on # i /\ x.on # B
    BY <1>2, <1>3, Contents, TunnelRules
  <2>3. \A x \in k.fdb : x.on # i /\ x.on # B
    BY <1>2, <1>3, Contents, Names
  <2>4. K.qdiscs = k.qdiscs /\ K.filters = k.filters /\ K.fdb = k.fdb
    BY <1>4, <2>1, <2>2, <2>3
  <2> QED BY <1>0, <1>5, <2>4 DEF QdiscsExact, FiltersExact, FdbExact
<1> QED BY <1>0, <1>5, <1>6, <1>7, <1>8, <1>9, <1>10, <1>11 DEF Exact, K

\* Destroying a PA that shares the tunnel, which goes with the last of them.
LEMMA GeneveDestroyExact ==
  ASSUME NEW k, NEW P, NEW V, NEW R, NEW n, Exact(k, P, V, R, n),
         NEW a \in P, TypeOf[a] = "geneve/e2e",
         \A v \in V : PaOf[v] # a, \A r \in R : At[r] # a
  PROVE  Exact(GeneveUnmade(k, n, a), P \ {a}, V, R, n - 1)
<1> DEFINE Q == P \ {a}
           K == GeneveUnmade(k, n, a)
           B == Bridge(a)
           D == IF n - 1 > 0 THEN {B} ELSE {B, Stunnel}
<1>0. /\ Members(P, V, R) /\ IsKernel(k) /\ n = Cardinality(Geneves(P))
      /\ LinksExact(k, P, R) /\ PortsExact(k, P, V, R) /\ UpExact(k, V)
      /\ QdiscsExact(k, P, V, R) /\ FiltersExact(k, R) /\ FdbExact(k, R)
  BY DEF Exact
<1>1. /\ n \in Nat /\ IsFiniteSet(Geneves(P)) /\ Shared(P) = {Stunnel}
      /\ Geneves(Q) = Geneves(P) \ {a} /\ a \in Geneves(P)
      /\ Owners(Q) = Owners(P) /\ Q \ Geneves(Q) = P \ Geneves(P)
  BY Counted DEF Shared, Geneves, Owners
<1>2. n - 1 = Cardinality(Geneves(Q)) /\ IsFiniteSet(Geneves(Q))
  BY <1>0, <1>1, FS_RemoveElement, ZenonT(40)
<1>3. Members(Q, V, R)
  BY <1>0, FS_RemoveElement DEF Members
<1>4. /\ n - 1 > 0 => Shared(Q) = {Stunnel}
      /\ ~(n - 1 > 0) => Shared(Q) = {} /\ Routed(R) = {}
  <2>1. n - 1 \in Nat /\ (n - 1 = 0 <=> Geneves(Q) = {})
    BY <1>2, FS_CardinalityType, FS_EmptySet
  <2>2. Geneves(Q) = {} => Routed(R) = {}
    BY <1>3 DEF Members, Geneves, Routed
  <2>3. n - 1 > 0 <=> n - 1 # 0
    BY <1>1, <2>1
  <2> HIDE DEF Q
  <2> QED BY <2>1, <2>2, <2>3 DEF Shared
<1>5. /\ \A b : B # VirtIf(b) /\ B # Dummy(b) /\ B # Tunnel(b) /\ B # PhysIf(b)
      /\ \A b : B = Bridge(b) <=> b = a
      /\ B # Stunnel
  BY Names
<1> HIDE DEF B
<1>6. K = [links   |-> k.links \ D,
           ports   |-> {x \in k.ports : x.port \notin D /\ x.bridge \notin D},
           up      |-> k.up \ D,
           qdiscs  |-> {x \in k.qdiscs : x.on \notin D},
           filters |-> {x \in k.filters : x.on \notin D},
           fdb     |-> {x \in k.fdb : x.on \notin D}]
  <2> DEFINE l == LinkDelete(k, B)
  <2>1. l = [links |-> k.links \ {B},
             ports |-> {x \in k.ports : x.port # B /\ x.bridge # B},
             up |-> k.up \ {B}, qdiscs |-> {x \in k.qdiscs : x.on # B},
             filters |-> {x \in k.filters : x.on # B}, fdb |-> {x \in k.fdb : x.on # B}]
    BY DEF LinkDelete
  <2>2. K = IF n - 1 > 0 THEN l ELSE LinkDelete(l, Stunnel)
    BY DEF GeneveUnmade, B
  <2> HIDE DEF l, K
  <2>3. CASE n - 1 > 0
    <3>1. D = {B}
      BY <2>3
    <3> HIDE DEF D
    <3>2. /\ k.links \ {B} = k.links \ D /\ k.up \ {B} = k.up \ D
          /\ {x \in k.ports : x.port # B /\ x.bridge # B} =
               {x \in k.ports : x.port \notin D /\ x.bridge \notin D}
          /\ {x \in k.qdiscs : x.on # B} = {x \in k.qdiscs : x.on \notin D}
          /\ {x \in k.filters : x.on # B} = {x \in k.filters : x.on \notin D}
          /\ {x \in k.fdb : x.on # B} = {x \in k.fdb : x.on \notin D}
      BY <3>1
    <3> QED BY <2>1, <2>2, <2>3, <3>2
  <2>4. CASE ~(n - 1 > 0)
    <3>1. D = {B, Stunnel}
      BY <2>4
    <3> HIDE DEF D
    <3>2. /\ l.links = k.links \ {B} /\ l.up = k.up \ {B}
          /\ l.ports = {x \in k.ports : x.port # B /\ x.bridge # B}
          /\ l.qdiscs = {x \in k.qdiscs : x.on # B}
          /\ l.filters = {x \in k.filters : x.on # B} /\ l.fdb = {x \in k.fdb : x.on # B}
      BY <2>1
    <3>3. /\ l.links \ {Stunnel} = k.links \ D /\ l.up \ {Stunnel} = k.up \ D
          /\ {x \in l.ports : x.port # Stunnel /\ x.bridge # Stunnel} =
               {x \in k.ports : x.port \notin D /\ x.bridge \notin D}
          /\ {x \in l.qdiscs : x.on # Stunnel} = {x \in k.qdiscs : x.on \notin D}
          /\ {x \in l.filters : x.on # Stunnel} = {x \in k.filters : x.on \notin D}
          /\ {x \in l.fdb : x.on # Stunnel} = {x \in k.fdb : x.on \notin D}
      BY <3>1, <3>2
    <3>4. K = [links |-> l.links \ {Stunnel},
               ports |-> {x \in l.ports : x.port # Stunnel /\ x.bridge # Stunnel},
               up |-> l.up \ {Stunnel}, qdiscs |-> {x \in l.qdiscs : x.on # Stunnel},
               filters |-> {x \in l.filters : x.on # Stunnel},
               fdb |-> {x \in l.fdb : x.on # Stunnel}]
      BY <2>2, <2>4 DEF LinkDelete
    <3> QED BY <3>3, <3>4
  <2> QED BY <2>3, <2>4
<1> HIDE DEF K
<1>7. IsKernel(K)
  BY <1>6 DEF IsKernel
<1>8. /\ D = {B} \cup (IF n - 1 > 0 THEN {} ELSE {Stunnel})
      /\ Shared(Q) = Shared(P) \ D
      /\ \A b : VirtIf(b) \notin D /\ Tunnel(b) \notin D /\ PhysIf(b) \notin D /\ Dummy(b) \notin D
      /\ \A b : Bridge(b) \in D <=> b = a
      /\ B \in D
  <2>1. CASE n - 1 > 0
    <3>1. D = {B}
      BY <2>1
    <3> HIDE DEF D, Q
    <3>2. Shared(Q) = Shared(P) \ D
      BY <1>1, <1>4, <1>5, <2>1, <3>1
    <3> QED BY <1>5, <2>1, <3>1, <3>2, Names
  <2>2. CASE ~(n - 1 > 0)
    <3>1. D = {B, Stunnel}
      BY <2>2
    <3> HIDE DEF D, Q
    <3>2. Shared(Q) = Shared(P) \ D
      BY <1>1, <1>4, <1>5, <2>2, <3>1
    <3> QED BY <1>5, <2>2, <3>1, <3>2, Names
  <2> QED BY <2>1, <2>2
<1>9. LinksExact(K, Q, R)
  <2>1. K.links \ PhysIfs = (k.links \ PhysIfs) \ D
    BY <1>6
  <2> HIDE DEF D
  <2>2. /\ VirtIfs \ D = VirtIfs
        /\ {Bridge(b) : b \in P} \ D = {Bridge(b) : b \in Q}
        /\ {Tunnel(b) : b \in Owners(P)} \ D = {Tunnel(b) : b \in Owners(Q)}
        /\ {Dummy(r) : r \in Routed(R)} \ D = {Dummy(r) : r \in Routed(R)}
    BY <1>1, <1>8 DEF VirtIfs
  <2> HIDE DEF Q
  <2> QED BY <1>0, <1>8, <2>1, <2>2 DEF LinksExact
<1>10. PortsExact(K, Q, V, R)
  <2> HIDE DEF D
  <2>1. ASSUME NEW x \in k.ports PROVE x.port \notin D /\ x.bridge \notin D
    <3>1. CASE \E b \in P \ Geneves(P) : x = Port(TunnelIf(b), b)
      BY <1>1, <1>8, <3>1, Items DEF TunnelIf
    <3>2. CASE \E v \in V : x = Port(VirtIf(v), PaOf[v])
      BY <1>8, <3>2, Items
    <3>3. CASE \E r \in R : x = Port(Dummy(r), At[r])
      BY <1>8, <3>3, Items
    <3>4. Routed(R) \subseteq R
      BY DEF Routed
    <3> QED BY <1>0, <3>1, <3>2, <3>3, <3>4 DEF PortsExact
  <2>2. K.ports = k.ports
    BY <1>6, <2>1
  <2> HIDE DEF Q
  <2> QED BY <1>0, <1>1, <2>2 DEF PortsExact
<1>11. UpExact(K, V)
  <2>1. K.links = k.links \ D /\ K.up = k.up \ D
    BY <1>6
  <2> HIDE DEF D
  <2> QED BY <1>0, <1>8, <2>1 DEF UpExact
<1>12. QdiscsExact(K, Q, V, R)
  <2> HIDE DEF D
  <2> DEFINE Of_V == {Qdisc(VirtIf(v), d) : v \in V, d \in {"in", "out"}}
             Of_R == {Qdisc(Dummy(r), "out") : r \in Routed(R)}
  <2>1. (\A x \in Of_V : x.on \notin D) /\ (\A x \in Of_R : x.on \notin D)
    BY <1>8, Items
  <2>2. {Qdisc(i, "in") : i \in Shared(Q)} =
          {x \in {Qdisc(i, "in") : i \in Shared(P)} : x.on \notin D}
    <3> HIDE DEF Q
    <3>1. \A i : Qdisc(i, "in").on = i
      BY Items
    <3> QED BY <1>8, <3>1
  <2>3. K.qdiscs = {x \in k.qdiscs : x.on \notin D}
    BY <1>6
  <2>4. k.qdiscs = Of_V \cup Of_R \cup {Qdisc(i, "in") : i \in Shared(P)}
    BY <1>0 DEF QdiscsExact
  <2> HIDE DEF Q, Of_V, Of_R
  <2>5. K.qdiscs = Of_V \cup Of_R \cup {Qdisc(i, "in") : i \in Shared(Q)}
    BY <2>1, <2>2, <2>3, <2>4
  <2> QED BY <2>5 DEF QdiscsExact, Of_V, Of_R
<1>13. FiltersExact(K, R) /\ FdbExact(K, R)
  <2>1. ASSUME NEW x \in k.filters PROVE x.on \notin D
    <3>1. PICK r \in Routed(R) : x.on = Dummy(r) \/ x = FromTunnel(r)
      BY Contents
    <3>2. n - 1 > 0
      BY <1>4, <3>1
    <3> QED BY <1>5, <3>1, <3>2, TunnelRules
  <2>2. \A x \in k.fdb : x.on \notin D
    BY <1>8, Contents
  <2>3. K.filters = k.filters /\ K.fdb = k.fdb
    BY <1>6, <2>1, <2>2
  <2> QED BY <1>0, <2>3 DEF FiltersExact, FdbExact
<1> QED BY <1>2, <1>3, <1>7, <1>9, <1>10, <1>11, <1>12, <1>13 DEF Exact, K

\* Adding a virt.
LEMMA AddVirtExact ==
  ASSUME NEW k, NEW P, NEW V, NEW R, NEW n, Exact(k, P, V, R, n),
         NEW v \in Virts, v \notin V, PaOf[v] \in P
  PROVE  Exact(VirtMade(k, v), P, V \cup {v}, R, n)
<1> DEFINE W == V \cup {v}
           K == VirtMade(k, v)
           i == VirtIf(v)
           D == {Qdisc(i, "out"), Qdisc(i, "in")}
<1>0. /\ Members(P, V, R) /\ IsKernel(k) /\ n = Cardinality(Geneves(P))
      /\ LinksExact(k, P, R) /\ PortsExact(k, P, V, R) /\ UpExact(k, V)
      /\ QdiscsExact(k, P, V, R) /\ FiltersExact(k, R) /\ FdbExact(k, R)
  BY DEF Exact
<1>1. NoPort(k, i)
  BY FreshVirt
<1>2. K = [links |-> k.links, ports |-> k.ports \cup {Port(i, PaOf[v])}, up |-> k.up \cup {i},
           qdiscs |-> k.qdiscs \cup D, filters |-> k.filters, fdb |-> k.fdb]
  <2> DEFINE j == QdiscsMade(k, i)
  <2>1. /\ IsKernel(j)
        /\ j = [links |-> k.links, ports |-> k.ports, up |-> k.up,
                qdiscs |-> k.qdiscs \cup D, filters |-> k.filters, fdb |-> k.fdb]
    BY <1>0, QdiscParts
  <2>2. K = PortMade(j, PaOf[v], i) /\ PaOf[v] \in Pas
    BY <1>0 DEF VirtMade, Members
  <2> HIDE DEF j, K, i, D
  <2>3. PortMade(j, PaOf[v], i) =
          [links |-> j.links, ports |-> {x \in j.ports : x.port # i} \cup {Port(i, PaOf[v])},
           up |-> j.up \cup {i}, qdiscs |-> j.qdiscs, filters |-> j.filters, fdb |-> j.fdb]
    BY <2>1, <2>2, MadeParts
  <2>4. {x \in j.ports : x.port # i} = k.ports
    BY <1>1, <2>1 DEF NoPort
  <2> QED BY <2>1, <2>2, <2>3, <2>4
<1> HIDE DEF K
<1>3. Members(P, W, R)
  BY <1>0 DEF Members
<1>4. IsKernel(K)
  BY <1>2 DEF IsKernel
<1>5. K.links = k.links /\ K.filters = k.filters /\ K.fdb = k.fdb
  BY <1>2
<1>6. LinksExact(K, P, R) /\ FiltersExact(K, R) /\ FdbExact(K, R)
  BY <1>0, <1>5 DEF LinksExact, FiltersExact, FdbExact
<1>7. PortsExact(K, P, W, R)
  <2>1. {Port(VirtIf(x), PaOf[x]) : x \in W} =
          {Port(VirtIf(x), PaOf[x]) : x \in V} \cup {Port(i, PaOf[v])}
    OBVIOUS
  <2>2. K.ports = k.ports \cup {Port(i, PaOf[v])}
    BY <1>2
  <2> HIDE DEF W, i
  <2> QED BY <1>0, <2>1, <2>2 DEF PortsExact
<1>8. UpExact(K, W)
  <2>1. i \in k.links
    BY <1>0 DEF LinksExact, VirtIfs
  <2>2. K.up = k.up \cup {i}
    BY <1>2
  <2>3. {VirtIf(x) : x \in W} = {VirtIf(x) : x \in V} \cup {i}
    OBVIOUS
  <2> HIDE DEF W, i
  <2> QED BY <1>0, <1>5, <2>1, <2>2, <2>3 DEF UpExact
<1>9. QdiscsExact(K, P, W, R)
  <2>1. {Qdisc(VirtIf(x), d) : x \in W, d \in {"in", "out"}} =
          {Qdisc(VirtIf(x), d) : x \in V, d \in {"in", "out"}} \cup D
    OBVIOUS
  <2>2. K.qdiscs = k.qdiscs \cup D
    BY <1>2
  <2> HIDE DEF W, D
  <2> QED BY <1>0, <2>1, <2>2 DEF QdiscsExact
<1> QED BY <1>0, <1>3, <1>4, <1>6, <1>7, <1>8, <1>9 DEF Exact, K

\* Removing a virt.
LEMMA RemoveVirtExact ==
  ASSUME NEW k, NEW P, NEW V, NEW R, NEW n, Exact(k, P, V, R, n), NEW v \in V
  PROVE  Exact(VirtUnmade(k, v), P, V \ {v}, R, n)
<1> DEFINE W == V \ {v}
           K == VirtUnmade(k, v)
           i == VirtIf(v)
           D == {Qdisc(i, "out"), Qdisc(i, "in")}
<1>0. /\ Members(P, V, R) /\ IsKernel(k) /\ n = Cardinality(Geneves(P))
      /\ LinksExact(k, P, R) /\ PortsExact(k, P, V, R) /\ UpExact(k, V)
      /\ QdiscsExact(k, P, V, R) /\ FiltersExact(k, R) /\ FdbExact(k, R)
  BY DEF Exact
<1>1. /\ \A b : i # Dummy(b) /\ i # TunnelIf(b) /\ (i = VirtIf(b) <=> b = v)
      /\ i # Stunnel
  BY Names DEF TunnelIf
<1>2. K = [links |-> k.links, ports |-> {x \in k.ports : x.port # i}, up |-> k.up,
           qdiscs |-> k.qdiscs \ D, filters |-> k.filters, fdb |-> k.fdb]
  <2> DEFINE j == SetMaster(k, NULL, i)
  <2>1. j = [links |-> k.links, ports |-> {x \in k.ports : x.port # i}, up |-> k.up,
             qdiscs |-> k.qdiscs, filters |-> k.filters, fdb |-> k.fdb]
    BY <1>0, Masters
  <2>2. K = NoQdisc(NoQdisc(j, Qdisc(i, "out")), Qdisc(i, "in"))
    BY DEF VirtUnmade
  <2> HIDE DEF j, K, i
  <2>3. IsKernel(j)
    BY <2>1 DEF IsKernel
  <2>4. NoQdisc(NoQdisc(j, Qdisc(i, "out")), Qdisc(i, "in")) =
          [links |-> j.links, ports |-> j.ports, up |-> j.up, qdiscs |-> j.qdiscs \ D,
           filters |-> j.filters, fdb |-> j.fdb]
    BY <2>3, QdiscParts
  <2> HIDE DEF D
  <2> QED BY <2>1, <2>2, <2>4
<1> HIDE DEF K, i
<1>3. Members(P, W, R)
  BY <1>0 DEF Members
<1>4. IsKernel(K)
  BY <1>2 DEF IsKernel
<1>5. K.links = k.links /\ K.filters = k.filters /\ K.fdb = k.fdb /\ K.up = k.up
  BY <1>2
<1>6. /\ LinksExact(K, P, R) /\ FiltersExact(K, R) /\ FdbExact(K, R) /\ UpExact(K, W)
  BY <1>0, <1>5 DEF LinksExact, FiltersExact, FdbExact, UpExact
<1>7. PortsExact(K, P, W, R)
  <2> DEFINE Own  == {Port(TunnelIf(b), b) : b \in P \ Geneves(P)}
             Of_R == {Port(Dummy(r), At[r]) : r \in Routed(R)}
  <2>1. \A x \in Own \cup Of_R : x.port # i
    BY <1>1, Items
  <2>2. {Port(VirtIf(x), PaOf[x]) : x \in W} =
          {y \in {Port(VirtIf(x), PaOf[x]) : x \in V} : y.port # i}
    BY <1>1, Items
  <2>3. /\ K.ports = {x \in k.ports : x.port # i}
        /\ k.ports = Own \cup {Port(VirtIf(x), PaOf[x]) : x \in V} \cup Of_R
    BY <1>0, <1>2 DEF PortsExact
  <2> HIDE DEF Own, Of_R, W
  <2>4. K.ports = Own \cup {Port(VirtIf(x), PaOf[x]) : x \in W} \cup Of_R
    BY <2>1, <2>2, <2>3
  <2> QED BY <2>4 DEF PortsExact, Own, Of_R
<1>8. QdiscsExact(K, P, W, R)
  <2> DEFINE Of_R == {Qdisc(Dummy(r), "out") : r \in Routed(R)}
             Of_S == {Qdisc(j, "in") : j \in Shared(P)}
             Of(S) == {Qdisc(VirtIf(x), d) : x \in S, d \in {"in", "out"}}
  <2>1. \A x \in Of_R \cup Of_S : x \notin D
    <3>1. Shared(P) \subseteq {Stunnel}
      BY DEF Shared
    <3> QED BY <1>1, <3>1, Items
  <2>2. Of(W) = Of(V) \ D
    <3>1. ASSUME NEW x \in W, NEW d \in {"in", "out"} PROVE Qdisc(VirtIf(x), d) \notin D
      BY <1>1, <3>1, Items
    <3>2. \A d \in {"in", "out"} : Qdisc(VirtIf(v), d) \in D
      BY DEF i
    <3> HIDE DEF D
    <3> QED BY <3>1, <3>2
  <2>3. K.qdiscs = k.qdiscs \ D /\ k.qdiscs = Of(V) \cup Of_R \cup Of_S
    BY <1>0, <1>2 DEF QdiscsExact
  <2> HIDE DEF Of_R, Of_S, Of, W, D
  <2>4. K.qdiscs = Of(W) \cup Of_R \cup Of_S
    BY <2>1, <2>2, <2>3
  <2> QED BY <2>4 DEF QdiscsExact, Of_R, Of_S, Of
<1> QED BY <1>0, <1>3, <1>4, <1>6, <1>7, <1>8 DEF Exact, K

\* Adding a remote PA that is reached through the shared tunnel.
LEMMA AddRouteExact ==
  ASSUME NEW k, NEW P, NEW V, NEW R, NEW n, Exact(k, P, V, R, n),
         NEW r \in Remotes, r \notin R, At[r] \in P, TypeOf[At[r]] = "geneve/e2e"
  PROVE  Exact(RouteMade(k, r), P, V, R \cup {r}, n)
<1> DEFINE S == R \cup {r}
           K == RouteMade(k, r)
           i == Dummy(r)
           F == {Filter(i, "drop_marked"), Filter(i, "redirect"), FromTunnel(r)}
<1>0. /\ Members(P, V, R) /\ IsKernel(k) /\ n = Cardinality(Geneves(P))
      /\ LinksExact(k, P, R) /\ PortsExact(k, P, V, R) /\ UpExact(k, V)
      /\ QdiscsExact(k, P, V, R) /\ FiltersExact(k, R) /\ FdbExact(k, R)
  BY DEF Exact
<1>1. NoPort(k, i)
  BY FreshRemote DEF Fresh, NoPort
<1>2. K = [links |-> k.links \cup {i}, ports |-> k.ports \cup {Port(i, At[r])},
           up |-> k.up \cup {i}, qdiscs |-> k.qdiscs \cup {Qdisc(i, "out")},
           filters |-> k.filters \cup F, fdb |-> k.fdb]
  <2>1. K = [links |-> k.links \cup {i},
             ports |-> {x \in k.ports : x.port # i} \cup {Port(i, At[r])},
             up |-> k.up \cup {i}, qdiscs |-> k.qdiscs \cup {Qdisc(i, "out")},
             filters |-> k.filters \cup F, fdb |-> k.fdb]
    BY <1>0, RouteParts
  <2> HIDE DEF F, K, i
  <2>2. {x \in k.ports : x.port # i} = k.ports
    BY <1>1 DEF NoPort
  <2> QED BY <2>1, <2>2
<1> HIDE DEF K
<1>3. Routed(S) = Routed(R) \cup {r} /\ S \ Routed(S) = R \ Routed(R)
  BY DEF Routed
<1>4. Members(P, V, S)
  BY <1>0 DEF Members
<1>5. IsKernel(K)
  BY <1>2 DEF IsKernel
<1>6. /\ K.links = k.links \cup {i} /\ K.ports = k.ports \cup {Port(i, At[r])}
      /\ K.up = k.up \cup {i} /\ K.qdiscs = k.qdiscs \cup {Qdisc(i, "out")}
      /\ K.filters = k.filters \cup F /\ K.fdb = k.fdb
  BY <1>2
<1>7. LinksExact(K, P, S)
  <2>1. i \notin PhysIfs
    BY Names DEF PhysIfs
  <2>2. K.links \ PhysIfs = (k.links \ PhysIfs) \cup {i}
    BY <1>6, <2>1
  <2>3. {Dummy(x) : x \in Routed(S)} = {Dummy(x) : x \in Routed(R)} \cup {i}
    BY <1>3
  <2> HIDE DEF S, i
  <2> QED BY <1>0, <2>2, <2>3 DEF LinksExact
<1>8. PortsExact(K, P, V, S)
  <2>1. {Port(Dummy(x), At[x]) : x \in Routed(S)} =
          {Port(Dummy(x), At[x]) : x \in Routed(R)} \cup {Port(i, At[r])}
    BY <1>3
  <2> HIDE DEF S, i
  <2> QED BY <1>0, <1>6, <2>1 DEF PortsExact
<1>9. UpExact(K, V)
  <2> HIDE DEF i
  <2> QED BY <1>0, <1>6 DEF UpExact
<1>10. QdiscsExact(K, P, V, S)
  <2>1. {Qdisc(Dummy(x), "out") : x \in Routed(S)} =
          {Qdisc(Dummy(x), "out") : x \in Routed(R)} \cup {Qdisc(i, "out")}
    BY <1>3
  <2> HIDE DEF S, i
  <2> QED BY <1>0, <1>6, <2>1 DEF QdiscsExact
<1>11. FiltersExact(K, S)
  <2> DEFINE N == {"drop_marked", "redirect"}
  <2>1. {Filter(Dummy(x), f) : x \in Routed(S), f \in N} =
          {Filter(Dummy(x), f) : x \in Routed(R), f \in N}
          \cup {Filter(i, "drop_marked"), Filter(i, "redirect")}
    BY <1>3
  <2>2. {FromTunnel(x) : x \in Routed(S)} = {FromTunnel(x) : x \in Routed(R)} \cup {FromTunnel(r)}
    BY <1>3
  <2> DEFINE Of(T) == {Filter(Dummy(x), f) : x \in T, f \in N}
             In(T) == {FromTunnel(x) : x \in T}
  <2>3. K.filters = Of(Routed(R)) \cup In(Routed(R)) \cup F
    BY <1>0, <1>6 DEF FiltersExact
  <2> HIDE DEF S, N, i, Of, In
  <2>4. K.filters = Of(Routed(S)) \cup In(Routed(S))
    BY <2>1, <2>2, <2>3 DEF Of, In
  <2> QED BY <2>4 DEF FiltersExact, N, Of, In
<1>12. FdbExact(K, S)
  BY <1>0, <1>3, <1>6 DEF FdbExact
<1> QED BY <1>0, <1>4, <1>5, <1>7, <1>8, <1>9, <1>10, <1>11, <1>12 DEF Exact, K

\* Removing a remote PA that is reached through the shared tunnel.
LEMMA RemoveRouteExact ==
  ASSUME NEW k, NEW P, NEW V, NEW R, NEW n, Exact(k, P, V, R, n),
         NEW r \in R, TypeOf[At[r]] = "geneve/e2e"
  PROVE  Exact(RouteUnmade(k, r), P, V, R \ {r}, n)
<1> DEFINE S == R \ {r}
           K == RouteUnmade(k, r)
           i == Dummy(r)
           f == FromTunnel(r)
<1>0. /\ Members(P, V, R) /\ IsKernel(k) /\ n = Cardinality(Geneves(P))
      /\ LinksExact(k, P, R) /\ PortsExact(k, P, V, R) /\ UpExact(k, V)
      /\ QdiscsExact(k, P, V, R) /\ FiltersExact(k, R) /\ FdbExact(k, R)
  BY DEF Exact
<1>1. /\ \A b : i # TunnelIf(b) /\ i # VirtIf(b) /\ i # Bridge(b) /\ i # Tunnel(b)
      /\ \A b : i = Dummy(b) <=> b = r
      /\ i # Stunnel /\ f.on = Stunnel
  BY Names, TunnelRules DEF TunnelIf
<1>2. /\ Qdisc(i, "out").on = i /\ Filter(i, "redirect").on = i
  BY Items
<1>3. K = [links   |-> k.links \ {i},
           ports   |-> {x \in k.ports : x.port # i /\ x.bridge # i},
           up      |-> k.up \ {i},
           qdiscs  |-> {x \in k.qdiscs : x.on # i},
           filters |-> {x \in k.filters : x # f /\ x.on # i},
           fdb     |-> {x \in k.fdb : x.on # i}]
  <2> DEFINE q  == Qdisc(i, "out")
             g  == Filter(i, "redirect")
             k1 == SetMaster(k, NULL, i)
             k2 == NoFilter(k1, f)
             k3 == NoFilter(k2, g)
             k4 == NoQdisc(k3, q)
  <2>0. K = LinkDelete(k4, i)
    BY DEF RouteUnmade
  <2> HIDE DEF i, f, q, g, K
  <2>1. k1 = [links |-> k.links, ports |-> {x \in k.ports : x.port # i}, up |-> k.up,
              qdiscs |-> k.qdiscs, filters |-> k.filters, fdb |-> k.fdb]
    BY <1>0, Masters
  <2> HIDE DEF k1
  <2>2. IsKernel(k1)
    BY <2>1 DEF IsKernel
  <2>3. k2 = [links |-> k1.links, ports |-> k1.ports, up |-> k1.up, qdiscs |-> k1.qdiscs,
              filters |-> k1.filters \ {f}, fdb |-> k1.fdb]
    BY <2>2, Removals
  <2> HIDE DEF k2
  <2>4. IsKernel(k2)
    BY <2>3 DEF IsKernel
  <2>5. k3 = [links |-> k2.links, ports |-> k2.ports, up |-> k2.up, qdiscs |-> k2.qdiscs,
              filters |-> k2.filters \ {g}, fdb |-> k2.fdb]
    BY <2>4, Removals
  <2> HIDE DEF k3
  <2>6. IsKernel(k3)
    BY <2>5 DEF IsKernel
  <2>7. k4 = [links |-> k3.links, ports |-> k3.ports, up |-> k3.up, qdiscs |-> k3.qdiscs \ {q},
              filters |-> k3.filters, fdb |-> k3.fdb]
    BY <2>6, Removals
  <2> HIDE DEF k4
  <2>8. /\ k4.links = k.links /\ k4.up = k.up /\ k4.fdb = k.fdb
        /\ k4.ports = {x \in k.ports : x.port # i}
        /\ k4.qdiscs = k.qdiscs \ {q}
        /\ k4.filters = (k.filters \ {f}) \ {g}
    BY <2>1, <2>3, <2>5, <2>7
  <2>9. g.on = i /\ q.on = i
    BY <1>2 DEF g, q
  <2>10. /\ {x \in k4.ports : x.port # i /\ x.bridge # i} =
              {x \in k.ports : x.port # i /\ x.bridge # i}
         /\ {x \in k4.qdiscs : x.on # i} = {x \in k.qdiscs : x.on # i}
         /\ {x \in k4.filters : x.on # i} = {x \in k.filters : x # f /\ x.on # i}
    BY <2>8, <2>9
  <2>11. K = [links |-> k4.links \ {i},
              ports |-> {x \in k4.ports : x.port # i /\ x.bridge # i},
              up |-> k4.up \ {i}, qdiscs |-> {x \in k4.qdiscs : x.on # i},
              filters |-> {x \in k4.filters : x.on # i}, fdb |-> {x \in k4.fdb : x.on # i}]
    BY <2>0 DEF LinkDelete
  <2> QED BY <2>8, <2>10, <2>11
<1> HIDE DEF K
<1>4. Routed(S) = Routed(R) \ {r} /\ S \ Routed(S) = R \ Routed(R) /\ r \in Routed(R)
  BY DEF Routed
<1>5. Members(P, V, S)
  BY <1>0 DEF Members
<1>6. IsKernel(K)
  BY <1>3 DEF IsKernel
<1>7. Shared(P) \subseteq {Stunnel}
  BY DEF Shared
<1>8. /\ K.links = k.links \ {i} /\ K.up = k.up \ {i}
      /\ K.ports = {x \in k.ports : x.port # i /\ x.bridge # i}
      /\ K.qdiscs = {x \in k.qdiscs : x.on # i}
      /\ K.filters = {x \in k.filters : x # f /\ x.on # i}
      /\ K.fdb = {x \in k.fdb : x.on # i}
  BY <1>3
<1>9. LinksExact(K, P, S)
  <2>1. K.links \ PhysIfs = (k.links \ PhysIfs) \ {i}
    BY <1>8
  <2>2. {Dummy(x) : x \in Routed(S)} = {Dummy(x) : x \in Routed(R)} \ {i}
    BY <1>1, <1>4
  <2>3. i \notin VirtIfs
    BY <1>1 DEF VirtIfs
  <2> HIDE DEF S, i
  <2>4. /\ VirtIfs \ {i} = VirtIfs
        /\ {Bridge(b) : b \in P} \ {i} = {Bridge(b) : b \in P}
        /\ {Tunnel(b) : b \in Owners(P)} \ {i} = {Tunnel(b) : b \in Owners(P)}
        /\ Shared(P) \ {i} = Shared(P)
    BY <1>1, <1>7, <2>3
  <2> QED BY <1>0, <2>1, <2>2, <2>4 DEF LinksExact
<1>10. PortsExact(K, P, V, S)
  <2> DEFINE Own  == {Port(TunnelIf(b), b) : b \in P \ Geneves(P)}
             Of_V == {Port(VirtIf(v), PaOf[v]) : v \in V}
             Of(T) == {Port(Dummy(x), At[x]) : x \in T}
             Keep(x) == x.port # i /\ x.bridge # i
  <2> HIDE DEF i, S
  <2>1. \A x \in Own \cup Of_V : Keep(x)
    BY <1>1, Items
  <2>2. Of(Routed(S)) = {x \in Of(Routed(R)) : Keep(x)}
    <3>1. \A x : Keep(Port(Dummy(x), At[x])) <=> x # r
      BY <1>1, Items
    <3> HIDE DEF Keep
    <3> QED BY <1>4, <3>1
  <2>3. K.ports = {x \in k.ports : Keep(x)} /\ k.ports = Own \cup Of_V \cup Of(Routed(R))
    BY <1>0, <1>8 DEF PortsExact
  <2> HIDE DEF Own, Of_V, Of, Keep
  <2>4. K.ports = Own \cup Of_V \cup Of(Routed(S))
    BY <2>1, <2>2, <2>3
  <2> QED BY <2>4 DEF PortsExact, Own, Of_V, Of
<1>11. UpExact(K, V)
  <2> HIDE DEF i
  <2> QED BY <1>0, <1>1, <1>8 DEF UpExact
<1>12. QdiscsExact(K, P, V, S)
  <2> DEFINE Of_V == {Qdisc(VirtIf(v), d) : v \in V, d \in {"in", "out"}}
             Of_S == {Qdisc(j, "in") : j \in Shared(P)}
             Of(T) == {Qdisc(Dummy(x), "out") : x \in T}
  <2> HIDE DEF i, S
  <2>1. (\A x \in Of_V : x.on # i) /\ (\A x \in Of_S : x.on # i)
    BY <1>1, <1>7, Items
  <2>2. Of(Routed(S)) = {x \in Of(Routed(R)) : x.on # i}
    <3>1. \A x : Qdisc(Dummy(x), "out").on # i <=> x # r
      BY <1>1, Items
    <3> QED BY <1>4, <3>1
  <2>3. k.qdiscs = Of_V \cup Of(Routed(R)) \cup Of_S
    BY <1>0 DEF QdiscsExact
  <2> HIDE DEF Of_S, Of_V, Of
  <2>4. K.qdiscs = Of_V \cup Of(Routed(S)) \cup Of_S
    BY <1>8, <2>1, <2>2, <2>3
  <2> QED BY <2>4 DEF QdiscsExact, Of_S, Of_V, Of
<1>13. FiltersExact(K, S)
  <2> DEFINE N == {"drop_marked", "redirect"}
             Of(T) == {Filter(Dummy(x), h) : x \in T, h \in N}
             In(T) == {FromTunnel(x) : x \in T}
             Keep(x) == x # f /\ x.on # i
  <2> HIDE DEF S, N
  <2>1. \A x, h : Keep(Filter(Dummy(x), h)) <=> x # r
    BY Items, Names, TunnelRules
  <2>2. \A x : Keep(FromTunnel(x)) <=> x # r
    BY <1>1, TunnelRules
  <2>3. K.filters = {x \in k.filters : Keep(x)} /\ k.filters = Of(Routed(R)) \cup In(Routed(R))
    BY <1>0, <1>8 DEF FiltersExact, N
  <2> HIDE DEF Keep
  <2>4. Of(Routed(S)) = {x \in Of(Routed(R)) : Keep(x)}
    BY <1>4, <2>1
  <2>5. In(Routed(S)) = {x \in In(Routed(R)) : Keep(x)}
    BY <1>4, <2>2
  <2> HIDE DEF Of, In
  <2>6. K.filters = Of(Routed(S)) \cup In(Routed(S))
    BY <2>3, <2>4, <2>5
  <2> QED BY <2>6 DEF FiltersExact, Of, In, N
<1>14. FdbExact(K, S)
  <2>1. \A x \in k.fdb : x.on # i
    BY <1>1, Contents
  <2> QED BY <1>0, <1>4, <1>8, <2>1 DEF FdbExact
<1> QED BY <1>0, <1>5, <1>6, <1>9, <1>10, <1>11, <1>12, <1>13, <1>14 DEF Exact, K

\* Adding and removing a remote PA that has an entry of the forwarding table.
LEMMA EntryExact ==
  ASSUME NEW k, NEW P, NEW V, NEW R, NEW n, Exact(k, P, V, R, n),
         NEW r \in Remotes, At[r] \in P, TypeOf[At[r]] # "geneve/e2e"
  PROVE  /\ r \notin R =>
              Exact([k EXCEPT !.fdb = @ \cup {Entry(At[r], r)}], P, V, R \cup {r}, n)
         /\ Exact([k EXCEPT !.fdb = @ \ {Entry(At[r], r)}], P, V, R \ {r}, n)
<1> DEFINE e == Entry(At[r], r)
           A == [k EXCEPT !.fdb = @ \cup {e}]
           B == [k EXCEPT !.fdb = @ \ {e}]
<1>0. /\ Members(P, V, R) /\ IsKernel(k) /\ n = Cardinality(Geneves(P))
      /\ LinksExact(k, P, R) /\ PortsExact(k, P, V, R) /\ UpExact(k, V)
      /\ QdiscsExact(k, P, V, R) /\ FiltersExact(k, R) /\ FdbExact(k, R)
  BY DEF Exact
<1>1. /\ Routed(R \cup {r}) = Routed(R) /\ Routed(R \ {r}) = Routed(R) /\ r \notin Routed(R)
      /\ Members(P, V, R \cup {r}) /\ Members(P, V, R \ {r})
  BY <1>0 DEF Routed, Members
<1>2. {Entry(At[x], x) : x \in (R \cup {r}) \ Routed(R)} = k.fdb \cup {e}
  BY <1>0, <1>1 DEF FdbExact
<1>3. {Entry(At[x], x) : x \in (R \ {r}) \ Routed(R)} = k.fdb \ {e}
  <2>1. \A x : Entry(At[x], x) = Entry(At[r], r) <=> x = r
    BY Items
  <2>2. k.fdb = {Entry(At[x], x) : x \in R \ Routed(R)}
    BY <1>0 DEF FdbExact
  <2> QED BY <2>1, <2>2
<1> HIDE DEF e
<1>4. ASSUME NEW F, NEW T, Routed(T) = Routed(R), Members(P, V, T),
             F = {Entry(At[x], x) : x \in T \ Routed(R)}
      PROVE  Exact([k EXCEPT !.fdb = F], P, V, T, n)
  <2> DEFINE K == [k EXCEPT !.fdb = F]
  <2>1. /\ IsKernel(K) /\ K.links = k.links /\ K.ports = k.ports /\ K.up = k.up
        /\ K.qdiscs = k.qdiscs /\ K.filters = k.filters /\ K.fdb = F
    BY <1>0 DEF IsKernel
  <2> HIDE DEF K
  <2>2. /\ LinksExact(K, P, T) /\ PortsExact(K, P, V, T) /\ UpExact(K, V)
        /\ QdiscsExact(K, P, V, T) /\ FiltersExact(K, T)
    BY <1>0, <1>4, <2>1 DEF LinksExact, PortsExact, UpExact, QdiscsExact, FiltersExact
  <2>3. FdbExact(K, T)
    BY <1>4, <2>1 DEF FdbExact
  <2> QED BY <1>0, <1>4, <2>1, <2>2, <2>3 DEF Exact, K
<1>5. Exact(A, P, V, R \cup {r}, n)
  BY <1>1, <1>2, <1>4
<1>6. Exact(B, P, V, R \ {r}, n)
  BY <1>1, <1>3, <1>4
<1> QED BY <1>5, <1>6 DEF e

(***************************************************************************)
(* The steps.  An operation that returns an error restores; one that does  *)
(* not keeps the kernel exact.                                             *)
(***************************************************************************)
Sound == /\ err' = "ERR" => UNCHANGED <<kernel, refcount>>
         /\ IInv'

\* An operation whose outcome is an exact kernel for the new members is sound.
LEMMA OutcomeSound ==
  ASSUME IInv, Ready, NEW R, NEW w, NEW k, NEW n, Outcome(Op(R), w, k, n), Ends(w),
         w.err = "OK" => Exact(k, pas', virts', remotes', n),
         w.err # "OK" => UNCHANGED <<pas, virts, remotes>>
  PROVE  Sound
<1>1. kernel' = w.k /\ refcount' = w.refcount /\ err' = w.err
  BY DEF Ends
<1>2. w.err = "OK" => w.k = k /\ w.refcount = n
  BY DEF Outcome
<1>3. w.err = "ERR" => w.k = kernel /\ w.refcount = refcount
  BY Starts DEF Outcome
<1>4. Exact(kernel, pas, virts, remotes, refcount)
  BY DEF IInv
<1>5. ASSUME w.err = "OK" PROVE IInv'
  BY <1>1, <1>2, <1>5 DEF IInv
<1>6. ASSUME w.err = "ERR" PROVE IInv'
  BY <1>1, <1>3, <1>4, <1>6 DEF IInv
<1>7. ASSUME w.err \notin {"OK", "ERR"} PROVE IInv'
  BY <1>1, <1>7 DEF IInv, Ready
<1> QED BY <1>1, <1>3, <1>5, <1>6, <1>7 DEF Sound

\* create_pa of every network type.
LEMMA CreateSound ==
  ASSUME IInv, NEW a \in Pas, create_pa(a)
  PROVE  Sound
<1>0. Ready /\ a \notin pas /\ Exact(kernel, pas, virts, remotes, refcount)
  BY DEF create_pa, IInv
<1>1. PICK R \in Refusals :
        LET w == Ops_create_pa(Op(R), a) IN
        /\ Ends(w) /\ pas' = Adds(w, pas, a) /\ UNCHANGED <<virts, remotes>>
  BY DEF create_pa
<1> DEFINE o == Op(R)
           w == Ops_create_pa(o, a)
<1>2. /\ IsOp(o) /\ o.err = "OK" /\ o.k = kernel /\ o.refcount = refcount
  BY Starts
<1>3. /\ w.err = "OK" => pas' = pas \cup {a}
      /\ w.err # "OK" => pas' = pas
      /\ virts' = virts /\ remotes' = remotes
  BY <1>1 DEF Adds
<1>4. IsKernel(kernel) /\ refcount \in Nat
  BY <1>0, Counted DEF Exact
<1>5. Fresh(kernel, Bridge(a)) /\ Fresh(kernel, Tunnel(a)) /\ NoPort(kernel, PhysIf(a))
  BY <1>0, FreshPa
<1>6. refcount = 0 => Fresh(kernel, Stunnel)
  BY <1>0, FreshStunnel
<1>7. CASE TypeOf[a] = "direct"
  <2>1. w = Direct_create_pa(o, a)
    BY <1>7 DEF Ops_create_pa
  <2> HIDE DEF o
  <2>2. /\ Outcome(o, w, LbridgeMade(kernel, a), refcount)
        /\ w.err = "OK" => PhysIf(a) \in kernel.links
    BY <1>2, <1>4, <1>5, <1>7, <2>1, DirectCreateOutcome
  <2> HIDE DEF w
  <2>3. w.err = "OK" => Exact(LbridgeMade(kernel, a), pas', virts', remotes', refcount)
    BY <1>0, <1>3, <1>7, <2>2, CreateExact
  <2> QED BY <1>0, <1>1, <1>3, <2>2, <2>3, OutcomeSound DEF o, w
<1>8. CASE TypeOf[a] = "geneve/e2e"
  <2>1. w = Geneve_e2e_create_pa(o, a)
    BY <1>8 DEF Ops_create_pa
  <2> HIDE DEF o
  <2>2. Outcome(o, w, GeneveMade(kernel, refcount, a), refcount + 1)
    BY <1>2, <1>4, <1>5, <1>6, <2>1, GeneveCreateOutcome
  <2> HIDE DEF w
  <2>3. w.err = "OK" =>
          Exact(GeneveMade(kernel, refcount, a), pas', virts', remotes', refcount + 1)
    BY <1>0, <1>3, <1>8, GeneveCreateExact
  <2> QED BY <1>0, <1>1, <1>3, <2>2, <2>3, OutcomeSound DEF o, w
<1>9. CASE TypeOf[a] \notin {"direct", "geneve/e2e"}
  <2>1. w = Tunnel_create_pa(o, a)
    BY <1>9 DEF Ops_create_pa
  <2> HIDE DEF o
  <2>2. Outcome(o, w, TunnelMade(kernel, a), refcount)
    BY <1>2, <1>4, <1>5, <1>9, <2>1, TunnelCreateOutcome
  <2> HIDE DEF w
  <2>3. w.err = "OK" => Exact(TunnelMade(kernel, a), pas', virts', remotes', refcount)
    BY <1>0, <1>3, <1>9, CreateExact
  <2> QED BY <1>0, <1>1, <1>3, <2>2, <2>3, OutcomeSound DEF o, w
<1> QED BY <1>7, <1>8, <1>9

\* An operation that removes and never returns an error that restores is
\* sound when its kernel is exact for what is left.
LEMMA RemovalSound ==
  ASSUME NEW w, NEW k, NEW n, Ends(w), w.err # "ERR", w.refcount = n,
         w.err = "OK" => w.k = k,
         Exact(k, pas', virts', remotes', n)
  PROVE  Sound
<1>1. kernel' = w.k /\ refcount' = w.refcount /\ err' = w.err
  BY DEF Ends
<1>2. CASE w.err = "OK"
  BY <1>1, <1>2 DEF Sound, IInv
<1>3. CASE w.err # "OK"
  BY <1>1, <1>3 DEF Sound, IInv, Ready
<1> QED BY <1>2, <1>3

\* destroy_pa of every network type.
LEMMA DestroySound ==
  ASSUME IInv, NEW a \in Pas, destroy_pa(a)
  PROVE  Sound
<1>0. /\ Ready /\ a \in pas /\ Exact(kernel, pas, virts, remotes, refcount)
      /\ \A v \in virts : PaOf[v] # a
      /\ \A r \in remotes : At[r] # a
      /\ pas' = pas \ {a} /\ virts' = virts /\ remotes' = remotes
  BY DEF destroy_pa, IInv
<1>1. PICK R \in Refusals : Ends(Ops_destroy_pa(Op(R), a))
  BY DEF destroy_pa
<1> DEFINE o == Op(R)
           w == Ops_destroy_pa(o, a)
<1>2. IsOp(o) /\ o.err = "OK" /\ o.k = kernel /\ o.refcount = refcount
  BY Starts
<1>3. CASE TypeOf[a] = "geneve/e2e"
  <2>1. w = Geneve_e2e_destroy_pa(o, a)
    BY <1>3 DEF Ops_destroy_pa
  <2>2. /\ w.refcount = refcount - 1 /\ w.err # "ERR"
        /\ w.err = "OK" => w.k = GeneveUnmade(kernel, refcount, a)
    <3> HIDE DEF o
    <3> QED BY <1>2, <2>1, GeneveDestroySteps
  <2>3. Exact(GeneveUnmade(kernel, refcount, a), pas', virts', remotes', refcount - 1)
    BY <1>0, <1>3, GeneveDestroyExact
  <2> QED BY <1>1, <2>2, <2>3, RemovalSound
<1>4. CASE TypeOf[a] # "geneve/e2e"
  <2>1. w = Lbridge_destroy_pa(o, a)
    BY <1>4 DEF Ops_destroy_pa
  <2>2. /\ w.refcount = refcount /\ w.err # "ERR"
        /\ w.err = "OK" => w.k = LbridgeUnmade(kernel, a)
    <3> HIDE DEF o
    <3> QED BY <1>2, <2>1, LbridgeDestroySteps
  <2>3. Exact(LbridgeUnmade(kernel, a), pas', virts', remotes', refcount)
    BY <1>0, <1>4, DestroyExact
  <2> QED BY <1>1, <2>2, <2>3, RemovalSound
<1> QED BY <1>3, <1>4

\* Adding and removing a virt.
LEMMA VirtSound ==
  ASSUME IInv, NEW v \in Virts, add_virt(v) \/ remove_virt(v)
  PROVE  Sound
<1>0. Ready /\ Exact(kernel, pas, virts, remotes, refcount)
  BY DEF add_virt, remove_virt, IInv
<1>1. CASE add_virt(v)
  <2>0. v \notin virts /\ PaOf[v] \in pas
    BY <1>1 DEF add_virt
  <2>1. PICK R \in Refusals :
          LET w == Lbridge_add_virt(Op(R), v) IN
          Ends(w) /\ virts' = Adds(w, virts, v) /\ UNCHANGED <<pas, remotes>>
    BY <1>1 DEF add_virt
  <2> DEFINE o == Op(R)
             w == Lbridge_add_virt(o, v)
  <2>2. IsOp(o) /\ o.err = "OK" /\ o.k = kernel /\ o.refcount = refcount
    BY Starts
  <2>3. /\ w.err = "OK" => virts' = virts \cup {v}
        /\ w.err # "OK" => virts' = virts
        /\ pas' = pas /\ remotes' = remotes
    BY <2>1 DEF Adds
  <2>4. /\ IsKernel(kernel) /\ NoPort(kernel, VirtIf(v))
        /\ \A x \in kernel.qdiscs : x.on # VirtIf(v)
    BY <1>0, <2>0, FreshVirt DEF Exact
  <2>5. Outcome(o, w, VirtMade(kernel, v), refcount)
    <3> HIDE DEF o
    <3> QED BY <2>2, <2>4, AddVirtOutcome
  <2> HIDE DEF w
  <2>6. w.err = "OK" => Exact(VirtMade(kernel, v), pas', virts', remotes', refcount)
    BY <1>0, <2>0, <2>3, AddVirtExact
  <2> QED BY <1>0, <2>1, <2>3, <2>5, <2>6, OutcomeSound DEF w
<1>2. CASE remove_virt(v)
  <2>0. v \in virts /\ virts' = virts \ {v} /\ pas' = pas /\ remotes' = remotes
    BY <1>2 DEF remove_virt
  <2>1. PICK R \in Refusals : Ends(Lbridge_remove_virt(Op(R), v))
    BY <1>2 DEF remove_virt
  <2> DEFINE o == Op(R)
             w == Lbridge_remove_virt(o, v)
  <2>2. IsOp(o) /\ o.err = "OK" /\ o.k = kernel /\ o.refcount = refcount
    BY Starts
  <2>3. /\ w.refcount = refcount /\ w.err # "ERR"
        /\ w.err = "OK" => w.k = VirtUnmade(kernel, v)
    <3> HIDE DEF o
    <3> QED BY <2>2, RemoveVirtSteps
  <2>4. Exact(VirtUnmade(kernel, v), pas', virts', remotes', refcount)
    BY <1>0, <2>0, RemoveVirtExact
  <2> QED BY <2>1, <2>3, <2>4, RemovalSound
<1> QED BY <1>1, <1>2

\* Adding and removing a remote PA.
LEMMA RemoteSound ==
  ASSUME IInv, NEW r \in Remotes, add_remote_pa(r) \/ remove_remote_pa(r)
  PROVE  Sound
<1>0. Ready /\ Exact(kernel, pas, virts, remotes, refcount)
  BY DEF add_remote_pa, remove_remote_pa, IInv
<1>1. CASE add_remote_pa(r)
  <2>0. r \notin remotes /\ At[r] \in pas
    BY <1>1 DEF add_remote_pa
  <2>1. PICK R \in Refusals :
          LET w == Ops_add_remote_pa(Op(R), r) IN
          Ends(w) /\ remotes' = Adds(w, remotes, r) /\ UNCHANGED <<pas, virts>>
    BY <1>1 DEF add_remote_pa
  <2> DEFINE o == Op(R)
             w == Ops_add_remote_pa(o, r)
             k == [kernel EXCEPT !.fdb = @ \cup {Entry(At[r], r)}]
  <2>2. IsOp(o) /\ o.err = "OK" /\ o.k = kernel /\ o.refcount = refcount
    BY Starts
  <2>3. /\ w.err = "OK" => remotes' = remotes \cup {r}
        /\ w.err # "OK" => remotes' = remotes
        /\ pas' = pas /\ virts' = virts
    BY <2>1 DEF Adds
  <2>4. IsKernel(kernel) /\ Fresh(kernel, Dummy(r)) /\ FromTunnel(r) \notin kernel.filters
    BY <1>0, <2>0, FreshRemote DEF Exact
  <2>5. CASE TypeOf[At[r]] = "geneve/e2e"
    <3>1. w = Lbridge_add_route(o, r)
      BY <2>5 DEF Ops_add_remote_pa
    <3>2. Outcome(o, w, RouteMade(kernel, r), refcount)
      <4> HIDE DEF o
      <4> QED BY <2>2, <2>4, <3>1, AddRouteOutcome
    <3> HIDE DEF w
    <3>3. w.err = "OK" => Exact(RouteMade(kernel, r), pas', virts', remotes', refcount)
      BY <1>0, <2>0, <2>3, <2>5, AddRouteExact
    <3> QED BY <1>0, <2>1, <2>3, <3>2, <3>3, OutcomeSound DEF w
  <2>6. CASE TypeOf[At[r]] # "geneve/e2e"
    <3>1. w = Call(o, "fdb", [o.k EXCEPT !.fdb = @ \cup {Entry(At[r], r)}])
      BY <2>6 DEF Ops_add_remote_pa
    <3>2. Outcome(o, w, k, refcount)
      <4> HIDE DEF o
      <4> QED BY <2>2, <3>1, CallOutcome
    <3> HIDE DEF w
    <3>3. w.err = "OK" => Exact(k, pas', virts', remotes', refcount)
      <4>1. Exact(k, pas, virts, remotes \cup {r}, refcount)
        BY <1>0, <2>0, <2>6, EntryExact
      <4> HIDE DEF k
      <4> QED BY <2>3, <4>1
    <3> HIDE DEF k
    <3> QED BY <1>0, <2>1, <2>3, <3>2, <3>3, OutcomeSound DEF w
  <2> QED BY <2>5, <2>6
<1>2. CASE remove_remote_pa(r)
  <2>0. r \in remotes /\ remotes' = remotes \ {r} /\ pas' = pas /\ virts' = virts
    BY <1>2 DEF remove_remote_pa
  <2>1. PICK R \in Refusals : Ends(Ops_remove_remote_pa(Op(R), r))
    BY <1>2 DEF remove_remote_pa
  <2> DEFINE o == Op(R)
             w == Ops_remove_remote_pa(o, r)
             k == [kernel EXCEPT !.fdb = @ \ {Entry(At[r], r)}]
  <2>2. IsOp(o) /\ o.err = "OK" /\ o.k = kernel /\ o.refcount = refcount
    BY Starts
  <2>3. CASE TypeOf[At[r]] = "geneve/e2e"
    <3>1. w = Lbridge_remove_route(o, r)
      BY <2>3 DEF Ops_remove_remote_pa
    <3>2. /\ w.refcount = refcount /\ w.err # "ERR"
          /\ w.err = "OK" => w.k = RouteUnmade(kernel, r)
      <4> HIDE DEF o
      <4> QED BY <2>2, <3>1, RemoveRouteSteps
    <3>3. Exact(RouteUnmade(kernel, r), pas', virts', remotes', refcount)
      BY <1>0, <2>0, <2>3, RemoveRouteExact
    <3> QED BY <2>1, <3>2, <3>3, RemovalSound
  <2>4. CASE TypeOf[At[r]] # "geneve/e2e"
    <3>1. w = Undo(o, "-fdb", [o.k EXCEPT !.fdb = @ \ {Entry(At[r], r)}])
      BY <2>4 DEF Ops_remove_remote_pa
    <3>2. /\ w.refcount = refcount /\ w.err # "ERR"
          /\ w.err = "OK" => w.k = k
      <4> HIDE DEF o
      <4> QED BY <2>2, <3>1, UndoSteps
    <3>3. Exact(k, pas', virts', remotes', refcount)
      <4>1. At[r] \in pas
        BY <1>0, <2>0 DEF Exact, Members
      <4> QED BY <1>0, <2>0, <2>4, <4>1, EntryExact
    <3> QED BY <2>1, <3>2, <3>3, RemovalSound
  <2> QED BY <2>3, <2>4
<1> QED BY <1>1, <1>2

\* Every step of the learning bridge is sound.
LEMMA StepSound ==
  ASSUME IInv, [Next]_vars
  PROVE  Sound \/ UNCHANGED vars
BY CreateSound, DestroySound, VirtSound, RemoteSound DEF Next

\* The inductive invariant holds of the learning bridge.
LEMMA Invariant == Spec => []IInv
<1>1. IInv /\ [Next]_vars => IInv'
  <2> SUFFICES ASSUME IInv, [Next]_vars PROVE IInv'
    OBVIOUS
  <2>1. CASE Sound
    BY <2>1 DEF Sound
  <2>2. CASE UNCHANGED vars
    BY <2>2 DEF IInv, Ready, vars
  <2> QED BY <2>1, <2>2, StepSound
<1> QED BY <1>1, InitExact, PTL DEF Spec

\* For every set of PAs, virts and remote PAs, of whatever network types, and
\* whichever calls the kernel refuses: between operations the kernel has the
\* bridges, tunnels, ports, qdiscs, rules and entries of what was created and
\* added, and nothing else, and the Geneve tunnel is there as long as a PA
\* uses it (lbridge.c, net_direct.c, net_vlan.c, net_vxlan.c, net_geneve.c).
THEOREM Exactness == Spec => []KernelIsExact
BY Invariant, ExactIsExact, PTL

\* An operation of the learning bridge that returns an error, other than
\* LSDNE_INCONSISTENT, has undone each of its calls.
THEOREM Restoration == Spec => ErrorRestores
<1>1. IInv /\ [Next]_vars => [err' = "ERR" => UNCHANGED <<kernel, refcount>>]_vars
  <2> SUFFICES ASSUME IInv, [Next]_vars
               PROVE  [err' = "ERR" => UNCHANGED <<kernel, refcount>>]_vars
    OBVIOUS
  <2> QED BY StepSound DEF Sound
<1> QED BY <1>1, Invariant, PTL DEF Spec, ErrorRestores
=============================================================================
