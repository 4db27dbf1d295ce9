------------------------------- MODULE Lbridge ------------------------------
(***************************************************************************)
(* The learning bridge: the network types that switch with a bridge of the *)
(* kernel (netmodel/lbridge.c, net_direct.c, net_vlan.c, net_vxlan.c for   *)
(* mcast and e2e, net_geneve.c for e2e).  A PA has a bridge, and the       *)
(* tunnel to the other machines and the interfaces of its virts are ports  *)
(* of it.  Types without a tunnel of their own per PA have a dummy         *)
(* interface for each remote PA as its port, with rules that redirect      *)
(* packets between the dummy and one shared Geneve tunnel.                 *)
(*                                                                         *)
(* Every network operation is one step that makes a number of kernel       *)
(* calls; any of them may be refused, those of the cleanup too.  The       *)
(* commit engine calls the operations in the order that module NetCommit   *)
(* is shown to keep.                                                       *)
(*                                                                         *)
(* Abstractions.  Allocation failures are left out, rules and rulesets are *)
(* filters in the kernel (module Ruleset has their books), and remote PAs  *)
(* have IPv4 addresses: lsdn_lbridge_add_route asserts it.  After          *)
(* LSDNE_INCONSISTENT or abort the model ends.                             *)
(***************************************************************************)
EXTENDS Naturals, FiniteSets

CONSTANTS
  Pas,          \* local PAs
  TypeOf,       \* the network type of each
  Virts, PaOf,  \* virts, and the PA that each is connected through
  Remotes, At,  \* views of remote PAs, and the local PA that has each
  NULL

Types == {"direct", "vlan", "vxlan/mcast", "vxlan/e2e", "geneve/e2e"}

ASSUME LbridgeAssumption ==
  /\ TypeOf \in [Pas -> Types]
  /\ PaOf \in [Virts -> Pas]
  /\ At \in [Remotes -> {a \in Pas : TypeOf[a] \in {"vxlan/e2e", "geneve/e2e"}}]
  /\ \A a \in Pas : <<"bridge", a>> # NULL

VARIABLES
  kernel,             \* see EmptyKernel
  pas, virts, remotes,\* what was created and added
  refcount,           \* uses of the Geneve tunnel
  err                 \* what the last operation returned

vars == <<kernel, pas, virts, remotes, refcount, err>>

-----------------------------------------------------------------------------
(***************************************************************************)
(* The kernel: links, the bridge each is a port of, the ones that are up,  *)
(* qdiscs, filters and forwarding entries.                                 *)
(***************************************************************************)
Bridge(a) == <<"bridge", a>>
Tunnel(a) == <<"tunnel", a>>
Dummy(r)  == <<"dummy", r>>
PhysIf(a) == <<"phys", a>>
VirtIf(v) == <<"virt", v>>
Stunnel   == <<"stunnel", NULL>>

PhysIfs == {PhysIf(a) : a \in Pas}
VirtIfs == {VirtIf(v) : v \in Virts}

EmptyKernel ==
  [links |-> PhysIfs \cup VirtIfs, ports |-> {}, up |-> {}, qdiscs |-> {}, filters |-> {},
   fdb |-> {}]

\* RTM_DELLINK takes everything with it that belongs to the link.
LinkDelete(k, i) ==
  [links   |-> k.links \ {i},
   ports   |-> {x \in k.ports : x.port # i /\ x.bridge # i},
   up      |-> k.up \ {i},
   qdiscs  |-> {x \in k.qdiscs : x.on # i},
   filters |-> {x \in k.filters : x.on # i},
   fdb     |-> {x \in k.fdb : x.on # i}]

Filter(i, name) == [on |-> i, name |-> name]
Qdisc(i, dir)   == [on |-> i, dir |-> dir]
Entry(a, r)     == [on |-> Tunnel(a), to |-> r]

SetMaster(k, b, i) ==
  [k EXCEPT !.ports = {x \in @ : x.port # i}
                      \cup (IF b = NULL THEN {} ELSE {[port |-> i, bridge |-> b]})]

\* The calls of one operation, named for what they do.
Calls == {"tunnel", "tunnel_up", "bridge", "bridge_up", "port", "port_up", "out_qdisc",
          "in_qdisc", "dummy", "dummy_up", "mark_filter", "out_rule", "in_rule", "fdb",
          "tunnel_up_again", "-tunnel", "-bridge", "-port", "-out_qdisc", "-in_qdisc",
          "-dummy", "-out_rule", "-in_rule", "-fdb"}

\* An operation so far: the kernel, the refcount, the calls that are refused,
\* and the error.
Op(refused) == [k |-> kernel, refcount |-> refcount, refused |-> refused, err |-> "OK"]

\* A call, unless there was an error before.
Call(w, name, k) ==
  IF w.err # "OK" THEN w
  ELSE IF name \in w.refused THEN [w EXCEPT !.err = "ERR"] ELSE [w EXCEPT !.k = k]

\* A call that undoes something (acc_inconsistent).
Undo(w, name, k) ==
  IF w.err = "ABORT" THEN w
  ELSE IF name \in w.refused THEN [w EXCEPT !.err = "INCONSISTENT"] ELSE [w EXCEPT !.k = k]

-----------------------------------------------------------------------------
(***************************************************************************)
(* lbridge.c: bridges and their ports.                                     *)
(***************************************************************************)
Init_bridge(w, a) ==
  LET w1 == Call(w, "bridge", [w.k EXCEPT !.links = @ \cup {Bridge(a)}])
      w2 == Call(w1, "bridge_up", [w1.k EXCEPT !.up = @ \cup {Bridge(a)}])
  IN IF w.err = "OK" /\ w1.err = "OK" /\ w2.err # "OK"
     THEN Undo(w2, "-bridge", LinkDelete(w2.k, Bridge(a))) ELSE w2

Free_bridge(w, a) == Undo(w, "-bridge", LinkDelete(w.k, Bridge(a)))

\* Mutant: the port stays when it cannot be brought up.
AddKeepsPort(w, a, i) ==
  LET w1 == Call(w, "port", SetMaster(w.k, Bridge(a), i)) IN
  Call(w1, "port_up", [w1.k EXCEPT !.up = @ \cup {i}])

Add(w, a, i) ==
  LET w1 == Call(w, "port", SetMaster(w.k, Bridge(a), i))
      w2 == Call(w1, "port_up", [w1.k EXCEPT !.up = @ \cup {i}])
  IN IF w.err = "OK" /\ w1.err = "OK" /\ w2.err # "OK"
     THEN Undo(w2, "-port", SetMaster(w2.k, NULL, i)) ELSE w2

Remove(w, i) == Undo(w, "-port", SetMaster(w.k, NULL, i))

\* The interface that is the port to the other machines.
TunnelIf(a) == IF TypeOf[a] = "direct" THEN PhysIf(a) ELSE Tunnel(a)

\* lsdn_lbridge_create_pa, and the deletion of the tunnel when it fails
Lbridge_create_pa(w, a) ==
  LET w1 == Init_bridge(w, a)
      w2 == Add(w1, a, TunnelIf(a))
  IN IF w1.err = "OK" /\ w2.err # "OK" THEN Free_bridge(w2, a) ELSE w2

Lbridge_destroy_pa(w, a) ==
  LET w1 == Free_bridge(Remove(w, TunnelIf(a)), a) IN
  Undo(w1, "-tunnel", LinkDelete(w1.k, TunnelIf(a)))

-----------------------------------------------------------------------------
(***************************************************************************)
(* create_pa and destroy_pa of the network types.                          *)
(***************************************************************************)

\* direct_create_pa: lsdn_if_resolve looks for the interface of the phys.
Direct_create_pa(w, a) ==
  IF PhysIf(a) \notin w.k.links THEN [w EXCEPT !.err = "ERR"] ELSE Lbridge_create_pa(w, a)

\* vlan_create_pa, vxlan_mcast_create_pa, vxlan_e2e_create_pa
Tunnel_create_pa(w, a) ==
  LET w1 == Call(w, "tunnel", [w.k EXCEPT !.links = @ \cup {Tunnel(a)}])
      w2 == Lbridge_create_pa(w1, a)
  IN IF w1.err = "OK" /\ w2.err # "OK"
     THEN Undo(w2, "-tunnel", LinkDelete(w2.k, Tunnel(a))) ELSE w2

\* lsdn_prepare_rulesets aborts when the ingress qdisc is refused.
In_qdisc(w, i) ==
  LET w1 == Call(w, "in_qdisc", [w.k EXCEPT !.qdiscs = @ \cup {Qdisc(i, "in")}]) IN
  IF w.err = "OK" /\ w1.err # "OK" THEN [w1 EXCEPT !.err = "ABORT"] ELSE w1

\* geneve_use_stunnel, with lsdn_sbridge_phys_if_init at its end
Use_stunnel(w) ==
  LET w1 == Call(w, "tunnel", [w.k EXCEPT !.links = @ \cup {Stunnel}])
      q  == In_qdisc(Call(w1, "tunnel_up", [w1.k EXCEPT !.up = @ \cup {Stunnel}]), Stunnel)
      w2 == Call(q, "tunnel_up_again", [q.k EXCEPT !.up = @ \cup {Stunnel}])
      w3 == IF w.refcount > 0 THEN w
            ELSE IF w1.err = "OK" /\ w2.err # "OK"
            THEN Undo(w2, "-tunnel", LinkDelete(w2.k, Stunnel)) ELSE w2
  IN IF w3.err = "OK" THEN [w3 EXCEPT !.refcount = @ + 1] ELSE w3

\* Mutant: the tunnel is deleted while another PA uses it.
Release_stunnelAlways(w) ==
  LET w1 == Undo(w, "-tunnel", LinkDelete(w.k, Stunnel)) IN
  [w1 EXCEPT !.refcount = @ - 1, !.err = IF "-tunnel" \in w.refused THEN "ABORT" ELSE @]

\* geneve_release_stunnel aborts when the tunnel cannot be deleted.
Release_stunnel(w) ==
  LET w1 == [w EXCEPT !.refcount = @ - 1] IN
  IF w1.refcount > 0 THEN w1
  ELSE IF "-tunnel" \in w.refused THEN [w1 EXCEPT !.err = "ABORT"]
  ELSE [w1 EXCEPT !.k = LinkDelete(@, Stunnel)]

Geneve_e2e_create_pa(w, a) ==
  LET w1 == Use_stunnel(w)
      w2 == Init_bridge(w1, a)
  IN IF w1.err = "OK" /\ w2.err # "OK" THEN Release_stunnel(w2) ELSE w2

Geneve_e2e_destroy_pa(w, a) == Release_stunnel(Free_bridge(w, a))

Ops_create_pa(w, a) ==
  CASE TypeOf[a] = "direct"     -> Direct_create_pa(w, a)
    [] TypeOf[a] = "geneve/e2e" -> Geneve_e2e_create_pa(w, a)
    [] OTHER                    -> Tunnel_create_pa(w, a)

Ops_destroy_pa(w, a) ==
  IF TypeOf[a] = "geneve/e2e" THEN Geneve_e2e_destroy_pa(w, a) ELSE Lbridge_destroy_pa(w, a)

-----------------------------------------------------------------------------
(***************************************************************************)
(* Virts and remote PAs.                                                   *)
(***************************************************************************)
Out_qdisc(w, i) == Call(w, "out_qdisc", [w.k EXCEPT !.qdiscs = @ \cup {Qdisc(i, "out")}])

\* lsdn_cleanup_rulesets
Cleanup_rulesets(w, i, dirs) ==
  LET w1 == Undo(w, "-out_qdisc", [w.k EXCEPT !.qdiscs = @ \ {Qdisc(i, "out")}]) IN
  IF "in" \notin dirs THEN w1
  ELSE Undo(w1, "-in_qdisc", [w1.k EXCEPT !.qdiscs = @ \ {Qdisc(i, "in")}])

Lbridge_add_virt(w, v) ==
  LET w1 == In_qdisc(Out_qdisc(w, VirtIf(v)), VirtIf(v))
      w2 == Add(w1, PaOf[v], VirtIf(v))
  IN IF w1.err = "OK" /\ w2.err # "OK"
     THEN Cleanup_rulesets(w2, VirtIf(v), {"in", "out"}) ELSE w2

Lbridge_remove_virt(w, v) ==
  Cleanup_rulesets(Remove(w, VirtIf(v)), VirtIf(v), {"in", "out"})

\* The rule on the tunnel that redirects the packets of a remote PA.
FromTunnel(r) == Filter(Stunnel, r)

UnOutRule(w, r) ==
  Undo(w, "-out_rule", [w.k EXCEPT !.filters = @ \ {Filter(Dummy(r), "redirect")}])
UnInRule(w, r) == Undo(w, "-in_rule", [w.k EXCEPT !.filters = @ \ {FromTunnel(r)}])
UnDummy(w, r)  == Undo(w, "-dummy", LinkDelete(w.k, Dummy(r)))

\* lsdn_lbridge_add_route; from which step it fails decides what is undone.
Lbridge_add_route(w, r) ==
  LET i  == Dummy(r)
      w1 == Call(w, "dummy", [w.k EXCEPT !.links = @ \cup {i}])
      w2 == Out_qdisc(w1, i)
      w3 == Call(w2, "mark_filter",
                 [w2.k EXCEPT !.filters = @ \cup {Filter(i, "drop_marked")}])
      w4 == Call(w3, "out_rule", [w3.k EXCEPT !.filters = @ \cup {Filter(i, "redirect")}])
      w5 == Call(w4, "in_rule", [w4.k EXCEPT !.filters = @ \cup {FromTunnel(r)}])
      w6 == Add(w5, At[r], i)
      w7 == Call(w6, "dummy_up", [w6.k EXCEPT !.up = @ \cup {i}])
      u6 == IF w6.err = "OK" THEN Remove(w7, i) ELSE w7
      u5 == IF w5.err = "OK" THEN UnInRule(u6, r) ELSE u6
      u4 == IF w4.err = "OK" THEN UnOutRule(u5, r) ELSE u5
      u2 == IF w2.err = "OK" THEN Cleanup_rulesets(u4, i, {"out"}) ELSE u4
  IN IF w7.err = "OK" \/ w1.err # "OK" THEN w7 ELSE UnDummy(u2, r)

Lbridge_remove_route(w, r) ==
  UnDummy(Cleanup_rulesets(UnOutRule(UnInRule(Remove(w, Dummy(r)), r), r), Dummy(r), {"out"}),
          r)

\* geneve_e2e_add_remote_pa, vxlan_e2e_add_remote_pa
Ops_add_remote_pa(w, r) ==
  IF TypeOf[At[r]] = "geneve/e2e" THEN Lbridge_add_route(w, r)
  ELSE Call(w, "fdb", [w.k EXCEPT !.fdb = @ \cup {Entry(At[r], r)}])

\* geneve_e2e_remove_remote_pa, vxlan_e2e_remove_remote_pa.  A removal
\* that fails ends the model, whatever the error is called.
Ops_remove_remote_pa(w, r) ==
  IF TypeOf[At[r]] = "geneve/e2e" THEN Lbridge_remove_route(w, r)
  ELSE Undo(w, "-fdb", [w.k EXCEPT !.fdb = @ \ {Entry(At[r], r)}])

-----------------------------------------------------------------------------
Init ==
  /\ kernel = EmptyKernel
  /\ pas = {} /\ virts = {} /\ remotes = {}
  /\ refcount = 0
  /\ err = "OK"

\* The operation ends as w; what it adds counts when it succeeded.
Ends(w) == kernel' = w.k /\ refcount' = w.refcount /\ err' = w.err

Adds(w, set, x) == IF w.err = "OK" THEN set \cup {x} ELSE set

\* Bound: the kernel refuses at most two calls of an operation.
Refusals == {{}} \cup {{x, y} : x, y \in Calls}

Ready == err \in {"OK", "ERR"}

create_pa(a) ==
  \E R \in Refusals :
    LET w == Ops_create_pa(Op(R), a) IN
    /\ Ready /\ a \notin pas
    /\ Ends(w) /\ pas' = Adds(w, pas, a)
    /\ UNCHANGED <<virts, remotes>>

destroy_pa(a) ==
  \E R \in Refusals :
    /\ Ready /\ a \in pas
    /\ \A v \in virts : PaOf[v] # a
    /\ \A r \in remotes : At[r] # a
    /\ Ends(Ops_destroy_pa(Op(R), a)) /\ pas' = pas \ {a}
    /\ UNCHANGED <<virts, remotes>>

add_virt(v) ==
  \E R \in Refusals :
    LET w == Lbridge_add_virt(Op(R), v) IN
    /\ Ready /\ v \notin virts /\ PaOf[v] \in pas
    /\ Ends(w) /\ virts' = Adds(w, virts, v)
    /\ UNCHANGED <<pas, remotes>>

remove_virt(v) ==
  \E R \in Refusals :
    /\ Ready /\ v \in virts
    /\ Ends(Lbridge_remove_virt(Op(R), v)) /\ virts' = virts \ {v}
    /\ UNCHANGED <<pas, remotes>>

add_remote_pa(r) ==
  \E R \in Refusals :
    LET w == Ops_add_remote_pa(Op(R), r) IN
    /\ Ready /\ r \notin remotes /\ At[r] \in pas
    /\ Ends(w) /\ remotes' = Adds(w, remotes, r)
    /\ UNCHANGED <<pas, virts>>

remove_remote_pa(r) ==
  \E R \in Refusals :
    /\ Ready /\ r \in remotes
    /\ Ends(Ops_remove_remote_pa(Op(R), r)) /\ remotes' = remotes \ {r}
    /\ UNCHANGED <<pas, virts>>

Next ==
  \/ \E a \in Pas : create_pa(a) \/ destroy_pa(a)
  \/ \E v \in Virts : add_virt(v) \/ remove_virt(v)
  \/ \E r \in Remotes : add_remote_pa(r) \/ remove_remote_pa(r)

Spec == Init /\ [][Next]_vars

-----------------------------------------------------------------------------
\* An operation that returns an error, other than LSDNE_INCONSISTENT, leaves
\* the kernel as it was, whichever of its calls was refused and although some
\* of the calls that clean up may be refused too.  Module NetCommit relies on
\* it: there such an operation just has not happened.
ErrorRestores == [][err' = "ERR" => UNCHANGED <<kernel, refcount>>]_vars

\* Between operations the kernel has the tunnels, bridges, ports, dummies,
\* rules and entries of what was created and added, and nothing else; the
\* shared tunnel lives as long as a PA uses it.  The interface of a phys in a
\* direct network is not counted: destroy_pa deletes it, if the kernel lets it.
GenevePas == {a \in pas : TypeOf[a] = "geneve/e2e"}
Routes    == {r \in remotes : TypeOf[At[r]] = "geneve/e2e"}
Port(i, a) == [port |-> i, bridge |-> Bridge(a)]

KernelIsExact ==
  LET own  == {a \in pas : TypeOf[a] \notin {"direct", "geneve/e2e"}}
      stun == IF GenevePas = {} THEN {} ELSE {Stunnel}
  IN Ready =>
    /\ kernel.links \ PhysIfs =
         VirtIfs \cup {Bridge(a) : a \in pas} \cup {Tunnel(a) : a \in own}
         \cup {Dummy(r) : r \in Routes} \cup stun
    /\ kernel.ports = {Port(TunnelIf(a), a) : a \in pas \ GenevePas}
                      \cup {Port(VirtIf(v), PaOf[v]) : v \in virts}
                      \cup {Port(Dummy(r), At[r]) : r \in Routes}
    /\ kernel.links \ (PhysIfs \cup VirtIfs) \subseteq kernel.up
    /\ {VirtIf(v) : v \in virts} \subseteq kernel.up
    /\ kernel.qdiscs = {Qdisc(VirtIf(v), d) : v \in virts, d \in {"in", "out"}}
                       \cup {Qdisc(Dummy(r), "out") : r \in Routes}
                       \cup {Qdisc(i, "in") : i \in stun}
    /\ kernel.filters = {Filter(Dummy(r), f) : r \in Routes, f \in {"drop_marked", "redirect"}}
                        \cup {FromTunnel(r) : r \in Routes}
    /\ kernel.fdb = {Entry(At[r], r) : r \in remotes \ Routes}
    /\ refcount = Cardinality(GenevePas)
=============================================================================
