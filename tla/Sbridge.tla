------------------------------- MODULE Sbridge ------------------------------
(***************************************************************************)
(* The static bridge (netmodel/sbridge.c) as the static VXLAN and Geneve   *)
(* networks use it (net_vxlan.c:277-451, net_geneve.c:10-169): what is     *)
(* behind the network operations that module NetCommit calls.              *)
(*                                                                         *)
(* On the local machine a net has one bridge, made by create_pa.  The      *)
(* interfaces of a bridge are the virts of the net and the tunnel, which   *)
(* all nets of the settings share and count.  A route leads out of an      *)
(* interface: one for each virt, and one through the tunnel for each       *)
(* remote PA.  A MAC is known by its virt or remote virt.  So              *)
(*   Nets   stand for bridges and for their tunnel interfaces,             *)
(*   Virts  for interfaces, their routes and their MACs,                   *)
(*   Rpas   for routes through the tunnel, Rvirts for MACs on such routes. *)
(* An operation is a sequence of steps, one for each rule the kernel gets; *)
(* the lists are walked in any order.  Removals succeed.                   *)
(***************************************************************************)
EXTENDS Broadcast, FiniteSets

CONSTANTS
  Nets, Virts, Rpas, Rvirts,
  NetOf,       \* net of a virt and of a remote PA
  RpaOf,       \* remote PA of a remote virt
  MaxChain,    \* 0xFFFF, where lsdn_idalloc_get stops
  Refusals     \* what the kernel may refuse, see May

ASSUME SbridgeAssumption ==
  /\ NetOf \in [Virts \cup Rpas -> Nets] /\ RpaOf \in [Rvirts -> Rpas]
  /\ MaxChain \in Nat
  /\ Nets \cap Virts = {} /\ Virts \cap Rpas = {} /\ Virts \cap Rvirts = {}
  /\ NoEntry \notin Virts \cup Rpas /\ "tunnel" \notin Virts
  /\ MaxActs >= 2

VARIABLES
  refcount,                       \* users of the tunnel
  next_chain,                     \* br_chain_ids of the tunnel
  if_list, route_list, mac_list,  \* what is on these lists, of all bridges
  broadcast,                      \* [interfaces -> broadcast lists]
  \* the kernel: the tunnel, the bridges' dummy interfaces, the rules that
  \* classify incoming packets, the filters that flood and the forwarding rules
  tunnel, dummies, class, floods, forward,
  stage, obj, todo,               \* the running operation, its object, its loop
  aborted

tunVars  == <<refcount, next_chain, tunnel>>
listVars == <<if_list, route_list, mac_list>>
brVars   == <<broadcast, floods>>
vars == <<tunVars, listVars, brVars, dummies, class, forward, stage, obj, todo, aborted>>

Ifs == Nets \cup Virts
Routes == Virts \cup Rpas
Owners == Virts \cup Rvirts

BridgeOf(i) == IF i \in Nets THEN i ELSE NetOf[i]
RouteIf(r) == IF r \in Virts THEN r ELSE NetOf[r]
RouteOf(m) == IF m \in Virts THEN m ELSE RpaOf[m]
IfsOf(n) == {i \in if_list : BridgeOf(i) = n}

\* A route through the tunnel needs an action that sets the tunnel's metadata.
Cost(r) == IF r \in Rpas THEN 2 ELSE 1

Device(i) == IF i \in Nets THEN "tunnel" ELSE i

SbInit ==
  /\ refcount = 0 /\ next_chain = 1
  /\ if_list = {} /\ route_list = {} /\ mac_list = {}
  /\ broadcast = [i \in Ifs |-> NewBroadcast(0)]
  /\ tunnel = FALSE /\ dummies = {} /\ class = {} /\ floods = <<>> /\ forward = {}
  /\ stage = "idle" /\ obj = NoEntry /\ todo = {} /\ aborted = "no"

-----------------------------------------------------------------------------
\* Whether the kernel does as it is told.  "tunnel": make the tunnel; "dummy":
\* make a dummy interface; "qdisc": prepare the interface of a virt; "match",
\* "fallback", "flood", "forward": install a rule.
May(kind) == IF kind \in Refusals THEN BOOLEAN ELSE {TRUE}

At(s) == stage = s /\ aborted = "no"

Goto(s, rest) == stage' = s /\ todo' = rest /\ UNCHANGED obj

Return == stage' = "idle" /\ obj' = NoEntry /\ todo' = {}

Begin(s, o, rest) ==
  At("idle") /\ stage' = s /\ obj' = o /\ todo' = rest /\ UNCHANGED aborted

CAssert(ok, name) == aborted' = IF ok THEN "no" ELSE name

\* create_pa starts with vxlan_use_stunnel.
CreatePa(n) ==
  /\ n \notin dummies
  /\ At("idle")
  /\ \E ok \in IF refcount = 0 THEN May("tunnel") ELSE {TRUE} :
       IF ok
       THEN /\ refcount' = refcount + 1 /\ tunnel' = TRUE
            /\ next_chain' = IF refcount = 0 THEN 1 ELSE next_chain
            /\ stage' = "init" /\ obj' = n /\ UNCHANGED todo
       ELSE UNCHANGED tunVars /\ Return
  /\ UNCHANGED <<listVars, brVars, dummies, class, forward, aborted>>

\* Mutant: create_pa returns without giving the tunnel back.
InitFailedKeepsTunnel == Return

\* create_pa after lsdn_sbridge_init failed.
InitFailed == Goto("release", {})

\* lsdn_sbridge_init
SbridgeInit ==
  /\ At("init")
  /\ \E ok \in May("dummy") :
       /\ dummies' = IF ok THEN dummies \cup {obj} ELSE dummies
       /\ IF ok THEN Goto("match", {}) ELSE InitFailed
  /\ UNCHANGED <<tunVars, listVars, brVars, class, forward, aborted>>

\* lsdn_sbridge_add_virt up to lsdn_sbridge_add_if
AddVirt(v) ==
  /\ NetOf[v] \in dummies /\ v \notin if_list
  /\ At("idle")
  /\ \E ok \in May("qdisc") :
       IF ok THEN Begin("match", v, {}) ELSE Return /\ UNCHANGED aborted
  /\ UNCHANGED <<tunVars, listVars, brVars, dummies, class, forward>>

\* Mutant: chain ids are given out twice.
ChainIdSame(o) == 1

\* lsdn_idalloc_get: a virt has an allocator of its own.
ChainId(o) == IF o \in Nets THEN next_chain ELSE 1

\* lsdn_sbridge_add_if: the broadcast chain, and the rule that leads there.
\* The chain is not given back: lsdn_idalloc_return does nothing.
AddIfMatch ==
  LET id == ChainId(obj)
      full == id = MaxChain
  IN
  /\ At("match")
  /\ next_chain' = IF obj \in Nets /\ ~full THEN next_chain + 1 ELSE next_chain
  /\ \E ok \in IF full THEN {FALSE} ELSE May("match") :
       IF ok
       THEN /\ broadcast' = [broadcast EXCEPT ![obj] = NewBroadcast(id)]
            /\ class' = class \cup {<<obj, "match">>}
            /\ Goto("fallback", {})
       ELSE /\ UNCHANGED <<broadcast, class>>
            /\ IF obj \in Nets THEN Goto("free", {}) ELSE Return
  /\ UNCHANGED <<refcount, tunnel, listVars, floods, dummies, forward, aborted>>

\* Mutant: the new interface does not learn of the routes that are there.
PulledNone(n) == {}

\* The routes of the interfaces on the bridge's if_list.
Pulled(n) == {r \in route_list : RouteIf(r) \in IfsOf(n)}

\* The rule for the other packets; nobody looks at its error.
AddIfFallback ==
  /\ At("fallback")
  /\ \E ok \in May("fallback") :
       class' = IF ok THEN class \cup {<<obj, "fallback">>} ELSE class
  /\ Goto("pull", Pulled(BridgeOf(obj)))
  /\ UNCHANGED <<tunVars, listVars, brVars, dummies, forward, aborted>>

Key(i, f) == <<Device(i), broadcast'[i].chain, f.prio>>

FilterAt(i, k) == CHOOSE f \in ToSet(broadcast'[i].filters) : Key(i, f) = k

\* lsdn_flush_action_list for the filters of an interface; only the one that
\* changed is really sent.
Flush(i) ==
  LET sent == {Key(i, f) : f \in ToSet(broadcast'[i].filters)} IN
  floods' = [k \in sent \cup DOMAIN floods |->
               IF k \in sent THEN Flushed(FilterAt(i, k)) ELSE floods[k]]

\* if_br_make.  When the kernel refuses, the action is freed and stays in the
\* table of its filter, which the next flush reads: the model ends there.
IfBrMake(i, r) ==
  \E ok \in May("flood") :
    /\ CAssert(ok, "freed_action")
    /\ broadcast' = [broadcast EXCEPT ![i] = BroadcastAdd(@, r, Cost(r))]
    /\ IF ok THEN Flush(i) ELSE UNCHANGED floods

\* lsdn_sbridge_add_if pulls the broadcast rules for the new interface.
Pull(r) ==
  /\ At("pull")
  /\ r \in todo /\ Goto("pull", todo \ {r})
  /\ IfBrMake(obj, r)
  /\ UNCHANGED <<tunVars, listVars, dummies, class, forward>>

\* Mutant: a route is flooded to from its own interface as well.
PushedAll(r) == IfsOf(BridgeOf(RouteIf(r)))

Pushed(r) == IfsOf(BridgeOf(RouteIf(r))) \ {RouteIf(r)}

\* The end of lsdn_sbridge_add_if; for a virt its route is next.
AddIfEnd ==
  /\ At("pull") /\ todo = {}
  /\ if_list' = if_list \cup {obj}
  /\ IF obj \in Nets THEN Return ELSE Goto("push", Pushed(obj))
  /\ UNCHANGED <<tunVars, route_list, mac_list, brVars, dummies, class, forward, aborted>>

\* add_remote_pa is lsdn_sbridge_add_route.
AddRemotePa(r) ==
  /\ NetOf[r] \in if_list /\ r \notin route_list
  /\ Begin("push", r, Pushed(r))
  /\ UNCHANGED <<tunVars, listVars, brVars, dummies, class, forward>>

\* lsdn_sbridge_add_route pushes broadcast rules to the other interfaces.
Push(i) ==
  /\ At("push")
  /\ i \in todo /\ Goto("push", todo \ {i})
  /\ IfBrMake(i, obj)
  /\ UNCHANGED <<tunVars, listVars, dummies, class, forward>>

AddRouteEnd ==
  /\ At("push") /\ todo = {}
  /\ route_list' = route_list \cup {obj}
  /\ IF obj \in Virts THEN Goto("mac", {}) ELSE Return
  /\ UNCHANGED <<tunVars, if_list, mac_list, brVars, dummies, class, forward, aborted>>

\* add_remote_virt is lsdn_sbridge_add_mac.
AddRemoteVirt(w) ==
  /\ RpaOf[w] \in route_list /\ w \notin mac_list
  /\ Begin("mac", w, {})
  /\ UNCHANGED <<tunVars, listVars, brVars, dummies, class, forward>>

ForwardRule(m) == <<BridgeOf(RouteIf(RouteOf(m))), m, RouteOf(m)>>

\* lsdn_sbridge_add_mac puts the MAC on its list in any case.  add_virt then
\* calls lsdn_sbridge_remove_route, which asserts that the list is empty; for
\* a remote virt the commit engine calls remove_remote_virt.
AddMac ==
  /\ At("mac")
  /\ mac_list' = mac_list \cup {obj}
  /\ \E ok \in May("forward") :
       /\ forward' = IF ok THEN forward \cup {ForwardRule(obj)} ELSE forward
       /\ CAssert(ok \/ obj \in Rvirts, "remove_route")
       /\ IF ok THEN Return ELSE Goto("unmac", {})
  /\ UNCHANGED <<tunVars, if_list, route_list, brVars, dummies, class>>

-----------------------------------------------------------------------------
\* remove_remote_virt and remove_virt start with lsdn_sbridge_remove_mac.
RemoveMac(m) ==
  /\ m \in mac_list
  /\ Begin("unmac", m, {})
  /\ UNCHANGED <<tunVars, listVars, brVars, dummies, class, forward>>

\* Interfaces that flood to a route: its cl_dest.
FloodingTo(r) == {i \in Ifs : r \in Actions(broadcast[i])}

\* Mutant: the forwarding rule is left to the flush of the route.
UnMacKeepsRule ==
  /\ At("unmac")
  /\ mac_list' = mac_list \ {obj}
  /\ IF obj \in Virts THEN Goto("unroute", FloodingTo(obj)) ELSE Return
  /\ UNCHANGED <<tunVars, if_list, route_list, brVars, dummies, class, forward, aborted>>

UnMac ==
  /\ At("unmac")
  /\ mac_list' = mac_list \ {obj}
  /\ forward' = forward \ {ForwardRule(obj)}
  /\ IF obj \in Virts THEN Goto("unroute", FloodingTo(obj)) ELSE Return
  /\ UNCHANGED <<tunVars, if_list, route_list, brVars, dummies, class, aborted>>

\* remove_remote_pa is lsdn_sbridge_remove_route; the commit engine has removed
\* the remote virts.
RemoveRemotePa(r) ==
  /\ r \in route_list /\ \A w \in mac_list : RouteOf(w) # r
  /\ Begin("unroute", r, FloodingTo(r))
  /\ UNCHANGED <<tunVars, listVars, brVars, dummies, class, forward>>

\* if_br_action_free, called by lsdn_clist_flush for either list
IfBrFree(i, r) ==
  /\ broadcast' = [broadcast EXCEPT ![i] = BroadcastRemove(@, r, Cost(r))]
  /\ Flush(i)

\* lsdn_sbridge_remove_route flushes its cl_dest.
UnRoute(i) ==
  /\ At("unroute")
  /\ i \in todo /\ Goto("unroute", todo \ {i})
  /\ IfBrFree(i, obj)
  /\ UNCHANGED <<tunVars, listVars, dummies, class, forward, aborted>>

UnRouteEnd ==
  /\ At("unroute") /\ todo = {}
  /\ route_list' = route_list \ {obj}
  /\ IF obj \in Virts THEN Goto("unif", Actions(broadcast[obj])) ELSE Return
  /\ UNCHANGED <<tunVars, if_list, mac_list, brVars, dummies, class, forward, aborted>>

\* destroy_pa starts with lsdn_sbridge_remove_if; the commit engine has removed
\* the virts and the remote PAs.
DestroyPa(n) ==
  /\ n \in dummies
  /\ \A i \in if_list : i # n => BridgeOf(i) # n
  /\ \A r \in route_list : NetOf[r] # n
  /\ Begin("unif", n, Actions(broadcast[n]))
  /\ UNCHANGED <<tunVars, listVars, brVars, dummies, class, forward>>

\* lsdn_sbridge_remove_if flushes its cl_owner.
UnIf(r) ==
  /\ At("unif")
  /\ r \in todo /\ Goto("unif", todo \ {r})
  /\ IfBrFree(obj, r)
  /\ UNCHANGED <<tunVars, listVars, dummies, class, forward, aborted>>

ChainOf(i) == {k \in DOMAIN floods : k[1] = Device(i) /\ k[2] = broadcast[i].chain}

\* The rest of lsdn_sbridge_remove_if, with lsdn_broadcast_free.  A fallback
\* rule that was refused is not on the list it is removed from.
UnIfEnd ==
  /\ At("unif") /\ todo = {}
  /\ CAssert(<<obj, "fallback">> \in class, "list_remove")
  /\ class' = class \ {<<obj, "match">>, <<obj, "fallback">>}
  /\ floods' = Restrict(floods, DOMAIN floods \ ChainOf(obj))
  /\ broadcast' = [broadcast EXCEPT ![obj] = NewBroadcast(0)]
  /\ if_list' = if_list \ {obj}
  /\ IF obj \in Nets THEN Goto("free", {}) ELSE Return
  /\ UNCHANGED <<tunVars, route_list, mac_list, dummies, forward>>

\* lsdn_sbridge_free
SbridgeFree ==
  /\ At("free")
  /\ CAssert(/\ IfsOf(obj) = {}
             /\ \A x \in forward : x[1] # obj, "sbridge_free")
  /\ dummies' = dummies \ {obj}
  /\ Goto("release", {})
  /\ UNCHANGED <<tunVars, listVars, brVars, class, forward>>

\* vxlan_release_stunnel, the last thing create_pa does when it fails, and
\* destroy_pa in any case.
ReleaseStunnel ==
  LET last == refcount = 1 IN
  /\ At("release")
  /\ refcount' = refcount - 1
  /\ tunnel' = ~last
  /\ CAssert(last => \A x \in class : x[1] \notin Nets, "ruleset_free")
  /\ floods' = IF last THEN Restrict(floods, {k \in DOMAIN floods : k[1] # "tunnel"}) ELSE floods
  /\ Return
  /\ UNCHANGED <<next_chain, listVars, broadcast, dummies, class, forward>>

\* An assert failed, or memory is corrupt.
Stopped == aborted # "no" /\ UNCHANGED vars

Next ==
  \/ \E n \in Nets : CreatePa(n) \/ DestroyPa(n)
  \/ \E v \in Virts : AddVirt(v)
  \/ \E r \in Rpas : AddRemotePa(r) \/ RemoveRemotePa(r)
  \/ \E w \in Rvirts : AddRemoteVirt(w)
  \/ \E m \in Owners : RemoveMac(m)
  \/ SbridgeInit \/ AddIfMatch \/ AddIfFallback \/ AddIfEnd \/ AddRouteEnd \/ AddMac
  \/ \E r \in Routes : Pull(r) \/ UnIf(r)
  \/ \E i \in Ifs : Push(i) \/ UnRoute(i)
  \/ UnMac \/ UnRouteEnd \/ UnIfEnd \/ SbridgeFree \/ ReleaseStunnel
  \/ Stopped

Init == SbInit
Spec == Init /\ [][Next]_vars

-----------------------------------------------------------------------------
Quiet == At("idle")

\* The places in the kernel's filters that a broadcast from interface i reaches.
Hits(i) == UNION {{<<k, p>> : p \in DOMAIN floods[k]} : k \in ChainOf(i)}

Others(i) == {r \in route_list : BridgeOf(RouteIf(r)) = BridgeOf(i) /\ RouteIf(r) # i}

\* Between operations a broadcast that comes in through an interface leaves
\* once through every route of its bridge, except those of the interface.
FloodsExact ==
  Quiet => \A i \in if_list :
             /\ {floods[h[1]][h[2]] : h \in Hits(i)} = Others(i)
             /\ Cardinality(Hits(i)) = Cardinality(Others(i))

\* At every step packets stay in their net and do not return the way they came,
\* though all nets share the tunnel and its chains.
FloodsStayInNet ==
  \A i \in Ifs : \A h \in Hits(i) :
    LET out == RouteIf(floods[h[1]][h[2]]) IN BridgeOf(out) = BridgeOf(i) /\ out # i

FiltersOf(i) == ToSet(broadcast[i].filters)

\* At every step the count of free actions is right, so that no filter gets
\* more than the kernel takes, and the kernel has the filters as they are in
\* memory and no others.
TablesMatchFilters ==
  aborted = "no" =>
    /\ \A i \in Ifs : \A f \in FiltersOf(i) :
         f.free + Cardinality(InUse(f)) + Cardinality({p \in InUse(f) : f.acts[p] \in Rpas})
           = MaxActs
    /\ {<<k, floods[k]>> : k \in DOMAIN floods} =
       UNION {{<<<<Device(i), broadcast[i].chain, f.prio>>, Flushed(f)>> : f \in FiltersOf(i)}
              : i \in Ifs}

\* Between operations a bridge forwards to the MACs on its lists and to no
\* others, each along its route.
ForwardsExact == Quiet => forward = {ForwardRule(m) : m \in mac_list}

\* Between operations the tunnel is there as long as a bridge uses it, also
\* after a create_pa that failed half way, and interfaces are classified as
\* long as they are on a bridge.
TunnelCounted ==
  Quiet => /\ refcount = Cardinality(dummies) /\ tunnel = (refcount > 0)
           /\ dummies = if_list \cap Nets
           /\ {x[1] : x \in {y \in class : y[2] = "match"}} = if_list

\* The asserts of lsdn_sbridge_free and lsdn_ruleset_free hold: bridge and
\* tunnel are freed after everything on them.
FreedEmpty == aborted \notin {"sbridge_free", "ruleset_free"}
=============================================================================
