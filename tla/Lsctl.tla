------------------------------- MODULE Lsctl --------------------------------
(***************************************************************************)
(* An interpreter that evaluates lsctl scripts: any sequence of the        *)
(* commands of module Lsext, nested in blocks, failing and caught at any   *)
(* level.  Scripts follow one another in the same interpreter, as in the   *)
(* daemon; an error that reaches the top ends a script and the next one    *)
(* begins.                                                                 *)
(***************************************************************************)
EXTENDS Dump

CONSTANTS
  Care,         \* the rules below that scripts keep
  MaxObjects,   \* bound: objects at a time
  MaxAttrs      \* bound: attributes, ids, limits and rules at a time

(***************************************************************************)
(* What scripts do not do, because the code does not survive it or does    *)
(* something else than the script says:                                    *)
(*   contents        give phys more than options and one block             *)
(*   nesting         open a third block, or use phys in the second one     *)
(*   enclosing       remove the object whose block they are in             *)
(*   redefine        define what they removed before the next commit       *)
(*   reuse           attach or connect again what they detached before     *)
(*                   the next commit                                       *)
(*   commit between  remove a virt and then its phys, or everything with   *)
(*                   cleanup or free, without a commit between             *)
(*   if              connect a virt without an interface                   *)
(*   direction       give rule or rate another direction than in and out   *)
(*   generated       name a phys as the code names the next one            *)
(*   names           leave a phys without a name, so that its generated    *)
(*                   name may be taken when the dump is replayed, or use   *)
(*                   one name twice                                        *)
(*   rule macs       match a destination MAC alone, or a MAC with a mask   *)
(*   type            use the type geneve/e2e                               *)
(* The last three, and redefine, are what ShowRoundTrips needs.            *)
(***************************************************************************)
CareRules == {"contents", "nesting", "enclosing", "redefine", "reuse", "commit between",
              "if", "direction", "generated", "names", "rule macs", "type"}

ASSUME LsctlAssumption == Care \subseteq CareRules

VARIABLES m, ctx, frames, res

vars == <<m, ctx, frames, res>>

world == [m |-> m, ctx |-> ctx, frames |-> frames, res |-> res]

Init == m = EmptyModel /\ ctx = RootCtx /\ frames = <<>> /\ res = "TCL_OK"

\* A PA that awaits its deletion is not attached or connected to again.
NoReuse(model) ==
  "reuse" \in Care =>
    \A a \in DOMAIN model.pa : model.pa[a].state = "DELETE" =>
      ~model.pa[a].explicit /\ Connected(model, a) = {}

\* The attributes and ids that are set, with the objects that have them.
Attrs(model) ==
  {<<n, "vid">> : n \in {k \in NetIds : model.net[k].vid \in Vids}}
  \cup {<<p, "ip">> : p \in {q \in PhysIds : model.phys[q].ip # NULL}}
  \cup {<<p, "iface">> : p \in {q \in PhysIds : model.phys[q].iface # NULL}}
  \cup {<<p, "local">> : p \in {q \in PhysIds : model.phys[q].local}}
  \cup {<<v, "mac">> : v \in {u \in VirtIds : model.virt[u].mac # NULL}}
  \cup {a \in VirtIds \X {"in", "out"} : model.virt[a[1]].rate[a[2]] # NULL}

RulesOf(model) == UNION {{<<v, r>> : r \in model.virt[v].rules} : v \in VirtIds}

Objects(model) ==
  Cardinality(Allocated(model.settings)) + Cardinality(Allocated(model.net))
  + Cardinality(Allocated(model.phys)) + Cardinality(Allocated(model.virt))

Becomes(w) ==
  /\ NoReuse(w.m)
  /\ Objects(w.m) <= MaxObjects
  /\ Cardinality(Attrs(w.m)) + Cardinality(RulesOf(w.m)) <= MaxAttrs
  /\ m' = w.m /\ ctx' = w.ctx /\ frames' = w.frames /\ res' = w.res

\* The next command of the script is evaluated, in a scope that allows it;
\* Refused has the others.
Reads(allowed) == res = "TCL_OK" /\ m.bug = "no" /\ Get_scope(world) \in allowed

\* There is an object with the name, or room for one.
Room(tab, name) == ByName(tab, name) # 0 \/ Free(tab) # {}

\* The name is not that of an object that awaits its deletion.
NotDying(tab, name) ==
  "redefine" \in Care => \A i \in Names_search(tab, name) : tab[i].state # "DELETE"

\* An option that may be left out; an address may also fail to parse.
Optional(S) == S \cup {NULL}
OrBad(S)    == S \cup {BAD}

Settings ==
  \E type \in Types \cup {BAD}, name \in Optional(SettingsNames) :
    /\ Reads({"S_ROOT"})
    /\ Free(m.settings) # {}
    /\ "names" \in Care =>
         Names_search(m.settings, IF name = NULL THEN "default" ELSE name) = {}
    /\ "type" \in Care => type # "geneve/e2e"
    /\ Becomes(Tcl_settings(world, type, name))

\* -vid, -settings, -phys: one of them or none
NetArgs ==
  {<<v, NULL, NULL>> : v \in Optional(Vids)}
  \cup {<<NULL, x, NULL>> : x \in SettingsNames}
  \cup {<<NULL, NULL, p>> : p \in PhysNames}

\* There is a slot for the scope of another block.
MayOpen == "nesting" \in Care => Len(ctx.stack) < MAX_SCOPE_NESTING

Net ==
  \E name \in NetNames, a \in NetArgs, block \in BOOLEAN :
    /\ Reads({"S_PHYS", "S_ROOT"})
    /\ Room(m.net, name) /\ NotDying(m.net, name)
    /\ block => MayOpen
    /\ Becomes(Tcl_net(world, name, a[1], a[2], a[3], FALSE, block))

NotEnclosing(kind, id) ==
  "enclosing" \in Care =>
    \A i \in DOMAIN frames : frames[i] # [kind |-> kind, id |-> id]

NetRemove ==
  \E name \in NetNames :
    /\ Reads({"S_PHYS", "S_ROOT"})
    /\ NotEnclosing("net", ByName(m.net, name))
    /\ Becomes(Tcl_net(world, name, NULL, NULL, NULL, TRUE, FALSE))

PhysGuard(name) ==
  /\ Reads({"S_NET", "S_ROOT"})
  /\ Room(m.phys, name) /\ NotDying(m.phys, name)
  /\ MayOpen
  /\ "generated" \in Care =>
       (ByName(m.phys, name) = 0 => Names_search(m.phys, Generated(NextId(m.phys))) = {})
  /\ "names" \in Care => name # NULL

Phys ==
  \E name \in Optional(PhysNames), n \in Optional(NetNames),
     args \in {"none", "block", "wrong"} :
    /\ PhysGuard(name)
    /\ "contents" \in Care => args # "wrong"
    /\ Becomes(Tcl_phys(world, name, NULL, NULL, n, FALSE, {}, args))

\* -if, -ip and the options that clear them; to set and clear is an error.
AttrArgs ==
  {<<x, NULL, c>> : x \in Ifaces, c \in {{}, {"iface"}}}
  \cup {<<NULL, x, {}>> : x \in OrBad(Ips)}
  \cup {<<NULL, NULL, {c}>> : c \in {"iface", "ip"}}

PhysAttrs ==
  \E name \in Optional(PhysNames), a \in AttrArgs :
    /\ PhysGuard(name)
    /\ Becomes(Tcl_phys(world, name, a[1], a[2], NULL, FALSE, a[3], "none"))

PhysRemove ==
  \E name \in PhysNames :
    LET p == ByName(m.phys, name) IN
    /\ Reads({"S_NET", "S_ROOT"})
    /\ NotEnclosing("phys", p)
    /\ "commit between" \in Care =>
         \A v \in VirtIds : p # 0 /\ m.virt[v].phys = p => m.virt[v].state # "DELETE"
    /\ Becomes(Tcl_phys(world, name, NULL, NULL, NULL, TRUE, {}, "none"))

\* The virts a command may mean.
VirtTable(n) == VirtNames(m, Resolved(world, "net", n))

VirtGuard(n, name, p, iface) ==
  /\ Reads({"S_PHYS", "S_NET", "S_ROOT"})
  /\ ByName(VirtTable(n), name) # 0 \/ Free(m.virt) # {}
  /\ NotDying(VirtTable(n), name)
  /\ "if" \in Care => (Resolved(world, "phys", p) # 0 => iface # NULL)

Virt ==
  \E n \in Optional(NetNames), name \in Optional(VirtLabels), p \in Optional(PhysNames),
     iface \in Optional(Ifaces), block \in BOOLEAN :
    /\ VirtGuard(n, name, p, iface)
    /\ block => MayOpen
    /\ Becomes(Tcl_virt(world, n, name, NULL, p, iface, FALSE, FALSE, block))

\* -mac, the option that clears it, or both, which is an error
MacArgs == {<<x, FALSE>> : x \in OrBad(Macs)} \cup {<<x, TRUE>> : x \in Optional(Macs)}

VirtMac ==
  \E n \in Optional(NetNames), name \in Optional(VirtLabels), a \in MacArgs :
    /\ VirtGuard(n, name, NULL, NULL)
    /\ Becomes(Tcl_virt(world, n, name, a[1], NULL, NULL, FALSE, a[2], FALSE))

VirtRemove ==
  \E n \in Optional(NetNames), name \in VirtLabels :
    /\ Reads({"S_PHYS", "S_NET", "S_ROOT"})
    /\ Becomes(Tcl_virt(world, n, name, NULL, NULL, NULL, TRUE, FALSE, FALSE))

\* Rules that match on a source IP with a mask or on source MAC and source IP;
\* a mask of the other version, an address that does not parse and three
\* matches are errors.
RuleArgs ==
  LET Arg(x, k) == [value |-> x, mask |-> k]
      Args(sm, dm, si, di) ==
        ("srcMac" :> sm) @@ ("dstMac" :> dm) @@ ("srcIp" :> si) @@ ("dstIp" :> di)
  IN {Args(NoArg, NoArg, Arg(x, k), NoArg) : x \in OrBad(Ips), k \in Masks}
     \cup {Args(Arg(x, NULL), NoArg, Arg(y, NULL), di) :
             x \in Macs, y \in Ips, di \in {NoArg} \cup {Arg(z, NULL) : z \in Ips}}
     \cup (IF "rule macs" \in Care THEN {}
           ELSE {Args(NoArg, Arg(x, NULL), NoArg, NoArg) : x \in Macs}
                \cup {Args(Arg(x, MacMask), NoArg, NoArg, NoArg) : x \in Macs})

\* Everything but in and out stands behind BAD.
Directions == {"in", "out"} \cup (IF "direction" \in Care THEN {} ELSE {BAD})

Rule ==
  \E dir \in Directions, prio \in Prios, args \in RuleArgs,
     junk \in {[value |-> x, mask |-> x] : x \in Macs} :
    /\ Reads({"S_VIRT"})
    /\ Becomes(Tcl_rule(world, dir, prio, "drop", args, junk))

FlushVr == Reads({"S_VIRT"}) /\ Becomes(Tcl_flushVr(world))

\* -avg, -burst and -burstRate; the first two have to be there.
RateArgs ==
  {<<x, x, y>> : x \in Rates, y \in Optional(Rates)}
  \cup UNION {{<<NULL, x, NULL>>, <<x, NULL, NULL>>, <<BAD, x, NULL>>} : x \in Rates}

Rate ==
  \E dir \in Directions, a \in RateArgs :
    Reads({"S_VIRT"}) /\ Becomes(Tcl_rate(world, dir, a[1], a[2], a[3]))

Pairs(S) == {a \in S \X S : a[1] # a[2]}
Lists(S) == {<<x>> : x \in S} \cup Pairs(S)

ClaimLocalCmd ==
  \E p \in Optional(PhysNames), list \in {<<>>} \cup Lists(PhysNames) :
    Reads({"S_ROOT", "S_PHYS"}) /\ Becomes(Tcl_claimLocal(world, p, list))

\* -phys and -net, one of them and a list, or too little.
AttachArgs ==
  {<<p, n, <<>>>> : p \in Optional(PhysNames), n \in Optional(NetNames)}
  \cup {<<p, NULL, list>> : p \in Optional(PhysNames), list \in Pairs(NetNames)}
  \cup {<<NULL, n, list>> : n \in Optional(NetNames), list \in Lists(PhysNames)}

Attach ==
  \E a \in AttachArgs :
    Reads({"S_ROOT", "S_PHYS", "S_NET"}) /\ Becomes(Tcl_attach(world, a[1], a[2], a[3]))

Detach ==
  \E a \in AttachArgs :
    Reads({"S_ROOT", "S_PHYS", "S_NET"}) /\ Becomes(Tcl_detach(world, a[1], a[2], a[3]))

CommitCmd ==
  \E outcome \in {"ok", "failed", "refused"}, Sweep \in SUBSET VirtIds :
    Reads({"S_ROOT"}) /\ Becomes(Tcl_commit(world, outcome, Sweep))

Validate ==
  \E outcome \in {"ok", "refused"} : Reads({"S_ROOT"}) /\ Becomes(Tcl_validate(world, outcome))

Cleanup ==
  \E wrong \in BOOLEAN :
    /\ Reads({"S_ROOT"})
    /\ "commit between" \in Care =>
         \A v \in VirtIds : m.virt[v].phys # 0 => m.virt[v].state # "DELETE"
    /\ Becomes(Tcl_cleanup(world, wrong))

Show == Reads({"S_ROOT"}) /\ Becomes(Tcl_show(world))

\* A command that is not allowed in the scope: there is one for every scope.
Refused ==
  /\ Reads(Scopes)
  /\ Becomes(IF Check_scope(world, {"S_VIRT"}) THEN Tcl_cleanup(world, FALSE)
             ELSE Tcl_flushVr(world))

\* A block ends, after its last command or with the error of one.
EndBlock == m.bug = "no" /\ frames # <<>> /\ Becomes(End_block(world))

\* The script catches an error, or the next script begins.
Catch == m.bug = "no" /\ res = "TCL_ERROR" /\ Becomes([world EXCEPT !.res = "TCL_OK"])

Next ==
  \/ Settings \/ Net \/ NetRemove \/ Phys \/ PhysAttrs \/ PhysRemove
  \/ Virt \/ VirtMac \/ VirtRemove \/ Rule \/ FlushVr \/ Rate
  \/ ClaimLocalCmd \/ Attach \/ Detach \/ CommitCmd \/ Validate \/ Cleanup \/ Show
  \/ Refused \/ EndBlock \/ Catch

Spec == Init /\ [][Next]_vars

-----------------------------------------------------------------------------
\* Nothing undefined happens: no pointer to a released object is used, no
\* assert of the model fails, nothing is read behind the table of directions
\* and nothing is written behind scope_stack.
NothingUndefined == m.bug = "no"

\* The context is that of the blocks being evaluated, whatever failed before:
\* the scopes are those of the blocks, the objects those the blocks belong to.
Enclosing(kind) ==
  {frames[i].id : i \in {j \in DOMAIN frames : frames[j].kind = kind}}

ContextMatchesBlocks ==
  /\ ctx.stack = <<"S_ROOT">> \o [i \in DOMAIN frames |-> ScopeOf[frames[i].kind]]
  /\ \A kind \in {"net", "phys", "virt"} :
       IF Enclosing(kind) = {} THEN ctx[kind] = 0 ELSE {ctx[kind]} = Enclosing(kind)

\* The script that show prints is accepted by a new interpreter and makes the
\* model it was printed from, once nothing awaits its deletion.
ShowRoundTrips ==
  frames = <<>> /\ res = "TCL_OK" /\ Settled(m) =>
    LET w == Replay(Dump_context_tcl(m)) IN
    /\ w.res = "TCL_OK" /\ w.frames = <<>> /\ w.m.bug = "no"
    /\ Meaning(w.m) = Meaning(m)
=============================================================================
