------------------------------- MODULE Lsext --------------------------------
(***************************************************************************)
(* The lsctl language: the Tcl commands of lsctl/lsext.c that edit, commit *)
(* and show the network model.  A command may take a block of further      *)
(* commands; while the block is evaluated, the context holds the object    *)
(* the block belongs to and a stack of scopes.  An error ends all blocks   *)
(* around it unless the script catches it.  The context outlives a script: *)
(* the daemon evaluates the scripts of all its clients in one interpreter. *)
(*                                                                         *)
(* Abstractions.  Each operator Tcl_x maps the world w before the command  *)
(* to the world after it, up to the beginning of its block; End_block is   *)
(* the rest.  Addresses, interfaces, rates and rule masks are taken from   *)
(* small sets and BAD is any argument that does not parse.                 *)
(*                                                                         *)
(* A world is a record: m is the network model (ctx->lsctx); ctx is the    *)
(* rest of struct tcl_ctx, its stack cut at stack_pos; frames are the      *)
(* blocks being evaluated, the call stack of the interpreter, which the    *)
(* code does not see; res is the result of the last command.               *)
(***************************************************************************)
EXTENDS NamedModel

CONSTANTS
  NetNames, PhysNames, VirtLabels, SettingsNames,  \* names a script uses
  Types,                              \* settings types
  Vids, VidOf,                        \* ids given with -vid; strtol of a name
  Ips, Masks, Version,                \* addresses, masks and their IP version
  Ifaces, Macs, Rates, Prios,
  MacMask,                            \* lsdn_single_mac_mask
  BAD                                 \* an argument that does not parse

ASSUME LsextAssumption ==
  /\ NetNames = DOMAIN VidOf
  /\ Version \in [Ips \cup Masks -> {4, 6}]
  /\ BAD \notin {"in", "out"}

-----------------------------------------------------------------------------
(***************************************************************************)
(* Scopes.  scope_stack has MAX_SCOPE_NESTING slots, one of them for the   *)
(* root; push_scope writes without looking.                                *)
(***************************************************************************)
MAX_SCOPE_NESTING == 3

Scopes == {"S_ROOT", "S_NET", "S_PHYS", "S_VIRT"}

RootCtx == [net |-> 0, phys |-> 0, virt |-> 0, stack |-> <<"S_ROOT">>]

NewWorld(model) == [m |-> model, ctx |-> RootCtx, frames |-> <<>>, res |-> "TCL_OK"]

Get_scope(w) == w.ctx.stack[Len(w.ctx.stack)]

Fail(w) == [w EXCEPT !.res = "TCL_ERROR"]

Check_scope(w, allowed) == Get_scope(w) \in allowed

Push_scope(w, s) ==
  IF Len(w.ctx.stack) = MAX_SCOPE_NESTING
  THEN [w EXCEPT !.m = Bug(w.m, TRUE, "overflow")]
  ELSE [w EXCEPT !.ctx.stack = Append(@, s)]

Pop_scope(w) == [w EXCEPT !.ctx.stack = SubSeq(@, 1, Len(@) - 1)]

ScopeOf == [net |-> "S_NET", phys |-> "S_PHYS", virt |-> "S_VIRT"]

\* The beginning of the block of an object of the given kind.
Begin_block(w, kind, id) ==
  LET v == Push_scope(w, ScopeOf[kind]) IN
  [v EXCEPT !.ctx[kind] = id, !.frames = Append(@, [kind |-> kind, id |-> id])]

\* Mutant: a block that ends with an error leaves its scope behind.
End_blockOnOk(w) ==
  LET f == w.frames[Len(w.frames)]
      v == [w EXCEPT !.frames = SubSeq(@, 1, Len(@) - 1)]
  IN IF w.res = "TCL_ERROR" THEN v ELSE Pop_scope([v EXCEPT !.ctx[f.kind] = 0])

\* The end of a block, with or without an error.
End_block(w) ==
  LET f == w.frames[Len(w.frames)] IN
  Pop_scope([w EXCEPT !.frames = SubSeq(@, 1, Len(@) - 1), !.ctx[f.kind] = 0])

\* resolve_net_arg and resolve_phys_arg; kind is "net" or "phys".
ResolveFails(w, kind, arg, needed) ==
  \/ arg # NULL /\ w.ctx[kind] # 0
  \/ arg # NULL /\ w.ctx[kind] = 0 /\ ByName(w.m[kind], arg) = 0
  \/ arg = NULL /\ w.ctx[kind] = 0 /\ needed

Resolved(w, kind, arg) ==
  IF w.ctx[kind] # 0 THEN w.ctx[kind]
  ELSE IF arg = NULL THEN 0 ELSE ByName(w.m[kind], arg)

Keep(old, new, clear) == IF new # NULL THEN new ELSE IF clear THEN NULL ELSE old

-----------------------------------------------------------------------------
(***************************************************************************)
(* The commands that define objects.                                       *)
(***************************************************************************)

\* settings_direct ... settings_geneve_e2e and settings_common.  The object
\* stays when its name is refused.  type = BAD is an unknown type or an
\* address that does not parse.
Tcl_settings(w, type, name) ==
  IF ~Check_scope(w, {"S_ROOT"}) \/ type = BAD THEN Fail(w)
  ELSE LET s    == NextId(w.m.settings)
           nm   == IF name = NULL THEN "default" ELSE name
           tab  == [w.m.settings EXCEPT ![s] =
                      [NoSettings EXCEPT !.state = "NEW", !.type = type,
                                         !.name = Generated(s)]]
           done == [w EXCEPT !.m.settings = Name_set(tab, s, nm)]
       IN IF Names_search(tab, nm) # {} THEN Fail(done) ELSE done

\* net name ?-vid? ?-settings? ?-phys? ?-remove? ?{block}?
Tcl_net(w, name, vid, sname, pname, remove, block) ==
  LET n == ByName(w.m.net, name)
      s == ByName(w.m.settings, IF sname = NULL THEN "default" ELSE sname)
      p == Resolved(w, "phys", pname)
      id == IF n # 0 THEN n ELSE NextId(w.m.net)
      new == [NoNet EXCEPT !.state = "NEW", !.settings = s,
                           !.vid = IF vid = NULL THEN VidOf[name] ELSE vid]
      m1 == IF n # 0 THEN w.m ELSE [w.m EXCEPT !.net[id] = new]
      m2 == IF p = 0 THEN m1 ELSE PhysAttach(m1, p, id)
      w1 == [w EXCEPT !.m = [m2 EXCEPT !.net = Name_set(@, id, name)]]
  IN
  IF ~Check_scope(w, {"S_PHYS", "S_ROOT"}) THEN Fail(w)
  ELSE IF remove THEN IF n = 0 THEN Fail(w) ELSE [w EXCEPT !.m = NetsFree(@, {n})]
  ELSE IF ResolveFails(w, "phys", pname, FALSE) THEN Fail(w)
  ELSE IF n = 0 /\ s = 0 THEN Fail(w)
  ELSE IF n # 0 /\ sname # NULL THEN Fail(w)
  ELSE IF block THEN Begin_block(w1, "net", id) ELSE w1

\* phys with more than a block: the scope was entered already.
PhysWrongArgs(w, p) == Fail([Push_scope(w, "S_PHYS") EXCEPT !.ctx.phys = p])

\* phys ?-name? ?-if? ?-ip? ?-net? ?-remove? ?-ifClear? ?-ipClear? ?{block}?
\* Even without a block the command enters and leaves the scope.
Tcl_phys(w, name, iface, ip, nname, remove, clear, args) ==
  LET q == ByName(w.m.phys, name)
      n == Resolved(w, "net", nname)
      p == IF q # 0 THEN q ELSE NextId(w.m.phys)
      m1 == IF q # 0 THEN w.m ELSE Phys_new(w.m, p)
      named == IF name = NULL THEN m1 ELSE [m1 EXCEPT !.phys = Name_set(@, p, name)]
      m2 == [named EXCEPT !.phys[p].iface = Keep(@, iface, "iface" \in clear),
                          !.phys[p].ip = Keep(@, ip, "ip" \in clear)]
      w1 == [w EXCEPT !.m = IF n = 0 THEN m2 ELSE PhysAttach(m2, p, n)]
      w2 == Begin_block(w1, "phys", p)
  IN
  IF ~Check_scope(w, {"S_NET", "S_ROOT"}) THEN Fail(w)
  ELSE IF (iface # NULL /\ "iface" \in clear) \/ (ip # NULL /\ "ip" \in clear) THEN Fail(w)
  ELSE IF remove THEN IF q = 0 THEN Fail(w) ELSE [w EXCEPT !.m = PhysesFree(@, {q})]
  ELSE IF ResolveFails(w, "net", nname, FALSE) THEN Fail(w)
  ELSE IF ip = BAD THEN Fail([w EXCEPT !.m = m1])
  ELSE CASE args = "block" -> w2
         [] args = "none"  -> End_block(w2)
         [] args = "wrong" -> PhysWrongArgs(w1, p)

\* virt ?-net? ?-name? ?-mac? ?-phys? ?-if? ?-remove? ?-macClear? ?{block}?
Tcl_virt(w, nname, name, mac, pname, iface, remove, clear, block) ==
  LET n == Resolved(w, "net", nname)
      u == ByName(VirtNames(w.m, n), name)
      p == Resolved(w, "phys", pname)
      v == IF u # 0 THEN u ELSE NextId(w.m.virt)
      m1 == IF u # 0 THEN w.m
            ELSE [w.m EXCEPT !.virt[v] = [NoVirt EXCEPT !.state = "NEW", !.net = n]]
      dup == name = NULL \/ Names_search(VirtNames(m1, n), name) # {}
      m2 == [m1 EXCEPT !.virt[v].name = IF dup THEN @ ELSE name,
                       !.virt[v].mac = Keep(@, mac, clear)]
      w1 == [w EXCEPT !.m = IF p = 0 THEN m2 ELSE VirtConnect(m2, v, p, iface)]
  IN
  IF ~Check_scope(w, {"S_PHYS", "S_NET", "S_ROOT"}) THEN Fail(w)
  ELSE IF ResolveFails(w, "net", nname, TRUE) THEN Fail(w)
  ELSE IF w.m.net[n].state = "none" THEN [w EXCEPT !.m = Bug(@, TRUE, "freed")]
  ELSE IF mac # NULL /\ clear THEN Fail(w)
  ELSE IF remove THEN IF u = 0 THEN Fail(w) ELSE [w EXCEPT !.m = VirtsFree(@, {u})]
  ELSE IF ResolveFails(w, "phys", pname, FALSE) THEN Fail(w)
  ELSE IF mac = BAD THEN Fail([w EXCEPT !.m = m1])
  ELSE IF block THEN Begin_block(w1, "virt", v) ELSE w1

-----------------------------------------------------------------------------
(***************************************************************************)
(* The settings of a virt.                                                 *)
(***************************************************************************)

\* A match is a target, a value and a mask.
Match(target, arg) == [target |-> target, value |-> arg.value, mask |-> arg.mask]

\* parse_mac_match: the mask is read from the part that holds the value.
Parse_mac_match(arg) ==
  [value |-> arg.value, mask |-> IF arg.mask = NULL THEN MacMask ELSE arg.value]

Mac_match_fails(arg) == arg.value = BAD

\* parse_ip_match: value, value/prefix and value/mask; no mask is the mask of
\* a single address.
SingleMask(ip) == IF Version[ip] = 4 THEN "ipv4" ELSE "ipv6"

Parse_ip_match(arg) ==
  [value |-> arg.value, mask |-> IF arg.mask = NULL THEN SingleMask(arg.value) ELSE arg.mask]

Ip_match_fails(arg) ==
  \/ arg.value = BAD
  \/ arg.mask = BAD
  \/ arg.mask \in Masks /\ Version[arg.value] # Version[arg.mask]

NoArg == [value |-> NULL, mask |-> NULL]

LSDN_MAX_MATCHES == 2

\* The table of directions has no end: the search for a word that is not in it
\* reads on behind it.
BadDirection(w) == [w EXCEPT !.m = Bug(@, TRUE, "direction")]

\* The matches of a rule.  The match of the destination MAC is made from the
\* variables of the source MAC, which are junk when no -srcMac was given.
RuleMatches(args, junk) ==
  LET given == {t \in DOMAIN args : args[t] # NoArg}
      src   == IF "srcMac" \in given THEN Parse_mac_match(args["srcMac"]) ELSE junk
  IN {CASE t \in {"srcMac", "dstMac"} -> Match(t, src)
        [] OTHER -> Match(t, Parse_ip_match(args[t])) : t \in given}

\* rule direction prio action ?-srcMac? ?-dstMac? ?-srcIp? ?-dstIp?
\* BAD as prio or action stands for everything refused.
Tcl_rule(w, dir, prio, action, args, junk) ==
  LET given == {t \in DOMAIN args : args[t] # NoArg}
      bad == \/ \E t \in given \cap {"srcMac", "dstMac"} : Mac_match_fails(args[t])
             \/ \E t \in given \cap {"srcIp", "dstIp"} : Ip_match_fails(args[t])
      r == [dir |-> dir, prio |-> prio, matches |-> RuleMatches(args, junk),
            state |-> "NEW"]
  IN
  IF ~Check_scope(w, {"S_VIRT"}) THEN Fail(w)
  ELSE IF dir = BAD THEN BadDirection(w)
  ELSE IF BAD \in {prio, action} THEN Fail(w)
  ELSE IF Cardinality(given) > LSDN_MAX_MATCHES \/ bad THEN Fail(w)
  ELSE [w EXCEPT !.m.virt[w.ctx.virt].rules = @ \cup {r}]

\* flushVr
Tcl_flushVr(w) ==
  IF ~Check_scope(w, {"S_VIRT"}) THEN Fail(w)
  ELSE [w EXCEPT !.m.virt[w.ctx.virt].rules = Vrs_free_all(@)]

\* rate direction ?-avg? ?-burst? ?-burstRate?.  Both -avg and -burst have to
\* be given, so the calls that clear a limit are never reached.
Tcl_rate(w, dir, avg, burst, burst_rate) ==
  IF ~Check_scope(w, {"S_VIRT"}) THEN Fail(w)
  ELSE IF dir = BAD THEN BadDirection(w)
  ELSE IF avg \in {NULL, BAD} \/ burst \in {NULL, BAD} \/ burst_rate = BAD THEN Fail(w)
  ELSE [w EXCEPT !.m.virt[w.ctx.virt].rate[dir] =
          IF {avg, burst, burst_rate} = {NULL} THEN NULL
          ELSE <<avg, burst, IF burst_rate = NULL THEN "0" ELSE burst_rate>>]

-----------------------------------------------------------------------------
(***************************************************************************)
(* The other commands.                                                     *)
(***************************************************************************)

ClaimLocal(model, p) ==
  Bug([model EXCEPT !.phys[p].local = TRUE], ~Live(model.phys[p].state), "renew")

\* The prefix of list that names existing objects of tab.
Found(tab, list) ==
  CHOOSE k \in 0..Len(list) :
    /\ \A i \in 1..k : ByName(tab, list[i]) # 0
    /\ k < Len(list) => ByName(tab, list[k + 1]) = 0

\* A call for each of the objects named in a list of at most two, until one
\* is not found.
ForList(w, tab, list, Call(_, _)) ==
  LET k  == Found(tab, list)
      m1 == IF k < 1 THEN w.m ELSE Call(w.m, ByName(tab, list[1]))
      m2 == IF k < 2 THEN m1 ELSE Call(m1, ByName(tab, list[2]))
      v  == [w EXCEPT !.m = m2]
  IN IF k < Len(list) THEN Fail(v) ELSE v

\* claimLocal ?-phys? ?phys ...?
Tcl_claimLocal(w, pname, list) ==
  LET p == Resolved(w, "phys", pname) IN
  IF ~Check_scope(w, {"S_ROOT", "S_PHYS"}) THEN Fail(w)
  ELSE IF ResolveFails(w, "phys", pname, FALSE) THEN Fail(w)
  ELSE IF (p # 0) = (list # <<>>) THEN Fail(w)
  ELSE IF p # 0 THEN [w EXCEPT !.m = ClaimLocal(@, p)]
  ELSE ForList(w, w.m.phys, list, ClaimLocal)

\* attach and detach (attach_or_detach): one phys and one net, or one of
\* them and a list of the other.
Attach_or_detach(w, pname, nname, list, Call(_, _, _)) ==
  LET p == Resolved(w, "phys", pname)
      n == Resolved(w, "net", nname)
      ToNet(model, x)  == Call(model, x, n)
      ToPhys(model, x) == Call(model, p, x)
  IN
  IF ~Check_scope(w, {"S_ROOT", "S_PHYS", "S_NET"}) THEN Fail(w)
  ELSE IF ResolveFails(w, "net", nname, FALSE) \/ ResolveFails(w, "phys", pname, FALSE)
  THEN Fail(w)
  ELSE IF p # 0 /\ n # 0
  THEN IF list = <<>> THEN [w EXCEPT !.m = Call(@, p, n)] ELSE Fail(w)
  ELSE IF list = <<>> \/ (p = 0 /\ n = 0) THEN Fail(w)
  ELSE IF n # 0 THEN ForList(w, w.m.phys, list, ToNet)
  ELSE ForList(w, w.m.net, list, ToPhys)

Tcl_attach(w, pname, nname, list) == Attach_or_detach(w, pname, nname, list, PhysAttach)
Tcl_detach(w, pname, nname, list) == Attach_or_detach(w, pname, nname, list, PhysDetach)

\* commit: the validation may refuse the model, and the commit may fail for
\* some objects.
Tcl_commit(w, outcome, Sweep) ==
  IF ~Check_scope(w, {"S_ROOT"}) \/ outcome = "refused" THEN Fail(w)
  ELSE LET v == [w EXCEPT !.m = Commit(@, Sweep)]
       IN IF outcome = "failed" THEN Fail(v) ELSE v

\* validate changes nothing.
Tcl_validate(w, outcome) ==
  IF ~Check_scope(w, {"S_ROOT"}) \/ outcome = "refused" THEN Fail(w) ELSE w

\* cleanup and free: a new context takes the place of the old one.
Tcl_cleanup(w, wrong) ==
  IF ~Check_scope(w, {"S_ROOT"}) \/ wrong THEN Fail(w) ELSE [w EXCEPT !.m = Context_cleanup(@)]
=============================================================================
