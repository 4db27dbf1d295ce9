-------------------------------- MODULE Dump --------------------------------
(***************************************************************************)
(* lsctl's command show: netmodel/dump.c describes the model in JSON and   *)
(* turns the JSON into a script.  Replay is what a new interpreter makes   *)
(* of that script.                                                         *)
(*                                                                         *)
(* Abstractions.  A JSON object is a record with NULL for a missing        *)
(* member, a JSON array a sequence, a script a sequence of commands, with  *)
(* [op |-> "}"] at the end of a block.  Text, quoting and indentation are  *)
(* left out, and so is the dump that fails for lack of memory; addresses   *)
(* and rates are read back as they were written, which is true of rates    *)
(* that are printed without an exponent.                                   *)
(***************************************************************************)
EXTENDS Lsext, SequencesExt

\* A JSON array with an element for each of the objects S.
Array(S, F(_)) ==
  LET ids == SetToSortSeq(S, <) IN [i \in DOMAIN ids |-> F(ids[i])]

-----------------------------------------------------------------------------
(***************************************************************************)
(* The model as JSON.  Objects that await their deletion are listed too.   *)
(***************************************************************************)

\* lsdn_net_ops.type: both kinds of Geneve networks have the same.
TypeString(type) == IF type = "geneve/e2e" THEN "geneve" ELSE type

JsonSettings(m, s) ==
  [settingsName |-> m.settings[s].name, settingsType |-> TypeString(m.settings[s].type)]

JsonPhys(m, p) ==
  [physName |-> m.phys[p].name, attrIp |-> m.phys[p].ip, iface |-> m.phys[p].iface,
   isLocal |-> m.phys[p].local]

JsonRule(r) == [dir |-> r.dir, prio |-> r.prio, action |-> "drop", targets |-> r.matches]

\* Mutant: the MAC of a virt is not dumped.
JsonVirtNoMac(m, v) ==
  LET o == m.virt[v] IN
  [virtName |-> o.name, attrMac |-> NULL, iface |-> o.iface,
   phys |-> IF o.phys = 0 THEN NULL ELSE m.phys[o.phys].name,
   rules |-> {JsonRule(r) : r \in o.rules},
   qosIn |-> o.rate["in"], qosOut |-> o.rate["out"]]

JsonVirt(m, v) ==
  LET o == m.virt[v] IN
  [virtName |-> o.name, attrMac |-> o.mac, iface |-> o.iface,
   phys |-> IF o.phys = 0 THEN NULL ELSE m.phys[o.phys].name,
   rules |-> {JsonRule(r) : r \in o.rules},
   qosIn |-> o.rate["in"], qosOut |-> o.rate["out"]]

JsonNet(m, n) ==
  LET Phys(p) == m.phys[p].name
      Virt(v) == JsonVirt(m, v)
  IN [netName |-> m.net[n].name, settings |-> m.settings[m.net[n].settings].name,
      vnetId |-> m.net[n].vid,
      physList |-> Array({p \in PhysIds : m.pa[<<p, n>>].state # "none"}, Phys),
      virts |-> Array({v \in VirtIds : m.virt[v].net = n}, Virt)]

\* lsdn_dump_context_json
Dump_context_json(m) ==
  LET Settings(s) == JsonSettings(m, s)
      Phys(p)     == JsonPhys(m, p)
      Net(n)      == JsonNet(m, n)
  IN [lsdnSettings |-> Array(Allocated(m.settings), Settings),
      lsdnPhyses   |-> Array(Allocated(m.phys), Phys),
      lsdnNets     |-> Array(Allocated(m.net), Net)]

-----------------------------------------------------------------------------
(***************************************************************************)
(* The script made from the JSON.                                          *)
(***************************************************************************)

\* parse_json_lsdn_settings
SettingsScript(j) == <<[op |-> "settings", type |-> j.settingsType, name |-> j.settingsName]>>

\* parse_json_lsdn_physes
PhysScript(j) ==
  <<[op |-> "phys", name |-> j.physName, ip |-> j.attrIp, iface |-> j.iface]>>
  \o (IF j.isLocal
      THEN <<[op |-> "claimLocal", name |-> j.physName]>> ELSE <<>>)

\* target_match_conversion and target_has_mask: only IP matches keep a mask.
RuleArg(targets, t) ==
  LET S == {x \in targets : x.target = t} IN
  IF S = {} THEN NoArg
  ELSE LET x == CHOOSE y \in S : TRUE IN
       [value |-> x.value, mask |-> IF t \in {"srcIp", "dstIp"} THEN x.mask ELSE NULL]

\* convert_rules
RuleScript(j) ==
  [op |-> "rule", dir |-> j.dir, prio |-> j.prio, action |-> j.action,
   args |-> [t \in {"srcMac", "dstMac", "srcIp", "dstIp"} |-> RuleArg(j.targets, t)]]

\* convert_qos
RateScript(dir, qos) ==
  IF qos = NULL THEN <<>>
  ELSE <<[op |-> "rate", dir |-> dir, avg |-> qos[1], burst |-> qos[2],
          burst_rate |-> qos[3]]>>

EndOfBlock == <<[op |-> "}"]>>

VirtScript(j) ==
  <<[op |-> "virt", name |-> j.virtName, phys |-> j.phys, iface |-> j.iface,
     mac |-> j.attrMac]>>
  \o SetToSeq({RuleScript(r) : r \in j.rules})
  \o RateScript("in", j.qosIn) \o RateScript("out", j.qosOut) \o EndOfBlock

\* parse_json_lsdn_nets; a net without a name is called by its id.
NetScript(j) ==
  LET Attach(p) == <<[op |-> "attach", name |-> p]>>
      name == IF j.netName # NULL THEN j.netName
              ELSE CHOOSE x \in NetNames : VidOf[x] = j.vnetId
  IN <<[op |-> "net", vid |-> j.vnetId, settings |-> j.settings, name |-> name]>>
     \o FlattenSeq([i \in 1..Len(j.physList) |-> Attach(j.physList[i])])
     \o FlattenSeq([i \in 1..Len(j.virts) |-> VirtScript(j.virts[i])])
     \o EndOfBlock

\* lsdn_dump_context_tcl
Dump_context_tcl(m) ==
  LET j == Dump_context_json(m) IN
  FlattenSeq([i \in 1..Len(j.lsdnSettings) |-> SettingsScript(j.lsdnSettings[i])])
  \o FlattenSeq([i \in 1..Len(j.lsdnPhyses) |-> PhysScript(j.lsdnPhyses[i])])
  \o FlattenSeq([i \in 1..Len(j.lsdnNets) |-> NetScript(j.lsdnNets[i])])

\* show prints the script and changes nothing.
Tcl_show(w) == IF ~Check_scope(w, {"S_ROOT"}) THEN Fail(w) ELSE w

-----------------------------------------------------------------------------
(***************************************************************************)
(* The script evaluated in a new interpreter, until a command fails.       *)
(***************************************************************************)
Junk == [value |-> NULL, mask |-> NULL]

Exec(w, c) ==
  CASE w.res = "TCL_ERROR" -> w
    [] c.op = "settings"   -> Tcl_settings(w, c.type, c.name)
    [] c.op = "phys"       -> Tcl_phys(w, c.name, c.iface, c.ip, NULL, FALSE, {}, "none")
    [] c.op = "claimLocal" -> Tcl_claimLocal(w, NULL, <<c.name>>)
    [] c.op = "net"        -> Tcl_net(w, c.name, c.vid, c.settings, NULL, FALSE, TRUE)
    [] c.op = "attach"     -> Tcl_attach(w, NULL, NULL, <<c.name>>)
    [] c.op = "virt"       -> Tcl_virt(w, NULL, c.name, c.mac, c.phys, c.iface,
                                       FALSE, FALSE, TRUE)
    [] c.op = "rule"       -> Tcl_rule(w, c.dir, c.prio, c.action, c.args, Junk)
    [] c.op = "rate"       -> Tcl_rate(w, c.dir, c.avg, c.burst, c.burst_rate)
    [] c.op = "}"          -> End_block(w)

Replay(script) == FoldLeft(Exec, NewWorld(EmptyModel), script)

\* What a model says, told without numbers and commit states.  The interface
\* of a virt counts only while the virt is connected.
Meaning(m) ==
  LET Settings(s) == m.settings[s].name
      Net(n)  == m.net[n].name
      Phys(p) == m.phys[p].name
      On(v)   == m.virt[v].phys
  IN [settings |-> {<<Settings(s), m.settings[s].type>> : s \in Allocated(m.settings)},
      nets |-> {<<Net(n), m.net[n].vid, Settings(m.net[n].settings)>> :
                  n \in Allocated(m.net)},
      physes |-> {<<Phys(p), m.phys[p].ip, m.phys[p].iface, m.phys[p].local>> :
                    p \in Allocated(m.phys)},
      attached |-> {<<Phys(a[1]), Net(a[2])>> : a \in Allocated(m.pa)},
      virts |-> {[net |-> Net(m.virt[v].net), name |-> m.virt[v].name,
                  mac |-> m.virt[v].mac, rate |-> m.virt[v].rate,
                  rules |-> {<<r.dir, r.prio, r.matches>> : r \in m.virt[v].rules},
                  at |-> IF On(v) = 0 THEN <<>> ELSE <<Phys(On(v)), m.virt[v].iface>>] :
                   v \in Allocated(m.virt)},
      number |-> Cardinality(Allocated(m.virt))]

\* Nothing awaits its deletion.
Settled(m) ==
  /\ \A i \in NetIds : m.net[i].state # "DELETE"
  /\ \A i \in PhysIds : m.phys[i].state # "DELETE"
  /\ \A a \in PhysIds \X NetIds : m.pa[a].state # "DELETE"
  /\ \A v \in VirtIds : m.virt[v].state # "DELETE"
  /\ \A v \in VirtIds : \A r \in m.virt[v].rules : r.state # "DELETE"
=============================================================================
