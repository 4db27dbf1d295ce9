------------------------------ MODULE Netmodel ------------------------------
(***************************************************************************)
(* The LSDN network model: a client that edits it (NetApi), and lsdn_commit*)
(* that brings the kernel in line with it (NetCommit).  The library has no *)
(* threads of its own and a commit runs to its end before the client goes  *)
(* on.                                                                     *)
(***************************************************************************)
EXTENDS NetCommit

vars == <<apiVars, commitVars>>

Init == ApiInit /\ CommitInit

\* The client's calls.
Client == pc = "idle" /\ Edit /\ UNCHANGED commitVars

Call == ValidateFails \/ ValidatePasses \/ CommitNoSocket \/ CommitBegin

\* The context is gone, or the process was stopped by an assert.
Stopped == (life = "closed" \/ aborted # "no") /\ UNCHANGED vars

Next == Client \/ Call \/ CommitStep \/ Stopped

Spec == Init /\ [][Next]_vars

-----------------------------------------------------------------------------
(***************************************************************************)
(* What the kernel should hold for the model in memory: the PAs of the     *)
(* local physes with their virts, and for each of them the other PAs of    *)
(* the net and the virts on those.                                         *)
(***************************************************************************)
Attached == {a \in explicitly_attached : Live(pa[a]) /\ Live(phys[a[1]])}

LocalPas == {a \in Attached : is_local[a[1]]}

OnPa(v, a) == Live(virt[v]) /\ connected_through[v] # NULL /\ PaOf(v) = a

WantedRpas == {r \in Physes \X Physes \X Nets :
                 r[1] # r[2] /\ <<r[1], r[3]>> \in LocalPas /\ <<r[2], r[3]>> \in Attached}

WantedRvirts == {rv \in Physes \X Physes \X Virts :
                   /\ <<rv[1], rv[2], VirtNet[rv[3]]>> \in WantedRpas
                   /\ OnPa(rv[3], <<rv[2], VirtNet[rv[3]]>>)}

WantedVirts == {v \in Virts : \E a \in LocalPas : OnPa(v, a)}

WantedRates == {x \in WantedVirts \X Dirs : attr_rate[x[1]][x[2]] # NULL}

Desired ==
  {PaFact(a) : a \in LocalPas} \cup {VirtFact(v) : v \in WantedVirts}
  \cup {RateFact(x[1], x[2]) : x \in WantedRates}
  \cup {RpaFact(r) : r \in WantedRpas} \cup {RvirtFact(rv) : rv \in WantedRvirts}

-----------------------------------------------------------------------------
OrNull(S) == S \cup {NULL}

AllFacts ==
  ({"pa"} \X PAs \X (OrNull(Ifaces) \X OrNull(Ips)))
  \cup ({"virt"} \X Virts \X (OrNull(Physes) \X OrNull(Macs)))
  \cup ({"rate"} \X (Virts \X Dirs) \X OrNull(Rates))
  \cup ({"rpa"} \X (Physes \X Physes \X Nets) \X OrNull(Ips))
  \cup ({"rvirt"} \X (Physes \X Physes \X Virts) \X OrNull(Macs))

Phases == {"idle", "decommit", "commit", "virts", "remotes", "rvirts"}

ObjTypes ==
  /\ settings \in [Settings -> ObjStates] /\ net \in [Nets -> ObjStates]
  /\ phys \in [Physes -> ObjStates] /\ pa \in [PAs -> ObjStates]
  /\ virt \in [Virts -> ObjStates]

UserTypes ==
  /\ is_local \in [Physes -> BOOLEAN]
  /\ attr_iface \in [Physes -> OrNull(Ifaces)] /\ attr_ip \in [Physes -> OrNull(Ips)]
  /\ attr_mac \in [Virts -> OrNull(Macs)]
  /\ attr_rate \in [Virts -> [Dirs -> OrNull(Rates)]]
  /\ explicitly_attached \subseteq PAs
  /\ connected_through \in [Virts -> OrNull(Physes)]

BookTypes ==
  /\ committed_as_local \in [Physes -> BOOLEAN]
  /\ committed_to \in [Virts -> OrNull(Physes)]
  /\ rpas \subseteq Physes \X Physes \X Nets
  /\ rvirts \subseteq Physes \X Physes \X Virts
  /\ policing \subseteq Virts \X Dirs
  /\ pending_free \subseteq Virts \cup PAs
  /\ kernel \subseteq AllFacts

LoopTypes ==
  /\ pc \in Phases
  /\ pc \in {"idle", "commit"} => cur = NULL
  /\ pc = "decommit" => cur \in OrNull(Nets) /\ left \subseteq Nets
  /\ pc # "decommit" => left \subseteq Physes
  /\ pc \in {"virts", "remotes", "rvirts"} => cur \in PAs
  /\ pas \subseteq PAs
  /\ todo \subseteq IF pc = "remotes" THEN Physes ELSE Virts
  /\ pc = "rvirts" => \A v \in todo : connected_through[v] # NULL
  /\ dv \in OrNull(Virts) /\ dp \in OrNull(PAs) /\ cv \in OrNull(Virts)

ErrTypes ==
  /\ life \in {"open", "closing", "closed"}
  /\ problems \in BOOLEAN /\ inconsistent \in BOOLEAN /\ faults \in Nat

\* The types of the variables.  What the loop variables range over depends on
\* the phase of lsdn_commit: the nets in the decommit phase, then the physes
\* and PAs, and for the remote virts only virts that are connected.
TypeOK == ObjTypes /\ UserTypes /\ BookTypes /\ LoopTypes /\ ErrTypes

\* No assert of lsdn.c fails: renew() never meets an object that is being
\* deleted, pa_do_free, net_do_free and settings_do_free never free an object
\* that is in use (lsdn.c:22, 253, 300, 301, 490, 491).
NoAssertFails == aborted = "no"

Alloc(s) == s # "none"

\* Nothing in memory points at an object that was freed: PAs at their phys and
\* net, virts at the PA they are connected through and at the PA they are
\* committed to, the views at their PAs and virts.
NoDanglingPointers ==
  /\ \A a \in PAs : Alloc(pa[a]) => Alloc(phys[a[1]]) /\ Alloc(net[a[2]])
  /\ \A n \in Nets : Alloc(net[n]) => Alloc(settings[NetSettings[n]])
  /\ \A v \in Virts : Alloc(virt[v]) =>
       /\ Alloc(net[VirtNet[v]])
       /\ connected_through[v] # NULL => Alloc(pa[PaOf(v)])
       /\ committed_to[v] # NULL => Alloc(pa[<<committed_to[v], VirtNet[v]>>])
  /\ \A r \in rpas : Alloc(pa[<<r[1], r[3]>>]) /\ Alloc(pa[<<r[2], r[3]>>])
  /\ \A rv \in rvirts : Alloc(virt[rv[3]]) /\ <<rv[1], rv[2], VirtNet[rv[3]]>> \in rpas

Keys(kind) == {f[2] : f \in {g \in kernel : g[1] = kind}}

\* The lists that later commits rely on name exactly what the network
\* operations have installed, at every step of a commit.  The exception is a
\* remote virt that could not be added: it stays on its lists until the
\* decommit_virt that rolls back.
BooksMatchKernel ==
  /\ Keys("rpa") = rpas
  /\ Keys("rvirt") \subseteq rvirts
  /\ \A rv \in rvirts \ Keys("rvirt") : rv[3] = dv
  /\ Keys("rate") = policing
  /\ Keys("virt") = {v \in Virts : committed_to[v] # NULL}

\* Installed things are added once, and after what they hang on: create_pa
\* for a PA that is not there, the others for a PA that is, add_remote_virt
\* after add_remote_pa (net.h:85-89).
AddsInOrder ==
  /\ Running("commit") => \A a \in pas : IsNew(a) => ~Has("pa", a)
  /\ Running("virts") /\ cv = NULL => \A v \in todo : ~Has("virt", v) /\ Has("pa", cur)
  /\ Running("remotes") => \A q \in todo :
       IsNew(cur) \/ IsNew(<<q, cur[2]>>) => ~Has("rpa", <<cur[1], q, cur[2]>>) /\ Has("pa", cur)
  /\ Running("rvirts") => \A v \in todo : IsNew(cur) \/ virt[v] = "NEW" =>
       /\ ~Has("rvirt", <<cur[1], connected_through[v], v>>)
       /\ Has("rpa", <<cur[1], connected_through[v], cur[2]>>)

\* destroy_pa is called for a PA that was created and that is empty: "All
\* virts, remote virts and remote PAs were already removed" (net.h:95-98).
DestroysEmptyPa ==
  dp # NULL /\ dv = NULL /\ RpasOf(dp) = {} /\ committed_as_local[dp[1]] =>
    /\ Has("pa", dp)
    /\ \A f \in kernel : f[1] = "virt" => ~(VirtNet[f[2]] = dp[2] /\ f[3][1] = dp[1])
    /\ \A r \in Keys("rpa") : <<r[1], r[3]>> # dp
    /\ \A rv \in Keys("rvirt") : <<rv[1], VirtNet[rv[3]]>> # dp

\* "After returning successfully, the current network model is in effect"
\* (lsdn.c:1553): nothing is missing, nothing is left over, and everything
\* has the attributes the model has.
OkMeansInstalled == ret = "OK" => kernel = Desired

\* "Kernel is in mixed state" after a failure (lsdn.c:1580), but never in a
\* stale one: a commit that returns leaves nothing in the kernel that the
\* model in memory does not ask for, with the attributes it has there.
NothingStale == ret \in {"OK", "COMMIT"} => kernel \subseteq Desired

\* The objects a fact is installed for are all committed and unchanged.
UpToDate(f) ==
  CASE f[1] = "pa"    -> pa[f[2]] = "OK"
    [] f[1] = "virt"  -> virt[f[2]] = "OK"
    [] f[1] = "rate"  -> virt[f[2][1]] = "OK"
    [] f[1] = "rpa"   -> pa[<<f[2][1], f[2][3]>>] = "OK" /\ pa[<<f[2][2], f[2][3]>>] = "OK"
    [] f[1] = "rvirt" -> virt[f[2][3]] = "OK" /\ pa[<<f[2][1], VirtNet[f[2][3]]>>] = "OK"

\* "A commit has no effect on an OK object, since it is up-to-date"
\* (docs/internals.rst): no commit interrupts what did not change.
UntouchedStays == [][\A f \in kernel \ kernel' : ~UpToDate(f)]_vars

\* lsdn_context_cleanup frees everything and leaves nothing in the kernel
\* ("Deletes the context and all its child objects from memory. Also deletes
\* configured TC rules from kernel tables", lsdn.c:143-145), unless the
\* netlink socket cannot be opened.
CleanupLeavesNothing ==
  life = "closed" /\ ret # "NETLINK" =>
    /\ kernel = {} /\ rpas = {} /\ rvirts = {} /\ pending_free = {}
    /\ \A v \in Virts : virt[v] = "none"
    /\ \A a \in PAs : pa[a] = "none"
    /\ \A n \in Nets : net[n] = "none"

AllStates == [o \in {"settings", "net", "phys", "pa", "virt"} |->
  CASE o = "settings" -> {settings[x] : x \in Settings}
    [] o = "net"      -> {net[x] : x \in Nets}
    [] o = "phys"     -> {phys[x] : x \in Physes}
    [] o = "pa"       -> {pa[x] : x \in PAs}
    [] o = "virt"     -> {virt[x] : x \in Virts}]

SomeObject(s) == \E o \in DOMAIN AllStates : s \in AllStates[o]

\* ERR is "a temporary state during commit for objects where creation has
\* failed" (state.h:18), and the caller of lsdn_commit hears of it: whatever
\* fails, an object is in that state only while a problem is on record.
FailuresReported == SomeObject("ERR") => pc # "idle" /\ problems

-----------------------------------------------------------------------------
(***************************************************************************)
(* Without failures the commit implements the abstract one.                *)
(***************************************************************************)
Abs == INSTANCE NetmodelAbs WITH
  Facts  <- AllFacts,
  want   <- Desired,
  phase  <- IF pc \in {"idle", "decommit"} THEN pc ELSE "recommit",
  result <- ret

\* Without failures lsdn_commit implements the commit of NetmodelAbs.
ImplementsAbs == Abs!Spec
=============================================================================
