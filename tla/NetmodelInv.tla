---------------------------- MODULE NetmodelInv -----------------------------
(***************************************************************************)
(* The inductive invariant of Netmodel for a client that keeps the rules   *)
(* and operations that clean up when they fail: what holds between edits   *)
(* and at every step of lsdn_commit, in terms of the states of the objects *)
(* and of how far the loops of the commit have come.                       *)
(***************************************************************************)
EXTENDS Netmodel

\* The client keeps every rule of NetApi.
Careful == RuleNames \subseteq Rules

\* A failed operation has cleaned up after itself, a removal does not fail,
\* commit_pa itself has memory, and remove_remote_pa finds what it removes.
Clean == FaultKinds \cap {"BROKEN", "CLEANUP", "MALLOC"} = {} /\ ~RemoteByIp

Recommit == pc \in {"commit", "virts", "remotes", "rvirts"}

-----------------------------------------------------------------------------
(***************************************************************************)
(* The objects.                                                            *)
(***************************************************************************)

\* The states an object can be in; ERR is one of PAs and virts in a recommit.
Settled == IF Recommit THEN {"none", "NEW", "OK"} ELSE {"none", "NEW", "RENEW", "OK", "DELETE"}

Tried == IF Recommit THEN {"none", "NEW", "OK", "ERR"} ELSE {"none", "NEW", "RENEW", "OK", "DELETE"}

States ==
  /\ \A s \in Settings : settings[s] \in Settled \ {"RENEW"}
  /\ \A n \in Nets : net[n] \in Settled \ {"RENEW"}
  /\ \A p \in Physes : phys[p] \in Settled
  /\ \A a \in PAs : pa[a] \in Tried
  /\ \A v \in Virts : virt[v] \in Tried

\* An object goes after those it owns.
Owned ==
  /\ \A n \in Nets : Alloc(net[n]) => Alloc(settings[NetSettings[n]])
  /\ \A a \in PAs : Alloc(pa[a]) => Alloc(phys[a[1]]) /\ Alloc(net[a[2]])
  /\ \A v \in Virts : Alloc(virt[v]) => Alloc(net[VirtNet[v]])

\* It is freed together with them, except that a PA of a deleted net waits
\* for its virts.
Dying ==
  /\ \A n \in Nets : settings[NetSettings[n]] = "DELETE" => ~Live(net[n])
  /\ \A a \in PAs : phys[a[1]] = "DELETE" => ~Live(pa[a])
  /\ \A a \in PAs : net[a[2]] = "DELETE" => a \notin explicitly_attached
  /\ \A v \in Virts : net[VirtNet[v]] = "DELETE" => ~Live(virt[v])

\* What belongs to an object that was never committed was not either.
Fresh ==
  ~Recommit =>
    /\ \A n \in Nets : settings[NetSettings[n]] = "NEW" => net[n] \in {"none", "NEW"}
    /\ \A a \in PAs : net[a[2]] = "NEW" \/ phys[a[1]] = "NEW" => pa[a] \in {"none", "NEW"}
    /\ \A v \in Virts : net[VirtNet[v]] = "NEW" => virt[v] \in {"none", "NEW"}

\* A virt is connected through a PA that stays; a PA that is not attached has
\* virts connected, which are all being deleted.
Linked ==
  /\ \A v \in Virts : virt[v] = "none" => connected_through[v] = NULL
  /\ \A v \in Virts : connected_through[v] # NULL => Live(pa[PaOf(v)])
  /\ \A v \in Virts : connected_through[v] # NULL /\ virt[v] # "DELETE"
                        => PaOf(v) \in explicitly_attached
  /\ \A a \in explicitly_attached : Live(pa[a])
  /\ \A a \in PAs : Live(pa[a]) /\ a \notin explicitly_attached =>
       \E v \in Virts : connected_through[v] # NULL /\ PaOf(v) = a

\* What is being deleted is on its way to ack_delete.
Pending ==
  /\ \A v \in Virts : v \in pending_free <=> virt[v] = "DELETE"
  /\ \A a \in PAs : a \in pending_free <=> pa[a] = "DELETE"

\* A net has one local phys.  It is committed as local, or it is new as such.
Locals ==
  /\ \A p \in Physes : committed_as_local[p] => is_local[p]
  /\ \A p \in Physes : is_local[p] => Alloc(phys[p])
  /\ \A a, b \in PAs : a[2] = b[2] /\ Live(pa[a]) /\ Live(pa[b])
                       /\ is_local[a[1]] /\ is_local[b[1]] => a = b
  /\ \A p \in Physes : is_local[p] /\ ~committed_as_local[p] =>
       IF Recommit THEN p \in left ELSE phys[p] # "OK"
  /\ Recommit => \A a \in PAs : a[1] \in left /\ ~committed_as_local[a[1]]
                                  => pa[a] \in {"none", "NEW"}

Objects == States /\ Owned /\ Dying /\ Fresh /\ Linked /\ Pending /\ Locals

-----------------------------------------------------------------------------
(***************************************************************************)
(* The loops of lsdn_commit.                                               *)
(***************************************************************************)

Idle ==
  pc = "idle" => left = {} /\ pas = {} /\ todo = {} /\ cv = NULL /\ dv = NULL /\ dp = NULL

\* lsdn_validate has renewed what hangs on something that is renewed.
Propagated ==
  pc = "decommit" =>
    /\ \A a \in PAs : phys[a[1]] = "RENEW" => pa[a] # "OK"
    /\ \A v \in Virts : connected_through[v] # NULL /\ (pa[PaOf(v)] = "RENEW" \/ dp = PaOf(v))
                          => virt[v] # "OK"

\* The nets that were walked have nothing left to decommit.
Decommitting ==
  pc = "decommit" =>
    /\ pas = {} /\ todo = {} /\ cv = NULL
    /\ dv = NULL \/ dp = NULL
    /\ dv # NULL => VirtNet[dv] = cur /\ virt[dv] \in {"NEW", "DELETE"}
    /\ dp # NULL => dp[2] = cur /\ pa[dp] \in {"NEW", "DELETE"} /\ VirtsDone(cur)
    /\ \A n \in Nets : net[n] = "DELETE" => n \in left \cup {cur}
    /\ \A a \in PAs : NeedsDecommit(pa[a]) => a[2] \in left \cup {cur}
    /\ \A v \in Virts : NeedsDecommit(virt[v]) => VirtNet[v] \in left \cup {cur}

\* The physes and PAs that the recommit phase still has to walk are local.
Walking ==
  Recommit =>
    /\ \A p \in left : Alloc(phys[p]) /\ is_local[p]
    /\ \A a \in pas : /\ is_local[a[1]] /\ committed_as_local[a[1]] /\ a[1] \notin left
                      /\ Alloc(pa[a])
    /\ pc # "commit" => /\ cur \notin pas /\ cur[1] \notin left /\ committed_as_local[cur[1]]
                        /\ is_local[cur[1]] /\ pa[cur] \in {"NEW", "OK"}
    /\ pc = "commit" => cv = NULL /\ todo = {} /\ dv = NULL /\ dp = NULL

InVirts ==
  pc = "virts" =>
    /\ dv = NULL /\ dp = NULL /\ cv \in todo \cup {NULL}
    /\ cv # NULL => committed_to[cv] = cur[1] /\ PolicingOf(cv) = {}
    /\ \A v \in todo : virt[v] = "NEW" /\ connected_through[v] # NULL /\ PaOf(v) = cur

\* dp is a remote PA that could not be added.
InRemotes ==
  pc = "remotes" =>
    /\ cv = NULL /\ dv = NULL
    /\ \A q \in todo : q # cur[1] /\ pa[<<q, cur[2]>>] \in {"NEW", "OK"}
    /\ dp # NULL => dp[2] = cur[2] /\ dp[1] # cur[1] /\ dp[1] \notin todo /\ pa[dp] = "ERR"

\* dv is a remote virt that could not be added.
InRvirts ==
  pc = "rvirts" =>
    /\ cv = NULL /\ dp = NULL
    /\ \A v \in todo : /\ VirtNet[v] = cur[2] /\ virt[v] \in {"NEW", "OK"}
                       /\ <<cur[1], connected_through[v], cur[2]>> \in rpas
    /\ dv # NULL => /\ VirtNet[dv] = cur[2] /\ dv \notin todo /\ virt[dv] = "ERR"
                    /\ connected_through[dv] # cur[1]

Loops == Idle /\ Propagated /\ Decommitting /\ Walking /\ InVirts /\ InRemotes /\ InRvirts

-----------------------------------------------------------------------------
(***************************************************************************)
(* What is installed.                                                      *)
(***************************************************************************)

Installed == {"OK", "RENEW", "DELETE"}

\* commit_pa was called for the PA, and has come to the virt v, to the PA on q,
\* to the virt v of a remote PA.
Visited(a) == Recommit /\ a \notin pas /\ a[1] \notin left

PastVirt(a, v) == Visited(a) /\ ~(cur = a /\ pc = "virts" /\ v \in todo /\ v # cv)

PastRemote(a, q) ==
  Visited(a) /\ ~(cur = a /\ (pc = "virts" \/ (pc = "remotes" /\ q \in todo)))

PastRemoteVirt(a, v) ==
  Visited(a) /\ ~(cur = a /\ (pc \in {"virts", "remotes"} \/ (pc = "rvirts" /\ v \in todo)))

\* create_pa was called for the PA, and destroy_pa not yet.
Made(a) ==
  \/ pa[a] \in Installed
  \/ pa[a] = "NEW" /\ (Visited(a) \/ (pc = "decommit" /\ dp = a))

HasPa(a) == committed_as_local[a[1]] /\ Made(a)

PaSet == \A a \in PAs : a \in Keys("pa") <=> HasPa(a)

\* A virt is installed on a PA that is, and that it is connected through
\* unless it waits to be decommitted.
VirtSet ==
  \A v \in Virts : committed_to[v] # NULL =>
    /\ \/ virt[v] \in Installed
       \/ pc = "decommit" /\ dv = v
       \/ virt[v] = "NEW" /\ connected_through[v] # NULL /\ PastVirt(PaOf(v), v)
    /\ virt[v] \in {"NEW", "OK"} /\ dv # v => connected_through[v] = committed_to[v]
    /\ HasPa(<<committed_to[v], VirtNet[v]>>)

RateSet == \A x \in policing : committed_to[x[1]] # NULL

RpaSet ==
  \A r \in rpas :
    /\ r[1] # r[2] /\ HasPa(<<r[1], r[3]>>)
    /\ \A p \in {r[1], r[2]} :
         \/ pa[<<p, r[3]>>] \in Installed
         \/ pc = "decommit" /\ dp = <<p, r[3]>>
         \/ pa[<<p, r[3]>>] = "NEW" /\ PastRemote(<<r[1], r[3]>>, r[2])

RvirtSet ==
  \A rv \in rvirts :
    LET n == VirtNet[rv[3]] IN
    /\ <<rv[1], rv[2], n>> \in rpas
    /\ \/ virt[rv[3]] \in Installed
       \/ dv = rv[3]
       \/ virt[rv[3]] = "NEW" /\ PastRemoteVirt(<<rv[1], n>>, rv[3])
    /\ Recommit /\ pa[<<rv[1], n>>] = "NEW" => PastRemoteVirt(<<rv[1], n>>, rv[3])
    /\ virt[rv[3]] \in {"NEW", "OK"} /\ dv # rv[3] => connected_through[rv[3]] = rv[2]

\* What failed in this commit is local, or the local PA has come past it.
ErrSet ==
  Recommit =>
    /\ \A a \in PAs : pa[a] = "ERR" /\ ~is_local[a[1]] =>
         \E p \in Physes : /\ is_local[p] /\ Live(pa[<<p, a[2]>>])
                           /\ PastRemote(<<p, a[2]>>, a[1])
    /\ \A v \in Virts : virt[v] = "ERR" =>
         /\ connected_through[v] # NULL
         /\ ~is_local[connected_through[v]] =>
              \E p \in Physes : /\ is_local[p] /\ Live(pa[<<p, VirtNet[v]>>])
                                /\ PastRemoteVirt(<<p, VirtNet[v]>>, v)

\* The facts of the virts name the PA they were installed on.
VirtFacts == \A f \in kernel : f[1] = "virt" => f[3][1] = committed_to[f[2]]

Books == PaSet /\ VirtSet /\ RateSet /\ RpaSet /\ RvirtSet /\ ErrSet /\ VirtFacts /\ BooksMatchKernel

IInv == TypeOK /\ aborted = "no" /\ Objects /\ Loops /\ Books

-----------------------------------------------------------------------------
(***************************************************************************)
(* What the facts say.                                                     *)
(***************************************************************************)

\* The commit will leave what is installed for the object as it is.
PaStays(a) ==
  (pa[a] = "OK" \/ (Recommit /\ pa[a] = "NEW")) /\ phys[a[1]] # "RENEW"

VirtStays(v) == virt[v] = "OK" \/ (Recommit /\ virt[v] = "NEW")

\* What stays was installed with the attributes the model has.
PaCurrent(f) ==
  f[1] = "pa" /\ PaStays(f[2]) => f[3] = <<attr_iface[f[2][1]], attr_ip[f[2][1]]>>

VirtCurrent(f) == f[1] = "virt" /\ VirtStays(f[2]) => f[3][2] = attr_mac[f[2]]

RateCurrent(f) ==
  f[1] = "rate" => f[3] # NULL /\ (VirtStays(f[2][1]) => f[3] = attr_rate[f[2][1]][f[2][2]])

RpaCurrent(f) == f[1] = "rpa" /\ PaStays(<<f[2][2], f[2][3]>>) => f[3] = attr_ip[f[2][2]]

RvirtCurrent(f) == f[1] = "rvirt" /\ VirtStays(f[2][3]) => f[3] = attr_mac[f[2][3]]

IsCurrent(f) ==
  PaCurrent(f) /\ VirtCurrent(f) /\ RateCurrent(f) /\ RpaCurrent(f) /\ RvirtCurrent(f)

FactsCurrent == \A f \in kernel : IsCurrent(f)

\* Every object has one of the states.
AllIn(S) ==
  /\ \A s \in Settings : settings[s] \in S
  /\ \A n \in Nets : net[n] \in S
  /\ \A p \in Physes : phys[p] \in S
  /\ \A a \in PAs : pa[a] \in S
  /\ \A v \in Virts : virt[v] \in S

\* A commit that has returned leaves nothing to decommit.
Returned ==
  /\ pc # "idle" => ret = "NONE"
  /\ ret \in {"OK", "COMMIT"} => AllIn({"none", "NEW", "OK"})

\* lsdn_context_cleanup has freed everything before its commit.
Closing ==
  /\ life # "open" => /\ AllIn({"none", "DELETE"})
                      /\ explicitly_attached = {}
                      /\ \A v \in Virts : connected_through[v] = NULL
  /\ life = "closed" => pc = "idle" /\ (ret # "NETLINK" => AllIn({"none"}))

StaleInv == FactsCurrent /\ Returned /\ Closing

-----------------------------------------------------------------------------
(***************************************************************************)
(* What is missing, when nothing fails: only what the commit has not come  *)
(* to yet.                                                                 *)
(***************************************************************************)

\* No network operation fails; lsdn_commit may still find no socket, and
\* lsdn_validate no interface.
Reliable == FaultKinds \subseteq {"SOCKET", "NOIF"} /\ ~RemoteByIp

NoErrors ==
  /\ \A a \in PAs : pa[a] # "ERR"
  /\ \A v \in Virts : virt[v] # "ERR"
  /\ ~problems /\ ~inconsistent
  /\ ret = "OK" => AllIn({"none", "OK"})

\* A virt is committed after its PA.
NewPas == \A v \in Virts : connected_through[v] # NULL /\ pa[PaOf(v)] = "NEW" => virt[v] # "OK"

\* The commit has come past the object, or an earlier one has.
VirtDue(v) ==
  /\ connected_through[v] # NULL /\ HasPa(PaOf(v))
  /\ virt[v] = "OK" \/ (virt[v] = "NEW" /\ PastVirt(PaOf(v), v))

RateDue(v, d) ==
  /\ attr_rate[v][d] # NULL /\ v \in Keys("virt")
  /\ virt[v] = "OK" \/ (virt[v] = "NEW" /\ Recommit /\ v # cv)

RpaDue(a, b) ==
  /\ a # b /\ a[2] = b[2] /\ HasPa(a) /\ pa[b] \in {"NEW", "OK"}
  /\ (pa[a] = "OK" /\ pa[b] = "OK") \/ PastRemote(a, b[1])

RvirtDue(r, v) ==
  /\ r[3] = VirtNet[v] /\ connected_through[v] = r[2] /\ virt[v] \in {"NEW", "OK"}
  /\ (pa[<<r[1], r[3]>>] = "OK" /\ virt[v] = "OK") \/ PastRemoteVirt(<<r[1], r[3]>>, v)

\* What is due is installed.
Full ==
  /\ \A v \in Virts : VirtDue(v) => v \in Keys("virt")
  /\ \A v \in Virts, d \in Dirs : RateDue(v, d) => <<v, d>> \in Keys("rate")
  /\ \A a, b \in PAs : RpaDue(a, b) => <<a[1], b[1], a[2]>> \in Keys("rpa")
  /\ \A r \in Keys("rpa"), v \in Virts : RvirtDue(r, v) => <<r[1], r[2], v>> \in Keys("rvirt")

FullInv == NoErrors /\ NewPas /\ Full
=============================================================================
