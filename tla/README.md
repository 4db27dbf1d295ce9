# A TLA+ model of LSDN

LSDN is a C library that programs virtual networks into the Linux kernel. A
client describes networks, machines and virtual machines in memory; one call,
`lsdn_commit`, brings the kernel in line with the description. This directory
holds TLA+ models of the library, TLC runs that check them on small instances
and theorems that TLAPS proves for all instances. Paths below are relative to
the repository unless they end in `.tla` or `.cfg`.

## The system

| part | state it keeps | operations | what has to be right |
|---|---|---|---|
| network model API (`netmodel/lsdn.c`, `private/lsdn.h`) | settings, nets, physes, phys attachments (PAs), virts, each with a commit state (`private/state.h`) | create, free, attach, detach, connect, disconnect, claim, set and clear attributes, `lsdn_context_cleanup` | objects point at live objects only; a change leaves the trace the next commit needs; the asserts hold |
| validation (`lsdn_validate`) | `problem_count`, renewed children | propagation of RENEW, checks of attributes, MACs, addresses, nets, rules, rates | an invalid description never reaches the kernel |
| commit engine (`lsdn_commit`, `commit_pa`, `decommit_*`) | `committed_to`, `committed_as_local`, lists of remote PAs and remote virts, `pending_free` | calls of the nine network operations of `private/net.h`, roll back, acknowledgement | contracted order of the calls, exact books, nothing stale, nothing missing, unchanged objects left alone, failures reported |
| virt rules and rulesets (`netmodel/rules.c`) | rules by direction and priority, `commited_count`, rulesets with flower rules and handles | `lsdn_vr_new`, `lsdn_vr_free`, `lsdn_ruleset_*`, `commit_rules`, `decommit_rules` | memory agrees with the filters in the kernel; live rules are applied, freed ones are not |
| broadcast lists (`lsdn_broadcast_*` in `rules.c`) | filters with 31 action slots each | add, remove, flush | slots and counts agree |
| static bridge (`netmodel/sbridge.c`, `clist.c`) | interfaces, routes, MACs and their products | `lsdn_sbridge_add_*`, `remove_*` | a bridge forwards to every MAC and every interface floods to every route of the others |
| learning bridge (`netmodel/lbridge.c`) | a kernel bridge and its ports, a dummy interface per Geneve route | create, add, remove, free, with cleanup of what was made so far | an operation that fails leaves the kernel as it was; what is installed is what was added |
| network types (`net_direct.c`, `net_vlan.c`, `net_vxlan.c`, `net_geneve.c`) | tunnels, one shared and counted for static VXLAN and Geneve | the network operations | the shared tunnel lives exactly as long as a local PA uses it |
| names and identifiers (`names.c`, `idalloc.c`, `list.c`) | name tables, handle counter | set, look up, allocate | names are unique within their table, and a removed object keeps its name until the commit |
| address types (`nettypes.c`) | none | parse and format MACs and IPs | parsing and formatting are inverse |
| model dump (`dump.c`) | none | the model as JSON and as a script | the script makes the model it was made from |
| netlink layer (`nl.c`), log, errors (`errors.c`) | socket, buffers | messages to the kernel, text | |
| lsctl language (`lsctl/lsext.c`) | stack of nested scopes, the net, phys and virt whose block is evaluated | Tcl commands that call the API | the context is that of the enclosing blocks, whatever failed before; no pointer of it is stale |
| daemon and client (`daemon/lsctld.c`, `lsctlc/main.c`) | pid file, socket, script buffer, descriptors, the buffers of the client | start, serve one script per connection, exit | a daemon that is up can be reached, a client gets the output of its own script and comes to an end |

The API edits objects and leaves NEW, RENEW or DELETE behind. `lsdn_commit`
validates, walks the nets to remove what was deleted or renewed (decommit
phase), then walks the PAs of the local physes to add what is new (recommit
phase), through the operations of the network type, which use rulesets,
bridges and tunnels. The library is single threaded. The commands of lsctl
call the API; the daemon evaluates the scripts of all clients in one
interpreter, one at a time. What is hard is the
number of orders in which edits and commits may come, the four-way relation of
local PAs, remote PAs, virts and remote virts, the partial failure of a step in
the middle of a commit, and a retry after it; in the language, errors that
are caught in the middle of nested blocks; around the daemon, processes that
run, block, crash and are restarted independently. `PROJECT.json` lists these
hazards at their lines.

## Modules

| module | models | state and actions |
|---|---|---|
| `ObjState` | `private/state.h`, `private/errors.h` | commit states and the helpers `renew`, `propagate`, `free_helper`, `ack_decommit`, `ack_state`, `mark_commit_err` as operators |
| `NetApi` | the client API of `lsdn.c` | a variable per field of the C structs, an action per API function. The intrusive lists are derived sets; `Release` is the common part of the five freeing functions |
| `NetCommit` (extends `NetApi`) | `lsdn_validate`, `lsdn_commit` and below | `kernel` is a set of facts `<<kind, key, attributes>>`; an action is one call of a network operation with the bookkeeping around it; `pc`, `cur`, `left`, `pas`, `todo`, `cv`, `dv`, `dp` say where the nested loops are |
| `Netmodel` (extends `NetCommit`) | client and commit together | `Init`, `Next`, `Spec`, the properties |
| `NetmodelAbs` | what a commit promises | wanted facts, installed facts, phase, result |
| `MCNetmodel` | | constants of the TLC runs |
| `NetmodelInv` (extends `Netmodel`) | | the inductive invariants of the commit engine (`IInv`, `StaleInv`, `FullInv`) and the hypotheses of the theorems about it (`Careful`, `Clean`, `Reliable`) |
| `NetmodelProofs` | | theorems about `Netmodel` for every client and every failure; `IInv` is kept by the edits and validation |
| `CommitProofs` (extends `NetmodelProofs`) | | `IInv` is kept by the steps of a commit; the theorems about asserts, pointers, books and order |
| `ResultProofs` (extends `CommitProofs`) | | what a commit leaves behind, and that it implements `NetmodelAbs` |
| `Ruleset` | `lsdn_ruleset_*` | pure operators: ruleset, filters and error code after a call |
| `VirtRules` (extends `Ruleset`) | rules of one virt, `validate_rules`, `commit_rules`, `decommit_rules` | states of the rules, `count` (`commited_count`), rulesets, filters; an action per API call and per turn of the loops |
| `MCVirtRules` | | constants of the TLC run |
| `VirtRulesProofs` | | theorems about `VirtRules` |
| `Broadcast` | `lsdn_broadcast_*` | pure operators: the list of filters after a call, what the kernel is told of a filter |
| `Sbridge` (extends `Broadcast`) | `sbridge.c`, `clist.c`, the network operations of static VXLAN and Geneve | lists of interfaces, routes and MACs, the counted tunnel, the kernel's rules; an action per rule the kernel gets, `stage`, `obj` and `todo` say where the running operation is |
| `MCSbridge` | | constants of the TLC run |
| `SbridgeProofs` | | theorems about `Sbridge` |
| `Lbridge` | `lbridge.c`, the network operations of direct, VLAN, VXLAN multicast and e2e, Geneve e2e | links, ports, qdiscs, filters and forwarding entries of the kernel, uses of the Geneve tunnel; an action per network operation, which makes its kernel calls in order and its cleanup when one is refused (`Call`, `Undo`) |
| `MCLbridge` | | constants of the TLC run |
| `LbridgeProofs` | | theorems about `Lbridge` |
| `NamedModel` (extends `ObjState`) | the API as a script sees it, `names.c` | pure operators: the model (objects with names, attributes and states) after a call; a commit is one step |
| `Lsext` (extends `NamedModel`) | `lsctl/lsext.c` | an operator `Tcl_x` per command from world to world: model, context, call stack of blocks, result |
| `Dump` (extends `Lsext`) | `dump.c`, `show` | the JSON of each object, the script made from it, and what a new interpreter makes of the script |
| `Lsctl` (extends `Dump`) | scripts | an action per command and its arguments, the end of a block, a caught error |
| `MCLsctl` | | constants of the TLC run |
| `LsctlProofs` | | theorems about `Lsctl` |
| `Lsctld` | `daemon/lsctld.c`, `lsctlc/main.c` | by daemon: where it is, descriptors, script buffer, output buffers; the two files; by client: its buffers; the socket in both directions. An action per system call that other processes can see |
| `MCLsctld` | | constants of the TLC run |
| `LsctldProofs` | | theorems about `Lsctld` |

Abstractions worth knowing. An object is a member of a constant set and may be
created again once freed, as `malloc` may return the same address. The order
in which lists and hash tables are walked is left open. A network operation is
atomic: it installs its fact, or fails with or without having cleaned up
(`Added`, `Removed`); what is inside the operations belongs to the modules of
the network types. Rules are left out of `Netmodel` and have a module of their
own, in which the virt's part of a commit is reduced to what the rules see of
it. In `VirtRules` the targets, masks and data a rule matches are constants,
with `Masked` for `lsdn_rule_apply_mask`; a subprio that the code does not set
(`commit_vr` sets only the first rule's) is any of two values. The loops of
the decommit phase walk each list once; `DecommitVirt` and `DecommitPa` take
any object of the net that still needs it, which is the same: no step of the
phase makes an object that was reached need it again. Removals of
filters are taken to succeed there; when one does not, `decommit_vr` forgets
the filter.

`Sbridge` is what is inside the operations for two of the network types. Its
operations come in every order the commit engine keeps: a PA before what is on
it, and after it when things are removed. The cleanup lists are derived from
the action tables. The kernel may refuse what is in `Refusals`; removals
succeed and memory suffices. Where a refusal leaves memory corrupt or fails an
assert the model ends (`aborted`), and the properties speak of everything up
to there: see "Seen while modelling" below. Geneve releases the tunnel before the
bridge when `create_pa` fails and VXLAN after; the model has the latter. A
refused ingress qdisc aborts the program (`net.c:38`); `CreatePa` and `AddVirt`
return an error there and go on, which allows more behaviours than the code
has. A refused flood rule ends the model (`IfBrMake`), so the cleanup of
`sbridge.c:263` is not followed.

`Rules` (a constant of `NetApi`) is what a client refrains from: three rules
are documented (attach before connecting, disconnect before detaching, one
local phys per net), three are not, and the code needs them: not reusing a PA
that awaits deletion, a commit between freeing a virt and freeing its phys, not
unclaiming a phys that was committed. The passing runs use a client that keeps
all six. The theorems of `NetmodelProofs` hold for every client, those of
`CommitProofs` and `ResultProofs` for one that keeps all six. `RemoteByIp` (a
constant of `NetCommit`) says that the nets remove a remote PA by its address, as
VXLAN e2e does; it is FALSE in every run, since with it `NothingStale` fails by
the code as it is (`net_vxlan.c:200`). The theorems of `NetmodelProofs` hold
with and without it, those of `CommitProofs` and `ResultProofs` without it.

`Lbridge` makes a network operation one step: nothing else runs while the
commit engine waits for it, so only what it leaves behind counts. The
operations come in the order `Netmodel` is shown to keep. That an operation
that fails has restored the kernel (`ErrorRestores`) is what `NetCommit`
assumes of it. After `LSDNE_INCONSISTENT` or `abort` the model ends. Remote PAs
have IPv4 addresses: `lsdn_lbridge_add_route` asserts it (`lbridge.c:214`).

`NamedModel` and `NetApi` model the same calls for two purposes: `NetApi` has
the books of the commit engine and no names, `NamedModel` has names and a
commit in one step that may pass, fail or be refused. An object is the lowest
free number, as an allocator that reuses memory would have it, so a stale
pointer may lead to a new object; `m.bug` remembers the first use of a pointer
to nothing, failed assert, read behind the table of directions or write behind
the scope stack. The scope stack has three slots, one of them for the root, so
blocks may be nested twice and `push_scope` does not check it. `cleanup` and
`free` go through the frees and the commit of `lsdn_context_cleanup`
(`Context_cleanup`) and what fails there is remembered; that the context made
afterwards returns when memory runs out, where the first one aborts, is left
out with the other allocation failures.

`Care` (a constant of `Lsctl`) is what scripts refrain from, listed in the
header of that module. Most of them were found by leaving them out: without
`contents` or `nesting` the run finds `ContextMatchesBlocks` violated, without
`nesting`, `enclosing`, `reuse`, `commit between`, `if` or `direction`
`NothingUndefined`, without `rule macs` or `type` `ShowRoundTrips`;
`generated` matters once there are two physes, which the run has not and the
theorems allow; without `redefine` a net may be without a name, which no
script can print. Two of these rules, `nesting` and `commit between`, forbid
what the documentation allows (see below).
`names` is kept because the names that
`lsdn_mk_name` generates for a replayed script may be taken already, which
needs two physes without a name.

In `Lsctld` a script is a number of bytes and the pieces of output it prints.
Whoever starts daemons waits until the one before has come up or is gone, but
starts a second one while the first is up. A read takes what is there up to
`BUF_SIZE`, a write to a socket or to the output may take a part; a read that
fails is taken for a length (`lsctld.c:349`), which the model has as the crash
of the daemon (`Crash`). Output of Tcl passes through its channel, which is
written at the end of a line and when it is full, and output of `show` through
the buffer of the C library; nobody flushes either at the end of a script, and
both outlive the connection. A write to a client that is gone fails and its
text is lost: `Tcl_FindExecutable` makes the process ignore SIGPIPE.

## Runs

| run | instance | shows |
|---|---|---|
| `core` | 2 physes, 2 virts, 1 net, no failures | types, asserts, pointers, books against kernel at every step, order of additions, `destroy_pa` only for created and empty PAs, an OK commit means exactly the wanted facts, cleanup leaves nothing, a commit never removes what is up to date |
| `attrs` | 2 physes with 2 addresses of different versions, 1 virt with a MAC, a net that needs both | changes of attributes reach everything derived from them; the commit implements `NetmodelAbs` |
| `nets` | 2 nets with one settings object and clashing ports, 2 physes, 1 virt | freeing of settings, nets and physes in any order |
| `faults` | 2 physes, 1 virt with a good or a bad rate, 1 failure | an operation of the recommit phase fails and cleans up, no socket, no interface, refused rate: pointers, books and order stay right, nothing stale survives a commit |
| `unclean` | 2 physes, 1 virt, 1 failure | an operation fails together with its own cleanup, or `commit_pa` gets no memory, and removals succeed: no assert fails later, no failure is lost |
| `rates` | 1 phys, 1 virt, good and bad rates in both directions, 2 failures of every kind, those of removals, policing, cleanups and memory too | every failure is on record, none outlives its commit |
| `rules` | 5 rules, 2 directions, equal matches after masking, incompatible masks, refused filters | counts, rulesets and filters agree at every step; live rules are applied; no assert fails; a deleted virt takes its rules along |
| `switch` | 2 bridges on one tunnel, 2 virts, 2 remote PAs, 1 remote virt, filters of 3 actions, 2 chain ids, any rule refused | broadcasts reach every other port of the net exactly once; no flood leaves the net, at every step; counts, tables and filters agree at every step; MACs are forwarded along their routes; the tunnel is counted right and freed empty |
| `lbridge` | 4 PAs (direct, VXLAN e2e, two Geneve e2e on one tunnel), 2 virts, 3 remote PAs, any two kernel calls of an operation refused | an operation that returns an error has restored the kernel, whatever its cleanup met; between operations the kernel has exactly the links, ports, qdiscs, filters and entries of what was added, and the tunnel is counted right |
| `lsctl` | at most 4 objects of 1 settings, 2 nets, 1 phys and 1 virt, 1 attribute, id, limit or rule at a time, all commands, blocks nested up to twice, errors caught anywhere, scripts that keep `Care` | no stale pointer, and no failed assert in an edit, a commit or a cleanup; the context is that of the blocks; what `show` prints makes the same model |
| `lsctld` | 2 starts of the daemon, 2 clients, one with its script on the command line, buffers and sockets of 2, scripts of 1 and 3 bytes that print a line, without a line end and with `show` | the script is within its buffer, a client gets the lines and errors of its own script, a daemon that is up is the one the files lead to, every client comes to an end |
| `v_retry` | 2 physes, 1 virt, 1 failure | a disagreement, see below |

Bounds. Two physes are needed for remote PAs and remote virts; one of them or
none is local. Two virts meet on one PA or on different ones. A third of either
adds no new pair of roles: every property relates at most two PAs and one virt,
or two virts of a net. Behaviours are not bounded in length: a run explores all
sequences of edits and commits, since every value comes from a finite set. Only
failures are counted (`MaxFaults`). The handles of a priority run out at
`MaxHandle`; the rules of the run `rules` do not use that many. In `switch` a filter takes
`MaxActs` = 3 actions for the 31 of the code, so that routes of one and of two
actions fill several filters of one interface; the chain ids of the tunnel end
at `MaxChain` = 3 for 0xFFFF, so that `create_pa` runs out of them. The second
net has a bridge and no virts: its interface is what the first net's floods
must not reach. In `lbridge` the two refused calls are one that fails the
operation and one of its cleanup; VLAN and VXLAN multicast take the path of
VXLAN e2e without its entries. In `lsctl` `MaxObjects` and `MaxAttrs` bound
the objects and the attributes that are there at a time, not the length of
scripts: four objects are a settings object, a net, a phys and a virt that are
all related, or two nets that share a phys. In `lsctld` the script buffer
starts with 2 bytes, so that one script fits and the other makes it grow;
sockets of 2 make both sides wait, and buffers of 2 pieces are filled by what
one script leaves behind and the next one prints. Physes, virts where there are two, and the
names of nets are interchangeable; the symmetric runs check invariants and action properties
only. A client may stop editing and an aborted process stands still:
`Stopped` is the stutter of both. Deadlock is checked in the runs of
`Netmodel`, `VirtRules` and `Sbridge`; in `lsctl`, `lsctld` and `lbridge` the
system may stop: after undefined behaviour, when all clients are done, after
an abort.

Failures. The kinds of failure are in the header of the section "Failures" of
`NetCommit`. Not every property survives every kind, and the runs say which
does: when a removal fails (`CLEANUP`) the library forgets what is still
installed, so `BooksMatchKernel` and `NoDanglingPointers` do not hold, nor, once
there are remote PAs, `NoAssertFails`; when an operation fails without cleaning up (`BROKEN`)
`BooksMatchKernel`, `AddsInOrder`, `DestroysEmptyPa` and
`CleanupLeavesNothing` do not, which is what `LSDNE_INCONSISTENT` is for; when
`commit_pa` gets no memory (`MALLOC`) `NoDanglingPointers`, `AddsInOrder`,
`NothingStale` and `CleanupLeavesNothing` do not. `FailuresReported` holds for
all kinds; it is about the temporary state ERR and the record of problems, not
about the code that `lsdn_commit` returns.

Fairness. Only `Lsctld` has liveness; `FairSpec` is weak fairness
of a daemon that can take a step, and of the sending and of the receiving side
of a client: separate processes that the operating system schedules, where the
client's `select` loop serves both sides in every turn. Nobody has to start a
process or end one, and the input of a client need not come: `EveryClientEnds`
therefore assumes that no client keeps its input open for ever, since such a
client blocks the daemon (`lsctld.c:349`) by design. Crashes are allowed and
never assumed.

## Proofs

`NetmodelProofs`, for all sets of objects, all clients (`Rules` arbitrary),
all kinds and numbers of failures, from the assumptions on constants
`NetApiAssumption` and `NetCommitAssumption`:

- `TypeCorrect`: `Spec => []TypeOK`. `TypeOK` is inductive once the range of
  the loop variables is tied to the phase: nets in the decommit phase, physes
  later, and only connected virts in the loop over remote virts (without it
  `AddRemoteVirt` could record a view of no phys). One lemma for the helpers
  of `ObjState`, one for the facts, one for `Release`, then one step per action.
- `FailuresAreReported`: `Spec => []FailuresReported`. An object in ERR
  implies a running commit with a problem on record. The inductive invariant
  `ErrInv` adds that no decommit function is active (`dv`, `dp`) while the
  engine is idle, because a step of `decommit_virt` is guarded by `dv` and not
  by the phase. `MarkReports` is the key lemma: `mark_commit_err` makes an
  object ERR only together with a report. `CommitEnd` discharges the rest:
  `ack_state` leaves no object in ERR.

`CommitProofs`, for all sets of objects and any number of failures, under two
hypotheses, both defined in `NetmodelInv`. `Careful`: the client keeps all the
rules. `Clean`: an operation that fails has cleaned up, removals succeed and
`commit_pa` gets its memory (no `BROKEN`, `CLEANUP` or `MALLOC`), and a remote
PA is not removed by an address that may have changed. Without either the
properties do not hold, see "Failures" above and `Rules`. Refused operations,
missing interfaces, refused rates, a missing socket and validation errors are
all allowed.

- `AssertsHold`, `NothingDangles`, `BooksAlwaysMatch`, `AddsAreOrdered`,
  `DestroysOnlyEmpty`: the properties `NoAssertFails`, `NoDanglingPointers`,
  `BooksMatchKernel`, `AddsInOrder`, `DestroysEmptyPa`.
- None of these is inductive, and they need one another. The invariant `IInv`
  is `TypeOK`, that nothing has aborted, and three groups. `Objects`: how the
  states of settings, nets, physes, PAs and virts go together, an object dies
  with what it owns, what is connected is attached, a net has one local phys.
  `Loops`: what each phase of `lsdn_commit` has behind it and before it, for
  instance that the nets that were walked have nothing left to decommit, and that the
  virts of `todo` are NEW and on the current PA. `Books`: which facts are in the kernel.
  An object that is OK, RENEW or DELETE is installed; one that is NEW is
  installed exactly when the commit has come past it, so `Visited`,
  `PastVirt`, `PastRemote` and `PastRemoteVirt` say how far the nested loops
  have come.
- `NetmodelProofs`, in its second part, shows that `IInv` holds at the start and that edits and
  `lsdn_validate` keep it: an edit leaves the loops alone and moves no object
  into or out of the installed states (`KeepsInstalled`). `CommitProofs` has a
  lemma per action of the commit, including the roll back of a remote PA or
  remote virt that could not be added.
- TLC found `IInv` to be an invariant of the instances of `core` and `faults` before it was proved.

`ResultProofs`, what a commit leaves behind:

- `UntouchedAlwaysStays` (`UntouchedStays`), under `Careful` and `Clean`: from
  `IInv`, whatever a step takes out of the kernel belongs to an object that is
  not OK. The hard case is a remote virt that goes with its remote PA
  (`ViewNotOk`).
- `NothingStaysStale` (`NothingStale`) and `CleanupAlwaysEmpties`
  (`CleanupLeavesNothing`), under the same hypotheses. `StaleInv` adds to
  `IInv` that a fact has the attributes of the model unless the object it
  comes from is to be decommitted (`FactsCurrent`), that a commit that has
  returned left nothing to decommit, and that a cleanup has freed everything.
  Once nothing is left to decommit (`Clear`) the kernel is a subset of
  `Desired`.
- `OkAlwaysInstalled` (`OkMeansInstalled`), under `Careful` and `Reliable`: no
  network operation fails, the run `v_retry` shows what happens otherwise; the
  socket and the interfaces may be missing. `FullInv` adds that what is due is
  installed (`Full`): what is OK, and what the commit has come past. Most steps
  keep it because they add nothing to what is due (`FullKept`); the additions
  of the recommit phase install what becomes due (`FullGrows`). When a commit
  has returned OK everything is OK, so `Desired` is a subset of the kernel.
- `CommitRefines` (`ImplementsAbs`), under `Careful`, `Reliable` and a netlink
  socket: `Netmodel` implements `NetmodelAbs`. No step of a commit changes what
  is wanted (`DesiredSame`), so a removal is a `Remove` of the abstract commit,
  the end of the decommit phase its `Turn` by `Clear`, an addition an `Add`,
  the return its `Finish`, and all other steps of the commit stutter.
- TLC found `StaleInv` to be an invariant of the instances of `core` and
  `faults`, and `FullInv` of `core`, `attrs`, `nets` and an instance without
  socket or interface.

`VirtRulesProofs`, for any rules, priorities, directions and matches, all
numbers of handles and all refusals, from `VirtRulesAssumption`:

- `RulesetsAlwaysMatch`, `RulesTakeEffect`, `VirtsTakeTheirRules`
  (`RulesetsMatchFilters`, `RulesInEffect`, `VirtTakesItsRules`), for every
  client, and `RulesNeverAbort` (`NoRuleAborts`), for one that does not renew a virt with
  rules in the kernel. `States` relates the states of the rules to the virt,
  the phase and the rules that are linked to a filter; `Books` says what
  rulesets and filters hold for the linked rules. It rests on
  `validate_rules`: no two rules of a priority match alike, so a filter has
  exactly one source and goes with it.

`SbridgeProofs`, for any nets, virts, remote PAs and remote virts, all sizes of
tables and numbers of chains, and all refusals, from `SbridgeAssumption` (a
filter takes at least the two actions of one route):

- `FloodsAlwaysExact`, `NetsAlwaysApart`, `TablesAlwaysMatch`,
  `ForwardsAlwaysExact`, `TunnelAlwaysCounted`, `AlwaysFreedEmpty`
  (`FloodsExact`, `FloodsStayInNet`, `TablesMatchFilters`, `ForwardsExact`,
  `TunnelCounted`, `FreedEmpty`). Most of them speak of the time between
  operations, so the invariant says for every stage of an operation what it
  has done so far (header of the module). The argument about the
  tables is in the lemmas on `BroadcastAdd` and `BroadcastRemove`: the free
  count of a filter is what its entries leave, so that the first filter with
  room has a free entry. That two interfaces of one tunnel never share a chain
  (`ChainsApart`) keeps the nets apart.

`LbridgeProofs`, for any PAs of any network types, virts and remote PAs, any
number of refused calls, from `LbridgeAssumption`:

- `Exactness` (`KernelIsExact`): `Exact` gives each of the kernel's six sets,
  and the count of the tunnel, from what was created and added. Each operation
  is followed call by call, through its success, through each
  refused call with the cleanup that follows.
- `Restoration` (`ErrorRestores`): from `Exact` before the operation, each
  cleanup takes away exactly what the calls before it made.

`LsctldProofs`, for any number of daemons and clients and all sizes of buffers,
sockets and scripts, from `LsctldAssumption`:

- `BufferSafe`: `Spec => []ScriptFits`. The buffer grows once per read, by
  doubling. That this is enough rests on the buffer never being smaller than
  at the start and the start being no smaller than a read, which the invariant
  `InvFits` carries (`GrownIsEnough`).
- `Reachable`: `Spec => []UpIsReachable`. `InvFiles` says that two daemons
  never run at the same time (`InvAlone`: a second start finds the PID file of
  the first, and a failed one leaves the files alone) and that a daemon has its
  files from the step that makes them (`InvMade`), so that only a daemon's own
  exit takes them away.
- `OutputAlwaysOwn`: `Spec => []OutputIsOwn`. `InvConn` says that a connection
  is held by one daemon at most, that a daemon serving a client has its
  descriptors 1 and 2 on that client's connection, and that nobody holds a
  connection that is closed (this uses that `/dev/null` is no client, part of
  `LsctldAssumption`). It also says that the channel of Tcl and the buffer of
  the C library hold nothing but output that does not end a line (`Quiet`):
  every line empties the channel. `InvOut` says that the lines and errors on
  the output of a client, in its buffer and in the socket are, in this order,
  those its script printed. What the buffers hold for a later client changes
  nothing of that, since it has no line among it (`OwnHeld`, `OwnHeldLine`).
  `Own`, which takes the output of `show` and of `puts -nonewline` out of a
  sequence, is a recursive function; what is needed of it (`Own` of a
  concatenation) is proved by least counterexample, from the well-foundedness
  of the numbers, in place of an induction.

`LsctlProofs`, for any number of objects, names and arguments, scripts of any
length and any bounds, from `NamedModelAssumption`, under the hypothesis
`CarefulScripts`: `Care` has at least the rules `contents`, `nesting`,
`enclosing`, `reuse`, `commit between`, `if`, `direction` and `generated`.
These are the rules without which the code does not survive a script; the other
four are only about the dump and are not assumed.

- `NothingUndefinedHappens` and `ContextAlwaysMatches`: the properties
  `NothingUndefined` and `ContextMatchesBlocks`. Neither is inductive, and they
  need each other: a context that outlives its block is a pointer to a released
  object, and a block too many is a write past the scope stack.
- The invariant says three things of the world. `Fine`: virts and PAs follow
  the states of their nets and physes (a virt of a net that goes, goes; a PA
  that stays behind in a net that goes has a virt that takes it along), which is
  what the asserts of `net_do_free`, `renew` and the commit rely on. `Nested`:
  scopes and objects of the context are those of the blocks, no kind of block
  is open twice and the block of a virt is the innermost; that two blocks are
  the most is the rule `nesting`. `Within`: the nets and physes of the
  blocks are live. The virt of a block needs no such clause: in its scope no
  command can remove it.
- One lemma per API call says that the call keeps `Fine` and which objects stay
  live (`Keeps`), one per command that it keeps the invariant on all its paths,
  the error returns included; `InvStep` has a step per action. The lists of
  `claimLocal`, `attach` and `detach` have at most two names, as in the model.
- TLC finds the invariant to hold on an instance with two nets, two physes, up
  to five objects and exactly the rules of `CarefulScripts`.

The assumptions on constants say that the functions between the constant sets
are functions, and that names are told apart as pointers are: NULL is no
object, and a virt is not a PA. The runs evaluate them all.

Only model-checked:

- `EveryClientEnds`: liveness under fairness is out of the
  prover's reach, as is ENABLED;
- `ShowRoundTrips` of `Lsctl`: the replay is a fold over a script of any
  length; a proof would have to relate the model after every prefix of the
  script to a part of the dumped model, an induction over data that the
  provers cannot instantiate;
- what holds under the failures that `Clean` excludes: the asserts in the run
  `unclean`.

## Where the code and its documentation disagree

Shown by a run:

- `v_retry`: after a failed `create_pa` the PA's virts are acknowledged though
  they were never added, and the retry succeeds without them
  (`lsdn.c:1308`; `errors.h:85` promises that a retry works).

Seen while modelling, without a run of their own. TLC shows the first five when
the rule or the restriction that the runs keep is taken away:

- a failed removal (`CLEANUP`) leaves an object FAIL, and `lsdn_commit` returns
  COMMIT, or OK when it is called again, while `lsdn.c:1570` announces
  INCONSISTENT (`private/errors.h:46` does not set it);
- a remote PA whose removal fails while its net is being deleted becomes FAIL
  and is not released, and the assert of `net_do_free` fails (`lsdn.c:300`,
  against `lsdn.c:1570`);
- `net { phys { virt { } } }` (rule `nesting`), the nesting of
  `docs/lsctl.rst:118` with a block for the virt, where `rate` and `rule` have
  to be (`docs/lsctl.rst:142`), writes past `scope_stack` (`lsext.c:42`);
- `cleanup` or `free` with a removed virt that was not committed yet (rule
  `commit between`) fails the assert of `renew` (`lsdn.c:22`, reached from
  `lsdn.c:153` and `lsdn.c:396`), while `docs/capi.rst:97` has it delete
  everything as by hand;
- output of `puts -nonewline` and of `show` stays in a buffer of the daemon and
  reaches a later client or none (`lsctld.c:363`, `lsext.c:1164`), against
  `docs/internals.rst:424`; `OutputIsOwn` without `Own` is violated;
- a rule freed on an unchanged virt stays in the kernel after an OK commit
  (`rules.c:115`, against `lsdn.c:1558`);
- freeing a committed virt and then its phys, or attaching a detached PA
  again, before a commit fails an assert (`lsdn.c:398`, `lsdn.c:442`);
- VXLAN e2e removes a remote PA by the address its phys has now
  (`net_vxlan.c:200`), so that a changed address leaves the old entry;
- a refused policing rule is undone and the commit returns OK (`lsdn.c:1062`,
  against `lsdn.c:1578`);
- a virt whose phys was detached passes validation when it did not change
  (`lsdn.c:873`, against `lsdn.c:519`);
- an unclaimed phys keeps `committed_as_local` (`lsdn.c:1643`);
- a virt may take the MAC of an unchanged one (`lsdn.c:1129`, against
  `docs/netmodel.rst:610`);
- a PA made for bookkeeping is committed (`lsdn.c:1295`, against
  `private/lsdn.h:263`);
- `lsdn_phys_free` disconnects its virts, `docs/netmodel.rst:313` says it
  deletes them;
- a failed validation has already renewed objects (`lsdn.c:1202`, against
  `docs/internals.rst:209`);
- a freed object whose removal fails becomes FAIL and is never released
  (`state.h:65`, against `docs/internals.rst:204`);
- renewing a virt that has committed rules trips the assert of
  `lsdn_ruleset_free`: `decommit_rules` propagates RENEW after `ack_decommit`
  has replaced it by NEW (`lsdn.c:1015`, `rules.c:281`). `MayRenew = FALSE`
  keeps the runs of `VirtRules` to clients that free such a virt instead.

- in the static bridge: an action whose filter the kernel refused is freed and
  stays in the filter's table (`sbridge.c:46`); `lsdn_sbridge_add_route` then
  returns the result of its cleanup, OK (`sbridge.c:264`); a MAC whose rule was
  refused stays on the list of its route, and the roll back of
  `lsdn_sbridge_add_virt` fails the assert of `lsdn_sbridge_remove_route`
  (`sbridge.c:294`, `sbridge.c:277`); nobody looks at the error of the fallback
  rule, and its removal fails the assert of `lsdn_list_remove` or reads freed
  memory (`sbridge.c:203`); chain ids are never returned (`idalloc.c:21`).

- in the learning bridge: destroying the PA of a direct net deletes the user's
  interface, as `lsdn_lbridge_destroy_pa` takes it for a tunnel (`lbridge.c:112`);
  a refused ingress qdisc (`net.c:39`) and a tunnel that is not deleted
  (`net_geneve.c:57`) abort;
- in lsctl: `phys` with more than one block leaves its scope on the stack
  (`lsext.c:953`); leaving an inner block of the same kind clears the context
  of the outer one (`lsext.c:414`, `lsext.c:957`); removing the object whose
  block is evaluated leaves a stale pointer (`lsext.c:371`, `lsext.c:915`);
  `-dstMac` matches the value of `-srcMac` (`lsext.c:728`) and a mask is read
  from the first element of its list (`lsext.c:554`); a name that is still
  taken is silently not set (`lsext.c:409`); a malformed `-ip` leaves a new
  phys behind (`lsext.c:930`); the branch that clears a rate is never reached
  (`lsext.c:823`, `lsext.c:846`); `-mcastIp` that is not given is read
  uninitialized (`lsext.c:215`); the table of directions has no end
  (`lsext.c:655`, `lsext.c:792`); a phys with the name that is generated for
  the next one fails an assert (`lsdn.c:368`); `virt -phys` without `-if` copies a null
  pointer (`nl.c:65`);
- in the dump: Geneve e2e becomes Geneve (`net_geneve.c:296`), masks of MACs
  are lost (`dump.c:544`), objects that await their deletion are listed, and an
  assert with a side effect is needed for the type (`dump.c:507`);
- in the daemon: an error of `read` is taken for a length
  (`lsctld.c:349`); `exit_wrapper` removes the PID file before the socket, so a
  daemon that starts between the two loses its socket (`lsctld.c:103`,
  `lsctld.c:108`).

## Not modelled, and the plan

Not modelled:

- the netlink layer: it builds and sends messages; the kernel is represented by
  facts, links and filters, and by what it refuses;
- parsing and formatting of addresses (`nettypes.c`): conversions character by
  character without state; here an argument parses or does not;
- user hooks, which are called around a commit and change no state of the
  library, `disable_decommit`, the log, and the mode `-f` and SIGHUP of the
  daemon;
- allocation failures of the edits, which return without effect or abort;
- examples and tests.

What is left:

1. What holds of the commit engine under the failures that `Clean` excludes: a
   weaker invariant for `NoAssertFails` when an operation does not clean up
   (run `unclean`).
2. `ShowRoundTrips` in `Lsctl` beyond TLC's bounds: it would need a prover
   with induction over the commands of a script.
