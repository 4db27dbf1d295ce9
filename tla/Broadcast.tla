------------------------------ MODULE Broadcast -----------------------------
(***************************************************************************)
(* Broadcast lists (struct lsdn_broadcast in netmodel/private/rules.h and  *)
(* netmodel/rules.c:536-648): the actions that mirror a packet, split over *)
(* several filters because the kernel takes a limited number of actions    *)
(* per filter.  The operators give the list after a call, and what the     *)
(* kernel is told of a filter.                                             *)
(*                                                                         *)
(* A list has the chain its filters are in, the next priority and the      *)
(* filters, the newest first.  A filter has a table of entries, each of    *)
(* which takes one or more actions, and the count of actions it has left.  *)
(***************************************************************************)
EXTENDS SequencesExt

CONSTANTS
  MaxActs,    \* LSDN_MAX_ACT_PRIO - 1
  NoEntry     \* a free place of the table

ASSUME BroadcastAssumption == MaxActs \in Nat

\* lsdn_broadcast_init
NewBroadcast(chain) == [chain |-> chain, next |-> 1, filters |-> <<>>]

NewFilter(prio) == [prio |-> prio, free |-> MaxActs, acts |-> [k \in 1..MaxActs |-> NoEntry]]

\* lsdn_find_free_action takes the first filter with enough actions left and
\* its first free entry; when there is none it puts a new filter in front.
WithRoom(b, cost) ==
  IF \E k \in DOMAIN b.filters : b.filters[k].free >= cost THEN b
  ELSE [b EXCEPT !.next = @ + 1, !.filters = <<NewFilter(b.next)>> \o @]

RoomIn(b, cost) == SelectInSeq(b.filters, LAMBDA f : f.free >= cost)

FreeEntry(f) == SelectInSeq(f.acts, LAMBDA x : x = NoEntry)

\* lsdn_broadcast_add, for an action that is known by x
BroadcastAdd(b, x, cost) ==
  LET room == WithRoom(b, cost)
      k    == RoomIn(room, cost)
  IN  [room EXCEPT !.filters[k].free = @ - cost,
                   !.filters[k].acts[FreeEntry(room.filters[k])] = x]

\* The filter that holds the action, and its entry there.
FilterOf(b, x) == SelectInSeq(b.filters, LAMBDA f : Contains(f.acts, x))

EntryOf(b, x) == SelectInSeq(b.filters[FilterOf(b, x)].acts, LAMBDA y : y = x)

\* Mutant: only the mirror action is given back, not that of the tunnel.
BroadcastRemoveOne(b, x, cost) ==
  [b EXCEPT !.filters[FilterOf(b, x)].free = @ + 1,
            !.filters[FilterOf(b, x)].acts[EntryOf(b, x)] = NoEntry]

\* lsdn_broadcast_remove; a filter without actions stays.
BroadcastRemove(b, x, cost) ==
  [b EXCEPT !.filters[FilterOf(b, x)].free = @ + cost,
            !.filters[FilterOf(b, x)].acts[EntryOf(b, x)] = NoEntry]

\* The entries of the table that are in use.
InUse(f) == {p \in 1..MaxActs : f.acts[p] # NoEntry}

\* lsdn_flush_action_list: the actions in the order of the table.
Flushed(f) == Restrict(f.acts, InUse(f))

Actions(b) == UNION {{x \in ToSet(f.acts) : x # NoEntry} : f \in ToSet(b.filters)}
=============================================================================
