# A verification project for the multicast router daemon

The daemon is a PIM dense-mode (PIM-DM) and IGMPv2 router for Linux: one
process, one thread, a `select` loop and a queue of timers. It learns group
members from IGMP, other routers from PIM Hellos, and keeps one table entry for
each multicast flow (a source and a group, written (S,G)), which it copies into
the kernel's forwarding cache. The modules here model its state and handlers in
TLA+; TLC checks them on small instances and TLAPS proves theorems about them.

## 1. Inventory

| Component (file) | State | Operations |
|---|---|---|
| timer queue (`callout.c`) | `Q`, a list of relative offsets; the detached batch of `age_callout_queue`; `id` | `timer_setTimer`, `timer_clearTimer`, `timer_nextTimer`, `timer_leftTimer`, `age_callout_queue` |
| routing table (`mrt.c`, `mrt.h`) | `themrt`, a list of `struct mrt`; `packet_number` | `add_sg`, `delete_sg`, `find_sg`, `find_sg_group`, `add_leaf`, `del_leaf`, `refresh_mrt`, `check_sg`, `handle_sg_timeout`, `check_pim_state` |
| PIM-DM (`pim.c`, `pimdm.h`) | fields of `struct mrt`: the interfaces and the timer identifiers | reception of Join/Prune, Graft, Graft-Ack, Assert; timers `send_join`, `set_prune`, `prune_time_out`, `active_forward`, `plan_graft` |
| PIM neighbours (`pim.c`) | `myvifs[].neighbor`, a list for each interface | `receive_hello`, `add_pim_neighbor`, `delete_pim_neighbor`, `get_hold_time`, `pim_hello_output` |
| kernel cache (`kern.c`) | in the kernel: (S,G) -> incoming and outgoing interfaces, packet counts | `change_mfc`, `delete_mfc`, `k_get_sg_cnt` |
| kernel upcalls (`multicastpacket.c`) | none | no-cache and wrong-interface upcalls |
| IGMP (`igmp.c`) | `querier`, two timer identifiers, the list of groups with a countdown each | `send_query`, `retry_query`, `accept_membership_query`, `accept_group_report`, `accept_leave_message`, `leave_query` |
| interfaces (`vif.c`, `vif.h`) | `myvifs[]`, `maxvif` | set-up; matching addresses to interfaces |
| main loop (`main.c`) | `difftime`, `lasttime` | waits, ages the timer queue, dispatches packets |
| unicast routing (`route.c`) | a route socket | `get_upstream`, `get_incoming_vif` |
| addresses (`inet.c`), log (`debug.c`) | none | pure functions, output |

**How they interact.** Only the main loop waits. It calls packet handlers and
`age_callout_queue`; each runs to its end before anything else happens, so the
interleavings are those of whole handlers and whole timer functions, except
that a *batch* of expired timers is one loop of which each function changes
what the later ones find. IGMP calls `add_leaf`/`del_leaf`, the neighbour list
calls `refresh_mrt`, upcalls call `add_sg`; all of them, and the PIM handlers,
change the table and then copy an entry with `change_mfc` and look over the
whole table with `check_pim_state`, which sends Grafts and Prunes. Timers know
entries by (S,G), except `plan_graft`, neighbour and IGMP group timers, which
hold pointers or names that can outlive what they name.

**What is hard here.** Timers against packets (a timer that is cleared through an
identifier which was overwritten, a timer of a deleted entry, two timers of one
batch); redundant state kept by hand (`outnumber` beside `outvif`, the kernel's
cache beside the table, the two timer identifiers beside `querier`); decisions
taken in the middle of an update of the whole table; memory that is read before
it is written; eventual progress (the querier comes back, a silent neighbour
goes, an idle entry goes, a group being left is let go); the subnet, on which
queries, Prunes, Joins and Grafts of several routers cross and are lost and
routers crash; the clock, which the main loop reads now and then. `PROJECT.json` lists
each hazard at its line with the properties that address it.

**What makes each component correct.** Timer queue: every deadline as if stored alone,
every timer run. Table and PIM: the kernel forwards what the table says; entries have
their two lifetime timers and only those; an unacknowledged Graft is repeated; the
upstream router is told. IGMP: one role in the election, take-over, one countdown for
a group being left, two questions before it goes. Neighbours: each is timed, a silent
one goes, one that is heard stays. Lifetime: an entry goes after enough idle checks,
no earlier and not never. Main loop: no time lost or counted twice, timers run near
their deadlines, a signal is noticed. Election among several routers: they come to
agree on one querier. Subnet: a router that wants the flow is not cut off by one that
does not. Packets: every source is understood as it was sent. Routes: an upcall gets
the answers to its own questions.

## 2. Modules

| Module | Models | How state and actions correspond |
|---|---|---|
| `Timers` | what `callout.c` promises | abstract: a set of pending timers with the time each has left |
| `Callout` | `callout.c` | `Q` is the list of offsets, `expQ` the detached batch (its head is running while `running # 0`); one action per function; `RunExpired`/`FreeExpired` are the call and the return of one function of the batch |
| `Mrt` | `mrt.c`, the PIM handlers of `pim.c`, `change_mfc`/`delete_mfc`, the upcalls | `themrt` is the list of (S,G), `mrt` the struct of each, `mfc` the kernel; one action per handler and per timer function; `Expire` starts a batch |
| `Igmp` | `igmp.c` on one interface | fields of `struct vif` and `struct group`; one action per handler and timer function |
| `Election` | several routers of a subnet, each an `Igmp` without groups | the querier each remembers, its next query, the periods left of its retry timer; queries under way, lost, reordered; crashes and restarts |
| `Neighbor` | Hello reception and neighbour timeouts on one interface | the list, the entries' addresses, which entries have a timer |
| `Hello` | `Neighbor` on a subnet with time: the Hellos of the other routers, their options, losses, crashes, goodbyes, restarts | extends `Neighbor`; the time to each router's next Hello, the time left of each entry's timer; `missed` is a history of lost Hellos |
| `SgLifetime` | `add_sg`, `check_sg`, `handle_sg_timeout` with time and packet counts | the time left of the two timers of each entry; `Tick` is a second |
| `Subnet` | one flow on a subnet with one upstream router and several downstream | what `Mrt` keeps for one flow in each router, their timers with the time left, an inbox of messages for each, any of which may be lost |
| `Walk` | the cursor of `receive_join_prune`, `receive_pim_graft`, `receive_pim_graft_ack` | `mydata` counts four-byte units; one action per loop head and body |
| `Route` | the searches of `vif.c`, `get_upstream`, `get_incoming_vif`, `check_incoming` | `socket` is the routing socket other processes use too; the two questions of an upcall |
| `MainLoop` | `main.c` | `difftime`, `lasttime` as its microseconds and the time since, the timers as `Timers` promises them; one action per part of the loop |
| `MrtProofs`, `IgmpProofs`, `MainLoopProofs`, `CalloutProofs`, `ElectionProofs` | theorems about the module they are named after | see section 5 |
| `NeighborProofs`, `EntryProofs`, `JoinPruneProofs` | theorems about `Neighbor` and `Hello`, `Route` and `SgLifetime`, `Walk` and `Subnet` | see section 5 |
| `MCCallout`, `MCMrt`, `MCMrt2`, `MCIgmp`, `MCElection`, `MCHello`, `MCSgLifetime`, `MCSubnet`, `MCWalk`, `MCRoute`, `MCMainLoop` | constants for TLC | |

`Callout` is shown to implement `Timers` (`ImplementsTimers`), and each router of
`Election` to do what `Igmp` says of one interface (`EachIsIgmp`: the mapping computes
the timers and identifiers of `Igmp` from `querier[r]`, so it is the changes of the
querier that are compared; `OneRole` relates the timers to them). Every step of
`Hello` is a step of `Neighbor` or leaves its variables alone (lemma
`HelloStepIsNeighborStep`).

Operators described as a "slip" in a comment (`RecvGraftAckUnmarked`,
`ElectedLast`, ...) are variants of the definition after them, used to see
that the properties notice such a mistake. They are no part of `Next`.

### Abstractions

* `Mrt` leaves time out: any pending timer may be the next to expire. This allows
  more than the daemon does, and makes the properties independent of the delays
  in `defs.h` and `pimdm.h`. `MaxBatch` timers may expire together, in any order.
  `SgLifetime` adds the time the lifetime of an entry depends on, `Subnet` the time
  that makes Joins come before a Prune is carried out.
* A timer is (function, (S,G), interface, `n`): `n` tells timers of one kind
  apart, and an entry remembers an `n` as it remembers an identifier. `set_prune`
  and `active_forward` share one field, hence one slot. A `plan_graft` timer
  also carries whether the struct it points to was unlinked (it is never freed).
* `prune_timer_id` is written and never read and is left out. The local
  preference and metric are 0 in every entry and are constants.
* Memory from `malloc`: `StaleWords` are the interfaces whose `outvif` word may
  happen to read 1, `StaleNext` whether the first entry's `next` may be wild.
  MCMrt takes every combination, MCMrt2 zeroed memory.
* `active_forward` stores through an index that is an address: the step may end
  the daemon (`alive`) or leave this state alone.
* In `Mrt`, `get_upstream` and `get_incoming_vif` are the constants `NextHop` and
  `Incoming`, and a Join/Prune has one group and one source, the only form the
  daemon sends. How the two are found is the subject of `Route` and `Walk`: one
  module says what is done for a source, the other which sources that is.
* An upcall is for a flow without an entry (`multicast_packet_error` does not look;
  a second upcall that was queued behind the first would make a second entry).
* `refresh_mrt_ADD`, `Goodbye` and `NeighborTimesOut` in `Mrt` are the calls from
  `pim.c`, and what they do to the list of neighbours is reduced to whether an
  interface has any; which neighbour is meant is the subject of `Neighbor`.
* Interfaces share no IGMP state, so `Igmp` has one; the calls into the table are
  the `add_leaf`/`del_leaf` of `Mrt`. Likewise `Neighbor`.
* `Election` counts time in query periods: at its end every querier has sent its
  query and every query has arrived or is lost. Queries cross and are reordered
  within a period. A subnet delays no packet for the 10 seconds of a period.
* In `Subnet` delays are exact. `MainLoop` shows that a timer may run about a second
  early or late (`NotEarly`, `NotLate`); between the 1 second of a Join and
  the 3 of a Prune there is as much room as two such errors take, and none for slow
  handlers besides: `NotCutOff` supposes that both do not come together.
* In `Subnet` a second passes when no message is unread and no timer is due: a
  subnet delivers, and the daemons read, within a second. Messages of different routers
  reach each hearer in the order they were sent, each hearer reads at its own pace.
* `Hello` lists the routers that send; the daemon that hears them is not one of them and
  runs until a store through `temp` ends it (`alive`). Routers of another make may say
  goodbye, which this daemon never does; a Hello and a goodbye of one router arrive in
  order. A period has 2 units, so that the holdtime of three and a half has 7.
* In `Walk` an address is one of the packet's own or something else: a read at
  an offset where no group or no source begins is `astray`, and what the handler
  would do with the bytes it finds is left out, so the walk ends there.
* In `MainLoop` a second has `SEC` ticks, the microseconds of `timeval`; the wall
  clock, which an administrator may set back, is taken to go forward only. Without
  any timer select waits for ever and no time is counted.
* `SgLifetime` scales the 298 and 30 seconds of a lifetime and a check to 5 and 2:
  the ratio is not integral, as in the code, so that the last check falls before
  the timeout.

## 3. Runs

| Run | Checks | Instance |
|---|---|---|
| MCCallout | `Callout` implements `Timers`; every timer runs | 3 timers, delays including negative and equal ones |
| MCMrt | kernel = table, lifetime timers set (`EntryExpires`) and no others (`OneLifetime`), Grafts retried, upstream told | 2 interfaces, 1 flow with a next hop, routers and hosts on the outgoing one, batches of two, memory that was not cleared |
| MCMrt2 | refreshes that change several entries, what may stop a flow | 2 sources (one attached), 3 interfaces: interface 3 is the one `refresh_mrt` looks at |
| MCIgmp | `OneRole`, `TakesOver`, `OneCountdown`, `AskedTwice`, `LeaveCompletes` | two lower addresses and a higher one, 2 groups |
| MCElection | `OnePerPeriod`, `OneQuerier`, `LowestElected`, refinement of `Igmp` | 3 routers, 3 crashes, any loss |
| MCHello | `EveryNeighborTimed`, `KeptWhileHeard`, `Converges` | 2 routers, any losses, crashes, restarts and goodbyes, 3 entries in use at once |
| MCSgLifetime | `DeletedWhenIdle`, `IdleEntryGoes` | 2 flows |
| MCSubnet | `NotCutOff`, `ForwardsAgain`, `GraftsEnd` | 2 routers downstream, the delays of the code, 3 changes of their hosts, 2 lost messages |
| MCWalk | `ReadAsSent`, `AckOfFirst`, `NoneTwice` | every packet of up to 2 groups with up to 2 sources, Grafts with 2 Joins and a Prune in 2 groups, acknowledgements of 2 groups with one source and of 1 with up to 3 |
| MCRoute | `UpstreamOnIncoming`, `OnItsSubnet`, `GetsAnswer` | 2 interfaces with subnets of 1 to 8 addresses, some overlapping, one of them perhaps down; a socket for 2 messages |
| MCMainLoop | `NothingLost`, `NotEarly`, `NotLate`, `ShutsDown` | 3 ticks a second, `timer` every 2 seconds and another timer, 1 tick of work between waits |
| CheckGone | what a comment says and the code does not do: section 4 | as MCMrt |

**Bounds.** `MaxN` (timers of one kind for one entry and interface) is 2 where the
question is what a second timer of a kind does, 1 in `MCMrt2`, whose question is the
whole table. `MaxPending` bounds the timers altogether: an entry needs two for its
lifetime, so 4 or 5 leave two or three for the protocol. `MaxHolding` bounds the
`delete_pim_neighbor` timers of an interface. `MaxBatch` is 2 in `MCMrt`, so that the
timeout and the check of the entry can expire together, the one exception
`OneLifetime` names, and 1 in `MCMrt2`, which is about packets. `MaxDrift` bounds
the distance of `outnumber` from 0, which the code lets drift: `del_leaf` and
`refresh_mrt` decrement it whether the interface was counted or not. 1 covers none,
one, and the first value below none; the decisions of `check_pim_state` are at 0 and
1. `MaxId`, `MaxEntry`, `MaxCount` bound the timers ever set, the neighbour entries
alive, and the packets counted. In `Hello` three entries are two that are listed and a
stale timer, or one and two stale ones; a Hello that would need a fourth is lost.
`RouterVif = {2}`: a neighbour on the incoming interface as well multiplies the states
and makes the flow loop, which is described in section 4.

`MaxChanges` and `MaxLost` of `Subnet` allow a router to leave, return and leave again
while messages of each step are lost; a third router downstream overhears what the
second does. `Retry = 3` of `Election` stands for the 31 periods of 10 seconds in the
310 of `retry_query`: enough that the queries of several periods are lost before it
expires, and few enough that they all are; `MaxCrashes = 3` lets every router of three
crash. Three ticks to a second in `MainLoop` are enough for a carry, a borrow, packets
at two places inside a second, and for a timer that runs as early as `NotEarly` allows
(two ticks are not: a bound that is smaller by one holds there, and the attempt to
prove it failed); the delays 0, 1 and 3 are overdue at once, shorter and longer than
`timer`'s 2. `MaxSocket = 2` of `Route` holds one message that is not meant for the
daemon in front of its answer, and overflows.

A step that would leave the bounds is not taken, and a daemon that has crashed or
exited does nothing: hence `CHECK_DEADLOCK FALSE` in the runs with such
bounds or ends; a walk through a packet ends too.

**Fairness.** `Callout`: time passes (the main loop ages the queue whenever a second
has passed) and a batch is run to its end. `Igmp`, `SgLifetime`: a timer that stays
set expires, which is what `Callout` shows of the queue. `MainLoop`: the processor
runs the loop and time passes; nothing is assumed of packets and signals. `Election`:
queries are sent when they are due, those that are not lost arrive, time passes; its
properties assume that crashes and losses end. `Hello`: Hellos are sent when due and
are heard or lost, timers expire, time passes; `Converges` assumes that losses and
crashes end. `Subnet`: messages are read or lost, timers expire, time passes. `Route`:
the daemon reads the messages that are there; `GetsAnswer` supposes that its socket
had room. No host and no other router is ever assumed to speak; the liveness
properties say what happens when they fall silent. `Mrt` is checked for safety only.

## 4. What the code does and its comments do not say

One run ends in a violation. It checks a sentence of the code's own comments.

| Run | The comment | What happens |
|---|---|---|
| CheckGone | a cleared timer is cleared (`callout.c:195`) | `delete_sg` clears a timer of its own batch in vain; `check_sg` runs for an entry that is gone and reads through NULL |

The following is in the models too, which do what the code does, without a run
of its own: it would only say of a property that nobody promised that it does
not hold. A reader who changes this code should know of it.

*Timers whose identifier is overwritten.* `plan_graft` overwrites the identifier of a
chain that is running (`pim.c:1039`), so a Graft-Ack ends one of several, and a Graft
is repeated, and an acknowledgement awaited, by a router whose hosts have left
meanwhile. A second overheard Prune (`pim.c:458`) and a second group-specific query
heard as a non-querier (`igmp.c:279`) do the same with their timers: of two countdowns
for a group one can then let it go early. When two Prunes overlap a Join cancels only
the later (`pim.c:472`), so that a router that wants the flow is cut off until
`prune_time_out`; `NotCutOff` excludes this and `ForwardsAgain` shows that it ends.

*The table.* `del_leaf` does not look for neighbours (`mrt.c:227`); `refresh_mrt`
looks for members and neighbours on interface 3, the value of `DEL_NEIGHBOR`,
whichever interface changed (`mrt.c:253`). A host that joins is recorded in the
newest entry of its group (`mrt.c:205`). `packet_number` is one counter for all
entries (`mrt.c:50`), so a busy flow beside a busier one is taken for idle. An
interface whose word of malloc'ed memory reads 1 forwards for a new entry
(`mrt.c:157`); a Hello makes the incoming interface an outgoing one (`mrt.c:243`).
The loser of an Assert goes on forwarding: the statement is a comment (`pim.c:818`).

*Neighbours and groups.* Deleting the newest neighbour deletes all (`pim.c:245`), and
neither this nor a goodbye (`pim.c:295`) clears the timers of what is deleted. A timer
of an entry that is off the list removes the entry its address has when it fires,
whose own timer is then such a timer: from the first on, the routers of the subnet go
and come back with their next Hello, again and again. `KeptWhileHeard` therefore says
what holds until there is one, and `Converges` that a router that runs is always known
again. A group whose hosts vanish without a Leave stays (`igmp.c:330`). When the
lowest querier has died, any query restarts the wait for it (`igmp.c:239-268`): a
higher router that has taken over goes on querying and the others wait for the dead
one. `OneQuerier` holds all the same, `LowestElected` only as long as no router
crashes.

*Packets.* A Join/Prune with several sources in one group, one of which the router
knows and which is not the last, is read from the wrong place after it
(`pim.c:558`). The number of sources of a Graft-Ack is not converted from network
order (`pim.c:946`), so 256 times as many are read as there are. The cursor stays at
the first source that has an entry, which is acknowledged for all of them: the others
of a longer message are not, and their Grafts are repeated. When none has an entry, the
cursor goes past each and out of the packet. That takes no mistake of the neighbour:
the only source of the daemon's own Graft may time out before the answer comes. The
other 255 sources are then read from what earlier packets left in the receive buffer,
and may end the retries of another Graft for the same group. `AckOfFirst` says exactly which
messages lead there. `Walk` stops at that point; in `Mrt` an acknowledgement of any
flow may come at any time, with or without a Graft, so that its properties cover what
is then read.

*Routes.* A full routing socket drops the answer the daemon is waiting for, which
then waits for ever (`route.c:55`). No route to a source ends the daemon
(`route.c:74`). A route that changes between the two questions of an upcall makes an
entry whose upstream is on another interface.

## 5. Proofs

| Theorem | For every value of the constants |
|---|---|
| `CalloutProofs!CalloutTypeCorrect` | `Callout!TypeOK` |
| `CalloutProofs!CalloutImplementsTimers` | `ImplementsTimers`: the queue of relative offsets keeps every deadline as if it were stored alone |
| `MrtProofs!MrtTypeCorrect` | `Mrt!TypeOK` |
| `MrtProofs!MrtMfcMatches` | `MfcMatches`: the kernel's cache is the copy of the table |
| `MrtProofs!MrtEntryExpires`, `MrtGraftRetried` | `EntryExpires`, `GraftRetried`: the timers an entry names are outstanding |
| `MrtProofs!MrtOneLifetime` | `OneLifetime`, for any size of a batch: an entry loses hold of its two timers only by both expiring together |
| `MrtProofs!MrtOnlyPruneStops` | `OnlyPruneStops` |
| `MrtProofs!MrtUpstreamIsTold` | `UpstreamIsTold` |
| `IgmpProofs!IgmpTypeCorrect` | `Igmp!TypeOK` |
| `IgmpProofs!IgmpOneRole` | `OneRole` |
| `IgmpProofs!IgmpOneCountdown`, `IgmpAskedTwice` | `OneCountdown` and `AskedTwice`, for the groups no other router has asked for |
| `ElectionProofs!ElectionTypeCorrect` | `Election!TypeOK` |
| `ElectionProofs!ElectionOnePerPeriod` | `OnePerPeriod`: a clean period leaves one querier at most |
| `ElectionProofs!ElectionEachIsIgmp` | `EachIsIgmp`: each router implements `Igmp` |
| `NeighborProofs!NeighborTypeCorrect` | `Neighbor!TypeOK` |
| `NeighborProofs!NeighborEveryNeighborTimed` | `EveryNeighborTimed` |
| `NeighborProofs!HelloEveryNeighborTimed` | `Hello!HelloTypeOK` and `EveryNeighborTimed` of the subnet with time |
| `NeighborProofs!HelloKeptWhileHeard` | `KeptWhileHeard` |
| `EntryProofs!SgLifetimeTypeCorrect` | `SgLifetime!LifetimeTypeOK` |
| `EntryProofs!SgLifetimeDeletedWhenIdle` | `DeletedWhenIdle` |
| `JoinPruneProofs!WalkTypeCorrect` | `Walk!TypeOK` |
| `JoinPruneProofs!WalkNoneTwice`, `WalkAckOfFirst` | `NoneTwice`, `AckOfFirst` (for the 1 to 255 sources of one group that a frame can hold) |
| `JoinPruneProofs!WalkReadAsSent` | `ReadAsSent`: every source is understood as it was sent, in packets with one source for each group or with sources nobody knows |
| `JoinPruneProofs!SubnetTypeCorrect` | `Subnet!SubnetTypeOK` |
| `JoinPruneProofs!SubnetNotCutOff` | `NotCutOff`: however Prunes, echoes, Joins and Grafts cross, a router that wants the flow is not cut off |
| `EntryProofs!RouteTypeCorrect` | `Route!TypeOK` |
| `EntryProofs!RouteUpstreamOnIncoming`, `RouteOnItsSubnet` | `UpstreamOnIncoming`, `OnItsSubnet` |
| `MainLoopProofs!MainLoopTypeCorrect` | `MainLoop!TypeOK` |
| `MainLoopProofs!MainLoopNothingLost` | `NothingLost` |
| `MainLoopProofs!MainLoopNotEarly`, `MainLoopNotLate` | `NotEarly`, `NotLate`: a timer runs within a second and three times `MaxBusy` of its deadline |

*Assumptions.* One named assumption in each module (`MrtAssumption`, ...), which TLC
evaluates in the runs: the sets are what their names say, bounds are positive,
addresses are positive numbers; in `SgLifetime` that a check does not fall together
with the timeout, in `Hello` that holdtimes are more than three periods, in `Subnet`
that a Join is sent sooner after it is planned than a Prune is carried out (1 second
and 3), in `Route` nothing of whether subnets overlap. A proof module that extends two
modules has the assumptions of both, and no theorem of it is about both. The bounds
are constants like any other, so the theorems hold for any number of interfaces,
sources, groups, routers, pending timers and any size of a batch. The delays `Callout`
is asked for may be -1, as that of a Hello without holdtime. The type invariants of
`Election`, `MainLoop`, `Neighbor`, `Hello`, `SgLifetime`, `Walk` and `Route` are
proved and not run again.

*`CalloutImplementsTimers`*. The queue is `Sorted`: by deadline, which is the sum of
the offsets up to a timer, by identifier among equals, and no identifier twice. The
sums are a recursive function of the queue; `SumsExist` and `DueAgrees` say of it what
is needed, by induction over the naturals (`NatMin`, `NatAll`). Then each operation is
described by what it does to the deadlines (`Inserted`, `Removed`, `Shortened`: a
timer that is put in or taken out corrects the offset behind it and moves no other
deadline), next by what that does to the order and to the time each timer has left
(`SetKeeps`, `ClearKeeps`, `ElapseKeeps`), and the steps follow. The batch is in the
order of `Timers!InOrder` because the queue was.

*`MrtTypeCorrect`* is inductive as it stands. Its work is in the lemmas:
`GraftIdsExist` (as many free identifiers as calls of `plan_graft` make a set of
that size, by a bijection with an initial segment of the naturals),
`CheckPimState` (it keeps the types and touches nothing of an entry but its Graft
timer), `Deletion` (what `delete_sg` leaves of the list).

*`MrtMfcMatches`* needs the invariant `ListedOnce /\ MfcMatches` on top of
`TypeOK`: were an entry on the list twice, deleting it would take it out of the
kernel and leave it in the table. `KernelFollows` is the argument for handlers that
call `change_mfc`: all entries whose interfaces or parent changed are among those copied.
`KernelUntouched` is the one for the others. For `refresh_mrt` this is the point:
exactly the entries that were muted (or are without members) are copied.

*`MrtEntryExpires`* and *`MrtGraftRetried`* rest on one invariant, `TimersWait`: of every
entry in the table the timeout, the check and, if one is remembered, the Graft timer are
`Outstanding`, set or in the batch. It is inductive with `TypeOK` and `ListedOnce` only
for the three together, since the identifiers of different functions are what keeps
`timer_clearTimer` for one from another's timer (`WaitsStays`).

*`MrtOneLifetime`* is the converse, of one step: when no outstanding timeout or check is
`LeftOver` (every one is that of its entry), none is after the step, unless the timeout
and the check of the entry were in one batch. It needs `Plain` (such a timer is known by
its identifier, and is not in the queue while it runs). Most steps leave both functions
alone (`Untouched`); `TimeoutKeeps` and `CheckKeeps` are where the exception comes from.
`CheckGone` shows what it leads to.

*`MrtOnlyPruneStops`*. A step that leaves `mfc` alone stops nothing, by `MfcMatches`
before and after it. The others are taken one by one; in `refresh_mrt` the interface
that is looked at for members is 3, which has some.

*`MrtUpstreamIsTold`* needs besides `TypeOK` and `ListedOnce` only that the incoming
interface of an entry is the one of its source. `Told` is shown of `check_pim_state` once,
and of the steps that run it over several entries from the set of messages they send.

*`IgmpOneRole`* is inductive with `TypeOK`. *`IgmpOneCountdown`* holds of every group
until another router asks for it: every step but that one clears the countdown it
replaces, whichever role the router has. *`IgmpAskedTwice`* adds `CountedQueries`:
behind the countdown value 1 there is one query, behind 0 and -1 there are two, and 2
is never the value of a group that is being left.

*`ElectionOnePerPeriod`*. The invariant `HigherTold` says of a period without a loss or a
restart: of two routers of which the lower is a querier, the lower has yet to send its
query, or it is on its way to the higher, or the higher has heard it, is no querier and
will not be one in this period, for its retry timer was restarted. When nothing is due
and no query is under way only the last is left, so no two are queriers.

*`ElectionEachIsIgmp`*. An initial state maps to an initial state of every `Node(r)`; a
step that changes `querier[r]` is `r`'s own timer or the reading of a query by `r`, a step
of `Igmp`, or a crash, after which `r` is not up and in an initial state again. Reading
needs that no router hears itself (`NoEcho`).

*`NeighborEveryNeighborTimed`* is inductive with `TypeOK`: a new entry is one no timer
knows, and an entry whose timer expires is the only one of its address, so it is the
one `delete_pim_neighbor` finds. `EntryAtFinds` shows that the search ends,
`DeleteLeaves` what is left of the list.

*`HelloKeptWhileHeard`*. `Timed`: the timer of a listed router of which fewer than
three Hellos were lost has left the holdtime, less a period for each that was lost,
less what has passed of the current one; that is more than nothing. What a Hello does
to the list of the others is `ReceiveKeeps`. `HelloEveryNeighborTimed` carries the
invariant of `Neighbor` over, step by step.

*`SgLifetimeDeletedWhenIdle`*. `InStep` relates the two timers of an entry and its run
of idle checks: what is left of the timeout is the timeout, less the checks since the last
busy one, plus what is left of the next. The rest is arithmetic: the checks that fit
into the timeout (`ChecksFit`).

*`WalkNoneTwice`*. The cursor never goes back and goes on after every source of a
Join/Prune, so the positions of the sources handled increase (`Passed`), and no source
has two. The proof needs nothing of where the groups are, a recursive function of the
packet. *`WalkAckOfFirst`* does for one group (`FirstGroupAt`): `ReadUpTo` says that the
cursor is at a source, before which none has an entry, and that either every read so far
has passed one source or the present one has been found. Since there are 256 times as
many reads as sources, a walk that ends has found one, and a walk that leaves the packet
has none to find.

*`WalkReadAsSent`* is about where the groups are. `GroupAtIs` and `SentUptoIs` say
what the two recursive functions of the packet are, by induction over the groups: the
least of the natural numbers for which a lemma fails (`WFMin` of the library's sets
without an operator as a parameter; `NatMin`, `NatAll`). The invariant `AsSent` says
that what has been read is what was sent in the groups before the cursor (`SentUpto`),
and of a group whose source is about to be read that the cursor is where the source is
(`Reading`). The proof showed a hypothesis that was missing: a Graft has no Prunes.
`receive_pim_graft` goes past the group and its Joins only, and a Graft with a Prune
would be read from the wrong place from there on. This daemon sends none.

*`SubnetNotCutOff`*. `NotCutOff` says of a flow that is not forwarded that a Graft is
on its way; the invariant `Covered` says of a flow that is how it stays so. There is
one delayed Prune at most, the one remembered (`OnePrune`), and for each router that
wants the flow (`Safe`): a Graft of it or somebody's Join is unread upstream; or it
has a timer for a Join that is earlier than the Prune, which no Join it has yet to
read will clear (`Joining`); or there is enough time for such a timer, and it has yet
to read the Prune or the echo, both as long as neither is lost, with no Join behind
(`Answers`). A Prune the upstream router has not read yet is harmless if a Graft or a
Join comes after it, or one of the two that the router hears remains (`SafeUnread`:
its echo is sent when it is read). What one more message at the end of a queue and one
less at its head do to this is said once (`AppendedIn`, `TailIn`, `AppendedAnswers`,
`TailAnswers`). A second can only pass when nothing is unread: then a timer for a Join
is what is left, and it keeps its lead. That the free identifier of a new timer exists
is `NewIdIs`, by counting.

*`RouteUpstreamOnIncoming`*. `OneAnswer`: while the daemon waits there is at most one
message meant for it in the socket, which holds the route unless that has changed;
`Checked`: between the two questions the first answer has led to the interface of the
upcall. *`RouteOnItsSubnet`* is about the searches only (`FirstOf`: they end; `Searches`).

*`MainLoopNothingLost`* needs that the timeout which is added to `lasttime` without
looking at the clock has passed since then (`WaitedIsLag`, `TimeoutPassed`); otherwise
time would be counted that has not been.

*`MainLoopNotEarly`*, *`MainLoopNotLate`*. The invariant `Times` has three parts:
`LagInv`, how far `lasttime` may be behind the clock at each place of the loop; `Due`,
that the deadline of a timer that is set differs from its seconds in the queue by what
the queue is behind, and by the lag at most; `Batch`, the same for a timer once it is
in the batch. The proof is what showed that the bound of `NotEarly` is attained.

*Only model-checked.* The liveness properties (fairness and ENABLED are out of the
prover's reach): `EveryTimerRuns`, `TakesOver` and `LeaveCompletes`, `OneQuerier`,
`LowestElected`, `Converges`, `IdleEntryGoes`, `ForwardsAgain`, `GraftsEnd`, `GetsAnswer`,
`ShutsDown`. Every safety property of a run that passes is a theorem.

## 6. Not modelled

* `inet.c` (formatting of addresses, checksum) and `debug.c` (the log): pure functions
  and output.
* The checks of raw packets in `igmp_input` and the dispatch on their types. The
  holdtime of a Prune, which is the number of an interface (`mrt.c:19` passes an argument
  too many): no receiver reads it.
* Reading the interfaces from the kernel at the start (`vif.c:20-139`), and the
  socket options set once by `kern.c`.
* The memory of the IGMP group list (`igmp.c:337`, `igmp.c:381`): the outcome of a read
  through a stale pointer is arbitrary, and nothing could be stated of it.
* Failures of the system calls. When `setsockopt` fails, `change_mfc` and `delete_mfc`
  log it and go on (`kern.c:133-137`, `kern.c:169-173`), and the kernel differs from the
  table until the next change: `MfcMatches` supposes that it does not. When `read` fails
  in `get_upstream` (`route.c:56-61`) the daemon's own request, still in the buffer, ends
  the loop as its answer would, and there is no route.
* Upcalls that were queued behind one for the same flow: two entries of one (S,G).
* The `.bak` files are earlier copies that are not built.

## 7. Plan

Done, in this order: `Timers`/`Callout`, `Mrt` with its runs, `Igmp`, `Neighbor`,
`SgLifetime`, then `MainLoop`, `Election`, `Subnet`, `Walk`, `Route`, `Hello`, with proofs
about every module but `Timers`.

Next, by importance:

1. `Router`: `Mrt`, `Igmp` and `Neighbor` composed, upcalls queued and duplicated.
2. `GroupList`: the list of groups against the abstract specification "a set of
   groups", as far as memory that is read before it is written allows.
