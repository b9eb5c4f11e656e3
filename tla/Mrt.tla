-------------------------------- MODULE Mrt ---------------------------------
(***************************************************************************)
(* The multicast routing table of the daemon (mrt.c) with the PIM-DM       *)
(* handlers that work on it (pim.c), the kernel upcalls that fill it       *)
(* (multicastpacket.c) and the kernel's forwarding cache it is copied to   *)
(* (change_mfc, delete_mfc in kern.c).                                     *)
(*                                                                         *)
(* The daemon is one thread: a packet handler runs to its end, and so does *)
(* a batch of expired timers (module Callout).  Time is not measured here: *)
(* any pending timer may be the next to expire, and up to MaxBatch timers  *)
(* may expire together when the main loop was late.  IGMP membership and   *)
(* PIM neighbours enter through the calls igmp.c and pim.c make.           *)
(***************************************************************************)
EXTENDS Integers, Sequences, FiniteSets

CONSTANTS
  MaxVif,      \* maxvif: interfaces are numbered 1..MaxVif
  HostVif,     \* interfaces with hosts that join and leave groups
  RouterVif,   \* interfaces with other PIM routers
  Source,      \* addresses of multicast sources, as integers in host order
  Group,
  Incoming,    \* get_incoming_vif: the interface towards each source
  NextHop,     \* get_upstream: the next hop towards each source, the source
               \* itself when it is directly attached
  StaleWords,  \* sets of interfaces whose outvif word may read 1 in the
               \* memory malloc returned, before it is written
  StaleNext,   \* whether the next pointer malloc returned may be NULL (TRUE)
               \* or wild (FALSE)
  MaxN,        \* bound: timers of one kind for one entry and interface
  MaxPending,  \* bound: timers altogether
  MaxHolding,  \* bound: delete_pim_neighbor timers of one interface
  MaxBatch,    \* bound: timers that expire together
  MaxDrift     \* bound: distance of outnumber from 0

Vif == 1..MaxVif
SG == Source \X Group
NoId == 0
TimerId == 0..MaxN

ASSUME MrtAssumption ==
  /\ MaxVif \in Nat \ {0}
  /\ HostVif \subseteq Vif /\ RouterVif \subseteq Vif
  /\ Source \subseteq Nat \ {0}
  /\ Incoming \in [Source -> Vif]
  /\ NextHop \in [Source -> Nat \ {0}]
  /\ StaleWords \subseteq SUBSET Vif
  /\ StaleNext \subseteq BOOLEAN
  /\ {MaxN, MaxPending, MaxHolding, MaxBatch, MaxDrift} \subseteq Nat \ {0}

VARIABLES
  themrt,    \* the list, newest entry first, as a sequence of (S,G)
  mrt,       \* the struct mrt of each (S,G)
  mfc,       \* the kernel's forwarding cache
  timers,    \* the callout queue
  expired,   \* the batch age_callout_queue is running
  groups,    \* myvifs[].groups, the groups with members on each interface
  neighbor,  \* whether myvifs[].neighbor is not NULL
  holding,   \* the delete_pim_neighbor timers set on each interface
  sent,      \* the PIM messages sent in the last step
  alive      \* FALSE once the daemon has crashed

tables == <<themrt, mrt, mfc>>
hosts == <<groups, neighbor, holding>>
vars == <<themrt, mrt, mfc, timers, expired, hosts, sent, alive>>

-----------------------------------------------------------------------------
Judge == {"ADD_LEAF", "DEL_LEAF", "ADD_NEIGHBOR", "DEL_NEIGHBOR"}
DEL_NEIGHBOR == 3

(* What upstream holds: the next hop, or the source after a lost Assert.   *)
Hop == Source \union {NextHop[s] : s \in Source}

MrtEntry ==
  [incoming : Vif,
   upstream : Hop,
   outvif : [Vif -> {0, 1}],
   outnumber : Int,
   join_delay_timer_id : TimerId,
   prune_delay_timer_id : [Vif -> TimerId],
   graft_timer_id : TimerId,
   timeout_id : TimerId,
   check_timerid : TimerId]

MfcEntry == [parent : Vif, ttls : [Vif -> {0, 1}]]
NoMfc == [parent |-> 0]

Func == {"send_join", "set_prune", "prune_time_out", "active_forward",
         "plan_graft", "handle_sg_timeout", "check_sg"}

(* A timer: its function, the (S,G) and interface it is for (0 if none),   *)
(* its identifier among the timers of one slot, and, for plan_graft, which *)
(* holds a pointer, whether the struct it points to has been unlinked: 0   *)
(* while it is in the table, afterwards the upstream field it was left     *)
(* with.                                                                   *)
Timer == [func : Func, sg : SG, vif : 0..MaxVif, n : 1..MaxN,
          old : {0} \union Hop]

Message == [type : {"prune", "join", "graft", "graft_ack", "assert", "echo"},
            sg : SG, vif : Vif]

TypeOK ==
  /\ themrt \in Seq(SG)
  /\ mrt \in [SG -> MrtEntry]
  /\ mfc \in [SG -> MfcEntry \union {NoMfc}]
  /\ timers \subseteq Timer
  /\ expired \subseteq Timer
  /\ groups \in [Vif -> SUBSET Group]
  /\ neighbor \in [Vif -> BOOLEAN]
  /\ holding \in [Vif -> 0..MaxHolding]
  /\ sent \subseteq Message
  /\ alive \in BOOLEAN

InTable(sg) == \E i \in 1..Len(themrt) : themrt[i] = sg

Blank(sg) ==
  [incoming |-> Incoming[sg[1]],
   upstream |-> NextHop[sg[1]],
   outvif |-> [v \in Vif |-> 0],
   outnumber |-> 0,
   join_delay_timer_id |-> NoId,
   prune_delay_timer_id |-> [v \in Vif |-> NoId],
   graft_timer_id |-> NoId,
   timeout_id |-> NoId,
   check_timerid |-> NoId]

Init ==
  /\ themrt = << >>
  /\ mrt = [sg \in SG |-> Blank(sg)]
  /\ mfc = [sg \in SG |-> NoMfc]
  /\ timers = {}
  /\ expired = {}
  /\ groups = [v \in Vif |-> {}]
  /\ neighbor = [v \in Vif |-> FALSE]
  /\ holding = [v \in Vif |-> 0]
  /\ sent = {}
  /\ alive = TRUE

-----------------------------------------------------------------------------
(* Timers.  set_prune and active_forward are kept in the same field of     *)
(* struct mrt, every other function has a field of its own.                *)
Slot(f) == IF f = "active_forward" THEN "set_prune" ELSE f

FreeIds(pending, f, sg, v) ==
  {n \in 1..MaxN : \A t \in pending :
     ~(Slot(t.func) = Slot(f) /\ t.sg = sg /\ t.vif = v /\ t.n = n)}

NewId(pending, f, sg, v) == CHOOSE n \in FreeIds(pending, f, sg, v) : TRUE

NewTimer(pending, f, sg, v) ==
  [func |-> f, sg |-> sg, vif |-> v, n |-> NewId(pending, f, sg, v), old |-> 0]

CanSet(pending, f, sg, v) == FreeIds(pending, f, sg, v) # {}

(* timer_clearTimer of the identifier kept in a slot; it reaches the queue, *)
(* never the batch that is being run.                                       *)
Cleared(pending, f, sg, v, n) ==
  {t \in pending : ~(Slot(t.func) = Slot(f) /\ t.sg = sg /\ t.vif = v
                       /\ t.n = n /\ t.old = 0)}

-----------------------------------------------------------------------------
(* change_mfc: copy the entry's outgoing interfaces into the kernel; and   *)
(* the slip of giving it the upstream address for the incoming interface.  *)
MfcOfUpstream(e) == [parent |-> e.upstream, ttls |-> e.outvif]

MfcOf(e) == [parent |-> e.incoming, ttls |-> e.outvif]

Upstream(m, sg) == m[sg].upstream
Attached(m, sg) == m[sg].upstream = sg[1]

ToUpstream(type, m, S) ==
  {[type |-> type, sg |-> sg, vif |-> m[sg].incoming] : sg \in S}

(* plan_graft on the entries S, k[sg] times each: every call sends a Graft *)
(* and sets a timer, and the last one set is remembered in the entry.      *)
GraftIds(pending, sg, k) ==
  CHOOSE ids \in SUBSET FreeIds(pending, "plan_graft", sg, 0) :
    Cardinality(ids) = k

CanGraft(pending, k) ==
  \A sg \in SG : Cardinality(FreeIds(pending, "plan_graft", sg, 0)) >= k[sg]

GraftTimers(pending, k) ==
  UNION {{[func |-> "plan_graft", sg |-> sg, vif |-> 0, n |-> n, old |-> 0] :
            n \in GraftIds(pending, sg, k[sg])} : sg \in SG}

Grafted(m, pending, k) ==
  [sg \in SG |->
     IF k[sg] = 0 THEN m[sg]
     ELSE [m[sg] EXCEPT !.graft_timer_id =
                          CHOOSE n \in GraftIds(pending, sg, k[sg]) : TRUE]]

(* check_pim_state over the whole table m: Prunes for the entries without  *)
(* outgoing interfaces after a loss, Grafts for those that count exactly   *)
(* one after a gain.  pending are the timers that are set, batch those     *)
(* that have expired and are still to be run.                              *)
Pruning(m, judge) ==
  {sg \in SG : /\ InTable(sg) /\ ~Attached(m, sg) /\ m[sg].outnumber = 0
               /\ judge \in {"DEL_LEAF", "DEL_NEIGHBOR"}}

Grafting(m, judge) ==
  {sg \in SG : /\ InTable(sg) /\ ~Attached(m, sg) /\ m[sg].outnumber = 1
               /\ judge \in {"ADD_LEAF", "ADD_NEIGHBOR"}}

Calls(S) == [sg \in SG |-> IF sg \in S THEN 1 ELSE 0]

check_pim_state(m, pending, batch, judge) ==
  LET k == Calls(Grafting(m, judge))
      busy == pending \union batch
  IN  /\ CanGraft(busy, k)
      /\ mrt' = Grafted(m, busy, k)
      /\ timers' = pending \union GraftTimers(busy, k)
      /\ sent' = ToUpstream("prune", m, Pruning(m, judge))
                   \union ToUpstream("graft", m, Grafting(m, judge))

Small(m) == \A sg \in SG : m[sg].outnumber \in -MaxDrift..MaxDrift

(* The bounds, checked on the outcome of every step.                       *)
Bounded ==
  /\ Small(mrt')
  /\ Cardinality(timers' \union expired') <= MaxPending

(* change_mfc for the entries S; and the slip of calling it too early.     *)
change_mfc_early(S) ==
  mfc' = [sg \in SG |-> IF sg \in S THEN MfcOf(mrt[sg]) ELSE mfc[sg]]

change_mfc(S) ==
  mfc' = [sg \in SG |-> IF sg \in S THEN MfcOf(mrt'[sg]) ELSE mfc[sg]]

(* Handlers of packets and upcalls run between two batches.                *)
Idle == alive /\ expired = {}

Packet == Idle /\ UNCHANGED <<expired, hosts, alive>>

-----------------------------------------------------------------------------
(* Upcalls of the kernel (multicast_packet_error).                         *)

(* add_sg.  outnumber counts the interfaces with a neighbour or a member;  *)
(* outvif also reads 1 where the new memory already did.                   *)
Wanted(sg) ==
  {v \in Vif \ {Incoming[sg[1]]} : neighbor[v] \/ sg[2] \in groups[v]}

NewEntry(sg, stale) ==
  [Blank(sg) EXCEPT
     !.outvif = [v \in Vif |->
                   IF v \in Wanted(sg) \union (stale \ {Incoming[sg[1]]})
                   THEN 1 ELSE 0],
     !.outnumber = Cardinality(Wanted(sg)),
     !.timeout_id = NewId(timers, "handle_sg_timeout", sg, 0),
     !.check_timerid = NewId(timers, "check_sg", sg, 0)]

add_sg(sg, stale) ==
  LET m == [mrt EXCEPT ![sg] = NewEntry(sg, stale)]
      remote == IF Attached(m, sg) THEN {} ELSE {sg}
      grafts == IF m[sg].outnumber # 0 THEN remote ELSE {}
      pending == timers \union {NewTimer(timers, "handle_sg_timeout", sg, 0),
                                NewTimer(timers, "check_sg", sg, 0)}
  IN  /\ CanSet(timers, "handle_sg_timeout", sg, 0)
      /\ CanSet(timers, "check_sg", sg, 0)
      /\ CanGraft(timers, Calls(grafts))
      /\ themrt' = <<sg>> \o themrt
      /\ mrt' = Grafted(m, timers, Calls(grafts))
      /\ timers' = pending \union GraftTimers(timers, Calls(grafts))
      /\ sent' = ToUpstream("graft", m, grafts)
                   \union ToUpstream("prune", m, remote \ grafts)
      /\ IF themrt = << >> THEN alive' \in StaleNext ELSE alive' = TRUE

(* Message 1: a packet of a flow the kernel has no entry for, from the     *)
(* interface towards its source (from any other it is ignored).            *)
NoCacheUpcall(sg, stale) ==
  /\ Idle
  /\ mfc[sg] = NoMfc /\ ~InTable(sg)
  /\ add_sg(sg, stale)
  /\ change_mfc({sg})
  /\ UNCHANGED <<expired, hosts>>
  /\ Bounded

(* Message 2: a packet of a known flow on another interface.               *)
WrongVifUpcall(sg, v) ==
  /\ Packet
  /\ InTable(sg)
  /\ v # mfc[sg].parent
  /\ mrt[sg].outnumber # 0
  /\ sent' = {[type |-> "assert", sg |-> sg, vif |-> v]}
  /\ UNCHANGED <<tables, timers>>

-----------------------------------------------------------------------------
(* Membership (calls from igmp.c, which changes groups first).             *)
Position(sg) == CHOOSE i \in 1..Len(themrt) : themrt[i] = sg

OfGroup(g) == {i \in 1..Len(themrt) : themrt[i][2] = g}

(* find_sg_group: the first entry of the group.                            *)
find_sg_group(g) ==
  themrt[CHOOSE i \in OfGroup(g) : \A j \in OfGroup(g) : i <= j]

(* An interface is turned on, and counted unless it was on already; or it  *)
(* is turned off, and discounted whether it was on or not.                 *)
Counted(e, v) ==
  [e EXCEPT !.outvif[v] = 1, !.outnumber = @ + 1 - e.outvif[v]]

Discounted(e, v) == [e EXCEPT !.outvif[v] = 0, !.outnumber = @ - 1]

add_leaf(v, g) ==
  /\ Idle
  /\ g \notin groups[v]
  /\ groups' = [groups EXCEPT ![v] = @ \union {g}]
  /\ \/ /\ OfGroup(g) = {}
        /\ sent' = {}
        /\ UNCHANGED <<tables, timers>>
     \/ /\ OfGroup(g) # {}
        /\ LET sg == find_sg_group(g)
               m == [mrt EXCEPT ![sg] = Counted(@, v)]
           IN  /\ check_pim_state(m, timers, expired, "ADD_LEAF")
               /\ change_mfc({sg})
        /\ UNCHANGED themrt
  /\ UNCHANGED <<expired, neighbor, holding, alive>>
  /\ Bounded

(* Called by a timer of igmp.c, hence possibly between two functions of a  *)
(* batch.                                                                  *)
del_leaf(v, g) ==
  /\ alive
  /\ g \in groups[v]
  /\ groups' = [groups EXCEPT ![v] = @ \ {g}]
  /\ \/ /\ OfGroup(g) = {}
        /\ sent' = {}
        /\ UNCHANGED <<tables, timers>>
     \/ /\ OfGroup(g) # {}
        /\ LET sg == find_sg_group(g)
               m == [mrt EXCEPT ![sg] = Discounted(@, v)]
           IN  /\ check_pim_state(m, timers, expired, "DEL_LEAF")
               /\ change_mfc({sg})
        /\ UNCHANGED themrt
  /\ UNCHANGED <<expired, neighbor, holding, alive>>
  /\ Bounded

-----------------------------------------------------------------------------
(* Neighbours (refresh_mrt).  It calls check_pim_state after each entry it *)
(* changes, so an entry is looked at once per change, before and after its *)
(* own turn.                                                               *)
Listed == {themrt[i] : i \in 1..Len(themrt)}

Muted(v) == {i \in 1..Len(themrt) : mrt[themrt[i]].outvif[v] = 0}

Opened(v) ==
  [sg \in SG |->
     IF InTable(sg) /\ mrt[sg].outvif[v] = 0
     THEN Counted(mrt[sg], v)
     ELSE mrt[sg]]

(* outnumber of the entry sg when the turn of the i-th entry is over; and  *)
(* before it, as if the check came first.                                  *)
NumberBefore(m, sg, i) ==
  IF Position(sg) < i THEN m[sg].outnumber ELSE mrt[sg].outnumber

NumberAt(m, sg, i) ==
  IF Position(sg) <= i THEN m[sg].outnumber ELSE mrt[sg].outnumber

GraftCalls(v) ==
  [sg \in SG |->
     IF InTable(sg) /\ ~Attached(mrt, sg)
     THEN Cardinality({i \in Muted(v) : NumberAt(Opened(v), sg, i) = 1})
     ELSE 0]

refresh_mrt_ADD(v) ==
  LET k == GraftCalls(v)
      busy == timers \union expired
  IN  /\ CanGraft(busy, k)
      /\ mrt' = Grafted(Opened(v), busy, k)
      /\ timers' = timers \union GraftTimers(busy, k)
      /\ sent' = ToUpstream("graft", mrt, {sg \in SG : k[sg] > 0})
      /\ change_mfc({themrt[i] : i \in Muted(v)})
      /\ UNCHANGED themrt

(* It looks for members and neighbours on myvifs[i], and i is the constant *)
(* DEL_NEIGHBOR, not the interface that lost its neighbour; and the slip   *)
(* of an interface number that is one too low.                             *)
MembersAtLast(g) == g \in groups[MaxVif - 1]

MembersAt3(g) == DEL_NEIGHBOR \in Vif /\ g \in groups[DEL_NEIGHBOR]

Closed(v) ==
  [sg \in SG |->
     IF InTable(sg) /\ ~MembersAt3(sg[2])
     THEN Discounted(mrt[sg], v)
     ELSE mrt[sg]]

refresh_mrt_DEL(v) ==
  LET kept == DEL_NEIGHBOR \in Vif /\ neighbor'[DEL_NEIGHBOR]
      turns == {i \in 1..Len(themrt) : ~MembersAt3(themrt[i][2])}
      dry == {sg \in Listed :
                /\ ~Attached(mrt, sg)
                /\ \E i \in turns : NumberAt(Closed(v), sg, i) = 0}
  IN  IF kept
      THEN sent' = {} /\ UNCHANGED <<mrt, mfc>>
      ELSE /\ mrt' = Closed(v)
           /\ sent' = ToUpstream("prune", mrt, dry)
           /\ change_mfc({themrt[i] : i \in turns})

(* add_pim_neighbor.                                                       *)
AddNeighbor(v) ==
  /\ Idle
  /\ holding[v] < MaxHolding
  /\ neighbor' = [neighbor EXCEPT ![v] = TRUE]
  /\ holding' = [holding EXCEPT ![v] = @ + 1]
  /\ refresh_mrt_ADD(v)
  /\ UNCHANGED <<expired, groups, alive>>
  /\ Bounded

(* delete_pim_neighbor: deleting the head of the list empties it, deleting *)
(* another entry leaves the head; and one that is no longer listed still   *)
(* has the table refreshed.                                                *)
delete_pim_neighbor(v) ==
  /\ \E left \in {FALSE, neighbor[v]} :
       neighbor' = [neighbor EXCEPT ![v] = left]
  /\ refresh_mrt_DEL(v)
  /\ UNCHANGED <<themrt, timers, expired, groups, alive>>
  /\ Bounded

(* A Hello with holdtime 0 deletes the neighbour and leaves its timer set. *)
Goodbye(v) ==
  /\ Idle
  /\ neighbor[v]
  /\ delete_pim_neighbor(v)
  /\ UNCHANGED holding

(* The timer, possibly between two functions of a batch.                   *)
NeighborTimesOut(v) ==
  /\ alive
  /\ holding[v] > 0
  /\ holding' = [holding EXCEPT ![v] = @ - 1]
  /\ delete_pim_neighbor(v)

-----------------------------------------------------------------------------
(* Join, Prune, Graft and Assert packets from interface v about the entry  *)
(* sg; packets about an entry that is not in the table change nothing      *)
(* (a Graft is acknowledged all the same).                                 *)

(* A Join for another router: ours is superfluous.                         *)
OverheardJoin(v, sg) ==
  /\ Packet
  /\ InTable(sg) /\ neighbor[v]
  /\ mrt[sg].join_delay_timer_id # NoId
  /\ timers' = Cleared(timers, "send_join", sg, 0, mrt[sg].join_delay_timer_id)
  /\ mrt' = [mrt EXCEPT ![sg].join_delay_timer_id = NoId]
  /\ sent' = {}
  /\ UNCHANGED <<themrt, mfc>>

(* A Prune for another router: schedule_join if we still forward.          *)
OverheardPrune(v, sg) ==
  /\ Packet
  /\ InTable(sg) /\ neighbor[v]
  /\ mrt[sg].outnumber # 0 /\ ~Attached(mrt, sg)
  /\ CanSet(timers, "send_join", sg, 0)
  /\ timers' = timers \union {NewTimer(timers, "send_join", sg, 0)}
  /\ mrt' = [mrt EXCEPT ![sg].join_delay_timer_id =
                          NewId(timers, "send_join", sg, 0)]
  /\ sent' = {}
  /\ UNCHANGED <<themrt, mfc>>
  /\ Bounded

(* A Join for us takes back the Prune that is waiting.                     *)
RecvJoin(v, sg) ==
  /\ Packet
  /\ InTable(sg)
  /\ mrt[sg].prune_delay_timer_id[v] # NoId
  /\ timers' = Cleared(timers, "set_prune", sg, v,
                       mrt[sg].prune_delay_timer_id[v])
  /\ mrt' = [mrt EXCEPT ![sg].prune_delay_timer_id[v] = NoId]
  /\ sent' = {}
  /\ UNCHANGED <<themrt, mfc>>

(* A Prune for us is echoed, and schedule_prune lets other routers object. *)
RecvPrune(v, sg) ==
  /\ Packet
  /\ InTable(sg) /\ ~Attached(mrt, sg)
  /\ CanSet(timers, "set_prune", sg, v)
  /\ timers' = timers \union {NewTimer(timers, "set_prune", sg, v)}
  /\ mrt' = [mrt EXCEPT ![sg].prune_delay_timer_id[v] =
                          NewId(timers, "set_prune", sg, v)]
  /\ sent' = {[type |-> "echo", sg |-> sg, vif |-> v]}
  /\ UNCHANGED <<themrt, mfc>>
  /\ Bounded

(* Interface v is turned on or off, and no Prune of it waits any more.     *)
Decided(e, v, out) ==
  [e EXCEPT !.prune_delay_timer_id[v] = NoId, !.outvif[v] = out]

RecvGraft(v, sg) ==
  /\ Packet
  /\ sent' = {[type |-> "graft_ack", sg |-> sg, vif |-> v]}
  /\ \/ ~InTable(sg) /\ UNCHANGED <<mrt, mfc, timers>>
     \/ /\ InTable(sg)
        /\ timers' = Cleared(timers, "set_prune", sg, v,
                             mrt[sg].prune_delay_timer_id[v])
        /\ mrt' = [mrt EXCEPT ![sg] = Decided(@, v, 1)]
        /\ IF mrt[sg].outvif[v] = 0 THEN change_mfc({sg}) ELSE UNCHANGED mfc
  /\ UNCHANGED themrt

(* The Graft went through; and the slip of leaving the cleared timer's id  *)
(* in the entry.                                                           *)
RecvGraftAckUnmarked(sg) ==
  /\ Packet
  /\ InTable(sg)
  /\ mrt[sg].graft_timer_id # NoId
  /\ timers' = Cleared(timers, "plan_graft", sg, 0, mrt[sg].graft_timer_id)
  /\ sent' = {}
  /\ UNCHANGED tables

RecvGraftAck(sg) ==
  /\ Packet
  /\ InTable(sg)
  /\ mrt[sg].graft_timer_id # NoId
  /\ timers' = Cleared(timers, "plan_graft", sg, 0, mrt[sg].graft_timer_id)
  /\ mrt' = [mrt EXCEPT ![sg].graft_timer_id = NoId]
  /\ sent' = {}
  /\ UNCHANGED <<themrt, mfc>>

(* assert_compare, the local preference and metric being 0 as add_sg left  *)
(* them: the remote router must announce 0 and 0 and the entry's upstream  *)
(* address must not exceed the source address for the local router to lose. *)
LocalWins(sg, zero) == ~zero \/ Upstream(mrt, sg) > sg[1]

(* An Assert on the incoming interface may replace the upstream.           *)
AssertUpstream(sg, zero) ==
  /\ Packet
  /\ InTable(sg) /\ ~Attached(mrt, sg) /\ ~LocalWins(sg, zero)
  /\ mrt' = [mrt EXCEPT ![sg].upstream = sg[1]]
  /\ sent' = {}
  /\ UNCHANGED <<themrt, mfc, timers>>

(* An Assert on a forwarding interface is answered by the winner; the      *)
(* loser only sets a timer.                                                *)
AssertDownstream(v, sg, zero) ==
  /\ Packet
  /\ InTable(sg) /\ v # mrt[sg].incoming /\ mrt[sg].outvif[v] = 1
  /\ \/ /\ LocalWins(sg, zero)
        /\ sent' = {[type |-> "assert", sg |-> sg, vif |-> v]}
        /\ UNCHANGED <<mrt, timers>>
     \/ /\ ~LocalWins(sg, zero)
        /\ CanSet(timers, "active_forward", sg, v)
        /\ timers' = timers \union {NewTimer(timers, "active_forward", sg, v)}
        /\ mrt' = [mrt EXCEPT ![sg].prune_delay_timer_id[v] =
                                NewId(timers, "active_forward", sg, v)]
        /\ sent' = {}
  /\ UNCHANGED <<themrt, mfc>>
  /\ Bounded

-----------------------------------------------------------------------------
(* Timers expire, several together when the main loop was late, and their  *)
(* functions run one after the other.                                      *)
Expire(S) ==
  /\ Idle
  /\ S # {} /\ Cardinality(S) <= MaxBatch
  /\ expired' = S
  /\ timers' = timers \ S
  /\ sent' = {}
  /\ UNCHANGED <<tables, hosts, alive>>

Runs(t, f) == alive /\ t \in expired /\ t.func = f

Rest(t) == expired \ {t}

(* A function that finds no entry returns at once.                         *)
NoEntry(t) ==
  /\ alive /\ t \in expired
  /\ t.func \in {"send_join", "set_prune", "prune_time_out",
                 "handle_sg_timeout"}
  /\ ~InTable(t.sg)
  /\ expired' = Rest(t)
  /\ sent' = {}
  /\ UNCHANGED <<tables, timers, hosts, alive>>

send_join(t) ==
  /\ Runs(t, "send_join") /\ InTable(t.sg)
  /\ expired' = Rest(t)
  /\ timers' = Cleared(timers, "send_join", t.sg, 0,
                       mrt[t.sg].join_delay_timer_id)
  /\ mrt' = [mrt EXCEPT ![t.sg].join_delay_timer_id = NoId]
  /\ sent' = ToUpstream("join", mrt, {t.sg})
  /\ UNCHANGED <<themrt, mfc, hosts, alive>>

set_prune(t) ==
  /\ Runs(t, "set_prune") /\ InTable(t.sg)
  /\ expired' = Rest(t)
  /\ CanSet(timers \union Rest(t), "prune_time_out", t.sg, t.vif)
  /\ LET m == [mrt EXCEPT ![t.sg] = Decided(@, t.vif, 0)]
         again == NewTimer(timers \union Rest(t), "prune_time_out",
                           t.sg, t.vif)
     IN  check_pim_state(m, timers \union {again}, Rest(t), "DEL_LEAF")
  /\ change_mfc({t.sg})
  /\ UNCHANGED <<themrt, hosts, alive>>
  /\ Bounded

prune_time_out(t) ==
  /\ Runs(t, "prune_time_out") /\ InTable(t.sg)
  /\ expired' = Rest(t)
  /\ check_pim_state([mrt EXCEPT ![t.sg].outvif[t.vif] = 1],
                     timers, Rest(t), "ADD_LEAF")
  /\ change_mfc({t.sg})
  /\ UNCHANGED <<themrt, hosts, alive>>
  /\ Bounded

(* The interface active_forward writes to is not the number of one but the *)
(* address of a malloc'ed cell: the store ends the daemon or hits memory   *)
(* that is none of this model's.                                           *)
active_forward(t) ==
  /\ Runs(t, "active_forward")
  /\ expired' = Rest(t)
  /\ check_pim_state(mrt, timers, Rest(t), "ADD_LEAF")
  /\ change_mfc(Listed)
  /\ IF themrt = << >> THEN alive' = TRUE ELSE alive' \in BOOLEAN
  /\ UNCHANGED <<themrt, hosts>>
  /\ Bounded

(* plan_graft from its timer, with the struct the timer was set for: the   *)
(* one in the table,                                                       *)
plan_graft(t) ==
  /\ Runs(t, "plan_graft") /\ t.old = 0
  /\ expired' = Rest(t)
  /\ LET again == IF Attached(mrt, t.sg) THEN {} ELSE {t.sg}
         busy == timers \union Rest(t)
     IN  /\ CanGraft(busy, Calls(again))
         /\ mrt' = Grafted(mrt, busy, Calls(again))
         /\ timers' = timers \union GraftTimers(busy, Calls(again))
         /\ sent' = ToUpstream("graft", mrt, again)
  /\ UNCHANGED <<themrt, mfc, hosts, alive>>
  /\ Bounded

(* or one that was unlinked and never freed, which goes on as long as      *)
(* there is a newer entry for the same flow.                               *)
plan_graft_unlinked(t) ==
  /\ Runs(t, "plan_graft") /\ t.old # 0
  /\ expired' = Rest(t)
  /\ \/ /\ t.old # t.sg[1] /\ InTable(t.sg)
        /\ LET busy == timers \union Rest(t)
               again == [NewTimer(busy, "plan_graft", t.sg, 0)
                           EXCEPT !.old = t.old]
           IN  /\ CanSet(busy, "plan_graft", t.sg, 0)
               /\ timers' = timers \union {again}
        /\ sent' = ToUpstream("graft", mrt, {t.sg})
     \/ /\ t.old = t.sg[1] \/ ~InTable(t.sg)
        /\ sent' = {}
        /\ UNCHANGED timers
  /\ UNCHANGED <<tables, hosts, alive>>
  /\ Bounded

(* delete_sg: only the timer that checks the entry is cleared; the others  *)
(* stay, and those of plan_graft keep pointing to the unlinked struct.     *)
Unlinked(S, sg) ==
  {IF t.func = "plan_graft" /\ t.sg = sg /\ t.old = 0
   THEN [t EXCEPT !.old = Upstream(mrt, sg)] ELSE t : t \in S}

TimersLeftUncleared(sg) == Unlinked(timers, sg)

TimersLeft(sg) ==
  Unlinked(Cleared(timers, "check_sg", sg, 0, mrt[sg].check_timerid), sg)

handle_sg_timeout(t) ==
  /\ Runs(t, "handle_sg_timeout") /\ InTable(t.sg)
  /\ LET p == Position(t.sg)
     IN  themrt' = SubSeq(themrt, 1, p - 1) \o
                     SubSeq(themrt, p + 1, Len(themrt))
  /\ mrt' = [mrt EXCEPT ![t.sg] = Blank(t.sg)]
  /\ mfc' = [mfc EXCEPT ![t.sg] = NoMfc]
  /\ timers' = TimersLeft(t.sg)
  /\ expired' = Unlinked(Rest(t), t.sg)
  /\ sent' = {}
  /\ UNCHANGED <<hosts, alive>>

(* Which timers check_sg sets again; and the slip of setting one instead of *)
(* the other.                                                              *)
RearmedEither(busy) == IF busy THEN {"handle_sg_timeout"} ELSE {"check_sg"}

Rearmed(busy) ==
  IF busy THEN {"handle_sg_timeout", "check_sg"} ELSE {"check_sg"}

(* check_sg: packets forwarded since the last check put the timeout off.   *)
(* For an entry that is gone it dereferences NULL.                         *)
check_sg(t, busy) ==
  /\ Runs(t, "check_sg") /\ InTable(t.sg)
  /\ expired' = Rest(t)
  /\ LET e == mrt[t.sg]
         lasting == IF busy
                    THEN Cleared(timers, "handle_sg_timeout", t.sg, 0,
                                 e.timeout_id)
                    ELSE timers
         kept == Cleared(lasting, "check_sg", t.sg, 0, e.check_timerid)
         pending == kept \union Rest(t)
     IN  /\ \A f \in Rearmed(busy) : CanSet(pending, f, t.sg, 0)
         /\ timers' = kept \union
                        {NewTimer(pending, f, t.sg, 0) : f \in Rearmed(busy)}
         /\ mrt' = [mrt EXCEPT
              ![t.sg].timeout_id =
                IF busy THEN NewId(pending, "handle_sg_timeout", t.sg, 0) ELSE @,
              ![t.sg].check_timerid = NewId(pending, "check_sg", t.sg, 0)]
  /\ sent' = {}
  /\ UNCHANGED <<themrt, mfc, hosts, alive>>
  /\ Bounded

check_sg_gone(t) ==
  /\ Runs(t, "check_sg") /\ ~InTable(t.sg)
  /\ expired' = Rest(t)
  /\ alive' = FALSE
  /\ sent' = {}
  /\ UNCHANGED <<tables, timers, hosts>>

-----------------------------------------------------------------------------
Upcall(sg) ==
  \/ \E stale \in StaleWords : NoCacheUpcall(sg, stale)
  \/ \E v \in Vif : WrongVifUpcall(sg, v)

Member(v, g) == add_leaf(v, g) \/ del_leaf(v, g)

Neighbour(v) == AddNeighbor(v) \/ Goodbye(v) \/ NeighborTimesOut(v)

PimPacket(v, sg) ==
  \/ OverheardJoin(v, sg)
  \/ OverheardPrune(v, sg)
  \/ RecvJoin(v, sg)
  \/ RecvPrune(v, sg)
  \/ RecvGraft(v, sg)
  \/ \E zero \in BOOLEAN : AssertDownstream(v, sg, zero)

PimPacketUpstream(sg) ==
  \/ RecvGraftAck(sg)
  \/ \E zero \in BOOLEAN : AssertUpstream(sg, zero)

TimerRuns(t) ==
  \/ NoEntry(t)
  \/ send_join(t)
  \/ set_prune(t)
  \/ prune_time_out(t)
  \/ active_forward(t)
  \/ plan_graft(t)
  \/ plan_graft_unlinked(t)
  \/ handle_sg_timeout(t)
  \/ \E busy \in BOOLEAN : check_sg(t, busy)
  \/ check_sg_gone(t)

Next ==
  \/ \E sg \in SG : Upcall(sg) \/ PimPacketUpstream(sg)
  \/ \E v \in HostVif, g \in Group : Member(v, g)
  \/ \E v \in RouterVif : Neighbour(v)
  \/ \E v \in RouterVif, sg \in SG : PimPacket(v, sg)
  \/ \E S \in SUBSET timers : Expire(S)
  \/ \E t \in expired : TimerRuns(t)

Spec == Init /\ [][Next]_vars

-----------------------------------------------------------------------------
Outstanding == timers \union expired

Is(t, f, sg, v) == t.func = f /\ t.sg = sg /\ t.vif = v

Set(f, sg, v) == {t \in Outstanding : Is(t, f, sg, v) /\ t.old = 0}

(* The kernel forwards what the table says: an entry exists in both or in  *)
(* neither, with the same interfaces, whichever handler changed it last    *)
(* (kern.c:141-176, kern.c:126-140).                                       *)
MfcMatches ==
  \A sg \in SG : mfc[sg] = IF InTable(sg) THEN MfcOf(mrt[sg]) ELSE NoMfc

(* No entry outlives its flow: whatever is acknowledged, checked and       *)
(* cleared, the two timers named in an entry are really waiting            *)
(* (mrt.c:50-58, mrt.c:175-176).                                           *)
EntryExpires ==
  \A sg \in Listed :
    /\ \E t \in Set("handle_sg_timeout", sg, 0) : t.n = mrt[sg].timeout_id
    /\ \E t \in Set("check_sg", sg, 0) : t.n = mrt[sg].check_timerid

(* A Graft that has not been acknowledged is sent again: the entry that    *)
(* waits for its Graft-Ack has the timer running (pimdm.h:9, pim.c:1027).  *)
GraftRetried ==
  \A sg \in Listed :
    mrt[sg].graft_timer_id # NoId /\ ~Attached(mrt, sg) =>
      \E t \in Set("plan_graft", sg, 0) : t.n = mrt[sg].graft_timer_id

(* Timers that start or end the life of an entry of sg, but not the ones   *)
(* the entry names: a second one, or one of an entry that is gone.         *)
LeftOver(sg) ==
  {t \in Set("handle_sg_timeout", sg, 0) \union Set("check_sg", sg, 0) :
     \/ ~InTable(sg)
     \/ t.n # IF t.func = "check_sg" THEN mrt[sg].check_timerid
                                    ELSE mrt[sg].timeout_id}

(* The check and the timeout of sg expired together, and one has run.      *)
RanTogether(sg) ==
  \E t \in expired \ expired', u \in expired' :
    /\ t.sg = sg /\ u.sg = sg
    /\ {t.func, u.func} = {"check_sg", "handle_sg_timeout"}

(* An entry's timers are deleted and replaced with it: no timer of a       *)
(* deleted entry is left to delete, or to look for, a later one, and no    *)
(* entry gets a second timeout or check.  There is one way to lose that,   *)
(* whatever number of timers a batch has: the entry's own timeout and      *)
(* check in the same batch, where the clear of the one does not reach the  *)
(* other (mrt.c:50-58, mrt.c:88-115, callout.c:68-93).                     *)
OneLifetime ==
  [][\A sg \in SG :
       LeftOver(sg) = {} /\ LeftOver(sg)' # {} => RanTogether(sg)]_vars

Tells(type, sg) ==
  [type |-> type, sg |-> sg, vif |-> Incoming[sg[1]]] \in sent'

Before(sg) == IF InTable(sg) THEN mrt[sg].outnumber ELSE 0

(* The upstream router learns of every change between none and one: an     *)
(* entry that starts to count an interface sends a Graft and one that      *)
(* loses its last sends a Prune in the same step, also when one refresh of *)
(* the table changes several entries (mrt.c:9-32, mrt.c:186-199,           *)
(* mrt.c:233-274).                                                         *)
UpstreamIsTold ==
  [][\A sg \in SG :
       InTable(sg)' /\ ~Attached(mrt', sg) =>
         /\ (Before(sg) = 0 /\ mrt'[sg].outnumber > 0) => Tells("graft", sg)
         /\ (Before(sg) > 0 /\ mrt'[sg].outnumber = 0) => Tells("prune", sg)
         /\ (~InTable(sg) /\ mrt'[sg].outnumber = 0) => Tells("prune", sg)]_vars

(* While a group has members on interface 3, only a Prune that nobody      *)
(* objected to stops a flow there: not the neighbours that go or time out, *)
(* not the deletion of other entries, not an Assert.  For any other        *)
(* interface this is not so, since refresh_mrt looks for members on        *)
(* interface DEL_NEIGHBOR whatever interface lost its neighbour            *)
(* (mrt.c:251-270, pim.c:443-447).                                         *)
OnlyPruneStops ==
  [][\A sg \in Listed :
       /\ InTable(sg)' /\ DEL_NEIGHBOR \in Vif
       /\ sg[2] \in groups[DEL_NEIGHBOR] \intersect groups'[DEL_NEIGHBOR]
       /\ mrt[sg].outvif[DEL_NEIGHBOR] = 1
       /\ mrt'[sg].outvif[DEL_NEIGHBOR] = 0
       => \E t \in expired \ expired' : Is(t, "set_prune", sg, DEL_NEIGHBOR)]_vars

-----------------------------------------------------------------------------
(* What a comment of the code says and the code does not do.               *)

(* delete_sg clears the timer of check_sg ("clears the associated timer",  *)
(* callout.c:195), so check_sg always finds its entry.                     *)
CheckFindsEntry == \A t \in expired : t.func = "check_sg" => InTable(t.sg)
=============================================================================
