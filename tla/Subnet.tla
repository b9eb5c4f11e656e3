------------------------------- MODULE Subnet -------------------------------
(***************************************************************************)
(* The routers of one subnet and one flow, (S,G) (pim.c, mrt.c): the       *)
(* upstream router forwards it to the subnet, the routers downstream join, *)
(* prune and graft it as their hosts come and go, and overhear each other. *)
(* All of them have the flow in their tables and are neighbours, and the   *)
(* source is not attached to the upstream router, which would ignore       *)
(* Prunes then.                                                            *)
(*                                                                         *)
(* A message to all routers is seen by them in the order it was sent; each *)
(* reads its socket at its own pace, and every copy may be lost.  Time     *)
(* passes in seconds: at a Tick no message is unread, and no timer is due. *)
(***************************************************************************)
EXTENDS Integers, Sequences, FiniteSets

CONSTANTS
  Router,           \* the routers downstream
  JoinDelay,        \* the second of schedule_join
  PIM_PRUNE_DELAY,
  PruneHold,        \* the seconds of set_prune
  PIM_GRAFT_TIMER,
  MaxChanges,       \* bound: times that hosts come or go
  MaxLost           \* bound: messages that are lost

Delay == {JoinDelay, PIM_PRUNE_DELAY, PruneHold, PIM_GRAFT_TIMER}

ASSUME SubnetAssumption ==
  /\ "up" \notin Router
  /\ Delay \subseteq Nat \ {0}
  /\ JoinDelay < PIM_PRUNE_DELAY
  /\ {MaxChanges, MaxLost} \subseteq Nat

VARIABLES
  outvif,     \* upstream: whether the flow is forwarded to the subnet
  wants,      \* downstream: outnumber is not 0
  timer_id,   \* prune_delay_timer_id upstream, join_delay_timer_id downstream
  graft_id,   \* graft_timer_id downstream
  timers,     \* the timers of all routers
  inbox,      \* the unread messages of each router
  changes,    \* bound: times that hosts came or went
  lost,       \* bound: messages that were lost
  missed,     \* history: more was lost than one Prune, or echo, overheard
  overlapped  \* history: a Prune came while another one was delayed

fields == <<timer_id, graft_id>>
history == <<changes, lost, missed, overlapped>>
subnetVars == <<outvif, wants, fields, timers, inbox, history>>

All == Router \union {"up"}
NoId == 0
MaxDelay == CHOOSE d \in Delay : \A e \in Delay : e <= d

Func == {"send_join", "set_prune", "prune_time_out", "plan_graft"}

Timer == [at : All, func : Func, id : Nat \ {0}, left : 0..MaxDelay]

Message == [type : {"join", "prune", "echo", "graft", "graft_ack"}, from : All]

SubnetTypeOK ==
  /\ outvif \in BOOLEAN
  /\ wants \in [Router -> BOOLEAN]
  /\ timer_id \in [All -> Nat]
  /\ graft_id \in [Router -> Nat]
  /\ timers \subseteq Timer /\ IsFiniteSet(timers)
  /\ inbox \in [All -> Seq(Message)]
  /\ changes \in 0..MaxChanges /\ lost \in 0..MaxLost
  /\ missed \in BOOLEAN /\ overlapped \in BOOLEAN

SubnetInit ==
  /\ outvif = TRUE
  /\ wants = [d \in Router |-> TRUE]
  /\ timer_id = [r \in All |-> NoId]
  /\ graft_id = [d \in Router |-> NoId]
  /\ timers = {}
  /\ inbox = [r \in All |-> << >>]
  /\ changes = 0 /\ lost = 0 /\ missed = FALSE /\ overlapped = FALSE

-----------------------------------------------------------------------------
(* Timers: each set timer of a router and function has an identifier.      *)
Of(r, f) == {t \in timers : t.at = r /\ t.func = f}

NewId(r, f) ==
  CHOOSE n \in 1..(Cardinality(Of(r, f)) + 1) : \A t \in Of(r, f) : t.id # n

New(r, f, delay) == [at |-> r, func |-> f, id |-> NewId(r, f), left |-> delay]

Named(r, f, n) == {t \in Of(r, f) : t.id = n}

Due(r, f) == {t \in Of(r, f) : t.left = 0}

(* Messages: to everyone else, and to one router.                          *)
Told(box, from, type) ==
  [r \in All |-> IF r = from THEN box[r]
                 ELSE Append(box[r], [type |-> type, from |-> from])]

Read(r) == [inbox EXCEPT ![r] = Tail(@)]

Heads(r, types) == inbox[r] # << >> /\ Head(inbox[r]).type \in types

-----------------------------------------------------------------------------
(* A router's hosts come and go: add_leaf and del_leaf, with what          *)
(* check_pim_state and plan_graft do for the first and the last of them.   *)
plan_graft(d, rest, box) ==
  /\ inbox' = [box EXCEPT !["up"] =
                 Append(@, [type |-> "graft", from |-> d])]
  /\ timers' = rest \union {New(d, "plan_graft", PIM_GRAFT_TIMER)}
  /\ graft_id' = [graft_id EXCEPT ![d] = NewId(d, "plan_graft")]

HostsChange == changes < MaxChanges /\ changes' = changes + 1

HostsJoin(d) ==
  /\ ~wants[d]
  /\ HostsChange
  /\ wants' = [wants EXCEPT ![d] = TRUE]
  /\ plan_graft(d, timers, inbox)
  /\ UNCHANGED <<outvif, timer_id, lost, missed, overlapped>>

HostsLeave(d) ==
  /\ wants[d]
  /\ HostsChange
  /\ wants' = [wants EXCEPT ![d] = FALSE]
  /\ inbox' = Told(inbox, d, "prune")
  /\ UNCHANGED <<outvif, fields, timers, lost, missed, overlapped>>

-----------------------------------------------------------------------------
(* receive_join_prune for the router it is addressed to.  Only the last    *)
(* of several delayed Prunes has its timer remembered.  The slip is not to *)
(* echo the Prune.                                                         *)
RecvPruneSilently ==
  /\ Heads("up", {"prune"})
  /\ inbox' = Read("up")
  /\ timers' = timers \union {New("up", "set_prune", PIM_PRUNE_DELAY)}
  /\ timer_id' = [timer_id EXCEPT !["up"] = NewId("up", "set_prune")]
  /\ overlapped' = (overlapped \/ Of("up", "set_prune") # {})
  /\ UNCHANGED <<outvif, wants, graft_id, changes, lost, missed>>

RecvPrune ==
  /\ Heads("up", {"prune"})
  /\ inbox' = Told(Read("up"), "up", "echo")
  /\ timers' = timers \union {New("up", "set_prune", PIM_PRUNE_DELAY)}
  /\ timer_id' = [timer_id EXCEPT !["up"] = NewId("up", "set_prune")]
  /\ overlapped' = (overlapped \/ Of("up", "set_prune") # {})
  /\ UNCHANGED <<outvif, wants, graft_id, changes, lost, missed>>

CancelPrune ==
  /\ timers' = timers \ Named("up", "set_prune", timer_id["up"])
  /\ timer_id' = [timer_id EXCEPT !["up"] = NoId]

RecvJoin ==
  /\ Heads("up", {"join"})
  /\ inbox' = Read("up")
  /\ CancelPrune
  /\ UNCHANGED <<outvif, wants, graft_id, history>>

RecvGraft ==
  /\ Heads("up", {"graft"})
  /\ inbox' = [Read("up") EXCEPT ![Head(inbox["up"]).from] =
                 Append(@, [type |-> "graft_ack", from |-> "up"])]
  /\ CancelPrune
  /\ outvif' = TRUE
  /\ UNCHANGED <<wants, graft_id, history>>

(* The same messages overheard by another router downstream: a Prune, or   *)
(* its echo, is answered by a Join, and a Join makes our own superfluous.  *)
OverheardPrune(d) ==
  /\ Heads(d, {"prune", "echo"})
  /\ inbox' = Read(d)
  /\ IF wants[d]
     THEN /\ timers' = timers \union {New(d, "send_join", JoinDelay)}
          /\ timer_id' = [timer_id EXCEPT ![d] = NewId(d, "send_join")]
     ELSE UNCHANGED <<timers, timer_id>>
  /\ UNCHANGED <<outvif, wants, graft_id, history>>

OverheardJoin(d) ==
  /\ Heads(d, {"join"})
  /\ inbox' = Read(d)
  /\ timers' = timers \ Named(d, "send_join", timer_id[d])
  /\ timer_id' = [timer_id EXCEPT ![d] = NoId]
  /\ UNCHANGED <<outvif, wants, graft_id, history>>

(* The slip is to forget the timer without clearing it.                    *)
RecvGraftAckForget(d) ==
  /\ Heads(d, {"graft_ack"})
  /\ inbox' = Read(d)
  /\ graft_id' = [graft_id EXCEPT ![d] = NoId]
  /\ UNCHANGED <<outvif, wants, timer_id, timers, history>>

RecvGraftAck(d) ==
  /\ Heads(d, {"graft_ack"})
  /\ inbox' = Read(d)
  /\ timers' = timers \ Named(d, "plan_graft", graft_id[d])
  /\ graft_id' = [graft_id EXCEPT ![d] = NoId]
  /\ UNCHANGED <<outvif, wants, timer_id, history>>

-----------------------------------------------------------------------------
(* The functions of the timers.  send_join clears the timer that is        *)
(* remembered, which may be a later one than its own, unless that one is   *)
(* in the same batch.                                                      *)
send_join(d) ==
  \E t \in Due(d, "send_join") :
    /\ \E others \in {Named(d, "send_join", timer_id[d]), {}} :
         /\ others = {} => \A u \in Named(d, "send_join", timer_id[d]) :
                             u.left = 0
         /\ timers' = (timers \ {t}) \ others
    /\ timer_id' = [timer_id EXCEPT ![d] = NoId]
    /\ inbox' = Told(inbox, d, "join")
    /\ UNCHANGED <<outvif, wants, graft_id, history>>

(* The slip of pruning for good.                                           *)
set_prune_forever ==
  \E t \in Due("up", "set_prune") :
    /\ timer_id' = [timer_id EXCEPT !["up"] = NoId]
    /\ outvif' = FALSE
    /\ timers' = timers \ {t}
    /\ UNCHANGED <<wants, graft_id, inbox, history>>

set_prune ==
  \E t \in Due("up", "set_prune") :
    /\ timer_id' = [timer_id EXCEPT !["up"] = NoId]
    /\ outvif' = FALSE
    /\ timers' = (timers \ {t})
                   \union {New("up", "prune_time_out", PruneHold)}
    /\ UNCHANGED <<wants, graft_id, inbox, history>>

prune_time_out ==
  \E t \in Due("up", "prune_time_out") :
    /\ outvif' = TRUE
    /\ timers' = timers \ {t}
    /\ UNCHANGED <<wants, fields, inbox, history>>

retry_graft(d) ==
  \E t \in Due(d, "plan_graft") :
    /\ plan_graft(d, timers \ {t}, inbox)
    /\ UNCHANGED <<outvif, wants, timer_id, history>>

-----------------------------------------------------------------------------
Lose(r) ==
  /\ inbox[r] # << >>
  /\ inbox' = Read(r)
  /\ lost < MaxLost /\ lost' = lost + 1
  /\ missed' = (lost > 0 \/ r = "up" \/ ~Heads(r, {"prune", "echo"}))
  /\ UNCHANGED <<outvif, wants, fields, timers, changes, overlapped>>

(* Time; the slip is to pass over a timer that is due.                     *)
TickOn ==
  /\ \A r \in All : inbox[r] = << >>
  /\ timers # {}
  /\ timers' = {[t EXCEPT !.left = @ - 1] : t \in timers}
  /\ UNCHANGED <<outvif, wants, fields, inbox, history>>

Tick ==
  /\ \A r \in All : inbox[r] = << >>
  /\ \A t \in timers : t.left > 0
  /\ timers # {}
  /\ timers' = {[t EXCEPT !.left = @ - 1] : t \in timers}
  /\ UNCHANGED <<outvif, wants, fields, inbox, history>>

Hosts == \E d \in Router : HostsJoin(d) \/ HostsLeave(d)

Loss == \E r \in All : Lose(r)

Reads ==
  \/ RecvPrune \/ RecvJoin \/ RecvGraft
  \/ \E d \in Router : OverheardPrune(d) \/ OverheardJoin(d) \/ RecvGraftAck(d)

Expires ==
  \/ set_prune \/ prune_time_out
  \/ \E d \in Router : send_join(d) \/ retry_graft(d)

SubnetNext == Hosts \/ Loss \/ Reads \/ Expires \/ Tick

(* Messages that are not lost are read, timers expire and time passes.     *)
SubnetSpec ==
  /\ SubnetInit /\ [][SubnetNext]_subnetVars
  /\ WF_subnetVars(Reads) /\ WF_subnetVars(Expires) /\ WF_subnetVars(Tick)

-----------------------------------------------------------------------------
(* The flow is never cut off from a router that wants it: the Join of such *)
(* a router, or its Graft, comes before the delay of a Prune ends, however *)
(* Prunes, echoes, Joins and Grafts cross, and one Prune may go unheard    *)
(* for it is echoed.  This holds until a Prune comes while another one is  *)
(* delayed, whose timer it replaces (pim.c:472, 515-657).                  *)
NotCutOff ==
  ~missed /\ ~overlapped /\ ~outvif =>
    \A d \in Router : wants[d] =>
      \E i \in 1..Len(inbox["up"]) :
        inbox["up"][i] = [type |-> "graft", from |-> d]

(* What was pruned is forwarded again when hosts no longer come and go,    *)
(* whatever messages are lost and however the Prunes overlapped            *)
(* (pim.c:409-450).                                                        *)
ForwardsAgain == <>[]outvif

(* Grafts are repeated until they are acknowledged and no longer           *)
(* (pim.c:966-971, 1027-1040), though one field remembers the timers of    *)
(* several.                                                                *)
GraftsEnd == <>[](\A t \in timers : t.func # "plan_graft")

=============================================================================
