-------------------------------- MODULE Igmp --------------------------------
(***************************************************************************)
(* IGMPv2 on one interface of the router (igmp.c): who is the querier, and *)
(* which groups have members.  The interfaces share no IGMP state, so one  *)
(* stands for all of them.                                                 *)
(*                                                                         *)
(* Two timers drive the election (send_query while we are the querier,     *)
(* retry_query while another router is) and one drives each group that is  *)
(* being left (leave_query).  None of the three functions clears a timer,  *)
(* so it makes no difference whether several expire together: they are     *)
(* run one at a time, in any order and at any moment.                      *)
(***************************************************************************)
EXTENDS Integers, FiniteSets

CONSTANTS
  Address,   \* the address of the interface, as an integer in host order
  Router,    \* the addresses of the other routers on its subnet
  Group,
  MaxN       \* bound: leave_query timers of one group at a time

ASSUME IgmpAssumption ==
  /\ Address \in Nat \ {0}
  /\ Router \subseteq Nat \ {0, Address}
  /\ 0 \notin Group
  /\ MaxN \in Nat \ {0}

IGMP_Robustness == 2

VARIABLES
  querier,             \* 0 while this router is the querier
  igmp_querytimer_id,
  querier_retry_id,
  groups,              \* the groups in the interface's list
  leave_query,         \* the timer identifier kept for each group
  timeout,             \* the countdown of each group
  timers,              \* the timers that are set
  asked,               \* history: group-specific queries this router sent
                       \* since the last report for the group, at most
                       \* IGMP_Robustness being counted
  foreign              \* history: groups for which the query of another
                       \* router has started a countdown here

election == <<querier, igmp_querytimer_id, querier_retry_id>>
members == <<groups, leave_query, timeout, asked>>
vars == <<election, members, timers, foreign>>

NoId == 0
Id == 1..MaxN
QueryId == {0, 1}

Timer ==
  [func : {"send_query", "retry_query"}, group : {0}, id : {1}]
    \union [func : {"leave_query"}, group : Group, id : Id]

Periodic(f) == [func |-> f, group |-> 0, id |-> 1]
Leave(g, n) == [func |-> "leave_query", group |-> g, id |-> n]

TypeOK ==
  /\ querier \in Router \union {0}
  /\ igmp_querytimer_id \in QueryId
  /\ querier_retry_id \in QueryId
  /\ groups \subseteq Group
  /\ leave_query \in [Group -> Id \union {NoId}]
  /\ timeout \in [Group -> -1..2]
  /\ timers \subseteq Timer
  /\ asked \in [Group -> 0..IGMP_Robustness]
  /\ foreign \subseteq Group

(* active_vifs starts every interface with send_query.                     *)
Init ==
  /\ querier = 0
  /\ igmp_querytimer_id = 1
  /\ querier_retry_id = NoId
  /\ groups = {}
  /\ leave_query = [g \in Group |-> NoId]
  /\ timeout = [g \in Group |-> 2]
  /\ timers = {Periodic("send_query")}
  /\ asked = [g \in Group |-> 0]
  /\ foreign = {}

-----------------------------------------------------------------------------
(* timer_setTimer for a leave_query: an identifier no other one has, and   *)
(* timer_clearTimer of the one a group remembers.                          *)
FreeIds(pending, g) == {n \in Id : Leave(g, n) \notin pending}

NewId(pending, g) == CHOOSE n \in FreeIds(pending, g) : TRUE

Cleared(g) == timers \ {Leave(g, leave_query[g])}

(* Set the leave_query timer of g on top of pending, and remember it.      *)
SetLeave(pending, g, left) ==
  /\ FreeIds(pending, g) # {}
  /\ timers' = pending \union {Leave(g, NewId(pending, g))}
  /\ leave_query' = [leave_query EXCEPT ![g] = NewId(pending, g)]
  /\ timeout' = [timeout EXCEPT ![g] = left]

Asked(g) ==
  [asked EXCEPT ![g] = IF @ < IGMP_Robustness THEN @ + 1 ELSE @]

-----------------------------------------------------------------------------
(* The periodic query of the querier.                                      *)
send_query ==
  /\ Periodic("send_query") \in timers
  /\ querier' = 0
  /\ igmp_querytimer_id' = 1
  /\ querier_retry_id' = NoId
  /\ UNCHANGED <<members, timers, foreign>>

(* The other querier has been silent for IGMP_Querier_Timeout; and the     *)
(* slip of answering with one query and setting no timer for the next.     *)
retry_query_once ==
  /\ Periodic("retry_query") \in timers
  /\ timers' = timers \ {Periodic("retry_query")}
  /\ querier' = 0
  /\ igmp_querytimer_id' = 1
  /\ querier_retry_id' = NoId
  /\ UNCHANGED <<members, foreign>>

retry_query ==
  /\ Periodic("retry_query") \in timers
  /\ timers' = (timers \ {Periodic("retry_query")})
                 \union {Periodic("send_query")}
  /\ querier' = 0
  /\ igmp_querytimer_id' = 1
  /\ querier_retry_id' = NoId
  /\ UNCHANGED <<members, foreign>>

(* The querier after a query from src; and the slips of taking any router  *)
(* we hear for the querier once we are not, and of noting our own address, *)
(* which stands for no other router, where 0 is kept.                      *)
ElectedLast(src) ==
  IF querier # 0 THEN src ELSE IF src < Address THEN src ELSE 0

ElectedSelf(src) ==
  LET current == IF querier = 0 THEN Address ELSE querier
  IN  IF src < current THEN src ELSE current

Elected(src) ==
  IF src < (IF querier = 0 THEN Address ELSE querier) THEN src ELSE querier

(* Every query of another router restarts retry_query as long as we are    *)
(* not the querier, and a query from a lower address ends our own.         *)
ElectionTimers(src) ==
  IF Elected(src) = 0 THEN timers
  ELSE (timers \ {Periodic("send_query")}) \union {Periodic("retry_query")}

(* A group-specific query heard as a non-querier starts the countdown of   *)
(* the group, next to one that may be running.                             *)
accept_membership_query(src, g) ==
  /\ querier' = Elected(src)
  /\ igmp_querytimer_id' = IF Elected(src) = 0 THEN igmp_querytimer_id
                                               ELSE NoId
  /\ querier_retry_id' = IF Elected(src) = 0 THEN querier_retry_id ELSE 1
  /\ \/ /\ Elected(src) # 0 /\ g \in groups
        /\ SetLeave(ElectionTimers(src), g, -1)
        /\ foreign' = foreign \union {g}
     \/ /\ Elected(src) = 0 \/ g \notin groups
        /\ timers' = ElectionTimers(src)
        /\ UNCHANGED <<leave_query, timeout, foreign>>
  /\ UNCHANGED <<groups, asked>>

(* A report cancels the countdown of a known group and adds a new one (and *)
(* calls add_leaf).                                                        *)
accept_group_report(g) ==
  /\ \/ /\ g \in groups /\ leave_query[g] # NoId
        /\ timers' = Cleared(g)
        /\ leave_query' = [leave_query EXCEPT ![g] = NoId]
        /\ timeout' = [timeout EXCEPT ![g] = 2]
        /\ UNCHANGED groups
     \/ /\ g \notin groups
        /\ groups' = groups \union {g}
        /\ leave_query' = [leave_query EXCEPT ![g] = NoId]
        /\ timeout' = [timeout EXCEPT ![g] = 2]
        /\ UNCHANGED timers
     \/ /\ g \in groups /\ leave_query[g] = NoId
        /\ UNCHANGED <<groups, leave_query, timeout, timers>>
  /\ asked' = [asked EXCEPT ![g] = 0]
  /\ UNCHANGED <<election, foreign>>

(* A Leave starts the countdown with a first group-specific query, if this *)
(* router is the querier; and the slip of not clearing a countdown that    *)
(* is already running.                                                     *)
accept_leave_message_again(g) ==
  /\ querier = 0
  /\ g \in groups
  /\ SetLeave(timers, g, 1)
  /\ asked' = Asked(g)
  /\ UNCHANGED <<election, groups, foreign>>

accept_leave_message(g) ==
  /\ querier = 0
  /\ g \in groups
  /\ SetLeave(Cleared(g), g, 1)
  /\ asked' = Asked(g)
  /\ UNCHANGED <<election, groups, foreign>>

(* leave_query runs for a timer of group g.  Two values count down, every  *)
(* other one, 2 included, lets the group go (and calls del_leaf).  The     *)
(* first slip skips the second query.                                      *)
AskOnce(g, pending) ==
  /\ g \in groups /\ timeout[g] = 1
  /\ SetLeave(pending, g, -1)
  /\ UNCHANGED <<groups, asked>>

AskAgain(g, pending) ==
  /\ g \in groups /\ timeout[g] = 1
  /\ SetLeave(pending, g, 0)
  /\ asked' = Asked(g)
  /\ UNCHANGED groups

(* The second wait; and the slip of counting it down without a timer.      *)
WaitUnset(g, pending) ==
  /\ g \in groups /\ timeout[g] = 0
  /\ timers' = pending
  /\ timeout' = [timeout EXCEPT ![g] = -1]
  /\ UNCHANGED <<groups, leave_query, asked>>

Wait(g, pending) ==
  /\ g \in groups /\ timeout[g] = 0
  /\ SetLeave(pending, g, -1)
  /\ UNCHANGED <<groups, asked>>

LetGo(g, pending) ==
  /\ g \in groups /\ timeout[g] \notin {0, 1}
  /\ groups' = groups \ {g}
  /\ timers' = pending
  /\ leave_query' = [leave_query EXCEPT ![g] = NoId]
  /\ timeout' = [timeout EXCEPT ![g] = 2]
  /\ UNCHANGED asked

Unknown(g, pending) ==
  /\ g \notin groups
  /\ timers' = pending
  /\ UNCHANGED members

leave_query_timer(g, n) ==
  /\ Leave(g, n) \in timers
  /\ LET pending == timers \ {Leave(g, n)}
     IN  \/ AskAgain(g, pending)
         \/ Wait(g, pending)
         \/ LetGo(g, pending)
         \/ Unknown(g, pending)
  /\ UNCHANGED <<election, foreign>>

Next ==
  \/ send_query
  \/ retry_query
  \/ \E src \in Router, g \in Group \union {0} : accept_membership_query(src, g)
  \/ \E g \in Group : accept_group_report(g) \/ accept_leave_message(g)
  \/ \E g \in Group, n \in Id : leave_query_timer(g, n)

(* A timer that stays set expires (send_query does too, but only sets      *)
(* itself again); hosts and other routers need not speak.                  *)
Fairness ==
  /\ WF_vars(retry_query)
  /\ \A g \in Group, n \in Id : WF_vars(leave_query_timer(g, n))

Spec == Init /\ [][Next]_vars /\ Fairness

-----------------------------------------------------------------------------
Pending(f) == Periodic(f) \in timers

(* The election never leaves the subnet without a next step of this router *)
(* and never gives it two roles: it queries, or it waits for the querier,  *)
(* whose address is lower than its own, and the timer identifiers it keeps *)
(* agree with the timers (igmp.c:189-268).                                 *)
OneRole ==
  /\ Pending("send_query") <=> querier = 0
  /\ Pending("retry_query") <=> querier # 0
  /\ igmp_querytimer_id = IF querier = 0 THEN 1 ELSE NoId
  /\ querier_retry_id = IF querier = 0 THEN NoId ELSE 1
  /\ querier < Address

HearsQuery ==
  \E src \in Router, g \in Group \union {0} : accept_membership_query(src, g)

(* When the other routers fall silent this one becomes the querier again   *)
(* ("becomes the querier again after a time without messages", vif.h:17),  *)
(* and stays it.                                                           *)
TakesOver ==
  <>[][~HearsQuery]_vars => <>[](querier = 0 /\ Pending("send_query"))

(* A group is let go by its one countdown only: a countdown runs exactly   *)
(* for the groups marked as leaving, one for each, and the mark names it.  *)
(* This is so until another router's query starts a second one, whether    *)
(* this router is the querier all the time or not (igmp.c:344-428).        *)
OneCountdown ==
  \A g \in Group \ foreign, n \in Id :
    Leave(g, n) \in timers <=> (g \in groups /\ leave_query[g] = n)

(* Before this router lets a group go of its own accord it asks for it     *)
(* twice ("specific queries are sent 2 times", defs.h:86), with no report  *)
(* after the first query, even when it loses and regains the role of the   *)
(* querier in between.                                                     *)
AskedTwice ==
  [][\A g \in (groups \ groups') \ foreign : asked[g] = IGMP_Robustness]_vars

(* A group whose hosts have left is let go or reported again, unless Leave *)
(* messages or another querier go on restarting the countdown              *)
(* (igmp.c:270-283, 344-428).                                              *)
Restarted(g) ==
  \/ accept_leave_message(g)
  \/ \E src \in Router : accept_membership_query(src, g)

LeaveCompletes ==
  \A g \in Group :
    <>[][~Restarted(g)]_vars =>
      (leave_query[g] # NoId ~> leave_query[g] = NoId)

=============================================================================
