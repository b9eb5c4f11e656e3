------------------------------ MODULE Election ------------------------------
(***************************************************************************)
(* The routers of a subnet electing the querier (igmp.c): each of them     *)
(* runs what module Igmp says of one interface, and they hear each other   *)
(* through queries that may be delayed, reordered and lost.  Routers crash *)
(* and start again.                                                        *)
(*                                                                         *)
(* Time is counted in query periods: a Tick ends a period when every       *)
(* querier has sent its query and every query has arrived or is lost.      *)
(***************************************************************************)
EXTENDS Integers, FiniteSets

CONSTANTS
  Router,     \* the addresses of the routers, in host order
  Retry,      \* IGMP_Querier_Timeout, in periods of IGMP_Query_Time
  MaxCrashes  \* bound: crashes of routers

ASSUME ElectionAssumption ==
  /\ Router \subseteq Nat \ {0}
  /\ Retry \in Nat \ {0, 1}
  /\ MaxCrashes \in Nat

VARIABLES
  up,       \* the routers that run
  querier,  \* whom each takes for the querier, 0 for itself
  due,      \* the queriers whose send_query runs in this period
  left,     \* the periods left of retry_query
  queries,  \* the queries under way, a copy for each hearer
  crashes,  \* bound: crashes so far
  clean     \* history: nothing was lost, and no router started, in this period

vars == <<up, querier, due, left, queries, crashes, clean>>

Query == [src : Router, dst : Router]

TypeOK ==
  /\ up \subseteq Router
  /\ querier \in [Router -> Router \union {0}]
  /\ due \subseteq {r \in up : querier[r] = 0}
  /\ left \in [Router -> 0..Retry]
  /\ queries \subseteq Query
  /\ \A q \in queries : q.dst \in up
  /\ crashes \in 0..MaxCrashes
  /\ clean \in BOOLEAN

(* Queries of r to the routers that run.                                   *)
QueriesOf(r) == {[src |-> r, dst |-> d] : d \in up \ {r}}

(* All routers have started together, and their first queries are due.     *)
Init ==
  /\ up = Router
  /\ querier = [r \in Router |-> 0]
  /\ due = Router
  /\ left = [r \in Router |-> 0]
  /\ queries = {}
  /\ crashes = 0
  /\ clean = TRUE

-----------------------------------------------------------------------------
Queriers == {r \in up : querier[r] = 0}

send_query(r) ==
  /\ r \in due
  /\ due' = due \ {r}
  /\ queries' = queries \union QueriesOf(r)
  /\ UNCHANGED <<up, querier, left, crashes, clean>>

(* retry_query; the slip leaves the query to the next send_query.          *)
TimedOut(r) == r \in up /\ querier[r] # 0 /\ left[r] = 0

retry_query_silently(r) ==
  /\ TimedOut(r)
  /\ querier' = [querier EXCEPT ![r] = 0]
  /\ UNCHANGED <<up, due, left, queries, crashes, clean>>

retry_query(r) ==
  /\ TimedOut(r)
  /\ querier' = [querier EXCEPT ![r] = 0]
  /\ queries' = queries \union QueriesOf(r)
  /\ UNCHANGED <<up, due, left, crashes, clean>>

(* The querier of r after a query from src; and the slips of taking the    *)
(* last router heard for it, and of comparing the wrong way around.        *)
ElectedLast(r, src) == IF querier[r] # 0 \/ src < r THEN src ELSE 0

ElectedHigh(r, src) ==
  IF src > (IF querier[r] = 0 THEN r ELSE querier[r]) THEN src ELSE querier[r]

Elected(r, src) ==
  IF src < (IF querier[r] = 0 THEN r ELSE querier[r]) THEN src ELSE querier[r]

(* A router that is not the querier waits for another Retry periods: the   *)
(* slip is to do so for the querier it has recorded only.                  *)
RestartsIfNew(r, src) == Elected(r, src) # querier[r]

Restarts(r, src) == Elected(r, src) # 0

(* A query from a lower address ends our own.                              *)
DueAfter(r, src) == IF Elected(r, src) = 0 THEN due ELSE due \ {r}

accept_membership_query(q) ==
  /\ q \in queries
  /\ queries' = queries \ {q}
  /\ querier' = [querier EXCEPT ![q.dst] = Elected(q.dst, q.src)]
  /\ due' = DueAfter(q.dst, q.src)
  /\ left' = IF Restarts(q.dst, q.src) THEN [left EXCEPT ![q.dst] = Retry]
                                       ELSE left
  /\ UNCHANGED <<up, crashes, clean>>

-----------------------------------------------------------------------------
Lose(q) ==
  /\ q \in queries
  /\ queries' = queries \ {q}
  /\ clean' = FALSE
  /\ UNCHANGED <<up, querier, due, left, crashes>>

Crash(r) ==
  /\ r \in up
  /\ crashes < MaxCrashes
  /\ crashes' = crashes + 1
  /\ up' = up \ {r}
  /\ querier' = [querier EXCEPT ![r] = 0]
  /\ left' = [left EXCEPT ![r] = 0]
  /\ due' = due \ {r}
  /\ queries' = {q \in queries : q.dst # r}
  /\ UNCHANGED clean

(* active_vifs: querier is 0 and send_query is called at once.             *)
Restart(r) ==
  /\ r \notin up
  /\ up' = up \union {r}
  /\ queries' = queries \union QueriesOf(r)
  /\ clean' = FALSE
  /\ UNCHANGED <<querier, due, left, crashes>>

(* The next period begins.                                                 *)
PeriodOver ==
  /\ due = {} /\ queries = {}
  /\ \A r \in Router : ~TimedOut(r)

Tick ==
  /\ PeriodOver
  /\ due' = Queriers
  /\ left' = [r \in Router |->
                IF r \in up /\ querier[r] # 0 THEN left[r] - 1 ELSE left[r]]
  /\ clean' = TRUE
  /\ UNCHANGED <<up, querier, queries, crashes>>

Sends == \E r \in Router : send_query(r) \/ retry_query(r)
Hears == \E q \in Query : accept_membership_query(q)
Faults ==
  \/ \E q \in Query : Lose(q)
  \/ \E r \in Router : Crash(r) \/ Restart(r)

Next == Sends \/ Hears \/ Tick \/ Faults

(* Timers expire, queries that are not lost arrive, and time passes.       *)
Spec ==
  /\ Init /\ [][Next]_vars
  /\ WF_vars(Sends) /\ WF_vars(Hears) /\ WF_vars(Tick)

-----------------------------------------------------------------------------
(* What one router does is what module Igmp says of an interface without   *)
(* groups, from the beginning and again after it has started anew          *)
(* (igmp.c:189-284, vif.c:140-175).                                        *)
Node(r) == INSTANCE Igmp WITH
  Address <- r,
  Router <- Router \ {r},
  Group <- {},
  MaxN <- 1,
  querier <- querier[r],
  igmp_querytimer_id <- IF querier[r] = 0 THEN 1 ELSE 0,
  querier_retry_id <- IF querier[r] = 0 THEN 0 ELSE 1,
  groups <- {},
  leave_query <- <<>>,
  timeout <- <<>>,
  timers <- {[func |-> IF querier[r] = 0 THEN "send_query" ELSE "retry_query",
              group |-> 0, id |-> 1]},
  asked <- <<>>,
  foreign <- {}

EachIsIgmp ==
  /\ \A r \in Router : Node(r)!Init
  /\ [][\A r \in Router :
           \/ Node(r)!Next \/ UNCHANGED querier[r]
           \/ r \notin up' /\ (Node(r)!Init)']_vars

(* A period in which no query was lost and no router started ends with at  *)
(* most one querier, whoever was it before and however the queries and the *)
(* retry timers crossed (igmp.c:189-268).                                  *)
OnePerPeriod == PeriodOver /\ clean => Cardinality(Queriers) <= 1

(* Once routers stop crashing and starting and queries stop being lost,    *)
(* one of the routers that run queries the subnet for good: no two go on   *)
(* forever, and they do not all wait for a router that has died            *)
(* (igmp.c:189-268).                                                       *)
OneQuerier ==
  <>[][~Faults]_vars => <>[](up # {} => Cardinality(Queriers) = 1)

(* As long as no router crashes it is the one with the lowest address      *)
(* (igmp.c:247-267), whatever was lost before.                             *)
Lowest == CHOOSE r \in Router : \A s \in Router : r <= s

LowestElected ==
  [](crashes = 0) /\ <>[][~Faults]_vars => <>[](Queriers = {Lowest})

=============================================================================
