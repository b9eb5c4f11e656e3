--------------------------- MODULE ElectionProofs ---------------------------
(***************************************************************************)
(* For every set of routers, every retry time and any number of crashes:   *)
(* a period in which nothing is lost leaves one querier at most, and each  *)
(* router by itself does what module Igmp says.                            *)
(***************************************************************************)
EXTENDS Election, FiniteSetTheorems, TLAPS

(* In a clean period every querier has yet to send its query, or its query *)
(* is on its way to each higher router, or that router has heard it and    *)
(* waits for another Retry periods.                                        *)
Told(r, s) ==
  \/ r \in due
  \/ [src |-> r, dst |-> s] \in queries
  \/ querier[s] # 0 /\ left[s] # 0

HigherTold ==
  clean => \A r, s \in up : r < s /\ querier[r] = 0 => Told(r, s)

IInv == TypeOK /\ HigherTold

-----------------------------------------------------------------------------
LEMMA Routers == Router \subseteq Nat \ {0} /\ Retry \in Nat \ {0, 1}
  BY ElectionAssumption

LEMMA QueriesOfTyped ==
  ASSUME TypeOK, NEW r \in Router
  PROVE  /\ QueriesOf(r) \subseteq Query
         /\ \A q \in QueriesOf(r) : q.dst \in up
         /\ \A s \in up : s # r => [src |-> r, dst |-> s] \in QueriesOf(r)
  BY DEF TypeOK, QueriesOf, Query

(* What a query from src makes of the querier of r.                        *)
LEMMA ElectedIs ==
  ASSUME TypeOK, NEW r \in Router, NEW src \in Router
  PROVE  /\ Elected(r, src) \in Router \union {0}
         /\ querier[r] # 0 => Elected(r, src) # 0
         /\ src < r => Elected(r, src) # 0
<1>1. querier[r] \in Router \union {0} /\ src # 0 /\ r \in Nat /\ src \in Nat
  BY Routers DEF TypeOK
<1> QED
  BY <1>1, Routers DEF Elected

-----------------------------------------------------------------------------
LEMMA InitIInv == Init => IInv
  BY ElectionAssumption DEF Init, IInv, TypeOK, HigherTold, Told, Query

LEMMA SendStep ==
  ASSUME IInv, NEW r \in Router, send_query(r)
  PROVE  IInv'
<1>1. TypeOK'
  BY QueriesOfTyped DEF IInv, TypeOK, send_query
<1>2. HigherTold'
  <2> SUFFICES ASSUME clean, NEW p \in up, NEW s \in up, p < s, querier[p] = 0
               PROVE  Told(p, s)'
    BY DEF send_query, HigherTold
  <2>1. Told(p, s)
    BY DEF IInv, HigherTold
  <2>2. p # s
    BY Routers DEF IInv, TypeOK
  <2>3. CASE p = r
    BY <2>2, <2>3, QueriesOfTyped DEF IInv, send_query, Told
  <2>4. CASE p # r
    BY <2>1, <2>4 DEF send_query, Told
  <2> QED
    BY <2>3, <2>4
<1> QED
  BY <1>1, <1>2 DEF IInv

LEMMA RetryStep ==
  ASSUME IInv, NEW r \in Router, retry_query(r)
  PROVE  IInv'
<1>1. querier' = [querier EXCEPT ![r] = 0] /\ querier \in [Router -> Router \union {0}]
  BY DEF IInv, TypeOK, retry_query
<1>2. TypeOK'
  BY <1>1, QueriesOfTyped DEF IInv, TypeOK, retry_query
<1>3. HigherTold'
  <2> SUFFICES ASSUME clean, NEW p \in up, NEW s \in up, p < s, querier'[p] = 0
               PROVE  Told(p, s)'
    BY DEF retry_query, HigherTold
  <2>1. p # s /\ p \in Router /\ s \in Router
    BY Routers DEF IInv, TypeOK
  <2>2. CASE p = r
    BY <2>1, <2>2, QueriesOfTyped DEF IInv, retry_query, Told
  <2>3. CASE p # r
    <3>1. Told(p, s)
      BY <1>1, <2>1, <2>3 DEF IInv, HigherTold
    <3>2. s = r => left[s] = 0
      BY DEF retry_query, TimedOut
    <3> QED
      BY <1>1, <2>1, <3>1, <3>2 DEF retry_query, Told
  <2> QED
    BY <2>2, <2>3
<1> QED
  BY <1>2, <1>3 DEF IInv

LEMMA AcceptStep ==
  ASSUME IInv, NEW q \in Query, accept_membership_query(q)
  PROVE  IInv'
<1> DEFINE r == q.dst
           src == q.src
<1>1. r \in Router /\ src \in Router /\ q = [src |-> src, dst |-> r]
  BY DEF Query
<1>2. /\ Elected(r, src) \in Router \union {0}
      /\ querier[r] # 0 => Elected(r, src) # 0
      /\ src < r => Elected(r, src) # 0
  BY <1>1, ElectedIs DEF IInv
<1>3. /\ querier' = [querier EXCEPT ![r] = Elected(r, src)]
      /\ due' = IF Elected(r, src) = 0 THEN due ELSE due \ {r}
      /\ left' = IF Elected(r, src) # 0 THEN [left EXCEPT ![r] = Retry] ELSE left
      /\ queries' = queries \ {q}
      /\ up' = up /\ crashes' = crashes /\ clean' = clean
  BY DEF accept_membership_query, DueAfter, Restarts
<1> HIDE DEF r, src
<1>4. /\ querier \in [Router -> Router \union {0}] /\ left \in [Router -> 0..Retry]
      /\ up \subseteq Router
  BY DEF IInv, TypeOK
<1>5. TypeOK'
  <2>1. left' \in [Router -> 0..Retry]
    BY <1>1, <1>3, <1>4, Routers
  <2>2. querier' \in [Router -> Router \union {0}]
    BY <1>1, <1>2, <1>3, <1>4
  <2>3. due' \subseteq {p \in up : querier'[p] = 0}
    BY <1>1, <1>2, <1>3, <1>4 DEF IInv, TypeOK
  <2> QED
    BY <1>3, <2>1, <2>2, <2>3 DEF IInv, TypeOK
<1>6. HigherTold'
  <2> SUFFICES ASSUME clean, NEW p \in up, NEW s \in up, p < s, querier'[p] = 0
               PROVE  Told(p, s)'
    BY <1>3 DEF HigherTold
  <2>1. querier[p] = 0 /\ (p = r => Elected(r, src) = 0)
    BY <1>1, <1>2, <1>3, <1>4
  <2>2. Told(p, s)
    BY <2>1 DEF IInv, HigherTold
  <2>3. CASE p \in due
    BY <1>3, <2>1, <2>3 DEF Told
  <2>4. CASE [src |-> p, dst |-> s] \in queries
    <3>1. CASE q = [src |-> p, dst |-> s]
      <4>1. src = p /\ r = s
        BY <3>1 DEF src, r
      <4> QED
        BY <1>1, <1>2, <1>3, <1>4, <4>1, Routers DEF Told
    <3>2. CASE q # [src |-> p, dst |-> s]
      BY <1>3, <2>4, <3>2 DEF Told
    <3> QED
      BY <3>1, <3>2
  <2>5. CASE querier[s] # 0 /\ left[s] # 0
    <3>1. querier'[s] # 0 /\ left'[s] # 0
      BY <1>1, <1>2, <1>3, <1>4, <2>5, Routers
    <3> QED
      BY <3>1 DEF Told
  <2> QED
    BY <2>2, <2>3, <2>4, <2>5 DEF Told
<1> QED
  BY <1>5, <1>6 DEF IInv

LEMMA LoseStep ==
  ASSUME IInv, NEW q \in Query, Lose(q)
  PROVE  IInv'
  BY DEF IInv, TypeOK, HigherTold, Lose

LEMMA CrashStep ==
  ASSUME IInv, NEW r \in Router, Crash(r)
  PROVE  IInv'
<1>1. /\ querier' = [querier EXCEPT ![r] = 0] /\ left' = [left EXCEPT ![r] = 0]
      /\ up' = up \ {r} /\ due' = due \ {r}
      /\ queries' = {q \in queries : q.dst # r} /\ clean' = clean
      /\ crashes' = crashes + 1 /\ crashes < MaxCrashes
  BY DEF Crash
<1>2. /\ querier \in [Router -> Router \union {0}] /\ left \in [Router -> 0..Retry]
      /\ up \subseteq Router
  BY DEF IInv, TypeOK
<1>3. TypeOK'
  <2>1. left' \in [Router -> 0..Retry] /\ querier' \in [Router -> Router \union {0}]
    BY <1>1, <1>2, Routers
  <2>2. crashes' \in 0..MaxCrashes
    BY <1>1, ElectionAssumption DEF IInv, TypeOK
  <2> QED
    BY <1>1, <2>1, <2>2 DEF IInv, TypeOK
<1>4. HigherTold'
  <2> SUFFICES ASSUME clean, NEW p \in up', NEW s \in up', p < s, querier'[p] = 0
               PROVE  Told(p, s)'
    BY <1>1 DEF HigherTold
  <2>1. /\ p \in up /\ p # r /\ p \in Router /\ s \in up /\ s # r /\ s \in Router
        /\ querier[p] = 0
    BY <1>1, <1>2
  <2>2. Told(p, s)
    BY <2>1 DEF IInv, HigherTold
  <2> QED
    BY <1>1, <1>2, <2>1, <2>2 DEF Told
<1> QED
  BY <1>3, <1>4 DEF IInv

LEMMA RestartStep ==
  ASSUME IInv, NEW r \in Router, Restart(r)
  PROVE  IInv'
<1>1. QueriesOf(r) \subseteq Query /\ \A q \in QueriesOf(r) : q.dst \in up
  BY QueriesOfTyped DEF IInv
<1> QED
  BY <1>1 DEF IInv, TypeOK, HigherTold, Restart

LEMMA TickStep ==
  ASSUME IInv, Tick
  PROVE  IInv'
<1>1. /\ due' = Queriers /\ up' = up /\ querier' = querier /\ queries' = queries
      /\ crashes' = crashes /\ clean' \in BOOLEAN
      /\ left' = [r \in Router |->
                    IF r \in up /\ querier[r] # 0 THEN left[r] - 1 ELSE left[r]]
  BY DEF Tick
<1>2. \A r \in Router : r \in up /\ querier[r] # 0 => left[r] # 0
  BY DEF Tick, PeriodOver, TimedOut
<1>3. left' \in [Router -> 0..Retry]
  BY <1>1, <1>2, Routers DEF IInv, TypeOK
<1>4. TypeOK'
  BY <1>1, <1>3 DEF IInv, TypeOK, Queriers
<1>5. HigherTold'
  BY <1>1 DEF HigherTold, Told, Queriers
<1> QED
  BY <1>4, <1>5 DEF IInv

LEMMA NextIInv == IInv /\ [Next]_vars => IInv'
<1> SUFFICES ASSUME IInv, [Next]_vars PROVE IInv'
  OBVIOUS
<1>1. CASE Sends
  BY <1>1, SendStep, RetryStep DEF Sends
<1>2. CASE Hears
  BY <1>2, AcceptStep DEF Hears
<1>3. CASE Tick
  BY <1>3, TickStep
<1>4. CASE Faults
  BY <1>4, LoseStep, CrashStep, RestartStep DEF Faults
<1>5. CASE UNCHANGED vars
  BY <1>5 DEF vars, IInv, TypeOK, HigherTold, Told
<1> QED
  BY <1>1, <1>2, <1>3, <1>4, <1>5 DEF Next

LEMMA OneLeft == IInv => OnePerPeriod
<1> SUFFICES ASSUME IInv, PeriodOver, clean PROVE Cardinality(Queriers) <= 1
  BY DEF OnePerPeriod
<1>1. \A r, s \in up : r < s /\ querier[r] = 0 => querier[s] # 0
  BY DEF IInv, HigherTold, Told, PeriodOver
<1>2. \A r, s \in Queriers : r = s
  <2> SUFFICES ASSUME NEW r \in Queriers, NEW s \in Queriers PROVE r = s
    OBVIOUS
  <2>1. r \in Nat /\ s \in Nat
    BY Routers DEF Queriers, IInv, TypeOK
  <2>2. ~(r < s) /\ ~(s < r)
    BY <1>1 DEF Queriers
  <2> QED
    BY <2>1, <2>2
<1>3. CASE Queriers = {}
  BY <1>3, FS_EmptySet
<1>4. CASE Queriers # {}
  <2>1. PICK r \in Queriers : Queriers = {r}
    BY <1>2, <1>4
  <2> QED
    BY <2>1, FS_Singleton
<1> QED
  BY <1>3, <1>4

(* Whoever hears, crashes or starts: querier, timers and queries stay in   *)
(* their types, queries are on their way to routers that run, and only     *)
(* queriers have a query to send (igmp.c:189-284).                         *)
THEOREM ElectionTypeCorrect == Spec => []TypeOK
<1>1. Init => IInv
  BY InitIInv
<1>2. IInv /\ [Next]_vars => IInv'
  BY NextIInv
<1>3. IInv => TypeOK
  BY DEF IInv
<1> QED
  BY <1>1, <1>2, <1>3, PTL DEF Spec

(* A period in which no query was lost and no router started ends with one *)
(* querier at most, for any number of routers (igmp.c:189-268).            *)
THEOREM ElectionOnePerPeriod == Spec => []OnePerPeriod
<1>1. Init => IInv
  BY InitIInv
<1>2. IInv /\ [Next]_vars => IInv'
  BY NextIInv
<1>3. IInv => OnePerPeriod
  BY OneLeft
<1> QED
  BY <1>1, <1>2, <1>3, PTL DEF Spec

-----------------------------------------------------------------------------
(* Each router does what module Igmp says of an interface.  Its state is a *)
(* function of querier[r] here, so the steps to look at are those that     *)
(* change it.  No router hears itself.                                     *)
NoEcho == \A q \in queries : q.src # q.dst

LEMMA InitNode == ASSUME Init, NEW r \in Router PROVE Node(r)!Init
BY DEF Init, Node!Init, Node!NoId, Node!Periodic

LEMMA NoEchoStep == TypeOK /\ NoEcho /\ [Next]_vars => NoEcho'
<1> SUFFICES ASSUME TypeOK, NoEcho, [Next]_vars PROVE NoEcho'
  OBVIOUS
<1>1. \A r \in Router : \A q \in QueriesOf(r) : q.src # q.dst
  BY DEF QueriesOf
<1>2. queries' \subseteq queries \/ \E r \in Router : queries' = queries \union QueriesOf(r)
  BY DEF Next, Sends, Hears, Faults, Tick, send_query, retry_query,
         accept_membership_query, Lose, Crash, Restart, vars
<1> QED BY <1>1, <1>2 DEF NoEcho

LEMMA RetryNode ==
  ASSUME TypeOK, NEW r \in Router, retry_query(r)
  PROVE  Node(r)!retry_query
<1>1. querier[r] # 0 /\ querier'[r] = 0
  BY DEF TypeOK, retry_query, TimedOut
<1> QED BY <1>1 DEF Node!retry_query, Node!Periodic, Node!NoId, Node!members

LEMMA AcceptNode ==
  ASSUME TypeOK, NoEcho, NEW q \in Query, accept_membership_query(q),
         querier'[q.dst] # querier[q.dst]
  PROVE  \E src \in Router \ {q.dst} : Node(q.dst)!accept_membership_query(src, 0)
<1> DEFINE r == q.dst
           src == q.src
<1>1. r \in Router /\ src \in Router \ {r} /\ src # 0
  BY Routers DEF Query, NoEcho, accept_membership_query
<1>2. querier \in [Router -> Router \union {0}]
  BY DEF TypeOK
<1>3. /\ querier'[r] = src
      /\ src < (IF querier[r] = 0 THEN r ELSE querier[r])
  BY <1>1, <1>2 DEF accept_membership_query, Elected
<1>4. Node(r)!Elected(src) = src
  BY <1>3 DEF Node!Elected
<1> HIDE DEF r, src
<1>5. Node(r)!accept_membership_query(src, 0)
  BY <1>1, <1>3, <1>4
  DEF Node!accept_membership_query, Node!ElectionTimers, Node!Periodic,
      Node!NoId
<1> QED BY <1>1, <1>5 DEF r

LEMMA CrashNode ==
  ASSUME TypeOK, NEW r \in Router, Crash(r)
  PROVE  r \notin up' /\ (Node(r)!Init)'
<1>1. querier'[r] = 0 /\ r \notin up'
  BY DEF TypeOK, Crash
<1> QED BY <1>1 DEF Node!Init, Node!NoId, Node!Periodic

LEMMA NodeSteps ==
  ASSUME TypeOK, NoEcho, [Next]_vars, NEW r \in Router
  PROVE  \/ Node(r)!Next \/ UNCHANGED querier[r]
         \/ r \notin up' /\ (Node(r)!Init)'
<1>0. querier \in [Router -> Router \union {0}]
  BY DEF TypeOK
<1>1. ASSUME NEW p \in Router, retry_query(p)
      PROVE  Node(r)!Next \/ UNCHANGED querier[r]
  <2>1. CASE p = r
    BY <1>1, <2>1, RetryNode DEF Node!Next
  <2>2. CASE p # r
    BY <1>0, <1>1, <2>2 DEF retry_query
  <2> QED BY <2>1, <2>2
<1>2. ASSUME NEW q \in Query, accept_membership_query(q)
      PROVE  Node(r)!Next \/ UNCHANGED querier[r]
  <2>1. CASE q.dst = r /\ querier'[r] # querier[r]
    BY <1>2, <2>1, AcceptNode DEF Node!Next
  <2>2. CASE q.dst # r
    BY <1>0, <1>2, <2>2 DEF accept_membership_query
  <2> QED BY <2>1, <2>2
<1>3. ASSUME NEW p \in Router, Crash(p)
      PROVE  UNCHANGED querier[r] \/ (r \notin up' /\ (Node(r)!Init)')
  <2>1. CASE p = r
    BY <1>3, <2>1, CrashNode
  <2>2. CASE p # r
    BY <1>0, <1>3, <2>2 DEF Crash
  <2> QED BY <2>1, <2>2
<1>4. \/ \E p \in Router : retry_query(p) \/ Crash(p)
      \/ \E q \in Query : accept_membership_query(q)
      \/ UNCHANGED querier
  BY DEF Next, Sends, Hears, Faults, Tick, send_query, Lose, Restart, vars
<1> QED BY <1>1, <1>2, <1>3, <1>4

(* Each router of a subnet, from its start and again after each crash,     *)
(* takes the steps that module Igmp allows an interface without groups,    *)
(* whatever the others do and whatever becomes of the queries              *)
(* (igmp.c:189-284, vif.c:140-175).                                        *)
THEOREM ElectionEachIsIgmp == Spec => EachIsIgmp
<1>1. Init => \A r \in Router : Node(r)!Init
  BY InitNode
<1>2. Init => NoEcho
  BY DEF Init, NoEcho
<1>3. TypeOK /\ NoEcho /\ [Next]_vars =>
        \A r \in Router :
           \/ Node(r)!Next \/ UNCHANGED querier[r]
           \/ r \notin up' /\ (Node(r)!Init)'
  BY NodeSteps
<1>4. TypeOK /\ NoEcho /\ [Next]_vars =>
        [\A r \in Router :
           \/ Node(r)!Next \/ UNCHANGED querier[r]
           \/ r \notin up' /\ (Node(r)!Init)']_vars
  BY <1>3
<1> QED
  BY <1>1, <1>2, <1>4, NoEchoStep, ElectionTypeCorrect, PTL
  DEF Spec, EachIsIgmp
=============================================================================
