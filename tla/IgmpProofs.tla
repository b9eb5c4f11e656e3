----------------------------- MODULE IgmpProofs -----------------------------
(* What Igmp guarantees for every address, set of routers and groups.      *)
EXTENDS Igmp, TLAPS

LEMMA DistinctTimers ==
  /\ Periodic("send_query") # Periodic("retry_query")
  /\ \A g \in Group, n \in Id, f \in {"send_query", "retry_query"} :
       Leave(g, n) # Periodic(f)
  /\ \A g, h \in Group, m, n \in Id :
       Leave(g, m) = Leave(h, n) <=> (g = h /\ m = n)
BY DEF Periodic, Leave

LEMMA NewIdFree ==
  ASSUME NEW pending, NEW g \in Group, FreeIds(pending, g) # {}
  PROVE  NewId(pending, g) \in Id /\ Leave(g, NewId(pending, g)) \notin pending
BY DEF NewId, FreeIds

LEMMA TimerKinds ==
  /\ \A f \in {"send_query", "retry_query"} : Periodic(f) \in Timer
  /\ \A g \in Group, n \in Id : Leave(g, n) \in Timer
BY DEF Periodic, Leave, Timer

(* What SetLeave does to the state, and what it leaves alone.              *)
LEMMA SetLeaveEffect ==
  ASSUME NEW pending, NEW g \in Group, NEW left \in -1..2, TypeOK,
         pending \subseteq Timer, SetLeave(pending, g, left)
  PROVE  /\ leave_query' \in [Group -> Id \union {NoId}]
         /\ timeout' \in [Group -> -1..2]
         /\ timers' \subseteq Timer
         /\ \A f \in {"send_query", "retry_query"} :
              Periodic(f) \in timers' <=> Periodic(f) \in pending
<1>1. NewId(pending, g) \in Id
  BY NewIdFree DEF SetLeave
<1>2. timers' \subseteq Timer
  BY <1>1, TimerKinds DEF SetLeave
<1>3. \A f \in {"send_query", "retry_query"} :
        Periodic(f) \in timers' <=> Periodic(f) \in pending
  BY <1>1, DistinctTimers DEF SetLeave
<1> QED BY <1>1, <1>2, <1>3 DEF SetLeave, TypeOK

(* The state of Igmp has the types the code gives it.                      *)
THEOREM IgmpTypeCorrect == Spec => []TypeOK
<1> USE DEF IGMP_Robustness
<1>1. Init => TypeOK
  BY IgmpAssumption, TimerKinds DEF Init, TypeOK, QueryId, NoId
<1>2. TypeOK /\ [Next]_vars => TypeOK'
  <2> SUFFICES ASSUME TypeOK, [Next]_vars PROVE TypeOK'
    OBVIOUS
  <2> USE DEF QueryId, NoId
  <2>1. CASE send_query
    BY <2>1 DEF send_query, TypeOK, members
  <2>2. CASE retry_query
    BY <2>2, TimerKinds DEF retry_query, TypeOK, members
  <2>3. ASSUME NEW src \in Router, NEW g \in Group \union {0},
               accept_membership_query(src, g)
        PROVE  TypeOK'
    <3>1. Elected(src) \in Router \union {0}
      BY DEF Elected, TypeOK
    <3>2. ElectionTimers(src) \subseteq Timer
      BY TimerKinds DEF ElectionTimers, TypeOK
    <3>3. CASE /\ Elected(src) # 0 /\ g \in groups
                /\ SetLeave(ElectionTimers(src), g, -1)
                /\ foreign' = foreign \union {g}
      <4>1. g \in Group
        BY <3>3 DEF TypeOK
      <4> QED BY <2>3, <3>1, <3>2, <3>3, <4>1, SetLeaveEffect
              DEF accept_membership_query, TypeOK
    <3>4. CASE /\ timers' = ElectionTimers(src)
                /\ UNCHANGED <<leave_query, timeout, foreign>>
      BY <2>3, <3>1, <3>2, <3>4 DEF accept_membership_query, TypeOK
    <3> QED BY <2>3, <3>3, <3>4 DEF accept_membership_query
  <2>4. ASSUME NEW g \in Group, accept_group_report(g) PROVE TypeOK'
    BY <2>4 DEF accept_group_report, TypeOK, election, Cleared
  <2>5. ASSUME NEW g \in Group, accept_leave_message(g) PROVE TypeOK'
    <3>1. Cleared(g) \subseteq Timer
      BY DEF Cleared, TypeOK
    <3> QED BY <2>5, <3>1, SetLeaveEffect
            DEF accept_leave_message, TypeOK, election, Asked
  <2>6. ASSUME NEW g \in Group, NEW n \in Id, leave_query_timer(g, n)
        PROVE  TypeOK'
    <3> DEFINE pending == timers \ {Leave(g, n)}
    <3>1. pending \subseteq Timer
      BY DEF TypeOK
    <3> HIDE DEF pending
    <3>2. CASE AskAgain(g, pending)
      BY <2>6, <3>1, <3>2, SetLeaveEffect
      DEF AskAgain, leave_query_timer, TypeOK, election, Asked
    <3>3. CASE Wait(g, pending)
      BY <2>6, <3>1, <3>3, SetLeaveEffect
      DEF Wait, leave_query_timer, TypeOK, election
    <3>4. CASE LetGo(g, pending)
      BY <2>6, <3>1, <3>4 DEF LetGo, leave_query_timer, TypeOK, election
    <3>5. CASE Unknown(g, pending)
      BY <2>6, <3>1, <3>5 DEF Unknown, leave_query_timer, TypeOK, election, members
    <3> QED BY <2>6, <3>2, <3>3, <3>4, <3>5 DEF leave_query_timer, pending
  <2>7. CASE UNCHANGED vars
    BY <2>7 DEF vars, election, members, TypeOK
  <2> QED BY <2>1, <2>2, <2>3, <2>4, <2>5, <2>6, <2>7 DEF Next
<1> QED BY <1>1, <1>2, PTL DEF Spec

-----------------------------------------------------------------------------
(* The two sides of the election exclude each other and agree with the     *)
(* timer identifiers (igmp.c:189-268), whatever routers share the subnet   *)
(* and whatever groups are being left meanwhile.                           *)
THEOREM IgmpOneRole == Spec => []OneRole
<1> DEFINE IInv == TypeOK /\ OneRole
<1>1. Init => OneRole
  BY IgmpAssumption, DistinctTimers DEF Init, OneRole, Pending, NoId
<1>2. IInv /\ TypeOK' /\ [Next]_vars => OneRole'
  <2> SUFFICES ASSUME TypeOK, OneRole, [Next]_vars PROVE OneRole'
    OBVIOUS
  <2> USE DEF OneRole, Pending, NoId
  <2>0. ASSUME UNCHANGED election,
               \A f \in {"send_query", "retry_query"} :
                 Periodic(f) \in timers' <=> Periodic(f) \in timers
        PROVE  OneRole'
    BY <2>0 DEF election
  <2>1. CASE send_query
    BY <2>1 DEF send_query, members
  <2>2. CASE retry_query
    BY <2>2, DistinctTimers, IgmpAssumption DEF retry_query, members
  <2>3. ASSUME NEW src \in Router, NEW g \in Group \union {0},
               accept_membership_query(src, g)
        PROVE  OneRole'
    <3>1. /\ Elected(src) < Address
          /\ querier # 0 => Elected(src) # 0
      BY IgmpAssumption DEF Elected, TypeOK
    <3>2. ElectionTimers(src) \subseteq Timer
      BY TimerKinds DEF ElectionTimers, TypeOK
    <3>3. /\ Periodic("send_query") \in ElectionTimers(src) <=> Elected(src) = 0
          /\ Periodic("retry_query") \in ElectionTimers(src) <=> Elected(src) # 0
      BY <3>1, DistinctTimers DEF ElectionTimers
    <3>4. \A f \in {"send_query", "retry_query"} :
            Periodic(f) \in timers' <=> Periodic(f) \in ElectionTimers(src)
      <4>1. CASE g \in groups /\ SetLeave(ElectionTimers(src), g, -1)
        <5>1. g \in Group
          BY <4>1 DEF TypeOK
        <5> QED BY <3>2, <4>1, <5>1, SetLeaveEffect
      <4>2. CASE timers' = ElectionTimers(src)
        BY <4>2
      <4> QED BY <2>3, <4>1, <4>2 DEF accept_membership_query
    <3> QED BY <2>3, <3>1, <3>3, <3>4 DEF accept_membership_query
  <2>4. ASSUME NEW g \in Group, accept_group_report(g) PROVE OneRole'
    <3>1. timers' = Cleared(g) \/ timers' = timers
      BY <2>4 DEF accept_group_report
    <3>2. \A f \in {"send_query", "retry_query"} :
            Periodic(f) \in Cleared(g) <=> Periodic(f) \in timers
      BY DistinctTimers DEF Cleared, Leave, Periodic
    <3> QED BY <2>0, <2>4, <3>1, <3>2 DEF accept_group_report
  <2>5. ASSUME NEW g \in Group, accept_leave_message(g) PROVE OneRole'
    <3>1. Cleared(g) \subseteq Timer
      BY DEF Cleared, TypeOK
    <3>2. \A f \in {"send_query", "retry_query"} :
            Periodic(f) \in Cleared(g) <=> Periodic(f) \in timers
      BY DEF Cleared, Leave, Periodic
    <3>3. UNCHANGED election /\ SetLeave(Cleared(g), g, 1)
      BY <2>5 DEF accept_leave_message, election
    <3> QED BY <2>0, <3>1, <3>2, <3>3, SetLeaveEffect
  <2>6. ASSUME NEW g \in Group, NEW n \in Id, leave_query_timer(g, n)
        PROVE  OneRole'
    <3> DEFINE pending == timers \ {Leave(g, n)}
    <3>1. pending \subseteq Timer
      BY DEF TypeOK
    <3>2. \A f \in {"send_query", "retry_query"} :
            Periodic(f) \in pending <=> Periodic(f) \in timers
      BY DEF Leave, Periodic
    <3> HIDE DEF pending
    <3>3. \/ timers' = pending
          \/ \E left \in -1..2 : SetLeave(pending, g, left)
      BY <2>6 DEF leave_query_timer, pending, AskAgain, Wait, LetGo, Unknown
    <3>4. \A f \in {"send_query", "retry_query"} :
            Periodic(f) \in timers' <=> Periodic(f) \in pending
      BY <3>1, <3>3, SetLeaveEffect
    <3>5. UNCHANGED election
      BY <2>6 DEF leave_query_timer
    <3> QED BY <2>0, <3>2, <3>4, <3>5
  <2>7. CASE UNCHANGED vars
    BY <2>7 DEF vars, election
  <2> QED BY <2>1, <2>2, <2>3, <2>4, <2>5, <2>6, <2>7 DEF Next
<1> QED BY <1>1, <1>2, IgmpTypeCorrect, PTL DEF Spec

-----------------------------------------------------------------------------
(* What SetLeave does to the countdowns when none was running for the      *)
(* group, or another router's query counts among those of the group.       *)
LEMMA SetLeaveCountdown ==
  ASSUME NEW pending, NEW g \in groups, NEW left, TypeOK,
         g \in foreign' \/ \A n \in Id : Leave(g, n) \notin pending,
         \A h \in Group, n \in Id :
           h # g => (Leave(h, n) \in pending <=> Leave(h, n) \in timers),
         foreign \subseteq foreign',
         OneCountdown, SetLeave(pending, g, left), groups' = groups
  PROVE  OneCountdown'
<1>1. g \in Group
  BY DEF TypeOK
<1>2. NewId(pending, g) \in Id
  BY <1>1, NewIdFree DEF SetLeave
<1>3. leave_query' = [leave_query EXCEPT ![g] = NewId(pending, g)]
  BY DEF SetLeave
<1> SUFFICES ASSUME NEW h \in Group \ foreign', NEW n \in Id
             PROVE  Leave(h, n) \in timers'
                      <=> (h \in groups' /\ leave_query'[h] = n)
  BY DEF OneCountdown
<1>4. CASE h = g
  BY <1>1, <1>2, <1>3, <1>4, DistinctTimers DEF SetLeave, TypeOK
<1>5. CASE h # g
  BY <1>1, <1>2, <1>3, <1>5, DistinctTimers DEF SetLeave, TypeOK, OneCountdown
<1> QED BY <1>4, <1>5

(* A leave_query timer expires.                                            *)
LEMMA CountdownStep ==
  ASSUME TypeOK, OneCountdown, NEW g \in Group, NEW n \in Id,
         leave_query_timer(g, n)
  PROVE  OneCountdown'
<1> DEFINE pending == timers \ {Leave(g, n)}
<1>0. foreign' = foreign
  BY DEF leave_query_timer
<1>1. g \notin foreign => g \in groups /\ leave_query[g] = n
  BY DEF leave_query_timer, OneCountdown
<1>2. g \notin foreign => \A m \in Id : Leave(g, m) \notin pending
  BY <1>1, DistinctTimers DEF OneCountdown
<1>3. \A h \in Group, m \in Id :
        h # g => (Leave(h, m) \in pending <=> Leave(h, m) \in timers)
  BY DistinctTimers
<1> HIDE DEF pending
<1>4. CASE AskAgain(g, pending) \/ Wait(g, pending)
  <2>1. g \in groups /\ groups' = groups
    BY <1>4 DEF AskAgain, Wait
  <2>2. \E left \in -1..2 : SetLeave(pending, g, left)
    BY <1>4 DEF AskAgain, Wait
  <2> QED BY <1>0, <1>2, <1>3, <2>1, <2>2, SetLeaveCountdown
<1>5. CASE LetGo(g, pending)
  BY <1>0, <1>2, <1>3, <1>5 DEF LetGo, OneCountdown, TypeOK, NoId
<1>6. CASE Unknown(g, pending)
  BY <1>0, <1>1, <1>3, <1>6 DEF Unknown, OneCountdown, members
<1> QED BY <1>4, <1>5, <1>6 DEF leave_query_timer, pending

(* Only the query of another router makes a second countdown for a group,  *)
(* whatever this router's role is and however often it changes             *)
(* (igmp.c:211-428).                                                       *)
THEOREM IgmpOneCountdown == Spec => []OneCountdown
<1> USE DEF NoId
<1>1. Init => OneCountdown
  BY DistinctTimers DEF Init, OneCountdown
<1>2. TypeOK /\ OneCountdown /\ [Next]_vars => OneCountdown'
  <2> SUFFICES ASSUME TypeOK, OneCountdown, [Next]_vars
               PROVE  OneCountdown'
    OBVIOUS
  <2>1. CASE send_query
    BY <2>1 DEF send_query, members, OneCountdown
  <2>2. CASE retry_query
    BY <2>2, DistinctTimers DEF retry_query, members, OneCountdown
  <2>3. ASSUME NEW src \in Router, NEW g \in Group \union {0},
               accept_membership_query(src, g)
        PROVE  OneCountdown'
    <3>1. \A h \in Group, n \in Id :
            Leave(h, n) \in ElectionTimers(src) <=> Leave(h, n) \in timers
      BY DistinctTimers DEF ElectionTimers
    <3>2. groups' = groups
      BY <2>3 DEF accept_membership_query
    <3>3. CASE /\ g \in groups
                /\ SetLeave(ElectionTimers(src), g, -1)
                /\ foreign' = foreign \union {g}
      BY <3>1, <3>2, <3>3, SetLeaveCountdown
    <3>4. CASE /\ timers' = ElectionTimers(src)
                /\ UNCHANGED <<leave_query, timeout, foreign>>
      BY <3>1, <3>2, <3>4 DEF OneCountdown
    <3> QED BY <2>3, <3>3, <3>4 DEF accept_membership_query
  <2>4. ASSUME NEW g \in Group, accept_group_report(g) PROVE OneCountdown'
    <3>0. foreign' = foreign
      BY <2>4 DEF accept_group_report
    <3>1. CASE g \in groups /\ leave_query[g] # NoId
      <4>1. /\ timers' = Cleared(g)
            /\ leave_query' = [leave_query EXCEPT ![g] = NoId]
            /\ groups' = groups
        BY <2>4, <3>1 DEF accept_group_report
      <4>2. leave_query[g] \in Id
        BY <3>1 DEF TypeOK
      <4> QED BY <3>0, <4>1, <4>2, DistinctTimers
              DEF OneCountdown, TypeOK, Cleared, Id
    <3>2. CASE g \notin groups
      BY <2>4, <3>0, <3>2 DEF accept_group_report, OneCountdown, TypeOK, Id
    <3>3. CASE g \in groups /\ leave_query[g] = NoId
      BY <2>4, <3>0, <3>3 DEF accept_group_report, OneCountdown
    <3> QED BY <3>1, <3>2, <3>3
  <2>5. ASSUME NEW g \in Group, accept_leave_message(g) PROVE OneCountdown'
    <3>1. /\ g \in groups /\ groups' = groups /\ foreign' = foreign
          /\ SetLeave(Cleared(g), g, 1)
      BY <2>5 DEF accept_leave_message
    <3>2. g \in foreign \/ \A n \in Id : Leave(g, n) \notin Cleared(g)
      BY DEF OneCountdown, Cleared
    <3>3. \A h \in Group, n \in Id :
            h # g => (Leave(h, n) \in Cleared(g) <=> Leave(h, n) \in timers)
      BY DEF Cleared, Leave
    <3> QED BY <3>1, <3>2, <3>3, SetLeaveCountdown
  <2>6. ASSUME NEW g \in Group, NEW n \in Id, leave_query_timer(g, n)
        PROVE  OneCountdown'
    BY <2>6, CountdownStep
  <2>7. CASE UNCHANGED vars
    BY <2>7 DEF vars, members, OneCountdown
  <2> QED BY <2>1, <2>2, <2>3, <2>4, <2>5, <2>6, <2>7 DEF Next
<1> QED BY <1>1, <1>2, IgmpTypeCorrect, PTL DEF Spec

-----------------------------------------------------------------------------
(* How many queries are behind a countdown: what AskedTwice rests on.      *)
CountedQueries ==
  \A g \in groups \ foreign :
    leave_query[g] # NoId =>
      /\ timeout[g] = 1 => asked[g] >= 1
      /\ timeout[g] \in {-1, 0} => asked[g] = 2
      /\ timeout[g] # 2

(* No group goes of this router's own accord before it has asked for it    *)
(* twice since the last report (igmp.c:344-428, defs.h:86).                *)
THEOREM IgmpAskedTwice == Spec => AskedTwice
<1> USE DEF NoId, IGMP_Robustness
<1> DEFINE IInv == TypeOK /\ OneCountdown /\ CountedQueries
<1> DEFINE Step == \A g \in (groups \ groups') \ foreign : asked[g] = IGMP_Robustness
<1>1. Init => CountedQueries
  BY DEF Init, CountedQueries
<1>2. IInv /\ [Next]_vars => CountedQueries' /\ Step
  <2> SUFFICES ASSUME TypeOK, OneCountdown, CountedQueries, [Next]_vars
               PROVE  CountedQueries' /\ Step
    OBVIOUS
  <2> USE DEF CountedQueries
  <2>1. CASE send_query
    BY <2>1 DEF send_query, members
  <2>2. CASE retry_query
    BY <2>2 DEF retry_query, members
  <2>3. ASSUME NEW src \in Router, NEW g \in Group \union {0},
               accept_membership_query(src, g)
        PROVE  CountedQueries' /\ Step
    <3>1. groups' = groups /\ asked' = asked
      BY <2>3 DEF accept_membership_query
    <3>2. CASE g \in groups /\ SetLeave(ElectionTimers(src), g, -1)
                /\ foreign' = foreign \union {g}
      BY <3>1, <3>2 DEF SetLeave, TypeOK
    <3>3. CASE UNCHANGED <<leave_query, timeout, foreign>>
      BY <3>1, <3>3
    <3> QED BY <2>3, <3>2, <3>3 DEF accept_membership_query
  <2>4. ASSUME NEW g \in Group, accept_group_report(g)
        PROVE  CountedQueries' /\ Step
    BY <2>4 DEF accept_group_report, TypeOK
  <2>5. ASSUME NEW g \in Group, accept_leave_message(g)
        PROVE  CountedQueries' /\ Step
    <3>1. /\ timeout' = [timeout EXCEPT ![g] = 1]
          /\ leave_query' \in [Group -> Id \union {NoId}]
          /\ \A h \in Group : h # g => leave_query'[h] = leave_query[h]
          /\ asked' = Asked(g)
          /\ groups' = groups
          /\ foreign' = foreign
      BY <2>5, NewIdFree DEF accept_leave_message, SetLeave, TypeOK
    <3>2. asked'[g] >= 1 /\ \A h \in Group : h # g => asked'[h] = asked[h]
      BY <3>1 DEF Asked, TypeOK
    <3> QED BY <3>1, <3>2 DEF TypeOK
  <2>6. ASSUME NEW g \in Group, NEW n \in Id, leave_query_timer(g, n)
        PROVE  CountedQueries' /\ Step
    <3> DEFINE pending == timers \ {Leave(g, n)}
    <3>1. g \notin foreign => g \in groups /\ leave_query[g] = n /\ n # NoId
      BY <2>6 DEF leave_query_timer, OneCountdown, Id
    <3>0. foreign' = foreign
      BY <2>6 DEF leave_query_timer
    <3> HIDE DEF pending
    <3>2. CASE AskAgain(g, pending)
      <4>1. asked'[g] >= 1 /\ \A h \in Group : h # g => asked'[h] = asked[h]
        BY <3>2 DEF AskAgain, Asked, TypeOK
      <4>2. g \notin foreign => asked'[g] = 2
        BY <3>1, <3>2 DEF AskAgain, Asked, TypeOK
      <4> QED BY <3>0, <3>2, <4>1, <4>2 DEF AskAgain, SetLeave, TypeOK
    <3>3. CASE Wait(g, pending)
      BY <3>0, <3>1, <3>3 DEF Wait, SetLeave, TypeOK
    <3>4. CASE LetGo(g, pending)
      BY <3>0, <3>1, <3>4 DEF LetGo, TypeOK
    <3>5. CASE Unknown(g, pending)
      BY <3>0, <3>1, <3>5 DEF Unknown, members
    <3> QED BY <2>6, <3>2, <3>3, <3>4, <3>5 DEF leave_query_timer, pending
  <2>7. CASE UNCHANGED vars
    BY <2>7 DEF vars, members
  <2> QED BY <2>1, <2>2, <2>3, <2>4, <2>5, <2>6, <2>7 DEF Next
<1>3. Spec => []IInv
  <2>1. Spec => [](TypeOK /\ OneCountdown)
    BY IgmpTypeCorrect, IgmpOneCountdown, PTL
  <2>2. IInv /\ [Next]_vars => CountedQueries'
    BY <1>2
  <2> QED BY <1>1, <2>1, <2>2, PTL DEF Spec, IInv
<1> QED BY <1>2, <1>3, PTL DEF Spec, AskedTwice
=============================================================================
