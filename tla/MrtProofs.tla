----------------------------- MODULE MrtProofs ------------------------------
(* What Mrt guarantees for every set of interfaces, sources and groups,    *)
(* every topology and every bound.                                         *)
EXTENDS Mrt, FiniteSetTheorems, SequenceTheorems, WellFoundedInduction, TLAPS

-----------------------------------------------------------------------------
(* Entries and timers.                                                     *)

LEMMA BlankType ==
  ASSUME NEW sg \in SG
  PROVE  Blank(sg) \in MrtEntry
<1>1. Incoming[sg[1]] \in Vif /\ NextHop[sg[1]] \in Hop
  BY MrtAssumption DEF SG, Hop
<1>2. 0 \in TimerId
  BY MrtAssumption DEF TimerId
<1> QED BY <1>1, <1>2 DEF Blank, MrtEntry, NoId

LEMMA NewIdType ==
  ASSUME NEW pending, NEW f, NEW sg, NEW v, CanSet(pending, f, sg, v)
  PROVE  /\ NewId(pending, f, sg, v) \in 1..MaxN
         /\ NewId(pending, f, sg, v) \in TimerId
BY MrtAssumption DEF CanSet, NewId, FreeIds, TimerId

LEMMA NewTimerType ==
  ASSUME NEW pending, NEW f \in Func, NEW sg \in SG, NEW v \in 0..MaxVif,
         CanSet(pending, f, sg, v)
  PROVE  NewTimer(pending, f, sg, v) \in Timer
BY NewIdType DEF NewTimer, Timer

LEMMA ClearedType ==
  ASSUME NEW pending \in SUBSET Timer, NEW f, NEW sg, NEW v, NEW n
  PROVE  Cleared(pending, f, sg, v, n) \subseteq Timer
BY DEF Cleared

LEMMA ToUpstreamType ==
  ASSUME NEW m \in [SG -> MrtEntry], NEW S \in SUBSET SG,
         NEW type \in {"prune", "join", "graft"}
  PROVE  ToUpstream(type, m, S) \subseteq Message
BY DEF ToUpstream, Message, MrtEntry

-----------------------------------------------------------------------------
(* plan_graft.  As many free identifiers as calls are enough for a set of  *)
(* identifiers of that size.                                               *)
LEMMA GraftIdsExist ==
  ASSUME NEW pending, NEW sg, NEW k \in Nat,
         Cardinality(FreeIds(pending, "plan_graft", sg, 0)) >= k
  PROVE  /\ GraftIds(pending, sg, k) \subseteq
              FreeIds(pending, "plan_graft", sg, 0)
         /\ Cardinality(GraftIds(pending, sg, k)) = k
         /\ k # 0 => GraftIds(pending, sg, k) # {}
<1> DEFINE F == FreeIds(pending, "plan_graft", sg, 0)
<1>1. IsFiniteSet(F)
  <2>1. F \subseteq 1..MaxN
    BY DEF FreeIds
  <2>2. IsFiniteSet(1..MaxN)
    BY MrtAssumption, FS_Interval
  <2> QED BY <2>1, <2>2, FS_Subset
<1>2. PICK b \in Bijection(1..Cardinality(F), F) : TRUE
  BY <1>1, FS_CardinalityType DEF ExistsBijection
<1> DEFINE ids == {b[i] : i \in 1..k}
<1>3. Cardinality(F) \in Nat /\ k <= Cardinality(F)
  BY <1>1, FS_CardinalityType
<1>4. [i \in 1..k |-> b[i]] \in Bijection(1..k, ids)
  BY <1>2, <1>3 DEF Bijection, Injection, Surjection, IsInjective
<1>5. ids \subseteq F
  BY <1>2, <1>3 DEF Bijection, Injection
<1>6. IsFiniteSet(1..k) /\ Cardinality(1..k) = k
  BY FS_Interval
<1>7. ExistsBijection(1..k, ids)
  BY <1>4 DEF ExistsBijection
<1>8. IsFiniteSet(ids) /\ Cardinality(ids) = k
  BY <1>6, <1>7, FS_Bijection
<1> HIDE DEF ids
<1>9. /\ GraftIds(pending, sg, k) \subseteq F
      /\ Cardinality(GraftIds(pending, sg, k)) = k
  BY <1>5, <1>8 DEF GraftIds
<1> QED BY <1>9, FS_EmptySet

LEMMA GraftedIds ==
  ASSUME NEW m \in [SG -> MrtEntry], NEW busy, NEW k \in [SG -> Nat],
         CanGraft(busy, k), NEW sg \in SG
  PROVE  /\ Grafted(m, busy, k) \in [SG -> MrtEntry]
         /\ k[sg] = 0 => Grafted(m, busy, k)[sg] = m[sg]
         /\ \E id \in TimerId :
              /\ Grafted(m, busy, k)[sg] \in
                   {m[sg], [m[sg] EXCEPT !.graft_timer_id = id]}
              /\ k[sg] # 0 =>
                   /\ Grafted(m, busy, k)[sg] =
                        [m[sg] EXCEPT !.graft_timer_id = id]
                   /\ id \in GraftIds(busy, sg, k[sg])
<1>1. \A s \in SG : k[s] # 0 =>
        /\ (CHOOSE n \in GraftIds(busy, s, k[s]) : TRUE)
             \in GraftIds(busy, s, k[s])
        /\ (CHOOSE n \in GraftIds(busy, s, k[s]) : TRUE) \in TimerId
  <2> SUFFICES ASSUME NEW s \in SG, k[s] # 0
               PROVE  /\ GraftIds(busy, s, k[s]) # {}
                      /\ GraftIds(busy, s, k[s]) \subseteq TimerId
    OBVIOUS
  <2>1. Cardinality(FreeIds(busy, "plan_graft", s, 0)) >= k[s]
    BY DEF CanGraft
  <2>2. FreeIds(busy, "plan_graft", s, 0) \subseteq TimerId
    BY MrtAssumption DEF FreeIds, TimerId
  <2> QED BY <2>1, <2>2, GraftIdsExist
<1>2. ASSUME NEW s \in SG, k[s] # 0
      PROVE  [m[s] EXCEPT !.graft_timer_id =
                CHOOSE n \in GraftIds(busy, s, k[s]) : TRUE] \in MrtEntry
  BY <1>1, <1>2 DEF MrtEntry
<1>3. Grafted(m, busy, k) \in [SG -> MrtEntry]
  BY <1>2 DEF Grafted
<1>4. CASE k[sg] = 0
  <2>1. NoId \in TimerId
    BY MrtAssumption DEF NoId, TimerId
  <2> QED BY <1>3, <1>4, <2>1 DEF Grafted
<1>5. CASE k[sg] # 0
  BY <1>1, <1>3, <1>5 DEF Grafted
<1> QED BY <1>4, <1>5

LEMMA GraftTimersType ==
  ASSUME NEW busy, NEW k \in [SG -> Nat], CanGraft(busy, k)
  PROVE  GraftTimers(busy, k) \subseteq Timer
<1> SUFFICES ASSUME NEW sg \in SG, NEW n \in GraftIds(busy, sg, k[sg])
             PROVE  [func |-> "plan_graft", sg |-> sg, vif |-> 0, n |-> n,
                     old |-> 0] \in Timer
  BY DEF GraftTimers
<1>1. Cardinality(FreeIds(busy, "plan_graft", sg, 0)) >= k[sg]
  BY DEF CanGraft
<1>2. n \in FreeIds(busy, "plan_graft", sg, 0)
  BY <1>1, GraftIdsExist
<1> QED BY <1>2, MrtAssumption DEF FreeIds, Timer, Func

LEMMA CallsType ==
  ASSUME NEW S
  PROVE  /\ Calls(S) \in [SG -> Nat]
         /\ \A sg \in SG : Calls(S)[sg] # 0 <=> sg \in S
BY DEF Calls

(* What the kernel is told of an entry does not depend on its Grafts.      *)
LEMMA GraftedMfc ==
  ASSUME NEW m \in [SG -> MrtEntry], NEW busy, NEW k \in [SG -> Nat],
         CanGraft(busy, k), NEW sg \in SG
  PROVE  /\ MfcOf(Grafted(m, busy, k)[sg]) = MfcOf(m[sg])
         /\ Grafted(m, busy, k)[sg].timeout_id = m[sg].timeout_id
         /\ Grafted(m, busy, k)[sg].check_timerid = m[sg].check_timerid
         /\ Grafted(m, busy, k)[sg].upstream = m[sg].upstream
<1>1. m[sg] \in MrtEntry
  OBVIOUS
<1>2. PICK id \in TimerId :
        Grafted(m, busy, k)[sg] \in {m[sg], [m[sg] EXCEPT !.graft_timer_id = id]}
  BY GraftedIds
<1> QED BY <1>1, <1>2 DEF MrtEntry, MfcOf

(* check_pim_state keeps the types and touches nothing but graft_timer_id  *)
(* of an entry.                                                            *)
LEMMA CheckPimState ==
  ASSUME NEW m \in [SG -> MrtEntry], NEW pending \in SUBSET Timer,
         NEW batch, NEW judge, check_pim_state(m, pending, batch, judge)
  PROVE  /\ mrt' \in [SG -> MrtEntry]
         /\ timers' \subseteq Timer
         /\ sent' \subseteq Message
         /\ \A sg \in SG :
              /\ MfcOf(mrt'[sg]) = MfcOf(m[sg])
              /\ mrt'[sg].timeout_id = m[sg].timeout_id
              /\ mrt'[sg].check_timerid = m[sg].check_timerid
              /\ mrt'[sg].upstream = m[sg].upstream
<1> DEFINE k == Calls(Grafting(m, judge))
           busy == pending \union batch
<1>1. k \in [SG -> Nat]
  BY CallsType
<1>2. /\ CanGraft(busy, k)
      /\ mrt' = Grafted(m, busy, k)
      /\ timers' = pending \union GraftTimers(busy, k)
      /\ sent' = ToUpstream("prune", m, Pruning(m, judge))
                   \union ToUpstream("graft", m, Grafting(m, judge))
  BY DEF check_pim_state
<1> HIDE DEF k, busy
<1>3. mrt' \in [SG -> MrtEntry]
  <2>1. CASE SG = {}
    BY <1>2, <2>1 DEF Grafted
  <2>2. CASE SG # {}
    BY <1>1, <1>2, <2>2, GraftedIds
  <2> QED BY <2>1, <2>2
<1>4. timers' \subseteq Timer
  BY <1>1, <1>2, GraftTimersType
<1>5. sent' \subseteq Message
  BY <1>2, ToUpstreamType DEF Pruning, Grafting
<1> QED BY <1>1, <1>2, <1>3, <1>4, <1>5, GraftedMfc

-----------------------------------------------------------------------------
(* The list of entries.                                                    *)

LEMMA LeastIndex ==
  ASSUME NEW S \in SUBSET Nat, S # {}
  PROVE  \E i \in S : \A j \in S : i <= j
<1>1. PICK i \in S : \A j \in S : ~ (<<j, i>> \in OpToRel(<, Nat))
  BY NatLessThanWellFounded, WFMin
<1>2. \A j \in S : ~ (j < i)
  BY <1>1 DEF OpToRel
<1> QED BY <1>2

LEMMA OnTheList ==
  ASSUME themrt \in Seq(SG)
  PROVE  /\ Len(themrt) \in Nat
         /\ Listed \subseteq SG
         /\ \A i \in 1..Len(themrt) : themrt[i] \in Listed
         /\ \A sg : InTable(sg) => sg \in Listed
         /\ \A sg : InTable(sg) => /\ Position(sg) \in 1..Len(themrt)
                                   /\ themrt[Position(sg)] = sg
BY DEF Listed, InTable, Position

LEMMA FoundEntry ==
  ASSUME themrt \in Seq(SG), NEW g, OfGroup(g) # {}
  PROVE  /\ find_sg_group(g) \in SG
         /\ InTable(find_sg_group(g))
<1>1. OfGroup(g) \subseteq 1..Len(themrt) /\ OfGroup(g) \subseteq Nat
  BY DEF OfGroup
<1>2. \E i \in OfGroup(g) : \A j \in OfGroup(g) : i <= j
  BY <1>1, LeastIndex
<1> DEFINE first == CHOOSE i \in OfGroup(g) : \A j \in OfGroup(g) : i <= j
<1>3. first \in OfGroup(g)
  BY <1>2
<1>4. find_sg_group(g) = themrt[first]
  BY DEF find_sg_group
<1> HIDE DEF first
<1>5. first \in 1..Len(themrt)
  BY <1>1, <1>3
<1> QED BY <1>4, <1>5, OnTheList DEF InTable, Listed

-----------------------------------------------------------------------------
(* The updates of an entry.                                                *)

LEMMA UpdateType ==
  ASSUME NEW e \in MrtEntry
  PROVE  /\ \A v \in Vif : Counted(e, v) \in MrtEntry
         /\ \A v \in Vif : Discounted(e, v) \in MrtEntry
         /\ \A v, out : out \in {0, 1} => Decided(e, v, out) \in MrtEntry
<1>1. \A v \in Vif : /\ e.outvif[v] \in {0, 1} /\ e.outnumber \in Int
      /\ e.outnumber + 1 - e.outvif[v] \in Int
      /\ e.outnumber - 1 \in Int
  BY DEF MrtEntry
<1>2. ASSUME NEW v \in Vif PROVE Counted(e, v) \in MrtEntry
  BY <1>1 DEF MrtEntry, Counted
<1>3. ASSUME NEW v \in Vif PROVE Discounted(e, v) \in MrtEntry
  BY <1>1 DEF MrtEntry, Discounted
<1>4. 0 \in TimerId
  BY MrtAssumption DEF TimerId
<1>5. ASSUME NEW v, NEW out \in {0, 1} PROVE Decided(e, v, out) \in MrtEntry
  BY <1>4 DEF MrtEntry, Decided, NoId
<1> QED BY <1>2, <1>3, <1>5

LEMMA FieldType ==
  ASSUME NEW m \in [SG -> MrtEntry], NEW sg \in SG, NEW id \in TimerId,
         NEW v, NEW out \in {0, 1}
  PROVE  /\ [m EXCEPT ![sg].join_delay_timer_id = id] \in [SG -> MrtEntry]
         /\ [m EXCEPT ![sg].graft_timer_id = id] \in [SG -> MrtEntry]
         /\ [m EXCEPT ![sg].timeout_id = id] \in [SG -> MrtEntry]
         /\ [m EXCEPT ![sg].prune_delay_timer_id[v] = id] \in [SG -> MrtEntry]
         /\ [m EXCEPT ![sg].outvif[v] = out] \in [SG -> MrtEntry]
<1>1. [m EXCEPT ![sg].join_delay_timer_id = id] \in [SG -> MrtEntry]
  BY DEF MrtEntry
<1>2. [m EXCEPT ![sg].graft_timer_id = id] \in [SG -> MrtEntry]
  BY DEF MrtEntry
<1>3. [m EXCEPT ![sg].timeout_id = id] \in [SG -> MrtEntry]
  BY DEF MrtEntry
<1>4. [m EXCEPT ![sg].prune_delay_timer_id[v] = id] \in [SG -> MrtEntry]
  BY DEF MrtEntry
<1>5. [m EXCEPT ![sg].outvif[v] = out] \in [SG -> MrtEntry]
  BY DEF MrtEntry
<1> QED BY <1>1, <1>2, <1>3, <1>4, <1>5

LEMMA LifetimeType ==
  ASSUME NEW m \in [SG -> MrtEntry], NEW sg \in SG,
         NEW id \in TimerId, NEW n \in TimerId
  PROVE  [m EXCEPT ![sg].timeout_id = id, ![sg].check_timerid = n]
           \in [SG -> MrtEntry]
<1> DEFINE x == [m EXCEPT ![sg].timeout_id = id, ![sg].check_timerid = n]
<1>1. m[sg] \in MrtEntry
  OBVIOUS
<1>2. x = [s \in SG |-> IF s = sg
                        THEN [m[sg] EXCEPT !.timeout_id = id, !.check_timerid = n]
                        ELSE m[s]]
  OBVIOUS
<1>3. [m[sg] EXCEPT !.timeout_id = id, !.check_timerid = n] \in MrtEntry
  BY <1>1 DEF MrtEntry
<1> QED BY <1>2, <1>3

LEMMA NewEntryType ==
  ASSUME NEW sg \in SG, NEW stale,
         CanSet(timers, "handle_sg_timeout", sg, 0),
         CanSet(timers, "check_sg", sg, 0)
  PROVE  NewEntry(sg, stale) \in MrtEntry
<1>1. Blank(sg) \in MrtEntry
  BY BlankType
<1>2. Cardinality(Wanted(sg)) \in Int
  <2>1. IsFiniteSet(Vif)
    BY MrtAssumption, FS_Interval DEF Vif
  <2>2. Wanted(sg) \in SUBSET Vif
    BY DEF Wanted
  <2> QED BY <2>1, <2>2, FS_Subset, FS_CardinalityType
<1>3. /\ NewId(timers, "handle_sg_timeout", sg, 0) \in TimerId
      /\ NewId(timers, "check_sg", sg, 0) \in TimerId
  BY NewIdType
<1>4. [v \in Vif |-> IF v \in Wanted(sg) \union (stale \ {Incoming[sg[1]]})
                     THEN 1 ELSE 0] \in [Vif -> {0, 1}]
  OBVIOUS
<1> QED BY <1>1, <1>2, <1>3, <1>4 DEF NewEntry, MrtEntry

LEMMA GraftCallsType ==
  ASSUME themrt \in Seq(SG), NEW v
  PROVE  GraftCalls(v) \in [SG -> Nat]
<1>1. IsFiniteSet(1..Len(themrt))
  BY FS_Interval
<1>2. \A S \in SUBSET (1..Len(themrt)) : Cardinality(S) \in Nat
  BY <1>1, FS_Subset, FS_CardinalityType
<1>3. ASSUME NEW sg \in SG
      PROVE  Cardinality({i \in Muted(v) : NumberAt(Opened(v), sg, i) = 1}) \in Nat
  <2>1. {i \in Muted(v) : NumberAt(Opened(v), sg, i) = 1}
          \in SUBSET (1..Len(themrt))
    BY DEF Muted
  <2> QED BY <1>2, <2>1
<1> QED BY <1>3 DEF GraftCalls

-----------------------------------------------------------------------------
(* change_mfc keeps the types.                                             *)
LEMMA ChangeMfcType ==
  ASSUME TypeOK, mrt' \in [SG -> MrtEntry], NEW S, change_mfc(S)
  PROVE  mfc' \in [SG -> MfcEntry \union {NoMfc}]
<1>1. \A sg \in SG : MfcOf(mrt'[sg]) \in MfcEntry
  BY DEF MfcOf, MfcEntry, MrtEntry
<1> QED BY <1>1 DEF change_mfc, TypeOK

-----------------------------------------------------------------------------
(* The steps that keep the types, by the handlers they belong to.          *)

LEMMA UpcallType ==
  ASSUME TypeOK, NEW sg \in SG, Upcall(sg)
  PROVE  TypeOK'
<1>1. ASSUME NEW stale \in StaleWords, NoCacheUpcall(sg, stale) PROVE TypeOK'
  <2> DEFINE m == [mrt EXCEPT ![sg] = NewEntry(sg, stale)]
             remote == IF Attached(m, sg) THEN {} ELSE {sg}
             grafts == IF m[sg].outnumber # 0 THEN remote ELSE {}
             fresh == {NewTimer(timers, "handle_sg_timeout", sg, 0),
                       NewTimer(timers, "check_sg", sg, 0)}
  <2>1. /\ CanSet(timers, "handle_sg_timeout", sg, 0)
        /\ CanSet(timers, "check_sg", sg, 0)
        /\ CanGraft(timers, Calls(grafts))
        /\ themrt' = <<sg>> \o themrt
        /\ mrt' = Grafted(m, timers, Calls(grafts))
        /\ timers' = timers \union fresh \union GraftTimers(timers, Calls(grafts))
        /\ sent' = ToUpstream("graft", m, grafts)
                     \union ToUpstream("prune", m, remote \ grafts)
        /\ alive' \in BOOLEAN
    BY <1>1, MrtAssumption DEF NoCacheUpcall, add_sg
  <2>2. m \in [SG -> MrtEntry]
    BY <2>1, NewEntryType DEF TypeOK
  <2>3. fresh \subseteq Timer
    <3>1. 0 \in 0..MaxVif /\ {"handle_sg_timeout", "check_sg"} \subseteq Func
      BY MrtAssumption DEF Func
    <3> QED BY <2>1, <3>1, NewTimerType
  <2>4. grafts \in SUBSET SG /\ remote \in SUBSET SG
    OBVIOUS
  <2> HIDE DEF m, grafts, remote, fresh
  <2>5. mrt' \in [SG -> MrtEntry]
    BY <2>1, <2>2, CallsType, GraftedIds
  <2>6. timers' \subseteq Timer
    BY <2>1, <2>3, CallsType, GraftTimersType DEF TypeOK
  <2>7. sent' \subseteq Message
    BY <2>1, <2>2, <2>4, ToUpstreamType
  <2>8. themrt' \in Seq(SG)
    BY <2>1, ConcatProperties DEF TypeOK
  <2>9. mfc' \in [SG -> MfcEntry \union {NoMfc}]
    BY <1>1, <2>5, ChangeMfcType DEF NoCacheUpcall
  <2> QED BY <1>1, <2>1, <2>5, <2>6, <2>7, <2>8, <2>9
          DEF NoCacheUpcall, TypeOK, hosts
<1>2. ASSUME NEW v \in Vif, WrongVifUpcall(sg, v) PROVE TypeOK'
  BY <1>2 DEF WrongVifUpcall, Packet, tables, TypeOK, Message, hosts
<1> QED BY <1>1, <1>2 DEF Upcall

LEMMA MemberType ==
  ASSUME TypeOK, NEW v \in Vif, NEW g \in Group, Member(v, g)
  PROVE  TypeOK'
<1> USE DEF TypeOK, hosts
<1>1. CASE add_leaf(v, g)
  <2>1. groups' \in [Vif -> SUBSET Group]
    BY <1>1 DEF add_leaf
  <2>2. CASE OfGroup(g) = {}
    BY <1>1, <2>1, <2>2 DEF add_leaf, tables
  <2>3. CASE OfGroup(g) # {}
    <3> DEFINE sg == find_sg_group(g)
               m == [mrt EXCEPT ![sg] = Counted(@, v)]
    <3>1. check_pim_state(m, timers, expired, "ADD_LEAF") /\ change_mfc({sg})
      BY <1>1, <2>3 DEF add_leaf
    <3>2. m \in [SG -> MrtEntry]
      BY UpdateType
    <3> HIDE DEF m, sg
    <3> QED BY <1>1, <2>1, <2>3, <3>1, <3>2, CheckPimState, ChangeMfcType DEF add_leaf
  <2> QED BY <2>2, <2>3
<1>2. CASE del_leaf(v, g)
  <2>1. groups' \in [Vif -> SUBSET Group]
    BY <1>2 DEF del_leaf
  <2>2. CASE OfGroup(g) = {}
    BY <1>2, <2>1, <2>2 DEF del_leaf, tables
  <2>3. CASE OfGroup(g) # {}
    <3> DEFINE sg == find_sg_group(g)
               m == [mrt EXCEPT ![sg] = Discounted(@, v)]
    <3>1. check_pim_state(m, timers, expired, "DEL_LEAF") /\ change_mfc({sg})
      BY <1>2, <2>3 DEF del_leaf
    <3>2. m \in [SG -> MrtEntry]
      BY UpdateType
    <3> HIDE DEF m, sg
    <3> QED BY <1>2, <2>1, <2>3, <3>1, <3>2, CheckPimState, ChangeMfcType DEF del_leaf
  <2> QED BY <2>2, <2>3
<1> QED BY <1>1, <1>2 DEF Member

LEMMA NeighbourType ==
  ASSUME TypeOK, NEW v \in Vif, Neighbour(v)
  PROVE  TypeOK'
<1> USE DEF TypeOK, hosts
<1>1. CASE AddNeighbor(v)
  <2> DEFINE k == GraftCalls(v)
             busy == timers \union expired
  <2>1. /\ CanGraft(busy, k)
        /\ mrt' = Grafted(Opened(v), busy, k)
        /\ timers' = timers \union GraftTimers(busy, k)
        /\ sent' = ToUpstream("graft", mrt, {sg \in SG : k[sg] > 0})
        /\ change_mfc({themrt[i] : i \in Muted(v)})
        /\ UNCHANGED <<themrt, expired, groups, alive>>
        /\ neighbor' \in [Vif -> BOOLEAN]
        /\ holding' \in [Vif -> 0..MaxHolding]
    BY <1>1, MrtAssumption DEF AddNeighbor, refresh_mrt_ADD
  <2>2. k \in [SG -> Nat]
    BY GraftCallsType
  <2>3. Opened(v) \in [SG -> MrtEntry]
    BY UpdateType DEF Opened
  <2> HIDE DEF k, busy
  <2>4. mrt' \in [SG -> MrtEntry]
    <3>1. CASE SG = {}
      BY <2>1, <3>1 DEF Grafted
    <3>2. CASE SG # {}
      BY <2>1, <2>2, <2>3, <3>2, GraftedIds
    <3> QED BY <3>1, <3>2
  <2>5. timers' \subseteq Timer
    BY <2>1, <2>2, GraftTimersType
  <2>6. sent' \subseteq Message
    BY <2>1, ToUpstreamType
  <2>7. mfc' \in [SG -> MfcEntry \union {NoMfc}]
    BY <2>1, <2>4, ChangeMfcType
  <2> QED BY <2>1, <2>4, <2>5, <2>6, <2>7
<1>2. CASE Goodbye(v) \/ NeighborTimesOut(v)
  <2>0. delete_pim_neighbor(v) /\ holding' \in [Vif -> 0..MaxHolding]
    <3>1. holding[v] \in 0..MaxHolding /\ MaxHolding \in Nat
      BY MrtAssumption
    <3>2. holding[v] > 0 => holding[v] - 1 \in 0..MaxHolding
      BY <3>1
    <3> QED BY <1>2, <3>2 DEF Goodbye, NeighborTimesOut
  <2>1. /\ UNCHANGED <<themrt, timers, expired, groups, alive>>
        /\ neighbor' \in [Vif -> BOOLEAN]
        /\ refresh_mrt_DEL(v)
    BY <2>0 DEF delete_pim_neighbor
  <2>2. CASE sent' = {} /\ UNCHANGED <<mrt, mfc>>
    BY <2>0, <2>1, <2>2
  <2>3. CASE ~(sent' = {} /\ UNCHANGED <<mrt, mfc>>)
    <3>1. /\ mrt' = Closed(v)
          /\ \E S \in SUBSET SG : sent' = ToUpstream("prune", mrt, S)
          /\ \E S : change_mfc(S)
      BY <2>1, <2>3, OnTheList DEF refresh_mrt_DEL
    <3>2. Closed(v) \in [SG -> MrtEntry]
      BY UpdateType DEF Closed
    <3> QED BY <2>0, <2>1, <3>1, <3>2, ToUpstreamType, ChangeMfcType
  <2> QED BY <2>2, <2>3
<1> QED BY <1>1, <1>2 DEF Neighbour

LEMMA PacketType ==
  ASSUME TypeOK, NEW v \in Vif, NEW sg \in SG,
         PimPacket(v, sg) \/ PimPacketUpstream(sg)
  PROVE  TypeOK'
<1> USE DEF TypeOK, Packet, hosts
<1>0. NoId \in TimerId /\ 0 \in 0..MaxVif /\ v \in 0..MaxVif
        /\ sg[1] \in Hop
  <2>1. NoId \in TimerId /\ 0 \in 0..MaxVif /\ v \in 0..MaxVif
    BY MrtAssumption DEF NoId, TimerId, Vif
  <2>2. sg[1] \in Hop
    BY DEF SG, Hop
  <2> QED BY <2>1, <2>2
<1>1. CASE OverheardJoin(v, sg)
  <2>1. [mrt EXCEPT ![sg].join_delay_timer_id = NoId] \in [SG -> MrtEntry]
    BY <1>0, FieldType
  <2> QED BY <1>1, <2>1, ClearedType DEF OverheardJoin
<1>2. CASE OverheardPrune(v, sg)
  <2>1. /\ NewTimer(timers, "send_join", sg, 0) \in Timer
        /\ NewId(timers, "send_join", sg, 0) \in TimerId
    BY <1>0, <1>2, NewTimerType, NewIdType DEF OverheardPrune, Func
  <2>2. [mrt EXCEPT ![sg].join_delay_timer_id =
                      NewId(timers, "send_join", sg, 0)] \in [SG -> MrtEntry]
    BY <2>1 DEF MrtEntry
  <2> QED BY <1>2, <2>1, <2>2 DEF OverheardPrune
<1>3. CASE RecvJoin(v, sg)
  <2>1. [mrt EXCEPT ![sg].prune_delay_timer_id[v] = NoId] \in [SG -> MrtEntry]
    BY <1>0, FieldType
  <2> QED BY <1>3, <2>1, ClearedType DEF RecvJoin
<1>4. CASE RecvPrune(v, sg)
  <2>1. /\ NewTimer(timers, "set_prune", sg, v) \in Timer
        /\ NewId(timers, "set_prune", sg, v) \in TimerId
    BY <1>0, <1>4, NewTimerType, NewIdType DEF RecvPrune, Func
  <2>2. [mrt EXCEPT ![sg].prune_delay_timer_id[v] =
                      NewId(timers, "set_prune", sg, v)] \in [SG -> MrtEntry]
    BY <2>1 DEF MrtEntry
  <2>3. [type |-> "echo", sg |-> sg, vif |-> v] \in Message
    BY DEF Message
  <2> QED BY <1>4, <2>1, <2>2, <2>3 DEF RecvPrune
<1>5. CASE RecvGraft(v, sg)
  <2>1. [mrt EXCEPT ![sg] = Decided(@, v, 1)] \in [SG -> MrtEntry]
    BY UpdateType
  <2>2. [type |-> "graft_ack", sg |-> sg, vif |-> v] \in Message
    BY DEF Message
  <2>3. mrt' \in [SG -> MrtEntry] /\ timers' \subseteq Timer
    BY <1>5, <2>1, ClearedType DEF RecvGraft
  <2>4. mfc' \in [SG -> MfcEntry \union {NoMfc}]
    BY <1>5, <2>3, ChangeMfcType DEF RecvGraft
  <2> QED BY <1>5, <2>2, <2>3, <2>4 DEF RecvGraft
<1>6. ASSUME NEW zero \in BOOLEAN, AssertDownstream(v, sg, zero) PROVE TypeOK'
  <2>1. CASE LocalWins(sg, zero)
    <3>1. [type |-> "assert", sg |-> sg, vif |-> v] \in Message
      BY DEF Message
    <3> QED BY <1>6, <2>1, <3>1 DEF AssertDownstream
  <2>2. CASE ~LocalWins(sg, zero)
    <3>1. /\ NewTimer(timers, "active_forward", sg, v) \in Timer
          /\ NewId(timers, "active_forward", sg, v) \in TimerId
      BY <1>0, <1>6, <2>2, NewTimerType, NewIdType DEF AssertDownstream, Func
    <3>2. [mrt EXCEPT ![sg].prune_delay_timer_id[v] =
             NewId(timers, "active_forward", sg, v)] \in [SG -> MrtEntry]
      BY <3>1 DEF MrtEntry
    <3> QED BY <1>6, <2>2, <3>1, <3>2 DEF AssertDownstream
  <2> QED BY <2>1, <2>2
<1>7. CASE RecvGraftAck(sg)
  <2>1. [mrt EXCEPT ![sg].graft_timer_id = NoId] \in [SG -> MrtEntry]
    BY <1>0, FieldType
  <2> QED BY <1>7, <2>1, ClearedType DEF RecvGraftAck
<1>8. ASSUME NEW zero \in BOOLEAN, AssertUpstream(sg, zero) PROVE TypeOK'
  <2>1. [mrt EXCEPT ![sg].upstream = sg[1]] \in [SG -> MrtEntry]
    BY <1>0 DEF MrtEntry
  <2> QED BY <1>8, <2>1 DEF AssertUpstream
<1> QED BY <1>1, <1>2, <1>3, <1>4, <1>5, <1>6, <1>7, <1>8
        DEF PimPacket, PimPacketUpstream

(* The entries that are left keep their order, and their number is one     *)
(* less.                                                                   *)
LEMMA Deletion ==
  ASSUME themrt \in Seq(SG), NEW p \in 1..Len(themrt)
  PROVE  LET s == SubSeq(themrt, 1, p - 1) \o SubSeq(themrt, p + 1, Len(themrt))
         IN  /\ s \in Seq(SG)
             /\ Len(s) = Len(themrt) - 1
             /\ \A i \in 1..Len(s) :
                  s[i] = IF i < p THEN themrt[i] ELSE themrt[i + 1]
<1> DEFINE a == SubSeq(themrt, 1, p - 1)
           b == SubSeq(themrt, p + 1, Len(themrt))
<1>1. \A i \in 1..Len(themrt) : themrt[i] \in SG
  OBVIOUS
<1>2. /\ a \in Seq(SG) /\ Len(a) = p - 1
      /\ \A i \in 1..(p - 1) : a[i] = themrt[i]
  BY <1>1, SubSeqProperties
<1>3. /\ b \in Seq(SG) /\ Len(b) = Len(themrt) - p
      /\ \A i \in 1..(Len(themrt) - p) : b[i] = themrt[p + i]
  BY <1>1, SubSeqProperties
<1> HIDE DEF a, b
<1>4. /\ a \o b \in Seq(SG)
      /\ Len(a \o b) = Len(themrt) - 1
      /\ \A i \in 1..(Len(themrt) - 1) :
           (a \o b)[i] = IF i <= p - 1 THEN a[i] ELSE b[i - (p - 1)]
  BY <1>2, <1>3, ConcatProperties
<1> SUFFICES \A i \in 1..Len(a \o b) :
               (a \o b)[i] = IF i < p THEN themrt[i] ELSE themrt[i + 1]
  BY <1>4 DEF a, b
<1>5. ASSUME NEW i \in 1..Len(a \o b), i < p PROVE (a \o b)[i] = themrt[i]
  BY <1>2, <1>4, <1>5
<1>6. ASSUME NEW i \in 1..Len(a \o b), ~ (i < p)
      PROVE  (a \o b)[i] = themrt[i + 1]
  <2>1. i - (p - 1) \in 1..(Len(themrt) - p)
    BY <1>4, <1>6
  <2>2. b[i - (p - 1)] = themrt[p + (i - (p - 1))]
    BY <1>3, <2>1
  <2>3. p + (i - (p - 1)) = i + 1
    BY <1>6
  <2> QED BY <1>4, <1>6, <2>2, <2>3
<1> QED BY <1>5, <1>6

LEMMA OldType ==
  ASSUME NEW t \in Timer, NEW n \in {0} \union Hop
  PROVE  [t EXCEPT !.old = n] \in Timer
BY DEF Timer

LEMMA UnlinkedType ==
  ASSUME TypeOK, NEW S \in SUBSET Timer, NEW sg \in SG
  PROVE  Unlinked(S, sg) \subseteq Timer
<1>1. Upstream(mrt, sg) \in Hop
  BY DEF Upstream, TypeOK, MrtEntry
<1> QED BY <1>1, OldType DEF Unlinked

LEMMA TimerStepType ==
  ASSUME TypeOK, NEW t \in expired, TimerRuns(t)
  PROVE  TypeOK'
<1> USE DEF TypeOK, Runs
<1>0. /\ t.sg \in SG /\ t.vif \in 0..MaxVif /\ Rest(t) \subseteq Timer
      /\ NoId \in TimerId /\ 0 \in 0..MaxVif
  BY MrtAssumption DEF Timer, Rest, NoId, TimerId
<1>1. CASE NoEntry(t)
  BY <1>0, <1>1 DEF NoEntry, tables, hosts
<1>2. CASE send_join(t)
  <2>1. [mrt EXCEPT ![t.sg].join_delay_timer_id = NoId] \in [SG -> MrtEntry]
    BY <1>0, FieldType
  <2>2. ToUpstream("join", mrt, {t.sg}) \subseteq Message
    BY <1>0, ToUpstreamType
  <2> QED BY <1>0, <1>2, <2>1, <2>2, ClearedType DEF send_join, hosts
<1>3. CASE set_prune(t)
  <2> DEFINE m == [mrt EXCEPT ![t.sg] = Decided(@, t.vif, 0)]
             again == NewTimer(timers \union Rest(t), "prune_time_out",
                               t.sg, t.vif)
  <2>1. /\ check_pim_state(m, timers \union {again}, Rest(t), "DEL_LEAF")
        /\ change_mfc({t.sg})
        /\ CanSet(timers \union Rest(t), "prune_time_out", t.sg, t.vif)
        /\ UNCHANGED <<themrt, hosts, alive>>
        /\ expired' = Rest(t)
    BY <1>3 DEF set_prune
  <2>3. m \in [SG -> MrtEntry]
    BY <1>0, UpdateType
  <2>4. again \in Timer
    BY <1>0, <2>1, NewTimerType DEF Func
  <2> HIDE DEF m, again
  <2> QED BY <1>0, <2>1, <2>3, <2>4, CheckPimState, ChangeMfcType DEF hosts
<1>4. CASE prune_time_out(t)
  <2> DEFINE m == [mrt EXCEPT ![t.sg].outvif[t.vif] = 1]
  <2>1. /\ check_pim_state(m, timers, Rest(t), "ADD_LEAF")
        /\ change_mfc({t.sg})
        /\ UNCHANGED <<themrt, hosts, alive>>
        /\ expired' = Rest(t)
    BY <1>4 DEF prune_time_out
  <2>3. m \in [SG -> MrtEntry]
    BY <1>0, FieldType
  <2> HIDE DEF m
  <2> QED BY <1>0, <2>1, <2>3, CheckPimState, ChangeMfcType DEF hosts
<1>5. CASE active_forward(t)
  <2>1. /\ check_pim_state(mrt, timers, Rest(t), "ADD_LEAF")
        /\ change_mfc(Listed)
        /\ UNCHANGED <<themrt, hosts>>
        /\ expired' = Rest(t)
        /\ alive' \in BOOLEAN
    BY <1>5 DEF active_forward
  <2> QED BY <1>0, <2>1, CheckPimState, ChangeMfcType DEF hosts
<1>6. CASE plan_graft(t)
  <2> DEFINE again == IF Attached(mrt, t.sg) THEN {} ELSE {t.sg}
             busy == timers \union Rest(t)
  <2>1. /\ CanGraft(busy, Calls(again))
        /\ mrt' = Grafted(mrt, busy, Calls(again))
        /\ timers' = timers \union GraftTimers(busy, Calls(again))
        /\ sent' = ToUpstream("graft", mrt, again)
        /\ UNCHANGED <<themrt, mfc, hosts, alive>>
        /\ expired' = Rest(t)
    BY <1>6 DEF plan_graft
  <2>2. again \in SUBSET SG
    BY <1>0
  <2> HIDE DEF again, busy
  <2>3. mrt' \in [SG -> MrtEntry]
    BY <1>0, <2>1, CallsType, GraftedIds
  <2>4. timers' \subseteq Timer
    BY <2>1, CallsType, GraftTimersType
  <2> QED BY <1>0, <2>1, <2>2, <2>3, <2>4, ToUpstreamType DEF hosts
<1>7. CASE plan_graft_unlinked(t)
  <2> DEFINE again == [NewTimer(timers \union Rest(t), "plan_graft", t.sg, 0)
                         EXCEPT !.old = t.old]
  <2>1. CanSet(timers \union Rest(t), "plan_graft", t.sg, 0) => again \in Timer
    <3>1. t.old \in {0} \union Hop
      BY DEF Timer
    <3>2. "plan_graft" \in Func
      BY DEF Func
    <3>3. \A x \in Timer : [x EXCEPT !.old = t.old] \in Timer
      BY <3>1, OldType
    <3> QED BY <1>0, <3>2, <3>3, NewTimerType
  <2>2. ToUpstream("graft", mrt, {t.sg}) \subseteq Message
    BY <1>0, ToUpstreamType
  <2>3. /\ timers' \subseteq Timer
        /\ sent' \subseteq Message
    BY <1>7, <2>1, <2>2 DEF plan_graft_unlinked
  <2> QED BY <1>0, <1>7, <2>3 DEF plan_graft_unlinked, tables, hosts
<1>8. CASE handle_sg_timeout(t)
  <2>1. /\ InTable(t.sg)
        /\ themrt' = SubSeq(themrt, 1, Position(t.sg) - 1) \o
                       SubSeq(themrt, Position(t.sg) + 1, Len(themrt))
        /\ mrt' = [mrt EXCEPT ![t.sg] = Blank(t.sg)]
        /\ mfc' = [mfc EXCEPT ![t.sg] = NoMfc]
        /\ timers' = TimersLeft(t.sg)
        /\ expired' = Unlinked(Rest(t), t.sg)
        /\ sent' = {}
        /\ UNCHANGED <<hosts, alive>>
    BY <1>8 DEF handle_sg_timeout
  <2>2. themrt' \in Seq(SG)
    BY <2>1, OnTheList, Deletion
  <2>3. mrt' \in [SG -> MrtEntry]
    BY <1>0, <2>1, BlankType
  <2>4. timers' \subseteq Timer
    BY <1>0, <2>1, ClearedType, UnlinkedType DEF TimersLeft
  <2>5. expired' \subseteq Timer
    BY <1>0, <2>1, UnlinkedType
  <2> QED BY <2>1, <2>2, <2>3, <2>4, <2>5 DEF hosts
<1>9. ASSUME NEW busy \in BOOLEAN, check_sg(t, busy) PROVE TypeOK'
  <2> DEFINE lasting == IF busy
                        THEN Cleared(timers, "handle_sg_timeout", t.sg, 0,
                                     mrt[t.sg].timeout_id)
                        ELSE timers
             kept == Cleared(lasting, "check_sg", t.sg, 0,
                             mrt[t.sg].check_timerid)
             pending == kept \union Rest(t)
             toid == IF busy
                     THEN NewId(pending, "handle_sg_timeout", t.sg, 0)
                     ELSE mrt[t.sg].timeout_id
             chid == NewId(pending, "check_sg", t.sg, 0)
  <2>1. /\ \A f \in Rearmed(busy) : CanSet(pending, f, t.sg, 0)
        /\ timers' = kept \union
                       {NewTimer(pending, f, t.sg, 0) : f \in Rearmed(busy)}
        /\ mrt' = [mrt EXCEPT ![t.sg].timeout_id = toid,
                              ![t.sg].check_timerid = chid]
        /\ sent' = {}
        /\ expired' = Rest(t)
        /\ UNCHANGED <<themrt, mfc, hosts, alive>>
    BY <1>9 DEF check_sg
  <2>2. /\ "check_sg" \in Rearmed(busy)
        /\ busy => "handle_sg_timeout" \in Rearmed(busy)
        /\ Rearmed(busy) \subseteq Func
    BY DEF Rearmed, Func
  <2>3. kept \subseteq Timer
    BY ClearedType
  <2>4. mrt[t.sg].timeout_id \in TimerId
    BY <1>0 DEF MrtEntry
  <2> HIDE DEF kept, pending
  <2>5. toid \in TimerId /\ chid \in TimerId
    BY <2>1, <2>2, <2>4, NewIdType
  <2>6. timers' \subseteq Timer
    BY <1>0, <2>1, <2>2, <2>3, NewTimerType
  <2> HIDE DEF toid, chid
  <2>8. mrt' \in [SG -> MrtEntry]
    BY <1>0, <2>1, <2>5, LifetimeType
  <2> QED BY <1>0, <2>1, <2>6, <2>8 DEF hosts
<1>10. CASE check_sg_gone(t)
  BY <1>0, <1>10 DEF check_sg_gone, tables, hosts
<1> QED BY <1>1, <1>2, <1>3, <1>4, <1>5, <1>6, <1>7, <1>8, <1>9, <1>10
        DEF TimerRuns

-----------------------------------------------------------------------------
(* The state of Mrt has the types the code gives it: no handler, and no    *)
(* timer function however late, leaves a field of an entry, a timer or the *)
(* kernel's cache outside its range.                                       *)
THEOREM MrtTypeCorrect == Spec => []TypeOK
<1>1. Init => TypeOK
  BY BlankType, EmptySeq, MrtAssumption DEF Init, TypeOK
<1>2. TypeOK /\ [Next]_vars => TypeOK'
  <2> SUFFICES ASSUME TypeOK, [Next]_vars PROVE TypeOK'
    OBVIOUS
  <2>1. ASSUME NEW sg \in SG, Upcall(sg) PROVE TypeOK'
    BY <2>1, UpcallType
  <2>2. ASSUME NEW sg \in SG, PimPacketUpstream(sg) PROVE TypeOK'
    <3>1. 1 \in Vif
      BY MrtAssumption DEF Vif
    <3> QED BY <2>2, <3>1, PacketType
  <2>3. ASSUME NEW v \in HostVif, NEW g \in Group, Member(v, g) PROVE TypeOK'
    BY <2>3, MrtAssumption, MemberType
  <2>4. ASSUME NEW v \in RouterVif, Neighbour(v) PROVE TypeOK'
    BY <2>4, MrtAssumption, NeighbourType
  <2>5. ASSUME NEW v \in RouterVif, NEW sg \in SG, PimPacket(v, sg)
        PROVE  TypeOK'
    BY <2>5, MrtAssumption, PacketType
  <2>6. ASSUME NEW S \in SUBSET timers, Expire(S) PROVE TypeOK'
    BY <2>6 DEF Expire, TypeOK, tables, hosts
  <2>7. ASSUME NEW t \in expired, TimerRuns(t) PROVE TypeOK'
    BY <2>7, TimerStepType
  <2>8. CASE UNCHANGED vars
    BY <2>8 DEF vars, TypeOK, hosts
  <2> QED BY <2>1, <2>2, <2>3, <2>4, <2>5, <2>6, <2>7, <2>8 DEF Next
<1> QED BY <1>1, <1>2, PTL DEF Spec

-----------------------------------------------------------------------------
(* The kernel's cache.  An entry is on the list once: deleting it takes it *)
(* off.                                                                    *)
ListedOnce ==
  \A i, j \in 1..Len(themrt) : themrt[i] = themrt[j] => i = j

LEMMA ListedOnceAdded ==
  ASSUME themrt \in Seq(SG), ListedOnce, NEW sg \in SG, ~InTable(sg),
         themrt' = <<sg>> \o themrt
  PROVE  /\ ListedOnce'
         /\ \A s : InTable(s)' <=> InTable(s) \/ s = sg
<1>1. /\ Len(themrt') = Len(themrt) + 1
      /\ \A i \in 1..Len(themrt') :
           themrt'[i] = IF i = 1 THEN sg ELSE themrt[i - 1]
  <2>1. /\ <<sg>> \in Seq(SG) /\ Len(<<sg>>) = 1 /\ <<sg>>[1] = sg
    OBVIOUS
  <2>2. /\ Len(themrt') = Len(<<sg>>) + Len(themrt)
        /\ \A i \in 1..Len(<<sg>>) + Len(themrt) : themrt'[i] =
             IF i <= Len(<<sg>>) THEN <<sg>>[i] ELSE themrt[i - Len(<<sg>>)]
    BY <2>1, ConcatProperties
  <2> QED BY <2>1, <2>2
<1>2. Len(themrt) \in Nat
  OBVIOUS
<1>3. ListedOnce'
  <2> SUFFICES ASSUME NEW i \in 1..Len(themrt'), NEW j \in 1..Len(themrt'),
                      themrt'[i] = themrt'[j]
               PROVE  i = j
    BY DEF ListedOnce
  <2>1. CASE i = 1 /\ j # 1
    BY <1>1, <1>2, <2>1 DEF InTable
  <2>2. CASE i # 1 /\ j = 1
    BY <1>1, <1>2, <2>2 DEF InTable
  <2>3. CASE i # 1 /\ j # 1
    <3>1. i - 1 \in 1..Len(themrt) /\ j - 1 \in 1..Len(themrt)
      BY <1>1, <1>2, <2>3
    <3>2. themrt[i - 1] = themrt[j - 1]
      BY <1>1, <2>3
    <3>3. i - 1 = j - 1
      BY <3>1, <3>2 DEF ListedOnce
    <3> QED BY <3>3
  <2> QED BY <2>1, <2>2, <2>3
<1>4. ASSUME NEW s, InTable(s)' PROVE InTable(s) \/ s = sg
  BY <1>1, <1>2, <1>4 DEF InTable
<1>5. ASSUME NEW s, InTable(s) PROVE InTable(s)'
  <2>1. PICK i \in 1..Len(themrt) : themrt[i] = s
    BY <1>5 DEF InTable
  <2>2. i + 1 \in 1..Len(themrt') /\ themrt'[i + 1] = s
    BY <1>1, <1>2, <2>1
  <2> QED BY <2>2 DEF InTable
<1>6. InTable(sg)'
  BY <1>1, <1>2 DEF InTable
<1> QED BY <1>3, <1>4, <1>5, <1>6

LEMMA ListedOnceDeleted ==
  ASSUME themrt \in Seq(SG), ListedOnce, NEW sg \in SG, InTable(sg),
         themrt' = SubSeq(themrt, 1, Position(sg) - 1) \o
                     SubSeq(themrt, Position(sg) + 1, Len(themrt))
  PROVE  /\ ListedOnce'
         /\ \A s : InTable(s)' <=> InTable(s) /\ s # sg
<1> DEFINE p == Position(sg)
<1>1. /\ p \in 1..Len(themrt) /\ themrt[p] = sg /\ Len(themrt) \in Nat
  BY OnTheList
<1>2. /\ Len(themrt') = Len(themrt) - 1
      /\ \A i \in 1..Len(themrt') :
           themrt'[i] = IF i < p THEN themrt[i] ELSE themrt[i + 1]
  BY <1>1, Deletion
<1> HIDE DEF p
<1> DEFINE n == Len(themrt)
           old(x) == IF x < p THEN x ELSE x + 1
<1>3. /\ n \in Nat /\ p \in 1..n /\ themrt[p] = sg /\ Len(themrt') = n - 1
      /\ \A i \in 1..n : InTable(themrt[i])
      /\ \A i, j \in 1..n : themrt[i] = themrt[j] => i = j
  BY <1>1, <1>2 DEF ListedOnce, InTable
<1>4. \A i \in 1..(n - 1) : themrt'[i] = themrt[old(i)]
  BY <1>2, <1>3
<1>5. \A i \in 1..(n - 1) : old(i) \in 1..n /\ old(i) # p
  BY <1>3
<1>6. \A i, j \in 1..(n - 1) : old(i) = old(j) => i = j
  BY <1>3
<1>7. \A j \in 1..n : j # p => \E i \in 1..(n - 1) : old(i) = j
  <2> SUFFICES ASSUME NEW j \in 1..n, j # p
               PROVE  \E i \in 1..(n - 1) : old(i) = j
    OBVIOUS
  <2>1. CASE j < p
    <3>1. j \in 1..(n - 1) /\ old(j) = j
      BY <1>3, <2>1
    <3> QED BY <3>1
  <2>2. CASE j > p
    <3>1. j - 1 \in 1..(n - 1) /\ old(j - 1) = j
      BY <1>3, <2>2
    <3> QED BY <3>1
  <2>3. n \in Int /\ p \in Int /\ j \in Int
    BY <1>3
  <2>4. j < p \/ j > p
    BY <2>3
  <2> QED BY <2>1, <2>2, <2>4
<1> HIDE DEF old, n
<1>8. ListedOnce'
  <2>0. Len(themrt') = n - 1
    BY <1>3
  <2> SUFFICES ASSUME NEW i \in 1..(n - 1), NEW j \in 1..(n - 1),
                      themrt'[i] = themrt'[j]
               PROVE  i = j
    BY <2>0 DEF ListedOnce
  <2>1. themrt[old(i)] = themrt[old(j)]
    BY <1>4
  <2>2. old(i) = old(j)
    BY <1>3, <1>5, <2>1
  <2> QED BY <1>6, <2>2
<1>9. ASSUME NEW s, InTable(s)' PROVE InTable(s) /\ s # sg
  <2>1. PICK i \in 1..(n - 1) : themrt'[i] = s
    BY <1>3, <1>9 DEF InTable
  <2>2. s = themrt[old(i)] /\ old(i) \in 1..n /\ old(i) # p
    BY <1>4, <1>5, <2>1
  <2> QED BY <1>3, <2>2
<1>10. ASSUME NEW s, InTable(s), s # sg PROVE InTable(s)'
  <2>1. PICK j \in 1..n : themrt[j] = s
    BY <1>10 DEF InTable, n
  <2>2. PICK i \in 1..(n - 1) : old(i) = j
    BY <1>3, <1>7, <1>10, <2>1
  <2> QED BY <1>3, <1>4, <2>1, <2>2 DEF InTable
<1> QED BY <1>8, <1>9, <1>10

(* The two ways the handlers keep the cache: the entries whose interfaces  *)
(* change are all copied, or none changes.                                 *)
LEMMA KernelFollows ==
  ASSUME TypeOK, MfcMatches, themrt' = themrt, NEW S, change_mfc(S),
         \A sg \in SG : sg \in S => InTable(sg),
         \A sg \in SG : InTable(sg) /\ sg \notin S
                          => MfcOf(mrt'[sg]) = MfcOf(mrt[sg])
  PROVE  MfcMatches'
BY DEF MfcMatches, change_mfc, InTable, MfcOf

LEMMA KernelUntouched ==
  ASSUME TypeOK, MfcMatches, themrt' = themrt, mfc' = mfc,
         \A sg \in SG : InTable(sg) => MfcOf(mrt'[sg]) = MfcOf(mrt[sg])
  PROVE  MfcMatches'
BY DEF MfcMatches, InTable, MfcOf

LEMMA UpdateMfc ==
  ASSUME NEW e \in MrtEntry, NEW id, NEW v
  PROVE  /\ MfcOf([e EXCEPT !.join_delay_timer_id = id]) = MfcOf(e)
         /\ MfcOf([e EXCEPT !.graft_timer_id = id]) = MfcOf(e)
         /\ MfcOf([e EXCEPT !.upstream = id]) = MfcOf(e)
         /\ MfcOf([e EXCEPT !.prune_delay_timer_id =
                              [e.prune_delay_timer_id EXCEPT ![v] = id]])
              = MfcOf(e)
         /\ e.outvif[v] = 1 => MfcOf(Decided(e, v, 1)) = MfcOf(e)
BY DEF MfcOf, MrtEntry, Decided

LEMMA UpcallMfc ==
  ASSUME TypeOK, ListedOnce, MfcMatches, NEW sg \in SG, Upcall(sg)
  PROVE  ListedOnce' /\ MfcMatches'
<1>1. ASSUME NEW stale \in StaleWords, NoCacheUpcall(sg, stale)
      PROVE  ListedOnce' /\ MfcMatches'
  <2> DEFINE m == [mrt EXCEPT ![sg] = NewEntry(sg, stale)]
             remote == IF Attached(m, sg) THEN {} ELSE {sg}
             grafts == IF m[sg].outnumber # 0 THEN remote ELSE {}
  <2>1. /\ CanSet(timers, "handle_sg_timeout", sg, 0)
        /\ CanSet(timers, "check_sg", sg, 0)
        /\ CanGraft(timers, Calls(grafts))
        /\ themrt' = <<sg>> \o themrt
        /\ mrt' = Grafted(m, timers, Calls(grafts))
        /\ change_mfc({sg})
        /\ ~InTable(sg)
    BY <1>1 DEF NoCacheUpcall, add_sg
  <2>2. m \in [SG -> MrtEntry]
    BY <2>1, NewEntryType DEF TypeOK
  <2>3. \A s \in SG : s # sg => MfcOf(m[s]) = MfcOf(mrt[s])
    BY DEF TypeOK
  <2> HIDE DEF m, grafts, remote
  <2>4. \A s \in SG : MfcOf(mrt'[s]) = MfcOf(m[s])
    BY <2>1, <2>2, CallsType, GraftedMfc
  <2>5. ListedOnce' /\ \A s : InTable(s)' <=> InTable(s) \/ s = sg
    BY <2>1, ListedOnceAdded DEF TypeOK
  <2>6. ASSUME NEW s \in SG
        PROVE  mfc'[s] = IF InTable(s)' THEN MfcOf(mrt'[s]) ELSE NoMfc
    <3>1. CASE s = sg
      BY <2>1, <2>5, <3>1 DEF change_mfc
    <3>2. CASE s # sg
      BY <2>1, <2>3, <2>4, <2>5, <3>2 DEF change_mfc, MfcMatches
    <3> QED BY <3>1, <3>2
  <2>7. MfcMatches'
    BY <2>6 DEF MfcMatches, MfcOf
  <2> QED BY <2>5, <2>7
<1>2. ASSUME NEW v \in Vif, WrongVifUpcall(sg, v) PROVE ListedOnce' /\ MfcMatches'
  BY <1>2, KernelUntouched DEF WrongVifUpcall, tables, ListedOnce
<1> QED BY <1>1, <1>2 DEF Upcall

LEMMA MemberMfc ==
  ASSUME TypeOK, MfcMatches, NEW v \in Vif, NEW g \in Group, Member(v, g)
  PROVE  MfcMatches'
<1> DEFINE sg == find_sg_group(g)
<1>1. CASE OfGroup(g) = {}
  <2>1. UNCHANGED tables
    BY <1>1 DEF Member, add_leaf, del_leaf
  <2> QED BY <2>1, KernelUntouched DEF tables
<1>2. CASE OfGroup(g) # {}
  <2>1. PICK m \in [SG -> MrtEntry], judge \in Judge :
          /\ check_pim_state(m, timers, expired, judge)
          /\ change_mfc({sg})
          /\ themrt' = themrt
          /\ \A s \in SG : s # sg => m[s] = mrt[s]
    <3>1. CASE add_leaf(v, g)
      <4> DEFINE m == [mrt EXCEPT ![sg] = Counted(@, v)]
      <4>1. m \in [SG -> MrtEntry] /\ \A s \in SG : s # sg => m[s] = mrt[s]
        BY UpdateType DEF TypeOK
      <4>2. /\ check_pim_state(m, timers, expired, "ADD_LEAF")
            /\ change_mfc({sg}) /\ themrt' = themrt
        BY <1>2, <3>1 DEF add_leaf
      <4> HIDE DEF m
      <4> QED BY <4>1, <4>2 DEF Judge
    <3>2. CASE del_leaf(v, g)
      <4> DEFINE m == [mrt EXCEPT ![sg] = Discounted(@, v)]
      <4>1. m \in [SG -> MrtEntry] /\ \A s \in SG : s # sg => m[s] = mrt[s]
        BY UpdateType DEF TypeOK
      <4>2. /\ check_pim_state(m, timers, expired, "DEL_LEAF")
            /\ change_mfc({sg}) /\ themrt' = themrt
        BY <1>2, <3>2 DEF del_leaf
      <4> HIDE DEF m
      <4> QED BY <4>1, <4>2 DEF Judge
    <3> QED BY <3>1, <3>2 DEF Member
  <2>2. InTable(sg)
    BY <1>2, FoundEntry DEF TypeOK
  <2> HIDE DEF sg
  <2>3. \A s \in SG : MfcOf(mrt'[s]) = MfcOf(m[s])
    BY <2>1, CheckPimState DEF TypeOK
  <2>4. \A s \in SG : s # sg => MfcOf(mrt'[s]) = MfcOf(mrt[s])
    BY <2>1, <2>3
  <2> QED BY <2>1, <2>2, <2>4, KernelFollows
<1> QED BY <1>1, <1>2

LEMMA NeighbourMfc ==
  ASSUME TypeOK, MfcMatches, NEW v \in Vif, Neighbour(v)
  PROVE  MfcMatches'
<1>1. CASE AddNeighbor(v)
  <2> DEFINE S == {themrt[i] : i \in Muted(v)}
  <2>1. /\ CanGraft(timers \union expired, GraftCalls(v))
        /\ mrt' = Grafted(Opened(v), timers \union expired, GraftCalls(v))
        /\ change_mfc(S)
        /\ themrt' = themrt
    BY <1>1 DEF AddNeighbor, refresh_mrt_ADD
  <2>2. Opened(v) \in [SG -> MrtEntry]
    BY UpdateType DEF Opened, TypeOK
  <2>3. \A s \in SG : MfcOf(mrt'[s]) = MfcOf(Opened(v)[s])
    <3>1. GraftCalls(v) \in [SG -> Nat]
      BY GraftCallsType DEF TypeOK
    <3> QED BY <2>1, <2>2, <3>1, GraftedMfc
  <2>4. \A s \in SG : s \in S => InTable(s)
    BY DEF Muted, InTable
  <2>5. ASSUME NEW s \in SG, InTable(s), s \notin S
        PROVE  Opened(v)[s] = mrt[s]
    <3>1. mrt[s].outvif[v] # 0
      BY <2>5 DEF Muted, InTable
    <3> QED BY <3>1 DEF Opened
  <2> HIDE DEF S
  <2>6. \A s \in SG : InTable(s) /\ s \notin S => MfcOf(mrt'[s]) = MfcOf(mrt[s])
    BY <2>3, <2>5
  <2> QED BY <2>1, <2>4, <2>6, KernelFollows
<1>2. CASE Goodbye(v) \/ NeighborTimesOut(v)
  <2> DEFINE turns == {i \in 1..Len(themrt) : ~MembersAt3(themrt[i][2])}
             S == {themrt[i] : i \in turns}
  <2>1. themrt' = themrt /\ refresh_mrt_DEL(v)
    BY <1>2 DEF Goodbye, NeighborTimesOut, delete_pim_neighbor
  <2>2. CASE UNCHANGED <<mrt, mfc>>
    BY <2>1, <2>2, KernelUntouched
  <2>3. CASE mrt' = Closed(v) /\ change_mfc(S)
    <3>1. \A s \in SG : s \in S => InTable(s)
      BY DEF InTable
    <3>2. ASSUME NEW s \in SG, InTable(s), s \notin S PROVE mrt'[s] = mrt[s]
      <4>1. MembersAt3(s[2])
        BY <3>2 DEF InTable
      <4> QED BY <2>3, <4>1 DEF Closed
    <3> HIDE DEF S
    <3>3. \A s \in SG : InTable(s) /\ s \notin S => MfcOf(mrt'[s]) = MfcOf(mrt[s])
      BY <3>2
    <3> QED BY <2>1, <2>3, <3>1, <3>3, KernelFollows
  <2> QED BY <2>1, <2>2, <2>3 DEF refresh_mrt_DEL
<1> QED BY <1>1, <1>2 DEF Neighbour

LEMMA PacketMfc ==
  ASSUME TypeOK, MfcMatches, NEW v \in Vif, NEW sg \in SG,
         PimPacket(v, sg) \/ PimPacketUpstream(sg)
  PROVE  MfcMatches'
<1>0. mrt[sg] \in MrtEntry /\ mrt \in [SG -> MrtEntry]
  BY DEF TypeOK
(* Every packet but a Graft leaves the interfaces of the entries alone.    *)
<1>1. ASSUME themrt' = themrt, mfc' = mfc,
             \A s \in SG : s # sg => mrt'[s] = mrt[s],
             MfcOf(mrt'[sg]) = MfcOf(mrt[sg])
      PROVE  MfcMatches'
  <2>1. \A s \in SG : MfcOf(mrt'[s]) = MfcOf(mrt[s])
    BY <1>1
  <2> QED BY <1>1, <2>1, KernelUntouched
<1>2. CASE OverheardJoin(v, sg)
  <2>1. /\ themrt' = themrt /\ mfc' = mfc
        /\ mrt' = [mrt EXCEPT ![sg].join_delay_timer_id = NoId]
    BY <1>2 DEF OverheardJoin
  <2>2. mrt'[sg] = [mrt[sg] EXCEPT !.join_delay_timer_id = NoId]
    BY <1>0, <2>1
  <2> QED BY <1>0, <1>1, <2>1, <2>2, UpdateMfc
<1>3. CASE OverheardPrune(v, sg)
  <2> DEFINE id == NewId(timers, "send_join", sg, 0)
  <2>1. /\ themrt' = themrt /\ mfc' = mfc
        /\ mrt' = [mrt EXCEPT ![sg].join_delay_timer_id = id]
    BY <1>3 DEF OverheardPrune
  <2> HIDE DEF id
  <2>2. mrt'[sg] = [mrt[sg] EXCEPT !.join_delay_timer_id = id]
    BY <1>0, <2>1
  <2> QED BY <1>0, <1>1, <2>1, <2>2, UpdateMfc
<1>4. CASE RecvJoin(v, sg) \/ RecvPrune(v, sg)
        \/ \E zero \in BOOLEAN : AssertDownstream(v, sg, zero)
  <2>1. /\ themrt' = themrt /\ mfc' = mfc
        /\ \/ mrt' = mrt
           \/ \E id : mrt' = [mrt EXCEPT ![sg].prune_delay_timer_id[v] = id]
    BY <1>4 DEF RecvJoin, RecvPrune, AssertDownstream
  <2>2. CASE mrt' = mrt
    BY <1>1, <2>1, <2>2
  <2>3. CASE mrt' # mrt
    <3>1. PICK id : mrt' = [mrt EXCEPT ![sg].prune_delay_timer_id[v] = id]
      BY <2>1, <2>3
    <3>2. mrt'[sg] = [mrt[sg] EXCEPT !.prune_delay_timer_id =
                        [mrt[sg].prune_delay_timer_id EXCEPT ![v] = id]]
      BY <1>0, <3>1
    <3>3. MfcOf(mrt'[sg]) = MfcOf(mrt[sg])
      BY <1>0, <3>2 DEF MfcOf, MrtEntry
    <3>4. \A s \in SG : s # sg => mrt'[s] = mrt[s]
      BY <1>0, <3>1
    <3> QED BY <1>1, <2>1, <3>3, <3>4
  <2> QED BY <2>2, <2>3
<1>5. CASE RecvGraft(v, sg)
  <2>1. CASE ~InTable(sg)
    BY <1>1, <1>5, <2>1 DEF RecvGraft
  <2>2. CASE InTable(sg)
    <3>1. /\ themrt' = themrt
          /\ mrt' = [mrt EXCEPT ![sg] = Decided(@, v, 1)]
          /\ IF mrt[sg].outvif[v] = 0 THEN change_mfc({sg}) ELSE UNCHANGED mfc
      BY <1>5, <2>2 DEF RecvGraft
    <3>2. /\ mrt'[sg] = Decided(mrt[sg], v, 1)
          /\ \A s \in SG : s # sg => mrt'[s] = mrt[s]
      BY <1>0, <3>1
    <3>3. CASE mrt[sg].outvif[v] = 0
      <4>1. \A s \in SG : s # sg => MfcOf(mrt'[s]) = MfcOf(mrt[s])
        BY <3>2
      <4> QED BY <2>2, <3>1, <3>3, <4>1, KernelFollows
    <3>4. CASE mrt[sg].outvif[v] # 0
      <4>1. mrt[sg].outvif[v] = 1
        BY <1>0, <3>4 DEF MrtEntry
      <4> QED BY <1>0, <1>1, <3>1, <3>2, <3>4, <4>1, UpdateMfc
    <3> QED BY <3>3, <3>4
  <2> QED BY <2>1, <2>2
<1>6. CASE RecvGraftAck(sg)
  <2>1. /\ themrt' = themrt /\ mfc' = mfc
        /\ mrt' = [mrt EXCEPT ![sg].graft_timer_id = NoId]
    BY <1>6 DEF RecvGraftAck
  <2>2. mrt'[sg] = [mrt[sg] EXCEPT !.graft_timer_id = NoId]
    BY <1>0, <2>1
  <2> QED BY <1>0, <1>1, <2>1, <2>2, UpdateMfc
<1>7. ASSUME NEW zero \in BOOLEAN, AssertUpstream(sg, zero) PROVE MfcMatches'
  <2>1. /\ themrt' = themrt /\ mfc' = mfc
        /\ mrt' = [mrt EXCEPT ![sg].upstream = sg[1]]
    BY <1>7 DEF AssertUpstream
  <2>2. mrt'[sg] = [mrt[sg] EXCEPT !.upstream = sg[1]]
    BY <1>0, <2>1
  <2> QED BY <1>0, <1>1, <2>1, <2>2, UpdateMfc
<1> QED BY <1>2, <1>3, <1>4, <1>5, <1>6, <1>7 DEF PimPacket, PimPacketUpstream

LEMMA TimerStepMfc ==
  ASSUME TypeOK, ListedOnce, MfcMatches, NEW t \in expired, TimerRuns(t)
  PROVE  ListedOnce' /\ MfcMatches'
<1>0. /\ t.sg \in SG /\ mrt \in [SG -> MrtEntry] /\ mrt[t.sg] \in MrtEntry
      /\ timers \subseteq Timer /\ Rest(t) \subseteq Timer
      /\ themrt' = themrt => ListedOnce'
  BY DEF TypeOK, Timer, Rest, ListedOnce
<1>1. CASE NoEntry(t) \/ plan_graft_unlinked(t) \/ check_sg_gone(t)
  <2>1. UNCHANGED tables
    BY <1>1 DEF NoEntry, plan_graft_unlinked, check_sg_gone
  <2> QED BY <1>0, <2>1, KernelUntouched DEF tables
<1>2. CASE send_join(t)
  <2>1. /\ themrt' = themrt /\ mfc' = mfc
        /\ mrt' = [mrt EXCEPT ![t.sg].join_delay_timer_id = NoId]
    BY <1>2 DEF send_join
  <2>2. /\ mrt'[t.sg] = [mrt[t.sg] EXCEPT !.join_delay_timer_id = NoId]
        /\ \A s \in SG : s # t.sg => mrt'[s] = mrt[s]
    BY <1>0, <2>1
  <2>3. MfcOf(mrt'[t.sg]) = MfcOf(mrt[t.sg])
    BY <1>0, <2>2 DEF MfcOf, MrtEntry
  <2>4. \A s \in SG : MfcOf(mrt'[s]) = MfcOf(mrt[s])
    BY <2>2, <2>3
  <2> QED BY <1>0, <2>1, <2>4, KernelUntouched
<1>3. CASE set_prune(t) \/ prune_time_out(t)
  <2>1. PICK m \in [SG -> MrtEntry], pending \in SUBSET Timer, judge \in Judge :
          /\ check_pim_state(m, pending, Rest(t), judge)
          /\ change_mfc({t.sg})
          /\ themrt' = themrt
          /\ InTable(t.sg)
          /\ \A s \in SG : s # t.sg => m[s] = mrt[s]
    <3>1. CASE set_prune(t)
      <4> DEFINE m == [mrt EXCEPT ![t.sg] = Decided(@, t.vif, 0)]
                 again == NewTimer(timers \union Rest(t), "prune_time_out",
                                   t.sg, t.vif)
      <4>1. m \in [SG -> MrtEntry] /\ \A s \in SG : s # t.sg => m[s] = mrt[s]
        BY <1>0, UpdateType
      <4>2. /\ check_pim_state(m, timers \union {again}, Rest(t), "DEL_LEAF")
            /\ change_mfc({t.sg}) /\ themrt' = themrt /\ InTable(t.sg)
            /\ CanSet(timers \union Rest(t), "prune_time_out", t.sg, t.vif)
        BY <3>1 DEF set_prune
      <4>3. again \in Timer
        <5>1. t.vif \in 0..MaxVif /\ "prune_time_out" \in Func
          BY DEF TypeOK, Timer, Func
        <5> QED BY <1>0, <4>2, <5>1, NewTimerType
      <4> HIDE DEF m, again
      <4> QED BY <1>0, <4>1, <4>2, <4>3 DEF Judge
    <3>2. CASE prune_time_out(t)
      <4> DEFINE m == [mrt EXCEPT ![t.sg].outvif[t.vif] = 1]
      <4>1. m \in [SG -> MrtEntry] /\ \A s \in SG : s # t.sg => m[s] = mrt[s]
        <5>1. 0 \in TimerId
          BY MrtAssumption DEF TimerId
        <5> QED BY <1>0, <5>1, FieldType
      <4>2. /\ check_pim_state(m, timers, Rest(t), "ADD_LEAF")
            /\ change_mfc({t.sg}) /\ themrt' = themrt /\ InTable(t.sg)
        BY <3>2 DEF prune_time_out
      <4> HIDE DEF m
      <4> QED BY <1>0, <4>1, <4>2 DEF Judge
    <3> QED BY <1>3, <3>1, <3>2
  <2>2. \A s \in SG : MfcOf(mrt'[s]) = MfcOf(m[s])
    BY <2>1, CheckPimState
  <2>3. \A s \in SG : s # t.sg => MfcOf(mrt'[s]) = MfcOf(mrt[s])
    BY <2>1, <2>2
  <2> QED BY <1>0, <2>1, <2>3, KernelFollows
<1>4. CASE active_forward(t)
  <2>1. /\ check_pim_state(mrt, timers, Rest(t), "ADD_LEAF")
        /\ change_mfc(Listed) /\ themrt' = themrt
    BY <1>4 DEF active_forward
  <2>2. \A s \in SG : MfcOf(mrt'[s]) = MfcOf(mrt[s])
    BY <1>0, <2>1, CheckPimState
  <2>3. \A s \in SG : s \in Listed => InTable(s)
    BY DEF Listed, InTable
  <2> QED BY <1>0, <2>1, <2>2, <2>3, KernelFollows
<1>5. CASE plan_graft(t)
  <2> DEFINE k == Calls(IF Attached(mrt, t.sg) THEN {} ELSE {t.sg})
  <2>1. /\ CanGraft(timers \union Rest(t), k)
        /\ mrt' = Grafted(mrt, timers \union Rest(t), k)
        /\ themrt' = themrt /\ mfc' = mfc
    BY <1>5 DEF plan_graft
  <2>2. k \in [SG -> Nat]
    BY CallsType
  <2> HIDE DEF k
  <2>3. \A s \in SG : MfcOf(mrt'[s]) = MfcOf(mrt[s])
    BY <1>0, <2>1, <2>2, GraftedMfc
  <2> QED BY <1>0, <2>1, <2>3, KernelUntouched
<1>6. CASE handle_sg_timeout(t)
  <2>1. /\ InTable(t.sg)
        /\ themrt' = SubSeq(themrt, 1, Position(t.sg) - 1) \o
                       SubSeq(themrt, Position(t.sg) + 1, Len(themrt))
        /\ mrt' = [mrt EXCEPT ![t.sg] = Blank(t.sg)]
        /\ mfc' = [mfc EXCEPT ![t.sg] = NoMfc]
    BY <1>6 DEF handle_sg_timeout
  <2>2. ListedOnce' /\ \A s : InTable(s)' <=> InTable(s) /\ s # t.sg
    BY <1>0, <2>1, ListedOnceDeleted DEF TypeOK
  <2>3. ASSUME NEW s \in SG
        PROVE  mfc'[s] = IF InTable(s)' THEN MfcOf(mrt'[s]) ELSE NoMfc
    <3>1. CASE s = t.sg
      BY <1>0, <2>1, <2>2, <3>1 DEF TypeOK
    <3>2. CASE s # t.sg
      BY <1>0, <2>1, <2>2, <3>2 DEF MfcMatches, TypeOK
    <3> QED BY <3>1, <3>2
  <2>4. MfcMatches'
    BY <2>3 DEF MfcMatches, MfcOf
  <2> QED BY <2>2, <2>4
<1>7. ASSUME NEW busy \in BOOLEAN, check_sg(t, busy)
      PROVE  ListedOnce' /\ MfcMatches'
  <2>1. PICK id, n : mrt' = [mrt EXCEPT ![t.sg].timeout_id = id,
                                        ![t.sg].check_timerid = n]
    BY <1>7 DEF check_sg
  <2>2. themrt' = themrt /\ mfc' = mfc
    BY <1>7 DEF check_sg
  <2>3. /\ mrt'[t.sg] = [mrt[t.sg] EXCEPT !.timeout_id = id, !.check_timerid = n]
        /\ \A s \in SG : s # t.sg => mrt'[s] = mrt[s]
    BY <1>0, <2>1
  <2>4. MfcOf(mrt'[t.sg]) = MfcOf(mrt[t.sg])
    BY <1>0, <2>3 DEF MfcOf, MrtEntry
  <2>5. \A s \in SG : MfcOf(mrt'[s]) = MfcOf(mrt[s])
    BY <2>3, <2>4
  <2> QED BY <1>0, <2>2, <2>5, KernelUntouched
<1> QED BY <1>1, <1>2, <1>3, <1>4, <1>5, <1>6, <1>7 DEF TimerRuns

LEMMA MrtKernel == Spec => [](ListedOnce /\ MfcMatches)
<1> DEFINE IInv == ListedOnce /\ MfcMatches
<1>1. Init => IInv
  BY DEF Init, ListedOnce, MfcMatches, InTable
<1>2. TypeOK /\ IInv /\ [Next]_vars => IInv'
  <2> SUFFICES ASSUME TypeOK, ListedOnce, MfcMatches, [Next]_vars
               PROVE  ListedOnce' /\ MfcMatches'
    OBVIOUS
  <2>0. ASSUME themrt' = themrt PROVE ListedOnce'
    BY <2>0 DEF ListedOnce
  <2>1. ASSUME NEW sg \in SG, Upcall(sg) PROVE ListedOnce' /\ MfcMatches'
    BY <2>1, UpcallMfc
  <2>2. ASSUME NEW sg \in SG, PimPacketUpstream(sg)
        PROVE  ListedOnce' /\ MfcMatches'
    <3>1. 1 \in Vif
      BY MrtAssumption DEF Vif
    <3>2. themrt' = themrt
      BY <2>2 DEF PimPacketUpstream, RecvGraftAck, AssertUpstream
    <3> QED BY <2>0, <2>2, <3>1, <3>2, PacketMfc
  <2>3. ASSUME NEW v \in HostVif, NEW g \in Group, Member(v, g)
        PROVE  ListedOnce' /\ MfcMatches'
    <3>1. themrt' = themrt
      BY <2>3 DEF Member, add_leaf, del_leaf, tables
    <3> QED BY <2>0, <2>3, <3>1, MrtAssumption, MemberMfc
  <2>4. ASSUME NEW v \in RouterVif, Neighbour(v)
        PROVE  ListedOnce' /\ MfcMatches'
    <3>1. themrt' = themrt
      BY <2>4 DEF Neighbour, AddNeighbor, Goodbye, NeighborTimesOut,
                  delete_pim_neighbor, refresh_mrt_ADD
    <3> QED BY <2>0, <2>4, <3>1, MrtAssumption, NeighbourMfc
  <2>5. ASSUME NEW v \in RouterVif, NEW sg \in SG, PimPacket(v, sg)
        PROVE  ListedOnce' /\ MfcMatches'
    <3>1. themrt' = themrt
      BY <2>5 DEF PimPacket, OverheardJoin, OverheardPrune, RecvJoin,
                  RecvPrune, RecvGraft, AssertDownstream
    <3> QED BY <2>0, <2>5, <3>1, MrtAssumption, PacketMfc
  <2>6. ASSUME NEW S \in SUBSET timers, Expire(S)
        PROVE  ListedOnce' /\ MfcMatches'
    BY <2>0, <2>6, KernelUntouched DEF Expire, tables
  <2>7. ASSUME NEW t \in expired, TimerRuns(t) PROVE ListedOnce' /\ MfcMatches'
    BY <2>7, TimerStepMfc
  <2>8. CASE UNCHANGED vars
    BY <2>0, <2>8, KernelUntouched DEF vars
  <2> QED BY <2>1, <2>2, <2>3, <2>4, <2>5, <2>6, <2>7, <2>8 DEF Next
<1> QED BY <1>1, <1>2, MrtTypeCorrect, PTL DEF Spec

(* The kernel forwards what the table says after every handler and every   *)
(* timer function (kern.c:126-176, and each call of change_mfc): for any   *)
(* number of interfaces and entries, and any batch of timers.              *)
THEOREM MrtMfcMatches == Spec => []MfcMatches
BY MrtKernel, PTL

-----------------------------------------------------------------------------
(* The timers an entry names.                                              *)
Armed(f, sg, n) == [func |-> f, sg |-> sg, vif |-> 0, n |-> n, old |-> 0]

Lives(sg, m, out) ==
  /\ Armed("handle_sg_timeout", sg, m[sg].timeout_id) \in out
  /\ Armed("check_sg", sg, m[sg].check_timerid) \in out

Retries(sg, m, out) ==
  m[sg].graft_timer_id # NoId /\ ~Attached(m, sg) =>
    Armed("plan_graft", sg, m[sg].graft_timer_id) \in out

Waits(sg, m, out) == Lives(sg, m, out) /\ Retries(sg, m, out)

TimersWait ==
  \A sg \in SG : InTable(sg) =>
    Waits(sg, mrt, Outstanding)

(* The updates of an entry leave its timers and its upstream alone.        *)
SameNames(e, d) ==
  /\ e.timeout_id = d.timeout_id
  /\ e.check_timerid = d.check_timerid
  /\ e.graft_timer_id = d.graft_timer_id
  /\ e.upstream = d.upstream

LEMMA UpdateNames ==
  ASSUME NEW e \in MrtEntry, NEW v, NEW out
  PROVE  /\ SameNames(Counted(e, v), e)
         /\ SameNames(Discounted(e, v), e)
         /\ SameNames(Decided(e, v, out), e)
BY DEF MrtEntry, Counted, Discounted, Decided, SameNames

LEMMA ArmedIsSet ==
  ASSUME TypeOK, NEW f, NEW sg, NEW n
  PROVE  (\E t \in Set(f, sg, 0) : t.n = n) <=> Armed(f, sg, n) \in Outstanding
<1>1. \A t \in Outstanding : t \in Timer
  BY DEF TypeOK, Outstanding
<1>2. \A t \in Timer : Is(t, f, sg, 0) /\ t.old = 0 /\ t.n = n
        => t = Armed(f, sg, n)
  BY DEF Timer, Is, Armed
<1>3. Is(Armed(f, sg, n), f, sg, 0) /\ Armed(f, sg, n).old = 0 /\ Armed(f, sg, n).n = n
  BY DEF Is, Armed
<1> QED BY <1>1, <1>2, <1>3 DEF Set

(* Timers of other functions come and go without an entry noticing.        *)
LEMMA ClearedKeeps ==
  ASSUME NEW pending, NEW f, NEW sg, NEW v, NEW n, NEW g, NEW s, NEW id,
         Armed(g, s, id) \in pending,
         Slot(g) # Slot(f) \/ s # sg \/ id # n
  PROVE  Armed(g, s, id) \in Cleared(pending, f, sg, v, n)
BY DEF Armed, Cleared

LEMMA GraftTimerSet ==
  ASSUME NEW busy, NEW k, NEW sg \in SG, NEW id \in GraftIds(busy, sg, k[sg])
  PROVE  Armed("plan_graft", sg, id) \in GraftTimers(busy, k)
BY DEF GraftTimers, Armed

LEMMA GraftedWaits ==
  ASSUME NEW m \in [SG -> MrtEntry], NEW busy, NEW k \in [SG -> Nat],
         CanGraft(busy, k), NEW sg \in SG, NEW out,
         Lives(sg, m, out), k[sg] = 0 => Retries(sg, m, out),
         GraftTimers(busy, k) \subseteq out
  PROVE  Waits(sg, Grafted(m, busy, k), out)
<1>1. Lives(sg, Grafted(m, busy, k), out)
  BY GraftedMfc DEF Lives, Waits
<1>2. CASE k[sg] = 0
  <2>1. Grafted(m, busy, k)[sg] = m[sg]
    BY <1>2, GraftedIds
  <2> QED BY <1>1, <1>2, <2>1 DEF Retries, Attached, Waits
<1>3. CASE k[sg] # 0
  <2>1. PICK id \in TimerId :
          /\ Grafted(m, busy, k)[sg] = [m[sg] EXCEPT !.graft_timer_id = id]
          /\ id \in GraftIds(busy, sg, k[sg])
    BY <1>3, GraftedIds
  <2>2. Grafted(m, busy, k)[sg].graft_timer_id = id
    BY <2>1 DEF MrtEntry
  <2> QED BY <1>1, <2>1, <2>2, GraftTimerSet DEF Retries, Waits
<1> QED BY <1>2, <1>3

LEMMA SameTimersWait ==
  ASSUME NEW sg, NEW m, NEW n, NEW out, NEW left,
         Waits(sg, m, out),
         SameNames(n[sg], m[sg]),
         \A id : \A f \in {"handle_sg_timeout", "check_sg", "plan_graft"} :
           Armed(f, sg, id) \in out => Armed(f, sg, id) \in left
  PROVE  Waits(sg, n, left)
BY DEF Lives, Retries, Attached, SameNames, Waits

LEMMA CheckPimStateWaits ==
  ASSUME NEW m \in [SG -> MrtEntry], NEW pending, NEW batch, NEW judge,
         check_pim_state(m, pending, batch, judge),
         NEW sg \in SG, Waits(sg, m, pending \union batch)
  PROVE  Waits(sg, mrt', timers' \union batch)
<1> DEFINE k == Calls(Grafting(m, judge))
           busy == pending \union batch
           out == timers' \union batch
<1>1. k \in [SG -> Nat]
  BY CallsType
<1>2. /\ CanGraft(busy, k)
      /\ mrt' = Grafted(m, busy, k)
      /\ timers' = pending \union GraftTimers(busy, k)
  BY DEF check_pim_state
<1>3. busy \subseteq out /\ GraftTimers(busy, k) \subseteq out
  BY <1>2
<1>4. Waits(sg, m, out)
  BY <1>3 DEF Lives, Retries, Waits
<1> HIDE DEF k, busy, out
<1> QED BY <1>1, <1>2, <1>3, <1>4, GraftedWaits DEF out, Waits

LEMMA WaitsStays ==
  ASSUME TimersWait, themrt' = themrt,
         \A s \in SG : SameNames(mrt'[s], mrt[s]),
         \A s \in SG, f \in {"handle_sg_timeout", "check_sg", "plan_graft"} : \A id :
           Armed(f, s, id) \in Outstanding => Armed(f, s, id) \in Outstanding'
  PROVE  TimersWait'
<1> SUFFICES ASSUME NEW s \in SG, InTable(s)'
             PROVE  Waits(s, mrt, Outstanding)'
  BY DEF TimersWait
<1>1. InTable(s)
  BY DEF InTable
<1>2. Waits(s, mrt, Outstanding)
  BY <1>1 DEF TimersWait
<1> QED BY <1>2, SameTimersWait

LEMMA UpcallWaits ==
  ASSUME TypeOK, ListedOnce, TimersWait, NEW sg \in SG, Upcall(sg)
  PROVE  TimersWait'
<1>1. ASSUME NEW stale \in StaleWords, NoCacheUpcall(sg, stale)
      PROVE  TimersWait'
  <2> DEFINE m == [mrt EXCEPT ![sg] = NewEntry(sg, stale)]
             remote == IF Attached(m, sg) THEN {} ELSE {sg}
             grafts == IF m[sg].outnumber # 0 THEN remote ELSE {}
             fresh == {NewTimer(timers, "handle_sg_timeout", sg, 0),
                       NewTimer(timers, "check_sg", sg, 0)}
  <2>1. /\ CanSet(timers, "handle_sg_timeout", sg, 0)
        /\ CanSet(timers, "check_sg", sg, 0)
        /\ CanGraft(timers, Calls(grafts))
        /\ themrt' = <<sg>> \o themrt
        /\ mrt' = Grafted(m, timers, Calls(grafts))
        /\ timers' = timers \union fresh \union GraftTimers(timers, Calls(grafts))
        /\ expired' = expired
        /\ ~InTable(sg)
    BY <1>1 DEF NoCacheUpcall, add_sg
  <2>2. m \in [SG -> MrtEntry]
    BY <2>1, NewEntryType DEF TypeOK
  <2>3. \A s \in SG : s # sg => m[s] = mrt[s]
    BY DEF TypeOK
  <2>4. Waits(sg, m, fresh)
    <3>1. m[sg] = NewEntry(sg, stale)
      BY DEF TypeOK
    <3>2. /\ NewEntry(sg, stale).timeout_id =
               NewId(timers, "handle_sg_timeout", sg, 0)
          /\ NewEntry(sg, stale).check_timerid =
               NewId(timers, "check_sg", sg, 0)
          /\ NewEntry(sg, stale).graft_timer_id = NoId
      BY DEF NewEntry, Blank
    <3> HIDE DEF m
    <3> QED BY <3>1, <3>2 DEF Lives, Retries, NewTimer, Armed, Waits
  <2> HIDE DEF m, grafts, remote, fresh
  <2>5. \A s : InTable(s)' <=> InTable(s) \/ s = sg
    BY <2>1, ListedOnceAdded DEF TypeOK
  <2>6. Outstanding' = Outstanding \union fresh
                         \union GraftTimers(timers, Calls(grafts))
    BY <2>1 DEF Outstanding
  <2> SUFFICES ASSUME NEW s \in SG, InTable(s)'
               PROVE  Waits(s, mrt, Outstanding)'
    BY DEF TimersWait
  <2>7. Waits(s, m, Outstanding')
    <3>1. CASE s = sg
      BY <2>4, <2>6, <3>1 DEF Lives, Retries, Waits
    <3>2. CASE s # sg
      <4>1. Waits(s, mrt, Outstanding)
        BY <2>5, <3>2 DEF TimersWait
      <4>2. m[s] = mrt[s]
        BY <2>3, <3>2
      <4> QED BY <2>6, <4>1, <4>2 DEF Lives, Retries, Attached, Waits
    <3> QED BY <3>1, <3>2
  <2>8. Calls(grafts) \in [SG -> Nat]
    BY CallsType
  <2> QED BY <2>1, <2>2, <2>6, <2>7, <2>8, GraftedWaits DEF Waits
<1>2. ASSUME NEW v \in Vif, WrongVifUpcall(sg, v) PROVE TimersWait'
  BY <1>2, WaitsStays DEF WrongVifUpcall, Packet, tables, Outstanding, SameNames
<1> QED BY <1>1, <1>2 DEF Upcall

LEMMA MemberWaits ==
  ASSUME TypeOK, TimersWait, NEW v \in Vif, NEW g \in Group, Member(v, g)
  PROVE  TimersWait'
<1> DEFINE sg == find_sg_group(g)
<1>0. expired' = expired
  BY DEF Member, add_leaf, del_leaf
<1>1. CASE OfGroup(g) = {}
  <2>1. UNCHANGED <<tables, timers>>
    BY <1>1 DEF Member, add_leaf, del_leaf
  <2> QED BY <1>0, <2>1, WaitsStays DEF tables, Outstanding, SameNames
<1>2. CASE OfGroup(g) # {}
  <2>0. /\ sg \in SG
        /\ mrt[sg] \in MrtEntry
    BY <1>2, FoundEntry DEF TypeOK
  <2>1. PICK m \in [SG -> MrtEntry], judge \in Judge :
          /\ check_pim_state(m, timers, expired, judge)
          /\ themrt' = themrt
          /\ \A s \in SG : SameNames(m[s], mrt[s])
    <3>1. CASE add_leaf(v, g)
      <4> DEFINE m == [mrt EXCEPT ![sg] = Counted(@, v)]
      <4>1. m \in [SG -> MrtEntry]
        BY UpdateType DEF TypeOK
      <4>2. /\ check_pim_state(m, timers, expired, "ADD_LEAF")
            /\ themrt' = themrt
        BY <1>2, <3>1 DEF add_leaf
      <4>3. \A s \in SG : m[s] \in {mrt[s], Counted(mrt[s], v)} /\ mrt[s] \in MrtEntry
        BY DEF TypeOK
      <4> HIDE DEF m
      <4>4. \A s \in SG : SameNames(m[s], mrt[s])
        BY <4>3, UpdateNames DEF SameNames
      <4> QED BY <4>1, <4>2, <4>4 DEF Judge
    <3>2. CASE del_leaf(v, g)
      <4> DEFINE m == [mrt EXCEPT ![sg] = Discounted(@, v)]
      <4>1. m \in [SG -> MrtEntry]
        BY UpdateType DEF TypeOK
      <4>2. /\ check_pim_state(m, timers, expired, "DEL_LEAF")
            /\ themrt' = themrt
        BY <1>2, <3>2 DEF del_leaf
      <4>3. \A s \in SG : m[s] \in {mrt[s], Discounted(mrt[s], v)} /\ mrt[s] \in MrtEntry
        BY DEF TypeOK
      <4> HIDE DEF m
      <4>4. \A s \in SG : SameNames(m[s], mrt[s])
        BY <4>3, UpdateNames DEF SameNames
      <4> QED BY <4>1, <4>2, <4>4 DEF Judge
    <3> QED BY <3>1, <3>2 DEF Member
  <2> HIDE DEF sg
  <2> SUFFICES ASSUME NEW s \in SG, InTable(s)'
               PROVE  Waits(s, mrt, Outstanding)'
    BY DEF TimersWait
  <2>2. Waits(s, mrt, Outstanding)
    BY <2>1 DEF TimersWait, InTable
  <2>3. Waits(s, m, timers \union expired)
    BY <2>1, <2>2, SameTimersWait DEF Outstanding
  <2>4. Waits(s, mrt', timers' \union expired)
    BY <2>1, <2>3, CheckPimStateWaits
  <2> QED BY <1>0, <2>4 DEF Outstanding
<1> QED BY <1>1, <1>2

LEMMA NeighbourWaits ==
  ASSUME TypeOK, TimersWait, NEW v \in Vif, Neighbour(v)
  PROVE  TimersWait'
<1>1. CASE AddNeighbor(v)
  <2> DEFINE k == GraftCalls(v)
             busy == timers \union expired
  <2>1. /\ CanGraft(busy, k)
        /\ mrt' = Grafted(Opened(v), busy, k)
        /\ timers' = timers \union GraftTimers(busy, k)
        /\ expired' = expired /\ themrt' = themrt
    BY <1>1 DEF AddNeighbor, refresh_mrt_ADD
  <2>2. Opened(v) \in [SG -> MrtEntry]
    BY UpdateType DEF Opened, TypeOK
  <2>3. k \in [SG -> Nat]
    BY GraftCallsType DEF TypeOK
  <2> HIDE DEF k, busy
  <2> SUFFICES ASSUME NEW s \in SG, InTable(s)'
               PROVE  Waits(s, mrt, Outstanding)'
    BY DEF TimersWait
  <2>4. Waits(s, mrt, Outstanding)
    BY <2>1 DEF TimersWait, InTable
  <2>5. Opened(v)[s] \in {mrt[s], Counted(mrt[s], v)} /\ mrt[s] \in MrtEntry
    BY DEF Opened, TypeOK
  <2>6. Waits(s, Opened(v), Outstanding')
    <3>1. SameNames(Opened(v)[s], mrt[s])
      BY <2>5, UpdateNames DEF SameNames
    <3>2. Outstanding \subseteq Outstanding'
      BY <2>1 DEF Outstanding
    <3> QED BY <2>4, <3>1, <3>2, SameTimersWait
  <2>7. GraftTimers(busy, k) \subseteq Outstanding'
    BY <2>1 DEF Outstanding
  <2> QED BY <2>1, <2>2, <2>3, <2>6, <2>7, GraftedWaits DEF Waits
<1>2. CASE Goodbye(v) \/ NeighborTimesOut(v)
  <2>1. /\ UNCHANGED <<themrt, timers, expired>>
        /\ refresh_mrt_DEL(v)
    BY <1>2 DEF Goodbye, NeighborTimesOut, delete_pim_neighbor
  <2>2. \A s \in SG : /\ mrt[s] \in MrtEntry
                      /\ mrt'[s] \in {mrt[s], Discounted(mrt[s], v)}
    BY <2>1 DEF refresh_mrt_DEL, Closed, TypeOK
  <2>3. \A s \in SG : SameNames(mrt'[s], mrt[s])
    BY <2>2, UpdateNames DEF SameNames
  <2> QED BY <2>1, <2>3, WaitsStays DEF Outstanding
<1> QED BY <1>1, <1>2 DEF Neighbour

(* A handler of a packet about the entry sg touches a field of that entry, *)
(* and timers of its own function.                                         *)
LEMMA FieldNames ==
  ASSUME NEW m \in [SG -> MrtEntry], NEW sg \in SG, NEW id, NEW v, NEW out
  PROVE  /\ \A s \in SG : SameNames([m EXCEPT ![sg].join_delay_timer_id = id][s], m[s])
         /\ \A s \in SG : SameNames([m EXCEPT ![sg].prune_delay_timer_id[v] = id][s], m[s])
         /\ \A s \in SG : SameNames([m EXCEPT ![sg].outvif[v] = out][s], m[s])
         /\ \A s \in SG : SameNames([m EXCEPT ![sg] = Decided(@, v, out)][s], m[s])
<1>0. \A s \in SG : m[s] \in MrtEntry
  OBVIOUS
<1>1. \A s \in SG : SameNames([m EXCEPT ![sg].join_delay_timer_id = id][s], m[s])
  BY <1>0 DEF SameNames, MrtEntry
<1>2. \A s \in SG : SameNames([m EXCEPT ![sg].prune_delay_timer_id[v] = id][s], m[s])
  BY <1>0 DEF SameNames, MrtEntry
<1>3. \A s \in SG : SameNames([m EXCEPT ![sg].outvif[v] = out][s], m[s])
  BY <1>0 DEF SameNames, MrtEntry
<1>4. \A s \in SG : SameNames([m EXCEPT ![sg] = Decided(@, v, out)][s], m[s])
  BY <1>0, UpdateNames DEF SameNames
<1> QED BY <1>1, <1>2, <1>3, <1>4

LEMMA PacketWaits ==
  ASSUME TypeOK, TimersWait, NEW v \in Vif, NEW sg \in SG,
         PimPacket(v, sg) \/ PimPacketUpstream(sg)
  PROVE  TimersWait'
<1>0. mrt[sg] \in MrtEntry /\ mrt \in [SG -> MrtEntry]
  BY DEF TypeOK
<1>1. themrt' = themrt /\ expired' = expired
  BY DEF PimPacket, PimPacketUpstream, OverheardJoin, OverheardPrune, RecvJoin,
         RecvPrune, RecvGraft, AssertDownstream, RecvGraftAck, AssertUpstream,
         Packet
<1>2. ASSUME \A s \in SG : SameNames(mrt'[s], mrt[s]),
             \/ timers \subseteq timers'
             \/ \E f \in {"send_join", "set_prune"} : \E w, n :
                  timers' = Cleared(timers, f, sg, w, n)
      PROVE  TimersWait'
  <2>1. ASSUME NEW s \in SG, NEW id,
               NEW f \in {"handle_sg_timeout", "check_sg", "plan_graft"},
               Armed(f, s, id) \in timers
        PROVE  Armed(f, s, id) \in timers'
    BY <1>2, <2>1, ClearedKeeps DEF Slot
  <2> QED BY <1>1, <1>2, <2>1, WaitsStays DEF Outstanding
<1>3. CASE OverheardJoin(v, sg)
  BY <1>0, <1>2, <1>3, FieldNames DEF OverheardJoin
<1>4. CASE OverheardPrune(v, sg)
  BY <1>0, <1>2, <1>4, FieldNames DEF OverheardPrune
<1>5. CASE RecvJoin(v, sg)
  BY <1>0, <1>2, <1>5, FieldNames DEF RecvJoin
<1>6. CASE RecvPrune(v, sg)
  BY <1>0, <1>2, <1>6, FieldNames DEF RecvPrune
<1>7. CASE RecvGraft(v, sg)
  <2>1. CASE ~InTable(sg)
    BY <1>2, <1>7, <2>1 DEF RecvGraft, SameNames
  <2>2. CASE InTable(sg)
    BY <1>0, <1>2, <1>7, <2>2, FieldNames DEF RecvGraft
  <2> QED BY <2>1, <2>2
<1>8. ASSUME NEW zero \in BOOLEAN, AssertDownstream(v, sg, zero)
      PROVE  TimersWait'
  <2>1. CASE LocalWins(sg, zero)
    BY <1>2, <1>8, <2>1 DEF AssertDownstream, SameNames
  <2>2. CASE ~LocalWins(sg, zero)
    BY <1>0, <1>2, <1>8, <2>2, FieldNames DEF AssertDownstream
  <2> QED BY <2>1, <2>2
(* The acknowledged Graft needs no timer any more, and neither does one to *)
(* an upstream that has become the source itself.                          *)
<1>9. ASSUME Lives(sg, mrt, Outstanding) => Waits(sg, mrt, Outstanding)',
             \A s \in SG : s # sg => mrt'[s] = mrt[s],
             \/ timers' = timers
             \/ \E n : timers' = Cleared(timers, "plan_graft", sg, 0, n)
      PROVE  TimersWait'
  <2> SUFFICES ASSUME NEW s \in SG, InTable(s)'
               PROVE  Waits(s, mrt, Outstanding)'
    BY DEF TimersWait
  <2>1. Waits(s, mrt, Outstanding)
    BY <1>1 DEF TimersWait, InTable
  <2>2. CASE s = sg
    BY <1>9, <2>1, <2>2 DEF Waits
  <2>3. CASE s # sg
    <3>1. ASSUME NEW id, NEW f, Armed(f, s, id) \in Outstanding
          PROVE  Armed(f, s, id) \in Outstanding'
      BY <1>1, <1>9, <2>3, <3>1, ClearedKeeps DEF Outstanding
    <3>2. SameNames(mrt'[s], mrt[s])
      BY <1>9, <2>3 DEF SameNames
    <3> QED BY <2>1, <3>1, <3>2, SameTimersWait
  <2> QED BY <2>2, <2>3
<1>10. CASE RecvGraftAck(sg)
  <2>1. /\ mrt' = [mrt EXCEPT ![sg].graft_timer_id = NoId]
        /\ timers' = Cleared(timers, "plan_graft", sg, 0, mrt[sg].graft_timer_id)
    BY <1>10 DEF RecvGraftAck
  <2>2. /\ mrt'[sg] = [mrt[sg] EXCEPT !.graft_timer_id = NoId]
        /\ \A s \in SG : s # sg => mrt'[s] = mrt[s]
    BY <1>0, <2>1
  <2>3. /\ mrt'[sg].graft_timer_id = NoId
        /\ mrt'[sg].timeout_id = mrt[sg].timeout_id
        /\ mrt'[sg].check_timerid = mrt[sg].check_timerid
    BY <1>0, <2>2 DEF MrtEntry
  <2>4. ASSUME NEW id, NEW f \in {"handle_sg_timeout", "check_sg"},
               Armed(f, sg, id) \in Outstanding
        PROVE  Armed(f, sg, id) \in Outstanding'
    BY <1>1, <2>1, <2>4, ClearedKeeps DEF Outstanding, Slot
  <2>5. Lives(sg, mrt, Outstanding) => Waits(sg, mrt, Outstanding)'
    BY <2>3, <2>4 DEF Lives, Retries, Waits
  <2> QED BY <1>9, <2>1, <2>2, <2>5
<1>11. ASSUME NEW zero \in BOOLEAN, AssertUpstream(sg, zero) PROVE TimersWait'
  <2>1. mrt' = [mrt EXCEPT ![sg].upstream = sg[1]] /\ timers' = timers
    BY <1>11 DEF AssertUpstream
  <2>2. /\ mrt'[sg] = [mrt[sg] EXCEPT !.upstream = sg[1]]
        /\ \A s \in SG : s # sg => mrt'[s] = mrt[s]
    BY <1>0, <2>1
  <2>3. /\ mrt'[sg].upstream = sg[1]
        /\ mrt'[sg].timeout_id = mrt[sg].timeout_id
        /\ mrt'[sg].check_timerid = mrt[sg].check_timerid
    BY <1>0, <2>2 DEF MrtEntry
  <2>4. Outstanding' = Outstanding
    BY <1>1, <2>1 DEF Outstanding
  <2>5. Lives(sg, mrt, Outstanding) => Waits(sg, mrt, Outstanding)'
    BY <2>3, <2>4 DEF Lives, Retries, Attached, Waits
  <2> QED BY <1>9, <2>1, <2>2, <2>5
<1> QED BY <1>3, <1>4, <1>5, <1>6, <1>7, <1>8, <1>10, <1>11
        DEF PimPacket, PimPacketUpstream

LEMMA TimerStepWaits ==
  ASSUME TypeOK, ListedOnce, TimersWait, NEW t \in expired, TimerRuns(t)
  PROVE  TimersWait'
<1>0. /\ t.sg \in SG /\ t \in Timer
      /\ mrt \in [SG -> MrtEntry] /\ mrt[t.sg] \in MrtEntry
      /\ Rest(t) \subseteq expired
      /\ \A x \in expired : x # t => x \in Rest(t)
  BY DEF TypeOK, Timer, Rest
(* A timer that is none of the entry's three leaves them where they were.  *)
<1>1. ASSUME NEW s, NEW id, NEW f, Armed(f, s, id) \in Outstanding,
             t.func # f \/ t.sg # s
      PROVE  Armed(f, s, id) \in timers \union Rest(t)
  BY <1>0, <1>1 DEF Outstanding, Armed
<1>2. ASSUME themrt' = themrt, expired' = Rest(t), timers \subseteq timers',
             \A s \in SG : SameNames(mrt'[s], mrt[s]),
             \A s \in SG : InTable(s) => t.sg # s \/
               t.func \notin {"handle_sg_timeout", "check_sg", "plan_graft"}
      PROVE  TimersWait'
  <2> SUFFICES ASSUME NEW s \in SG, InTable(s)'
               PROVE  Waits(s, mrt, Outstanding)'
    BY DEF TimersWait
  <2>1. InTable(s) /\ Waits(s, mrt, Outstanding)
    BY <1>2 DEF TimersWait, InTable
  <2>2. timers \union Rest(t) \subseteq Outstanding'
    BY <1>2 DEF Outstanding
  <2>3. \A id : \A f \in {"handle_sg_timeout", "check_sg", "plan_graft"} :
          Armed(f, s, id) \in Outstanding => Armed(f, s, id) \in Outstanding'
    BY <1>1, <1>2, <2>1, <2>2
  <2> QED BY <1>2, <2>1, <2>3, SameTimersWait
<1>3. CASE NoEntry(t) \/ check_sg_gone(t)
  <2>1. /\ UNCHANGED <<tables, timers>> /\ expired' = Rest(t) /\ ~InTable(t.sg)
    BY <1>3 DEF NoEntry, check_sg_gone
  <2> QED BY <1>2, <2>1 DEF tables, SameNames
<1>4. CASE send_join(t)
  <2>1. /\ themrt' = themrt /\ expired' = Rest(t) /\ t.func = "send_join"
        /\ mrt' = [mrt EXCEPT ![t.sg].join_delay_timer_id = NoId]
        /\ timers' = Cleared(timers, "send_join", t.sg, 0,
                             mrt[t.sg].join_delay_timer_id)
    BY <1>4 DEF send_join, Runs
  <2>2. \A s \in SG : SameNames(mrt'[s], mrt[s])
    BY <1>0, <2>1, FieldNames
  <2>3. ASSUME NEW s, NEW id,
               NEW f \in {"handle_sg_timeout", "check_sg", "plan_graft"},
               Armed(f, s, id) \in Outstanding
        PROVE  Armed(f, s, id) \in Outstanding'
    BY <1>1, <2>1, <2>3, ClearedKeeps DEF Outstanding, Slot
  <2> QED BY <2>1, <2>2, <2>3, WaitsStays
<1>5. CASE set_prune(t) \/ prune_time_out(t) \/ active_forward(t)
  <2>1. PICK m, pending, judge :
          /\ m \in [SG -> MrtEntry]
          /\ check_pim_state(m, pending, Rest(t), judge)
          /\ \A s \in SG : SameNames(m[s], mrt[s])
          /\ timers \subseteq pending
    <3>1. CASE set_prune(t)
      <4> DEFINE m == [mrt EXCEPT ![t.sg] = Decided(@, t.vif, 0)]
                 pending == timers \union {NewTimer(timers \union Rest(t),
                                        "prune_time_out", t.sg, t.vif)}
      <4>1. m \in [SG -> MrtEntry] /\ \A s \in SG : SameNames(m[s], mrt[s])
        BY <1>0, UpdateType, FieldNames
      <4>2. check_pim_state(m, pending, Rest(t), "DEL_LEAF")
        BY <3>1 DEF set_prune
      <4>3. timers \subseteq pending
        OBVIOUS
      <4> HIDE DEF m, pending
      <4> QED BY <4>1, <4>2, <4>3
    <3>2. CASE prune_time_out(t)
      <4> DEFINE m == [mrt EXCEPT ![t.sg].outvif[t.vif] = 1]
      <4>1. m \in [SG -> MrtEntry] /\ \A s \in SG : SameNames(m[s], mrt[s])
        <5>1. 0 \in TimerId
          BY MrtAssumption DEF TimerId
        <5> QED BY <1>0, <5>1, FieldType, FieldNames
      <4>2. check_pim_state(m, timers, Rest(t), "ADD_LEAF")
        BY <3>2 DEF prune_time_out
      <4> HIDE DEF m
      <4> QED BY <4>1, <4>2
    <3>3. CASE active_forward(t)
      <4>1. check_pim_state(mrt, timers, Rest(t), "ADD_LEAF")
        BY <3>3 DEF active_forward
      <4> QED BY <1>0, <4>1 DEF SameNames
    <3> QED BY <1>5, <3>1, <3>2, <3>3
  <2>2. /\ themrt' = themrt /\ expired' = Rest(t)
        /\ t.func \notin {"handle_sg_timeout", "check_sg", "plan_graft"}
    BY <1>5 DEF set_prune, prune_time_out, active_forward, Runs
  <2> SUFFICES ASSUME NEW s \in SG, InTable(s)'
               PROVE  Waits(s, mrt, Outstanding)'
    BY DEF TimersWait
  <2>3. InTable(s) /\ Waits(s, mrt, Outstanding)
    BY <2>2 DEF TimersWait, InTable
  <2>4. \A id : \A f \in {"handle_sg_timeout", "check_sg", "plan_graft"} :
          Armed(f, s, id) \in Outstanding
            => Armed(f, s, id) \in pending \union Rest(t)
    BY <1>1, <2>1, <2>2
  <2>5. Waits(s, m, pending \union Rest(t))
    BY <2>1, <2>3, <2>4, SameTimersWait
  <2>6. Waits(s, mrt', timers' \union Rest(t))
    BY <2>1, <2>5, CheckPimStateWaits
  <2> QED BY <2>2, <2>6 DEF Outstanding
<1>6. CASE plan_graft(t)
  <2> DEFINE k == Calls(IF Attached(mrt, t.sg) THEN {} ELSE {t.sg})
             busy == timers \union Rest(t)
  <2>1. /\ CanGraft(busy, k)
        /\ mrt' = Grafted(mrt, busy, k)
        /\ timers' = timers \union GraftTimers(busy, k)
        /\ themrt' = themrt /\ expired' = Rest(t)
        /\ t.func = "plan_graft"
    BY <1>6 DEF plan_graft, Runs
  <2>2. k \in [SG -> Nat] /\ (~Attached(mrt, t.sg) => k[t.sg] # 0)
    BY <1>0, CallsType
  <2> HIDE DEF k, busy
  <2> SUFFICES ASSUME NEW s \in SG, InTable(s)'
               PROVE  Waits(s, mrt, Outstanding)'
    BY DEF TimersWait
  <2>3. InTable(s) /\ Waits(s, mrt, Outstanding)
    BY <2>1 DEF TimersWait, InTable
  <2>4. timers \union Rest(t) \subseteq Outstanding' /\ GraftTimers(busy, k) \subseteq Outstanding'
    BY <2>1 DEF Outstanding
  <2>5. Lives(s, mrt, Outstanding')
    BY <1>1, <2>1, <2>3, <2>4 DEF Lives, Waits
  <2>6. k[s] = 0 => Retries(s, mrt, Outstanding')
    BY <1>1, <2>2, <2>3, <2>4 DEF Retries, Waits
  <2> QED BY <1>0, <2>1, <2>2, <2>4, <2>5, <2>6, GraftedWaits
<1>7. CASE plan_graft_unlinked(t)
  <2>1. /\ UNCHANGED tables /\ expired' = Rest(t) /\ timers \subseteq timers'
        /\ t.old # 0
    BY <1>7 DEF plan_graft_unlinked
  <2>2. \A f, s, id : t # Armed(f, s, id)
    BY <2>1 DEF Armed
  <2>3. \A f, s, id : Armed(f, s, id) \in Outstanding
          => Armed(f, s, id) \in Outstanding'
    BY <1>0, <2>1, <2>2 DEF Outstanding
  <2> QED BY <2>1, <2>3, WaitsStays DEF tables, SameNames
<1>8. CASE handle_sg_timeout(t)
  <2>1. /\ InTable(t.sg)
        /\ themrt' = SubSeq(themrt, 1, Position(t.sg) - 1) \o
                       SubSeq(themrt, Position(t.sg) + 1, Len(themrt))
        /\ mrt' = [mrt EXCEPT ![t.sg] = Blank(t.sg)]
        /\ timers' = TimersLeft(t.sg)
        /\ expired' = Unlinked(Rest(t), t.sg)
    BY <1>8 DEF handle_sg_timeout
  <2>2. \A s : InTable(s)' <=> InTable(s) /\ s # t.sg
    BY <1>0, <2>1, ListedOnceDeleted DEF TypeOK
  <2> SUFFICES ASSUME NEW s \in SG, InTable(s)'
               PROVE  Waits(s, mrt, Outstanding)'
    BY DEF TimersWait
  <2>3. /\ s # t.sg /\ SameNames(mrt'[s], mrt[s])
        /\ Waits(s, mrt, Outstanding)
    BY <1>0, <2>1, <2>2 DEF TimersWait, SameNames
  <2>4. ASSUME NEW S, NEW f, NEW id, Armed(f, s, id) \in S
        PROVE  Armed(f, s, id) \in Unlinked(S, t.sg)
    <3>1. Armed(f, s, id).sg # t.sg
      BY <2>3 DEF Armed
    <3> QED BY <2>4, <3>1 DEF Unlinked
  <2>5. ASSUME NEW f, NEW id, Armed(f, s, id) \in Outstanding
        PROVE  Armed(f, s, id) \in Outstanding'
    <3>1. Armed(f, s, id) \in timers \union Rest(t)
      BY <1>1, <2>3, <2>5
    <3>2. CASE Armed(f, s, id) \in Rest(t)
      BY <2>1, <2>4, <3>2 DEF Outstanding
    <3>3. CASE Armed(f, s, id) \in timers
      BY <2>1, <2>3, <2>4, <3>3, ClearedKeeps DEF Outstanding, TimersLeft
    <3> QED BY <3>1, <3>2, <3>3
  <2> QED BY <2>3, <2>5, SameTimersWait
<1>9. ASSUME NEW busy \in BOOLEAN, check_sg(t, busy) PROVE TimersWait'
  <2> DEFINE lasting == IF busy
                        THEN Cleared(timers, "handle_sg_timeout", t.sg, 0,
                                     mrt[t.sg].timeout_id)
                        ELSE timers
             kept == Cleared(lasting, "check_sg", t.sg, 0,
                             mrt[t.sg].check_timerid)
             pending == kept \union Rest(t)
             toid == IF busy
                     THEN NewId(pending, "handle_sg_timeout", t.sg, 0)
                     ELSE mrt[t.sg].timeout_id
             chid == NewId(pending, "check_sg", t.sg, 0)
  <2>1. /\ timers' = kept \union
                       {NewTimer(pending, f, t.sg, 0) : f \in Rearmed(busy)}
        /\ mrt' = [mrt EXCEPT ![t.sg].timeout_id = toid,
                              ![t.sg].check_timerid = chid]
        /\ themrt' = themrt /\ expired' = Rest(t)
        /\ t.func = "check_sg"
    BY <1>9 DEF check_sg, Runs
  <2>2. /\ mrt'[t.sg] = [mrt[t.sg] EXCEPT !.timeout_id = toid,
                                          !.check_timerid = chid]
        /\ \A s \in SG : s # t.sg => mrt'[s] = mrt[s]
    <3> HIDE DEF toid, chid
    <3> QED BY <1>0, <2>1
  <2>3. /\ mrt'[t.sg].timeout_id = toid
        /\ mrt'[t.sg].check_timerid = chid
        /\ mrt'[t.sg].graft_timer_id = mrt[t.sg].graft_timer_id
        /\ mrt'[t.sg].upstream = mrt[t.sg].upstream
    <3> HIDE DEF toid, chid
    <3> QED BY <1>0, <2>2 DEF MrtEntry
  <2>4. Outstanding' = kept \union Rest(t) \union
                         {NewTimer(pending, f, t.sg, 0) : f \in Rearmed(busy)}
    BY <2>1 DEF Outstanding
  <2>5. ASSUME NEW s, NEW id, NEW f, Armed(f, s, id) \in timers,
               s # t.sg \/ f = "plan_graft" \/ (f = "handle_sg_timeout" /\ ~busy)
        PROVE  Armed(f, s, id) \in kept
    BY <2>5, ClearedKeeps DEF Slot
  <2>6. ASSUME NEW s, NEW id, NEW f, Armed(f, s, id) \in Outstanding,
               s # t.sg \/ f = "plan_graft" \/ (f = "handle_sg_timeout" /\ ~busy)
        PROVE  Armed(f, s, id) \in Outstanding'
    <3> HIDE DEF kept
    <3> QED BY <1>1, <2>1, <2>4, <2>5, <2>6
  <2>7. /\ "check_sg" \in Rearmed(busy)
        /\ busy => "handle_sg_timeout" \in Rearmed(busy)
    BY DEF Rearmed
  <2>8. /\ Armed("check_sg", t.sg, chid) \in Outstanding'
        /\ busy => Armed("handle_sg_timeout", t.sg, toid) \in Outstanding'
    <3>1. \A f \in Rearmed(busy) : NewTimer(pending, f, t.sg, 0) \in Outstanding'
      BY <2>4
    <3> HIDE DEF pending
    <3> QED BY <2>7, <3>1 DEF NewTimer, Armed
  <2> SUFFICES ASSUME NEW s \in SG, InTable(s)'
               PROVE  Waits(s, mrt, Outstanding)'
    BY DEF TimersWait
  <2>9. Waits(s, mrt, Outstanding)
    BY <2>1 DEF TimersWait, InTable
  <2>10. CASE s # t.sg
    <3>1. SameNames(mrt'[s], mrt[s])
      BY <2>2, <2>10 DEF SameNames
    <3> QED BY <2>6, <2>9, <2>10, <3>1, SameTimersWait
  <2>11. CASE s = t.sg
    <3>1. Armed("handle_sg_timeout", t.sg, toid) \in Outstanding'
      <4> HIDE DEF kept, pending
      <4> QED BY <2>6, <2>8, <2>9, <2>11 DEF Lives, Waits
    <3> HIDE DEF toid, chid
    <3>2. Lives(s, mrt, Outstanding)'
      BY <2>3, <2>8, <2>11, <3>1 DEF Lives, Waits
    <3>3. Retries(s, mrt, Outstanding)'
      BY <2>3, <2>6, <2>9, <2>11 DEF Retries, Attached, Waits
    <3> QED BY <3>2, <3>3 DEF Waits
  <2> QED BY <2>10, <2>11
<1> QED BY <1>3, <1>4, <1>5, <1>6, <1>7, <1>8, <1>9 DEF TimerRuns

LEMMA MrtTimersWait == Spec => []TimersWait
<1>1. Init => TimersWait
  BY DEF Init, TimersWait, InTable
<1>2. TypeOK /\ ListedOnce /\ TimersWait /\ [Next]_vars => TimersWait'
  <2> SUFFICES ASSUME TypeOK, ListedOnce, TimersWait, [Next]_vars
               PROVE  TimersWait'
    OBVIOUS
  <2>1. ASSUME NEW sg \in SG, Upcall(sg) PROVE TimersWait'
    BY <2>1, UpcallWaits
  <2>2. ASSUME NEW sg \in SG, PimPacketUpstream(sg) PROVE TimersWait'
    <3>1. 1 \in Vif
      BY MrtAssumption DEF Vif
    <3> QED BY <2>2, <3>1, PacketWaits
  <2>3. ASSUME NEW v \in HostVif, NEW g \in Group, Member(v, g)
        PROVE  TimersWait'
    BY <2>3, MrtAssumption, MemberWaits
  <2>4. ASSUME NEW v \in RouterVif, Neighbour(v) PROVE TimersWait'
    BY <2>4, MrtAssumption, NeighbourWaits
  <2>5. ASSUME NEW v \in RouterVif, NEW sg \in SG, PimPacket(v, sg)
        PROVE  TimersWait'
    BY <2>5, MrtAssumption, PacketWaits
  <2>6. ASSUME NEW S \in SUBSET timers, Expire(S) PROVE TimersWait'
    <3>1. UNCHANGED tables /\ Outstanding \subseteq Outstanding'
      BY <2>6 DEF Expire, Outstanding, Idle
    <3> QED BY <3>1, WaitsStays DEF tables, SameNames
  <2>7. ASSUME NEW t \in expired, TimerRuns(t) PROVE TimersWait'
    BY <2>7, TimerStepWaits
  <2>8. CASE UNCHANGED vars
    BY <2>8, WaitsStays DEF vars, SameNames, Outstanding
  <2> QED BY <2>1, <2>2, <2>3, <2>4, <2>5, <2>6, <2>7, <2>8 DEF Next
<1> QED BY <1>1, <1>2, MrtTypeCorrect, MrtKernel, PTL DEF Spec

LEMMA ListedInTable ==
  ASSUME TypeOK, NEW sg \in Listed
  PROVE  sg \in SG /\ InTable(sg)
BY OnTheList DEF TypeOK, Listed, InTable

(* No entry outlives its flow: add_sg sets a timeout and a check for it,   *)
(* check_sg sets them anew, and nothing else clears the timers whose       *)
(* identifiers the entry has (mrt.c:50-58, mrt.c:175-176).                 *)
THEOREM MrtEntryExpires == Spec => []EntryExpires
<1>1. TypeOK /\ TimersWait => EntryExpires
  BY ListedInTable, ArmedIsSet DEF TimersWait, Lives, EntryExpires, Waits
<1> QED BY <1>1, MrtTypeCorrect, MrtTimersWait, PTL

(* A Graft is sent again until it is acknowledged: an entry that remembers *)
(* a Graft timer has that timer running, also when a second Graft replaced *)
(* the identifier of the first (pimdm.h:9, pim.c:1027-1040).               *)
THEOREM MrtGraftRetried == Spec => []GraftRetried
<1>1. TypeOK /\ TimersWait => GraftRetried
  BY ListedInTable, ArmedIsSet DEF TimersWait, Retries, GraftRetried, Waits
<1> QED BY <1>1, MrtTypeCorrect, MrtTimersWait, PTL

-----------------------------------------------------------------------------
(* What stops a flow.  The kernel's cache follows the entries, so a step   *)
(* that leaves it alone stops nothing.                                     *)
Stops(sg, v) ==
  /\ InTable(sg) /\ InTable(sg)'
  /\ mrt[sg].outvif[v] = 1 /\ mrt'[sg].outvif[v] = 0

LEMMA SameCacheStopsNothing ==
  ASSUME MfcMatches, MfcMatches', NEW sg \in SG, mfc'[sg] = mfc[sg], NEW v
  PROVE  ~Stops(sg, v)
<1> SUFFICES ASSUME InTable(sg), InTable(sg)'
             PROVE  mrt'[sg].outvif = mrt[sg].outvif
  BY DEF Stops
<1>1. mfc[sg] = MfcOf(mrt[sg]) /\ mfc'[sg] = MfcOf(mrt'[sg])
  BY DEF MfcMatches, MfcOf
<1> QED BY <1>1 DEF MfcOf

(* check_pim_state stops nothing that the table it is called with does not.*)
LEMMA CheckPimStateStops ==
  ASSUME NEW m \in [SG -> MrtEntry], NEW pending \in SUBSET Timer,
         NEW batch, NEW judge, check_pim_state(m, pending, batch, judge),
         NEW sg \in SG, NEW v, Stops(sg, v)
  PROVE  m[sg].outvif[v] = 0
<1>1. MfcOf(mrt'[sg]) = MfcOf(m[sg])
  BY CheckPimState
<1> QED BY <1>1 DEF MfcOf, Stops

LEMMA FoundGroup ==
  ASSUME themrt \in Seq(SG), NEW g, OfGroup(g) # {}
  PROVE  find_sg_group(g)[2] = g
<1>1. OfGroup(g) \subseteq Nat
  BY DEF OfGroup
<1>2. \E i \in OfGroup(g) : \A j \in OfGroup(g) : i <= j
  BY <1>1, LeastIndex
<1> QED BY <1>2 DEF find_sg_group, OfGroup

LEMMA MemberStops ==
  ASSUME TypeOK, MfcMatches, MfcMatches', NEW v \in Vif, NEW g \in Group,
         Member(v, g), NEW s \in SG, NEW w \in Vif, Stops(s, w)
  PROVE  s[2] = g /\ w = v /\ g \notin groups'[v]
<1> DEFINE sg == find_sg_group(g)
<1>1. OfGroup(g) # {}
  BY SameCacheStopsNothing DEF Member, add_leaf, del_leaf, tables
<1>2. sg \in SG /\ sg[2] = g
  BY <1>1, FoundEntry, FoundGroup DEF TypeOK
<1>3. change_mfc({sg})
  BY <1>1 DEF Member, add_leaf, del_leaf
<1>4. s = sg
  BY <1>3, SameCacheStopsNothing DEF change_mfc
<1>5. mrt[sg] \in MrtEntry /\ mrt[sg].outvif \in [Vif -> {0, 1}]
  BY <1>2 DEF TypeOK, MrtEntry
<1> HIDE DEF sg
<1>6. CASE add_leaf(v, g)
  <2> DEFINE m == [mrt EXCEPT ![sg] = Counted(@, v)]
  <2>1. check_pim_state(m, timers, expired, "ADD_LEAF")
    BY <1>1, <1>6 DEF add_leaf, sg
  <2>2. m \in [SG -> MrtEntry] /\ m[sg] = Counted(mrt[sg], v)
    BY <1>2, UpdateType DEF TypeOK
  <2> HIDE DEF m
  <2>3. m[sg].outvif[w] = 0
    BY <1>4, <2>1, <2>2, CheckPimStateStops DEF TypeOK
  <2> QED BY <1>4, <1>5, <2>2, <2>3 DEF Counted, MrtEntry, Stops
<1>7. CASE del_leaf(v, g)
  <2> DEFINE m == [mrt EXCEPT ![sg] = Discounted(@, v)]
  <2>1. /\ check_pim_state(m, timers, expired, "DEL_LEAF")
        /\ groups' = [groups EXCEPT ![v] = @ \ {g}]
    BY <1>1, <1>7 DEF del_leaf, sg
  <2>2. m \in [SG -> MrtEntry] /\ m[sg] = Discounted(mrt[sg], v)
    BY <1>2, UpdateType DEF TypeOK
  <2> HIDE DEF m
  <2>3. m[sg].outvif[w] = 0
    BY <1>4, <2>1, <2>2, CheckPimStateStops DEF TypeOK
  <2>4. w = v
    BY <1>4, <1>5, <2>2, <2>3 DEF Discounted, MrtEntry, Stops
  <2>5. g \notin groups'[v]
    BY <2>1 DEF TypeOK
  <2> QED BY <1>2, <1>4, <2>4, <2>5
<1> QED BY <1>6, <1>7 DEF Member

LEMMA NeighbourStops ==
  ASSUME TypeOK, MfcMatches, MfcMatches', NEW v \in Vif, Neighbour(v),
         NEW s \in SG, NEW w \in Vif, Stops(s, w)
  PROVE  ~MembersAt3(s[2])
<1>0. mrt[s] \in MrtEntry
  BY DEF TypeOK
<1>1. CASE AddNeighbor(v)
  <2>1. /\ CanGraft(timers \union expired, GraftCalls(v))
        /\ mrt' = Grafted(Opened(v), timers \union expired, GraftCalls(v))
    BY <1>1 DEF AddNeighbor, refresh_mrt_ADD
  <2>2. Opened(v) \in [SG -> MrtEntry] /\ GraftCalls(v) \in [SG -> Nat]
    BY UpdateType, GraftCallsType DEF Opened, TypeOK
  <2>3. MfcOf(mrt'[s]) = MfcOf(Opened(v)[s])
    BY <2>1, <2>2, GraftedMfc
  <2>4. Opened(v)[s].outvif[w] = 0
    BY <2>3 DEF MfcOf, Stops
  <2>5. Opened(v)[s] \in {mrt[s], Counted(mrt[s], v)}
    BY DEF Opened
  <2>6. Counted(mrt[s], v).outvif = [mrt[s].outvif EXCEPT ![v] = 1]
    BY <1>0 DEF Counted, MrtEntry
  <2>7. mrt[s].outvif \in [Vif -> {0, 1}]
    BY <1>0 DEF MrtEntry
  <2> QED BY <2>4, <2>5, <2>6, <2>7 DEF Stops
<1>2. CASE Goodbye(v) \/ NeighborTimesOut(v)
  <2>1. refresh_mrt_DEL(v)
    BY <1>2 DEF Goodbye, NeighborTimesOut, delete_pim_neighbor
  <2>2. MembersAt3(s[2]) => mrt'[s] = mrt[s]
    BY <2>1 DEF refresh_mrt_DEL, Closed
  <2> QED BY <2>2 DEF Stops
<1> QED BY <1>1, <1>2 DEF Neighbour

LEMMA PacketStopsNothing ==
  ASSUME TypeOK, MfcMatches, MfcMatches', NEW v \in Vif, NEW sg \in SG,
         PimPacket(v, sg) \/ PimPacketUpstream(sg), NEW s \in SG, NEW w
  PROVE  ~Stops(s, w)
<1>1. CASE RecvGraft(v, sg) /\ mfc' # mfc
  <2>1. /\ mrt' = [mrt EXCEPT ![sg] = Decided(@, v, 1)]
        /\ change_mfc({sg})
    BY <1>1 DEF RecvGraft
  <2>2. CASE s # sg
    BY <2>1, <2>2, SameCacheStopsNothing DEF change_mfc
  <2>3. CASE s = sg
    <3>1. mrt[sg] \in MrtEntry /\ mrt'[sg] = Decided(mrt[sg], v, 1)
      BY <2>1 DEF TypeOK
    <3> QED BY <2>3, <3>1 DEF Decided, MrtEntry, Stops
  <2> QED BY <2>2, <2>3
<1>2. CASE mfc' = mfc
  BY <1>2, SameCacheStopsNothing
<1> QED BY <1>1, <1>2 DEF PimPacket, PimPacketUpstream, OverheardJoin,
           OverheardPrune, RecvJoin, RecvPrune, AssertDownstream,
           RecvGraftAck, AssertUpstream

LEMMA TimerStepStops ==
  ASSUME TypeOK, ListedOnce, MfcMatches, MfcMatches', NEW t \in expired,
         TimerRuns(t), NEW s \in SG, NEW w \in Vif, Stops(s, w)
  PROVE  Is(t, "set_prune", s, w) /\ t \in expired \ expired'
<1>0. /\ t.sg \in SG /\ mrt \in [SG -> MrtEntry] /\ mrt[s] \in MrtEntry
      /\ timers \subseteq Timer
  BY DEF TypeOK, Timer
<1>1. mfc' # mfc
  BY SameCacheStopsNothing
<1>2. CASE set_prune(t)
  <2> DEFINE m == [mrt EXCEPT ![t.sg] = Decided(@, t.vif, 0)]
             again == NewTimer(timers \union Rest(t), "prune_time_out",
                               t.sg, t.vif)
  <2>1. /\ check_pim_state(m, timers \union {again}, Rest(t), "DEL_LEAF")
        /\ CanSet(timers \union Rest(t), "prune_time_out", t.sg, t.vif)
        /\ expired' = Rest(t) /\ t.func = "set_prune"
    BY <1>2 DEF set_prune, Runs
  <2>2. m \in [SG -> MrtEntry]
    BY <1>0, UpdateType
  <2>3. again \in Timer
    <3>1. t.vif \in 0..MaxVif /\ "prune_time_out" \in Func
      BY DEF TypeOK, Timer, Func
    <3> QED BY <1>0, <2>1, <3>1, NewTimerType
  <2>4. m[s] \in {mrt[s], Decided(mrt[s], t.vif, 0)}
        /\ (s # t.sg => m[s] = mrt[s])
    BY <1>0
  <2> HIDE DEF m, again
  <2>5. m[s].outvif[w] = 0
    BY <1>0, <2>1, <2>2, <2>3, CheckPimStateStops
  <2>6. s = t.sg /\ w = t.vif
    <3>1. Decided(mrt[s], t.vif, 0).outvif = [mrt[s].outvif EXCEPT ![t.vif] = 0]
      BY <1>0 DEF Decided, MrtEntry
    <3>2. mrt[s].outvif \in [Vif -> {0, 1}]
      BY <1>0 DEF MrtEntry
    <3>3. m[s] # mrt[s]
      BY <2>5 DEF Stops
    <3> QED BY <2>4, <2>5, <3>1, <3>2, <3>3 DEF Stops
  <2> QED BY <2>1, <2>6 DEF Is, Rest
<1>3. CASE prune_time_out(t)
  <2> DEFINE m == [mrt EXCEPT ![t.sg].outvif[t.vif] = 1]
  <2>1. check_pim_state(m, timers, Rest(t), "ADD_LEAF")
    BY <1>3 DEF prune_time_out
  <2>2. m \in [SG -> MrtEntry]
    <3>1. 0 \in TimerId
      BY MrtAssumption DEF TimerId
    <3> QED BY <1>0, <3>1, FieldType
  <2>3. mrt[s].outvif[w] = 1 => m[s].outvif[w] = 1
    <3>1. s = t.sg => m[s].outvif = [mrt[s].outvif EXCEPT ![t.vif] = 1]
      BY <1>0 DEF MrtEntry
    <3>2. s # t.sg => m[s] = mrt[s]
      BY <1>0
    <3>3. mrt[s].outvif \in [Vif -> {0, 1}]
      BY <1>0 DEF MrtEntry
    <3> HIDE DEF m
    <3> QED BY <3>1, <3>2, <3>3
  <2> HIDE DEF m
  <2>4. m[s].outvif[w] = 0
    BY <1>0, <2>1, <2>2, CheckPimStateStops
  <2> QED BY <2>3, <2>4 DEF Stops
<1>4. CASE active_forward(t)
  <2>1. check_pim_state(mrt, timers, Rest(t), "ADD_LEAF")
    BY <1>4 DEF active_forward
  <2>2. mrt[s].outvif[w] = 0
    BY <1>0, <2>1, CheckPimStateStops
  <2> QED BY <2>2 DEF Stops
<1>5. CASE handle_sg_timeout(t)
  <2>1. /\ InTable(t.sg)
        /\ themrt' = SubSeq(themrt, 1, Position(t.sg) - 1) \o
                       SubSeq(themrt, Position(t.sg) + 1, Len(themrt))
        /\ mrt' = [mrt EXCEPT ![t.sg] = Blank(t.sg)]
    BY <1>5 DEF handle_sg_timeout
  <2>2. s # t.sg
    BY <1>0, <2>1, ListedOnceDeleted DEF TypeOK, Stops
  <2>3. mrt'[s] = mrt[s]
    BY <2>1, <2>2
  <2> QED BY <2>3 DEF Stops
<1>6. CASE mfc' = mfc
  BY <1>1, <1>6
<1> QED BY <1>2, <1>3, <1>4, <1>5, <1>6
        DEF TimerRuns, NoEntry, send_join, plan_graft, plan_graft_unlinked,
            check_sg, check_sg_gone, tables

(* While a group has members on interface 3, only the delayed Prune stops  *)
(* its flow there, whatever neighbours go and other packets come           *)
(* (mrt.c:251-270, pim.c:443-447).                                         *)
THEOREM MrtOnlyPruneStops == Spec => OnlyPruneStops
<1> DEFINE Only ==
      \A sg \in Listed :
        /\ InTable(sg)' /\ DEL_NEIGHBOR \in Vif
        /\ sg[2] \in groups[DEL_NEIGHBOR] \intersect groups'[DEL_NEIGHBOR]
        /\ mrt[sg].outvif[DEL_NEIGHBOR] = 1
        /\ mrt'[sg].outvif[DEL_NEIGHBOR] = 0
        => \E t \in expired \ expired' : Is(t, "set_prune", sg, DEL_NEIGHBOR)
<1>1. TypeOK /\ ListedOnce /\ MfcMatches /\ MfcMatches' /\ [Next]_vars => Only
  <2> SUFFICES ASSUME TypeOK, ListedOnce, MfcMatches, MfcMatches', [Next]_vars,
                      NEW sg \in Listed, DEL_NEIGHBOR \in Vif,
                      sg[2] \in groups[DEL_NEIGHBOR] \intersect
                                  groups'[DEL_NEIGHBOR],
                      InTable(sg)',
                      mrt[sg].outvif[DEL_NEIGHBOR] = 1,
                      mrt'[sg].outvif[DEL_NEIGHBOR] = 0
               PROVE  \E t \in expired : /\ Is(t, "set_prune", sg, DEL_NEIGHBOR)
                                         /\ t \in expired \ expired'
    BY Zenon DEF Only
  <2>0. sg \in SG /\ Stops(sg, DEL_NEIGHBOR)
    BY ListedInTable DEF Stops
  <2>1. ASSUME NEW s \in SG, Upcall(s) PROVE FALSE
    <3>1. s # sg => mfc'[sg] = mfc[sg]
      BY <2>0, <2>1 DEF Upcall, NoCacheUpcall, WrongVifUpcall, change_mfc, tables
    <3>2. s = sg => mfc'[sg] = mfc[sg]
      BY <2>0, <2>1 DEF Upcall, NoCacheUpcall, WrongVifUpcall, tables, Stops
    <3> QED BY <2>0, <3>1, <3>2, SameCacheStopsNothing
  <2>2. ASSUME NEW s \in SG, PimPacketUpstream(s) PROVE FALSE
    BY <2>0, <2>2, PacketStopsNothing
  <2>3. ASSUME NEW v \in HostVif, NEW g \in Group, Member(v, g) PROVE FALSE
    BY <2>0, <2>3, MrtAssumption, MemberStops
  <2>4. ASSUME NEW v \in RouterVif, Neighbour(v) PROVE FALSE
    BY <2>0, <2>4, MrtAssumption, NeighbourStops DEF MembersAt3
  <2>5. ASSUME NEW v \in RouterVif, NEW s \in SG, PimPacket(v, s) PROVE FALSE
    BY <2>0, <2>5, MrtAssumption, PacketStopsNothing
  <2>6. ASSUME NEW S \in SUBSET timers, Expire(S) PROVE FALSE
    BY <2>0, <2>6, SameCacheStopsNothing DEF Expire, tables
  <2>7. ASSUME NEW t \in expired, TimerRuns(t)
        PROVE  Is(t, "set_prune", sg, DEL_NEIGHBOR) /\ t \in expired \ expired'
    BY <2>0, <2>7, TimerStepStops
  <2>8. CASE UNCHANGED vars
    BY <2>0, <2>8, SameCacheStopsNothing DEF vars
  <2> QED BY <2>1, <2>2, <2>3, <2>4, <2>5, <2>6, <2>7, <2>8 DEF Next
<1>2. TypeOK /\ ListedOnce /\ MfcMatches /\ MfcMatches' /\ [Next]_vars
        => [\A sg \in Listed :
              /\ InTable(sg)' /\ DEL_NEIGHBOR \in Vif
              /\ sg[2] \in groups[DEL_NEIGHBOR] \intersect groups'[DEL_NEIGHBOR]
              /\ mrt[sg].outvif[DEL_NEIGHBOR] = 1
              /\ mrt'[sg].outvif[DEL_NEIGHBOR] = 0
              => \E t \in expired \ expired' :
                   Is(t, "set_prune", sg, DEL_NEIGHBOR)]_vars
  BY <1>1
<1> QED BY <1>2, MrtTypeCorrect, MrtKernel, PTL DEF Spec, OnlyPruneStops

-----------------------------------------------------------------------------
(* What the upstream router is told.  An entry keeps the interface its     *)
(* Grafts and Prunes leave by.                                             *)
IncomingFixed == \A sg \in SG : mrt[sg].incoming = Incoming[sg[1]]

SameFlow(e, d) == e.incoming = d.incoming /\ e.outnumber = d.outnumber

LEMMA GraftedFlow ==
  ASSUME NEW m \in [SG -> MrtEntry], NEW busy, NEW k \in [SG -> Nat],
         CanGraft(busy, k), NEW sg \in SG
  PROVE  SameFlow(Grafted(m, busy, k)[sg], m[sg])
<1>1. m[sg] \in MrtEntry
  OBVIOUS
<1>2. PICK id \in TimerId :
        Grafted(m, busy, k)[sg] \in {m[sg], [m[sg] EXCEPT !.graft_timer_id = id]}
  BY GraftedIds
<1> QED BY <1>1, <1>2 DEF MrtEntry, SameFlow

LEMMA CheckPimStateFlow ==
  ASSUME NEW m \in [SG -> MrtEntry], NEW pending, NEW batch, NEW judge,
         check_pim_state(m, pending, batch, judge)
  PROVE  \A sg \in SG : SameFlow(mrt'[sg], m[sg])
BY CallsType, GraftedFlow DEF check_pim_state

LEMMA FieldFlow ==
  ASSUME NEW m \in [SG -> MrtEntry], NEW sg \in SG, NEW id, NEW n, NEW v, NEW out
  PROVE  \A s \in SG :
           /\ SameFlow([m EXCEPT ![sg].join_delay_timer_id = id][s], m[s])
           /\ SameFlow([m EXCEPT ![sg].graft_timer_id = id][s], m[s])
           /\ SameFlow([m EXCEPT ![sg].upstream = id][s], m[s])
           /\ SameFlow([m EXCEPT ![sg].prune_delay_timer_id[v] = id][s], m[s])
           /\ SameFlow([m EXCEPT ![sg].outvif[v] = out][s], m[s])
           /\ SameFlow([m EXCEPT ![sg] = Decided(@, v, out)][s], m[s])
           /\ SameFlow([m EXCEPT ![sg].timeout_id = id,
                                 ![sg].check_timerid = n][s], m[s])
<1> SUFFICES ASSUME NEW s \in SG
             PROVE  /\ SameFlow([m EXCEPT ![sg].join_delay_timer_id = id][s], m[s])
                    /\ SameFlow([m EXCEPT ![sg].graft_timer_id = id][s], m[s])
                    /\ SameFlow([m EXCEPT ![sg].upstream = id][s], m[s])
                    /\ SameFlow([m EXCEPT ![sg].prune_delay_timer_id[v] = id][s], m[s])
                    /\ SameFlow([m EXCEPT ![sg].outvif[v] = out][s], m[s])
                    /\ SameFlow([m EXCEPT ![sg] = Decided(@, v, out)][s], m[s])
                    /\ SameFlow([m EXCEPT ![sg].timeout_id = id,
                                          ![sg].check_timerid = n][s], m[s])
  OBVIOUS
<1>0. m[s] \in MrtEntry
  OBVIOUS
<1>1. SameFlow([m EXCEPT ![sg].join_delay_timer_id = id][s], m[s])
  BY <1>0 DEF SameFlow, MrtEntry
<1>2. SameFlow([m EXCEPT ![sg].graft_timer_id = id][s], m[s])
  BY <1>0 DEF SameFlow, MrtEntry
<1>3. SameFlow([m EXCEPT ![sg].upstream = id][s], m[s])
  BY <1>0 DEF SameFlow, MrtEntry
<1>4. SameFlow([m EXCEPT ![sg].prune_delay_timer_id[v] = id][s], m[s])
  BY <1>0 DEF SameFlow, MrtEntry
<1>5. SameFlow([m EXCEPT ![sg].outvif[v] = out][s], m[s])
  BY <1>0 DEF SameFlow, MrtEntry
<1>6. SameFlow([m EXCEPT ![sg] = Decided(@, v, out)][s], m[s])
  BY <1>0 DEF SameFlow, MrtEntry, Decided
<1>7. SameFlow([m EXCEPT ![sg].timeout_id = id, ![sg].check_timerid = n][s], m[s])
  BY <1>0 DEF SameFlow, MrtEntry
<1> QED BY <1>1, <1>2, <1>3, <1>4, <1>5, <1>6, <1>7

(* The handlers that count no interface in or out.                         *)
Quiet ==
  themrt' = themrt /\ \A s \in SG : SameFlow(mrt'[s], mrt[s])

LEMMA PacketQuiet ==
  ASSUME TypeOK, NEW v, NEW sg \in SG,
         PimPacket(v, sg) \/ PimPacketUpstream(sg)
  PROVE  Quiet
<1>0. mrt \in [SG -> MrtEntry]
  BY DEF TypeOK
<1>1. CASE OverheardJoin(v, sg)
  BY <1>0, <1>1, FieldFlow DEF Quiet, OverheardJoin
<1>2. CASE OverheardPrune(v, sg)
  BY <1>0, <1>2, FieldFlow DEF Quiet, OverheardPrune
<1>3. CASE RecvJoin(v, sg)
  BY <1>0, <1>3, FieldFlow DEF Quiet, RecvJoin
<1>4. CASE RecvPrune(v, sg)
  BY <1>0, <1>4, FieldFlow DEF Quiet, RecvPrune
<1>5. CASE RecvGraft(v, sg)
  <2>1. CASE ~InTable(sg)
    BY <1>5, <2>1 DEF Quiet, RecvGraft, SameFlow
  <2>2. CASE InTable(sg)
    <3>1. mrt' = [mrt EXCEPT ![sg] = Decided(@, v, 1)] /\ themrt' = themrt
      BY <1>5, <2>2 DEF RecvGraft
    <3>2. \A s \in SG : SameFlow([mrt EXCEPT ![sg] = Decided(@, v, 1)][s], mrt[s])
      BY <1>0, FieldFlow
    <3> QED BY <3>1, <3>2 DEF Quiet
  <2> QED BY <2>1, <2>2
<1>6. ASSUME NEW zero \in BOOLEAN, AssertDownstream(v, sg, zero) PROVE Quiet
  <2>1. CASE LocalWins(sg, zero)
    BY <1>6, <2>1 DEF Quiet, AssertDownstream, SameFlow
  <2>2. CASE ~LocalWins(sg, zero)
    <3>1. PICK id : mrt' = [mrt EXCEPT ![sg].prune_delay_timer_id[v] = id]
      BY <1>6, <2>2 DEF AssertDownstream
    <3>2. themrt' = themrt
      BY <1>6 DEF AssertDownstream
    <3> QED BY <1>0, <3>1, <3>2, FieldFlow DEF Quiet
  <2> QED BY <2>1, <2>2
<1>7. CASE RecvGraftAck(sg)
  BY <1>0, <1>7, FieldFlow DEF Quiet, RecvGraftAck
<1>8. ASSUME NEW zero \in BOOLEAN, AssertUpstream(sg, zero) PROVE Quiet
  BY <1>0, <1>8, FieldFlow DEF Quiet, AssertUpstream
<1> QED BY <1>1, <1>2, <1>3, <1>4, <1>5, <1>6, <1>7, <1>8
        DEF PimPacket, PimPacketUpstream

LEMMA TimerStepQuiet ==
  ASSUME TypeOK, NEW t \in expired, TimerRuns(t)
  PROVE  Quiet \/ handle_sg_timeout(t)
<1>0. mrt \in [SG -> MrtEntry] /\ t.sg \in SG
  BY DEF TypeOK, Timer
<1>1. CASE NoEntry(t) \/ plan_graft_unlinked(t) \/ check_sg_gone(t)
  BY <1>1 DEF NoEntry, plan_graft_unlinked, check_sg_gone, tables, Quiet, SameFlow
<1>2. CASE send_join(t)
  BY <1>0, <1>2, FieldFlow DEF Quiet, send_join
<1>3. CASE set_prune(t)
  <2> DEFINE m == [mrt EXCEPT ![t.sg] = Decided(@, t.vif, 0)]
  <2>1. /\ \E pending : check_pim_state(m, pending, Rest(t), "DEL_LEAF")
        /\ themrt' = themrt
    BY <1>3 DEF set_prune
  <2>2. m \in [SG -> MrtEntry] /\ \A s \in SG : SameFlow(m[s], mrt[s])
    BY <1>0, UpdateType, FieldFlow
  <2> HIDE DEF m
  <2> QED BY <2>1, <2>2, CheckPimStateFlow DEF Quiet, SameFlow
<1>4. CASE prune_time_out(t)
  <2> DEFINE m == [mrt EXCEPT ![t.sg].outvif[t.vif] = 1]
  <2>1. check_pim_state(m, timers, Rest(t), "ADD_LEAF") /\ themrt' = themrt
    BY <1>4 DEF prune_time_out
  <2>2. m \in [SG -> MrtEntry] /\ \A s \in SG : SameFlow(m[s], mrt[s])
    <3>1. 0 \in TimerId
      BY MrtAssumption DEF TimerId
    <3> QED BY <1>0, <3>1, FieldType, FieldFlow
  <2> HIDE DEF m
  <2> QED BY <2>1, <2>2, CheckPimStateFlow DEF Quiet, SameFlow
<1>5. CASE active_forward(t)
  BY <1>0, <1>5, CheckPimStateFlow DEF Quiet, active_forward
<1>6. CASE plan_graft(t)
  BY <1>0, <1>6, CallsType, GraftedFlow DEF Quiet, plan_graft
<1>7. ASSUME NEW busy \in BOOLEAN, check_sg(t, busy) PROVE Quiet
  <2>1. PICK id, n : mrt' = [mrt EXCEPT ![t.sg].timeout_id = id,
                                        ![t.sg].check_timerid = n]
    BY <1>7 DEF check_sg
  <2>2. themrt' = themrt
    BY <1>7 DEF check_sg
  <2> QED BY <1>0, <2>1, <2>2, FieldFlow DEF Quiet
<1> QED BY <1>1, <1>2, <1>3, <1>4, <1>5, <1>6, <1>7 DEF TimerRuns

Told(sg) ==
  InTable(sg)' /\ ~Attached(mrt', sg) =>
    /\ (Before(sg) = 0 /\ mrt'[sg].outnumber > 0) => Tells("graft", sg)
    /\ (Before(sg) > 0 /\ mrt'[sg].outnumber = 0) => Tells("prune", sg)
    /\ (~InTable(sg) /\ mrt'[sg].outnumber = 0) => Tells("prune", sg)

LEMMA QuietTold ==
  ASSUME TypeOK, IncomingFixed, Quiet, NEW sg \in SG
  PROVE  mrt'[sg].incoming = Incoming[sg[1]] /\ Told(sg)
<1>1. /\ mrt'[sg].incoming = mrt[sg].incoming
      /\ mrt'[sg].outnumber = mrt[sg].outnumber
      /\ InTable(sg)' <=> InTable(sg)
      /\ mrt[sg].outnumber \in Int
  BY DEF Quiet, SameFlow, InTable, TypeOK, MrtEntry
<1> QED BY <1>1 DEF IncomingFixed, Told, Before

(* A message about an entry leaves by the interface towards its source.    *)
LEMMA ToldUpstream ==
  ASSUME NEW m, NEW sg, m[sg].incoming = Incoming[sg[1]], NEW S, sg \in S,
         NEW type, ToUpstream(type, m, S) \subseteq sent'
  PROVE  Tells(type, sg)
BY DEF ToUpstream, Tells

LEMMA UpcallTold ==
  ASSUME TypeOK, ListedOnce, IncomingFixed, NEW sg \in SG, Upcall(sg), NEW s \in SG
  PROVE  mrt'[s].incoming = Incoming[s[1]] /\ Told(s)
<1>1. ASSUME NEW stale \in StaleWords, NoCacheUpcall(sg, stale)
      PROVE  mrt'[s].incoming = Incoming[s[1]] /\ Told(s)
  <2> DEFINE m == [mrt EXCEPT ![sg] = NewEntry(sg, stale)]
             remote == IF Attached(m, sg) THEN {} ELSE {sg}
             grafts == IF m[sg].outnumber # 0 THEN remote ELSE {}
  <2>1. /\ CanSet(timers, "handle_sg_timeout", sg, 0)
        /\ CanSet(timers, "check_sg", sg, 0)
        /\ CanGraft(timers, Calls(grafts))
        /\ themrt' = <<sg>> \o themrt
        /\ mrt' = Grafted(m, timers, Calls(grafts))
        /\ ToUpstream("graft", m, grafts) \subseteq sent'
        /\ ToUpstream("prune", m, remote \ grafts) \subseteq sent'
        /\ ~InTable(sg)
    BY <1>1 DEF NoCacheUpcall, add_sg
  <2>2. m \in [SG -> MrtEntry] /\ m[s].outnumber \in Int
    BY <2>1, NewEntryType DEF TypeOK, MrtEntry
  <2>3. /\ s # sg => m[s] = mrt[s]
        /\ m[sg].incoming = Incoming[sg[1]]
    BY DEF TypeOK, NewEntry, Blank
  <2>4. /\ ~Attached(m, sg) => remote = {sg}
        /\ ~Attached(m, sg) /\ m[sg].outnumber # 0 => sg \in grafts
        /\ m[sg].outnumber = 0 => grafts = {}
    OBVIOUS
  <2> HIDE DEF m, grafts, remote
  <2>5. /\ mrt'[s].incoming = m[s].incoming
        /\ mrt'[s].outnumber = m[s].outnumber
        /\ mrt'[s].upstream = m[s].upstream
    <3>1. Calls(grafts) \in [SG -> Nat]
      BY CallsType
    <3>2. SameFlow(mrt'[s], m[s])
      BY <2>1, <2>2, <3>1, GraftedFlow
    <3> QED BY <2>1, <2>2, <3>1, <3>2, GraftedMfc DEF SameFlow
  <2>6. \A x : InTable(x)' <=> InTable(x) \/ x = sg
    BY <2>1, ListedOnceAdded DEF TypeOK
  <2>7. CASE s # sg
    BY <2>2, <2>3, <2>5, <2>6, <2>7 DEF IncomingFixed, Told, Before
  <2>8. CASE s = sg
    <3>1. ~Attached(mrt', s) => ~Attached(m, s)
      BY <2>5 DEF Attached
    <3>2. ~Attached(m, sg) /\ m[sg].outnumber # 0 => Tells("graft", sg)
      BY <2>1, <2>3, <2>4, ToldUpstream
    <3>3. ~Attached(m, sg) /\ m[sg].outnumber = 0 => Tells("prune", sg)
      BY <2>1, <2>3, <2>4, ToldUpstream
    <3> QED BY <2>1, <2>3, <2>5, <2>8, <3>1, <3>2, <3>3 DEF Told, Before
  <2> QED BY <2>7, <2>8
<1>2. ASSUME NEW v \in Vif, WrongVifUpcall(sg, v)
      PROVE  mrt'[s].incoming = Incoming[s[1]] /\ Told(s)
  BY <1>2, QuietTold DEF WrongVifUpcall, tables, Quiet, SameFlow
<1> QED BY <1>1, <1>2 DEF Upcall

LEMMA MemberTold ==
  ASSUME TypeOK, IncomingFixed, NEW v \in Vif, NEW g \in Group, Member(v, g),
         NEW s \in SG
  PROVE  mrt'[s].incoming = Incoming[s[1]] /\ Told(s)
<1> DEFINE sg == find_sg_group(g)
<1>0. mrt[s] \in MrtEntry /\ mrt[s].outnumber \in Int
      /\ mrt[s].outvif[v] \in {0, 1}
  BY DEF TypeOK, MrtEntry
<1>1. CASE OfGroup(g) = {}
  <2>1. UNCHANGED tables
    BY <1>1 DEF Member, add_leaf, del_leaf
  <2> QED BY <2>1, QuietTold DEF tables, Quiet, SameFlow
<1>2. ASSUME NEW m \in [SG -> MrtEntry], NEW judge,
             check_pim_state(m, timers, expired, judge), themrt' = themrt,
             m[s].incoming = mrt[s].incoming,
             m[s].outnumber # mrt[s].outnumber =>
               \/ judge = "ADD_LEAF" /\ m[s].outnumber = mrt[s].outnumber + 1
               \/ judge = "DEL_LEAF" /\ m[s].outnumber = mrt[s].outnumber - 1
      PROVE  mrt'[s].incoming = Incoming[s[1]] /\ Told(s)
  <2>1. /\ mrt'[s].incoming = m[s].incoming
        /\ mrt'[s].outnumber = m[s].outnumber
        /\ InTable(s)' <=> InTable(s)
    BY <1>2, CheckPimStateFlow DEF SameFlow, InTable
  <2>2. mrt'[s].incoming = Incoming[s[1]]
    BY <1>2, <2>1 DEF IncomingFixed
  <2>3. m[s].incoming = Incoming[s[1]]
    BY <2>1, <2>2
  <2>4. /\ ToUpstream("prune", m, Pruning(m, judge)) \subseteq sent'
        /\ ToUpstream("graft", m, Grafting(m, judge)) \subseteq sent'
    BY <1>2 DEF check_pim_state
  <2>5. Attached(mrt', s) <=> Attached(m, s)
    <3>1. mrt'[s].upstream = m[s].upstream
      BY <1>2, CallsType, GraftedMfc DEF check_pim_state
    <3> QED BY <3>1 DEF Attached
  <2>6. InTable(s) /\ ~Attached(m, s) /\ m[s].outnumber = 1 /\ judge = "ADD_LEAF"
          => Tells("graft", s)
    BY <2>3, <2>4, ToldUpstream DEF Grafting
  <2>7. InTable(s) /\ ~Attached(m, s) /\ m[s].outnumber = 0 /\ judge = "DEL_LEAF"
          => Tells("prune", s)
    BY <2>3, <2>4, ToldUpstream DEF Pruning
  <2> QED BY <1>0, <1>2, <2>1, <2>2, <2>5, <2>6, <2>7 DEF Told, Before
<1>3. CASE OfGroup(g) # {} /\ add_leaf(v, g)
  <2> DEFINE m == [mrt EXCEPT ![sg] = Counted(@, v)]
  <2>1. check_pim_state(m, timers, expired, "ADD_LEAF") /\ themrt' = themrt
    BY <1>3 DEF add_leaf
  <2>2. m \in [SG -> MrtEntry] /\ m[s] \in {mrt[s], Counted(mrt[s], v)}
    BY UpdateType DEF TypeOK
  <2>3. /\ Counted(mrt[s], v).incoming = mrt[s].incoming
        /\ Counted(mrt[s], v).outnumber = mrt[s].outnumber + 1 - mrt[s].outvif[v]
    BY <1>0 DEF Counted, MrtEntry
  <2> HIDE DEF m
  <2> QED BY <1>0, <1>2, <2>1, <2>2, <2>3
<1>4. CASE OfGroup(g) # {} /\ del_leaf(v, g)
  <2> DEFINE m == [mrt EXCEPT ![sg] = Discounted(@, v)]
  <2>1. check_pim_state(m, timers, expired, "DEL_LEAF") /\ themrt' = themrt
    BY <1>4 DEF del_leaf
  <2>2. m \in [SG -> MrtEntry] /\ m[s] \in {mrt[s], Discounted(mrt[s], v)}
    BY UpdateType DEF TypeOK
  <2>3. /\ Discounted(mrt[s], v).incoming = mrt[s].incoming
        /\ Discounted(mrt[s], v).outnumber = mrt[s].outnumber - 1
    BY <1>0 DEF Discounted, MrtEntry
  <2> HIDE DEF m
  <2> QED BY <1>2, <2>1, <2>2, <2>3
<1> QED BY <1>1, <1>3, <1>4 DEF Member

LEMMA NeighbourTold ==
  ASSUME TypeOK, IncomingFixed, NEW v \in Vif, Neighbour(v), NEW s \in SG
  PROVE  mrt'[s].incoming = Incoming[s[1]] /\ Told(s)
<1>0. /\ mrt[s] \in MrtEntry /\ mrt[s].outnumber \in Int
      /\ mrt[s].outvif[v] \in {0, 1} /\ mrt[s].incoming = Incoming[s[1]]
  BY DEF TypeOK, MrtEntry, IncomingFixed
<1>1. themrt' = themrt /\ (InTable(s)' <=> InTable(s))
  BY DEF Neighbour, AddNeighbor, Goodbye, NeighborTimesOut, InTable,
         delete_pim_neighbor, refresh_mrt_ADD
<1>2. CASE AddNeighbor(v)
  <2>1. /\ CanGraft(timers \union expired, GraftCalls(v))
        /\ mrt' = Grafted(Opened(v), timers \union expired, GraftCalls(v))
        /\ sent' = ToUpstream("graft", mrt, {sg \in SG : GraftCalls(v)[sg] > 0})
    BY <1>2 DEF AddNeighbor, refresh_mrt_ADD
  <2>2. Opened(v) \in [SG -> MrtEntry] /\ GraftCalls(v) \in [SG -> Nat]
    BY UpdateType, GraftCallsType DEF Opened, TypeOK
  <2>3. /\ mrt'[s].incoming = Opened(v)[s].incoming
        /\ mrt'[s].outnumber = Opened(v)[s].outnumber
        /\ mrt'[s].upstream = Opened(v)[s].upstream
    BY <2>1, <2>2, GraftedFlow, GraftedMfc DEF SameFlow
  <2>4. /\ Counted(mrt[s], v).incoming = mrt[s].incoming
        /\ Counted(mrt[s], v).upstream = mrt[s].upstream
        /\ Counted(mrt[s], v).outnumber = mrt[s].outnumber + 1 - mrt[s].outvif[v]
    BY <1>0 DEF Counted, MrtEntry
  <2>5. /\ mrt'[s].incoming = Incoming[s[1]]
        /\ mrt'[s].upstream = mrt[s].upstream
        /\ \/ mrt'[s].outnumber = mrt[s].outnumber
           \/ /\ InTable(s) /\ mrt[s].outvif[v] = 0
              /\ mrt'[s].outnumber = mrt[s].outnumber + 1
    BY <1>0, <2>3, <2>4 DEF Opened
  <2>6. ASSUME InTable(s), ~Attached(mrt, s), mrt[s].outvif[v] = 0,
               mrt[s].outnumber = 0
        PROVE  Tells("graft", s)
    <3> DEFINE turns == {i \in Muted(v) : NumberAt(Opened(v), s, i) = 1}
    <3>1. Position(s) \in 1..Len(themrt) /\ themrt[Position(s)] = s
            /\ Len(themrt) \in Nat
      BY <2>6, OnTheList DEF TypeOK
    <3>2. Opened(v)[s].outnumber = 1
      BY <2>4, <2>6 DEF Opened
    <3>3. Position(s) \in turns
      BY <2>6, <3>1, <3>2 DEF Muted, NumberAt
    <3>4. IsFiniteSet(turns)
      <4>1. IsFiniteSet(1..Len(themrt))
        BY <3>1, FS_Interval
      <4>2. turns \in SUBSET (1..Len(themrt))
        BY DEF Muted
      <4> QED BY <4>1, <4>2, FS_Subset
    <3>5. GraftCalls(v)[s] = Cardinality(turns)
      BY <2>6 DEF GraftCalls
    <3> HIDE DEF turns
    <3>6. Cardinality(turns) \in Nat /\ Cardinality(turns) # 0
      BY <3>3, <3>4, FS_CardinalityType, FS_EmptySet
    <3>7. s \in {sg \in SG : GraftCalls(v)[sg] > 0}
      BY <3>5, <3>6
    <3> QED BY <1>0, <2>1, <3>7, ToldUpstream
  <2> QED BY <1>0, <1>1, <2>5, <2>6 DEF Told, Before, Attached
<1>3. CASE Goodbye(v) \/ NeighborTimesOut(v)
  <2>1. refresh_mrt_DEL(v)
    BY <1>3 DEF Goodbye, NeighborTimesOut, delete_pim_neighbor
  <2>2. CASE mrt' = mrt
    BY <1>1, <2>2, QuietTold DEF Quiet, SameFlow
  <2>3. CASE mrt' # mrt
    <3> DEFINE turns == {i \in 1..Len(themrt) : ~MembersAt3(themrt[i][2])}
               dry == {sg \in Listed :
                         /\ ~Attached(mrt, sg)
                         /\ \E i \in turns : NumberAt(Closed(v), sg, i) = 0}
    <3>1. mrt' = Closed(v) /\ sent' = ToUpstream("prune", mrt, dry)
      BY <2>1, <2>3 DEF refresh_mrt_DEL
    <3>2. /\ Discounted(mrt[s], v).incoming = mrt[s].incoming
          /\ Discounted(mrt[s], v).upstream = mrt[s].upstream
          /\ Discounted(mrt[s], v).outnumber = mrt[s].outnumber - 1
      BY <1>0 DEF Discounted, MrtEntry
    <3>3. /\ mrt'[s].incoming = Incoming[s[1]]
          /\ mrt'[s].upstream = mrt[s].upstream
          /\ \/ mrt'[s].outnumber = mrt[s].outnumber
             \/ /\ InTable(s) /\ ~MembersAt3(s[2])
                /\ mrt'[s].outnumber = mrt[s].outnumber - 1
      BY <1>0, <3>1, <3>2 DEF Closed
    <3>4. ASSUME InTable(s), ~Attached(mrt, s), ~MembersAt3(s[2]),
                 mrt'[s].outnumber = 0
          PROVE  Tells("prune", s)
      <4>1. /\ Position(s) \in 1..Len(themrt) /\ themrt[Position(s)] = s
            /\ s \in Listed /\ Len(themrt) \in Nat
        BY <3>4, OnTheList DEF TypeOK
      <4>2. Position(s) \in turns
        BY <3>4, <4>1
      <4>3. NumberAt(Closed(v), s, Position(s)) = 0
        BY <3>1, <3>4, <4>1 DEF NumberAt
      <4>4. s \in dry
        BY <3>4, <4>1, <4>2, <4>3
      <4> QED BY <1>0, <3>1, <4>4, ToldUpstream
    <3> QED BY <1>0, <1>1, <3>3, <3>4 DEF Told, Before, Attached
  <2> QED BY <2>2, <2>3
<1> QED BY <1>2, <1>3 DEF Neighbour

LEMMA TimerStepTold ==
  ASSUME TypeOK, ListedOnce, IncomingFixed, NEW t \in expired, TimerRuns(t),
         NEW s \in SG
  PROVE  mrt'[s].incoming = Incoming[s[1]] /\ Told(s)
<1>1. CASE Quiet
  BY <1>1, QuietTold
<1>2. CASE handle_sg_timeout(t)
  <2>1. /\ InTable(t.sg) /\ t.sg \in SG
        /\ themrt' = SubSeq(themrt, 1, Position(t.sg) - 1) \o
                       SubSeq(themrt, Position(t.sg) + 1, Len(themrt))
        /\ mrt' = [mrt EXCEPT ![t.sg] = Blank(t.sg)]
    BY <1>2 DEF handle_sg_timeout, TypeOK, Timer
  <2>2. InTable(s)' <=> InTable(s) /\ s # t.sg
    BY <2>1, ListedOnceDeleted DEF TypeOK
  <2>3. CASE s = t.sg
    BY <2>1, <2>2, <2>3 DEF TypeOK, Blank, Told
  <2>4. CASE s # t.sg
    <3>1. mrt'[s] = mrt[s] /\ mrt[s].outnumber \in Int
      BY <2>1, <2>4 DEF TypeOK, MrtEntry
    <3> QED BY <2>2, <3>1 DEF IncomingFixed, Told, Before
  <2> QED BY <2>3, <2>4
<1> QED BY <1>1, <1>2, TimerStepQuiet

LEMMA NextTold ==
  ASSUME TypeOK, ListedOnce, IncomingFixed, [Next]_vars
  PROVE  IncomingFixed' /\ \A sg \in SG : Told(sg)
<1> SUFFICES ASSUME NEW sg \in SG
             PROVE  mrt'[sg].incoming = Incoming[sg[1]] /\ Told(sg)
  BY DEF IncomingFixed
<1>0. ASSUME Quiet PROVE mrt'[sg].incoming = Incoming[sg[1]] /\ Told(sg)
  BY <1>0, QuietTold
<1>1. ASSUME NEW s \in SG, Upcall(s)
      PROVE  mrt'[sg].incoming = Incoming[sg[1]] /\ Told(sg)
  BY <1>1, UpcallTold
<1>2. ASSUME NEW s \in SG, PimPacketUpstream(s) PROVE Quiet
  BY <1>2, PacketQuiet
<1>3. ASSUME NEW v \in HostVif, NEW g \in Group, Member(v, g)
      PROVE  mrt'[sg].incoming = Incoming[sg[1]] /\ Told(sg)
  BY <1>3, MrtAssumption, MemberTold
<1>4. ASSUME NEW v \in RouterVif, Neighbour(v)
      PROVE  mrt'[sg].incoming = Incoming[sg[1]] /\ Told(sg)
  BY <1>4, MrtAssumption, NeighbourTold
<1>5. ASSUME NEW v \in RouterVif, NEW s \in SG, PimPacket(v, s) PROVE Quiet
  BY <1>5, PacketQuiet
<1>6. ASSUME NEW S \in SUBSET timers, Expire(S) PROVE Quiet
  BY <1>6 DEF Expire, tables, Quiet, SameFlow
<1>7. ASSUME NEW t \in expired, TimerRuns(t)
      PROVE  mrt'[sg].incoming = Incoming[sg[1]] /\ Told(sg)
  BY <1>7, TimerStepTold
<1>8. CASE UNCHANGED vars
  BY <1>8, <1>0 DEF vars, Quiet, SameFlow
<1> QED BY <1>0, <1>1, <1>2, <1>3, <1>4, <1>5, <1>6, <1>7, <1>8 DEF Next

(* The upstream router learns of every change between none and one, in the *)
(* step that makes it, also of several entries at once (mrt.c:9-32,        *)
(* mrt.c:186-199, mrt.c:233-274).                                          *)
THEOREM MrtUpstreamIsTold == Spec => UpstreamIsTold
<1>1. Init => IncomingFixed
  BY DEF Init, IncomingFixed, Blank
<1>2. TypeOK /\ ListedOnce /\ IncomingFixed /\ [Next]_vars
        => IncomingFixed' /\
           [\A sg \in SG :
             InTable(sg)' /\ ~Attached(mrt', sg) =>
               /\ (Before(sg) = 0 /\ mrt'[sg].outnumber > 0) => Tells("graft", sg)
               /\ (Before(sg) > 0 /\ mrt'[sg].outnumber = 0) => Tells("prune", sg)
               /\ (~InTable(sg) /\ mrt'[sg].outnumber = 0) => Tells("prune", sg)]_vars
  BY NextTold DEF Told
<1> QED BY <1>1, <1>2, MrtTypeCorrect, MrtKernel, PTL DEF Spec, UpstreamIsTold

-----------------------------------------------------------------------------
(* The timeout and the check of a flow.  A plain one is known by its       *)
(* identifier; no timer waits in the queue while it is being run.          *)
Lasting == {"handle_sg_timeout", "check_sg"}

LastingIn(S) == {x \in S : x.func \in Lasting}

Named(x) ==
  x = Armed(x.func, x.sg, IF x.func = "check_sg" THEN mrt[x.sg].check_timerid
                                                 ELSE mrt[x.sg].timeout_id)

Plain ==
  /\ \A x \in LastingIn(Outstanding) : x = Armed(x.func, x.sg, x.n)
  /\ \A x \in LastingIn(expired) : x \notin timers

AllNamed(sg) ==
  \A x \in LastingIn(Outstanding) : x.sg = sg => InTable(sg) /\ Named(x)

LEMMA NoneLeftOver ==
  ASSUME Plain, NEW sg \in SG, LeftOver(sg) = {}
  PROVE  AllNamed(sg)
<1> SUFFICES ASSUME NEW x \in LastingIn(Outstanding), x.sg = sg
             PROVE  InTable(sg) /\ Named(x)
  BY DEF AllNamed
<1>1. x = Armed(x.func, x.sg, x.n) /\ x.func \in Lasting /\ x \in Outstanding
  BY DEF Plain, LastingIn
<1>2. x.vif = 0 /\ x.old = 0
  BY <1>1 DEF Armed
<1>3. x \in Set("handle_sg_timeout", sg, 0) \union Set("check_sg", sg, 0)
  BY <1>1, <1>2 DEF Set, Is, Lasting
<1>4. /\ InTable(sg)
      /\ x.n = IF x.func = "check_sg" THEN mrt[sg].check_timerid
                                      ELSE mrt[sg].timeout_id
  BY <1>3 DEF LeftOver
<1> QED BY <1>1, <1>4 DEF Named

LEMMA NamedIsNotLeft ==
  ASSUME NEW sg \in SG, AllNamed(sg)
  PROVE  LeftOver(sg) = {}
<1> SUFFICES ASSUME NEW x \in LeftOver(sg) PROVE FALSE
  OBVIOUS
<1>1. /\ x \in Set("handle_sg_timeout", sg, 0) \union Set("check_sg", sg, 0)
      /\ \/ ~InTable(sg)
         \/ x.n # IF x.func = "check_sg" THEN mrt[sg].check_timerid
                                        ELSE mrt[sg].timeout_id
  BY DEF LeftOver
<1>2. x \in LastingIn(Outstanding) /\ x.sg = sg
  BY <1>1 DEF Set, Is, LastingIn, Lasting
<1>3. InTable(sg) /\ Named(x)
  BY <1>2 DEF AllNamed
<1>4. x.n = IF x.func = "check_sg" THEN mrt[sg].check_timerid
                                   ELSE mrt[sg].timeout_id
  <2> DEFINE id == IF x.func = "check_sg" THEN mrt[sg].check_timerid
                                          ELSE mrt[sg].timeout_id
  <2>1. x = Armed(x.func, x.sg, id)
    BY <1>2, <1>3 DEF Named
  <2>2. Armed(x.func, x.sg, id).n = id
    BY DEF Armed
  <2> HIDE DEF id
  <2>3. x.n = id
    BY <2>1, <2>2
  <2> QED BY <2>3 DEF id
<1> QED BY <1>1, <1>3, <1>4

(* What a step does: timers stay plain, and those of an entry stay its     *)
(* own unless its timeout and its check run in one batch.                  *)
KeepsOwn ==
  /\ Plain'
  /\ \A sg \in SG : AllNamed(sg) => AllNamed(sg)' \/ RanTogether(sg)

SameLife(e, d) ==
  e.timeout_id = d.timeout_id /\ e.check_timerid = d.check_timerid

(* The steps that start, put off and end no entry.                         *)
Untouched ==
  /\ themrt' = themrt
  /\ expired' \subseteq expired
  /\ LastingIn(timers') \subseteq timers
  /\ \A s \in SG : SameLife(mrt'[s], mrt[s])

LEMMA UntouchedKeeps ==
  ASSUME Plain, Untouched
  PROVE  KeepsOwn
<1>1. \A x : x \in LastingIn(Outstanding)' => x \in LastingIn(Outstanding)
  BY DEF Untouched, LastingIn, Outstanding
<1>2. Plain'
  BY <1>1 DEF Plain, Untouched, LastingIn, Outstanding
<1>3. ASSUME NEW sg \in SG, AllNamed(sg), NEW x \in LastingIn(Outstanding)',
             x.sg = sg
      PROVE  InTable(sg)' /\ Named(x)'
  <2>1. InTable(sg) /\ Named(x)
    BY <1>1, <1>3 DEF AllNamed
  <2>2. InTable(sg)'
    BY <2>1 DEF Untouched, InTable
  <2> QED BY <1>3, <2>1, <2>2 DEF Untouched, SameLife, Named
<1>4. \A sg \in SG : AllNamed(sg) => AllNamed(sg)'
  BY <1>3 DEF AllNamed
<1> QED BY <1>2, <1>4 DEF KeepsOwn

LEMMA GraftedLife ==
  ASSUME NEW m \in [SG -> MrtEntry], NEW busy, NEW k \in [SG -> Nat],
         CanGraft(busy, k)
  PROVE  \A s \in SG : SameLife(Grafted(m, busy, k)[s], m[s])
BY GraftedMfc DEF SameLife

LEMMA LastingGraft ==
  ASSUME NEW busy, NEW k
  PROVE  LastingIn(GraftTimers(busy, k)) = {}
BY DEF LastingIn, GraftTimers, Lasting

LEMMA CheckPimStateLife ==
  ASSUME NEW m \in [SG -> MrtEntry], NEW pending, NEW batch, NEW judge,
         check_pim_state(m, pending, batch, judge),
         \A s \in SG : SameLife(m[s], mrt[s])
  PROVE  /\ LastingIn(timers') \subseteq pending
         /\ \A s \in SG : SameLife(mrt'[s], mrt[s])
<1>1. \A s \in SG : SameLife(mrt'[s], m[s])
  BY CallsType, GraftedMfc DEF check_pim_state, SameLife
<1>2. \E k : timers' = pending \union GraftTimers(pending \union batch, k)
  BY DEF check_pim_state
<1>3. LastingIn(timers') \subseteq pending
  BY <1>2, LastingGraft DEF LastingIn
<1> QED BY <1>1, <1>3 DEF SameLife

LEMMA MemberUntouched ==
  ASSUME TypeOK, NEW v \in Vif, NEW g \in Group, Member(v, g)
  PROVE  Untouched
<1> DEFINE sg == find_sg_group(g)
<1>0. expired' = expired /\ themrt' = themrt /\ mrt \in [SG -> MrtEntry]
  BY DEF Member, add_leaf, del_leaf, tables, TypeOK
<1>1. CASE OfGroup(g) = {}
  <2>1. UNCHANGED <<tables, timers>>
    BY <1>1 DEF Member, add_leaf, del_leaf
  <2> QED BY <1>0, <2>1 DEF tables, Untouched, SameLife, LastingIn
<1>2. CASE OfGroup(g) # {} /\ add_leaf(v, g)
  <2> DEFINE m == [mrt EXCEPT ![sg] = Counted(@, v)]
  <2>1. check_pim_state(m, timers, expired, "ADD_LEAF")
    BY <1>2 DEF add_leaf
  <2>2. m \in [SG -> MrtEntry] /\ \A s \in SG : m[s] \in {mrt[s], Counted(mrt[s], v)}
    BY <1>0, UpdateType
  <2> HIDE DEF m
  <2>3. \A s \in SG : SameLife(m[s], mrt[s])
    BY <1>0, <2>2, UpdateNames DEF SameNames, SameLife
  <2> QED BY <1>0, <2>1, <2>2, <2>3, CheckPimStateLife DEF Untouched
<1>3. CASE OfGroup(g) # {} /\ del_leaf(v, g)
  <2> DEFINE m == [mrt EXCEPT ![sg] = Discounted(@, v)]
  <2>1. check_pim_state(m, timers, expired, "DEL_LEAF")
    BY <1>3 DEF del_leaf
  <2>2. m \in [SG -> MrtEntry] /\ \A s \in SG : m[s] \in {mrt[s], Discounted(mrt[s], v)}
    BY <1>0, UpdateType
  <2> HIDE DEF m
  <2>3. \A s \in SG : SameLife(m[s], mrt[s])
    BY <1>0, <2>2, UpdateNames DEF SameNames, SameLife
  <2> QED BY <1>0, <2>1, <2>2, <2>3, CheckPimStateLife DEF Untouched
<1> QED BY <1>1, <1>2, <1>3 DEF Member

LEMMA NeighbourUntouched ==
  ASSUME TypeOK, NEW v \in Vif, Neighbour(v)
  PROVE  Untouched
<1>0. \A s \in SG : mrt[s] \in MrtEntry
  BY DEF TypeOK
<1>1. CASE AddNeighbor(v)
  <2>1. /\ CanGraft(timers \union expired, GraftCalls(v))
        /\ mrt' = Grafted(Opened(v), timers \union expired, GraftCalls(v))
        /\ timers' = timers \union GraftTimers(timers \union expired, GraftCalls(v))
        /\ expired' = expired /\ themrt' = themrt
    BY <1>1 DEF AddNeighbor, refresh_mrt_ADD
  <2>2. Opened(v) \in [SG -> MrtEntry] /\ GraftCalls(v) \in [SG -> Nat]
    BY UpdateType, GraftCallsType DEF Opened, TypeOK
  <2>3. \A s \in SG : SameLife(mrt'[s], Opened(v)[s])
    BY <2>1, <2>2, GraftedMfc DEF SameLife
  <2>4. \A s \in SG : Opened(v)[s] \in {mrt[s], Counted(mrt[s], v)}
    BY DEF Opened
  <2>5. \A s \in SG : SameLife(mrt'[s], mrt[s])
    BY <1>0, <2>3, <2>4, UpdateNames DEF SameNames, SameLife
  <2>6. LastingIn(timers') \subseteq timers
    BY <2>1, LastingGraft DEF LastingIn
  <2> QED BY <2>1, <2>5, <2>6 DEF Untouched
<1>2. CASE Goodbye(v) \/ NeighborTimesOut(v)
  <2>1. UNCHANGED <<themrt, timers, expired>> /\ refresh_mrt_DEL(v)
    BY <1>2 DEF Goodbye, NeighborTimesOut, delete_pim_neighbor
  <2>2. \A s \in SG : mrt'[s] \in {mrt[s], Discounted(mrt[s], v)}
    BY <2>1 DEF refresh_mrt_DEL, Closed, TypeOK
  <2>3. \A s \in SG : SameLife(mrt'[s], mrt[s])
    BY <1>0, <2>2, UpdateNames DEF SameNames, SameLife
  <2> QED BY <2>1, <2>3 DEF Untouched, LastingIn
<1> QED BY <1>1, <1>2 DEF Neighbour

LEMMA FieldLife ==
  ASSUME NEW m \in [SG -> MrtEntry], NEW sg \in SG, NEW id, NEW v, NEW out,
         NEW s \in SG
  PROVE  /\ SameLife([m EXCEPT ![sg].join_delay_timer_id = id][s], m[s])
         /\ SameLife([m EXCEPT ![sg].prune_delay_timer_id[v] = id][s], m[s])
         /\ SameLife([m EXCEPT ![sg].outvif[v] = out][s], m[s])
         /\ SameLife([m EXCEPT ![sg] = Decided(@, v, out)][s], m[s])
         /\ SameLife([m EXCEPT ![sg].graft_timer_id = id][s], m[s])
         /\ SameLife([m EXCEPT ![sg].upstream = id][s], m[s])
<1>0. m[s] \in MrtEntry /\ m[sg] \in MrtEntry
  OBVIOUS
<1>1. SameLife([m EXCEPT ![sg].graft_timer_id = id][s], m[s])
  BY <1>0 DEF SameLife, MrtEntry
<1>2. SameLife([m EXCEPT ![sg].upstream = id][s], m[s])
  BY <1>0 DEF SameLife, MrtEntry
<1>3. SameLife([m EXCEPT ![sg].join_delay_timer_id = id][s], m[s])
  BY <1>0 DEF SameLife, MrtEntry
<1>4. SameLife([m EXCEPT ![sg].prune_delay_timer_id[v] = id][s], m[s])
  BY <1>0 DEF SameLife, MrtEntry
<1>5. SameLife([m EXCEPT ![sg].outvif[v] = out][s], m[s])
  BY <1>0 DEF SameLife, MrtEntry
<1>6. SameLife([m EXCEPT ![sg] = Decided(@, v, out)][s], m[s])
  BY <1>0, UpdateNames DEF SameNames, SameLife
<1> QED BY <1>1, <1>2, <1>3, <1>4, <1>5, <1>6

LEMMA OtherTimer ==
  ASSUME NEW pending, NEW f, f \notin Lasting, NEW sg, NEW v
  PROVE  LastingIn(pending \union {NewTimer(pending, f, sg, v)}) \subseteq pending
BY DEF LastingIn, NewTimer

LEMMA PacketUntouched ==
  ASSUME TypeOK, NEW v, NEW sg \in SG,
         PimPacket(v, sg) \/ PimPacketUpstream(sg)
  PROVE  Untouched
<1>0. mrt \in [SG -> MrtEntry]
  BY DEF TypeOK
<1>1. themrt' = themrt /\ expired' = expired
  BY DEF PimPacket, PimPacketUpstream, OverheardJoin, OverheardPrune, RecvJoin,
         RecvPrune, RecvGraft, AssertDownstream, RecvGraftAck, AssertUpstream,
         Packet
<1>2. LastingIn(timers') \subseteq timers
  <2>1. \/ timers' \subseteq timers
        \/ \E f \in {"send_join", "set_prune", "active_forward"} : \E w :
             timers' = timers \union {NewTimer(timers, f, sg, w)}
    BY DEF PimPacket, PimPacketUpstream, OverheardJoin, OverheardPrune,
           RecvJoin, RecvPrune, RecvGraft, AssertDownstream, RecvGraftAck,
           AssertUpstream, Cleared
  <2>2. \A f \in {"send_join", "set_prune", "active_forward"} : f \notin Lasting
    BY DEF Lasting
  <2> QED BY <2>1, <2>2, OtherTimer DEF LastingIn
<1>3. ASSUME NEW s \in SG PROVE SameLife(mrt'[s], mrt[s])
  <2>1. CASE mrt' = mrt
    BY <2>1 DEF SameLife
  <2>2. CASE \E id : mrt' = [mrt EXCEPT ![sg].join_delay_timer_id = id]
    BY <1>0, <2>2, FieldLife
  <2>3. CASE \E id : mrt' = [mrt EXCEPT ![sg].prune_delay_timer_id[v] = id]
    BY <1>0, <2>3, FieldLife
  <2>4. CASE mrt' = [mrt EXCEPT ![sg] = Decided(@, v, 1)]
    <3>1. SameLife([mrt EXCEPT ![sg] = Decided(@, v, 1)][s], mrt[s])
      BY <1>0, FieldLife
    <3> QED BY <2>4, <3>1
  <2>5. CASE mrt' = [mrt EXCEPT ![sg].graft_timer_id = NoId]
    BY <1>0, <2>5, FieldLife
  <2>6. CASE mrt' = [mrt EXCEPT ![sg].upstream = sg[1]]
    BY <1>0, <2>6, FieldLife
  <2> QED BY <2>1, <2>2, <2>3, <2>4, <2>5, <2>6
          DEF PimPacket, PimPacketUpstream, OverheardJoin, OverheardPrune,
              RecvJoin, RecvPrune, RecvGraft, AssertDownstream, RecvGraftAck,
              AssertUpstream
<1> QED BY <1>1, <1>2, <1>3 DEF Untouched

LEMMA TimerStepUntouched ==
  ASSUME TypeOK, NEW t \in expired, TimerRuns(t)
  PROVE  \/ Untouched
         \/ handle_sg_timeout(t)
         \/ \E busy \in BOOLEAN : check_sg(t, busy)
<1>0. mrt \in [SG -> MrtEntry] /\ t.sg \in SG /\ Rest(t) \subseteq expired
  BY DEF TypeOK, Timer, Rest
<1>1. CASE NoEntry(t) \/ check_sg_gone(t)
  BY <1>0, <1>1 DEF NoEntry, check_sg_gone, tables, Untouched, SameLife, LastingIn
<1>2. CASE send_join(t)
  <2>1. /\ themrt' = themrt /\ expired' = Rest(t) /\ timers' \subseteq timers
        /\ mrt' = [mrt EXCEPT ![t.sg].join_delay_timer_id = NoId]
    BY <1>2 DEF send_join, Cleared
  <2>2. \A s \in SG : SameLife(mrt'[s], mrt[s])
    BY <1>0, <2>1, FieldLife
  <2> QED BY <1>0, <2>1, <2>2 DEF Untouched, LastingIn
<1>3. ASSUME NEW m \in [SG -> MrtEntry], NEW pending, NEW judge,
             check_pim_state(m, pending, Rest(t), judge),
             LastingIn(pending) \subseteq timers,
             \A s \in SG : SameLife(m[s], mrt[s]),
             themrt' = themrt, expired' = Rest(t)
      PROVE  Untouched
  <2>1. /\ LastingIn(timers') \subseteq pending
        /\ \A s \in SG : SameLife(mrt'[s], mrt[s])
    BY <1>3, CheckPimStateLife
  <2>2. LastingIn(timers') \subseteq timers
    BY <1>3, <2>1 DEF LastingIn
  <2> QED BY <1>0, <1>3, <2>1, <2>2 DEF Untouched
<1>4. CASE set_prune(t)
  <2> DEFINE m == [mrt EXCEPT ![t.sg] = Decided(@, t.vif, 0)]
             again == NewTimer(timers \union Rest(t), "prune_time_out",
                               t.sg, t.vif)
  <2>1. /\ check_pim_state(m, timers \union {again}, Rest(t), "DEL_LEAF")
        /\ themrt' = themrt /\ expired' = Rest(t)
    BY <1>4 DEF set_prune
  <2>2. m \in [SG -> MrtEntry]
    BY <1>0, UpdateType
  <2>3. \A s \in SG : SameLife(m[s], mrt[s])
    BY <1>0, FieldLife
  <2>4. LastingIn(timers \union {again}) \subseteq timers
    BY DEF LastingIn, NewTimer, Lasting
  <2> HIDE DEF m, again
  <2> QED BY <1>3, <2>1, <2>2, <2>3, <2>4
<1>5. CASE prune_time_out(t)
  <2> DEFINE m == [mrt EXCEPT ![t.sg].outvif[t.vif] = 1]
  <2>1. /\ check_pim_state(m, timers, Rest(t), "ADD_LEAF")
        /\ themrt' = themrt /\ expired' = Rest(t)
    BY <1>5 DEF prune_time_out
  <2>2. m \in [SG -> MrtEntry]
    <3>1. 0 \in TimerId
      BY MrtAssumption DEF TimerId
    <3> QED BY <1>0, <3>1, FieldType
  <2>3. \A s \in SG : SameLife(m[s], mrt[s])
    BY <1>0, FieldLife
  <2>4. LastingIn(timers) \subseteq timers
    BY DEF LastingIn
  <2> HIDE DEF m
  <2> QED BY <1>3, <2>1, <2>2, <2>3, <2>4
<1>6. CASE active_forward(t)
  <2>1. /\ check_pim_state(mrt, timers, Rest(t), "ADD_LEAF")
        /\ themrt' = themrt /\ expired' = Rest(t)
    BY <1>6 DEF active_forward
  <2>2. LastingIn(timers) \subseteq timers /\ \A s \in SG : SameLife(mrt[s], mrt[s])
    BY DEF LastingIn, SameLife
  <2> QED BY <1>0, <1>3, <2>1, <2>2
<1>7. CASE plan_graft(t)
  <2> DEFINE k == Calls(IF Attached(mrt, t.sg) THEN {} ELSE {t.sg})
             busy == timers \union Rest(t)
  <2>1. /\ CanGraft(busy, k) /\ mrt' = Grafted(mrt, busy, k)
        /\ timers' = timers \union GraftTimers(busy, k)
        /\ themrt' = themrt /\ expired' = Rest(t)
    BY <1>7 DEF plan_graft
  <2>2. k \in [SG -> Nat]
    BY CallsType
  <2> HIDE DEF k, busy
  <2>3. \A s \in SG : SameLife(mrt'[s], mrt[s])
    BY <1>0, <2>1, <2>2, GraftedMfc DEF SameLife
  <2>4. LastingIn(timers') \subseteq timers
    BY <2>1, LastingGraft DEF LastingIn
  <2> QED BY <1>0, <2>1, <2>3, <2>4 DEF Untouched
<1>8. CASE plan_graft_unlinked(t)
  <2>1. /\ UNCHANGED tables /\ expired' = Rest(t)
        /\ \/ timers' = timers
           \/ timers' = timers \union
                {[NewTimer(timers \union Rest(t), "plan_graft", t.sg, 0)
                    EXCEPT !.old = t.old]}
    BY <1>8 DEF plan_graft_unlinked
  <2>2. LastingIn(timers') \subseteq timers
    BY <2>1 DEF LastingIn, NewTimer, Lasting
  <2> QED BY <1>0, <2>1, <2>2 DEF Untouched, tables, SameLife
<1> QED BY <1>1, <1>2, <1>4, <1>5, <1>6, <1>7, <1>8 DEF TimerRuns

LEMMA NewTimerIsNew ==
  ASSUME NEW pending, NEW f, NEW sg, NEW v, CanSet(pending, f, sg, v)
  PROVE  NewTimer(pending, f, sg, v) \notin pending
<1>1. NewId(pending, f, sg, v) \in FreeIds(pending, f, sg, v)
  BY DEF CanSet, NewId
<1>2. \A x \in pending :
        ~(/\ Slot(x.func) = Slot(f) /\ x.sg = sg /\ x.vif = v
          /\ x.n = NewId(pending, f, sg, v))
  BY <1>1 DEF FreeIds
<1>3. /\ NewTimer(pending, f, sg, v).func = f
      /\ NewTimer(pending, f, sg, v).sg = sg
      /\ NewTimer(pending, f, sg, v).vif = v
      /\ NewTimer(pending, f, sg, v).n = NewId(pending, f, sg, v)
  BY DEF NewTimer
<1> QED BY <1>2, <1>3

LEMMA UnlinkedLasting ==
  ASSUME NEW S \in SUBSET Timer, NEW sg, NEW x \in Unlinked(S, sg),
         x.func \in Lasting
  PROVE  x \in S
<1>1. PICK y \in S : x = IF y.func = "plan_graft" /\ y.sg = sg /\ y.old = 0
                         THEN [y EXCEPT !.old = Upstream(mrt, sg)] ELSE y
  BY DEF Unlinked
<1>2. y.func # "plan_graft"
  <2>1. [y EXCEPT !.old = Upstream(mrt, sg)].func = y.func
    BY DEF Timer
  <2> QED BY <1>1, <2>1 DEF Lasting
<1> QED BY <1>1, <1>2

(* The steps that start, put off and end an entry.                         *)
LEMMA UpcallKeeps ==
  ASSUME TypeOK, ListedOnce, Plain, NEW sg \in SG, Upcall(sg)
  PROVE  KeepsOwn
<1>1. ASSUME NEW stale \in StaleWords, NoCacheUpcall(sg, stale)
      PROVE  KeepsOwn
  <2> DEFINE m == [mrt EXCEPT ![sg] = NewEntry(sg, stale)]
             remote == IF Attached(m, sg) THEN {} ELSE {sg}
             grafts == IF m[sg].outnumber # 0 THEN remote ELSE {}
             fresh == {NewTimer(timers, "handle_sg_timeout", sg, 0),
                       NewTimer(timers, "check_sg", sg, 0)}
  <2>1. /\ themrt' = <<sg>> \o themrt
        /\ mrt' = Grafted(m, timers, Calls(grafts))
        /\ CanSet(timers, "handle_sg_timeout", sg, 0)
        /\ CanSet(timers, "check_sg", sg, 0)
        /\ CanGraft(timers, Calls(grafts))
        /\ timers' = timers \union fresh \union GraftTimers(timers, Calls(grafts))
        /\ expired' = expired /\ expired = {}
        /\ ~InTable(sg)
    BY <1>1 DEF NoCacheUpcall, add_sg, Idle
  <2>2. m \in [SG -> MrtEntry]
    BY <2>1, NewEntryType DEF TypeOK
  <2>3. \A s \in SG : s # sg => m[s] = mrt[s]
    BY DEF TypeOK
  <2>4. \A x \in fresh :
          /\ x.func \in Lasting /\ x.sg = sg
          /\ x = Armed(x.func, sg, IF x.func = "check_sg"
                                   THEN m[sg].check_timerid
                                   ELSE m[sg].timeout_id)
    <3>1. m[sg] = NewEntry(sg, stale)
      BY DEF TypeOK
    <3>2. /\ NewEntry(sg, stale).timeout_id =
               NewId(timers, "handle_sg_timeout", sg, 0)
          /\ NewEntry(sg, stale).check_timerid =
               NewId(timers, "check_sg", sg, 0)
      BY DEF NewEntry, Blank
    <3> HIDE DEF m
    <3> QED BY <3>1, <3>2 DEF NewTimer, Armed, Lasting
  <2> HIDE DEF m, grafts, remote, fresh
  <2>5. \A s : InTable(s)' <=> InTable(s) \/ s = sg
    BY <2>1, ListedOnceAdded DEF TypeOK
  <2>6. \A s \in SG : SameLife(mrt'[s], m[s])
    <3>1. Calls(grafts) \in [SG -> Nat]
      BY CallsType
    <3> DEFINE k == Calls(grafts)
    <3>2. k \in [SG -> Nat] /\ CanGraft(timers, k) /\ mrt' = Grafted(m, timers, k)
      BY <2>1, <3>1
    <3> HIDE DEF k
    <3> QED BY <2>2, <3>2, GraftedLife
  <2>7. \A x \in LastingIn(Outstanding)' : x \in LastingIn(timers) \/ x \in fresh
    BY <2>1, LastingGraft DEF LastingIn, Outstanding
  <2>8. Plain'
    <3>1. \A x \in LastingIn(timers) : x = Armed(x.func, x.sg, x.n)
      BY DEF Plain, LastingIn, Outstanding
    <3>2. \A x \in fresh : x = Armed(x.func, x.sg, x.n)
      BY <2>4 DEF Armed
    <3>3. LastingIn(expired)' = {}
      BY <2>1 DEF LastingIn
    <3> QED BY <2>7, <3>1, <3>2, <3>3 DEF Plain
  <2>9. ASSUME NEW s \in SG, AllNamed(s), NEW x \in LastingIn(Outstanding)',
               x.sg = s
        PROVE  InTable(s)' /\ Named(x)'
    <3>1. CASE x \in fresh
      BY <2>4, <2>5, <2>6, <2>9, <3>1 DEF Named, SameLife
    <3>2. CASE x \in LastingIn(timers)
      <4>1. InTable(s) /\ Named(x)
        BY <2>9, <3>2 DEF AllNamed, LastingIn, Outstanding
      <4>2. SameLife(mrt'[s], mrt[s])
        BY <2>1, <2>3, <2>6, <4>1
      <4> QED BY <2>5, <2>9, <4>1, <4>2 DEF Named, SameLife
    <3> QED BY <2>7, <2>9, <3>1, <3>2
  <2>10. \A s \in SG : AllNamed(s) => AllNamed(s)'
    BY <2>9 DEF AllNamed
  <2> QED BY <2>8, <2>10 DEF KeepsOwn
<1>2. ASSUME NEW v \in Vif, WrongVifUpcall(sg, v) PROVE KeepsOwn
  BY <1>2, UntouchedKeeps
     DEF WrongVifUpcall, Packet, tables, Untouched, SameLife, LastingIn
<1> QED BY <1>1, <1>2 DEF Upcall

LEMMA ExpireKeeps ==
  ASSUME Plain, NEW S \in SUBSET timers, Expire(S)
  PROVE  KeepsOwn
<1>1. /\ UNCHANGED tables /\ expired = {}
      /\ expired' = S /\ timers' = timers \ S
  BY DEF Expire, Idle
<1>2. Outstanding' = Outstanding
  BY <1>1 DEF Outstanding
<1>3. \A x : Named(x)' <=> Named(x)
  BY <1>1 DEF Named, tables
<1>4. \A s : InTable(s)' <=> InTable(s)
  BY <1>1 DEF InTable, tables
<1>5. Plain'
  BY <1>1, <1>2 DEF Plain, LastingIn
<1>6. \A s \in SG : AllNamed(s) => AllNamed(s)'
  BY <1>2, <1>3, <1>4 DEF AllNamed, LastingIn
<1> QED BY <1>5, <1>6 DEF KeepsOwn

(* The timeout of an entry clears the check the entry names, unless that   *)
(* has expired with it.                                                    *)
LEMMA TimeoutKeeps ==
  ASSUME TypeOK, ListedOnce, Plain, NEW t \in expired, handle_sg_timeout(t)
  PROVE  KeepsOwn
<1> DEFINE cleared == Cleared(timers, "check_sg", t.sg, 0,
                              mrt[t.sg].check_timerid)
<1>0. t \in Timer /\ t.sg \in SG
  BY DEF TypeOK, Timer
<1>1. /\ InTable(t.sg) /\ t.func = "handle_sg_timeout"
      /\ themrt' = SubSeq(themrt, 1, Position(t.sg) - 1) \o
                     SubSeq(themrt, Position(t.sg) + 1, Len(themrt))
      /\ mrt' = [mrt EXCEPT ![t.sg] = Blank(t.sg)]
      /\ timers' = Unlinked(cleared, t.sg)
      /\ expired' = Unlinked(Rest(t), t.sg)
  BY DEF handle_sg_timeout, Runs, TimersLeft
<1>2. \A s : InTable(s)' <=> InTable(s) /\ s # t.sg
  BY <1>0, <1>1, ListedOnceDeleted DEF TypeOK
<1>3. /\ cleared \subseteq timers /\ Rest(t) \subseteq expired
      /\ cleared \in SUBSET Timer /\ Rest(t) \in SUBSET Timer
  BY DEF Cleared, Rest, TypeOK
<1>4. /\ \A x \in LastingIn(timers') : x \in cleared
      /\ \A x \in LastingIn(expired') : x \in Rest(t)
  <2> HIDE DEF cleared
  <2> QED BY <1>1, <1>3, UnlinkedLasting DEF LastingIn
<1>5. \A x \in LastingIn(Outstanding)' :
        /\ x \in LastingIn(Outstanding)
        /\ x \in cleared \/ (x \in Rest(t) /\ x \in expired')
  <2> HIDE DEF cleared
  <2> QED BY <1>3, <1>4 DEF LastingIn, Outstanding
<1>6. Plain'
  <2>1. \A x \in LastingIn(Outstanding)' : x = Armed(x.func, x.sg, x.n)
    BY <1>5 DEF Plain
  <2>2. ASSUME NEW x \in LastingIn(expired)' PROVE x \notin timers'
    <3>1. x \in LastingIn(expired) /\ x.func \in Lasting
      BY <1>3, <1>4, <2>2 DEF LastingIn
    <3> HIDE DEF cleared
    <3> QED BY <1>3, <1>4, <3>1 DEF Plain, LastingIn
  <2> QED BY <2>1, <2>2 DEF Plain
<1>7. t \in LastingIn(Outstanding) /\ t \in LastingIn(expired)
  BY <1>1 DEF LastingIn, Outstanding, Lasting
<1>8. t \notin timers /\ t \notin expired'
  <2>1. t \notin timers
    BY <1>7 DEF Plain
  <2>2. t \notin expired'
    BY <1>4, <1>7 DEF LastingIn, Rest
  <2> QED BY <2>1, <2>2
<1>9. ASSUME NEW s \in SG, AllNamed(s), ~RanTogether(s),
             NEW x \in LastingIn(Outstanding)', x.sg = s
      PROVE  InTable(s)' /\ Named(x)'
  <2>1. InTable(s) /\ Named(x)
    BY <1>5, <1>9 DEF AllNamed
  <2>2. s # t.sg
    <3>1. SUFFICES ASSUME s = t.sg PROVE FALSE
      OBVIOUS
    <3>2. x.func \in Lasting
      BY <1>9 DEF LastingIn
    <3>3. CASE x.func = "handle_sg_timeout"
      <4>1. Named(t)
        BY <1>7, <1>9, <3>1 DEF AllNamed
      <4>2. x = t
        BY <1>1, <1>9, <2>1, <3>1, <3>3, <4>1 DEF Named
      <4> HIDE DEF cleared
      <4> QED BY <1>3, <1>5, <1>8, <1>9, <4>2 DEF Rest
    <3>4. CASE x.func = "check_sg" /\ x \in cleared
      <4>1. x = Armed("check_sg", t.sg, mrt[t.sg].check_timerid)
        BY <1>9, <2>1, <3>1, <3>4 DEF Named
      <4>2. /\ Slot(x.func) = Slot("check_sg") /\ x.sg = t.sg /\ x.vif = 0
            /\ x.n = mrt[t.sg].check_timerid /\ x.old = 0
        BY <4>1 DEF Armed
      <4> QED BY <3>4, <4>2 DEF Cleared
    <3>5. CASE x.func = "check_sg" /\ x \in expired'
      <4>1. t \in expired \ expired' /\ {t.func, x.func} = {"check_sg", "handle_sg_timeout"}
        BY <1>1, <1>8, <3>5
      <4>2. RanTogether(s)
        BY <1>9, <3>1, <3>5, <4>1 DEF RanTogether
      <4> QED BY <1>9, <4>2
    <3> HIDE DEF cleared
    <3> QED BY <1>5, <1>9, <3>2, <3>3, <3>4, <3>5 DEF Lasting
  <2>3. mrt'[s] = mrt[s]
    BY <1>1, <2>2 DEF TypeOK
  <2> QED BY <1>2, <1>9, <2>1, <2>2, <2>3 DEF Named
<1>10. \A s \in SG : AllNamed(s) => AllNamed(s)' \/ RanTogether(s)
  BY <1>9 DEF AllNamed
<1> QED BY <1>6, <1>10 DEF KeepsOwn

(* The check of an entry replaces itself, and a busy entry's timeout       *)
(* unless that has expired with it.                                        *)
LEMMA CheckKeeps ==
  ASSUME TypeOK, Plain, NEW t \in expired,
         NEW busy \in BOOLEAN, check_sg(t, busy)
  PROVE  KeepsOwn
<1> DEFINE lasting == IF busy
                      THEN Cleared(timers, "handle_sg_timeout", t.sg, 0,
                                   mrt[t.sg].timeout_id)
                      ELSE timers
           kept == Cleared(lasting, "check_sg", t.sg, 0,
                           mrt[t.sg].check_timerid)
           pending == kept \union Rest(t)
           toid == IF busy
                   THEN NewId(pending, "handle_sg_timeout", t.sg, 0)
                   ELSE mrt[t.sg].timeout_id
           chid == NewId(pending, "check_sg", t.sg, 0)
           fresh == {NewTimer(pending, f, t.sg, 0) : f \in Rearmed(busy)}
<1>0. t.sg \in SG /\ mrt \in [SG -> MrtEntry] /\ mrt[t.sg] \in MrtEntry
  BY DEF TypeOK, Timer
<1>1. /\ timers' = kept \union fresh
      /\ \A f \in Rearmed(busy) : CanSet(pending, f, t.sg, 0)
      /\ mrt' = [mrt EXCEPT ![t.sg].timeout_id = toid,
                            ![t.sg].check_timerid = chid]
      /\ themrt' = themrt /\ expired' = Rest(t)
      /\ t.func = "check_sg" /\ InTable(t.sg)
  BY DEF check_sg, Runs
<1>2. Rest(t) \subseteq expired /\ t \notin Rest(t) /\ kept \subseteq timers
  BY DEF Rest, Cleared
<1>3. /\ mrt'[t.sg] = [mrt[t.sg] EXCEPT !.timeout_id = toid,
                                        !.check_timerid = chid]
      /\ \A s \in SG : s # t.sg => mrt'[s] = mrt[s]
  <2> HIDE DEF toid, chid
  <2> QED BY <1>0, <1>1
<1>4. /\ mrt'[t.sg].timeout_id = toid
      /\ mrt'[t.sg].check_timerid = chid
  <2> HIDE DEF toid, chid
  <2> QED BY <1>0, <1>3 DEF MrtEntry
<1>5. \A s : InTable(s)' <=> InTable(s)
  BY <1>1 DEF InTable
<1>6. t \in LastingIn(Outstanding) /\ t \in LastingIn(expired)
  BY <1>1 DEF LastingIn, Outstanding, Lasting
<1>7. t \notin timers
  BY <1>6 DEF Plain
<1>8. \A x \in fresh :
        /\ x.func \in Rearmed(busy) /\ x.sg = t.sg /\ x \notin pending
        /\ x = Armed(x.func, t.sg, NewId(pending, x.func, t.sg, 0))
        /\ x = Armed(x.func, x.sg, x.n)
  <2> HIDE DEF pending
  <2> SUFFICES ASSUME NEW f \in Rearmed(busy), NEW x,
                      x = NewTimer(pending, f, t.sg, 0)
               PROVE  /\ x.func \in Rearmed(busy) /\ x.sg = t.sg
                      /\ x \notin pending
                      /\ x = Armed(x.func, t.sg,
                                   NewId(pending, x.func, t.sg, 0))
                      /\ x = Armed(x.func, x.sg, x.n)
    OBVIOUS
  <2>1. x \notin pending
    BY <1>1, NewTimerIsNew
  <2>2. x.func = f /\ x.sg = t.sg /\ x.n = NewId(pending, f, t.sg, 0)
    BY DEF NewTimer
  <2>3. x = Armed(f, t.sg, NewId(pending, f, t.sg, 0))
    BY DEF NewTimer, Armed
  <2> QED BY <2>1, <2>2, <2>3
<1>9. \A x \in LastingIn(Outstanding)' :
        /\ x \in kept \/ x \in fresh \/ x \in Rest(t)
        /\ x \notin fresh => x \in LastingIn(Outstanding)
        /\ x.func \in Lasting
  <2> HIDE DEF kept, fresh
  <2> QED BY <1>1, <1>2 DEF LastingIn, Outstanding
<1>10. Plain'
  <2>1. \A x \in LastingIn(Outstanding)' : x = Armed(x.func, x.sg, x.n)
    <3> HIDE DEF kept, fresh
    <3> QED BY <1>8, <1>9 DEF Plain
  <2>2. ASSUME NEW x \in LastingIn(expired)' PROVE x \notin timers'
    <3>1. x \in LastingIn(expired) /\ x \in Rest(t)
      BY <1>1, <1>2, <2>2 DEF LastingIn
    <3>2. x \notin timers
      BY <3>1 DEF Plain
    <3>3. x \in pending
      BY <3>1
    <3> HIDE DEF kept, fresh, pending
    <3> QED BY <1>1, <1>2, <1>8, <3>2, <3>3
  <2> QED BY <2>1, <2>2 DEF Plain
<1>11. ASSUME NEW x \in kept, busy, x.func = "handle_sg_timeout", x.sg = t.sg
       PROVE  ~Named(x)
  <2>1. x \in Cleared(timers, "handle_sg_timeout", t.sg, 0, mrt[t.sg].timeout_id)
    BY <1>11 DEF Cleared
  <2>2. SUFFICES ASSUME Named(x) PROVE FALSE
    OBVIOUS
  <2>3. x = Armed("handle_sg_timeout", t.sg, mrt[t.sg].timeout_id)
    BY <1>11, <2>2 DEF Named
  <2>4. /\ Slot(x.func) = Slot("handle_sg_timeout") /\ x.sg = t.sg /\ x.vif = 0
        /\ x.n = mrt[t.sg].timeout_id /\ x.old = 0
    BY <2>3 DEF Armed
  <2> QED BY <2>1, <2>4 DEF Cleared
<1>12. ASSUME NEW s \in SG, AllNamed(s), ~RanTogether(s),
              NEW x \in LastingIn(Outstanding)', x.sg = s
       PROVE  InTable(s)' /\ Named(x)'
  <2>1. CASE x \in fresh
    <3>0. x.sg = t.sg /\ s = t.sg /\ x.func \in Rearmed(busy)
          /\ x = Armed(x.func, t.sg, NewId(pending, x.func, t.sg, 0))
      <4> HIDE DEF fresh, pending
      <4> QED BY <1>8, <1>12, <2>1
    <3>1. CASE x.func = "check_sg"
      <4> HIDE DEF fresh, pending
      <4> QED BY <1>1, <1>4, <1>5, <3>0, <3>1 DEF Named
    <3>2. CASE x.func = "handle_sg_timeout"
      <4>1. busy
        BY <3>0, <3>2 DEF Rearmed
      <4>2. toid = NewId(pending, "handle_sg_timeout", t.sg, 0)
        BY <4>1
      <4> HIDE DEF fresh, pending, toid
      <4> QED BY <1>1, <1>4, <1>5, <3>0, <3>2, <4>2 DEF Named
    <3> HIDE DEF fresh
    <3> QED BY <1>9, <1>12, <3>1, <3>2 DEF Lasting
  <2>2. CASE x \notin fresh
    <3>1. InTable(s) /\ Named(x) /\ (x \in kept \/ x \in Rest(t))
      <4> HIDE DEF kept, fresh
      <4> QED BY <1>9, <1>12, <2>2 DEF AllNamed
    <3>2. CASE s # t.sg
      BY <1>3, <1>5, <1>12, <3>1, <3>2 DEF Named
    <3>3. CASE s = t.sg /\ x.func = "check_sg"
      <4>1. Named(t)
        BY <1>6, <1>12, <3>3 DEF AllNamed
      <4>2. x = t
        BY <1>1, <1>12, <3>1, <3>3, <4>1 DEF Named
      <4> HIDE DEF kept
      <4> QED BY <1>2, <1>7, <3>1, <4>2
    <3>4. CASE s = t.sg /\ x.func = "handle_sg_timeout"
      <4>1. ~busy
        <5>1. SUFFICES ASSUME busy PROVE FALSE
          OBVIOUS
        <5>2. x \in Rest(t)
          BY <1>11, <1>12, <3>1, <3>4, <5>1
        <5>3. RanTogether(s)
          <6>1. t \in expired \ expired' /\ {t.func, x.func} = {"check_sg", "handle_sg_timeout"}
            BY <1>1, <1>2, <3>4
          <6>2. x \in expired' /\ t.sg = s /\ x.sg = s
            BY <1>1, <1>12, <3>4, <5>2
          <6> QED BY <6>1, <6>2 DEF RanTogether
        <5> QED BY <1>12, <5>3
      <4>2. mrt'[t.sg].timeout_id = mrt[t.sg].timeout_id
        BY <1>4, <4>1
      <4> HIDE DEF kept
      <4> QED BY <1>5, <1>12, <3>1, <3>4, <4>2 DEF Named
    <3> HIDE DEF kept, fresh
    <3> QED BY <1>9, <1>12, <3>2, <3>3, <3>4 DEF Lasting
  <2> HIDE DEF fresh
  <2> QED BY <2>1, <2>2
<1>13. \A s \in SG : AllNamed(s) => AllNamed(s)' \/ RanTogether(s)
  BY <1>12 DEF AllNamed
<1> QED BY <1>10, <1>13 DEF KeepsOwn

LEMMA NextKeeps ==
  ASSUME TypeOK, ListedOnce, Plain, [Next]_vars
  PROVE  KeepsOwn
<1>1. ASSUME NEW sg \in SG, Upcall(sg) PROVE KeepsOwn
  BY <1>1, UpcallKeeps
<1>2. ASSUME NEW sg \in SG, PimPacketUpstream(sg) PROVE KeepsOwn
  BY <1>2, PacketUntouched, UntouchedKeeps
<1>3. ASSUME NEW v \in HostVif, NEW g \in Group, Member(v, g) PROVE KeepsOwn
  BY <1>3, MrtAssumption, MemberUntouched, UntouchedKeeps
<1>4. ASSUME NEW v \in RouterVif, Neighbour(v) PROVE KeepsOwn
  BY <1>4, MrtAssumption, NeighbourUntouched, UntouchedKeeps
<1>5. ASSUME NEW v \in RouterVif, NEW sg \in SG, PimPacket(v, sg)
      PROVE  KeepsOwn
  BY <1>5, PacketUntouched, UntouchedKeeps
<1>6. ASSUME NEW S \in SUBSET timers, Expire(S) PROVE KeepsOwn
  BY <1>6, ExpireKeeps
<1>7. ASSUME NEW t \in expired, TimerRuns(t) PROVE KeepsOwn
  BY <1>7, TimerStepUntouched, UntouchedKeeps, TimeoutKeeps, CheckKeeps
<1>8. CASE UNCHANGED vars
  BY <1>8, UntouchedKeeps DEF vars, Untouched, SameLife, LastingIn
<1> QED BY <1>1, <1>2, <1>3, <1>4, <1>5, <1>6, <1>7, <1>8 DEF Next

LEMMA MrtPlain == Spec => []Plain
<1>1. Init => Plain
  BY DEF Init, Plain, LastingIn, Outstanding
<1>2. TypeOK /\ ListedOnce /\ Plain /\ [Next]_vars => Plain'
  BY NextKeeps DEF KeepsOwn
<1> QED BY <1>1, <1>2, MrtTypeCorrect, MrtKernel, PTL DEF Spec

(* Whatever number of timers a batch has, the timers of an entry are       *)
(* deleted and replaced with it: a second timeout or check, or one of a    *)
(* deleted entry, comes only from an entry's own timeout and check that    *)
(* expired together (mrt.c:50-58, mrt.c:88-115).                           *)
THEOREM MrtOneLifetime == Spec => OneLifetime
<1> DEFINE OneStep ==
      \A sg \in SG : LeftOver(sg) = {} /\ LeftOver(sg)' # {} => RanTogether(sg)
<1>a. \A sg \in SG : AllNamed(sg) => LeftOver(sg) = {}
  BY NamedIsNotLeft
<1>0. (\A sg \in SG : AllNamed(sg) => LeftOver(sg) = {})'
  BY <1>a, PTL
<1>1. ASSUME TypeOK, ListedOnce, Plain, [Next]_vars PROVE [OneStep]_vars
  <2> SUFFICES ASSUME NEW sg \in SG, LeftOver(sg) = {}, LeftOver(sg)' # {}
               PROVE  RanTogether(sg)
    OBVIOUS
  <2>1. AllNamed(sg)
    BY <1>1, NoneLeftOver
  <2>2. AllNamed(sg)' \/ RanTogether(sg)
    BY <1>1, <2>1, NextKeeps DEF KeepsOwn
  <2>3. AllNamed(sg)' => LeftOver(sg)' = {}
    BY <1>0
  <2> QED BY <2>2, <2>3
<1>2. TypeOK /\ ListedOnce /\ Plain /\ [Next]_vars
        => [\A sg \in SG :
              LeftOver(sg) = {} /\ LeftOver(sg)' # {} => RanTogether(sg)]_vars
  BY <1>1
<1> QED BY <1>2, MrtTypeCorrect, MrtKernel, MrtPlain, PTL DEF Spec, OneLifetime
=============================================================================
