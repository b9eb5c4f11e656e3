-------------------------- MODULE JoinPruneProofs ---------------------------
(***************************************************************************)
(* Join, Prune and Graft between routers.  For every packet, of any number *)
(* of groups and sources: what no cursor can do, which source of an        *)
(* acknowledgement is found, and which messages are understood as they     *)
(* were sent (Walk).  For any number of routers downstream and any seconds *)
(* with a Join's before those of a Prune: no router is cut off from a flow *)
(* that it wants (Subnet).                                                 *)
(***************************************************************************)
EXTENDS Walk, Subnet, SequenceTheorems, WellFoundedInduction,
        FiniteSetTheorems, TLAPS

Handled == [as : {"join", "prune"}, source : Nat \X Nat]

At(s) == SourceAt(s[1], s[2])

(* While sources are read, there are at most as many left as the group has *)
(* of them.                                                                *)
Counted ==
  /\ pc = "join" => group \in 1..Len(Groups) /\ number <= join_number(group)
  /\ pc = "prune" => group \in 1..Len(Groups) /\ number <= prune_number(group)

(* The cursor has passed every source that was handled, one after another. *)
Passed ==
  JoinPrune =>
    /\ \A n \in 1..Len(handled) :
         At(handled[n].source) \in Nat /\ At(handled[n].source) < mydata
    /\ \A m, n \in 1..Len(handled) :
         m < n => At(handled[m].source) < At(handled[n].source)

IInv == TypeOK /\ Counted /\ Passed

-----------------------------------------------------------------------------
LEMMA PacketTyped ==
  ASSUME TypeOK
  PROVE  /\ packet.type \in Type
         /\ Groups \in Seq(Group) /\ Len(Groups) \in Nat
  BY WalkAssumption DEF TypeOK, Groups

LEMMA GroupTyped ==
  ASSUME TypeOK, NEW g \in 1..Len(Groups)
  PROVE  /\ Groups[g] \in Group
         /\ Sources(g) \in Seq(Source) /\ Len(Sources(g)) \in Nat
         /\ join_number(g) \in Nat /\ prune_number(g) \in Nat
<1>1. Groups[g] \in Group
  BY PacketTyped
<1>2. /\ Groups[g].joins \in Seq(Source) /\ Groups[g].prunes \in Seq(Source)
      /\ Len(Groups[g].joins) \in Nat /\ Len(Groups[g].prunes) \in Nat
  BY <1>1 DEF Group
<1>3. Sources(g) \in Seq(Source)
  BY <1>2, ConcatProperties DEF Sources
<1>4. join_number(g) \in Nat /\ prune_number(g) \in Nat
  <2>1. \A n \in Nat : Swapped(n) \in Nat
    BY DEF Swapped
  <2> QED
    BY <1>2, <2>1 DEF join_number, prune_number
<1> QED
  BY <1>1, <1>3, <1>4

LEMMA HereTyped ==
  ASSUME TypeOK, NEW s \in SourcesHere
  PROVE  /\ s \in Nat \X Nat /\ s[1] \in 1..Len(Groups)
         /\ s[2] \in 1..Len(Sources(s[1]))
         /\ At(s) = mydata
         /\ Sources(s[1])[s[2]] \in Source
<1>1. PICK g \in 1..Len(Groups) :
        s \in {<<g, n>> : n \in {k \in 1..Len(Sources(g)) : SourceAt(g, k) = mydata}}
  BY DEF SourcesHere
<1>2. PICK n \in 1..Len(Sources(g)) : SourceAt(g, n) = mydata /\ s = <<g, n>>
  BY <1>1
<1>3. Sources(g) \in Seq(Source) /\ Len(Sources(g)) \in Nat /\ Len(Groups) \in Nat
  BY GroupTyped, PacketTyped
<1> QED
  BY <1>2, <1>3 DEF At

(* A source moves the cursor, in a Join/Prune.                             *)
LEMMA StepTyped ==
  ASSUME TypeOK, Counted, pc \in {"join", "prune"}, number > 0,
         NEW source \in Source
  PROVE  Step(source) \in Nat /\ (JoinPrune => Step(source) > 0)
<1>1. /\ join_number(group) \in Nat /\ prune_number(group) \in Nat
  BY GroupTyped DEF Counted
<1>2. join_number(group) + prune_number(group) > 0
  BY <1>1 DEF Counted, TypeOK
<1>3. /\ SOURCE * (join_number(group) + prune_number(group)) \in Nat
      /\ SOURCE * (join_number(group) + prune_number(group)) > 0
  BY <1>1, <1>2 DEF SOURCE
<1>4. CASE source = "unknown"
  BY <1>4 DEF Step, SOURCE
<1>5. CASE source # "unknown" /\ ~JoinPrune
  BY <1>5 DEF Step, JoinPrune
<1>6. CASE source # "unknown" /\ JoinPrune
  BY <1>3, <1>6 DEF Step, SOURCE
<1> QED
  BY <1>4, <1>5, <1>6

LEMMA AppendHandled ==
  ASSUME handled \in Seq(Handled), NEW x \in Handled
  PROVE  /\ Append(handled, x) \in Seq(Handled)
         /\ Len(Append(handled, x)) = Len(handled) + 1
         /\ Len(handled) \in Nat
         /\ \A k \in 1..Len(handled) : Append(handled, x)[k] = handled[k]
         /\ Append(handled, x)[Len(handled) + 1] = x
  BY AppendProperties

-----------------------------------------------------------------------------
LEMMA InitIInv == Init => IInv
<1> SUFFICES ASSUME Init PROVE IInv
  OBVIOUS
<1>1. Len(Groups) \in Nat
  BY WalkAssumption DEF Init, Groups
<1>2. handled \in Seq(Handled) /\ Len(handled) = 0
  BY EmptySeq DEF Init
<1>3. TypeOK
  <2>1. i \in 0..Len(Groups) /\ group \in 0..Len(Groups)
    BY <1>1 DEF Init
  <2>2. /\ packet \in Packet /\ mydata \in Nat /\ number \in Nat
        /\ pc \in {"group", "join", "prune", "done"} /\ astray \in BOOLEAN
    BY DEF Init
  <2> QED
    BY <1>2, <2>1, <2>2 DEF TypeOK, Handled
<1>4. Counted /\ Passed
  BY <1>2 DEF Init, Counted, Passed
<1> QED
  BY <1>3, <1>4 DEF IInv

LEMMA ReadGroupStep == IInv /\ ReadGroup => IInv'
<1> SUFFICES ASSUME IInv, ReadGroup PROVE IInv'
  OBVIOUS
<1>1. Groups' = Groups /\ packet' = packet /\ handled' = handled /\ Len(Groups) \in Nat
  BY PacketTyped DEF ReadGroup, Groups, IInv
<1>2. i' \in 0..Len(Groups)
  BY <1>1 DEF ReadGroup, MoreGroups, IInv, TypeOK
<1>3. ASSUME NEW g \in GroupsHere, group' = g, astray' = astray,
             \/ /\ mydata' = mydata + HEADER
                /\ pc' = "join" /\ number' = join_number(g)
             \/ /\ mydata' = mydata + HEADER
                               + SOURCE * (join_number(g) + prune_number(g))
                /\ pc' = pc /\ number' = number
      PROVE  IInv'
  <2>1. g \in 1..Len(Groups)
    BY DEF GroupsHere
  <2>2. join_number(g) \in Nat /\ prune_number(g) \in Nat
    BY <2>1, GroupTyped DEF IInv
  <2>3. mydata' \in Nat /\ mydata' >= mydata
    <3>1. SOURCE * (join_number(g) + prune_number(g)) \in Nat
      BY <2>2 DEF SOURCE
    <3> QED
      BY <1>3, <3>1 DEF HEADER, IInv, TypeOK
  <2>4. /\ pc' \in {"join", "group"} /\ number' \in Nat
        /\ pc' = "join" => number' = join_number(g)
    BY <1>3, <2>2 DEF ReadGroup, IInv, TypeOK
  <2>5. TypeOK'
    BY <1>1, <1>2, <1>3, <2>1, <2>3, <2>4 DEF IInv, TypeOK
  <2>6. Counted'
    <3>1. join_number(g)' = join_number(g)
      BY <1>1 DEF join_number
    <3> QED
      BY <1>1, <1>3, <2>1, <2>2, <2>4, <3>1 DEF Counted
  <2>7. Passed'
    <3>1. \A s : At(s)' = At(s)
      BY <1>1 DEF At, SourceAt, GroupAt, Sources
    <3> QED
      BY <1>1, <2>3, <3>1 DEF IInv, TypeOK, Passed, JoinPrune
  <2> QED
    BY <2>5, <2>6, <2>7 DEF IInv
<1>4. CASE GroupsHere = {} /\ astray' = TRUE
           /\ UNCHANGED <<mydata, group, pc, number>>
  <2>1. TypeOK'
    BY <1>1, <1>2, <1>4 DEF IInv, TypeOK
  <2>2. Counted'
    BY <1>4 DEF ReadGroup, Counted
  <2>3. Passed'
    <3>1. \A s : At(s)' = At(s)
      BY <1>1 DEF At, SourceAt, GroupAt, Sources
    <3> QED
      BY <1>1, <1>4, <3>1 DEF IInv, Passed, JoinPrune
  <2> QED
    BY <2>1, <2>2, <2>3 DEF IInv
<1> QED
  BY <1>3, <1>4 DEF ReadGroup

LEMMA ReadSourceStep == IInv /\ ReadSource => IInv'
<1> SUFFICES ASSUME IInv, ReadSource PROVE IInv'
  OBVIOUS
<1>1. /\ packet' = packet /\ i' = i /\ group' = group /\ pc' = pc
      /\ Groups' = Groups /\ number > 0 /\ number' = number - 1
      /\ number' \in Nat
  BY DEF ReadSource, Groups, IInv, TypeOK
<1>2. Counted'
  <2>1. join_number(group)' = join_number(group) /\ prune_number(group)' = prune_number(group)
    BY <1>1 DEF join_number, prune_number, JoinPrune
  <2>2. /\ pc = "join" => join_number(group) \in Nat
        /\ pc = "prune" => prune_number(group) \in Nat
    BY GroupTyped DEF IInv, Counted
  <2> QED
    BY <1>1, <2>1, <2>2 DEF IInv, Counted, TypeOK
<1>3. \A s : At(s)' = At(s)
  BY <1>1 DEF At, SourceAt, GroupAt, Sources
<1>4. ASSUME NEW s \in SourcesHere,
             handled' = Append(handled, [as |-> pc, source |-> s]),
             mydata' = mydata + Step(Sources(s[1])[s[2]]), astray' = astray
      PROVE  IInv'
  <2> DEFINE x == [as |-> pc, source |-> s]
  <2>1. s \in Nat \X Nat /\ At(s) = mydata /\ Sources(s[1])[s[2]] \in Source
    BY HereTyped DEF IInv
  <2>2. x \in Handled /\ x.source = s
    BY <2>1 DEF Handled, ReadSource
  <2>3. handled \in Seq(Handled) /\ handled' = Append(handled, x)
    BY <1>4 DEF IInv, TypeOK, Handled
  <2> HIDE DEF x
  <2>4. /\ handled' \in Seq(Handled) /\ Len(handled') = Len(handled) + 1
        /\ Len(handled) \in Nat
        /\ \A k \in 1..Len(handled) : handled'[k] = handled[k]
        /\ handled'[Len(handled) + 1] = x
    BY <2>2, <2>3, AppendHandled
  <2>5. mydata' \in Nat /\ mydata' >= mydata /\ (JoinPrune => mydata < mydata')
    <3> DEFINE d == Step(Sources(s[1])[s[2]])
    <3>1. d \in Nat /\ (JoinPrune => d > 0)
      BY <1>1, <2>1, StepTyped DEF IInv, ReadSource
    <3>2. mydata' = mydata + d
      BY <1>4
    <3> HIDE DEF d
    <3> QED
      BY <3>1, <3>2 DEF IInv, TypeOK
  <2>6. TypeOK'
    BY <1>1, <1>4, <2>4, <2>5 DEF IInv, TypeOK, Handled
  <2>7. Passed'
    <3> SUFFICES ASSUME JoinPrune
                 PROVE  /\ \A n \in 1..Len(handled') :
                             /\ At(handled'[n].source) \in Nat
                             /\ At(handled'[n].source) < mydata'
                        /\ \A m, n \in 1..Len(handled') :
                             m < n => At(handled'[m].source) < At(handled'[n].source)
      BY <1>1, <1>3 DEF Passed, JoinPrune
    <3>1. \A n \in 1..Len(handled') : n \in 1..Len(handled) \/ n = Len(handled) + 1
      BY <2>4
    <3>2. \A n \in 1..Len(handled) :
            At(handled'[n].source) \in Nat /\ At(handled'[n].source) < mydata
      BY <2>4 DEF IInv, Passed
    <3>3. At(handled'[Len(handled) + 1].source) = mydata
      BY <2>1, <2>2, <2>4
    <3>4. ASSUME NEW n \in 1..Len(handled')
          PROVE  At(handled'[n].source) \in Nat /\ At(handled'[n].source) < mydata'
      BY <2>5, <3>1, <3>2, <3>3 DEF IInv, TypeOK
    <3>5. ASSUME NEW m \in 1..Len(handled'), NEW n \in 1..Len(handled'), m < n
          PROVE  At(handled'[m].source) < At(handled'[n].source)
      <4>1. m \in 1..Len(handled)
        BY <2>4, <3>5
      <4>2. CASE n \in 1..Len(handled)
        BY <2>4, <3>5, <4>1, <4>2 DEF IInv, Passed
      <4>3. CASE n = Len(handled) + 1
        BY <3>2, <3>3, <4>1, <4>3
      <4> QED
        BY <3>1, <4>2, <4>3
    <3> QED
      BY <3>4, <3>5
  <2> QED
    BY <1>2, <2>6, <2>7 DEF IInv
<1>5. CASE SourcesHere = {} /\ astray' = TRUE /\ UNCHANGED <<handled, mydata>>
  <2>1. TypeOK'
    BY <1>1, <1>5 DEF IInv, TypeOK
  <2>2. Passed'
    BY <1>1, <1>3, <1>5 DEF IInv, Passed, JoinPrune
  <2> QED
    BY <1>2, <2>1, <2>2 DEF IInv
<1> QED
  BY <1>4, <1>5 DEF ReadSource

LEMMA SameSources ==
  ASSUME packet' = packet
  PROVE  /\ Groups' = Groups /\ \A s : At(s)' = At(s)
         /\ \A g : join_number(g)' = join_number(g) /\ prune_number(g)' = prune_number(g)
  BY DEF Groups, At, SourceAt, GroupAt, Sources, join_number, prune_number, JoinPrune

LEMMA JoinsReadStep == IInv /\ JoinsRead => IInv'
<1> SUFFICES ASSUME IInv, JoinsRead PROVE IInv'
  OBVIOUS
<1>1. /\ packet' = packet /\ mydata' = mydata /\ i' = i /\ group' = group
      /\ handled' = handled /\ astray' = astray
      /\ pc' = "prune" /\ number' = prune_number(group)
      /\ group \in 1..Len(Groups)
  BY DEF JoinsRead, IInv, Counted
<1>2. prune_number(group) \in Nat
  BY <1>1, GroupTyped DEF IInv
<1>3. TypeOK'
  BY <1>1, <1>2, SameSources DEF IInv, TypeOK
<1>4. Counted'
  BY <1>1, <1>2, SameSources DEF Counted
<1>5. Passed'
  BY <1>1, SameSources DEF IInv, Passed, JoinPrune
<1> QED
  BY <1>3, <1>4, <1>5 DEF IInv

LEMMA GroupReadStep == IInv /\ GroupRead => IInv'
<1> SUFFICES ASSUME IInv, GroupRead PROVE IInv'
  OBVIOUS
<1>1. /\ packet' = packet /\ i' = i /\ group' = group /\ number' = number
      /\ handled' = handled /\ astray' = astray
      /\ pc' = "group" /\ mydata' \in Nat /\ mydata' >= mydata
  BY DEF GroupRead, IInv, TypeOK, PastGroup, SOURCE
<1>2. TypeOK' /\ Counted'
  BY <1>1, SameSources DEF IInv, TypeOK, Counted
<1>3. Passed'
  BY <1>1, SameSources DEF IInv, TypeOK, Passed, JoinPrune
<1> QED
  BY <1>2, <1>3 DEF IInv

LEMMA DoneStep == IInv /\ Done => IInv'
<1> SUFFICES ASSUME IInv, Done PROVE IInv'
  OBVIOUS
<1>1. /\ packet' = packet /\ mydata' = mydata /\ i' = i /\ group' = group
      /\ number' = number /\ handled' = handled /\ astray' = astray /\ pc' = "done"
  BY DEF Done
<1> QED
  BY <1>1, SameSources DEF IInv, TypeOK, Counted, Passed, JoinPrune

LEMMA NextIInv == IInv /\ [Next]_vars => IInv'
<1> SUFFICES ASSUME IInv, [Next]_vars PROVE IInv'
  OBVIOUS
<1>1. CASE UNCHANGED vars
  BY <1>1, SameSources DEF vars, IInv, TypeOK, Counted, Passed, JoinPrune
<1> QED
  BY <1>1, ReadGroupStep, ReadSourceStep, JoinsReadStep, GroupReadStep, DoneStep
  DEF Next

LEMMA PassedOnce == IInv => NoneTwice
<1> SUFFICES ASSUME IInv, JoinPrune,
                    NEW m \in 1..Len(handled), NEW n \in 1..Len(handled),
                    handled[m].source = handled[n].source, m # n
             PROVE  FALSE
  BY DEF NoneTwice
<1>1. m < n \/ n < m
  OBVIOUS
<1>2. /\ At(handled[m].source) < At(handled[n].source)
        \/ At(handled[n].source) < At(handled[m].source)
      /\ At(handled[m].source) \in Nat
  BY <1>1 DEF IInv, Passed
<1> QED
  BY <1>2

-----------------------------------------------------------------------------
(* The acknowledgement of one group.  GroupAt is a recursive function; for *)
(* one group its value is known.                                           *)
LEMMA FirstGroupAt ==
  ASSUME Len(Groups) = 1
  PROVE  GroupAt[1] = 0
<1> DEFINE F(at) == [g \in 1..Len(Groups) |->
                       IF g = 1 THEN 0
                       ELSE at[g - 1] + (HEADER + SOURCE * Len(Sources(g - 1)))]
           zero == [g \in 1..Len(Groups) |-> 0]
<1>1. zero = F(zero)
  OBVIOUS
<1>2. GroupAt = CHOOSE at : at = F(at)
  BY DEF GroupAt
<1>3. GroupAt = F(GroupAt)
  BY <1>1, <1>2
<1>4. F(GroupAt)[1] = 0
  OBVIOUS
<1> QED
  BY <1>3, <1>4

LEMMA AckSources ==
  ASSUME TypeOK, AckOfOneGroup
  PROVE  /\ Len(Sources(1)) \in 1..255 /\ join_number(1) = 256 * Len(Sources(1))
         /\ \A s \in 1..Len(Sources(1)) : Sources(1)[s] \in Source
         /\ \A s \in Nat : SourceAt(1, s) = HEADER + SOURCE * (s - 1)
         /\ ~JoinPrune
<1> DEFINE n == Len(Groups[1].joins)
<1>1. Groups[1] \in Group /\ Len(Groups) = 1 /\ n \in 1..255
  <2>1. Len(Groups) = 1 /\ n \in 1..255
    BY DEF AckOfOneGroup
  <2> HIDE DEF n
  <2>2. Groups[1] \in Group
    BY <2>1, PacketTyped
  <2> QED
    BY <2>1, <2>2
<1>2. Groups[1].joins \in Seq(Source) /\ Groups[1].prunes = << >>
  BY <1>1 DEF Group, AckOfOneGroup
<1>3. Sources(1) = Groups[1].joins
  <2>1. \A joins \in Seq(Source) : joins \o << >> = joins
    OBVIOUS
  <2> QED
    BY <1>2, <2>1 DEF Sources
<1>4. join_number(1) = 256 * n
  <2>1. join_number(1) = Swapped(n)
    BY DEF join_number, AckOfOneGroup
  <2> HIDE DEF n
  <2>2. n % 256 = n /\ n \div 256 = 0
    BY <1>1
  <2> QED
    BY <1>1, <2>1, <2>2 DEF Swapped
<1>5. \A s \in Nat : SourceAt(1, s) = HEADER + SOURCE * (s - 1)
  BY <1>1, FirstGroupAt DEF SourceAt, HEADER, SOURCE
<1>6. ~JoinPrune
  BY DEF AckOfOneGroup, JoinPrune
<1>7. Len(Sources(1)) = n
  BY <1>3
<1>8. \A s \in 1..Len(Sources(1)) : Sources(1)[s] \in Source
  BY <1>2, <1>3
<1> HIDE DEF n
<1> QED
  BY <1>1, <1>4, <1>5, <1>6, <1>7, <1>8

LEMMA SourceOfAck ==
  ASSUME TypeOK, AckOfOneGroup, NEW k \in 1..(Len(Sources(1)) + 1),
         mydata = HEADER + SOURCE * (k - 1)
  PROVE  SourcesHere = IF k <= Len(Sources(1)) THEN {<<1, k>>} ELSE {}
<1>1. /\ Len(Sources(1)) \in 1..255 /\ Len(Groups) = 1
      /\ \A s \in Nat : SourceAt(1, s) = HEADER + SOURCE * (s - 1)
  BY AckSources DEF AckOfOneGroup
<1>2. ASSUME NEW s \in 1..Len(Sources(1))
      PROVE  SourceAt(1, s) = mydata <=> s = k
  <2>1. s \in Nat /\ k \in Nat
    BY <1>1
  <2>2. SourceAt(1, s) = 3 + 2 * (s - 1) /\ mydata = 3 + 2 * (k - 1)
    BY <1>1, <2>1 DEF HEADER, SOURCE
  <2> QED
    BY <2>1, <2>2
<1>3. ASSUME NEW s \in SourcesHere
      PROVE  s = <<1, k>> /\ k <= Len(Sources(1))
  <2>1. /\ s \in Nat \X Nat /\ s[1] \in 1..Len(Groups)
        /\ s[2] \in 1..Len(Sources(s[1]))
        /\ At(s) = mydata
    BY <1>3, HereTyped
  <2>2. s[1] = 1
    BY <1>1, <2>1
  <2>3. s[2] = k
    BY <1>2, <2>1, <2>2 DEF At
  <2> QED
    BY <1>1, <2>1, <2>2, <2>3
<1>4. k <= Len(Sources(1)) => <<1, k>> \in SourcesHere
  BY <1>1, <1>2 DEF SourcesHere
<1> QED
  BY <1>3, <1>4

(* The walk of an acknowledgement has read up to its k-th source: it stays *)
(* there when the source is known, and came past those before it.          *)
FoundAt(k) ==
  /\ k \in Known /\ Len(handled) > 0
  /\ handled[Len(handled)].source = <<1, k>>

ReadUpTo(k) ==
  /\ mydata = HEADER + SOURCE * (k - 1)
  /\ \A s \in Known : k <= s
  /\ \A n \in 1..Len(handled) : handled[n].source[2] <= k
  /\ Len(handled) = k - 1 \/ FoundAt(k)
  /\ astray \/ number + Len(handled) = 256 * Len(Sources(1))
  /\ astray => k = Len(Sources(1)) + 1

AckRead ==
  AckOfOneGroup =>
    /\ pc \in {"group", "join", "done"}
    /\ astray => pc = "join"
    /\ pc = "join" \/ number = 0
    /\ i = 0 => /\ mydata = 0 /\ pc = "group" /\ handled = << >> /\ ~astray
    /\ i # 0 => /\ group = 1
                /\ \E k \in 1..(Len(Sources(1)) + 1) : ReadUpTo(k)

AInv == IInv /\ AckRead

LEMMA HandledSource ==
  ASSUME handled \in Seq(Handled), NEW n \in 1..Len(handled)
  PROVE  handled[n].source[2] \in Nat
<1>1. handled[n] \in Handled
  OBVIOUS
<1>2. handled[n].source \in Nat \X Nat
  BY <1>1 DEF Handled
<1> QED
  BY <1>2

LEMMA InitAckRead == Init => AckRead
  BY DEF Init, AckRead

LEMMA SameAck ==
  ASSUME packet' = packet
  PROVE  /\ AckOfOneGroup' <=> AckOfOneGroup
         /\ Sources(1)' = Sources(1) /\ Known' = Known /\ Groups' = Groups
  BY DEF AckOfOneGroup, Groups, Sources, Known

LEMMA ReadGroupAck == AInv /\ ReadGroup => AckRead'
<1> SUFFICES ASSUME AInv, ReadGroup, AckOfOneGroup' PROVE AckRead'
  BY DEF AckRead
<1>0. packet' = packet
  BY DEF ReadGroup
<1>1. /\ AckOfOneGroup /\ handled' = handled
      /\ Sources(1)' = Sources(1) /\ Known' = Known
  BY <1>0, SameAck DEF ReadGroup
<1>2. TypeOK /\ AckRead
  BY DEF AInv, IInv
<1>3. /\ i = 0 /\ i' = 1 /\ mydata = 0 /\ ~astray /\ handled = << >>
  <2>1. Len(Groups) = 1 /\ i \in 0..Len(Groups)
    BY <1>1, <1>2 DEF AckOfOneGroup, TypeOK
  <2>2. i < Len(Groups) /\ i' = i + 1
    BY DEF ReadGroup, MoreGroups
  <2>3. i = 0 /\ i' = 1
    BY <2>1, <2>2
  <2> QED
    BY <1>1, <1>2, <2>3 DEF AckRead
<1>4. 1 \in GroupsHere /\ \A g \in GroupsHere : g = 1
  BY <1>1, <1>3, FirstGroupAt DEF AckOfOneGroup, GroupsHere
<1>5. /\ ~astray' /\ pc' = "join" /\ mydata' = HEADER /\ group' = 1
      /\ number' = join_number(1)
  BY <1>1, <1>3, <1>4 DEF ReadGroup, HEADER, AckOfOneGroup
<1>6. /\ Len(Sources(1)) \in 1..255
      /\ number' = 256 * Len(Sources(1))
  BY <1>1, <1>2, <1>5, AckSources
<1>7. Len(handled') = 0
  BY <1>1, <1>3
<1>8. ReadUpTo(1)'
  <2>1. \A s \in Known : 1 <= s
    BY <1>6 DEF Known
  <2>2. mydata' = HEADER + SOURCE * (1 - 1)
    BY <1>5 DEF SOURCE, HEADER
  <2> QED
    BY <1>1, <1>5, <1>6, <1>7, <2>1, <2>2 DEF ReadUpTo
<1>9. 1 \in 1..(Len(Sources(1)') + 1)
  BY <1>1, <1>6
<1> QED
  BY <1>3, <1>5, <1>8, <1>9 DEF AckRead

LEMMA ReadSourceAck == AInv /\ ReadSource => AckRead'
<1> SUFFICES ASSUME AInv, ReadSource, AckOfOneGroup' PROVE AckRead'
  BY DEF AckRead
<1>0. /\ packet' = packet /\ i' = i /\ group' = group /\ pc' = pc
      /\ ~astray /\ number > 0 /\ number' = number - 1
      /\ pc \in {"join", "prune"}
  BY DEF ReadSource
<1>1. /\ AckOfOneGroup /\ Sources(1)' = Sources(1) /\ Known' = Known
  BY <1>0, SameAck
<1>2. /\ TypeOK /\ AckRead /\ number \in Nat /\ Len(handled) \in Nat
      /\ handled \in Seq(Handled)
  BY DEF AInv, IInv, TypeOK, Handled
<1>3. pc = "join" /\ i # 0 /\ group = 1
  BY <1>0, <1>1, <1>2 DEF AckRead
<1>4. PICK k \in 1..(Len(Sources(1)) + 1) : ReadUpTo(k)
  BY <1>1, <1>2, <1>3 DEF AckRead
<1>5. /\ Len(Sources(1)) \in 1..255 /\ ~JoinPrune
      /\ \A s \in 1..Len(Sources(1)) : Sources(1)[s] \in Source
  BY <1>1, <1>2, AckSources
<1>6. SourcesHere = IF k <= Len(Sources(1)) THEN {<<1, k>>} ELSE {}
  BY <1>1, <1>2, <1>4, SourceOfAck DEF ReadUpTo
<1>7. number + Len(handled) = 256 * Len(Sources(1))
  BY <1>0, <1>4 DEF ReadUpTo
<1> SUFFICES \E m \in 1..(Len(Sources(1)) + 1) : ReadUpTo(m)'
  BY <1>0, <1>1, <1>3 DEF AckRead
<1>8. CASE k > Len(Sources(1))
  <2>1. /\ SourcesHere = {} /\ k = Len(Sources(1)) + 1
    BY <1>4, <1>5, <1>6, <1>8
  <2>2. astray' /\ handled' = handled /\ mydata' = mydata
    BY <2>1 DEF ReadSource
  <2>3. ReadUpTo(k)'
    BY <1>1, <1>4, <2>1, <2>2 DEF ReadUpTo, FoundAt
  <2> QED
    BY <2>3
<1>9. CASE k <= Len(Sources(1))
  <2> DEFINE x == [as |-> pc, source |-> <<1, k>>]
  <2>1. SourcesHere = {<<1, k>>} /\ k \in 1..Len(Sources(1))
    BY <1>4, <1>5, <1>6, <1>9
  <2>2. /\ handled' = Append(handled, x)
        /\ mydata' = mydata + Step(Sources(1)[k])
        /\ astray' = astray
    <3>1. PICK s \in SourcesHere :
            /\ handled' = Append(handled, [as |-> pc, source |-> s])
            /\ mydata' = mydata + Step(Sources(s[1])[s[2]])
            /\ astray' = astray
      BY <2>1 DEF ReadSource
    <3>2. s = <<1, k>> /\ s[1] = 1 /\ s[2] = k
      BY <2>1
    <3> QED
      BY <3>1, <3>2
  <2>3. x \in Handled /\ x.source = <<1, k>> /\ x.source[2] = k
    BY <1>0, <2>1, <1>5 DEF Handled
  <2> HIDE DEF x
  <2>4. /\ Len(handled') = Len(handled) + 1
        /\ \A n \in 1..Len(handled) : handled'[n] = handled[n]
        /\ handled'[Len(handled')] = x
    BY <1>2, <2>2, <2>3, AppendHandled
  <2>5. ASSUME NEW m \in {k, k + 1}, NEW n \in 1..Len(handled')
        PROVE  handled'[n].source[2] <= m
    <3>1. k <= m
      BY <2>1, <2>5
    <3>2. CASE n = Len(handled')
      BY <2>3, <2>4, <3>1, <3>2
    <3>3. CASE n # Len(handled')
      <4>1. n \in 1..Len(handled)
        BY <1>2, <2>4, <2>5, <3>3
      <4>2. handled[n].source[2] <= k
        BY <1>4, <4>1 DEF ReadUpTo
      <4>3. handled[n].source[2] \in Nat
        BY <1>2, <4>1, HandledSource
      <4> QED
        BY <2>1, <2>4, <3>1, <4>1, <4>2, <4>3
    <3> QED
      BY <3>2, <3>3
  <2>6. number' + Len(handled') = 256 * Len(Sources(1))
    BY <1>0, <1>2, <1>7, <2>4
  <2>7. CASE Sources(1)[k] = "unknown"
    <3>1. mydata' = HEADER + SOURCE * ((k + 1) - 1)
      BY <1>4, <2>1, <2>2, <2>7 DEF Step, ReadUpTo, HEADER, SOURCE
    <3>2. k \notin Known
      BY <2>7 DEF Known
    <3>3. \A s \in Known : k + 1 <= s
      BY <1>4, <1>5, <2>1, <3>2 DEF ReadUpTo, Known
    <3>4. Len(handled') = (k + 1) - 1
      BY <1>2, <1>4, <2>1, <2>4, <3>2 DEF ReadUpTo, FoundAt
    <3>5. ReadUpTo(k + 1)'
      BY <1>0, <1>1, <2>2, <2>5, <2>6, <3>1, <3>3, <3>4 DEF ReadUpTo
    <3>6. k + 1 \in 1..(Len(Sources(1)) + 1)
      BY <1>5, <2>1
    <3> QED
      BY <3>5, <3>6
  <2>8. CASE Sources(1)[k] # "unknown"
    <3>1. Step(Sources(1)[k]) = 0
      BY <1>5, <2>8 DEF Step, JoinPrune
    <3>2. mydata' = HEADER + SOURCE * (k - 1)
      BY <1>4, <2>1, <2>2, <3>1 DEF ReadUpTo, HEADER, SOURCE
    <3>3. FoundAt(k)'
      BY <1>1, <1>2, <2>1, <2>3, <2>4, <2>8 DEF FoundAt, Known
    <3>4. \A s \in Known : k <= s
      BY <1>4 DEF ReadUpTo
    <3>5. ReadUpTo(k)'
      BY <1>0, <1>1, <2>2, <2>5, <2>6, <3>2, <3>3, <3>4 DEF ReadUpTo
    <3> QED
      BY <3>5
  <2> QED
    BY <2>7, <2>8
<1> QED
  BY <1>4, <1>5, <1>8, <1>9

LEMMA RestAck ==
  ASSUME AInv, JoinsRead \/ GroupRead \/ Done \/ UNCHANGED vars
  PROVE  AckRead'
<1> SUFFICES ASSUME AckOfOneGroup' PROVE AckRead'
  BY DEF AckRead
<1>1. /\ packet' = packet /\ i' = i /\ handled' = handled /\ astray' = astray
      /\ group' = group
  BY DEF JoinsRead, GroupRead, Done, vars
<1>2. /\ AckOfOneGroup /\ Sources(1)' = Sources(1) /\ Known' = Known
      /\ AckRead /\ TypeOK
  BY <1>1, SameAck DEF AInv, IInv
<1>3. ~JoinPrune /\ packet.type = "graft_ack"
  BY <1>2 DEF AckOfOneGroup, JoinPrune
<1>4. CASE JoinsRead
  BY <1>3, <1>4 DEF JoinsRead
<1>5. CASE GroupRead \/ Done \/ UNCHANGED vars
  <2>1. /\ pc' \in {"group", "join", "done"}
        /\ number' = number /\ mydata' = mydata
        /\ astray => pc' = "join"
        /\ pc' = "join" \/ number = 0
        /\ i = 0 => pc' = "group"
    <3>1. CASE GroupRead
      BY <1>2, <1>3, <3>1 DEF GroupRead, PastGroup, TypeOK, AckRead
    <3>2. CASE Done
      <4>1. ~(i < Len(Groups)) /\ Len(Groups) = 1
        BY <1>2, <3>2 DEF Done, MoreGroups, AckOfOneGroup
      <4>2. i # 0
        BY <4>1
      <4>3. pc = "group" /\ ~astray /\ number = 0
        BY <1>2, <3>2 DEF Done, AckRead
      <4> QED
        BY <3>2, <4>2, <4>3 DEF Done
    <3>3. CASE UNCHANGED vars
      BY <1>2, <3>3 DEF vars, AckRead
    <3> QED
      BY <1>5, <3>1, <3>2, <3>3
  <2>2. \A k : ReadUpTo(k)' <=> ReadUpTo(k)
    BY <1>1, <1>2, <2>1 DEF ReadUpTo, FoundAt
  <2> QED
    BY <1>1, <1>2, <2>1, <2>2 DEF AckRead
<1> QED
  BY <1>4, <1>5

LEMMA NextAInv == AInv /\ [Next]_vars => AInv'
<1>1. AInv /\ [Next]_vars => IInv'
  BY NextIInv DEF AInv
<1>2. AInv /\ [Next]_vars => AckRead'
  BY ReadGroupAck, ReadSourceAck, RestAck DEF Next
<1> QED
  BY <1>1, <1>2 DEF AInv

LEMMA AckReadFirst == AInv => AckOfFirst
<1> SUFFICES ASSUME AInv, AckOfOneGroup
             PROVE  /\ \A n \in 1..Len(handled) : \A s \in Known :
                         handled[n].source[2] <= s
                    /\ astray => Known = {}
                    /\ pc = "done" =>
                         \E n \in 1..Len(handled) : \E s \in Known :
                           handled[n].source = <<1, s>>
  BY DEF AckOfFirst
<1>1. TypeOK /\ AckRead /\ Len(handled) \in Nat /\ handled \in Seq(Handled)
  BY DEF AInv, IInv, TypeOK, Handled
<1>2. /\ Len(Sources(1)) \in 1..255 /\ Known \subseteq 1..Len(Sources(1))
  BY <1>1, AckSources DEF Known
<1>3. CASE i = 0
  <2>1. handled = << >> /\ ~astray /\ pc = "group"
    BY <1>1, <1>3 DEF AckRead
  <2>2. Len(handled) = 0
    BY <2>1
  <2> QED
    BY <2>1, <2>2
<1>4. CASE i # 0
  <2>1. PICK k \in 1..(Len(Sources(1)) + 1) : ReadUpTo(k)
    BY <1>1, <1>4 DEF AckRead
  <2>2. ASSUME NEW n \in 1..Len(handled), NEW s \in Known
        PROVE  handled[n].source[2] <= s
    <3>1. handled[n].source[2] <= k /\ k <= s
      BY <2>1 DEF ReadUpTo
    <3>2. handled[n].source[2] \in Nat /\ s \in Nat /\ k \in Nat
      BY <1>1, <1>2, HandledSource
    <3> QED
      BY <3>1, <3>2
  <2>3. astray => Known = {}
    <3> SUFFICES ASSUME astray, NEW s \in Known PROVE FALSE
      OBVIOUS
    <3>1. Len(Sources(1)) + 1 <= s
      BY <2>1 DEF ReadUpTo
    <3> QED
      BY <1>2, <3>1
  <2>4. ASSUME pc = "done"
        PROVE  \E n \in 1..Len(handled) : \E s \in Known :
                 handled[n].source = <<1, s>>
    <3>1. ~astray /\ number = 0
      BY <1>1, <2>4 DEF AckRead
    <3>2. Len(handled) = 256 * Len(Sources(1))
      BY <1>1, <2>1, <3>1 DEF ReadUpTo
    <3>3. FoundAt(k)
      <4>1. Len(handled) = k - 1 \/ FoundAt(k)
        BY <2>1 DEF ReadUpTo
      <4>2. \A a \in 1..255 : \A b \in 1..(a + 1) : 256 * a # b - 1
        OBVIOUS
      <4>3. Len(handled) # k - 1
        BY <1>2, <3>2, <4>2
      <4> QED
        BY <4>1, <4>3
    <3>4. Len(handled) \in 1..Len(handled)
      BY <1>1, <3>3 DEF FoundAt
    <3> QED
      BY <3>3, <3>4 DEF FoundAt
  <2> QED
    BY <2>2, <2>3, <2>4
<1> QED
  BY <1>3, <1>4

-----------------------------------------------------------------------------
(* Whatever is in a packet, the cursor, the counters and the list of what  *)
(* was handled stay in their types, and no group is begun that the packet  *)
(* does not have (pim.c:513-660, 862-973).                                 *)
THEOREM WalkTypeCorrect == Spec => []TypeOK
<1>1. Init => IInv
  BY InitIInv
<1>2. IInv /\ [Next]_vars => IInv'
  BY NextIInv
<1>3. IInv => TypeOK
  BY DEF IInv
<1> QED
  BY <1>1, <1>2, <1>3, PTL DEF Spec

(* No source of a Join/Prune is handled twice, for packets of any number   *)
(* of groups and sources: the cursor moves after every source that is      *)
(* handled, wherever that leads (pim.c:537-586, 608-657).                  *)
THEOREM WalkNoneTwice == Spec => []NoneTwice
<1>1. Init => IInv
  BY InitIInv
<1>2. IInv /\ [Next]_vars => IInv'
  BY NextIInv
<1>3. IInv => NoneTwice
  BY PassedOnce
<1> QED
  BY <1>1, <1>2, <1>3, PTL DEF Spec

(* Of the sources of an acknowledgement the first that has an entry is     *)
(* acknowledged and no later one, for as many sources as a packet holds;   *)
(* the cursor leads out of the packet exactly when none has one            *)
(* (pim.c:943-973).                                                        *)
THEOREM WalkAckOfFirst == Spec => []AckOfFirst
<1>1. Init => AInv
  BY InitIInv, InitAckRead DEF AInv
<1>2. AInv /\ [Next]_vars => AInv'
  BY NextAInv
<1>3. AInv => AckOfFirst
  BY AckReadFirst
<1> QED
  BY <1>1, <1>2, <1>3, PTL DEF Spec

-----------------------------------------------------------------------------
(* Induction, in a form that is about sets.                                *)
LEMMA NatMin ==
  ASSUME NEW T, T \subseteq Nat, T # {}
  PROVE  \E n \in T : \A m \in T : n <= m
<1>1. IsWellFoundedOn(OpToRel(<, Nat), Nat)
  BY NatLessThanWellFounded
<1>2. PICK n \in T : \A m \in T : ~(<<m, n>> \in OpToRel(<, Nat))
  BY <1>1, WFMin
<1>3. \A m \in T : ~(m < n)
  BY <1>2 DEF OpToRel
<1> QED
  BY <1>3

LEMMA NatAll ==
  ASSUME NEW T, T \subseteq Nat, 0 \in T, \A n \in T : n + 1 \in T
  PROVE  T = Nat
<1> SUFFICES ASSUME Nat \ T # {} PROVE FALSE
  OBVIOUS
<1>1. PICK n \in Nat \ T : \A m \in Nat \ T : n <= m
  BY NatMin
<1>2. n # 0 /\ n - 1 \in Nat
  BY <1>1
<1>3. n - 1 \in T
  BY <1>1, <1>2
<1> QED
  BY <1>3

(* The recursive functions of the packet exist, so that their equations    *)
(* hold of them: the offsets of the groups, and what is sent up to each.   *)
LEMMA OffsetsExist ==
  ASSUME NEW n \in Nat, NEW size
  PROVE  \E at : at = [g \in 1..n |->
                       IF g = 1 THEN 0 ELSE at[g - 1] + size[g - 1]]
<1> DEFINE Upto(k, at) ==
             at = [g \in 1..k |-> IF g = 1 THEN 0 ELSE at[g - 1] + size[g - 1]]
           T == {k \in Nat : \E at : Upto(k, at)}
<1>1. 0 \in T
  <2> DEFINE none == [g \in 1..0 |-> 0]
  <2>1. Upto(0, none)
    OBVIOUS
  <2> QED
    BY <2>1
<1>2. ASSUME NEW k \in T PROVE k + 1 \in T
  <2>1. k \in Nat
    OBVIOUS
  <2>2. PICK at : Upto(k, at)
    OBVIOUS
  <2> DEFINE next == IF k = 0 THEN 0 ELSE at[k] + size[k]
             more == [g \in 1..k + 1 |-> IF g = k + 1 THEN next ELSE at[g]]
  <2>3. ASSUME NEW g \in 1..k + 1
        PROVE  more[g] = IF g = 1 THEN 0 ELSE more[g - 1] + size[g - 1]
    <3>1. CASE g = k + 1
      <4>1. k # 0 => more[k] = at[k]
        BY <2>1
      <4>2. more[g] = next
        BY <3>1
      <4> HIDE DEF more
      <4> QED
        BY <2>1, <3>1, <4>1, <4>2
    <3>2. CASE g \in 1..k
      <4>1. more[g] = at[g] /\ (g # 1 => more[g - 1] = at[g - 1])
        BY <2>1, <3>2
      <4>2. at[g] = IF g = 1 THEN 0 ELSE at[g - 1] + size[g - 1]
        BY <2>2, <3>2
      <4> HIDE DEF more
      <4> QED
        BY <4>1, <4>2
    <3> QED
      BY <2>1, <3>1, <3>2
  <2>4. Upto(k + 1, more)
    <3> DEFINE rhs == [g \in 1..k + 1 |->
                         IF g = 1 THEN 0 ELSE more[g - 1] + size[g - 1]]
    <3>1. \A g \in 1..k + 1 : more[g] = rhs[g]
      BY <2>3
    <3>2. more = [g \in 1..k + 1 |-> more[g]] /\ rhs = [g \in 1..k + 1 |-> rhs[g]]
      OBVIOUS
    <3>3. more = rhs
      <4> HIDE DEF more, rhs
      <4> QED
        BY <3>1, <3>2
    <3> QED
      BY <3>3
  <2> HIDE DEF more, Upto
  <2> QED
    BY <2>1, <2>4
<1>3. T = Nat
  <2> HIDE DEF T
  <2>1. T \subseteq Nat
    BY DEF T
  <2> QED
    BY <1>1, <1>2, <2>1, NatAll
<1> QED
  BY <1>3

(* Each starts where the one before it ends or later.                      *)
LEMMA OffsetsGrow ==
  ASSUME NEW n \in Nat, NEW size \in [1..n -> Nat], NEW at,
         at = [g \in 1..n |-> IF g = 1 THEN 0 ELSE at[g - 1] + size[g - 1]]
  PROVE  \A h \in 1..n : /\ at[h] \in Nat
                         /\ \A g \in 1..n : g < h => at[g] + size[g] <= at[h]
<1> DEFINE Grows(h) == /\ at[h] \in Nat
                       /\ \A g \in 1..n : g < h => at[g] + size[g] <= at[h]
           Ok(k) == k <= n => \A h \in 1..k : Grows(h)
           T == {k \in Nat : Ok(k)}
<1>0. \A h \in 1..n : at[h] = IF h = 1 THEN 0 ELSE at[h - 1] + size[h - 1]
  OBVIOUS
<1>1. 0 \in T
  OBVIOUS
<1>2. ASSUME NEW k \in T PROVE k + 1 \in T
  <2>1. k \in Nat /\ Ok(k)
    OBVIOUS
  <2>2. ASSUME k + 1 <= n PROVE Grows(k + 1)
    <3>1. CASE k = 0
      <4>1. at[1] = 0
        BY <1>0, <2>2, <3>1
      <4> QED
        BY <3>1, <4>1
    <3>2. CASE k # 0
      <4> DEFINE a == at[k]  b == size[k]
      <4>0. k \in 1..n /\ k + 1 \in 1..n /\ k \in 1..k /\ \A h \in 1..k : Grows(h)
        <5> HIDE DEF Grows
        <5> QED
          BY <2>1, <2>2, <3>2
      <4>1. at[k + 1] = a + b /\ a \in Nat /\ b \in Nat
        <5>1. Grows(k)
          <6> HIDE DEF Grows
          <6> QED
            BY <4>0
        <5>2. at[k + 1] = IF k + 1 = 1 THEN 0 ELSE at[k + 1 - 1] + size[k + 1 - 1]
          BY <1>0, <4>0
        <5>3. k + 1 # 1 /\ k + 1 - 1 = k
          BY <2>1, <3>2
        <5>4. at[k + 1] = a + b
          BY <5>2, <5>3
        <5> QED
          BY <4>0, <5>1, <5>4
      <4>2. ASSUME NEW g \in 1..n, g < k + 1
            PROVE  at[g] + size[g] <= at[k + 1]
        <5>1. CASE g = k
          BY <4>1, <5>1
        <5>2. CASE g < k
          <6> DEFINE c == at[g]  d == size[g]
          <6>0. g \in 1..k /\ g \in 1..n /\ Grows(k) /\ Grows(g)
            <7> HIDE DEF Grows
            <7> QED
              BY <2>1, <2>2, <4>0, <5>2
          <6>1. c + d <= a
            BY <5>2, <6>0
          <6>2. c \in Nat /\ d \in Nat
            BY <6>0
          <6> HIDE DEF a, b, c, d
          <6>3. c + d <= a + b
            BY <4>1, <6>1, <6>2
          <6> QED
            BY <4>1, <6>3 DEF c, d
        <5> QED
          BY <2>1, <4>2, <5>1, <5>2
      <4>3. at[k + 1] \in Nat
        <5> HIDE DEF a, b
        <5> QED
          BY <4>1
      <4> HIDE DEF a, b
      <4> QED
        BY <4>2, <4>3
    <3> QED
      BY <3>1, <3>2
  <2>3. Ok(k + 1)
    <3>1. ASSUME k + 1 <= n, NEW h \in 1..k + 1 PROVE Grows(h)
      <4> HIDE DEF Grows
      <4>1. CASE h = k + 1
        BY <2>2, <3>1, <4>1
      <4>2. CASE h \in 1..k
        BY <2>1, <3>1, <4>2
      <4> QED
        BY <2>1, <4>1, <4>2
    <3> HIDE DEF Grows
    <3> QED
      BY <3>1
  <2> HIDE DEF Ok
  <2> QED
    BY <2>1, <2>3
<1>3. T = Nat
  <2> HIDE DEF T
  <2>1. T \subseteq Nat
    BY DEF T
  <2> QED
    BY <1>1, <1>2, <2>1, NatAll
<1>4. Ok(n)
  <2> HIDE DEF Ok
  <2> QED
    BY <1>3
<1>5. \A h \in 1..n : Grows(h)
  <2> HIDE DEF Grows
  <2> QED
    BY <1>4
<1> QED
  BY <1>5

LEMMA JoinedExist ==
  ASSUME NEW n \in Nat, NEW part
  PROVE  \E f : f = [g \in 0..n |-> IF g = 0 THEN << >> ELSE f[g - 1] \o part[g]]
<1> DEFINE Upto(k, f) ==
             f = [g \in 0..k |-> IF g = 0 THEN << >> ELSE f[g - 1] \o part[g]]
           T == {k \in Nat : \E f : Upto(k, f)}
<1>1. 0 \in T
  <2> DEFINE none == [g \in 0..0 |-> << >>]
  <2>1. Upto(0, none)
    OBVIOUS
  <2> QED
    BY <2>1
<1>2. ASSUME NEW k \in T PROVE k + 1 \in T
  <2>1. k \in Nat
    OBVIOUS
  <2>2. PICK f : Upto(k, f)
    OBVIOUS
  <2> DEFINE next == f[k] \o part[k + 1]
             more == [g \in 0..k + 1 |-> IF g = k + 1 THEN next ELSE f[g]]
  <2>3. ASSUME NEW g \in 0..k + 1
        PROVE  more[g] = IF g = 0 THEN << >> ELSE more[g - 1] \o part[g]
    <3>1. CASE g = k + 1
      <4>1. more[k] = f[k] /\ g - 1 = k /\ g # 0
        BY <2>1, <3>1
      <4>2. more[g] = next
        BY <3>1
      <4> HIDE DEF more
      <4> QED
        BY <3>1, <4>1, <4>2
    <3>2. CASE g \in 0..k
      <4>1. more[g] = f[g] /\ (g # 0 => more[g - 1] = f[g - 1])
        BY <2>1, <3>2
      <4>2. f[g] = IF g = 0 THEN << >> ELSE f[g - 1] \o part[g]
        BY <2>2, <3>2
      <4> HIDE DEF more
      <4> QED
        BY <4>1, <4>2
    <3> QED
      BY <2>1, <3>1, <3>2
  <2>4. Upto(k + 1, more)
    <3> DEFINE rhs == [g \in 0..k + 1 |->
                         IF g = 0 THEN << >> ELSE more[g - 1] \o part[g]]
    <3>1. \A g \in 0..k + 1 : more[g] = rhs[g]
      BY <2>3
    <3>2. more = [g \in 0..k + 1 |-> more[g]] /\ rhs = [g \in 0..k + 1 |-> rhs[g]]
      OBVIOUS
    <3>3. more = rhs
      <4> HIDE DEF more, rhs
      <4> QED
        BY <3>1, <3>2
    <3> QED
      BY <3>3
  <2> HIDE DEF more, Upto
  <2> QED
    BY <2>1, <2>4
<1>3. T = Nat
  <2> HIDE DEF T
  <2>1. T \subseteq Nat
    BY DEF T
  <2> QED
    BY <1>1, <1>2, <2>1, NatAll
<1> QED
  BY <1>3

LEMMA JoinedTyped ==
  ASSUME NEW S, NEW n \in Nat, NEW part, \A g \in 1..n : part[g] \in Seq(S), NEW f,
         f = [g \in 0..n |-> IF g = 0 THEN << >> ELSE f[g - 1] \o part[g]]
  PROVE  \A g \in 0..n : f[g] \in Seq(S)
<1> DEFINE Ok(k) == k <= n => f[k] \in Seq(S)
           T == {k \in Nat : Ok(k)}
<1>0. \A g \in 0..n : f[g] = IF g = 0 THEN << >> ELSE f[g - 1] \o part[g]
  OBVIOUS
<1>1. 0 \in T
  BY <1>0, EmptySeq
<1>2. ASSUME NEW k \in T PROVE k + 1 \in T
  <2>1. k \in Nat /\ Ok(k)
    OBVIOUS
  <2>2. ASSUME k + 1 <= n PROVE f[k + 1] \in Seq(S)
    <3>1. k + 1 \in 0..n /\ k + 1 \in 1..n /\ k + 1 # 0 /\ k + 1 - 1 = k /\ k <= n
      BY <2>1, <2>2
    <3>2. f[k + 1] = f[k] \o part[k + 1]
      BY <1>0, <3>1
    <3>3. f[k] \in Seq(S) /\ part[k + 1] \in Seq(S)
      BY <2>1, <3>1
    <3> QED
      BY <3>2, <3>3, ConcatProperties
  <2>3. Ok(k + 1)
    BY <2>2
  <2> HIDE DEF Ok
  <2> QED
    BY <2>1, <2>3
<1>3. T = Nat
  <2> HIDE DEF T
  <2>1. T \subseteq Nat
    BY DEF T
  <2> QED
    BY <1>1, <1>2, <2>1, NatAll
<1>4. \A k \in Nat : Ok(k)
  <2> HIDE DEF Ok
  <2> QED
    BY <1>3
<1> QED
  BY <1>4

(* Where a group's k-th source ends, and where a group ends.               *)
Within(g, k) == GroupAt[g] + HEADER + SOURCE * k

Past(g) == IF g = 0 THEN 0 ELSE Within(g, Len(Sources(g)))

(* What is sent up to a group.                                             *)
SentUpto ==
  LET upto[g \in 0..Len(Groups)] ==
        IF g = 0 THEN << >> ELSE upto[g - 1] \o SentIn(g)
  IN  upto

LEMMA GroupAtIs ==
  ASSUME TypeOK
  PROVE  /\ \A g \in 1..Len(Groups) : GroupAt[g] \in Nat /\ GroupAt[g] = Past(g - 1)
         /\ \A g, h \in 1..Len(Groups) : g < h => Past(g) <= GroupAt[h]
<1> DEFINE n == Len(Groups)
           size == [g \in 1..n |-> HEADER + SOURCE * Len(Sources(g))]
           F(at) == [g \in 1..n |-> IF g = 1 THEN 0
                       ELSE at[g - 1] + (HEADER + SOURCE * Len(Sources(g - 1)))]
           G(at) == [g \in 1..n |-> IF g = 1 THEN 0 ELSE at[g - 1] + size[g - 1]]
<1>0. n \in Nat /\ \A g \in 1..n : Len(Sources(g)) \in Nat
  BY GroupTyped, PacketTyped
<1>1. size \in [1..n -> Nat]
  BY <1>0 DEF HEADER, SOURCE
<1>2. \A at : F(at) = G(at)
  <2> SUFFICES ASSUME NEW at PROVE F(at) = G(at)
    OBVIOUS
  <2>1. ASSUME NEW g \in 1..n PROVE F(at)[g] = G(at)[g]
    <3>1. g # 1 => g - 1 \in 1..n
      BY <1>0
    <3> HIDE DEF n
    <3> QED
      BY <3>1
  <2>2. F(at) = [g \in 1..n |-> F(at)[g]] /\ G(at) = [g \in 1..n |-> G(at)[g]]
    OBVIOUS
  <2> HIDE DEF F, G
  <2> QED
    BY <2>1, <2>2
<1>3. GroupAt = G(GroupAt)
  <2>1. \E at : at = G(at)
    <3> HIDE DEF size, n
    <3> QED
      BY <1>0, OffsetsExist
  <2>2. GroupAt = CHOOSE at : at = F(at)
    BY DEF GroupAt
  <2> HIDE DEF F, G
  <2>3. GroupAt = F(GroupAt)
    BY <1>2, <2>1, <2>2
  <2> QED
    BY <1>2, <2>3
<1>4. \A h \in 1..n : /\ GroupAt[h] \in Nat
                      /\ \A g \in 1..n : g < h => GroupAt[g] + size[g] <= GroupAt[h]
  <2> HIDE DEF size, n
  <2> QED
    BY <1>0, <1>1, <1>3, OffsetsGrow
<1>5. \A g \in 1..n : GroupAt[g] + size[g] = Past(g)
  BY <1>0, <1>4 DEF Past, Within, HEADER, SOURCE
<1>6. ASSUME NEW g \in 1..n PROVE GroupAt[g] = Past(g - 1)
  <2>1. G(GroupAt)[g] = IF g = 1 THEN 0 ELSE GroupAt[g - 1] + size[g - 1]
    OBVIOUS
  <2>2. GroupAt[g] = IF g = 1 THEN 0 ELSE GroupAt[g - 1] + size[g - 1]
    <3> HIDE DEF G
    <3> QED
      BY <1>3, <2>1
  <2>3. CASE g = 1
    BY <2>2, <2>3 DEF Past
  <2>4. CASE g # 1
    <3>1. g - 1 \in 1..n
      BY <1>0, <2>4
    <3> HIDE DEF size
    <3> QED
      BY <1>5, <2>2, <2>4, <3>1
  <2> QED
    BY <2>3, <2>4
<1> QED
  <2> HIDE DEF size
  <2> QED
    BY <1>4, <1>5, <1>6

(* No two groups, and no two sources, are in one place.                    *)
LEMMA PlacesDiffer ==
  ASSUME TypeOK
  PROVE  /\ \A g, h \in 1..Len(Groups) : GroupAt[g] = GroupAt[h] => g = h
         /\ \A g, h \in 1..Len(Groups) :
              \A s \in 1..Len(Sources(g)), t \in 1..Len(Sources(h)) :
                SourceAt(g, s) = SourceAt(h, t) => g = h /\ s = t
<1>0. Len(Groups) \in Nat /\ \A g \in 1..Len(Groups) : Len(Sources(g)) \in Nat
  BY GroupTyped, PacketTyped
<1>1. \A g \in 1..Len(Groups) : /\ GroupAt[g] \in Nat
                                /\ Past(g) = GroupAt[g] + 3 + 2 * Len(Sources(g))
  BY GroupAtIs DEF Past, Within, HEADER, SOURCE
<1>2. \A g, h \in 1..Len(Groups) : g < h => Past(g) <= GroupAt[h]
  BY GroupAtIs
<1>6. \A g \in 1..Len(Groups) :
        Past(g) \in Nat /\ \A s \in 1..Len(Sources(g)) : SourceAt(g, s) \in Nat
  BY <1>0, <1>1 DEF SourceAt, HEADER, SOURCE
<1>3. ASSUME NEW g \in 1..Len(Groups), NEW h \in 1..Len(Groups), g < h
      PROVE  GroupAt[g] < GroupAt[h]
  BY <1>0, <1>1, <1>2, <1>3
<1>4. ASSUME NEW g \in 1..Len(Groups), NEW h \in 1..Len(Groups), g < h,
             NEW s \in 1..Len(Sources(g)), NEW t \in 1..Len(Sources(h))
      PROVE  SourceAt(g, s) < SourceAt(h, t)
  <2>1. SourceAt(g, s) < Past(g)
    BY <1>0, <1>1 DEF SourceAt, HEADER, SOURCE
  <2>2. GroupAt[h] < SourceAt(h, t)
    BY <1>0, <1>1 DEF SourceAt, HEADER, SOURCE
  <2>3. Past(g) <= GroupAt[h]
    BY <1>2, <1>4
  <2>4. /\ SourceAt(g, s) \in Nat /\ SourceAt(h, t) \in Nat
        /\ Past(g) \in Nat /\ GroupAt[h] \in Nat
    BY <1>1, <1>6
  <2> DEFINE a == SourceAt(g, s)  b == Past(g)  c == GroupAt[h]  d == SourceAt(h, t)
  <2>5. a < b /\ b <= c /\ c < d /\ a \in Nat /\ b \in Nat /\ c \in Nat /\ d \in Nat
    BY <2>1, <2>2, <2>3, <2>4
  <2> HIDE DEF a, b, c, d
  <2>6. a < d
    BY <2>5
  <2> QED
    BY <2>6 DEF a, d
<1>5. ASSUME NEW g \in 1..Len(Groups), NEW s \in 1..Len(Sources(g)),
             NEW t \in 1..Len(Sources(g)), SourceAt(g, s) = SourceAt(g, t)
      PROVE  s = t
  BY <1>0, <1>1, <1>5 DEF SourceAt, HEADER, SOURCE
<1>7. \A g, h \in 1..Len(Groups) : g < h \/ h < g \/ g = h
  BY <1>0
<1>8. ASSUME NEW g \in 1..Len(Groups), NEW h \in 1..Len(Groups),
             GroupAt[g] = GroupAt[h]
      PROVE  g = h
  BY <1>1, <1>3, <1>7, <1>8
<1>9. ASSUME NEW g \in 1..Len(Groups), NEW h \in 1..Len(Groups),
             NEW s \in 1..Len(Sources(g)), NEW t \in 1..Len(Sources(h)),
             SourceAt(g, s) = SourceAt(h, t)
      PROVE  g = h /\ s = t
  <2>1. ~(g < h)
    <3> SUFFICES ASSUME g < h PROVE FALSE
      OBVIOUS
    <3>1. SourceAt(g, s) < SourceAt(h, t)
      BY <1>4
    <3> QED
      BY <1>6, <1>9, <3>1
  <2>2. ~(h < g)
    <3> SUFFICES ASSUME h < g PROVE FALSE
      OBVIOUS
    <3>1. SourceAt(h, t) < SourceAt(g, s)
      BY <1>4
    <3> QED
      BY <1>6, <1>9, <3>1
  <2>3. g = h
    BY <1>7, <2>1, <2>2
  <2> QED
    BY <1>5, <1>9, <2>3
<1> QED
  BY <1>8, <1>9

LEMMA SentInTyped ==
  ASSUME TypeOK, NEW g \in 1..Len(Groups)
  PROVE  /\ SentIn(g) \in Seq(Handled)
         /\ Groups[g].multicast =>
              /\ Len(SentIn(g)) = Len(Sources(g))
              /\ \A s \in 1..Len(Sources(g)) :
                   SentIn(g)[s] = [as |-> IF s <= Len(Groups[g].joins)
                                          THEN "join" ELSE "prune",
                                   source |-> <<g, s>>]
         /\ ~Groups[g].multicast => SentIn(g) = << >>
<1>0. Len(Groups) \in Nat /\ Len(Sources(g)) \in Nat
  BY GroupTyped, PacketTyped
<1> DEFINE one(s) == [as |-> IF s <= Len(Groups[g].joins) THEN "join" ELSE "prune",
                      source |-> <<g, s>>]
           all == [s \in 1..Len(Sources(g)) |-> one(s)]
<1>1. \A s \in 1..Len(Sources(g)) : one(s) \in Handled
  BY <1>0 DEF Handled
<1>2. all \in [1..Len(Sources(g)) -> Handled]
  <2> HIDE DEF one
  <2> QED
    BY <1>1
<1>3. all \in Seq(Handled) /\ Len(all) = Len(Sources(g))
  <2> HIDE DEF all
  <2> QED
    BY <1>0, <1>2
<1>4. CASE Groups[g].multicast
  BY <1>3, <1>4 DEF SentIn
<1>5. CASE ~Groups[g].multicast
  BY <1>5, EmptySeq DEF SentIn
<1> QED
  BY <1>4, <1>5

LEMMA SentUptoIs ==
  ASSUME TypeOK
  PROVE  /\ SentUpto[0] = << >>
         /\ \A g \in 1..Len(Groups) : SentUpto[g] = SentUpto[g - 1] \o SentIn(g)
         /\ \A g \in 0..Len(Groups) : SentUpto[g] \in Seq(Handled)
         /\ Sent = SentUpto[Len(Groups)]
<1> DEFINE n == Len(Groups)
           part == [g \in 1..n |-> SentIn(g)]
           F(f) == [g \in 0..n |-> IF g = 0 THEN << >> ELSE f[g - 1] \o SentIn(g)]
           G(f) == [g \in 0..n |-> IF g = 0 THEN << >> ELSE f[g - 1] \o part[g]]
<1>0. n \in Nat
  BY PacketTyped
<1>1. \A g \in 1..n : part[g] = SentIn(g) /\ part[g] \in Seq(Handled)
  BY SentInTyped
<1>2. \A f : F(f) = G(f)
  <2> SUFFICES ASSUME NEW f PROVE F(f) = G(f)
    OBVIOUS
  <2>1. ASSUME NEW g \in 0..n PROVE F(f)[g] = G(f)[g]
    <3>1. g # 0 => part[g] = SentIn(g)
      BY <1>0, <1>1
    <3> HIDE DEF n, part
    <3> QED
      BY <3>1
  <2>2. F(f) = [g \in 0..n |-> F(f)[g]] /\ G(f) = [g \in 0..n |-> G(f)[g]]
    OBVIOUS
  <2> HIDE DEF F, G
  <2> QED
    BY <2>1, <2>2
<1>3. SentUpto = F(SentUpto) /\ SentUpto = G(SentUpto)
  <2>1. \E f : f = G(f)
    <3> HIDE DEF part, n
    <3> QED
      BY <1>0, JoinedExist
  <2>2. SentUpto = CHOOSE f : f = F(f)
    BY DEF SentUpto
  <2> HIDE DEF F, G
  <2> QED
    BY <1>2, <2>1, <2>2
<1>4. \A g \in 0..n : SentUpto[g] \in Seq(Handled)
  <2> HIDE DEF part, n
  <2> QED
    BY <1>0, <1>1, <1>3, JoinedTyped
<1>5. \A g \in 0..n : SentUpto[g] = IF g = 0 THEN << >>
                                    ELSE SentUpto[g - 1] \o SentIn(g)
  <2>1. \A g \in 0..n : F(SentUpto)[g] = IF g = 0 THEN << >>
                                    ELSE SentUpto[g - 1] \o SentIn(g)
    OBVIOUS
  <2> HIDE DEF F, G
  <2> QED
    BY <1>3, <2>1
<1>6. Sent = SentUpto[n]
  BY DEF Sent, SentUpto
<1>7. \A g \in 1..n : g \in 0..n /\ g # 0
  BY <1>0
<1>8. 0 \in 0..n
  BY <1>0
<1> HIDE DEF n
<1>9. SentUpto[0] = << >> /\ \A g \in 1..n : SentUpto[g] = SentUpto[g - 1] \o SentIn(g)
  BY <1>5, <1>7, <1>8
<1> QED
  BY <1>4, <1>6, <1>9 DEF n

-----------------------------------------------------------------------------
(* The messages that are understood, and how far a walk through them is.   *)
Plain ==
  /\ packet.type # "graft_ack"
  /\ \/ OneSourceEach
     \/ /\ JoinPrune
        /\ \A g \in 1..Len(Groups) : \A s \in 1..Len(Sources(g)) :
             Sources(g)[s] = "unknown"

(* In group i, k of whose sources were handled.  A Graft's cursor waits at *)
(* the source until the end of the group.                                  *)
Reading(k) ==
  /\ i \in 1..Len(Groups) /\ group = i /\ Groups[i].multicast
  /\ mydata = Within(i, IF JoinPrune THEN k ELSE 0)
  /\ handled = SentUpto[i - 1] \o SubSeq(SentIn(i), 1, k)

AsSent ==
  Plain =>
    /\ ~astray
    /\ pc \in {"group", "done"} => mydata = Past(i) /\ handled = SentUpto[i]
    /\ pc = "done" => i = Len(Groups)
    /\ pc = "join" => /\ number <= Len(Groups[i].joins)
                      /\ Reading(Len(Groups[i].joins) - number)
    /\ pc = "prune" => /\ JoinPrune
                       /\ number <= Len(Groups[i].prunes)
                       /\ Reading(Len(Sources(i)) - number)

LEMMA SamePacket ==
  ASSUME packet' = packet
  PROVE  /\ Groups' = Groups /\ Plain' = Plain /\ JoinPrune' = JoinPrune
         /\ GroupAt' = GroupAt /\ SentUpto' = SentUpto
         /\ \A g : Sources(g)' = Sources(g) /\ SentIn(g)' = SentIn(g)
         /\ \A g : Past(g)' = Past(g) /\ \A k : Within(g, k)' = Within(g, k)
<1>1. Groups' = Groups /\ JoinPrune' = JoinPrune
  BY DEF Groups, JoinPrune
<1>2. \A g : Sources(g)' = Sources(g) /\ SentIn(g)' = SentIn(g)
  BY <1>1 DEF Groups, Sources, SentIn
<1>3. GroupAt' = GroupAt
  BY DEF GroupAt, Groups, Sources
<1>4. SentUpto' = SentUpto
  BY DEF SentUpto, Groups, Sources, SentIn
<1>5. \A g : Past(g)' = Past(g) /\ \A k : Within(g, k)' = Within(g, k)
  BY <1>2, <1>3 DEF Past, Within
<1>6. Plain' = Plain
  BY DEF Plain, OneSourceEach, JoinPrune, Groups, Sources
<1> QED
  BY <1>1, <1>2, <1>3, <1>4, <1>5, <1>6

LEMMA PlainNumbers ==
  ASSUME TypeOK, Plain, NEW g \in 1..Len(Groups)
  PROVE  /\ Len(Groups[g].joins) \in Nat /\ Len(Groups[g].prunes) \in Nat
         /\ Len(Sources(g)) = Len(Groups[g].joins) + Len(Groups[g].prunes)
         /\ join_number(g) = Len(Groups[g].joins)
         /\ JoinPrune => prune_number(g) = Len(Groups[g].prunes)
         /\ join_number(g) + prune_number(g) = Len(Sources(g))
<1>1. Groups[g].joins \in Seq(Source) /\ Groups[g].prunes \in Seq(Source)
  BY GroupTyped DEF Group
<1>2. Len(Groups[g].joins) \in Nat /\ Len(Groups[g].prunes) \in Nat
  BY <1>1
<1>3. Len(Sources(g)) = Len(Groups[g].joins) + Len(Groups[g].prunes)
  BY <1>1, ConcatProperties DEF Sources
<1>4. join_number(g) = Len(Groups[g].joins)
  BY DEF join_number, Plain
<1>5. JoinPrune => prune_number(g) = Len(Groups[g].prunes)
  BY DEF prune_number
<1>6. ~JoinPrune => prune_number(g) = 0 /\ Len(Groups[g].prunes) = 0
  BY EmptySeq DEF prune_number, Plain, OneSourceEach
<1> QED
  BY <1>2, <1>3, <1>4, <1>5, <1>6

(* One source moves the cursor by its size, or in a Graft not at all.      *)
LEMMA PlainStep ==
  ASSUME TypeOK, Plain, group \in 1..Len(Groups), Groups[group].multicast,
         NEW s \in 1..Len(Sources(group))
  PROVE  /\ Step(Sources(group)[s]) = IF JoinPrune THEN SOURCE ELSE 0
         /\ ~JoinPrune => Len(Sources(group)) = 1
<1>1. CASE Sources(group)[s] = "unknown" /\ JoinPrune
  BY <1>1 DEF Step
<1>2. CASE ~JoinPrune
  <2>1. Len(Sources(group)) = 1 /\ Sources(group)[1] # "unknown"
    BY <1>2 DEF Plain, OneSourceEach
  <2>2. s = 1
    BY <2>1
  <2>3. Sources(group)[s] # "unknown"
    BY <2>1, <2>2
  <2> QED
    BY <1>2, <2>1, <2>3 DEF Step, JoinPrune
<1>3. CASE Sources(group)[s] # "unknown" /\ JoinPrune
  <2>1. Len(Sources(group)) = 1
    <3>1. OneSourceEach
      BY <1>3 DEF Plain
    <3> QED
      BY <3>1 DEF OneSourceEach
  <2>2. SOURCE * (join_number(group) + prune_number(group)) = SOURCE
    <3> DEFINE both == join_number(group) + prune_number(group)
    <3>1. both = 1
      BY <2>1, PlainNumbers
    <3> HIDE DEF both
    <3>2. SOURCE * both = SOURCE
      BY <3>1 DEF SOURCE
    <3> QED
      BY <3>2 DEF both
  <2> DEFINE all == SOURCE * (join_number(group) + prune_number(group))
             source == Sources(group)[s]
  <2>3. all = SOURCE /\ source # "unknown"
    BY <1>3, <2>2
  <2> HIDE DEF all, source
  <2>4. Step(source) = SOURCE
    BY <1>3, <2>3 DEF Step, all
  <2> QED
    BY <1>3, <2>4 DEF source
<1> QED
  BY <1>1, <1>2, <1>3

LEMMA NextOfPart ==
  ASSUME NEW S, NEW u \in Seq(S), NEW t \in Seq(S), NEW k \in 0..Len(t) - 1
  PROVE  Append(u \o SubSeq(t, 1, k), t[k + 1]) = u \o SubSeq(t, 1, k + 1)
<1>0. Len(t) \in Nat /\ k \in Nat /\ k + 1 \in 1..Len(t)
  OBVIOUS
<1>1. t[k + 1] \in S /\ \A j \in 1..k + 1 : t[j] \in S
  BY <1>0, ElementOfSeq
<1>2. SubSeq(t, 1, k) \in Seq(S) /\ SubSeq(t, 1, k + 1) \in Seq(S)
  BY <1>0, <1>1, SubSeqProperties
<1>3. SubSeq(t, 1, k + 1) = SubSeq(t, 1, k) \o <<t[k + 1]>>
  <2>1. 1 \in 1..Len(t) /\ k + 1 \in 1..Len(t) /\ k + 1 - 1 = k
    BY <1>0
  <2> QED
    BY <2>1, SubSeqRecursiveSecond
<1>4. <<t[k + 1]>> \in Seq(S)
  <2> DEFINE e == t[k + 1]
  <2>1. e \in S
    BY <1>1
  <2> HIDE DEF e
  <2>2. <<e>> \in Seq(S)
    BY <2>1
  <2> QED
    BY <2>2 DEF e
<1>5. Append(u \o SubSeq(t, 1, k), t[k + 1]) = (u \o SubSeq(t, 1, k)) \o <<t[k + 1]>>
  BY <1>1, <1>2, ConcatProperties, AppendIsConcat
<1>6. (u \o SubSeq(t, 1, k)) \o <<t[k + 1]>> = u \o (SubSeq(t, 1, k) \o <<t[k + 1]>>)
  <2> DEFINE v == SubSeq(t, 1, k)  w == <<t[k + 1]>>
  <2>1. v \in Seq(S) /\ w \in Seq(S)
    BY <1>2, <1>4
  <2> HIDE DEF v, w
  <2>2. (u \o v) \o w = u \o (v \o w)
    BY <2>1, ConcatAssociative
  <2> QED
    BY <2>2 DEF v, w
<1> QED
  BY <1>3, <1>5, <1>6

SInv == IInv /\ AsSent

LEMMA InitAsSent == Init => AsSent
<1> SUFFICES ASSUME Init PROVE AsSent
  OBVIOUS
<1>1. TypeOK /\ i = 0 /\ mydata = 0 /\ handled = << >> /\ pc = "group" /\ astray = FALSE
  BY InitIInv DEF Init, IInv
<1>2. Past(0) = 0 /\ SentUpto[0] = << >>
  BY <1>1, SentUptoIs DEF Past
<1> QED
  BY <1>1, <1>2 DEF AsSent

LEMMA NothingOf ==
  ASSUME NEW S, NEW u \in Seq(S), NEW t \in Seq(S)
  PROVE  u \o SubSeq(t, 1, 0) = u
<1>1. SubSeq(t, 1, 0) = << >>
  BY SubSeqEmpty
<1> QED
  BY <1>1, ConcatEmptySeq

LEMMA ReadGroupAsSent == SInv /\ ReadGroup => AsSent'
<1> SUFFICES ASSUME SInv, ReadGroup, Plain PROVE AsSent'
  BY SamePacket DEF AsSent, ReadGroup
<1>1. /\ TypeOK /\ packet' = packet /\ handled' = handled /\ i' = i + 1
      /\ pc = "group" /\ ~astray /\ i \in Nat /\ i + 1 \in 1..Len(Groups)
  BY PacketTyped DEF SInv, IInv, TypeOK, ReadGroup, MoreGroups
<1>2. mydata = Past(i) /\ handled = SentUpto[i]
  BY <1>1 DEF SInv, AsSent
<1>3. GroupAt[i + 1] = mydata /\ mydata \in Nat
  <2>1. i + 1 - 1 = i
    BY <1>1
  <2> QED
    BY <1>1, <1>2, <2>1, GroupAtIs
<1>4. i + 1 \in GroupsHere /\ \A g \in GroupsHere : g = i + 1
  BY <1>1, <1>3, PlacesDiffer DEF GroupsHere
<1> DEFINE g == i + 1
<1>5. /\ Len(Groups[g].joins) \in Nat /\ Len(Sources(g)) \in Nat
      /\ join_number(g) = Len(Groups[g].joins)
      /\ join_number(g) + prune_number(g) = Len(Sources(g))
      /\ SentUpto[g] = SentUpto[g - 1] \o SentIn(g)
      /\ SentUpto[i] \in Seq(Handled) /\ g - 1 = i /\ SentIn(g) \in Seq(Handled)
      /\ ~Groups[g].multicast => SentIn(g) = << >>
  <2>1. i \in 0..Len(Groups)
    BY <1>1
  <2>2. g \in 1..Len(Groups) /\ g - 1 = i
    BY <1>1
  <2> HIDE DEF g
  <2>3. /\ Len(Groups[g].joins) \in Nat /\ Len(Sources(g)) \in Nat
        /\ join_number(g) = Len(Groups[g].joins)
        /\ join_number(g) + prune_number(g) = Len(Sources(g))
    BY <1>1, <2>2, PlainNumbers, GroupTyped
  <2>4. SentUpto[g] = SentUpto[g - 1] \o SentIn(g) /\ SentUpto[i] \in Seq(Handled)
    BY <1>1, <2>1, <2>2, SentUptoIs
  <2>5. /\ SentIn(g) \in Seq(Handled)
        /\ ~Groups[g].multicast => SentIn(g) = << >>
    BY <1>1, <2>2, SentInTyped
  <2> QED
    BY <2>2, <2>3, <2>4, <2>5
<1>6. CASE /\ Groups[g].multicast /\ group' = g
           /\ mydata' = mydata + HEADER
           /\ pc' = "join" /\ number' = join_number(g) /\ astray' = astray
  <2>1. Within(g, 0) = mydata'
    BY <1>3, <1>6 DEF Within, HEADER, SOURCE
  <2>2. handled' = SentUpto[g - 1] \o SubSeq(SentIn(g), 1, 0)
    BY <1>1, <1>2, <1>5, NothingOf
  <2>3. Len(Groups[g].joins) - number' = 0
    BY <1>5, <1>6
  <2>4. Within(g, IF JoinPrune THEN 0 ELSE 0) = mydata'
    BY <2>1
  <2>5. number' <= Len(Groups[g].joins)
    BY <1>5, <1>6
  <2>6. Reading(0)'
    BY <1>1, <1>6, <2>2, <2>4, SamePacket DEF Reading
  <2>7. Reading(Len(Groups[i].joins) - number)'
    <3>1. (Len(Groups[i].joins) - number)' = 0
      BY <1>1, <2>3, SamePacket
    <3> QED
      BY <2>6, <3>1 DEF Reading
  <2> QED
    BY <1>1, <1>6, <2>5, <2>7, SamePacket DEF AsSent
<1>7. CASE /\ ~Groups[g].multicast /\ group' = g
           /\ mydata' = mydata + HEADER
                          + SOURCE * (join_number(g) + prune_number(g))
           /\ pc' = pc /\ number' = number /\ astray' = astray
  <2>1. mydata' = Past(g)
    <3>1. mydata' = GroupAt[g] + HEADER + SOURCE * Len(Sources(g))
      BY <1>3, <1>5, <1>7
    <3> QED
      BY <1>1, <3>1 DEF Past, Within
  <2>2. handled' = SentUpto[g]
    BY <1>1, <1>2, <1>5, <1>7, ConcatEmptySeq
  <2> QED
    BY <1>1, <1>7, <2>1, <2>2, SamePacket DEF AsSent
<1> QED
  BY <1>4, <1>6, <1>7 DEF ReadGroup

LEMMA ReadSourceAsSent == SInv /\ ReadSource => AsSent'
<1> SUFFICES ASSUME SInv, ReadSource, Plain PROVE AsSent'
  BY SamePacket DEF AsSent, ReadSource
<1>1. /\ TypeOK /\ packet' = packet /\ i' = i /\ group' = group /\ pc' = pc
      /\ number' = number - 1 /\ number \in Nat /\ number > 0
      /\ pc \in {"join", "prune"} /\ ~astray
  BY DEF SInv, IInv, TypeOK, ReadSource
<1> DEFINE joins == Len(Groups[i].joins)
           last == IF pc = "join" THEN joins ELSE Len(Sources(i))
           k == last - number
<1>2. /\ Reading(k)
      /\ pc = "join" => number <= joins
      /\ pc = "prune" => JoinPrune /\ number <= Len(Groups[i].prunes)
  BY <1>1 DEF SInv, AsSent
<1>3. /\ i \in 1..Len(Groups) /\ group = i /\ Groups[i].multicast
      /\ mydata = Within(i, IF JoinPrune THEN k ELSE 0)
      /\ handled = SentUpto[i - 1] \o SubSeq(SentIn(i), 1, k)
  BY <1>2 DEF Reading
<1>4. /\ joins \in Nat /\ Len(Groups[i].prunes) \in Nat
      /\ Len(Sources(i)) = joins + Len(Groups[i].prunes)
  BY <1>1, <1>3, PlainNumbers
<1>5. /\ k \in 0..Len(Sources(i)) - 1 /\ k + 1 \in 1..Len(Sources(i)) /\ k \in Nat
      /\ (pc = "join" <=> k + 1 <= joins)
  <2> DEFINE prunes == Len(Groups[i].prunes)  all == Len(Sources(i))
  <2>1. joins \in Nat /\ prunes \in Nat /\ all = joins + prunes
    BY <1>4
  <2> HIDE DEF joins, prunes, all
  <2>2. CASE pc = "join"
    <3>1. k = joins - number /\ number <= joins
      BY <1>2, <2>2
    <3> HIDE DEF k, last
    <3>2. k \in 0..all - 1 /\ k + 1 \in 1..all /\ k \in Nat /\ k + 1 <= joins
      BY <1>1, <2>1, <3>1
    <3> QED
      BY <2>2, <3>2 DEF all
  <2>3. CASE pc = "prune"
    <3>1. k = all - number /\ number <= prunes
      BY <1>2, <2>3 DEF prunes, all
    <3> HIDE DEF k, last
    <3>2. k \in 0..all - 1 /\ k + 1 \in 1..all /\ k \in Nat /\ ~(k + 1 <= joins)
      BY <1>1, <2>1, <3>1
    <3> QED
      BY <2>3, <3>2 DEF all
  <2> QED
    BY <1>1, <2>2, <2>3
<1>6. ~JoinPrune => k = 0
  BY <1>1, <1>3, <1>5, PlainStep
<1> HIDE DEF k
<1>7. SourceAt(i, k + 1) = mydata
  <2>1. mydata = GroupAt[i] + HEADER + SOURCE * k
    <3>1. mydata = Within(i, k)
      BY <1>3, <1>6
    <3> QED
      BY <3>1 DEF Within
  <2>2. k + 1 - 1 = k
    BY <1>5
  <2> QED
    BY <1>5, <2>1, <2>2 DEF SourceAt, HEADER, SOURCE
<1>8. <<i, k + 1>> \in SourcesHere
  BY <1>3, <1>5, <1>7 DEF SourcesHere
<1>9. \A s \in SourcesHere : s = <<i, k + 1>>
  <2> SUFFICES ASSUME NEW s \in SourcesHere PROVE s = <<i, k + 1>>
    OBVIOUS
  <2>1. /\ s[1] \in 1..Len(Groups) /\ s[2] \in 1..Len(Sources(s[1]))
        /\ s = <<s[1], s[2]>> /\ SourceAt(s[1], s[2]) = mydata
    BY <1>1, HereTyped DEF At
  <2>2. s[1] = i /\ s[2] = k + 1
    BY <1>1, <1>3, <1>5, <1>7, <2>1, PlacesDiffer
  <2> QED
    BY <2>1, <2>2
<1>10. /\ handled' = Append(handled, [as |-> pc, source |-> <<i, k + 1>>])
       /\ mydata' = mydata + (IF JoinPrune THEN SOURCE ELSE 0)
       /\ ~astray'
  <2>1. Step(Sources(i)[k + 1]) = IF JoinPrune THEN SOURCE ELSE 0
    BY <1>1, <1>3, <1>5, PlainStep
  <2>2. PICK s \in SourcesHere :
          /\ handled' = Append(handled, [as |-> pc, source |-> s])
          /\ mydata' = mydata + Step(Sources(s[1])[s[2]])
          /\ astray' = astray
    BY <1>8 DEF ReadSource
  <2>3. s = <<i, k + 1>> /\ s[1] = i /\ s[2] = k + 1
    BY <1>9
  <2> QED
    BY <1>1, <2>1, <2>2, <2>3
<1>11. handled' = SentUpto[i - 1] \o SubSeq(SentIn(i), 1, k + 1)
  <2>1. SentIn(i)[k + 1] = [as |-> pc, source |-> <<i, k + 1>>]
    BY <1>1, <1>3, <1>5, SentInTyped
  <2>2. /\ SentIn(i) \in Seq(Handled) /\ SentUpto[i - 1] \in Seq(Handled)
        /\ Len(SentIn(i)) = Len(Sources(i))
    <3>1. i - 1 \in 0..Len(Groups)
      BY <1>1, <1>3, PacketTyped
    <3> QED
      BY <1>1, <1>3, <3>1, SentInTyped, SentUptoIs
  <2>3. k \in 0..Len(SentIn(i)) - 1
    BY <1>5, <2>2
  <2> QED
    BY <1>3, <1>10, <2>1, <2>2, <2>3, NextOfPart
<1>12. mydata' = Within(i, IF JoinPrune THEN k + 1 ELSE 0)
  <2>1. GroupAt[i] \in Nat
    BY <1>1, <1>3, GroupAtIs
  <2> QED
    BY <1>3, <1>5, <1>10, <2>1 DEF Within, SOURCE, HEADER
<1>13. PICK c : c = k + 1
  OBVIOUS
<1>14. Reading(c)'
  <2>1. /\ handled' = SentUpto[i - 1] \o SubSeq(SentIn(i), 1, c)
        /\ mydata' = Within(i, IF JoinPrune THEN c ELSE 0)
    BY <1>11, <1>12, <1>13
  <2>2. PICK j : j = i
    OBVIOUS
  <2>3. /\ j \in 1..Len(Groups') /\ i' = j /\ group' = j /\ Groups'[j].multicast
    BY <1>1, <1>3, <2>2, SamePacket
  <2>4. mydata' = GroupAt'[j] + HEADER + SOURCE * (IF JoinPrune' THEN c ELSE 0)
    BY <1>1, <2>1, <2>2, SamePacket DEF Within
  <2>5. handled' = SentUpto'[j - 1] \o SubSeq(SentIn(j)', 1, c)
    BY <1>1, <2>1, <2>2, SamePacket
  <2> QED
    BY <2>3, <2>4, <2>5 DEF Reading, Within
<1>15. last - (number - 1) = c
  <2> DEFINE l == last
  <2>1. k = l - number
    BY DEF k
  <2>2. l \in Nat
    <3>1. Len(Sources(i)) \in Nat
      BY <1>1, <1>3, GroupTyped
    <3> QED
      BY <1>4, <3>1
  <2> HIDE DEF l
  <2>3. l - (number - 1) = c
    BY <1>1, <1>13, <2>1, <2>2
  <2> QED
    BY <2>3 DEF l
<1>16. pc = "join" => Reading(Len(Groups[i].joins) - number)'
  <2> SUFFICES ASSUME pc = "join" PROVE Reading(Len(Groups[i].joins) - number)'
    OBVIOUS
  <2>1. (Len(Groups[i].joins) - number)' = c
    BY <1>1, <1>15, SamePacket
  <2> QED
    BY <1>14, <2>1 DEF Reading
<1>17. pc = "prune" => Reading(Len(Sources(i)) - number)'
  <2> SUFFICES ASSUME pc = "prune" PROVE Reading(Len(Sources(i)) - number)'
    OBVIOUS
  <2>1. (Len(Sources(i)) - number)' = c
    BY <1>1, <1>15, SamePacket
  <2> QED
    BY <1>14, <2>1 DEF Reading
<1>18. /\ pc = "join" => number' <= Len(Groups[i].joins)
       /\ pc = "prune" => number' <= Len(Groups[i].prunes)
  BY <1>1, <1>2, <1>4
<1> QED
  BY <1>1, <1>2, <1>10, <1>16, <1>17, <1>18, SamePacket DEF AsSent

LEMMA JoinsReadAsSent == SInv /\ JoinsRead => AsSent'
<1> SUFFICES ASSUME SInv, JoinsRead, Plain PROVE AsSent'
  BY SamePacket DEF AsSent, JoinsRead
<1>1. /\ TypeOK /\ packet' = packet /\ i' = i /\ group' = group /\ pc' = "prune"
      /\ mydata' = mydata /\ handled' = handled /\ number = 0 /\ JoinPrune
      /\ number' = prune_number(group) /\ pc = "join" /\ ~astray'
  BY DEF SInv, IInv, JoinsRead
<1> DEFINE joins == Len(Groups[i].joins)
<1>2. Reading(joins - 0)
  BY <1>1 DEF SInv, AsSent
<1>3. PICK j : j = i
  OBVIOUS
<1>4. PICK c : c = joins
  OBVIOUS
<1>5. /\ j \in 1..Len(Groups) /\ group = j /\ Groups[j].multicast
      /\ joins \in Nat /\ Len(Groups[j].prunes) \in Nat
      /\ Len(Sources(j)) = joins + Len(Groups[j].prunes)
      /\ number' = Len(Groups[j].prunes)
  <2>1. j \in 1..Len(Groups) /\ group = j /\ Groups[j].multicast
    BY <1>2, <1>3 DEF Reading
  <2> QED
    BY <1>1, <1>3, <2>1, PlainNumbers
<1>6. joins - 0 = c
  BY <1>4, <1>5
<1>7. /\ mydata = GroupAt[j] + HEADER + SOURCE * c
      /\ handled = SentUpto[j - 1] \o SubSeq(SentIn(j), 1, c)
  BY <1>1, <1>2, <1>3, <1>6 DEF Reading, Within
<1>8. Reading(c)'
  <2>1. /\ j \in 1..Len(Groups') /\ i' = j /\ group' = j /\ Groups'[j].multicast
    BY <1>1, <1>3, <1>5, SamePacket
  <2>2. mydata' = GroupAt'[j] + HEADER + SOURCE * (IF JoinPrune' THEN c ELSE 0)
    BY <1>1, <1>7, SamePacket
  <2>3. handled' = SentUpto'[j - 1] \o SubSeq(SentIn(j)', 1, c)
    BY <1>1, <1>7, SamePacket
  <2> QED
    BY <2>1, <2>2, <2>3 DEF Reading, Within
<1>9. Reading(Len(Sources(i)) - number)'
  <2>1. Len(Sources(j)) - Len(Groups[j].prunes) = c
    BY <1>4, <1>5
  <2>2. (Len(Sources(i)) - number)' = c
    BY <1>1, <1>3, <1>5, <2>1, SamePacket
  <2> QED
    BY <1>8, <2>2 DEF Reading
<1>10. number' <= Len(Groups'[i'].prunes)
  BY <1>1, <1>3, <1>5, SamePacket
<1> QED
  BY <1>1, <1>9, <1>10, SamePacket DEF AsSent

LEMMA GroupReadAsSent == SInv /\ GroupRead => AsSent'
<1> SUFFICES ASSUME SInv, GroupRead, Plain PROVE AsSent'
  BY SamePacket DEF AsSent, GroupRead
<1>1. /\ TypeOK /\ packet' = packet /\ i' = i /\ pc' = "group" /\ number = 0
      /\ mydata' = mydata + PastGroup /\ handled' = handled /\ ~astray'
      /\ pc = IF JoinPrune THEN "prune" ELSE "join"
  BY DEF SInv, IInv, GroupRead
<1> DEFINE all == Len(Sources(i))
<1>2. i \in 1..Len(Groups) /\ group = i /\ Groups[i].multicast
  BY <1>1 DEF SInv, AsSent, Reading
<1>3. /\ all \in Nat /\ GroupAt[i] \in Nat
      /\ Len(Groups[i].joins) \in Nat /\ Len(Groups[i].prunes) \in Nat
      /\ all = Len(Groups[i].joins) + Len(Groups[i].prunes)
      /\ SentUpto[i] = SentUpto[i - 1] \o SentIn(i)
      /\ SentIn(i) \in Seq(Handled) /\ Len(SentIn(i)) = all
  BY <1>1, <1>2, PlainNumbers, GroupTyped, GroupAtIs, SentUptoIs, SentInTyped
<1>4. ~JoinPrune => all = 1 /\ Len(Groups[i].joins) = 1
  <2> SUFFICES ASSUME ~JoinPrune PROVE all = 1 /\ Len(Groups[i].joins) = 1
    OBVIOUS
  <2>1. all = 1 /\ Groups[i].prunes = << >>
    BY <1>2 DEF Plain, OneSourceEach
  <2>2. Len(Groups[i].prunes) = 0
    BY <2>1, EmptySeq
  <2> QED
    BY <1>3, <2>1, <2>2
<1>5. Reading(all)
  <2>1. CASE JoinPrune
    <3>1. Reading(all - number)
      BY <1>1, <2>1 DEF SInv, AsSent
    <3>2. all - number = all
      <4> HIDE DEF all
      <4> QED
        BY <1>1, <1>3
    <3> QED
      BY <3>1, <3>2
  <2>2. CASE ~JoinPrune
    <3>1. Reading(Len(Groups[i].joins) - number)
      BY <1>1, <2>2 DEF SInv, AsSent
    <3>2. Len(Groups[i].joins) - number = all
      <4>1. Len(Groups[i].joins) = 1 /\ all = 1 /\ number = 0
        BY <1>1, <1>4, <2>2
      <4> HIDE DEF all
      <4> QED
        BY <4>1
    <3> QED
      BY <3>1, <3>2
  <2> QED
    BY <2>1, <2>2
<1>6. mydata' = Past(i)
  <2>1. Past(i) = GroupAt[i] + HEADER + SOURCE * all
    BY <1>2 DEF Past, Within
  <2>2. CASE JoinPrune
    <3>1. PastGroup = 0
      BY <2>2 DEF PastGroup, JoinPrune
    <3>2. mydata = GroupAt[i] + HEADER + SOURCE * all
      BY <1>5, <2>2 DEF Reading, Within
    <3>3. mydata \in Nat
      BY <1>1 DEF TypeOK
    <3> QED
      BY <1>1, <2>1, <3>1, <3>2, <3>3
  <2>3. CASE ~JoinPrune
    <3>1. packet.type = "graft"
      BY <1>1, <2>3, PacketTyped DEF Plain, JoinPrune, Type
    <3>2. PastGroup = 2
      BY <3>1 DEF PastGroup, SOURCE
    <3>3. mydata = GroupAt[i] + 3
      BY <1>3, <1>5, <2>3 DEF Reading, Within, HEADER, SOURCE
    <3>4. Past(i) = GroupAt[i] + 5
      <4>1. all = 1 /\ GroupAt[i] \in Nat
        BY <1>3, <1>4, <2>3
      <4> HIDE DEF all
      <4> QED
        BY <2>1, <4>1 DEF HEADER, SOURCE
    <3> QED
      BY <1>1, <1>3, <3>2, <3>3, <3>4
  <2> QED
    BY <2>2, <2>3
<1>7. handled' = SentUpto[i]
  <2>1. SubSeq(SentIn(i), 1, all) = SentIn(i)
    BY <1>3, SubSeqFull
  <2>2. handled = SentUpto[i - 1] \o SubSeq(SentIn(i), 1, all)
    BY <1>5 DEF Reading
  <2> QED
    BY <1>1, <1>3, <2>1, <2>2
<1> QED
  BY <1>1, <1>6, <1>7, SamePacket DEF AsSent

LEMMA ReadingStays ==
  ASSUME packet' = packet, mydata' = mydata, i' = i, group' = group,
         handled' = handled, NEW k, Reading(k)
  PROVE  Reading(k)'
<1>1. PICK j : j = i
  OBVIOUS
<1>2. /\ j \in 1..Len(Groups') /\ i' = j /\ group' = j /\ Groups'[j].multicast
  BY <1>1, SamePacket DEF Reading
<1>3. mydata' = GroupAt'[j] + HEADER + SOURCE * (IF JoinPrune' THEN k ELSE 0)
  BY <1>1, SamePacket DEF Reading, Within
<1>4. handled' = SentUpto'[j - 1] \o SubSeq(SentIn(j)', 1, k)
  BY <1>1, SamePacket DEF Reading
<1> QED
  BY <1>2, <1>3, <1>4 DEF Reading, Within

LEMMA RestAsSent == SInv /\ (Done \/ UNCHANGED vars) => AsSent'
<1> SUFFICES ASSUME SInv, Done \/ UNCHANGED vars, Plain PROVE AsSent'
  BY SamePacket DEF AsSent, Done, vars
<1>1. /\ packet' = packet /\ mydata' = mydata /\ i' = i /\ group' = group
      /\ number' = number /\ handled' = handled /\ astray' = astray
  BY DEF Done, vars
<1>2. CASE Done
  <2>1. pc = "group" /\ pc' = "done" /\ i = Len(Groups)
    BY <1>2, PacketTyped DEF Done, MoreGroups, SInv, IInv, TypeOK
  <2> QED
    BY <1>1, <2>1, SamePacket DEF SInv, AsSent
<1>3. CASE UNCHANGED vars
  <2>1. pc' = pc
    BY <1>3 DEF vars
  <2>2. CASE pc = "join"
    <3>1. PICK k : k = Len(Groups[i].joins) - number
      OBVIOUS
    <3>2. Reading(k) /\ number <= Len(Groups[i].joins)
      BY <2>2, <3>1 DEF SInv, AsSent
    <3>3. Reading(k)'
      BY <1>1, <3>2, ReadingStays
    <3>4. (Len(Groups[i].joins) - number)' = k /\ number' <= Len(Groups'[i'].joins)
      BY <1>1, <3>1, <3>2, SamePacket
    <3>5. Reading(Len(Groups[i].joins) - number)'
      BY <3>3, <3>4 DEF Reading
    <3> QED
      BY <1>1, <2>1, <2>2, <3>4, <3>5, SamePacket DEF SInv, AsSent
  <2>3. CASE pc = "prune"
    <3>1. PICK k : k = Len(Sources(i)) - number
      OBVIOUS
    <3>2. Reading(k) /\ number <= Len(Groups[i].prunes)
      BY <2>3, <3>1 DEF SInv, AsSent
    <3>3. Reading(k)'
      BY <1>1, <3>2, ReadingStays
    <3>4. (Len(Sources(i)) - number)' = k /\ number' <= Len(Groups'[i'].prunes)
      BY <1>1, <3>1, <3>2, SamePacket
    <3>5. Reading(Len(Sources(i)) - number)'
      BY <3>3, <3>4 DEF Reading
    <3> QED
      BY <1>1, <2>1, <2>3, <3>4, <3>5, SamePacket DEF SInv, AsSent
  <2>4. CASE pc \notin {"join", "prune"}
    BY <1>1, <2>1, <2>4, SamePacket DEF SInv, AsSent
  <2> QED
    BY <2>2, <2>3, <2>4
<1> QED
  BY <1>2, <1>3

(* Messages of one source for each group, and Joins and Prunes of sources  *)
(* that are all unknown, are understood as they were sent, for any number  *)
(* of groups and of sources (pim.c:513-660, 862-906).                      *)
THEOREM WalkReadAsSent == Spec => []ReadAsSent
<1>1. Init => SInv
  BY InitIInv, InitAsSent DEF SInv
<1>2. SInv /\ [Next]_vars => SInv'
  <2>1. SInv /\ [Next]_vars => IInv'
    BY NextIInv DEF SInv
  <2>2. SInv /\ [Next]_vars => AsSent'
    BY ReadGroupAsSent, ReadSourceAsSent, JoinsReadAsSent, GroupReadAsSent,
       RestAsSent DEF Next
  <2> QED
    BY <2>1, <2>2 DEF SInv
<1>3. SInv => ReadAsSent
  <2> SUFFICES ASSUME SInv, Plain PROVE ~astray /\ (pc = "done" => handled = Sent)
    BY DEF ReadAsSent, Plain
  <2>1. Sent = SentUpto[Len(Groups)]
    BY SentUptoIs DEF SInv, IInv
  <2> QED
    BY <2>1 DEF SInv, AsSent
<1> QED
  BY <1>1, <1>2, <1>3, PTL DEF Spec

-----------------------------------------------------------------------------
(* What lies in a queue s of unread messages past the place p: a Graft of  *)
(* d, a Join.  A Prune, or the echo of one, will be answered by the router *)
(* that reads it if no Join comes after it, for a Join that is overheard   *)
(* makes the answer superfluous.                                           *)
GraftIn(s, p, d) ==
  \E j \in (p + 1)..Len(s) : s[j] = [type |-> "graft", from |-> d]

JoinIn(s, p) == \E j \in (p + 1)..Len(s) : s[j].type = "join"

Answer(s, p) ==
  p \in 1..Len(s) /\ s[p].type \in {"prune", "echo"} /\ ~JoinIn(s, p)

Answered(s) == \E k \in 1..Len(s) : Answer(s, k)

(* While none is lost yet (n = 0) there is a second one, its echo.         *)
Answers(s, n) ==
  \E p \in 1..Len(s) : /\ Answer(s, p)
                       /\ n = 0 => \E k \in 1..Len(s) : k # p /\ Answer(s, k)

Box == inbox["up"]

(* d will send a Join in less than n seconds, and no Join that it has not  *)
(* read yet will clear the timer.                                          *)
Joining(d, n) ==
  \E u \in Of(d, "send_join") :
    u.left < n /\ (u.id # timer_id[d] \/ ~JoinIn(inbox[d], 0))

(* A Prune that is carried out in n seconds does not cut d off: a Graft or *)
(* a Join is on its way, or will be in time.                               *)
Safe(d, n) ==
  \/ GraftIn(Box, 0, d)
  \/ n > 0 /\ JoinIn(Box, 0)
  \/ n > JoinDelay /\ Answers(inbox[d], lost)
  \/ Joining(d, n)

(* Nor will the Prune that is unread at place p, when it is read, for its  *)
(* echo is still to come.                                                  *)
SafeUnread(d, p) ==
  \/ GraftIn(Box, p, d)
  \/ JoinIn(Box, p)
  \/ lost # 0
  \/ Answered(inbox[d])
  \/ Joining(d, PIM_PRUNE_DELAY)

CoveredFor(d) ==
  /\ \A t \in Of("up", "set_prune") : Safe(d, t.left)
  /\ \A p \in 1..Len(Box) : Box[p].type = "prune" => SafeUnread(d, p)
  /\ ~outvif => GraftIn(Box, 0, d)

(* The Prune that is delayed, if there is one, is the one remembered.      *)
OnePrune ==
  \A t, u \in Of("up", "set_prune") : t = u /\ t.id = timer_id["up"]

Covered ==
  /\ OnePrune
  /\ \A d \in Router : wants[d] => CoveredFor(d)

SubnetInv ==
  /\ SubnetTypeOK
  /\ missed => lost # 0
  /\ ~missed /\ ~overlapped => Covered

-----------------------------------------------------------------------------
(* Queues: one more message at the end, one less at the head.              *)
LEMMA AppendOf ==
  ASSUME NEW s \in Seq(Message), NEW m \in Message, NEW r, r = Append(s, m)
  PROVE  /\ r \in Seq(Message)
         /\ Len(s) \in Nat /\ Len(r) = Len(s) + 1
         /\ \A p \in 1..Len(s) : r[p] = s[p]
         /\ r[Len(s) + 1] = m
  BY AppendProperties, LenProperties

LEMMA TailOf ==
  ASSUME NEW s \in Seq(Message), s # << >>, NEW r, r = Tail(s)
  PROVE  /\ r \in Seq(Message)
         /\ Len(s) \in Nat /\ Len(s) >= 1 /\ Len(r) = Len(s) - 1
         /\ Head(s) = s[1] /\ Head(s) \in Message
         /\ \A p \in 1..Len(r) : r[p] = s[p + 1]
<1>1. /\ r \in Seq(Message) /\ Head(s) \in Message /\ Head(s) = s[1]
      /\ Len(r) = Len(s) - 1 /\ \A p \in 1..Len(r) : r[p] = s[p + 1]
  BY HeadTailProperties
<1>2. Len(s) \in Nat /\ Len(s) # 0
  BY LenProperties, EmptySeq
<1> QED
  BY <1>1, <1>2

(* What another unread message changes.                                    *)
LEMMA AppendedIn ==
  ASSUME NEW s \in Seq(Message), NEW m \in Message, NEW r, r = Append(s, m),
         NEW p \in Nat
  PROVE  /\ \A d : GraftIn(s, p, d) => GraftIn(r, p, d)
         /\ JoinIn(s, p) => JoinIn(r, p)
         /\ p <= Len(s) /\ m.type = "join" => JoinIn(r, p)
         /\ \A d : p <= Len(s) /\ m = [type |-> "graft", from |-> d] => GraftIn(r, p, d)
         /\ m.type # "join" /\ ~JoinIn(s, p) => ~JoinIn(r, p)
         /\ m.type # "join" /\ Answer(s, p) => Answer(r, p)
<1>1. /\ Len(s) \in Nat /\ Len(r) = Len(s) + 1
      /\ \A j \in 1..Len(s) : r[j] = s[j]
      /\ r[Len(s) + 1] = m
  BY AppendOf
<1>2. \A d : GraftIn(s, p, d) => GraftIn(r, p, d)
  BY <1>1 DEF GraftIn
<1>3. JoinIn(s, p) => JoinIn(r, p)
  BY <1>1 DEF JoinIn
<1>4. p <= Len(s) /\ m.type = "join" => JoinIn(r, p)
  BY <1>1 DEF JoinIn
<1>5. \A d : p <= Len(s) /\ m = [type |-> "graft", from |-> d] => GraftIn(r, p, d)
  BY <1>1 DEF GraftIn
<1>6. m.type # "join" /\ ~JoinIn(s, p) => ~JoinIn(r, p)
  BY <1>1 DEF JoinIn
<1>7. m.type # "join" /\ Answer(s, p) => Answer(r, p)
  <2> SUFFICES ASSUME m.type # "join", Answer(s, p) PROVE Answer(r, p)
    OBVIOUS
  <2>1. p \in 1..Len(s) /\ ~JoinIn(s, p) /\ s[p].type \in {"prune", "echo"}
    BY DEF Answer
  <2>2. p \in 1..Len(r) /\ r[p] = s[p]
    BY <1>1, <2>1
  <2> QED
    BY <1>6, <2>1, <2>2 DEF Answer
<1> QED
  BY <1>2, <1>3, <1>4, <1>5, <1>6, <1>7

LEMMA AppendedAnswers ==
  ASSUME NEW s \in Seq(Message), NEW m \in Message, NEW r, r = Append(s, m),
         m.type # "join", NEW n
  PROVE  /\ Answers(s, n) => Answers(r, n)
         /\ Answered(s) => Answered(r)
         /\ m.type \in {"prune", "echo"} =>
              /\ Answer(r, Len(s) + 1)
              /\ Answered(r)
              /\ Answered(s) \/ n # 0 => Answers(r, n)
<1>1. /\ Len(s) \in Nat /\ Len(r) = Len(s) + 1
      /\ r[Len(s) + 1] = m
  BY AppendOf
<1>2. ASSUME NEW p \in 1..Len(s), Answer(s, p)
      PROVE  Answer(r, p) /\ p \in 1..Len(r)
  <2>1. p \in Nat /\ p \in 1..Len(r)
    BY <1>1
  <2> QED
    BY <1>2, <2>1, AppendedIn
<1>3. Answers(s, n) => Answers(r, n)
  BY <1>2 DEF Answers
<1>4. m.type \in {"prune", "echo"} => Answer(r, Len(s) + 1)
  BY <1>1 DEF Answer, JoinIn
<1>5. Answered(s) => Answered(r)
  BY <1>2 DEF Answered
<1>6. /\ Len(s) + 1 \in 1..Len(r)
      /\ \A k \in 1..Len(s) : k \in 1..Len(r) /\ k # Len(s) + 1
  BY <1>1
<1>7. ASSUME m.type \in {"prune", "echo"}, Answered(s) \/ n # 0
      PROVE  Answers(r, n)
  BY <1>2, <1>4, <1>6, <1>7 DEF Answers, Answered
<1> QED
  BY <1>3, <1>4, <1>5, <1>6, <1>7 DEF Answered

(* What it changes that the first has been read, or is lost.               *)
LEMMA TailIn ==
  ASSUME NEW s \in Seq(Message), s # << >>, NEW r, r = Tail(s)
  PROVE  /\ \A d : \A p \in 1..Len(s) : GraftIn(s, p, d) => GraftIn(r, p - 1, d)
         /\ \A d : GraftIn(s, 0, d) /\ Head(s) # [type |-> "graft", from |-> d]
                   => GraftIn(r, 0, d)
         /\ \A p \in 1..Len(s) : JoinIn(s, p) => JoinIn(r, p - 1)
         /\ JoinIn(s, 0) /\ Head(s).type # "join" => JoinIn(r, 0)
         /\ ~JoinIn(s, 0) => ~JoinIn(r, 0)
         /\ \A p \in 2..Len(s) : Answer(s, p) => Answer(r, p - 1)
         /\ Answer(s, 1) => ~JoinIn(r, 0)
<1>1. /\ Len(s) \in Nat /\ Len(s) >= 1 /\ Len(r) = Len(s) - 1
      /\ Head(s) = s[1]
      /\ \A p \in 1..Len(r) : r[p] = s[p + 1]
  BY TailOf
<1>2. \A j \in 2..Len(s) : j - 1 \in 1..Len(r) /\ r[j - 1] = s[j]
  BY <1>1
<1>3. ASSUME NEW d, NEW p \in 1..Len(s), GraftIn(s, p, d) PROVE GraftIn(r, p - 1, d)
  <2>1. PICK j \in (p + 1)..Len(s) : s[j] = [type |-> "graft", from |-> d]
    BY <1>3 DEF GraftIn
  <2>2. j \in 2..Len(s) /\ j - 1 \in ((p - 1) + 1)..Len(r)
    BY <1>1
  <2> QED
    BY <1>2, <2>1, <2>2 DEF GraftIn
<1>4. ASSUME NEW d, GraftIn(s, 0, d), Head(s) # [type |-> "graft", from |-> d]
      PROVE  GraftIn(r, 0, d)
  <2>1. PICK j \in 1..Len(s) : s[j] = [type |-> "graft", from |-> d]
    BY <1>1, <1>4 DEF GraftIn
  <2>2. j # 1
    BY <1>1, <1>4, <2>1
  <2>3. j \in 2..Len(s) /\ j - 1 \in (0 + 1)..Len(r) /\ r[j - 1] = s[j]
    BY <1>1, <1>2, <2>2
  <2> QED
    BY <2>1, <2>3 DEF GraftIn
<1>5. ASSUME NEW p \in 1..Len(s), JoinIn(s, p) PROVE JoinIn(r, p - 1)
  <2>1. PICK j \in (p + 1)..Len(s) : s[j].type = "join"
    BY <1>5 DEF JoinIn
  <2>2. j \in 2..Len(s) /\ j - 1 \in ((p - 1) + 1)..Len(r)
    BY <1>1
  <2> QED
    BY <1>2, <2>1, <2>2 DEF JoinIn
<1>6. JoinIn(s, 0) /\ Head(s).type # "join" => JoinIn(r, 0)
  BY <1>1, <1>2 DEF JoinIn
<1>7. ASSUME NEW p \in 1..Len(s), JoinIn(r, p - 1) PROVE JoinIn(s, p)
  BY <1>1, <1>7 DEF JoinIn
<1>8. ~JoinIn(s, 0) => ~JoinIn(r, 0)
  BY <1>1 DEF JoinIn
<1>9. \A p \in 2..Len(s) : Answer(s, p) => Answer(r, p - 1)
  BY <1>1, <1>2, <1>7 DEF Answer
<1>10. Answer(s, 1) => ~JoinIn(r, 0)
  BY <1>1, <1>7 DEF Answer
<1> QED
  BY <1>3, <1>4, <1>5, <1>6, <1>8, <1>9, <1>10

LEMMA TailAnswers ==
  ASSUME NEW s \in Seq(Message), s # << >>, NEW r, r = Tail(s), NEW n
  PROVE  /\ Answers(s, n) => Answers(r, n) \/ ~JoinIn(r, 0)
         /\ Answers(s, n) /\ Head(s).type \notin {"prune", "echo"} => Answers(r, n)
         /\ Answers(s, 0) => Answers(r, 1)
         /\ \A p \in 1..Len(s) : Answer(s, p) =>
              \/ ~JoinIn(r, 0) /\ Head(s).type \in {"prune", "echo"}
              \/ Answered(r)
<1>1. /\ Len(s) \in Nat /\ Len(s) >= 1 /\ Len(r) = Len(s) - 1
      /\ Head(s) = s[1]
  BY TailOf
<1>2. ASSUME NEW p \in 2..Len(s), Answer(s, p)
      PROVE  Answer(r, p - 1) /\ p - 1 \in 1..Len(r)
  <2>1. p - 1 \in 1..Len(r)
    BY <1>1
  <2> QED
    BY <1>2, <2>1, TailIn
<1>3. Answer(s, 1) => ~JoinIn(r, 0) /\ Head(s).type \in {"prune", "echo"}
  BY <1>1, TailIn DEF Answer
<1>4. \A p \in 1..Len(s) : p # 1 => p \in 2..Len(s)
  BY <1>1
<1>5. \A p, k \in 2..Len(s) : p # k => p - 1 # k - 1
  BY <1>1
<1>6. ASSUME ~Answer(s, 1), Answers(s, n) PROVE Answers(r, n)
  BY <1>2, <1>4, <1>5, <1>6 DEF Answers
<1>7. Answers(s, 0) => Answers(r, 1)
  BY <1>2, <1>4 DEF Answers
<1> QED
  BY <1>2, <1>3, <1>4, <1>6, <1>7 DEF Answered

LEMMA DelaysAre ==
  /\ JoinDelay \in Nat \ {0} /\ PIM_PRUNE_DELAY \in Nat \ {0}
  /\ PruneHold \in Nat \ {0} /\ PIM_GRAFT_TIMER \in Nat \ {0}
  /\ JoinDelay < PIM_PRUNE_DELAY
  /\ MaxChanges \in Nat /\ MaxLost \in Nat
  /\ MaxDelay \in Nat
  /\ \A d \in Delay : d <= MaxDelay
<1>1. /\ JoinDelay \in Nat \ {0} /\ PIM_PRUNE_DELAY \in Nat \ {0}
      /\ PruneHold \in Nat \ {0} /\ PIM_GRAFT_TIMER \in Nat \ {0}
      /\ JoinDelay < PIM_PRUNE_DELAY
      /\ MaxChanges \in Nat /\ MaxLost \in Nat
  BY SubnetAssumption DEF Delay
<1>2. \E d \in Delay : \A e \in Delay : e <= d
  <2> DEFINE Larger(a, b) == IF a <= b THEN b ELSE a
             m == Larger(PIM_PRUNE_DELAY, Larger(PruneHold, PIM_GRAFT_TIMER))
  <2>1. m \in Delay /\ \A e \in Delay : e <= m
    BY <1>1 DEF Delay
  <2> QED
    BY <2>1
<1>3. MaxDelay \in Delay /\ \A d \in Delay : d <= MaxDelay
  BY <1>2 DEF MaxDelay
<1> QED
  BY <1>1, <1>3 DEF Delay

(* Of one more identifier than there are timers one is free.               *)
LEMMA NewIdIs ==
  ASSUME IsFiniteSet(timers), NEW r, NEW f
  PROVE  /\ NewId(r, f) \in Nat \ {0}
         /\ \A t \in Of(r, f) : t.id # NewId(r, f)
<1> DEFINE S == Of(r, f)  k == Cardinality(S)  ids == {t.id : t \in S}
           I == 1..(k + 1)
<1>1. IsFiniteSet(S) /\ k \in Nat
  <2>1. S \subseteq timers
    BY DEF Of
  <2> QED
    BY <2>1, FS_Subset, FS_CardinalityType
<1>2. [t \in S |-> t.id] \in Surjection(S, ids)
  BY DEF Surjection
<1>3. IsFiniteSet(ids) /\ Cardinality(ids) <= k
  BY <1>1, <1>2, FS_Surjection
<1>4. IsFiniteSet(I) /\ Cardinality(I) = k + 1
  <2>1. 1 \in Int /\ k + 1 \in Int /\ ~(1 > k + 1) /\ (k + 1) - 1 + 1 = k + 1
    BY <1>1
  <2> HIDE DEF k
  <2> QED
    BY <2>1, FS_Interval
<1>5. ~(I \subseteq ids)
  <2> SUFFICES ASSUME I \subseteq ids PROVE FALSE
    OBVIOUS
  <2>1. Cardinality(I) <= Cardinality(ids)
    <3> HIDE DEF I, ids
    <3> QED
      BY <1>3, FS_Subset
  <2>2. Cardinality(ids) \in Nat
    BY <1>3, FS_CardinalityType
  <2> HIDE DEF k, I, ids
  <2> QED
    BY <1>1, <1>3, <1>4, <2>1, <2>2
<1>6. \E n \in I : \A t \in S : t.id # n
  BY <1>5
<1>7. NewId(r, f) = CHOOSE n \in I : \A t \in S : t.id # n
  BY DEF NewId
<1>8. NewId(r, f) \in I /\ \A t \in S : t.id # NewId(r, f)
  <2> HIDE DEF I, S
  <2> QED
    BY <1>6, <1>7
<1>9. I \subseteq Nat \ {0}
  BY <1>1
<1> QED
  BY <1>8, <1>9

LEMMA NewTyped ==
  ASSUME IsFiniteSet(timers), NEW r \in All, NEW f \in Func, NEW d \in Delay
  PROVE  /\ New(r, f, d) \in Timer
         /\ New(r, f, d).at = r /\ New(r, f, d).func = f
         /\ New(r, f, d).id = NewId(r, f) /\ New(r, f, d).left = d
<1>1. NewId(r, f) \in Nat \ {0}
  BY NewIdIs
<1>2. d \in 0..MaxDelay
  BY DelaysAre DEF Delay
<1> QED
  BY <1>1, <1>2 DEF New, Timer

LEMMA Finite ==
  ASSUME NEW S, IsFiniteSet(S), NEW t, NEW R
  PROVE  IsFiniteSet(S \ R) /\ IsFiniteSet(S \union {t})
         /\ IsFiniteSet((S \ R) \union {t})
  BY FS_Difference, FS_AddElement

-----------------------------------------------------------------------------
LEMMA ToldTyped ==
  ASSUME NEW box \in [All -> Seq(Message)], NEW from \in All,
         NEW type \in {"join", "prune", "echo", "graft", "graft_ack"}
  PROVE  /\ Told(box, from, type) \in [All -> Seq(Message)]
         /\ [type |-> type, from |-> from] \in Message
         /\ Told(box, from, type)[from] = box[from]
         /\ \A r \in All \ {from} :
              Told(box, from, type)[r] = Append(box[r], [type |-> type, from |-> from])
<1>1. [type |-> type, from |-> from] \in Message
  BY DEF Message
<1>2. \A r \in All : Append(box[r], [type |-> type, from |-> from]) \in Seq(Message)
  <2> SUFFICES ASSUME NEW r \in All
               PROVE  Append(box[r], [type |-> type, from |-> from]) \in Seq(Message)
    OBVIOUS
  <2>1. box[r] \in Seq(Message)
    OBVIOUS
  <2> QED
    BY <1>1, <2>1, AppendOf
<1> QED
  BY <1>1, <1>2 DEF Told

LEMMA ReadTyped ==
  ASSUME inbox \in [All -> Seq(Message)], NEW r \in All, inbox[r] # << >>
  PROVE  /\ Read(r) \in [All -> Seq(Message)]
         /\ Read(r)[r] = Tail(inbox[r])
         /\ \A s \in All \ {r} : Read(r)[s] = inbox[s]
         /\ Head(inbox[r]) \in Message
<1>1. inbox[r] \in Seq(Message)
  OBVIOUS
<1>2. Tail(inbox[r]) \in Seq(Message) /\ Head(inbox[r]) \in Message
  BY <1>1, TailOf
<1> QED
  BY <1>2 DEF Read

LEMMA SentTyped ==
  ASSUME NEW box \in [All -> Seq(Message)], NEW to \in All, NEW m \in Message
  PROVE  LET x == [box EXCEPT ![to] = Append(@, m)]
         IN  /\ x \in [All -> Seq(Message)]
             /\ x[to] = Append(box[to], m)
             /\ \A r \in All \ {to} : x[r] = box[r]
<1>1. box[to] \in Seq(Message)
  OBVIOUS
<1>2. Append(box[to], m) \in Seq(Message)
  BY <1>1, AppendOf
<1> QED
  BY <1>2

LEMMA NoIdIs == NoId \in Nat /\ "up" \in All /\ \A d \in Router : d \in All /\ d # "up"
  BY SubnetAssumption DEF NoId, All

LEMMA InitTyped == SubnetInit => SubnetTypeOK
<1> SUFFICES ASSUME SubnetInit PROVE SubnetTypeOK
  OBVIOUS
<1>1. << >> \in Seq(Message)
  BY EmptySeq
<1>2. IsFiniteSet({})
  BY FS_EmptySet
<1>3. inbox \in [All -> Seq(Message)]
  BY <1>1 DEF SubnetInit
<1>4. timers \subseteq Timer /\ IsFiniteSet(timers)
  BY <1>2 DEF SubnetInit
<1>5. /\ wants \in [Router -> BOOLEAN]
      /\ timer_id \in [All -> Nat] /\ graft_id \in [Router -> Nat]
      /\ changes \in 0..MaxChanges /\ lost \in 0..MaxLost
  BY NoIdIs, DelaysAre DEF SubnetInit
<1> QED
  BY <1>3, <1>4, <1>5 DEF SubnetInit, SubnetTypeOK

LEMMA GraftTyped ==
  ASSUME SubnetTypeOK, NEW d \in Router, NEW rest \in SUBSET timers,
         plan_graft(d, rest, inbox)
  PROVE  /\ inbox' \in [All -> Seq(Message)]
         /\ inbox'["up"] = Append(inbox["up"], [type |-> "graft", from |-> d])
         /\ \A r \in All \ {"up"} : inbox'[r] = inbox[r]
         /\ timers' \subseteq Timer /\ IsFiniteSet(timers')
         /\ graft_id' \in [Router -> Nat]
         /\ \E t : t.func = "plan_graft" /\ t.at = d /\ timers' = rest \union {t}
<1>1. inbox \in [All -> Seq(Message)] /\ IsFiniteSet(timers) /\ "up" \in All /\ d \in All
  BY NoIdIs DEF SubnetTypeOK
<1>2. [type |-> "graft", from |-> d] \in Message
  BY <1>1 DEF Message
<1>3. /\ inbox' \in [All -> Seq(Message)]
      /\ inbox'["up"] = Append(inbox["up"], [type |-> "graft", from |-> d])
      /\ \A r \in All \ {"up"} : inbox'[r] = inbox[r]
  BY <1>1, <1>2, SentTyped DEF plan_graft
<1>4. PIM_GRAFT_TIMER \in Delay /\ "plan_graft" \in Func
  BY DEF Delay, Func
<1>5. /\ New(d, "plan_graft", PIM_GRAFT_TIMER) \in Timer
      /\ New(d, "plan_graft", PIM_GRAFT_TIMER).at = d
      /\ New(d, "plan_graft", PIM_GRAFT_TIMER).func = "plan_graft"
  BY <1>1, <1>4, NewTyped
<1>6. timers' = rest \union {New(d, "plan_graft", PIM_GRAFT_TIMER)}
  BY DEF plan_graft
<1>7. IsFiniteSet(timers')
  <2>1. IsFiniteSet(rest)
    BY <1>1, FS_Subset
  <2> QED
    BY <1>6, <2>1, Finite
<1>8. graft_id' \in [Router -> Nat]
  BY <1>1, NewIdIs DEF plan_graft, SubnetTypeOK
<1> QED
  BY <1>3, <1>5, <1>6, <1>7, <1>8 DEF SubnetTypeOK

LEMMA CancelTyped ==
  ASSUME SubnetTypeOK, CancelPrune
  PROVE  /\ timers' \subseteq Timer /\ IsFiniteSet(timers')
         /\ timer_id' \in [All -> Nat]
  BY Finite, NoIdIs DEF SubnetTypeOK, CancelPrune

LEMMA HostsTyped ==
  ASSUME SubnetTypeOK, Hosts
  PROVE  SubnetTypeOK'
<1>0. /\ inbox \in [All -> Seq(Message)] /\ changes \in 0..MaxChanges
      /\ wants \in [Router -> BOOLEAN]
  BY DEF SubnetTypeOK
<1>1. ASSUME NEW d \in Router, HostsJoin(d) PROVE SubnetTypeOK'
  <2>1. plan_graft(d, timers, inbox)
    BY <1>1 DEF HostsJoin
  <2>2. /\ inbox' \in [All -> Seq(Message)]
        /\ timers' \subseteq Timer /\ IsFiniteSet(timers')
        /\ graft_id' \in [Router -> Nat]
    BY <2>1, GraftTyped
  <2>3. changes' \in 0..MaxChanges
    BY <1>0, <1>1, DelaysAre DEF HostsJoin, HostsChange
  <2>4. wants' \in [Router -> BOOLEAN]
    BY <1>0, <1>1 DEF HostsJoin
  <2> QED
    BY <1>1, <2>2, <2>3, <2>4 DEF HostsJoin, SubnetTypeOK
<1>2. ASSUME NEW d \in Router, HostsLeave(d) PROVE SubnetTypeOK'
  <2>1. inbox' = Told(inbox, d, "prune") /\ d \in All
    BY <1>2, NoIdIs DEF HostsLeave
  <2>2. inbox' \in [All -> Seq(Message)]
    BY <1>0, <2>1, ToldTyped
  <2>3. changes' \in 0..MaxChanges
    BY <1>0, <1>2, DelaysAre DEF HostsLeave, HostsChange
  <2>4. wants' \in [Router -> BOOLEAN]
    BY <1>0, <1>2 DEF HostsLeave
  <2> QED
    BY <1>2, <2>2, <2>3, <2>4 DEF HostsLeave, SubnetTypeOK, fields
<1> QED
  BY <1>1, <1>2 DEF Hosts

LEMMA LossTyped ==
  ASSUME SubnetTypeOK, Loss
  PROVE  SubnetTypeOK'
<1>1. PICK r \in All : Lose(r)
  BY DEF Loss
<1>2. inbox' \in [All -> Seq(Message)]
  BY <1>1, ReadTyped DEF Lose, SubnetTypeOK
<1>3. lost' \in 0..MaxLost
  BY <1>1, DelaysAre DEF Lose, SubnetTypeOK
<1>4. missed' \in BOOLEAN
  BY <1>1 DEF Lose
<1> QED
  BY <1>1, <1>2, <1>3, <1>4 DEF Lose, SubnetTypeOK, fields

LEMMA ReadsTyped ==
  ASSUME SubnetTypeOK, Reads
  PROVE  SubnetTypeOK'
<1>0. /\ inbox \in [All -> Seq(Message)] /\ IsFiniteSet(timers) /\ timers \subseteq Timer
      /\ timer_id \in [All -> Nat] /\ graft_id \in [Router -> Nat] /\ "up" \in All
  BY NoIdIs DEF SubnetTypeOK
<1>1. CASE RecvPrune
  <2>1. Read("up") \in [All -> Seq(Message)]
    BY <1>0, <1>1, ReadTyped DEF RecvPrune, Heads
  <2>2. inbox' \in [All -> Seq(Message)]
    BY <1>0, <1>1, <2>1, ToldTyped DEF RecvPrune
  <2>3. PIM_PRUNE_DELAY \in Delay /\ "set_prune" \in Func
    BY DEF Delay, Func
  <2>4. New("up", "set_prune", PIM_PRUNE_DELAY) \in Timer
    BY <1>0, <2>3, NewTyped
  <2>5. timers' \subseteq Timer /\ IsFiniteSet(timers')
    BY <1>0, <1>1, <2>4, Finite DEF RecvPrune
  <2>6. timer_id' \in [All -> Nat]
    BY <1>0, <1>1, NewIdIs DEF RecvPrune
  <2>7. overlapped' \in BOOLEAN
    BY <1>1 DEF RecvPrune, SubnetTypeOK
  <2> QED
    BY <1>1, <2>2, <2>5, <2>6, <2>7 DEF RecvPrune, SubnetTypeOK
<1>2. CASE RecvJoin
  <2>1. inbox' \in [All -> Seq(Message)]
    BY <1>0, <1>2, ReadTyped DEF RecvJoin, Heads
  <2> QED
    BY <1>2, <2>1, CancelTyped DEF RecvJoin, SubnetTypeOK, history
<1>3. CASE RecvGraft
  <2>1. /\ Read("up") \in [All -> Seq(Message)]
        /\ Head(inbox["up"]) \in Message
    BY <1>0, <1>3, ReadTyped DEF RecvGraft, Heads
  <2> DEFINE to == Head(inbox["up"]).from
             ack == [type |-> "graft_ack", from |-> "up"]
  <2>2. to \in All
    BY <2>1 DEF Message
  <2>3. ack \in Message
    BY <1>0 DEF Message
  <2>4. inbox' = [Read("up") EXCEPT ![to] = Append(@, ack)]
    BY <1>3 DEF RecvGraft
  <2>5. inbox' \in [All -> Seq(Message)]
    <3> HIDE DEF to, ack
    <3> QED
      BY <2>1, <2>2, <2>3, <2>4, SentTyped
  <2> QED
    BY <1>3, <2>5, CancelTyped DEF RecvGraft, SubnetTypeOK, history
<1>4. ASSUME NEW d \in Router, OverheardPrune(d) PROVE SubnetTypeOK'
  <2>1. d \in All /\ inbox' \in [All -> Seq(Message)]
    BY <1>0, <1>4, ReadTyped, NoIdIs DEF OverheardPrune, Heads
  <2>2. JoinDelay \in Delay /\ "send_join" \in Func
    BY DEF Delay, Func
  <2>3. New(d, "send_join", JoinDelay) \in Timer
    BY <1>0, <2>1, <2>2, NewTyped
  <2>4. \/ /\ timers' = timers \union {New(d, "send_join", JoinDelay)}
           /\ timer_id' = [timer_id EXCEPT ![d] = NewId(d, "send_join")]
        \/ timers' = timers /\ timer_id' = timer_id
    BY <1>4 DEF OverheardPrune
  <2>5. NewId(d, "send_join") \in Nat
    BY <1>0, NewIdIs
  <2>6. IsFiniteSet(timers \union {New(d, "send_join", JoinDelay)})
    BY <1>0, Finite
  <2>7. timers' \subseteq Timer /\ IsFiniteSet(timers')
    BY <1>0, <2>3, <2>4, <2>6
  <2>8. timer_id' \in [All -> Nat]
    BY <1>0, <2>4, <2>5
  <2> QED
    BY <1>4, <2>1, <2>7, <2>8 DEF OverheardPrune, SubnetTypeOK, history
<1>5. ASSUME NEW d \in Router, OverheardJoin(d) PROVE SubnetTypeOK'
  <2>1. d \in All /\ inbox' \in [All -> Seq(Message)]
    BY <1>0, <1>5, ReadTyped, NoIdIs DEF OverheardJoin, Heads
  <2>2. timers' \subseteq Timer /\ IsFiniteSet(timers')
    BY <1>0, <1>5, Finite DEF OverheardJoin
  <2>3. timer_id' \in [All -> Nat]
    BY <1>0, <1>5, NoIdIs DEF OverheardJoin
  <2> QED
    BY <1>5, <2>1, <2>2, <2>3 DEF OverheardJoin, SubnetTypeOK, history
<1>6. ASSUME NEW d \in Router, RecvGraftAck(d) PROVE SubnetTypeOK'
  <2>1. d \in All /\ inbox' \in [All -> Seq(Message)]
    BY <1>0, <1>6, ReadTyped, NoIdIs DEF RecvGraftAck, Heads
  <2>2. timers' \subseteq Timer /\ IsFiniteSet(timers')
    BY <1>0, <1>6, Finite DEF RecvGraftAck
  <2>3. graft_id' \in [Router -> Nat]
    BY <1>0, <1>6, NoIdIs DEF RecvGraftAck
  <2> QED
    BY <1>6, <2>1, <2>2, <2>3 DEF RecvGraftAck, SubnetTypeOK, history
<1> QED
  BY <1>1, <1>2, <1>3, <1>4, <1>5, <1>6 DEF Reads

LEMMA ExpiresTyped ==
  ASSUME SubnetTypeOK, Expires
  PROVE  SubnetTypeOK'
<1>0. /\ inbox \in [All -> Seq(Message)] /\ IsFiniteSet(timers) /\ timers \subseteq Timer
      /\ timer_id \in [All -> Nat] /\ graft_id \in [Router -> Nat] /\ "up" \in All
  BY NoIdIs DEF SubnetTypeOK
<1>1. CASE set_prune
  <2>1. PruneHold \in Delay /\ "prune_time_out" \in Func
    BY DEF Delay, Func
  <2>2. New("up", "prune_time_out", PruneHold) \in Timer
    BY <1>0, <2>1, NewTyped
  <2>3. PICK t \in timers : timers' = (timers \ {t})
                              \union {New("up", "prune_time_out", PruneHold)}
    BY <1>1 DEF set_prune, Due, Of
  <2>4. timers' \subseteq Timer /\ IsFiniteSet(timers')
    BY <1>0, <2>2, <2>3, Finite
  <2>5. timer_id' \in [All -> Nat] /\ outvif' \in BOOLEAN
    BY <1>0, <1>1, NoIdIs DEF set_prune
  <2> QED
    BY <1>1, <2>4, <2>5 DEF set_prune, SubnetTypeOK, history
<1>2. CASE prune_time_out
  <2>1. PICK t \in timers : timers' = timers \ {t}
    BY <1>2 DEF prune_time_out, Due, Of
  <2>2. timers' \subseteq Timer /\ IsFiniteSet(timers')
    BY <1>0, <2>1, Finite
  <2> QED
    BY <1>2, <2>2 DEF prune_time_out, SubnetTypeOK, fields, history
<1>3. ASSUME NEW d \in Router, send_join(d) PROVE SubnetTypeOK'
  <2>1. PICK t, others : timers' = (timers \ {t}) \ others
    BY <1>3 DEF send_join
  <2>2. timers' \subseteq timers
    BY <2>1
  <2>3. timers' \subseteq Timer /\ IsFiniteSet(timers')
    BY <1>0, <2>2, FS_Subset
  <2>4. inbox' = Told(inbox, d, "join") /\ d \in All
    BY <1>3, NoIdIs DEF send_join
  <2>5. inbox' \in [All -> Seq(Message)]
    BY <1>0, <2>4, ToldTyped
  <2>6. timer_id' \in [All -> Nat]
    BY <1>0, <1>3, NoIdIs DEF send_join
  <2> QED
    BY <1>3, <2>3, <2>5, <2>6 DEF send_join, SubnetTypeOK, history
<1>4. ASSUME NEW d \in Router, retry_graft(d) PROVE SubnetTypeOK'
  <2>1. PICK t \in timers : plan_graft(d, timers \ {t}, inbox)
    BY <1>4 DEF retry_graft, Due, Of
  <2>2. timers \ {t} \in SUBSET timers
    OBVIOUS
  <2>3. /\ inbox' \in [All -> Seq(Message)]
        /\ timers' \subseteq Timer /\ IsFiniteSet(timers')
        /\ graft_id' \in [Router -> Nat]
    BY <2>1, <2>2, GraftTyped
  <2> QED
    BY <1>4, <2>3 DEF retry_graft, SubnetTypeOK, history
<1> QED
  BY <1>1, <1>2, <1>3, <1>4 DEF Expires

(* A second: every timer is a second closer.                               *)
LEMMA TickIs ==
  ASSUME SubnetTypeOK, Tick
  PROVE  /\ timers' \subseteq Timer /\ IsFiniteSet(timers')
         /\ \A u \in timers' : \E t \in timers :
              /\ u = [t EXCEPT !.left = @ - 1] /\ t.left > 0
              /\ u.at = t.at /\ u.func = t.func /\ u.id = t.id
              /\ u.left = t.left - 1
         /\ \A t \in timers : \E u \in timers' :
              u.at = t.at /\ u.func = t.func /\ u.id = t.id /\ u.left = t.left - 1
<1> DEFINE Older(t) == [t EXCEPT !.left = @ - 1]
<1>1. /\ timers \subseteq Timer /\ IsFiniteSet(timers)
      /\ timers' = {Older(t) : t \in timers}
      /\ \A t \in timers : t.left > 0
  BY DEF SubnetTypeOK, Tick
<1>2. ASSUME NEW t \in timers
      PROVE  /\ Older(t) \in Timer
             /\ Older(t).at = t.at /\ Older(t).func = t.func /\ Older(t).id = t.id
             /\ Older(t).left = t.left - 1
  <2>1. t \in Timer /\ t.left > 0 /\ t.left \in 0..MaxDelay /\ MaxDelay \in Nat
    BY <1>1, DelaysAre DEF Timer
  <2>2. t.left - 1 \in 0..MaxDelay
    BY <2>1
  <2> QED
    BY <2>1, <2>2 DEF Timer
<1>3. [t \in timers |-> Older(t)] \in Surjection(timers, timers')
  BY <1>1 DEF Surjection
<1>4. IsFiniteSet(timers')
  BY <1>1, <1>3, FS_Surjection
<1> HIDE DEF Older
<1>5. timers' \subseteq Timer
  BY <1>1, <1>2
<1>6. \A u \in timers' : \E t \in timers : u = Older(t) /\ t.left > 0
  BY <1>1
<1>7. \A t \in timers : Older(t) \in timers'
  BY <1>1
<1> USE DEF Older
<1> QED
  BY <1>2, <1>4, <1>5, <1>6, <1>7

LEMMA SubnetTyped == SubnetTypeOK /\ [SubnetNext]_subnetVars => SubnetTypeOK'
<1> SUFFICES ASSUME SubnetTypeOK, [SubnetNext]_subnetVars PROVE SubnetTypeOK'
  OBVIOUS
<1>1. CASE Tick
  BY <1>1, TickIs DEF Tick, SubnetTypeOK, fields, history
<1>2. CASE UNCHANGED subnetVars
  BY <1>2 DEF SubnetTypeOK, subnetVars, fields, history
<1> QED
  BY <1>1, <1>2, HostsTyped, LossTyped, ReadsTyped, ExpiresTyped DEF SubnetNext

LEMMA Boxes ==
  ASSUME SubnetTypeOK
  PROVE  /\ Box \in Seq(Message) /\ Len(Box) \in Nat
         /\ \A r \in All : inbox[r] \in Seq(Message)
         /\ \A d \in Router : inbox[d] \in Seq(Message)
<1>1. Box \in Seq(Message) /\ \A r \in All : inbox[r] \in Seq(Message)
  BY NoIdIs DEF SubnetTypeOK, Box
<1> QED
  BY <1>1, LenProperties, NoIdIs

(* Nobody is worse off for one more unread message that is no Join.        *)
LEMMA OneMoreUnread ==
  ASSUME SubnetTypeOK, NEW d \in Router, NEW m \in Message, m.type # "join",
         inbox'["up"] = inbox["up"] \/ inbox'["up"] = Append(inbox["up"], m),
         inbox'[d] = inbox[d] \/ inbox'[d] = Append(inbox[d], m),
         timer_id'[d] = timer_id[d],
         Of(d, "send_join") \subseteq Of(d, "send_join")',
         lost' = lost
  PROVE  /\ \A n : Safe(d, n) => Safe(d, n)'
         /\ \A p \in Nat : SafeUnread(d, p) => SafeUnread(d, p)'
         /\ GraftIn(Box, 0, d) => GraftIn(Box, 0, d)'
<1> DEFINE s == inbox[d]  r == inbox'[d]
<1>1. s \in Seq(Message) /\ Box \in Seq(Message)
  BY Boxes
<1>2. Box' = Box \/ Box' = Append(Box, m)
  BY DEF Box
<1>3. r = s \/ r = Append(s, m)
  OBVIOUS
<1>4. \A p \in Nat : /\ GraftIn(Box, p, d) => GraftIn(Box', p, d)
                     /\ JoinIn(Box, p) => JoinIn(Box', p)
  BY <1>1, <1>2, AppendedIn
<1>5. ~JoinIn(s, 0) => ~JoinIn(r, 0)
  <2> HIDE DEF s, r
  <2>1. 0 \in Nat
    OBVIOUS
  <2> QED
    BY <1>1, <1>3, <2>1, AppendedIn
<1>6. Answers(s, lost) => Answers(r, lost)
  <2> HIDE DEF s, r
  <2> QED
    BY <1>1, <1>3, AppendedAnswers
<1>7. Answered(s) => Answered(r)
  <2> HIDE DEF s, r
  <2> QED
    BY <1>1, <1>3, AppendedAnswers
<1>8. ASSUME NEW n, Joining(d, n) PROVE Joining(d, n)'
  <2>1. PICK u \in Of(d, "send_join") :
          u.left < n /\ (u.id # timer_id[d] \/ ~JoinIn(s, 0))
    BY <1>8 DEF Joining
  <2>2. u \in Of(d, "send_join")' /\ (u.id # timer_id'[d] \/ ~JoinIn(r, 0))
    BY <1>5, <2>1
  <2> QED
    BY <2>1, <2>2 DEF Joining
<1>9. \A n : Safe(d, n) => Safe(d, n)'
  <2> SUFFICES ASSUME NEW n, Safe(d, n) PROVE Safe(d, n)'
    OBVIOUS
  <2>1. CASE GraftIn(Box, 0, d)
    BY <1>4, <2>1 DEF Safe
  <2>2. CASE n > 0 /\ JoinIn(Box, 0)
    BY <1>4, <2>2 DEF Safe
  <2>3. CASE n > JoinDelay /\ Answers(s, lost)
    BY <1>6, <2>3 DEF Safe
  <2>4. CASE Joining(d, n)
    BY <1>8, <2>4 DEF Safe
  <2> QED
    BY <2>1, <2>2, <2>3, <2>4 DEF Safe
<1>10. \A p \in Nat : SafeUnread(d, p) => SafeUnread(d, p)'
  <2> SUFFICES ASSUME NEW p \in Nat, SafeUnread(d, p) PROVE SafeUnread(d, p)'
    OBVIOUS
  <2>1. CASE GraftIn(Box, p, d) \/ JoinIn(Box, p)
    BY <1>4, <2>1 DEF SafeUnread
  <2>2. CASE lost # 0
    BY <2>2 DEF SafeUnread
  <2>3. CASE Answered(s)
    BY <1>7, <2>3 DEF SafeUnread
  <2>4. CASE Joining(d, PIM_PRUNE_DELAY)
    BY <1>8, <2>4 DEF SafeUnread
  <2> QED
    BY <2>1, <2>2, <2>3, <2>4 DEF SafeUnread
<1> QED
  BY <1>4, <1>9, <1>10

(* The places of the Prunes in a longer queue.                             *)
LEMMA PrunePlaces ==
  ASSUME NEW s \in Seq(Message), NEW m \in Message, NEW r, r = Append(s, m),
         NEW p \in 1..Len(r), r[p].type = "prune"
  PROVE  \/ p \in 1..Len(s) /\ s[p].type = "prune" /\ p \in Nat
         \/ p = Len(s) + 1 /\ m.type = "prune"
<1>1. /\ Len(s) \in Nat /\ Len(r) = Len(s) + 1
      /\ \A j \in 1..Len(s) : r[j] = s[j]
      /\ r[Len(s) + 1] = m
  BY AppendOf
<1>2. p \in 1..Len(s) \/ p = Len(s) + 1
  BY <1>1
<1> QED
  BY <1>1, <1>2

-----------------------------------------------------------------------------
(* A Graft is sent.                                                        *)
LEMMA GraftCovers ==
  ASSUME SubnetTypeOK, Covered, NEW e \in Router, NEW rest \in SUBSET timers,
         plan_graft(e, rest, inbox),
         \A t \in timers \ rest : t.func = "plan_graft",
         UNCHANGED <<outvif, timer_id, lost>>,
         \A d \in Router \ {e} : wants'[d] => wants[d]
  PROVE  Covered'
<1> DEFINE m == [type |-> "graft", from |-> e]
<1>1. m \in Message /\ m.type = "graft"
  BY NoIdIs DEF Message
<1>2. /\ inbox'["up"] = Append(inbox["up"], m)
      /\ \A r \in All \ {"up"} : inbox'[r] = inbox[r]
      /\ \E t : t.func = "plan_graft" /\ t.at = e /\ timers' = rest \union {t}
  BY GraftTyped
<1>3. /\ Of("up", "set_prune")' = Of("up", "set_prune")
      /\ \A d : Of(d, "send_join")' = Of(d, "send_join")
  BY <1>2 DEF Of
<1>4. OnePrune'
  BY <1>3 DEF Covered, OnePrune
<1>5. Box \in Seq(Message) /\ Box' = Append(Box, m)
  BY <1>2, Boxes DEF Box
<1> HIDE DEF m
<1>6. ASSUME NEW d \in Router, wants'[d], d # e PROVE CoveredFor(d)'
  <2>1. CoveredFor(d) /\ d \in All \ {"up"}
    BY <1>6, NoIdIs DEF Covered
  <2>2. inbox'[d] = inbox[d]
    BY <1>2, <2>1
  <2>3. /\ \A n : Safe(d, n) => Safe(d, n)'
        /\ \A p \in Nat : SafeUnread(d, p) => SafeUnread(d, p)'
        /\ GraftIn(Box, 0, d) => GraftIn(Box, 0, d)'
    BY <1>1, <1>2, <1>3, <2>2, OneMoreUnread
  <2>4. ASSUME NEW p \in 1..Len(Box'), Box'[p].type = "prune"
        PROVE  SafeUnread(d, p)'
    <3>1. p \in 1..Len(Box) /\ Box[p].type = "prune" /\ p \in Nat
      BY <1>1, <1>5, <2>4, PrunePlaces
    <3> QED
      BY <2>1, <2>3, <3>1 DEF CoveredFor
  <2> QED
    BY <1>3, <2>1, <2>3, <2>4 DEF CoveredFor
<1>7. CoveredFor(e)'
  <2>1. \A p \in Nat : p <= Len(Box) => GraftIn(Box', p, e)
    BY <1>1, <1>5, AppendedIn DEF m
  <2>2. GraftIn(Box, 0, e)'
    BY <2>1, Boxes
  <2>3. ASSUME NEW p \in 1..Len(Box'), Box'[p].type = "prune"
        PROVE  SafeUnread(e, p)'
    <3>1. p \in 1..Len(Box) /\ p \in Nat
      BY <1>1, <1>5, <2>3, PrunePlaces
    <3>2. GraftIn(Box', p, e)
      BY <2>1, <3>1, Boxes
    <3> QED
      BY <3>2 DEF SafeUnread
  <2> QED
    BY <2>2, <2>3 DEF CoveredFor, Safe
<1> QED
  BY <1>4, <1>6, <1>7 DEF Covered

(* Hosts leave, and a Prune is sent: whoever wants the flow will hear it.  *)
LEMMA LeaveCovers ==
  ASSUME SubnetTypeOK, Covered, NEW e \in Router, HostsLeave(e)
  PROVE  Covered'
<1> DEFINE m == [type |-> "prune", from |-> e]
<1>1. /\ inbox \in [All -> Seq(Message)] /\ e \in All /\ "up" \in All \ {e}
      /\ wants \in [Router -> BOOLEAN]
  BY NoIdIs DEF SubnetTypeOK
<1>2. inbox' = Told(inbox, e, "prune")
  BY DEF HostsLeave
<1>3. /\ m \in Message /\ m.type = "prune"
      /\ \A r \in All \ {e} : inbox'[r] = Append(inbox[r], m)
  BY <1>1, <1>2, ToldTyped
<1>4. /\ Of("up", "set_prune")' = Of("up", "set_prune")
      /\ \A d : Of(d, "send_join")' = Of(d, "send_join")
      /\ UNCHANGED <<outvif, timer_id, lost>>
  BY DEF HostsLeave, Of, fields
<1>5. OnePrune'
  BY <1>4 DEF Covered, OnePrune
<1> HIDE DEF m
<1>6. Box \in Seq(Message) /\ Box' = Append(Box, m)
  BY <1>1, <1>3, Boxes DEF Box
<1>7. ASSUME NEW d \in Router, wants'[d] PROVE CoveredFor(d)'
  <2>1. wants[d] /\ d # e
    BY <1>1, <1>7 DEF HostsLeave
  <2>2. CoveredFor(d) /\ d \in All \ {e} /\ inbox[d] \in Seq(Message)
    BY <2>1, NoIdIs, Boxes DEF Covered
  <2>3. inbox'[d] = Append(inbox[d], m)
    BY <1>3, <2>2
  <2>4. /\ \A n : Safe(d, n) => Safe(d, n)'
        /\ \A p \in Nat : SafeUnread(d, p) => SafeUnread(d, p)'
        /\ GraftIn(Box, 0, d) => GraftIn(Box, 0, d)'
    BY <1>1, <1>3, <1>4, <2>3, OneMoreUnread
  <2>5. Answered(inbox'[d])
    BY <1>3, <2>2, <2>3, AppendedAnswers
  <2>6. ASSUME NEW p \in 1..Len(Box'), Box'[p].type = "prune"
        PROVE  SafeUnread(d, p)'
    BY <2>5 DEF SafeUnread
  <2> QED
    BY <1>4, <2>2, <2>4, <2>6 DEF CoveredFor
<1> QED
  BY <1>5, <1>7 DEF Covered

(* A Join is sent: it comes before any delay of a Prune is over.           *)
LEMMA JoinCovers ==
  ASSUME SubnetTypeOK, Covered, NEW e \in Router, send_join(e)
  PROVE  Covered'
<1> DEFINE m == [type |-> "join", from |-> e]
<1>1. /\ inbox \in [All -> Seq(Message)] /\ e \in All /\ "up" \in All \ {e}
      /\ timers \subseteq Timer /\ timer_id \in [All -> Nat]
  BY NoIdIs DEF SubnetTypeOK
<1>2. inbox' = Told(inbox, e, "join")
  BY DEF send_join
<1>3. /\ m \in Message /\ m.type = "join"
      /\ inbox'["up"] = Append(inbox["up"], m)
  BY <1>1, <1>2, ToldTyped
<1>4. Of("up", "set_prune")' = Of("up", "set_prune")
  BY DEF send_join, Of, Due, Named
<1>5. timer_id'["up"] = timer_id["up"] /\ UNCHANGED <<outvif, wants>>
  BY <1>1 DEF send_join
<1>6. OnePrune'
  BY <1>4, <1>5 DEF Covered, OnePrune
<1> HIDE DEF m
<1>7. Box \in Seq(Message) /\ Box' = Append(Box, m) /\ Len(Box) \in Nat
  BY <1>3, Boxes DEF Box
<1>8. \A p \in Nat : p <= Len(Box) => JoinIn(Box', p)
  BY <1>3, <1>7, AppendedIn
<1>9. ASSUME NEW d \in Router, wants'[d] PROVE CoveredFor(d)'
  <2>1. CoveredFor(d)
    BY <1>5, <1>9 DEF Covered
  <2>2. GraftIn(Box, 0, d) => GraftIn(Box', 0, d)
    <3>1. 0 \in Nat
      OBVIOUS
    <3> QED
      BY <1>3, <1>7, <3>1, AppendedIn
  <2>3. ASSUME NEW t \in Of("up", "set_prune") PROVE Safe(d, t.left)'
    <3>1. t.left \in Nat /\ JoinDelay \in Nat
      BY <1>1, DelaysAre DEF Of, Timer
    <3>2. Joining(d, t.left) => t.left > 0
      <4>1. \A u \in Of(d, "send_join") : u.left \in Nat
        BY <1>1, DelaysAre DEF Of, Timer
      <4> QED
        BY <3>1, <4>1 DEF Joining
    <3>3. GraftIn(Box, 0, d) \/ t.left > 0
      BY <2>1, <3>1, <3>2 DEF CoveredFor, Safe
    <3>4. JoinIn(Box', 0)
      BY <1>7, <1>8
    <3> QED
      BY <2>2, <3>3, <3>4 DEF Safe
  <2>4. ASSUME NEW p \in 1..Len(Box'), Box'[p].type = "prune"
        PROVE  SafeUnread(d, p)'
    <3>1. p \in 1..Len(Box)
      BY <1>3, <1>7, <2>4, PrunePlaces
    <3>2. JoinIn(Box', p)
      BY <1>7, <1>8, <3>1
    <3> QED
      BY <3>2 DEF SafeUnread
  <2> QED
    BY <1>4, <1>5, <2>1, <2>2, <2>3, <2>4 DEF CoveredFor
<1> QED
  BY <1>6, <1>9 DEF Covered

(* The delay is over: everybody who wants the flow has sent a Graft.       *)
LEMMA PruneCovers ==
  ASSUME SubnetTypeOK, Covered, set_prune
  PROVE  Covered'
<1>1. /\ inbox \in [All -> Seq(Message)] /\ timers \subseteq Timer
      /\ timer_id \in [All -> Nat]
  BY DEF SubnetTypeOK
<1>2. PICK t \in Due("up", "set_prune") :
        timers' = (timers \ {t}) \union {New("up", "prune_time_out", PruneHold)}
  BY DEF set_prune
<1>3. t \in Of("up", "set_prune") /\ t.left = 0 /\ t.func = "set_prune"
  BY DEF Due, Of
<1>4. New("up", "prune_time_out", PruneHold).func = "prune_time_out"
  BY DEF New
<1>5. Of("up", "set_prune")' = {}
  <2> SUFFICES ASSUME NEW u \in Of("up", "set_prune")' PROVE FALSE
    OBVIOUS
  <2>1. u \in Of("up", "set_prune") /\ u # t
    BY <1>2, <1>4 DEF Of
  <2> QED
    BY <1>3, <2>1 DEF Covered, OnePrune
<1>6. UNCHANGED <<wants, inbox, lost>> /\ Box' = Box
  BY DEF set_prune, history, Box
<1>7. ASSUME NEW d \in Router, wants'[d] PROVE CoveredFor(d)'
  <2>1. CoveredFor(d) /\ d # "up"
    BY <1>6, <1>7, NoIdIs DEF Covered
  <2>2. timer_id'[d] = timer_id[d]
    BY <1>1, <2>1, NoIdIs DEF set_prune
  <2>3. Of(d, "send_join") \subseteq Of(d, "send_join")'
    BY <1>2, <1>3 DEF Of
  <2>4. [type |-> "graft_ack", from |-> "up"] \in Message
    BY NoIdIs DEF Message
  <2>5. /\ \A p \in Nat : SafeUnread(d, p) => SafeUnread(d, p)'
        /\ GraftIn(Box, 0, d) => GraftIn(Box, 0, d)'
    BY <1>6, <2>2, <2>3, <2>4, OneMoreUnread
  <2>6. GraftIn(Box, 0, d)
    <3>1. Safe(d, 0)
      BY <1>3, <2>1 DEF CoveredFor
    <3>2. ~Joining(d, 0)
      <4>1. \A u \in Of(d, "send_join") : u.left \in Nat
        BY <1>1, DelaysAre DEF Of, Timer
      <4> QED
        BY <4>1 DEF Joining
    <3> QED
      BY <3>1, <3>2, DelaysAre DEF Safe
  <2>7. \A p \in 1..Len(Box') : p \in Nat
    BY <1>6, Boxes
  <2> QED
    BY <1>5, <1>6, <2>1, <2>5, <2>6, <2>7 DEF CoveredFor
<1> QED
  BY <1>5, <1>7 DEF Covered, OnePrune

LEMMA TimeOutCovers ==
  ASSUME SubnetTypeOK, Covered, prune_time_out
  PROVE  Covered'
<1>1. PICK t \in Due("up", "prune_time_out") : timers' = timers \ {t}
  BY DEF prune_time_out
<1>2. t.func = "prune_time_out"
  BY DEF Due, Of
<1>3. /\ Of("up", "set_prune")' = Of("up", "set_prune")
      /\ \A d : Of(d, "send_join")' = Of(d, "send_join")
  BY <1>1, <1>2 DEF Of
<1>4. /\ UNCHANGED <<wants, inbox, lost, timer_id>> /\ Box' = Box /\ outvif' = TRUE
  BY DEF prune_time_out, history, fields, Box
<1>5. ASSUME NEW d \in Router, wants'[d] PROVE CoveredFor(d)'
  <2>1. CoveredFor(d)
    BY <1>4, <1>5 DEF Covered
  <2>2. [type |-> "graft_ack", from |-> "up"] \in Message
    BY NoIdIs DEF Message
  <2>3. /\ \A n : Safe(d, n) => Safe(d, n)'
        /\ \A p \in Nat : SafeUnread(d, p) => SafeUnread(d, p)'
    BY <1>3, <1>4, <2>2, OneMoreUnread
  <2>4. \A p \in 1..Len(Box') : p \in Nat
    BY <1>4, Boxes
  <2> QED
    BY <1>3, <1>4, <2>1, <2>3, <2>4 DEF CoveredFor
<1> QED
  BY <1>3, <1>4, <1>5 DEF Covered, OnePrune

(* The upstream router reads a message: the others move up by a place.     *)
LEMMA HeadIsRead ==
  ASSUME SubnetTypeOK, Box # << >>, NEW d \in Router,
         NEW m \in Message, m.type \notin {"join", "prune"},
         NEW rest, rest = Tail(Box),
         Box' = rest \/ Box' = Append(rest, m),
         inbox'[d] = inbox[d] \/ inbox'[d] = Append(inbox[d], m),
         timer_id'[d] = timer_id[d],
         Of(d, "send_join") \subseteq Of(d, "send_join")',
         lost' = lost
  PROVE  /\ \A p \in 1..Len(Box') : Box'[p].type = "prune" =>
              /\ p + 1 \in 1..Len(Box) /\ Box[p + 1].type = "prune"
              /\ SafeUnread(d, p + 1) => SafeUnread(d, p)'
         /\ GraftIn(Box, 0, d) /\ Head(Box).type # "graft" => GraftIn(Box', 0, d)
         /\ GraftIn(Box, 1, d) => GraftIn(Box', 0, d)
         /\ JoinIn(Box, 1) => JoinIn(Box', 0)
         /\ \A n : Joining(d, n) => Joining(d, n)'
<1> DEFINE s == inbox[d]  r == inbox'[d]
<1>1. s \in Seq(Message) /\ Box \in Seq(Message)
  BY Boxes
<1>2. /\ rest \in Seq(Message)
      /\ Len(Box) \in Nat /\ Len(Box) >= 1 /\ Len(rest) = Len(Box) - 1
      /\ Head(Box) = Box[1]
      /\ \A p \in 1..Len(rest) : rest[p] = Box[p + 1]
  BY <1>1, TailOf
<1>3. \A p \in 1..Len(Box') : Box'[p].type = "prune" =>
        p \in 1..Len(rest) /\ rest[p].type = "prune"
  <2> SUFFICES ASSUME NEW p \in 1..Len(Box'), Box'[p].type = "prune"
               PROVE  p \in 1..Len(rest) /\ rest[p].type = "prune"
    OBVIOUS
  <2>1. CASE Box' = rest
    BY <2>1
  <2>2. CASE Box' = Append(rest, m)
    BY <1>2, <2>2, PrunePlaces
  <2> QED
    BY <2>1, <2>2
<1>4. \A p \in Nat : /\ GraftIn(rest, p, d) => GraftIn(Box', p, d)
                     /\ JoinIn(rest, p) => JoinIn(Box', p)
  BY <1>2, AppendedIn
<1>5. \A p \in 1..Len(Box) : /\ GraftIn(Box, p, d) => GraftIn(rest, p - 1, d)
                             /\ JoinIn(Box, p) => JoinIn(rest, p - 1)
  BY <1>1, TailIn
<1>6. ~JoinIn(s, 0) => ~JoinIn(r, 0)
  <2> HIDE DEF s, r
  <2>1. 0 \in Nat /\ (r = s \/ r = Append(s, m))
    BY DEF r, s
  <2> QED
    BY <1>1, <2>1, AppendedIn
<1>7. Answered(s) => Answered(r)
  <2> HIDE DEF s, r
  <2>1. r = s \/ r = Append(s, m)
    BY DEF r, s
  <2> QED
    BY <1>1, <2>1, AppendedAnswers
<1>8. ASSUME NEW n, Joining(d, n) PROVE Joining(d, n)'
  <2>1. PICK u \in Of(d, "send_join") :
          u.left < n /\ (u.id # timer_id[d] \/ ~JoinIn(s, 0))
    BY <1>8 DEF Joining
  <2>2. u \in Of(d, "send_join")' /\ (u.id # timer_id'[d] \/ ~JoinIn(r, 0))
    BY <1>6, <2>1
  <2> QED
    BY <2>1, <2>2 DEF Joining
<1>9. ASSUME NEW p \in 1..Len(Box'), Box'[p].type = "prune"
      PROVE  /\ p + 1 \in 1..Len(Box) /\ Box[p + 1].type = "prune"
             /\ SafeUnread(d, p + 1) => SafeUnread(d, p)'
  <2>1. p \in 1..Len(rest) /\ rest[p].type = "prune"
    BY <1>3, <1>9
  <2>2. p + 1 \in 1..Len(Box) /\ Box[p + 1].type = "prune" /\ p \in Nat
        /\ (p + 1) - 1 = p
    BY <1>2, <2>1
  <2>3. /\ GraftIn(Box, p + 1, d) => GraftIn(Box', p, d)
        /\ JoinIn(Box, p + 1) => JoinIn(Box', p)
    BY <1>4, <1>5, <2>2
  <2>4. ASSUME SafeUnread(d, p + 1) PROVE SafeUnread(d, p)'
    <3>1. CASE GraftIn(Box, p + 1, d) \/ JoinIn(Box, p + 1)
      BY <2>3, <3>1 DEF SafeUnread
    <3>2. CASE lost # 0
      BY <3>2 DEF SafeUnread
    <3>3. CASE Answered(s)
      BY <1>7, <3>3 DEF SafeUnread
    <3>4. CASE Joining(d, PIM_PRUNE_DELAY)
      BY <1>8, <3>4 DEF SafeUnread
    <3> QED
      BY <2>4, <3>1, <3>2, <3>3, <3>4 DEF SafeUnread
  <2> QED
    BY <2>2, <2>4
<1>10. GraftIn(Box, 0, d) /\ Head(Box).type # "graft" => GraftIn(Box', 0, d)
  <2> SUFFICES ASSUME GraftIn(Box, 0, d), Head(Box).type # "graft"
               PROVE  GraftIn(Box', 0, d)
    OBVIOUS
  <2>1. Head(Box) # [type |-> "graft", from |-> d]
    OBVIOUS
  <2>2. GraftIn(rest, 0, d)
    BY <1>1, <2>1, TailIn
  <2> QED
    BY <1>4, <2>2
<1>11. 1 \in 1..Len(Box) /\ 1 - 1 = 0 /\ 0 \in Nat
  BY <1>2
<1> QED
  BY <1>4, <1>5, <1>8, <1>9, <1>10, <1>11

LEMMA HeadOfBox ==
  ASSUME SubnetTypeOK, NEW types, Heads("up", types)
  PROVE  /\ Box # << >> /\ Head(Box) = Box[1] /\ Head(Box).type \in types
         /\ 1 \in 1..Len(Box) /\ "up" \in All
         /\ Read("up") \in [All -> Seq(Message)]
         /\ Read("up")["up"] = Tail(Box)
         /\ \A d \in Router : Read("up")[d] = inbox[d] /\ d \in All /\ d # "up"
<1>1. Box # << >> /\ Head(Box).type \in types /\ Box \in Seq(Message)
  BY Boxes DEF Heads, Box
<1>2. Head(Box) = Box[1] /\ 1 \in 1..Len(Box)
  BY <1>1, TailOf
<1>3. inbox \in [All -> Seq(Message)] /\ "up" \in All /\ inbox["up"] # << >>
  BY <1>1, NoIdIs DEF SubnetTypeOK, Box
<1> QED
  BY <1>1, <1>2, <1>3, ReadTyped, NoIdIs DEF Box

LEMMA RecvPruneCovers ==
  ASSUME SubnetTypeOK, Covered, RecvPrune, ~overlapped'
  PROVE  Covered'
<1> DEFINE m == [type |-> "echo", from |-> "up"]
           t == New("up", "set_prune", PIM_PRUNE_DELAY)
<1>0. IsFiniteSet(timers) /\ timer_id \in [All -> Nat]
  BY DEF SubnetTypeOK
<1>1. /\ Box # << >> /\ Head(Box) = Box[1] /\ Head(Box).type = "prune"
      /\ 1 \in 1..Len(Box) /\ "up" \in All
      /\ Read("up") \in [All -> Seq(Message)]
      /\ Read("up")["up"] = Tail(Box)
      /\ \A d \in Router : Read("up")[d] = inbox[d] /\ d \in All /\ d # "up"
  BY HeadOfBox DEF RecvPrune
<1>2. inbox' = Told(Read("up"), "up", "echo")
  BY DEF RecvPrune
<1>3. m \in Message /\ m.type = "echo" /\ inbox'["up"] = Tail(Box)
      /\ \A r \in All \ {"up"} : inbox'[r] = Append(Read("up")[r], m)
  <2> DEFINE box == Read("up")
  <2>1. box \in [All -> Seq(Message)] /\ box["up"] = Tail(Box) /\ "up" \in All
    BY <1>1
  <2> HIDE DEF box
  <2>2. /\ Told(box, "up", "echo")["up"] = box["up"]
        /\ m \in Message
        /\ \A r \in All \ {"up"} : Told(box, "up", "echo")[r] = Append(box[r], m)
    BY <2>1, ToldTyped
  <2> QED
    BY <1>2, <2>1, <2>2 DEF box
<1>4. /\ t.at = "up" /\ t.func = "set_prune" /\ t.left = PIM_PRUNE_DELAY
      /\ t.id = NewId("up", "set_prune")
  BY DEF New
<1>5. /\ timers' = timers \union {t}
      /\ timer_id' = [timer_id EXCEPT !["up"] = t.id]
      /\ UNCHANGED <<outvif, wants, lost>>
  BY <1>4 DEF RecvPrune
<1>6. Of("up", "set_prune")' = {t}
  <2>1. Of("up", "set_prune") = {}
    BY DEF RecvPrune
  <2> HIDE DEF t
  <2> QED
    BY <1>4, <1>5, <2>1 DEF Of
<1> HIDE DEF m, t
<1>7. OnePrune'
  <2>1. timer_id'["up"] = t.id
    BY <1>0, <1>1, <1>5
  <2> QED
    BY <1>6, <2>1 DEF OnePrune
<1>8. ASSUME NEW d \in Router, wants'[d] PROVE CoveredFor(d)'
  <2>1. CoveredFor(d) /\ d \in All /\ d # "up"
    BY <1>1, <1>5, <1>8 DEF Covered
  <2>2. inbox'[d] = Append(inbox[d], m) /\ Box' = Tail(Box)
    BY <1>1, <1>3, <2>1 DEF Box
  <2>3. timer_id'[d] = timer_id[d]
    BY <1>0, <1>5, <2>1
  <2>4. Of(d, "send_join") \subseteq Of(d, "send_join")'
    BY <1>5 DEF Of
  <2>5. /\ \A p \in 1..Len(Box') : Box'[p].type = "prune" =>
             /\ p + 1 \in 1..Len(Box) /\ Box[p + 1].type = "prune"
             /\ SafeUnread(d, p + 1) => SafeUnread(d, p)'
        /\ GraftIn(Box, 0, d) /\ Head(Box).type # "graft" => GraftIn(Box', 0, d)
        /\ GraftIn(Box, 1, d) => GraftIn(Box', 0, d)
        /\ JoinIn(Box, 1) => JoinIn(Box', 0)
        /\ \A n : Joining(d, n) => Joining(d, n)'
    BY <1>1, <1>3, <1>5, <2>2, <2>3, <2>4, HeadIsRead
  <2>6. Safe(d, PIM_PRUNE_DELAY)'
    <3>1. SafeUnread(d, 1)
      BY <1>1, <2>1 DEF CoveredFor
    <3>2. CASE GraftIn(Box, 1, d)
      BY <2>5, <3>2 DEF Safe
    <3>3. CASE JoinIn(Box, 1)
      BY <2>5, <3>3, DelaysAre DEF Safe
    <3>4. CASE lost # 0 \/ Answered(inbox[d])
      <4>1. Answers(inbox'[d], lost)
        <5> DEFINE s == inbox[d]  r == inbox'[d]
        <5>1. /\ s \in Seq(Message) /\ r = Append(s, m)
              /\ m \in Message /\ m.type # "join" /\ m.type \in {"prune", "echo"}
          BY <1>3, <2>2, Boxes
        <5>2. Answered(s) \/ lost # 0
          BY <3>4
        <5> HIDE DEF s, r
        <5>3. Answers(r, lost)
          BY <5>1, <5>2, AppendedAnswers
        <5> QED
          BY <5>3 DEF r
      <4> QED
        BY <1>5, <4>1, DelaysAre DEF Safe
    <3>5. CASE Joining(d, PIM_PRUNE_DELAY)
      BY <2>5, <3>5 DEF Safe
    <3> QED
      BY <3>1, <3>2, <3>3, <3>4, <3>5 DEF SafeUnread
  <2>7. ~outvif' => GraftIn(Box', 0, d)
    BY <1>1, <1>5, <2>1, <2>5 DEF CoveredFor
  <2>8. \A p \in 1..Len(Box') : Box'[p].type = "prune" => SafeUnread(d, p)'
    BY <2>1, <2>5 DEF CoveredFor
  <2> QED
    BY <1>4, <1>6, <2>6, <2>7, <2>8 DEF CoveredFor
<1> QED
  BY <1>7, <1>8 DEF Covered

(* A Join or a Graft cancels the delayed Prune.                            *)
LEMMA CancelLeavesNone ==
  ASSUME SubnetTypeOK, OnePrune, CancelPrune
  PROVE  /\ Of("up", "set_prune")' = {}
         /\ \A d \in Router : /\ Of(d, "send_join") \subseteq Of(d, "send_join")'
                              /\ timer_id'[d] = timer_id[d]
<1>1. timers' = timers \ Named("up", "set_prune", timer_id["up"])
  BY DEF CancelPrune
<1>2. Of("up", "set_prune")' = {}
  BY <1>1 DEF OnePrune, Of, Named
<1>3. \A d : Of(d, "send_join") \subseteq Of(d, "send_join")'
  BY <1>1 DEF Of, Named
<1>4. \A d \in Router : timer_id'[d] = timer_id[d]
  BY NoIdIs DEF CancelPrune, SubnetTypeOK
<1> QED
  BY <1>2, <1>3, <1>4

LEMMA RecvJoinCovers ==
  ASSUME SubnetTypeOK, Covered, RecvJoin
  PROVE  Covered'
<1> DEFINE m == [type |-> "graft_ack", from |-> "up"]
<1>1. /\ Box # << >> /\ Head(Box) = Box[1] /\ Head(Box).type = "join"
      /\ Read("up")["up"] = Tail(Box)
      /\ \A d \in Router : Read("up")[d] = inbox[d]
  BY HeadOfBox DEF RecvJoin
<1>2. m \in Message /\ m.type \notin {"join", "prune"}
  BY NoIdIs DEF Message
<1>3. /\ Of("up", "set_prune")' = {}
      /\ \A d \in Router : /\ Of(d, "send_join") \subseteq Of(d, "send_join")'
                           /\ timer_id'[d] = timer_id[d]
  BY CancelLeavesNone DEF RecvJoin, Covered
<1>4. UNCHANGED <<outvif, wants, lost>> /\ inbox' = Read("up")
  BY DEF RecvJoin, history
<1> HIDE DEF m
<1>5. ASSUME NEW d \in Router, wants'[d] PROVE CoveredFor(d)'
  <2>1. CoveredFor(d)
    BY <1>4, <1>5 DEF Covered
  <2>2. inbox'[d] = inbox[d] /\ Box' = Tail(Box)
    BY <1>1, <1>4 DEF Box
  <2>3. /\ \A p \in 1..Len(Box') : Box'[p].type = "prune" =>
             /\ p + 1 \in 1..Len(Box) /\ Box[p + 1].type = "prune"
             /\ SafeUnread(d, p + 1) => SafeUnread(d, p)'
        /\ GraftIn(Box, 0, d) /\ Head(Box).type # "graft" => GraftIn(Box', 0, d)
    BY <1>1, <1>2, <1>3, <1>4, <2>2, HeadIsRead
  <2>4. ~outvif' => GraftIn(Box', 0, d)
    BY <1>1, <1>4, <2>1, <2>3 DEF CoveredFor
  <2>5. \A p \in 1..Len(Box') : Box'[p].type = "prune" => SafeUnread(d, p)'
    BY <2>1, <2>3 DEF CoveredFor
  <2> QED
    BY <1>3, <2>4, <2>5 DEF CoveredFor
<1> QED
  BY <1>3, <1>5 DEF Covered, OnePrune

LEMMA RecvGraftCovers ==
  ASSUME SubnetTypeOK, Covered, RecvGraft
  PROVE  Covered'
<1> DEFINE m == [type |-> "graft_ack", from |-> "up"]
           to == Head(inbox["up"]).from
<1>1. /\ Box # << >> /\ Head(Box).type = "graft"
      /\ Read("up") \in [All -> Seq(Message)]
      /\ Read("up")["up"] = Tail(Box)
      /\ \A d \in Router : Read("up")[d] = inbox[d] /\ d \in All
      /\ "up" \in All
  BY HeadOfBox DEF RecvGraft
<1>2. m \in Message /\ m.type \notin {"join", "prune"}
  BY NoIdIs DEF Message
<1>3. /\ Of("up", "set_prune")' = {}
      /\ \A d \in Router : /\ Of(d, "send_join") \subseteq Of(d, "send_join")'
                           /\ timer_id'[d] = timer_id[d]
  BY CancelLeavesNone DEF RecvGraft, Covered
<1>4. /\ UNCHANGED <<wants, lost>> /\ outvif' = TRUE
      /\ inbox' = [Read("up") EXCEPT ![to] = Append(@, m)]
  BY DEF RecvGraft, history
<1> HIDE DEF m, to
<1>5. \A r \in All : inbox'[r] = Read("up")[r] \/ inbox'[r] = Append(Read("up")[r], m)
  BY <1>1, <1>4
<1>6. ASSUME NEW d \in Router, wants'[d] PROVE CoveredFor(d)'
  <2>1. CoveredFor(d)
    BY <1>4, <1>6 DEF Covered
  <2>2. /\ inbox'[d] = inbox[d] \/ inbox'[d] = Append(inbox[d], m)
        /\ Box' = Tail(Box) \/ Box' = Append(Tail(Box), m)
    BY <1>1, <1>5 DEF Box
  <2>3. \A p \in 1..Len(Box') : Box'[p].type = "prune" =>
          /\ p + 1 \in 1..Len(Box) /\ Box[p + 1].type = "prune"
          /\ SafeUnread(d, p + 1) => SafeUnread(d, p)'
    BY <1>1, <1>2, <1>3, <1>4, <2>2, HeadIsRead
  <2>4. \A p \in 1..Len(Box') : Box'[p].type = "prune" => SafeUnread(d, p)'
    BY <2>1, <2>3 DEF CoveredFor
  <2> QED
    BY <1>3, <1>4, <2>4 DEF CoveredFor
<1> QED
  BY <1>3, <1>6 DEF Covered, OnePrune

(* What one router downstream reads or sets matters to no other.           *)
LEMMA OthersCovered ==
  ASSUME SubnetTypeOK, Covered, NEW e \in Router,
         Of("up", "set_prune")' = Of("up", "set_prune"),
         \A d \in Router \ {e} : /\ inbox'[d] = inbox[d]
                                 /\ timer_id'[d] = timer_id[d]
                                 /\ Of(d, "send_join") \subseteq Of(d, "send_join")',
         inbox'["up"] = inbox["up"], timer_id'["up"] = timer_id["up"],
         UNCHANGED <<outvif, wants, lost>>,
         wants[e] /\ CoveredFor(e) =>
           /\ \A n : Safe(e, n) => Safe(e, n)'
           /\ \A p \in Nat : SafeUnread(e, p) => SafeUnread(e, p)'
  PROVE  Covered'
<1>1. Box' = Box
  BY DEF Box
<1>2. [type |-> "graft_ack", from |-> "up"] \in Message
  BY NoIdIs DEF Message
<1>3. ASSUME NEW d \in Router, wants'[d] PROVE CoveredFor(d)'
  <2>1. CoveredFor(d)
    BY <1>3 DEF Covered
  <2>2. /\ \A n : Safe(d, n) => Safe(d, n)'
        /\ \A p \in Nat : SafeUnread(d, p) => SafeUnread(d, p)'
    <3>1. CASE d = e
      BY <1>3, <2>1, <3>1
    <3>2. CASE d # e
      <4>1. /\ inbox'[d] = inbox[d] /\ timer_id'[d] = timer_id[d]
            /\ Of(d, "send_join") \subseteq Of(d, "send_join")'
        BY <3>2
      <4> QED
        BY <1>2, <4>1, OneMoreUnread
    <3> QED
      BY <3>1, <3>2
  <2>3. \A p \in 1..Len(Box') : p \in Nat
    BY <1>1, Boxes
  <2> QED
    BY <1>1, <2>1, <2>2, <2>3 DEF CoveredFor
<1> QED
  BY <1>3 DEF Covered, OnePrune

LEMMA HeadOf ==
  ASSUME SubnetTypeOK, NEW e \in Router, NEW types, Heads(e, types)
  PROVE  /\ inbox[e] \in Seq(Message) /\ inbox[e] # << >>
         /\ Head(inbox[e]) = inbox[e][1] /\ Head(inbox[e]).type \in types
         /\ 1 \in 1..Len(inbox[e])
         /\ Read(e)[e] = Tail(inbox[e])
         /\ Read(e)["up"] = inbox["up"]
         /\ \A d \in Router \ {e} : Read(e)[d] = inbox[d]
<1>1. inbox[e] \in Seq(Message) /\ inbox[e] # << >> /\ Head(inbox[e]).type \in types
  BY Boxes DEF Heads
<1>2. Head(inbox[e]) = inbox[e][1] /\ 1 \in 1..Len(inbox[e])
  BY <1>1, TailOf
<1>3. inbox \in [All -> Seq(Message)] /\ e \in All /\ "up" \in All \ {e}
  BY NoIdIs DEF SubnetTypeOK
<1> QED
  BY <1>1, <1>2, <1>3, ReadTyped, NoIdIs

(* A Prune or an echo is heard: it will be answered, before it is late.    *)
LEMMA OverheardPruneCovers ==
  ASSUME SubnetTypeOK, Covered, NEW e \in Router, OverheardPrune(e)
  PROVE  Covered'
<1> DEFINE s == inbox[e]  r == inbox'[e]  u == New(e, "send_join", JoinDelay)
<1>0. IsFiniteSet(timers) /\ timer_id \in [All -> Nat] /\ e \in All /\ e # "up"
      /\ "up" \in All
  BY NoIdIs DEF SubnetTypeOK
<1>1. /\ s \in Seq(Message) /\ s # << >> /\ 1 \in 1..Len(s)
      /\ Read(e)[e] = Tail(s) /\ Read(e)["up"] = inbox["up"]
      /\ \A d \in Router \ {e} : Read(e)[d] = inbox[d]
  BY HeadOf DEF OverheardPrune
<1>2. inbox' = Read(e) /\ UNCHANGED <<outvif, wants, lost>>
  BY DEF OverheardPrune, history
<1>3. /\ u.at = e /\ u.func = "send_join" /\ u.left = JoinDelay
      /\ u.id = NewId(e, "send_join")
      /\ \A t \in Of(e, "send_join") : t.id # u.id
  BY <1>0, NewIdIs DEF New
<1>4. \/ /\ timers' = timers \union {u}
         /\ timer_id' = [timer_id EXCEPT ![e] = u.id]
      \/ ~wants[e] /\ timers' = timers /\ timer_id' = timer_id
  BY <1>3 DEF OverheardPrune
<1>5. r = Tail(s) /\ Box' = Box
  BY <1>1, <1>2 DEF Box
<1> HIDE DEF u
<1>6. Of("up", "set_prune")' = Of("up", "set_prune")
  BY <1>0, <1>3, <1>4 DEF Of
<1>7. /\ \A d \in All \ {e} : timer_id'[d] = timer_id[d]
      /\ \A d : Of(d, "send_join") \subseteq Of(d, "send_join")'
  BY <1>0, <1>4 DEF Of
<1>8. ASSUME wants[e]
      PROVE  /\ \A n : Safe(e, n) => Safe(e, n)'
             /\ \A p \in Nat : SafeUnread(e, p) => SafeUnread(e, p)'
  <2>1. timers' = timers \union {u} /\ timer_id'[e] = u.id
    BY <1>0, <1>4, <1>8
  <2>2. u \in Of(e, "send_join")'
    BY <1>3, <2>1 DEF Of
  <2>3. ASSUME NEW n, Joining(e, n) PROVE Joining(e, n)'
    <3>1. PICK t \in Of(e, "send_join") : t.left < n
      BY <2>3 DEF Joining
    <3>2. t \in Of(e, "send_join")' /\ t.id # timer_id'[e]
      BY <1>3, <1>7, <2>1
    <3> QED
      BY <3>1, <3>2 DEF Joining
  <2>4. ASSUME NEW n, JoinDelay < n, ~JoinIn(r, 0) PROVE Joining(e, n)'
    BY <1>3, <2>2, <2>4 DEF Joining
  <2>5. Answers(s, lost) => Answers(r, lost) \/ ~JoinIn(r, 0)
    <3> HIDE DEF s, r
    <3> QED
      BY <1>1, <1>5, TailAnswers
  <2>6. Answered(s) => Answered(r) \/ ~JoinIn(r, 0)
    <3>1. \A p \in 1..Len(s) : Answer(s, p) => ~JoinIn(r, 0) \/ Answered(r)
      <4> HIDE DEF s, r
      <4> QED
        BY <1>1, <1>5, TailAnswers
    <3> QED
      BY <3>1 DEF Answered
  <2>7. ASSUME NEW n, Safe(e, n) PROVE Safe(e, n)'
    <3>1. CASE GraftIn(Box, 0, e) \/ (n > 0 /\ JoinIn(Box, 0))
      BY <1>5, <3>1 DEF Safe
    <3>2. CASE n > JoinDelay /\ Answers(s, lost)
      <4>1. CASE Answers(r, lost)
        BY <1>2, <3>2, <4>1 DEF Safe
      <4>2. CASE ~JoinIn(r, 0)
        <5>1. JoinDelay < n
          BY <3>2
        <5>2. Joining(e, n)'
          BY <2>4, <4>2, <5>1
        <5> QED
          BY <5>2 DEF Safe
      <4> QED
        BY <2>5, <3>2, <4>1, <4>2
    <3>3. CASE Joining(e, n)
      BY <2>3, <3>3 DEF Safe
    <3> QED
      BY <2>7, <3>1, <3>2, <3>3 DEF Safe
  <2>8. ASSUME NEW p \in Nat, SafeUnread(e, p) PROVE SafeUnread(e, p)'
    <3>1. CASE GraftIn(Box, p, e) \/ JoinIn(Box, p)
      BY <1>5, <3>1 DEF SafeUnread
    <3>2. CASE lost # 0
      BY <1>2, <3>2 DEF SafeUnread
    <3>3. CASE Answered(s)
      <4>1. CASE Answered(r)
        BY <4>1 DEF SafeUnread
      <4>2. CASE ~JoinIn(r, 0)
        <5>1. Joining(e, PIM_PRUNE_DELAY)'
          BY <2>4, <4>2, DelaysAre
        <5> QED
          BY <5>1 DEF SafeUnread
      <4> QED
        BY <2>6, <3>3, <4>1, <4>2
    <3>4. CASE Joining(e, PIM_PRUNE_DELAY)
      BY <2>3, <3>4 DEF SafeUnread
    <3> QED
      BY <2>8, <3>1, <3>2, <3>3, <3>4 DEF SafeUnread
  <2> QED
    BY <2>7, <2>8
<1>9. \A d \in Router \ {e} :
        /\ inbox'[d] = inbox[d] /\ timer_id'[d] = timer_id[d]
        /\ Of(d, "send_join") \subseteq Of(d, "send_join")'
  BY <1>1, <1>2, <1>7, NoIdIs
<1>10. inbox'["up"] = inbox["up"] /\ timer_id'["up"] = timer_id["up"]
  BY <1>0, <1>1, <1>2, <1>7
<1> QED
  BY <1>2, <1>6, <1>8, <1>9, <1>10, OthersCovered

(* A Join is heard: one's own, if it was to be sent, is superfluous.       *)
LEMMA OverheardJoinCovers ==
  ASSUME SubnetTypeOK, Covered, NEW e \in Router, OverheardJoin(e)
  PROVE  Covered'
<1> DEFINE s == inbox[e]  r == inbox'[e]
<1>0. timer_id \in [All -> Nat] /\ timers \subseteq Timer /\ e \in All /\ e # "up"
      /\ "up" \in All
  BY NoIdIs DEF SubnetTypeOK
<1>1. /\ s \in Seq(Message) /\ s # << >> /\ 1 \in 1..Len(s)
      /\ Head(s) = s[1] /\ Head(s).type = "join"
      /\ Read(e)[e] = Tail(s) /\ Read(e)["up"] = inbox["up"]
      /\ \A d \in Router \ {e} : Read(e)[d] = inbox[d]
  BY HeadOf DEF OverheardJoin
<1>2. /\ inbox' = Read(e) /\ UNCHANGED <<outvif, wants, lost>>
      /\ timers' = timers \ Named(e, "send_join", timer_id[e])
      /\ timer_id' = [timer_id EXCEPT ![e] = NoId]
  BY DEF OverheardJoin, history
<1>3. r = Tail(s) /\ Box' = Box
  BY <1>1, <1>2 DEF Box
<1>4. Of("up", "set_prune")' = Of("up", "set_prune")
  BY <1>2 DEF Of, Named
<1>5. /\ \A d \in All \ {e} :
           /\ timer_id'[d] = timer_id[d]
           /\ Of(d, "send_join") \subseteq Of(d, "send_join")'
      /\ \A u \in Of(e, "send_join") :
           u.id # timer_id[e] => u \in Of(e, "send_join")' /\ u.id # timer_id'[e]
  <2>1. \A u \in timers : u.id # NoId
    BY <1>0 DEF Timer, NoId
  <2> QED
    BY <1>0, <1>2, <2>1 DEF Of, Named
<1>6. JoinIn(s, 0)
  <2> HIDE DEF s
  <2>1. 1 \in (0 + 1)..Len(s)
    BY <1>1
  <2> QED
    BY <1>1, <2>1 DEF JoinIn
<1>7. ASSUME NEW n, Joining(e, n) PROVE Joining(e, n)'
  <2>1. PICK u \in Of(e, "send_join") : u.left < n /\ u.id # timer_id[e]
    BY <1>6, <1>7 DEF Joining
  <2>2. u \in Of(e, "send_join")' /\ u.id # timer_id'[e]
    BY <1>5, <2>1
  <2> QED
    BY <2>1, <2>2 DEF Joining
<1>8. Answers(s, lost) => Answers(r, lost)
  <2> HIDE DEF s, r
  <2>1. Head(s).type \notin {"prune", "echo"}
    BY <1>1
  <2> QED
    BY <1>1, <1>3, <2>1, TailAnswers
<1>9. Answered(s) => Answered(r)
  <2> HIDE DEF s, r
  <2>1. Head(s).type \notin {"prune", "echo"}
    BY <1>1
  <2>2. \A p \in 1..Len(s) : Answer(s, p) => Answered(r)
    BY <1>1, <1>3, <2>1, TailAnswers
  <2> QED
    BY <2>2 DEF Answered
<1>10. /\ \A n : Safe(e, n) => Safe(e, n)'
       /\ \A p \in Nat : SafeUnread(e, p) => SafeUnread(e, p)'
  <2>1. ASSUME NEW n, Safe(e, n) PROVE Safe(e, n)'
    <3>1. CASE Joining(e, n)
      BY <1>7, <3>1 DEF Safe
    <3> QED
      BY <1>2, <1>3, <1>8, <2>1, <3>1 DEF Safe
  <2>2. ASSUME NEW p \in Nat, SafeUnread(e, p) PROVE SafeUnread(e, p)'
    <3>1. CASE Joining(e, PIM_PRUNE_DELAY)
      BY <1>7, <3>1 DEF SafeUnread
    <3> QED
      BY <1>2, <1>3, <1>9, <2>2, <3>1 DEF SafeUnread
  <2> QED
    BY <2>1, <2>2
<1>11. \A d \in Router \ {e} :
         /\ inbox'[d] = inbox[d] /\ timer_id'[d] = timer_id[d]
         /\ Of(d, "send_join") \subseteq Of(d, "send_join")'
  BY <1>1, <1>2, <1>5, NoIdIs
<1>12. inbox'["up"] = inbox["up"] /\ timer_id'["up"] = timer_id["up"]
  BY <1>0, <1>1, <1>2, <1>5
<1> QED
  BY <1>2, <1>4, <1>10, <1>11, <1>12, OthersCovered

LEMMA GraftAckCovers ==
  ASSUME SubnetTypeOK, Covered, NEW e \in Router, RecvGraftAck(e)
  PROVE  Covered'
<1> DEFINE s == inbox[e]  r == inbox'[e]
<1>1. /\ s \in Seq(Message) /\ s # << >> /\ 1 \in 1..Len(s)
      /\ Head(s) = s[1] /\ Head(s).type = "graft_ack"
      /\ Read(e)[e] = Tail(s) /\ Read(e)["up"] = inbox["up"]
      /\ \A d \in Router \ {e} : Read(e)[d] = inbox[d]
  BY HeadOf DEF RecvGraftAck
<1>2. /\ inbox' = Read(e) /\ UNCHANGED <<outvif, wants, lost, timer_id>>
      /\ timers' = timers \ Named(e, "plan_graft", graft_id[e])
  BY DEF RecvGraftAck, history
<1>3. r = Tail(s) /\ Box' = Box
  BY <1>1, <1>2 DEF Box
<1>4. /\ Of("up", "set_prune")' = Of("up", "set_prune")
      /\ \A d : Of(d, "send_join")' = Of(d, "send_join")
  BY <1>2 DEF Of, Named
<1>5. ~JoinIn(s, 0) => ~JoinIn(r, 0)
  <2> HIDE DEF s, r
  <2> QED
    BY <1>1, <1>3, TailIn
<1>6. ASSUME NEW n, Joining(e, n) PROVE Joining(e, n)'
  <2>1. PICK u \in Of(e, "send_join") :
          u.left < n /\ (u.id # timer_id[e] \/ ~JoinIn(s, 0))
    BY <1>6 DEF Joining
  <2>2. u \in Of(e, "send_join")' /\ (u.id # timer_id'[e] \/ ~JoinIn(r, 0))
    BY <1>2, <1>4, <1>5, <2>1
  <2> QED
    BY <2>1, <2>2 DEF Joining
<1>7. Answers(s, lost) => Answers(r, lost)
  <2> HIDE DEF s, r
  <2>1. Head(s).type \notin {"prune", "echo"}
    BY <1>1
  <2> QED
    BY <1>1, <1>3, <2>1, TailAnswers
<1>8. Answered(s) => Answered(r)
  <2> HIDE DEF s, r
  <2>1. Head(s).type \notin {"prune", "echo"}
    BY <1>1
  <2>2. \A p \in 1..Len(s) : Answer(s, p) => Answered(r)
    BY <1>1, <1>3, <2>1, TailAnswers
  <2> QED
    BY <2>2 DEF Answered
<1>9. /\ \A n : Safe(e, n) => Safe(e, n)'
      /\ \A p \in Nat : SafeUnread(e, p) => SafeUnread(e, p)'
  <2>1. ASSUME NEW n, Safe(e, n) PROVE Safe(e, n)'
    <3>1. CASE Joining(e, n)
      BY <1>6, <3>1 DEF Safe
    <3> QED
      BY <1>2, <1>3, <1>7, <2>1, <3>1 DEF Safe
  <2>2. ASSUME NEW p \in Nat, SafeUnread(e, p) PROVE SafeUnread(e, p)'
    <3>1. CASE Joining(e, PIM_PRUNE_DELAY)
      BY <1>6, <3>1 DEF SafeUnread
    <3> QED
      BY <1>2, <1>3, <1>8, <2>2, <3>1 DEF SafeUnread
  <2> QED
    BY <2>1, <2>2
<1>10. /\ inbox'["up"] = inbox["up"]
       /\ \A d \in Router \ {e} : inbox'[d] = inbox[d]
  BY <1>1, <1>2
<1> QED
  BY <1>2, <1>4, <1>9, <1>10, OthersCovered

-----------------------------------------------------------------------------
(* The one Prune, or echo, that may be lost.                               *)
LEMMA LossCovers ==
  ASSUME SubnetTypeOK, Covered, NEW e \in All, Lose(e), ~missed'
  PROVE  Covered'
<1>1. /\ lost = 0 /\ lost' = 1 /\ e \in Router /\ e # "up"
      /\ Heads(e, {"prune", "echo"})
  <2>1. lost \in Nat /\ lost' = lost + 1
    BY DelaysAre DEF Lose, SubnetTypeOK
  <2>2. ~(lost > 0) /\ e # "up" /\ Heads(e, {"prune", "echo"})
    BY DEF Lose
  <2> QED
    BY <2>1, <2>2 DEF All
<1>2. /\ inbox' = Read(e) /\ UNCHANGED <<outvif, wants, timer_id, timers>>
  BY DEF Lose, fields
<1>3. /\ inbox[e] \in Seq(Message) /\ inbox[e] # << >>
      /\ inbox'[e] = Tail(inbox[e]) /\ inbox'["up"] = inbox["up"]
      /\ \A d \in Router \ {e} : inbox'[d] = inbox[d]
  BY <1>1, <1>2, HeadOf
<1>4. /\ Box' = Box /\ \A r, f : Of(r, f)' = Of(r, f)
  BY <1>2, <1>3 DEF Box, Of
<1>5. ASSUME NEW d \in Router
      PROVE  /\ Answers(inbox[d], lost) => Answers(inbox'[d], lost')
             /\ ~JoinIn(inbox[d], 0) => ~JoinIn(inbox'[d], 0)
  <2> DEFINE s == inbox[d]  r == inbox'[d]
  <2>1. CASE d = e
    <3>1. s \in Seq(Message) /\ s # << >> /\ r = Tail(s)
      BY <1>3, <2>1
    <3> HIDE DEF s, r
    <3>2. Answers(s, 0) => Answers(r, 1)
      BY <3>1, TailAnswers
    <3>3. ~JoinIn(s, 0) => ~JoinIn(r, 0)
      BY <3>1, TailIn
    <3> USE DEF s, r
    <3> QED
      BY <1>1, <3>2, <3>3
  <2>2. CASE d # e
    <3>1. r = s
      BY <1>3, <2>2
    <3> HIDE DEF s, r
    <3>2. Answers(s, 0) => Answers(s, 1)
      BY DEF Answers
    <3> USE DEF s, r
    <3> QED
      BY <1>1, <3>1, <3>2
  <2> QED
    BY <2>1, <2>2
<1>6. ASSUME NEW d \in Router, NEW n, Joining(d, n) PROVE Joining(d, n)'
  <2>1. PICK u \in Of(d, "send_join") :
          u.left < n /\ (u.id # timer_id[d] \/ ~JoinIn(inbox[d], 0))
    BY <1>6 DEF Joining
  <2>2. u \in Of(d, "send_join")' /\ (u.id # timer_id'[d] \/ ~JoinIn(inbox'[d], 0))
    BY <1>2, <1>4, <1>5, <2>1
  <2> QED
    BY <2>1, <2>2 DEF Joining
<1>7. ASSUME NEW d \in Router, NEW n, Safe(d, n) PROVE Safe(d, n)'
  <2>1. CASE Joining(d, n)
    BY <1>6, <2>1 DEF Safe
  <2> QED
    BY <1>4, <1>5, <1>7, <2>1 DEF Safe
<1>8. lost' # 0
  BY <1>1
<1>9. ASSUME NEW d \in Router, wants'[d] PROVE CoveredFor(d)'
  <2>1. CoveredFor(d)
    BY <1>2, <1>9 DEF Covered
  <2>2. \A p : SafeUnread(d, p)'
    BY <1>8 DEF SafeUnread
  <2> QED
    BY <1>2, <1>4, <1>7, <2>1, <2>2 DEF CoveredFor
<1>10. OnePrune'
  BY <1>2, <1>4 DEF Covered, OnePrune
<1> QED
  BY <1>9, <1>10 DEF Covered

(* A second passes: nothing is unread, so a Prune that is delayed has a    *)
(* Join timer that is earlier, and both come closer.                       *)
LEMMA TickCovers ==
  ASSUME SubnetTypeOK, Covered, Tick
  PROVE  Covered'
<1>1. /\ \A r \in All : inbox[r] = << >> /\ inbox'[r] = << >>
      /\ UNCHANGED <<outvif, wants, timer_id>>
  BY DEF Tick, fields
<1>2. Box = << >> /\ Box' = << >> /\ \A d \in Router : inbox[d] = << >> /\ inbox'[d] = << >>
  BY <1>1, NoIdIs DEF Box
<1>3. /\ \A p, d : ~GraftIn(<< >>, 0, d) /\ ~JoinIn(<< >>, 0)
      /\ \A n : ~Answers(<< >>, n)
  BY DEF GraftIn, JoinIn, Answers
<1>4. \A u \in timers' : \E t \in timers :
        /\ u = [t EXCEPT !.left = @ - 1]
        /\ u.at = t.at /\ u.func = t.func /\ u.id = t.id /\ u.left = t.left - 1
  BY TickIs
<1>5. \A t \in timers : \E u \in timers' :
        u.at = t.at /\ u.func = t.func /\ u.id = t.id /\ u.left = t.left - 1
  BY TickIs
<1>6. \A t \in timers : t.left \in Nat
  BY DelaysAre DEF SubnetTypeOK, Timer
<1>7. \A u \in Of("up", "set_prune")' : \E t \in Of("up", "set_prune") :
        u = [t EXCEPT !.left = @ - 1] /\ u.id = t.id /\ u.left = t.left - 1
  BY <1>4 DEF Of
<1>8. OnePrune'
  <2> SUFFICES ASSUME NEW u \in Of("up", "set_prune")', NEW v \in Of("up", "set_prune")'
               PROVE  u = v /\ u.id = timer_id'["up"]
    BY DEF OnePrune
  <2>1. PICK t \in Of("up", "set_prune") : u = [t EXCEPT !.left = @ - 1] /\ u.id = t.id
    BY <1>7
  <2>2. PICK w \in Of("up", "set_prune") : v = [w EXCEPT !.left = @ - 1]
    BY <1>7
  <2>3. t = w /\ t.id = timer_id["up"]
    BY DEF Covered, OnePrune
  <2> QED
    BY <1>1, <2>1, <2>2, <2>3
<1>9. ASSUME NEW d \in Router, wants'[d] PROVE CoveredFor(d)'
  <2>1. CoveredFor(d)
    BY <1>1, <1>9 DEF Covered
  <2>2. outvif'
    BY <1>1, <1>2, <1>3, <2>1 DEF CoveredFor
  <2>3. ASSUME NEW u \in Of("up", "set_prune")' PROVE Safe(d, u.left)'
    <3>1. PICK t \in Of("up", "set_prune") : u.left = t.left - 1
      BY <1>7
    <3>2. Joining(d, t.left)
      BY <1>2, <1>3, <2>1 DEF CoveredFor, Safe
    <3>3. PICK j \in Of(d, "send_join") : j.left < t.left
      BY <3>2 DEF Joining
    <3>4. PICK k \in timers' :
            k.at = j.at /\ k.func = j.func /\ k.id = j.id /\ k.left = j.left - 1
      BY <1>5 DEF Of
    <3>5. k \in Of(d, "send_join")'
      BY <3>4 DEF Of
    <3>6. k.left < u.left
      <4>1. j.left \in Nat /\ t.left \in Nat
        BY <1>6 DEF Of
      <4> QED
        BY <3>1, <3>3, <3>4, <4>1
    <3>7. ~JoinIn(inbox'[d], 0)
      BY <1>2, <1>3
    <3>8. Joining(d, u.left)'
      BY <3>5, <3>6, <3>7 DEF Joining
    <3> QED
      BY <3>8 DEF Safe
  <2>4. \A p \in 1..Len(Box') : Box'[p].type = "prune" => SafeUnread(d, p)'
    BY <1>2
  <2> QED
    BY <2>2, <2>3, <2>4 DEF CoveredFor
<1> QED
  BY <1>8, <1>9 DEF Covered

-----------------------------------------------------------------------------
LEMMA HostsCover ==
  ASSUME SubnetTypeOK, Covered, Hosts
  PROVE  Covered'
<1>1. PICK e \in Router : HostsJoin(e) \/ HostsLeave(e)
  BY DEF Hosts
<1>2. CASE HostsJoin(e)
  <2>1. /\ plan_graft(e, timers, inbox) /\ UNCHANGED <<outvif, timer_id, lost>>
        /\ wants' = [wants EXCEPT ![e] = TRUE]
    BY <1>2 DEF HostsJoin
  <2>2. \A d \in Router \ {e} : wants'[d] => wants[d]
    BY <2>1 DEF SubnetTypeOK
  <2>3. \A t \in timers \ timers : t.func = "plan_graft"
    OBVIOUS
  <2>4. timers \in SUBSET timers
    OBVIOUS
  <2> QED
    BY <2>1, <2>2, <2>3, <2>4, GraftCovers
<1> QED
  BY <1>1, <1>2, LeaveCovers

LEMMA ReadsCover ==
  ASSUME SubnetTypeOK, Covered, Reads, ~overlapped'
  PROVE  Covered'
  BY RecvPruneCovers, RecvJoinCovers, RecvGraftCovers, OverheardPruneCovers,
     OverheardJoinCovers, GraftAckCovers DEF Reads

LEMMA ExpiresCovers ==
  ASSUME SubnetTypeOK, Covered, Expires
  PROVE  Covered'
<1>1. ASSUME NEW e \in Router, retry_graft(e) PROVE Covered'
  <2>1. PICK t \in Due(e, "plan_graft") : plan_graft(e, timers \ {t}, inbox)
    BY <1>1 DEF retry_graft
  <2>2. UNCHANGED <<outvif, wants, timer_id, lost>>
    BY <1>1 DEF retry_graft, history
  <2>3. \A u \in timers \ (timers \ {t}) : u.func = "plan_graft"
    BY DEF Due, Of
  <2>4. \A d \in Router \ {e} : wants'[d] => wants[d]
    BY <2>2
  <2>5. timers \ {t} \in SUBSET timers
    OBVIOUS
  <2> QED
    BY <2>1, <2>2, <2>3, <2>4, <2>5, GraftCovers
<1> QED
  BY <1>1, PruneCovers, TimeOutCovers, JoinCovers DEF Expires

(* What was missed, or overlapped, stays so.                               *)
LEMMA MissedStays ==
  ASSUME SubnetTypeOK, missed => lost # 0, [SubnetNext]_subnetVars
  PROVE  /\ missed' => lost' # 0
         /\ ~missed' /\ ~overlapped' => ~missed /\ ~overlapped
<1>1. lost \in Nat
  BY DelaysAre DEF SubnetTypeOK
<1>2. CASE Loss
  <2>1. PICK r \in All : Lose(r)
    BY <1>2 DEF Loss
  <2>2. lost' = lost + 1 /\ (lost > 0 => missed') /\ overlapped' = overlapped
    BY <2>1 DEF Lose
  <2> QED
    BY <1>1, <2>2
<1>3. CASE Hosts
  BY <1>3 DEF Hosts, HostsJoin, HostsLeave
<1>4. CASE Reads
  <2>1. CASE RecvPrune
    BY <2>1 DEF RecvPrune
  <2>2. CASE RecvJoin \/ RecvGraft
    BY <2>2 DEF RecvJoin, RecvGraft, history
  <2>3. ASSUME NEW d \in Router, OverheardPrune(d) \/ OverheardJoin(d) \/ RecvGraftAck(d)
        PROVE  history' = history
    BY <2>3 DEF OverheardPrune, OverheardJoin, RecvGraftAck
  <2> QED
    BY <1>4, <2>1, <2>2, <2>3 DEF Reads, history
<1>5. CASE Expires
  <2>1. CASE set_prune \/ prune_time_out
    BY <2>1 DEF set_prune, prune_time_out, history
  <2>2. ASSUME NEW d \in Router, send_join(d) PROVE history' = history
    BY <2>2 DEF send_join
  <2>3. ASSUME NEW d \in Router, retry_graft(d) PROVE history' = history
    BY <2>3 DEF retry_graft
  <2> QED
    BY <1>5, <2>1, <2>2, <2>3 DEF Expires, history
<1>6. CASE Tick
  BY <1>6 DEF Tick, history
<1>7. CASE UNCHANGED subnetVars
  BY <1>7 DEF subnetVars, history
<1> QED
  BY <1>2, <1>3, <1>4, <1>5, <1>6, <1>7 DEF SubnetNext

LEMMA UnchangedCovers ==
  ASSUME Covered, UNCHANGED subnetVars
  PROVE  Covered'
  BY DEF subnetVars, fields, history, Covered, OnePrune, CoveredFor, Safe, SafeUnread,
         Joining, Box, Of

LEMMA SubnetInvInit == SubnetInit => SubnetInv
<1> SUFFICES ASSUME SubnetInit PROVE SubnetInv
  OBVIOUS
<1>1. SubnetTypeOK
  BY InitTyped
<1>2. Of("up", "set_prune") = {} /\ Box = << >> /\ outvif /\ ~missed
  BY NoIdIs DEF SubnetInit, Of, Box
<1>3. Covered
  BY <1>2 DEF Covered, OnePrune, CoveredFor
<1> QED
  BY <1>1, <1>2, <1>3 DEF SubnetInv

LEMMA SubnetInvStep == SubnetInv /\ [SubnetNext]_subnetVars => SubnetInv'
<1> SUFFICES ASSUME SubnetInv, [SubnetNext]_subnetVars PROVE SubnetInv'
  OBVIOUS
<1>1. SubnetTypeOK /\ (missed => lost # 0) /\ (~missed /\ ~overlapped => Covered)
  BY DEF SubnetInv
<1>2. SubnetTypeOK'
  BY <1>1, SubnetTyped
<1>3. /\ missed' => lost' # 0
      /\ ~missed' /\ ~overlapped' => ~missed /\ ~overlapped
  BY <1>1, MissedStays
<1>4. ASSUME ~missed', ~overlapped' PROVE Covered'
  <2>1. Covered
    BY <1>1, <1>3, <1>4
  <2>2. CASE Loss
    BY <1>1, <1>4, <2>1, <2>2, LossCovers DEF Loss
  <2> QED
    BY <1>1, <1>4, <2>1, <2>2, HostsCover, ReadsCover, ExpiresCovers, TickCovers,
       UnchangedCovers DEF SubnetNext
<1> QED
  BY <1>2, <1>3, <1>4 DEF SubnetInv

(* The variables of the subnet have their types: a queue holds messages    *)
(* between its routers, and there are finitely many timers, none past its  *)
(* time, each with an identifier (pim.c:409-657, 966-1040).                *)
THEOREM SubnetTypeCorrect == SubnetSpec => []SubnetTypeOK
<1>1. SubnetInv => SubnetTypeOK
  BY DEF SubnetInv
<1> QED
  BY <1>1, SubnetInvInit, SubnetInvStep, PTL DEF SubnetSpec

(* However many routers share the subnet and however Prunes, echoes, Joins *)
(* and Grafts cross: no router that wants the flow is cut off from it,     *)
(* unless its Graft is already there, until two Prunes overlap or more is  *)
(* lost than one Prune or echo that is overheard (pim.c:409-657).          *)
THEOREM SubnetNotCutOff == SubnetSpec => []NotCutOff
<1>1. SubnetInv => NotCutOff
  <2> SUFFICES ASSUME SubnetInv, ~missed, ~overlapped, ~outvif, NEW d \in Router, wants[d]
               PROVE  \E p \in 1..Len(inbox["up"]) :
                        inbox["up"][p] = [type |-> "graft", from |-> d]
    BY DEF NotCutOff
  <2>1. GraftIn(Box, 0, d)
    BY DEF SubnetInv, Covered, CoveredFor
  <2>2. \E p \in (0 + 1)..Len(inbox["up"]) :
          inbox["up"][p] = [type |-> "graft", from |-> d]
    BY <2>1 DEF GraftIn, Box
  <2> QED
    BY <2>2
<1> QED
  BY <1>1, SubnetInvInit, SubnetInvStep, PTL DEF SubnetSpec

=============================================================================
