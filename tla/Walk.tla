-------------------------------- MODULE Walk --------------------------------
(***************************************************************************)
(* How receive_join_prune, receive_pim_graft and receive_pim_graft_ack     *)
(* (pim.c) find the groups and sources of a message: a cursor moves over   *)
(* the packet, by a number of bytes that the handlers compute in different *)
(* ways after each source.  Offsets are counted in units of four bytes     *)
(* from the first group; a group's header has three of them, an encoded    *)
(* source address two.                                                     *)
(*                                                                         *)
(* A source is "unknown" when it is no valid host or has no entry in the   *)
(* table, "idle" when its entry has outnumber 0, and "wanted" otherwise.   *)
(***************************************************************************)
EXTENDS Integers, Sequences

CONSTANTS
  Packet  \* the packets that may arrive: what they are, and their groups,
          \* each with the sources joined and pruned

Type == {"to_me", "overheard", "graft", "graft_ack"}
Source == {"unknown", "idle", "wanted"}

Group == [multicast : BOOLEAN, joins : Seq(Source), prunes : Seq(Source)]

ASSUME WalkAssumption == Packet \subseteq [type : Type, groups : Seq(Group)]

VARIABLES
  packet,
  mydata,   \* the cursor
  i,        \* groups begun
  group,    \* the group whose header was read last
  pc,       \* what is read next
  number,   \* how many of them are left
  handled,  \* history: the sources handled, and as what
  astray    \* history: something was read that is not what it was taken for

vars == <<packet, mydata, i, group, pc, number, handled, astray>>

HEADER == 3
SOURCE == 2

-----------------------------------------------------------------------------
(* The packet: where its groups and sources are.                           *)
Groups == packet.groups
Sources(g) == Groups[g].joins \o Groups[g].prunes

GroupAt ==
  LET at[g \in 1..Len(Groups)] ==
        IF g = 1 THEN 0
        ELSE at[g - 1] + (HEADER + SOURCE * Len(Sources(g - 1)))
  IN  at

SourceAt(g, s) == GroupAt[g] + HEADER + SOURCE * (s - 1)

GroupsHere == {g \in 1..Len(Groups) : GroupAt[g] = mydata}

SourcesHere ==
  UNION {{<<g, s>> : s \in {n \in 1..Len(Sources(g)) : SourceAt(g, n) = mydata}} :
          g \in 1..Len(Groups)}

JoinPrune == packet.type \in {"to_me", "overheard"}

(* What a walk should handle, in order.                                    *)
SentIn(g) ==
  IF ~Groups[g].multicast THEN << >>
  ELSE [s \in 1..Len(Sources(g)) |->
         [as |-> IF s <= Len(Groups[g].joins) THEN "join" ELSE "prune",
          source |-> <<g, s>>]]

Sent ==
  LET upto[g \in 0..Len(Groups)] ==
        IF g = 0 THEN << >> ELSE upto[g - 1] \o SentIn(g)
  IN  upto[Len(Groups)]

TypeOK ==
  /\ packet \in Packet
  /\ mydata \in Nat
  /\ i \in 0..Len(Groups)
  /\ group \in 0..Len(Groups)
  /\ pc \in {"group", "join", "prune", "done"}
  /\ number \in Nat
  /\ handled \in Seq([as : {"join", "prune"}, source : Nat \X Nat])
  /\ astray \in BOOLEAN

Init ==
  /\ packet \in Packet
  /\ mydata = 0
  /\ i = 0 /\ group = 0
  /\ pc = "group" /\ number = 0
  /\ handled = << >>
  /\ astray = FALSE

-----------------------------------------------------------------------------
(* join_number and prune_number.  That of an acknowledgement is not        *)
(* converted from network order.                                           *)
Swapped(n) == 256 * (n % 256) + n \div 256

join_number(g) ==
  LET n == Len(Groups[g].joins)
  IN  IF packet.type = "graft_ack" THEN Swapped(n) ELSE n

prune_number(g) == IF JoinPrune THEN Len(Groups[g].prunes) ELSE 0

(* The next group's header, while there is one.                            *)
MoreGroups == i < Len(Groups)

ReadGroup ==
  /\ pc = "group" /\ ~astray
  /\ MoreGroups
  /\ i' = i + 1
  /\ \/ \E g \in GroupsHere :
          /\ group' = g
          /\ \/ /\ Groups[g].multicast
                /\ mydata' = mydata + HEADER
                /\ pc' = "join"
                /\ number' = join_number(g)
             \/ /\ ~Groups[g].multicast
                /\ mydata' = mydata + HEADER
                               + SOURCE * (join_number(g) + prune_number(g))
                /\ UNCHANGED <<pc, number>>
          /\ UNCHANGED astray
     \/ /\ GroupsHere = {}
        /\ astray' = TRUE
        /\ UNCHANGED <<mydata, group, pc, number>>
  /\ UNCHANGED <<packet, handled>>

(* How far the cursor moves after a source: past it when nothing is done   *)
(* for it, and for an overheard Prune of a flow that is wanted; past all   *)
(* the sources of the group otherwise, or not at all for Grafts and        *)
(* acknowledgements.  The slips are to stay, and to move on by one, for    *)
(* all messages alike.                                                     *)
StepOne(source) == SOURCE

StepNot(source) == IF source = "unknown" THEN SOURCE ELSE 0

Step(source) ==
  CASE source = "unknown" -> SOURCE
    [] source # "unknown" /\ ~JoinPrune -> 0
    [] source = "wanted" /\ packet.type = "overheard" /\ pc = "prune" -> SOURCE
    [] OTHER -> SOURCE * (join_number(group) + prune_number(group))

ReadSource ==
  /\ pc \in {"join", "prune"} /\ ~astray
  /\ number > 0
  /\ number' = number - 1
  /\ \/ \E s \in SourcesHere :
          /\ handled' = Append(handled, [as |-> pc, source |-> s])
          /\ mydata' = mydata + Step(Sources(s[1])[s[2]])
          /\ UNCHANGED astray
     \/ /\ SourcesHere = {}
        /\ astray' = TRUE
        /\ UNCHANGED <<handled, mydata>>
  /\ UNCHANGED <<packet, i, group, pc>>

JoinsRead ==
  /\ pc = "join" /\ number = 0 /\ ~astray
  /\ JoinPrune
  /\ pc' = "prune"
  /\ number' = prune_number(group)
  /\ UNCHANGED <<packet, mydata, i, group, handled, astray>>

(* The end of the body for one group.  Only here a Graft's cursor moves    *)
(* past the source that was found; the slip forgets it.                    *)
StayInGroup == 0

PastGroup == IF packet.type = "graft" THEN SOURCE ELSE 0

GroupRead ==
  /\ pc = (IF JoinPrune THEN "prune" ELSE "join")
  /\ number = 0 /\ ~astray
  /\ pc' = "group"
  /\ mydata' = mydata + PastGroup
  /\ UNCHANGED <<packet, i, group, number, handled, astray>>

Done ==
  /\ pc = "group" /\ ~MoreGroups
  /\ pc' = "done"
  /\ UNCHANGED <<packet, mydata, i, group, number, handled, astray>>

Next == ReadGroup \/ ReadSource \/ JoinsRead \/ GroupRead \/ Done

Spec == Init /\ [][Next]_vars /\ WF_vars(Next)

-----------------------------------------------------------------------------
(* One source for each group; no Prunes in a Graft, and only sources the   *)
(* table knows, since it moves past unknown ones twice: what this daemon   *)
(* sends itself.                                                           *)
OneSourceEach ==
  \A g \in 1..Len(Groups) :
    /\ Groups[g].multicast => Len(Sources(g)) = 1
    /\ ~JoinPrune => /\ Groups[g].prunes = << >>
                     /\ Groups[g].multicast => Sources(g)[1] # "unknown"

(* Messages with one source for each group, and Joins and Prunes of        *)
(* sources none of which this router knows, are understood as they were    *)
(* sent, over any number of groups, some of which may not be multicast     *)
(* addresses (pim.c:513-660, 862-906).                                     *)
ReadAsSent ==
  /\ packet.type # "graft_ack"
  /\ \/ OneSourceEach
     \/ /\ JoinPrune
        /\ \A g \in 1..Len(Groups) : \A s \in 1..Len(Sources(g)) :
             Sources(g)[s] = "unknown"
  => ~astray /\ (pc = "done" => handled = Sent)

(* An acknowledgement as a frame holds it, of sources of one group.        *)
AckOfOneGroup ==
  /\ packet.type = "graft_ack"
  /\ Len(Groups) = 1 /\ Groups[1].multicast
  /\ Groups[1].prunes = << >> /\ Len(Groups[1].joins) \in 1..255

Known == {s \in 1..Len(Sources(1)) : Sources(1)[s] # "unknown"}

(* An acknowledgement finds the first of its sources that has an entry,    *)
(* reads it for the rest of the 256 times as many that it expects, and     *)
(* never gets to a later one.  When none has an entry, because the Graft's *)
(* only source timed out before the answer came, say, then it is the       *)
(* cursor that never finds an end: it always leads out of the packet       *)
(* (pim.c:943-973).                                                        *)
AckOfFirst ==
  AckOfOneGroup =>
    /\ \A n \in 1..Len(handled) : \A s \in Known : handled[n].source[2] <= s
    /\ astray => Known = {}
    /\ pc = "done" =>
         \E n \in 1..Len(handled) : \E s \in Known :
           handled[n].source = <<1, s>>

(* However many sources a Join/Prune has and wherever the cursor gets, no  *)
(* source is handled twice: a second schedule_prune or schedule_join would *)
(* replace the timer of the first (pim.c:537-586, 608-657).                *)
NoneTwice ==
  JoinPrune => \A m, n \in 1..Len(handled) :
                 handled[m].source = handled[n].source => m = n

=============================================================================
