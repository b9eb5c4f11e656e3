---------------------------- MODULE EntryProofs -----------------------------
(***************************************************************************)
(* Where a table entry comes from and how long it lives.  For every set of *)
(* interfaces, sources and next hops and every size of the routing socket: *)
(* what the searches of vif.c find, and that an upcall gets the answers to *)
(* its own questions (Route).  For every timeout, every interval between   *)
(* checks that does not divide it, and any set of flows: when an entry     *)
(* without packets is deleted (SgLifetime).                                *)
(***************************************************************************)
EXTENDS Route, SgLifetime, SequenceTheorems, WellFoundedInduction, TLAPS

-----------------------------------------------------------------------------
(* The searches end at the first interface that fits.                      *)
LEMMA FirstOf ==
  ASSUME NEW m, NEW S, S \subseteq Nat, S # {}
  PROVE  First(m, S) \in S
<1> DEFINE R == OpToRel(<, Nat)
<1>1. \A x, y \in Nat : x < y => <<x, y>> \in R
  BY DEF OpToRel
<1>2. IsWellFoundedOn(R, Nat)
  BY NatLessThanWellFounded
<1>3. \E v \in S : \A w \in S : ~(<<w, v>> \in R)
  <2> HIDE DEF R
  <2> QED
    BY <1>2, WFMin
<1>4. \E v \in S : \A w \in S : v <= w
  <2>1. PICK v \in S : \A w \in S : ~(<<w, v>> \in R)
    BY <1>3
  <2>2. \A w \in S : ~(w < v)
    <3> HIDE DEF R
    <3> QED
      BY <1>1, <2>1
  <2> QED
    BY <2>2
<1> QED
  BY <1>4 DEF First

(* An interface that find_vif_direct names has the address on its subnet.  *)
LEMMA FoundIsDirect ==
  ASSUME NEW m, Len(m) \in Nat, NEW a, NEW v \in 1..Len(m),
         find_vif_direct(m, a) = v
  PROVE  m[v].is_active /\ m[v].address # a /\ Direct(m[v], a)
<1>1. Hits(m, a) # {} /\ v = First(m, Hits(m, a)) /\ m[v].address # a
  BY DEF find_vif_direct, find_vif_direct_local
<1>2. Hits(m, a) \subseteq Nat
  BY DEF Hits
<1>3. v \in Hits(m, a)
  BY <1>1, <1>2, FirstOf
<1> QED
  BY <1>1, <1>3 DEF Hits

(* On subnets that do not overlap, no interface claims an address that is  *)
(* the daemon's own: what module Route states of the searches holds for    *)
(* every sequence of interfaces.                                           *)
LEMMA Searches ==
  ASSUME NEW m, Len(m) \in Nat, NEW a \in Address, NEW v \in 1..Len(m),
         \A u, w \in 1..Len(m) : u # w => ~Overlap(m[u], m[w]),
         find_vif_direct(m, a) = v
  PROVE  is_local_address(m, a) = 0 /\ Direct(m[v], a)
<1>1. m[v].address # a /\ Direct(m[v], a)
  BY FoundIsDirect
<1>2. Own(m, a) = {}
  <2> SUFFICES ASSUME NEW w \in Own(m, a) PROVE FALSE
    OBVIOUS
  <2>1. w \in 1..Len(m) /\ m[w].address = a
    BY DEF Own
  <2>2. w # v
    BY <1>1, <2>1
  <2>3. subnet(m[v], a) = subnet(m[v], m[v].address)
    BY <1>1 DEF Direct
  <2>4. subnet(m[w], a) = subnet(m[w], m[w].address)
    BY <2>1
  <2> QED
    BY <2>1, <2>2, <2>3, <2>4 DEF Overlap
<1> QED
  BY <1>1, <1>2 DEF is_local_address

-----------------------------------------------------------------------------
(* The questions and answers.  A message that is meant for the daemon is   *)
(* in the socket only while it waits for one, there is one, and it holds   *)
(* the next hop unless that has changed since.                             *)
Ours == {k \in 1..Len(socket) : Matches(socket[k])}

Waiting == pc \in {"check_incoming", "add_sg"}

OneAnswer ==
  /\ Ours # {} => asked
  /\ \A j, k \in Ours : j = k
  /\ \A k \in Ours : ~changed => socket[k].hop = routes[upcall.source]
  /\ asked => ~Attached
  /\ asked => Waiting
  /\ Waiting => upcall # NoUpcall

(* What get_upstream returns, and that check_incoming has compared it.     *)
Upstream == IF Attached THEN upcall.source ELSE routes[upcall.source]

Checked ==
  pc = "add_sg" /\ ~changed => find_vif_direct(myvifs, Upstream) = upcall.vif

IInv == TypeOK /\ OneAnswer /\ Checked /\ UpstreamOnIncoming

-----------------------------------------------------------------------------
LEMMA HopsAreAddresses ==
  /\ NextHop \union {0} \subseteq Nat
  /\ Source \subseteq Nat \ {0}
  BY RouteAssumption

LEMMA HeardMessage ==
  ASSUME NEW box \in Seq(Message), Len(box) <= MaxSocket, NEW x \in Message
  PROVE  /\ Heard(box, x) \in Seq(Message) /\ Len(Heard(box, x)) <= MaxSocket
         /\ Heard(box, x) = box \/
            /\ Len(Heard(box, x)) = Len(box) + 1
            /\ \A k \in 1..Len(box) : Heard(box, x)[k] = box[k]
            /\ Heard(box, x)[Len(box) + 1] = x
<1>1. CASE Len(box) < MaxSocket
  <2>1. Heard(box, x) = Append(box, x)
    BY <1>1 DEF Heard
  <2>2. Append(box, x) \in Seq(Message) /\ Len(Append(box, x)) = Len(box) + 1
    BY AppendProperties
  <2>3. \A k \in 1..Len(box) : Append(box, x)[k] = box[k]
    BY AppendProperties
  <2>4. Append(box, x)[Len(box) + 1] = x
    BY AppendProperties
  <2>5. Len(box) \in Nat /\ MaxSocket \in Nat
    BY RouteAssumption
  <2> QED
    BY <1>1, <2>1, <2>2, <2>3, <2>4, <2>5
<1>2. CASE ~(Len(box) < MaxSocket)
  BY <1>2 DEF Heard
<1> QED
  BY <1>1, <1>2

LEMMA InitIInv == Init => IInv
<1> SUFFICES ASSUME Init PROVE IInv
  OBVIOUS
<1>1. TypeOK
  <2>1. socket \in Seq(Message) /\ Len(socket) = 0
    BY EmptySeq DEF Init
  <2>2. Len(socket) <= MaxSocket
    BY <2>1, RouteAssumption
  <2>3. /\ myvifs \in Config /\ routes \in [Source -> NextHop]
        /\ pc \in {"idle", "check_incoming", "add_sg", "exit"}
        /\ asked \in BOOLEAN /\ changed \in BOOLEAN /\ overflow \in BOOLEAN
        /\ upcall = NoUpcall /\ entry = NoEntry
    BY DEF Init
  <2> QED
    BY <2>1, <2>2, <2>3 DEF TypeOK
<1>2. OneAnswer /\ Checked /\ UpstreamOnIncoming
  <2>1. Ours = {}
    BY EmptySeq DEF Init, Ours
  <2> QED
    BY <2>1 DEF Init, OneAnswer, Checked, UpstreamOnIncoming, Waiting, history
<1> QED
  BY <1>1, <1>2 DEF IInv

(* What others say is not meant for the daemon.                            *)
LEMMA OthersHeard ==
  ASSUME IInv, NEW x \in Message, ~Matches(x), socket' = Heard(socket, x)
  PROVE  /\ socket' \in Seq(Message) /\ Len(socket') <= MaxSocket
         /\ Ours' = Ours
         /\ \A k \in Ours : socket'[k] = socket[k]
<1> USE DEF IInv, TypeOK
<1>1. socket \in Seq(Message) /\ Len(socket) <= MaxSocket /\ Len(socket) \in Nat
  OBVIOUS
<1>2. /\ socket' \in Seq(Message) /\ Len(socket') <= MaxSocket
      /\ socket' = socket \/
           /\ Len(socket') = Len(socket) + 1
           /\ \A k \in 1..Len(socket) : socket'[k] = socket[k]
           /\ socket'[Len(socket) + 1] = x
  BY <1>1, HeardMessage
<1>3. CASE socket' = socket
  BY <1>2, <1>3 DEF Ours
<1>4. CASE socket' # socket
  <2>1. \A k \in 1..Len(socket') : k \in 1..Len(socket) \/ socket'[k] = x
    BY <1>1, <1>2, <1>4
  <2>2. 1..Len(socket) \subseteq 1..Len(socket')
    BY <1>1, <1>2, <1>4
  <2>3. Ours' = {k \in 1..Len(socket') : Matches(socket'[k])}
    BY DEF Ours, Matches
  <2>4. \A k \in 1..Len(socket) : Matches(socket'[k]) <=> Matches(socket[k])
    BY <1>2, <1>4
  <2>5. Ours' = Ours
    <3> HIDE DEF IInv, TypeOK
    <3> QED
      BY <2>1, <2>2, <2>3, <2>4 DEF Ours
  <2> QED
    BY <1>2, <1>4, <2>5 DEF Ours
<1> QED
  BY <1>3, <1>4

LEMMA RouteChangesStep ==
  ASSUME IInv, NEW s \in Source, NEW hop \in NextHop, RouteChanges(s, hop)
  PROVE  IInv'
<1> DEFINE x == [type |-> "RTM_CHANGE", ours |-> FALSE, hop |-> hop]
<1>1. x \in Message /\ ~Matches(x)
  BY DEF Message, Matches
<1>2. socket' = Heard(socket, x)
  BY DEF RouteChanges
<1>3. /\ socket' \in Seq(Message) /\ Len(socket') <= MaxSocket
      /\ Ours' = Ours
  <2> HIDE DEF x
  <2> QED
    BY <1>1, <1>2, OthersHeard
<1>4. routes' \in [Source -> NextHop]
  BY DEF RouteChanges, IInv, TypeOK
<1>5. TypeOK'
  BY <1>3, <1>4 DEF RouteChanges, IInv, TypeOK
<1>6. OneAnswer'
  BY <1>3 DEF RouteChanges, IInv, OneAnswer, Waiting, Attached
<1>7. Checked' /\ UpstreamOnIncoming'
  BY DEF RouteChanges, Checked, UpstreamOnIncoming
<1> QED
  BY <1>5, <1>6, <1>7 DEF IInv

LEMMA OtherProcessAsksStep ==
  ASSUME IInv, NEW s \in Source, OtherProcessAsks(s)
  PROVE  IInv'
<1> DEFINE x == [type |-> "RTM_GET", ours |-> FALSE, hop |-> routes[s]]
<1>1. x \in Message /\ ~Matches(x)
  BY DEF Message, Matches, IInv, TypeOK
<1>2. socket' = Heard(socket, x)
  BY DEF OtherProcessAsks
<1>3. /\ socket' \in Seq(Message) /\ Len(socket') <= MaxSocket
      /\ Ours' = Ours
      /\ \A k \in Ours : socket'[k] = socket[k]
  <2> HIDE DEF x
  <2> QED
    BY <1>1, <1>2, OthersHeard
<1>4. TypeOK'
  BY <1>3 DEF OtherProcessAsks, IInv, TypeOK, history
<1>5. OneAnswer'
  BY <1>3 DEF OtherProcessAsks, IInv, OneAnswer, Waiting, Attached, history
<1>6. Checked' /\ UpstreamOnIncoming'
  BY DEF IInv, OtherProcessAsks, Checked, UpstreamOnIncoming, Upstream,
         Attached, history
<1> QED
  BY <1>4, <1>5, <1>6 DEF IInv

LEMMA NoCacheUpcallStep ==
  ASSUME IInv, NEW s \in Source, NEW v \in 1..Len(myvifs), NoCacheUpcall(s, v)
  PROVE  IInv'
<1>1. Ours' = {} /\ Ours = {}
  BY DEF IInv, OneAnswer, Waiting, NoCacheUpcall, Ours
<1>2. TypeOK'
  BY DEF NoCacheUpcall, IInv, TypeOK
<1>3. s # 0
  BY RouteAssumption
<1>4. OneAnswer'
  BY <1>1, <1>3 DEF NoCacheUpcall, IInv, OneAnswer, Waiting, NoUpcall
<1>5. Checked' /\ UpstreamOnIncoming'
  BY DEF NoCacheUpcall, Checked, UpstreamOnIncoming
<1> QED
  BY <1>2, <1>4, <1>5 DEF IInv

-----------------------------------------------------------------------------
(* An answer, from the daemon's own interfaces or from the kernel.         *)
LEMMA UpcallTyped ==
  ASSUME IInv, Waiting
  PROVE  upcall \in [source : Source, vif : 1..Len(myvifs)]
  BY DEF IInv, TypeOK, OneAnswer

LEMMA AnswerStep ==
  ASSUME IInv, NEW hop \in Nat, Answer(hop),
         ~changed => hop = Upstream,
         UNCHANGED <<myvifs, routes, upcall, changed>>
  PROVE  /\ pc' \in {"idle", "add_sg", "exit"}
         /\ entry' \in {NoEntry}
              \union [source : Source, incoming : 1..Len(myvifs), upstream : Nat]
         /\ Checked' /\ UpstreamOnIncoming'
<1>0. Upstream' = Upstream
  BY DEF Upstream, Attached
<1>1. CASE pc = "check_incoming"
  <2>1. pc' \in {"idle", "add_sg", "exit"} /\ entry' = entry
    BY <1>1 DEF Answer
  <2>2. pc' = "add_sg" => find_vif_direct(myvifs, hop) = upcall.vif
    BY <1>1 DEF Answer
  <2>3. Checked'
    BY <1>0, <2>2 DEF Checked
  <2>4. UpstreamOnIncoming'
    BY <2>1 DEF IInv, UpstreamOnIncoming
  <2> QED
    BY <2>1, <2>3, <2>4 DEF IInv, TypeOK
<1>2. CASE pc = "add_sg"
  <2>1. /\ pc' = "idle"
        /\ entry' = [source |-> upcall.source, incoming |-> upcall.vif,
                     upstream |-> hop]
    BY <1>2 DEF Answer
  <2>2. upcall.source \in Source /\ upcall.vif \in 1..Len(myvifs)
    BY <1>2, UpcallTyped DEF Waiting
  <2>3. UpstreamOnIncoming'
    BY <1>2, <2>1 DEF IInv, Checked, UpstreamOnIncoming
  <2> QED
    BY <2>1, <2>2, <2>3 DEF Checked
<1> QED
  BY <1>1, <1>2 DEF Answer

LEMMA AnswerAttachedStep == IInv /\ AnswerAttached => IInv'
<1> SUFFICES ASSUME IInv, AnswerAttached PROVE IInv'
  OBVIOUS
<1>1. upcall.source \in Nat /\ upcall \in [source : Source, vif : 1..Len(myvifs)]
  BY UpcallTyped, HopsAreAddresses DEF AnswerAttached, Waiting
<1>2. upcall.source = Upstream
  BY DEF AnswerAttached, Upstream
<1>3. /\ pc' \in {"idle", "add_sg", "exit"}
      /\ entry' \in {NoEntry}
           \union [source : Source, incoming : 1..Len(myvifs), upstream : Nat]
      /\ Checked' /\ UpstreamOnIncoming'
  BY <1>1, <1>2, AnswerStep DEF AnswerAttached, history
<1>4. TypeOK'
  BY <1>3 DEF AnswerAttached, IInv, TypeOK, history
<1>5. Ours' = {} /\ Ours = {}
  BY DEF AnswerAttached, IInv, OneAnswer, Ours
<1>6. upcall # NoUpcall
  BY DEF IInv, OneAnswer, Waiting, AnswerAttached
<1>7. OneAnswer'
  BY <1>5, <1>6 DEF AnswerAttached, OneAnswer
<1> QED
  BY <1>3, <1>4, <1>7 DEF IInv

LEMMA RequestStep == IInv /\ Request => IInv'
<1> SUFFICES ASSUME IInv, Request PROVE IInv'
  OBVIOUS
<1> DEFINE x == [type |-> "RTM_GET", ours |-> TRUE, hop |-> routes[upcall.source]]
<1>1. upcall \in [source : Source, vif : 1..Len(myvifs)] /\ upcall # NoUpcall
  BY UpcallTyped DEF Request, Waiting, IInv, OneAnswer
<1>2. x \in Message
  BY <1>1 DEF Message, IInv, TypeOK
<1>3. socket \in Seq(Message) /\ Len(socket) <= MaxSocket /\ Len(socket) \in Nat
  BY DEF IInv, TypeOK
<1>4. socket' = Heard(socket, x)
  BY DEF Request
<1>5. /\ socket' \in Seq(Message) /\ Len(socket') <= MaxSocket
      /\ socket' = socket \/
           /\ Len(socket') = Len(socket) + 1
           /\ \A k \in 1..Len(socket) : socket'[k] = socket[k]
           /\ socket'[Len(socket) + 1] = x
  <2> HIDE DEF x
  <2> QED
    BY <1>2, <1>3, <1>4, HeardMessage
<1>6. Ours = {}
  BY DEF Request, IInv, OneAnswer
<1>7. \A k \in Ours' : socket' # socket /\ k = Len(socket) + 1
  <2>1. \A k \in 1..Len(socket) : ~Matches(socket[k])
    BY <1>6 DEF Ours
  <2>2. Ours' = {k \in 1..Len(socket') : Matches(socket'[k])}
    BY DEF Ours, Matches
  <2>3. CASE socket' = socket
    BY <2>1, <2>2, <2>3
  <2>4. CASE socket' # socket
    BY <1>3, <1>5, <2>1, <2>2, <2>4
  <2> QED
    BY <2>3, <2>4
<1>8. \A k \in Ours' : socket'[k].hop = routes[upcall.source]
  BY <1>5, <1>7
<1>9. OneAnswer'
  BY <1>1, <1>7, <1>8 DEF Request, OneAnswer, Attached, Waiting
<1>10. TypeOK'
  BY <1>5 DEF Request, IInv, TypeOK
<1>11. Checked' /\ UpstreamOnIncoming'
  BY DEF Request, IInv, Checked, UpstreamOnIncoming, Upstream, Attached
<1> QED
  BY <1>9, <1>10, <1>11 DEF IInv

LEMMA ReadStep == IInv /\ Read => IInv'
<1> SUFFICES ASSUME IInv, Read PROVE IInv'
  OBVIOUS
<1>1. socket \in Seq(Message) /\ socket # << >> /\ socket' = Tail(socket)
  BY DEF Read, IInv, TypeOK
<1>2. /\ socket' \in Seq(Message) /\ Len(socket') = Len(socket) - 1
      /\ \A k \in 1..Len(socket') : socket'[k] = socket[k + 1]
      /\ Head(socket) \in Message /\ Head(socket) = socket[1]
      /\ Len(socket) \in Nat \ {0}
  BY <1>1, HeadTailProperties, EmptySeq
<1>3. Len(socket') <= MaxSocket
  BY <1>2, RouteAssumption DEF IInv, TypeOK
<1>4. Ours' = {k \in 1..Len(socket') : Matches(socket'[k])}
  BY DEF Ours, Matches
<1>5. \A k \in Ours' : k + 1 \in Ours /\ socket'[k] = socket[k + 1]
  BY <1>2, <1>4 DEF Ours
<1>6. \A j, k \in Ours' : j = k
  <2> SUFFICES ASSUME NEW j \in Ours', NEW k \in Ours' PROVE j = k
    OBVIOUS
  <2>1. j + 1 = k + 1
    BY <1>5 DEF IInv, OneAnswer
  <2> QED
    BY <1>4, <2>1
<1>7. upcall \in [source : Source, vif : 1..Len(myvifs)] /\ upcall # NoUpcall
  BY UpcallTyped DEF Read, IInv, OneAnswer
<1>8. ~Attached /\ Waiting
  BY DEF Read, IInv, OneAnswer
<1>9. CASE Matches(Head(socket))
  <2>1. 1 \in Ours
    BY <1>2, <1>9 DEF Ours
  <2>2. Ours' = {}
    <3> SUFFICES ASSUME NEW k \in Ours' PROVE FALSE
      OBVIOUS
    <3>1. k + 1 = 1
      BY <1>5, <2>1 DEF IInv, OneAnswer
    <3> QED
      BY <1>4, <3>1
  <2>3. Answer(Head(socket).hop) /\ asked' = FALSE
    BY <1>9 DEF Read
  <2>4. Head(socket).hop \in Nat
    BY <1>2, HopsAreAddresses DEF Message
  <2>5. ~changed => Head(socket).hop = Upstream
    BY <1>2, <1>8, <2>1 DEF IInv, OneAnswer, Upstream
  <2>6. /\ pc' \in {"idle", "add_sg", "exit"}
        /\ entry' \in {NoEntry}
             \union [source : Source, incoming : 1..Len(myvifs), upstream : Nat]
        /\ Checked' /\ UpstreamOnIncoming'
    BY <2>3, <2>4, <2>5, AnswerStep DEF Read, history
  <2>7. TypeOK'
    BY <1>2, <1>3, <2>3, <2>6 DEF Read, IInv, TypeOK, history
  <2>8. OneAnswer'
    BY <1>7, <2>2, <2>3 DEF Read, OneAnswer
  <2> QED
    BY <2>6, <2>7, <2>8 DEF IInv
<1>10. CASE ~Matches(Head(socket))
  <2>1. UNCHANGED <<pc, asked, entry>> /\ asked
    BY <1>10 DEF Read
  <2>2. TypeOK'
    BY <1>2, <1>3, <2>1 DEF Read, IInv, TypeOK, history
  <2>3. OneAnswer'
    <3>1. UNCHANGED <<myvifs, routes, upcall, changed>>
      BY DEF Read, history
    <3>2. Ours' # {} => asked'
      BY <2>1
    <3>3. \A k \in Ours' : ~changed' => socket'[k].hop = routes'[upcall'.source]
      BY <1>5, <3>1 DEF IInv, OneAnswer
    <3>4. ~Attached' /\ Waiting' /\ upcall' # NoUpcall
      BY <1>7, <1>8, <2>1, <3>1 DEF Attached, Waiting
    <3> QED
      BY <1>6, <3>2, <3>3, <3>4 DEF OneAnswer
  <2>4. Checked' /\ UpstreamOnIncoming'
    BY <2>1 DEF Read, IInv, Checked, UpstreamOnIncoming, Upstream, Attached,
                history
  <2> QED
    BY <2>2, <2>3, <2>4 DEF IInv
<1> QED
  BY <1>9, <1>10

LEMMA NextIInv == IInv /\ [Next]_vars => IInv'
<1> SUFFICES ASSUME IInv, [Next]_vars PROVE IInv'
  OBVIOUS
<1>1. CASE Next
  BY <1>1, RouteChangesStep, OtherProcessAsksStep, NoCacheUpcallStep,
     AnswerAttachedStep, RequestStep, ReadStep
  DEF Next, Kernel, Daemon
<1>2. CASE UNCHANGED vars
  BY <1>2 DEF vars, history, IInv, TypeOK, OneAnswer, Ours, Waiting, Attached,
              Matches, Checked, Upstream, UpstreamOnIncoming
<1> QED
  BY <1>1, <1>2

(* The state stays in its types: the socket within its buffer, every entry *)
(* with an incoming interface the daemon has (route.c, multicastpacket.c). *)
THEOREM RouteTypeCorrect == Spec => []TypeOK
<1>1. IInv => TypeOK
  BY DEF IInv
<1> QED
  BY InitIInv, NextIInv, <1>1, PTL DEF Spec

(* The upstream of a new entry is reached through its incoming interface,  *)
(* whatever other processes ask and hear, unless the route has changed     *)
(* between the two questions (multicastpacket.c:13-28, mrt.c:126).         *)
THEOREM RouteUpstreamOnIncoming == Spec => []UpstreamOnIncoming
<1>1. IInv => UpstreamOnIncoming
  BY DEF IInv
<1> QED
  BY InitIInv, NextIInv, <1>1, PTL DEF Spec

(* No interface claims one of the daemon's own addresses, or an address of *)
(* another's subnet, as long as the subnets do not overlap (vif.c:176-244).*)
THEOREM RouteOnItsSubnet == Spec => []OnItsSubnet
<1>1. IInv => OnItsSubnet
  <2> SUFFICES ASSUME IInv, Disjoint, NEW a \in Address,
                      NEW v \in 1..Len(myvifs),
                      find_vif_direct(myvifs, a) = v
               PROVE  is_local_address(myvifs, a) = 0 /\ Direct(myvifs[v], a)
    BY DEF OnItsSubnet
  <2>1. Len(myvifs) \in Nat
    BY RouteAssumption DEF IInv, TypeOK
  <2> QED
    BY <2>1, Searches DEF Disjoint
<1> QED
  BY InitIInv, NextIInv, <1>1, PTL DEF Spec

-----------------------------------------------------------------------------
(* SgLifetime.                                                             *)

(* The timers of an entry started together, at the last busy check; the    *)
(* checks since then, all idle, tell how much of the timeout is left.      *)
Spent(n) == PIM_SG_CHECK * (n + 1)

InStep ==
  \A f \in table : timeoutLeft[f] = PIM_SG_TIMEOUT - Spent(idle[f]) + checkLeft[f]

LifetimeInv == LifetimeTypeOK /\ InStep

-----------------------------------------------------------------------------
LEMMA Durations ==
  /\ PIM_SG_TIMEOUT \in Nat \ {0} /\ PIM_SG_CHECK \in Nat \ {0}
  /\ MaxCount \in Nat \ {0}
  /\ MaxChecks \in Nat
  BY SgLifetimeAssumption DEF MaxChecks

LEMMA SpentMore ==
  ASSUME NEW n \in Nat
  PROVE  Spent(n) \in Nat /\ Spent(n + 1) = Spent(n) + PIM_SG_CHECK
  BY Durations DEF Spent

LEMMA SpentMonotone ==
  ASSUME NEW k \in Nat, NEW n \in Nat, k <= n
  PROVE  Spent(k) <= Spent(n)
<1>1. PICK d \in Nat : n + 1 = k + 1 + d
  BY n - k \in Nat
<1>2. PIM_SG_CHECK * (k + 1 + d) = PIM_SG_CHECK * (k + 1) + PIM_SG_CHECK * d
  BY Durations
<1>3. PIM_SG_CHECK * d \in Nat
  BY Durations
<1>4. PIM_SG_CHECK * (k + 1) \in Nat
  BY Durations
<1>5. Spent(n) = PIM_SG_CHECK * (k + 1 + d) /\ Spent(k) = PIM_SG_CHECK * (k + 1)
  BY <1>1 DEF Spent
<1> QED
  BY <1>2, <1>3, <1>4, <1>5

LEMMA DivMod ==
  ASSUME NEW a \in Nat, NEW b \in Nat \ {0},
         NEW q, q = a \div b, NEW r, r = a % b
  PROVE  a = b * q + r /\ r \in 0..b-1 /\ q \in Nat
  OBVIOUS

(* The checks that fit into the timeout.                                   *)
LEMMA ChecksFit ==
  /\ MaxChecks >= 1
  /\ Spent(MaxChecks - 1) < PIM_SG_TIMEOUT
  /\ PIM_SG_TIMEOUT < Spent(MaxChecks)
<1> DEFINE r == PIM_SG_TIMEOUT % PIM_SG_CHECK
<1>1. PIM_SG_TIMEOUT = PIM_SG_CHECK * MaxChecks + r /\ r \in 0..PIM_SG_CHECK-1
  BY Durations, DivMod DEF MaxChecks
<1>2. r # 0
  BY SgLifetimeAssumption
<1> HIDE DEF r
<1>3. MaxChecks # 0
  <2> SUFFICES ASSUME MaxChecks = 0 PROVE FALSE
    OBVIOUS
  <2>1. PIM_SG_CHECK * MaxChecks = 0
    BY Durations
  <2> QED
    BY <1>1, <2>1, SgLifetimeAssumption, Durations
<1>4. MaxChecks >= 1 /\ MaxChecks - 1 + 1 = MaxChecks
  BY <1>3, Durations
<1>5. Spent(MaxChecks - 1) = PIM_SG_CHECK * MaxChecks
  BY <1>4 DEF Spent
<1>6. Spent(MaxChecks) = PIM_SG_CHECK * MaxChecks + PIM_SG_CHECK
  BY Durations DEF Spent
<1>7. PIM_SG_CHECK * MaxChecks \in Nat
  BY Durations
<1> DEFINE p == PIM_SG_CHECK * MaxChecks
<1> HIDE DEF p
<1> QED
  <2>1. p \in Nat /\ PIM_SG_TIMEOUT = p + r /\ Spent(MaxChecks - 1) = p
        /\ Spent(MaxChecks) = p + PIM_SG_CHECK
    BY <1>1, <1>5, <1>6, <1>7 DEF p
  <2> QED
    BY <2>1, <1>1, <1>2, <1>4, Durations

(* An idle check that comes in time is one of them.                        *)
LEMMA OneMoreFits ==
  ASSUME NEW n \in 0..MaxChecks, Spent(n) <= PIM_SG_TIMEOUT
  PROVE  n < MaxChecks
<1> SUFFICES ASSUME n = MaxChecks PROVE FALSE
  BY Durations
<1> QED
  BY ChecksFit, Durations, SpentMore

(* When the timeout has passed all of them have been.                      *)
LEMMA AllHaveBeen ==
  ASSUME NEW n \in 0..MaxChecks, NEW c \in 0..PIM_SG_CHECK,
         0 = PIM_SG_TIMEOUT - Spent(n) + c
  PROVE  n = MaxChecks
<1> SUFFICES ASSUME n < MaxChecks PROVE FALSE
  BY Durations
<1>1. n <= MaxChecks - 1 /\ MaxChecks - 1 \in Nat /\ n \in Nat
  BY Durations
<1>2. Spent(n) <= Spent(MaxChecks - 1)
  BY <1>1, SpentMonotone
<1>3. Spent(n) \in Nat /\ Spent(MaxChecks - 1) \in Nat
  BY <1>1, SpentMore
<1> QED
  BY <1>2, <1>3, ChecksFit, Durations

-----------------------------------------------------------------------------
LEMMA LifetimeInitInv == LifetimeInit => LifetimeInv
  BY Durations DEF LifetimeInit, LifetimeInv, LifetimeTypeOK, InStep

LEMMA AddStep ==
  ASSUME LifetimeInv, NEW f \in Flow, add_sg(f)
  PROVE  LifetimeInv'
<1>1. LifetimeTypeOK'
  BY Durations DEF LifetimeInv, LifetimeTypeOK, add_sg
<1>2. Spent(0) = PIM_SG_CHECK
  BY Durations DEF Spent
<1>3. InStep'
  BY <1>2, Durations DEF LifetimeInv, LifetimeTypeOK, InStep, add_sg
<1> QED
  BY <1>1, <1>3 DEF LifetimeInv

LEMMA ForwardStep ==
  ASSUME LifetimeInv, NEW f \in Flow, Forward(f)
  PROVE  LifetimeInv'
  BY Durations DEF LifetimeInv, LifetimeTypeOK, InStep, Forward

LEMMA TickStep == LifetimeInv /\ Tick => LifetimeInv'
<1> SUFFICES ASSUME LifetimeInv, Tick PROVE LifetimeInv'
  OBVIOUS
<1>1. LifetimeTypeOK'
  BY Durations DEF LifetimeInv, LifetimeTypeOK, Tick
<1>2. InStep'
  <2> SUFFICES ASSUME NEW f \in table
               PROVE  timeoutLeft'[f]
                        = PIM_SG_TIMEOUT - Spent(idle[f]) + checkLeft'[f]
    BY DEF InStep, Tick
  <2>1. Spent(idle[f]) \in Nat
    BY SpentMore, Durations DEF LifetimeInv, LifetimeTypeOK
  <2> QED
    BY <2>1, Durations DEF LifetimeInv, LifetimeTypeOK, InStep, Tick
<1> QED
  BY <1>1, <1>2 DEF LifetimeInv

(* A check that finds the entry busy starts both timers again; one that    *)
(* does not comes before the timeout, so it is counted.                    *)
LEMMA CheckStep ==
  ASSUME LifetimeInv, NEW f \in Flow, check_sg(f)
  PROVE  LifetimeInv'
<1>1. idle[f] \in 0..MaxChecks /\ timeoutLeft[f] \in 0..PIM_SG_TIMEOUT
  BY DEF LifetimeInv, LifetimeTypeOK
<1>2. timeoutLeft[f] = PIM_SG_TIMEOUT - Spent(idle[f])
  BY SpentMore, <1>1, Durations DEF LifetimeInv, InStep, check_sg
<1>3. Spent(idle[f]) \in Nat /\ Spent(idle[f] + 1) = Spent(idle[f]) + PIM_SG_CHECK
  BY <1>1, SpentMore, Durations
<1>4. idle[f] < MaxChecks
  BY <1>1, <1>2, <1>3, OneMoreFits, Durations
<1>5. Spent(0) = PIM_SG_CHECK
  BY Durations DEF Spent
<1>6. LifetimeTypeOK'
  BY <1>4, Durations DEF LifetimeInv, LifetimeTypeOK, check_sg, TimeoutAfter, Busy
<1>7. InStep'
  <2>1. \A g \in table \ {f} : /\ timeoutLeft'[g] = timeoutLeft[g]
                               /\ checkLeft'[g] = checkLeft[g]
                               /\ idle'[g] = idle[g]
    BY DEF LifetimeInv, LifetimeTypeOK, check_sg, TimeoutAfter
  <2>2. CASE Busy(f)
    <3>1. /\ timeoutLeft'[f] = PIM_SG_TIMEOUT /\ checkLeft'[f] = PIM_SG_CHECK
          /\ idle'[f] = 0
      BY <2>2 DEF LifetimeInv, LifetimeTypeOK, check_sg, TimeoutAfter
    <3> QED
      BY <1>5, <2>1, <3>1, Durations DEF LifetimeInv, InStep, check_sg
  <2>3. CASE ~Busy(f)
    <3>1. /\ timeoutLeft'[f] = timeoutLeft[f] /\ checkLeft'[f] = PIM_SG_CHECK
          /\ idle'[f] = idle[f] + 1
      BY <1>4, <2>3 DEF LifetimeInv, LifetimeTypeOK, check_sg, TimeoutAfter
    <3>2. timeoutLeft'[f] = PIM_SG_TIMEOUT - Spent(idle'[f]) + checkLeft'[f]
      BY <1>2, <1>3, <3>1, Durations
    <3> QED
      BY <2>1, <3>2 DEF LifetimeInv, InStep, check_sg
  <2> QED
    BY <2>2, <2>3
<1> QED
  BY <1>6, <1>7 DEF LifetimeInv

LEMMA TimeoutStep ==
  ASSUME LifetimeInv, NEW f \in Flow, handle_sg_timeout(f)
  PROVE  LifetimeInv' /\ idle[f] = MaxChecks
<1>1. LifetimeInv'
  BY Durations DEF LifetimeInv, LifetimeTypeOK, InStep, handle_sg_timeout
<1>2. /\ idle[f] \in 0..MaxChecks /\ checkLeft[f] \in 0..PIM_SG_CHECK
      /\ 0 = PIM_SG_TIMEOUT - Spent(idle[f]) + checkLeft[f]
  BY DEF LifetimeInv, LifetimeTypeOK, InStep, handle_sg_timeout
<1> QED
  BY <1>1, <1>2, AllHaveBeen

LEMMA LifetimeNextInv == LifetimeInv /\ [LifetimeNext]_lvars => LifetimeInv'
<1> SUFFICES ASSUME LifetimeInv, [LifetimeNext]_lvars PROVE LifetimeInv'
  OBVIOUS
<1>1. CASE UNCHANGED lvars
  BY <1>1 DEF lvars, LifetimeInv, LifetimeTypeOK, InStep
<1> QED
  BY <1>1, AddStep, ForwardStep, TickStep, CheckStep, TimeoutStep DEF LifetimeNext

(* Only handle_sg_timeout deletes an entry.                                *)
LEMMA DeletesWhenIdle ==
  LifetimeInv /\ [LifetimeNext]_lvars => [\A f \in table \ table' : idle[f] = MaxChecks]_lvars
<1> SUFFICES ASSUME LifetimeInv, LifetimeNext, NEW f \in table \ table'
             PROVE  idle[f] = MaxChecks
  OBVIOUS
<1>1. PICK g \in Flow : handle_sg_timeout(g)
  BY DEF LifetimeNext, add_sg, Forward, check_sg, Tick
<1>2. f = g
  BY <1>1 DEF handle_sg_timeout
<1> QED
  BY <1>1, <1>2, TimeoutStep

-----------------------------------------------------------------------------
(* The state stays in its types: no timer runs below zero, and no more     *)
(* idle checks follow each other than fit into the timeout (mrt.c:33-59).  *)
THEOREM SgLifetimeTypeCorrect == LifetimeSpec => []LifetimeTypeOK
<1>1. LifetimeInv => LifetimeTypeOK
  BY DEF LifetimeInv
<1> QED
  BY LifetimeInitInv, LifetimeNextInv, <1>1, PTL DEF LifetimeSpec

(* An entry is deleted only after every check that fits into the timeout   *)
(* has found it idle, whatever the timeout and the interval of the checks  *)
(* as long as no check falls on the timeout (mrt.c:42-59).                 *)
THEOREM SgLifetimeDeletedWhenIdle == LifetimeSpec => DeletedWhenIdle
  BY LifetimeInitInv, LifetimeNextInv, DeletesWhenIdle, PTL DEF LifetimeSpec, DeletedWhenIdle

=============================================================================
