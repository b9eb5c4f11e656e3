------------------------------- MODULE Route --------------------------------
(***************************************************************************)
(* Which interface leads where: the searches of vif.c among the daemon's   *)
(* own interfaces, and the question route.c asks the kernel about other    *)
(* addresses, over a routing socket on which every process hears the       *)
(* kernel's answers to all of them and its announcements of changes.       *)
(*                                                                         *)
(* The questions are asked while an upcall about a new flow is handled     *)
(* (multicastpacket.c, add_sg in mrt.c): the daemon is blocked until the   *)
(* answer is read.                                                         *)
(***************************************************************************)
EXTENDS Integers, Sequences

CONSTANTS
  Config,     \* the interfaces the daemon may have, as sequences
  Address,    \* addresses, in host order
  Source,     \* sources of multicast flows
  NextHop,    \* next hops of the kernel's routes, 0 where there is none
  MaxSocket   \* messages the socket's receive buffer holds

Interface == [address : Nat, size : Nat \ {0}, is_active : BOOLEAN]

ASSUME RouteAssumption ==
  /\ Config \subseteq Seq(Interface)
  /\ Source \subseteq Address /\ NextHop \subseteq Address \union {0}
  /\ Address \subseteq Nat \ {0}
  /\ MaxSocket \in Nat \ {0}

VARIABLES
  myvifs,    \* the interfaces; size is the size of the subnet
  routes,    \* the kernel's next hop towards each source
  socket,    \* the unread messages of the routing socket
  pc,        \* what the upcall asks for: check_incoming, add_sg
  asked,     \* a request is written, its answer not read
  upcall,    \* the source and the interface of the upcall
  entry,     \* the entry the upcall has added to the table
  changed,   \* history: a route changed since the upcall
  overflow   \* history: the socket was full when the kernel answered us

history == <<changed, overflow>>
vars == <<myvifs, routes, socket, pc, asked, upcall, entry, history>>

-----------------------------------------------------------------------------
(* The subnet of an interface: a mask of n zeroes makes 2^n = size         *)
(* addresses, and the broadcast address is the last one.                   *)
subnet(i, a) == a - (a % i.size)

Direct(i, a) ==
  /\ subnet(i, a) = subnet(i, i.address)
  /\ i.size = 1 \/ a # subnet(i, i.address) + i.size - 1

First(m, S) == CHOOSE v \in S : \A w \in S : v <= w

Hits(m, a) ==
  {v \in 1..Len(m) :
     m[v].is_active /\ (m[v].address = a \/ Direct(m[v], a))}

Own(m, a) == {v \in 1..Len(m) : m[v].is_active /\ m[v].address = a}

find_vif_direct_local(m, a) ==
  IF Hits(m, a) = {} THEN 0 ELSE First(m, Hits(m, a))

(* Our own addresses are on no subnet; the slip is to forget it.           *)
find_vif_direct_own(m, a) == find_vif_direct_local(m, a)

find_vif_direct(m, a) ==
  LET v == find_vif_direct_local(m, a)
  IN  IF v = 0 THEN 0 ELSE IF m[v].address = a THEN 0 ELSE v

is_local_address(m, a) == IF Own(m, a) = {} THEN 0 ELSE First(m, Own(m, a))

-----------------------------------------------------------------------------
NoUpcall == [source |-> 0, vif |-> 0]
NoEntry == [source |-> 0, incoming |-> 0, upstream |-> 0]

Message == [type : {"RTM_GET", "RTM_CHANGE"}, ours : BOOLEAN,
            hop : NextHop \union {0}]

TypeOK ==
  /\ myvifs \in Config
  /\ routes \in [Source -> NextHop]
  /\ socket \in Seq(Message) /\ Len(socket) <= MaxSocket
  /\ pc \in {"idle", "check_incoming", "add_sg", "exit"}
  /\ asked \in BOOLEAN
  /\ upcall \in {NoUpcall} \union [source : Source, vif : 1..Len(myvifs)]
  /\ entry \in {NoEntry}
       \union [source : Source, incoming : 1..Len(myvifs), upstream : Nat]
  /\ changed \in BOOLEAN /\ overflow \in BOOLEAN

Init ==
  /\ myvifs \in Config
  /\ routes \in [Source -> NextHop]
  /\ socket = << >>
  /\ pc = "idle" /\ asked = FALSE
  /\ upcall = NoUpcall /\ entry = NoEntry
  /\ changed = FALSE /\ overflow = FALSE

-----------------------------------------------------------------------------
(* The kernel: what it has no room for is dropped.                         *)
Heard(box, m) == IF Len(box) < MaxSocket THEN Append(box, m) ELSE box

RouteChanges(s, hop) ==
  /\ pc # "exit"
  /\ routes' = [routes EXCEPT ![s] = hop]
  /\ socket' = Heard(socket, [type |-> "RTM_CHANGE", ours |-> FALSE,
                              hop |-> hop])
  /\ changed' = TRUE
  /\ UNCHANGED <<myvifs, pc, asked, upcall, entry, overflow>>

OtherProcessAsks(s) ==
  /\ pc # "exit"
  /\ socket' = Heard(socket, [type |-> "RTM_GET", ours |-> FALSE,
                              hop |-> routes[s]])
  /\ UNCHANGED <<myvifs, routes, pc, asked, upcall, entry, history>>

-----------------------------------------------------------------------------
(* multicast_packet_error: a packet without an entry in the kernel.        *)
NoCacheUpcall(s, v) ==
  /\ pc = "idle"
  /\ upcall' = [source |-> s, vif |-> v]
  /\ pc' = "check_incoming"
  /\ entry' = NoEntry /\ changed' = FALSE
  /\ UNCHANGED <<myvifs, routes, socket, asked, overflow>>

(* The answer goes to get_incoming_vif and check_incoming first, then to   *)
(* add_sg.  No answer ends the daemon the first time.                      *)
Answer(hop) ==
  \/ /\ pc = "check_incoming"
     /\ pc' = IF hop = 0 THEN "exit"
              ELSE IF find_vif_direct(myvifs, hop) = upcall.vif THEN "add_sg"
              ELSE "idle"
     /\ UNCHANGED entry
  \/ /\ pc = "add_sg"
     /\ pc' = "idle"
     /\ entry' = [source |-> upcall.source, incoming |-> upcall.vif,
                  upstream |-> hop]

Attached == find_vif_direct(myvifs, upcall.source) # 0

(* get_upstream: a source on our own subnets is its own upstream.          *)
AnswerAttached ==
  /\ pc \in {"check_incoming", "add_sg"} /\ ~asked
  /\ Attached
  /\ Answer(upcall.source)
  /\ UNCHANGED <<myvifs, routes, socket, asked, upcall, history>>

(* The kernel answers a request at once, if the socket has room.           *)
Request ==
  /\ pc \in {"check_incoming", "add_sg"} /\ ~asked
  /\ ~Attached
  /\ asked' = TRUE
  /\ socket' = Heard(socket, [type |-> "RTM_GET", ours |-> TRUE,
                              hop |-> routes[upcall.source]])
  /\ overflow' = (overflow \/ Len(socket) = MaxSocket)
  /\ UNCHANGED <<myvifs, routes, pc, upcall, entry, changed>>

(* Whether a message is the answer; the slips of not looking at the        *)
(* process it is for, and of counting seq up before the answer is read.    *)
AnyProcess(m) == m.type = "RTM_GET"

SeqTooHigh(m) == FALSE

Matches(m) == m.type = "RTM_GET" /\ m.ours

Read ==
  /\ asked
  /\ socket # << >>
  /\ socket' = Tail(socket)
  /\ \/ /\ Matches(Head(socket))
        /\ asked' = FALSE
        /\ Answer(Head(socket).hop)
     \/ /\ ~Matches(Head(socket))
        /\ UNCHANGED <<pc, asked, entry>>
  /\ UNCHANGED <<myvifs, routes, upcall, history>>

Kernel ==
  \E s \in Source : OtherProcessAsks(s) \/ \E hop \in NextHop : RouteChanges(s, hop)

Daemon == AnswerAttached \/ Request \/ Read

Next ==
  \/ Kernel
  \/ \E s \in Source, v \in 1..Len(myvifs) : NoCacheUpcall(s, v)
  \/ Daemon

(* The daemon goes on with an upcall it has begun.                         *)
Spec == Init /\ [][Next]_vars /\ WF_vars(Daemon)

-----------------------------------------------------------------------------
(* The upstream of a new entry is reached through the interface the entry  *)
(* names: the two questions of an upcall get their own answers, whatever   *)
(* other processes ask and hear meanwhile, and agree unless a route has    *)
(* changed in between (multicastpacket.c:13-28, mrt.c:126, route.c:17-79). *)
UpstreamOnIncoming ==
  entry # NoEntry /\ ~changed =>
    find_vif_direct(myvifs, entry.upstream) = entry.incoming

(* An upcall never leaves the daemon waiting for an answer, as long as the *)
(* socket, which is read only while an answer is awaited, has had room for *)
(* each (route.c:51-57).                                                   *)
GetsAnswer == []~overflow => (asked ~> ~asked)

(* On subnets that do not overlap no interface claims one of the daemon's  *)
(* own addresses, and none the address of another's subnet: the packets of *)
(* a neighbour are taken for those of the interface they came in on        *)
(* (vif.c:176-244).                                                        *)
Overlap(i, j) ==
  \E a \in Address : subnet(i, a) = subnet(i, i.address)
                       /\ subnet(j, a) = subnet(j, j.address)

Disjoint ==
  \A v, w \in 1..Len(myvifs) : v # w => ~Overlap(myvifs[v], myvifs[w])

OnItsSubnet ==
  Disjoint => \A a \in Address, v \in 1..Len(myvifs) :
    find_vif_direct(myvifs, a) = v =>
      /\ is_local_address(myvifs, a) = 0
      /\ Direct(myvifs[v], a)

=============================================================================
