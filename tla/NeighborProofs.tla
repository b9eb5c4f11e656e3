--------------------------- MODULE NeighborProofs ---------------------------
(***************************************************************************)
(* For every set of routers, every set of holdtimes and any number of      *)
(* entries: the list of neighbours and the timers agree, and a router that *)
(* is heard is kept.                                                       *)
(***************************************************************************)
EXTENDS Hello, SequenceTheorems, WellFoundedInduction, TLAPS

AddressesDiffer ==
  \A m, n \in 1..Len(neighbor) :
    m # n => address[neighbor[m]] # address[neighbor[n]]

IInv == TypeOK /\ EveryNeighborTimed

-----------------------------------------------------------------------------
(* The search for a known address ends at an entry that has it.            *)
LEMMA EntryAtFinds ==
  ASSUME TypeOK, NEW src, Known(src)
  PROVE  /\ EntryAt(src) \in 1..Len(neighbor)
         /\ address[neighbor[EntryAt(src)]] = src
<1> DEFINE R == OpToRel(<, Nat)
           S == {n \in 1..Len(neighbor) : address[neighbor[n]] = src}
<1>1. \A x, y \in Nat : x < y => <<x, y>> \in R
  BY DEF OpToRel
<1>2. IsWellFoundedOn(R, Nat)
  BY NatLessThanWellFounded
<1>3. S \subseteq Nat /\ S # {}
  BY DEF Known, Entries, TypeOK
<1>4. \E v \in S : \A w \in S : ~(<<w, v>> \in R)
  <2> HIDE DEF R, S
  <2> QED
    BY <1>2, <1>3, WFMin
<1>5. PICK v \in S : \A w \in S : ~(<<w, v>> \in R)
  BY <1>4
<1>6. \A w \in S : ~(w < v)
  <2> HIDE DEF R, S
  <2> QED
    BY <1>1, <1>3, <1>5
<1>7. v \in 1..Len(neighbor) /\ address[neighbor[v]] = src
  OBVIOUS
<1>8. \A m \in 1..v-1 : address[neighbor[m]] # src
  <2> SUFFICES ASSUME NEW m \in 1..v-1, address[neighbor[m]] = src PROVE FALSE
    OBVIOUS
  <2>1. m \in 1..Len(neighbor) /\ m < v
    BY <1>7 DEF TypeOK
  <2> QED
    BY <1>6, <2>1
<1> HIDE DEF R, S
<1> QED
  BY <1>7, <1>8 DEF EntryAt

LEMMA RemoveAtKeeps ==
  ASSUME NEW S, NEW s \in Seq(S), NEW n \in 1..Len(s)
  PROVE  /\ RemoveAt(s, n) \in Seq(S)
         /\ Len(RemoveAt(s, n)) = Len(s) - 1
         /\ \A k \in 1..Len(s)-1 :
              RemoveAt(s, n)[k] = IF k < n THEN s[k] ELSE s[k + 1]
<1> DEFINE a == SubSeq(s, 1, n - 1)
           b == SubSeq(s, n + 1, Len(s))
<1>1. /\ a \in Seq(S) /\ Len(a) = n - 1
      /\ \A k \in 1..n-1 : a[k] = s[k]
  BY SubSeqProperties
<1>2. /\ b \in Seq(S) /\ Len(b) = Len(s) - n
      /\ \A k \in 1..Len(s)-n : b[k] = s[n + k]
  BY SubSeqProperties
<1>3. RemoveAt(s, n) = a \o b
  BY DEF RemoveAt
<1> HIDE DEF a, b
<1>4. /\ a \o b \in Seq(S) /\ Len(a \o b) = Len(a) + Len(b)
      /\ \A k \in 1..Len(a)+Len(b) :
           (a \o b)[k] = IF k <= Len(a) THEN a[k] ELSE b[k - Len(a)]
  BY <1>1, <1>2, ConcatProperties
<1>5. ASSUME NEW k \in 1..Len(s)-1
      PROVE  (a \o b)[k] = IF k < n THEN s[k] ELSE s[k + 1]
  <2>1. Len(s) \in Nat /\ k \in 1..Len(a)+Len(b)
    BY <1>1, <1>2
  <2>2. (a \o b)[k] = IF k <= Len(a) THEN a[k] ELSE b[k - Len(a)]
    BY <1>4, <2>1
  <2>3. CASE k < n
    <3>1. k \in 1..n-1 /\ k <= Len(a)
      BY <1>1, <2>3
    <3> QED
      BY <1>1, <2>2, <2>3, <3>1
  <2>4. CASE ~(k < n)
    <3>1. ~(k <= Len(a)) /\ k - Len(a) = k - (n - 1) /\ k - (n - 1) \in 1..Len(s)-n
      BY <1>1, <2>1, <2>4
    <3>2. b[k - (n - 1)] = s[n + (k - (n - 1))] /\ n + (k - (n - 1)) = k + 1
      BY <1>2, <3>1
    <3> QED
      BY <2>2, <2>4, <3>1, <3>2
  <2> QED
    BY <2>3, <2>4
<1> QED
  BY <1>1, <1>2, <1>3, <1>4, <1>5

(* What delete_pim_neighbor leaves on the list was there before, in        *)
(* different places as long as it was, and none of it has the address.     *)
LEMMA DeleteLeaves ==
  ASSUME TypeOK, AddressesDiffer, NEW src, delete_pim_neighbor(src)
  PROVE  /\ neighbor' \in Seq(Entry) /\ alive' \in BOOLEAN
         /\ \A m \in 1..Len(neighbor') :
              /\ neighbor'[m] \in Entries
              /\ address[neighbor'[m]] # src
         /\ \A m, n \in 1..Len(neighbor') :
              m # n => address[neighbor'[m]] # address[neighbor'[n]]
<1>0. neighbor \in Seq(Entry) /\ Len(neighbor) \in Nat
  BY DEF TypeOK
<1>1. CASE ~Known(src)
  <2>1. neighbor' = neighbor /\ alive' = alive
    BY <1>1 DEF delete_pim_neighbor
  <2>2. \A m \in 1..Len(neighbor) :
          neighbor[m] \in Entries /\ address[neighbor[m]] # src
    BY <1>1 DEF Known, Entries
  <2> QED
    BY <1>0, <2>1, <2>2 DEF AddressesDiffer, TypeOK
<1>2. CASE Known(src) /\ EntryAt(src) = 1
  <2>1. neighbor' = << >> /\ alive' \in BOOLEAN
    BY <1>2 DEF delete_pim_neighbor
  <2> QED
    BY <2>1, EmptySeq
<1>3. CASE Known(src) /\ EntryAt(src) # 1
  <2> DEFINE x == EntryAt(src)
  <2>1. x \in 1..Len(neighbor) /\ address[neighbor[x]] = src
    BY <1>3, EntryAtFinds
  <2>2. neighbor' = RemoveAt(neighbor, x) /\ alive' = alive
    BY <1>3 DEF delete_pim_neighbor
  <2> HIDE DEF x
  <2>3. /\ neighbor' \in Seq(Entry) /\ Len(neighbor') = Len(neighbor) - 1
        /\ \A k \in 1..Len(neighbor)-1 :
             neighbor'[k] = IF k < x THEN neighbor[k] ELSE neighbor[k + 1]
    BY <1>0, <2>1, <2>2, RemoveAtKeeps
  <2> DEFINE old(k) == IF k < x THEN k ELSE k + 1
  <2>4. \A k \in 1..Len(neighbor') :
          /\ old(k) \in 1..Len(neighbor) /\ old(k) # x
          /\ neighbor'[k] = neighbor[old(k)]
    BY <1>0, <2>1, <2>3
  <2>5. \A m, n \in 1..Len(neighbor') : m # n => old(m) # old(n)
    BY <1>0, <2>1, <2>3
  <2> HIDE DEF old
  <2>6. \A m \in 1..Len(neighbor') :
          neighbor'[m] \in Entries /\ address[neighbor'[m]] # src
    BY <2>1, <2>4 DEF AddressesDiffer, Entries
  <2>7. \A m, n \in 1..Len(neighbor') :
          m # n => address[neighbor'[m]] # address[neighbor'[n]]
    BY <2>4, <2>5 DEF AddressesDiffer
  <2> QED
    BY <2>2, <2>3, <2>6, <2>7 DEF TypeOK
<1> QED
  BY <1>1, <1>2, <1>3

-----------------------------------------------------------------------------
LEMMA InitIInv == Init => IInv
<1> SUFFICES ASSUME Init PROVE IInv
  OBVIOUS
<1>1. Len(neighbor) = 0 /\ neighbor \in Seq(Entry)
  BY EmptySeq DEF Init
<1> QED
  BY <1>1 DEF Init, IInv, TypeOK, EveryNeighborTimed, Entries

LEMMA AddStep ==
  ASSUME IInv, NEW src \in Router, NEW holdtime, add_pim_neighbor(src, holdtime)
  PROVE  IInv'
<1> DEFINE e == CHOOSE x \in Unused : TRUE
<1>1. e \in Unused
  BY DEF add_pim_neighbor
<1>2. /\ neighbor' = <<e>> \o neighbor
      /\ address' = [address EXCEPT ![e] = src]
      /\ timers' = timers \union {e}
      /\ alive' = alive
  BY DEF add_pim_neighbor
<1> HIDE DEF e
<1>3. e \in Entry /\ e \notin Entries
  BY <1>1 DEF Unused
<1>4. neighbor \in Seq(Entry) /\ Len(neighbor) \in Nat
  BY DEF IInv, TypeOK
<1>5. /\ neighbor' \in Seq(Entry) /\ Len(neighbor') = Len(neighbor) + 1
      /\ neighbor'[1] = e
      /\ \A k \in 2..Len(neighbor') : neighbor'[k] = neighbor[k - 1]
  <2>1. <<e>> \in Seq(Entry) /\ Len(<<e>>) = 1 /\ <<e>>[1] = e
    BY <1>3
  <2>2. /\ <<e>> \o neighbor \in Seq(Entry)
        /\ Len(<<e>> \o neighbor) = 1 + Len(neighbor)
        /\ \A k \in 1..1+Len(neighbor) :
             (<<e>> \o neighbor)[k] = IF k <= 1 THEN <<e>>[k] ELSE neighbor[k - 1]
    BY <1>4, <2>1, ConcatProperties
  <2> QED
    BY <1>2, <1>4, <2>1, <2>2
<1>6. \A k \in 1..Len(neighbor) :
        /\ neighbor[k] \in Entries /\ neighbor[k] \in Entry
        /\ address'[neighbor[k]] = address[neighbor[k]]
  BY <1>2, <1>3, <1>4 DEF Entries, IInv, TypeOK
<1>7. address'[e] = src /\ \A k \in 1..Len(neighbor) : address[neighbor[k]] # src
  BY <1>2, <1>3, <1>6 DEF add_pim_neighbor, Known, IInv, TypeOK
<1>8. TypeOK'
  BY <1>2, <1>3, <1>5 DEF IInv, TypeOK
<1>9. (Entries \subseteq timers)'
  <2> SUFFICES ASSUME NEW k \in 1..Len(neighbor') PROVE neighbor'[k] \in timers'
    BY DEF Entries
  <2>1. k = 1 \/ (k \in 2..Len(neighbor') /\ k - 1 \in 1..Len(neighbor))
    BY <1>4, <1>5
  <2> QED
    BY <1>2, <1>5, <1>6, <2>1 DEF IInv, EveryNeighborTimed
<1>10. AddressesDiffer'
  <2> SUFFICES ASSUME NEW m \in 1..Len(neighbor'), NEW n \in 1..Len(neighbor'),
                      m # n
               PROVE  address'[neighbor'[m]] # address'[neighbor'[n]]
    BY DEF AddressesDiffer
  <2>1. m = 1 \/ (m \in 2..Len(neighbor') /\ m - 1 \in 1..Len(neighbor))
    BY <1>4, <1>5
  <2>2. n = 1 \/ (n \in 2..Len(neighbor') /\ n - 1 \in 1..Len(neighbor))
    BY <1>4, <1>5
  <2>3. CASE m = 1
    <3>1. neighbor'[n] = neighbor[n - 1] /\ n - 1 \in 1..Len(neighbor)
      BY <1>5, <2>2, <2>3
    <3> QED
      BY <1>5, <1>6, <1>7, <2>3, <3>1
  <2>4. CASE n = 1
    <3>1. neighbor'[m] = neighbor[m - 1] /\ m - 1 \in 1..Len(neighbor)
      BY <1>5, <2>1, <2>4
    <3> QED
      BY <1>5, <1>6, <1>7, <2>4, <3>1
  <2>5. CASE m # 1 /\ n # 1
    <3>1. /\ neighbor'[m] = neighbor[m - 1] /\ m - 1 \in 1..Len(neighbor)
          /\ neighbor'[n] = neighbor[n - 1] /\ n - 1 \in 1..Len(neighbor)
          /\ m - 1 # n - 1
      BY <1>5, <2>1, <2>2, <2>5
    <3>2. address[neighbor[m - 1]] # address[neighbor[n - 1]]
      BY <3>1 DEF IInv, EveryNeighborTimed
    <3> QED
      BY <1>6, <3>1, <3>2
  <2> QED
    BY <2>3, <2>4, <2>5
<1> QED
  BY <1>8, <1>9, <1>10 DEF IInv, EveryNeighborTimed, AddressesDiffer

LEMMA RefreshStep ==
  ASSUME IInv, NEW src \in Router, NEW holdtime, Refresh(src, holdtime)
  PROVE  IInv'
<1>1. EntryAt(src) \in 1..Len(neighbor) /\ neighbor \in Seq(Entry)
  BY EntryAtFinds DEF Refresh, IInv, TypeOK
<1>2. neighbor[EntryAt(src)] \in Entry
  BY <1>1
<1> QED
  BY <1>2 DEF Refresh, IInv, TypeOK, EveryNeighborTimed, Entries

LEMMA GoodbyeStep ==
  ASSUME IInv, NEW src \in Router, NEW holdtime, Goodbye(src, holdtime)
  PROVE  IInv'
<1>1. AddressesDiffer /\ TypeOK /\ delete_pim_neighbor(src)
  BY DEF IInv, EveryNeighborTimed, AddressesDiffer, Goodbye
<1>2. /\ neighbor' \in Seq(Entry) /\ alive' \in BOOLEAN
      /\ \A m \in 1..Len(neighbor') : neighbor'[m] \in Entries
      /\ \A m, n \in 1..Len(neighbor') :
           m # n => address[neighbor'[m]] # address[neighbor'[n]]
  BY <1>1, DeleteLeaves
<1>3. address' = address /\ timers' = timers
  BY DEF Goodbye
<1>4. (Entries \subseteq timers)'
  <2> SUFFICES ASSUME NEW k \in 1..Len(neighbor') PROVE neighbor'[k] \in timers
    BY <1>3 DEF Entries
  <2> QED
    BY <1>2 DEF IInv, EveryNeighborTimed
<1> QED
  BY <1>2, <1>3, <1>4 DEF IInv, TypeOK, EveryNeighborTimed

LEMMA TimesOutStep ==
  ASSUME IInv, NEW e \in Entry, TimesOut(e)
  PROVE  IInv'
<1>1. /\ AddressesDiffer /\ TypeOK /\ delete_pim_neighbor(address[e])
  BY DEF IInv, EveryNeighborTimed, AddressesDiffer, TimesOut
<1>2. /\ neighbor' \in Seq(Entry) /\ alive' \in BOOLEAN
      /\ \A m \in 1..Len(neighbor') :
           neighbor'[m] \in Entries /\ address[neighbor'[m]] # address[e]
      /\ \A m, n \in 1..Len(neighbor') :
           m # n => address[neighbor'[m]] # address[neighbor'[n]]
  BY <1>1, DeleteLeaves
<1>3. address' = address /\ timers' = timers \ {e}
  BY DEF TimesOut
<1>4. (Entries \subseteq timers)'
  <2> SUFFICES ASSUME NEW k \in 1..Len(neighbor') PROVE neighbor'[k] \in timers \ {e}
    BY <1>3 DEF Entries
  <2> QED
    BY <1>2 DEF IInv, EveryNeighborTimed
<1> QED
  BY <1>2, <1>3, <1>4 DEF IInv, TypeOK, EveryNeighborTimed

LEMMA NextIInv == IInv /\ [Next]_vars => IInv'
<1> SUFFICES ASSUME IInv, [Next]_vars PROVE IInv'
  OBVIOUS
<1>1. ASSUME NEW src \in Router, NEW holdtime \in Holdtime,
             receive_hello(src, holdtime)
      PROVE  IInv'
  BY <1>1, AddStep, RefreshStep, GoodbyeStep DEF receive_hello
<1>2. ASSUME NEW e \in Entry, TimesOut(e) PROVE IInv'
  BY <1>2, TimesOutStep
<1>3. CASE UNCHANGED vars
  BY <1>3 DEF vars, IInv, TypeOK, EveryNeighborTimed, Entries
<1> QED
  BY <1>1, <1>2, <1>3 DEF Next

(* The list and the timers stay in their types: what is on the list is one *)
(* of the entries, whatever is removed from it (pim.c:228-311).            *)
THEOREM NeighborTypeCorrect == Spec => []TypeOK
<1>1. Init => IInv
  BY InitIInv
<1>2. IInv /\ [Next]_vars => IInv'
  BY NextIInv
<1>3. IInv => TypeOK
  BY DEF IInv
<1> QED
  BY <1>1, <1>2, <1>3, PTL DEF Spec

(* Every listed neighbour has its own timer, and no address is listed      *)
(* twice, however goodbyes, stale timers and returns follow each other     *)
(* (pim.c:228-311).                                                        *)
THEOREM NeighborEveryNeighborTimed == Spec => []EveryNeighborTimed
<1>1. Init => IInv
  BY InitIInv
<1>2. IInv /\ [Next]_vars => IInv'
  BY NextIInv
<1>3. IInv => EveryNeighborTimed
  BY DEF IInv
<1> QED
  BY <1>1, <1>2, <1>3, PTL DEF Spec

-----------------------------------------------------------------------------
(* The timer of a listed router of which less than three Hellos in a row   *)
(* were lost was set by the last that was heard.                           *)
Timed ==
  /\ \A e \in Entries : missed[address[e]] < 3 =>
       left[e] = HELLO_TIME(address[e]) - missed[address[e]] * Period
                   - (Period - hello[address[e]])
  /\ \A r \in Router \ up : missed[r] = 3

HelloInv == IInv /\ HelloTypeOK /\ Timed

LEMMA HelloConstants ==
  /\ Period \in Nat /\ Period > 0
  /\ 0 \in Holdtime
  /\ \A r \in Router : /\ HELLO_TIME(r) \in Holdtime
                        /\ HELLO_TIME(r) \in Nat
                        /\ HELLO_TIME(r) > 3 * Period
<1>1. Period \in Nat /\ Period > 0 /\ 3 * Period \in Nat /\ 0 \in Holdtime
  BY HelloAssumption
<1>2. ASSUME NEW r \in Router
      PROVE  HELLO_TIME(r) \in Nat
  <2> DEFINE h == HELLO_TIME(r)
  <2>1. h \in Holdtime /\ h > 3 * Period
    BY HelloAssumption
  <2> HIDE DEF h
  <2>2. h \in Nat \/ h = -1
    BY <2>1, NeighborAssumption
  <2>3. h \in Nat
    BY <1>1, <2>1, <2>2
  <2> QED
    BY <2>3 DEF h
<1> QED
  BY <1>1, <1>2, HelloAssumption

LEMMA Products ==
  ASSUME NEW m \in 0..3
  PROVE  /\ m * Period \in Nat
         /\ m < 3 => m * Period + Period <= 3 * Period
         /\ m + 1 < 3 => (m + 1) * Period = m * Period + Period
<1>0. Period \in Nat
  BY HelloConstants
<1>1. m = 0 \/ m = 1 \/ m = 2 \/ m = 3
  OBVIOUS
<1>2. CASE m = 0
  BY <1>0, <1>2
<1>3. CASE m = 1
  BY <1>0, <1>3
<1>4. CASE m = 2
  BY <1>0, <1>4
<1>5. CASE m = 3
  BY <1>0, <1>5
<1> QED
  BY <1>1, <1>2, <1>3, <1>4, <1>5

LEMMA EntriesTyped ==
  ASSUME TypeOK
  PROVE  Entries \subseteq Entry /\ \A e \in Entries : address[e] \in Router
BY DEF TypeOK, Entries

(* What a Hello does to the list: an entry that is still listed and is not *)
(* of the router that sent it was listed before, with the same address.    *)
LEMMA ReceiveKeeps ==
  ASSUME IInv, NEW src \in Router, NEW holdtime, receive_hello(src, holdtime)
  PROVE  /\ \A e \in Entries' : address'[e] # src =>
              e \in Entries /\ address'[e] = address[e]
         /\ ~Goodbye(src, holdtime) =>
              \A e \in Entries : e \in Entries' /\ address'[e] = address[e]
<1>0. neighbor \in Seq(Entry) /\ Len(neighbor) \in Nat
  BY DEF IInv, TypeOK
<1>1. CASE add_pim_neighbor(src, holdtime)
  <2> DEFINE x == CHOOSE y \in Unused : TRUE
  <2>1. x \in Unused
    BY <1>1 DEF add_pim_neighbor
  <2>2. /\ neighbor' = <<x>> \o neighbor
        /\ address' = [address EXCEPT ![x] = src]
    BY <1>1 DEF add_pim_neighbor
  <2> HIDE DEF x
  <2>3. x \in Entry /\ x \notin Entries
    BY <2>1 DEF Unused
  <2>4. <<x>> \in Seq(Entry) /\ Len(<<x>>) = 1 /\ <<x>>[1] = x
    BY <2>3
  <2>5. /\ Len(neighbor') = 1 + Len(neighbor)
        /\ \A k \in 1..1+Len(neighbor) :
             neighbor'[k] = IF k <= 1 THEN <<x>>[k] ELSE neighbor[k - 1]
    BY <1>0, <2>2, <2>4, ConcatProperties
  <2>6. Entries' \subseteq Entries \union {x}
    <3> SUFFICES ASSUME NEW k \in 1..Len(neighbor')
                 PROVE  neighbor'[k] \in Entries \union {x}
      BY DEF Entries
    <3>1. CASE k = 1
      BY <2>4, <2>5, <3>1, <1>0
    <3>2. CASE k # 1
      <4>1. k - 1 \in 1..Len(neighbor) /\ neighbor'[k] = neighbor[k - 1]
        BY <1>0, <2>5, <3>2
      <4> QED
        BY <4>1 DEF Entries
    <3> QED
      BY <3>1, <3>2
  <2>7. Entries \subseteq Entries'
    <3> SUFFICES ASSUME NEW k \in 1..Len(neighbor) PROVE neighbor[k] \in Entries'
      BY DEF Entries
    <3>1. k + 1 \in 1..Len(neighbor') /\ neighbor'[k + 1] = neighbor[k]
      BY <1>0, <2>5
    <3> QED
      BY <3>1 DEF Entries
  <2>8. address'[x] = src /\ \A e \in Entries : address'[e] = address[e]
    BY <2>2, <2>3, EntriesTyped DEF IInv, TypeOK
  <2> QED
    BY <2>6, <2>7, <2>8
<1>2. CASE Refresh(src, holdtime)
  BY <1>2 DEF Refresh, Entries
<1>3. CASE Goodbye(src, holdtime)
  <2>1. AddressesDiffer /\ TypeOK /\ delete_pim_neighbor(src)
    BY <1>3 DEF IInv, EveryNeighborTimed, AddressesDiffer, Goodbye
  <2>2. \A m \in 1..Len(neighbor') : neighbor'[m] \in Entries
    BY <2>1, DeleteLeaves
  <2>3. Entries' \subseteq Entries /\ address' = address
    BY <1>3, <2>2 DEF Entries, Goodbye
  <2> QED
    BY <1>3, <2>3
<1> QED
  BY <1>1, <1>2, <1>3 DEF receive_hello

(* Every step of the subnet is a step of the neighbour list or leaves it.  *)
LEMMA HelloStepIsNeighborStep ==
  [HelloNext]_helloVars => [Next]_vars
<1> SUFFICES ASSUME [HelloNext]_helloVars PROVE [Next]_vars
  OBVIOUS
<1>1. ASSUME NEW r \in Router, NEW hold \in Holdtime, Hears(r, hold) PROVE Next
  BY <1>1 DEF Hears, Next
<1>2. ASSUME NEW r \in Router, HelloHeard(r) PROVE Next
  BY <1>1, <1>2, HelloConstants DEF HelloHeard, pim_hello_output
<1>3. ASSUME NEW r \in Router, HelloLost(r) PROVE UNCHANGED vars
  BY <1>3 DEF HelloLost, pim_hello_output, Misses
<1>4. ASSUME NEW r \in Router, Stops(r) PROVE [Next]_vars
  BY <1>1, <1>4, HelloConstants DEF Stops
<1>5. ASSUME NEW r \in Router, Starts(r) PROVE UNCHANGED vars
  BY <1>5 DEF Starts
<1>6. ASSUME NEW e \in Entry, TimerExpires(e) PROVE Next
  BY <1>6 DEF TimerExpires, Next
<1>7. CASE Tick \/ UNCHANGED helloVars
  BY <1>7 DEF Tick, helloVars
<1> QED
  BY <1>2, <1>3, <1>4, <1>5, <1>6, <1>7 DEF HelloNext, Faults

LEMMA InitHelloInv == HelloInit => HelloInv
<1> SUFFICES ASSUME HelloInit PROVE HelloInv
  OBVIOUS
<1>1. IInv
  BY InitIInv DEF HelloInit
<1>2. Entries = {}
  BY EmptySeq DEF HelloInit, Init, Entries
<1>3. HelloTypeOK
  BY HelloConstants DEF HelloInit, HelloTypeOK
<1> QED
  BY <1>1, <1>2, <1>3 DEF HelloInv, Timed, HelloInit

(* A Hello that arrives, whether one that was due or a goodbye.            *)
LEMMA HearsTypes ==
  ASSUME HelloInv, NEW r \in Router, NEW hold \in Holdtime, Hears(r, hold)
  PROVE  /\ left' \in [Entry -> Nat]
         /\ missed' \in [Router -> 0..3]
<1>1. IF hold > 0 THEN hold \in Nat ELSE 0 \in Nat
  BY NeighborAssumption
<1>2. left' \in [Entry -> Nat]
  BY <1>1 DEF Hears, SetsTimer, HelloInv, HelloTypeOK
<1> QED
  BY <1>2 DEF Hears, HelloInv, HelloTypeOK

LEMMA HelloHeardStep ==
  ASSUME HelloInv, IInv', NEW r \in Router, HelloHeard(r)
  PROVE  HelloInv'
<1> DEFINE H == HELLO_TIME(r)
<1>1. /\ r \in up /\ up' = up
      /\ hello' = [hello EXCEPT ![r] = Period]
      /\ Hears(r, H)
  BY DEF HelloHeard, pim_hello_output
<1>2. H \in Holdtime /\ H \in Nat /\ H > 0 /\ Period \in Nat
  <2>1. H \in Nat /\ H > 3 * Period /\ Period \in Nat /\ H \in Holdtime
    BY HelloConstants
  <2> HIDE DEF H
  <2> QED
    BY <2>1
<1> HIDE DEF H
<1>3. HelloTypeOK'
  BY <1>1, <1>2, HearsTypes DEF HelloInv, HelloTypeOK
<1>4. missed' = [missed EXCEPT ![r] = 0] /\ receive_hello(r, H)
  <2>1. /\ missed' = [missed EXCEPT ![r] = IF H = 0 THEN 3 ELSE 0]
        /\ receive_hello(r, H)
    BY <1>1 DEF Hears
  <2>2. (IF H = 0 THEN 3 ELSE 0) = 0
    BY <1>2
  <2> QED
    BY <2>1, <2>2
<1>5. \A e \in Entries' : address'[e] # r =>
        e \in Entries /\ address'[e] = address[e]
  BY <1>4, ReceiveKeeps DEF HelloInv
<1>6. \A e \in Entries' : e \in Entry /\ address'[e] \in Router
  BY DEF IInv, TypeOK, Entries
<1>7. ASSUME NEW e \in Entries', missed'[address'[e]] < 3
      PROVE  left'[e] = HELLO_TIME(address'[e]) - missed'[address'[e]] * Period
                          - (Period - hello'[address'[e]])
  <2>1. CASE address'[e] = r
    <3>1. missed'[r] = 0 /\ hello'[r] = Period
      BY <1>1, <1>4 DEF HelloInv, HelloTypeOK
    <3>2. left'[e] = H
      BY <1>1, <1>2, <1>6, <2>1 DEF Hears, SetsTimer
    <3>3. H = H - 0 * Period - (Period - Period)
      BY <1>2
    <3> QED
      BY <2>1, <3>1, <3>2, <3>3 DEF H
  <2>2. CASE address'[e] # r
    <3>1. e \in Entries /\ address'[e] = address[e] /\ e \in Entry
      BY <1>5, <1>6, <2>2
    <3>2. /\ missed'[address'[e]] = missed[address[e]]
          /\ hello'[address'[e]] = hello[address[e]]
      BY <1>1, <1>4, <1>6, <2>2, <3>1 DEF HelloInv, HelloTypeOK
    <3>3. left'[e] = left[e]
      BY <1>1, <2>2, <3>1 DEF Hears, SetsTimer
    <3> QED
      BY <1>7, <3>1, <3>2, <3>3 DEF HelloInv, Timed
  <2> QED
    BY <2>1, <2>2
<1>8. \A s \in Router \ up' : missed'[s] = 3
  BY <1>1, <1>4 DEF HelloInv, HelloTypeOK, Timed
<1> QED
  BY <1>3, <1>7, <1>8 DEF HelloInv, Timed

LEMMA HelloLostStep ==
  ASSUME HelloInv, IInv', NEW r \in Router, HelloLost(r)
  PROVE  HelloInv'
<1>0. HELLO_TIME(r) \in Nat /\ Period \in Nat /\ Period > 0 /\ HELLO_TIME(r) > 3 * Period
  BY HelloConstants
<1>1. /\ r \in up /\ up' = up /\ hello[r] = 0
      /\ hello' = [hello EXCEPT ![r] = Period]
      /\ missed' = [missed EXCEPT ![r] =
                      IF HELLO_TIME(r) = 0 \/ @ = 3 THEN 3 ELSE @ + 1]
      /\ left' = left /\ Entries' = Entries /\ address' = address
  BY DEF HelloLost, pim_hello_output, Misses, vars, Entries
<1>2. HelloTypeOK'
  BY <1>0, <1>1 DEF HelloInv, HelloTypeOK
<1>3. \A e \in Entries : e \in Entry /\ address[e] \in Router
  BY EntriesTyped DEF HelloInv, IInv
<1>4. ASSUME NEW e \in Entries, missed'[address[e]] < 3
      PROVE  left[e] = HELLO_TIME(address[e]) - missed'[address[e]] * Period
                          - (Period - hello'[address[e]])
  <2>1. CASE address[e] = r
    <3>1. missed[r] \in 0..3 /\ missed'[r] = missed[r] + 1 /\ missed[r] + 1 < 3
      BY <1>1, <1>4, <2>1 DEF HelloInv, HelloTypeOK
    <3>2. hello'[r] = Period
      BY <1>1 DEF HelloInv, HelloTypeOK
    <3>3. left[e] = HELLO_TIME(r) - missed[r] * Period - (Period - 0)
      BY <1>1, <2>1, <3>1 DEF HelloInv, Timed
    <3>4. missed[r] * Period \in Nat
          /\ (missed[r] + 1) * Period = missed[r] * Period + Period
      BY <3>1, Products
    <3> DEFINE H == HELLO_TIME(r)
               a == missed[r] * Period
    <3>5. H - a - (Period - 0) = H - (a + Period) - (Period - Period)
      <4> HIDE DEF a, H
      <4>1. H \in Nat /\ a \in Nat
        BY <1>0, <3>4 DEF H, a
      <4> QED
        BY <1>0, <4>1
    <3> QED
      BY <2>1, <3>1, <3>2, <3>3, <3>4, <3>5
  <2>2. CASE address[e] # r
    <3>1. /\ missed'[address[e]] = missed[address[e]]
          /\ hello'[address[e]] = hello[address[e]]
      BY <1>1, <1>3, <2>2 DEF HelloInv, HelloTypeOK
    <3> QED
      BY <1>4, <3>1 DEF HelloInv, Timed
  <2> QED
    BY <2>1, <2>2
<1>5. \A s \in Router \ up' : missed'[s] = 3
  BY <1>1 DEF HelloInv, HelloTypeOK, Timed
<1> QED
  BY <1>1, <1>2, <1>4, <1>5 DEF HelloInv, Timed

LEMMA StopsStep ==
  ASSUME HelloInv, IInv', NEW r \in Router, Stops(r)
  PROVE  HelloInv'
<1>0. 0 \in Holdtime /\ Period \in Nat
  BY HelloConstants
<1>1. up' = up \ {r} /\ hello' = [hello EXCEPT ![r] = 0]
  BY DEF Stops
<1>2. missed' = [missed EXCEPT ![r] = 3]
  BY DEF Stops, Hears
<1>3. left' \in [Entry -> Nat]
  <2>1. CASE Hears(r, 0)
    BY <1>0, <2>1, HearsTypes
  <2>2. CASE left' = left
    BY <2>2 DEF HelloInv, HelloTypeOK
  <2> QED
    BY <2>1, <2>2 DEF Stops
<1>4. HelloTypeOK'
  BY <1>0, <1>1, <1>2, <1>3 DEF HelloInv, HelloTypeOK
<1>5. \A e \in Entries' : address'[e] # r =>
        e \in Entries /\ address'[e] = address[e] /\ left'[e] = left[e]
  <2>1. CASE Hears(r, 0)
    <3>1. receive_hello(r, 0) /\ left' = SetsTimer(r, 0)
      BY <2>1 DEF Hears
    <3>2. \A e \in Entries' : address'[e] # r =>
            e \in Entries /\ address'[e] = address[e]
      BY <3>1, ReceiveKeeps DEF HelloInv
    <3>3. Entries \subseteq Entry
      BY EntriesTyped DEF HelloInv, IInv
    <3> QED
      BY <3>1, <3>2, <3>3 DEF SetsTimer
  <2>2. CASE UNCHANGED <<vars, left>>
    BY <2>2 DEF vars, Entries
  <2> QED
    BY <2>1, <2>2 DEF Stops
<1>6. \A e \in Entries' : address'[e] \in Router
  BY DEF IInv, TypeOK, Entries
<1>7. missed'[r] = 3
  BY <1>2 DEF HelloInv, HelloTypeOK
<1>8. ASSUME NEW e \in Entries', missed'[address'[e]] < 3
      PROVE  left'[e] = HELLO_TIME(address'[e]) - missed'[address'[e]] * Period
                          - (Period - hello'[address'[e]])
  <2>1. address'[e] # r
    BY <1>7, <1>8
  <2>2. /\ missed'[address'[e]] = missed[address[e]]
        /\ hello'[address'[e]] = hello[address[e]]
    BY <1>1, <1>2, <1>5, <1>6, <2>1 DEF HelloInv, HelloTypeOK
  <2> QED
    BY <1>5, <1>8, <2>1, <2>2 DEF HelloInv, Timed
<1>9. \A s \in Router \ up' : missed'[s] = 3
  BY <1>1, <1>2 DEF HelloInv, HelloTypeOK, Timed
<1> QED
  BY <1>4, <1>8, <1>9 DEF HelloInv, Timed

LEMMA TimerExpiresStep ==
  ASSUME HelloInv, IInv', NEW x \in Entry, TimerExpires(x)
  PROVE  HelloInv'
<1>1. AddressesDiffer /\ TypeOK /\ delete_pim_neighbor(address[x])
  BY DEF HelloInv, IInv, EveryNeighborTimed, AddressesDiffer, TimerExpires, TimesOut
<1>2. \A m \in 1..Len(neighbor') : neighbor'[m] \in Entries
  BY <1>1, DeleteLeaves
<1>3. Entries' \subseteq Entries
  BY <1>2 DEF Entries
<1>4. UNCHANGED <<up, hello, left, missed, address>>
  BY DEF TimerExpires, TimesOut, subnet
<1> QED
  BY <1>3, <1>4 DEF HelloInv, HelloTypeOK, Timed

LEMMA TickStep ==
  ASSUME HelloInv, IInv', Tick
  PROVE  HelloInv'
<1>0. Period \in Nat /\ \A r \in Router : HELLO_TIME(r) \in Nat
  BY HelloConstants
<1>1. /\ Entries' = Entries /\ address' = address /\ up' = up /\ missed' = missed
      /\ hello' = [r \in Router |-> IF r \in up THEN hello[r] - 1 ELSE 0]
      /\ left' = [e \in Entry |-> IF e \in timers THEN left[e] - 1 ELSE 0]
      /\ \A r \in up : hello[r] > 0
      /\ \A e \in timers : left[e] > 0
  BY DEF Tick, vars, Entries
<1>2. HelloTypeOK'
  BY <1>0, <1>1 DEF HelloInv, HelloTypeOK, IInv, TypeOK
<1>3. ASSUME NEW e \in Entries, missed[address[e]] < 3
      PROVE  left'[e] = HELLO_TIME(address[e]) - missed[address[e]] * Period
                          - (Period - hello'[address[e]])
  <2> DEFINE r == address[e]
             H == HELLO_TIME(r)
             a == missed[r] * Period
  <2>1. e \in Entry /\ e \in timers /\ r \in Router
    BY EntriesTyped DEF HelloInv, IInv, EveryNeighborTimed
  <2>2. r \in up
    BY <1>3, <2>1 DEF HelloInv, Timed
  <2>3. left[e] = H - a - (Period - hello[r])
    BY <1>3 DEF HelloInv, Timed
  <2>4. left'[e] = left[e] - 1 /\ hello'[r] = hello[r] - 1
    BY <1>1, <2>1, <2>2
  <2>5. H \in Nat /\ a \in Nat /\ hello[r] \in Nat
    BY <1>0, <2>1, Products DEF HelloInv, HelloTypeOK
  <2>6. left'[e] = H - a - (Period - hello'[r])
    <3> HIDE DEF H, a
    <3> QED
      BY <1>0, <2>3, <2>4, <2>5
  <2> QED
    BY <2>6
<1> QED
  BY <1>1, <1>2, <1>3 DEF HelloInv, Timed

LEMMA NextHelloInv == HelloInv /\ [HelloNext]_helloVars => HelloInv'
<1> SUFFICES ASSUME HelloInv, [HelloNext]_helloVars PROVE HelloInv'
  OBVIOUS
<1>0. IInv'
  BY HelloStepIsNeighborStep, NextIInv DEF HelloInv
<1>1. ASSUME NEW r \in Router, HelloHeard(r) PROVE HelloInv'
  BY <1>0, <1>1, HelloHeardStep
<1>2. ASSUME NEW r \in Router, HelloLost(r) PROVE HelloInv'
  BY <1>0, <1>2, HelloLostStep
<1>3. ASSUME NEW r \in Router, Stops(r) PROVE HelloInv'
  BY <1>0, <1>3, StopsStep
<1>4. ASSUME NEW r \in Router, Starts(r) PROVE HelloInv'
  <2>1. /\ UNCHANGED <<hello, left, missed, address>> /\ Entries' = Entries
        /\ up' = up \union {r}
    BY <1>4 DEF Starts, vars, Entries
  <2> QED
    BY <1>0, <2>1 DEF HelloInv, HelloTypeOK, Timed
<1>5. ASSUME NEW e \in Entry, TimerExpires(e) PROVE HelloInv'
  BY <1>0, <1>5, TimerExpiresStep
<1>6. CASE Tick
  BY <1>0, <1>6, TickStep
<1>7. CASE UNCHANGED helloVars
  <2>1. /\ UNCHANGED <<up, hello, left, missed, address>> /\ Entries' = Entries
    BY <1>7 DEF helloVars, vars, subnet, Entries
  <2> QED
    BY <1>0, <2>1 DEF HelloInv, HelloTypeOK, Timed
<1> QED
  BY <1>1, <1>2, <1>3, <1>4, <1>5, <1>6, <1>7 DEF HelloNext, Faults

(* The subnet with its clock, losses and crashes keeps to what Neighbor    *)
(* promises of one list: the types, and a timer for each neighbour.        *)
THEOREM HelloEveryNeighborTimed == HelloSpec => [](HelloTypeOK /\ EveryNeighborTimed)
<1>1. HelloInit => HelloInv
  BY InitHelloInv
<1>2. HelloInv /\ [HelloNext]_helloVars => HelloInv'
  BY NextHelloInv
<1>3. HelloInv => HelloTypeOK /\ EveryNeighborTimed
  BY DEF HelloInv, IInv
<1> QED
  BY <1>1, <1>2, <1>3, PTL DEF HelloSpec

(* Neighbours go only when one of them was silent for three Hellos, or     *)
(* stops, as long as no stale timer is set, for every number of routers    *)
(* and every holdtime of more than three periods (pim.c:192-311).          *)
THEOREM HelloKeptWhileHeard == HelloSpec => KeptWhileHeard
<1> DEFINE Gone(r) == timers \subseteq Entries /\ Known(r) /\ ~Known(r)'
           Excuse(s) == Known(s) /\ ~Known(s)' /\ (missed[s] = 3 \/ s \notin up')
           Kept == \A r \in Router : Gone(r) => \E s \in Router : Excuse(s)
<1>1. ASSUME HelloInv, [HelloNext]_helloVars PROVE Kept
  <2> SUFFICES ASSUME NEW r \in Router, Gone(r)
               PROVE  \E s \in Router : Excuse(s)
    OBVIOUS
  <2>0. UNCHANGED vars => Known(r)'
    BY DEF vars, Known, Entries
  <2>1. ASSUME NEW s \in Router, NEW hold, receive_hello(s, hold)
        PROVE  Goodbye(s, hold) /\ Known(s) /\ ~Known(s)'
    <3>1. ~Goodbye(s, hold) =>
            \A e \in Entries : e \in Entries' /\ address'[e] = address[e]
      BY <1>1, <2>1, ReceiveKeeps DEF HelloInv
    <3>2. Goodbye(s, hold)
      BY <3>1 DEF Known
    <3>3. /\ AddressesDiffer /\ TypeOK /\ delete_pim_neighbor(s)
          /\ Known(s) /\ address' = address
      BY <1>1, <3>2 DEF HelloInv, IInv, EveryNeighborTimed, AddressesDiffer, Goodbye
    <3>4. \A m \in 1..Len(neighbor') : address[neighbor'[m]] # s
      BY <3>3, DeleteLeaves
    <3> QED
      BY <3>2, <3>3, <3>4 DEF Known, Entries
  <2>2. ASSUME NEW s \in Router, HelloHeard(s) PROVE FALSE
    <3>1. receive_hello(s, HELLO_TIME(s))
      BY <2>2 DEF HelloHeard, pim_hello_output, Hears
    <3>2. HELLO_TIME(s) = 0
      BY <2>1, <3>1 DEF Goodbye
    <3>3. HELLO_TIME(s) > 3 * Period /\ Period \in Nat /\ HELLO_TIME(s) \in Nat
      BY HelloConstants
    <3> QED
      BY <3>2, <3>3
  <2>3. ASSUME NEW s \in Router, Stops(s) PROVE Excuse(s)
    <3>1. Hears(s, 0)
      BY <2>0, <2>3 DEF Stops
    <3>2. s \notin up' /\ receive_hello(s, 0)
      BY <2>3, <3>1 DEF Stops, Hears
    <3> QED
      BY <2>1, <3>2
  <2>4. ASSUME NEW e \in Entry, TimerExpires(e)
        PROVE  address[e] \in Router /\ Excuse(address[e])
    <3> DEFINE s == address[e]
    <3>1. /\ AddressesDiffer /\ TypeOK /\ delete_pim_neighbor(s)
          /\ e \in timers /\ left[e] = 0 /\ address' = address
      BY <1>1, <2>4 DEF HelloInv, IInv, EveryNeighborTimed, AddressesDiffer,
                        TimerExpires, TimesOut
    <3>2. e \in Entries /\ s \in Router /\ Known(s)
      BY <3>1, EntriesTyped DEF Known
    <3>3. \A m \in 1..Len(neighbor') : address[neighbor'[m]] # s
      BY <3>1, DeleteLeaves
    <3>4. ~Known(s)'
      BY <3>1, <3>3 DEF Known, Entries
    <3>5. missed[s] = 3
      <4> DEFINE H == HELLO_TIME(s)
                 a == missed[s] * Period
      <4>1. /\ missed[s] \in 0..3 /\ hello[s] \in Nat
            /\ missed[s] < 3 => 0 = H - a - (Period - hello[s])
        BY <1>1, <3>1, <3>2, HelloConstants DEF HelloInv, HelloTypeOK, Timed
      <4>2. /\ a \in Nat
            /\ missed[s] < 3 => a + Period <= 3 * Period
        BY <4>1, Products
      <4>3. H \in Nat /\ Period \in Nat /\ H > 3 * Period
        BY <3>2, HelloConstants
      <4> HIDE DEF H, a
      <4> QED
        BY <4>1, <4>2, <4>3
    <3> QED
      BY <3>2, <3>4, <3>5
  <2>5. ~(\E s \in Router : HelloLost(s) \/ Starts(s)) /\ ~Tick /\ ~UNCHANGED helloVars
    BY <2>0 DEF HelloLost, pim_hello_output, Misses, Starts, Tick, helloVars
  <2> HIDE DEF Excuse
  <2> QED
    BY <1>1, <2>2, <2>3, <2>4, <2>5 DEF HelloNext, Faults
<1>2. HelloInit => HelloInv
  BY InitHelloInv
<1>3. HelloInv /\ [HelloNext]_helloVars => HelloInv'
  BY NextHelloInv
<1>4. HelloInv /\ [HelloNext]_helloVars =>
        [\A r \in Router : timers \subseteq Entries /\ Known(r) /\ ~Known(r)' =>
           \E s \in Router :
             /\ Known(s) /\ ~Known(s)'
             /\ missed[s] = 3 \/ s \notin up']_helloVars
  BY <1>1
<1> HIDE DEF Kept
<1> QED
  BY <1>2, <1>3, <1>4, PTL DEF HelloSpec, KeptWhileHeard
=============================================================================
