--------------------------- MODULE CalloutProofs ----------------------------
(***************************************************************************)
(* For all delays, intervals and numbers of timers: the queue of relative  *)
(* offsets implements the timers its callers believe in.  What an operator *)
(* does to the deadlines is stated first, one place after the other; then  *)
(* that the order of the deadlines survives it; then the steps.            *)
(***************************************************************************)
EXTENDS Callout, SequenceTheorems, WellFoundedInduction, TLAPS

-----------------------------------------------------------------------------
(* Sums of offsets.                                                        *)

LEMMA NatMin ==
  ASSUME NEW T, T \subseteq Nat, T # {}
  PROVE  \E n \in T : \A m \in T : n <= m
<1>1. IsWellFoundedOn(OpToRel(<, Nat), Nat)
  BY NatLessThanWellFounded
<1>2. PICK n \in T : \A m \in T : ~(<<m, n>> \in OpToRel(<, Nat))
  BY <1>1, WFMin
<1>3. \A m \in T : ~(m < n)
  BY <1>2 DEF OpToRel
<1> QED
  BY <1>3

LEMMA NatAll ==
  ASSUME NEW T, T \subseteq Nat, 0 \in T, \A n \in T : n + 1 \in T
  PROVE  T = Nat
<1> SUFFICES ASSUME Nat \ T # {} PROVE FALSE
  OBVIOUS
<1>1. PICK n \in Nat \ T : \A m \in Nat \ T : n <= m
  BY NatMin
<1>2. n # 0 /\ n - 1 \in Nat
  BY <1>1
<1>3. n - 1 \in T
  BY <1>1, <1>2
<1> QED
  BY <1>3

(* The sum of the offsets exists, as a function of the number of them.     *)
LEMMA SumsExist ==
  ASSUME NEW n \in Nat, NEW q
  PROVE  \E sum : sum = [k \in 0..n |->
                           IF k = 0 THEN 0 ELSE sum[k - 1] + q[k].time]
<1> DEFINE Upto(m, f) ==
             f = [k \in 0..m |-> IF k = 0 THEN 0 ELSE f[k - 1] + q[k].time]
           T == {m \in Nat : \E f : Upto(m, f)}
<1>1. 0 \in T
  <2> DEFINE none == [k \in 0..0 |-> 0]
  <2>1. Upto(0, none)
    OBVIOUS
  <2> QED
    BY <2>1
<1>2. ASSUME NEW m \in T PROVE m + 1 \in T
  <2>1. m \in Nat
    OBVIOUS
  <2>2. PICK f : Upto(m, f)
    OBVIOUS
  <2> DEFINE next == f[m] + q[m + 1].time
             more == [k \in 0..m + 1 |-> IF k = m + 1 THEN next ELSE f[k]]
  <2>3. ASSUME NEW k \in 0..m + 1
        PROVE  more[k] = IF k = 0 THEN 0 ELSE more[k - 1] + q[k].time
    <3>1. CASE k = m + 1
      <4>1. more[m] = f[m] /\ k - 1 = m /\ k # 0
        BY <2>1, <3>1
      <4>2. more[k] = next
        BY <3>1
      <4> HIDE DEF more
      <4> QED
        BY <2>1, <3>1, <4>1, <4>2
    <3>2. CASE k \in 0..m
      <4>1. more[k] = f[k] /\ (k # 0 => more[k - 1] = f[k - 1])
        BY <2>1, <3>2
      <4>2. f[k] = IF k = 0 THEN 0 ELSE f[k - 1] + q[k].time
        BY <2>2, <3>2
      <4> HIDE DEF more
      <4> QED
        BY <4>1, <4>2
    <3> QED
      BY <2>1, <3>1, <3>2
  <2>4. Upto(m + 1, more)
    <3> DEFINE rhs == [k \in 0..m + 1 |->
                         IF k = 0 THEN 0 ELSE more[k - 1] + q[k].time]
    <3>1. \A k \in 0..m + 1 : more[k] = rhs[k]
      BY <2>3
    <3>2. more = [k \in 0..m + 1 |-> more[k]] /\ rhs = [k \in 0..m + 1 |-> rhs[k]]
      OBVIOUS
    <3>3. more = rhs
      <4> HIDE DEF more, rhs
      <4> QED
        BY <3>1, <3>2
    <3> QED
      BY <3>3
  <2> HIDE DEF more, Upto
  <2> QED
    BY <2>1, <2>4
<1>3. T = Nat
  <2> HIDE DEF T
  <2>1. T \subseteq Nat
    BY DEF T
  <2> QED
    BY <1>1, <1>2, <2>1, NatAll
<1> QED
  BY <1>3

LEMMA DueSums ==
  ASSUME NEW q \in Seq(Node)
  PROVE  /\ Due(q, 0) = 0
         /\ \A n \in 1..Len(q) : Due(q, n) = Due(q, n - 1) + q[n].time
<1> DEFINE F(f) == [k \in 0..Len(q) |-> IF k = 0 THEN 0 ELSE f[k-1] + q[k].time]
           s == CHOOSE f : f = F(f)
<1>1. s = F(s)
  <2>1. \E f : f = F(f)
    BY SumsExist, LenProperties
  <2> HIDE DEF F
  <2> QED
    BY <2>1
<1>2. \A n \in 0..Len(q) : Due(q, n) = s[n]
  BY DEF Due
<1>3. \A n \in 0..Len(q) : s[n] = IF n = 0 THEN 0 ELSE s[n-1] + q[n].time
  <2> HIDE DEF s
  <2> QED
    BY <1>1
<1>4. Len(q) \in Nat
  BY LenProperties
<1> HIDE DEF s
<1>5. ASSUME NEW n \in 1..Len(q)
      PROVE  Due(q, n) = Due(q, n - 1) + q[n].time
  <2>1. n \in 0..Len(q) /\ n - 1 \in 0..Len(q) /\ n # 0
    BY <1>4
  <2> QED
    BY <1>2, <1>3, <2>1
<1> QED
  BY <1>2, <1>3, <1>4, <1>5

(* Where two queues go on with the same offsets, their sums keep the       *)
(* difference.                                                             *)
LEMMA DueAgrees ==
  ASSUME NEW p \in Seq(Node), NEW q \in Seq(Node),
         NEW a \in 0..Len(p), NEW b \in 0..Len(q), NEW c \in Int,
         Due(q, b) \in Int, Due(p, a) = Due(q, b) + c,
         NEW n \in Nat, a + n <= Len(p), b + n <= Len(q),
         \A j \in 1..n : p[a + j].time = q[b + j].time
  PROVE  Due(q, b + n) \in Int /\ Due(p, a + n) = Due(q, b + n) + c
<1> DEFINE Ok(k) == k <= n => /\ Due(q, b + k) \in Int
                              /\ Due(p, a + k) = Due(q, b + k) + c
           T == {k \in Nat : Ok(k)}
<1>0. Len(p) \in Nat /\ Len(q) \in Nat
  BY LenProperties
<1>1. 0 \in T
  BY <1>0
<1>2. ASSUME NEW k \in T PROVE k + 1 \in T
  <2>1. k \in Nat /\ Ok(k)
    OBVIOUS
  <2>2. ASSUME k + 1 <= n
        PROVE  /\ Due(q, b + (k + 1)) \in Int
               /\ Due(p, a + (k + 1)) = Due(q, b + (k + 1)) + c
    <3> DEFINE i == a + (k + 1)  j == b + (k + 1)
    <3>1. i \in 1..Len(p) /\ j \in 1..Len(q) /\ i - 1 = a + k /\ j - 1 = b + k
      BY <1>0, <2>1, <2>2
    <3>2. p[i].time = q[j].time /\ q[j].time \in Int
      <4>1. k + 1 \in 1..n
        BY <2>1, <2>2
      <4>2. q[j] \in Node
        <5> HIDE DEF j, i
        <5> QED
          BY <3>1, ElementOfSeq
      <4> QED
        BY <4>1, <4>2 DEF Node
    <3>3. Due(p, a + k) = Due(q, b + k) + c /\ Due(q, b + k) \in Int
      BY <2>1, <2>2
    <3>4. /\ Due(p, i) = Due(p, a + k) + p[i].time
          /\ Due(q, j) = Due(q, b + k) + q[j].time
      <4> HIDE DEF i, j
      <4> QED
        BY <3>1, DueSums
    <3> DEFINE x == Due(q, b + k)  y == q[j].time
               u == Due(p, i)  v == Due(q, j)
    <3>5. u = (x + c) + y /\ v = x + y /\ x \in Int /\ y \in Int
      BY <3>2, <3>3, <3>4
    <3> HIDE DEF x, y, u, v
    <3>6. v \in Int /\ u = v + c
      BY <3>5
    <3> QED
      BY <3>6 DEF u, v
  <2> HIDE DEF Ok
  <2>3. Ok(k + 1)
    BY <2>2 DEF Ok
  <2> QED
    BY <2>1, <2>3
<1>3. T = Nat
  <2> HIDE DEF T
  <2>1. T \subseteq Nat
    BY DEF T
  <2> QED
    BY <1>1, <1>2, <2>1, NatAll
<1>4. Ok(n)
  <2> HIDE DEF Ok
  <2> QED
    BY <1>3
<1> QED
  BY <1>4

LEMMA DueTyped ==
  ASSUME NEW q \in Seq(Node), NEW n \in 0..Len(q)
  PROVE  Due(q, n) \in Int
<1>1. Len(q) \in Nat /\ Due(q, 0) = 0
  BY LenProperties, DueSums
<1>2. 0 \in 0..Len(q) /\ n \in Nat /\ 0 + n <= Len(q) /\ 0 + n = n
  BY <1>1
<1>3. 0 \in Int /\ Due(q, 0) \in Int /\ Due(q, 0) = Due(q, 0) + 0
  BY <1>1
<1>4. Due(q, 0 + n) \in Int
  BY <1>2, <1>3, DueAgrees
<1> QED
  BY <1>2, <1>4

-----------------------------------------------------------------------------
(* A node linked into a sequence, and one taken out.                       *)

LEMMA InsertAtIs ==
  ASSUME NEW S, NEW s \in Seq(S), NEW e \in S, NEW at \in 1..Len(s) + 1
  PROVE  LET r == InsertAt(s, at, e)
         IN  /\ r \in Seq(S) /\ Len(r) = Len(s) + 1
             /\ \A n \in 1..at - 1 : r[n] = s[n]
             /\ r[at] = e
             /\ \A n \in at..Len(s) : r[n + 1] = s[n]
<1> DEFINE a == SubSeq(s, 1, at - 1)  b == <<e>>  c == SubSeq(s, at, Len(s))
           ab == a \o b  r == ab \o c  l == Len(s)
<1>0. l \in Nat /\ at \in 1..l + 1
  BY LenProperties
<1>1. /\ a \in Seq(S) /\ Len(a) = at - 1
      /\ \A n \in 1..at - 1 : a[n] = s[n]
  <2>1. \A i \in 1..at - 1 : s[i] \in S
    BY <1>0, ElementOfSeq
  <2>2. 1 \in Int /\ at - 1 \in Int /\ (1 <= at - 1 => at - 1 - 1 + 1 = at - 1)
    BY <1>0
  <2>3. /\ a \in Seq(S) /\ Len(a) = IF 1 <= at - 1 THEN at - 1 - 1 + 1 ELSE 0
        /\ \A n \in 1..at - 1 - 1 + 1 : a[n] = s[1 + n - 1]
    BY <2>1, <2>2, SubSeqProperties
  <2> HIDE DEF a, l
  <2> QED
    BY <1>0, <2>3
<1>2. /\ c \in Seq(S) /\ Len(c) = l + 1 - at
      /\ \A n \in 1..l + 1 - at : c[n] = s[at + n - 1]
  <2>1. \A i \in at..Len(s) : s[i] \in S
    BY <1>0, ElementOfSeq
  <2>2. /\ c \in Seq(S) /\ Len(c) = IF at <= Len(s) THEN Len(s) - at + 1 ELSE 0
        /\ \A n \in 1..Len(s) - at + 1 : c[n] = s[at + n - 1]
    BY <1>0, <2>1, SubSeqProperties
  <2>3. Len(s) = l
    OBVIOUS
  <2> HIDE DEF c, l
  <2>4. l - at + 1 = l + 1 - at /\ (~(at <= l) => l + 1 - at = 0)
    BY <1>0
  <2> QED
    BY <2>2, <2>3, <2>4
<1>3. b \in Seq(S) /\ Len(b) = 1 /\ b[1] = e
  OBVIOUS
<1> HIDE DEF a, b, c, l
<1>4. /\ ab \in Seq(S) /\ Len(ab) = at
      /\ \A n \in 1..at - 1 : ab[n] = s[n]
      /\ ab[at] = e
  <2>1. /\ ab \in Seq(S) /\ Len(ab) = Len(a) + Len(b)
        /\ \A i \in 1..Len(a) + Len(b) :
             ab[i] = IF i <= Len(a) THEN a[i] ELSE b[i - Len(a)]
    BY <1>1, <1>3, ConcatProperties
  <2> HIDE DEF ab
  <2> QED
    BY <1>0, <1>1, <1>3, <2>1
<1> HIDE DEF ab
<1>5. /\ r \in Seq(S) /\ Len(r) = at + (l + 1 - at)
      /\ \A i \in 1..at + (l + 1 - at) :
           r[i] = IF i <= at THEN ab[i] ELSE c[i - at]
  <2>1. /\ r \in Seq(S) /\ Len(r) = Len(ab) + Len(c)
        /\ \A i \in 1..Len(ab) + Len(c) :
             r[i] = IF i <= Len(ab) THEN ab[i] ELSE c[i - Len(ab)]
    BY <1>2, <1>4, ConcatProperties
  <2> HIDE DEF r
  <2> QED
    BY <1>2, <1>4, <2>1
<1>6. r = InsertAt(s, at, e)
  BY DEF InsertAt, r, ab, a, b, c
<1> HIDE DEF r
<1>7. \A n \in at..l : r[n + 1] = s[n]
  <2> SUFFICES ASSUME NEW n \in at..l PROVE r[n + 1] = s[n]
    OBVIOUS
  <2>1. /\ n + 1 \in 1..at + (l + 1 - at) /\ ~(n + 1 <= at)
        /\ n + 1 - at \in 1..l + 1 - at /\ at + (n + 1 - at) - 1 = n
    BY <1>0
  <2> QED
    BY <1>2, <1>5, <2>1
<1>8. at + (l + 1 - at) = l + 1 /\ at \in 1..l + 1 /\ \A n \in 1..at - 1 : n \in 1..l + 1 /\ n <= at
  BY <1>0
<1>9. \A n \in 1..at - 1 : r[n] = s[n]
  BY <1>4, <1>5, <1>8
<1>10. r[at] = e
  BY <1>4, <1>5, <1>8, <1>0
<1> QED
  BY <1>5, <1>6, <1>7, <1>8, <1>9, <1>10 DEF l

LEMMA RemoveAtIs ==
  ASSUME NEW S, NEW s \in Seq(S), NEW at \in 1..Len(s)
  PROVE  LET r == RemoveAt(s, at)
         IN  /\ r \in Seq(S) /\ Len(r) = Len(s) - 1
             /\ \A n \in 1..at - 1 : r[n] = s[n]
             /\ \A n \in at..Len(s) - 1 : r[n] = s[n + 1]
<1> DEFINE a == SubSeq(s, 1, at - 1)  c == SubSeq(s, at + 1, Len(s))
           r == a \o c  l == Len(s)
<1>0. l \in Nat /\ at \in 1..l
  BY LenProperties
<1>1. /\ a \in Seq(S) /\ Len(a) = at - 1
      /\ \A n \in 1..at - 1 : a[n] = s[n]
  <2>1. \A i \in 1..at - 1 : s[i] \in S
    BY <1>0, ElementOfSeq
  <2>2. 1 \in Int /\ at - 1 \in Int /\ (1 <= at - 1 => at - 1 - 1 + 1 = at - 1)
    BY <1>0
  <2>3. /\ a \in Seq(S) /\ Len(a) = IF 1 <= at - 1 THEN at - 1 - 1 + 1 ELSE 0
        /\ \A n \in 1..at - 1 - 1 + 1 : a[n] = s[1 + n - 1]
    BY <2>1, <2>2, SubSeqProperties
  <2> HIDE DEF a, l
  <2> QED
    BY <1>0, <2>3
<1>2. /\ c \in Seq(S) /\ Len(c) = l - at
      /\ \A n \in 1..l - at : c[n] = s[at + n]
  <2>1. \A i \in at + 1..Len(s) : s[i] \in S
    BY <1>0, ElementOfSeq
  <2>2. at + 1 \in Int /\ Len(s) \in Int
    BY <1>0
  <2>3. /\ c \in Seq(S) /\ Len(c) = IF at + 1 <= Len(s) THEN Len(s) - (at + 1) + 1 ELSE 0
        /\ \A n \in 1..Len(s) - (at + 1) + 1 : c[n] = s[(at + 1) + n - 1]
    BY <2>1, <2>2, SubSeqProperties
  <2>4. Len(s) = l
    OBVIOUS
  <2> HIDE DEF c, l
  <2>5. /\ l - (at + 1) + 1 = l - at /\ (~(at + 1 <= l) => l - at = 0)
        /\ \A n \in 1..l - at : (at + 1) + n - 1 = at + n
    BY <1>0
  <2> QED
    BY <2>3, <2>4, <2>5
<1> HIDE DEF a, c, l
<1>3. /\ r \in Seq(S) /\ Len(r) = (at - 1) + (l - at)
      /\ \A i \in 1..(at - 1) + (l - at) :
           r[i] = IF i <= at - 1 THEN a[i] ELSE c[i - (at - 1)]
  <2>1. /\ r \in Seq(S) /\ Len(r) = Len(a) + Len(c)
        /\ \A i \in 1..Len(a) + Len(c) :
             r[i] = IF i <= Len(a) THEN a[i] ELSE c[i - Len(a)]
    BY <1>1, <1>2, ConcatProperties
  <2> HIDE DEF r
  <2> QED
    BY <1>1, <1>2, <2>1
<1>4. r = RemoveAt(s, at)
  BY DEF RemoveAt, r, a, c
<1> HIDE DEF r
<1>5. \A n \in at..l - 1 : r[n] = s[n + 1]
  <2> SUFFICES ASSUME NEW n \in at..l - 1 PROVE r[n] = s[n + 1]
    OBVIOUS
  <2>1. /\ n \in 1..(at - 1) + (l - at) /\ ~(n <= at - 1)
        /\ n - (at - 1) \in 1..l - at /\ at + (n - (at - 1)) = n + 1
    BY <1>0
  <2> QED
    BY <1>2, <1>3, <2>1
<1>6. (at - 1) + (l - at) = l - 1 /\ \A n \in 1..at - 1 : n \in 1..l - 1 /\ n <= at - 1
  BY <1>0
<1>7. \A n \in 1..at - 1 : r[n] = s[n]
  BY <1>1, <1>3, <1>6
<1> QED
  BY <1>3, <1>4, <1>5, <1>6, <1>7 DEF l

-----------------------------------------------------------------------------
(* timer_setTimer on the deadlines.                                        *)

(* What timer_setTimer does to the deadlines: those not later than the new *)
(* one stay where they are, the others move back by a place.               *)
Inserted(q, r, at, newId, delay) ==
  /\ r \in Seq(Node) /\ Len(r) = Len(q) + 1
  /\ \A n \in 1..at - 1 : Due(q, n) <= delay
  /\ at <= Len(q) => delay < Due(q, at)
  /\ r[at].id = newId /\ Due(r, at) = delay
  /\ \A n \in 1..at - 1 : r[n].id = q[n].id /\ Due(r, n) = Due(q, n)
  /\ \A n \in at..Len(q) : r[n + 1].id = q[n].id /\ Due(r, n + 1) = Due(q, n)

Linked(q, at, newId, delay) ==
  LET node == [id |-> newId, time |-> delay - Due(q, at - 1)]
      rest == IF at > Len(q) THEN q ELSE [q EXCEPT ![at].time = @ - node.time]
  IN  InsertAt(rest, at, node)

LEMMA LinkedIs ==
  ASSUME NEW q \in Seq(Node), NEW newId \in 1..MaxId, NEW delay \in Int,
         NEW at \in 1..Len(q) + 1,
         \A n \in 1..at - 1 : Due(q, n) <= delay,
         at <= Len(q) => delay < Due(q, at)
  PROVE  Inserted(q, Linked(q, at, newId, delay), at, newId, delay)
<1> DEFINE l == Len(q)  before == Due(q, at - 1)
           node == [id |-> newId, time |-> delay - before]
           rest == IF at > l THEN q ELSE [q EXCEPT ![at].time = @ - node.time]
           r == InsertAt(rest, at, node)
<1>0. l \in Nat /\ at \in 1..l + 1 /\ at - 1 \in 0..l
  BY LenProperties
<1>1. before \in Int
  BY <1>0, DueTyped
<1>2. node \in Node /\ node.id = newId /\ node.time = delay - before
  BY <1>1 DEF Node
<1>3. /\ rest \in Seq(Node) /\ Len(rest) = l
      /\ \A n \in 1..l : rest[n].id = q[n].id /\ (n # at => rest[n] = q[n])
      /\ at <= l => rest[at].time = q[at].time - (delay - before)
  <2>1. CASE at > l
    BY <1>0, <2>1
  <2>2. CASE ~(at > l)
    <3> DEFINE e == [q[at] EXCEPT !.time = @ - node.time]
    <3>1. at \in 1..l /\ at \in 1..Len(q)
      BY <1>0, <2>2
    <3>2. q[at] \in Node
      BY <3>1, ElementOfSeq
    <3>3. e \in Node /\ e.id = q[at].id /\ e.time = q[at].time - (delay - before)
      <4> DEFINE x == q[at]
      <4>1. x \in Node /\ e = [x EXCEPT !.time = x.time - (delay - before)]
        BY <3>2
      <4> HIDE DEF x, e, before
      <4>2. x = [id |-> x.id, time |-> x.time] /\ x.id \in 1..MaxId /\ x.time \in Int
        BY <4>1 DEF Node
      <4>3. e = [id |-> x.id, time |-> x.time - (delay - before)]
        BY <4>1, <4>2
      <4>4. e \in Node /\ e.id = x.id /\ e.time = x.time - (delay - before)
        BY <1>1, <4>2, <4>3 DEF Node
      <4> QED
        BY <4>4 DEF x
    <3>4. rest = [q EXCEPT ![at] = e]
      BY <2>2
    <3> HIDE DEF e, rest, node
    <3>5. /\ rest \in Seq(Node) /\ Len(rest) = Len(q)
          /\ \A n \in 1..Len(q) : rest[n] = IF n = at THEN e ELSE q[n]
      BY <3>1, <3>3, <3>4, ExceptSeq
    <3> QED
      BY <3>1, <3>3, <3>5
  <2> QED
    BY <2>1, <2>2
<1> HIDE DEF node, rest
<1>4. /\ r \in Seq(Node) /\ Len(r) = l + 1
      /\ \A n \in 1..at - 1 : r[n] = rest[n]
      /\ r[at] = node
      /\ \A n \in at..l : r[n + 1] = rest[n]
  <2>1. at \in 1..Len(rest) + 1
    BY <1>0, <1>3
  <2> HIDE DEF r
  <2> QED
    BY <1>2, <1>3, <2>1, InsertAtIs DEF r
<1>5. r = Linked(q, at, newId, delay)
  BY DEF Linked, r, rest, node
<1> HIDE DEF r, before
<1>6. \A n \in 1..at - 1 : r[n].id = q[n].id /\ r[n].time = q[n].time
  BY <1>0, <1>3, <1>4
<1>7. Len(q) = l /\ Len(r) = l + 1
  BY <1>4
<1>8. /\ Due(q, 0) = 0 /\ Due(r, 0) = 0
      /\ \A n \in 1..l : Due(q, n) = Due(q, n - 1) + q[n].time
      /\ \A n \in 1..l + 1 : Due(r, n) = Due(r, n - 1) + r[n].time
  BY <1>4, <1>7, DueSums
<1>9. ASSUME NEW n \in 0..at - 1 PROVE Due(r, n) = Due(q, n) /\ Due(q, n) \in Int
  <2>1. /\ 0 \in 0..Len(r) /\ 0 \in 0..Len(q) /\ 0 \in Int /\ n \in Nat
        /\ 0 + n <= Len(r) /\ 0 + n <= Len(q) /\ 0 + n = n
    BY <1>0, <1>4
  <2>2. Due(r, 0) = Due(q, 0) + 0 /\ Due(q, 0) \in Int
    BY <1>8
  <2>3. \A j \in 1..n : r[0 + j].time = q[0 + j].time
    BY <1>0, <1>6
  <2>4. Due(q, 0 + n) \in Int /\ Due(r, 0 + n) = Due(q, 0 + n) + 0
    <3>1. r \in Seq(Node)
      BY <1>4
    <3> QED
      BY <2>1, <2>2, <2>3, <3>1, DueAgrees, Zenon
  <2> QED
    BY <2>1, <2>4
<1>10. Due(r, at) = delay /\ r[at].id = newId
  <2>1. at \in 1..l + 1 /\ at - 1 \in 0..at - 1
    BY <1>0
  <2>2. Due(r, at) = before + (delay - before)
    BY <1>2, <1>4, <1>8, <1>9, <2>1 DEF before
  <2> QED
    BY <1>1, <1>2, <1>4, <2>2
<1>11. ASSUME NEW n \in at..l
       PROVE  r[n + 1].id = q[n].id /\ Due(r, n + 1) = Due(q, n)
  <2>0. at \in 1..l /\ n \in 1..l /\ at <= l
    BY <1>0
  <2>1. r[n + 1].id = q[n].id
    BY <1>3, <1>4, <2>0
  <2>2. q[at].time \in Int
    <3>1. q[at] \in Node
      BY <2>0, ElementOfSeq
    <3> QED
      BY <3>1 DEF Node
  <2>3. r[at + 1].time = q[at].time - (delay - before) /\ at \in at..l
    BY <1>3, <1>4, <2>0
  <2>4. /\ Due(r, at + 1) = Due(r, at) + r[at + 1].time
        /\ Due(q, at) = before + q[at].time
    <3>1. at + 1 \in 1..l + 1 /\ at + 1 - 1 = at
      BY <2>0
    <3> QED
      BY <1>8, <2>0, <3>1 DEF before
  <2>5. Due(r, at + 1) = Due(q, at) + 0 /\ Due(q, at) \in Int
    BY <1>1, <1>10, <2>2, <2>3, <2>4
  <2> DEFINE m == n - at  a == at + 1
  <2>6. /\ m \in Nat /\ a + m <= Len(r) /\ at + m <= Len(q)
        /\ a \in 0..Len(r) /\ at \in 0..Len(q) /\ 0 \in Int
    BY <1>7, <2>0
  <2>7. \A j \in 1..m : r[a + j].time = q[at + j].time
    <3> SUFFICES ASSUME NEW j \in 1..m PROVE r[a + j].time = q[at + j].time
      OBVIOUS
    <3>1. at + j \in at..l /\ at + j \in 1..l /\ (at + j) + 1 = a + j /\ at + j # at
      BY <2>0
    <3> QED
      BY <1>3, <1>4, <3>1
  <2>8. a + m = n + 1 /\ at + m = n
    BY <2>0
  <2>9. Due(r, a) = Due(q, at) + 0 /\ Due(q, at) \in Int
    BY <2>5
  <2>10. r \in Seq(Node)
    BY <1>4
  <2> HIDE DEF m, a
  <2>11. Due(q, at + m) \in Int /\ Due(r, a + m) = Due(q, at + m) + 0
    BY <2>6, <2>7, <2>9, <2>10, DueAgrees, Zenon
  <2> QED
    BY <2>1, <2>8, <2>11
<1>12. \A n \in 1..at - 1 : Due(r, n) = Due(q, n)
  BY <1>0, <1>9
<1>13. Inserted(q, r, at, newId, delay)
  BY <1>4, <1>6, <1>7, <1>10, <1>11, <1>12 DEF Inserted
<1> QED
  BY <1>5, <1>13

LEMMA InsertIs ==
  ASSUME NEW q \in Seq(Node), NEW newId \in 1..MaxId, NEW delay \in Int
  PROVE  \E at \in 1..Len(q) + 1 :
            Inserted(q, Insert(q, newId, delay), at, newId, delay)
<1> DEFINE later == {n \in 1..Len(q) : delay < Due(q, n)}
           at == IF \E n \in 1..Len(q) : delay < Due(q, n)
                 THEN CHOOSE n \in 1..Len(q) :
                        delay < Due(q, n) /\ \A m \in 1..n - 1 : ~(delay < Due(q, m))
                 ELSE Len(q) + 1
<1>0. Len(q) \in Nat /\ \A n \in 1..Len(q) : Due(q, n) \in Int
  BY LenProperties, DueTyped
<1>1. Insert(q, newId, delay) = Linked(q, at, newId, delay)
  BY DEF Insert, FirstIndex, Linked
<1>2. /\ at \in 1..Len(q) + 1
      /\ \A n \in 1..at - 1 : ~(delay < Due(q, n))
      /\ at <= Len(q) => delay < Due(q, at)
  <2>1. CASE \E n \in 1..Len(q) : delay < Due(q, n)
    <3>1. later # {} /\ later \subseteq Nat
      BY <2>1
    <3>2. PICK n \in later : \A m \in later : n <= m
      <4> HIDE DEF later
      <4> QED
        BY <3>1, NatMin
    <3>3. n \in 1..Len(q) /\ delay < Due(q, n) /\ \A m \in 1..n - 1 : ~(delay < Due(q, m))
      BY <1>0, <3>2
    <3>4. /\ at \in 1..Len(q) /\ delay < Due(q, at)
          /\ \A m \in 1..at - 1 : ~(delay < Due(q, m))
      BY <2>1, <3>3
    <3> HIDE DEF at
    <3> QED
      BY <1>0, <3>4
  <2>2. CASE ~\E n \in 1..Len(q) : delay < Due(q, n)
    <3>1. at = Len(q) + 1
      BY <2>2
    <3> HIDE DEF at
    <3> QED
      BY <1>0, <2>2, <3>1
  <2> QED
    BY <2>1, <2>2
<1> HIDE DEF at
<1>3. \A n \in 1..at - 1 : Due(q, n) <= delay
  BY <1>0, <1>2
<1> QED
  BY <1>1, <1>2, <1>3, LinkedIs

-----------------------------------------------------------------------------
(* timer_clearTimer and age_callout_queue on the deadlines.                *)

(* A queue from a place on keeps its deadlines, moved by c, where the      *)
(* offsets are the same.                                                   *)
LEMMA DueUpto ==
  ASSUME NEW p \in Seq(Node), NEW q \in Seq(Node),
         NEW n \in Nat, n <= Len(p), n <= Len(q),
         \A j \in 1..n : p[j].time = q[j].time
  PROVE  Due(p, n) = Due(q, n)
<1>1. /\ 0 \in 0..Len(p) /\ 0 \in 0..Len(q) /\ 0 \in Int
      /\ 0 + n <= Len(p) /\ 0 + n <= Len(q) /\ 0 + n = n
  BY LenProperties
<1>2. Due(p, 0) = Due(q, 0) + 0 /\ Due(q, 0) \in Int
  BY DueSums
<1>3. \A j \in 1..n : p[0 + j].time = q[0 + j].time
  OBVIOUS
<1>4. Due(q, 0 + n) \in Int /\ Due(p, 0 + n) = Due(q, 0 + n) + 0
  BY <1>1, <1>2, <1>3, DueAgrees, Zenon
<1> QED
  BY <1>1, <1>4

LEMMA DueBefore ==
  ASSUME NEW p \in Seq(Node), NEW q \in Seq(Node),
         NEW k \in Nat, k <= Len(p), k <= Len(q),
         \A j \in 1..k : p[j].time = q[j].time
  PROVE  \A n \in 0..k : Due(p, n) = Due(q, n)
<1> SUFFICES ASSUME NEW n \in 0..k PROVE Due(p, n) = Due(q, n)
  OBVIOUS
<1>1. /\ n \in Nat /\ n <= Len(p) /\ n <= Len(q)
      /\ \A j \in 1..n : p[j].time = q[j].time
  BY LenProperties
<1> QED
  BY <1>1, DueUpto

LEMMA DueAfter ==
  ASSUME NEW p \in Seq(Node), NEW q \in Seq(Node),
         NEW a \in 0..Len(p), NEW b \in 0..Len(q), NEW c \in Int,
         Due(p, a) = Due(q, b) + c, Len(p) - a = Len(q) - b,
         \A i \in 1..Len(p) : i > a => p[i].time = q[b - a + i].time
  PROVE  \A i \in a..Len(p) : Due(p, i) = Due(q, b - a + i) + c
<1> SUFFICES ASSUME NEW i \in a..Len(p) PROVE Due(p, i) = Due(q, b - a + i) + c
  OBVIOUS
<1> DEFINE n == i - a
<1>0. Len(p) \in Nat /\ Len(q) \in Nat
  BY LenProperties
<1>1. n \in Nat /\ a + n <= Len(p) /\ b + n <= Len(q)
  BY <1>0
<1>2. \A j \in 1..n : p[a + j].time = q[b + j].time
  <2> SUFFICES ASSUME NEW j \in 1..n PROVE p[a + j].time = q[b + j].time
    OBVIOUS
  <2>1. a + j \in 1..Len(p) /\ a + j > a /\ b - a + (a + j) = b + j
    BY <1>0
  <2> QED
    BY <2>1
<1>3. a + n = i /\ b + n = b - a + i
  BY <1>0
<1>4. Due(q, b) \in Int
  BY DueTyped
<1> HIDE DEF n
<1>5. Due(q, b + n) \in Int /\ Due(p, a + n) = Due(q, b + n) + c
  BY <1>1, <1>2, <1>4, DueAgrees, Zenon
<1> QED
  BY <1>3, <1>5

LEMMA WithTime ==
  ASSUME NEW q \in Seq(Node), NEW at \in 1..Len(q), NEW t \in Int
  PROVE  LET r == [q EXCEPT ![at].time = t]
         IN  /\ r \in Seq(Node) /\ Len(r) = Len(q)
             /\ \A n \in 1..Len(q) : r[n].id = q[n].id /\ (n # at => r[n] = q[n])
             /\ r[at].time = t
<1> DEFINE x == q[at]  e == [x EXCEPT !.time = t]  r == [q EXCEPT ![at] = e]
<1>1. x \in Node
  BY ElementOfSeq
<1>2. e \in Node /\ e.id = x.id /\ e.time = t
  <2> HIDE DEF x
  <2>1. x = [id |-> x.id, time |-> x.time] /\ x.id \in 1..MaxId /\ x.time \in Int
    BY <1>1 DEF Node
  <2>2. e = [id |-> x.id, time |-> t]
    BY <2>1
  <2> QED
    BY <2>1, <2>2 DEF Node
<1>3. r = [q EXCEPT ![at].time = t]
  OBVIOUS
<1> HIDE DEF e
<1>4. /\ r \in Seq(Node) /\ Len(r) = Len(q)
      /\ \A n \in 1..Len(q) : r[n] = IF n = at THEN e ELSE q[n]
  BY <1>2, ExceptSeq
<1> HIDE DEF r
<1>5. r[at] = e
  BY <1>4
<1>6. \A n \in 1..Len(q) : r[n].id = q[n].id /\ (n # at => r[n] = q[n])
  BY <1>2, <1>4
<1> QED
  BY <1>2, <1>3, <1>4, <1>5, <1>6

(* What timer_clearTimer does: the others keep their deadlines.            *)
Removed(q, r, at) ==
  /\ r \in Seq(Node) /\ Len(r) = Len(q) - 1
  /\ \A n \in 1..at - 1 : r[n].id = q[n].id /\ Due(r, n) = Due(q, n)
  /\ \A n \in at..Len(r) : r[n].id = q[n + 1].id /\ Due(r, n) = Due(q, n + 1)

Unlinked(q, at) ==
  LET bumped == IF at < Len(q) THEN [q EXCEPT ![at + 1].time = @ + q[at].time]
                               ELSE q
  IN  RemoveAt(bumped, at)

LEMMA UnlinkedIs ==
  ASSUME NEW q \in Seq(Node), NEW at \in 1..Len(q)
  PROVE  Removed(q, Unlinked(q, at), at)
<1> DEFINE l == Len(q)
           bumped == IF at < l THEN [q EXCEPT ![at + 1].time = @ + q[at].time]
                               ELSE q
           r == RemoveAt(bumped, at)
<1>0. l \in Nat /\ at \in 1..l /\ \A n \in 1..l : q[n].time \in Int
  <2>1. \A n \in 1..Len(q) : q[n] \in Node
    BY ElementOfSeq
  <2> QED
    BY <2>1, LenProperties DEF Node
<1>1. /\ bumped \in Seq(Node) /\ Len(bumped) = l
      /\ \A n \in 1..l : bumped[n].id = q[n].id /\ (n # at + 1 => bumped[n] = q[n])
      /\ at < l => bumped[at + 1].time = q[at + 1].time + q[at].time
  <2>1. CASE at < l
    <3> DEFINE t == q[at + 1].time + q[at].time
    <3>1. t \in Int /\ at + 1 \in 1..Len(q)
      BY <1>0, <2>1
    <3>2. bumped = [q EXCEPT ![at + 1].time = t]
      BY <2>1
    <3> HIDE DEF t, bumped
    <3>3. /\ bumped \in Seq(Node) /\ Len(bumped) = Len(q)
          /\ \A n \in 1..Len(q) : bumped[n].id = q[n].id /\ (n # at + 1 => bumped[n] = q[n])
          /\ bumped[at + 1].time = t
      BY <3>1, <3>2, WithTime
    <3> QED
      BY <3>3 DEF t
  <2>2. CASE ~(at < l)
    BY <1>0, <2>2
  <2> QED
    BY <2>1, <2>2
<1> HIDE DEF bumped
<1>2. /\ r \in Seq(Node) /\ Len(r) = l - 1
      /\ \A n \in 1..at - 1 : r[n] = bumped[n]
      /\ \A n \in at..l - 1 : r[n] = bumped[n + 1]
  <2>1. at \in 1..Len(bumped)
    BY <1>0, <1>1
  <2> HIDE DEF r
  <2> QED
    BY <1>1, <2>1, RemoveAtIs DEF r
<1>3. r = Unlinked(q, at)
  BY DEF Unlinked, r, bumped
<1> HIDE DEF r
<1>4. /\ \A n \in 1..at - 1 : r[n].id = q[n].id /\ r[n].time = q[n].time
      /\ \A n \in at..l - 1 : r[n].id = q[n + 1].id
      /\ \A n \in at + 1..l - 1 : r[n].time = q[n + 1].time
  <2>1. \A n \in 1..at - 1 : n \in 1..l /\ n # at + 1
    BY <1>0
  <2>2. \A n \in at..l - 1 : n + 1 \in 1..l
    BY <1>0
  <2>3. \A n \in at + 1..l - 1 : n + 1 \in 1..l /\ n + 1 # at + 1 /\ n \in at..l - 1
    BY <1>0
  <2> QED
    BY <1>1, <1>2, <2>1, <2>2, <2>3
<1>5. \A n \in 0..at - 1 : Due(r, n) = Due(q, n)
  <2>1. at - 1 \in Nat /\ at - 1 <= Len(r) /\ at - 1 <= Len(q)
    BY <1>0, <1>2
  <2>2. r \in Seq(Node) /\ \A j \in 1..at - 1 : r[j].time = q[j].time
    BY <1>2, <1>4
  <2> DEFINE k == at - 1
  <2> HIDE DEF k
  <2>3. \A n \in 0..k : Due(r, n) = Due(q, n)
    BY <2>1, <2>2, DueBefore DEF k
  <2> QED
    BY <2>3 DEF k
<1>6. ASSUME at < l
      PROVE  \A n \in at..l - 1 : Due(r, n) = Due(q, n + 1)
  <2>1. /\ at \in 1..Len(r) /\ at \in 1..Len(q) /\ at + 1 \in 1..Len(q)
        /\ at \in 0..Len(r) /\ at + 1 \in 0..Len(q) /\ at \in at..l - 1
        /\ at + 1 - 1 = at /\ Len(r) - at = Len(q) - (at + 1) /\ at - 1 \in 0..at - 1
    BY <1>0, <1>2, <1>6
  <2>2. r[at].time = q[at + 1].time + q[at].time
    BY <1>1, <1>2, <1>6, <2>1
  <2>3. /\ Due(r, at) = Due(r, at - 1) + r[at].time
        /\ Due(q, at) = Due(q, at - 1) + q[at].time
        /\ Due(q, at + 1) = Due(q, at) + q[at + 1].time
    <3>1. r \in Seq(Node)
      BY <1>2
    <3> QED
      BY <2>1, <3>1, DueSums
  <2>4. Due(q, at - 1) \in Int /\ Due(r, at - 1) = Due(q, at - 1)
    BY <1>0, <1>5, <2>1, DueTyped
  <2>5. Due(r, at) = Due(q, at + 1) + 0
    <3> DEFINE x == Due(q, at - 1)  y == q[at].time  z == q[at + 1].time
    <3>1. /\ Due(r, at) = x + (z + y) /\ Due(q, at + 1) = (x + y) + z
          /\ x \in Int /\ y \in Int /\ z \in Int
      BY <1>0, <2>1, <2>2, <2>3, <2>4
    <3> HIDE DEF x, y, z
    <3> QED
      BY <3>1
  <2> DEFINE b == at + 1
  <2>6. \A i \in 1..Len(r) : i > at => r[i].time = q[b - at + i].time
    <3> SUFFICES ASSUME NEW i \in 1..Len(r), i > at
                 PROVE  r[i].time = q[b - at + i].time
      OBVIOUS
    <3>1. i \in at + 1..l - 1 /\ b - at + i = i + 1
      BY <1>0, <1>2
    <3> QED
      BY <1>4, <3>1
  <2>7. b \in 0..Len(q) /\ Due(r, at) = Due(q, b) + 0 /\ Len(r) - at = Len(q) - b
    BY <2>1, <2>5
  <2> HIDE DEF b
  <2>8. \A i \in at..Len(r) : Due(r, i) = Due(q, b - at + i) + 0
    <3>1. r \in Seq(Node) /\ 0 \in Int /\ at \in 0..Len(r)
      BY <1>2, <2>1
    <3> QED
      BY <2>6, <2>7, <3>1, DueAfter, Zenon
  <2>9. ASSUME NEW i \in at..l - 1 PROVE Due(r, i) = Due(q, i + 1)
    <3>1. i \in at..Len(r) /\ b - at + i = i + 1 /\ i + 1 \in 0..Len(q)
      BY <1>0, <1>2 DEF b
    <3>2. Due(r, i) = Due(q, i + 1) + 0 /\ Due(q, i + 1) \in Int
      BY <2>8, <3>1, DueTyped
    <3> QED
      BY <3>2
  <2> QED
    BY <2>9
<1>7. /\ Len(r) = Len(q) - 1
      /\ \A n \in 1..at - 1 : r[n].id = q[n].id /\ Due(r, n) = Due(q, n)
      /\ \A n \in at..Len(r) : r[n].id = q[n + 1].id /\ Due(r, n) = Due(q, n + 1)
  BY <1>0, <1>2, <1>4, <1>5, <1>6
<1> QED
  BY <1>2, <1>3, <1>7 DEF Removed

LEMMA DeleteIs ==
  ASSUME NEW q \in Seq(Node), NEW oldId
  PROVE  \/ \E at \in 1..Len(q) : /\ q[at].id = oldId
                                  /\ Removed(q, Delete(q, oldId), at)
         \/ /\ Delete(q, oldId) = q
            /\ \A n \in 1..Len(q) : q[n].id # oldId
<1> DEFINE at == CHOOSE n \in 1..Len(q) :
                   q[n].id = oldId /\ \A m \in 1..n - 1 : ~(q[m].id = oldId)
           named == {n \in 1..Len(q) : q[n].id = oldId}
<1>1. CASE \E n \in 1..Len(q) : q[n].id = oldId
  <2>0. Len(q) \in Nat
    BY LenProperties
  <2>1. named # {} /\ named \subseteq Nat
    BY <1>1
  <2>2. PICK n \in named : \A m \in named : n <= m
    <3> HIDE DEF named
    <3> QED
      BY <2>1, NatMin
  <2>3. n \in 1..Len(q) /\ q[n].id = oldId /\ \A m \in 1..n - 1 : ~(q[m].id = oldId)
    BY <2>0, <2>2
  <2>4. at \in 1..Len(q) /\ q[at].id = oldId
    BY <2>3
  <2>5. Delete(q, oldId) = Unlinked(q, at)
    BY <1>1 DEF Delete, FirstIndex, Unlinked
  <2> HIDE DEF at
  <2> QED
    BY <2>4, <2>5, UnlinkedIs
<1>2. CASE ~\E n \in 1..Len(q) : q[n].id = oldId
  BY <1>2 DEF Delete
<1> QED
  BY <1>1, <1>2

(* What age_callout_queue does: the first k timers expire, the others are  *)
(* e nearer to their deadlines.                                            *)
Shortened(q, r, k, e) ==
  /\ r \in Seq(Node) /\ Len(r) = Len(q) - k
  /\ \A n \in 1..k : Due(q, n) <= e
  /\ k < Len(q) => Due(q, k + 1) > e
  /\ \A n \in 1..Len(r) : r[n].id = q[k + n].id /\ Due(r, n) = Due(q, k + n) - e

LEMMA PrefixIs ==
  ASSUME NEW q \in Seq(Node), NEW e \in Int
  PROVE  /\ ExpiredPrefix(q, e) \in 0..Len(q)
         /\ \A n \in 1..ExpiredPrefix(q, e) : Due(q, n) <= e
         /\ ExpiredPrefix(q, e) < Len(q) => Due(q, ExpiredPrefix(q, e) + 1) > e
<1> DEFINE left == {n \in 1..Len(q) : Due(q, n) > e}
           at == CHOOSE n \in 1..Len(q) :
                   Due(q, n) > e /\ \A m \in 1..n - 1 : ~(Due(q, m) > e)
           k == ExpiredPrefix(q, e)
<1>0. Len(q) \in Nat /\ \A n \in 1..Len(q) : Due(q, n) \in Int
  BY LenProperties, DueTyped
<1>1. CASE \E n \in 1..Len(q) : Due(q, n) > e
  <2>1. left # {} /\ left \subseteq Nat
    BY <1>1
  <2>2. PICK n \in left : \A m \in left : n <= m
    <3> HIDE DEF left
    <3> QED
      BY <2>1, NatMin
  <2>3. n \in 1..Len(q) /\ Due(q, n) > e /\ \A m \in 1..n - 1 : ~(Due(q, m) > e)
    BY <1>0, <2>2
  <2>4. at \in 1..Len(q) /\ Due(q, at) > e /\ \A m \in 1..at - 1 : ~(Due(q, m) > e)
    BY <2>3
  <2>5. k = at - 1
    BY <1>1 DEF ExpiredPrefix, FirstIndex
  <2> HIDE DEF at, k
  <2>6. k \in 0..Len(q) /\ k + 1 = at /\ \A n_1 \in 1..k : n_1 \in 1..Len(q)
    BY <1>0, <2>4, <2>5
  <2>7. \A m \in 1..k : Due(q, m) <= e
    BY <1>0, <2>4, <2>5, <2>6
  <2> QED
    BY <2>4, <2>6, <2>7 DEF k
<1>2. CASE ~\E n \in 1..Len(q) : Due(q, n) > e
  <2>1. k = Len(q)
    BY <1>2 DEF ExpiredPrefix
  <2> HIDE DEF k
  <2> QED
    BY <1>0, <1>2, <2>1 DEF k
<1> QED
  BY <1>1, <1>2

LEMMA AgedIs ==
  ASSUME NEW q \in Seq(Node), NEW e \in Int
  PROVE  Shortened(q, Aged(q, e), ExpiredPrefix(q, e), e)
<1> DEFINE k == ExpiredPrefix(q, e)  l == Len(q)
           rest == SubSeq(q, k + 1, Len(q))
           r == Aged(q, e)  off == rest[1].time - (e - Due(q, k))
<1>0. /\ l \in Nat /\ k \in 0..l
      /\ \A n \in 1..k : Due(q, n) <= e
      /\ k < l => Due(q, k + 1) > e
  BY PrefixIs, LenProperties
<1>1. r = IF rest = << >> THEN rest ELSE [rest EXCEPT ![1].time = off]
  BY DEF Aged
<1>2. /\ rest \in Seq(Node) /\ Len(rest) = l - k
      /\ \A n \in 1..l - k : rest[n] = q[k + n]
  <2>1. \A i \in k + 1..Len(q) : q[i] \in Node
    BY <1>0, ElementOfSeq
  <2>2. k + 1 \in Int /\ Len(q) \in Int
    BY <1>0
  <2> HIDE DEF k
  <2>3. /\ rest \in Seq(Node)
        /\ Len(rest) = IF k + 1 <= Len(q) THEN Len(q) - (k + 1) + 1 ELSE 0
        /\ \A n \in 1..Len(q) - (k + 1) + 1 : rest[n] = q[(k + 1) + n - 1]
    BY <2>1, <2>2, SubSeqProperties
  <2>4. Len(q) = l
    OBVIOUS
  <2> HIDE DEF rest, l
  <2>5. /\ l - (k + 1) + 1 = l - k /\ (~(k + 1 <= l) => l - k = 0)
        /\ \A n \in 1..l - k : (k + 1) + n - 1 = k + n
    BY <1>0
  <2> QED
    BY <2>3, <2>4, <2>5
<1>3. Due(q, k) \in Int
  BY <1>0, DueTyped
<1> HIDE DEF k, r, rest
<1>4. CASE k = l
  <2>1. rest = << >>
    BY <1>0, <1>2, <1>4, EmptySeq
  <2>2. r = << >>
    BY <1>1, <2>1
  <2>3. r \in Seq(Node) /\ Len(r) = 0
    BY <2>2, EmptySeq
  <2>4. Len(q) - k = 0 /\ ~(k < Len(q))
    BY <1>0, <1>4
  <2> QED
    BY <1>0, <2>3, <2>4 DEF Shortened, k, r
<1>5. CASE k < l
  <2>1. /\ rest # << >> /\ 1 \in 1..Len(rest) /\ k + 1 \in 1..Len(q) /\ 1 \in 1..l - k
        /\ k + 1 - 1 = k
    <3>1. Len(rest) >= 1
      BY <1>0, <1>2, <1>5
    <3>2. rest # << >>
      BY <3>1, EmptySeq
    <3> QED
      BY <1>0, <1>2, <1>5, <3>1, <3>2
  <2>2. rest[1] = q[k + 1]
    BY <1>2, <2>1
  <2>3. q[k + 1].time \in Int
    <3>1. q[k + 1] \in Node
      BY <2>1, ElementOfSeq
    <3> QED
      BY <3>1 DEF Node
  <2>4. off \in Int
    BY <1>3, <2>2, <2>3
  <2>5. r = [rest EXCEPT ![1].time = off]
    BY <1>1, <2>1
  <2> HIDE DEF off
  <2>6. /\ r \in Seq(Node) /\ Len(r) = Len(rest)
        /\ \A n \in 1..Len(rest) : r[n].id = rest[n].id /\ (n # 1 => r[n] = rest[n])
        /\ r[1].time = off
    BY <1>2, <2>1, <2>4, <2>5, WithTime
  <2>7. Len(r) = l - k /\ Len(r) = Len(q) - k /\ Len(r) \in Nat
    BY <1>0, <1>2, <2>6
  <2>8. \A n \in 1..Len(r) : r[n].id = q[k + n].id /\ (n # 1 => r[n].time = q[k + n].time)
    BY <1>2, <2>6, <2>7
  <2>9. Due(r, 1) = Due(q, k + 1) - e
    <3>1. Due(r, 0) = 0 /\ Due(r, 1) = Due(r, 0) + r[1].time
      <4>1. 1 \in 1..Len(r) /\ 1 - 1 = 0
        BY <2>1, <2>7, <1>2
      <4> QED
        BY <2>6, <4>1, DueSums
    <3>2. Due(q, k + 1) = Due(q, k) + q[k + 1].time
      <4> DEFINE j == k + 1
      <4>1. j \in 1..Len(q) /\ j - 1 = k
        BY <1>0, <2>1
      <4> HIDE DEF j
      <4>2. Due(q, j) = Due(q, k) + q[j].time
        BY <4>1, DueSums
      <4> QED
        BY <4>2 DEF j
    <3> DEFINE x == q[k + 1].time  y == Due(q, k)
    <3>3. /\ Due(r, 1) = 0 + (x - (e - y)) /\ Due(q, k + 1) = y + x
          /\ x \in Int /\ y \in Int
      BY <1>3, <2>2, <2>3, <2>6, <3>1, <3>2 DEF off
    <3> HIDE DEF x, y
    <3> QED
      BY <3>3
  <2> DEFINE b == k + 1  c == 0 - e
  <2>10. /\ 1 \in 0..Len(r) /\ b \in 0..Len(q) /\ c \in Int
         /\ Due(r, 1) = Due(q, b) + c /\ Len(r) - 1 = Len(q) - b
    <3>1. Due(q, b) \in Int
      BY <2>1, DueTyped
    <3> QED
      BY <1>0, <1>5, <2>7, <2>9, <3>1
  <2>11. \A i \in 1..Len(r) : i > 1 => r[i].time = q[b - 1 + i].time
    <3>1. b - 1 = k
      BY <1>0
    <3> HIDE DEF b
    <3> QED
      BY <2>8, <3>1
  <2> HIDE DEF b, c
  <2>12. \A i \in 1..Len(r) : Due(r, i) = Due(q, b - 1 + i) + c
    <3>1. r \in Seq(Node)
      BY <2>6
    <3> QED
      BY <2>10, <2>11, <3>1, DueAfter, Zenon
  <2>13. \A i \in 1..Len(r) : Due(r, i) = Due(q, k + i) - e
    <3> SUFFICES ASSUME NEW i \in 1..Len(r) PROVE Due(r, i) = Due(q, k + i) - e
      OBVIOUS
    <3>1. b - 1 + i = k + i /\ k + i \in 0..Len(q) /\ c = 0 - e
      BY <1>0, <2>7 DEF b, c
    <3>2. Due(r, i) = Due(q, k + i) + c /\ Due(q, k + i) \in Int
      BY <2>12, <3>1, DueTyped
    <3> QED
      BY <3>1, <3>2
  <2> QED
    BY <1>0, <2>6, <2>7, <2>8, <2>13 DEF Shortened, k, r
<1> QED
  BY <1>0, <1>4, <1>5

-----------------------------------------------------------------------------
(* The order of the deadlines, and the time each timer has left.           *)

(* The queue is in the order of the deadlines, and the timers of one       *)
(* deadline in the order they were set; no identifier is there twice.      *)
Before(q, m, n) ==
  \/ Due(q, m) < Due(q, n)
  \/ Due(q, m) = Due(q, n) /\ q[m].id < q[n].id

Sorted(q, last) ==
  /\ q \in Seq(Node)
  /\ \A n \in 1..Len(q) : q[n].id \in 1..last
  /\ \A m, n \in 1..Len(q) : m < n => q[m].id # q[n].id /\ Before(q, m, n)

LeftOf(q) == [i \in TimersIn(q) |-> timer_leftTimer(q, i)]

(* What the operations of Timers make of the time left.                    *)
WithSet(left, i, delay) ==
  [j \in DOMAIN left \union {i} |-> IF j = i THEN delay ELSE left[j]]

Without(left, i) == [j \in DOMAIN left \ {i} |-> left[j]]

Up(left, e) == {i \in DOMAIN left : left[i] <= e}

LaterBy(left, e) == [i \in DOMAIN left \ Up(left, e) |-> left[i] - e]

LEMMA LeftIs ==
  ASSUME NEW last \in Nat, NEW q, Sorted(q, last)
  PROVE  /\ DOMAIN LeftOf(q) = TimersIn(q)
         /\ \A n \in 1..Len(q) : /\ q[n].id \in TimersIn(q)
                                 /\ LeftOf(q)[q[n].id] = Due(q, n)
<1>0. Len(q) \in Nat
  BY LenProperties DEF Sorted
<1> SUFFICES ASSUME NEW n \in 1..Len(q)
             PROVE  /\ q[n].id \in TimersIn(q)
                    /\ LeftOf(q)[q[n].id] = Due(q, n)
  BY DEF LeftOf
<1>1. q[n].id \in TimersIn(q)
  BY DEF TimersIn
<1>2. \A m \in 1..Len(q) : q[m].id = q[n].id => m = n
  BY <1>0 DEF Sorted
<1>3. (CHOOSE m \in 1..Len(q) : q[m].id = q[n].id) = n
  BY <1>2
<1>4. timer_leftTimer(q, q[n].id) = Due(q, n)
  BY <1>3 DEF timer_leftTimer
<1> QED
  BY <1>1, <1>4 DEF LeftOf

LEMMA SetKeeps ==
  ASSUME NEW last \in Nat, last < MaxId, NEW q, Sorted(q, last), NEW delay \in Int
  PROVE  LET r == Insert(q, last + 1, delay)
         IN  /\ Sorted(r, last + 1)
             /\ LeftOf(r) = WithSet(LeftOf(q), last + 1, delay)
<1> DEFINE new == last + 1  r == Insert(q, new, delay)
<1>0. new \in 1..MaxId /\ MaxId \in Nat /\ q \in Seq(Node)
  BY CalloutAssumption DEF Sorted
<1>1. PICK at \in 1..Len(q) + 1 : Inserted(q, r, at, new, delay)
  <2> HIDE DEF new
  <2> QED
    BY <1>0, InsertIs
<1> DEFINE old(n) == IF n < at THEN n ELSE n - 1
<1> HIDE DEF new, r
<1>2. Len(q) \in Nat /\ Len(r) = Len(q) + 1 /\ r \in Seq(Node)
  BY <1>0, <1>1, LenProperties DEF Inserted
<1>3. r[at].id = new /\ Due(r, at) = delay
  BY <1>1 DEF Inserted
<1>4. \A n \in 1..Len(r) : n # at =>
        /\ old(n) \in 1..Len(q)
        /\ r[n].id = q[old(n)].id /\ Due(r, n) = Due(q, old(n))
  <2> SUFFICES ASSUME NEW n \in 1..Len(r), n # at
               PROVE  /\ old(n) \in 1..Len(q)
                      /\ r[n].id = q[old(n)].id /\ Due(r, n) = Due(q, old(n))
    OBVIOUS
  <2>1. CASE n < at
    <3>1. n \in 1..at - 1 /\ n \in 1..Len(q)
      BY <1>2, <2>1
    <3> QED
      BY <1>1, <2>1, <3>1 DEF Inserted
  <2>2. CASE ~(n < at)
    <3> DEFINE m == n - 1
    <3>1. m \in at..Len(q) /\ m \in 1..Len(q) /\ n = m + 1 /\ old(n) = m
      BY <1>2, <2>2
    <3> HIDE DEF m
    <3>2. r[m + 1].id = q[m].id /\ Due(r, m + 1) = Due(q, m)
      BY <1>1, <3>1 DEF Inserted
    <3> QED
      BY <3>1, <3>2
  <2> QED
    BY <2>1, <2>2
<1>5. \A n \in 1..Len(q) : /\ Due(q, n) \in Int
                           /\ n < at => Due(q, n) <= delay
                           /\ n >= at => delay < Due(q, n)
  <2> SUFFICES ASSUME NEW n \in 1..Len(q)
               PROVE  /\ Due(q, n) \in Int
                      /\ n < at => Due(q, n) <= delay
                      /\ n >= at => delay < Due(q, n)
    OBVIOUS
  <2>1. Due(q, n) \in Int
    BY <1>0, <1>2, DueTyped
  <2>2. n < at => n \in 1..at - 1
    BY <1>2
  <2>3. n >= at => at \in 1..Len(q) /\ at <= Len(q)
    BY <1>2
  <2>4. n > at => Due(q, at) <= Due(q, n)
    <3>1. at \in 1..Len(q) => Due(q, at) \in Int
      BY <1>0, <1>2, DueTyped
    <3> QED
      BY <2>1, <2>3, <3>1 DEF Sorted, Before
  <2>5. at \in 1..Len(q) => Due(q, at) \in Int
    BY <1>0, <1>2, DueTyped
  <2> QED
    BY <1>1, <2>1, <2>2, <2>3, <2>4, <2>5 DEF Inserted
<1>6. \A n \in 1..Len(q) : q[n].id \in 1..last /\ q[n].id < new
  BY DEF Sorted, new
<1>7. \A n \in 1..Len(r) : r[n].id \in 1..new
  <2> SUFFICES ASSUME NEW n \in 1..Len(r) PROVE r[n].id \in 1..new
    OBVIOUS
  <2>1. CASE n = at
    BY <1>0, <1>3, <2>1
  <2>2. CASE n # at
    <3> HIDE DEF old
    <3> QED
      BY <1>4, <1>6, <2>2 DEF new
  <2> QED
    BY <2>1, <2>2
<1>8. ASSUME NEW m \in 1..Len(r), NEW n \in 1..Len(r), m < n
      PROVE  r[m].id # r[n].id /\ Before(r, m, n)
  <2>0. new \in Int /\ delay \in Int
    BY DEF new
  <2>1. CASE m = at
    <3>1. n # at /\ old(n) >= at
      BY <1>2, <1>8, <2>1
    <3> HIDE DEF old
    <3>2. /\ r[n].id < new /\ delay < Due(r, n)
          /\ r[n].id \in Int /\ Due(r, n) \in Int
      <4> DEFINE o == old(n)
      <4>1. /\ o \in 1..Len(q) /\ o >= at
            /\ r[n].id = q[o].id /\ Due(r, n) = Due(q, o)
        BY <1>4, <3>1
      <4> HIDE DEF o
      <4>2. /\ Due(q, o) \in Int /\ delay < Due(q, o)
            /\ q[o].id < new /\ q[o].id \in Int
        BY <1>5, <1>6, <4>1
      <4> QED
        BY <4>1, <4>2
    <3> QED
      BY <1>3, <2>0, <2>1, <3>2 DEF Before
  <2>2. CASE n = at
    <3>1. m # at /\ old(m) < at
      BY <1>2, <1>8, <2>2
    <3> HIDE DEF old
    <3>2. /\ r[m].id < new /\ Due(r, m) <= delay
          /\ r[m].id \in Int /\ Due(r, m) \in Int
      BY <1>4, <1>5, <1>6, <3>1
    <3> QED
      BY <1>3, <2>0, <2>2, <3>2 DEF Before
  <2>3. CASE m # at /\ n # at
    <3>1. old(m) < old(n) /\ old(m) \in 1..Len(q) /\ old(n) \in 1..Len(q)
      BY <1>2, <1>8, <2>3
    <3> HIDE DEF old
    <3>2. q[old(m)].id # q[old(n)].id /\ Before(q, old(m), old(n))
      BY <3>1 DEF Sorted
    <3>3. /\ r[m].id = q[old(m)].id /\ Due(r, m) = Due(q, old(m))
          /\ r[n].id = q[old(n)].id /\ Due(r, n) = Due(q, old(n))
      BY <1>4, <2>3
    <3> QED
      BY <3>2, <3>3 DEF Before
  <2> QED
    BY <2>1, <2>2, <2>3
<1>9. Sorted(r, new)
  BY <1>2, <1>7, <1>8 DEF Sorted
<1>10. TimersIn(r) = TimersIn(q) \union {new}
  <2>1. ASSUME NEW n \in 1..Len(r) PROVE r[n].id \in TimersIn(q) \union {new}
    <3> HIDE DEF old
    <3> QED
      BY <1>3, <1>4 DEF TimersIn
  <2>2. ASSUME NEW n \in 1..Len(q) PROVE q[n].id \in TimersIn(r)
    <3> DEFINE at2 == IF n < at THEN n ELSE n + 1
    <3>1. at2 \in 1..Len(r) /\ at2 # at /\ old(at2) = n
      BY <1>2
    <3> HIDE DEF old, at2
    <3> QED
      BY <1>4, <3>1 DEF TimersIn
  <2>3. new \in TimersIn(r)
    BY <1>2, <1>3 DEF TimersIn
  <2> QED
    BY <2>1, <2>2, <2>3 DEF TimersIn
<1>11. ASSUME NEW i \in TimersIn(r)
       PROVE  LeftOf(r)[i] = IF i = new THEN delay ELSE LeftOf(q)[i]
  <2>1. PICK n \in 1..Len(r) : i = r[n].id
    BY DEF TimersIn
  <2>2. LeftOf(r)[i] = Due(r, n)
    <3>1. new \in Nat
      BY DEF new
    <3> QED
      BY <1>9, <2>1, <3>1, LeftIs
  <2>3. CASE n = at
    BY <1>3, <2>1, <2>2, <2>3
  <2>4. CASE n # at
    <3> HIDE DEF old
    <3>1. i # new /\ i = q[old(n)].id /\ Due(r, n) = Due(q, old(n)) /\ old(n) \in 1..Len(q)
      BY <1>0, <1>4, <1>6, <2>1, <2>4
    <3>2. LeftOf(q)[i] = Due(q, old(n))
      BY <3>1, LeftIs
    <3> QED
      BY <2>2, <3>1, <3>2
  <2> QED
    BY <2>3, <2>4
<1>12. LeftOf(r) = [i \in TimersIn(q) \union {new} |->
                      IF i = new THEN delay ELSE LeftOf(q)[i]]
  <2>1. LeftOf(r) = [i \in TimersIn(r) |-> LeftOf(r)[i]]
    BY DEF LeftOf
  <2> QED
    BY <1>10, <1>11, <2>1
<1>13. LeftOf(r) = WithSet(LeftOf(q), new, delay)
  BY <1>12, LeftIs DEF WithSet
<1> QED
  BY <1>9, <1>13 DEF r, new

LEMMA ClearKeeps ==
  ASSUME NEW last \in Nat, NEW q, Sorted(q, last), NEW i
  PROVE  LET r == Delete(q, i)
         IN  /\ Sorted(r, last)
             /\ LeftOf(r) = Without(LeftOf(q), i)
<1> DEFINE r == Delete(q, i)
<1>0. q \in Seq(Node) /\ Len(q) \in Nat
  BY LenProperties DEF Sorted
<1>1. ASSUME r = q, \A n \in 1..Len(q) : q[n].id # i
      PROVE  /\ Sorted(r, last)
             /\ LeftOf(r) = [j \in TimersIn(q) \ {i} |-> LeftOf(q)[j]]
  <2>1. TimersIn(q) \ {i} = TimersIn(q)
    BY <1>1 DEF TimersIn
  <2>2. LeftOf(q) = [j \in TimersIn(q) |-> LeftOf(q)[j]]
    BY DEF LeftOf
  <2> HIDE DEF r
  <2> QED
    BY <1>1, <2>1, <2>2 DEF r
<1>2. ASSUME NEW at \in 1..Len(q), q[at].id = i, Removed(q, r, at)
      PROVE  /\ Sorted(r, last)
             /\ LeftOf(r) = [j \in TimersIn(q) \ {i} |-> LeftOf(q)[j]]
  <2> DEFINE old(n) == IF n < at THEN n ELSE n + 1
  <2> HIDE DEF r
  <2>1. r \in Seq(Node) /\ Len(r) = Len(q) - 1
    BY <1>2 DEF Removed
  <2>2. \A n \in 1..Len(r) : /\ old(n) \in 1..Len(q) /\ old(n) # at
                             /\ r[n].id = q[old(n)].id /\ Due(r, n) = Due(q, old(n))
    <3> SUFFICES ASSUME NEW n \in 1..Len(r)
                 PROVE  /\ old(n) \in 1..Len(q) /\ old(n) # at
                        /\ r[n].id = q[old(n)].id /\ Due(r, n) = Due(q, old(n))
      OBVIOUS
    <3>1. CASE n < at
      <4>1. n \in 1..at - 1 /\ n \in 1..Len(q) /\ n # at
        BY <1>0, <2>1, <3>1
      <4> QED
        BY <1>2, <3>1, <4>1 DEF Removed
    <3>2. CASE ~(n < at)
      <4>1. n \in at..Len(r) /\ n + 1 \in 1..Len(q) /\ n + 1 # at
        BY <1>0, <2>1, <3>2
      <4> QED
        BY <1>2, <3>2, <4>1 DEF Removed
    <3> QED
      BY <3>1, <3>2
  <2>3. ASSUME NEW m \in 1..Len(r), NEW n \in 1..Len(r), m < n
        PROVE  r[m].id # r[n].id /\ Before(r, m, n)
    <3>1. old(m) < old(n) /\ old(m) \in 1..Len(q) /\ old(n) \in 1..Len(q)
      BY <1>0, <2>1, <2>3
    <3> HIDE DEF old
    <3>2. q[old(m)].id # q[old(n)].id /\ Before(q, old(m), old(n))
      BY <3>1 DEF Sorted
    <3> QED
      BY <2>2, <3>2 DEF Before
  <2>4. Sorted(r, last)
    <3> HIDE DEF old
    <3>1. \A n \in 1..Len(r) : r[n].id \in 1..last
      BY <2>2 DEF Sorted
    <3> QED
      BY <2>1, <2>3, <3>1 DEF Sorted
  <2>5. TimersIn(r) = TimersIn(q) \ {i}
    <3>1. ASSUME NEW n \in 1..Len(r) PROVE r[n].id \in TimersIn(q) \ {i}
      <4> HIDE DEF old
      <4>1. q[old(n)].id # q[at].id
        BY <1>0, <2>2 DEF Sorted
      <4> QED
        BY <1>2, <2>2, <4>1 DEF TimersIn
    <3>2. ASSUME NEW n \in 1..Len(q), q[n].id # i PROVE q[n].id \in TimersIn(r)
      <4> DEFINE new == IF n < at THEN n ELSE n - 1
      <4>1. new \in 1..Len(r) /\ old(new) = n
        BY <1>0, <1>2, <2>1, <3>2
      <4> HIDE DEF old, new
      <4> QED
        BY <2>2, <4>1 DEF TimersIn
    <3> QED
      BY <3>1, <3>2 DEF TimersIn
  <2>6. ASSUME NEW j \in TimersIn(r) PROVE LeftOf(r)[j] = LeftOf(q)[j]
    <3>1. PICK n \in 1..Len(r) : j = r[n].id
      BY DEF TimersIn
    <3> HIDE DEF old
    <3>2. LeftOf(r)[j] = Due(r, n)
      BY <2>4, <3>1, LeftIs
    <3>3. LeftOf(q)[j] = Due(q, old(n))
      BY <2>2, <3>1, LeftIs
    <3> QED
      BY <2>2, <3>2, <3>3
  <2>7. LeftOf(r) = [j \in TimersIn(r) |-> LeftOf(r)[j]]
    BY DEF LeftOf
  <2> QED
    BY <2>4, <2>5, <2>6, <2>7
<1>3. \/ \E at \in 1..Len(q) : q[at].id = i /\ Removed(q, r, at)
      \/ r = q /\ \A n \in 1..Len(q) : q[n].id # i
  BY <1>0, DeleteIs
<1> HIDE DEF r
<1>4. Without(LeftOf(q), i) = [j \in TimersIn(q) \ {i} |-> LeftOf(q)[j]]
  BY LeftIs DEF Without
<1> QED
  BY <1>1, <1>2, <1>3, <1>4 DEF r

-----------------------------------------------------------------------------
(* The batch that expires.                                                 *)

Batch(q, e) == [n \in 1..ExpiredPrefix(q, e) |-> q[n].id]

Ahead(left, i, j) == left[i] < left[j] \/ (left[i] = left[j] /\ i < j)

LEMMA ElapseKeeps ==
  ASSUME NEW last \in Nat, NEW q, Sorted(q, last), NEW e \in Int
  PROVE  /\ Sorted(Aged(q, e), last)
         /\ LeftOf(Aged(q, e)) = LaterBy(LeftOf(q), e)
         /\ Batch(q, e) \in Seq(Up(LeftOf(q), e))
         /\ \A i \in Up(LeftOf(q), e) : \E n \in 1..Len(Batch(q, e)) : Batch(q, e)[n] = i
         /\ \A m, n \in 1..Len(Batch(q, e)) : m < n =>
              Ahead(LeftOf(q), Batch(q, e)[m], Batch(q, e)[n])
<1> DEFINE r == Aged(q, e)  k == ExpiredPrefix(q, e)
           up == {i \in TimersIn(q) : LeftOf(q)[i] <= e}
           batch == [n \in 1..k |-> q[n].id]
<1>0. q \in Seq(Node) /\ Len(q) \in Nat
  BY LenProperties DEF Sorted
<1>1. Shortened(q, r, k, e)
  BY <1>0, AgedIs
<1>2. k \in 0..Len(q) /\ \A n \in 1..k : n \in 1..Len(q)
  <2>1. k \in 0..Len(q)
    BY <1>0, PrefixIs
  <2> HIDE DEF k
  <2> QED
    BY <1>0, <2>1
<1> HIDE DEF r, k
<1>3. \A n \in 1..Len(q) : /\ Due(q, n) \in Int
                           /\ n <= k => Due(q, n) <= e
                           /\ n > k => Due(q, n) > e
  <2> SUFFICES ASSUME NEW n \in 1..Len(q)
               PROVE  /\ Due(q, n) \in Int
                      /\ n <= k => Due(q, n) <= e
                      /\ n > k => Due(q, n) > e
    OBVIOUS
  <2>1. Due(q, n) \in Int
    BY <1>0, DueTyped
  <2>2. n <= k => n \in 1..k
    BY <1>0, <1>2
  <2> DEFINE j == k + 1
  <2>3. n > k => j \in 1..Len(q) /\ k < Len(q) /\ (j = n \/ j < n)
    BY <1>0, <1>2
  <2>4. k < Len(q) => Due(q, j) > e
    BY <1>1 DEF Shortened
  <2> HIDE DEF j
  <2>5. j \in 1..Len(q) => Due(q, j) \in Int
    BY <1>0, DueTyped
  <2>6. j \in 1..Len(q) /\ j < n => Due(q, j) <= Due(q, n)
    BY <2>1, <2>5 DEF Sorted, Before
  <2>7. n > k => Due(q, n) > e
    BY <2>1, <2>3, <2>4, <2>5, <2>6
  <2> QED
    BY <1>1, <2>1, <2>2, <2>7 DEF Shortened
<1>4. \A n \in 1..Len(q) : /\ q[n].id \in TimersIn(q)
                           /\ LeftOf(q)[q[n].id] = Due(q, n)
  BY LeftIs
<1>5. /\ r \in Seq(Node) /\ Len(r) = Len(q) - k
      /\ \A n \in 1..Len(r) : /\ k + n \in 1..Len(q) /\ k + n > k
                              /\ r[n].id = q[k + n].id
                              /\ Due(r, n) = Due(q, k + n) - e
  BY <1>0, <1>1, <1>2 DEF Shortened
<1>6. ASSUME NEW m \in 1..Len(r), NEW n \in 1..Len(r), m < n
      PROVE  r[m].id # r[n].id /\ Before(r, m, n)
  <2> DEFINE a == k + m  b == k + n
  <2>1. a \in 1..Len(q) /\ b \in 1..Len(q) /\ a < b
    BY <1>2, <1>5, <1>6
  <2>2. /\ r[m].id = q[a].id /\ Due(r, m) = Due(q, a) - e
        /\ r[n].id = q[b].id /\ Due(r, n) = Due(q, b) - e
    BY <1>5
  <2> HIDE DEF a, b
  <2>3. q[a].id # q[b].id /\ Before(q, a, b)
    BY <2>1 DEF Sorted
  <2>4. Due(q, a) \in Int /\ Due(q, b) \in Int
    BY <1>3, <2>1
  <2> QED
    BY <2>2, <2>3, <2>4 DEF Before
<1>7. Sorted(r, last)
  <2>1. \A n \in 1..Len(r) : r[n].id \in 1..last
    BY <1>5 DEF Sorted
  <2> QED
    BY <1>5, <1>6, <2>1 DEF Sorted
<1>8. TimersIn(r) = TimersIn(q) \ up
  <2>1. ASSUME NEW n \in 1..Len(r) PROVE r[n].id \in TimersIn(q) \ up
    <3> DEFINE a == k + n
    <3>1. a \in 1..Len(q) /\ a > k /\ r[n].id = q[a].id
      BY <1>5
    <3> HIDE DEF a
    <3>2. Due(q, a) \in Int /\ Due(q, a) > e
      BY <1>3, <3>1
    <3> QED
      BY <1>4, <3>1, <3>2
  <2>2. ASSUME NEW n \in 1..Len(q), q[n].id \notin up PROVE q[n].id \in TimersIn(r)
    <3>1. n > k
      <4>1. ~(Due(q, n) <= e)
        BY <1>4, <2>2
      <4> QED
        BY <1>2, <1>3, <4>1
    <3> DEFINE m == n - k
    <3>2. m \in 1..Len(r) /\ k + m = n
      BY <1>0, <1>2, <1>5, <3>1
    <3> HIDE DEF m
    <3>3. r[m].id = q[k + m].id
      BY <1>5, <3>2
    <3> QED
      BY <3>2, <3>3 DEF TimersIn
  <2> HIDE DEF up
  <2> QED
    BY <2>1, <2>2 DEF TimersIn
<1>9. ASSUME NEW i \in TimersIn(r) PROVE LeftOf(r)[i] = LeftOf(q)[i] - e
  <2>1. PICK n \in 1..Len(r) : i = r[n].id
    BY DEF TimersIn
  <2>2. LeftOf(r)[i] = Due(r, n)
    BY <1>7, <2>1, LeftIs
  <2>3. LeftOf(q)[i] = Due(q, k + n) /\ Due(r, n) = Due(q, k + n) - e
    BY <1>4, <1>5, <2>1
  <2> QED
    BY <2>2, <2>3
<1>10. LeftOf(r) = [i \in TimersIn(q) \ up |-> LeftOf(q)[i] - e]
  <2>1. LeftOf(r) = [i \in TimersIn(r) |-> LeftOf(r)[i]]
    BY DEF LeftOf
  <2> HIDE DEF up
  <2> QED
    BY <1>8, <1>9, <2>1
<1>11. \A n \in 1..k : batch[n] = q[n].id /\ q[n].id \in up
  BY <1>2, <1>3, <1>4
<1>12. Len(batch) = k /\ batch \in Seq(up)
  <2>1. batch \in [1..k -> up]
    <3> HIDE DEF up
    <3> QED
      BY <1>11
  <2>2. k \in Nat
    BY <1>2
  <2> HIDE DEF batch, up
  <2> QED
    BY <2>1, <2>2, SeqDef, LenProperties
<1>13. \A i \in up : \E n \in 1..k : batch[n] = i
  <2> SUFFICES ASSUME NEW i \in up PROVE \E n \in 1..k : batch[n] = i
    OBVIOUS
  <2>1. PICK n \in 1..Len(q) : i = q[n].id
    BY DEF TimersIn
  <2>2. Due(q, n) <= e
    BY <1>4, <2>1
  <2>3. n \in 1..k
    BY <1>0, <1>2, <1>3, <2>2
  <2> QED
    BY <1>11, <2>1, <2>3
<1>14. ASSUME NEW m \in 1..k, NEW n \in 1..k, m < n
       PROVE  \/ LeftOf(q)[batch[m]] < LeftOf(q)[batch[n]]
              \/ /\ LeftOf(q)[batch[m]] = LeftOf(q)[batch[n]]
                 /\ batch[m] < batch[n]
  <2>1. m \in 1..Len(q) /\ n \in 1..Len(q)
    BY <1>2
  <2>2. Before(q, m, n)
    BY <1>14, <2>1 DEF Sorted
  <2>3. /\ batch[m] = q[m].id /\ LeftOf(q)[q[m].id] = Due(q, m)
        /\ batch[n] = q[n].id /\ LeftOf(q)[q[n].id] = Due(q, n)
    BY <1>4, <1>11, <2>1
  <2> HIDE DEF batch
  <2> QED
    BY <2>2, <2>3 DEF Before
<1>15. /\ Batch(q, e) = batch /\ Up(LeftOf(q), e) = up
       /\ LaterBy(LeftOf(q), e) = [i \in TimersIn(q) \ up |-> LeftOf(q)[i] - e]
  BY LeftIs DEF Batch, Up, LaterBy, k
<1> HIDE DEF batch, up
<1>16. \A m, n \in 1..k : m < n => Ahead(LeftOf(q), batch[m], batch[n])
  BY <1>14 DEF Ahead
<1> QED
  BY <1>7, <1>10, <1>12, <1>13, <1>15, <1>16 DEF r

-----------------------------------------------------------------------------
(* The steps.                                                              *)

(* The queue sorted, its identifiers given out already, and a function     *)
(* runs only while its timer is in the batch.                              *)
IInv ==
  /\ TypeOK
  /\ Sorted(Q, id)
  /\ running # 0 => expQ # << >>

LEMMA Bounds ==
  ASSUME IInv
  PROVE  /\ id \in Nat /\ MaxId \in Nat /\ id <= MaxId
         /\ \A d \in Delays : d \in Int
         /\ \A e \in Elapsed : e \in Int
  BY CalloutAssumption DEF IInv, TypeOK

LEMMA Initially == Init => IInv
<1> SUFFICES ASSUME Init PROVE IInv
  OBVIOUS
<1>1. Len(<< >>) = 0 /\ << >> \in Seq(Node) /\ << >> \in Seq(1..MaxId)
  BY EmptySeq
<1>2. Sorted(Q, id)
  BY <1>1 DEF Init, Sorted
<1>3. TypeOK
  BY <1>1, CalloutAssumption DEF Init, TypeOK
<1> QED
  BY <1>2, <1>3 DEF IInv, Init

LEMMA Step == IInv /\ [Next]_vars => IInv'
<1> SUFFICES ASSUME IInv, [Next]_vars PROVE IInv'
  OBVIOUS
<1>0. /\ TypeOK /\ Sorted(Q, id) /\ id \in Nat /\ MaxId \in Nat /\ id <= MaxId
      /\ running # 0 => expQ # << >>
  BY Bounds DEF IInv
<1>1. ASSUME NEW d \in Delays, timer_setTimer(d) PROVE IInv'
  <2>1. d \in Int /\ id < MaxId /\ id' = id + 1 /\ Q' = Insert(Q, id + 1, d)
    BY <1>1, Bounds DEF timer_setTimer
  <2>2. Sorted(Insert(Q, id + 1, d), id + 1)
    BY <1>0, <2>1, SetKeeps
  <2>3. Sorted(Q, id)'
    BY <2>1, <2>2 DEF Sorted, Before
  <2>4. Q' \in Seq(Node)
    BY <2>1, <2>2 DEF Sorted
  <2>5. id' \in 0..MaxId
    BY <1>0, <2>1
  <2> QED
    BY <1>0, <1>1, <2>3, <2>4, <2>5 DEF IInv, TypeOK, timer_setTimer, Node
<1>2. ASSUME NEW i \in 1..MaxId, timer_clearTimer(i) PROVE IInv'
  <2>1. Q' = Delete(Q, i) /\ id' = id
    BY <1>2 DEF timer_clearTimer
  <2>2. Sorted(Delete(Q, i), id)
    BY <1>0, ClearKeeps
  <2>3. Sorted(Q, id)'
    BY <2>1, <2>2 DEF Sorted, Before
  <2>4. Q' \in Seq(Node)
    BY <2>1, <2>2 DEF Sorted
  <2> QED
    BY <1>0, <1>2, <2>3, <2>4 DEF IInv, TypeOK, timer_clearTimer, Node
<1>3. ASSUME NEW e \in Elapsed, age_callout_queue(e) PROVE IInv'
  <2> DEFINE up == Up(LeftOf(Q), e)
  <2>0. e \in Int
    BY Bounds
  <2>1. Sorted(Aged(Q, e), id)
    BY <1>0, <2>0, ElapseKeeps
  <2>2. expQ' \in Seq(up)
    <3>1. expQ' = Batch(Q, e)
      BY <1>3 DEF age_callout_queue, Batch
    <3> QED
      BY <1>0, <2>0, <3>1, ElapseKeeps
  <2>3. up \subseteq 1..MaxId
    <3>1. TimersIn(Q) \subseteq 1..MaxId
      BY <1>0 DEF TimersIn, Sorted
    <3>2. DOMAIN LeftOf(Q) = TimersIn(Q)
      BY DEF LeftOf
    <3> QED
      BY <3>1, <3>2 DEF Up
  <2>4. expQ' \in Seq(1..MaxId)
    <3> HIDE DEF up
    <3> QED
      BY <2>2, <2>3, SeqMonotonic
  <2>5. Q' = Aged(Q, e) /\ id' = id
    BY <1>3 DEF age_callout_queue
  <2>6. Sorted(Q, id)' /\ Q' \in Seq(Node)
    BY <2>1, <2>5 DEF Sorted, Before
  <2>7. running' = 0
    BY <1>0, <1>3 DEF age_callout_queue
  <2> QED
    BY <1>0, <1>3, <2>4, <2>6, <2>7 DEF IInv, TypeOK, age_callout_queue, Node
<1>4. CASE RunExpired
  <2>1. Head(expQ) \in 1..MaxId
    BY <1>0, <1>4, HeadTailProperties DEF TypeOK, RunExpired
  <2>2. UNCHANGED <<Q, id>>
    BY <1>4 DEF RunExpired
  <2>3. Sorted(Q, id)'
    BY <1>0, <2>2 DEF Sorted, Before
  <2> QED
    BY <1>0, <1>4, <2>1, <2>3 DEF IInv, TypeOK, RunExpired, Node
<1>5. CASE FreeExpired
  <2>1. Tail(expQ) \in Seq(1..MaxId)
    BY <1>0, <1>5, HeadTailProperties DEF TypeOK, FreeExpired
  <2>2. UNCHANGED <<Q, id>>
    BY <1>5 DEF FreeExpired
  <2>3. Sorted(Q, id)'
    BY <1>0, <2>2 DEF Sorted, Before
  <2> QED
    BY <1>0, <1>5, <2>1, <2>3 DEF IInv, TypeOK, FreeExpired, Node
<1>6. CASE UNCHANGED vars
  <2>1. Sorted(Q, id)'
    BY <1>0, <1>6 DEF Sorted, Before, vars
  <2> QED
    BY <1>0, <1>6, <2>1 DEF IInv, TypeOK, vars, Node
<1> QED
  BY <1>1, <1>2, <1>3, <1>4, <1>5, <1>6 DEF Next

LEMMA Invariant == Spec => []IInv
  BY Initially, Step, PTL DEF Spec

(* The queue, the batch and the identifiers stay in their types, whatever  *)
(* is set, cleared and aged in whatever order: an offset is an integer and *)
(* every identifier was given out by timer_setTimer (callout.c:16-25,      *)
(* callout.c:117-175).                                                     *)
THEOREM CalloutTypeCorrect == Spec => []TypeOK
<1>1. IInv => TypeOK
  BY DEF IInv
<1> QED
  BY <1>1, Invariant, PTL

LEMMA InitialTimers == ASSUME Init PROVE Abstract!Init
<1>1. Len(<< >>) = 0
  BY EmptySeq
<1>2. TimersIn(Q) = {}
  BY <1>1 DEF Init, TimersIn
<1>3. [i \in TimersIn(Q) |-> timer_leftTimer(Q, i)] = << >>
  BY <1>2
<1> QED
  BY <1>3 DEF Init, Abstract!Init

LEMMA StepOfTimers ==
  ASSUME IInv, [Next]_vars
  PROVE  [Abstract!Next]_(Abstract!vars)
<1>0. Sorted(Q, id) /\ id \in Nat /\ MaxId \in Nat
  BY Bounds DEF IInv
<1> DEFINE left == LeftOf(Q)
<1>a. left = [i \in TimersIn(Q) |-> timer_leftTimer(Q, i)] /\ DOMAIN left = TimersIn(Q)
  BY DEF LeftOf
<1>b. left' = [i \in TimersIn(Q') |-> timer_leftTimer(Q', i)]
  BY DEF LeftOf, TimersIn, timer_leftTimer
<1>c. left' = LeftOf(Q')
  BY <1>b DEF LeftOf
<1>1. ASSUME NEW d \in Delays, timer_setTimer(d) PROVE Abstract!Set(d)
  <2>1. d \in Int /\ id < MaxId /\ id' = id + 1 /\ Q' = Insert(Q, id + 1, d)
    BY <1>1, Bounds DEF timer_setTimer
  <2>2. LeftOf(Insert(Q, id + 1, d)) = WithSet(LeftOf(Q), id + 1, d)
    BY <1>0, <2>1, SetKeeps
  <2>3. left' = WithSet(left, id', d)
    BY <1>c, <2>1, <2>2
  <2> HIDE DEF left
  <2> QED
    BY <1>1, <1>a, <1>b, <2>3
    DEF timer_setTimer, CallerActive, WithSet, Abstract!Set, Abstract!CallerActive,
        Abstract!Pending
<1>2. ASSUME NEW i \in 1..MaxId, timer_clearTimer(i) PROVE Abstract!Clear(i)
  <2>1. Q' = Delete(Q, i)
    BY <1>2 DEF timer_clearTimer
  <2>2. LeftOf(Delete(Q, i)) = Without(LeftOf(Q), i)
    BY <1>0, ClearKeeps
  <2>3. left' = Without(left, i)
    BY <1>c, <2>1, <2>2
  <2> HIDE DEF left
  <2> QED
    BY <1>2, <1>a, <1>b, <2>3
    DEF timer_clearTimer, CallerActive, Without, Abstract!Clear,
        Abstract!CallerActive, Abstract!Pending
<1>3. ASSUME NEW e \in Elapsed, age_callout_queue(e) PROVE Abstract!Elapse(e)
  <2> DEFINE up == Up(LeftOf(Q), e)  batch == Batch(Q, e)
  <2>0. e \in Int
    BY Bounds
  <2>1. /\ LeftOf(Aged(Q, e)) = LaterBy(LeftOf(Q), e)
        /\ batch \in Seq(up)
        /\ \A i \in up : \E n \in 1..Len(batch) : batch[n] = i
        /\ \A m, n \in 1..Len(batch) : m < n => Ahead(LeftOf(Q), batch[m], batch[n])
    BY <1>0, <2>0, ElapseKeeps
  <2>2. expQ' = batch /\ Q' = Aged(Q, e)
    BY <1>3 DEF age_callout_queue, Batch
  <2>3. left' = LaterBy(left, e)
    BY <1>c, <2>1, <2>2
  <2>4. \A i, j : Abstract!Earlier(i, j) <=> Ahead(LeftOf(Q), i, j)
    BY <1>a DEF Abstract!Earlier, Ahead
  <2>5. Abstract!InOrder(expQ', up)
    <3> HIDE DEF batch, up
    <3> QED
      BY <2>1, <2>2, <2>4 DEF Abstract!InOrder
  <2>6. up = {i \in Abstract!Pending : left[i] <= e} /\ Abstract!Pending = DOMAIN left
    BY <1>a DEF Up, Abstract!Pending
  <2>7. left' = [i \in Abstract!Pending \ up |-> left[i] - e]
    BY <2>3, <2>6 DEF LaterBy
  <2> HIDE DEF left, up
  <2> QED
    BY <1>3, <1>a, <1>b, <2>5, <2>6, <2>7
    DEF age_callout_queue, Abstract!Elapse
<1>4. ASSUME UNCHANGED Q PROVE left' = left
  BY <1>4, <1>b DEF LeftOf
<1>5. CASE RunExpired
  <2>1. left' = left
    BY <1>4, <1>5 DEF RunExpired
  <2> HIDE DEF left
  <2>2. Abstract!Run
    BY <1>5, <1>a, <1>b, <2>1 DEF RunExpired, Abstract!Run
  <2> QED
    BY <2>2 DEF Abstract!Next
<1>6. CASE FreeExpired
  <2>1. left' = left
    BY <1>4, <1>6 DEF FreeExpired
  <2> HIDE DEF left
  <2>2. Abstract!Return
    BY <1>6, <1>a, <1>b, <2>1 DEF FreeExpired, Abstract!Return
  <2> QED
    BY <2>2 DEF Abstract!Next
<1>7. CASE UNCHANGED vars
  <2>1. left' = left
    BY <1>4, <1>7 DEF vars
  <2> HIDE DEF left
  <2> QED
    BY <1>7, <1>a, <1>b, <2>1 DEF vars, Abstract!vars
<1> QED
  BY <1>1, <1>2, <1>3, <1>5, <1>6, <1>7 DEF Next, Abstract!Next

(* The queue implements the timers of Timers: setting, clearing and ageing *)
(* move every deadline exactly as if it were stored on its own, and a      *)
(* batch runs in the order of the deadlines, equal ones in the order they  *)
(* were set (callout.c, the whole file).                                   *)
THEOREM CalloutImplementsTimers == Spec => ImplementsTimers
  BY InitialTimers, StepOfTimers, Invariant, PTL DEF Spec, ImplementsTimers, Abstract!Spec

=============================================================================
