--------------------------- MODULE MainLoopProofs ---------------------------
(***************************************************************************)
(* For every clock, every period and set of timers, and however long the   *)
(* loop works: the main loop loses no time and counts none twice, and runs *)
(* no timer much too early or much too late.                               *)
(***************************************************************************)
EXTENDS MainLoop, TLAPS

(* What NothingLost rests on.  The timeout that is added to lasttime has   *)
(* passed since: no more is subtracted from the lag than there is.         *)
WaitedIsLag == pc = "wait" => waited <= lag

TimeoutPassed == n = 0 => pc = "loop" /\ secs >= 0 /\ secs * SEC <= lag

IInv == TypeOK /\ WaitedIsLag /\ TimeoutPassed /\ NothingLost

LEMMA ProductInt == ASSUME NEW a \in Int, NEW b \in Int PROVE a * b \in Int
  OBVIOUS

LEMMA ProductNat == ASSUME NEW a \in Nat, NEW b \in Nat PROVE a * b \in Nat
  OBVIOUS

(* A second carried is a second more or less of microseconds.              *)
LEMMA CarryMoves ==
  ASSUME NEW s \in Int, NEW c \in {-1, 0, 1}
  PROVE  (s + c) * SEC = s * SEC + c * SEC
  BY MainLoopAssumption

(* Without a second to age, the second that was passed was borrowed.       *)
LEMMA NatSeconds ==
  ASSUME NEW s \in Nat, s # 0
  PROVE  s * SEC >= SEC
<1>1. PICK k \in Nat : s = k + 1
  BY s - 1 \in Nat
<1>2. s * SEC = k * SEC + SEC
  BY <1>1, MainLoopAssumption
<1> QED
  BY <1>2, ProductNat, MainLoopAssumption

LEMMA InitIInv == Init => IInv
<1> SUFFICES ASSUME Init PROVE IInv
  OBVIOUS
<1>1. TypeOK
  <2>1. Period * SEC \in Int
    BY ProductInt, MainLoopAssumption
  <2>2. dueIn \in [Timer -> Int]
    BY <2>1 DEF Init
  <2>3. left \in [Timer -> Nat \union {Unset}]
    BY MainLoopAssumption DEF Init, Unset
  <2>4. busy \in 0..MaxBusy /\ tv_usec \in 0..SEC /\ phase \in 0..SEC-1
    BY MainLoopAssumption DEF Init
  <2>5. /\ pc = "top" /\ mysignal = FALSE /\ n = -1 /\ secs = -1
        /\ tv_sec = 0 /\ lag = 0 /\ expired = {} /\ waited = 0 /\ behind = 0
    BY DEF Init
  <2> QED
    <3>1. pc \in {"top", "select", "wait", "loop", "run", "handle", "exit"}
      BY <2>5
    <3>2. mysignal \in BOOLEAN
      BY <2>5
    <3>3. n \in -1..1 /\ secs \in Int /\ secs >= -1
      BY <2>5
    <3>4. tv_sec \in Nat /\ lag \in Nat /\ waited \in Nat /\ behind \in Int
      BY <2>5
    <3>5. expired \subseteq Timer
      BY <2>5
    <3> QED
      BY <2>2, <2>3, <2>4, <3>1, <3>2, <3>3, <3>4, <3>5 DEF TypeOK
<1> QED
  BY <1>1 DEF IInv, Init, WaitedIsLag, TimeoutPassed, NothingLost

-----------------------------------------------------------------------------
(* The steps that leave the clocks alone.                                  *)
LEMMA TopStep == IInv /\ Top => IInv'
  BY DEF IInv, TypeOK, WaitedIsLag, TimeoutPassed, NothingLost, Top, First,
         NextTimer, Set, Unset, clocks, queue

LEMMA SelectStep == IInv /\ Select => IInv'
  BY MainLoopAssumption
  DEF IInv, TypeOK, WaitedIsLag, TimeoutPassed, NothingLost, Select, clocks,
      queue

LEMMA TimeoutStep == IInv /\ Timeout => IInv'
<1> SUFFICES ASSUME IInv, Timeout PROVE IInv'
  OBVIOUS
<1>1. secs * SEC <= lag /\ secs >= 0
  BY DEF IInv, TypeOK, WaitedIsLag, Timeout
<1> QED
  BY <1>1
  DEF IInv, TypeOK, WaitedIsLag, TimeoutPassed, NothingLost, Timeout, clocks,
      queue

LEMMA PacketStep == IInv /\ Packet => IInv'
  BY DEF IInv, TypeOK, WaitedIsLag, TimeoutPassed, NothingLost, Packet,
         clocks, queue

LEMMA HandlerStep == IInv /\ handler => IInv'
  BY DEF IInv, TypeOK, WaitedIsLag, TimeoutPassed, NothingLost, handler,
         clocks, queue

LEMMA TickStep == IInv /\ Tick => IInv'
<1> SUFFICES ASSUME IInv, Tick PROVE IInv'
  OBVIOUS
<1>1. dueIn' \in [Timer -> Int]
  BY DEF IInv, TypeOK, Tick
<1>2. secs * SEC <= lag => secs * SEC <= lag + 1
  BY ProductInt, MainLoopAssumption DEF IInv, TypeOK
<1>3. /\ lag' \in Nat /\ waited' \in Nat
      /\ WaitedIsLag'
  BY DEF IInv, TypeOK, WaitedIsLag, Tick
<1>4. busy' \in 0..MaxBusy
  BY MainLoopAssumption DEF IInv, TypeOK, Tick
<1>5. TypeOK'
  BY <1>1, <1>3, <1>4 DEF IInv, TypeOK, Tick, clocks, queue
<1>6. TimeoutPassed'
  BY <1>2 DEF IInv, TimeoutPassed, Tick
<1>7. NothingLost'
  BY DEF IInv, NothingLost, Tick, clocks
<1> QED
  BY <1>3, <1>5, <1>6, <1>7 DEF IInv

LEMMA TimerSet ==
  ASSUME TypeOK, NEW t \in Timer, NEW d \in Nat, SetTimer(t, d)
  PROVE  left' \in [Timer -> Nat \union {Unset}] /\ dueIn' \in [Timer -> Int]
  BY ProductInt, MainLoopAssumption DEF TypeOK, SetTimer

LEMMA TimerCleared ==
  ASSUME TypeOK, NEW t \in Timer, Clear(t)
  PROVE  left' \in [Timer -> Nat \union {Unset}] /\ dueIn' \in [Timer -> Int]
  BY DEF TypeOK, Clear, Unset

LEMMA RunStep == ASSUME IInv, NEW t \in Timer, Run(t) PROVE IInv'
<1>1. left' \in [Timer -> Nat \union {Unset}] /\ dueIn' \in [Timer -> Int]
  <2>1. CASE t = "timer"
    BY <2>1, TimerSet, MainLoopAssumption DEF IInv, Run, timer, Timer
  <2>2. CASE t # "timer"
    <3>1. RunOther(t)
      BY <2>2 DEF Run
    <3>2. CASE \E d \in Delays \ {0} : ~Set(t) /\ SetTimer(t, d)
      BY <3>2, TimerSet, MainLoopAssumption DEF IInv
    <3>3. CASE \E u \in Other : u # t /\ Set(u) /\ Clear(u)
      BY <3>3, TimerCleared DEF IInv, Timer
    <3>4. CASE UNCHANGED <<left, dueIn>>
      BY <3>4 DEF IInv, TypeOK
    <3> QED
      BY <3>1, <3>2, <3>3, <3>4 DEF RunOther
  <2> QED
    BY <2>1, <2>2
<1> QED
  BY <1>1 DEF IInv, TypeOK, WaitedIsLag, TimeoutPassed, NothingLost, Run, clocks

LEMMA BatchDoneStep == IInv /\ BatchDone => IInv'
  BY DEF IInv, TypeOK, WaitedIsLag, TimeoutPassed, NothingLost, BatchDone,
         clocks, queue

LEMMA HandleStep == IInv /\ Handle => IInv'
<1> SUFFICES ASSUME IInv, Handle PROVE IInv'
  OBVIOUS
<1>1. left' \in [Timer -> Nat \union {Unset}] /\ dueIn' \in [Timer -> Int]
  BY TimerSet, TimerCleared, MainLoopAssumption DEF IInv, Handle, Timer
<1> QED
  BY <1>1
  DEF IInv, TypeOK, WaitedIsLag, TimeoutPassed, NothingLost, Handle, clocks

LEMMA HandlersDoneStep == IInv /\ HandlersDone => IInv'
  BY DEF IInv, TypeOK, WaitedIsLag, TimeoutPassed, NothingLost, HandlersDone,
         clocks, queue

-----------------------------------------------------------------------------
(* The body of the loop: the only step that moves the clocks.              *)
LEMMA LoopStep == IInv /\ Loop => IInv'
<1> SUFFICES ASSUME IInv, Loop PROVE IInv'
  OBVIOUS
<1> USE MainLoopAssumption
<1>1. Elapsed \in Nat /\ LagLeft \in Nat
  BY ProductInt, ProductNat DEF IInv, TypeOK, TimeoutPassed, Elapsed, LagLeft
<1>2. PICK s \in 0..(phase + Elapsed), p \in 0..SEC-1 :
        LET usec == Usec(p)
            sec == s + Carry(usec)
        IN  /\ s * SEC + p = phase + Elapsed
            /\ phase' = p
            /\ tv_sec' = sec
            /\ tv_usec' = usec - Carry(usec) * SEC
            /\ \/ /\ Ages(sec)
                  /\ expired' = Up(sec)
                  /\ left' = Aged(sec)
                  /\ behind' = behind + Elapsed - sec * SEC
               \/ /\ ~Ages(sec)
                  /\ behind' = behind + Elapsed
                  /\ UNCHANGED queue
  BY DEF Loop
<1> DEFINE c == Carry(Usec(p))
           sec == s + c
<1>3. /\ phase \in 0..SEC-1 /\ tv_usec \in 0..SEC /\ behind = tv_usec
      /\ s \in Nat /\ p \in 0..SEC-1 /\ behind \in Int
  BY <1>1, <1>2 DEF IInv, TypeOK, NothingLost
<1>4. Usec(p) = tv_usec + p - phase /\ Usec(p) \in Int
  BY <1>3 DEF Usec
<1>5. c \in {-1, 0, 1} /\ c * SEC \in Int /\ s * SEC \in Int
  BY <1>3, ProductInt DEF Carry
<1>6. /\ Usec(p) > SEC => c = 1 /\ c * SEC = SEC
      /\ Usec(p) < 0 => c = -1 /\ c * SEC = -SEC
      /\ Usec(p) \in 0..SEC => c = 0 /\ c * SEC = 0
  BY <1>4 DEF Carry
<1>7. tv_usec' = Usec(p) - c * SEC /\ tv_usec' \in 0..SEC
  BY <1>2, <1>3, <1>4, <1>5, <1>6
(* No second is borrowed that has not passed.                              *)
<1>8. s = 0 => c # -1
  <2>1. s = 0 => p = phase + Elapsed
    BY <1>1, <1>2, <1>3
  <2> QED
    BY <2>1, <1>1, <1>3, <1>4, <1>6
<1>9. sec \in Nat
  BY <1>3, <1>5, <1>8
<1>10. NothingLost'
  <2>1. Elapsed = s * SEC + p - phase
    BY <1>1, <1>2, <1>3, <1>5
  <2>2. CASE Ages(sec)
    <3>1. behind' = behind + Elapsed - (s * SEC + c * SEC)
      <4>1. behind' = behind + Elapsed - sec * SEC
        BY <1>2, <2>2, Zenon
      <4> HIDE DEF c
      <4>2. sec * SEC = s * SEC + c * SEC
        BY <1>3, <1>5, CarryMoves
      <4> QED
        BY <4>1, <4>2
    <3> QED
      BY <3>1, <2>1, <1>3, <1>4, <1>5, <1>7, <1>1 DEF NothingLost
  <2>3. CASE ~Ages(sec)
    <3>1. sec = 0
      BY <2>3, <1>9 DEF Ages
    <3>2. (s = 0 /\ c = 0) \/ (s = 1 /\ c = -1)
      BY <3>1, <1>3, <1>5
    <3>3. s * SEC = - (c * SEC)
      BY <3>2
    <3>4. behind' = behind + Elapsed
      BY <1>2, <2>3
    <3> QED
      BY <3>3, <3>4, <2>1, <1>1, <1>3, <1>4, <1>5, <1>7 DEF NothingLost
  <2> QED
    BY <2>2, <2>3
<1>11. TypeOK'
  <2>1. left' \in [Timer -> Nat \union {Unset}] /\ expired' \subseteq Timer
    <3>1. CASE Ages(sec)
      BY <1>2, <1>9, <3>1 DEF IInv, TypeOK, Aged, Up, Set, Unset
    <3>2. CASE ~Ages(sec)
      BY <1>2, <3>2 DEF IInv, TypeOK, queue
    <3> QED
      BY <3>1, <3>2
  <2>2. behind' \in Int /\ tv_sec' \in Nat
    BY <1>2, <1>7, <1>9, <1>10 DEF NothingLost
  <2> QED
    BY <1>1, <1>2, <1>7, <2>1, <2>2 DEF IInv, TypeOK, Loop
<1>12. WaitedIsLag' /\ TimeoutPassed'
  BY DEF Loop, WaitedIsLag, TimeoutPassed, IInv, TypeOK
<1> QED
  BY <1>10, <1>11, <1>12 DEF IInv

-----------------------------------------------------------------------------
LEMMA NextIInv == IInv /\ [Next]_vars => IInv'
<1> SUFFICES ASSUME IInv, [Next]_vars PROVE IInv'
  OBVIOUS
<1>1. CASE UNCHANGED vars
  BY <1>1
  DEF IInv, TypeOK, WaitedIsLag, TimeoutPassed, NothingLost, vars, clocks,
      queue
<1>2. CASE Step
  BY <1>2, TopStep, SelectStep, TimeoutStep, LoopStep, RunStep,
     BatchDoneStep, HandlersDoneStep DEF Step
<1>3. CASE Tick \/ Packet \/ Handle \/ handler
  BY <1>3, TickStep, PacketStep, HandleStep, HandlerStep
<1> QED
  BY <1>1, <1>2, <1>3 DEF Next

(* The variables of the main loop keep their types: difftime is never      *)
(* negative, and neither is the time select is told to wait, but for -1    *)
(* (main.c:92-136).                                                        *)
THEOREM MainLoopTypeCorrect == Spec => []TypeOK
<1>1. IInv => TypeOK
  BY DEF IInv
<1> QED
  BY InitIInv, NextIInv, <1>1, PTL DEF Spec

(* Whatever the clock's microseconds and however long batches and handlers *)
(* take, the queue is behind lasttime by the microseconds carried over and *)
(* by nothing else (main.c:109-136).                                       *)
THEOREM MainLoopNothingLost == Spec => []NothingLost
<1>1. IInv => NothingLost
  BY DEF IInv
<1> QED
  BY InitIInv, NextIInv, <1>1, PTL DEF Spec

-----------------------------------------------------------------------------
(* How late and how early timers run.  The lag is what the loop worked     *)
(* since it last looked at the clock: at most once around the loop without *)
(* looking, and that not twice in a row, since a timeout of no seconds     *)
(* leaves no timer that is up.                                             *)
NoneUp == \A t \in Timer : left[t] # 0

Rested == lag <= busy \/ (lag <= MaxBusy + busy /\ NoneUp)

Least == \A t \in Timer : Set(t) => secs <= left[t]

Full == IF secs = -1 THEN 0 ELSE secs * SEC

Light(x) == x <= MaxBusy \/ (x <= 2 * MaxBusy /\ secs # 0)

(* What the lag leaves of the time until a timer is up.                    *)
Over == \A t \in Timer : Set(t) => lag <= left[t] * SEC + 2 * MaxBusy + busy

LagTop == Rested \/ (mysignal /\ Over)

LagSelect ==
  Least /\ (lag <= busy \/ (lag <= MaxBusy + busy /\ secs # 0))

LagWait == busy = 0 /\ Least /\ waited <= Full /\ Light(lag - waited)

LagLoop ==
  \/ /\ Least /\ waited <= Full /\ Light(lag - waited - busy)
     /\ n = 0 => waited = secs * SEC /\ secs # -1
  \/ n # 0 /\ secs = -1 /\ lag <= 2 * MaxBusy + busy

LagRun ==
  /\ n # 0 /\ secs = -1
  /\ n > 0 => lag <= busy
  /\ Rested \/ (tv_sec > 0 /\ lag <= 2 * MaxBusy + busy)

LagInv ==
  /\ pc = "top" => LagTop
  /\ pc = "select" => LagSelect
  /\ pc = "wait" => LagWait
  /\ pc = "loop" => LagLoop
  /\ pc = "run" => LagRun
  /\ pc = "handle" => lag <= busy
  /\ pc = "exit" => Over

(* The queue's idea of a deadline and the deadline: apart by the lag and   *)
(* the microseconds there were when the timer was set.                     *)
Due ==
  \A t \in Timer : Set(t) =>
    /\ left[t] * SEC - (lag + behind) <= dueIn[t]
    /\ dueIn[t] <= left[t] * SEC - (lag + behind) + SEC + 3 * MaxBusy

Batch ==
  /\ pc # "run" => expired = {}
  /\ \A t \in expired :
       /\ dueIn[t] <= SEC + 3 * MaxBusy
       /\ dueIn[t] >= -(SEC + 2 * MaxBusy + busy)

LEMMA Monotone ==
  ASSUME NEW a \in Nat, NEW b \in Nat, a <= b
  PROVE  a * SEC <= b * SEC
<1>1. PICK k \in Nat : b = a + k
  BY b - a \in Nat
<1>2. b * SEC = a * SEC + k * SEC
  BY <1>1, MainLoopAssumption
<1>3. k * SEC \in Nat /\ a * SEC \in Nat
  BY ProductNat, MainLoopAssumption
<1> QED BY <1>2, <1>3

LEMMA SetLeft ==
  ASSUME TypeOK, NEW t \in Timer, Set(t)
  PROVE  left[t] \in Nat /\ left[t] * SEC \in Nat
<1>1. left[t] \in Nat
  BY DEF TypeOK, Set
<1> QED BY <1>1, ProductNat, MainLoopAssumption

(* The time waited is not longer than until the first timer.               *)
LEMMA WaitedLeft ==
  ASSUME TypeOK, Least, waited <= Full, NEW t \in Timer, Set(t)
  PROVE  waited <= left[t] * SEC
<1>1. left[t] \in Nat /\ left[t] * SEC \in Nat
  BY SetLeft
<1>2. CASE secs = -1
  BY <1>1, <1>2 DEF Full, TypeOK
<1>3. CASE secs # -1
  <2>1. secs \in Nat /\ secs <= left[t]
    BY <1>3 DEF TypeOK, Least
  <2>2. secs * SEC <= left[t] * SEC /\ secs * SEC \in Nat
    BY <1>1, <2>1, Monotone, ProductNat, MainLoopAssumption
  <2>3. waited <= secs * SEC
    BY <1>3 DEF Full
  <2> QED BY <1>1, <2>2, <2>3 DEF TypeOK
<1> QED BY <1>2, <1>3

LEMMA LagOver == ASSUME TypeOK, LagInv PROVE Over
<1> SUFFICES ASSUME NEW t \in Timer, Set(t)
             PROVE  lag <= left[t] * SEC + 2 * MaxBusy + busy
  BY DEF Over
<1> USE MainLoopAssumption
<1> DEFINE L == left[t] * SEC
<1>1. L \in Nat
  BY SetLeft
<1>2. lag \in Nat /\ busy \in 0..MaxBusy /\ waited \in Nat
  BY DEF TypeOK
<1> HIDE DEF L
<1>3. CASE lag <= 2 * MaxBusy + busy
  BY <1>1, <1>2, <1>3 DEF L
<1>4. CASE Least /\ waited <= Full /\ lag - waited <= 2 * MaxBusy + busy
  <2>1. waited <= L
    BY <1>4, WaitedLeft DEF L
  <2> QED BY <1>1, <1>2, <1>4, <2>1 DEF L
<1>5. CASE Over
  BY <1>5 DEF Over
<1>6. lag <= 2 * MaxBusy + busy \/ Over
      \/ (Least /\ waited <= Full /\ lag - waited <= 2 * MaxBusy + busy)
  <2>1. CASE pc \in {"top", "select", "run", "handle", "exit"}
    BY <1>2, <2>1 DEF LagInv, LagTop, LagSelect, LagRun, Rested
  <2>2. CASE pc \in {"wait", "loop"}
    BY <1>2, <2>2 DEF LagInv, LagWait, LagLoop, Light
  <2> QED BY <2>1, <2>2 DEF TypeOK
<1> QED BY <1>3, <1>4, <1>5, <1>6

(* What the body of the loop does to the clocks.                           *)
LEMMA LoopTime ==
  ASSUME IInv, Loop
  PROVE  \E sec \in Nat :
           /\ tv_sec' = sec
           /\ n = 0 => sec = secs
           /\ lag' = lag - Elapsed
           /\ Elapsed \in Nat
           /\ lag + behind = lag' + behind' + sec * SEC
           /\ \/ Ages(sec) /\ expired' = Up(sec) /\ left' = Aged(sec)
              \/ ~Ages(sec) /\ UNCHANGED queue
<1> USE MainLoopAssumption
<1>1. Elapsed \in Nat /\ LagLeft \in Nat
  BY ProductInt, ProductNat DEF IInv, TypeOK, TimeoutPassed, Elapsed, LagLeft
<1>2. PICK s \in 0..(phase + Elapsed), p \in 0..SEC-1 :
        LET usec == Usec(p)
            sec == s + Carry(usec)
        IN  /\ s * SEC + p = phase + Elapsed
            /\ phase' = p
            /\ tv_sec' = sec
            /\ tv_usec' = usec - Carry(usec) * SEC
            /\ \/ /\ Ages(sec)
                  /\ expired' = Up(sec)
                  /\ left' = Aged(sec)
                  /\ behind' = behind + Elapsed - sec * SEC
               \/ /\ ~Ages(sec)
                  /\ behind' = behind + Elapsed
                  /\ UNCHANGED queue
  BY DEF Loop
<1> DEFINE sec == s + Carry(Usec(p))
<1>3. IInv'
  BY LoopStep
<1>4. sec \in Nat /\ behind \in Int /\ behind' \in Int
  BY <1>2, <1>3 DEF IInv, TypeOK
<1>5. lag' = lag - Elapsed
  BY DEF Loop, LagLeft
<1>6. lag + behind = lag' + behind' + sec * SEC
  <2> DEFINE X == sec * SEC
  <2>1. X \in Int
    BY <1>4, ProductInt
  <2>2. behind' = behind + Elapsed - X
    <3>1. CASE Ages(sec)
      BY <1>2, <3>1, Zenon
    <3>2. CASE ~Ages(sec)
      <4>1. X = 0
        BY <1>4, <3>2 DEF Ages
      <4> HIDE DEF X
      <4> QED BY <1>1, <1>2, <1>4, <3>2, <4>1
    <3> QED BY <3>1, <3>2
  <2>3. lag \in Nat
    BY DEF IInv, TypeOK
  <2> HIDE DEF X
  <2>4. lag + behind = lag' + behind' + X
    BY <1>1, <1>4, <1>5, <2>1, <2>2, <2>3
  <2> QED BY <2>4 DEF X
<1>7. n = 0 => sec = secs
  <2> SUFFICES ASSUME n = 0 PROVE sec = secs
    OBVIOUS
  <2>1. secs \in Nat /\ Elapsed = secs * SEC /\ phase \in 0..SEC-1
    BY DEF IInv, TypeOK, TimeoutPassed, Elapsed
  <2>2. s \in Nat
    BY <1>1, <2>1
  <2>3. s * SEC + p = secs * SEC + phase
    BY <1>1, <1>2, <2>1
  <2>4. s * SEC \in Nat /\ secs * SEC \in Nat
    BY <2>1, <2>2, ProductNat
  <2>5. ~ (s < secs)
    <3> SUFFICES ASSUME s < secs PROVE FALSE
      OBVIOUS
    <3>1. (s + 1) * SEC <= secs * SEC
      BY <2>1, <2>2, Monotone
    <3>2. (s + 1) * SEC = s * SEC + SEC
      BY <2>2
    <3> QED BY <2>1, <2>3, <2>4, <3>1, <3>2
  <2>6. ~ (secs < s)
    <3> SUFFICES ASSUME secs < s PROVE FALSE
      OBVIOUS
    <3>1. (secs + 1) * SEC <= s * SEC
      BY <2>1, <2>2, Monotone
    <3>2. (secs + 1) * SEC = secs * SEC + SEC
      BY <2>1
    <3> QED BY <2>1, <2>3, <2>4, <3>1, <3>2
  <2>7. s = secs
    BY <2>1, <2>2, <2>5, <2>6
  <2>8. p = phase
    BY <2>1, <2>3, <2>4, <2>7
  <2>9. Usec(p) = tv_usec /\ tv_usec \in 0..SEC
    BY <2>1, <2>8 DEF Usec, IInv, TypeOK
  <2>10. Carry(Usec(p)) = 0
    BY <2>9 DEF Carry
  <2> QED BY <2>1, <2>7, <2>10
<1> HIDE DEF sec
<1>8. tv_sec' = sec
  BY <1>2 DEF sec
<1>9. \/ Ages(sec) /\ expired' = Up(sec) /\ left' = Aged(sec)
      \/ ~Ages(sec) /\ UNCHANGED queue
  BY <1>2, Zenon DEF sec
<1> QED BY <1>1, <1>4, <1>5, <1>6, <1>7, <1>8, <1>9

Times == LagInv /\ Due /\ Batch

LEMMA InitTimes == Init => Times
<1> SUFFICES ASSUME Init PROVE Times
  OBVIOUS
<1> USE MainLoopAssumption
<1>1. pc = "top" /\ lag = 0 /\ busy = 0 /\ behind = 0 /\ expired = {}
  BY DEF Init
<1>2. LagInv
  BY <1>1 DEF LagInv, LagTop, Rested
<1>3. Due
  <2> SUFFICES ASSUME NEW t \in Timer, Set(t)
               PROVE  /\ left[t] * SEC - (lag + behind) <= dueIn[t]
                      /\ dueIn[t] <= left[t] * SEC - (lag + behind) + SEC
                                       + 3 * MaxBusy
    BY DEF Due
  <2>1. left[t] = Period /\ dueIn[t] = Period * SEC
    BY DEF Init, Set
  <2>2. Period * SEC \in Nat
    BY ProductNat
  <2> QED BY <1>1, <2>1, <2>2
<1> QED BY <1>1, <1>2, <1>3 DEF Times, Batch

(* The steps that touch neither the timers nor the time.                   *)
LEMMA SameDue ==
  ASSUME Due, UNCHANGED <<left, lag, behind, dueIn>>
  PROVE  Due'
BY DEF Due, Set

LEMMA SameBatch ==
  ASSUME Batch, UNCHANGED <<expired, dueIn, busy>>, pc' # "run" => pc # "run" \/ expired = {}
  PROVE  Batch'
BY DEF Batch

LEMMA SameOver ==
  ASSUME Over, UNCHANGED <<left, lag, busy>>
  PROVE  Over'
BY DEF Over, Set

LEMMA TopTimes ==
  ASSUME IInv, Times, Top PROVE Times'
<1> USE MainLoopAssumption
<1>1. UNCHANGED <<left, lag, behind, dueIn, expired, busy, waited, n>>
  BY DEF Top, queue, clocks
<1>2. Due' /\ Batch'
  BY <1>1, SameDue, SameBatch DEF Times, Top
<1>3. CASE mysignal
  <2>1. Over
    BY LagOver DEF IInv, Times
  <2> QED BY <1>1, <1>2, <1>3, <2>1, SameOver DEF Times, LagInv, Top
<1>4. CASE ~mysignal
  <2>1. Rested /\ pc' = "select"
    BY <1>4 DEF Times, LagInv, LagTop, Top
  <2>2. PICK s \in {left[t] : t \in Timer} : NextTimer(s) /\ secs' = s
    BY DEF Top
  <2>3. Least'
    <3> SUFFICES ASSUME NEW t \in Timer, Set(t) PROVE s <= left[t]
      BY <1>1, <2>2 DEF Least, Set
    <3> QED BY <2>2 DEF NextTimer, First
  <2>4. NoneUp => s # 0
    BY <2>2 DEF NoneUp
  <2>5. LagSelect'
    BY <1>1, <2>1, <2>2, <2>3, <2>4 DEF LagSelect, Rested
  <2> QED BY <1>2, <2>1, <2>5 DEF Times, LagInv
<1> QED BY <1>3, <1>4

LEMMA SelectTimes ==
  ASSUME IInv, Times, Select PROVE Times'
<1> USE MainLoopAssumption
<1>1. /\ UNCHANGED <<left, lag, behind, dueIn, expired, secs, n>>
      /\ pc = "select" /\ pc' = "wait" /\ waited' = 0 /\ busy' = 0
  BY DEF Select, queue, clocks
<1>2. Due'
  BY <1>1, SameDue DEF Times
<1>3. Batch'
  BY <1>1 DEF Times, Batch
<1>4. LagWait'
  <2>1. Least' /\ LagSelect
    BY <1>1 DEF Times, LagInv, LagSelect, Least, Set
  <2>2. waited' <= Full'
    <3>1. CASE secs = -1
      BY <1>1, <3>1 DEF Full
    <3>2. CASE secs # -1
      <4>1. secs * SEC \in Nat
        BY <3>2, ProductNat DEF IInv, TypeOK
      <4> QED BY <1>1, <3>2, <4>1 DEF Full
    <3> QED BY <3>1, <3>2
  <2>3. lag \in Nat /\ busy \in 0..MaxBusy
    BY DEF IInv, TypeOK
  <2>4. Light(lag - waited)'
    BY <1>1, <2>1, <2>3 DEF LagSelect, Light
  <2> QED BY <1>1, <2>1, <2>2, <2>4 DEF LagWait
<1> QED BY <1>1, <1>2, <1>3, <1>4 DEF Times, LagInv

LEMMA ReturnTimes ==
  ASSUME IInv, Times, Timeout \/ Packet PROVE Times'
<1> USE MainLoopAssumption
<1>1. /\ UNCHANGED <<left, lag, behind, dueIn, expired, secs, waited, busy>>
      /\ pc = "wait" /\ pc' = "loop"
      /\ n' = 0 => waited = secs * SEC /\ secs # -1
  BY DEF Timeout, Packet, queue, clocks
<1>2. Due' /\ Batch'
  BY <1>1, SameDue, SameBatch DEF Times
<1>3. LagLoop'
  <2>1. Least' /\ Full' = Full
    BY <1>1 DEF Times, LagInv, LagWait, Least, Set, Full
  <2>2. Light(lag - waited) /\ busy = 0 /\ waited <= Full
    BY <1>1 DEF Times, LagInv, LagWait
  <2>3. Light(lag - waited - busy)'
    BY <1>1, <2>2 DEF Light, IInv, TypeOK
  <2> QED BY <1>1, <2>1, <2>2, <2>3 DEF LagLoop
<1> QED BY <1>1, <1>2, <1>3 DEF Times, LagInv

LEMMA HandlerTimes ==
  ASSUME IInv, Times, handler PROVE Times'
<1>1. /\ UNCHANGED <<left, lag, behind, dueIn, expired, secs, waited, busy, n,
                     tv_sec>>
      /\ pc # "exit" /\ mysignal' = TRUE
      /\ pc' = IF pc = "wait" THEN "top" ELSE pc
  BY DEF handler, queue, clocks
<1>2. Due' /\ Batch'
  BY <1>1, SameDue, SameBatch DEF Times
<1>3. CASE pc = "wait"
  <2>1. Over
    BY LagOver DEF IInv, Times
  <2> QED BY <1>1, <1>2, <1>3, <2>1, SameOver DEF Times, LagInv, LagTop
<1>4. CASE pc # "wait"
  <2>1. /\ Rested' <=> Rested
        /\ Over' <=> Over
        /\ Least' <=> Least
        /\ Full' = Full
    BY <1>1 DEF Rested, Over, Least, Full, Set, NoneUp
  <2> QED
    BY <1>1, <1>2, <1>4, <2>1
    DEF Times, LagInv, LagTop, LagSelect, LagLoop, LagRun, Light
<1> QED BY <1>3, <1>4

LEMMA TickTimes ==
  ASSUME IInv, Times, Tick PROVE Times'
<1> USE MainLoopAssumption
<1>1. /\ UNCHANGED <<pc, mysignal, left, behind, expired, secs, n, tv_sec>>
      /\ lag' = lag + 1
      /\ dueIn' = [t \in Timer |->
                     dueIn[t] - (IF Set(t) \/ t \in expired THEN 1 ELSE 0)]
      /\ \/ pc = "wait" /\ waited < secs * SEC /\ waited' = waited + 1 /\ busy' = busy
         \/ pc # "wait" /\ pc # "exit" /\ busy < MaxBusy /\ waited' = waited
            /\ busy' = busy + 1
  BY DEF Tick, queue, clocks
<1>2. /\ lag \in Nat /\ busy \in 0..MaxBusy /\ waited \in Nat /\ behind \in Int
      /\ dueIn \in [Timer -> Int] /\ expired \subseteq Timer
      /\ secs \in Int /\ secs >= -1
  BY DEF IInv, TypeOK
<1>3. Due'
  <2> SUFFICES ASSUME NEW t \in Timer, Set(t)'
               PROVE  /\ left[t] * SEC - (lag + 1 + behind) <= dueIn'[t]
                      /\ dueIn'[t] <= left[t] * SEC - (lag + 1 + behind) + SEC
                                       + 3 * MaxBusy
    BY <1>1 DEF Due
  <2>1. Set(t)
    BY <1>1 DEF Set
  <2>2. dueIn'[t] = dueIn[t] - 1
    BY <1>1, <2>1
  <2> DEFINE L == left[t] * SEC
  <2>3. L \in Nat
    BY <2>1, SetLeft DEF IInv
  <2>4. /\ L - (lag + behind) <= dueIn[t]
        /\ dueIn[t] <= L - (lag + behind) + SEC + 3 * MaxBusy
    BY <2>1 DEF Times, Due
  <2> HIDE DEF L
  <2>5. /\ L - (lag + 1 + behind) <= dueIn'[t]
        /\ dueIn'[t] <= L - (lag + 1 + behind) + SEC + 3 * MaxBusy
    BY <1>2, <2>2, <2>3, <2>4
  <2> QED BY <2>5 DEF L
<1>4. Batch'
  <2>1. pc # "run" => expired = {}
    BY DEF Times, Batch
  <2>2. ASSUME NEW t \in expired
        PROVE  /\ dueIn'[t] <= SEC + 3 * MaxBusy
               /\ dueIn'[t] >= -(SEC + 2 * MaxBusy + busy')
    <3>1. busy' = busy + 1
      BY <1>1, <2>1, <2>2
    <3>2. dueIn'[t] = dueIn[t] - 1 /\ dueIn[t] \in Int
      BY <1>1, <1>2, <2>2
    <3>3. /\ dueIn[t] <= SEC + 3 * MaxBusy
          /\ dueIn[t] >= -(SEC + 2 * MaxBusy + busy)
      BY <2>2 DEF Times, Batch
    <3> QED BY <1>2, <3>1, <3>2, <3>3
  <2> QED BY <1>1, <2>1, <2>2 DEF Batch
<1>5. LagInv'
  <2>1. /\ Least' <=> Least
        /\ Full' = Full /\ NoneUp' = NoneUp
    BY <1>1 DEF Least, Full, Set, NoneUp
  <2>2. CASE pc = "wait"
    <3>1. waited' <= Full' /\ busy' = busy
      <4>1. secs # -1
        BY <1>1, <1>2, <2>2
      <4>2. Full = secs * SEC /\ secs * SEC \in Nat
        BY <1>2, <4>1, ProductNat DEF Full
      <4> QED BY <1>1, <1>2, <2>1, <2>2, <4>2
    <3>2. lag' - waited' = lag - waited
      BY <1>1, <1>2, <2>2
    <3>3. LagWait
      BY <2>2 DEF Times, LagInv
    <3>4. Light(lag - waited)'
      BY <1>1, <3>2, <3>3 DEF LagWait, Light
    <3> QED BY <1>1, <2>1, <2>2, <3>1, <3>3, <3>4 DEF LagInv, LagWait
  <2>3. CASE pc # "wait"
    <3>1. busy' = busy + 1 /\ waited' = waited /\ pc # "exit"
      BY <1>1, <2>3
    <3>2. lag' - busy' = lag - busy /\ lag' - waited' - busy' = lag - waited - busy
      BY <1>1, <1>2, <3>1
    <3>3. Rested => Rested'
      BY <1>1, <1>2, <2>1, <3>1 DEF Rested
    <3>4. Over => Over'
      <4> SUFFICES ASSUME Over, NEW t \in Timer, Set(t)'
                   PROVE  lag' <= left'[t] * SEC + 2 * MaxBusy + busy'
        BY DEF Over
      <4> DEFINE L == left[t] * SEC
      <4>1. Set(t) /\ L \in Nat
        BY <1>1, SetLeft DEF Set, IInv
      <4>2. lag <= L + 2 * MaxBusy + busy
        BY <4>1 DEF Over
      <4> HIDE DEF L
      <4>3. lag' <= L + 2 * MaxBusy + busy'
        BY <1>1, <1>2, <3>1, <4>1, <4>2
      <4>4. left'[t] * SEC = L
        BY <1>1 DEF L
      <4> QED BY <4>3, <4>4
    <3>5. pc = "top" => LagTop'
      BY <1>1, <3>3, <3>4 DEF Times, LagInv, LagTop
    <3>6. pc = "select" => LagSelect'
      BY <1>1, <1>2, <2>1, <3>1 DEF Times, LagInv, LagSelect
    <3>7. pc = "loop" => LagLoop'
      <4> SUFFICES ASSUME pc = "loop" PROVE LagLoop'
        OBVIOUS
      <4>1. LagLoop
        BY DEF Times, LagInv
      <4>2. CASE n # 0 /\ secs = -1 /\ lag <= 2 * MaxBusy + busy
        BY <1>1, <1>2, <3>1, <4>2 DEF LagLoop
      <4>3. CASE /\ Least /\ waited <= Full /\ Light(lag - waited - busy)
                 /\ n = 0 => waited = secs * SEC /\ secs # -1
        <5>1. Light(lag - waited - busy)'
          BY <1>1, <3>2, <4>3 DEF Light
        <5> QED BY <1>1, <2>1, <3>1, <4>3, <5>1 DEF LagLoop
      <4> QED BY <4>1, <4>2, <4>3 DEF LagLoop
    <3>8. pc = "run" => LagRun'
      BY <1>1, <1>2, <3>1, <3>3 DEF Times, LagInv, LagRun
    <3>9. pc = "handle" => lag' <= busy'
      BY <1>1, <1>2, <3>1 DEF Times, LagInv
    <3> QED BY <1>1, <2>3, <3>1, <3>5, <3>6, <3>7, <3>8, <3>9 DEF LagInv
  <2> QED BY <2>2, <2>3
<1> QED BY <1>3, <1>4, <1>5 DEF Times

(* What it takes of arithmetic.                                            *)
LEMMA Passed ==
  ASSUME NEW a \in Int, NEW b \in Nat, NEW c \in Nat, NEW X \in Int,
         a = b + c + X
  PROVE  a >= X
OBVIOUS

LEMMA Shifted ==
  ASSUME NEW L \in Int, NEW X \in Int, NEW a \in Int, NEW b \in Int,
         NEW d \in Int, NEW w \in Int,
         a = b + X, L - a <= d, d <= L - a + w
  PROVE  (L - X) - b <= d /\ d <= (L - X) - b + w
OBVIOUS

LEMMA LoopTimes ==
  ASSUME IInv, Times, Loop PROVE Times'
<1> USE MainLoopAssumption
<1>1. PICK sec \in Nat :
        /\ tv_sec' = sec
        /\ n = 0 => sec = secs
        /\ lag' = lag - Elapsed
        /\ Elapsed \in Nat
        /\ lag + behind = lag' + behind' + sec * SEC
        /\ \/ Ages(sec) /\ expired' = Up(sec) /\ left' = Aged(sec)
           \/ ~Ages(sec) /\ UNCHANGED queue
  BY LoopTime
<1>2. /\ pc = "loop" /\ pc' = "run" /\ secs' = -1
      /\ n' = IF n = 0 THEN -1 ELSE n
      /\ UNCHANGED <<mysignal, waited, busy, dueIn>>
  BY DEF Loop
<1>3. /\ lag \in Nat /\ busy \in 0..MaxBusy /\ behind \in 0..SEC /\ n \in -1..1
      /\ dueIn \in [Timer -> Int] /\ waited \in Nat /\ secs \in Int /\ secs >= -1
  BY DEF IInv, TypeOK, NothingLost
<1>4. lag' \in Nat /\ behind' \in 0..SEC
  BY LoopStep DEF IInv, TypeOK, NothingLost
<1>5. LagRun'
  <2>1. CASE n # 0
    <3>1. lag' = 0
      BY <1>1, <1>3, <2>1 DEF Elapsed
    <3> QED BY <1>2, <1>3, <2>1, <3>1 DEF LagRun, Rested
  <2>2. CASE n = 0
    <3>1. /\ waited = secs * SEC /\ secs # -1 /\ Light(lag - waited - busy)
      BY <1>2, <2>2 DEF Times, LagInv, LagLoop
    <3>2. lag' = lag - waited
      BY <1>1, <2>2, <3>1 DEF Elapsed
    <3>3. CASE secs = 0
      <4>1. lag' <= MaxBusy + busy
        BY <1>3, <3>1, <3>2, <3>3 DEF Light
      <4>2. left' = Aged(sec)
        BY <1>1, <3>3 DEF Ages
      <4>3. NoneUp'
        <5> SUFFICES ASSUME NEW t \in Timer PROVE left'[t] # 0
          BY DEF NoneUp
        <5>1. Set(t) => left[t] \in Nat
          BY SetLeft DEF IInv
        <5> QED BY <4>2, <5>1 DEF Aged, Up, Unset
      <4> QED BY <1>2, <2>2, <4>1, <4>3 DEF LagRun, Rested
    <3>4. CASE secs # 0
      <4>1. lag' <= 2 * MaxBusy + busy
        BY <1>3, <3>1, <3>2, <3>4 DEF Light
      <4>2. tv_sec' > 0
        BY <1>1, <1>3, <2>2, <3>1, <3>4
      <4> QED BY <1>2, <2>2, <4>1, <4>2 DEF LagRun
    <3> QED BY <3>3, <3>4
  <2> QED BY <2>1, <2>2
<1> DEFINE X == sec * SEC
<1>6. X \in Nat /\ lag + behind = lag' + behind' + X
  BY <1>1, ProductNat
<1> HIDE DEF X
<1>7. ASSUME NEW t \in Timer, Set(t)
      PROVE  /\ left[t] * SEC \in Nat
             /\ left[t] * SEC - (lag + behind) <= dueIn[t]
             /\ dueIn[t] <= left[t] * SEC - (lag + behind) + SEC + 3 * MaxBusy
  BY <1>7, SetLeft DEF Times, Due, IInv
<1>8. Due'
  <2> SUFFICES ASSUME NEW t \in Timer, Set(t)'
               PROVE  /\ left'[t] * SEC - (lag' + behind') <= dueIn'[t]
                      /\ dueIn'[t] <= left'[t] * SEC - (lag' + behind') + SEC
                                        + 3 * MaxBusy
    BY DEF Due
  <2>1. Set(t) /\ left'[t] * SEC = left[t] * SEC - X
    <3>1. CASE left' = Aged(sec)
      <4>1. Set(t) /\ left'[t] = left[t] - sec
        BY <3>1 DEF Set, Aged, Unset
      <4>2. left[t] \in Nat
        BY <4>1, SetLeft DEF IInv
      <4>3. (left[t] - sec) * SEC = left[t] * SEC - sec * SEC
        BY <4>2
      <4> QED BY <4>1, <4>3 DEF X
    <3>2. CASE ~Ages(sec) /\ UNCHANGED queue
      <4>1. X = 0
        BY <3>2 DEF Ages, X
      <4>2. Set(t) /\ left'[t] = left[t]
        BY <3>2 DEF queue, Set
      <4>3. left[t] * SEC \in Nat
        BY <4>2, <1>7
      <4> QED BY <4>1, <4>2, <4>3
    <3> QED BY <1>1, <3>1, <3>2
  <2> DEFINE L == left[t] * SEC
  <2>2. /\ L \in Nat /\ L - (lag + behind) <= dueIn[t]
        /\ dueIn[t] <= L - (lag + behind) + SEC + 3 * MaxBusy
    BY <1>7, <2>1
  <2>3. left'[t] * SEC = L - X /\ dueIn'[t] = dueIn[t] /\ dueIn[t] \in Int
    BY <1>2, <1>3, <2>1
  <2> HIDE DEF L
  <2>4. /\ (L - X) - (lag' + behind') <= dueIn[t]
        /\ dueIn[t] <= (L - X) - (lag' + behind') + SEC + 3 * MaxBusy
    <3> DEFINE a == lag + behind
               b == lag' + behind'
               w == SEC + 3 * MaxBusy
    <3>1. /\ L \in Int /\ X \in Int /\ a \in Int /\ b \in Int /\ w \in Int
          /\ dueIn[t] \in Int /\ a = b + X
          /\ L - a <= dueIn[t] /\ dueIn[t] <= L - a + w
      BY <1>3, <1>4, <1>6, <2>2, <2>3
    <3> HIDE DEF a, b, w
    <3>2. (L - X) - b <= dueIn[t] /\ dueIn[t] <= (L - X) - b + w
      BY <3>1, Shifted
    <3> QED BY <1>4, <3>1, <3>2 DEF b, w
  <2> QED BY <2>3, <2>4
<1>9. lag + behind \in Int /\ lag + behind >= X
  <2>1. lag' \in Nat /\ behind' \in Nat
    BY <1>4
  <2>2. lag + behind \in Int /\ X \in Int
    BY <1>3, <1>6
  <2> QED BY <1>6, <2>1, <2>2, Passed
<1>10. Batch'
  <2>1. CASE ~Ages(sec) /\ UNCHANGED queue
    BY <1>2, <2>1 DEF Times, Batch, queue
  <2>2. CASE expired' = Up(sec)
    <3> SUFFICES ASSUME NEW t \in Up(sec)
                 PROVE  /\ dueIn[t] <= SEC + 3 * MaxBusy
                        /\ dueIn[t] >= -(SEC + 2 * MaxBusy + busy)
      BY <1>2, <2>2 DEF Batch
    <3>1. t \in Timer /\ Set(t) /\ left[t] <= sec /\ left[t] \in Nat
      BY SetLeft DEF Up, IInv
    <3> DEFINE L == left[t] * SEC
    <3>2. L <= X
      BY <3>1, Monotone DEF X
    <3>3. /\ L \in Nat /\ L - (lag + behind) <= dueIn[t]
          /\ dueIn[t] <= L - (lag + behind) + SEC + 3 * MaxBusy
          /\ dueIn[t] \in Int
      BY <1>3, <1>7, <3>1
    <3>4. lag <= L + 2 * MaxBusy + busy
      BY <3>1, LagOver DEF IInv, Times, Over
    <3> HIDE DEF L
    <3>5. dueIn[t] <= SEC + 3 * MaxBusy
      <4>2. L - (lag + behind) <= 0
        BY <1>6, <1>9, <3>2, <3>3
      <4> QED BY <1>3, <1>9, <3>3, <4>2
    <3>6. dueIn[t] >= -(SEC + 2 * MaxBusy + busy)
      <4>1. L - (lag + behind) >= -(SEC + 2 * MaxBusy + busy)
        BY <1>3, <3>3, <3>4
      <4> QED BY <1>3, <3>3, <4>1
    <3> QED BY <3>5, <3>6
  <2> QED BY <1>1, <2>1, <2>2
<1> QED BY <1>2, <1>5, <1>8, <1>10 DEF Times, LagInv

(* Timers that are set and cleared.                                        *)
LEMMA DueSet ==
  ASSUME TypeOK, Due, behind \in 0..SEC, lag <= 3 * MaxBusy,
         UNCHANGED <<lag, behind>>,
         NEW t \in Timer, NEW d \in Nat, SetTimer(t, d)
  PROVE  Due'
<1> USE MainLoopAssumption
<1> SUFFICES ASSUME NEW u \in Timer, Set(u)'
             PROVE  /\ left'[u] * SEC - (lag + behind) <= dueIn'[u]
                    /\ dueIn'[u] <= left'[u] * SEC - (lag + behind) + SEC
                                      + 3 * MaxBusy
  BY DEF Due
<1>1. CASE u = t
  <2> DEFINE D == d * SEC
  <2>1. D \in Nat /\ left'[u] * SEC = D /\ dueIn'[u] = D
    BY <1>1, ProductNat DEF TypeOK, SetTimer
  <2>2. lag \in Nat
    BY DEF TypeOK
  <2> HIDE DEF D
  <2> QED BY <2>1, <2>2
<1>2. CASE u # t
  <2>1. left'[u] = left[u] /\ dueIn'[u] = dueIn[u] /\ Set(u)
    BY <1>2 DEF TypeOK, SetTimer, Set
  <2> QED BY <2>1 DEF Due
<1> QED BY <1>1, <1>2

LEMMA DueCleared ==
  ASSUME TypeOK, Due, UNCHANGED <<lag, behind>>, NEW t \in Timer, Clear(t)
  PROVE  Due'
<1> SUFFICES ASSUME NEW u \in Timer, Set(u)'
             PROVE  /\ left'[u] * SEC - (lag + behind) <= dueIn'[u]
                    /\ dueIn'[u] <= left'[u] * SEC - (lag + behind) + SEC
                                      + 3 * MaxBusy
  BY DEF Due
<1>1. left'[u] = left[u] /\ dueIn'[u] = dueIn[u] /\ Set(u)
  BY DEF TypeOK, Clear, Set
<1> QED BY <1>1 DEF Due

LEMMA RunTimes ==
  ASSUME IInv, Times, NEW t \in Timer, Run(t) PROVE Times'
<1> USE MainLoopAssumption
<1>1. /\ UNCHANGED <<pc, mysignal, n, secs, tv_sec, behind, lag, waited, busy>>
      /\ pc = "run" /\ expired' = expired \ {t}
  BY DEF Run, clocks
<1>2. /\ TypeOK /\ LagRun /\ behind \in 0..SEC /\ busy \in 0..MaxBusy
      /\ lag \in Nat /\ dueIn \in [Timer -> Int] /\ expired \subseteq Timer
      /\ left \in [Timer -> Nat \union {Unset}]
  BY <1>1 DEF IInv, TypeOK, NothingLost, Times, LagInv
<1>3. lag <= 3 * MaxBusy
  BY <1>2 DEF LagRun, Rested
<1>4. \/ \E d \in Nat \ {0} : SetTimer(t, d)
      \/ \E u \in Timer : Clear(u)
      \/ UNCHANGED <<left, dueIn>>
  BY DEF Run, RunOther, timer, Timer
<1>5. /\ Due' /\ (NoneUp => NoneUp')
      /\ \A u \in Timer : u # t => dueIn'[u] = dueIn[u]
  <2>1. ASSUME NEW d \in Nat \ {0}, SetTimer(t, d)
        PROVE  /\ Due' /\ (NoneUp => NoneUp')
               /\ \A w \in Timer : w # t => dueIn'[w] = dueIn[w]
    <3>1. Due'
      BY <1>1, <1>2, <1>3, <2>1, DueSet DEF Times
    <3> QED BY <1>2, <2>1, <3>1 DEF SetTimer, NoneUp
  <2>2. ASSUME NEW u \in Timer, Clear(u) 
        PROVE  /\ Due' /\ (NoneUp => NoneUp')
               /\ \A w \in Timer : w # t => dueIn'[w] = dueIn[w]
    <3>1. Due'
      BY <1>1, <1>2, <2>2, DueCleared DEF Times
    <3> QED BY <1>2, <2>2, <3>1 DEF Clear, NoneUp, Unset
  <2>3. CASE UNCHANGED <<left, dueIn>>
    BY <1>1, <2>3, SameDue DEF Times, NoneUp
  <2> QED BY <1>4, <2>1, <2>2, <2>3
<1>6. LagRun'
  BY <1>1, <1>2, <1>5 DEF LagRun, Rested
<1>7. Batch'
  BY <1>1, <1>2, <1>5 DEF Times, Batch
<1> QED BY <1>1, <1>5, <1>6, <1>7 DEF Times, LagInv

LEMMA BatchDoneTimes ==
  ASSUME IInv, Times, BatchDone PROVE Times'
<1> USE MainLoopAssumption
<1>1. /\ UNCHANGED <<left, lag, behind, dueIn, expired, secs, waited, busy, n,
                     tv_sec>>
      /\ pc = "run" /\ expired = {}
      /\ pc' = IF tv_sec > 0 THEN "loop" ELSE IF n > 0 THEN "handle" ELSE "top"
  BY DEF BatchDone, queue, clocks
<1>2. Due' /\ Batch'
  BY <1>1, SameDue DEF Times, Batch
<1>3. LagRun /\ lag \in Nat /\ busy \in 0..MaxBusy
  BY <1>1 DEF Times, LagInv, IInv, TypeOK
<1>4. CASE tv_sec > 0
  <2>1. LagLoop'
    BY <1>1, <1>3 DEF LagRun, LagLoop, Rested
  <2> QED BY <1>1, <1>2, <1>4, <2>1 DEF Times, LagInv
<1>5. CASE ~(tv_sec > 0) /\ n > 0
  BY <1>1, <1>2, <1>3, <1>5 DEF Times, LagInv, LagRun
<1>6. CASE ~(tv_sec > 0) /\ ~(n > 0)
  <2>1. LagTop'
    BY <1>1, <1>3, <1>6 DEF LagRun, LagTop, Rested, NoneUp
  <2> QED BY <1>1, <1>2, <1>6, <2>1 DEF Times, LagInv
<1> QED BY <1>4, <1>5, <1>6

LEMMA HandleTimes ==
  ASSUME IInv, Times, Handle \/ HandlersDone PROVE Times'
<1> USE MainLoopAssumption
<1>1. /\ UNCHANGED <<lag, behind, expired, busy>>
      /\ pc = "handle" /\ pc' \in {"handle", "top"}
  BY DEF Handle, HandlersDone, queue, clocks
<1>2. /\ TypeOK /\ lag <= busy /\ behind \in 0..SEC /\ busy \in 0..MaxBusy
      /\ lag \in Nat /\ expired = {}
  BY <1>1 DEF IInv, TypeOK, NothingLost, Times, LagInv, Batch
<1>3. Due'
  <2>1. ASSUME NEW t \in Timer, NEW d \in Nat, SetTimer(t, d) PROVE Due'
    BY <1>1, <1>2, <2>1, DueSet DEF Times
  <2>2. ASSUME NEW t \in Timer, Clear(t) PROVE Due'
    BY <1>1, <1>2, <2>2, DueCleared DEF Times
  <2>3. CASE HandlersDone
    BY <1>1, <2>3, SameDue DEF HandlersDone, Times, queue
  <2> QED BY <2>1, <2>2, <2>3 DEF Handle, Timer
<1>4. Batch'
  BY <1>1, <1>2 DEF Batch
<1>5. LagInv'
  BY <1>1, <1>2 DEF LagInv, LagTop, Rested
<1> QED BY <1>3, <1>4, <1>5 DEF Times

LEMMA NextTimes == IInv /\ Times /\ [Next]_vars => Times'
<1> SUFFICES ASSUME IInv, Times, [Next]_vars PROVE Times'
  OBVIOUS
<1>1. CASE UNCHANGED vars
  BY <1>1
  DEF Times, LagInv, LagTop, LagSelect, LagWait, LagLoop, LagRun, Rested,
      NoneUp, Least, Full, Light, Over, Due, Batch, Set, vars, clocks, queue
<1>2. CASE Step
  BY <1>2, TopTimes, SelectTimes, ReturnTimes, LoopTimes, RunTimes,
     BatchDoneTimes, HandleTimes DEF Step
<1>3. CASE Tick \/ Packet \/ Handle \/ handler
  BY <1>3, TickTimes, ReturnTimes, HandleTimes, HandlerTimes
<1> QED BY <1>1, <1>2, <1>3 DEF Next

LEMMA MainLoopTimes == Spec => [](IInv /\ Times)
BY InitIInv, NextIInv, InitTimes, NextTimes, PTL DEF Spec

(* However slow handlers and timer functions are, and whatever the         *)
(* microseconds of the clock, a timer is at most a second and three times  *)
(* the work between two waits early: it is set while the clock was not     *)
(* looked at for that long (main.c:92-136, callout.c:113).                 *)
THEOREM MainLoopNotEarly == Spec => []NotEarly
<1>1. IInv /\ Times => NotEarly
  BY DEF Times, Batch, NotEarly
<1> QED BY <1>1, MainLoopTimes, PTL

(* And at most as much late (main.c:92-136).                               *)
THEOREM MainLoopNotLate == Spec => []NotLate
<1>1. ASSUME IInv, Times PROVE NotLate
  <2> USE MainLoopAssumption
  <2>1. /\ lag \in Nat /\ busy \in 0..MaxBusy /\ behind \in 0..SEC
        /\ dueIn \in [Timer -> Int]
    BY <1>1 DEF IInv, TypeOK, NothingLost
  <2> SUFFICES ASSUME NEW t \in Timer, Set(t) \/ t \in expired
               PROVE  dueIn[t] >= -(SEC + 3 * MaxBusy)
    BY DEF NotLate
  <2>2. CASE t \in expired
    <3>1. dueIn[t] >= -(SEC + 2 * MaxBusy + busy)
      BY <1>1, <2>2 DEF Times, Batch
    <3> QED BY <2>1, <3>1
  <2>3. CASE Set(t)
    <3> DEFINE L == left[t] * SEC
    <3>1. L \in Nat /\ L - (lag + behind) <= dueIn[t]
      BY <1>1, <2>3, SetLeft DEF Times, Due, IInv
    <3>2. lag <= L + 2 * MaxBusy + busy
      BY <1>1, <2>3, LagOver DEF IInv, Times, Over
    <3> HIDE DEF L
    <3> QED BY <2>1, <3>1, <3>2
  <2> QED BY <2>2, <2>3
<1>2. IInv /\ Times => NotLate
  BY <1>1
<1> QED BY <1>2, MainLoopTimes, PTL
=============================================================================
