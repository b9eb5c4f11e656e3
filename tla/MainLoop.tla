------------------------------ MODULE MainLoop ------------------------------
(***************************************************************************)
(* The main loop (main.c): how long select may wait, what it takes for     *)
(* elapsed time, when the timers are aged, and how a signal ends it.       *)
(*                                                                         *)
(* The queue of timers is what module Timers promises of it.  The clock is *)
(* divided into SEC ticks a second, the microseconds of timeval, and never *)
(* goes backwards; times are relative, so that the model is finite.        *)
(***************************************************************************)
EXTENDS Integers

CONSTANTS
  SEC,       \* ticks in a second
  Period,    \* the seconds after which timer() runs again
  Other,     \* the other timers of the daemon
  Delays,    \* the delays, in seconds, they are set to
  MaxBusy    \* bound: ticks the loop works between two waits

Timer == {"timer"} \union Other
Unset == -1

ASSUME MainLoopAssumption ==
  /\ {SEC, Period} \subseteq Nat \ {0}
  /\ MaxBusy \in Nat
  /\ Delays \subseteq Nat
  /\ "timer" \notin Other

VARIABLES
  pc,        \* where the loop is
  mysignal,
  n,         \* what select returned: packets (1), a timeout (0) or neither
  secs,      \* the timeout of select, -1 for none
  tv_sec, tv_usec,  \* difftime
  phase,     \* the microseconds of lasttime
  lag,       \* the time that has passed since lasttime
  left,      \* seconds left of each timer, as the queue knows them
  expired,   \* the batch being run
  waited,    \* ticks spent in select
  busy,      \* ticks worked since select
  behind,    \* history: lasttime minus the time the queue was aged to
  dueIn      \* history: ticks until each timer should run

clocks == <<tv_sec, tv_usec, phase, behind>>
queue == <<left, expired>>
vars == <<pc, mysignal, n, secs, clocks, lag, queue, waited, busy, dueIn>>

Set(t) == left[t] # Unset

TypeOK ==
  /\ pc \in {"top", "select", "wait", "loop", "run", "handle", "exit"}
  /\ mysignal \in BOOLEAN
  /\ n \in -1..1
  /\ secs \in Int /\ secs >= -1
  /\ tv_sec \in Nat /\ tv_usec \in 0..SEC
  /\ phase \in 0..SEC-1
  /\ lag \in Nat
  /\ left \in [Timer -> Nat \union {Unset}]
  /\ expired \subseteq Timer
  /\ waited \in Nat /\ busy \in 0..MaxBusy
  /\ behind \in Int
  /\ dueIn \in [Timer -> Int]

Init ==
  /\ pc = "top"
  /\ mysignal = FALSE
  /\ n = -1 /\ secs = -1
  /\ tv_sec = 0 /\ tv_usec = 0
  /\ phase \in 0..SEC-1
  /\ lag = 0
  /\ left = [t \in Timer |-> IF t = "timer" THEN Period ELSE Unset]
  /\ expired = {}
  /\ waited = 0 /\ busy = 0
  /\ behind = 0
  /\ dueIn = [t \in Timer |-> IF t = "timer" THEN Period * SEC ELSE 0]

-----------------------------------------------------------------------------
(* The top of the loop: timer_nextTimer, and the test of mysignal.         *)
First(t) == Set(t) /\ \A u \in Timer : Set(u) => left[t] <= left[u]

NextTimer(s) ==
  \/ (\A t \in Timer : ~Set(t)) /\ s = -1
  \/ \E t \in Timer : First(t) /\ s = left[t]

Top ==
  /\ pc = "top"
  /\ pc' = IF mysignal THEN "exit" ELSE "select"
  /\ \E s \in {left[t] : t \in Timer} : NextTimer(s) /\ secs' = s
  /\ UNCHANGED <<mysignal, n, clocks, lag, queue, waited, busy, dueIn>>

(* A signal that arrives between the test and select goes unnoticed.       *)
Select ==
  /\ pc = "select"
  /\ pc' = "wait"
  /\ waited' = 0 /\ busy' = 0
  /\ UNCHANGED <<mysignal, n, secs, clocks, lag, queue, dueIn>>

Timeout ==
  /\ pc = "wait"
  /\ secs # -1 /\ waited = secs * SEC
  /\ pc' = "loop"
  /\ n' = 0
  /\ UNCHANGED <<mysignal, secs, clocks, lag, queue, waited, busy, dueIn>>

Packet ==
  /\ pc = "wait"
  /\ pc' = "loop"
  /\ n' = 1
  /\ UNCHANGED <<mysignal, secs, clocks, lag, queue, waited, busy, dueIn>>

(* handler; select, when it is interrupted, returns -1 and starts over.    *)
handler ==
  /\ pc # "exit"
  /\ mysignal' = TRUE
  /\ pc' = IF pc = "wait" THEN "top" ELSE pc
  /\ UNCHANGED <<n, secs, clocks, lag, queue, waited, busy, dueIn>>

(* Time passes while the loop waits and while it works.  Without a timer   *)
(* there would be nothing to be late for: no time is counted then.         *)
Tick ==
  /\ \/ pc = "wait" /\ waited < secs * SEC
     \/ pc \notin {"wait", "exit"} /\ busy < MaxBusy
  /\ IF pc = "wait"
     THEN waited' = waited + 1 /\ UNCHANGED busy
     ELSE busy' = busy + 1 /\ UNCHANGED waited
  /\ lag' = lag + 1
  /\ dueIn' = [t \in Timer |->
                 dueIn[t] - (IF Set(t) \/ t \in expired THEN 1 ELSE 0)]
  /\ UNCHANGED <<pc, mysignal, n, secs, clocks, queue>>

-----------------------------------------------------------------------------
(* The time curtime is ahead of lasttime.  After a timeout the loop does   *)
(* not look at the clock, it adds the timeout.                             *)
Elapsed == IF n = 0 THEN secs * SEC ELSE lag

(* lasttime = curtime, and the slip of forgetting it.                      *)
LagKept == lag

LagLeft == lag - Elapsed

(* The microseconds accumulate; the slip of starting them afresh.          *)
UsecFresh(p) == p - phase

Usec(p) == tv_usec + p - phase

(* Seconds carried from and to the microseconds, which may be negative.    *)
Carry(usec) == IF usec > SEC THEN 1 ELSE IF usec < 0 THEN -1 ELSE 0

AgesLater(sec) == sec > 0

Ages(sec) == secs = 0 \/ sec > 0

(* age_callout_queue: what is up, and what is left of the others.          *)
Up(sec) == {t \in Timer : Set(t) /\ left[t] <= sec}

Aged(sec) ==
  [t \in Timer |->
     IF t \in Up(sec) THEN Unset
     ELSE IF Set(t) THEN left[t] - sec ELSE Unset]

(* The body of the do loop: s and p are the seconds and microseconds by    *)
(* which the clock reading is later than lasttime's second.                *)
Loop ==
  /\ pc = "loop"
  /\ pc' = "run"
  /\ n' = IF n = 0 THEN -1 ELSE n
  /\ secs' = -1
  /\ lag' = LagLeft
  /\ \E s \in 0..(phase + Elapsed), p \in 0..SEC-1 :
       LET usec == Usec(p)
           sec == s + Carry(usec)
       IN  /\ s * SEC + p = phase + Elapsed
           /\ phase' = p
           /\ tv_sec' = sec
           /\ tv_usec' = usec - Carry(usec) * SEC
           /\ \/ /\ Ages(sec)
                 /\ expired' = Up(sec)
                 /\ left' = Aged(sec)
                 /\ behind' = behind + Elapsed - sec * SEC
              \/ /\ ~Ages(sec)
                 /\ behind' = behind + Elapsed
                 /\ UNCHANGED queue
  /\ UNCHANGED <<mysignal, waited, busy, dueIn>>

-----------------------------------------------------------------------------
(* timer_setTimer and timer_clearTimer.                                    *)
SetTimer(t, delay) ==
  /\ left' = [left EXCEPT ![t] = delay]
  /\ dueIn' = [dueIn EXCEPT ![t] = delay * SEC]

Clear(t) ==
  /\ left' = [left EXCEPT ![t] = Unset]
  /\ UNCHANGED dueIn

(* timer sets itself again, so that select never waits longer than its     *)
(* period; and the slip of running once.                                   *)
timer_once == UNCHANGED <<left, dueIn>>

timer == SetTimer("timer", Period)

(* A function of the batch; no function of the daemon sets a timer to 0.   *)
RunOther(t) ==
  \/ \E d \in Delays \ {0} : ~Set(t) /\ SetTimer(t, d)
  \/ \E u \in Other : u # t /\ Set(u) /\ Clear(u)
  \/ UNCHANGED <<left, dueIn>>

Run(t) ==
  /\ pc = "run"
  /\ t \in expired
  /\ expired' = expired \ {t}
  /\ IF t = "timer" THEN timer ELSE RunOther(t)
  /\ UNCHANGED <<pc, mysignal, n, secs, clocks, lag, waited, busy>>

(* The end of the do loop.                                                 *)
BatchDone ==
  /\ pc = "run" /\ expired = {}
  /\ pc' = IF tv_sec > 0 THEN "loop" ELSE IF n > 0 THEN "handle" ELSE "top"
  /\ UNCHANGED <<mysignal, n, secs, clocks, lag, queue, waited, busy, dueIn>>

(* A packet handler sets and clears timers.                                *)
Handle ==
  /\ pc = "handle"
  /\ \E t \in Other :
       \/ \E d \in Delays : ~Set(t) /\ SetTimer(t, d)
       \/ Set(t) /\ Clear(t)
  /\ UNCHANGED <<pc, mysignal, n, secs, clocks, lag, expired, waited, busy>>

HandlersDone ==
  /\ pc = "handle"
  /\ pc' = "top"
  /\ UNCHANGED <<mysignal, n, secs, clocks, lag, queue, waited, busy, dueIn>>

Step ==
  \/ Top \/ Select \/ Timeout \/ Loop
  \/ \E t \in Timer : Run(t)
  \/ BatchDone \/ HandlersDone

Next == Step \/ Tick \/ Packet \/ Handle \/ handler

(* The processor runs the loop, and time passes.                           *)
Spec == Init /\ [][Next]_vars /\ WF_vars(Step) /\ WF_vars(Tick)

-----------------------------------------------------------------------------
(* No time is lost or counted twice: what the queue has not been told of   *)
(* yet is exactly the microseconds carried over, whichever way select      *)
(* returned, however long a batch took and wherever the carry fell         *)
(* (main.c:109-136).                                                       *)
NothingLost == behind = tv_usec

(* A timer runs a second early at most, but for the time the loop worked   *)
(* since it last looked at the clock when the timer was set: handlers, a   *)
(* batch of timers that were due at once, and the batch after the next     *)
(* timeout may go by in between (main.c:111-134, callout.c:113).           *)
NotEarly == \A t \in expired : dueIn[t] <= SEC + 3 * MaxBusy

(* A timer runs at most a second late, but for the time the loop worked    *)
(* meanwhile, which select's full timeout does not make up for             *)
(* (main.c:92-134).                                                        *)
NotLate ==
  \A t \in Timer :
    Set(t) \/ t \in expired => dueIn[t] >= -(SEC + 3 * MaxBusy)

(* SIGINT and SIGTERM end the daemon (main.c:17-21, 101), also when they   *)
(* come between the test of mysignal and select.                           *)
ShutsDown == mysignal ~> pc = "exit"
=============================================================================
