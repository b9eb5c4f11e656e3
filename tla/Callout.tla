------------------------------ MODULE Callout -------------------------------
(***************************************************************************)
(* The callout queue of callout.c: a list of timers in the order of their  *)
(* deadlines, each carrying the time that separates it from the one before *)
(* it.  age_callout_queue detaches the expired prefix of the list (expQ)   *)
(* and then runs its functions one by one; these functions and the packet  *)
(* handlers set and clear timers.                                          *)
(***************************************************************************)
EXTENDS Integers, SequencesExt

CONSTANTS
  Delays,    \* the delays callers ask for; -1 is a Hello without holdtime
  Elapsed,   \* the seconds main() may hand to age_callout_queue
  MaxId      \* bound on the timers set in one behaviour

ASSUME CalloutAssumption ==
  /\ Delays \subseteq Nat \union {-1}
  /\ Elapsed \subseteq Nat
  /\ MaxId \in Nat \ {0}

VARIABLES
  Q,         \* the queue, a sequence of [id, time]
  expQ,      \* identifiers of the expired timers that are not freed yet
  running,   \* the timer whose function is running, 0 if none is
  id,        \* static int id
  cleared    \* history: the timers timer_clearTimer was called for

vars == <<Q, expQ, running, id, cleared>>

Node == [id : 1..MaxId, time : Int]

TypeOK ==
  /\ Q \in Seq(Node)
  /\ expQ \in Seq(1..MaxId)
  /\ running \in 0..MaxId
  /\ id \in 0..MaxId
  /\ cleared \subseteq 1..MaxId

Init ==
  /\ Q = << >>
  /\ expQ = << >>
  /\ running = 0
  /\ id = 0
  /\ cleared = {}

-----------------------------------------------------------------------------
(* The time until the n-th timer of q is due: its own offset and those of  *)
(* every timer before it.                                                  *)
Due(q, n) ==
  LET sum[k \in 0..Len(q)] == IF k = 0 THEN 0 ELSE sum[k-1] + q[k].time
  IN  sum[n]

FirstIndex(q, Test(_)) ==
  CHOOSE n \in 1..Len(q) : Test(n) /\ \A m \in 1..n-1 : ~Test(m)

(* timer_setTimer: walk the queue, using up the delay, to the first timer  *)
(* that is due strictly later; that timer becomes relative to the new one. *)
Insert(q, newId, delay) ==
  LET Later(n) == delay < Due(q, n)
      at == IF \E n \in 1..Len(q) : Later(n) THEN FirstIndex(q, Later)
                                             ELSE Len(q) + 1
      node == [id |-> newId, time |-> delay - Due(q, at - 1)]
      rest == IF at > Len(q) THEN q
                             ELSE [q EXCEPT ![at].time = @ - node.time]
  IN  InsertAt(rest, at, node)

(* timer_clearTimer: unlink the timer; the next one inherits its offset,   *)
(* which the slip forgets.                                                 *)
DeleteUnbumped(q, oldId) == SelectSeq(q, LAMBDA node : node.id # oldId)

Delete(q, oldId) ==
  LET Is(n) == q[n].id = oldId
      at == FirstIndex(q, Is)
      bumped == IF at < Len(q) THEN [q EXCEPT ![at + 1].time = @ + q[at].time]
                               ELSE q
  IN  IF \E n \in 1..Len(q) : Is(n) THEN RemoveAt(bumped, at) ELSE q

(* The loop of age_callout_queue: the number of timers at the front that   *)
(* expire when e seconds have passed, and the queue that remains; the slip *)
(* of AgedByOneMore loses a timer between the two.                         *)
ExpiredPrefix(q, e) ==
  LET Remains(n) == Due(q, n) > e
  IN  IF \E n \in 1..Len(q) : Remains(n) THEN FirstIndex(q, Remains) - 1
                                         ELSE Len(q)

AgedByOneMore(q, e) ==
  LET k == ExpiredPrefix(q, e)
      rest == SubSeq(q, k + 2, Len(q))
  IN  IF rest = << >> THEN rest
                      ELSE [rest EXCEPT ![1].time = @ - (e - Due(q, k))]

Aged(q, e) ==
  LET k == ExpiredPrefix(q, e)
      rest == SubSeq(q, k + 1, Len(q))
  IN  IF rest = << >> THEN rest
                      ELSE [rest EXCEPT ![1].time = @ - (e - Due(q, k))]

timer_leftTimer(q, theId) ==
  IF \E n \in 1..Len(q) : q[n].id = theId
  THEN Due(q, CHOOSE n \in 1..Len(q) : q[n].id = theId)
  ELSE -1

timer_nextTimer ==
  IF Q = << >> THEN -1 ELSE IF Q[1].time < 0 THEN 0 ELSE Q[1].time

-----------------------------------------------------------------------------
CallerActive == expQ = << >> \/ running # 0

(* Setting a timer; the slip links it under the identifier before the new. *)
SetTimerOldId(delay) ==
  /\ CallerActive
  /\ id < MaxId
  /\ id' = id + 1
  /\ Q' = Insert(Q, id, delay)
  /\ UNCHANGED <<expQ, running, cleared>>

timer_setTimer(delay) ==
  /\ CallerActive
  /\ id < MaxId
  /\ id' = id + 1
  /\ Q' = Insert(Q, id', delay)
  /\ UNCHANGED <<expQ, running, cleared>>

timer_clearTimer(theId) ==
  /\ CallerActive
  /\ theId \in 1..id
  /\ Q' = Delete(Q, theId)
  /\ cleared' = cleared \union {theId}
  /\ UNCHANGED <<expQ, running, id>>

(* main() ages the queue when a second has passed, or when select() was    *)
(* told not to wait because the first timer is overdue.                    *)
age_callout_queue(e) ==
  /\ expQ = << >>
  /\ e > 0 \/ timer_nextTimer = 0
  /\ expQ' = [n \in 1..ExpiredPrefix(Q, e) |-> Q[n].id]
  /\ Q' = Aged(Q, e)
  /\ UNCHANGED <<running, id, cleared>>

RunExpired ==
  /\ expQ # << >> /\ running = 0
  /\ running' = Head(expQ)
  /\ UNCHANGED <<Q, expQ, id, cleared>>

FreeExpired ==
  /\ running # 0
  /\ running' = 0
  /\ expQ' = Tail(expQ)
  /\ UNCHANGED <<Q, id, cleared>>

Next ==
  \/ \E d \in Delays : timer_setTimer(d)
  \/ \E i \in 1..MaxId : timer_clearTimer(i)
  \/ \E e \in Elapsed : age_callout_queue(e)
  \/ RunExpired
  \/ FreeExpired

(* Time passes while timers wait, and a batch that has started is run to   *)
(* its end: main() does nothing else until age_callout_queue returns.      *)
Fairness ==
  /\ WF_vars(\E e \in Elapsed \ {0} : age_callout_queue(e))
  /\ WF_vars(RunExpired)
  /\ WF_vars(FreeExpired)

Spec == Init /\ [][Next]_vars /\ Fairness

-----------------------------------------------------------------------------
InQueue(i) == \E n \in 1..Len(Q) : Q[n].id = i

TimersIn(q) == {q[n].id : n \in 1..Len(q)}

(* The queue of relative offsets, set against absolute times left.         *)
Abstract == INSTANCE Timers
              WITH left <- [i \in TimersIn(Q) |-> timer_leftTimer(Q, i)],
                   due <- expQ, running <- running, lastId <- id

(* The delta queue implements the timers its callers believe in: every     *)
(* operation moves every deadline exactly as if it were stored on its own, *)
(* and a batch runs in deadline order (callout.c, the whole file).         *)
ImplementsTimers == Abstract!Spec

(* Every timer that was set is run unless it is cleared: neither an        *)
(* insertion in front of it nor a deletion next to it may lose it or put   *)
(* it off for ever (callout.c:145-171, callout.c:210-230).                 *)
EveryTimerRuns ==
  \A i \in 1..MaxId : InQueue(i) ~> (running = i \/ i \in cleared)
=============================================================================
