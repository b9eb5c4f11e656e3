------------------------------- MODULE Timers -------------------------------
(***************************************************************************)
(* What callout.c promises its callers, with no queue in sight: a set of   *)
(* pending timers, each with the time it has left.  When time passes, the  *)
(* timers whose time is up form a batch that is run in the order of their  *)
(* deadlines (first set, first run among equals).  The action of a timer   *)
(* may set and clear other timers; clearing reaches pending timers only,   *)
(* so a timer already in the batch runs whatever is done to it.            *)
(***************************************************************************)
EXTENDS Integers, Sequences

CONSTANTS Delays, Elapsed, MaxId

VARIABLES
  left,      \* pending timer |-> time left
  due,       \* the timers of the current batch that have not returned
  running,   \* the timer whose action is running, 0 if none is
  lastId     \* the identifier given last

vars == <<left, due, running, lastId>>

Pending == DOMAIN left

Init ==
  /\ left = << >>
  /\ due = << >>
  /\ running = 0
  /\ lastId = 0

(* Timers are set and cleared by packet handlers, between two batches, and *)
(* by the action of a timer of the batch.                                  *)
CallerActive == due = << >> \/ running # 0

Earlier(i, j) == left[i] < left[j] \/ (left[i] = left[j] /\ i < j)

(* The timers that are up, each once, the first deadline first.            *)
InOrder(batch, up) ==
  /\ batch \in Seq(up)
  /\ \A i \in up : \E n \in 1..Len(batch) : batch[n] = i
  /\ \A m, n \in 1..Len(batch) : m < n => Earlier(batch[m], batch[n])

Set(delay) ==
  /\ CallerActive
  /\ lastId < MaxId
  /\ lastId' = lastId + 1
  /\ left' = [i \in Pending \union {lastId'} |->
                IF i = lastId' THEN delay ELSE left[i]]
  /\ UNCHANGED <<due, running>>

Clear(i) ==
  /\ CallerActive
  /\ left' = [j \in Pending \ {i} |-> left[j]]
  /\ UNCHANGED <<due, running, lastId>>

Elapse(e) ==
  /\ due = << >>
  /\ LET up == {i \in Pending : left[i] <= e}
     IN  /\ InOrder(due', up)
         /\ left' = [i \in Pending \ up |-> left[i] - e]
  /\ UNCHANGED <<running, lastId>>

Run ==
  /\ due # << >> /\ running = 0
  /\ running' = Head(due)
  /\ UNCHANGED <<left, due, lastId>>

Return ==
  /\ running # 0
  /\ running' = 0
  /\ due' = Tail(due)
  /\ UNCHANGED <<left, lastId>>

Next ==
  \/ \E d \in Delays : Set(d)
  \/ \E i \in 1..MaxId : Clear(i)
  \/ \E e \in Elapsed : Elapse(e)
  \/ Run
  \/ Return

Spec == Init /\ [][Next]_vars
=============================================================================
