------------------------------- MODULE Hello --------------------------------
(***************************************************************************)
(* The Hellos of the routers of a subnet (pim.c) and what one of them, the *)
(* router of module Neighbor, knows of the others in the course of time.   *)
(* Hellos are lost, routers crash, say goodbye and start again.            *)
(*                                                                         *)
(* Time is counted in units of which PIM_HELLO_PERIOD has Period; it       *)
(* passes when no Hello and no timer is due.                               *)
(***************************************************************************)
EXTENDS Neighbor

CONSTANTS
  Options,  \* the options in the Hellos of each router
  Period,   \* PIM_HELLO_PERIOD
  Polite    \* routers that say goodbye; this daemon never does

VARIABLES
  up,       \* the routers that run
  hello,    \* the time to the next Hello of each
  left,     \* the time left of the timer of each entry
  missed    \* history: Hellos lost in a row, at most 3; 3 once a router has
            \* stopped, until it is heard again

subnet == <<up, hello>>
helloVars == <<vars, subnet, left, missed>>

-----------------------------------------------------------------------------
(* The holdtime among the options of a Hello: that of the first option of  *)
(* type 1, if its length is right.                                         *)
get_hold_time(options) ==
  LET at == {n \in 1..Len(options) : options[n].type = 1}
      first == CHOOSE n \in at : \A m \in at : n <= m
  IN  IF at = {} THEN -1
      ELSE IF options[first].length # 2 THEN -1
      ELSE options[first].holdtime

HELLO_TIME(r) == get_hold_time(Options[r])

(* pimdm.h:3: the holdtime of every router is more than three periods.     *)
ASSUME HelloAssumption ==
  /\ Period \in Nat \ {0}
  /\ Polite \subseteq Router
  /\ 0 \in Holdtime
  /\ \A r \in Router : HELLO_TIME(r) \in Holdtime /\ HELLO_TIME(r) > 3 * Period

HelloTypeOK ==
  /\ up \subseteq Router
  /\ hello \in [Router -> 0..Period]
  /\ left \in [Entry -> Nat]
  /\ missed \in [Router -> 0..3]

(* active_vifs: the first Hello is sent at once.                           *)
HelloInit ==
  /\ Init
  /\ up = Router
  /\ hello = [r \in Router |-> 0]
  /\ left = [e \in Entry |-> 0]
  /\ missed = [r \in Router |-> 3]

-----------------------------------------------------------------------------
(* The timer of the entry that a Hello adds or refreshes; a holdtime of -1 *)
(* is overdue.  The slip is to leave a timer that is set as it is.         *)
KeepsTimer(r, hold) ==
  [e \in Entry |->
     IF e \in Entries' /\ address'[e] = r /\ e \notin timers
     THEN IF hold > 0 THEN hold ELSE 0
     ELSE left[e]]

SetsTimer(r, hold) ==
  [e \in Entry |->
     IF e \in Entries' /\ address'[e] = r
     THEN IF hold > 0 THEN hold ELSE 0
     ELSE left[e]]

(* A Hello arrives, or is lost; a crashed daemon hears none.               *)
Hears(r, hold) ==
  /\ receive_hello(r, hold)
  /\ left' = SetsTimer(r, hold)
  /\ missed' = [missed EXCEPT ![r] = IF hold = 0 THEN 3 ELSE 0]

Misses(r, hold) ==
  /\ missed' = [missed EXCEPT ![r] = IF hold = 0 \/ @ = 3 THEN 3 ELSE @ + 1]
  /\ UNCHANGED <<vars, left>>

(* The timer for the next Hello is set before this one is sent.            *)
pim_hello_output(r) ==
  /\ alive /\ r \in up /\ hello[r] = 0
  /\ hello' = [hello EXCEPT ![r] = Period]
  /\ UNCHANGED up

HelloHeard(r) == pim_hello_output(r) /\ Hears(r, HELLO_TIME(r))
HelloLost(r) == pim_hello_output(r) /\ Misses(r, HELLO_TIME(r))

Stops(r) ==
  /\ alive /\ r \in up
  /\ up' = up \ {r}
  /\ hello' = [hello EXCEPT ![r] = 0]
  /\ \/ /\ missed' = [missed EXCEPT ![r] = 3]
        /\ UNCHANGED <<vars, left>>
     \/ r \in Polite /\ Hears(r, 0)

(* A router that starts sends a Hello at once.                             *)
Starts(r) ==
  /\ alive /\ r \notin up
  /\ up' = up \union {r}
  /\ UNCHANGED <<vars, hello, left, missed>>

TimerExpires(e) ==
  /\ left[e] = 0
  /\ TimesOut(e)
  /\ UNCHANGED <<subnet, left, missed>>

Tick ==
  /\ alive
  /\ \A r \in up : hello[r] > 0
  /\ \A e \in timers : left[e] > 0
  /\ hello' = [r \in Router |-> IF r \in up THEN hello[r] - 1 ELSE 0]
  /\ left' = [e \in Entry |-> IF e \in timers THEN left[e] - 1 ELSE 0]
  /\ UNCHANGED <<vars, up, missed>>

Faults == \E r \in Router : HelloLost(r) \/ Stops(r) \/ Starts(r)

HelloNext ==
  \/ \E r \in Router : HelloHeard(r)
  \/ Faults
  \/ \E e \in Entry : TimerExpires(e)
  \/ Tick

(* Hellos are sent, timers expire, and time passes.                        *)
HelloSpec ==
  /\ HelloInit /\ [][HelloNext]_helloVars
  /\ \A r \in Router : WF_helloVars(HelloHeard(r) \/ HelloLost(r))
  /\ \A e \in Entry : WF_helloVars(TimerExpires(e))
  /\ WF_helloVars(Tick)

-----------------------------------------------------------------------------
(* As long as no timer of an entry that is off the list is set, neighbours *)
(* go only when one of them stops, has stopped, or three of its Hellos in  *)
(* a row were lost: the holdtime bridges two losses, whatever else is      *)
(* removed, refreshed and added meanwhile (pimdm.h:3, pim.c:192-311).      *)
KeptWhileHeard ==
  [][\A r \in Router : timers \subseteq Entries /\ Known(r) /\ ~Known(r)' =>
       \E s \in Router :
         /\ Known(s) /\ ~Known(s)'
         /\ missed[s] = 3 \/ s \notin up']_helloVars

(* Once Hellos are no longer lost a router that runs is known, or known    *)
(* again before long whenever a stale timer has removed it, and a router   *)
(* that has stopped is forgotten for good (pim.c:192-311).                 *)
Converges ==
  <>[][~Faults]_helloVars =>
    \A r \in Router :
      /\ []<>(alive /\ r \in up => Known(r))
      /\ <>[](alive /\ r \notin up => ~Known(r))
=============================================================================
