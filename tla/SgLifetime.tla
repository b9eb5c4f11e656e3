----------------------------- MODULE SgLifetime -----------------------------
(***************************************************************************)
(* How long a table entry lives (add_sg, check_sg, handle_sg_timeout and   *)
(* delete_sg of mrt.c, k_get_sg_cnt of kern.c), with the time that module  *)
(* Mrt leaves out.  An entry is deleted PIM_SG_TIMEOUT after it was made   *)
(* or last found busy; every PIM_SG_CHECK it is looked at, and it is busy  *)
(* when the kernel's count of its packets exceeds packet_number, a global  *)
(* variable that holds the count of whatever entry was busy last.          *)
(***************************************************************************)
EXTENDS Integers

CONSTANTS
  Flow,            \* the (S,G) pairs
  PIM_SG_TIMEOUT,
  PIM_SG_CHECK,
  MaxCount         \* bound: packets the kernel counts for one entry

ASSUME SgLifetimeAssumption ==
  /\ {PIM_SG_TIMEOUT, PIM_SG_CHECK, MaxCount} \subseteq Nat \ {0}
  /\ PIM_SG_CHECK < PIM_SG_TIMEOUT
  /\ PIM_SG_TIMEOUT % PIM_SG_CHECK # 0

VARIABLES
  table,          \* the flows that have an entry
  count,          \* the kernel's packet count of each entry
  packet_number,
  timeoutLeft,    \* time to handle_sg_timeout
  checkLeft,      \* time to check_sg
  idle            \* history: checks in a row that found the entry not busy

lvars == <<table, count, packet_number, timeoutLeft, checkLeft, idle>>

MaxChecks == PIM_SG_TIMEOUT \div PIM_SG_CHECK

LifetimeTypeOK ==
  /\ table \subseteq Flow
  /\ count \in [Flow -> 0..MaxCount]
  /\ packet_number \in 0..MaxCount
  /\ timeoutLeft \in [Flow -> 0..PIM_SG_TIMEOUT]
  /\ checkLeft \in [Flow -> 0..PIM_SG_CHECK]
  /\ idle \in [Flow -> 0..MaxChecks]

LifetimeInit ==
  /\ table = {}
  /\ count = [f \in Flow |-> 0]
  /\ packet_number = 0
  /\ timeoutLeft = [f \in Flow |-> 0]
  /\ checkLeft = [f \in Flow |-> 0]
  /\ idle = [f \in Flow |-> 0]

-----------------------------------------------------------------------------
(* A packet of a flow without an entry makes the kernel call add_sg, and   *)
(* the packet is forwarded as soon as the kernel knows the way.            *)
add_sg(f) ==
  /\ f \notin table
  /\ table' = table \union {f}
  /\ count' = [count EXCEPT ![f] = 1]
  /\ timeoutLeft' = [timeoutLeft EXCEPT ![f] = PIM_SG_TIMEOUT]
  /\ checkLeft' = [checkLeft EXCEPT ![f] = PIM_SG_CHECK]
  /\ idle' = [idle EXCEPT ![f] = 0]
  /\ UNCHANGED packet_number

Forward(f) ==
  /\ f \in table
  /\ count[f] < MaxCount
  /\ count' = [count EXCEPT ![f] = @ + 1]
  /\ UNCHANGED <<table, packet_number, timeoutLeft, checkLeft, idle>>

(* A second passes once the timers that are due have run.                  *)
Tick ==
  /\ \A f \in table : timeoutLeft[f] > 0 /\ checkLeft[f] > 0
  /\ timeoutLeft' = [f \in Flow |->
                       timeoutLeft[f] - (IF f \in table THEN 1 ELSE 0)]
  /\ checkLeft' = [f \in Flow |->
                     checkLeft[f] - (IF f \in table THEN 1 ELSE 0)]
  /\ UNCHANGED <<table, count, packet_number, idle>>

(* Busy, by the code; and the slip of comparing with less care.            *)
BusyOrEqual(f) == count[f] >= packet_number

Busy(f) == count[f] > packet_number

(* The timeout restarts for a busy entry; and the slip of never doing so.  *)
TimeoutKept(f) == timeoutLeft

TimeoutAfter(f) ==
  [timeoutLeft EXCEPT ![f] = IF Busy(f) THEN PIM_SG_TIMEOUT ELSE @]

check_sg(f) ==
  /\ f \in table /\ checkLeft[f] = 0
  /\ packet_number' = IF Busy(f) THEN count[f] ELSE packet_number
  /\ timeoutLeft' = TimeoutAfter(f)
  /\ checkLeft' = [checkLeft EXCEPT ![f] = PIM_SG_CHECK]
  /\ idle' = [idle EXCEPT ![f] = IF Busy(f) THEN 0
                                 ELSE IF @ < MaxChecks THEN @ + 1 ELSE @]
  /\ UNCHANGED <<table, count>>

handle_sg_timeout(f) ==
  /\ f \in table /\ timeoutLeft[f] = 0
  /\ table' = table \ {f}
  /\ count' = [count EXCEPT ![f] = 0]
  /\ timeoutLeft' = [timeoutLeft EXCEPT ![f] = 0]
  /\ checkLeft' = [checkLeft EXCEPT ![f] = 0]
  /\ idle' = [idle EXCEPT ![f] = 0]
  /\ UNCHANGED packet_number

LifetimeNext ==
  \/ \E f \in Flow : add_sg(f) \/ Forward(f)
  \/ \E f \in Flow : check_sg(f) \/ handle_sg_timeout(f)
  \/ Tick

LifetimeFairness ==
  /\ WF_lvars(Tick)
  /\ \A f \in Flow : WF_lvars(check_sg(f)) /\ WF_lvars(handle_sg_timeout(f))

LifetimeSpec == LifetimeInit /\ [][LifetimeNext]_lvars /\ LifetimeFairness

-----------------------------------------------------------------------------
(* An entry is deleted only after every check that fits into the timeout   *)
(* found it idle: the timeout is measured from the last busy check, and    *)
(* never runs out between it and the next (mrt.c:42-59).                   *)
DeletedWhenIdle ==
  [][\A f \in table \ table' : idle[f] = MaxChecks]_lvars

(* A flow without packets loses its entry.                                 *)
IdleEntryGoes ==
  \A f \in Flow :
    <>[][~(add_sg(f) \/ Forward(f))]_lvars => <>[](f \notin table)
=============================================================================
