------------------------------ MODULE Neighbor ------------------------------
(***************************************************************************)
(* The PIM neighbours of one interface (receive_hello, add_pim_neighbor    *)
(* and delete_pim_neighbor in pim.c): a list of malloc'ed entries, none of *)
(* which is ever freed, each with a timer that holds a pointer to it.  An  *)
(* entry is a number; it is used again only when neither the list nor a    *)
(* timer knows it.  Expired timers are run one by one and clear nothing.   *)
(***************************************************************************)
EXTENDS Integers, SequencesExt

CONSTANTS
  Router,    \* the other routers of the subnet
  Holdtime,  \* holdtimes their Hellos announce; -1 if there is none
  MaxEntry   \* bound: entries known to the list or to a timer

ASSUME NeighborAssumption ==
  /\ Holdtime \subseteq Nat \union {-1}
  /\ MaxEntry \in Nat \ {0}

VARIABLES
  neighbor,  \* myvifs[vif].neighbor, the list, newest entry first
  address,   \* the address of each entry
  timers,    \* the entries whose timer is set
  alive      \* FALSE once the daemon has crashed

vars == <<neighbor, address, timers, alive>>

Entry == 1..MaxEntry

TypeOK ==
  /\ neighbor \in Seq(Entry)
  /\ address \in [Entry -> Router]
  /\ timers \subseteq Entry
  /\ alive \in BOOLEAN

Init ==
  /\ neighbor = << >>
  /\ address \in [Entry -> Router]
  /\ \A e \in Entry : address[e] = CHOOSE r \in Router : TRUE
  /\ timers = {}
  /\ alive = TRUE

-----------------------------------------------------------------------------
Entries == {neighbor[n] : n \in 1..Len(neighbor)}

Unused == Entry \ (Entries \union timers)

Known(src) == \E e \in Entries : address[e] = src

(* The first entry of an address; address[e] does not tell two entries of  *)
(* one router apart.                                                       *)
EntryAt(src) ==
  CHOOSE n \in 1..Len(neighbor) :
    /\ address[neighbor[n]] = src
    /\ \A m \in 1..n-1 : address[neighbor[m]] # src

(* delete_pim_neighbor for an entry of router src: the head takes the whole *)
(* list with it and the store through temp, not initialised then, may end  *)
(* the daemon; any other entry is unlinked.                                *)
delete_pim_neighbor(src) ==
  \/ /\ ~Known(src)
     /\ UNCHANGED <<neighbor, alive>>
  \/ /\ Known(src) /\ EntryAt(src) = 1
     /\ neighbor' = << >>
     /\ alive' \in BOOLEAN
  \/ /\ Known(src) /\ EntryAt(src) # 1
     /\ neighbor' = RemoveAt(neighbor, EntryAt(src))
     /\ UNCHANGED alive

(* receive_hello from a router that is not listed: add_pim_neighbor,       *)
(* whatever the holdtime.  The slip sets the timer only for a holdtime the *)
(* Hello really announced.                                                 *)
AddIfHeldOnly(src, holdtime) ==
  /\ alive /\ ~Known(src)
  /\ Unused # {}
  /\ LET e == CHOOSE x \in Unused : TRUE
     IN  /\ neighbor' = <<e>> \o neighbor
         /\ address' = [address EXCEPT ![e] = src]
         /\ timers' = IF holdtime > 0 THEN timers \union {e} ELSE timers
  /\ UNCHANGED alive

add_pim_neighbor(src, holdtime) ==
  /\ alive /\ ~Known(src)
  /\ Unused # {}
  /\ LET e == CHOOSE x \in Unused : TRUE
     IN  /\ neighbor' = <<e>> \o neighbor
         /\ address' = [address EXCEPT ![e] = src]
         /\ timers' = timers \union {e}
  /\ UNCHANGED alive

(* From one that is: the holdtime is refreshed,                            *)
Refresh(src, holdtime) ==
  /\ alive /\ Known(src) /\ holdtime # 0
  /\ timers' = timers \union {neighbor[EntryAt(src)]}
  /\ UNCHANGED <<neighbor, address, alive>>

(* or the neighbour says goodbye; its timer stays set.                     *)
Goodbye(src, holdtime) ==
  /\ alive /\ Known(src) /\ holdtime = 0
  /\ delete_pim_neighbor(src)
  /\ UNCHANGED <<address, timers>>

receive_hello(src, holdtime) ==
  \/ add_pim_neighbor(src, holdtime)
  \/ Refresh(src, holdtime)
  \/ Goodbye(src, holdtime)

(* The timer of entry e; the address is looked up, so it may be another    *)
(* entry of the same router that goes.                                     *)
TimesOut(e) ==
  /\ alive
  /\ e \in timers
  /\ timers' = timers \ {e}
  /\ delete_pim_neighbor(address[e])
  /\ UNCHANGED address

Next ==
  \/ \E src \in Router, holdtime \in Holdtime : receive_hello(src, holdtime)
  \/ \E e \in Entry : TimesOut(e)

Spec == Init /\ [][Next]_vars

-----------------------------------------------------------------------------
(* No neighbour is listed twice, and none without a timer of its own that  *)
(* will take it off the list; this survives goodbyes, which leave timers   *)
(* behind, and routers that come back (pim.c:228-311).                     *)
EveryNeighborTimed ==
  /\ Entries \subseteq timers
  /\ \A m, n \in 1..Len(neighbor) :
       m # n => address[neighbor[m]] # address[neighbor[n]]
=============================================================================
