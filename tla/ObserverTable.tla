--------------------------- MODULE ObserverTable ---------------------------
(***************************************************************************)
(* What a table of observers promises for as long as its resource exists:  *)
(* it is a set of ids that grows by the one that registers, until it has   *)
(* Capacity of them, and shrinks by the one that leaves; one that comes    *)
(* when it is full stays outside until it leaves.  Nothing is promised     *)
(* once the resource is gone.                                              *)
(***************************************************************************)
EXTENDS Naturals, FiniteSets

CONSTANTS
  ObsIds,    \* observation ids
  Capacity   \* how many the table holds

VARIABLES
  members,   \* observers in the table
  outside,   \* observers that found it full
  gone       \* the resource was deleted

vars == <<members, outside, gone>>

Init == members = {} /\ outside = {} /\ gone = FALSE

Admit(id) ==
  /\ Cardinality(members) < Capacity
  /\ members' = members \cup {id}
  /\ UNCHANGED outside

TurnAway(id) ==
  /\ Cardinality(members) = Capacity
  /\ outside' = outside \cup {id}
  /\ UNCHANGED members

Register(id) ==
  /\ ~gone /\ UNCHANGED gone
  /\ id \notin members \cup outside
  /\ Admit(id) \/ TurnAway(id)

Deregister(id) ==
  /\ ~gone /\ UNCHANGED gone
  /\ id \in members \cup outside
  /\ members' = members \ {id}
  /\ outside' = outside \ {id}

Gone == gone' = TRUE

Next == (\E id \in ObsIds : Register(id) \/ Deregister(id)) \/ Gone

Spec == Init /\ [][Next]_vars
=============================================================================
