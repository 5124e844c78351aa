------------------------------ MODULE SeatPool ------------------------------
(***************************************************************************)
(* What the seats of a license promise to whoever sells it: a seat is       *)
(* booked for one deployment at a time, and only while no more seats are    *)
(* taken than were sold; it is taken when the booking is confirmed.  A seat *)
(* given back is free, and is taken again by a new booking only.            *)
(***************************************************************************)
EXTENDS Integers, FiniteSets

CONSTANTS
    Seat,   \* the places a deployment can have
    Limit   \* how many were sold

VARIABLES
    taken,  \* the seats of active deployments
    booked  \* the seat being granted, if any

Init == taken \subseteq Seat /\ Cardinality(taken) <= Limit /\ booked = {}

Book(s) ==
    /\ booked = {}
    /\ s \notin taken /\ Cardinality(taken) <= Limit
    /\ booked' = {s}
    /\ UNCHANGED taken

Confirm ==
    /\ taken' = taken \cup booked
    /\ booked' = {}

Cancel ==
    /\ booked' = {}
    /\ UNCHANGED taken

GiveBack(S) ==
    /\ taken' = taken \ S
    /\ UNCHANGED booked

Next ==
    \/ \E s \in Seat : Book(s)
    \/ Confirm \/ Cancel
    \/ \E S \in SUBSET taken : GiveBack(S)

Spec == Init /\ [][Next]_<<taken, booked>>

=============================================================================
