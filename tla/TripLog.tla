------------------------------- MODULE TripLog -------------------------------
(***************************************************************************)
(* What the logger promises about the drives it records, whatever polls,   *)
(* summary checks and restarts happen in between: trips are written one    *)
(* after another into rows with ascending ids, at most one is in progress, *)
(* only the trip in progress gains positions, and a trip is over for good  *)
(* once it is kept or discarded.  A trip of fewer than MinPositions        *)
(* positions is never kept.                                                *)
(***************************************************************************)
EXTENDS Naturals

CONSTANTS
    DriveIds,       \* ids the drives table may hand out
    MinPositions    \* minDrivePositions

VARIABLE trips      \* id -> what the log holds under that id

Statuses == {"none", "open", "closed", "discarded"}

Trips == [DriveIds -> [status : Statuses, points : 0 .. MinPositions]]

NoTrip == [status |-> "none", points |-> 0]

\* ids are handed out in order: every smaller one has been used.
IsNext(rows, d) ==
    /\ rows[d].status = "none"
    /\ \A e \in DriveIds : e < d => rows[e].status # "none"

\* Position counts matter up to MinPositions only.
WithPosition(row) ==
    [row EXCEPT !.points = IF @ < MinPositions THEN @ + 1 ELSE @]

Init == trips = [d \in DriveIds |-> NoTrip]

Begin(d) ==
    /\ \A e \in DriveIds : trips[e].status # "open"
    /\ IsNext(trips, d)
    /\ trips' = [trips EXCEPT ![d] = [status |-> "open", points |-> 0]]

Record(d) ==
    /\ trips[d].status = "open"
    /\ trips' = [trips EXCEPT ![d] = WithPosition(@)]

Keep(d) ==
    /\ trips[d].status = "open"
    /\ trips[d].points >= MinPositions
    /\ trips' = [trips EXCEPT ![d].status = "closed"]

Discard(d) ==
    /\ trips[d].status = "open"
    /\ trips' = [trips EXCEPT ![d] = [status |-> "discarded", points |-> 0]]

Next == \E d \in DriveIds : Begin(d) \/ Record(d) \/ Keep(d) \/ Discard(d)

Spec == Init /\ [][Next]_trips
=============================================================================
