-------------------------------- MODULE Mirror --------------------------------
(***************************************************************************)
(* What replication promises about one receiver, whatever batches, retries *)
(* and restarts happen in between.  A row's life is a sequence of versions *)
(* 0 (not written yet), 1, 2, ... and at last Gone (deleted by the user or *)
(* the logger).  The receiver's copy of a row only ever moves forward      *)
(* along that life and never overtakes it: no old version overwrites a     *)
(* newer one, no deleted row comes back, and only a row the log deleted is *)
(* deleted at the receiver.                                                *)
(***************************************************************************)
EXTENDS Naturals

CONSTANTS
    Rows,           \* the rows of the replicated tables
    Gone            \* the version of a deleted row, above every other

VARIABLES
    latest,         \* row -> the last version the log gave it
    copy            \* row -> the version the receiver holds

Init ==
    /\ latest = [r \in Rows |-> 0]
    /\ copy = [r \in Rows |-> 0]

Write(r) ==
    /\ \E v \in latest[r] + 1 .. Gone : latest' = [latest EXCEPT ![r] = v]
    /\ UNCHANGED copy

Replicate(r) ==
    /\ \E v \in copy[r] + 1 .. latest[r] : copy' = [copy EXCEPT ![r] = v]
    /\ UNCHANGED latest

Next == \E r \in Rows : Write(r) \/ Replicate(r)

Spec == Init /\ [][Next]_<<latest, copy>>
=============================================================================
