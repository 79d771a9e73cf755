---------------------------- MODULE MCTimeRange ----------------------------
(* TimeRange alone on the instance of MCScreens. *)
EXTENDS TimeRange

MCTyped == {Empty, Now(0), Date(0), At(2)}
=============================================================================
