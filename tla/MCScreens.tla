------------------------------ MODULE MCScreens ------------------------------
(* Screens on a small instance: two panels of one and two queries, a clock *)
(* of two days of two slots, and drives and charges that share a position, *)
(* have a dangling one or none.                                            *)
EXTENDS Screens

MCPanelWidths == <<1, 2>>
MCTyped == {Empty, Now(0), Date(0), At(2)}

MCProcessRows == {
    [id |-> 1, car_id |-> 2, position_id |-> 2, address_id |-> 1, geofence_id |-> 0],
    [id |-> 1, car_id |-> 1, position_id |-> 1, address_id |-> 1, geofence_id |-> 1],
    [id |-> 1, car_id |-> 2, position_id |-> 0, address_id |-> 0, geofence_id |-> 1] }

MCDriveRows == {
    [id |-> 1, car_id |-> 1, start_position_id |-> 1, end_position_id |-> 2,
     start_address_id |-> 1, start_geofence_id |-> 1],
    [id |-> 1, car_id |-> 1, start_position_id |-> 1, end_position_id |-> 1,
     start_address_id |-> 1, start_geofence_id |-> 0],
    [id |-> 1, car_id |-> 1, start_position_id |-> 0, end_position_id |-> 2,
     start_address_id |-> 0, start_geofence_id |-> 1] }

MCPositionRows ==
    {[id |-> p, car_id |-> v, drive_id |-> 2 - p, date |-> d] :
        p \in {1, 2}, v \in {1, 2}, d \in {1, 2}}
=============================================================================
