----------------------------- MODULE DumpImport -----------------------------
(***************************************************************************)
(* The conversion of a TeslaMate dump, opened in the viewer                *)
(* (teslamateImport.ts): the file is read once, line by line, into a new   *)
(* database in memory, although a row may refer to rows of a section that  *)
(* comes later.                                                            *)
(*                                                                         *)
(* The dump is made up while it is read: sections in the order of pg_dump, *)
(* which sorts tables by name, some of them absent; in each any rows in    *)
(* any order; the file may end at any line.  processLine takes sections in *)
(* any order: positions read before the drives would then find none that   *)
(* wait for them, which is not modelled.  dump is what was read.  A row    *)
(* keeps the columns others refer to; 0 is NULL.  One address, geofence    *)
(* and charge are enough for a reference to be there or to dangle.  Left   *)
(* out: the rows of cars, states and updates, which are copied as they     *)
(* are, and the address and geofence of a drive's end, which are treated   *)
(* as those of its start.                                                  *)
(***************************************************************************)
EXTENDS Naturals, Sequences, FiniteSets

CONSTANTS
    Vehicles,       \* cars.id
    PositionIds,    \* positions.id
    Minutes,        \* minutes of a position's date
    ProcessRows,    \* rows the sections may have
    DriveRows,
    PositionRows

ASSUME DumpAssumption ==
    /\ Vehicles \subseteq Nat \ {0} /\ PositionIds \subseteq Nat \ {0}
    /\ Minutes \subseteq Nat \ {0}
    /\ ProcessRows \subseteq [id : Nat, car_id : Vehicles, position_id : {0} \cup PositionIds,
                              address_id : {0, 1}, geofence_id : {0, 1}]
    /\ DriveRows \subseteq [id : Nat, car_id : Vehicles,
                            start_position_id : {0} \cup PositionIds,
                            end_position_id : {0} \cup PositionIds,
                            start_address_id : {0, 1}, start_geofence_id : {0, 1}]
    /\ PositionRows \subseteq [id : PositionIds, car_id : Vehicles, drive_id : Nat, date : Minutes]

CopyOrder == <<"addresses", "cars", "charges", "charging_processes", "drives",
              "geofences", "positions", "states", "updates">>
Required == {"cars", "drives", "positions", "charging_processes", "charges", "states"}
Tables == {CopyOrder[i] : i \in DOMAIN CopyOrder}

AddressRows == {[id |-> 1]}
GeofenceRows == {[id |-> 1]}
ChargeRows == {[id |-> 1, charging_process_id |-> 1]}

VARIABLES
    stage,          \* "idle", "reading", "converted" or "refused"
    section,        \* activeTable, "none" between sections
    last,           \* how many sections of the order have gone by
    seen,           \* the sections met
    dump,           \* the rows read, by table
    targets,        \* positionTargets: who waits for which position
    drives,         \* id -> [vehicle, at, until, place]
    sessions,       \* id -> [vehicle, at, place]
    samples,        \* charging_samples: id -> vehicle
    positions,      \* ids of the positions kept
    battery,        \* battery_samples
    lastMinute      \* lastBatteryMinute

dumpVars == <<stage, section, last, seen, dump, targets, drives, sessions, samples,
              positions, battery, lastMinute>>
made == <<drives, sessions, samples, positions, battery>>

NoRows == <<>>
Place(kind, id) == [kind |-> kind, id |-> id]
Nowhere == Place("none", 0)

Fresh ==
    /\ section = "none" /\ last = 0 /\ seen = {}
    /\ dump = [t \in Tables |-> {}] /\ targets = {}
    /\ drives = NoRows /\ sessions = NoRows /\ samples = NoRows
    /\ positions = {} /\ battery = {} /\ lastMinute = [v \in Vehicles |-> 0]

DumpInit == stage = "idle" /\ Fresh

\* A plain dump; any other file is refused at its first bytes.
PickDump ==
    /\ stage = "idle" /\ stage' = "reading"
    /\ UNCHANGED <<section, last, seen, dump, targets, made, lastMinute>>

-----------------------------------------------------------------------------
(* processLine. *)

\* A section that is required is only missing when the file ends before it:
\* without it the file is refused at its end, whatever else is in it.
CopyHeader(i) ==
    /\ stage = "reading" /\ section = "none"
    /\ i \in DOMAIN CopyOrder /\ i > last
    /\ \A j \in last + 1 .. i - 1 : CopyOrder[j] \notin Required
    /\ section' = CopyOrder[i] /\ last' = i /\ seen' = seen \cup {CopyOrder[i]}
    /\ UNCHANGED <<stage, dump, targets, made, lastMinute>>

EndOfSection ==
    /\ stage = "reading" /\ section # "none" /\ section' = "none"
    /\ UNCHANGED <<stage, last, seen, dump, targets, made, lastMinute>>

IsRow(t, row) ==
    /\ stage = "reading" /\ section = t
    /\ \A other \in dump[t] : other.id # row.id
    /\ dump' = [dump EXCEPT ![t] = @ \cup {row}]
    /\ UNCHANGED <<stage, section, last, seen>>

\* As if a position had one target, the last.
addPositionTargetMutOne(old, position, kind, id) ==
    IF position = 0 THEN old
    ELSE {t \in old : t.position # position} \cup {[position |-> position, kind |-> kind, id |-> id]}

addPositionTarget(old, position, kind, id) ==
    IF position = 0 THEN old
    ELSE old \cup {[position |-> position, kind |-> kind, id |-> id]}

Insert(table, id, row) ==
    [k \in DOMAIN table \cup {id} |-> IF k = id THEN row ELSE table[k]]

AddressOf(id) ==
    IF \E a \in dump["addresses"] : a.id = id THEN Place("address", id) ELSE Nowhere

\* The charge's row comes before its session: its vehicle is not known yet.
ChargeRow(row) ==
    /\ IsRow("charges", row)
    /\ samples' = Insert(samples, row.id, 0)
    /\ UNCHANGED <<targets, drives, sessions, positions, battery, lastMinute>>

ProcessRow(row) ==
    /\ IsRow("charging_processes", row)
    /\ sessions' = Insert(sessions, row.id,
            [vehicle |-> row.car_id, at |-> 0, place |-> AddressOf(row.address_id)])
    /\ targets' = addPositionTarget(targets, row.position_id, "charging", row.id)
    /\ UNCHANGED <<drives, samples, positions, battery, lastMinute>>

DriveRow(row) ==
    /\ IsRow("drives", row)
    /\ drives' = Insert(drives, row.id,
            [vehicle |-> row.car_id, at |-> 0, until |-> 0,
             place |-> AddressOf(row.start_address_id)])
    /\ targets' = addPositionTarget(
            addPositionTarget(targets, row.start_position_id, "drive-start", row.id),
            row.end_position_id, "drive-end", row.id)
    /\ UNCHANGED <<sessions, samples, positions, battery, lastMinute>>

Waiting(position, kind) ==
    {t.id : t \in {x \in targets : x.position = position /\ x.kind = kind}}

\* As if all cars shared one minute.
NewMinuteMutShared(car, minute) == \A v \in Vehicles : lastMinute[v] # minute

NewMinute(car, minute) == lastMinute[car] # minute

PositionRow(row) ==
    /\ IsRow("positions", row)
    /\ drives' = [id \in DOMAIN drives |->
            [drives[id] EXCEPT
                !.at = IF id \in Waiting(row.id, "drive-start") THEN row.id ELSE @,
                !.until = IF id \in Waiting(row.id, "drive-end") THEN row.id ELSE @]]
    /\ sessions' = [id \in DOMAIN sessions |->
            [sessions[id] EXCEPT !.at = IF id \in Waiting(row.id, "charging") THEN row.id ELSE @]]
    /\ positions' = IF row.drive_id = 0 THEN positions ELSE positions \cup {row.id}
    /\ IF NewMinute(row.car_id, row.date)
       THEN /\ lastMinute' = [lastMinute EXCEPT ![row.car_id] = row.date]
            /\ battery' = battery \cup {<<row.car_id, row.date>>}
       ELSE UNCHANGED <<lastMinute, battery>>
    /\ UNCHANGED <<targets, samples>>

\* Sections whose rows are copied, or only remembered, as they are.
PlainRow(t, row) ==
    /\ t \in {"addresses", "geofences"} /\ IsRow(t, row)
    /\ UNCHANGED <<targets, made, lastMinute>>

\* A row that the table does not take ends it all.
BadRow ==
    /\ stage = "reading" /\ section # "none"
    /\ stage' = "refused"
    /\ UNCHANGED <<section, last, seen, dump, targets, made, lastMinute>>

-----------------------------------------------------------------------------
GeofenceOf(id) ==
    IF \E g \in dump["geofences"] : g.id = id THEN Place("geofence", id) ELSE Nowhere
Named(geofence, address) == IF GeofenceOf(geofence) # Nowhere THEN GeofenceOf(geofence) ELSE address

RowOf(t, id) == CHOOSE row \in dump[t] : row.id = id

\* The end of the file: geofences, which come after the drives, give their
\* names, and charges, which come before the sessions, their vehicle.
Finalize ==
    /\ drives' = [id \in DOMAIN drives |->
            [drives[id] EXCEPT !.place = Named(RowOf("drives", id).start_geofence_id, @)]]
    /\ sessions' = [id \in DOMAIN sessions |->
            [sessions[id] EXCEPT !.place = Named(RowOf("charging_processes", id).geofence_id, @)]]
    /\ samples' = [id \in DOMAIN samples |->
            LET process == RowOf("charges", id).charging_process_id
            IN IF process \in DOMAIN sessions THEN sessions[process].vehicle ELSE 0]
    /\ UNCHANGED <<positions, battery>>

EndOfFile ==
    /\ stage = "reading"
    /\ IF Required \subseteq seen
       THEN stage' = "converted" /\ Finalize
       ELSE stage' = "refused" /\ UNCHANGED made
    /\ UNCHANGED <<section, last, seen, dump, targets, lastMinute>>

\* The database in memory is handed over, or closed; the next file starts
\* with a new one.
CloseDump ==
    /\ stage' = "idle" /\ section' = "none" /\ last' = 0 /\ seen' = {}
    /\ dump' = [t \in Tables |-> {}] /\ targets' = {}
    /\ drives' = NoRows /\ sessions' = NoRows /\ samples' = NoRows
    /\ positions' = {} /\ battery' = {} /\ lastMinute' = [v \in Vehicles |-> 0]

Refused == stage = "refused" /\ CloseDump

DumpNext ==
    \/ PickDump
    \/ \E i \in DOMAIN CopyOrder : CopyHeader(i)
    \/ EndOfSection
    \/ \E row \in AddressRows : PlainRow("addresses", row)
    \/ \E row \in GeofenceRows : PlainRow("geofences", row)
    \/ \E row \in ChargeRows : ChargeRow(row)
    \/ \E row \in ProcessRows : ProcessRow(row)
    \/ \E row \in DriveRows : DriveRow(row)
    \/ \E row \in PositionRows : PositionRow(row)
    \/ BadRow \/ EndOfFile \/ Refused

-----------------------------------------------------------------------------
PlaceNames == {Nowhere, Place("address", 1), Place("geofence", 1)}

DumpTypeOK ==
    /\ stage \in {"idle", "reading", "converted", "refused"}
    /\ section \in Tables \cup {"none"} /\ seen \subseteq Tables /\ last \in 0 .. Len(CopyOrder)
    /\ \A id \in DOMAIN drives : drives[id] \in
          [vehicle : Vehicles, at : {0} \cup PositionIds, until : {0} \cup PositionIds, place : PlaceNames]
    /\ \A id \in DOMAIN sessions : sessions[id] \in
          [vehicle : Vehicles, at : {0} \cup PositionIds, place : PlaceNames]
    /\ \A id \in DOMAIN samples : samples[id] \in Vehicles \cup {0}
    /\ positions \subseteq PositionIds /\ battery \subseteq Vehicles \X Minutes

IfRead(position) == IF \E p \in dump["positions"] : p.id = position THEN position ELSE 0

(* A converted dump whose sections come in pg_dump's order has every          *)
(* reference resolved that its rows allow, forward as well as backward and   *)
(* however many share a position: where drives and charges began and ended,  *)
(* the geofence's name before the address's, and the vehicle of every charge *)
(* sample.                                                                   *)
JoinsResolved ==
    stage = "converted" =>
        /\ \A d \in dump["drives"] :
              /\ drives[d.id].at = IfRead(d.start_position_id)
              /\ drives[d.id].until = IfRead(d.end_position_id)
              /\ drives[d.id].place = Named(d.start_geofence_id, AddressOf(d.start_address_id))
        /\ \A p \in dump["charging_processes"] :
              /\ sessions[p.id].at = IfRead(p.position_id)
              /\ sessions[p.id].place = Named(p.geofence_id, AddressOf(p.address_id))
        /\ \A c \in dump["charges"], p \in dump["charging_processes"] :
              c.charging_process_id = p.id => samples[c.id] = p.car_id

(* The battery samples are thinned to one a minute, but no minute of any     *)
(* car is lost, in whatever order the rows of several cars come.             *)
EveryMinuteSampled ==
    \A p \in dump["positions"] : <<p.car_id, p.date>> \in battery
=============================================================================
