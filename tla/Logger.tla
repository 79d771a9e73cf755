------------------------------- MODULE Logger -------------------------------
(***************************************************************************)
(* The daemon's loop (internal/runner): summary checks and vehicle_data    *)
(* polls drive the vehicle machine, and persist turns the events of each   *)
(* step into storage calls, one after the other.  A storage call is the    *)
(* grain of atomicity: the process may die, or the call may fail, between  *)
(* any two.  A failed call drops the rest of its batch of events; the      *)
(* machine has moved on all the same.                                      *)
(*                                                                         *)
(* A dead process loses every volatile variable.  Start is the daemon's    *)
(* next run: it reads the rows still open and resumes from them.           *)
(***************************************************************************)
EXTENDS VehicleMachine, FiniteSets

CONSTANTS
    DriveIds,       \* ids the drives table may hand out
    SessionIds,     \* ids the charging_sessions table may hand out
    MinPositions,   \* minDrivePositions
    MaxCrashes,     \* bound: times the process dies
    MaxFails        \* bound: storage calls that fail

ASSUME RowAssumption ==
    /\ DriveIds \subseteq Nat \ {0}
    /\ SessionIds \subseteq Nat \ {0}
    /\ IsFiniteSet(DriveIds) /\ IsFiniteSet(SessionIds)
    /\ MinPositions \in Nat \ {0}
    /\ MaxCrashes \in Nat /\ MaxFails \in Nat

VARIABLES
    m,          \* the vehicle machine
    pc,         \* where the loop is
    snap,       \* the snapshot of the poll in progress
    todo,       \* events persist has still to write
    done,       \* storage calls already made for Head(todo)
    driveID,    \* the open drive's row, 0 if none
    chargeID,   \* the open session's row, 0 if none
    offlineID,  \* the row of the offline charge being synthesized, 0 if none
    drives,     \* the drives table: status, and positions counted up to MinPositions
    sessions,   \* the charging_sessions table: status
    stateRow,   \* the state in the one open row of the states table
    updates,    \* versions whose software_updates row is not completed
    heard,      \* history: the last raw state a summary check returned in this run
    quiet,      \* history: ticks since a poll last saw the car driving
    crashes,    \* how often the process has died
    fails       \* how many storage calls have failed

volatile == <<m, pc, snap, todo, done, driveID, chargeID, offlineID>>
stored   == <<drives, sessions, stateRow, updates>>
history  == <<heard, quiet, crashes, fails>>
vars     == <<volatile, stored, history>>

NoSnapshot == [driving |-> FALSE, charging |-> FALSE, range |-> 0,
               version |-> NoUpdate]

\* "top": the head of the loop; "summary": the summary check that follows a
\* failed poll; "backOnline", "observed", "suspending": the stages of a poll.
Labels == {"down", "top", "summary", "backOnline", "observed", "suspending"}

DriveStatuses == {"none", "open", "closed", "discarded"}

SessionStatuses == {"none", "open", "closed"}

TypeOK ==
    /\ m \in Machines
    /\ pc \in Labels
    /\ snap \in Snapshots
    /\ todo \in Seq(Events)
    /\ done \in 0 .. 3
    /\ driveID \in DriveIds \cup {0}
    /\ chargeID \in SessionIds \cup {0}
    /\ offlineID \in SessionIds \cup {0}
    /\ drives \in [DriveIds -> [status : DriveStatuses, points : 0 .. MinPositions]]
    /\ sessions \in [SessionIds -> SessionStatuses]
    /\ stateRow \in States \cup {"none"}
    /\ updates \subseteq Versions \cup {NoUpdate}
    /\ heard \in RawStates \cup {"none"}
    /\ quiet \in 0 .. DriveTimeout
    /\ crashes \in 0 .. MaxCrashes
    /\ fails \in 0 .. MaxFails

Init ==
    /\ m = New
    /\ pc = "down"
    /\ snap = NoSnapshot
    /\ todo = <<>> /\ done = 0
    /\ driveID = 0 /\ chargeID = 0 /\ offlineID = 0
    /\ drives = [d \in DriveIds |-> [status |-> "none", points |-> 0]]
    /\ sessions = [c \in SessionIds |-> "none"]
    /\ stateRow = "none"
    /\ updates = {}
    /\ heard = "none"
    /\ quiet = 0
    /\ crashes = 0 /\ fails = 0

-----------------------------------------------------------------------------
(* The tables. *)

OpenDrives == {d \in DriveIds : drives[d].status = "open"}

OpenSessions == {c \in SessionIds : sessions[c] = "open"}

\* The row an autoincrement id goes to: the first one never used.
IsNextDrive(d) ==
    /\ drives[d].status = "none"
    /\ \A e \in DriveIds : e < d => drives[e].status # "none"

IsNextSession(c) ==
    /\ sessions[c] = "none"
    /\ \A e \in SessionIds : e < c => sessions[e] # "none"

\* OpenDriveID and OpenChargingSessionID: the open row that started last, 0
\* if there is none.
IsLatest(id, open) ==
    \/ open = {} /\ id = 0
    \/ id \in open /\ \A other \in open : other <= id

\* Mutant: only the state is asked for.
SafeToSyncMutStateOnly == stateRow \in {"idle", "asleep", "offline", "suspended"}

\* cloudsync.SafeToSync, asked of the same tables.
SafeToSync ==
    /\ OpenDrives = {} /\ OpenSessions = {}
    /\ stateRow \in {"idle", "asleep", "offline", "suspended"}

-----------------------------------------------------------------------------
(* persist. *)

\* The storage calls each event makes, in order.
Calls(kind) ==
    CASE kind = "StateChanged"    -> <<"OpenState">>
      [] kind = "DriveStart"      -> <<"OpenDrive", "AppendPosition">>
      [] kind = "DrivePoint"      -> <<"AppendPosition">>
      [] kind = "DriveEnd"        -> <<"AppendPosition", "CloseDrive">>
      [] kind = "DriveAbandoned"  -> <<"CloseDrive">>
      [] kind = "ChargeStart"     -> <<"OpenSession", "Sample">>
      [] kind = "ChargePoint"     -> <<"Sample">>
      [] kind = "ChargeEnd"       -> <<"Sample", "CloseSession">>
      [] kind = "ChargeAbandoned" -> <<"CloseSession">>
      [] kind = "OfflineCharge"   -> <<"OpenOffline", "Sample", "Sample", "CloseOffline">>
      [] kind = "BatterySample"   -> <<"Sample", "Firmware">>
      [] kind = "UpdateBeg"       -> <<"BeginUpdate">>
      [] kind = "UpdateEnd"       -> <<"FinishUpdate", "Firmware">>

\* Events persist passes over: there is no row for them.
Skipped(kind) ==
    \/ kind \in {"DrivePoint", "DriveEnd", "DriveAbandoned"} /\ driveID = 0
    \/ kind \in {"ChargePoint", "ChargeEnd", "ChargeAbandoned"} /\ chargeID = 0

\* The next storage call of persist is c.
Calling(c) ==
    /\ todo # <<>>
    /\ ~Skipped(Head(todo).kind)
    /\ Calls(Head(todo).kind)[done + 1] = c

\* That call returned without an error.
Returned ==
    IF done + 1 = Len(Calls(Head(todo).kind))
    THEN todo' = Tail(todo) /\ done' = 0
    ELSE done' = done + 1 /\ UNCHANGED todo

SkipEvent ==
    /\ todo # <<>>
    /\ Skipped(Head(todo).kind)
    /\ todo' = Tail(todo) /\ done' = 0
    /\ UNCHANGED <<m, pc, snap, driveID, chargeID, offlineID, stored, history>>

OpenState ==
    /\ Calling("OpenState") /\ Returned
    /\ stateRow' = Head(todo).arg
    /\ UNCHANGED <<m, pc, snap, driveID, chargeID, offlineID, drives, sessions,
                   updates, history>>

OpenDrive ==
    /\ Calling("OpenDrive") /\ Returned
    /\ \E d \in DriveIds :
         /\ IsNextDrive(d)
         /\ drives' = [drives EXCEPT ![d] = [status |-> "open", points |-> 0]]
         /\ driveID' = d
    /\ UNCHANGED <<m, pc, snap, chargeID, offlineID, sessions, stateRow, updates,
                   history>>

\* One more position in the open drive's row, from a poll or from the stream.
WithPosition(row) ==
    [row EXCEPT !.points = IF @ < MinPositions THEN @ + 1 ELSE @]

AppendPosition ==
    /\ Calling("AppendPosition") /\ Returned
    /\ drives' = [drives EXCEPT ![driveID] = WithPosition(@)]
    /\ UNCHANGED <<m, pc, snap, driveID, chargeID, offlineID, sessions, stateRow,
                   updates, history>>

(***************************************************************************)
(* CloseDrive, and CloseDriveFromLastPosition which ends in it: the row is *)
(* deleted unless it has MinPositions positions and the car went anywhere. *)
(***************************************************************************)
ClosedDrive(row, wentSomewhere) ==
    IF row.points >= MinPositions /\ wentSomewhere
    THEN [row EXCEPT !.status = "closed"]
    ELSE [status |-> "discarded", points |-> 0]

\* Mutant: the id of the closed row is kept.
CloseDriveMutKeepsID ==
    /\ Calling("CloseDrive") /\ Returned
    /\ \E wentSomewhere \in BOOLEAN :
         drives' = [drives EXCEPT ![driveID] = ClosedDrive(@, wentSomewhere)]
    /\ UNCHANGED <<m, pc, snap, driveID, chargeID, offlineID, sessions, stateRow,
                   updates, history>>

CloseDrive ==
    /\ Calling("CloseDrive") /\ Returned
    /\ \E wentSomewhere \in BOOLEAN :
         drives' = [drives EXCEPT ![driveID] = ClosedDrive(@, wentSomewhere)]
    /\ driveID' = 0
    /\ UNCHANGED <<m, pc, snap, chargeID, offlineID, sessions, stateRow, updates,
                   history>>

OpenSession ==
    /\ Calling("OpenSession") /\ Returned
    /\ \E c \in SessionIds :
         /\ IsNextSession(c)
         /\ sessions' = [sessions EXCEPT ![c] = "open"]
         /\ chargeID' = c
    /\ UNCHANGED <<m, pc, snap, driveID, offlineID, drives, stateRow, updates,
                   history>>

CloseSession ==
    /\ Calling("CloseSession") /\ Returned
    /\ sessions' = [sessions EXCEPT ![chargeID] = "closed"]
    /\ chargeID' = 0
    /\ UNCHANGED <<m, pc, snap, driveID, offlineID, drives, stateRow, updates,
                   history>>

\* The synthesized session of an offline charge.  Its id is a local of
\* persist: nothing else refers to the row until it is closed.
OpenOffline ==
    /\ Calling("OpenOffline") /\ Returned
    /\ \E c \in SessionIds :
         /\ IsNextSession(c)
         /\ sessions' = [sessions EXCEPT ![c] = "open"]
         /\ offlineID' = c
    /\ UNCHANGED <<m, pc, snap, driveID, chargeID, drives, stateRow, updates,
                   history>>

CloseOffline ==
    /\ Calling("CloseOffline") /\ Returned
    /\ sessions' = [sessions EXCEPT ![offlineID] = "closed"]
    /\ offlineID' = 0
    /\ UNCHANGED <<m, pc, snap, driveID, chargeID, drives, stateRow, updates,
                   history>>

BeginUpdate ==
    /\ Calling("BeginUpdate") /\ Returned
    /\ updates' = updates \cup {Head(todo).arg}
    /\ UNCHANGED <<m, pc, snap, driveID, chargeID, offlineID, drives, sessions,
                   stateRow, history>>

FinishUpdate ==
    /\ Calling("FinishUpdate") /\ Returned
    /\ updates' = updates \ {Head(todo).arg}
    /\ UNCHANGED <<m, pc, snap, driveID, chargeID, offlineID, drives, sessions,
                   stateRow, history>>

\* Calls that only add samples or set the firmware: no state kept here, but
\* they take their turn and may fail.
WriteSample ==
    /\ Calling("Sample") \/ Calling("Firmware")
    /\ Returned
    /\ UNCHANGED <<m, pc, snap, driveID, chargeID, offlineID, stored, history>>

Persist ==
    \/ SkipEvent \/ OpenState \/ OpenDrive \/ AppendPosition \/ CloseDrive
    \/ OpenSession \/ CloseSession \/ OpenOffline \/ CloseOffline
    \/ BeginUpdate \/ FinishUpdate \/ WriteSample

(***************************************************************************)
(* A storage call returns an error: persist gives up the rest of the       *)
(* batch.  In a poll that makes the poll fail, and a failed poll marks the *)
(* gap and falls back to a summary check; a summary check only logs it.    *)
(***************************************************************************)
StoreFails ==
    /\ todo # <<>> /\ ~Skipped(Head(todo).kind)
    /\ fails < MaxFails
    /\ fails' = fails + 1
    /\ todo' = <<>> /\ done' = 0 /\ offlineID' = 0
    /\ \/ pc = "top" /\ UNCHANGED <<m, pc>>
       \/ pc # "top" /\ m' = MarkUnreachable(m) /\ pc' = "summary"
    /\ snap' = NoSnapshot
    /\ UNCHANGED <<driveID, chargeID, stored, heard, quiet, crashes>>

-----------------------------------------------------------------------------
(* The loop. *)

\* The loop is at label l with nothing left to persist.
At(l) == pc = l /\ todo = <<>>

\* checkSummary, from an asleep-like state or after a failed poll.
CheckSummary(raw) ==
    /\ At("summary") \/ (At("top") /\ AsleepLike(m.state))
    /\ LET heardOf == OnSummary(m, raw) IN
         IF AsleepLike(heardOf.state)
         THEN /\ m' = OnUnreachable(heardOf, raw)
              /\ todo' = OnSummaryEvents(m, raw) \o OnUnreachableEvents(heardOf, raw)
         ELSE /\ m' = heardOf
              /\ todo' = OnSummaryEvents(m, raw)
    /\ heard' = raw
    /\ pc' = "top"
    /\ UNCHANGED <<snap, done, driveID, chargeID, offlineID, stored, quiet, crashes,
                   fails>>

\* The vehicle list cannot be had: the loop goes around with what it believes.
\* (In an asleep-like state that changes nothing.)
CheckSummaryFails ==
    /\ At("summary")
    /\ pc' = "top"
    /\ UNCHANGED <<m, snap, todo, done, driveID, chargeID, offlineID, stored, history>>

PollFails ==
    /\ At("top") /\ ~AsleepLike(m.state)
    /\ m' = MarkUnreachable(m)
    /\ pc' = "summary"
    /\ UNCHANGED <<snap, todo, done, driveID, chargeID, offlineID, stored, history>>

\* Bound: the car starts no drive or charge the bounded tables have no row for.
HasRoom(s) ==
    LET act    == Activity(s)
        starts == act = "charging" /\ ~m.charging
        free   == Cardinality({c \in SessionIds : sessions[c] = "none"})
    IN  /\ act = "driving" /\ ~m.driving => \E d \in DriveIds : drives[d].status = "none"
        /\ starts \/ MissedCharge(m, s) => free >= 1
        /\ starts /\ MissedCharge(m, s) => free >= 2

\* A poll returned s; first what may have been missed in a gap is persisted ...
PollOK(s) ==
    /\ At("top") /\ ~AsleepLike(m.state)
    /\ HasRoom(s)
    /\ m' = OnBackOnline(m, s)
    /\ todo' = OnBackOnlineEvents(m, s)
    /\ snap' = s
    /\ pc' = "backOnline"
    /\ UNCHANGED <<done, driveID, chargeID, offlineID, stored, history>>

\* ... then the snapshot itself ...
VehicleData ==
    /\ At("backOnline")
    /\ m' = OnVehicleData(m, snap)
    /\ todo' = OnVehicleDataEvents(m, snap)
    /\ quiet' = IF Activity(snap) = "driving" THEN 0 ELSE quiet
    /\ snap' = NoSnapshot
    /\ pc' = "observed"
    /\ UNCHANGED <<done, driveID, chargeID, offlineID, stored, heard, crashes, fails>>

\* ... and an idle car is left alone once it has been idle for IdleTimeout.
IdleCheck ==
    /\ At("observed")
    /\ IF IdleTimedOut(m)
       THEN m' = Suspend(m) /\ todo' = SuspendEvents(m) /\ pc' = "suspending"
       ELSE pc' = "top" /\ UNCHANGED <<m, todo>>
    /\ UNCHANGED <<snap, done, driveID, chargeID, offlineID, stored, history>>

Suspended ==
    /\ At("suspending")
    /\ pc' = "top"
    /\ UNCHANGED <<m, snap, todo, done, driveID, chargeID, offlineID, stored, history>>

\* drainStream at the foot of an iteration: while driving, the stream adds
\* positions between polls, and no event.
StreamPoint ==
    /\ At("top") /\ m.state = "driving" /\ driveID # 0
    /\ drives' = [drives EXCEPT ![driveID] = WithPosition(@)]
    /\ UNCHANGED <<volatile, sessions, stateRow, updates, history>>

-----------------------------------------------------------------------------
(* The process and the clock. *)

Start ==
    /\ pc = "down"
    /\ \E d \in DriveIds \cup {0}, c \in SessionIds \cup {0} :
         /\ IsLatest(d, OpenDrives) /\ IsLatest(c, OpenSessions)
         /\ driveID' = d /\ chargeID' = c
         /\ m' = Resume(d # 0, c # 0)
    /\ pc' = "top"
    /\ heard' = "none"
    /\ UNCHANGED <<snap, todo, done, offlineID, stored, quiet, crashes, fails>>

Crash ==
    /\ pc # "down" /\ crashes < MaxCrashes
    /\ crashes' = crashes + 1
    /\ m' = New /\ pc' = "down" /\ snap' = NoSnapshot
    /\ todo' = <<>> /\ done' = 0
    /\ driveID' = 0 /\ chargeID' = 0 /\ offlineID' = 0
    /\ UNCHANGED <<stored, heard, quiet, fails>>

\* Time passes between requests; the writes of a batch take none.
Tick ==
    /\ At("top") \/ At("summary") \/ pc = "down"
    /\ m' = IF pc = "down" THEN m ELSE Aged(m)
    /\ quiet' = Older(quiet, DriveTimeout)
    /\ UNCHANGED <<pc, snap, todo, done, driveID, chargeID, offlineID, stored, heard,
                   crashes, fails>>

Next ==
    \/ \E raw \in RawStates : CheckSummary(raw)
    \/ CheckSummaryFails
    \/ PollFails
    \/ \E s \in Snapshots : PollOK(s)
    \/ VehicleData
    \/ IdleCheck
    \/ Suspended
    \/ StreamPoint
    \/ Persist
    \/ StoreFails
    \/ Start
    \/ Crash
    \/ Tick

Spec == Init /\ [][Next]_vars

(***************************************************************************)
(* Fairness.  The loop never blocks for good: its requests have timeouts   *)
(* and its store is local, so a step it can take it takes, and a process   *)
(* that is down is started again (systemd Restart=always).  Of the vehicle *)
(* list only this is assumed: if it could go on giving the answer it gave  *)
(* last, that answer is processed again.  (Strong fairness of all checks   *)
(* would make it change its answer.)  Nothing is assumed of what it says,  *)
(* nor of polls ever succeeding.  Time goes on: the loop sleeps between    *)
(* its iterations, so it is where the clock may tick again and again.      *)
(***************************************************************************)
Fairness ==
    /\ WF_vars(heard # "none" /\ CheckSummary(heard))
    /\ WF_vars(pc = "summary" /\ (CheckSummaryFails \/ \E raw \in RawStates : CheckSummary(raw)))
    /\ WF_vars(PollFails \/ \E s \in Snapshots : PollOK(s))
    /\ WF_vars(VehicleData) /\ WF_vars(IdleCheck) /\ WF_vars(Suspended)
    /\ WF_vars(Persist)
    /\ WF_vars(Start)
    /\ SF_vars(Tick)

FairSpec == Spec /\ Fairness

-----------------------------------------------------------------------------
(* Safety, whatever crashes and storage calls fail. *)

\* The car is polled only while it is known to be awake: whenever the machine
\* is in a state the loop polls in, the last summary check of this run said
\* "online" (isAsleepLike, and "never wakes the car" in docs/reference.md).
SleepRespected == ~AsleepLike(m.state) => heard = "online"

\* A car that is installing an update is never suspended, nor held idle,
\* online or driving: it is polled as "updating" until the install is seen to
\* be over, or is unreachable (the comment on StateUpdating).
UpdateNotSuspended ==
    m.update # NoUpdate => m.state \in {"updating", "asleep", "offline"}

\* The rows the loop writes to are open: a discarded or closed drive or session
\* never gets another sample, whatever order ends, abandonments, failed calls
\* and restarts come in (loopState.driveID, chargeID).
HeldRowsOpen ==
    /\ driveID # 0 => drives[driveID].status = "open"
    /\ chargeID # 0 => sessions[chargeID] = "open"
    /\ offlineID # 0 => sessions[offlineID] = "open" /\ offlineID # chargeID

\* A drive is not cut in two by a dead zone: while the car is merely offline,
\* a drive is given up only once no poll has seen it driving for DriveTimeout
\* (OnUnreachable), also when the process was restarted in between.
NoPrematureSplit ==
    [][CloseDrive /\ Head(todo).kind = "DriveAbandoned" /\ heard = "offline"
         => quiet >= DriveTimeout]_vars

-----------------------------------------------------------------------------
(* Safety as long as no storage call fails. *)

\* No drive is left dangling and none runs beside another: the open drive is
\* the one the loop writes to, also after a restart, and the loop holds one
\* exactly while the machine believes the car is driving (the resume comment
\* in runner.Run).
DriveRowOwned ==
    /\ pc # "down" => OpenDrives = {driveID} \ {0}
    /\ pc # "down" /\ todo = <<>> => (m.driving <=> driveID # 0)

\* The same of the session the loop writes to; the machine's flag and the row
\* agree whenever a batch has been written.
ChargeRowHeld ==
    pc # "down" /\ todo = <<>> => (m.charging <=> chargeID # 0)

\* The replicator never finds the tables safe to sync while the loop knows the
\* car to be driving, charging, updating or just awake: SafeToSync reads only
\* the tables, the loop's knowledge is in the machine.
SyncOnlyWhenParked ==
    At("top") /\ m.state # "unknown" /\ SafeToSync =>
        /\ m.state \in {"idle", "asleep", "offline", "suspended"}
        /\ ~m.driving /\ ~m.charging

\* A car that reports itself asleep has nothing left open: drives and charges
\* are given up at once and their rows closed (OnUnreachable).
AsleepClosesRows ==
    At("top") /\ m.state = "asleep" /\ heard = "asleep" =>
        ~m.driving /\ ~m.charging /\ OpenDrives = {}

\* The drives table is a log of trips, one after another (TripLog).
Log == INSTANCE TripLog WITH trips <- drives

TripsInOrder == Log!Spec

-----------------------------------------------------------------------------
(* Of a run of the process that does not die. *)

\* Sessions have no stray rows: an open one is the one the loop writes to or
\* the one being synthesized.
SessionRowOwned == pc # "down" => OpenSessions = {chargeID, offlineID} \ {0}

\* A drive whose car stays offline is closed in the end rather than left open
\* for ever (docs/reference.md, "Sleep behavior").
OfflineDriveCloses == <>[](m.state = "offline") => <>[](OpenDrives = {})

\* A parked car is left alone in the end: it is not held in idle polling for
\* ever, as long as polls get through at all (IdleTimedOut is asked only after
\* a poll that did).
IdleCarLeftAlone == ~(<>[](m.state = "idle") /\ []<>(pc = "observed"))
=============================================================================
