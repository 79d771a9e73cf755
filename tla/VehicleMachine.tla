--------------------------- MODULE VehicleMachine ---------------------------
(***************************************************************************)
(* The sleep-aware vehicle state machine of internal/vehicle, as pure      *)
(* operators: each method of vehicle.Machine is an operator that gives the *)
(* machine it leaves behind, and beside it one that gives the events it    *)
(* returns.  Logger.tla is the loop that calls them and persists the       *)
(* events.                                                                 *)
(*                                                                         *)
(* Time.  The code keeps timestamps and only ever compares now - t with a  *)
(* threshold, so the model keeps the age now - t, saturated at the         *)
(* threshold.  Never is the zero time.Time.                                *)
(*                                                                         *)
(* Data.  Of a vehicle_data snapshot the machine looks at four things:     *)
(* whether a gear is engaged, whether a charge is running, the ideal range *)
(* (0: not reported) and the version being installed, if any.              *)
(***************************************************************************)
EXTENDS Integers, Sequences

CONSTANTS
    IdleTimeout,    \* polling.idle_timeout, in ticks
    DriveTimeout,   \* polling.drive_timeout, in ticks
    MinGap,         \* offlineChargeMinGap, in ticks
    MinGain,        \* offlineChargeMinRangeGainKm
    Ranges,         \* the ideal ranges a snapshot may report
    Versions,       \* software versions that may be installing
    NoUpdate        \* no version is installing

ASSUME TimeAssumption ==
    /\ IdleTimeout \in Nat \ {0}
    /\ DriveTimeout \in Nat \ {0}
    /\ MinGap \in Nat \ {0}

ASSUME DataAssumption ==
    /\ MinGain \in Nat
    /\ Ranges \subseteq Nat
    /\ 0 \in Ranges
    /\ NoUpdate \notin Versions

Never == -1

States == {"unknown", "asleep", "offline", "online", "driving", "charging",
           "idle", "updating", "suspended"}

\* What the vehicle list endpoint may call the car; "other" is any string the
\* code does not know.
RawStates == {"online", "asleep", "offline", "other"}

Snapshots == [driving : BOOLEAN, charging : BOOLEAN, range : Ranges,
              version : Versions \cup {NoUpdate}]

EventKinds == {"StateChanged", "DriveStart", "DrivePoint", "DriveEnd",
               "ChargeStart", "ChargePoint", "ChargeEnd", "BatterySample",
               "UpdateBeg", "UpdateEnd", "DriveAbandoned", "ChargeAbandoned",
               "OfflineCharge"}

\* arg is the new state of a StateChanged and the version of an update event.
Events == [kind : {"StateChanged"}, arg : States]
          \cup [kind : EventKinds \ {"StateChanged"}, arg : Versions \cup {NoUpdate}]

Event(kind) == [kind |-> kind, arg |-> NoUpdate]

Machines ==
    [state          : States,
     idleAge        : 0 .. IdleTimeout,               \* since idleSince
     driving        : BOOLEAN,
     charging       : BOOLEAN,
     drivingAge     : {Never} \cup 0 .. DriveTimeout, \* since lastDrivingAt
     lastRange      : Ranges,                         \* lastSnapshot's range
     lastAge        : {Never} \cup 0 .. MinGap,       \* Never: no lastSnapshot
     wasUnreachable : BOOLEAN,
     update         : Versions \cup {NoUpdate}]       \* updateInProgress/Version

\* Mutant: the rows still open are not looked at.
ResumeMutFresh(driving, charging) ==
    [state |-> "unknown", idleAge |-> 0, driving |-> FALSE,
     charging |-> FALSE, drivingAge |-> Never, lastRange |-> 0,
     lastAge |-> Never, wasUnreachable |-> FALSE, update |-> NoUpdate]

\* New(idleTimeout), pre-flagged with what storage still holds open.
Resume(driving, charging) ==
    [state |-> "unknown", idleAge |-> 0, driving |-> driving,
     charging |-> charging, drivingAge |-> Never, lastRange |-> 0,
     lastAge |-> Never, wasUnreachable |-> FALSE, update |-> NoUpdate]

New == Resume(FALSE, FALSE)

\* States that only ever get the cheap summary check.
AsleepLike(s) == s \in {"asleep", "offline", "suspended", "unknown"}

IdleTimedOut(m) == m.state = "idle" /\ m.idleAge >= IdleTimeout

\* Mutant: idleSince is set again by every idle reading.
TransitionMutRestarts(m, to) == [m EXCEPT !.state = to, !.idleAge = 0]

(***************************************************************************)
(* transition: idleSince is set on entering idle and zero elsewhere, so    *)
(* every change of state restarts the age.                                 *)
(***************************************************************************)
Transition(m, to) ==
    IF m.state = to THEN m ELSE [m EXCEPT !.state = to, !.idleAge = 0]

Changed(m, to) ==
    IF m.state = to THEN <<>> ELSE <<[kind |-> "StateChanged", arg |-> to]>>

-----------------------------------------------------------------------------
(* The cheap check. *)

\* Mutant: a raw state nobody knows is stored as it is.
SummaryTargetMutRaw(m, raw) ==
    IF raw # "online" THEN raw ELSE IF AsleepLike(m.state) THEN "online" ELSE m.state

\* Mutant: only "asleep" and "offline" count as unreachable.
SummaryTargetMutIgnores(m, raw) ==
    CASE raw \in {"asleep", "offline"} -> raw
      [] AsleepLike(m.state)           -> "online"
      [] OTHER                         -> m.state

\* Mutant: a car found awake is online, even if it was installing an update.
SummaryTargetMutForgets(m, raw) ==
    CASE raw = "offline"                         -> "offline"
      [] raw \in {"asleep", "other"}             -> "asleep"
      [] raw = "online" /\ AsleepLike(m.state)   -> "online"
      [] OTHER                                   -> m.state

\* The state OnSummary moves to.  A car found awake while an install was in
\* progress goes back to "updating"; a raw state nobody knows counts as asleep.
SummaryTarget(m, raw) ==
    CASE raw = "online" /\ ~AsleepLike(m.state)     -> m.state
      [] raw = "online" /\ AsleepLike(m.state)
                        /\ m.update # NoUpdate      -> "updating"
      [] raw = "online" /\ AsleepLike(m.state)
                        /\ m.update = NoUpdate      -> "online"
      [] raw = "offline"                            -> "offline"
      [] OTHER                                      -> "asleep"

OnSummary(m, raw) ==
    [Transition(m, SummaryTarget(m, raw)) EXCEPT
        !.wasUnreachable = @ \/ raw # "online"]

OnSummaryEvents(m, raw) == Changed(m, SummaryTarget(m, raw))

MarkUnreachable(m) == [m EXCEPT !.wasUnreachable = TRUE]

\* Mutant: a zero lastDrivingAt is taken for a long time ago.
DriveGoneMutZero(m, raw) ==
    /\ m.driving
    /\ \/ raw = "asleep"
       \/ raw = "offline" /\ (m.drivingAge = Never \/ m.drivingAge >= DriveTimeout)

\* Mutant: the drive of an offline car is waited for, like its charge.
DriveGoneMutWaits(m, raw) == m.driving /\ raw = "asleep"

\* A drive is given up at once when the car reports asleep, and when it is
\* offline once it has not been seen driving for DriveTimeout.
DriveGone(m, raw) ==
    /\ m.driving
    /\ \/ raw = "asleep"
       \/ /\ raw = "offline"
          /\ m.drivingAge # Never
          /\ m.drivingAge >= DriveTimeout

\* Mutant: no charge is ever given up.
ChargeGoneMutNever(m, raw) == FALSE

\* A charge is given up only when the car reports asleep.
ChargeGone(m, raw) == m.charging /\ raw = "asleep"

OnUnreachable(m, raw) ==
    [m EXCEPT !.driving  = @ /\ ~DriveGone(m, raw),
              !.charging = @ /\ ~ChargeGone(m, raw)]

OnUnreachableEvents(m, raw) ==
    (IF DriveGone(m, raw) THEN <<Event("DriveAbandoned")>> ELSE <<>>)
    \o (IF ChargeGone(m, raw) THEN <<Event("ChargeAbandoned")>> ELSE <<>>)

-----------------------------------------------------------------------------
(* The full poll. *)

\* The range gained over an observation gap that can only be a charge.
MissedCharge(m, s) ==
    /\ m.wasUnreachable
    /\ m.lastAge # Never
    /\ m.lastRange > 0 /\ s.range > 0
    /\ s.range - m.lastRange > MinGain
    /\ m.lastAge >= MinGap

OnBackOnline(m, s) == [m EXCEPT !.wasUnreachable = FALSE]

OnBackOnlineEvents(m, s) ==
    IF MissedCharge(m, s) THEN <<Event("OfflineCharge")>> ELSE <<>>

\* How a snapshot is classified; an install wins over everything, a gear over
\* a charge.
Activity(s) ==
    CASE s.version # NoUpdate                                -> "updating"
      [] s.version = NoUpdate /\ s.driving                   -> "driving"
      [] s.version = NoUpdate /\ ~s.driving /\ s.charging    -> "charging"
      [] OTHER                                               -> "idle"

\* A successful poll means the car is awake, whatever state it was in.
Woken(m) == IF AsleepLike(m.state) THEN Transition(m, "online") ELSE m

\* The version being installed after a snapshot: the first one seen is kept
\* until a snapshot that installs nothing.
Installing(m, s) ==
    CASE s.version = NoUpdate                          -> NoUpdate
      [] s.version # NoUpdate /\ m.update = NoUpdate   -> s.version
      [] OTHER                                         -> m.update

\* While an install runs the drive and charge flags are left as they were.
OnVehicleData(m, s) ==
    LET act == Activity(s) IN
    [Transition(Woken(m), act) EXCEPT
        !.update     = Installing(m, s),
        !.driving    = act = "driving" \/ (act = "updating" /\ @),
        !.charging   = act = "charging" \/ (act = "updating" /\ @),
        !.drivingAge = IF act = "driving" THEN 0 ELSE @,
        !.lastRange  = s.range,
        !.lastAge    = 0]

UpdateEvents(m, s) ==
    CASE s.version # NoUpdate /\ m.update = NoUpdate ->
            <<[kind |-> "UpdateBeg", arg |-> s.version]>>
      [] s.version = NoUpdate /\ m.update # NoUpdate ->
            <<[kind |-> "UpdateEnd", arg |-> m.update]>>
      [] OTHER -> <<>>

\* Mutant: driving off does not end a charge.
EndEventsMutPlugged(m, act) ==
    (IF m.driving /\ act \in {"charging", "idle"}
        THEN <<Event("DriveEnd")>> ELSE <<>>)
    \o (IF m.charging /\ act = "idle" THEN <<Event("ChargeEnd")>> ELSE <<>>)

\* The rows a new activity closes.
EndEvents(m, act) ==
    (IF m.driving /\ act \in {"charging", "idle"}
        THEN <<Event("DriveEnd")>> ELSE <<>>)
    \o (IF m.charging /\ act \in {"driving", "idle"}
        THEN <<Event("ChargeEnd")>> ELSE <<>>)

ReadingEvents(m, act) ==
    CASE act = "driving" ->
            <<Event(IF m.driving THEN "DrivePoint" ELSE "DriveStart")>>
      [] act = "charging" ->
            <<Event(IF m.charging THEN "ChargePoint" ELSE "ChargeStart")>>
      [] OTHER -> <<>>

OnVehicleDataEvents(m, s) ==
    LET act == Activity(s) IN
    Changed(m, Woken(m).state)
    \o UpdateEvents(m, s)
    \o EndEvents(m, act)
    \o Changed(Woken(m), act)
    \o ReadingEvents(m, act)
    \o <<Event("BatterySample")>>

SuspendTarget(m) ==
    IF m.state \in {"idle", "online"} THEN "suspended" ELSE m.state

Suspend(m) == Transition(m, SuspendTarget(m))

SuspendEvents(m) == Changed(m, SuspendTarget(m))

-----------------------------------------------------------------------------
(* One tick of the clock. *)

Older(age, limit) == IF age = Never \/ age >= limit THEN age ELSE age + 1

Aged(m) ==
    [m EXCEPT !.idleAge    = IF m.state = "idle" THEN Older(@, IdleTimeout) ELSE @,
              !.drivingAge = Older(@, DriveTimeout),
              !.lastAge    = Older(@, MinGap)]
=============================================================================
