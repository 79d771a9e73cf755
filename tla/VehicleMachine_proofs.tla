----------------------- MODULE VehicleMachine_proofs -----------------------
(***************************************************************************)
(* What each method of the vehicle machine returns, for every machine,     *)
(* snapshot and summary, and the two facts the loop relies on: which       *)
(* states a summary check can lead to, and that an install is never left   *)
(* for idle or suspended.                                                  *)
(***************************************************************************)
EXTENDS VehicleMachine, SequenceTheorems, TLAPS

LEMMA SingletonSeq ==
    ASSUME NEW S, NEW x \in S
    PROVE  <<x>> \in Seq(S)
OBVIOUS

LEMMA ResumeType ==
    ASSUME NEW d \in BOOLEAN, NEW c \in BOOLEAN
    PROVE  Resume(d, c) \in Machines
BY TimeAssumption, DataAssumption DEF Resume, Machines, States, Never

LEMMA TransitionType ==
    ASSUME NEW mm \in Machines, NEW to \in States
    PROVE  /\ Transition(mm, to) \in Machines
           /\ Transition(mm, to).state = to
           /\ Transition(mm, to).update = mm.update
           /\ Transition(mm, to).drivingAge = mm.drivingAge
<1>1. CASE mm.state = to
  BY <1>1 DEF Transition
<1>2. CASE mm.state # to
  <2>1. Transition(mm, to) = [mm EXCEPT !.state = to, !.idleAge = 0]
    BY <1>2 DEF Transition
  <2>2. 0 \in 0 .. IdleTimeout
    BY TimeAssumption
  <2> QED BY <2>1, <2>2 DEF Machines
<1> QED BY <1>1, <1>2

LEMMA ChangedType ==
    ASSUME NEW mm, NEW to \in States
    PROVE  Changed(mm, to) \in Seq(Events)
<1>1. [kind |-> "StateChanged", arg |-> to] \in Events
  BY DEF Events
<1> QED BY <1>1 DEF Changed

LEMMA EventType ==
    ASSUME NEW kind \in EventKinds \ {"StateChanged"}
    PROVE  Event(kind) \in Events
BY DEF Event, Events

LEMMA SummaryTargetType ==
    ASSUME NEW mm \in Machines, NEW raw \in RawStates
    PROVE  /\ SummaryTarget(mm, raw) \in States
           /\ ~AsleepLike(SummaryTarget(mm, raw)) => raw = "online"
           /\ mm.update # NoUpdate /\ mm.state \in {"updating", "asleep", "offline"}
                => SummaryTarget(mm, raw) \in {"updating", "asleep", "offline"}
BY DEF SummaryTarget, Machines, States, RawStates, AsleepLike

LEMMA OnSummaryType ==
    ASSUME NEW mm \in Machines, NEW raw \in RawStates
    PROVE  /\ OnSummary(mm, raw) \in Machines
           /\ OnSummary(mm, raw).state = SummaryTarget(mm, raw)
           /\ OnSummary(mm, raw).update = mm.update
           /\ OnSummary(mm, raw).drivingAge = mm.drivingAge
           /\ OnSummaryEvents(mm, raw) \in Seq(Events)
<1>1. SummaryTarget(mm, raw) \in States
  BY SummaryTargetType
<1>2. OnSummaryEvents(mm, raw) \in Seq(Events)
  BY <1>1, ChangedType DEF OnSummaryEvents
<1> DEFINE t == Transition(mm, SummaryTarget(mm, raw))
<1>3. /\ t \in Machines /\ t.state = SummaryTarget(mm, raw)
      /\ t.update = mm.update /\ t.drivingAge = mm.drivingAge
  BY <1>1, TransitionType
<1>4. OnSummary(mm, raw) = [t EXCEPT !.wasUnreachable = @ \/ raw # "online"]
  BY DEF OnSummary
<1> HIDE DEF t
<1> QED BY <1>2, <1>3, <1>4 DEF Machines

LEMMA OnUnreachableType ==
    ASSUME NEW mm \in Machines, NEW raw \in RawStates
    PROVE  /\ OnUnreachable(mm, raw) \in Machines
           /\ OnUnreachable(mm, raw).state = mm.state
           /\ OnUnreachable(mm, raw).update = mm.update
           /\ OnUnreachable(mm, raw).drivingAge = mm.drivingAge
BY DEF OnUnreachable, Machines, DriveGone, ChargeGone

LEMMA OnUnreachableEventsType ==
    ASSUME NEW mm, NEW raw
    PROVE  OnUnreachableEvents(mm, raw) \in Seq(Events)
<1> DEFINE a == IF DriveGone(mm, raw) THEN <<Event("DriveAbandoned")>> ELSE <<>>
           b == IF ChargeGone(mm, raw) THEN <<Event("ChargeAbandoned")>> ELSE <<>>
<1>1. a \in Seq(Events)
  BY EventType DEF EventKinds
<1>2. b \in Seq(Events)
  BY EventType DEF EventKinds
<1>3. OnUnreachableEvents(mm, raw) = a \o b
  BY DEF OnUnreachableEvents
<1> HIDE DEF a, b
<1> QED BY <1>1, <1>2, <1>3, ConcatProperties

LEMMA MarkUnreachableType ==
    ASSUME NEW mm \in Machines
    PROVE  /\ MarkUnreachable(mm) \in Machines
           /\ MarkUnreachable(mm).state = mm.state
           /\ MarkUnreachable(mm).update = mm.update
           /\ MarkUnreachable(mm).drivingAge = mm.drivingAge
BY DEF MarkUnreachable, Machines

LEMMA OnBackOnlineType ==
    ASSUME NEW mm \in Machines, NEW s \in Snapshots
    PROVE  /\ OnBackOnline(mm, s) \in Machines
           /\ OnBackOnline(mm, s).state = mm.state
           /\ OnBackOnline(mm, s).update = mm.update
           /\ OnBackOnline(mm, s).drivingAge = mm.drivingAge
           /\ OnBackOnlineEvents(mm, s) \in Seq(Events)
<1>1. OnBackOnlineEvents(mm, s) \in Seq(Events)
  BY EventType DEF OnBackOnlineEvents, EventKinds
<1> QED BY <1>1 DEF OnBackOnline, Machines

LEMMA ActivityType ==
    ASSUME NEW s \in Snapshots
    PROVE  /\ Activity(s) \in {"updating", "driving", "charging", "idle"}
           /\ Activity(s) = "updating" <=> s.version # NoUpdate
BY DEF Activity, Snapshots

LEMMA OnVehicleDataType ==
    ASSUME NEW mm \in Machines, NEW s \in Snapshots
    PROVE  /\ OnVehicleData(mm, s) \in Machines
           /\ OnVehicleData(mm, s).state = Activity(s)
           /\ OnVehicleData(mm, s).update # NoUpdate => Activity(s) = "updating"
           /\ OnVehicleData(mm, s).drivingAge =
                IF Activity(s) = "driving" THEN 0 ELSE mm.drivingAge
<1> DEFINE act == Activity(s)
           w   == Woken(mm)
           t   == Transition(w, act)
<1>1. act \in States /\ (act = "updating" <=> s.version # NoUpdate)
  BY ActivityType DEF States
<1>2. w \in Machines /\ w.update = mm.update /\ w.drivingAge = mm.drivingAge
  BY TransitionType DEF Woken, States
<1>3. /\ t \in Machines /\ t.state = act /\ t.update = mm.update
      /\ t.drivingAge = mm.drivingAge
  BY <1>1, <1>2, TransitionType
<1>4. /\ Installing(mm, s) \in Versions \cup {NoUpdate}
      /\ s.version = NoUpdate => Installing(mm, s) = NoUpdate
  BY DEF Installing, Machines, Snapshots
<1>5. OnVehicleData(mm, s) =
        [t EXCEPT !.update     = Installing(mm, s),
                  !.driving    = act = "driving" \/ (act = "updating" /\ @),
                  !.charging   = act = "charging" \/ (act = "updating" /\ @),
                  !.drivingAge = IF act = "driving" THEN 0 ELSE @,
                  !.lastRange  = s.range,
                  !.lastAge    = 0]
  BY DEF OnVehicleData
<1>6. s.range \in Ranges
  BY DEF Snapshots
<1> HIDE DEF act, w, t
<1>7. OnVehicleData(mm, s) \in Machines
  <2>1. 0 \in 0 .. DriveTimeout /\ 0 \in 0 .. MinGap
    BY TimeAssumption
  <2> QED BY <1>3, <1>4, <1>5, <1>6, <2>1 DEF Machines
<1>8. /\ OnVehicleData(mm, s).state = act
      /\ OnVehicleData(mm, s).update = Installing(mm, s)
      /\ OnVehicleData(mm, s).drivingAge = IF act = "driving" THEN 0 ELSE mm.drivingAge
  BY <1>3, <1>5 DEF Machines
<1> QED BY <1>1, <1>4, <1>7, <1>8 DEF act

LEMMA UpdateEventsType ==
    ASSUME NEW mm \in Machines, NEW s \in Snapshots
    PROVE  UpdateEvents(mm, s) \in Seq(Events)
<1>1. \A v \in Versions \cup {NoUpdate} :
        /\ [kind |-> "UpdateBeg", arg |-> v] \in Events
        /\ [kind |-> "UpdateEnd", arg |-> v] \in Events
  BY DEF Events, EventKinds
<1>2. s.version \in Versions \cup {NoUpdate} /\ mm.update \in Versions \cup {NoUpdate}
  BY DEF Machines, Snapshots
<1>3. CASE s.version # NoUpdate /\ mm.update = NoUpdate
  <2>1. UpdateEvents(mm, s) = <<[kind |-> "UpdateBeg", arg |-> s.version]>>
    BY <1>3 DEF UpdateEvents
  <2>2. [kind |-> "UpdateBeg", arg |-> s.version] \in Events
    BY <1>1, <1>2
  <2> QED BY ONLY <2>1, <2>2, SingletonSeq
<1>4. CASE s.version = NoUpdate /\ mm.update # NoUpdate
  <2>1. UpdateEvents(mm, s) = <<[kind |-> "UpdateEnd", arg |-> mm.update]>>
    BY <1>4 DEF UpdateEvents
  <2>2. [kind |-> "UpdateEnd", arg |-> mm.update] \in Events
    BY <1>1, <1>2
  <2> QED BY ONLY <2>1, <2>2, SingletonSeq
<1>5. CASE s.version = NoUpdate <=> mm.update = NoUpdate
  <2>1. UpdateEvents(mm, s) = <<>>
    BY <1>5 DEF UpdateEvents
  <2> QED BY <2>1
<1> QED BY <1>3, <1>4, <1>5

LEMMA OnVehicleDataEventsType ==
    ASSUME NEW mm \in Machines, NEW s \in Snapshots
    PROVE  OnVehicleDataEvents(mm, s) \in Seq(Events)
<1> DEFINE act == Activity(s)
           e1 == Changed(mm, Woken(mm).state)
           e2 == UpdateEvents(mm, s)
           e3 == EndEvents(mm, act)
           e4 == Changed(Woken(mm), act)
           e5 == ReadingEvents(mm, act)
           e6 == <<Event("BatterySample")>>
<1>1. act \in States
  BY ActivityType DEF States
<1>2. Woken(mm) \in Machines
  BY TransitionType DEF Woken, States
<1>3. e1 \in Seq(Events) /\ e4 \in Seq(Events)
  BY <1>1, <1>2, ChangedType DEF Machines
<1>4. e2 \in Seq(Events)
  BY UpdateEventsType
<1>5. e3 \in Seq(Events)
  <2> DEFINE a == IF mm.driving /\ act \in {"charging", "idle"}
                  THEN <<Event("DriveEnd")>> ELSE <<>>
             b == IF mm.charging /\ act \in {"driving", "idle"}
                  THEN <<Event("ChargeEnd")>> ELSE <<>>
  <2>1. a \in Seq(Events)
    BY EventType DEF EventKinds
  <2>2. b \in Seq(Events)
    BY EventType DEF EventKinds
  <2>3. e3 = a \o b
    BY DEF EndEvents
  <2> HIDE DEF a, b
  <2> QED BY <2>1, <2>2, <2>3, ConcatProperties
<1>6. e5 \in Seq(Events)
  BY EventType DEF ReadingEvents, EventKinds
<1>7. e6 \in Seq(Events)
  BY EventType DEF EventKinds
<1>8. OnVehicleDataEvents(mm, s) = e1 \o e2 \o e3 \o e4 \o e5 \o e6
  BY DEF OnVehicleDataEvents
<1> HIDE DEF e1, e2, e3, e4, e5, e6
<1> QED BY <1>3, <1>4, <1>5, <1>6, <1>7, <1>8, ConcatProperties

LEMMA SuspendType ==
    ASSUME NEW mm \in Machines
    PROVE  /\ Suspend(mm) \in Machines
           /\ Suspend(mm).state = SuspendTarget(mm)
           /\ AsleepLike(mm.state) => AsleepLike(SuspendTarget(mm))
           /\ ~AsleepLike(SuspendTarget(mm)) => ~AsleepLike(mm.state)
           /\ mm.state \notin {"idle", "online"} => SuspendTarget(mm) = mm.state
           /\ Suspend(mm).update = mm.update
           /\ Suspend(mm).drivingAge = mm.drivingAge
           /\ SuspendEvents(mm) \in Seq(Events)
<1>1. SuspendTarget(mm) \in States
  BY DEF SuspendTarget, States, Machines
<1>2. SuspendEvents(mm) \in Seq(Events)
  BY <1>1, ChangedType DEF SuspendEvents
<1> QED BY <1>1, <1>2, TransitionType DEF Suspend, SuspendTarget, AsleepLike, Machines

LEMMA OlderType ==
    ASSUME NEW limit \in Nat, NEW age \in {Never} \cup 0 .. limit
    PROVE  /\ Older(age, limit) \in {Never} \cup 0 .. limit
           /\ Older(age, limit) = Never <=> age = Never
BY DEF Older, Never

LEMMA AgedType ==
    ASSUME NEW mm \in Machines
    PROVE  /\ Aged(mm) \in Machines
           /\ Aged(mm).state = mm.state
           /\ Aged(mm).update = mm.update
           /\ Aged(mm).drivingAge = Older(mm.drivingAge, DriveTimeout)
<1>1. Older(mm.drivingAge, DriveTimeout) \in {Never} \cup 0 .. DriveTimeout
  BY OlderType, TimeAssumption DEF Machines
<1>2. Older(mm.lastAge, MinGap) \in {Never} \cup 0 .. MinGap
  BY OlderType, TimeAssumption DEF Machines
<1>3. Older(mm.idleAge, IdleTimeout) \in 0 .. IdleTimeout
  BY TimeAssumption DEF Machines, Older, Never
<1> QED BY <1>1, <1>2, <1>3 DEF Aged, Machines
=============================================================================
