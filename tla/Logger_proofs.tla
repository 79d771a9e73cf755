---------------------------- MODULE Logger_proofs ----------------------------
(***************************************************************************)
(* Proofs about the daemon's loop, for any timeouts, versions, number of   *)
(* rows, crashes and failing storage calls.                                *)
(***************************************************************************)
EXTENDS Logger, VehicleMachine_proofs

\* persist is never past the last call of the event it is at.
BatchOK ==
    IF todo = <<>> THEN done = 0 ELSE done < Len(Calls(Head(todo).kind))

-----------------------------------------------------------------------------
(* The batch of events. *)

LEMMA EventsType ==
    ASSUME NEW e \in Events
    PROVE  /\ e.kind \in EventKinds
           /\ e.kind = "StateChanged" => e.arg \in States
           /\ e.kind # "StateChanged" => e.arg \in Versions \cup {NoUpdate}
BY DEF Events, EventKinds

\* Every event makes one to four calls.
LEMMA CallsLen ==
    ASSUME NEW kind \in EventKinds
    PROVE  Len(Calls(kind)) \in 1 .. 4
BY DEF Calls, EventKinds

\* OpenState is called for a change of state, and only then; the calls on
\* software_updates are made for update events.
LEMMA CallsOf ==
    ASSUME NEW kind \in EventKinds, NEW i \in 1 .. Len(Calls(kind))
    PROVE  /\ Calls(kind)[i] = "OpenState" => kind = "StateChanged"
           /\ Calls(kind)[i] \in {"BeginUpdate", "FinishUpdate"} => kind # "StateChanged"
           /\ Calls(kind)[i] = "CloseDrive" => kind \in {"DriveEnd", "DriveAbandoned"}
BY DEF Calls, EventKinds

LEMMA BatchTypes ==
    ASSUME TypeOK, BatchOK, todo # <<>>
    PROVE  /\ Head(todo) \in Events
           /\ Tail(todo) \in Seq(Events)
           /\ done + 1 \in 1 .. Len(Calls(Head(todo).kind))
           /\ Len(Calls(Head(todo).kind)) \in 1 .. 4
<1>1. Head(todo) \in Events /\ Tail(todo) \in Seq(Events)
  BY DEF TypeOK
<1>2. Len(Calls(Head(todo).kind)) \in 1 .. 4
  BY <1>1, EventsType, CallsLen
<1>3. done \in Nat /\ done < Len(Calls(Head(todo).kind))
  BY DEF TypeOK, BatchOK
<1> QED BY <1>1, <1>2, <1>3

\* Whatever batch is left, a batch that starts at its first call is in order.
LEMMA FreshBatch ==
    ASSUME todo' \in Seq(Events), done' = 0
    PROVE  BatchOK'
<1>1. CASE todo' = <<>>
  BY <1>1 DEF BatchOK
<1>2. CASE todo' # <<>>
  <2>1. Head(todo') \in Events
    BY <1>2
  <2>2. Len(Calls(Head(todo').kind)) \in 1 .. 4
    BY <2>1, EventsType, CallsLen
  <2> QED BY <1>2, <2>2 DEF BatchOK
<1> QED BY <1>1, <1>2

LEMMA ReturnedType ==
    ASSUME TypeOK, BatchOK, todo # <<>>, Returned
    PROVE  todo' \in Seq(Events) /\ done' \in 0 .. 3 /\ BatchOK'
<1> DEFINE len == Len(Calls(Head(todo).kind))
<1>1. /\ Tail(todo) \in Seq(Events) /\ todo \in Seq(Events)
      /\ done + 1 \in 1 .. len /\ len \in 1 .. 4
      /\ done \in Nat
  BY BatchTypes DEF TypeOK
<1>2. CASE done + 1 = len
  <2>1. todo' = Tail(todo) /\ done' = 0
    BY <1>2 DEF Returned
  <2> QED BY <1>1, <2>1, FreshBatch
<1>3. CASE done + 1 # len
  <2>1. todo' = todo /\ done' = done + 1
    BY <1>3 DEF Returned
  <2>2. done + 1 < len
    BY <1>1, <1>3
  <2> HIDE DEF len
  <2>3. done' \in 0 .. 3
    BY <1>1, <2>1, <2>2
  <2>4. BatchOK'
    BY <2>1, <2>2 DEF BatchOK, len
  <2> QED BY <1>1, <2>1, <2>3, <2>4
<1> QED BY <1>2, <1>3

-----------------------------------------------------------------------------
(* Type correctness. *)

TypeInv == TypeOK /\ BatchOK

LEMMA InitType == Init => TypeInv
<1> SUFFICES ASSUME Init PROVE TypeInv
  OBVIOUS
<1>1. New \in Machines
  BY ResumeType DEF New
<1>2. NoSnapshot \in Snapshots
  BY DataAssumption DEF NoSnapshot, Snapshots
<1>3. 0 \in 0 .. MinPositions /\ 0 \in 0 .. DriveTimeout
      /\ 0 \in 0 .. MaxCrashes /\ 0 \in 0 .. MaxFails
  BY RowAssumption, TimeAssumption
<1>4. drives \in [DriveIds -> [status : DriveStatuses, points : 0 .. MinPositions]]
  BY <1>3 DEF Init, DriveStatuses
<1>5. sessions \in [SessionIds -> SessionStatuses]
  BY DEF Init, SessionStatuses
<1>6. todo \in Seq(Events) /\ pc \in Labels
  BY DEF Init, Labels
<1> QED BY <1>1, <1>2, <1>3, <1>4, <1>5, <1>6 DEF Init, TypeInv, TypeOK, BatchOK

\* A position keeps the shape of a drives row.
LEMMA RowTypes ==
    ASSUME NEW row \in [status : DriveStatuses, points : 0 .. MinPositions],
           NEW wentSomewhere \in BOOLEAN
    PROVE  /\ WithPosition(row) \in [status : DriveStatuses, points : 0 .. MinPositions]
           /\ WithPosition(row).status = row.status
           /\ ClosedDrive(row, wentSomewhere)
                \in [status : DriveStatuses, points : 0 .. MinPositions]
<1>1. 0 \in 0 .. MinPositions
  BY RowAssumption
<1>2. row.points < MinPositions => row.points + 1 \in 0 .. MinPositions
  BY RowAssumption
<1> QED BY <1>1, <1>2 DEF WithPosition, ClosedDrive, DriveStatuses

\* One storage call or a passed-over event.
LEMMA PersistType == TypeInv /\ Persist => TypeInv'
<1> SUFFICES ASSUME TypeOK, BatchOK, Persist PROVE TypeInv'
  BY DEF TypeInv
<1> DEFINE Rows == [status : DriveStatuses, points : 0 .. MinPositions]
<1>a. ASSUME todo # <<>>, Returned
      PROVE  todo' \in Seq(Events) /\ done' \in 0 .. 3 /\ BatchOK'
  BY <1>a, ReturnedType
<1>b. ASSUME todo # <<>>
      PROVE  /\ Head(todo).kind \in EventKinds
             /\ done + 1 \in 1 .. Len(Calls(Head(todo).kind))
             /\ Head(todo).kind = "StateChanged" => Head(todo).arg \in States
             /\ Head(todo).kind # "StateChanged"
                  => Head(todo).arg \in Versions \cup {NoUpdate}
  BY <1>b, BatchTypes, EventsType
<1>1. CASE SkipEvent
  <2>1. todo' \in Seq(Events) /\ done' = 0
    BY <1>1, BatchTypes DEF SkipEvent
  <2>2. BatchOK'
    BY <2>1, FreshBatch
  <2> QED BY <1>1, <2>1, <2>2 DEF SkipEvent, TypeInv, TypeOK, stored, history
<1>2. CASE OpenState
  <2>1. todo # <<>> /\ Returned /\ Calls(Head(todo).kind)[done + 1] = "OpenState"
    BY <1>2 DEF OpenState, Calling
  <2>2. Head(todo).arg \in States
    BY <2>1, <1>b, CallsOf
  <2> QED BY <1>2, <1>a, <2>1, <2>2 DEF OpenState, TypeInv, TypeOK, history
<1>3. CASE OpenDrive
  <2>1. todo # <<>> /\ Returned
    BY <1>3 DEF OpenDrive, Calling
  <2>2. [status |-> "open", points |-> 0] \in Rows
    BY RowAssumption DEF DriveStatuses
  <2>3. drives' \in [DriveIds -> Rows] /\ driveID' \in DriveIds \cup {0}
    <3> DEFINE row == [status |-> "open", points |-> 0]
    <3>1. PICK d \in DriveIds : drives' = [drives EXCEPT ![d] = row] /\ driveID' = d
      BY <1>3 DEF OpenDrive
    <3>2. row \in Rows
      BY <2>2
    <3> HIDE DEF row
    <3> QED BY <3>1, <3>2 DEF TypeOK
  <2> QED BY <1>3, <1>a, <2>1, <2>3 DEF OpenDrive, TypeInv, TypeOK, history
<1>4. CASE AppendPosition
  <2>1. todo # <<>> /\ Returned
    BY <1>4 DEF AppendPosition, Calling
  <2>2. drives' \in [DriveIds -> Rows]
    BY <1>4, RowTypes DEF AppendPosition, TypeOK
  <2> QED BY <1>4, <1>a, <2>1, <2>2 DEF AppendPosition, TypeInv, TypeOK, history
<1>5. CASE CloseDrive
  <2>1. todo # <<>> /\ Returned
    BY <1>5 DEF CloseDrive, Calling
  <2>2. drives' \in [DriveIds -> Rows]
    <3>1. PICK far \in BOOLEAN :
            drives' = [drives EXCEPT ![driveID] = ClosedDrive(@, far)]
      BY <1>5 DEF CloseDrive
    <3>2. \A row \in Rows : ClosedDrive(row, far) \in Rows
      BY RowTypes
    <3> QED BY <3>1, <3>2 DEF TypeOK
  <2> QED BY <1>5, <1>a, <2>1, <2>2 DEF CloseDrive, TypeInv, TypeOK, history
<1>6. CASE OpenSession
  <2>1. todo # <<>> /\ Returned
    BY <1>6 DEF OpenSession, Calling
  <2>2. sessions' \in [SessionIds -> SessionStatuses]
        /\ chargeID' \in SessionIds \cup {0}
    BY <1>6 DEF OpenSession, TypeOK, SessionStatuses
  <2> QED BY <1>6, <1>a, <2>1, <2>2 DEF OpenSession, TypeInv, TypeOK, history
<1>7. CASE CloseSession
  <2>1. todo # <<>> /\ Returned
    BY <1>7 DEF CloseSession, Calling
  <2>2. sessions' \in [SessionIds -> SessionStatuses]
    BY <1>7 DEF CloseSession, TypeOK, SessionStatuses
  <2> QED BY <1>7, <1>a, <2>1, <2>2 DEF CloseSession, TypeInv, TypeOK, history
<1>8. CASE OpenOffline
  <2>1. todo # <<>> /\ Returned
    BY <1>8 DEF OpenOffline, Calling
  <2>2. sessions' \in [SessionIds -> SessionStatuses]
        /\ offlineID' \in SessionIds \cup {0}
    BY <1>8 DEF OpenOffline, TypeOK, SessionStatuses
  <2> QED BY <1>8, <1>a, <2>1, <2>2 DEF OpenOffline, TypeInv, TypeOK, history
<1>9. CASE CloseOffline
  <2>1. todo # <<>> /\ Returned
    BY <1>9 DEF CloseOffline, Calling
  <2>2. sessions' \in [SessionIds -> SessionStatuses]
    BY <1>9 DEF CloseOffline, TypeOK, SessionStatuses
  <2> QED BY <1>9, <1>a, <2>1, <2>2 DEF CloseOffline, TypeInv, TypeOK, history
<1>10. CASE BeginUpdate
  <2>1. todo # <<>> /\ Returned /\ Calls(Head(todo).kind)[done + 1] = "BeginUpdate"
    BY <1>10 DEF BeginUpdate, Calling
  <2>2. Head(todo).arg \in Versions \cup {NoUpdate}
    BY <2>1, <1>b, CallsOf
  <2> QED BY <1>10, <1>a, <2>1, <2>2 DEF BeginUpdate, TypeInv, TypeOK, history
<1>11. CASE FinishUpdate
  <2>1. todo # <<>> /\ Returned
    BY <1>11 DEF FinishUpdate, Calling
  <2> QED BY <1>11, <1>a, <2>1 DEF FinishUpdate, TypeInv, TypeOK, history
<1>12. CASE WriteSample
  <2>1. todo # <<>> /\ Returned
    BY <1>12 DEF WriteSample, Calling
  <2> QED BY <1>12, <1>a, <2>1 DEF WriteSample, TypeInv, TypeOK, stored, history
<1> QED BY <1>1, <1>2, <1>3, <1>4, <1>5, <1>6, <1>7, <1>8, <1>9, <1>10, <1>11, <1>12
        DEF Persist

LEMMA StoreFailsType == TypeInv /\ StoreFails => TypeInv'
<1> SUFFICES ASSUME TypeOK, BatchOK, StoreFails PROVE TypeInv'
  BY DEF TypeInv
<1>1. NoSnapshot \in Snapshots
  BY DataAssumption DEF NoSnapshot, Snapshots
<1>2. m' \in Machines /\ pc' \in Labels
  BY MarkUnreachableType DEF StoreFails, TypeOK, Labels
<1>3. fails' \in 0 .. MaxFails
  BY RowAssumption DEF StoreFails, TypeOK
<1>4. todo' \in Seq(Events) /\ done' = 0 /\ BatchOK'
  BY DEF StoreFails, BatchOK
<1> QED BY <1>1, <1>2, <1>3, <1>4 DEF StoreFails, TypeInv, TypeOK, stored

LEMMA CheckSummaryType ==
    ASSUME TypeInv, NEW raw \in RawStates, CheckSummary(raw)
    PROVE  TypeInv'
<1> DEFINE a == OnSummary(m, raw)
<1>1. a \in Machines /\ OnSummaryEvents(m, raw) \in Seq(Events)
  BY OnSummaryType DEF TypeInv, TypeOK
<1>2. /\ OnUnreachable(a, raw) \in Machines
      /\ OnUnreachableEvents(a, raw) \in Seq(Events)
  BY <1>1, OnUnreachableType, OnUnreachableEventsType
<1>3. OnSummaryEvents(m, raw) \o OnUnreachableEvents(a, raw) \in Seq(Events)
  BY <1>1, <1>2, ConcatProperties
<1>4. m' \in Machines /\ todo' \in Seq(Events)
  BY <1>1, <1>2, <1>3 DEF CheckSummary
<1>5. done' = 0 /\ pc' \in Labels
  BY DEF CheckSummary, At, TypeInv, BatchOK, Labels
<1>6. BatchOK'
  BY <1>4, <1>5, FreshBatch
<1> QED BY <1>4, <1>5, <1>6 DEF CheckSummary, TypeInv, TypeOK, stored

LEMMA PollOKType ==
    ASSUME TypeInv, NEW s \in Snapshots, PollOK(s)
    PROVE  TypeInv'
<1>1. m' \in Machines /\ todo' \in Seq(Events)
  BY OnBackOnlineType DEF TypeInv, TypeOK, PollOK
<1>2. done' = 0 /\ pc' \in Labels
  BY DEF PollOK, At, TypeInv, BatchOK, Labels
<1>3. BatchOK'
  BY <1>1, <1>2, FreshBatch
<1> QED BY <1>1, <1>2, <1>3 DEF PollOK, TypeInv, TypeOK, stored, history

LEMMA VehicleDataType == TypeInv /\ VehicleData => TypeInv'
<1> SUFFICES ASSUME TypeInv, VehicleData PROVE TypeInv'
  OBVIOUS
<1>1. m' \in Machines /\ todo' \in Seq(Events)
  BY OnVehicleDataType, OnVehicleDataEventsType DEF TypeInv, TypeOK, VehicleData
<1>2. done' = 0 /\ pc' \in Labels
  BY DEF VehicleData, At, TypeInv, BatchOK, Labels
<1>3. BatchOK'
  BY <1>1, <1>2, FreshBatch
<1>4. quiet' \in 0 .. DriveTimeout
  BY TimeAssumption DEF VehicleData, TypeInv, TypeOK
<1>5. NoSnapshot \in Snapshots
  BY DataAssumption DEF NoSnapshot, Snapshots
<1> QED BY <1>1, <1>2, <1>3, <1>4, <1>5 DEF VehicleData, TypeInv, TypeOK, stored

LEMMA IdleCheckType == TypeInv /\ IdleCheck => TypeInv'
<1> SUFFICES ASSUME TypeInv, IdleCheck PROVE TypeInv'
  OBVIOUS
<1>1. m' \in Machines /\ todo' \in Seq(Events) /\ pc' \in Labels
  BY SuspendType DEF TypeInv, TypeOK, IdleCheck, Labels
<1>2. done' = 0
  BY DEF IdleCheck, At, TypeInv, BatchOK
<1>3. BatchOK'
  BY <1>1, <1>2, FreshBatch
<1> QED BY <1>1, <1>2, <1>3 DEF IdleCheck, TypeInv, TypeOK, stored, history

LEMMA ProcessType == TypeInv /\ (Start \/ Crash) => TypeInv'
<1> SUFFICES ASSUME TypeInv, Start \/ Crash PROVE TypeInv'
  OBVIOUS
<1>1. CASE Start
  <2>1. PICK d \in DriveIds \cup {0}, c \in SessionIds \cup {0} :
           driveID' = d /\ chargeID' = c /\ m' = Resume(d # 0, c # 0)
    BY <1>1 DEF Start
  <2>2. m' \in Machines
    BY <2>1, ResumeType
  <2> QED BY <1>1, <2>1, <2>2
          DEF Start, TypeInv, TypeOK, BatchOK, Labels, stored
<1>2. CASE Crash
  <2>1. New \in Machines /\ NoSnapshot \in Snapshots
    BY ResumeType, DataAssumption DEF New, NoSnapshot, Snapshots
  <2>2. crashes' \in 0 .. MaxCrashes
    BY <1>2, RowAssumption DEF Crash, TypeInv, TypeOK
  <2>3. todo' = <<>> /\ todo' \in Seq(Events)
    BY <1>2 DEF Crash
  <2> QED BY <1>2, <2>1, <2>2, <2>3
          DEF Crash, TypeInv, TypeOK, BatchOK, Labels, stored
<1> QED BY <1>1, <1>2

LEMMA TickType == TypeInv /\ Tick => TypeInv'
<1> SUFFICES ASSUME TypeInv, Tick PROVE TypeInv'
  OBVIOUS
<1>1. m' \in Machines
  BY AgedType DEF Tick, TypeInv, TypeOK
<1>2. quiet' \in 0 .. DriveTimeout
  BY TimeAssumption DEF Tick, Older, Never, TypeInv, TypeOK
<1> QED BY <1>1, <1>2 DEF Tick, TypeInv, TypeOK, BatchOK, stored

LEMMA NextType == TypeInv /\ [Next]_vars => TypeInv'
<1> SUFFICES ASSUME TypeInv, [Next]_vars PROVE TypeInv'
  OBVIOUS
<1>1. ASSUME NEW raw \in RawStates, CheckSummary(raw) PROVE TypeInv'
  BY <1>1, CheckSummaryType
<1>2. CASE CheckSummaryFails
  BY <1>2 DEF CheckSummaryFails, TypeInv, TypeOK, BatchOK, Labels, stored, history
<1>3. CASE PollFails
  BY <1>3, MarkUnreachableType
     DEF PollFails, TypeInv, TypeOK, BatchOK, Labels, stored, history
<1>4. ASSUME NEW s \in Snapshots, PollOK(s) PROVE TypeInv'
  BY <1>4, PollOKType
<1>5. CASE VehicleData
  BY <1>5, VehicleDataType
<1>6. CASE IdleCheck
  BY <1>6, IdleCheckType
<1>7. CASE Suspended
  BY <1>7 DEF Suspended, TypeInv, TypeOK, BatchOK, Labels, stored, history
<1>8. CASE StreamPoint
  <2>1. drives' \in [DriveIds -> [status : DriveStatuses, points : 0 .. MinPositions]]
    BY <1>8, RowTypes DEF StreamPoint, TypeInv, TypeOK
  <2> QED BY <1>8, <2>1 DEF StreamPoint, TypeInv, TypeOK, BatchOK, volatile, history
<1>9. CASE Persist
  BY <1>9, PersistType
<1>10. CASE StoreFails
  BY <1>10, StoreFailsType
<1>11. CASE Start \/ Crash
  BY <1>11, ProcessType
<1>12. CASE Tick
  BY <1>12, TickType
<1>13. CASE UNCHANGED vars
  BY <1>13 DEF vars, volatile, stored, history, TypeInv, TypeOK, BatchOK
<1> QED BY <1>1, <1>2, <1>3, <1>4, <1>5, <1>6, <1>7, <1>8, <1>9, <1>10, <1>11, <1>12,
           <1>13 DEF Next

LEMMA TypeInvariant == Spec => []TypeInv
<1> QED BY InitType, NextType, PTL DEF Spec

\* Every variable keeps its type, however often the process dies and storage
\* calls fail.
THEOREM TypeCorrect == Spec => []TypeOK
<1>1. TypeInv => TypeOK
  BY DEF TypeInv
<1> QED BY TypeInvariant, <1>1, PTL

\* persist leaves the machine, the loop's label, the history and the snapshot
\* alone.
LEMMA PersistFrame ==
    Persist => UNCHANGED <<m, pc, snap, history>>
BY DEF Persist, SkipEvent, OpenState, OpenDrive, AppendPosition, CloseDrive,
       OpenSession, CloseSession, OpenOffline, CloseOffline, BeginUpdate,
       FinishUpdate, WriteSample

-----------------------------------------------------------------------------
(* The car is polled only while it is known to be awake. *)

\* A poll in progress was begun in a state the loop polls in.
AwakeInv ==
    /\ SleepRespected
    /\ pc = "backOnline" => ~AsleepLike(m.state)

LEMMA AwakeStep == TypeInv /\ AwakeInv /\ [Next]_vars => AwakeInv'
<1> SUFFICES ASSUME TypeInv, AwakeInv, [Next]_vars PROVE AwakeInv'
  OBVIOUS
<1> USE DEF AwakeInv, SleepRespected
<1>1. ASSUME NEW raw \in RawStates, CheckSummary(raw) PROVE AwakeInv'
  <2> DEFINE a == OnSummary(m, raw)
  <2>1. a \in Machines /\ a.state = SummaryTarget(m, raw)
    BY OnSummaryType DEF TypeInv, TypeOK
  <2>2. m'.state = a.state
    BY <1>1, <2>1, OnUnreachableType DEF CheckSummary
  <2>3. ~AsleepLike(m'.state) => raw = "online"
    BY <2>1, <2>2, SummaryTargetType DEF TypeInv, TypeOK
  <2> QED BY <1>1, <2>3 DEF CheckSummary
<1>2. CASE CheckSummaryFails
  BY <1>2 DEF CheckSummaryFails, history
<1>3. CASE PollFails
  BY <1>3, MarkUnreachableType DEF PollFails, history, TypeInv, TypeOK
<1>4. ASSUME NEW s \in Snapshots, PollOK(s) PROVE AwakeInv'
  BY <1>4, OnBackOnlineType DEF PollOK, history, TypeInv, TypeOK
<1>5. CASE VehicleData
  BY <1>5 DEF VehicleData, At
<1>6. CASE IdleCheck
  <2>1. ~AsleepLike(m'.state) => ~AsleepLike(m.state)
    BY <1>6, SuspendType DEF IdleCheck, TypeInv, TypeOK
  <2> QED BY <1>6, <2>1 DEF IdleCheck, history
<1>7. CASE Suspended
  BY <1>7 DEF Suspended, history
<1>8. CASE StreamPoint
  BY <1>8 DEF StreamPoint, volatile, history
<1>9. CASE Persist
  BY <1>9, PersistFrame DEF history
<1>10. CASE StoreFails
  BY <1>10, MarkUnreachableType DEF StoreFails, TypeInv, TypeOK
<1>11. CASE Start
  BY <1>11 DEF Start, Resume, AsleepLike
<1>12. CASE Crash
  BY <1>12 DEF Crash, New, Resume, AsleepLike
<1>13. CASE Tick
  BY <1>13, AgedType DEF Tick, TypeInv, TypeOK
<1>14. CASE UNCHANGED vars
  BY <1>14 DEF vars, volatile, history
<1> QED BY <1>1, <1>2, <1>3, <1>4, <1>5, <1>6, <1>7, <1>8, <1>9, <1>10, <1>11, <1>12,
           <1>13, <1>14 DEF Next

\* Whatever the vehicle list says and however polls, storage calls and the
\* process fail, the loop is in a state it polls in only if the last summary
\* check of this run found the car online.
THEOREM SleepIsRespected == Spec => []SleepRespected
<1>1. Init => AwakeInv
  BY DEF Init, New, Resume, AwakeInv, SleepRespected, AsleepLike
<1>2. AwakeInv => SleepRespected
  BY DEF AwakeInv
<1> QED BY <1>1, <1>2, AwakeStep, TypeInvariant, PTL DEF Spec

-----------------------------------------------------------------------------
(* An install is polled until it is over. *)

LEMMA UpdateStep ==
    TypeInv /\ UpdateNotSuspended /\ [Next]_vars => UpdateNotSuspended'
<1> SUFFICES ASSUME TypeInv, UpdateNotSuspended, [Next]_vars
             PROVE  UpdateNotSuspended'
  OBVIOUS
<1> USE DEF UpdateNotSuspended
<1>1. ASSUME NEW raw \in RawStates, CheckSummary(raw) PROVE UpdateNotSuspended'
  <2> DEFINE a == OnSummary(m, raw)
  <2>1. a \in Machines /\ a.state = SummaryTarget(m, raw) /\ a.update = m.update
    BY OnSummaryType DEF TypeInv, TypeOK
  <2>2. m'.state = a.state /\ m'.update = a.update
    BY <1>1, <2>1, OnUnreachableType DEF CheckSummary
  <2> QED BY <2>1, <2>2, SummaryTargetType DEF TypeInv, TypeOK
<1>2. CASE CheckSummaryFails \/ Suspended
  BY <1>2 DEF CheckSummaryFails, Suspended
<1>3. CASE PollFails
  BY <1>3, MarkUnreachableType DEF PollFails, TypeInv, TypeOK
<1>4. ASSUME NEW s \in Snapshots, PollOK(s) PROVE UpdateNotSuspended'
  BY <1>4, OnBackOnlineType DEF PollOK, TypeInv, TypeOK
<1>5. CASE VehicleData
  BY <1>5, OnVehicleDataType DEF VehicleData, TypeInv, TypeOK
<1>6. CASE IdleCheck
  <2>1. CASE UNCHANGED m
    BY <2>1
  <2>2. CASE m' = Suspend(m)
    BY <2>2, SuspendType DEF TypeInv, TypeOK
  <2> QED BY <1>6, <2>1, <2>2 DEF IdleCheck
<1>7. CASE StreamPoint
  BY <1>7 DEF StreamPoint, volatile
<1>8. CASE Persist
  BY <1>8, PersistFrame
<1>9. CASE StoreFails
  BY <1>9, MarkUnreachableType DEF StoreFails, TypeInv, TypeOK
<1>10. CASE Start
  BY <1>10 DEF Start, Resume
<1>11. CASE Crash
  BY <1>11 DEF Crash, New, Resume
<1>12. CASE Tick
  BY <1>12, AgedType DEF Tick, TypeInv, TypeOK
<1>13. CASE UNCHANGED vars
  BY <1>13 DEF vars, volatile
<1> QED BY <1>1, <1>2, <1>3, <1>4, <1>5, <1>6, <1>7, <1>8, <1>9, <1>10, <1>11, <1>12,
           <1>13 DEF Next

\* A car that is installing an update is in no state that may be suspended,
\* for any timeouts and any mix of failures: the install's end is polled for.
THEOREM UpdateIsNotSuspended == Spec => []UpdateNotSuspended
<1>1. Init => UpdateNotSuspended
  BY DEF Init, New, Resume, UpdateNotSuspended
<1> QED BY <1>1, UpdateStep, TypeInvariant, PTL DEF Spec

-----------------------------------------------------------------------------
(* The rows the loop writes to are open. *)

\* With no process there is no row in hand.
RowsInv ==
    /\ HeldRowsOpen
    /\ pc = "down" => offlineID = 0 /\ todo = <<>>

LEMMA HeldRowsPersist == TypeInv /\ HeldRowsOpen /\ Persist => HeldRowsOpen'
<1> SUFFICES ASSUME TypeInv, HeldRowsOpen, Persist PROVE HeldRowsOpen'
  OBVIOUS
<1> USE DEF HeldRowsOpen
<1>0. /\ drives \in [DriveIds -> [status : DriveStatuses, points : 0 .. MinPositions]]
      /\ sessions \in [SessionIds -> SessionStatuses]
      /\ driveID \in DriveIds \cup {0}
      /\ chargeID \in SessionIds \cup {0} /\ offlineID \in SessionIds \cup {0}
      /\ 0 \notin DriveIds /\ 0 \notin SessionIds
  BY RowAssumption DEF TypeInv, TypeOK
<1>1. CASE SkipEvent \/ OpenState \/ BeginUpdate \/ FinishUpdate \/ WriteSample
  BY <1>1 DEF SkipEvent, OpenState, BeginUpdate, FinishUpdate, WriteSample, stored
<1>2. CASE OpenDrive
  BY <1>0, <1>2 DEF OpenDrive
<1>3. CASE AppendPosition
  <2>1. driveID # 0 => drives'[driveID].status = drives[driveID].status
    BY <1>0, <1>3, RowTypes DEF AppendPosition
  <2> QED BY <1>3, <2>1 DEF AppendPosition
<1>4. CASE CloseDrive
  BY <1>4 DEF CloseDrive
<1>5. CASE OpenSession
  <2>1. PICK c \in SessionIds :
          IsNextSession(c) /\ sessions' = [sessions EXCEPT ![c] = "open"] /\ chargeID' = c
    BY <1>5 DEF OpenSession
  <2>2. offlineID # 0 => offlineID # c
    BY <2>1 DEF IsNextSession
  <2> QED BY <1>0, <1>5, <2>1, <2>2 DEF OpenSession
<1>6. CASE CloseSession
  BY <1>0, <1>6 DEF CloseSession
<1>7. CASE OpenOffline
  <2>1. PICK c \in SessionIds :
          IsNextSession(c) /\ sessions' = [sessions EXCEPT ![c] = "open"] /\ offlineID' = c
    BY <1>7 DEF OpenOffline
  <2>2. chargeID # 0 => chargeID # c
    BY <2>1 DEF IsNextSession
  <2> QED BY <1>0, <1>7, <2>1, <2>2 DEF OpenOffline
<1>8. CASE CloseOffline
  BY <1>0, <1>8 DEF CloseOffline
<1> QED BY <1>1, <1>2, <1>3, <1>4, <1>5, <1>6, <1>7, <1>8 DEF Persist

LEMMA HeldRowsStep == TypeInv /\ RowsInv /\ [Next]_vars => HeldRowsOpen'
<1> SUFFICES ASSUME TypeInv, RowsInv, [Next]_vars PROVE HeldRowsOpen'
  OBVIOUS
<1>0. HeldRowsOpen
  BY DEF RowsInv
<1>1. ASSUME UNCHANGED <<drives, sessions, driveID, chargeID, offlineID>>
      PROVE  HeldRowsOpen'
  BY <1>0, <1>1 DEF HeldRowsOpen
<1>2. ASSUME NEW raw \in RawStates, CheckSummary(raw) PROVE HeldRowsOpen'
  BY <1>1, <1>2 DEF CheckSummary, stored
<1>3. ASSUME NEW s \in Snapshots, PollOK(s) PROVE HeldRowsOpen'
  BY <1>1, <1>3 DEF PollOK, stored
<1>4. CASE CheckSummaryFails \/ PollFails \/ VehicleData \/ IdleCheck \/ Suspended \/ Tick
  BY <1>1, <1>4 DEF CheckSummaryFails, PollFails, VehicleData, IdleCheck, Suspended,
                    Tick, stored
<1>5. CASE StreamPoint
  <2>1. driveID \in DriveIds => drives'[driveID].status = drives[driveID].status
    BY <1>5, RowTypes DEF StreamPoint, TypeInv, TypeOK
  <2> QED BY <1>0, <1>5, <2>1 DEF StreamPoint, HeldRowsOpen, TypeInv, TypeOK, volatile
<1>6. CASE Persist
  BY <1>0, <1>6, HeldRowsPersist
<1>7. CASE StoreFails
  BY <1>0, <1>7 DEF StoreFails, HeldRowsOpen, stored
<1>8. CASE Start
  <2>1. PICK d \in DriveIds \cup {0}, c \in SessionIds \cup {0} :
          /\ IsLatest(d, OpenDrives) /\ IsLatest(c, OpenSessions)
          /\ driveID' = d /\ chargeID' = c
    BY <1>8 DEF Start
  <2>2. d # 0 => d \in OpenDrives
    BY <2>1 DEF IsLatest
  <2>3. c # 0 => c \in OpenSessions
    BY <2>1 DEF IsLatest
  <2>4. UNCHANGED <<drives, sessions, offlineID>>
    BY <1>8 DEF Start, stored
  <2>5. offlineID = 0
    BY <1>8 DEF Start, RowsInv
  <2> QED BY <2>1, <2>2, <2>3, <2>4, <2>5 DEF HeldRowsOpen, OpenDrives, OpenSessions
<1>9. CASE Crash
  BY <1>9 DEF Crash, HeldRowsOpen
<1>10. CASE UNCHANGED vars
  BY <1>1, <1>10 DEF vars, volatile, stored
<1> QED BY <1>2, <1>3, <1>4, <1>5, <1>6, <1>7, <1>8, <1>9, <1>10 DEF Next

LEMMA DownStep == RowsInv /\ [Next]_vars => (pc = "down" => offlineID = 0 /\ todo = <<>>)'
<1> SUFFICES ASSUME RowsInv, [Next]_vars, pc' = "down"
             PROVE  offlineID' = 0 /\ todo' = <<>>
  OBVIOUS
<1> USE DEF RowsInv
<1>1. CASE Persist
  BY <1>1, PersistFrame DEF Persist, SkipEvent, OpenState, OpenDrive, AppendPosition,
     CloseDrive, OpenSession, CloseSession, OpenOffline, CloseOffline, BeginUpdate,
     FinishUpdate, WriteSample, Calling
<1>2. CASE StoreFails
  BY <1>2 DEF StoreFails
<1>3. CASE Crash
  BY <1>3 DEF Crash
<1>4. CASE Tick
  BY <1>4 DEF Tick
<1>5. CASE UNCHANGED vars
  BY <1>5 DEF vars, volatile
<1>6. CASE \/ \E raw \in RawStates : CheckSummary(raw)
           \/ \E s \in Snapshots : PollOK(s)
           \/ CheckSummaryFails \/ PollFails \/ VehicleData \/ IdleCheck \/ Suspended
           \/ Start
  BY <1>6 DEF CheckSummary, PollOK, CheckSummaryFails, PollFails, VehicleData, IdleCheck,
              Suspended, Start
<1>7. CASE StreamPoint
  BY <1>7 DEF StreamPoint, At, volatile
<1> QED BY <1>1, <1>2, <1>3, <1>4, <1>5, <1>6, <1>7 DEF Next

\* A drive or session the loop holds is open, for any mix of crashes, restarts
\* and failing storage calls: no sample is ever added to a row that is closed or
\* deleted, and the synthesized session never shares a row with the observed one.
THEOREM HeldRowsAreOpen == Spec => []HeldRowsOpen
<1>1. Init => RowsInv
  BY DEF Init, RowsInv, HeldRowsOpen
<1>2. TypeInv /\ RowsInv /\ [Next]_vars => RowsInv'
  BY HeldRowsStep, DownStep DEF RowsInv
<1>3. RowsInv => HeldRowsOpen
  BY DEF RowsInv
<1> QED BY <1>1, <1>2, <1>3, TypeInvariant, PTL DEF Spec

-----------------------------------------------------------------------------
(* Which events a batch holds. *)

\* An event of one of these kinds is in the sequence.
Has(es, kinds) == \E i \in 1 .. Len(es) : es[i].kind \in kinds

\* No two are.
Once(es, kinds) ==
    \A i, j \in 1 .. Len(es) : es[i].kind \in kinds /\ es[j].kind \in kinds => i = j

LEMMA HasNothing ==
    ASSUME NEW kinds
    PROVE  ~Has(<<>>, kinds) /\ Once(<<>>, kinds)
BY DEF Has, Once

LEMMA HasSingle ==
    ASSUME NEW kinds, NEW e
    PROVE  /\ Has(<<e>>, kinds) <=> e.kind \in kinds
           /\ Once(<<e>>, kinds)
BY DEF Has, Once

LEMMA HasUnion ==
    ASSUME NEW es, NEW k1, NEW k2
    PROVE  Has(es, k1 \cup k2) <=> Has(es, k1) \/ Has(es, k2)
BY DEF Has

LEMMA ConcatAt ==
    ASSUME NEW s \in Seq(Events), NEW t \in Seq(Events)
    PROVE  /\ Len(s) \in Nat /\ Len(t) \in Nat /\ Len(s \o t) = Len(s) + Len(t)
           /\ \A i \in 1 .. Len(s) : (s \o t)[i] = s[i]
           /\ \A i \in 1 .. Len(t) : (s \o t)[Len(s) + i] = t[i]
<1>1. Len(s) \in Nat /\ Len(t) \in Nat /\ Len(s \o t) = Len(s) + Len(t)
  BY LenProperties, ConcatProperties
<1>2. \A i \in 1 .. Len(s) + Len(t) :
         (s \o t)[i] = IF i <= Len(s) THEN s[i] ELSE t[i - Len(s)]
  BY <1>1, ConcatProperties
<1>3. \A i \in 1 .. Len(t) : /\ Len(s) + i \in 1 .. Len(s) + Len(t)
                             /\ ~(Len(s) + i <= Len(s)) /\ (Len(s) + i) - Len(s) = i
  BY <1>1
<1>4. \A i \in 1 .. Len(s) : i \in 1 .. Len(s) + Len(t) /\ i <= Len(s)
  BY <1>1
<1> QED BY <1>1, <1>2, <1>3, <1>4

LEMMA HasConcat ==
    ASSUME NEW s \in Seq(Events), NEW t \in Seq(Events), NEW kinds
    PROVE  Has(s \o t, kinds) <=> Has(s, kinds) \/ Has(t, kinds)
<1>0. /\ Len(s) \in Nat /\ Len(t) \in Nat /\ Len(s \o t) = Len(s) + Len(t)
      /\ \A i \in 1 .. Len(s) : (s \o t)[i] = s[i]
      /\ \A i \in 1 .. Len(t) : (s \o t)[Len(s) + i] = t[i]
  BY ConcatAt
<1>1. ASSUME Has(s \o t, kinds) PROVE Has(s, kinds) \/ Has(t, kinds)
  <2>1. PICK i \in 1 .. Len(s) + Len(t) : (s \o t)[i].kind \in kinds
    BY <1>0, <1>1 DEF Has
  <2>2. CASE i <= Len(s)
    <3>1. i \in 1 .. Len(s)
      BY <1>0, <2>2
    <3> QED BY <1>0, <2>1, <3>1 DEF Has
  <2>3. CASE ~(i <= Len(s))
    <3>1. i - Len(s) \in 1 .. Len(t) /\ Len(s) + (i - Len(s)) = i
      BY <1>0, <2>3
    <3>2. t[i - Len(s)].kind \in kinds
      BY <1>0, <2>1, <3>1
    <3> QED BY <3>1, <3>2 DEF Has
  <2> QED BY <2>2, <2>3
<1>2. ASSUME Has(s, kinds) PROVE Has(s \o t, kinds)
  <2>1. PICK i \in 1 .. Len(s) : s[i].kind \in kinds
    BY <1>2 DEF Has
  <2>2. i \in 1 .. Len(s \o t)
    BY <1>0
  <2> QED BY <1>0, <2>1, <2>2 DEF Has
<1>3. ASSUME Has(t, kinds) PROVE Has(s \o t, kinds)
  <2>1. PICK i \in 1 .. Len(t) : t[i].kind \in kinds
    BY <1>3 DEF Has
  <2>2. Len(s) + i \in 1 .. Len(s \o t)
    BY <1>0
  <2> QED BY <1>0, <2>1, <2>2 DEF Has
<1> QED BY <1>1, <1>2, <1>3

LEMMA OnceConcat ==
    ASSUME NEW s \in Seq(Events), NEW t \in Seq(Events), NEW kinds,
           Once(s, kinds), Once(t, kinds), ~(Has(s, kinds) /\ Has(t, kinds))
    PROVE  Once(s \o t, kinds)
<1>0. /\ Len(s) \in Nat /\ Len(t) \in Nat /\ Len(s \o t) = Len(s) + Len(t)
      /\ \A i \in 1 .. Len(s) : (s \o t)[i] = s[i]
      /\ \A i \in 1 .. Len(t) : (s \o t)[Len(s) + i] = t[i]
  BY ConcatAt
<1> SUFFICES ASSUME NEW i \in 1 .. Len(s) + Len(t), NEW j \in 1 .. Len(s) + Len(t),
                    (s \o t)[i].kind \in kinds, (s \o t)[j].kind \in kinds
             PROVE  i = j
  BY <1>0 DEF Once
<1> DEFINE In(k) == k \in 1 .. Len(s) /\ s[k].kind \in kinds
           Past(k) == k - Len(s) \in 1 .. Len(t) /\ t[k - Len(s)].kind \in kinds
<1>1. ASSUME NEW k \in 1 .. Len(s) + Len(t), (s \o t)[k].kind \in kinds
      PROVE  In(k) \/ Past(k)
  <2>1. CASE k <= Len(s)
    <3>1. k \in 1 .. Len(s)
      BY <1>0, <2>1
    <3> QED BY <1>0, <1>1, <3>1
  <2>2. CASE ~(k <= Len(s))
    <3>1. k - Len(s) \in 1 .. Len(t) /\ Len(s) + (k - Len(s)) = k
      BY <1>0, <2>2
    <3> QED BY <1>0, <1>1, <3>1
  <2> QED BY <2>1, <2>2
<1>2. (In(i) \/ Past(i)) /\ (In(j) \/ Past(j))
  BY <1>1
<1>3. CASE In(i) /\ In(j)
  BY <1>3 DEF Once
<1>4. CASE Past(i) /\ Past(j)
  <2>1. i - Len(s) = j - Len(s)
    BY <1>4 DEF Once
  <2> QED BY <1>0, <2>1
<1>5. CASE In(i) /\ Past(j)
  BY <1>5 DEF Has
<1>6. CASE Past(i) /\ In(j)
  BY <1>6 DEF Has
<1> QED BY <1>2, <1>3, <1>4, <1>5, <1>6

\* Events of other kinds at the end change neither.
LEMMA HasAppend ==
    ASSUME NEW s \in Seq(Events), NEW t \in Seq(Events), NEW kinds,
           ~Has(t, kinds), Once(t, kinds)
    PROVE  /\ s \o t \in Seq(Events)
           /\ Has(s \o t, kinds) <=> Has(s, kinds)
           /\ Once(s, kinds) => Once(s \o t, kinds)
BY HasConcat, OnceConcat, ConcatProperties

LEMMA TailAt ==
    ASSUME NEW s \in Seq(Events), s # <<>>
    PROVE  /\ Len(s) \in Nat \ {0} /\ Len(Tail(s)) = Len(s) - 1
           /\ Head(s) = s[1] /\ 1 \in 1 .. Len(s)
           /\ \A i \in 1 .. Len(Tail(s)) : i + 1 \in 1 .. Len(s) /\ Tail(s)[i] = s[i + 1]
           /\ \A i \in 2 .. Len(s) : i - 1 \in 1 .. Len(Tail(s)) /\ Tail(s)[i - 1] = s[i]
<1>1. Len(s) \in Nat \ {0} /\ Len(Tail(s)) = Len(s) - 1
  BY EmptySeq, LenProperties
<1>2. Head(s) = s[1] /\ 1 \in 1 .. Len(s)
  BY <1>1
<1>3. \A i \in 1 .. Len(Tail(s)) : i + 1 \in 1 .. Len(s) /\ Tail(s)[i] = s[i + 1]
  BY <1>1
<1>4. ASSUME NEW i \in 2 .. Len(s)
      PROVE  i - 1 \in 1 .. Len(Tail(s)) /\ Tail(s)[i - 1] = s[i]
  <2>1. i - 1 \in 1 .. Len(Tail(s)) /\ (i - 1) + 1 = i
    BY <1>1
  <2> QED BY <1>3, <2>1
<1> QED BY <1>1, <1>2, <1>3, <1>4

LEMMA HasTail ==
    ASSUME NEW s \in Seq(Events), s # <<>>, NEW kinds
    PROVE  /\ Has(s, kinds) <=> Head(s).kind \in kinds \/ Has(Tail(s), kinds)
           /\ Once(s, kinds) => Once(Tail(s), kinds)
           /\ Once(s, kinds) /\ Head(s).kind \in kinds => ~Has(Tail(s), kinds)
<1>0. /\ Len(s) \in Nat \ {0} /\ Len(Tail(s)) = Len(s) - 1
      /\ Head(s) = s[1] /\ 1 \in 1 .. Len(s)
      /\ \A i \in 1 .. Len(Tail(s)) : i + 1 \in 1 .. Len(s) /\ Tail(s)[i] = s[i + 1]
      /\ \A i \in 2 .. Len(s) : i - 1 \in 1 .. Len(Tail(s)) /\ Tail(s)[i - 1] = s[i]
  BY TailAt
<1>1. ASSUME Has(s, kinds) PROVE Head(s).kind \in kinds \/ Has(Tail(s), kinds)
  <2>1. PICK i \in 1 .. Len(s) : s[i].kind \in kinds
    BY <1>1 DEF Has
  <2>2. CASE i = 1
    BY <1>0, <2>1, <2>2
  <2>3. CASE i # 1
    <3>1. i \in 2 .. Len(s)
      BY <1>0, <2>3
    <3> QED BY <1>0, <2>1, <3>1 DEF Has
  <2> QED BY <2>2, <2>3
<1>2. ASSUME Head(s).kind \in kinds \/ Has(Tail(s), kinds) PROVE Has(s, kinds)
  BY <1>0, <1>2 DEF Has
<1>3. ASSUME Once(s, kinds) PROVE Once(Tail(s), kinds)
  <2> SUFFICES ASSUME NEW i \in 1 .. Len(Tail(s)), NEW j \in 1 .. Len(Tail(s)),
                      Tail(s)[i].kind \in kinds, Tail(s)[j].kind \in kinds
               PROVE  i = j
    BY DEF Once
  <2>1. i + 1 = j + 1
    BY <1>0, <1>3 DEF Once
  <2> QED BY <1>0, <2>1
<1>4. ASSUME Once(s, kinds), Head(s).kind \in kinds PROVE ~Has(Tail(s), kinds)
  <2> SUFFICES ASSUME NEW i \in 1 .. Len(Tail(s)), Tail(s)[i].kind \in kinds
               PROVE  FALSE
    BY DEF Has
  <2>1. i + 1 = 1
    BY <1>0, <1>4 DEF Once
  <2> QED BY <1>0, <2>1
<1> QED BY <1>1, <1>2, <1>3, <1>4

\* The last change of state in the sequence, if there is one, is to s.
LastState(es, s) ==
    \A i \in 1 .. Len(es) :
        /\ es[i].kind = "StateChanged"
        /\ \A j \in i + 1 .. Len(es) : es[j].kind # "StateChanged"
        => es[i].arg = s

LEMMA LastOfNone ==
    ASSUME NEW es, NEW s, ~Has(es, {"StateChanged"})
    PROVE  LastState(es, s)
BY DEF Has, LastState

LEMMA LastConcat ==
    ASSUME NEW s \in Seq(Events), NEW t \in Seq(Events), NEW x,
           LastState(t, x), Has(t, {"StateChanged"}) \/ LastState(s, x)
    PROVE  LastState(s \o t, x)
<1>0. /\ Len(s) \in Nat /\ Len(t) \in Nat /\ Len(s \o t) = Len(s) + Len(t)
      /\ \A i \in 1 .. Len(s) : (s \o t)[i] = s[i]
      /\ \A i \in 1 .. Len(t) : (s \o t)[Len(s) + i] = t[i]
  BY ConcatAt
<1> SUFFICES ASSUME NEW i \in 1 .. Len(s) + Len(t),
                    (s \o t)[i].kind = "StateChanged",
                    \A j \in i + 1 .. Len(s) + Len(t) : (s \o t)[j].kind # "StateChanged"
             PROVE  (s \o t)[i].arg = x
  BY <1>0 DEF LastState
<1>1. CASE i <= Len(s)
  <2>1. i \in 1 .. Len(s) /\ s[i].kind = "StateChanged" /\ (s \o t)[i] = s[i]
    BY <1>0, <1>1
  <2>2. ~Has(t, {"StateChanged"})
    <3> SUFFICES ASSUME NEW j \in 1 .. Len(t), t[j].kind = "StateChanged" PROVE FALSE
      BY DEF Has
    <3>1. Len(s) + j \in i + 1 .. Len(s) + Len(t)
      BY <1>0, <1>1
    <3> QED BY <1>0, <3>1
  <2>3. \A j \in i + 1 .. Len(s) : s[j].kind # "StateChanged"
    <3> SUFFICES ASSUME NEW j \in i + 1 .. Len(s) PROVE s[j].kind # "StateChanged"
      OBVIOUS
    <3>1. j \in i + 1 .. Len(s) + Len(t) /\ j \in 1 .. Len(s)
      BY <1>0
    <3> QED BY <1>0, <3>1
  <2> QED BY <2>1, <2>2, <2>3 DEF LastState
<1>2. CASE ~(i <= Len(s))
  <2> DEFINE k == i - Len(s)
  <2>1. k \in 1 .. Len(t) /\ Len(s) + k = i
    BY <1>0, <1>2
  <2>2. t[k].kind = "StateChanged" /\ (s \o t)[i] = t[k]
    BY <1>0, <2>1
  <2>3. \A j \in k + 1 .. Len(t) : t[j].kind # "StateChanged"
    <3> SUFFICES ASSUME NEW j \in k + 1 .. Len(t) PROVE t[j].kind # "StateChanged"
      OBVIOUS
    <3>1. Len(s) + j \in i + 1 .. Len(s) + Len(t) /\ j \in 1 .. Len(t)
      BY <1>0, <2>1
    <3> QED BY <1>0, <3>1
  <2> HIDE DEF k
  <2> QED BY <2>1, <2>2, <2>3 DEF LastState
<1> QED BY <1>1, <1>2

LEMMA LastTail ==
    ASSUME NEW s \in Seq(Events), s # <<>>, NEW x, LastState(s, x)
    PROVE  /\ LastState(Tail(s), x)
           /\ Head(s).kind = "StateChanged" /\ ~Has(Tail(s), {"StateChanged"})
                => Head(s).arg = x
<1>0. /\ Len(s) \in Nat \ {0} /\ Len(Tail(s)) = Len(s) - 1
      /\ Head(s) = s[1] /\ 1 \in 1 .. Len(s)
      /\ \A i \in 1 .. Len(Tail(s)) : i + 1 \in 1 .. Len(s) /\ Tail(s)[i] = s[i + 1]
      /\ \A i \in 2 .. Len(s) : i - 1 \in 1 .. Len(Tail(s)) /\ Tail(s)[i - 1] = s[i]
  BY TailAt
<1>1. LastState(Tail(s), x)
  <2> SUFFICES ASSUME NEW i \in 1 .. Len(Tail(s)), Tail(s)[i].kind = "StateChanged",
                      \A j \in i + 1 .. Len(Tail(s)) : Tail(s)[j].kind # "StateChanged"
               PROVE  Tail(s)[i].arg = x
    BY DEF LastState
  <2>1. \A j \in (i + 1) + 1 .. Len(s) : s[j].kind # "StateChanged"
    <3> SUFFICES ASSUME NEW j \in (i + 1) + 1 .. Len(s) PROVE s[j].kind # "StateChanged"
      OBVIOUS
    <3>1. j \in 2 .. Len(s) /\ j - 1 \in i + 1 .. Len(Tail(s))
      BY <1>0
    <3> QED BY <1>0, <3>1
  <2>2. i + 1 \in 1 .. Len(s) /\ Tail(s)[i] = s[i + 1]
    BY <1>0
  <2> QED BY <2>1, <2>2 DEF LastState
<1>2. ASSUME Head(s).kind = "StateChanged", ~Has(Tail(s), {"StateChanged"})
      PROVE  Head(s).arg = x
  <2>1. \A j \in 1 + 1 .. Len(s) : s[j].kind # "StateChanged"
    <3> SUFFICES ASSUME NEW j \in 1 + 1 .. Len(s) PROVE s[j].kind # "StateChanged"
      OBVIOUS
    <3>1. j \in 2 .. Len(s)
      OBVIOUS
    <3> QED BY <1>0, <1>2, <3>1 DEF Has
  <2> QED BY <1>0, <1>2, <2>1 DEF LastState
<1> QED BY <1>1, <1>2

-----------------------------------------------------------------------------
(* A flag of the machine, the id the loop holds, and the batch between. *)

\* n calls of the batch's first event are made and that event is of this kind.
Begun(es, n, kind) == es # <<>> /\ Head(es).kind = kind /\ n > 0

\* The batch brings the id in line with the flag: at most one of its events
\* opens or closes a row, the one that opens it is there while the id has still
\* to be set (or has just been), the one that closes it while it has still to be
\* given up.
Follows(es, n, flag, id, start, ends) ==
    /\ Once(es, {start} \cup ends)
    /\ Has(es, {start}) => flag /\ (id # 0 <=> Begun(es, n, start))
    /\ Has(es, ends) => ~flag /\ id # 0
    /\ ~Has(es, {start} \cup ends) => (flag <=> id # 0)

\* The events of a step that turns the flag from was to now.
Turns(es, was, now, start, ends) ==
    /\ Once(es, {start} \cup ends)
    /\ Has(es, {start}) => ~was /\ now
    /\ Has(es, ends) => was /\ ~now
    /\ ~Has(es, {start} \cup ends) => (was <=> now)

DriveEnds == {"DriveEnd", "DriveAbandoned"}

ChargeEnds == {"ChargeEnd", "ChargeAbandoned"}

LEMMA FollowsTurns ==
    ASSUME NEW es, NEW was \in BOOLEAN, NEW now \in BOOLEAN, NEW id, NEW start, NEW ends,
           Turns(es, was, now, start, ends), was <=> id # 0
    PROVE  Follows(es, 0, now, id, start, ends)
BY DEF Turns, Follows, Begun

LEMMA FollowsNothing ==
    ASSUME NEW n, NEW flag \in BOOLEAN, NEW id, NEW start, NEW ends
    PROVE  Follows(<<>>, n, flag, id, start, ends) <=> (flag <=> id # 0)
BY HasNothing DEF Follows

\* One more call of the first event that neither opens nor closes the row.
LEMMA FollowsCall ==
    ASSUME NEW es, NEW n \in Nat, NEW flag \in BOOLEAN, NEW id, NEW start, NEW ends,
           Follows(es, n, flag, id, start, ends), es # <<>>,
           Head(es).kind = start => n > 0
    PROVE  Follows(es, n + 1, flag, id, start, ends)
<1>1. Begun(es, n + 1, start) <=> Begun(es, n, start)
  BY DEF Begun
<1> QED BY <1>1 DEF Follows

\* The first event is done, or passed over, and did not close the row; if it
\* opened it that was an earlier call.
LEMMA FollowsNext ==
    ASSUME NEW es \in Seq(Events), NEW n, NEW flag \in BOOLEAN, NEW id,
           NEW start, NEW ends,
           Follows(es, n, flag, id, start, ends), es # <<>>,
           Head(es).kind = start => n > 0, Head(es).kind \notin ends
    PROVE  Follows(Tail(es), 0, flag, id, start, ends)
<1> DEFINE K == {start} \cup ends
<1>1. /\ Has(es, K) <=> Head(es).kind \in K \/ Has(Tail(es), K)
      /\ Once(Tail(es), K)
      /\ Head(es).kind \in K => ~Has(Tail(es), K)
      /\ Has(es, {start}) <=> Head(es).kind = start \/ Has(Tail(es), {start})
      /\ Has(es, ends) <=> Has(Tail(es), ends)
  BY HasTail DEF Follows
<1>2. /\ Has(Tail(es), K) <=> Has(Tail(es), {start}) \/ Has(Tail(es), ends)
      /\ Has(es, K) <=> Has(es, {start}) \/ Has(es, ends)
  BY HasUnion
<1>3. ~Begun(Tail(es), 0, start)
  BY DEF Begun
<1>4. CASE Head(es).kind = start
  <2>1. Begun(es, n, start) /\ Head(es).kind \in K
    BY <1>4 DEF Begun
  <2>2. flag /\ id # 0
    BY <1>1, <1>4, <2>1 DEF Follows
  <2> QED BY <1>1, <1>2, <2>1, <2>2 DEF Follows
<1>5. CASE Head(es).kind # start
  <2>1. ~Begun(es, n, start)
    BY <1>5 DEF Begun
  <2>2. Head(es).kind \notin K
    BY <1>5
  <2> QED BY <1>1, <1>2, <1>3, <1>5, <2>1, <2>2 DEF Follows
<1> QED BY <1>4, <1>5

\* The first call of the event that opens the row.
LEMMA FollowsOpen ==
    ASSUME NEW es \in Seq(Events), NEW flag \in BOOLEAN, NEW id, NEW new,
           NEW start, NEW ends, start \notin ends,
           Follows(es, 0, flag, id, start, ends), es # <<>>,
           Head(es).kind = start, new # 0
    PROVE  /\ id = 0
           /\ Follows(es, 1, flag, new, start, ends)
<1> DEFINE K == {start} \cup ends
<1>1. Has(es, {start}) /\ ~Has(Tail(es), K) /\ Has(es, K)
  BY HasTail DEF Follows
<1>2. ~Has(es, ends)
  BY <1>1, HasTail, HasUnion
<1>3. ~Begun(es, 0, start) /\ Begun(es, 1, start)
  BY DEF Begun
<1> QED BY <1>1, <1>2, <1>3 DEF Follows

\* The last call of the event that closes it.
LEMMA FollowsClose ==
    ASSUME NEW es \in Seq(Events), NEW n, NEW flag \in BOOLEAN, NEW id,
           NEW start, NEW ends,
           Follows(es, n, flag, id, start, ends), es # <<>>, Head(es).kind \in ends
    PROVE  /\ id # 0
           /\ Follows(Tail(es), 0, flag, 0, start, ends)
<1> DEFINE K == {start} \cup ends
<1>1. Has(es, ends) /\ ~Has(Tail(es), K) /\ Once(Tail(es), K)
  BY HasTail DEF Follows
<1>2. ~Has(Tail(es), {start}) /\ ~Has(Tail(es), ends)
  BY <1>1, HasUnion
<1> QED BY <1>1, <1>2 DEF Follows

-----------------------------------------------------------------------------
(* How each method of the machine turns its flags. *)

\* Of a batch that opens and closes no row of this sort.
LEMMA TurnsNot ==
    ASSUME NEW es, NEW was \in BOOLEAN, NEW start, NEW ends,
           Once(es, {start} \cup ends), ~Has(es, {start} \cup ends)
    PROVE  Turns(es, was, was, start, ends)
BY HasUnion DEF Turns

\* Events in front that open and close no row change nothing.
LEMMA TurnsConcat ==
    ASSUME NEW s \in Seq(Events), NEW t \in Seq(Events), NEW was \in BOOLEAN,
           NEW now \in BOOLEAN, NEW start, NEW ends,
           Once(s, {start} \cup ends), ~Has(s, {start} \cup ends),
           Turns(t, was, now, start, ends)
    PROVE  Turns(s \o t, was, now, start, ends)
<1> DEFINE K == {start} \cup ends
<1>1. ~Has(s, {start}) /\ ~Has(s, ends)
  BY HasUnion
<1>2. /\ Has(s \o t, K) <=> Has(t, K)
      /\ Has(s \o t, {start}) <=> Has(t, {start})
      /\ Has(s \o t, ends) <=> Has(t, ends)
  BY <1>1, HasConcat
<1>3. Once(s \o t, K)
  BY OnceConcat DEF Turns
<1> QED BY <1>2, <1>3 DEF Turns

LEMMA ChangedHas ==
    ASSUME NEW mm, NEW to
    PROVE  /\ Has(Changed(mm, to), {"StateChanged"}) <=> mm.state # to
           /\ LastState(Changed(mm, to), to)
           /\ \A kinds : /\ Once(Changed(mm, to), kinds)
                         /\ "StateChanged" \notin kinds => ~Has(Changed(mm, to), kinds)
<1>1. CASE mm.state = to
  <2>1. Changed(mm, to) = <<>>
    BY <1>1 DEF Changed
  <2> QED BY <1>1, <2>1, HasNothing, LastOfNone
<1>2. CASE mm.state # to
  <2> DEFINE e == [kind |-> "StateChanged", arg |-> to]
  <2>1. Changed(mm, to) = <<e>>
    BY <1>2 DEF Changed
  <2>2. e.kind = "StateChanged" /\ e.arg = to
    OBVIOUS
  <2> HIDE DEF e
  <2>3. LastState(<<e>>, to)
    BY <2>2 DEF LastState
  <2> QED BY <1>2, <2>1, <2>2, <2>3, HasSingle
<1> QED BY <1>1, <1>2

LEMMA OnSummaryFlags ==
    ASSUME NEW mm \in Machines, NEW raw \in RawStates
    PROVE  /\ OnSummary(mm, raw).driving = mm.driving
           /\ OnSummary(mm, raw).charging = mm.charging
<1>1. SummaryTarget(mm, raw) \in States
  BY SummaryTargetType
<1> DEFINE t == Transition(mm, SummaryTarget(mm, raw))
<1>2. t \in Machines
  BY <1>1, TransitionType
<1>3. t.driving = mm.driving /\ t.charging = mm.charging
  BY DEF Transition, Machines
<1>4. OnSummary(mm, raw) = [t EXCEPT !.wasUnreachable = @ \/ raw # "online"]
  BY DEF OnSummary
<1> HIDE DEF t
<1> QED BY <1>2, <1>3, <1>4 DEF Machines

LEMMA OnUnreachableTurns ==
    ASSUME NEW mm \in Machines, NEW raw \in RawStates
    PROVE  LET es == OnUnreachableEvents(mm, raw)
               mn == OnUnreachable(mm, raw)
           IN  /\ Turns(es, mm.driving, mn.driving, "DriveStart", DriveEnds)
               /\ Turns(es, mm.charging, mn.charging, "ChargeStart", ChargeEnds)
               /\ ~Has(es, {"StateChanged"})
<1> DEFINE a == IF DriveGone(mm, raw) THEN <<Event("DriveAbandoned")>> ELSE <<>>
           b == IF ChargeGone(mm, raw) THEN <<Event("ChargeAbandoned")>> ELSE <<>>
           es == OnUnreachableEvents(mm, raw)
           mn == OnUnreachable(mm, raw)
<1>1. a \in Seq(Events) /\ b \in Seq(Events) /\ es = a \o b
  BY EventType DEF EventKinds, OnUnreachableEvents
<1>2. /\ mn.driving = (mm.driving /\ ~DriveGone(mm, raw))
      /\ mn.charging = (mm.charging /\ ~ChargeGone(mm, raw))
      /\ DriveGone(mm, raw) => mm.driving
      /\ ChargeGone(mm, raw) => mm.charging
  BY DEF OnUnreachable, Machines, DriveGone, ChargeGone
<1>3. /\ Event("DriveAbandoned").kind = "DriveAbandoned"
      /\ Event("ChargeAbandoned").kind = "ChargeAbandoned"
  BY DEF Event
<1>4. ASSUME NEW kinds
      PROVE  /\ Has(a, kinds) <=> DriveGone(mm, raw) /\ "DriveAbandoned" \in kinds
             /\ Has(b, kinds) <=> ChargeGone(mm, raw) /\ "ChargeAbandoned" \in kinds
             /\ Once(a, kinds) /\ Once(b, kinds)
  BY <1>3, HasSingle, HasNothing
<1> HIDE DEF a, b, mn, es
<1>5. ASSUME NEW kinds
      PROVE  Has(es, kinds) <=> \/ DriveGone(mm, raw) /\ "DriveAbandoned" \in kinds
                                \/ ChargeGone(mm, raw) /\ "ChargeAbandoned" \in kinds
  BY <1>1, <1>4, HasConcat
<1>6. ASSUME NEW kinds, ~({"DriveAbandoned", "ChargeAbandoned"} \subseteq kinds)
      PROVE  Once(es, kinds)
  BY <1>1, <1>4, <1>6, OnceConcat
<1>7. Turns(es, mm.driving, mn.driving, "DriveStart", DriveEnds)
  <2>1. Once(es, {"DriveStart"} \cup DriveEnds)
    BY <1>6 DEF DriveEnds
  <2>2. /\ ~Has(es, {"DriveStart"})
        /\ Has(es, DriveEnds) <=> DriveGone(mm, raw)
        /\ Has(es, {"DriveStart"} \cup DriveEnds) <=> DriveGone(mm, raw)
    BY <1>5 DEF DriveEnds
  <2> QED BY <1>2, <2>1, <2>2 DEF Turns
<1>8. Turns(es, mm.charging, mn.charging, "ChargeStart", ChargeEnds)
  <2>1. Once(es, {"ChargeStart"} \cup ChargeEnds)
    BY <1>6 DEF ChargeEnds
  <2>2. /\ ~Has(es, {"ChargeStart"})
        /\ Has(es, ChargeEnds) <=> ChargeGone(mm, raw)
        /\ Has(es, {"ChargeStart"} \cup ChargeEnds) <=> ChargeGone(mm, raw)
    BY <1>5 DEF ChargeEnds
  <2> QED BY <1>2, <2>1, <2>2 DEF Turns
<1>9. ~Has(es, {"StateChanged"})
  BY <1>5
<1> QED BY <1>7, <1>8, <1>9 DEF es, mn

\* The parts of the batch of a poll: two changes of state, an update event, what
\* the new activity closes, what it records, and the battery sample.
LEMMA VehicleDataParts ==
    ASSUME NEW mm \in Machines, NEW s \in Snapshots
    PROVE  /\ Woken(mm) \in Machines
           /\ Activity(s) \in States
           /\ Changed(mm, Woken(mm).state) \in Seq(Events)
           /\ UpdateEvents(mm, s) \in Seq(Events)
           /\ EndEvents(mm, Activity(s)) \in Seq(Events)
           /\ Changed(Woken(mm), Activity(s)) \in Seq(Events)
           /\ ReadingEvents(mm, Activity(s)) \in Seq(Events)
           /\ <<Event("BatterySample")>> \in Seq(Events)
<1> DEFINE act == Activity(s)
<1>1. act \in States
  BY ActivityType DEF States
<1>2. Woken(mm) \in Machines
  BY TransitionType DEF Woken, States
<1>3. /\ Changed(mm, Woken(mm).state) \in Seq(Events)
      /\ Changed(Woken(mm), act) \in Seq(Events)
  BY <1>1, <1>2, ChangedType DEF Machines
<1>4. EndEvents(mm, act) \in Seq(Events)
  <2> DEFINE a == IF mm.driving /\ act \in {"charging", "idle"}
                  THEN <<Event("DriveEnd")>> ELSE <<>>
             b == IF mm.charging /\ act \in {"driving", "idle"}
                  THEN <<Event("ChargeEnd")>> ELSE <<>>
  <2>1. a \in Seq(Events) /\ b \in Seq(Events)
    BY EventType DEF EventKinds
  <2>2. EndEvents(mm, act) = a \o b
    BY DEF EndEvents
  <2> HIDE DEF a, b
  <2> QED BY <2>1, <2>2, ConcatProperties
<1>5. ReadingEvents(mm, act) \in Seq(Events) /\ <<Event("BatterySample")>> \in Seq(Events)
  BY EventType DEF ReadingEvents, EventKinds
<1> QED BY <1>1, <1>2, <1>3, <1>4, <1>5, UpdateEventsType

\* Which rows a poll's batch opens and closes.
LEMMA VehicleDataHas ==
    ASSUME NEW mm \in Machines, NEW s \in Snapshots, NEW kinds,
           kinds \cap {"StateChanged", "UpdateBeg", "UpdateEnd", "BatterySample"} = {}
    PROVE  LET act == Activity(s)
               es  == OnVehicleDataEvents(mm, s)
               A   == mm.driving /\ act \in {"charging", "idle"} /\ "DriveEnd" \in kinds
               B   == mm.charging /\ act \in {"driving", "idle"} /\ "ChargeEnd" \in kinds
               R   == \/ act = "driving" /\ mm.driving /\ "DrivePoint" \in kinds
                      \/ act = "driving" /\ ~mm.driving /\ "DriveStart" \in kinds
                      \/ act = "charging" /\ mm.charging /\ "ChargePoint" \in kinds
                      \/ act = "charging" /\ ~mm.charging /\ "ChargeStart" \in kinds
           IN  /\ Has(es, kinds) <=> A \/ B \/ R
               /\ ~(A /\ B) /\ ~(A /\ R) /\ ~(B /\ R) => Once(es, kinds)
<1> DEFINE act == Activity(s)
           A   == mm.driving /\ act \in {"charging", "idle"} /\ "DriveEnd" \in kinds
           B   == mm.charging /\ act \in {"driving", "idle"} /\ "ChargeEnd" \in kinds
           R   == \/ act = "driving" /\ mm.driving /\ "DrivePoint" \in kinds
                  \/ act = "driving" /\ ~mm.driving /\ "DriveStart" \in kinds
                  \/ act = "charging" /\ mm.charging /\ "ChargePoint" \in kinds
                  \/ act = "charging" /\ ~mm.charging /\ "ChargeStart" \in kinds
           e1 == Changed(mm, Woken(mm).state)
           e2 == UpdateEvents(mm, s)
           e3 == EndEvents(mm, act)
           e4 == Changed(Woken(mm), act)
           e5 == ReadingEvents(mm, act)
           e6 == <<Event("BatterySample")>>
<1>1. /\ e1 \in Seq(Events) /\ e2 \in Seq(Events) /\ e3 \in Seq(Events)
      /\ e4 \in Seq(Events) /\ e5 \in Seq(Events) /\ e6 \in Seq(Events)
  BY VehicleDataParts
<1>2. mm.driving \in BOOLEAN /\ mm.charging \in BOOLEAN
  BY DEF Machines
<1>3. /\ ~Has(e1, kinds) /\ Once(e1, kinds)
      /\ ~Has(e4, kinds) /\ Once(e4, kinds)
  BY ChangedHas
<1>4. ~Has(e2, kinds) /\ Once(e2, kinds)
  BY HasSingle, HasNothing DEF UpdateEvents
<1>5. ~Has(e6, kinds) /\ Once(e6, kinds)
  BY HasSingle DEF Event
<1>6. /\ Has(e3, kinds) <=> A \/ B
      /\ ~(A /\ B) => Once(e3, kinds)
  <2> DEFINE a == IF mm.driving /\ act \in {"charging", "idle"}
                  THEN <<Event("DriveEnd")>> ELSE <<>>
             b == IF mm.charging /\ act \in {"driving", "idle"}
                  THEN <<Event("ChargeEnd")>> ELSE <<>>
  <2>1. a \in Seq(Events) /\ b \in Seq(Events)
    BY EventType DEF EventKinds
  <2>2. e3 = a \o b
    BY DEF EndEvents
  <2>3. Event("DriveEnd").kind = "DriveEnd" /\ Event("ChargeEnd").kind = "ChargeEnd"
    BY DEF Event
  <2>4. Has(a, kinds) <=> A
    BY <2>3, HasSingle, HasNothing
  <2>5. Has(b, kinds) <=> B
    BY <2>3, HasSingle, HasNothing
  <2>6. Once(a, kinds) /\ Once(b, kinds)
    BY HasSingle, HasNothing
  <2> HIDE DEF a, b, e3, A, B
  <2> QED BY <2>1, <2>2, <2>4, <2>5, <2>6, HasConcat, OnceConcat
<1>7. /\ Has(e5, kinds) <=> R
      /\ Once(e5, kinds)
  <2>1. /\ Event("DrivePoint").kind = "DrivePoint" /\ Event("DriveStart").kind = "DriveStart"
        /\ Event("ChargePoint").kind = "ChargePoint"
        /\ Event("ChargeStart").kind = "ChargeStart"
    BY DEF Event
  <2>2. CASE act = "driving"
    <3>1. e5 = <<Event(IF mm.driving THEN "DrivePoint" ELSE "DriveStart")>>
      BY <2>2 DEF ReadingEvents
    <3>2. CASE mm.driving
      <4>1. e5 = <<Event("DrivePoint")>> /\ (R <=> "DrivePoint" \in kinds)
        BY <2>2, <3>1, <3>2
      <4> QED BY <2>1, <4>1, HasSingle
    <3>3. CASE ~mm.driving
      <4>1. e5 = <<Event("DriveStart")>> /\ (R <=> "DriveStart" \in kinds)
        BY <2>2, <3>1, <3>3
      <4> QED BY <2>1, <4>1, HasSingle
    <3> QED BY <3>2, <3>3
  <2>3. CASE act = "charging"
    <3>1. e5 = <<Event(IF mm.charging THEN "ChargePoint" ELSE "ChargeStart")>>
      BY <2>3 DEF ReadingEvents
    <3>2. CASE mm.charging
      <4>1. e5 = <<Event("ChargePoint")>> /\ (R <=> "ChargePoint" \in kinds)
        BY <2>3, <3>1, <3>2
      <4> QED BY <2>1, <4>1, HasSingle
    <3>3. CASE ~mm.charging
      <4>1. e5 = <<Event("ChargeStart")>> /\ (R <=> "ChargeStart" \in kinds)
        BY <2>3, <3>1, <3>3
      <4> QED BY <2>1, <4>1, HasSingle
    <3> QED BY <3>2, <3>3
  <2>4. CASE act \notin {"driving", "charging"}
    <3>1. e5 = <<>> /\ ~R
      BY <2>4 DEF ReadingEvents
    <3> QED BY <3>1, HasNothing
  <2> QED BY <2>2, <2>3, <2>4
<1>8. OnVehicleDataEvents(mm, s) = e1 \o e2 \o e3 \o e4 \o e5 \o e6
  BY DEF OnVehicleDataEvents
<1> HIDE DEF e1, e2, e3, e4, e5, e6, A, B, R
<1>9. /\ e1 \o e2 \in Seq(Events)
      /\ ~Has(e1 \o e2, kinds) /\ Once(e1 \o e2, kinds)
  BY <1>1, <1>3, <1>4, HasConcat, OnceConcat, ConcatProperties
<1>10. /\ e1 \o e2 \o e3 \in Seq(Events)
       /\ Has(e1 \o e2 \o e3, kinds) <=> A \/ B
       /\ ~(A /\ B) => Once(e1 \o e2 \o e3, kinds)
  BY <1>1, <1>6, <1>9, HasConcat, OnceConcat, ConcatProperties
<1>11. /\ e1 \o e2 \o e3 \o e4 \in Seq(Events)
       /\ Has(e1 \o e2 \o e3 \o e4, kinds) <=> A \/ B
       /\ ~(A /\ B) => Once(e1 \o e2 \o e3 \o e4, kinds)
  BY <1>1, <1>3, <1>10, HasAppend
<1>12. /\ e1 \o e2 \o e3 \o e4 \o e5 \in Seq(Events)
       /\ Has(e1 \o e2 \o e3 \o e4 \o e5, kinds) <=> A \/ B \/ R
       /\ ~(A /\ B) /\ ~(A /\ R) /\ ~(B /\ R) => Once(e1 \o e2 \o e3 \o e4 \o e5, kinds)
  BY <1>1, <1>7, <1>11, HasConcat, OnceConcat, ConcatProperties
<1>13. /\ Has(OnVehicleDataEvents(mm, s), kinds) <=> A \/ B \/ R
       /\ ~(A /\ B) /\ ~(A /\ R) /\ ~(B /\ R) => Once(OnVehicleDataEvents(mm, s), kinds)
  <2> DEFINE es == e1 \o e2 \o e3 \o e4 \o e5
  <2>1. OnVehicleDataEvents(mm, s) = es \o e6
    BY <1>8
  <2> HIDE DEF es
  <2>2. /\ es \in Seq(Events) /\ (Has(es, kinds) <=> A \/ B \/ R)
        /\ ~(A /\ B) /\ ~(A /\ R) /\ ~(B /\ R) => Once(es, kinds)
    BY <1>12 DEF es
  <2>3. /\ Has(es \o e6, kinds) <=> Has(es, kinds)
        /\ Once(es, kinds) => Once(es \o e6, kinds)
    BY <1>1, <1>5, <2>2, HasAppend
  <2> QED BY <2>1, <2>2, <2>3
<1> QED BY <1>13 DEF A, B, R

LEMMA OnVehicleDataTurns ==
    ASSUME NEW mm \in Machines, NEW s \in Snapshots
    PROVE  LET es == OnVehicleDataEvents(mm, s)
               mn == OnVehicleData(mm, s)
           IN  /\ Turns(es, mm.driving, mn.driving, "DriveStart", DriveEnds)
               /\ Turns(es, mm.charging, mn.charging, "ChargeStart", ChargeEnds)
               /\ ~Has(es, {"OfflineCharge"})
<1> DEFINE act == Activity(s)
           es  == OnVehicleDataEvents(mm, s)
           mn  == OnVehicleData(mm, s)
           t   == Transition(Woken(mm), act)
<1>1. act \in {"updating", "driving", "charging", "idle"} /\ act \in States
  BY ActivityType DEF States
<1>2. mm.driving \in BOOLEAN /\ mm.charging \in BOOLEAN
  BY DEF Machines
<1>3. /\ mn.driving = (act = "driving" \/ (act = "updating" /\ mm.driving))
      /\ mn.charging = (act = "charging" \/ (act = "updating" /\ mm.charging))
  <2>1. Woken(mm) \in Machines /\ t \in Machines
    BY <1>1, VehicleDataParts, TransitionType
  <2>2. t.driving = mm.driving /\ t.charging = mm.charging
    BY <1>1 DEF Transition, Woken, Machines
  <2>3. mn = [t EXCEPT !.update     = Installing(mm, s),
                  !.driving    = act = "driving" \/ (act = "updating" /\ @),
                  !.charging   = act = "charging" \/ (act = "updating" /\ @),
                  !.drivingAge = IF act = "driving" THEN 0 ELSE @,
                  !.lastRange  = s.range,
                  !.lastAge    = 0]
    BY DEF OnVehicleData
  <2> HIDE DEF t, mn, act
  <2> QED BY <2>1, <2>2, <2>3 DEF Machines
<1> HIDE DEF mn
<1>4. Turns(es, mm.driving, mn.driving, "DriveStart", DriveEnds)
  <2> DEFINE K == {"DriveStart"} \cup DriveEnds
  <2>1. Has(es, {"DriveStart"}) <=> act = "driving" /\ ~mm.driving
    BY VehicleDataHas
  <2>2. Has(es, DriveEnds) <=> mm.driving /\ act \in {"charging", "idle"}
    BY VehicleDataHas DEF DriveEnds
  <2>3. Once(es, K)
    BY VehicleDataHas DEF DriveEnds
  <2>4. Has(es, K) <=> Has(es, {"DriveStart"}) \/ Has(es, DriveEnds)
    BY HasUnion
  <2> HIDE DEF es, act
  <2> QED BY <1>1, <1>2, <1>3, <2>1, <2>2, <2>3, <2>4 DEF Turns
<1>5. Turns(es, mm.charging, mn.charging, "ChargeStart", ChargeEnds)
  <2> DEFINE K == {"ChargeStart"} \cup ChargeEnds
  <2>1. Has(es, {"ChargeStart"}) <=> act = "charging" /\ ~mm.charging
    BY VehicleDataHas
  <2>2. Has(es, ChargeEnds) <=> mm.charging /\ act \in {"driving", "idle"}
    BY VehicleDataHas DEF ChargeEnds
  <2>3. Once(es, K)
    BY VehicleDataHas DEF ChargeEnds
  <2>4. Has(es, K) <=> Has(es, {"ChargeStart"}) \/ Has(es, ChargeEnds)
    BY HasUnion
  <2> HIDE DEF es, act
  <2> QED BY <1>1, <1>2, <1>3, <2>1, <2>2, <2>3, <2>4 DEF Turns
<1>6. ~Has(es, {"OfflineCharge"})
  BY VehicleDataHas
<1> QED BY <1>4, <1>5, <1>6 DEF mn

\* The last change of state a poll writes is to the activity it saw; it writes
\* none only if the machine was in that state.
LEMMA OnVehicleDataLast ==
    ASSUME NEW mm \in Machines, NEW s \in Snapshots
    PROVE  LET es == OnVehicleDataEvents(mm, s)
           IN  /\ LastState(es, Activity(s))
               /\ ~Has(es, {"StateChanged"}) => mm.state = Activity(s)
<1> DEFINE act == Activity(s)
           SC == {"StateChanged"}
           e1 == Changed(mm, Woken(mm).state)
           e2 == UpdateEvents(mm, s)
           e3 == EndEvents(mm, act)
           e4 == Changed(Woken(mm), act)
           e5 == ReadingEvents(mm, act)
           e6 == <<Event("BatterySample")>>
<1>1. /\ e1 \in Seq(Events) /\ e2 \in Seq(Events) /\ e3 \in Seq(Events)
      /\ e4 \in Seq(Events) /\ e5 \in Seq(Events) /\ e6 \in Seq(Events)
  BY VehicleDataParts
<1>2. /\ Has(e1, SC) <=> mm.state # Woken(mm).state
      /\ LastState(e1, Woken(mm).state)
      /\ Has(e4, SC) <=> Woken(mm).state # act
      /\ LastState(e4, act)
  BY ChangedHas
<1>3. ~Has(e2, SC)
  BY HasSingle, HasNothing DEF UpdateEvents
<1>4. ~Has(e3, SC)
  <2> DEFINE a == IF mm.driving /\ act \in {"charging", "idle"}
                  THEN <<Event("DriveEnd")>> ELSE <<>>
             b == IF mm.charging /\ act \in {"driving", "idle"}
                  THEN <<Event("ChargeEnd")>> ELSE <<>>
  <2>1. a \in Seq(Events) /\ b \in Seq(Events)
    BY EventType DEF EventKinds
  <2>2. e3 = a \o b
    BY DEF EndEvents
  <2>3. ~Has(a, SC) /\ ~Has(b, SC)
    BY HasSingle, HasNothing DEF Event
  <2> HIDE DEF a, b, e3
  <2> QED BY <2>1, <2>2, <2>3, HasConcat
<1>5. ~Has(e5, SC) /\ ~Has(e6, SC)
  BY HasSingle, HasNothing DEF ReadingEvents, Event
<1>6. OnVehicleDataEvents(mm, s) = e1 \o e2 \o e3 \o e4 \o e5 \o e6
  BY DEF OnVehicleDataEvents
<1> HIDE DEF e1, e2, e3, e4, e5, e6, act
<1>7. /\ LastState(e2, Woken(mm).state) /\ LastState(e3, Woken(mm).state)
      /\ LastState(e5, act) /\ LastState(e6, act)
  BY <1>3, <1>4, <1>5, LastOfNone
<1>8. /\ e1 \o e2 \in Seq(Events)
      /\ LastState(e1 \o e2, Woken(mm).state)
      /\ Has(e1 \o e2, SC) <=> Has(e1, SC)
  BY <1>1, <1>2, <1>3, <1>7, LastConcat, HasConcat, ConcatProperties
<1>9. /\ e1 \o e2 \o e3 \in Seq(Events)
      /\ LastState(e1 \o e2 \o e3, Woken(mm).state)
      /\ Has(e1 \o e2 \o e3, SC) <=> Has(e1, SC)
  BY <1>1, <1>4, <1>7, <1>8, LastConcat, HasConcat, ConcatProperties
<1>10. /\ e1 \o e2 \o e3 \o e4 \in Seq(Events)
       /\ LastState(e1 \o e2 \o e3 \o e4, act)
       /\ Has(e1 \o e2 \o e3 \o e4, SC) <=> Has(e1, SC) \/ Has(e4, SC)
  <2>1. Has(e4, SC) \/ LastState(e1 \o e2 \o e3, act)
    BY <1>2, <1>9
  <2> QED BY <1>1, <1>2, <1>9, <2>1, LastConcat, HasConcat, ConcatProperties
<1>11. /\ e1 \o e2 \o e3 \o e4 \o e5 \in Seq(Events)
       /\ LastState(e1 \o e2 \o e3 \o e4 \o e5, act)
       /\ Has(e1 \o e2 \o e3 \o e4 \o e5, SC) <=> Has(e1, SC) \/ Has(e4, SC)
  BY <1>1, <1>5, <1>7, <1>10, LastConcat, HasConcat, ConcatProperties
<1>12. /\ LastState(OnVehicleDataEvents(mm, s), act)
       /\ Has(OnVehicleDataEvents(mm, s), SC) <=> Has(e1, SC) \/ Has(e4, SC)
  <2> DEFINE es == e1 \o e2 \o e3 \o e4 \o e5
  <2>1. OnVehicleDataEvents(mm, s) = es \o e6
    BY <1>6
  <2> HIDE DEF es
  <2>2. es \in Seq(Events) /\ LastState(es, act)
        /\ (Has(es, SC) <=> Has(e1, SC) \/ Has(e4, SC))
    BY <1>11 DEF es
  <2>3. LastState(es \o e6, act)
    BY <1>1, <1>7, <2>2, LastConcat
  <2>4. Has(es \o e6, SC) <=> Has(es, SC)
    BY <1>1, <1>5, <2>2, HasConcat
  <2> QED BY <2>1, <2>2, <2>3, <2>4
<1> QED BY <1>2, <1>12 DEF act

-----------------------------------------------------------------------------
(* A drive is not cut in two by a dead zone. *)

\* An abandoned drive is among the events of a sequence.
Abandons(es) == Has(es, {"DriveAbandoned"})

LEMMA ChangedAbandonsNothing ==
    ASSUME NEW mm, NEW to
    PROVE  ~Abandons(Changed(mm, to))
BY ChangedHas DEF Abandons

\* Only OnUnreachable gives up a drive, and only one that is gone.
LEMMA OnUnreachableAbandons ==
    ASSUME NEW mm, NEW raw, Abandons(OnUnreachableEvents(mm, raw))
    PROVE  DriveGone(mm, raw)
<1> DEFINE a == IF DriveGone(mm, raw) THEN <<Event("DriveAbandoned")>> ELSE <<>>
           b == IF ChargeGone(mm, raw) THEN <<Event("ChargeAbandoned")>> ELSE <<>>
           K == {"DriveAbandoned"}
<1>1. a \in Seq(Events) /\ b \in Seq(Events)
  BY EventType DEF EventKinds
<1>2. ~Has(b, K)
  BY HasSingle, HasNothing DEF Event
<1>3. Has(a, K)
  <2>1. Has(a \o b, K)
    BY DEF OnUnreachableEvents, Abandons
  <2> HIDE DEF a, b
  <2> QED BY <1>1, <1>2, <2>1, HasConcat
<1> QED BY <1>3, HasNothing

LEMMA OnVehicleDataAbandonsNothing ==
    ASSUME NEW mm \in Machines, NEW s \in Snapshots
    PROVE  ~Abandons(OnVehicleDataEvents(mm, s))
BY VehicleDataHas DEF Abandons

\* The machine's age of the last driving poll is the true one unless this run
\* has not seen the car driving; an abandonment waiting to be written was due.
SplitInv ==
    /\ m.drivingAge # Never => m.drivingAge = quiet
    /\ pc = "down" => m.drivingAge = Never
    /\ heard = "offline" /\ Abandons(todo) => quiet >= DriveTimeout

LEMMA SplitStep == TypeInv /\ SplitInv /\ [Next]_vars => SplitInv'
<1> SUFFICES ASSUME TypeInv, SplitInv, [Next]_vars PROVE SplitInv'
  OBVIOUS
<1> USE DEF SplitInv
<1>1. ASSUME NEW raw \in RawStates, CheckSummary(raw) PROVE SplitInv'
  <2> DEFINE a == OnSummary(m, raw)
  <2>1. /\ a \in Machines /\ a.drivingAge = m.drivingAge
        /\ OnSummaryEvents(m, raw) \in Seq(Events)
        /\ OnUnreachableEvents(a, raw) \in Seq(Events)
    BY OnSummaryType, OnUnreachableEventsType DEF TypeInv, TypeOK
  <2>2. m'.drivingAge = m.drivingAge
    BY <1>1, <2>1, OnUnreachableType DEF CheckSummary
  <2>3. ~Abandons(OnSummaryEvents(m, raw))
    BY ChangedAbandonsNothing DEF OnSummaryEvents
  <2>4. Abandons(todo') => DriveGone(a, raw)
    BY <1>1, <2>1, <2>3, HasConcat, OnUnreachableAbandons
       DEF CheckSummary, Abandons
  <2>5. raw = "offline" /\ Abandons(todo') => quiet >= DriveTimeout
    BY <2>1, <2>4 DEF DriveGone
  <2> QED BY <1>1, <2>2, <2>5 DEF CheckSummary
<1>2. CASE CheckSummaryFails \/ Suspended
  BY <1>2 DEF CheckSummaryFails, Suspended, history
<1>3. CASE PollFails
  BY <1>3, MarkUnreachableType DEF PollFails, history, TypeInv, TypeOK
<1>4. ASSUME NEW s \in Snapshots, PollOK(s) PROVE SplitInv'
  <2>1. ~Abandons(todo')
    BY <1>4, HasSingle, HasNothing DEF PollOK, OnBackOnlineEvents, Event, Abandons
  <2> QED BY <1>4, <2>1, OnBackOnlineType DEF PollOK, history, TypeInv, TypeOK
<1>5. CASE VehicleData
  <2>1. ~Abandons(todo')
    BY <1>5, OnVehicleDataAbandonsNothing DEF VehicleData, TypeInv, TypeOK
  <2> QED BY <1>5, <2>1, OnVehicleDataType DEF VehicleData, TypeInv, TypeOK
<1>6. CASE IdleCheck
  <2>1. m'.drivingAge = m.drivingAge /\ ~Abandons(todo')
    <3>1. CASE IdleTimedOut(m)
      BY <1>6, <3>1, SuspendType, ChangedAbandonsNothing
         DEF IdleCheck, SuspendEvents, TypeInv, TypeOK
    <3>2. CASE ~IdleTimedOut(m)
      BY <1>6, <3>2, HasNothing DEF IdleCheck, At, Abandons
    <3> QED BY <3>1, <3>2
  <2> QED BY <1>6, <2>1 DEF IdleCheck, history
<1>7. CASE StreamPoint
  BY <1>7 DEF StreamPoint, volatile, history
<1>8. CASE Persist
  <2>1. todo # <<>> /\ todo' \in {todo, Tail(todo)}
    BY <1>8 DEF Persist, SkipEvent, OpenState, OpenDrive, AppendPosition,
       CloseDrive, OpenSession, CloseSession, OpenOffline, CloseOffline, BeginUpdate,
       FinishUpdate, WriteSample, Calling, Returned
  <2>2. Abandons(todo') => Abandons(todo)
    BY <2>1, HasTail DEF TypeInv, TypeOK, Abandons
  <2> QED BY <1>8, <2>2, PersistFrame DEF history
<1>9. CASE StoreFails
  <2>1. ~Abandons(todo')
    BY <1>9, HasNothing DEF StoreFails, Abandons
  <2> QED BY <1>9, <2>1, MarkUnreachableType DEF StoreFails, TypeInv, TypeOK
<1>10. CASE Start
  BY <1>10 DEF Start, Resume
<1>11. CASE Crash
  <2>1. ~Abandons(todo')
    BY <1>11, HasNothing DEF Crash, Abandons
  <2> QED BY <1>11, <2>1 DEF Crash, New, Resume
<1>12. CASE Tick
  <2>1. quiet' >= quiet /\ quiet' = Older(quiet, DriveTimeout)
    BY <1>12, TimeAssumption DEF Tick, Older, TypeInv, TypeOK
  <2>2. pc # "down" => m'.drivingAge = Older(m.drivingAge, DriveTimeout)
    BY <1>12, AgedType DEF Tick, TypeInv, TypeOK
  <2>3. Older(Never, DriveTimeout) = Never
    BY DEF Older
  <2>4. quiet >= DriveTimeout => quiet' >= DriveTimeout
    BY <2>1, TimeAssumption DEF TypeInv, TypeOK, Older
  <2> QED BY <1>12, <2>1, <2>2, <2>3, <2>4 DEF Tick
<1>13. CASE UNCHANGED vars
  BY <1>13 DEF vars, volatile, history
<1> QED BY <1>1, <1>2, <1>3, <1>4, <1>5, <1>6, <1>7, <1>8, <1>9, <1>10, <1>11, <1>12,
           <1>13 DEF Next

\* While the car is merely offline a drive is given up only after DriveTimeout
\* without a poll that saw it driving: for any timeouts, also when the process
\* was restarted in between and when storage calls fail.
THEOREM NoDriveSplitEarly == Spec => NoPrematureSplit
<1>1. Init => SplitInv
  BY HasNothing DEF Init, SplitInv, New, Resume, Abandons
<1>2. TypeInv /\ SplitInv /\ [Next]_vars
      => [CloseDrive /\ Head(todo).kind = "DriveAbandoned" /\ heard = "offline"
            => quiet >= DriveTimeout]_vars
  <2> SUFFICES ASSUME TypeInv, SplitInv, CloseDrive, Head(todo).kind = "DriveAbandoned",
                      heard = "offline"
               PROVE  quiet >= DriveTimeout
    OBVIOUS
  <2>1. todo \in Seq(Events) /\ todo # <<>>
    BY DEF TypeInv, TypeOK, CloseDrive, Calling
  <2> QED BY <2>1, HasTail DEF SplitInv, Abandons
<1> QED BY <1>1, <1>2, SplitStep, TypeInvariant, PTL DEF Spec, NoPrematureSplit

-----------------------------------------------------------------------------
(* What the loop holds is what the machine believes and what is open. *)

DriveFollows == Follows(todo, done, m.driving, driveID, "DriveStart", DriveEnds)

ChargeFollows == Follows(todo, done, m.charging, chargeID, "ChargeStart", ChargeEnds)

OfflineHeld == offlineID # 0 <=> Begun(todo, done, "OfflineCharge")

\* The state the batch ends in is the machine's, and so is the open row's when
\* no change of state is left to write (it is unknown until the first summary).
StateFollows ==
    /\ LastState(todo, m.state)
    /\ ~Has(todo, {"StateChanged"}) => m.state \in {stateRow, "unknown"}

\* While the process is down the open drive is nobody's, but there is only one.
OneOpenDrive ==
    /\ pc # "down" => OpenDrives = {driveID} \ {0}
    /\ \A d, e \in OpenDrives : d = e

OwnSessions == crashes = 0 => OpenSessions = {chargeID, offlineID} \ {0}

OwnParts ==
    /\ DriveFollows /\ ChargeFollows /\ OfflineHeld
    /\ StateFollows /\ OneOpenDrive /\ OwnSessions

\* A failed call drops the rest of its batch, so this is all off after one.
OwnInv == fails = 0 => OwnParts

\* At which of its calls an event opens and closes its row.
LEMMA CallPlaces ==
    ASSUME NEW kind \in EventKinds, NEW i \in 1 .. Len(Calls(kind))
    PROVE  LET last == i = Len(Calls(kind)) IN
           /\ Calls(kind)[i] = "OpenDrive" <=> kind = "DriveStart" /\ i = 1
           /\ Calls(kind)[i] = "CloseDrive" <=> kind \in DriveEnds /\ last
           /\ Calls(kind)[i] = "OpenSession" <=> kind = "ChargeStart" /\ i = 1
           /\ Calls(kind)[i] = "CloseSession" <=> kind \in ChargeEnds /\ last
           /\ Calls(kind)[i] = "OpenOffline" <=> kind = "OfflineCharge" /\ i = 1
           /\ Calls(kind)[i] = "CloseOffline" <=> kind = "OfflineCharge" /\ last
           /\ Calls(kind)[i] = "OpenState" <=> kind = "StateChanged"
           /\ kind = "StateChanged" => last
           /\ kind \in {"DriveStart", "ChargeStart", "OfflineCharge"} /\ last => i > 1
BY DEF Calls, EventKinds, DriveEnds, ChargeEnds

\* Where a step of persist leaves the batch.
LEMMA PersistTodo ==
    ASSUME TypeInv, Persist
    PROVE  /\ todo \in Seq(Events) /\ todo # <<>>
           /\ Head(todo).kind \in EventKinds
           /\ done \in Nat /\ done + 1 \in 1 .. Len(Calls(Head(todo).kind))
           /\ m.driving \in BOOLEAN /\ m.charging \in BOOLEAN
           /\ ~SkipEvent /\ done + 1 # Len(Calls(Head(todo).kind))
                => todo' = todo /\ done' = done + 1
           /\ SkipEvent \/ done + 1 = Len(Calls(Head(todo).kind))
                => todo' = Tail(todo) /\ done' = 0
<1>1. todo # <<>>
  BY DEF Persist, SkipEvent, OpenState, OpenDrive, AppendPosition,
     CloseDrive, OpenSession, CloseSession, OpenOffline, CloseOffline, BeginUpdate,
     FinishUpdate, WriteSample, Calling
<1>2. /\ todo \in Seq(Events) /\ done \in Nat
      /\ m.driving \in BOOLEAN /\ m.charging \in BOOLEAN
  BY DEF TypeInv, TypeOK, Machines
<1>3. /\ Head(todo).kind \in EventKinds
      /\ done + 1 \in 1 .. Len(Calls(Head(todo).kind))
  BY <1>1, BatchTypes, EventsType DEF TypeInv
<1>4. ~SkipEvent => Returned
  BY DEF Persist, OpenState, OpenDrive, AppendPosition,
     CloseDrive, OpenSession, CloseSession, OpenOffline, CloseOffline, BeginUpdate,
     FinishUpdate, WriteSample
<1>5. SkipEvent => todo' = Tail(todo) /\ done' = 0
  BY DEF SkipEvent
<1> QED BY <1>1, <1>2, <1>3, <1>4, <1>5 DEF Returned

LEMMA PersistDriveFollows ==
    ASSUME TypeInv, DriveFollows, Persist
    PROVE  DriveFollows'
<1> DEFINE kind == Head(todo).kind
           last == done + 1 = Len(Calls(kind))
<1>0. /\ todo \in Seq(Events) /\ todo # <<>> /\ kind \in EventKinds
      /\ done \in Nat /\ done + 1 \in 1 .. Len(Calls(kind))
      /\ m.driving \in BOOLEAN
      /\ ~SkipEvent /\ ~last => todo' = todo /\ done' = done + 1
      /\ SkipEvent \/ last => todo' = Tail(todo) /\ done' = 0
      /\ m' = m
  BY PersistTodo, PersistFrame
<1>1. /\ Calls(kind)[done + 1] = "OpenDrive" <=> kind = "DriveStart" /\ done + 1 = 1
      /\ Calls(kind)[done + 1] = "CloseDrive" <=> kind \in DriveEnds /\ last
      /\ kind = "DriveStart" /\ last => done + 1 > 1
  BY <1>0, CallPlaces
<1>2. "DriveStart" \notin DriveEnds
  BY DEF DriveEnds
<1>3. Follows(todo, done, m.driving, driveID, "DriveStart", DriveEnds)
  BY DEF DriveFollows
<1>4. CASE SkipEvent
  <2>1. Skipped(kind) /\ driveID' = driveID
    BY <1>4 DEF SkipEvent
  <2>2. kind \notin DriveEnds
    <3> SUFFICES ASSUME kind \in DriveEnds PROVE FALSE
      OBVIOUS
    <3>1. driveID # 0
      BY <1>0, <1>3, FollowsClose
    <3> QED BY <2>1, <3>1 DEF Skipped, DriveEnds
  <2>3. kind # "DriveStart"
    BY <2>1 DEF Skipped
  <2>4. Follows(Tail(todo), 0, m.driving, driveID, "DriveStart", DriveEnds)
    BY <1>0, <1>3, <2>2, <2>3, FollowsNext
  <2> QED BY <1>0, <1>4, <2>1, <2>4 DEF DriveFollows
<1>5. CASE OpenDrive
  <2>1. kind = "DriveStart" /\ done = 0
    BY <1>0, <1>1, <1>5 DEF OpenDrive, Calling
  <2>2. todo' = todo /\ done' = 1
    BY <1>0, <1>1, <1>5, <2>1 DEF OpenDrive, Calling, SkipEvent
  <2>3. driveID' # 0
    BY <1>5, RowAssumption DEF OpenDrive
  <2>4. \A new : new # 0 => Follows(todo, 1, m.driving, new, "DriveStart", DriveEnds)
    BY <1>0, <1>2, <1>3, <2>1, FollowsOpen
  <2> QED BY <1>0, <2>2, <2>3, <2>4 DEF DriveFollows
<1>6. CASE CloseDrive
  <2>1. kind \in DriveEnds /\ todo' = Tail(todo) /\ done' = 0 /\ driveID' = 0
    BY <1>0, <1>1, <1>6 DEF CloseDrive, Calling
  <2>2. Follows(Tail(todo), 0, m.driving, 0, "DriveStart", DriveEnds)
    BY <1>0, <1>3, <2>1, FollowsClose
  <2> QED BY <1>0, <2>1, <2>2 DEF DriveFollows
<1>7. CASE ~SkipEvent /\ ~OpenDrive /\ ~CloseDrive
  <2>1. /\ driveID' = driveID
        /\ Calls(kind)[done + 1] # "OpenDrive" /\ Calls(kind)[done + 1] # "CloseDrive"
    BY <1>7 DEF Persist, OpenState, AppendPosition,
       OpenSession, CloseSession, OpenOffline, CloseOffline, BeginUpdate,
       FinishUpdate, WriteSample, Calling, stored
  <2>2. kind = "DriveStart" => done > 0
    BY <1>0, <1>1, <2>1
  <2>3. CASE last
    <3>1. Follows(Tail(todo), 0, m.driving, driveID, "DriveStart", DriveEnds)
      BY <1>0, <1>1, <1>3, <2>1, <2>2, <2>3, FollowsNext
    <3> QED BY <1>0, <2>1, <2>3, <3>1 DEF DriveFollows
  <2>4. CASE ~last
    <3>1. Follows(todo, done + 1, m.driving, driveID, "DriveStart", DriveEnds)
      BY <1>0, <1>3, <2>2, FollowsCall
    <3> QED BY <1>0, <1>7, <2>1, <2>4, <3>1 DEF DriveFollows
  <2> QED BY <2>3, <2>4
<1> QED BY <1>4, <1>5, <1>6, <1>7

LEMMA PersistChargeFollows ==
    ASSUME TypeInv, ChargeFollows, Persist
    PROVE  ChargeFollows'
<1> DEFINE kind == Head(todo).kind
           last == done + 1 = Len(Calls(kind))
<1>0. /\ todo \in Seq(Events) /\ todo # <<>> /\ kind \in EventKinds
      /\ done \in Nat /\ done + 1 \in 1 .. Len(Calls(kind))
      /\ m.charging \in BOOLEAN
      /\ ~SkipEvent /\ ~last => todo' = todo /\ done' = done + 1
      /\ SkipEvent \/ last => todo' = Tail(todo) /\ done' = 0
      /\ m' = m
  BY PersistTodo, PersistFrame
<1>1. /\ Calls(kind)[done + 1] = "OpenSession" <=> kind = "ChargeStart" /\ done + 1 = 1
      /\ Calls(kind)[done + 1] = "CloseSession" <=> kind \in ChargeEnds /\ last
      /\ kind = "ChargeStart" /\ last => done + 1 > 1
  BY <1>0, CallPlaces
<1>2. "ChargeStart" \notin ChargeEnds
  BY DEF ChargeEnds
<1>3. Follows(todo, done, m.charging, chargeID, "ChargeStart", ChargeEnds)
  BY DEF ChargeFollows
<1>4. CASE SkipEvent
  <2>1. Skipped(kind) /\ chargeID' = chargeID
    BY <1>4 DEF SkipEvent
  <2>2. kind \notin ChargeEnds
    <3> SUFFICES ASSUME kind \in ChargeEnds PROVE FALSE
      OBVIOUS
    <3>1. chargeID # 0
      BY <1>0, <1>3, FollowsClose
    <3> QED BY <2>1, <3>1 DEF Skipped, ChargeEnds
  <2>3. kind # "ChargeStart"
    BY <2>1 DEF Skipped
  <2>4. Follows(Tail(todo), 0, m.charging, chargeID, "ChargeStart", ChargeEnds)
    BY <1>0, <1>3, <2>2, <2>3, FollowsNext
  <2> QED BY <1>0, <1>4, <2>1, <2>4 DEF ChargeFollows
<1>5. CASE OpenSession
  <2>1. kind = "ChargeStart" /\ done = 0
    BY <1>0, <1>1, <1>5 DEF OpenSession, Calling
  <2>2. todo' = todo /\ done' = 1
    BY <1>0, <1>1, <1>5, <2>1 DEF OpenSession, Calling, SkipEvent
  <2>3. chargeID' # 0
    BY <1>5, RowAssumption DEF OpenSession
  <2>4. \A new : new # 0 => Follows(todo, 1, m.charging, new, "ChargeStart", ChargeEnds)
    BY <1>0, <1>2, <1>3, <2>1, FollowsOpen
  <2> QED BY <1>0, <2>2, <2>3, <2>4 DEF ChargeFollows
<1>6. CASE CloseSession
  <2>1. kind \in ChargeEnds /\ todo' = Tail(todo) /\ done' = 0 /\ chargeID' = 0
    BY <1>0, <1>1, <1>6 DEF CloseSession, Calling
  <2>2. Follows(Tail(todo), 0, m.charging, 0, "ChargeStart", ChargeEnds)
    BY <1>0, <1>3, <2>1, FollowsClose
  <2> QED BY <1>0, <2>1, <2>2 DEF ChargeFollows
<1>7. CASE ~SkipEvent /\ ~OpenSession /\ ~CloseSession
  <2>1. /\ chargeID' = chargeID
        /\ Calls(kind)[done + 1] # "OpenSession"
        /\ Calls(kind)[done + 1] # "CloseSession"
    BY <1>7 DEF Persist, OpenState, AppendPosition,
       OpenDrive, CloseDrive, OpenOffline, CloseOffline, BeginUpdate,
       FinishUpdate, WriteSample, Calling, stored
  <2>2. kind = "ChargeStart" => done > 0
    BY <1>0, <1>1, <2>1
  <2>3. CASE last
    <3>1. Follows(Tail(todo), 0, m.charging, chargeID, "ChargeStart", ChargeEnds)
      BY <1>0, <1>1, <1>3, <2>1, <2>2, <2>3, FollowsNext
    <3> QED BY <1>0, <2>1, <2>3, <3>1 DEF ChargeFollows
  <2>4. CASE ~last
    <3>1. Follows(todo, done + 1, m.charging, chargeID, "ChargeStart", ChargeEnds)
      BY <1>0, <1>3, <2>2, FollowsCall
    <3> QED BY <1>0, <1>7, <2>1, <2>4, <3>1 DEF ChargeFollows
  <2> QED BY <2>3, <2>4
<1> QED BY <1>4, <1>5, <1>6, <1>7

LEMMA PersistOfflineHeld ==
    ASSUME TypeInv, OfflineHeld, Persist
    PROVE  OfflineHeld'
<1> DEFINE kind == Head(todo).kind
           last == done + 1 = Len(Calls(kind))
<1>0. /\ todo # <<>> /\ kind \in EventKinds
      /\ done \in Nat /\ done + 1 \in 1 .. Len(Calls(kind))
      /\ ~SkipEvent /\ ~last => todo' = todo /\ done' = done + 1
      /\ SkipEvent \/ last => todo' = Tail(todo) /\ done' = 0
  BY PersistTodo
<1>1. /\ Calls(kind)[done + 1] = "OpenOffline" <=> kind = "OfflineCharge" /\ done + 1 = 1
      /\ Calls(kind)[done + 1] = "CloseOffline" <=> kind = "OfflineCharge" /\ last
      /\ kind = "OfflineCharge" /\ last => done + 1 > 1
  BY <1>0, CallPlaces
<1>2. Begun(todo, done, "OfflineCharge") <=> kind = "OfflineCharge" /\ done > 0
  BY <1>0 DEF Begun
<1>3. /\ done' = 0 => ~Begun(todo', done', "OfflineCharge")
      /\ todo' = todo /\ done' = done + 1
           => (Begun(todo', done', "OfflineCharge") <=> kind = "OfflineCharge")
  BY <1>0 DEF Begun
<1>4. CASE SkipEvent
  <2>1. kind # "OfflineCharge" /\ offlineID' = offlineID
    BY <1>4 DEF SkipEvent, Skipped
  <2> QED BY <1>0, <1>2, <1>3, <1>4, <2>1 DEF OfflineHeld
<1>5. CASE OpenOffline
  <2>1. kind = "OfflineCharge" /\ done = 0 /\ ~last /\ ~SkipEvent
    BY <1>0, <1>1, <1>5 DEF OpenOffline, Calling, SkipEvent
  <2>2. offlineID' # 0
    BY <1>5, RowAssumption DEF OpenOffline
  <2> QED BY <1>0, <1>3, <2>1, <2>2 DEF OfflineHeld
<1>6. CASE CloseOffline
  <2>1. last /\ offlineID' = 0
    BY <1>0, <1>1, <1>6 DEF CloseOffline, Calling
  <2> QED BY <1>0, <1>3, <2>1 DEF OfflineHeld
<1>7. CASE ~SkipEvent /\ ~OpenOffline /\ ~CloseOffline
  <2>1. /\ offlineID' = offlineID
        /\ Calls(kind)[done + 1] # "OpenOffline" /\ Calls(kind)[done + 1] # "CloseOffline"
    BY <1>7 DEF Persist, OpenState, AppendPosition,
       OpenDrive, CloseDrive, OpenSession, CloseSession, BeginUpdate,
       FinishUpdate, WriteSample, Calling, stored
  <2>2. kind = "OfflineCharge" => done > 0 /\ ~last
    BY <1>0, <1>1, <2>1
  <2> QED BY <1>0, <1>2, <1>3, <1>7, <2>1, <2>2 DEF OfflineHeld
<1> QED BY <1>4, <1>5, <1>6, <1>7

LEMMA PersistStateFollows ==
    ASSUME TypeInv, StateFollows, Persist
    PROVE  StateFollows'
<1> DEFINE kind == Head(todo).kind
           last == done + 1 = Len(Calls(kind))
           SC   == {"StateChanged"}
<1>0. /\ todo \in Seq(Events) /\ todo # <<>> /\ kind \in EventKinds
      /\ done \in Nat /\ done + 1 \in 1 .. Len(Calls(kind))
      /\ ~SkipEvent /\ ~last => todo' = todo
      /\ SkipEvent \/ last => todo' = Tail(todo)
      /\ m' = m
  BY PersistTodo, PersistFrame
<1>1. /\ Calls(kind)[done + 1] = "OpenState" <=> kind = "StateChanged"
      /\ kind = "StateChanged" => last
  BY <1>0, CallPlaces
<1>2. LastState(Tail(todo), m.state) /\ LastState(todo, m.state)
  BY <1>0, LastTail DEF StateFollows
<1>3. Has(todo, SC) <=> kind = "StateChanged" \/ Has(Tail(todo), SC)
  BY <1>0, HasTail
<1>4. CASE OpenState
  <2>1. kind = "StateChanged" /\ todo' = Tail(todo) /\ stateRow' = Head(todo).arg
    BY <1>0, <1>1, <1>4 DEF OpenState, Calling
  <2>2. ~Has(Tail(todo), SC) => Head(todo).arg = m.state
    BY <1>0, <2>1, LastTail DEF StateFollows
  <2> QED BY <1>0, <1>2, <2>1, <2>2 DEF StateFollows
<1>5. CASE ~OpenState
  <2>1. kind # "StateChanged" /\ stateRow' = stateRow
    BY <1>1, <1>5 DEF Persist, SkipEvent, Skipped, AppendPosition,
       OpenDrive, CloseDrive, OpenSession, CloseSession, OpenOffline, CloseOffline,
       BeginUpdate, FinishUpdate, WriteSample, Calling, stored
  <2>2. Has(Tail(todo), SC) <=> Has(todo, SC)
    BY <1>3, <2>1
  <2>3. todo' = todo \/ todo' = Tail(todo)
    BY <1>0
  <2> QED BY <1>0, <1>2, <2>1, <2>2, <2>3 DEF StateFollows
<1> QED BY <1>4, <1>5

LEMMA PersistOneOpenDrive ==
    ASSUME TypeInv, RowsInv, DriveFollows, OneOpenDrive, Persist
    PROVE  OneOpenDrive'
<1> DEFINE kind == Head(todo).kind
<1>0. /\ todo \in Seq(Events) /\ todo # <<>> /\ kind \in EventKinds
      /\ done \in Nat /\ done + 1 \in 1 .. Len(Calls(kind))
      /\ m.driving \in BOOLEAN
  BY PersistTodo
<1>1. /\ drives \in [DriveIds -> [status : DriveStatuses, points : 0 .. MinPositions]]
      /\ driveID \in DriveIds \cup {0} /\ 0 \notin DriveIds
  BY RowAssumption DEF TypeInv, TypeOK
<1>2. pc # "down" /\ pc' = pc
  BY <1>0, PersistFrame DEF RowsInv
<1>3. OpenDrives = {driveID} \ {0}
  BY <1>2 DEF OneOpenDrive
<1>4. /\ Calls(kind)[done + 1] = "OpenDrive" <=> kind = "DriveStart" /\ done + 1 = 1
      /\ Calls(kind)[done + 1] = "CloseDrive" => kind \in DriveEnds
  BY <1>0, CallPlaces
<1>5. CASE OpenDrive
  <2>1. PICK d \in DriveIds :
          /\ drives' = [drives EXCEPT ![d] = [status |-> "open", points |-> 0]]
          /\ driveID' = d
    BY <1>5 DEF OpenDrive
  <2>2. kind = "DriveStart" /\ done = 0
    BY <1>0, <1>4, <1>5 DEF OpenDrive, Calling
  <2>3. driveID = 0
    <3>1. "DriveStart" \notin DriveEnds /\ 1 # 0
      BY DEF DriveEnds
    <3> QED BY <1>0, <2>2, <3>1, FollowsOpen DEF DriveFollows
  <2>4. OpenDrives' = {d}
    BY <1>1, <1>3, <2>1, <2>3 DEF OpenDrives
  <2> QED BY <1>1, <2>1, <2>4 DEF OneOpenDrive
<1>6. CASE CloseDrive
  <2>1. PICK far \in BOOLEAN :
          drives' = [drives EXCEPT ![driveID] = ClosedDrive(@, far)]
    BY <1>6 DEF CloseDrive
  <2>2. \A row \in [status : DriveStatuses, points : 0 .. MinPositions] :
          ClosedDrive(row, far).status # "open"
    BY DEF ClosedDrive
  <2>4. driveID \in DriveIds => drives'[driveID].status # "open"
    BY <1>1, <2>1, <2>2
  <2>5. \A d \in DriveIds : d # driveID => drives'[d] = drives[d]
    BY <1>1, <2>1
  <2>6. OpenDrives' = {}
    BY <1>3, <2>4, <2>5 DEF OpenDrives
  <2>7. driveID' = 0
    BY <1>6 DEF CloseDrive
  <2> QED BY <2>6, <2>7 DEF OneOpenDrive
<1>7. CASE AppendPosition
  <2>1. \A d \in DriveIds : drives'[d].status = drives[d].status
    BY <1>1, <1>7, RowTypes DEF AppendPosition
  <2>2. OpenDrives' = OpenDrives /\ driveID' = driveID
    BY <1>7, <2>1 DEF OpenDrives, AppendPosition
  <2> QED BY <1>2, <2>2 DEF OneOpenDrive
<1>8. CASE ~OpenDrive /\ ~CloseDrive /\ ~AppendPosition
  <2>1. drives' = drives /\ driveID' = driveID
    BY <1>8 DEF Persist, SkipEvent, OpenState, OpenSession, CloseSession, OpenOffline,
       CloseOffline, BeginUpdate, FinishUpdate, WriteSample, stored
  <2> QED BY <1>2, <2>1 DEF OneOpenDrive, OpenDrives
<1> QED BY <1>5, <1>6, <1>7, <1>8

LEMMA PersistOwnSessions ==
    ASSUME TypeInv, RowsInv, ChargeFollows, OfflineHeld, OwnSessions, Persist
    PROVE  OwnSessions'
<1> DEFINE kind == Head(todo).kind
<1>0. /\ todo \in Seq(Events) /\ todo # <<>> /\ kind \in EventKinds
      /\ done \in Nat /\ done + 1 \in 1 .. Len(Calls(kind))
      /\ m.charging \in BOOLEAN
  BY PersistTodo
<1>1. /\ sessions \in [SessionIds -> SessionStatuses]
      /\ chargeID \in SessionIds \cup {0} /\ offlineID \in SessionIds \cup {0}
      /\ 0 \notin SessionIds
  BY RowAssumption DEF TypeInv, TypeOK
<1>2. crashes' = crashes
  BY PersistFrame DEF history
<1>3. /\ Calls(kind)[done + 1] = "OpenSession" <=> kind = "ChargeStart" /\ done + 1 = 1
      /\ Calls(kind)[done + 1] = "CloseSession" => kind \in ChargeEnds
      /\ Calls(kind)[done + 1] = "OpenOffline" <=> kind = "OfflineCharge" /\ done + 1 = 1
      /\ Calls(kind)[done + 1] = "CloseOffline" => kind = "OfflineCharge"
  BY <1>0, CallPlaces
<1>4. offlineID # 0 => offlineID # chargeID
  BY DEF RowsInv, HeldRowsOpen
<1> SUFFICES ASSUME crashes = 0, OpenSessions = {chargeID, offlineID} \ {0}
             PROVE  OpenSessions' = {chargeID', offlineID'} \ {0}
  BY <1>2 DEF OwnSessions
<1>5. CASE OpenSession
  <2>1. PICK c \in SessionIds :
          sessions' = [sessions EXCEPT ![c] = "open"] /\ chargeID' = c
    BY <1>5 DEF OpenSession
  <2>2. kind = "ChargeStart" /\ done = 0
    BY <1>0, <1>3, <1>5 DEF OpenSession, Calling
  <2>3. chargeID = 0
    <3>1. "ChargeStart" \notin ChargeEnds /\ 1 # 0
      BY DEF ChargeEnds
    <3> QED BY <1>0, <2>2, <3>1, FollowsOpen DEF ChargeFollows
  <2>4. OpenSessions' = OpenSessions \cup {c}
    BY <1>1, <2>1 DEF OpenSessions
  <2>5. offlineID' = offlineID
    BY <1>5 DEF OpenSession
  <2> QED BY <1>1, <2>1, <2>3, <2>4, <2>5
<1>6. CASE CloseSession
  <2>1. sessions' = [sessions EXCEPT ![chargeID] = "closed"]
        /\ chargeID' = 0 /\ offlineID' = offlineID
    BY <1>6 DEF CloseSession
  <2>2. OpenSessions' = OpenSessions \ {chargeID}
    BY <1>1, <2>1 DEF OpenSessions
  <2> QED BY <1>4, <2>1, <2>2
<1>7. CASE OpenOffline
  <2>1. PICK c \in SessionIds :
          sessions' = [sessions EXCEPT ![c] = "open"] /\ offlineID' = c
    BY <1>7 DEF OpenOffline
  <2>2. done = 0
    BY <1>0, <1>3, <1>7 DEF OpenOffline, Calling
  <2>3. offlineID = 0
    BY <2>2 DEF OfflineHeld, Begun
  <2>4. OpenSessions' = OpenSessions \cup {c}
    BY <1>1, <2>1 DEF OpenSessions
  <2>5. chargeID' = chargeID
    BY <1>7 DEF OpenOffline
  <2> QED BY <1>1, <2>1, <2>3, <2>4, <2>5
<1>8. CASE CloseOffline
  <2>1. sessions' = [sessions EXCEPT ![offlineID] = "closed"]
        /\ offlineID' = 0 /\ chargeID' = chargeID
    BY <1>8 DEF CloseOffline
  <2>2. OpenSessions' = OpenSessions \ {offlineID}
    BY <1>1, <2>1 DEF OpenSessions
  <2>3. offlineID = 0 => OpenSessions' = OpenSessions
    BY <1>1, <2>2 DEF OpenSessions
  <2> QED BY <1>4, <2>1, <2>2, <2>3
<1>9. CASE ~OpenSession /\ ~CloseSession /\ ~OpenOffline /\ ~CloseOffline
  <2>1. sessions' = sessions /\ chargeID' = chargeID /\ offlineID' = offlineID
    BY <1>9 DEF Persist, SkipEvent, OpenState, OpenDrive, CloseDrive, AppendPosition,
       BeginUpdate, FinishUpdate, WriteSample, stored
  <2> QED BY <2>1 DEF OpenSessions
<1> QED BY <1>5, <1>6, <1>7, <1>8, <1>9

\* A step that writes no batch and turns neither flag.
LEMMA QuietStep ==
    ASSUME OwnParts, m'.driving = m.driving, m'.charging = m.charging, m'.state = m.state,
           UNCHANGED <<todo, done, driveID, chargeID, offlineID, sessions, stateRow, crashes>>,
           OpenDrives' = OpenDrives, pc' = "down" <=> pc = "down"
    PROVE  OwnParts'
<1>1. DriveFollows' /\ ChargeFollows' /\ OfflineHeld'
  BY DEF OwnParts, DriveFollows, ChargeFollows, OfflineHeld
<1>2. StateFollows'
  BY DEF OwnParts, StateFollows
<1>3. OneOpenDrive' /\ OwnSessions'
  BY DEF OwnParts, OneOpenDrive, OwnSessions, OpenSessions
<1> QED BY <1>1, <1>2, <1>3 DEF OwnParts

\* A step that gives the loop a new batch.
LEMMA BatchStep ==
    ASSUME OwnParts, m \in Machines, m' \in Machines, todo = <<>>, done' = 0,
           NEW es, todo' = es,
           Turns(es, m.driving, m'.driving, "DriveStart", DriveEnds),
           Turns(es, m.charging, m'.charging, "ChargeStart", ChargeEnds),
           LastState(es, m'.state),
           ~Has(es, {"StateChanged"}) => m'.state = m.state,
           UNCHANGED <<driveID, chargeID, offlineID, drives, sessions, stateRow, crashes>>,
           pc # "down"
    PROVE  OwnParts'
<1>1. m.driving \in BOOLEAN /\ m.charging \in BOOLEAN
      /\ m'.driving \in BOOLEAN /\ m'.charging \in BOOLEAN
  BY DEF Machines
<1>2. (m.driving <=> driveID # 0) /\ (m.charging <=> chargeID # 0)
  BY <1>1, FollowsNothing DEF OwnParts, DriveFollows, ChargeFollows
<1>3. DriveFollows'
  <2>1. Follows(es, 0, m'.driving, driveID, "DriveStart", DriveEnds)
    BY <1>1, <1>2, FollowsTurns
  <2> QED BY <2>1 DEF DriveFollows
<1>4. ChargeFollows'
  <2>1. Follows(es, 0, m'.charging, chargeID, "ChargeStart", ChargeEnds)
    BY <1>1, <1>2, FollowsTurns
  <2> QED BY <2>1 DEF ChargeFollows
<1>5. OfflineHeld'
  BY DEF OwnParts, OfflineHeld, Begun
<1>6. StateFollows'
  <2>1. m.state \in {stateRow, "unknown"}
    BY HasNothing DEF OwnParts, StateFollows
  <2> QED BY <2>1 DEF StateFollows
<1>7. OneOpenDrive' /\ OwnSessions'
  BY DEF OwnParts, OneOpenDrive, OwnSessions, OpenDrives, OpenSessions
<1> QED BY <1>3, <1>4, <1>5, <1>6, <1>7 DEF OwnParts

LEMMA CheckSummaryOwn ==
    ASSUME TypeInv, RowsInv, OwnParts, NEW raw \in RawStates, CheckSummary(raw)
    PROVE  OwnParts'
<1> DEFINE a  == OnSummary(m, raw)
           e1 == OnSummaryEvents(m, raw)
           e2 == OnUnreachableEvents(a, raw)
           b  == OnUnreachable(a, raw)
<1>1. m \in Machines /\ m.driving \in BOOLEAN /\ m.charging \in BOOLEAN
  BY DEF TypeInv, TypeOK, Machines
<1>2. /\ a \in Machines /\ a.state = SummaryTarget(m, raw)
      /\ a.driving = m.driving /\ a.charging = m.charging
      /\ e1 \in Seq(Events)
  BY <1>1, OnSummaryType, OnSummaryFlags
<1>3. /\ b \in Machines /\ b.state = a.state /\ e2 \in Seq(Events)
      /\ b.driving \in BOOLEAN /\ b.charging \in BOOLEAN
  BY <1>2, OnUnreachableType, OnUnreachableEventsType DEF Machines
<1>4. /\ Has(e1, {"StateChanged"}) <=> m.state # a.state
      /\ LastState(e1, a.state)
      /\ \A kinds : /\ Once(e1, kinds)
                    /\ "StateChanged" \notin kinds => ~Has(e1, kinds)
  BY <1>2, ChangedHas DEF OnSummaryEvents
<1>5. /\ Turns(e2, a.driving, b.driving, "DriveStart", DriveEnds)
      /\ Turns(e2, a.charging, b.charging, "ChargeStart", ChargeEnds)
      /\ ~Has(e2, {"StateChanged"})
  BY <1>2, OnUnreachableTurns
<1>6. /\ todo = <<>> /\ done' = 0 /\ pc # "down"
      /\ UNCHANGED <<driveID, chargeID, offlineID, drives, sessions, stateRow, crashes>>
  BY DEF CheckSummary, At, TypeInv, BatchOK, stored
<1>7. /\ ~Has(e1, {"DriveStart"} \cup DriveEnds) /\ Once(e1, {"DriveStart"} \cup DriveEnds)
      /\ ~Has(e1, {"ChargeStart"} \cup ChargeEnds) /\ Once(e1, {"ChargeStart"} \cup ChargeEnds)
  BY <1>4 DEF DriveEnds, ChargeEnds
<1>8. CASE AsleepLike(a.state)
  <2>1. m' = b /\ todo' = e1 \o e2
    BY <1>8 DEF CheckSummary
  <2> HIDE DEF a, b, e1, e2
  <2>2. /\ Turns(e1 \o e2, m.driving, b.driving, "DriveStart", DriveEnds)
        /\ Turns(e1 \o e2, m.charging, b.charging, "ChargeStart", ChargeEnds)
    BY <1>1, <1>2, <1>3, <1>5, <1>7, TurnsConcat
  <2>3. LastState(e1 \o e2, b.state)
    BY <1>2, <1>3, <1>4, <1>5, LastOfNone, LastConcat
  <2>4. Has(e1 \o e2, {"StateChanged"}) <=> m.state # b.state
    BY <1>2, <1>3, <1>4, <1>5, HasConcat
  <2> QED BY <1>1, <1>3, <1>6, <2>1, <2>2, <2>3, <2>4, BatchStep
<1>9. CASE ~AsleepLike(a.state)
  <2>1. m' = a /\ todo' = e1
    BY <1>9 DEF CheckSummary
  <2> HIDE DEF a, b, e1, e2
  <2>2. /\ Turns(e1, m.driving, m.driving, "DriveStart", DriveEnds)
        /\ Turns(e1, m.charging, m.charging, "ChargeStart", ChargeEnds)
    BY <1>1, <1>7, TurnsNot
  <2> QED BY <1>1, <1>2, <1>4, <1>6, <2>1, <2>2, BatchStep
<1> QED BY <1>8, <1>9

LEMMA PollOKOwn ==
    ASSUME TypeInv, RowsInv, OwnParts, NEW s \in Snapshots, PollOK(s)
    PROVE  OwnParts'
<1> DEFINE es == OnBackOnlineEvents(m, s)
<1>1. m \in Machines /\ m.driving \in BOOLEAN /\ m.charging \in BOOLEAN
  BY DEF TypeInv, TypeOK, Machines
<1>2. /\ m' \in Machines /\ m'.state = m.state
      /\ m'.driving = m.driving /\ m'.charging = m.charging
  BY <1>1, OnBackOnlineType DEF PollOK, OnBackOnline, Machines
<1>3. /\ todo = <<>> /\ todo' = es /\ done' = 0 /\ pc # "down"
      /\ UNCHANGED <<driveID, chargeID, offlineID, drives, sessions, stateRow, crashes>>
  BY DEF PollOK, At, TypeInv, BatchOK, stored, history
<1>4. \A kinds : Once(es, kinds) /\ ("OfflineCharge" \notin kinds => ~Has(es, kinds))
  BY HasSingle, HasNothing DEF OnBackOnlineEvents, Event
<1> HIDE DEF es
<1>5. /\ Turns(es, m.driving, m.driving, "DriveStart", DriveEnds)
      /\ Turns(es, m.charging, m.charging, "ChargeStart", ChargeEnds)
  BY <1>1, <1>4, TurnsNot DEF DriveEnds, ChargeEnds
<1>6. ~Has(es, {"StateChanged"}) /\ LastState(es, m.state)
  BY <1>4, LastOfNone
<1> QED BY <1>1, <1>2, <1>3, <1>5, <1>6, BatchStep

LEMMA VehicleDataOwn ==
    ASSUME TypeInv, RowsInv, OwnParts, VehicleData
    PROVE  OwnParts'
<1> DEFINE es == OnVehicleDataEvents(m, snap)
<1>1. m \in Machines /\ snap \in Snapshots
  BY DEF TypeInv, TypeOK
<1>2. m' = OnVehicleData(m, snap) /\ m' \in Machines /\ m'.state = Activity(snap)
  BY <1>1, OnVehicleDataType DEF VehicleData
<1>3. /\ todo = <<>> /\ todo' = es /\ done' = 0 /\ pc # "down"
      /\ UNCHANGED <<driveID, chargeID, offlineID, drives, sessions, stateRow, crashes>>
  BY DEF VehicleData, At, TypeInv, BatchOK, stored
<1>4. /\ Turns(es, m.driving, m'.driving, "DriveStart", DriveEnds)
      /\ Turns(es, m.charging, m'.charging, "ChargeStart", ChargeEnds)
  BY <1>1, <1>2, OnVehicleDataTurns
<1>5. LastState(es, m'.state) /\ (~Has(es, {"StateChanged"}) => m'.state = m.state)
  BY <1>1, <1>2, OnVehicleDataLast
<1> HIDE DEF es
<1> QED BY <1>1, <1>2, <1>3, <1>4, <1>5, BatchStep

LEMMA IdleCheckOwn ==
    ASSUME TypeInv, RowsInv, OwnParts, IdleCheck
    PROVE  OwnParts'
<1>1. m \in Machines /\ m.driving \in BOOLEAN /\ m.charging \in BOOLEAN
  BY DEF TypeInv, TypeOK, Machines
<1>2. /\ todo = <<>> /\ done' = 0 /\ done' = done /\ pc # "down" /\ pc' # "down"
      /\ UNCHANGED <<driveID, chargeID, offlineID, drives, sessions, stateRow, crashes>>
  BY DEF IdleCheck, At, TypeInv, BatchOK, stored, history
<1>3. CASE IdleTimedOut(m)
  <2> DEFINE es == SuspendEvents(m)
  <2>1. m' = Suspend(m) /\ todo' = es
    BY <1>3 DEF IdleCheck
  <2>2. /\ m' \in Machines /\ m'.state = SuspendTarget(m)
        /\ m'.driving = m.driving /\ m'.charging = m.charging
    BY <1>1, <2>1, SuspendType DEF Suspend, Transition, Machines
  <2>3. /\ Has(es, {"StateChanged"}) <=> m.state # m'.state
        /\ LastState(es, m'.state)
        /\ \A kinds : /\ Once(es, kinds)
                      /\ "StateChanged" \notin kinds => ~Has(es, kinds)
    BY <2>2, ChangedHas DEF SuspendEvents
  <2> HIDE DEF es
  <2>4. /\ Turns(es, m.driving, m.driving, "DriveStart", DriveEnds)
        /\ Turns(es, m.charging, m.charging, "ChargeStart", ChargeEnds)
    BY <1>1, <2>3, TurnsNot DEF DriveEnds, ChargeEnds
  <2> QED BY <1>1, <1>2, <2>1, <2>2, <2>3, <2>4, BatchStep
<1>4. CASE ~IdleTimedOut(m)
  <2>1. UNCHANGED <<m, todo>>
    BY <1>4 DEF IdleCheck
  <2>2. OpenDrives' = OpenDrives
    BY <1>2 DEF OpenDrives
  <2> QED BY <1>2, <2>1, <2>2, QuietStep
<1> QED BY <1>3, <1>4

\* The restarted loop takes the one open drive, and the session it left.
LEMMA StartOwn ==
    ASSUME TypeInv, RowsInv, OwnParts, Start
    PROVE  OwnParts'
<1>1. PICK d \in DriveIds \cup {0}, c \in SessionIds \cup {0} :
        /\ IsLatest(d, OpenDrives) /\ IsLatest(c, OpenSessions)
        /\ driveID' = d /\ chargeID' = c /\ m' = Resume(d # 0, c # 0)
  BY DEF Start
<1>2. /\ todo = <<>> /\ offlineID = 0 /\ pc' # "down"
      /\ UNCHANGED <<todo, done, offlineID, drives, sessions, stateRow, crashes>>
  BY DEF Start, RowsInv, stored
<1>3. 0 \notin DriveIds /\ 0 \notin SessionIds
  BY RowAssumption
<1>4. m'.driving = (d # 0) /\ m'.charging = (c # 0) /\ m'.state = "unknown"
  BY <1>1 DEF Resume
<1>5. DriveFollows'
  <2>1. Follows(<<>>, done, d # 0, d, "DriveStart", DriveEnds)
    BY FollowsNothing
  <2> QED BY <1>1, <1>2, <1>4, <2>1 DEF DriveFollows
<1>6. ChargeFollows'
  <2>1. Follows(<<>>, done, c # 0, c, "ChargeStart", ChargeEnds)
    BY FollowsNothing
  <2> QED BY <1>1, <1>2, <1>4, <2>1 DEF ChargeFollows
<1>7. OfflineHeld'
  BY <1>2 DEF OfflineHeld, Begun
<1>8. StateFollows'
  BY <1>2, <1>4, HasNothing, LastOfNone DEF StateFollows
<1>9. OneOpenDrive'
  <2>1. OpenDrives' = OpenDrives /\ \A e, f \in OpenDrives : e = f
    BY <1>2 DEF OwnParts, OneOpenDrive, OpenDrives
  <2>2. OpenDrives = {d} \ {0}
    BY <1>1, <1>3, <2>1 DEF IsLatest, OpenDrives
  <2> QED BY <1>1, <2>1, <2>2 DEF OneOpenDrive
<1>10. OwnSessions'
  <2> SUFFICES ASSUME crashes = 0 PROVE OpenSessions = {c} \ {0}
    BY <1>1, <1>2 DEF OwnSessions, OpenSessions
  <2>1. OpenSessions = {chargeID} \ {0}
    BY <1>2 DEF OwnParts, OwnSessions
  <2> QED BY <1>1, <1>3, <2>1 DEF IsLatest, OpenSessions
<1> QED BY <1>5, <1>6, <1>7, <1>8, <1>9, <1>10 DEF OwnParts

LEMMA CrashOwn ==
    ASSUME TypeInv, OwnParts, Crash
    PROVE  OwnParts'
<1>1. /\ todo' = <<>> /\ driveID' = 0 /\ chargeID' = 0 /\ offlineID' = 0
      /\ m' = New /\ pc' = "down" /\ drives' = drives
  BY DEF Crash, stored
<1>2. m'.driving = FALSE /\ m'.charging = FALSE /\ m'.state = "unknown"
  BY <1>1 DEF New, Resume
<1>3. DriveFollows'
  <2>1. Follows(<<>>, 0, FALSE, 0, "DriveStart", DriveEnds)
    BY FollowsNothing
  <2> QED BY <1>1, <1>2, <2>1 DEF DriveFollows, Crash
<1>4. ChargeFollows'
  <2>1. Follows(<<>>, 0, FALSE, 0, "ChargeStart", ChargeEnds)
    BY FollowsNothing
  <2> QED BY <1>1, <1>2, <2>1 DEF ChargeFollows, Crash
<1>5. OfflineHeld' /\ StateFollows'
  BY <1>1, <1>2, HasNothing, LastOfNone DEF OfflineHeld, Begun, StateFollows
<1>6. OneOpenDrive'
  BY <1>1 DEF OwnParts, OneOpenDrive, OpenDrives
<1>7. OwnSessions'
  <2>1. crashes' # 0
    BY DEF Crash, TypeInv, TypeOK
  <2> QED BY <2>1 DEF OwnSessions
<1> QED BY <1>3, <1>4, <1>5, <1>6, <1>7 DEF OwnParts

\* Only StoreFails counts a failure.
LEMMA FailsStep ==
    ASSUME TypeInv, [Next]_vars, fails' = 0
    PROVE  fails = 0 /\ ~StoreFails
<1>1. fails \in Nat
  BY DEF TypeInv, TypeOK
<1>2. ~StoreFails
  BY <1>1 DEF StoreFails
<1>3. CASE Persist
  BY <1>2, <1>3, PersistFrame DEF history
<1>4. CASE ~Persist
  BY <1>2, <1>4 DEF Next, vars, CheckSummary, CheckSummaryFails, PollFails, PollOK,
     VehicleData, IdleCheck, Suspended, StreamPoint, Start, Crash, Tick, history
<1> QED BY <1>2, <1>3, <1>4

LEMMA OwnStep == TypeInv /\ RowsInv /\ OwnInv /\ [Next]_vars => OwnInv'
<1> SUFFICES ASSUME TypeInv, RowsInv, OwnInv, [Next]_vars, fails' = 0 PROVE OwnParts'
  BY DEF OwnInv
<1>0. fails = 0 /\ ~StoreFails /\ OwnParts
  BY FailsStep DEF OwnInv
<1>1. ASSUME NEW raw \in RawStates, CheckSummary(raw) PROVE OwnParts'
  BY <1>0, <1>1, CheckSummaryOwn
<1>2. CASE CheckSummaryFails \/ PollFails \/ Suspended \/ Tick
  <2>1. UNCHANGED <<todo, done, driveID, chargeID, offlineID, drives, sessions, stateRow,
                    crashes>>
    BY <1>2 DEF CheckSummaryFails, PollFails, Suspended, Tick, stored, history
  <2>2. /\ m'.driving = m.driving /\ m'.charging = m.charging /\ m'.state = m.state
    BY <1>2 DEF CheckSummaryFails, PollFails, Suspended, Tick, MarkUnreachable, Aged,
       TypeInv, TypeOK, Machines
  <2>3. pc' = "down" <=> pc = "down"
    BY <1>2 DEF CheckSummaryFails, PollFails, Suspended, Tick, At
  <2> QED BY <1>0, <2>1, <2>2, <2>3, QuietStep DEF OpenDrives
<1>3. ASSUME NEW s \in Snapshots, PollOK(s) PROVE OwnParts'
  BY <1>0, <1>3, PollOKOwn
<1>4. CASE VehicleData
  BY <1>0, <1>4, VehicleDataOwn
<1>5. CASE IdleCheck
  BY <1>0, <1>5, IdleCheckOwn
<1>6. CASE StreamPoint
  <2>1. OpenDrives' = OpenDrives
    <3>1. \A d \in DriveIds : drives'[d].status = drives[d].status
      BY <1>6, RowTypes DEF StreamPoint, TypeInv, TypeOK
    <3> QED BY <3>1 DEF OpenDrives
  <2> QED BY <1>0, <1>6, <2>1, QuietStep DEF StreamPoint, volatile, history
<1>7. CASE Persist
  <2>1. DriveFollows' /\ ChargeFollows' /\ OfflineHeld' /\ StateFollows'
    BY <1>0, <1>7, PersistDriveFollows, PersistChargeFollows, PersistOfflineHeld,
       PersistStateFollows DEF OwnParts
  <2>2. OneOpenDrive' /\ OwnSessions'
    BY <1>0, <1>7, PersistOneOpenDrive, PersistOwnSessions DEF OwnParts
  <2> QED BY <2>1, <2>2 DEF OwnParts
<1>8. CASE Start
  BY <1>0, <1>8, StartOwn
<1>9. CASE Crash
  BY <1>0, <1>9, CrashOwn
<1>10. CASE UNCHANGED vars
  BY <1>0, <1>10, QuietStep DEF vars, volatile, stored, history, OpenDrives
<1> QED BY <1>0, <1>1, <1>2, <1>3, <1>4, <1>5, <1>6, <1>7, <1>8, <1>9, <1>10 DEF Next

LEMMA InitOwn == Init => OwnInv
<1> SUFFICES ASSUME Init PROVE OwnParts
  BY DEF OwnInv
<1>1. m.driving = FALSE /\ m.charging = FALSE /\ m.state = "unknown"
  BY DEF Init, New, Resume
<1>2. /\ Follows(<<>>, 0, FALSE, 0, "DriveStart", DriveEnds)
      /\ Follows(<<>>, 0, FALSE, 0, "ChargeStart", ChargeEnds)
  BY FollowsNothing
<1>3. DriveFollows /\ ChargeFollows
  BY <1>1, <1>2 DEF Init, DriveFollows, ChargeFollows
<1>4. OfflineHeld /\ StateFollows
  BY <1>1, HasNothing, LastOfNone DEF Init, OfflineHeld, Begun, StateFollows
<1>5. OpenDrives = {} /\ OpenSessions = {}
  BY DEF Init, OpenDrives, OpenSessions
<1>6. OneOpenDrive /\ OwnSessions
  BY <1>5 DEF Init, OneOpenDrive, OwnSessions
<1> QED BY <1>3, <1>4, <1>6 DEF OwnParts

\* Rows held are open, and as long as no call failed they are the loop's.
LEMMA OwnInvariant == Spec => [](RowsInv /\ OwnInv)
<1>1. Init => RowsInv /\ OwnInv
  BY InitOwn DEF Init, RowsInv, HeldRowsOpen
<1>2. TypeInv /\ RowsInv /\ OwnInv /\ [Next]_vars => RowsInv' /\ OwnInv'
  BY OwnStep, HeldRowsStep, DownStep DEF RowsInv
<1> QED BY <1>1, <1>2, TypeInvariant, PTL DEF Spec

\* As long as no storage call failed, and however often the process dies: the
\* open drive is the one the loop writes to, and the loop holds one exactly while
\* the machine believes the car to be driving.
THEOREM DriveRowIsOwned == Spec => [](fails = 0 => DriveRowOwned)
<1>1. TypeInv /\ RowsInv /\ OwnInv => (fails = 0 => DriveRowOwned)
  <2> SUFFICES ASSUME TypeInv, OwnParts PROVE DriveRowOwned
    BY DEF OwnInv
  <2>1. todo = <<>> => (m.driving <=> driveID # 0)
    BY FollowsNothing DEF OwnParts, DriveFollows, TypeInv, TypeOK, Machines
  <2> QED BY <2>1 DEF DriveRowOwned, OwnParts, OneOpenDrive
<1> QED BY <1>1, OwnInvariant, TypeInvariant, PTL

\* The same of the charging session.
THEOREM ChargeRowIsHeld == Spec => [](fails = 0 => ChargeRowHeld)
<1>1. TypeInv /\ RowsInv /\ OwnInv => (fails = 0 => ChargeRowHeld)
  <2> SUFFICES ASSUME TypeInv, OwnParts PROVE ChargeRowHeld
    BY DEF OwnInv
  <2>1. todo = <<>> => (m.charging <=> chargeID # 0)
    BY FollowsNothing DEF OwnParts, ChargeFollows, TypeInv, TypeOK, Machines
  <2> QED BY <2>1 DEF ChargeRowHeld
<1> QED BY <1>1, OwnInvariant, TypeInvariant, PTL

\* In a run of the process that does not die and whose storage calls succeed, an
\* open session is the one the loop writes to or the one being synthesized.
THEOREM SessionRowIsOwned == Spec => [](fails = 0 /\ crashes = 0 => SessionRowOwned)
<1>1. OwnInv => (fails = 0 /\ crashes = 0 => SessionRowOwned)
  BY DEF OwnInv, OwnParts, OwnSessions, SessionRowOwned
<1> QED BY <1>1, OwnInvariant, PTL

\* As long as no storage call failed, the tables are never found safe to sync
\* while the loop knows the car to be doing anything: the open rows and the open
\* state are the machine's between batches.
THEOREM SyncIsOnlyWhenParked == Spec => [](fails = 0 => SyncOnlyWhenParked)
<1>1. TypeInv /\ RowsInv /\ OwnInv => (fails = 0 => SyncOnlyWhenParked)
  <2> SUFFICES ASSUME TypeInv, RowsInv, OwnParts, At("top"), m.state # "unknown", SafeToSync
               PROVE  /\ m.state \in {"idle", "asleep", "offline", "suspended"}
                      /\ ~m.driving /\ ~m.charging
    BY DEF OwnInv, SyncOnlyWhenParked
  <2>1. (m.driving <=> driveID # 0) /\ (m.charging <=> chargeID # 0)
    BY FollowsNothing
       DEF OwnParts, DriveFollows, ChargeFollows, TypeInv, TypeOK, Machines, At
  <2>2. driveID = 0 /\ chargeID = 0
    BY DEF SafeToSync, RowsInv, HeldRowsOpen, OpenDrives, OpenSessions, TypeInv, TypeOK
  <2>3. m.state = stateRow
    BY HasNothing DEF OwnParts, StateFollows, At
  <2> QED BY <2>1, <2>2, <2>3 DEF SafeToSync
<1> QED BY <1>1, OwnInvariant, TypeInvariant, PTL

\* A car last heard asleep has neither flag set: OnUnreachable has given both up.
AsleepInv == m.state = "asleep" /\ heard = "asleep" => ~m.driving /\ ~m.charging

LEMMA AsleepStep == TypeInv /\ AsleepInv /\ [Next]_vars => AsleepInv'
<1> SUFFICES ASSUME TypeInv, AsleepInv, [Next]_vars, m'.state = "asleep", heard' = "asleep"
             PROVE  ~m'.driving /\ ~m'.charging
  BY DEF AsleepInv
<1>0. m \in Machines /\ snap \in Snapshots
  BY DEF TypeInv, TypeOK
<1>1. ASSUME m'.state = m.state, m'.driving = m.driving, m'.charging = m.charging,
             heard' = heard
      PROVE  ~m'.driving /\ ~m'.charging
  BY <1>1 DEF AsleepInv
<1>2. ASSUME NEW raw \in RawStates, CheckSummary(raw) PROVE ~m'.driving /\ ~m'.charging
  <2> DEFINE a == OnSummary(m, raw)
  <2>1. a \in Machines /\ raw = "asleep"
    BY <1>0, <1>2, OnSummaryType DEF CheckSummary
  <2>2. a.state = "asleep"
    BY <1>0, <1>2, <2>1, OnUnreachableType DEF CheckSummary
  <2>3. m' = OnUnreachable(a, raw)
    BY <1>2, <2>2 DEF CheckSummary, AsleepLike
  <2> HIDE DEF a
  <2> QED BY <2>1, <2>3 DEF OnUnreachable, DriveGone, ChargeGone, Machines
<1>3. CASE CheckSummaryFails \/ PollFails \/ Suspended \/ StoreFails \/ Tick
  BY <1>0, <1>1, <1>3 DEF CheckSummaryFails, PollFails, Suspended, StoreFails, Tick,
     MarkUnreachable, Aged, Machines, history
<1>4. ASSUME NEW s \in Snapshots, PollOK(s) PROVE ~m'.driving /\ ~m'.charging
  BY <1>0, <1>1, <1>4 DEF PollOK, OnBackOnline, Machines, history
<1>5. CASE VehicleData
  BY <1>0, <1>5, OnVehicleDataType, ActivityType DEF VehicleData
<1>6. CASE IdleCheck
  BY <1>0, <1>1, <1>6 DEF IdleCheck, Suspend, SuspendTarget, Transition, Machines,
     IdleTimedOut, history
<1>7. CASE StreamPoint
  BY <1>1, <1>7 DEF StreamPoint, volatile, history
<1>8. CASE Persist
  BY <1>1, <1>8, PersistFrame DEF history
<1>9. CASE Start \/ Crash
  BY <1>9 DEF Start, Crash, New, Resume
<1>10. CASE UNCHANGED vars
  BY <1>1, <1>10 DEF vars, volatile, history
<1> QED BY <1>2, <1>3, <1>4, <1>5, <1>6, <1>7, <1>8, <1>9, <1>10 DEF Next

\* As long as no storage call failed, a car that reports itself asleep has no
\* drive open: the loop has given up its drive and charge and closed the rows.
THEOREM AsleepRowsAreClosed == Spec => [](fails = 0 => AsleepClosesRows)
<1>1. TypeInv /\ OwnInv /\ AsleepInv => (fails = 0 => AsleepClosesRows)
  <2> SUFFICES ASSUME TypeInv, OwnParts, AsleepInv, At("top"), m.state = "asleep",
                      heard = "asleep"
               PROVE  ~m.driving /\ ~m.charging /\ OpenDrives = {}
    BY DEF OwnInv, AsleepClosesRows
  <2>1. ~m.driving /\ ~m.charging
    BY DEF AsleepInv
  <2>2. driveID = 0
    BY <2>1, FollowsNothing DEF OwnParts, DriveFollows, TypeInv, TypeOK, Machines, At
  <2> QED BY <2>1, <2>2 DEF OwnParts, OneOpenDrive, At
<1>2. Init => AsleepInv
  BY DEF Init, AsleepInv
<1> QED BY <1>1, <1>2, AsleepStep, OwnInvariant, TypeInvariant, PTL DEF Spec

-----------------------------------------------------------------------------
(* The drives table is a log of trips. *)

\* Whatever persist does to the drives table is a step of the log.
LEMMA PersistTrips ==
    ASSUME TypeInv, RowsInv, OwnParts, Persist
    PROVE  [Log!Next]_drives
<1> DEFINE kind == Head(todo).kind
<1>0. /\ todo \in Seq(Events) /\ todo # <<>> /\ kind \in EventKinds
      /\ done \in Nat /\ done + 1 \in 1 .. Len(Calls(kind))
      /\ m.driving \in BOOLEAN
  BY PersistTodo
<1>1. /\ drives \in [DriveIds -> [status : DriveStatuses, points : 0 .. MinPositions]]
      /\ driveID \in DriveIds \cup {0} /\ 0 \notin DriveIds
      /\ driveID # 0 => drives[driveID].status = "open"
  BY RowAssumption DEF TypeInv, TypeOK, RowsInv, HeldRowsOpen
<1>2. CASE OpenDrive
  <2>1. PICK d \in DriveIds :
          /\ IsNextDrive(d)
          /\ drives' = [drives EXCEPT ![d] = [status |-> "open", points |-> 0]]
    BY <1>2 DEF OpenDrive
  <2>2. kind = "DriveStart" /\ done = 0
    BY <1>0, <1>2, CallPlaces DEF OpenDrive, Calling
  <2>3. driveID = 0
    <3>1. "DriveStart" \notin DriveEnds /\ 1 # 0
      BY DEF DriveEnds
    <3> QED BY <1>0, <2>2, <3>1, FollowsOpen DEF OwnParts, DriveFollows
  <2>4. OpenDrives = {}
    BY <1>0, <2>3 DEF OwnParts, OneOpenDrive, RowsInv
  <2>5. Log!Begin(d)
    BY <2>1, <2>4 DEF Log!Begin, Log!IsNext, IsNextDrive, OpenDrives
  <2> QED BY <2>5 DEF Log!Next
<1>3. CASE AppendPosition
  <2>1. drives' = [drives EXCEPT ![driveID] = WithPosition(@)]
    BY <1>3 DEF AppendPosition
  <2>2. CASE driveID = 0
    BY <1>1, <2>1, <2>2
  <2>3. CASE driveID # 0
    <3>1. driveID \in DriveIds /\ Log!Record(driveID)
      BY <1>1, <2>1, <2>3 DEF Log!Record, Log!WithPosition, WithPosition
    <3> QED BY <3>1 DEF Log!Next
  <2> QED BY <2>2, <2>3
<1>4. CASE CloseDrive
  <2>1. PICK far \in BOOLEAN :
          drives' = [drives EXCEPT ![driveID] = ClosedDrive(@, far)]
    BY <1>4 DEF CloseDrive
  <2>2. driveID # 0
    <3>1. kind \in DriveEnds
      BY <1>0, <1>4, CallPlaces DEF CloseDrive, Calling
    <3> QED BY <1>0, <3>1, FollowsClose DEF OwnParts, DriveFollows
  <2>3. driveID \in DriveIds /\ drives[driveID].status = "open"
    BY <1>1, <2>2
  <2>4. CASE drives[driveID].points >= MinPositions /\ far
    <3>1. drives' = [drives EXCEPT ![driveID].status = "closed"]
      BY <2>1, <2>4 DEF ClosedDrive
    <3>2. Log!Keep(driveID)
      BY <2>3, <2>4, <3>1 DEF Log!Keep
    <3> QED BY <2>3, <3>2 DEF Log!Next
  <2>5. CASE ~(drives[driveID].points >= MinPositions /\ far)
    <3>1. drives' = [drives EXCEPT ![driveID] = [status |-> "discarded", points |-> 0]]
      BY <2>1, <2>5 DEF ClosedDrive
    <3>2. Log!Discard(driveID)
      BY <2>3, <3>1 DEF Log!Discard
    <3> QED BY <2>3, <3>2 DEF Log!Next
  <2> QED BY <2>4, <2>5
<1>5. CASE ~OpenDrive /\ ~CloseDrive /\ ~AppendPosition
  BY <1>5 DEF Persist, SkipEvent, OpenState, OpenSession, CloseSession, OpenOffline,
     CloseOffline, BeginUpdate, FinishUpdate, WriteSample, stored
<1> QED BY <1>2, <1>3, <1>4, <1>5

LEMMA TripsStep ==
    TypeInv /\ RowsInv /\ OwnInv /\ fails = 0 /\ [Next]_vars => [Log!Next]_drives
<1> SUFFICES ASSUME TypeInv, RowsInv, OwnParts, [Next]_vars PROVE [Log!Next]_drives
  BY DEF OwnInv
<1>1. CASE Persist
  BY <1>1, PersistTrips
<1>2. CASE StreamPoint
  <2>1. drives' = [drives EXCEPT ![driveID] = WithPosition(@)] /\ driveID # 0
    BY <1>2 DEF StreamPoint
  <2>2. driveID \in DriveIds /\ drives[driveID].status = "open"
    BY <2>1 DEF TypeInv, TypeOK, RowsInv, HeldRowsOpen
  <2>3. Log!Record(driveID)
    BY <2>1, <2>2 DEF Log!Record, Log!WithPosition, WithPosition
  <2> QED BY <2>2, <2>3 DEF Log!Next
<1>3. CASE ~Persist /\ ~StreamPoint
  BY <1>3 DEF Next, vars, CheckSummary, CheckSummaryFails, PollFails, PollOK,
     VehicleData, IdleCheck, Suspended, StoreFails, Start, Crash, Tick, stored
<1> QED BY <1>1, <1>2, <1>3

\* The logger implements the log of trips: as long as no storage call fails,
\* each of its steps, also the death and the restart of the process, is a step
\* of the log or leaves the drives as they are.
THEOREM LogsTrips == Spec /\ [](fails = 0) => TripsInOrder
<1>1. Init => Log!Init
  BY DEF Init, Log!Init, Log!NoTrip
<1> QED BY <1>1, TripsStep, OwnInvariant, TypeInvariant, PTL
        DEF Spec, TripsInOrder, Log!Spec
=============================================================================
