------------------------------- MODULE Viewer -------------------------------
(***************************************************************************)
(* The browser viewer's connection and loading (App.tsx): which database   *)
(* is shown, where queries run, and the asynchronous calls that may still  *)
(* change either: one cancellable load at a time, the portal's polls, the  *)
(* data server's freshness probe, and the reloads that follow an edit.     *)
(*                                                                         *)
(* An answer is read at its server in one step and applied in a later one. *)
(* A React state update and the clean-up of the effects that depend on it  *)
(* are one step.  The portal's /download is that of SnapshotCache.         *)
(***************************************************************************)
EXTENDS SnapshotCache, FiniteSets

CONSTANTS
    Polls,          \* fetches of the poll timer that may overlap
    Connector,      \* the client that connectTo is at the portal
    Reloads,        \* reloads after edits that may overlap
    MaxLoads,       \* bound: times the user opens something
    MaxStale        \* bound: superseded loads still unwinding when another begins

ASSUME ViewerAssumption ==
    /\ Polls \subseteq Nat
    /\ Clients = Polls \cup {Connector} /\ Connector \notin Polls
    /\ MaxLoads \in Nat \ {0} /\ MaxStale \in Nat

VARIABLES
    server,     \* the data server's database: telemetry rows and edits
    data,       \* what the screens show
    backend,    \* whether queries run at the data server (getRemoteBackend)
    live,       \* whose badge is shown
    liveMeta,   \* the portal's counters the shown snapshot is taken for; hit is
                \* history: the snapshot did not wait for another's build
    loads,      \* the loads begun so far and where each is
    current,    \* the load that may change the state (loadController), 0 if none
    loading,    \* the load whose checklist covers the page, 0 if none
    poll,       \* the polls in flight
    tick,       \* the data server's freshness probe
    armed,      \* the 150 ms timer that collects edits is running
    reload,     \* the reloads after edits in flight
    opened      \* history: the source of the last load that ran to its end

viewVars == <<server, data, backend, live, liveMeta, loads, current, loading,
              poll, tick, armed, reload, opened>>
vars == <<cacheVars, viewVars, changes, faults>>

Kinds == {"cloud", "portal", "file", "demo"}
LoadIds == 1 .. MaxLoads
ServerContents == [rows: 0 .. MaxChanges, edits: 0 .. MaxChanges]
NoRows == [rows |-> 0, edits |-> 0]

NoMeta == [known |-> FALSE, at |-> Empty, hit |-> FALSE]
\* As if the counters were read once the snapshot has come.
MetaMutLate(contents, hit) == [known |-> TRUE, at |-> portal, hit |-> hit]

Meta(contents, hit) == [known |-> TRUE, at |-> contents, hit |-> hit]

NotBegun == [kind |-> "demo", stage |-> "idle", meta |-> Empty, rows |-> NoRows]
Finished == [NotBegun EXCEPT !.stage = "done"]
Begun(kind, stage) == [NotBegun EXCEPT !.kind = kind, !.stage = stage]
NoPoll == [stage |-> "idle", meta |-> Empty, active |-> FALSE]
NoTick == [stopped |-> TRUE, seen |-> FALSE, marker |-> 0, stage |-> "idle",
           next |-> 0, rows |-> NoRows]
NoReload == [stage |-> "idle", rows |-> NoRows]

\* The page opens with a connection to the remembered data server, or to
\* the default one: an address is always filled in.
Init ==
    /\ CacheInit
    /\ server = NoRows
    /\ data = [source |-> "none", got |-> NoRows]
    /\ backend = TRUE
    /\ live = "none"
    /\ liveMeta = NoMeta
    /\ loads = [i \in LoadIds |-> IF i = 1 THEN Begun("cloud", "pulling") ELSE NotBegun]
    /\ current = 1
    /\ loading = 1
    /\ poll = [p \in Polls |-> NoPoll]
    /\ tick = NoTick
    /\ armed = FALSE
    /\ reload = [r \in Reloads |-> NoReload]
    /\ opened = "none"

busy == current # 0
\* As if every result were taken, the superseded too.
isCurrentMutAny(i) == TRUE

isCurrent(i) == current = i

-----------------------------------------------------------------------------
(* State updates shared by the handlers. *)

\* Every poll of the effect that ends is told so; it looks at that once.
Inactive == [p \in Polls |-> IF poll[p].stage = "answered"
                             THEN [NoPoll EXCEPT !.stage = "answered"]
                             ELSE poll[p]]

\* As if the polls of a connection went on after the next choice.
StoppingMutNever(source) == FALSE

\* The probe and the edit listener belong to the data server's data.
Stopping(source) == source # "cloud"

Show(source, got) ==
    /\ data' = [source |-> source, got |-> got]
    /\ tick' = IF Stopping(source) THEN [tick EXCEPT !.stopped = TRUE]
               ELSE IF data.source = source THEN tick
               ELSE [NoTick EXCEPT !.stopped = FALSE]
    /\ armed' = (armed /\ ~Stopping(source))

Become(i, stage) == loads' = [loads EXCEPT ![i].stage = stage]
Finish(i) == loads' = [loads EXCEPT ![i] = Finished]

EndLoading == current' = 0 /\ loading' = 0

-----------------------------------------------------------------------------
(* Opening something: loadDemo, connectTo, connectCloud, change. *)

FirstStage(kind) == IF kind = "cloud" THEN "pulling" ELSE "asking"

\* As if opening a file left the server connected.
NewBackendMutKept(kind) == kind = "cloud" \/ (backend /\ kind = "file")

NewBackend(kind) == kind = "cloud"

\* All but the file button are on the landing page only; every button is
\* disabled while something is opening.
BeginLoading(i, kind) ==
    /\ ~busy
    /\ loads[i].stage = "idle" /\ \A j \in 1 .. i - 1 : loads[j].stage # "idle"
    /\ Cardinality({j \in LoadIds : loads[j].stage \notin {"idle", "done"}}) <= MaxStale
    /\ kind # "file" => data.source = "none"
    /\ loads' = [loads EXCEPT ![i] = Begun(kind, FirstStage(kind))]
    /\ current' = i /\ loading' = i
    /\ backend' = NewBackend(kind)
    /\ UNCHANGED <<cacheVars, server, data, live, liveMeta, poll, tick, armed,
                   reload, opened, changes, faults>>

\* The portal's status and counters; the badge is shown at once.
Reached(i) ==
    /\ isCurrent(i) /\ loads[i].kind = "portal" /\ loads[i].stage = "asking"
    /\ loads' = [loads EXCEPT ![i].stage = "pulling", ![i].meta = portal]
    /\ live' = "portal"
    /\ poll' = Inactive
    /\ UNCHANGED <<cacheVars, server, data, backend, liveMeta, current, loading,
                   tick, armed, reload, opened, changes, faults>>

FetchSnapshot(i) ==
    /\ isCurrent(i) /\ loads[i].kind = "portal" /\ loads[i].stage = "pulling"
    /\ Ask(Connector)
    /\ UNCHANGED <<viewVars, changes, faults>>

\* openDatabaseRemote's queries, taken at one moment.
ReadServer(i) ==
    /\ loads[i].kind = "cloud" /\ loads[i].stage = "pulling" /\ isCurrent(i)
    /\ loads' = [loads EXCEPT ![i].stage = "ready", ![i].rows = server]
    /\ UNCHANGED <<cacheVars, server, data, backend, live, liveMeta, current,
                   loading, poll, tick, armed, reload, opened, changes, faults>>

\* A file's first bytes tell a TeslaMate dump, whose conversion has a card
\* of its own: the checklist goes, also that of a later load.
ReadFile(i, isPostgresDump) ==
    /\ loads[i].kind = "file" /\ loads[i].stage = "asking"
    /\ Become(i, IF isPostgresDump THEN "converting" ELSE "ready")
    /\ loading' = IF isPostgresDump THEN 0 ELSE loading
    /\ UNCHANGED <<cacheVars, server, data, backend, live, liveMeta, current,
                   poll, tick, armed, reload, opened, changes, faults>>

Converted(i) ==
    /\ loads[i].stage = "converting"
    /\ IF isCurrent(i) THEN Become(i, "ready") ELSE Finish(i)
    /\ loading' = IF isCurrent(i) THEN i ELSE loading
    /\ UNCHANGED <<cacheVars, server, data, backend, live, liveMeta, current,
                   poll, tick, armed, reload, opened, changes, faults>>

ReadDemo(i) ==
    /\ isCurrent(i) /\ loads[i].kind = "demo" /\ loads[i].stage = "asking"
    /\ Become(i, "ready")
    /\ UNCHANGED <<cacheVars, server, data, backend, live, liveMeta, current,
                   loading, poll, tick, armed, reload, opened, changes, faults>>

\* setData at the end of a load; a portal's snapshot comes with its counters.
Install(i) ==
    /\ isCurrent(i)
    /\ LET kind == loads[i].kind IN
       /\ IF kind = "portal"
          THEN loads[i].stage = "pulling" /\ Delivered(Connector)
          ELSE loads[i].stage = "ready"
       /\ Show(kind, CASE kind = "portal" -> request[Connector].got
                       [] kind = "cloud" -> loads[i].rows
                       [] OTHER -> NoRows)
       /\ live' = IF kind = "cloud" THEN "cloud" ELSE live
       /\ liveMeta' = IF kind = "portal" THEN Meta(loads[i].meta, request[Connector].hit) ELSE liveMeta
       /\ poll' = IF kind \in {"portal", "cloud"} THEN Inactive ELSE poll
       /\ opened' = IF current = i THEN kind ELSE opened
    /\ Finish(i)
    /\ IF current = i THEN EndLoading ELSE UNCHANGED <<current, loading>>
    /\ Leave(Connector)
    /\ UNCHANGED <<portal, ready, build, server, backend, reload, changes, faults>>

\* A load that is current fails and shows its error.
LoadFails(i) ==
    /\ current = i
    /\ IF loads[i].kind = "portal" /\ Refused(Connector) THEN UNCHANGED faults ELSE Fault
    /\ Finish(i)
    /\ backend' = (backend /\ loads[i].kind # "cloud")
    /\ live' = IF loads[i].kind = "portal" THEN "none" ELSE live
    /\ poll' = IF loads[i].kind = "portal" THEN Inactive ELSE poll
    /\ EndLoading
    /\ Leave(Connector)
    /\ UNCHANGED <<portal, ready, build, server, data, liveMeta, tick, armed,
                   reload, opened, changes>>

\* One that is not finds that out at its next step.
Abandon(i) ==
    /\ ~isCurrent(i) /\ loads[i].stage \in {"asking", "pulling", "ready"}
    /\ ~(loads[i].kind = "file" /\ loads[i].stage = "asking")
    /\ Finish(i)
    /\ UNCHANGED <<cacheVars, server, data, backend, live, liveMeta, current,
                   loading, poll, tick, armed, reload, opened, changes, faults>>

\* The checklist's Cancel button.
CancelLoading ==
    /\ loading # 0 /\ busy
    /\ EndLoading
    /\ backend' = (backend /\ data.source # "none")
    /\ Leave(Connector)
    /\ UNCHANGED <<portal, ready, build, server, data, live, liveMeta, loads,
                   poll, tick, armed, reload, opened, changes, faults>>

\* The badge's button, out of reach under the checklist.
Disconnect ==
    /\ loading = 0 /\ live # "none"
    /\ backend' = FALSE
    /\ live' = "none" /\ liveMeta' = NoMeta
    /\ poll' = Inactive
    /\ UNCHANGED <<cacheVars, server, data, loads, current, loading, tick, armed,
                   reload, opened, changes, faults>>

Opening(i) ==
    \/ \E kind \in Kinds : BeginLoading(i, kind)
    \/ LoadFails(i)

Load(i) ==
    \/ Reached(i) \/ FetchSnapshot(i) \/ ReadServer(i)
    \/ \E isPostgresDump \in BOOLEAN : ReadFile(i, isPostgresDump)
    \/ Converted(i) \/ ReadDemo(i) \/ Install(i) \/ Abandon(i)

-----------------------------------------------------------------------------
(* The portal's poll: /api/meta every minute, /download when it moved. *)

hasNewData(previous, next) == previous # next

\* The timer fires and the counters are read; what was known before is still
\* liveMeta for as long as the poll is active.
FetchMeta(p) ==
    /\ live # "none" /\ liveMeta.known
    /\ poll[p].stage = "idle" /\ \A q \in Polls : q < p => poll[q].stage # "idle"
    /\ poll' = [poll EXCEPT ![p] = [stage |-> "answered", meta |-> portal, active |-> TRUE]]
    /\ UNCHANGED <<cacheVars, server, data, backend, live, liveMeta, loads, current,
                   loading, tick, armed, reload, opened, changes, faults>>

\* The only look at active: a pull that has begun is not called off.
PollAnswered(p) ==
    /\ poll[p].stage = "answered"
    /\ poll' = IF poll[p].active /\ hasNewData(liveMeta.at, poll[p].meta)
               THEN [poll EXCEPT ![p].stage = "pulling", ![p].active = FALSE]
               ELSE [poll EXCEPT ![p] = NoPoll]
    /\ UNCHANGED <<cacheVars, server, data, backend, live, liveMeta, loads, current,
                   loading, tick, armed, reload, opened, changes, faults>>

PollFetchesSnapshot(p) ==
    /\ poll[p].stage = "pulling"
    /\ Ask(p)
    /\ UNCHANGED <<viewVars, changes, faults>>

\* The snapshot comes with the counters that were read before it was asked
\* for, so an older pull that ends last takes both back.
PollInstalls(p) ==
    /\ poll[p].stage = "pulling" /\ Delivered(p)
    /\ Show("portal", request[p].got)
    /\ liveMeta' = Meta(poll[p].meta, request[p].hit)
    /\ poll' = [Inactive EXCEPT ![p] = NoPoll]
    /\ Leave(p)
    /\ UNCHANGED <<portal, ready, build, server, backend, live, loads, current,
                   loading, reload, opened, changes, faults>>

PollFails(p) ==
    /\ poll[p].stage # "idle"
    /\ IF Refused(p) THEN UNCHANGED faults ELSE Fault
    /\ poll' = [poll EXCEPT ![p] = NoPoll]
    /\ Leave(p)
    /\ UNCHANGED <<portal, ready, build, server, data, backend, live, liveMeta,
                   loads, current, loading, tick, armed, reload, opened, changes>>

Polling(p) ==
    FetchMeta(p) \/ PollAnswered(p) \/ PollFetchesSnapshot(p) \/ PollInstalls(p)

-----------------------------------------------------------------------------
(* The data server's freshness probe: one at a time, and after it a load.   *)

Ticked(next) ==
    /\ tick' = next
    /\ UNCHANGED <<cacheVars, server, data, backend, live, liveMeta, loads, current,
                   loading, poll, armed, reload, opened, changes, faults>>

Probe ==
    /\ tick.stage = "idle" /\ ~tick.stopped
    /\ Ticked([tick EXCEPT !.stage = "probed", !.next = server.rows])

\* The first marker is only kept; a later one that differs is kept before
\* the load it asks for.
Probed ==
    /\ tick.stage = "probed"
    /\ Ticked([tick EXCEPT !.seen = TRUE, !.marker = tick.next, !.next = 0,
                   !.stage = IF tick.seen /\ tick.marker # tick.next
                             THEN "loading" ELSE "idle"])

TickReads ==
    /\ tick.stage = "loading"
    /\ Ticked([tick EXCEPT !.stage = "loaded", !.rows = server])

TickInstalls ==
    /\ tick.stage = "loaded"
    /\ data' = IF tick.stopped THEN data ELSE [source |-> "cloud", got |-> tick.rows]
    /\ tick' = [tick EXCEPT !.stage = "idle", !.rows = NoRows]
    /\ UNCHANGED <<cacheVars, server, backend, live, liveMeta, loads, current,
                   loading, poll, armed, reload, opened, changes, faults>>

TickFails ==
    /\ tick.stage # "idle" /\ Fault
    /\ tick' = [tick EXCEPT !.stage = "idle", !.next = 0, !.rows = NoRows]
    /\ UNCHANGED <<cacheVars, server, data, backend, live, liveMeta, loads, current,
                   loading, poll, armed, reload, opened, changes>>

Tick == Probe \/ Probed \/ TickReads \/ TickInstalls

-----------------------------------------------------------------------------
(* Edits through the server, and the reload that collects them. *)

\* Replication brings rows to the server; what it brings while nothing that was
\* read there is shown or about to be is left out.
ServerRows ==
    /\ ~tick.stopped \/ (busy /\ loads[current].kind = "cloud" /\ loads[current].stage = "ready")
    /\ MayChange
    /\ server' = [server EXCEPT !.rows = @ + 1]
    /\ changes' = changes + 1
    /\ UNCHANGED <<cacheVars, data, backend, live, liveMeta, loads, current, loading,
                   poll, tick, armed, reload, opened, faults>>

\* runRemoteStatement, and the listener's timer, which a later edit restarts.
Edit ==
    /\ backend /\ data.source = "cloud" /\ loading = 0
    /\ MayChange
    /\ server' = [server EXCEPT !.edits = @ + 1]
    /\ changes' = changes + 1
    /\ armed' = TRUE
    /\ UNCHANGED <<cacheVars, data, backend, live, liveMeta, loads, current, loading,
                   poll, tick, reload, opened, faults>>

StartReload(r) ==
    /\ armed /\ reload[r].stage = "idle"
    /\ armed' = FALSE
    /\ reload' = IF backend THEN [reload EXCEPT ![r].stage = "loading"] ELSE reload
    /\ UNCHANGED <<cacheVars, server, data, backend, live, liveMeta, loads, current,
                   loading, poll, tick, opened, changes, faults>>

ReloadReads(r) ==
    /\ reload[r].stage = "loading"
    /\ reload' = [reload EXCEPT ![r] = [stage |-> "loaded", rows |-> server]]
    /\ UNCHANGED <<cacheVars, server, data, backend, live, liveMeta, loads, current,
                   loading, poll, tick, armed, opened, changes, faults>>

ReloadInstalls(r) ==
    /\ reload[r].stage = "loaded"
    /\ data' = IF tick.stopped THEN data ELSE [source |-> "cloud", got |-> reload[r].rows]
    /\ reload' = [reload EXCEPT ![r] = NoReload]
    /\ UNCHANGED <<cacheVars, server, backend, live, liveMeta, loads, current,
                   loading, poll, tick, armed, opened, changes, faults>>

ReloadFails(r) ==
    /\ reload[r].stage # "idle" /\ Fault
    /\ reload' = [reload EXCEPT ![r] = NoReload]
    /\ UNCHANGED <<cacheVars, server, data, backend, live, liveMeta, loads, current,
                   loading, poll, tick, armed, opened, changes>>

Reload(r) == StartReload(r) \/ ReloadReads(r) \/ ReloadInstalls(r)

-----------------------------------------------------------------------------
(* The portal's side.  What it does while nothing of the viewer can ask it   *)
(* is left out: it can do all of that after the first thing that can.       *)

PortalWatched ==
    \/ live # "none" /\ liveMeta.known
    \/ busy /\ loads[current].kind = "portal" /\ loads[current].stage = "pulling"
    \/ \E p \in Polls : poll[p].stage # "idle"

Portal ==
    /\ PortalWatched
    /\ CloseTrip \/ AddPosition
    /\ UNCHANGED <<ready, build, request, viewVars, faults>>

Builds == PortalWatched /\ (Refresh \/ Build) /\ UNCHANGED <<viewVars, changes, faults>>
BuildFails == PortalWatched /\ FailBuild /\ UNCHANGED <<viewVars, changes>>
Wakes(c) == Wake(c) /\ UNCHANGED <<viewVars, changes, faults>>

-----------------------------------------------------------------------------
Next ==
    \/ \E i \in LoadIds : Opening(i) \/ Load(i)
    \/ CancelLoading \/ Disconnect
    \/ \E p \in Polls : Polling(p) \/ PollFails(p)
    \/ Tick \/ TickFails
    \/ ServerRows \/ Edit
    \/ \E r \in Reloads : Reload(r) \/ ReloadFails(r)
    \/ Portal \/ Builds \/ BuildFails
    \/ \E c \in Clients : Wakes(c)

Spec == Init /\ [][Next]_vars

\* Timers fire and answers come or are refused; nothing is assumed of the
\* user, of the databases, or of what fails.
FairSpec ==
    /\ Spec
    /\ WF_vars(Tick \/ \E r \in Reloads : Reload(r))
    /\ WF_vars(\E i \in LoadIds : Load(i))
    /\ WF_vars(Builds)
    /\ \A c \in Clients : WF_vars(Wakes(c))
    /\ \A p \in Polls : WF_vars(Polling(p) \/ (PollFails(p) /\ Refused(p)))

-----------------------------------------------------------------------------
(* Every variable has its type. *)
TypeOK ==
    /\ CacheTypeOK
    /\ server \in ServerContents
    /\ data \in [source: Kinds \cup {"none"}, got: Contents \cup ServerContents]
    /\ backend \in BOOLEAN
    /\ live \in {"none", "portal", "cloud"}
    /\ liveMeta \in [known: BOOLEAN, at: Contents, hit: BOOLEAN]
    /\ loads \in [LoadIds -> [kind: Kinds,
                    stage: {"idle", "asking", "pulling", "converting", "ready", "done"},
                    meta: Contents, rows: ServerContents]]
    /\ current \in 0 .. MaxLoads
    /\ loading \in 0 .. MaxLoads
    /\ poll \in [Polls -> [stage: {"idle", "answered", "pulling"}, meta: Contents,
                           active: BOOLEAN]]
    /\ tick \in [stopped: BOOLEAN, seen: BOOLEAN, marker: 0 .. MaxChanges,
                 stage: {"idle", "probed", "loading", "loaded"},
                 next: 0 .. MaxChanges, rows: ServerContents]
    /\ armed \in BOOLEAN
    /\ reload \in [Reloads -> [stage: {"idle", "loading", "loaded"},
                               rows: ServerContents]]
    /\ opened \in Kinds \cup {"none"}

(* What is shown from a local copy is queried in the local copy: no answer, *)
(* cancellation or failure of an older load leaves queries going to the     *)
(* data server under a file's page (App.tsx: "runs queries against sql.js,  *)
(* not the cloud").                                                         *)
LocalReadsLocal == data.source \in {"portal", "file", "demo"} => ~backend

(* What was opened last stays: no cancelled load, late probe or late reload *)
(* of another source replaces it (App.tsx, beginLoading: "one that was      *)
(* cancelled or superseded and finishes later is ignored").  One thing may: *)
(* a portal still polled when a file is opened takes the page back.         *)
LastChoiceShown ==
    data.source # opened => data.source = "portal" /\ opened = "file"

(* A checklist that covers the page is that of the load that may change the *)
(* state, so its Cancel button works and the page is never covered for good.*)
ChecklistIsCurrent == loading # 0 => loading = current

(* However polls, failures, builds and pulls overlap, and whichever of two   *)
(* pulls ends last, what is shown of a polled portal catches up with it: the *)
(* counters are the portal's and the snapshot has every trip that is closed. *)
(* Not so a snapshot that came of waiting for another's build: it may have   *)
(* been begun before the counters moved, and is taken for them (App.tsx,     *)
(* pullSnapshot; portal.go, get).                                            *)
CaughtUp ==
    live # "none" /\ liveMeta.known =>
        /\ liveMeta.at = portal
        /\ data.source = "portal" /\ liveMeta.hit => data.got.trips = portal.trips
PollCatchesUp == []<>CaughtUp

(* The snapshot shown holds the positions its counters announce             *)
(* (liveConnection.ts, hasNewData: latestPositionId "makes an in-progress   *)
(* drive visible without waiting for it to end").                           *)
InProgressVisible ==
    data.source = "portal" /\ liveMeta.known => data.got.points >= liveMeta.at.points
=============================================================================
