----------------------------- MODULE Viewer_proofs -----------------------------
(***************************************************************************)
(* Proofs about Viewer and the SnapshotCache under it: the types, that the *)
(* cache serves fresh snapshots, that what is shown is what was opened     *)
(* last, and that local data is queried locally, for any polls, reloads    *)
(* and loads and any numbers of changes and faults.                        *)
(***************************************************************************)
EXTENDS Viewer, TLAPS

-----------------------------------------------------------------------------
(* The snapshot cache.                                                     *)

\* What the viewer does with the cache.
CacheNext ==
    \/ \E c \in Clients : Ask(c) \/ (Leave(c) /\ UNCHANGED <<portal, ready, build>>)
    \/ Refresh \/ Build \/ FailBuild \/ \E c \in Clients : Wake(c)
    \/ (CloseTrip \/ AddPosition) /\ UNCHANGED <<ready, build, request>>

\* Every step of the viewer is a step of the cache's clients or builds, or leaves
\* the cache alone.
LEMMA CacheSteps ==
    ASSUME [Next]_vars
    PROVE  CacheNext \/ UNCHANGED cacheVars
<1>1. Connector \in Clients /\ \A p \in Polls : p \in Clients
  BY ViewerAssumption
<1>2. ASSUME NEW i \in LoadIds, Opening(i) \/ Load(i) PROVE CacheNext \/ UNCHANGED cacheVars
  <2>1. CASE FetchSnapshot(i)
    BY <1>1, <2>1 DEF FetchSnapshot, CacheNext
  <2>2. CASE Install(i)
    BY <1>1, <2>2 DEF Install, CacheNext
  <2>3. CASE LoadFails(i)
    BY <1>1, <2>3 DEF LoadFails, CacheNext
  <2>4. CASE \E kind \in Kinds : BeginLoading(i, kind)
    BY <2>4 DEF BeginLoading
  <2>5. CASE \E b \in BOOLEAN : ReadFile(i, b)
    BY <2>5 DEF ReadFile
  <2>6. CASE Reached(i) \/ ReadServer(i) \/ Converted(i) \/ ReadDemo(i) \/ Abandon(i)
    BY <2>6 DEF Reached, ReadServer, Converted, ReadDemo, Abandon
  <2> QED BY <1>2, <2>1, <2>2, <2>3, <2>4, <2>5, <2>6 DEF Opening, Load
<1>3. CASE CancelLoading
  BY <1>1, <1>3 DEF CancelLoading, CacheNext
<1>4. ASSUME NEW p \in Polls, Polling(p) \/ PollFails(p) PROVE CacheNext \/ UNCHANGED cacheVars
  <2>1. CASE PollFetchesSnapshot(p)
    BY <1>1, <2>1 DEF PollFetchesSnapshot, CacheNext
  <2>2. CASE PollInstalls(p)
    BY <1>1, <2>2 DEF PollInstalls, CacheNext
  <2>3. CASE PollFails(p)
    BY <1>1, <2>3 DEF PollFails, CacheNext
  <2>4. CASE FetchMeta(p) \/ PollAnswered(p)
    BY <2>4 DEF FetchMeta, PollAnswered
  <2> QED BY <1>4, <2>1, <2>2, <2>3, <2>4 DEF Polling
<1>5. CASE Tick \/ TickFails \/ ServerRows \/ Edit \/ Disconnect
  BY <1>5 DEF Tick, Probe, Probed, TickReads, TickInstalls, TickFails, Ticked, ServerRows, Edit,
              Disconnect
<1>6. ASSUME NEW r \in Reloads, Reload(r) \/ ReloadFails(r) PROVE UNCHANGED cacheVars
  BY <1>6 DEF Reload, StartReload, ReloadReads, ReloadInstalls, ReloadFails
<1>7. CASE Portal \/ Builds \/ BuildFails
  BY <1>7 DEF Portal, Builds, BuildFails, CacheNext
<1>8. CASE UNCHANGED vars
  BY <1>8 DEF vars
<1>9. CASE \E c \in Clients : Wakes(c)
  BY <1>9 DEF Wakes, CacheNext
<1> QED BY <1>2, <1>3, <1>4, <1>5, <1>6, <1>7, <1>8, <1>9 DEF Next

\* A bound of the model is never passed: every count is a count of changes.
Counted ==
    /\ portal \in Contents /\ server \in ServerContents
    /\ changes \in 0 .. MaxChanges /\ faults \in 0 .. MaxFaults
    /\ portal.trips <= changes /\ portal.points <= changes
    /\ server.rows <= changes /\ server.edits <= changes

\* Faults are counted within their bound.
LEMMA FaultsCounted ==
    ASSUME faults \in 0 .. MaxFaults, Fault
    PROVE  faults' \in 0 .. MaxFaults
BY CacheAssumption DEF Fault

\* Every step keeps the counts.
LEMMA CountedStep ==
    ASSUME Counted, [Next]_vars
    PROVE  Counted'
<1> USE CacheAssumption
<1>1. /\ portal \in Contents /\ server \in ServerContents
      /\ changes \in 0 .. MaxChanges /\ faults \in 0 .. MaxFaults
      /\ portal.trips \in Nat /\ portal.points \in Nat
      /\ server.rows \in Nat /\ server.edits \in Nat
  BY DEF Counted, Contents, ServerContents
<1>2. CASE Portal
  <2>1. CASE CloseTrip
    <3>1. /\ portal'.trips = portal.trips + 1 /\ portal'.points = portal.points
          /\ changes' = changes + 1 /\ changes < MaxChanges
      BY <1>1, <2>1 DEF CloseTrip, MayChange, Contents
    <3>2. portal' \in [trips: 0 .. MaxChanges, points: 0 .. MaxChanges]
      BY <1>1, <2>1, <3>1 DEF CloseTrip, Contents, Counted
    <3> QED BY <1>1, <1>2, <3>1, <3>2 DEF Portal, viewVars, Counted, Contents
  <2>2. CASE AddPosition
    <3>1. /\ portal'.points = portal.points + 1 /\ portal'.trips = portal.trips
          /\ changes' = changes + 1 /\ changes < MaxChanges
      BY <1>1, <2>2 DEF AddPosition, MayChange, Contents
    <3>2. portal' \in [trips: 0 .. MaxChanges, points: 0 .. MaxChanges]
      BY <1>1, <2>2, <3>1 DEF AddPosition, Contents, Counted
    <3> QED BY <1>1, <1>2, <3>1, <3>2 DEF Portal, viewVars, Counted, Contents
  <2> QED BY <1>2, <2>1, <2>2 DEF Portal
<1>3. CASE ServerRows
  <2>1. /\ server'.rows = server.rows + 1 /\ server'.edits = server.edits
        /\ changes' = changes + 1 /\ changes < MaxChanges
    BY <1>1, <1>3 DEF ServerRows, MayChange, ServerContents
  <2>2. server' \in ServerContents
    BY <1>1, <1>3, <2>1 DEF ServerRows, ServerContents, Counted
  <2> QED BY <1>1, <1>3, <2>1, <2>2 DEF ServerRows, cacheVars, Counted
<1>4. CASE Edit
  <2>1. /\ server'.edits = server.edits + 1 /\ server'.rows = server.rows
        /\ changes' = changes + 1 /\ changes < MaxChanges
    BY <1>1, <1>4 DEF Edit, MayChange, ServerContents
  <2>2. server' \in ServerContents
    BY <1>1, <1>4, <2>1 DEF Edit, ServerContents, Counted
  <2> QED BY <1>1, <1>4, <2>1, <2>2 DEF Edit, cacheVars, Counted
<1>5. CASE portal' = portal /\ server' = server /\ changes' = changes /\ (faults' = faults \/ Fault)
  <2>1. faults' \in 0 .. MaxFaults
    BY <1>1, <1>5, FaultsCounted
  <2> QED BY <1>5, <2>1 DEF Counted
<1>6. ASSUME NEW i \in LoadIds, Opening(i) \/ Load(i) PROVE Counted'
  <2>1. CASE FetchSnapshot(i)
    BY <1>5, <2>1 DEF FetchSnapshot, viewVars, Ask
  <2>2. CASE Install(i)
    BY <1>5, <2>2 DEF Install
  <2>3. CASE LoadFails(i)
    BY <1>5, <2>3 DEF LoadFails
  <2>4. CASE \E kind \in Kinds : BeginLoading(i, kind)
    BY <1>5, <2>4 DEF BeginLoading, cacheVars
  <2>5. CASE \E b \in BOOLEAN : ReadFile(i, b)
    BY <1>5, <2>5 DEF ReadFile, cacheVars
  <2>6. CASE Reached(i) \/ ReadServer(i) \/ Converted(i) \/ ReadDemo(i) \/ Abandon(i)
    BY <1>5, <2>6 DEF Reached, ReadServer, Converted, ReadDemo, Abandon, cacheVars
  <2> QED BY <1>6, <2>1, <2>2, <2>3, <2>4, <2>5, <2>6 DEF Opening, Load
<1>7. CASE CancelLoading \/ Disconnect
  BY <1>5, <1>7 DEF CancelLoading, Disconnect, cacheVars
<1>8. ASSUME NEW p \in Polls, Polling(p) \/ PollFails(p) PROVE Counted'
  <2>1. CASE Polling(p)
    BY <1>5, <2>1 DEF Polling, FetchMeta, PollAnswered, PollFetchesSnapshot, PollInstalls,
                      cacheVars, viewVars, Ask
  <2>2. CASE PollFails(p)
    BY <1>5, <2>2 DEF PollFails
  <2> QED BY <1>8, <2>1, <2>2
<1>9. CASE Tick \/ TickFails
  BY <1>5, <1>9 DEF Tick, Probe, Probed, TickReads, TickInstalls, TickFails, Ticked, cacheVars
<1>10. ASSUME NEW r \in Reloads, Reload(r) \/ ReloadFails(r) PROVE Counted'
  BY <1>5, <1>10 DEF Reload, StartReload, ReloadReads, ReloadInstalls, ReloadFails, cacheVars
<1>11. CASE Builds \/ BuildFails
  BY <1>5, <1>11 DEF Builds, BuildFails, Refresh, Build, ReadDatabase, FinishBuild, FailBuild,
                     viewVars
<1>12. CASE UNCHANGED vars
  BY <1>5, <1>12 DEF vars, cacheVars, viewVars
<1>13. CASE \E c \in Clients : Wakes(c)
  BY <1>5, <1>13 DEF Wakes, Wake, viewVars
<1> QED BY <1>2, <1>3, <1>4, <1>6, <1>7, <1>8, <1>9, <1>10, <1>11, <1>12, <1>13 DEF Next

\* The records of the cache.
Files == [built: BOOLEAN, sig: Signatures, got: Contents]
\* The builds in flight.
BuildsType == [running: BOOLEAN, read: BOOLEAN, sig: Signatures, got: Contents]
\* A client's request.
Requests == [stage: Stages, hit: BOOLEAN, asked: Signatures, got: Contents]

\* The types of the cache.
CacheTypes ==
    /\ portal \in Contents
    /\ ready \in Files /\ build \in BuildsType /\ request \in [Clients -> Requests]

\* Who holds what of the cache, by the records of the client alone.
Served(q) == q.stage \in {"sending", "holding"} /\ q.hit => q.got.trips >= q.asked
Owns(q) == q.stage = "own" => q.asked = build.sig /\ build.running
Waits(q) == q.stage \in {"waiting", "woken"} => ~q.hit

\* Signatures are taken before the data they vouch for: the ready file holds what
\* its signature counts, a build's signature is not ahead of the database, and who
\* owns a build waits for the signature it asked for.
CacheSound ==
    /\ ready.built => ready.sig <= ready.got.trips
    /\ build.running => build.sig <= portal.trips
    /\ build.read => build.running /\ build.sig <= build.got.trips
    /\ \A c \in Clients : Served(request[c]) /\ Owns(request[c]) /\ Waits(request[c])

\* The inductive strengthening of ServedFresh.
CacheInv == CacheTypes /\ CacheSound

\* The records of the portal hold numbers.
LEMMA Numbers ==
    /\ MaxChanges \in Nat /\ 0 \in Signatures /\ Empty \in Contents
    /\ \A n \in Signatures : n \in Nat
    /\ \A k \in Contents : k.trips \in Signatures /\ k.points \in Signatures
    /\ Empty.trips = 0 /\ Empty.points = 0
BY CacheAssumption DEF Signatures, Contents, Empty

\* The empty records are of their types.
LEMMA NoneTypes ==
    /\ NoFile \in Files /\ NoBuild \in BuildsType /\ NoRequest \in Requests
    /\ NoFile.built = FALSE /\ NoBuild.running = FALSE /\ NoBuild.read = FALSE
    /\ NoRequest.stage = "none"
BY Numbers DEF NoFile, NoBuild, NoRequest, Files, BuildsType, Requests, Stages

\* A client asks: it is served a fresh file, waits, or begins a build.
LEMMA AskSound ==
    ASSUME CacheInv, NEW c \in Clients, Ask(c)
    PROVE  CacheInv'
<1>1. CacheTypes /\ CacheSound
  BY DEF CacheInv
<1>2. portal' = portal /\ ready' = ready /\ portal.trips \in Signatures /\ portal.trips \in Nat
  BY <1>1, Numbers DEF Ask, CacheTypes
<1>3. ASSUME NEW q, request' = [request EXCEPT ![c] = q], q \in Requests,
             build' \in BuildsType,
             build'.running => build'.sig <= portal.trips,
             build'.read => build'.running /\ build'.sig <= build'.got.trips,
             Served(q), Waits(q), q.stage = "own" => q.asked = build'.sig /\ build'.running,
             build' = build \/ ~build.running
      PROVE  CacheInv'
  <2>1. /\ request' \in [Clients -> Requests]
        /\ request'[c] = q /\ \A d \in Clients \ {c} : request'[d] = request[d]
    BY <1>1, <1>3 DEF CacheTypes
  <2>2. CacheTypes'
    BY <1>1, <1>2, <1>3, <2>1 DEF CacheTypes
  <2>3. ASSUME NEW d \in Clients
        PROVE  Served(request[d])' /\ Owns(request[d])' /\ Waits(request[d])'
    <3>1. CASE d = c
      BY <1>3, <2>1, <3>1 DEF Served, Owns, Waits
    <3>2. CASE d # c
      BY <1>1, <1>3, <2>1, <3>2 DEF CacheSound, Served, Owns, Waits
    <3> QED BY <3>1, <3>2
  <2> QED BY <1>1, <1>2, <1>3, <2>2, <2>3 DEF CacheInv, CacheSound
<1>4. CASE Fresh /\ request' = [request EXCEPT ![c] = Asked("sending", TRUE)] /\ UNCHANGED build
  <2> DEFINE q == Asked("sending", TRUE)
  <2>1. q.stage = "sending" /\ q.hit = TRUE /\ q.asked = portal.trips /\ q.got = ready.got
    BY DEF Asked
  <2>2. ready.got \in Contents /\ portal.trips <= ready.got.trips
    BY <1>1, <1>4 DEF CacheTypes, Files, Fresh, Signature, CacheSound
  <2>3. q \in Requests
    BY <1>2, <2>2 DEF Asked, Requests, Stages
  <2>4. Served(q) /\ Waits(q)
    BY <1>2, <2>1, <2>2, Numbers DEF Served, Waits
  <2> HIDE DEF q
  <2> QED BY <1>1, <1>3, <1>4, <2>1, <2>3, <2>4 DEF CacheTypes, CacheSound, q
<1>5. CASE /\ ~Fresh /\ build.running
           /\ request' = [request EXCEPT ![c] = Asked("waiting", FALSE)] /\ UNCHANGED build
  <2> DEFINE q == Asked("waiting", FALSE)
  <2>1. q.stage = "waiting" /\ q.hit = FALSE
    BY DEF Asked
  <2>2. q \in Requests
    BY Numbers DEF Asked, Requests, Stages
  <2>3. Served(q) /\ Waits(q)
    BY <2>1 DEF Served, Waits
  <2> HIDE DEF q
  <2> QED BY <1>1, <1>3, <1>5, <2>1, <2>2, <2>3 DEF CacheTypes, CacheSound, q
<1>6. CASE /\ ~Fresh /\ ~build.running
           /\ request' = [request EXCEPT ![c] = Asked("own", TRUE)] /\ BeginBuild
  <2> DEFINE q == Asked("own", TRUE)
  <2>1. q.stage = "own" /\ q.hit = TRUE /\ q.asked = portal.trips
    BY DEF Asked
  <2>2. q \in Requests
    BY <1>2, Numbers DEF Asked, Requests, Stages
  <2>3. Served(q) /\ Waits(q)
    BY <2>1 DEF Served, Waits
  <2>4. /\ build' \in BuildsType /\ build'.running = TRUE /\ build'.read = FALSE
        /\ build'.sig = portal.trips
    BY <1>2, <1>6, Numbers DEF BeginBuild, NoBuild, BuildsType, Signature
  <2>5. request' = [request EXCEPT ![c] = q] /\ ~build.running
    BY <1>6
  <2> HIDE DEF q
  <2>6. q.asked = build'.sig /\ build'.sig <= portal.trips
    BY <1>2, <2>1, <2>4
  <2>7. ~build'.read /\ build'.running
    BY <2>4
  <2> QED BY <1>3, <2>1, <2>2, <2>3, <2>4, <2>5, <2>6, <2>7
<1> QED BY <1>4, <1>5, <1>6 DEF Ask

\* A client has its answer, or hangs up.
LEMMA LeaveSound ==
    ASSUME CacheInv, NEW c \in Clients, Leave(c), UNCHANGED <<portal, ready, build>>
    PROVE  CacheInv'
<1>1. CacheTypes /\ CacheSound
  BY DEF CacheInv
<1>2. /\ request' \in [Clients -> Requests]
      /\ request'[c] = NoRequest /\ \A d \in Clients \ {c} : request'[d] = request[d]
  BY <1>1, NoneTypes DEF CacheTypes, Leave
<1>3. ASSUME NEW d \in Clients
      PROVE  Served(request[d])' /\ Owns(request[d])' /\ Waits(request[d])'
  <2>1. CASE d = c
    BY <1>2, <2>1, NoneTypes DEF Served, Owns, Waits
  <2>2. CASE d # c
    BY <1>1, <1>2, <2>2 DEF CacheSound, Served, Owns, Waits
  <2> QED BY <2>1, <2>2
<1> QED BY <1>1, <1>2, <1>3 DEF CacheInv, CacheTypes, CacheSound

\* The answers a finished or a failed build gives.
LEMMA BuildEndsSound ==
    ASSUME CacheInv, FinishBuild \/ FailBuild
    PROVE  CacheInv'
<1>1. CacheTypes /\ CacheSound
  BY DEF CacheInv
<1>2. CASE FinishBuild
  <2>1. build.read /\ build.running /\ build.sig <= build.got.trips
        /\ build.got \in Contents /\ build.sig \in Signatures
    BY <1>1, <1>2 DEF FinishBuild, CacheSound, CacheTypes, BuildsType
  <2>2. /\ portal' = portal /\ build' = NoBuild
        /\ ready' \in Files /\ ready'.sig = build.sig /\ ready'.got = build.got
    BY <1>2, <2>1 DEF FinishBuild, BuiltSignature, Files
  <2>3. PICK unopened \in SUBSET {c \in Clients : request[c].stage = "sending"} :
          request' = [c \in Clients |-> Replaced(request[c], c \in unopened)]
    BY <1>2 DEF FinishBuild
  <2>4. ASSUME NEW d \in Clients
        PROVE  /\ request'[d] \in Requests
               /\ Served(request[d])' /\ Owns(request[d])' /\ Waits(request[d])'
    <3> DEFINE q == request[d]
    <3>1. q \in Requests /\ Served(q) /\ Owns(q) /\ Waits(q)
      BY <1>1 DEF CacheTypes, CacheSound
    <3>2. request'[d] = Replaced(q, d \in unopened)
      BY <2>3
    <3> HIDE DEF q
    <3>3. CASE q.stage = "own"
      <4>1. request'[d] = [q EXCEPT !.stage = "sending", !.got = build.got]
        BY <3>2, <3>3 DEF Replaced
      <4>2. /\ request'[d] \in Requests /\ request'[d].stage = "sending"
            /\ request'[d].got = build.got /\ request'[d].hit = q.hit
            /\ request'[d].asked = q.asked
        BY <2>1, <3>1, <4>1 DEF Requests, Stages
      <4>3. q.hit => q.asked = build.sig
        BY <3>1, <3>3 DEF Owns
      <4> QED BY <2>1, <4>2, <4>3, <3>1, Numbers DEF Served, Owns, Waits
    <3>4. CASE q.stage = "waiting"
      <4>1. request'[d] = [q EXCEPT !.stage = "woken"]
        BY <3>2, <3>4 DEF Replaced
      <4>2. request'[d] \in Requests /\ request'[d].stage = "woken" /\ request'[d].hit = q.hit
        BY <3>1, <4>1 DEF Requests, Stages
      <4> QED BY <3>1, <3>4, <4>2 DEF Served, Owns, Waits
    <3>5. CASE q.stage = "sending" /\ d \in unopened
      <4>1. request'[d] = [NoRequest EXCEPT !.stage = "gone"]
        BY <3>2, <3>5 DEF Replaced
      <4>2. request'[d] \in Requests /\ request'[d].stage = "gone"
        BY <4>1, Numbers DEF NoRequest, Requests, Stages
      <4> QED BY <4>2 DEF Served, Owns, Waits
    <3>6. CASE q.stage = "sending" /\ d \notin unopened
      <4>1. request'[d] = [q EXCEPT !.stage = "holding"]
        BY <3>2, <3>6 DEF Replaced
      <4>2. /\ request'[d] \in Requests /\ request'[d].stage = "holding"
            /\ request'[d].got = q.got /\ request'[d].hit = q.hit
            /\ request'[d].asked = q.asked
        BY <3>1, <4>1 DEF Requests, Stages
      <4> QED BY <3>1, <3>6, <4>2 DEF Served, Owns, Waits
    <3>7. CASE q.stage \notin {"own", "waiting", "sending"}
      <4>1. request'[d] = q
        BY <3>2, <3>7 DEF Replaced
      <4> QED BY <3>1, <3>7, <4>1 DEF Served, Owns, Waits
    <3> QED BY <3>3, <3>4, <3>5, <3>6, <3>7
  <2>5. request' = [d \in Clients |-> request'[d]]
    BY <2>3
  <2>6. request' \in [Clients -> Requests]
    BY <2>4, <2>5
  <2> QED BY <1>1, <2>1, <2>2, <2>4, <2>6, NoneTypes DEF CacheInv, CacheTypes, CacheSound
<1>3. CASE FailBuild
  <2>1. build.running /\ portal' = portal /\ ready' = ready /\ build' = NoBuild
    BY <1>3 DEF FailBuild
  <2>2. ASSUME NEW d \in Clients
        PROVE  /\ request'[d] \in Requests
               /\ Served(request[d])' /\ Owns(request[d])' /\ Waits(request[d])'
    <3> DEFINE q == request[d]
    <3>1. q \in Requests /\ Served(q) /\ Owns(q) /\ Waits(q)
      BY <1>1 DEF CacheTypes, CacheSound
    <3>2. request'[d] =
            CASE q.stage = "own" -> [NoRequest EXCEPT !.stage = "failed"]
              [] q.stage = "waiting" -> [q EXCEPT !.stage = "woken"]
              [] OTHER -> q
      BY <1>3 DEF FailBuild
    <3> HIDE DEF q
    <3>3. CASE q.stage = "own"
      <4>1. request'[d] = [NoRequest EXCEPT !.stage = "failed"]
        BY <3>2, <3>3
      <4>2. request'[d] \in Requests /\ request'[d].stage = "failed"
        BY <4>1, Numbers DEF NoRequest, Requests, Stages
      <4> QED BY <4>2 DEF Served, Owns, Waits
    <3>4. CASE q.stage = "waiting"
      <4>1. request'[d] = [q EXCEPT !.stage = "woken"]
        BY <3>2, <3>4
      <4>2. request'[d] \in Requests /\ request'[d].stage = "woken" /\ request'[d].hit = q.hit
        BY <3>1, <4>1 DEF Requests, Stages
      <4> QED BY <3>1, <3>4, <4>2 DEF Served, Owns, Waits
    <3>5. CASE q.stage \notin {"own", "waiting"}
      <4>1. request'[d] = q
        BY <3>2, <3>5
      <4> QED BY <3>1, <3>5, <4>1 DEF Served, Owns, Waits
    <3> QED BY <3>3, <3>4, <3>5
  <2>3. request' = [d \in Clients |-> request'[d]]
    BY <1>3 DEF FailBuild
  <2>4. request' \in [Clients -> Requests]
    BY <2>2, <2>3
  <2> QED BY <1>1, <2>1, <2>2, <2>4, NoneTypes DEF CacheInv, CacheTypes, CacheSound
<1> QED BY <1>2, <1>3

\* Who waited gets the file there is, which he is not promised is fresh.
LEMMA WakeSound ==
    ASSUME CacheInv, NEW c \in Clients, Wake(c)
    PROVE  CacheInv'
<1>1. CacheTypes /\ CacheSound
  BY DEF CacheInv
<1> DEFINE q == IF ready.built THEN [request[c] EXCEPT !.stage = "sending", !.got = ready.got]
                ELSE [NoRequest EXCEPT !.stage = "failed"]
<1>2. request[c] \in Requests /\ ready.got \in Contents /\ ~request[c].hit
  BY <1>1 DEF Wake, CacheTypes, CacheSound, Files, Waits
<1>3. q \in Requests /\ (q.stage = "failed" \/ (q.stage = "sending" /\ ~q.hit))
  <2>1. CASE ready.built
    BY <1>2, <2>1 DEF Requests, Stages
  <2>2. CASE ~ready.built
    BY <2>2, Numbers DEF NoRequest, Requests, Stages
  <2> QED BY <2>1, <2>2
<1>4. request' = [request EXCEPT ![c] = q] /\ UNCHANGED <<portal, ready, build>>
  BY DEF Wake
<1> HIDE DEF q
<1>5. /\ request' \in [Clients -> Requests]
      /\ request'[c] = q /\ \A d \in Clients \ {c} : request'[d] = request[d]
  BY <1>1, <1>3, <1>4 DEF CacheTypes
<1>6. ASSUME NEW d \in Clients
      PROVE  Served(request[d])' /\ Owns(request[d])' /\ Waits(request[d])'
  <2>1. CASE d = c
    BY <1>3, <1>5, <2>1 DEF Served, Owns, Waits
  <2>2. CASE d # c
    BY <1>1, <1>4, <1>5, <2>2 DEF CacheSound, Served, Owns, Waits
  <2> QED BY <2>1, <2>2
<1> QED BY <1>1, <1>4, <1>5, <1>6 DEF CacheInv, CacheTypes, CacheSound

\* Every step of the cache keeps CacheInv.
LEMMA CacheStep ==
    ASSUME CacheInv, Counted, portal' \in Contents, CacheNext \/ UNCHANGED cacheVars
    PROVE  CacheInv'
<1>1. CacheTypes /\ CacheSound
  BY DEF CacheInv
<1>2. ASSUME NEW c \in Clients, Ask(c) \/ (Leave(c) /\ UNCHANGED <<portal, ready, build>>)
      PROVE  CacheInv'
  BY <1>2, AskSound, LeaveSound
<1>3. CASE FinishBuild \/ FailBuild
  BY <1>3, BuildEndsSound
<1>4. CASE Refresh
  <2>1. /\ build' \in BuildsType /\ build'.running = TRUE /\ build'.read = FALSE
        /\ build'.sig = portal.trips /\ ~build.running /\ portal.trips \in Nat
    BY <1>1, <1>4, Numbers DEF Refresh, BeginBuild, NoBuild, BuildsType, Signature, CacheTypes
  <2>2. UNCHANGED <<portal, ready, request>>
    BY <1>4 DEF Refresh
  <2>3. \A d \in Clients : Served(request[d])' /\ Owns(request[d])' /\ Waits(request[d])'
    BY <1>1, <2>1, <2>2 DEF CacheSound, Served, Owns, Waits
  <2> QED BY <1>1, <2>1, <2>2, <2>3 DEF CacheInv, CacheTypes, CacheSound
<1>5. CASE ReadDatabase
  <2>1. build.running /\ build.sig <= portal.trips /\ portal \in Contents
    BY <1>1, <1>5 DEF ReadDatabase, CacheSound, CacheTypes
  <2>2. /\ build' \in BuildsType /\ build'.running = build.running /\ build'.sig = build.sig
        /\ build'.got = portal
    BY <1>1, <1>5, <2>1 DEF ReadDatabase, CacheTypes, BuildsType
  <2>3. UNCHANGED <<portal, ready, request>>
    BY <1>5 DEF ReadDatabase
  <2>4. \A d \in Clients : Served(request[d])' /\ Owns(request[d])' /\ Waits(request[d])'
    BY <1>1, <2>2, <2>3 DEF CacheSound, Served, Owns, Waits
  <2> QED BY <1>1, <2>1, <2>2, <2>3, <2>4 DEF CacheInv, CacheTypes, CacheSound
<1>6. CASE (CloseTrip \/ AddPosition) /\ UNCHANGED <<ready, build, request>>
  <2>1. portal'.trips >= portal.trips /\ portal.trips \in Nat /\ portal'.trips \in Nat
    <3>1. portal \in Contents /\ portal.trips \in Nat
      BY <1>1, Numbers DEF CacheTypes
    <3>2. CASE CloseTrip
      BY <3>1, <3>2, CacheAssumption DEF CloseTrip, MayChange, Contents
    <3>3. CASE AddPosition
      BY <3>1, <3>3, CacheAssumption DEF AddPosition, MayChange, Contents
    <3> QED BY <1>6, <3>1, <3>2, <3>3
  <2>2. \A d \in Clients : Served(request[d])' /\ Owns(request[d])' /\ Waits(request[d])'
    BY <1>1, <1>6 DEF CacheSound, Served, Owns, Waits
  <2>3. build.sig \in Nat
    BY <1>1, Numbers DEF CacheTypes, BuildsType
  <2> QED BY <1>1, <1>6, <2>1, <2>2, <2>3 DEF CacheInv, CacheTypes, CacheSound
<1>7. CASE UNCHANGED cacheVars
  BY <1>1, <1>7 DEF cacheVars, CacheInv, CacheTypes, CacheSound, Served, Owns, Waits
<1>8. CASE \E c \in Clients : Wake(c)
  BY <1>8, WakeSound
<1> QED BY <1>2, <1>3, <1>4, <1>5, <1>6, <1>7, <1>8 DEF CacheNext, Build

\* The first state.
LEMMA CacheInvInit == Init => CacheInv /\ Counted
<1> SUFFICES ASSUME Init PROVE CacheInv /\ Counted
  OBVIOUS
<1>1. /\ portal = Empty /\ ready = NoFile /\ build = NoBuild
      /\ request = [c \in Clients |-> NoRequest] /\ changes = 0 /\ faults = 0
      /\ server = NoRows
  BY DEF Init, CacheInit
<1>2. CacheTypes
  BY <1>1, NoneTypes, Numbers DEF CacheTypes
<1>3. CacheSound
  BY <1>1, NoneTypes DEF CacheSound, Served, Owns, Waits
<1>4. Counted
  BY <1>1, Numbers, CacheAssumption DEF Counted, ServerContents, NoRows
<1> QED BY <1>2, <1>3, <1>4 DEF CacheInv

\* CacheInv holds in every reachable state.
LEMMA CacheHolds == Spec => [](CacheInv /\ Counted)
<1>1. CacheInv /\ Counted /\ [Next]_vars => CacheInv' /\ Counted'
  <2> SUFFICES ASSUME CacheInv, Counted, [Next]_vars PROVE CacheInv' /\ Counted'
    OBVIOUS
  <2>1. Counted'
    BY CountedStep
  <2>2. portal' \in Contents
    BY <2>1 DEF Counted
  <2> QED BY <2>1, <2>2, CacheSteps, CacheStep
<1> QED BY <1>1, CacheInvInit, PTL DEF Spec

\* A snapshot served from the cache, or built for the client that asked, holds
\* every trip that was closed when it asked (snapshotCache.get), for any number of
\* clients, builds and failures.
THEOREM CacheServesFresh == Spec => []ServedFresh
<1>1. CacheInv => ServedFresh
  BY DEF CacheInv, CacheSound, Served, Delivered, ServedFresh
<1> QED BY <1>1, CacheHolds, PTL

-----------------------------------------------------------------------------
(* Types.                                                                  *)

\* The types of the viewer's records.
LoadStages == {"idle", "asking", "pulling", "converting", "ready", "done"}
\* A load.
LoadsType == [kind: Kinds, stage: LoadStages, meta: Contents, rows: ServerContents]
\* A poll.
PollsType == [stage: {"idle", "answered", "pulling"}, meta: Contents, active: BOOLEAN]
\* The freshness probe.
TicksType == [stopped: BOOLEAN, seen: BOOLEAN, marker: 0 .. MaxChanges,
              stage: {"idle", "probed", "loading", "loaded"},
              next: 0 .. MaxChanges, rows: ServerContents]
\* A reload after an edit.
ReloadsType == [stage: {"idle", "loading", "loaded"}, rows: ServerContents]
\* What the screens show.
DataType == [source: Kinds \cup {"none"}, got: Contents \cup ServerContents]

\* The types of the viewer's own variables.
ViewTypes ==
    /\ data \in DataType
    /\ backend \in BOOLEAN /\ armed \in BOOLEAN
    /\ live \in {"none", "portal", "cloud"}
    /\ liveMeta \in [known: BOOLEAN, at: Contents, hit: BOOLEAN]
    /\ loads \in [LoadIds -> LoadsType]
    /\ current \in 0 .. MaxLoads /\ loading \in 0 .. MaxLoads
    /\ poll \in [Polls -> PollsType]
    /\ tick \in TicksType
    /\ reload \in [Reloads -> ReloadsType]
    /\ opened \in Kinds \cup {"none"}

\* The constants, and the empty records made of them.
LEMMA ViewNumbers ==
    /\ NoRows \in ServerContents /\ 0 \in 0 .. MaxChanges
    /\ MaxLoads \in Nat /\ 1 \in LoadIds /\ 1 \in 0 .. MaxLoads /\ 0 \in 0 .. MaxLoads
    /\ \A i \in LoadIds : i \in 0 .. MaxLoads /\ i # 0
    /\ \A i \in 0 .. MaxLoads : i # 0 => i \in LoadIds
    /\ \A w \in ServerContents : w.rows \in 0 .. MaxChanges
BY CacheAssumption, ViewerAssumption DEF NoRows, ServerContents, LoadIds

\* What a load is changed into is a load.
LEMMA LoadRecords ==
    /\ NotBegun \in LoadsType /\ Finished \in LoadsType
    /\ \A k \in Kinds, s \in LoadStages : Begun(k, s) \in LoadsType /\ Begun(k, s).kind = k
    /\ \A l \in LoadsType, s \in LoadStages :
         [l EXCEPT !.stage = s] \in LoadsType /\ [l EXCEPT !.stage = s].kind = l.kind
    /\ \A l \in LoadsType, m \in Contents : [l EXCEPT !.meta = m] \in LoadsType
    /\ \A l \in LoadsType, w \in ServerContents : [l EXCEPT !.rows = w] \in LoadsType
BY Numbers, ViewNumbers DEF LoadsType, NotBegun, Finished, Begun, Kinds, LoadStages

\* One load goes on; the others stay.
LEMMA LoadBecomes ==
    ASSUME loads \in [LoadIds -> LoadsType], NEW i \in LoadIds, NEW l \in LoadsType,
           loads' = [loads EXCEPT ![i] = l]
    PROVE  /\ loads' \in [LoadIds -> LoadsType] /\ loads'[i] = l
           /\ \A j \in LoadIds \ {i} : loads'[j] = loads[j]
OBVIOUS

\* The current load keeps its kind.
KindsKept ==
    \A j \in LoadIds : j = current /\ current' = current => loads'[j].kind = loads[j].kind

\* A load moves to its next stage.
LEMMA StageBecomes ==
    ASSUME loads \in [LoadIds -> LoadsType], NEW i \in LoadIds, NEW s \in LoadStages,
           Become(i, s)
    PROVE  loads' \in [LoadIds -> LoadsType] /\ KindsKept
<1> DEFINE l == [loads[i] EXCEPT !.stage = s]
<1>1. l \in LoadsType /\ l.kind = loads[i].kind
  BY LoadRecords
<1>2. loads' = [loads EXCEPT ![i] = l]
  BY DEF Become
<1> QED
  <2> HIDE DEF l
  <2> QED BY <1>1, <1>2, LoadBecomes DEF KindsKept

\* A load that ends is no longer current, or never was.
LEMMA LoadEnds ==
    ASSUME loads \in [LoadIds -> LoadsType], NEW i \in LoadIds, Finish(i),
           current # i \/ current' = 0
    PROVE  loads' \in [LoadIds -> LoadsType] /\ KindsKept
<1>1. loads' = [loads EXCEPT ![i] = Finished] /\ i # 0
  BY ViewNumbers DEF Finish
<1> QED
  BY <1>1, LoadRecords, LoadBecomes DEF KindsKept

\* What a poll is changed into is a poll ...
PollRecords ==
    /\ NoPoll \in PollsType
    /\ [NoPoll EXCEPT !.stage = "answered"] \in PollsType
    /\ \A m \in Contents : [stage |-> "answered", meta |-> m, active |-> TRUE] \in PollsType
    /\ \A l \in PollsType : [l EXCEPT !.stage = "pulling", !.active = FALSE] \in PollsType

\* ... whatever the bounds are.
LEMMA PollRecordsHold == PollRecords
BY Numbers DEF PollRecords, NoPoll, PollsType

\* Telling the polls that their effect has ended moves none of them.
LEMMA InactiveTypes ==
    ASSUME poll \in [Polls -> PollsType]
    PROVE  /\ Inactive \in [Polls -> PollsType]
           /\ \A p \in Polls : Inactive[p].stage = poll[p].stage
<1>1. ASSUME NEW p \in Polls
      PROVE  Inactive[p] \in PollsType /\ Inactive[p].stage = poll[p].stage
  <2>1. CASE poll[p].stage = "answered"
    <3>1. Inactive[p] = [NoPoll EXCEPT !.stage = "answered"]
      BY <2>1 DEF Inactive
    <3> QED BY <2>1, <3>1, PollRecordsHold DEF PollRecords, NoPoll
  <2>2. CASE poll[p].stage # "answered"
    BY <2>2 DEF Inactive
  <2> QED BY <2>1, <2>2
<1>2. Inactive = [p \in Polls |-> Inactive[p]]
  BY DEF Inactive
<1> QED BY <1>1, <1>2

\* What the probe is changed into is a probe.
LEMMA TickRecords ==
    /\ NoTick \in TicksType /\ NoTick.stopped = TRUE
    /\ [NoTick EXCEPT !.stopped = FALSE] \in TicksType
    /\ \A t \in TicksType :
         [t EXCEPT !.stopped = TRUE] \in TicksType /\ [t EXCEPT !.stopped = TRUE].stopped = TRUE
BY ViewNumbers DEF NoTick, TicksType

\* setData: what is shown, and the probe stopped unless it is the data server's.
LEMMA ShowTypes ==
    ASSUME ViewTypes, NEW source \in Kinds, NEW got \in Contents \cup ServerContents,
           Show(source, got)
    PROVE  /\ data' \in DataType /\ data'.source = source
           /\ tick' \in TicksType /\ armed' \in BOOLEAN
           /\ source # "cloud" => tick'.stopped
<1>1. data' \in DataType /\ data'.source = source
  BY DEF Show, DataType
<1>2. tick \in TicksType /\ armed \in BOOLEAN
  BY DEF ViewTypes
<1>3. armed' \in BOOLEAN
  BY <1>2 DEF Show, Stopping
<1>4. CASE source # "cloud"
  BY <1>1, <1>2, <1>3, <1>4, TickRecords DEF Show, Stopping
<1>5. CASE source = "cloud"
  BY <1>1, <1>2, <1>3, <1>5, TickRecords DEF Show, Stopping
<1> QED BY <1>4, <1>5

\* What a reload is changed into is a reload.
LEMMA ReloadRecords ==
    /\ NoReload \in ReloadsType
    /\ \A l \in ReloadsType : [l EXCEPT !.stage = "loading"] \in ReloadsType
    /\ \A w \in ServerContents : [stage |-> "loaded", rows |-> w] \in ReloadsType
    /\ \A w \in Contents \cup ServerContents : [source |-> "cloud", got |-> w] \in DataType
BY ViewNumbers DEF NoReload, ReloadsType, DataType, Kinds

\* The typed states.
ViewTyped == CacheInv /\ Counted /\ ViewTypes

\* What the steps below take from them.
LEMMA ViewGiven ==
    ASSUME ViewTyped
    PROVE  /\ data \in DataType
           /\ backend \in BOOLEAN /\ armed \in BOOLEAN
           /\ live \in {"none", "portal", "cloud"}
           /\ liveMeta \in [known: BOOLEAN, at: Contents, hit: BOOLEAN]
           /\ loads \in [LoadIds -> LoadsType]
           /\ current \in 0 .. MaxLoads /\ loading \in 0 .. MaxLoads
           /\ poll \in [Polls -> PollsType]
           /\ tick \in TicksType
           /\ reload \in [Reloads -> ReloadsType]
           /\ opened \in Kinds \cup {"none"}
           /\ portal \in Contents /\ server \in ServerContents
           /\ \A c \in Clients : request[c].got \in Contents /\ request[c].hit \in BOOLEAN
BY DEF ViewTyped, ViewTypes, CacheInv, CacheTypes, Counted, Requests

\* Something is opened, or fails to.
LEMMA OpeningTypes ==
    ASSUME ViewTyped, NEW i \in LoadIds, Opening(i)
    PROVE  ViewTypes' /\ KindsKept
<1>1. i \in 0 .. MaxLoads /\ i # 0
  BY ViewNumbers
<1>2. ASSUME NEW kind \in Kinds, BeginLoading(i, kind) PROVE ViewTypes' /\ KindsKept
  <2>1. loads' = [loads EXCEPT ![i] = Begun(kind, FirstStage(kind))] /\ current = 0
    BY <1>2 DEF BeginLoading, busy
  <2>2. FirstStage(kind) \in LoadStages
    BY DEF FirstStage, LoadStages
  <2>3. loads' \in [LoadIds -> LoadsType]
    BY <2>1, <2>2, LoadRecords, LoadBecomes, ViewGiven
  <2>4. backend' \in BOOLEAN /\ current' = i /\ loading' = i
    BY <1>2 DEF BeginLoading, NewBackend
  <2>5. KindsKept
    BY <1>1, <2>1, <2>4 DEF KindsKept
  <2> QED BY <1>1, <1>2, <2>3, <2>4, <2>5, ViewGiven DEF BeginLoading, ViewTypes
<1>3. CASE LoadFails(i)
  <2>1. loads' \in [LoadIds -> LoadsType] /\ KindsKept
    BY <1>3, LoadEnds, ViewGiven DEF LoadFails, EndLoading
  <2>2. poll' \in [Polls -> PollsType]
    BY <1>3, InactiveTypes, ViewGiven DEF LoadFails
  <2>3. live' \in {"none", "portal", "cloud"} /\ backend' \in BOOLEAN
    BY <1>3, ViewGiven DEF LoadFails
  <2> QED BY <1>3, <2>1, <2>2, <2>3, ViewGiven, ViewNumbers DEF LoadFails, EndLoading, ViewTypes
<1> QED BY <1>2, <1>3 DEF Opening

\* A load shows its data.
LEMMA InstallTypes ==
    ASSUME ViewTyped, NEW i \in LoadIds, Install(i)
    PROVE  /\ ViewTypes' /\ KindsKept
           /\ data'.source = loads[i].kind /\ opened' = loads[i].kind
           /\ loads[i].kind # "cloud" => tick'.stopped
<1> DEFINE kind == loads[i].kind
           shown == CASE kind = "portal" -> request[Connector].got
                      [] kind = "cloud" -> loads[i].rows
                      [] OTHER -> NoRows
<1>1. kind \in Kinds /\ loads[i].rows \in ServerContents /\ loads[i].meta \in Contents
  BY ViewGiven DEF LoadsType
<1>2. Connector \in Clients
  BY ViewerAssumption
<1>3. shown \in Contents \cup ServerContents
  BY <1>1, <1>2, ViewGiven, ViewNumbers
<1>4. /\ Show(kind, shown) /\ current = i /\ opened' = kind
      /\ live' = IF kind = "cloud" THEN "cloud" ELSE live
      /\ liveMeta' = IF kind = "portal" THEN Meta(loads[i].meta, request[Connector].hit)
                                         ELSE liveMeta
      /\ poll' = IF kind \in {"portal", "cloud"} THEN Inactive ELSE poll
      /\ current' = 0 /\ loading' = 0 /\ Finish(i)
      /\ UNCHANGED <<backend, reload>>
  BY DEF Install, EndLoading, isCurrent
<1> HIDE DEF kind, shown
<1>5. /\ data' \in DataType /\ data'.source = kind
      /\ tick' \in TicksType /\ armed' \in BOOLEAN /\ (kind # "cloud" => tick'.stopped)
  BY <1>1, <1>3, <1>4, ShowTypes DEF ViewTyped
<1>6. loads' \in [LoadIds -> LoadsType] /\ KindsKept
  BY <1>4, LoadEnds, ViewGiven
<1>7. poll' \in [Polls -> PollsType]
  BY <1>4, InactiveTypes, ViewGiven
<1>8. liveMeta' \in [known: BOOLEAN, at: Contents, hit: BOOLEAN]
  BY <1>1, <1>2, <1>4, ViewGiven DEF Meta
<1>9. live' \in {"none", "portal", "cloud"} /\ opened' \in Kinds \cup {"none"}
  BY <1>1, <1>4, ViewGiven
<1>10. ViewTypes'
  BY <1>4, <1>5, <1>6, <1>7, <1>8, <1>9, ViewGiven, ViewNumbers DEF ViewTypes
<1> QED BY <1>4, <1>5, <1>6, <1>10 DEF kind

\* The other steps of a load.
LEMMA LoadTypes ==
    ASSUME ViewTyped, NEW i \in LoadIds, Load(i), ~Install(i)
    PROVE  ViewTypes' /\ KindsKept
<1>1. i \in 0 .. MaxLoads /\ i # 0
  BY ViewNumbers
<1>2. CASE Reached(i)
  <2> DEFINE l == [[loads[i] EXCEPT !.stage = "pulling"] EXCEPT !.meta = portal]
  <2>1. loads[i] \in LoadsType /\ "pulling" \in LoadStages /\ portal \in Contents
    BY ViewGiven DEF LoadStages
  <2>2. l \in LoadsType /\ l.kind = loads[i].kind
    BY <2>1 DEF LoadsType
  <2>3. loads' = [loads EXCEPT ![i] = l]
    BY <1>2, <2>1, ViewGiven DEF Reached, LoadsType
  <2> HIDE DEF l
  <2>4. loads' \in [LoadIds -> LoadsType] /\ KindsKept
    BY <2>2, <2>3, LoadBecomes, ViewGiven DEF KindsKept
  <2>5. poll' \in [Polls -> PollsType]
    BY <1>2, InactiveTypes, ViewGiven DEF Reached
  <2> QED BY <1>2, <2>4, <2>5, ViewGiven DEF Reached, ViewTypes
<1>3. CASE FetchSnapshot(i)
  BY <1>3, ViewGiven DEF FetchSnapshot, viewVars, ViewTypes, KindsKept
<1>4. CASE ReadServer(i)
  <2> DEFINE l == [[loads[i] EXCEPT !.stage = "ready"] EXCEPT !.rows = server]
  <2>1. loads[i] \in LoadsType /\ "ready" \in LoadStages /\ server \in ServerContents
    BY ViewGiven DEF LoadStages
  <2>2. l \in LoadsType /\ l.kind = loads[i].kind
    BY <2>1 DEF LoadsType
  <2>3. loads' = [loads EXCEPT ![i] = l]
    BY <1>4, <2>1, ViewGiven DEF ReadServer, LoadsType
  <2> HIDE DEF l
  <2>4. loads' \in [LoadIds -> LoadsType] /\ KindsKept
    BY <2>2, <2>3, LoadBecomes, ViewGiven DEF KindsKept
  <2> QED BY <1>4, <2>4, ViewGiven DEF ReadServer, ViewTypes
<1>5. ASSUME NEW b \in BOOLEAN, ReadFile(i, b) PROVE ViewTypes' /\ KindsKept
  <2>1. PICK s \in LoadStages : Become(i, s)
    BY <1>5 DEF ReadFile, LoadStages
  <2>2. loads' \in [LoadIds -> LoadsType] /\ KindsKept
    BY <2>1, StageBecomes, ViewGiven
  <2>3. loading' \in 0 .. MaxLoads
    BY <1>5, ViewGiven, ViewNumbers DEF ReadFile
  <2> QED BY <1>5, <2>2, <2>3, ViewGiven DEF ReadFile, ViewTypes
<1>6. CASE Converted(i)
  <2>1. CASE isCurrent(i)
    <3>1. Become(i, "ready") /\ "ready" \in LoadStages
      BY <1>6, <2>1 DEF Converted, LoadStages
    <3>2. loads' \in [LoadIds -> LoadsType] /\ KindsKept
      BY <3>1, StageBecomes, ViewGiven
    <3> QED BY <1>1, <1>6, <2>1, <3>2, ViewGiven DEF Converted, ViewTypes
  <2>2. CASE ~isCurrent(i)
    <3>1. loads' \in [LoadIds -> LoadsType] /\ KindsKept
      BY <1>6, <2>2, LoadEnds, ViewGiven DEF Converted, isCurrent
    <3> QED BY <1>6, <2>2, <3>1, ViewGiven DEF Converted, ViewTypes
  <2> QED BY <2>1, <2>2
<1>7. CASE ReadDemo(i)
  <2>1. Become(i, "ready") /\ "ready" \in LoadStages
    BY <1>7 DEF ReadDemo, LoadStages
  <2>2. loads' \in [LoadIds -> LoadsType] /\ KindsKept
    BY <2>1, StageBecomes, ViewGiven
  <2> QED BY <1>7, <2>2, ViewGiven DEF ReadDemo, ViewTypes
<1>8. CASE Abandon(i)
  <2>1. loads' \in [LoadIds -> LoadsType] /\ KindsKept
    BY <1>8, LoadEnds, ViewGiven DEF Abandon, isCurrent
  <2> QED BY <1>8, <2>1, ViewGiven DEF Abandon, ViewTypes
<1> QED BY <1>2, <1>3, <1>4, <1>5, <1>6, <1>7, <1>8 DEF Load

\* The Cancel and the Disconnect buttons.
LEMMA ButtonTypes ==
    ASSUME ViewTyped, CancelLoading \/ Disconnect
    PROVE  ViewTypes' /\ KindsKept
<1>1. CASE CancelLoading
  BY <1>1, ViewGiven, ViewNumbers DEF CancelLoading, EndLoading, ViewTypes, KindsKept
<1>2. CASE Disconnect
  <2>1. poll' \in [Polls -> PollsType]
    BY <1>2, InactiveTypes, ViewGiven DEF Disconnect
  <2>2. liveMeta' \in [known: BOOLEAN, at: Contents, hit: BOOLEAN]
    BY <1>2, Numbers DEF Disconnect, NoMeta
  <2> QED BY <1>2, <2>1, <2>2, ViewGiven DEF Disconnect, ViewTypes, KindsKept
<1> QED BY <1>1, <1>2

\* A poll shows the portal's snapshot.
LEMMA PollInstallTypes ==
    ASSUME ViewTyped, NEW p \in Polls, PollInstalls(p)
    PROVE  /\ ViewTypes' /\ KindsKept
           /\ data'.source = "portal" /\ tick'.stopped
<1>1. p \in Clients /\ request[p].got \in Contents \cup ServerContents
  BY ViewerAssumption, ViewGiven
<1>2. /\ data' \in DataType /\ data'.source = "portal"
      /\ tick' \in TicksType /\ armed' \in BOOLEAN /\ tick'.stopped
  BY <1>1, ShowTypes DEF PollInstalls, ViewTyped, Kinds
<1>3. liveMeta' \in [known: BOOLEAN, at: Contents, hit: BOOLEAN]
  BY <1>1, ViewGiven DEF PollInstalls, Meta, PollsType
<1>4. poll' \in [Polls -> PollsType]
  BY InactiveTypes, PollRecordsHold, ViewGiven DEF PollInstalls, PollRecords
<1> QED BY <1>2, <1>3, <1>4, ViewGiven DEF PollInstalls, ViewTypes, KindsKept

\* The other steps of a poll.
LEMMA PollTypes ==
    ASSUME ViewTyped, NEW p \in Polls, Polling(p) \/ PollFails(p), ~PollInstalls(p)
    PROVE  ViewTypes' /\ KindsKept
<1>1. poll' \in [Polls -> PollsType]
  <2>1. CASE FetchMeta(p)
    BY <2>1, PollRecordsHold, ViewGiven DEF FetchMeta, PollRecords
  <2>2. CASE PollAnswered(p)
    <3>1. [poll[p] EXCEPT !.stage = "pulling", !.active = FALSE] \in PollsType
      BY PollRecordsHold, ViewGiven DEF PollRecords
    <3>2. \/ poll' = [poll EXCEPT ![p] = [poll[p] EXCEPT !.stage = "pulling", !.active = FALSE]]
          \/ poll' = [poll EXCEPT ![p] = NoPoll]
      BY <2>2, ViewGiven DEF PollAnswered, PollsType
    <3> QED BY <3>1, <3>2, PollRecordsHold, ViewGiven DEF PollRecords
  <2>3. CASE PollFetchesSnapshot(p)
    BY <2>3, ViewGiven DEF PollFetchesSnapshot, viewVars
  <2>4. CASE PollFails(p)
    BY <2>4, PollRecordsHold, ViewGiven DEF PollFails, PollRecords
  <2> QED BY <2>1, <2>2, <2>3, <2>4 DEF Polling
<1>2. UNCHANGED <<data, backend, live, liveMeta, loads, current, loading, tick, armed, reload,
                  opened>>
  BY DEF Polling, FetchMeta, PollAnswered, PollFetchesSnapshot, PollFails, viewVars
<1> QED BY <1>1, <1>2, ViewGiven DEF ViewTypes, KindsKept

\* The freshness probe.
LEMMA TickTypes ==
    ASSUME ViewTyped, Tick \/ TickFails
    PROVE  /\ ViewTypes' /\ KindsKept /\ tick'.stopped = tick.stopped
           /\ data' = data \/ (data'.source = "cloud" /\ ~tick.stopped)
<1>1. tick \in TicksType /\ server \in ServerContents
  BY ViewGiven
<1>2. tick.rows \in ServerContents
  BY <1>1 DEF TicksType
<1>3. tick' \in TicksType /\ tick'.stopped = tick.stopped
  <2>1. CASE Probe
    BY <1>1, <2>1, ViewNumbers DEF Probe, Ticked, TicksType
  <2>2. CASE Probed
    BY <1>1, <2>2, ViewNumbers DEF Probed, Ticked, TicksType
  <2>3. CASE TickReads
    BY <1>1, <2>3 DEF TickReads, Ticked, TicksType
  <2>4. CASE TickInstalls
    BY <1>1, <2>4, ViewNumbers DEF TickInstalls, TicksType
  <2>5. CASE TickFails
    BY <1>1, <2>5, ViewNumbers DEF TickFails, TicksType
  <2> QED BY <2>1, <2>2, <2>3, <2>4, <2>5 DEF Tick
<1>4. /\ data' \in DataType
      /\ data' = data \/ (data'.source = "cloud" /\ ~tick.stopped)
  <2>1. CASE TickInstalls
    BY <1>2, <2>1, ReloadRecords, ViewGiven DEF TickInstalls
  <2>2. CASE ~TickInstalls
    BY <2>2, ViewGiven DEF Tick, Probe, Probed, TickReads, Ticked, TickFails
  <2> QED BY <2>1, <2>2
<1>5. UNCHANGED <<backend, live, liveMeta, loads, current, loading, poll, armed, reload, opened>>
  BY DEF Tick, Probe, Probed, TickReads, TickInstalls, Ticked, TickFails
<1> QED BY <1>3, <1>4, <1>5, ViewGiven DEF ViewTypes, KindsKept

\* The reloads after edits.
LEMMA ReloadTypes ==
    ASSUME ViewTyped, NEW r \in Reloads, Reload(r) \/ ReloadFails(r)
    PROVE  /\ ViewTypes' /\ KindsKept
           /\ data' = data \/ (data'.source = "cloud" /\ ~tick.stopped)
<1>1. reload[r] \in ReloadsType /\ reload[r].rows \in ServerContents /\ server \in ServerContents
  BY ViewGiven DEF ReloadsType
<1>2. reload' \in [Reloads -> ReloadsType]
  <2>1. CASE StartReload(r)
    <3>1. \/ reload' = reload
          \/ reload' = [reload EXCEPT ![r] = [reload[r] EXCEPT !.stage = "loading"]]
      BY <2>1, ViewGiven DEF StartReload
    <3>2. [reload[r] EXCEPT !.stage = "loading"] \in ReloadsType
      BY <1>1, ReloadRecords
    <3> QED BY <3>1, <3>2, ViewGiven
  <2>2. CASE ReloadReads(r)
    BY <1>1, <2>2, ReloadRecords, ViewGiven DEF ReloadReads
  <2>3. CASE ReloadInstalls(r) \/ ReloadFails(r)
    BY <2>3, ReloadRecords, ViewGiven DEF ReloadInstalls, ReloadFails
  <2> QED BY <2>1, <2>2, <2>3 DEF Reload
<1>3. /\ data' \in DataType
      /\ data' = data \/ (data'.source = "cloud" /\ ~tick.stopped)
  <2>1. CASE ReloadInstalls(r)
    BY <1>1, <2>1, ReloadRecords, ViewGiven DEF ReloadInstalls
  <2>2. CASE ~ReloadInstalls(r)
    BY <2>2, ViewGiven DEF Reload, StartReload, ReloadReads, ReloadFails
  <2> QED BY <2>1, <2>2
<1>4. armed' \in BOOLEAN
  BY ViewGiven DEF Reload, StartReload, ReloadReads, ReloadInstalls, ReloadFails
<1>5. UNCHANGED <<backend, live, liveMeta, loads, current, loading, poll, tick, opened>>
  BY DEF Reload, StartReload, ReloadReads, ReloadInstalls, ReloadFails
<1> QED BY <1>2, <1>3, <1>4, <1>5, ViewGiven DEF ViewTypes, KindsKept

\* What the servers do.
LEMMA RemoteTypes ==
    ASSUME ViewTyped, ServerRows \/ Edit \/ Portal \/ Builds \/ BuildFails
                      \/ (\E c \in Clients : Wakes(c)) \/ UNCHANGED vars
    PROVE  /\ ViewTypes' /\ KindsKept
           /\ UNCHANGED <<data, backend, liveMeta, loads, current, loading, poll, tick, opened>>
<1>1. /\ UNCHANGED <<data, backend, live, liveMeta, loads, current, loading, poll, tick, reload,
                     opened>>
      /\ armed' = armed \/ armed' = TRUE
  BY DEF ServerRows, Edit, Portal, Builds, BuildFails, Wakes, viewVars, vars
<1> QED BY <1>1, ViewGiven DEF ViewTypes, KindsKept

\* Every step keeps the types.
LEMMA ViewTypesStep ==
    ASSUME ViewTyped, [Next]_vars
    PROVE  ViewTypes'
<1>1. ASSUME NEW i \in LoadIds, Opening(i) \/ Load(i) PROVE ViewTypes'
  BY <1>1, OpeningTypes, InstallTypes, LoadTypes
<1>2. CASE CancelLoading \/ Disconnect
  BY <1>2, ButtonTypes
<1>3. ASSUME NEW p \in Polls, Polling(p) \/ PollFails(p) PROVE ViewTypes'
  BY <1>3, PollInstallTypes, PollTypes
<1>4. CASE Tick \/ TickFails
  BY <1>4, TickTypes
<1>5. ASSUME NEW r \in Reloads, Reload(r) \/ ReloadFails(r) PROVE ViewTypes'
  BY <1>5, ReloadTypes
<1>6. CASE ServerRows \/ Edit \/ Portal \/ Builds \/ BuildFails \/ (\E c \in Clients : Wakes(c))
          \/ UNCHANGED vars
  BY <1>6, RemoteTypes
<1> QED BY <1>1, <1>2, <1>3, <1>4, <1>5, <1>6 DEF Next

\* The first state is well typed.
LEMMA ViewTypesInit == Init => ViewTypes
<1> SUFFICES ASSUME Init PROVE ViewTypes
  OBVIOUS
<1>1. data \in DataType /\ opened \in Kinds \cup {"none"}
  BY ViewNumbers DEF Init, DataType
<1>2. loads \in [LoadIds -> LoadsType]
  BY LoadRecords DEF Init, Kinds, LoadStages
<1>3. poll \in [Polls -> PollsType]
  BY PollRecordsHold DEF Init, PollRecords
<1>4. liveMeta \in [known: BOOLEAN, at: Contents, hit: BOOLEAN]
  BY Numbers DEF Init, NoMeta
<1> QED BY <1>1, <1>2, <1>3, <1>4, TickRecords, ReloadRecords, ViewNumbers DEF Init, ViewTypes

\* The typed states are never left.
LEMMA ViewHolds == Spec => []ViewTyped
<1>1. ViewTyped /\ [Next]_vars => ViewTypes'
  BY ViewTypesStep
<1>2. CacheInv /\ Counted /\ ViewTypes => ViewTyped
  BY DEF ViewTyped
<1>3. ViewTyped => ViewTypes
  BY DEF ViewTyped
<1> QED BY <1>1, <1>2, <1>3, ViewTypesInit, CacheHolds, PTL DEF Spec

\* TypeOK, for every value of the constants.
THEOREM TypeCorrect == Spec => []TypeOK
<1>1. ViewTyped => TypeOK
  <2> SUFFICES ASSUME ViewTyped PROVE TypeOK
    OBVIOUS
  <2>1. CacheTypeOK
    BY DEF ViewTyped, CacheInv, CacheTypes, Counted, CacheTypeOK, Files, BuildsType, Requests
  <2>2. server \in ServerContents
    BY ViewGiven
  <2> QED BY <2>1, <2>2 DEF ViewTyped, ViewTypes, TypeOK, DataType, LoadsType, LoadStages,
                           PollsType, TicksType, ReloadsType
<1> QED BY <1>1, ViewHolds, PTL

-----------------------------------------------------------------------------
(* What is shown, and where queries run.                                   *)

\* The portal's polls outlive a disconnection and the opening of a file, and
\* nothing else.
PolledIsShown ==
    (liveMeta.known \/ \E p \in Polls : poll[p].stage # "idle")
        => data.source \in {"portal", "file"}

\* A load of anything but a file began on the landing page.
OpenedFirst == current # 0 /\ loads[current].kind # "file" => data.source = "none"

\* A load in flight found the data server connected for its own sake.
BackendOfCloud == current # 0 /\ backend => loads[current].kind = "cloud"

\* The probe runs under the data server's data.
ProbeOfCloud == ~tick.stopped => data.source = "cloud"

\* The inductive strengthening of LocalReadsLocal and LastChoiceShown.
ChoiceInv ==
    PolledIsShown /\ OpenedFirst /\ BackendOfCloud /\ ProbeOfCloud
    /\ LocalReadsLocal /\ LastChoiceShown

\* What the steps below start from.
ChoiceGiven == ViewTyped /\ ChoiceInv

\* Its parts.
LEMMA ChoiceFacts ==
    ASSUME ChoiceGiven
    PROVE  ViewTyped /\ PolledIsShown /\ OpenedFirst /\ BackendOfCloud /\ ProbeOfCloud
           /\ LocalReadsLocal /\ LastChoiceShown
BY DEF ChoiceGiven, ChoiceInv

\* Nothing that the choice is made of changes.
LEMMA ChoiceKept ==
    ASSUME ChoiceGiven, KindsKept,
           UNCHANGED <<data, opened>>,
           current' = current \/ current' = 0,
           backend' => backend,
           ~tick'.stopped => ~tick.stopped,
           liveMeta'.known => liveMeta.known,
           \A p \in Polls : poll'[p].stage = "idle" \/ poll[p].stage # "idle" \/ liveMeta.known
    PROVE  ChoiceInv'
<1>1. current' # 0 => current' = current /\ current \in LoadIds
  BY ViewGiven, ViewNumbers, ChoiceFacts
<1>2. current' # 0 => loads'[current].kind = loads[current].kind
  BY <1>1 DEF KindsKept
<1>3. PolledIsShown'
  BY ChoiceFacts DEF PolledIsShown
<1>4. OpenedFirst' /\ BackendOfCloud'
  BY <1>1, <1>2, ChoiceFacts DEF OpenedFirst, BackendOfCloud
<1> QED
  BY <1>3, <1>4, ChoiceFacts DEF ChoiceInv, ProbeOfCloud, LocalReadsLocal, LastChoiceShown

\* Something is opened: only a file over what is shown.
LEMMA BeginChoice ==
    ASSUME ChoiceGiven, NEW i \in LoadIds, NEW kind \in Kinds, BeginLoading(i, kind)
    PROVE  ChoiceInv'
<1>1. /\ current' = i /\ (kind # "file" => data.source = "none")
      /\ backend' = (kind = "cloud")
      /\ UNCHANGED <<data, opened, tick, liveMeta, poll>>
  BY DEF BeginLoading, NewBackend
<1>2. loads'[i].kind = kind
  <2>1. loads' = [loads EXCEPT ![i] = Begun(kind, FirstStage(kind))]
    BY DEF BeginLoading
  <2> QED BY <2>1, ViewGiven, ChoiceFacts DEF Begun
<1>3. OpenedFirst' /\ BackendOfCloud'
  BY <1>1, <1>2 DEF OpenedFirst, BackendOfCloud
<1>4. LocalReadsLocal'
  BY <1>1 DEF LocalReadsLocal
<1> QED BY <1>1, <1>3, <1>4, ChoiceFacts
        DEF ChoiceInv, PolledIsShown, ProbeOfCloud, LastChoiceShown

\* A load that ends shows what was opened.
LEMMA InstallChoice ==
    ASSUME ChoiceGiven, NEW i \in LoadIds, Install(i)
    PROVE  ChoiceInv'
<1>1. /\ current = i /\ current' = 0 /\ i # 0
      /\ backend' = backend
      /\ data'.source = loads[i].kind /\ opened' = loads[i].kind
      /\ loads[i].kind # "cloud" => tick'.stopped
      /\ loads[i].kind # "portal" => liveMeta' = liveMeta
  BY InstallTypes, ViewNumbers, ChoiceFacts DEF Install, isCurrent, EndLoading
<1>2. loads[i].kind \in Kinds
  BY ViewGiven, ChoiceFacts DEF LoadsType
<1>3. PolledIsShown'
  <2>1. CASE loads[i].kind \in {"portal", "file"}
    BY <1>1, <2>1 DEF PolledIsShown
  <2>2. CASE loads[i].kind \in {"cloud", "demo"}
    <3>1. data.source = "none"
      BY <1>1, <2>2, ChoiceFacts DEF OpenedFirst
    <3>2. ~liveMeta.known /\ \A p \in Polls : poll[p].stage = "idle"
      BY <3>1, ChoiceFacts DEF PolledIsShown
    <3>3. poll' = poll \/ poll' = Inactive
      BY DEF Install
    <3>4. \A p \in Polls : poll'[p].stage = "idle"
      BY <3>2, <3>3, InactiveTypes, ViewGiven, ChoiceFacts
    <3> QED BY <1>1, <2>2, <3>2, <3>4 DEF PolledIsShown
  <2> QED BY <1>2, <2>1, <2>2 DEF Kinds
<1>4. LocalReadsLocal'
  BY <1>1, ChoiceFacts DEF BackendOfCloud, LocalReadsLocal
<1>5. OpenedFirst' /\ BackendOfCloud' /\ ProbeOfCloud' /\ LastChoiceShown'
  BY <1>1 DEF OpenedFirst, BackendOfCloud, ProbeOfCloud, LastChoiceShown
<1> QED BY <1>3, <1>4, <1>5 DEF ChoiceInv

\* A poll takes the page back, from a file at most.
LEMMA PollChoice ==
    ASSUME ChoiceGiven, NEW p \in Polls, PollInstalls(p)
    PROVE  ChoiceInv'
<1>1. /\ poll[p].stage # "idle" /\ UNCHANGED <<backend, loads, current, opened>>
      /\ data'.source = "portal" /\ tick'.stopped
  BY PollInstallTypes, ChoiceFacts DEF PollInstalls
<1>2. data.source \in {"portal", "file"}
  BY <1>1, ChoiceFacts DEF PolledIsShown
<1>3. OpenedFirst'
  BY <1>1, <1>2, ChoiceFacts DEF OpenedFirst
<1>4. LocalReadsLocal'
  BY <1>1, <1>2, ChoiceFacts DEF LocalReadsLocal
<1>5. LastChoiceShown'
  BY <1>1, <1>2, ChoiceFacts DEF LastChoiceShown
<1>6. PolledIsShown' /\ BackendOfCloud' /\ ProbeOfCloud'
  BY <1>1, ChoiceFacts DEF PolledIsShown, BackendOfCloud, ProbeOfCloud
<1> QED BY <1>3, <1>4, <1>5, <1>6 DEF ChoiceInv

\* The probe and the reloads replace the data server's data by its own.
LEMMA RefreshedChoice ==
    ASSUME ChoiceGiven, KindsKept,
           data' = data \/ (data'.source = "cloud" /\ ~tick.stopped),
           tick'.stopped = tick.stopped,
           UNCHANGED <<backend, liveMeta, loads, current, poll, opened>>
    PROVE  ChoiceInv'
<1>1. data'.source = data.source
  BY ChoiceFacts DEF ProbeOfCloud
<1> QED BY <1>1, ChoiceFacts DEF ChoiceInv, PolledIsShown, OpenedFirst, BackendOfCloud,
           ProbeOfCloud, LocalReadsLocal, LastChoiceShown

\* Every step.
LEMMA ChoiceStep ==
    ASSUME ChoiceGiven, [Next]_vars
    PROVE  ChoiceInv'
<1>1. ASSUME NEW i \in LoadIds, Opening(i) PROVE ChoiceInv'
  <2>1. CASE LoadFails(i)
    <3>1. KindsKept
      BY <1>1, OpeningTypes, ChoiceFacts
    <3>2. /\ current' = 0 /\ (backend' => backend)
          /\ UNCHANGED <<data, liveMeta, tick, opened>>
          /\ poll' = poll \/ poll' = Inactive
      BY <2>1 DEF LoadFails, EndLoading
    <3>3. \A p \in Polls : poll'[p].stage = poll[p].stage
      BY <3>2, InactiveTypes, ViewGiven, ChoiceFacts
    <3> QED BY <3>1, <3>2, <3>3, ChoiceKept
  <2> QED BY <1>1, <2>1, BeginChoice DEF Opening
<1>2. ASSUME NEW i \in LoadIds, Load(i) PROVE ChoiceInv'
  <2>1. CASE Install(i)
    BY <2>1, InstallChoice
  <2>2. CASE ~Install(i)
    <3>1. KindsKept
      BY <1>2, <2>2, LoadTypes, ChoiceFacts
    <3>2. /\ UNCHANGED <<data, backend, liveMeta, current, tick, opened>>
          /\ poll' = poll \/ poll' = Inactive
      BY <1>2, <2>2 DEF Load, Reached, FetchSnapshot, ReadServer, ReadFile, Converted, ReadDemo,
                        Abandon, viewVars
    <3>3. \A p \in Polls : poll'[p].stage = poll[p].stage
      BY <3>2, InactiveTypes, ViewGiven, ChoiceFacts
    <3> QED BY <3>1, <3>2, <3>3, ChoiceKept
  <2> QED BY <2>1, <2>2
<1>3. CASE CancelLoading
  <2>1. KindsKept
    BY <1>3, ButtonTypes, ChoiceFacts
  <2> QED BY <1>3, <2>1, ChoiceKept DEF CancelLoading, EndLoading
<1>4. CASE Disconnect
  <2>1. KindsKept
    BY <1>4, ButtonTypes, ChoiceFacts
  <2>2. \A p \in Polls : poll'[p].stage = poll[p].stage
    BY <1>4, InactiveTypes, ViewGiven, ChoiceFacts DEF Disconnect
  <2> QED BY <1>4, <2>1, <2>2, ChoiceKept DEF Disconnect, NoMeta
<1>5. ASSUME NEW p \in Polls, Polling(p) \/ PollFails(p) PROVE ChoiceInv'
  <2>1. CASE PollInstalls(p)
    BY <2>1, PollChoice
  <2>2. CASE ~PollInstalls(p)
    <3>1. KindsKept
      BY <1>5, <2>2, PollTypes, ChoiceFacts
    <3>2. UNCHANGED <<data, backend, liveMeta, current, tick, opened>>
      BY <1>5, <2>2 DEF Polling, FetchMeta, PollAnswered, PollFetchesSnapshot, PollFails, viewVars
    <3>3. \A q \in Polls : poll'[q].stage = "idle" \/ poll[q].stage # "idle" \/ liveMeta.known
      <4>1. CASE FetchMeta(p)
        BY <4>1 DEF FetchMeta
      <4>2. CASE PollAnswered(p)
        BY <4>2, ViewGiven, ChoiceFacts DEF PollAnswered
      <4>3. CASE PollFetchesSnapshot(p)
        BY <4>3 DEF PollFetchesSnapshot, viewVars
      <4>4. CASE PollFails(p)
        BY <4>4, ViewGiven, ChoiceFacts DEF PollFails, NoPoll
      <4> QED BY <1>5, <2>2, <4>1, <4>2, <4>3, <4>4 DEF Polling
    <3> QED BY <3>1, <3>2, <3>3, ChoiceKept
  <2> QED BY <2>1, <2>2
<1>6. CASE Tick \/ TickFails
  <2>1. UNCHANGED <<backend, liveMeta, loads, current, poll, opened>>
    BY <1>6 DEF Tick, Probe, Probed, TickReads, TickInstalls, Ticked, TickFails
  <2> QED BY <1>6, <2>1, TickTypes, RefreshedChoice, ChoiceFacts
<1>7. ASSUME NEW r \in Reloads, Reload(r) \/ ReloadFails(r) PROVE ChoiceInv'
  <2>1. UNCHANGED <<backend, liveMeta, loads, current, poll, tick, opened>>
    BY <1>7 DEF Reload, StartReload, ReloadReads, ReloadInstalls, ReloadFails
  <2> QED BY <1>7, <2>1, ReloadTypes, RefreshedChoice, ChoiceFacts
<1>8. CASE ServerRows \/ Edit \/ Portal \/ Builds \/ BuildFails \/ (\E c \in Clients : Wakes(c))
          \/ UNCHANGED vars
  BY <1>8, RemoteTypes, RefreshedChoice, ChoiceFacts
<1> QED BY <1>1, <1>2, <1>3, <1>4, <1>5, <1>6, <1>7, <1>8 DEF Next

\* The first state.
LEMMA ChoiceInit == Init => ChoiceInv
<1> SUFFICES ASSUME Init PROVE ChoiceInv
  OBVIOUS
<1>1. /\ data.source = "none" /\ opened = "none" /\ liveMeta = NoMeta /\ tick = NoTick
      /\ current = 1 /\ loads[1].kind = "cloud"
      /\ \A p \in Polls : poll[p].stage = "idle"
  <2>1. loads[1] = Begun("cloud", "pulling")
    BY ViewNumbers DEF Init
  <2>2. loads[1].kind = "cloud"
    BY <2>1 DEF Begun, NotBegun
  <2>3. \A p \in Polls : poll[p].stage = "idle"
    BY DEF Init, NoPoll
  <2> QED BY <2>2, <2>3 DEF Init
<1> QED BY <1>1, TickRecords DEF ChoiceInv, PolledIsShown, OpenedFirst, BackendOfCloud,
           ProbeOfCloud, LocalReadsLocal, LastChoiceShown, NoMeta

\* ChoiceInv holds in every reachable state.
LEMMA ChoiceHolds == Spec => []ChoiceInv
<1>1. ViewTyped /\ ChoiceInv /\ [Next]_vars => ChoiceInv'
  BY ChoiceStep DEF ChoiceGiven
<1> QED BY <1>1, ChoiceInit, ViewHolds, PTL DEF Spec

\* What is shown from a local copy is queried in the local copy, whatever loads,
\* polls, probes and reloads overlap, are cancelled or fail (App.tsx, beginLoading).
THEOREM LocalIsReadLocally == Spec => []LocalReadsLocal
<1>1. ChoiceInv => LocalReadsLocal
  BY DEF ChoiceInv
<1> QED BY <1>1, ChoiceHolds, PTL

\* What was opened last stays, but for a file opened over a portal that is still
\* polled: the poll in flight takes the page back (App.tsx, poll effect).
THEOREM LastChoiceStays == Spec => []LastChoiceShown
<1>1. ChoiceInv => LastChoiceShown
  BY DEF ChoiceInv
<1> QED BY <1>1, ChoiceHolds, PTL

\* The checklist that covers the page is that of the load that may change the
\* state, so Cancel works and the page is never covered for good.
THEOREM ChecklistOfCurrent == Spec => []ChecklistIsCurrent
<1>1. Init => ChecklistIsCurrent
  BY DEF Init, ChecklistIsCurrent
<1>2. ChecklistIsCurrent /\ [Next]_vars => ChecklistIsCurrent'
  <2> SUFFICES ASSUME ChecklistIsCurrent, [Next]_vars PROVE ChecklistIsCurrent'
    OBVIOUS
  <2>1. ASSUME NEW i \in LoadIds, Opening(i) \/ Load(i) PROVE ChecklistIsCurrent'
    BY <2>1 DEF Opening, Load, BeginLoading, LoadFails, Reached, FetchSnapshot, ReadServer,
                ReadFile, Converted, ReadDemo, Install, Abandon, EndLoading, isCurrent, viewVars,
                ChecklistIsCurrent
  <2>2. CASE CancelLoading \/ Disconnect
    BY <2>2 DEF CancelLoading, Disconnect, EndLoading, ChecklistIsCurrent
  <2>3. CASE UNCHANGED <<current, loading>>
    BY <2>3 DEF ChecklistIsCurrent
  <2>4. ASSUME NEW p \in Polls, Polling(p) \/ PollFails(p) PROVE UNCHANGED <<current, loading>>
    BY <2>4 DEF Polling, FetchMeta, PollAnswered, PollFetchesSnapshot, PollInstalls, PollFails,
                viewVars
  <2>5. CASE Tick \/ TickFails
    BY <2>3, <2>5 DEF Tick, Probe, Probed, TickReads, TickInstalls, Ticked, TickFails
  <2>6. ASSUME NEW r \in Reloads, Reload(r) \/ ReloadFails(r) PROVE UNCHANGED <<current, loading>>
    BY <2>6 DEF Reload, StartReload, ReloadReads, ReloadInstalls, ReloadFails
  <2>7. CASE ServerRows \/ Edit \/ Portal \/ Builds \/ BuildFails \/ (\E c \in Clients : Wakes(c))
          \/ UNCHANGED vars
    BY <2>3, <2>7 DEF ServerRows, Edit, Portal, Builds, BuildFails, Wakes, viewVars, vars
  <2> QED BY <2>1, <2>2, <2>3, <2>4, <2>5, <2>6, <2>7 DEF Next
<1> QED BY <1>1, <1>2, PTL DEF Spec
=============================================================================
