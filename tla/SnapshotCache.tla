---------------------------- MODULE SnapshotCache ----------------------------
(***************************************************************************)
(* The portal's snapshot cache (internal/portal, snapshotCache).  One      *)
(* build at a time copies the live database into a file; who asks while a  *)
(* build runs waits for it, whatever its signature; a finished file is     *)
(* served for as long as its signature is that of the live database.  The  *)
(* background refresh asks too, and discards what it gets: it is known by   *)
(* the builds it begins.                                                   *)
(*                                                                         *)
(* Of the database two counters are kept: trips, the closed drives and     *)
(* charges the signature is made of, and points, the positions it leaves   *)
(* out.  Reading the signature and taking the lock are one step.           *)
(***************************************************************************)
EXTENDS Naturals

CONSTANTS
    Clients,        \* who downloads snapshots
    MaxChanges,     \* bound: changes of the databases
    MaxFaults,      \* bound: calls and builds that fail
    MaxEvents       \* bound: changes and failures together

ASSUME CacheAssumption == MaxChanges \in Nat /\ MaxFaults \in Nat /\ MaxEvents \in Nat

VARIABLES
    portal,     \* the live database
    ready,      \* the newest snapshot file and the signature it was built for
    build,      \* the build in flight
    request,    \* what each client's /download request has come to
    changes,    \* how often a database has changed
    faults      \* how many calls have failed

cacheVars == <<portal, ready, build, request>>

Contents == [trips: 0 .. MaxChanges, points: 0 .. MaxChanges]
Empty == [trips |-> 0, points |-> 0]

Signatures == 0 .. MaxChanges
NoFile == [built |-> FALSE, sig |-> 0, got |-> Empty]
NoBuild == [running |-> FALSE, read |-> FALSE, sig |-> 0, got |-> Empty]

\* "own": runs the build; "waiting": for another's; "woken": that one is over;
\* "sending": has the path of the newest file, and perhaps opened it; "holding":
\* has opened a file that was removed since; "gone": it was removed before it
\* was opened; "failed": an error.
Stages == {"none", "own", "waiting", "woken", "sending", "holding", "gone", "failed"}
NoRequest == [stage |-> "none", hit |-> FALSE, asked |-> 0, got |-> Empty]

\* As if two counters were run together.
SignatureMutJoined == 10 * portal.trips + portal.points

Signature == portal.trips

CacheInit ==
    /\ portal = Empty
    /\ ready = NoFile
    /\ build = NoBuild
    /\ request = [c \in Clients |-> NoRequest]
    /\ changes = 0
    /\ faults = 0

MayChange == changes < MaxChanges /\ changes + faults < MaxEvents
Fault == faults < MaxFaults /\ changes + faults < MaxEvents /\ faults' = faults + 1

-----------------------------------------------------------------------------
(* The daemon's writes. *)

CloseTrip ==
    /\ MayChange
    /\ portal' = [portal EXCEPT !.trips = @ + 1]
    /\ changes' = changes + 1

AddPosition ==
    /\ MayChange
    /\ portal' = [portal EXCEPT !.points = @ + 1]
    /\ changes' = changes + 1

-----------------------------------------------------------------------------
(* get, in the order of its locked sections. *)

Fresh == ready.built /\ ready.sig = Signature

Asked(stage, hit) ==
    [stage |-> stage, hit |-> hit, asked |-> IF hit THEN portal.trips ELSE 0,
     got |-> IF stage = "sending" THEN ready.got ELSE Empty]

BeginBuild == build' = [NoBuild EXCEPT !.running = TRUE, !.sig = Signature]

Ask(c) ==
    /\ request[c].stage = "none"
    /\ \/ /\ Fresh
          /\ request' = [request EXCEPT ![c] = Asked("sending", TRUE)]
          /\ UNCHANGED build
       \/ /\ ~Fresh /\ build.running
          /\ request' = [request EXCEPT ![c] = Asked("waiting", FALSE)]
          /\ UNCHANGED build
       \/ /\ ~Fresh /\ ~build.running
          /\ request' = [request EXCEPT ![c] = Asked("own", TRUE)]
          /\ BeginBuild
    /\ UNCHANGED <<portal, ready>>

Refresh ==
    /\ ~Fresh /\ ~build.running
    /\ BeginBuild
    /\ UNCHANGED <<portal, ready, request>>

\* VACUUM INTO reads the database at one moment, after the signature.
ReadDatabase ==
    /\ build.running /\ ~build.read
    /\ build' = [build EXCEPT !.read = TRUE, !.got = portal]
    /\ UNCHANGED <<portal, ready, request>>

\* As if the signature were taken when the file is done.
BuiltSignatureMutLate == Signature

BuiltSignature == build.sig

\* What the end of a build makes of a request.
Replaced(q, unopened) ==
    CASE q.stage = "own" -> [q EXCEPT !.stage = "sending", !.got = build.got]
      [] q.stage = "waiting" -> [q EXCEPT !.stage = "woken"]
      [] q.stage = "sending" /\ unopened -> [NoRequest EXCEPT !.stage = "gone"]
      [] q.stage = "sending" /\ ~unopened -> [q EXCEPT !.stage = "holding"]
      [] OTHER -> q

\* The path is replaced, then the previous file is removed, under whoever
\* has its path and has not opened it; who has opened it goes on sending it.
FinishBuild ==
    /\ build.read
    /\ ready' = [built |-> TRUE, sig |-> BuiltSignature, got |-> build.got]
    /\ build' = NoBuild
    /\ \E unopened \in SUBSET {c \in Clients : request[c].stage = "sending"} :
          request' = [c \in Clients |-> Replaced(request[c], c \in unopened)]
    /\ UNCHANGED portal

\* The owner of a failed build gets the error.
FailBuild ==
    /\ build.running /\ Fault
    /\ build' = NoBuild
    /\ request' = [c \in Clients |->
          CASE request[c].stage = "own" -> [NoRequest EXCEPT !.stage = "failed"]
            [] request[c].stage = "waiting" -> [request[c] EXCEPT !.stage = "woken"]
            [] OTHER -> request[c]]
    /\ UNCHANGED <<portal, ready>>

Build == ReadDatabase \/ FinishBuild

\* Who waited gets the file there is by then, the previous one without an
\* error if the build failed, and the error when there is no file.
Wake(c) ==
    /\ request[c].stage = "woken"
    /\ request' = [request EXCEPT ![c] =
          IF ready.built THEN [request[c] EXCEPT !.stage = "sending", !.got = ready.got]
          ELSE [NoRequest EXCEPT !.stage = "failed"]]
    /\ UNCHANGED <<portal, ready, build>>

\* A client that has its answer, or hangs up: a build goes on without it.
Leave(c) == request' = [request EXCEPT ![c] = NoRequest]

Delivered(c) == request[c].stage \in {"sending", "holding"}
Refused(c) == request[c].stage \in {"gone", "failed"}
-----------------------------------------------------------------------------
CacheTypeOK ==
    /\ portal \in Contents
    /\ ready \in [built: BOOLEAN, sig: Signatures, got: Contents]
    /\ build \in [running: BOOLEAN, read: BOOLEAN, sig: Signatures, got: Contents]
    /\ request \in [Clients -> [stage: Stages, hit: BOOLEAN,
                                asked: Signatures, got: Contents]]
    /\ changes \in 0 .. MaxChanges
    /\ faults \in 0 .. MaxFaults

(* A snapshot taken from the cache, or built for the client that asked,    *)
(* holds every trip that was closed when it asked (snapshotCache.get: "a   *)
(* ready snapshot whose signature still matches").  Who waited for         *)
(* another's build is not promised that.                                   *)
ServedFresh ==
    \A c \in Clients :
        Delivered(c) /\ request[c].hit => request[c].got.trips >= request[c].asked
=============================================================================
