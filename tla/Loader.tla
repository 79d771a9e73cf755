------------------------------- MODULE Loader -------------------------------
(***************************************************************************)
(* Building what the pages show from a database (database.ts, buildLoaded, *)
(* LoadingProgress.tsx).  The vehicle's query runs first and alone, then   *)
(* the queries of all other sections together, at most Limit of them at a  *)
(* time at a data server; a local database answers at once.  Every query   *)
(* has a time limit, so each that runs is answered or fails in the end.    *)
(* A section that fails fails the load, and the queries it has begun or    *)
(* lined up run on for nobody.                                             *)
(***************************************************************************)
EXTENDS Naturals, Sequences

CONSTANTS
    Limit,          \* queries in flight at the server (remoteConcurrency)
    Metrics         \* bound: queries of one list of metrics (4 and 9 in the code)

ASSUME LoaderAssumption == Limit \in Nat \ {0} /\ Metrics \in Nat \ {0}

VARIABLES
    loadMode,   \* "closed", "remote" or "local"
    outcome,    \* "loading", "loaded", "failed" or "cancelled"
    steps,      \* the checklist: stages before the sections, and the sections
    checked,    \* the stages marked as done
    query,      \* what each query has come to
    line,       \* the queries waiting for a slot, in the order they asked
    active      \* the slots taken

loaderVars == <<loadMode, outcome, steps, checked, query, line, active>>

Sections == <<"vehicle", "drives", "driveStats", "places", "charges",
              "chargeStats", "incomplete">>
First == "vehicle"

\* driveStats asks two lists of metrics together, incomplete two tables.
Width(section) ==
    CASE section = "driveStats" -> 2 * Metrics
      [] section = "chargeStats" -> Metrics
      [] section = "incomplete" -> 2
      [] OTHER -> 1

QueriesOf(section) == {<<section, k>> : k \in 1 .. Width(section)}
Queries == UNION {QueriesOf(Sections[i]) : i \in DOMAIN Sections}
Fates == {"unasked", "waiting", "running", "answered", "failed"}

\* All sections but the first, in the order Promise.all calls them.
CallOrder ==
    LET Calls[i \in 1 .. Len(Sections)] ==
          IF i = 1 THEN <<>>
          ELSE Calls[i - 1] \o [k \in 1 .. Width(Sections[i]) |-> <<Sections[i], k>>]
    IN Calls[Len(Sections)]

\* Stages of the checklist before the sections: none for the data server,
\* "download" for the sample, "status" and "download" for a portal, "read"
\* for an opened file.
Prefixes == {<<>>, <<"download">>, <<"status", "download">>, <<"read">>}

LoaderInit ==
    /\ loadMode = "closed" /\ outcome = "cancelled"
    /\ steps = <<>> /\ checked = {}
    /\ query = [q \in Queries |-> "unasked"]
    /\ line = <<>> /\ active = 0

Done(section, fates) == \A q \in QueriesOf(section) : fates[q] = "answered"
Failed(fates) == \E q \in Queries : fates[q] = "failed"

\* What follows from the queries' fates: Promise.all, track and the catch.
Settled(fates) ==
    /\ query' = fates
    /\ checked' = IF outcome # "loading" THEN checked
                  ELSE checked \cup {s \in {Sections[i] : i \in DOMAIN Sections} :
                                        Done(s, fates)}
    /\ outcome' = CASE outcome # "loading" -> outcome
                    [] Failed(fates) -> "failed"
                    [] \A q \in Queries : fates[q] = "answered" -> "loaded"
                    [] OTHER -> outcome

-----------------------------------------------------------------------------
BeginLoad(mode, prefix) ==
    /\ loadMode = "closed"
    /\ mode = "remote" <=> prefix = <<>>
    /\ loadMode' = mode /\ outcome' = "loading"
    /\ steps' = prefix \o Sections /\ checked' = {}
    /\ query' = [q \in Queries |-> "unasked"]
    /\ line' = <<>> /\ active' = 0

\* The stages before the sections, one after the other; each may fail.
Prefix == SubSeq(steps, 1, Len(steps) - Len(Sections))

MarkLoaded(i) ==
    /\ loadMode # "closed" /\ outcome = "loading"
    /\ i \in DOMAIN Prefix /\ Prefix[i] \notin checked
    /\ \A j \in 1 .. i - 1 : Prefix[j] \in checked
    /\ checked' = checked \cup {Prefix[i]}
    /\ UNCHANGED <<loadMode, outcome, steps, query, line, active>>

PrefixFails ==
    /\ loadMode # "closed" /\ outcome = "loading"
    /\ \E i \in DOMAIN Prefix : Prefix[i] \notin checked
    /\ outcome' = "failed"
    /\ UNCHANGED <<loadMode, steps, checked, query, line, active>>

Ready(i) == i \in DOMAIN Prefix => Prefix[i] \in checked

\* openDatabaseBytes: a file without the tables and columns is refused; then
\* every query answers as it is asked, the vehicle's first.
OpenBytes ==
    /\ loadMode = "local" /\ outcome = "loading"
    /\ \A i \in DOMAIN Prefix : Ready(i)
    /\ \/ outcome' = "failed" /\ UNCHANGED <<checked, query>>
       \/ Settled([q \in Queries |-> IF q[1] = First THEN "failed" ELSE "unasked"])
       \/ \E lost \in {{}} \cup {{q} : q \in Queries \ QueriesOf(First)} :
             Settled([q \in Queries |-> IF q \in lost THEN "failed" ELSE "answered"])
    /\ UNCHANGED <<loadMode, steps, line, active>>

\* Off by one.
HasSlotMutEqual(taken) == taken <= Limit

\* limitConcurrency, for a number of calls made in one go.
HasSlot(taken) == taken < Limit

Admitted(calls) ==
    LET Take[k \in 0 .. Len(calls)] ==
          IF k = 0 THEN active
          ELSE IF HasSlot(Take[k - 1]) THEN Take[k - 1] + 1 ELSE Take[k - 1]
    IN Take[Len(calls)] - active

Call(calls) ==
    LET n == Admitted(calls) IN
    /\ active' = active + n
    /\ line' = line \o SubSeq(calls, n + 1, Len(calls))
    /\ query' = [q \in Queries |->
          IF \E k \in 1 .. n : calls[k] = q THEN "running"
          ELSE IF \E k \in n + 1 .. Len(calls) : calls[k] = q THEN "waiting"
          ELSE query[q]]

AskFirst ==
    /\ loadMode = "remote" /\ outcome = "loading"
    /\ query[<<First, 1>>] = "unasked"
    /\ Call(<< <<First, 1>> >>)
    /\ UNCHANGED <<loadMode, outcome, steps, checked>>

\* As if the checklist moved on before the first answer.
MayAskRestMutEarly == query[<<First, 1>>] # "unasked"

MayAskRest == First \in checked

AskRest ==
    /\ loadMode = "remote" /\ outcome = "loading"
    /\ MayAskRest /\ query[CallOrder[1]] = "unasked"
    /\ Call(CallOrder)
    /\ UNCHANGED <<loadMode, outcome, steps, checked>>

\* As if a finished request kept its slot.
HandsOverMutNever == FALSE

\* A query that ends hands its slot to the first that waits.
HandsOver == line # <<>>

Answer(q, fate) ==
    /\ query[q] = "running"
    /\ IF HandsOver
       THEN /\ line' = Tail(line)
            /\ Settled([query EXCEPT ![q] = fate, ![Head(line)] = "running"])
            /\ UNCHANGED active
       ELSE /\ active' = active - 1
            /\ Settled([query EXCEPT ![q] = fate])
            /\ UNCHANGED line
    /\ UNCHANGED <<loadMode, steps>>

\* The Cancel button aborts every request in flight; those still lined up
\* fail as they get their turn, at once.
Cancel ==
    /\ loadMode # "closed" /\ outcome = "loading"
    /\ outcome' = "cancelled"
    /\ query' = [q \in Queries |-> IF query[q] \in {"running", "waiting"}
                                   THEN "failed" ELSE query[q]]
    /\ line' = <<>> /\ active' = 0
    /\ UNCHANGED <<loadMode, steps, checked>>

\* The checklist goes once there is an outcome.  Queries that still run
\* after it hold slots of their own load only, and change nothing here: the
\* next load is begun when they are over.
CloseLoader ==
    /\ loadMode # "closed" /\ outcome # "loading"
    /\ \A q \in Queries : query[q] \notin {"waiting", "running"}
    /\ loadMode' = "closed" /\ outcome' = "cancelled"
    /\ steps' = <<>> /\ checked' = {}
    /\ query' = [q \in Queries |-> "unasked"]
    /\ UNCHANGED <<line, active>>

Answers == \E q \in Queries, fate \in {"answered", "failed"} : Answer(q, fate)

LoaderProgress ==
    \/ \E i \in 1 .. 2 : MarkLoaded(i)
    \/ PrefixFails \/ OpenBytes \/ AskFirst \/ AskRest \/ Answers

LoaderNext ==
    \/ \E mode \in {"remote", "local"}, prefix \in Prefixes : BeginLoad(mode, prefix)
    \/ LoaderProgress \/ Cancel \/ CloseLoader

-----------------------------------------------------------------------------
(* LoadingProgress: what the checklist says of a stage. *)

FirstPending == CHOOSE i \in 1 .. Len(steps) + 1 :
    /\ i <= Len(steps) => steps[i] \notin checked
    /\ \A j \in 1 .. i - 1 : steps[j] \in checked

ParallelFrom == (CHOOSE i \in DOMAIN steps : steps[i] = First) + 1

isActive(i) ==
    /\ steps[i] \notin checked
    /\ i = FirstPending \/ (FirstPending >= ParallelFrom /\ i >= ParallelFrom)

Shown(i) == IF steps[i] \in checked THEN "done"
            ELSE IF isActive(i) THEN "active" ELSE "pending"

LoaderTypeOK ==
    /\ loadMode \in {"closed", "remote", "local"}
    /\ outcome \in {"loading", "loaded", "failed", "cancelled"}
    /\ steps \in {<<>>} \cup {p \o Sections : p \in Prefixes}
    /\ checked \subseteq {steps[i] : i \in DOMAIN steps}
    /\ query \in [Queries -> Fates]
    /\ \A i \in DOMAIN line : query[line[i]] = "waiting"
    /\ active \in 0 .. Limit

(* The checklist is honest: a section shown as done has all its rows, one   *)
(* shown as pending has asked for none, and while sections are in progress  *)
(* all of those that are under way are shown so.                            *)
ChecklistHonest ==
    loadMode = "remote" /\ outcome = "loading" =>
        \A i \in DOMAIN steps :
            LET fates == {query[q] : q \in QueriesOf(steps[i])} IN
            CASE Shown(i) = "done" -> fates = {"answered"}
              [] Shown(i) = "pending" -> fates = {"unasked"}
              [] Shown(i) = "active" -> fates # {"answered"}

(* A load ends: no query is left without a slot for good, and no failure    *)
(* leaves the checklist over the page.                                      *)
LoadEnds == (outcome = "loading") ~> (outcome # "loading")
=============================================================================
