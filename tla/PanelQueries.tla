---------------------------- MODULE PanelQueries ----------------------------
(***************************************************************************)
(* A page's queries and what it shows of them: useResults and the detail   *)
(* pages (SpecialDashboards.tsx), the catalog's pages                      *)
(* (GenericDashboard.tsx) and the speed profile (App.tsx), over            *)
(* executeQueries (database.ts) and runRemoteQueries (remoteBackend.ts).   *)
(*                                                                         *)
(* A version stands for what a page is asked to show: a database together  *)
(* with the settings.  A change of either asks anew and turns the request  *)
(* before it inactive; the answers of a page all come, in any order.  An   *)
(* answer is known by the number of its query.                             *)
(***************************************************************************)
EXTENDS Naturals, Sequences, Functions

CONSTANTS
    PanelWidths,    \* how many queries each panel of the page has
    MaxVersions     \* bound: versions asked for while a page is open

ASSUME PanelAssumption ==
    /\ PanelWidths \in Seq(Nat \ {0}) /\ Len(PanelWidths) > 0
    /\ MaxVersions \in Nat \ {0}

VARIABLES
    page,       \* the kind of page that is open, "none" if none
    wanted,     \* the version it is asked to show
    request,    \* the requests of the page, one for each version
    shown,      \* the version whose answers are kept, 0 for none
    panels,     \* what each panel shows
    failure,    \* the version whose error is kept, 0 for none
    busyFlag    \* the loading flag, of the pages that have one

panelVars == <<page, wanted, request, shown, panels, failure, busyFlag>>

PageKinds == {"results", "generic", "details", "histogram"}
Versions == 1 .. MaxVersions
Panels == DOMAIN PanelWidths
Offset[p \in Panels] == IF p = 1 THEN 0 ELSE Offset[p - 1] + PanelWidths[p - 1]
PanelQueryIds == 1 .. Offset[Len(PanelWidths)] + PanelWidths[Len(PanelWidths)]

\* Where executeQueries runs: at the data server, in the local copy, or
\* nowhere when the server's data is shown without a connection to it.
Places == {"remote", "local", "unconnected"}
NoAnswers == [q \in PanelQueryIds |-> 0]
NoRequest == [place |-> "local", stage |-> "none", answers |-> NoAnswers]
NoPanels == [p \in Panels |-> <<>>]

PanelInit ==
    /\ page = "none" /\ wanted = 0
    /\ request = [v \in Versions |-> NoRequest]
    /\ shown = 0 /\ panels = NoPanels /\ failure = 0 /\ busyFlag = FALSE

-----------------------------------------------------------------------------
HasFlag(kind) == kind \in {"results", "generic"}

\* The effect of a page: its queries run anew.
Ask(v, place) ==
    request' = [request EXCEPT ![v] = [place |-> place, stage |-> "running",
                                       answers |-> NoAnswers]]

Mount(kind, place) ==
    /\ page = "none"
    /\ page' = kind /\ wanted' = 1
    /\ Ask(1, place)
    /\ busyFlag' = HasFlag(kind)
    /\ UNCHANGED <<shown, panels, failure>>

\* New settings, or another database behind the same page.
Want(place) ==
    /\ page # "none" /\ wanted < MaxVersions
    /\ wanted' = wanted + 1
    /\ Ask(wanted + 1, place)
    /\ busyFlag' = HasFlag(page)
    /\ UNCHANGED <<page, shown, panels, failure>>

\* saveCost of a charge's page clears the error and asks again.
AskAgain(place) ==
    /\ page = "details" /\ wanted < MaxVersions
    /\ wanted' = wanted + 1
    /\ Ask(wanted + 1, place)
    /\ failure' = 0
    /\ UNCHANGED <<page, shown, panels, busyFlag>>

Unmount ==
    /\ page # "none"
    /\ page' = "none" /\ wanted' = 0
    /\ request' = [v \in Versions |-> NoRequest]
    /\ shown' = 0 /\ panels' = NoPanels /\ failure' = 0 /\ busyFlag' = FALSE

-----------------------------------------------------------------------------
\* As if answers were numbered as they arrive.
PlacedMutArrival(answers, q) ==
    LET free == {i \in PanelQueryIds : answers[i] = 0}
    IN [answers EXCEPT ![CHOOSE i \in free : \A j \in free : i <= j] = q]

\* Promise.all keeps the order of the queries, not that of the answers.
Placed(answers, q) == [answers EXCEPT ![q] = q]

Slices(results) ==
    [p \in Panels |-> [i \in 1 .. PanelWidths[p] |-> results[Offset[p] + i]]]

\* One answer of the data server, rows or the reason why there are none.
AnswerOf(v, q) ==
    /\ request[v].stage = "running" /\ request[v].place = "remote"
    /\ q \notin Range(request[v].answers)
    /\ request' = [request EXCEPT ![v].answers = Placed(@, q)]
    /\ UNCHANGED <<page, wanted, shown, panels, failure, busyFlag>>

Answered(v) ==
    /\ request[v].stage = "running"
    /\ request[v].place = "remote" => 0 \notin Range(request[v].answers)

\* As if the answers of a page's earlier run were taken.
StillActiveMutAny(v) == TRUE

\* The clean-up of the effect: only the last request of an open page counts.
StillActive(v) == v = wanted

Close(v) == request' = [request EXCEPT ![v] = [NoRequest EXCEPT !.stage = "done"]]

Succeeds(v) ==
    /\ Answered(v)
    /\ Close(v)
    /\ IF StillActive(v)
       THEN /\ shown' = v
            /\ panels' = Slices(IF request[v].place = "remote" THEN request[v].answers
                                ELSE [q \in PanelQueryIds |-> q])
            /\ failure' = IF page \in {"results", "histogram"} THEN 0 ELSE failure
            /\ busyFlag' = FALSE
       ELSE UNCHANGED <<shown, panels, failure, busyFlag>>
    /\ UNCHANGED <<page, wanted>>

\* sql.js could not be opened; of the speed profile also any query's error.
Fails(v) ==
    /\ Answered(v)
    /\ request[v].place = "local" \/ page = "histogram"
    /\ Close(v)
    /\ IF StillActive(v)
       THEN /\ failure' = v
            /\ busyFlag' = FALSE
            /\ shown' = IF page = "histogram" THEN 0 ELSE shown
            /\ panels' = IF page = "histogram" THEN NoPanels ELSE panels
       ELSE UNCHANGED <<shown, panels, failure, busyFlag>>
    /\ UNCHANGED <<page, wanted>>

PanelProgress ==
    \E v \in Versions : Succeeds(v) \/ Fails(v) \/ \E q \in PanelQueryIds : AnswerOf(v, q)

PanelNext ==
    \/ \E place \in Places :
          (\E kind \in PageKinds : Mount(kind, place)) \/ Want(place) \/ AskAgain(place)
    \/ PanelProgress
    \/ Unmount

-----------------------------------------------------------------------------
\* What is on the screen: the speed profile only of what is wanted.
Displayed == IF page = "histogram" /\ shown # wanted THEN 0 ELSE shown

PanelTypeOK ==
    /\ page \in PageKinds \cup {"none"}
    /\ wanted \in 0 .. MaxVersions
    /\ request \in [Versions -> [place: Places, stage: {"none", "running", "done"},
                                 answers: [PanelQueryIds -> PanelQueryIds \cup {0}]]]
    /\ shown \in 0 .. MaxVersions /\ failure \in 0 .. MaxVersions
    /\ DOMAIN panels = Panels /\ busyFlag \in BOOLEAN

(* A page that says neither that it is busy nor that it failed shows what   *)
(* it is asked for: no late answer of other settings or another database    *)
(* (App.tsx: "a stale answer from another database or range is never        *)
(* shown").  The detail pages have no flag and promise less.                *)
IdleShowsWanted ==
    /\ HasFlag(page) /\ ~busyFlag /\ failure = 0 => shown = wanted
    /\ page = "histogram" => Displayed \in {0, wanted}

(* Every panel shows the answers of its own queries, whichever came first.  *)
OwnAnswers ==
    \A p \in Panels : panels[p] # <<>> =>
        panels[p] = [i \in 1 .. PanelWidths[p] |-> Offset[p] + i]

=============================================================================
