------------------------------- MODULE Screens -------------------------------
(***************************************************************************)
(* The viewer's pages one after another (App.tsx, DashboardContent): a     *)
(* TeslaMate dump may be converted, a database is loaded behind the        *)
(* checklist, then one page at a time is mounted, a table of drives or     *)
(* charges or a page of queries, or the time range is changed.             *)
(*                                                                         *)
(* A page that is left forgets its state, as unmounting does.  The range   *)
(* too begins anew, which the program keeps: what the pages take from it,  *)
(* the rows that pass and the version to show, is an input of theirs here, *)
(* so that only the component in use has a state.                          *)
(***************************************************************************)
EXTENDS DumpImport, Loader, RowSelection, PanelQueries, TimeRange

VARIABLES
    screen,     \* what is in use
    hasData     \* a database has been loaded

screenVars == <<screen, hasData>>
vars == <<dumpVars, loaderVars, rowVars, panelVars, timeVars, screenVars>>

ScreenNames == {"import", "loader", "table", "page", "picker"}

Init ==
    /\ DumpInit /\ LoaderInit /\ RowsInit /\ PanelInit /\ TimeInit
    /\ screen = "loader" /\ hasData = FALSE

\* The routing of DashboardContent.  A page unmounts as it is left.
AtRest ==
    CASE screen = "import" -> stage \in {"idle", "converted"}
      [] screen = "loader" -> loadMode = "closed"
      [] screen = "page" -> page = "none"
      [] screen = "picker" -> ~open
      [] OTHER -> TRUE

Navigate(to_) ==
    /\ to_ # screen /\ AtRest
    /\ to_ \in {"table", "page", "picker"} => hasData
    /\ stage = "converted" => to_ = "loader"
    /\ screen' = to_
    /\ IF screen = "import" THEN CloseDump ELSE UNCHANGED dumpVars
    /\ IF screen = "table"
       THEN /\ listed' = Rows /\ passing' = Rows /\ sort' = "time"
            /\ descending' = TRUE /\ selected' = {} /\ anchor' = 0
       ELSE UNCHANGED rowVars
    /\ IF screen = "picker"
       THEN \E q \in Quick : settings' = QuickRange(q) /\ recent' = <<>>
                             /\ now' = EndOf(LastDay) - 1
                             /\ UNCHANGED <<open, from, to, refused, calendarFor>>
       ELSE UNCHANGED timeVars
    /\ UNCHANGED <<loaderVars, panelVars, hasData>>

Import ==
    /\ screen = "import" /\ DumpNext
    /\ UNCHANGED <<loaderVars, rowVars, panelVars, timeVars, screenVars>>

Loading ==
    /\ screen = "loader" /\ LoaderNext
    /\ hasData' = (hasData \/ outcome' = "loaded")
    /\ UNCHANGED <<dumpVars, rowVars, panelVars, timeVars, screen>>

Table ==
    /\ screen = "table" /\ RowsNext
    /\ UNCHANGED <<dumpVars, loaderVars, panelVars, timeVars, screenVars>>

Page ==
    /\ screen = "page" /\ PanelNext
    /\ UNCHANGED <<dumpVars, loaderVars, rowVars, timeVars, screenVars>>

Picker ==
    /\ screen = "picker" /\ TimeNext
    /\ UNCHANGED <<dumpVars, loaderVars, rowVars, panelVars, screenVars>>

Next ==
    \/ \E to_ \in ScreenNames : Navigate(to_)
    \/ Import \/ Loading \/ Table \/ Page \/ Picker

\* Requests are answered or given up.
Fairness ==
    /\ WF_vars(Loading /\ LoaderProgress)
    /\ WF_vars(Page /\ PanelProgress)

Spec == Init /\ [][Next]_vars /\ Fairness

(* Every variable has its type. *)
TypeOK == DumpTypeOK /\ LoaderTypeOK /\ RowsTypeOK /\ PanelTypeOK /\ TimeTypeOK /\ screen \in ScreenNames
=============================================================================
