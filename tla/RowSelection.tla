---------------------------- MODULE RowSelection ----------------------------
(***************************************************************************)
(* The Drives and Charges tables (App.tsx) and their selection             *)
(* (useRowSelection.ts, SelectionBanner.tsx).  The filters and the sort    *)
(* decide which rows are shown and in which order; clicks, shift-clicks,   *)
(* the header box and Escape act on what is shown.                         *)
(*                                                                         *)
(* A filter is the set of rows it lets through, a sort key one order of    *)
(* all rows: two rows never tie.                                           *)
(***************************************************************************)
EXTENDS Naturals, Sequences, FiniteSets

CONSTANTS
    Rows,           \* identities of rows, numbered
    SortKeys        \* the columns a table may be sorted by

ASSUME RowAssumption ==
    /\ IsFiniteSet(Rows) /\ Rows \subseteq Nat \ {0}
    /\ "time" \in SortKeys

VARIABLES
    listed,     \* the rows the loaded database lists
    passing,    \* the rows the filters and the time window let through
    sort,       \* the sort key
    descending,
    selected,   \* the selection, by identity
    anchor      \* the row of the last click, 0 when there is none

rowVars == <<listed, passing, sort, descending, selected, anchor>>

\* Two orders tell the keys apart: by number and, for any other key, with
\* the odd rows first.
Before(key, a, b) ==
    IF key = "time" \/ a % 2 = b % 2 THEN a < b ELSE a % 2 > b % 2

Ordered(rows, key, desc) ==
    CHOOSE s \in [1 .. Cardinality(rows) -> rows] :
        \A i, j \in DOMAIN s : i < j => IF desc THEN Before(key, s[j], s[i])
                                                ELSE Before(key, s[i], s[j])

Visible == listed \cap passing
Order == Ordered(Visible, sort, descending)
IndexOf(row) == CHOOSE i \in DOMAIN Order : Order[i] = row

RowsInit ==
    /\ listed = Rows /\ passing = Rows
    /\ sort = "time" /\ descending = TRUE
    /\ selected = {} /\ anchor = 0

-----------------------------------------------------------------------------
\* A poll, a probe or an edit brings new data: rows appear and disappear.
Reloaded(rows) ==
    /\ listed' = rows
    /\ UNCHANGED <<passing, sort, descending, selected, anchor>>

Filter(rows) ==
    /\ passing' = rows
    /\ UNCHANGED <<listed, sort, descending, selected, anchor>>

toggleSort(key) ==
    /\ sort' = key
    /\ descending' = (sort = key /\ ~descending)
    /\ UNCHANGED <<listed, passing, selected, anchor>>

\* selectRange, the anchor read before it moves.
Between(from, to) ==
    {r \in Visible : \/ IndexOf(from) <= IndexOf(r) /\ IndexOf(r) <= IndexOf(to)
                     \/ IndexOf(to) <= IndexOf(r) /\ IndexOf(r) <= IndexOf(from)}

selectRange(from, target) ==
    IF from \in Visible THEN Between(from, target) ELSE {target}

toggle(row, extend) ==
    /\ row \in Visible
    /\ LET affected == selectRange(IF extend THEN anchor ELSE 0, row)
       IN selected' = IF row \in selected THEN selected \ affected
                                          ELSE selected \cup affected
    /\ anchor' = row
    /\ UNCHANGED <<listed, passing, sort, descending>>

visibleSelected == selected \cap Visible
hiddenCount == Cardinality(selected \ Visible)

allState == IF visibleSelected = {} THEN "none"
            ELSE IF visibleSelected = Visible THEN "all" ELSE "some"

\* As if the header box cleared everything.
AllToggledMutClears == IF allState = "all" THEN {} ELSE selected \cup Visible

AllToggled == IF allState = "all" THEN selected \ Visible ELSE selected \cup Visible

toggleAll ==
    /\ selected' = AllToggled
    /\ anchor' = 0
    /\ UNCHANGED <<listed, passing, sort, descending>>

\* The banner's button, shown while a visible row is selected, and Escape.
clear ==
    /\ selected # {}
    /\ selected' = {} /\ anchor' = 0
    /\ UNCHANGED <<listed, passing, sort, descending>>

Clicks == (\E row \in Rows, extend \in BOOLEAN : toggle(row, extend)) \/ toggleAll

RowsNext ==
    \/ \E rows \in SUBSET Rows : Reloaded(rows) \/ Filter(rows)
    \/ \E key \in SortKeys : toggleSort(key)
    \/ \E row \in Rows, extend \in BOOLEAN : toggle(row, extend)
    \/ toggleAll
    \/ clear

-----------------------------------------------------------------------------
RowsTypeOK ==
    /\ listed \subseteq Rows /\ passing \subseteq Rows
    /\ sort \in SortKeys /\ descending \in BOOLEAN
    /\ selected \subseteq Rows /\ anchor \in Rows \cup {0}

(* No click changes whether a row that is not shown is selected, wherever   *)
(* the last click was and however the table was sorted, filtered and        *)
(* reloaded since (useRowSelection.ts: "rows hidden by a filter stay        *)
(* selected", "clear them (and only them)").                                *)
HiddenUntouched ==
    [][Clicks => selected' \ Visible = selected \ Visible]_rowVars
=============================================================================
