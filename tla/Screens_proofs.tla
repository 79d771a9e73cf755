---------------------------- MODULE Screens_proofs ----------------------------
(***************************************************************************)
(* Theorems about what the pages do, for any rows, dumps and number of     *)
(* cars, positions and panels: the selection of rows, and the conversion   *)
(* of a TeslaMate dump.                                                    *)
(***************************************************************************)
EXTENDS Screens, DumpImport_proofs

-----------------------------------------------------------------------------
(* The selection.  It needs no invariant: whatever is selected, clicks act  *)
(* on rows that are shown.                                                  *)

(* A range of rows, or the one that was clicked, is shown.                  *)
LEMMA RangeIsShown ==
    ASSUME NEW first, NEW target \in Visible
    PROVE  selectRange(first, target) \subseteq Visible
BY DEF selectRange, Between

(* No click changes whether a hidden row is selected.                       *)
LEMMA ClicksSpareHidden ==
    ASSUME Clicks
    PROVE  selected' \ Visible = selected \ Visible
<1>1. CASE \E row \in Rows, extend \in BOOLEAN : toggle(row, extend)
  <2>1. PICK row \in Rows, extend \in BOOLEAN : toggle(row, extend)
    BY <1>1
  <2> DEFINE affected == selectRange(IF extend THEN anchor ELSE 0, row)
  <2>2. affected \subseteq Visible
    <3>1. row \in Visible
      BY <2>1 DEF toggle
    <3> QED
      BY <3>1, RangeIsShown
  <2>3. selected' = IF row \in selected THEN selected \ affected ELSE selected \cup affected
    BY <2>1 DEF toggle
  <2> HIDE DEF affected
  <2> QED
    BY <2>2, <2>3
<1>2. CASE toggleAll
  BY <1>2 DEF toggleAll, AllToggled
<1> QED
  BY <1>1, <1>2 DEF Clicks

(* HiddenUntouched, for any rows and sort keys (useRowSelection.ts).        *)
THEOREM HiddenStaysUntouched == Spec => HiddenUntouched
<1>1. [Next]_vars => [Clicks => selected' \ Visible = selected \ Visible]_rowVars
  BY ClicksSpareHidden
<1> QED
  BY <1>1, PTL DEF Spec, HiddenUntouched

-----------------------------------------------------------------------------
(* The conversion of a dump.  Every step of the composition reads a line,   *)
(* begins anew or leaves the conversion alone.                              *)

LEMMA DumpSteps ==
    ASSUME [Next]_vars
    PROVE  DumpNext \/ CloseDump \/ UNCHANGED dumpVars
<1>1. ASSUME NEW place \in ScreenNames, Navigate(place)
      PROVE  CloseDump \/ UNCHANGED dumpVars
  BY <1>1 DEF Navigate
<1>2. CASE Import
  BY <1>2 DEF Import
<1>3. CASE Loading
  BY <1>3 DEF Loading
<1>4. CASE Table
  BY <1>4 DEF Table
<1>5. CASE Page
  BY <1>5 DEF Page
<1>6. CASE Picker
  BY <1>6 DEF Picker
<1>7. CASE UNCHANGED vars
  BY <1>7 DEF vars
<1> QED
  BY <1>1, <1>2, <1>3, <1>4, <1>5, <1>6, <1>7 DEF Next

LEMMA DumpInvariant == Spec => []DumpInv
<1>1. Init => DumpInv
  BY DumpInvHolds DEF Init
<1>2. ASSUME DumpInv, [Next]_vars
      PROVE  DumpInv'
  BY <1>2, DumpSteps, DumpInvHolds
<1> QED
  BY <1>1, <1>2, PTL DEF Spec

(* Every minute of a TeslaMate position that was read is a battery sample,  *)
(* in whatever order its positions come (teslamateImport.ts).               *)
THEOREM EveryMinuteIsSampled == Spec => []EveryMinuteSampled
<1>1. DumpInv => EveryMinuteSampled
  BY DEF DumpInv, MinuteInv
<1> QED
  BY <1>1, DumpInvariant, PTL

(* A dump read in one pass, its sections in pg_dump's order, is joined as   *)
(* its own tables join, whatever its rows and whichever of the nine tables  *)
(* it has (teslamateImport.ts).                                             *)
THEOREM JoinsAreResolved == Spec => []JoinsResolved
<1>1. DumpInv => JoinsResolved
  BY DEF DumpInv
<1> QED
  BY <1>1, DumpInvariant, PTL
===============================================================================
