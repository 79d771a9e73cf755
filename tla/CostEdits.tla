------------------------------ MODULE CostEdits ------------------------------
(***************************************************************************)
(* Everything in the viewer that writes to the data server, each in a      *)
(* browser tab of its own: the geofence form (GeofenceSettings.tsx), the   *)
(* import of Supercharger costs (useSuperchargerImport.tsx) and the cost   *)
(* editor of a charge (SpecialDashboards.tsx).  None uses a transaction:   *)
(* a save is several statements, and the others' fall between them.        *)
(*                                                                         *)
(* A statement is executed with its answer (Answered), or the request      *)
(* fails, without effect or with one whose answer is lost.                 *)
(***************************************************************************)
EXTENDS SuperchargerPlan

CONSTANTS
    OpenCharges,    \* charges that are not closed
    Names,          \* names of places
    Areas,          \* the sets of charges a circle may cover
    FencePrices,    \* what a charge may cost in a place, NoCost: no price
    Files,          \* Supercharger exports, numbered: a sequence of files
    EditedCosts,    \* what may be typed into the cost editor
    InitialCosts,   \* costs of the closed charges at the start
    MaxUses,        \* bound: saves, imports and edits, all together
    MaxFails        \* bound: failed requests

All == Charges \cup OpenCharges
Costs == {NoCost} \cup Nat

ASSUME EditAssumption ==
    /\ Areas \subseteq SUBSET All /\ FencePrices \subseteq Costs /\ EditedCosts \subseteq Costs
    /\ Files \in Seq(Seq(BillRow)) /\ InitialCosts \subseteq [Charges -> Costs]
    /\ MaxUses \in Nat /\ MaxFails \in Nat

FenceIds == 1 .. MaxUses    \* a save makes at most one

VARIABLES
    cost, link,     \* charging_sessions.cost and geofence_id
    fences,         \* the geofences table: id -> row
    given,          \* the last id it gave out
    step,           \* where save is, "idle" when it is not running
    form,           \* the form as it was submitted
    editing,        \* the geofence being edited, 0 for a new one
    saved,          \* the id save works with
    notice,         \* "Saved ..." is shown
    shown,          \* the costs the loaded data has
    parsed, vin,    \* the file under review, 0 for none, and the car chosen
    plan,           \* its dry run, empty when all its sessions are skipped
    writing,        \* "no", "import" or "undo": a write being read back
    target,         \* what is being written
    previous,       \* the costs undo would bring back, as the plan has them
    applied,        \* the costs undo brings back, empty: no undo offered
    \* History.
    replaced,       \* the costs the last import statement replaced, and the
                    \* charges whose cost was the one of the plan then
    undoable,       \* replaced, of the last import that was read back
    uses, fails

dbVars == <<cost, link, fences, given>>
formVars == <<step, form, editing, saved, notice>>
importVars == <<parsed, vin, plan, writing, target, previous, applied, replaced, undoable>>
vars == <<dbVars, formVars, importVars, shown, uses, fails>>

Row == [name : Names, area : Areas, price : FencePrices]
Empty == <<>>
NoImport == [old |-> Empty, sure |-> {}]
NoForm == [name |-> "", area |-> {}, price |-> NoCost, history |-> FALSE]

Init ==
    /\ \E costs \in InitialCosts :
          cost = [c \in All |-> IF c \in Charges THEN costs[c] ELSE NoCost]
    /\ link = [c \in All |-> 0] /\ fences = Empty /\ given = 0
    /\ step = "idle" /\ form = NoForm /\ editing = 0 /\ saved = 0 /\ notice = FALSE
    /\ shown = [c \in Charges |-> cost[c]]
    /\ parsed = 0 /\ vin = "" /\ plan = Empty /\ writing = "no" /\ target = Empty /\ previous = Empty
    /\ applied = Empty /\ replaced = NoImport /\ undoable = NoImport
    /\ uses = 0 /\ fails = 0

Used == uses < MaxUses /\ uses' = uses + 1
Fails == fails < MaxFails /\ fails' = fails + 1
Answered == UNCHANGED fails

\* The costs after UPDATE ... CASE id WHEN ... for the charges of new.
With(costs, new) == [c \in DOMAIN costs |-> IF c \in DOMAIN new THEN new[c] ELSE costs[c]]

-----------------------------------------------------------------------------
(* The geofence form. *)

\* A place may have been deleted since its form was opened.
Submit(id, name, area, price, history) ==
    /\ step = "idle" /\ Used
    /\ id <= given /\ editing' = id /\ (history => price # NoCost)
    /\ form' = [name |-> name, area |-> area, price |-> price, history |-> history]
    /\ step' = "write" /\ notice' = FALSE /\ saved' = 0
    /\ UNCHANGED <<dbVars, importVars, shown, fails>>

\* After a failure the form and what it edits are still there.
Resubmit ==
    /\ step = "idle" /\ form # NoForm
    /\ Used
    /\ step' = "write" /\ saved' = 0 /\ notice' = FALSE
    /\ UNCHANGED <<dbVars, form, editing, importVars, shown, fails>>

\* As if the old links were removed after the new ones were made.
AfterMutLate(s) ==
    CASE s = "write" -> "find"
      [] s = "find" -> "link"
      [] s = "link" -> IF editing # 0 THEN "unlink"
                       ELSE IF form.history /\ form.price # NoCost THEN "price" ELSE "load"
      [] s = "unlink" -> IF form.history /\ form.price # NoCost THEN "price" ELSE "load"
      [] s = "price" -> "load"

\* The statements of save in order; only an edit unlinks, only a priced form
\* with the box ticked prices the past.
After(s) ==
    CASE s = "write" -> IF editing = 0 THEN "find" ELSE "unlink"
      [] s = "unlink" -> "find"
      [] s = "find" -> "link"
      [] s = "link" -> IF form.history /\ form.price # NoCost THEN "price" ELSE "load"
      [] s = "price" -> "load"

NextId == given + 1
FormRow == [name |-> form.name, area |-> form.area, price |-> form.price]

\* The place was deleted under its form: the UPDATE changes no row.
Gone == editing # 0 /\ editing \notin DOMAIN fences

\* geofences.name is UNIQUE.
NameFree == Gone \/ \A id \in DOMAIN fences \ {editing} : fences[id].name # form.name

WriteFence ==
    /\ NameFree
    /\ IF editing = 0
       THEN /\ fences' = [id \in DOMAIN fences \cup {NextId} |->
                            IF id = NextId THEN FormRow ELSE fences[id]]
            /\ given' = NextId
       ELSE /\ fences' = [id \in DOMAIN fences |->
                            IF id = editing THEN FormRow ELSE fences[id]]
            /\ UNCHANGED given
    /\ UNCHANGED <<cost, link, saved>>

Unlink ==
    /\ link' = [c \in All |-> IF link[c] = editing THEN 0 ELSE link[c]]
    /\ UNCHANGED <<cost, fences, given, saved>>

Found == {id \in DOMAIN fences : fences[id].name = form.name}

FindFence ==
    /\ \E id \in Found : saved' = id
    /\ UNCHANGED <<cost, link, fences, given>>

\* Every charge inside the circle, open ones too.
LinkCharges ==
    /\ link' = [c \in All |-> IF c \in form.area THEN saved ELSE link[c]]
    /\ UNCHANGED <<cost, fences, given, saved>>

Unpriced == {c \in Charges : link[c] = saved /\ cost[c] = NoCost}

PriceCharges ==
    /\ cost' = With(cost, [c \in Unpriced |-> form.price])
    /\ UNCHANGED <<link, fences, given, saved>>

Statement ==
    CASE step = "write" -> WriteFence
      [] step = "unlink" -> Unlink
      [] step = "find" -> FindFence
      [] step = "link" -> LinkCharges
      [] step = "price" -> PriceCharges

\* The name is taken, or no place has it.
Refused == (step = "write" /\ ~NameFree) \/ (step = "find" /\ Found = {})

SaveStep ==
    /\ step \notin {"idle", "load"}
    /\ \/ Statement /\ Answered /\ step' = After(step)
       \/ Statement /\ Fails /\ step' = "idle"
       \/ UNCHANGED <<dbVars, saved>> /\ Fails /\ step' = "idle"
       \/ Refused /\ UNCHANGED <<dbVars, saved>> /\ Answered /\ step' = "idle"
    /\ UNCHANGED <<form, editing, notice, importVars, shown, uses>>

\* The form is emptied before the places are read again; a failure of that
\* hides the notice.
ShowNotice ==
    /\ step = "load" /\ step' = "idle"
    /\ form' = NoForm /\ editing' = 0 /\ saved' = 0
    /\ \/ Answered /\ notice' = TRUE
       \/ Fails /\ UNCHANGED notice
    /\ UNCHANGED <<dbVars, importVars, shown, uses>>

\* As if a deletion left the links.
RemoveFenceMutKeeps(id) ==
    /\ step = "idle" /\ Used /\ id \in DOMAIN fences
    /\ fences' = [k \in DOMAIN fences \ {id} |-> fences[k]]
    /\ UNCHANGED link
    /\ notice' = FALSE
    /\ Answered \/ Fails
    /\ UNCHANGED <<cost, given, step, form, editing, saved, importVars, shown>>

\* remove: ON DELETE SET NULL; costs stay.
RemoveFence(id) ==
    /\ step = "idle" /\ Used /\ id \in DOMAIN fences
    /\ fences' = [k \in DOMAIN fences \ {id} |-> fences[k]]
    /\ link' = [c \in All |-> IF link[c] = id THEN 0 ELSE link[c]]
    /\ notice' = FALSE
    /\ Answered \/ Fails
    /\ UNCHANGED <<cost, given, step, form, editing, saved, importVars, shown>>

-----------------------------------------------------------------------------
(* The import of Supercharger costs. *)

\* The mutation listener has the snapshot loaded again; the plan stays.
ReloadCharges ==
    /\ shown' = [c \in Charges |-> cost[c]]
    /\ shown' # shown
    /\ UNCHANGED <<dbVars, formVars, importVars, uses, fails>>

\* What does not depend on the costs.
Cars == [f \in DOMAIN Files |-> VinsOf(Files[f])]
FirstCar == [f \in DOMAIN Files |-> DefaultVin(Files[f])]
MatchesIn == [f \in DOMAIN Files |-> [car \in Vins |-> Matches(Files[f], car)]]

\* showPlan, also while a write is in flight.
Review(file, car) ==
    /\ parsed' = file /\ vin' = car
    /\ plan' = planImport(MatchesIn[file][car], shown)
    /\ UNCHANGED <<dbVars, formVars, writing, target, previous, applied, replaced,
                   undoable, shown, uses, fails>>

\* read: only its button is disabled while a write is in flight.
ReadFile(file) == writing = "no" /\ Review(file, FirstCar[file])

\* Another car, of a file that has several.
ChooseVin(car) ==
    /\ parsed # 0 /\ Cardinality(Cars[parsed]) > 1 /\ car \in Cars[parsed] \ {vin}
    /\ Review(parsed, car)

NoPlan == parsed' = 0 /\ vin' = "" /\ plan' = Empty

\* Close, Cancel, or a file that cannot be read.
ClosePlan ==
    /\ parsed # 0 /\ NoPlan
    /\ UNCHANGED <<dbVars, formVars, writing, target, previous, applied, replaced,
                   undoable, shown, uses, fails>>

\* A write is over.
Written == writing' = "no" /\ target' = Empty /\ previous' = Empty

Executed(new) == cost' = With(cost, new) /\ UNCHANGED <<link, fences, given>>

\* The request fails, with its effect or without it: "Nothing was changed".
GivenUp == Fails /\ Written /\ UNCHANGED <<parsed, vin, plan, applied>>

\* The ticked items with what was chosen for each: one statement.
apply(ticked, choice) ==
    /\ writing = "no" /\ Used
    /\ ticked # {} /\ ticked \subseteq Actionable(plan)
    /\ \A c \in ticked : Changes(plan[c], choice[c])
    /\ LET new == [c \in ticked |-> resultingCost(plan[c], choice[c])]
       IN \/ /\ Executed(new)
             /\ replaced' = [old |-> [c \in ticked |-> cost[c]],
                             sure |-> {c \in ticked : cost[c] = plan[c].current}]
             /\ \/ /\ Answered /\ writing' = "import" /\ target' = new
                   /\ previous' = [c \in ticked |-> plan[c].current]
                   /\ UNCHANGED <<parsed, vin, plan, applied>>
                \/ GivenUp
          \/ GivenUp /\ UNCHANGED <<dbVars, replaced>>
    /\ UNCHANGED <<formVars, undoable, shown>>

ReadsBack == \A c \in DOMAIN target : cost[c] = target[c]

\* As if a second import left the undo of the first.
verifyImportMutFirst ==
    /\ writing = "import"
    /\ \/ /\ Answered /\ Written /\ NoPlan
          /\ applied' = IF applied = Empty THEN previous ELSE applied
          /\ undoable' = replaced
       \/ GivenUp /\ UNCHANGED undoable
    /\ UNCHANGED <<dbVars, formVars, replaced, shown, uses>>

\* What did not land is reported, and can be undone all the same.
verifyImport ==
    /\ writing = "import"
    /\ \/ /\ Answered /\ Written /\ NoPlan
          /\ applied' = previous /\ undoable' = replaced
       \/ GivenUp /\ UNCHANGED undoable
    /\ UNCHANGED <<dbVars, formVars, replaced, shown, uses>>

undo ==
    /\ writing = "no" /\ parsed = 0 /\ applied # Empty
    /\ \/ /\ Executed(applied) /\ replaced' = NoImport
          /\ \/ Answered /\ writing' = "undo" /\ target' = applied /\ UNCHANGED <<parsed, vin, plan, previous, applied>>
             \/ GivenUp
       \/ GivenUp /\ UNCHANGED <<dbVars, replaced>>
    /\ UNCHANGED <<formVars, undoable, shown, uses>>

Undone == writing = "undo" /\ ReadsBack /\ applied' = Empty

verifyUndo ==
    /\ writing = "undo"
    /\ \/ /\ Answered /\ Written
          /\ applied' = IF ReadsBack THEN Empty ELSE applied
          /\ UNCHANGED <<parsed, vin, plan>>
       \/ GivenUp
    /\ UNCHANGED <<dbVars, formVars, replaced, undoable, shown, uses>>

-----------------------------------------------------------------------------
\* saveCost of a charge's page.
saveCost(c, value) ==
    /\ Used
    /\ cost' = [cost EXCEPT ![c] = value]
    /\ UNCHANGED <<link, fences, given, formVars, importVars, shown, fails>>

Next ==
    \/ \E id \in {0} \cup FenceIds, name \in Names, area \in Areas, price \in FencePrices,
          history \in BOOLEAN : Submit(id, name, area, price, history)
    \/ Resubmit \/ SaveStep \/ ShowNotice
    \/ \E id \in FenceIds : RemoveFence(id)
    \/ ReloadCharges
    \/ \E file \in DOMAIN Files : ReadFile(file)
    \/ \E car \in Vins : ChooseVin(car)
    \/ ClosePlan
    \/ \E ticked \in SUBSET Charges : \E choice \in [ticked -> ConflictChoices] : apply(ticked, choice)
    \/ verifyImport \/ undo \/ verifyUndo
    \/ \E c \in Charges, value \in EditedCosts : saveCost(c, value)

Spec == Init /\ [][Next]_vars

-----------------------------------------------------------------------------

(* Every variable has its type; of the costs, that a charge's link is to a   *)
(* geofence that exists.                                                     *)
TypeOK ==
    /\ cost \in [All -> Costs] /\ shown \in [Charges -> Costs]
    /\ given \in {0} \cup FenceIds /\ DOMAIN fences \subseteq 1 .. given
    /\ \A id \in DOMAIN fences : fences[id] \in Row
    /\ link \in [All -> {0} \cup DOMAIN fences]
    /\ step \in {"idle", "write", "unlink", "find", "link", "price", "load"}
    /\ editing \in {0} \cup FenceIds /\ saved \in {0} \cup FenceIds /\ notice \in BOOLEAN
    /\ writing \in {"no", "import", "undo"}
    /\ \A f \in {target, previous, applied, replaced.old, undoable.old} :
          DOMAIN f \subseteq Charges /\ \A c \in DOMAIN f : f[c] \in Costs
    /\ DOMAIN plan \subseteq Charges /\ parsed \in DOMAIN Files \cup {0} /\ vin \in Vins
    /\ uses \in 0 .. MaxUses /\ fails \in 0 .. MaxFails

(* The form says "Saved" of a new place, or of one that is still there, only *)
(* when every charge inside the circle, and no other charge, carries it,     *)
(* also after failed attempts and when the circle moved                      *)
(* (GeofenceSettings.tsx, save).                                             *)
SavedMeansLinked ==
    [][notice' /\ ~notice /\ ~Gone => \A c \in All : (link[c] = saved) <=> (c \in form.area)]_vars

(* An import is undone as promised, "an undo that restores the previous      *)
(* costs": once it has been read back, every charge of the last confirmed    *)
(* import whose cost was then the one its plan showed has the cost the       *)
(* import replaced, whatever plans and failed imports came since.            *)
UndoRestores ==
    [][Undone => \A c \in undoable.sure : cost[c] = undoable.old[c]]_vars

Billed == [f \in DOMAIN Files |->
    SumFunction([i \in Readable(Files[f]) |-> Files[f][i].total])]
NotBilled == [f \in DOMAIN Files |-> [car \in Vins |->
    SumFunction([s \in Skipped(Files[f], car) |-> s.total])]]

(* No money is lost or billed twice: of what Tesla billed, each session of   *)
(* the chosen car that matches a charge is what exactly one charge of the    *)
(* plan gets, however the file groups, repeats and orders its rows.          *)
BilledOnce ==
    parsed # 0 =>
        SumFunction([c \in DOMAIN plan |-> plan[c].teslaTotal]) + NotBilled[parsed][vin]
            = Billed[parsed]

(* useSuperchargerImport.tsx: "an undo that restores the previous costs      *)
(* exactly".  Once nothing is in flight, an import that changed costs can be *)
(* undone, and its undo has the costs it replaced.                           *)
ImportCanBeUndone ==
    writing = "no" /\ replaced # NoImport =>
        /\ DOMAIN replaced.old \subseteq DOMAIN applied
        /\ \A c \in DOMAIN replaced.old : applied[c] = replaced.old[c]
=============================================================================
