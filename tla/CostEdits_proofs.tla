--------------------------- MODULE CostEdits_proofs ---------------------------
(***************************************************************************)
(* What the viewer's writes promise, for any charges, places, exports and  *)
(* number of failed requests: the undo of an import, the links of a saved  *)
(* place, and that an import bills each session once.                      *)
(***************************************************************************)
EXTENDS CostEdits, FiniteSetTheorems, WellFoundedInduction, TLAPS

-----------------------------------------------------------------------------
(* The undo.  What it would write is at every moment what the last import   *)
(* that was read back replaced, as far as its plan was current.             *)

Brings(undone, import) ==
    /\ import.sure \subseteq DOMAIN undone
    /\ \A c \in import.sure : undone[c] = import.old[c]

UndoInv ==
    /\ applied # Empty => Brings(applied, undoable)
    /\ writing = "import" => Brings(previous, replaced)
    /\ writing = "undo" => target = applied /\ applied # Empty

undoVars == <<writing, target, previous, applied, replaced, undoable>>

(* Only the import itself touches what is undone.                           *)
LEMMA OthersSpareUndo ==
    ASSUME [Next]_vars, ~\E ticked \in SUBSET Charges :
                            \E choice \in [ticked -> ConflictChoices] : apply(ticked, choice),
           ~verifyImport, ~undo, ~verifyUndo
    PROVE  UNCHANGED undoVars
<1>1. CASE UNCHANGED importVars
  BY <1>1 DEF importVars, undoVars
<1>2. ASSUME NEW file, NEW car, Review(file, car)
      PROVE  UNCHANGED undoVars
  BY <1>2 DEF Review, undoVars
<1>3. CASE ClosePlan
  BY <1>3 DEF ClosePlan, undoVars
<1>4. CASE \/ \E id \in {0} \cup FenceIds, name \in Names, area \in Areas, price \in FencePrices,
                 history \in BOOLEAN : Submit(id, name, area, price, history)
           \/ Resubmit \/ SaveStep \/ ShowNotice
           \/ \E id \in FenceIds : RemoveFence(id)
           \/ ReloadCharges
           \/ \E c \in Charges, value \in EditedCosts : saveCost(c, value)
           \/ UNCHANGED vars
  BY <1>1, <1>4 DEF Submit, Resubmit, SaveStep, ShowNotice, RemoveFence, ReloadCharges, saveCost, vars
<1>5. CASE \/ \E file \in DOMAIN Files : ReadFile(file)
           \/ \E car \in Vins : ChooseVin(car)
  BY <1>2, <1>5 DEF ReadFile, ChooseVin
<1> QED
  BY <1>3, <1>4, <1>5 DEF Next

(* The import replaces what its plan says, where that is still the cost.    *)
LEMMA ApplyKeepsUndo ==
    ASSUME UndoInv, NEW ticked \in SUBSET Charges, NEW choice, apply(ticked, choice)
    PROVE  UndoInv'
<1>1. undoable' = undoable /\ writing = "no"
  BY DEF apply
<1>2. CASE GivenUp
  BY <1>1, <1>2 DEF UndoInv, GivenUp, Written
<1>3. CASE ~GivenUp
  <2>1. /\ writing' = "import" /\ applied' = applied
        /\ previous' = [c \in ticked |-> plan[c].current]
        /\ replaced' = [old |-> [c \in ticked |-> cost[c]],
                        sure |-> {c \in ticked : cost[c] = plan[c].current}]
    BY <1>3 DEF apply
  <2>2. Brings(previous', replaced')
    BY <2>1 DEF Brings
  <2> QED
    BY <1>1, <2>1, <2>2 DEF UndoInv
<1> QED
  BY <1>2, <1>3

LEMMA UndoInvariant == Spec => []UndoInv
<1>1. Init => UndoInv
  BY DEF Init, UndoInv
<1>2. ASSUME UndoInv, [Next]_vars
      PROVE  UndoInv'
  <2>1. CASE \E ticked \in SUBSET Charges :
                \E choice \in [ticked -> ConflictChoices] : apply(ticked, choice)
    BY <1>2, <2>1, ApplyKeepsUndo
  <2>2. CASE verifyImport
    BY <1>2, <2>2 DEF verifyImport, UndoInv, Written, GivenUp
  <2>3. CASE undo
    BY <1>2, <2>3 DEF undo, UndoInv, Written, GivenUp
  <2>4. CASE verifyUndo
    BY <1>2, <2>4 DEF verifyUndo, UndoInv, Written, GivenUp
  <2>5. CASE UNCHANGED undoVars
    BY <1>2, <2>5 DEF undoVars, UndoInv
  <2> QED
    BY <1>2, <2>1, <2>2, <2>3, <2>4, <2>5, OthersSpareUndo
<1> QED
  BY <1>1, <1>2, PTL DEF Spec

(* UndoRestores, for any plans and any edits and failures between them      *)
(* (useSuperchargerImport.tsx).                                             *)
THEOREM UndoIsExact == Spec => UndoRestores
<1>1. ASSUME UndoInv, Undone
      PROVE  \A c \in undoable.sure : cost[c] = undoable.old[c]
  BY <1>1 DEF UndoInv, Undone, Brings, ReadsBack
<1>2. UndoInv => [Undone => \A c \in undoable.sure : cost[c] = undoable.old[c]]_vars
  BY <1>1
<1> QED
  BY <1>2, UndoInvariant, PTL DEF UndoRestores

-----------------------------------------------------------------------------
(* The links.  A name leads to one place, a link to a place that is there;  *)
(* so the statements of a save bring about, one by one, what its notice     *)
(* will claim.  Nothing is claimed of a place that is gone.                 *)

Apart == \A i, j \in DOMAIN fences : fences[i].name = fences[j].name => i = j

PlacesInv ==
    /\ given \in Nat /\ DOMAIN fences \subseteq 1 .. given /\ Apart
    /\ link \in [All -> {0} \cup DOMAIN fences]

Carries(id, charges) == \A c \in All : (link[c] = id) <=> (c \in charges)
Unlinked(id) == \A c \in All : link[c] # id

\* The place the form is about is there, by its name.
Named(id) == id \in DOMAIN fences /\ fences[id].name = form.name

Promise(s, work) ==
    CASE s = "unlink" -> Named(editing)
      [] s = "find" -> \E id \in DOMAIN fences : Named(id) /\ Unlinked(id)
      [] s = "link" -> Unlinked(work)
      [] s \in {"price", "load"} -> Carries(work, form.area)
      [] OTHER -> TRUE

LinkInv ==
    /\ PlacesInv /\ step \in {"idle", "write", "unlink", "find", "link", "price", "load"}
    /\ step \in {"link", "price", "load"} => Named(saved)
    /\ Gone \/ Promise(step, saved)

(* Outside a save only a deletion touches places and links.                 *)
LEMMA PlacesRemoved ==
    ASSUME PlacesInv, NEW id, RemoveFence(id)
    PROVE  PlacesInv'
<1>1. /\ fences' = [k \in DOMAIN fences \ {id} |-> fences[k]] /\ given' = given
      /\ link' = [c \in All |-> IF link[c] = id THEN 0 ELSE link[c]]
  BY DEF RemoveFence
<1>2. Apart'
  BY <1>1 DEF PlacesInv, Apart
<1>3. link' \in [All -> {0} \cup DOMAIN fences']
  BY <1>1 DEF PlacesInv
<1> QED
  BY <1>1, <1>2, <1>3 DEF PlacesInv

(* An INSERT makes a place nothing links to; an UPDATE keeps its links.     *)
LEMMA WriteKeepsPlaces ==
    ASSUME PlacesInv, WriteFence
    PROVE  /\ PlacesInv'
           /\ editing = 0 => NextId \in DOMAIN fences' /\ fences'[NextId].name = form.name
                             /\ \A c \in All : link'[c] # NextId
           /\ editing \in DOMAIN fences /\ editing # 0 =>
                editing \in DOMAIN fences' /\ fences'[editing].name = form.name
<1>1. link' = link /\ FormRow.name = form.name
  BY DEF WriteFence, FormRow
<1>2. CASE editing = 0
  <2>1. /\ fences' = [id \in DOMAIN fences \cup {NextId} |->
                         IF id = NextId THEN FormRow ELSE fences[id]]
        /\ given' = NextId /\ NextId = given + 1
        /\ \A id \in DOMAIN fences : fences[id].name # form.name
    BY <1>2 DEF WriteFence, NameFree, Gone, NextId, PlacesInv
  <2>2. NextId \notin DOMAIN fences /\ NextId \in Nat \ {0} /\ given' \in Nat
        /\ DOMAIN fences' \subseteq 1 .. given'
    BY <2>1 DEF PlacesInv
  <2>3. Apart'
    BY <1>1, <2>1, <2>2 DEF PlacesInv, Apart
  <2>4. \A c \in All : link[c] # NextId
    BY <2>2 DEF PlacesInv
  <2> HIDE DEF NextId
  <2> QED
    BY <1>1, <1>2, <2>1, <2>2, <2>3, <2>4 DEF PlacesInv
<1>3. CASE editing # 0
  <2>1. /\ fences' = [id \in DOMAIN fences |-> IF id = editing THEN FormRow ELSE fences[id]]
        /\ given' = given
        /\ Gone \/ \A id \in DOMAIN fences \ {editing} : fences[id].name # form.name
    BY <1>3 DEF WriteFence, NameFree
  <2>2. Apart'
    <3>1. CASE editing \in DOMAIN fences
      BY <1>1, <2>1, <3>1 DEF PlacesInv, Apart, Gone
    <3>2. CASE editing \notin DOMAIN fences
      BY <2>1, <3>2 DEF PlacesInv, Apart
    <3> QED
      BY <3>1, <3>2
  <2> QED
    BY <1>1, <1>3, <2>1, <2>2 DEF PlacesInv
<1> QED
  BY <1>2, <1>3

linkVars == <<link, fences, given, step, form, editing, saved>>

(* Every statement leads to what the next one needs.                        *)
LEMMA StatementKeepsPromise ==
    ASSUME LinkInv, Statement, step \notin {"idle", "load"}, UNCHANGED <<form, editing>>
    PROVE  /\ PlacesInv'
           /\ step' = "idle" => LinkInv'
           /\ step' = After(step) => LinkInv'
<1> USE DEF LinkInv
<1>1. PlacesInv' /\ step' = "idle" => LinkInv'
  BY DEF Promise
<1>2. CASE step = "write"
  <2>1. WriteFence
    BY <1>2 DEF Statement
  <2>2. PlacesInv'
    BY <2>1, WriteKeepsPlaces
  <2>3. ASSUME step' = After(step)
        PROVE  LinkInv'
    <3>1. CASE editing = 0
      <4>1. step' = "find"
        BY <1>2, <2>3, <3>1 DEF After
      <4>2. \E id \in DOMAIN fences' : fences'[id].name = form.name /\ \A c \in All : link'[c] # id
        BY <2>1, <3>1, WriteKeepsPlaces
      <4> QED
        BY <2>2, <4>1, <4>2 DEF Promise, Named, Unlinked
    <3>2. CASE editing # 0 /\ ~Gone
      <4>1. step' = "unlink"
        BY <1>2, <2>3, <3>2 DEF After
      <4>2. Named(editing)'
        BY <2>1, <3>2, WriteKeepsPlaces DEF Named, Gone
      <4> QED
        BY <2>2, <4>1, <4>2 DEF Promise
    <3>3. CASE Gone
      <4>1. Gone'
        BY <2>1, <3>3 DEF Gone, WriteFence
      <4>2. step' = "unlink"
        BY <1>2, <2>3, <3>3 DEF After, Gone
      <4> QED
        BY <2>2, <4>1, <4>2
    <3> QED
      BY <3>1, <3>2, <3>3
  <2> QED
    BY <1>1, <2>2, <2>3
<1>3. CASE step = "unlink"
  <2>1. /\ link' = [c \in All |-> IF link[c] = editing THEN 0 ELSE link[c]]
        /\ UNCHANGED <<fences, given, saved>>
    BY <1>3 DEF Statement, Unlink
  <2>2. PlacesInv' /\ (Gone' <=> Gone)
    BY <2>1 DEF PlacesInv, Apart, Gone
  <2>3. ASSUME step' = After(step)
        PROVE  LinkInv'
    <3>1. step' = "find"
      BY <1>3, <2>3 DEF After
    <3>2. CASE ~Gone
      <4>1. Named(editing)'
        BY <1>3, <2>1, <3>2 DEF Promise, Named
      <4>2. editing # 0
        BY <2>1, <4>1 DEF Named, PlacesInv
      <4>3. Unlinked(editing)'
        BY <2>1, <4>2 DEF Unlinked
      <4> QED
        BY <2>2, <3>1, <4>1, <4>3 DEF Promise, Named
    <3> QED
      BY <2>2, <3>1, <3>2
  <2> QED
    BY <1>1, <2>2, <2>3
<1>4. CASE step = "find"
  <2>1. saved' \in Found /\ UNCHANGED <<link, fences, given>>
    BY <1>4 DEF Statement, FindFence
  <2>2. PlacesInv' /\ (Gone' <=> Gone)
    BY <2>1 DEF PlacesInv, Apart, Gone
  <2>3. Named(saved)'
    BY <2>1 DEF Found, Named
  <2>4. ~Gone => Unlinked(saved)'
    BY <1>4, <2>1 DEF Promise, Found, Named, Unlinked, PlacesInv, Apart
  <2>5. step' = After(step) => step' = "link"
    BY <1>4 DEF After
  <2> QED
    BY <1>1, <2>2, <2>3, <2>4, <2>5 DEF Promise
<1>5. CASE step = "link"
  <2>1. /\ link' = [c \in All |-> IF c \in form.area THEN saved ELSE link[c]]
        /\ UNCHANGED <<fences, given, saved>>
    BY <1>5 DEF Statement, LinkCharges
  <2>2. Named(saved)' /\ (Gone' <=> Gone)
    BY <1>5, <2>1 DEF Named, Gone
  <2>3. PlacesInv'
    BY <1>5, <2>1 DEF PlacesInv, Apart, Named
  <2>4. ~Gone => Carries(saved, form.area)'
    BY <1>5, <2>1 DEF Promise, Unlinked, Carries
  <2>5. step' = After(step) => step' \in {"price", "load"}
    BY <1>5 DEF After
  <2> QED
    BY <1>1, <2>2, <2>3, <2>4, <2>5 DEF Promise
<1>6. CASE step = "price"
  <2>1. UNCHANGED <<link, fences, given, saved>>
    BY <1>6 DEF Statement, PriceCharges
  <2>2. PlacesInv' /\ Named(saved)' /\ (Gone' <=> Gone)
    BY <1>6, <2>1 DEF PlacesInv, Apart, Named, Gone
  <2>3. ~Gone => Carries(saved, form.area)'
    BY <1>6, <2>1 DEF Promise, Carries
  <2>4. step' = After(step) => step' = "load"
    BY <1>6 DEF After
  <2> QED
    BY <1>1, <2>2, <2>3, <2>4 DEF Promise
<1> QED
  BY <1>2, <1>3, <1>4, <1>5, <1>6 DEF Statement

LEMMA LinksKept ==
    ASSUME LinkInv, UNCHANGED linkVars
    PROVE  LinkInv'
BY DEF LinkInv, linkVars, PlacesInv, Apart, Named, Gone, Promise, Unlinked, Carries

LEMMA LinkInvariant == Spec => []LinkInv
<1>1. Init => LinkInv
  <2> SUFFICES ASSUME Init PROVE LinkInv
    OBVIOUS
  <2>1. /\ DOMAIN fences = {} /\ given = 0 /\ link = [c \in All |-> 0] /\ step = "idle"
    <3>1. DOMAIN Empty = {}
      BY DEF Empty
    <3> QED
      BY <3>1 DEF Init
  <2> QED
    BY <2>1 DEF LinkInv, PlacesInv, Apart, Promise
<1>2. ASSUME LinkInv, [Next]_vars
      PROVE  LinkInv'
  <2>1. ASSUME PlacesInv', step' \in {"idle", "write"}
        PROVE  LinkInv'
    BY <2>1 DEF LinkInv, Promise
  <2>2. CASE \/ \E id \in {0} \cup FenceIds, name \in Names, area \in Areas, price \in FencePrices,
                   history \in BOOLEAN : Submit(id, name, area, price, history)
             \/ Resubmit \/ ShowNotice
    <3>1. UNCHANGED <<link, fences, given>> /\ step' \in {"idle", "write"}
      BY <2>2 DEF Submit, Resubmit, ShowNotice, dbVars
    <3>2. PlacesInv'
      BY <1>2, <3>1 DEF LinkInv, PlacesInv, Apart
    <3> QED
      BY <2>1, <3>1, <3>2
  <2>3. CASE SaveStep
    <3>1. CASE Statement
      BY <1>2, <2>3, <3>1, StatementKeepsPromise DEF SaveStep
    <3>2. CASE UNCHANGED <<dbVars, saved>> /\ step' = "idle"
      <4>1. PlacesInv'
        BY <1>2, <3>2 DEF LinkInv, PlacesInv, Apart, dbVars
      <4> QED
        BY <2>1, <3>2, <4>1
    <3> QED
      BY <2>3, <3>1, <3>2 DEF SaveStep
  <2>4. CASE \E id \in FenceIds : RemoveFence(id)
    <3>1. PlacesInv'
      BY <1>2, <2>4, PlacesRemoved DEF LinkInv
    <3>2. step' = "idle"
      BY <2>4 DEF RemoveFence
    <3> QED
      BY <2>1, <3>1, <3>2
  <2>5. CASE UNCHANGED linkVars
    BY <1>2, <2>5, LinksKept
  <2>6. ASSUME NEW file, NEW car, Review(file, car)
        PROVE  UNCHANGED linkVars
    BY <2>6 DEF Review, dbVars, formVars, linkVars
  <2>7. ASSUME NEW ticked, NEW choice, apply(ticked, choice)
        PROVE  UNCHANGED linkVars
    BY <2>7 DEF apply, Executed, dbVars, formVars, linkVars
  <2>8. CASE \/ \E file \in DOMAIN Files : ReadFile(file)
             \/ \E car \in Vins : ChooseVin(car)
             \/ \E ticked \in SUBSET Charges :
                    \E choice \in [ticked -> ConflictChoices] : apply(ticked, choice)
    BY <2>5, <2>6, <2>7, <2>8 DEF ReadFile, ChooseVin
  <2>9. CASE \/ ReloadCharges \/ ClosePlan \/ verifyImport \/ undo \/ verifyUndo
             \/ \E c \in Charges, value \in EditedCosts : saveCost(c, value)
             \/ UNCHANGED vars
    BY <2>5, <2>9 DEF ReloadCharges, ClosePlan, verifyImport, undo, verifyUndo, saveCost, Executed,
                      dbVars, formVars, linkVars, vars
  <2> QED
    BY <1>2, <2>2, <2>3, <2>4, <2>8, <2>9 DEF Next
<1> QED
  BY <1>1, <1>2, PTL DEF Spec

LEMMA NoticeShown ==
    ASSUME [Next]_vars, notice', ~notice
    PROVE  ShowNotice
<1>1. notice' # notice
  OBVIOUS
<1>2. ASSUME UNCHANGED formVars
      PROVE  FALSE
  BY <1>1, <1>2 DEF formVars
<1>3. ASSUME NEW file, NEW car, Review(file, car)
      PROVE  FALSE
  BY <1>2, <1>3 DEF Review
<1>4. ASSUME NEW ticked, NEW choice, apply(ticked, choice)
      PROVE  FALSE
  BY <1>2, <1>4 DEF apply
<1>5. CASE \/ \E file \in DOMAIN Files : ReadFile(file)
           \/ \E car \in Vins : ChooseVin(car)
           \/ \E ticked \in SUBSET Charges :
                  \E choice \in [ticked -> ConflictChoices] : apply(ticked, choice)
  BY <1>3, <1>4, <1>5 DEF ReadFile, ChooseVin
<1>6. CASE \/ ReloadCharges \/ ClosePlan \/ verifyImport \/ undo \/ verifyUndo
           \/ \E c \in Charges, value \in EditedCosts : saveCost(c, value)
           \/ UNCHANGED vars
  BY <1>2, <1>6 DEF ReloadCharges, ClosePlan, verifyImport, undo, verifyUndo, saveCost, vars
<1>7. CASE \/ \E id \in {0} \cup FenceIds, name \in Names, area \in Areas, price \in FencePrices,
                 history \in BOOLEAN : Submit(id, name, area, price, history)
           \/ Resubmit \/ SaveStep
           \/ \E id \in FenceIds : RemoveFence(id)
  BY <1>1, <1>7 DEF Submit, Resubmit, SaveStep, RemoveFence
<1> QED
  BY <1>5, <1>6, <1>7 DEF Next

(* SavedMeansLinked, for any places, circles, charges and failed requests   *)
(* (GeofenceSettings.tsx, save).                                            *)
THEOREM SavedPlaceIsLinked == Spec => SavedMeansLinked
<1>1. LinkInv /\ [Next]_vars => [notice' /\ ~notice /\ ~Gone =>
                    \A c \in All : (link[c] = saved) <=> (c \in form.area)]_vars
  <2> SUFFICES ASSUME LinkInv, [Next]_vars, notice', ~notice, ~Gone
               PROVE  \A c \in All : (link[c] = saved) <=> (c \in form.area)
    OBVIOUS
  <2>1. ShowNotice
    BY NoticeShown
  <2> QED
    BY <2>1 DEF LinkInv, ShowNotice, Promise, Carries
<1> QED
  BY <1>1, LinkInvariant, PTL DEF Spec, SavedMeansLinked

-----------------------------------------------------------------------------
(* Sums.  A sum over a finite set does not depend on the order in which it  *)
(* is computed, and can be computed part by part.  Induction is over a set  *)
(* of sets (SetInduction): what holds of a set when it holds of the set     *)
(* without any one of its elements holds of every subset of a finite set.   *)

\* A set of naturals that is not empty has a least element (from the
\* well-foundedness of <).
LEMMA LeastNat ==
    ASSUME NEW S \in SUBSET Nat, S # {}
    PROVE  \E least \in S : \A n \in S : least <= n
<1> DEFINE less == OpToRel(<, Nat)
<1>1. IsWellFoundedOn(less, Nat)
  BY NatLessThanWellFounded
<1>2. PICK least \in S : \A n \in S : <<n, least>> \notin less
  <2> HIDE DEF less
  <2> QED BY <1>1, WFMin
<1>3. \A n \in S : ~(n < least)
  BY <1>2 DEF OpToRel
<1>4. least \in Nat /\ \A n \in S : n \in Nat
  BY <1>2
<1>5. \A n \in S : least <= n
  <2> HIDE DEF less
  <2> QED BY <1>3, <1>4
<1> QED
  BY <1>4, <1>5

\* Induction on the subsets of a finite set.
LEMMA SetInduction ==
    ASSUME NEW S, IsFiniteSet(S), NEW good,
           \A T \in SUBSET S : (\A x \in T : T \ {x} \in good) => T \in good
    PROVE  \A T \in SUBSET S : T \in good
<1> DEFINE sizes == {n \in Nat : \E T \in SUBSET S : Cardinality(T) = n /\ T \notin good}
<1>1. SUFFICES ASSUME NEW T \in SUBSET S, T \notin good PROVE FALSE
  OBVIOUS
<1>2. Cardinality(T) \in sizes
  BY <1>1, FS_Subset, FS_CardinalityType
<1>3. PICK n \in sizes : \A k \in sizes : n <= k
  <2>1. sizes \in SUBSET Nat /\ sizes # {}
    BY <1>2
  <2> HIDE DEF sizes
  <2> QED BY <2>1, LeastNat
<1>4. PICK U \in SUBSET S : Cardinality(U) = n /\ U \notin good
  BY <1>3
<1>5. PICK x \in U : U \ {x} \notin good
  BY <1>4
<1>6. IsFiniteSet(U) /\ n \in Nat
  BY <1>3, FS_Subset
<1>7. Cardinality(U \ {x}) = n - 1
  BY <1>4, <1>5, <1>6, FS_RemoveElement
<1>8. U \ {x} \in SUBSET S /\ Cardinality(U \ {x}) \in Nat
  <2>1. IsFiniteSet(U \ {x})
    BY <1>6, FS_RemoveElement
  <2> QED BY <2>1, FS_CardinalityType
<1>9. n - 1 \in sizes
  BY <1>5, <1>7, <1>8
<1>10. n <= n - 1
  <2> HIDE DEF sizes
  <2> QED BY <1>3, <1>9
<1> QED
  BY <1>6, <1>10

\* The library's sum takes the elements of a set in the order of CHOOSE.
Head1(s) == CHOOSE x \in s : TRUE
Adds(sum, f, S) ==
    sum = [s \in SUBSET S |-> IF s = {} THEN 0 ELSE f[Head1(s)] + sum[s \ {Head1(s)}]]

Total(f, S) == SumFunctionOnSet(f, S)

LEMMA SumIsTotal == \A f : SumFunction(f) = Total(f, DOMAIN f)
BY DEF SumFunction, Total

LEMMA HeadIsOne == \A s : s # {} => Head1(s) \in s
BY DEF Head1

LEMMA AddsUp ==
    ASSUME NEW f, NEW S, NEW sum, Adds(sum, f, S), NEW s \in SUBSET S
    PROVE  sum[s] = IF s = {} THEN 0 ELSE f[Head1(s)] + sum[s \ {Head1(s)}]
BY DEF Adds

\* Two sums of the same numbers agree.
LEMMA SumsAgree ==
    ASSUME NEW S, NEW R, NEW f, NEW g, NEW a, NEW b, Adds(a, f, S), Adds(b, g, R),
           NEW T, T \subseteq S, T \subseteq R, IsFiniteSet(T), \A x \in T : f[x] = g[x]
    PROVE  a[T] = b[T]
<1> DEFINE good == {U \in SUBSET T : a[U] = b[U]}
<1>1. ASSUME NEW U \in SUBSET T, \A x \in U : U \ {x} \in good
      PROVE  U \in good
  <2>1. /\ a[U] = IF U = {} THEN 0 ELSE f[Head1(U)] + a[U \ {Head1(U)}]
        /\ b[U] = IF U = {} THEN 0 ELSE g[Head1(U)] + b[U \ {Head1(U)}]
    <3>1. U \in SUBSET S /\ U \in SUBSET R
      OBVIOUS
    <3> QED BY <3>1, AddsUp
  <2>2. U # {} => Head1(U) \in U
    BY HeadIsOne
  <2>3. U # {} => f[Head1(U)] = g[Head1(U)] /\ a[U \ {Head1(U)}] = b[U \ {Head1(U)}]
    BY <1>1, <2>2
  <2> QED
    BY <2>1, <2>3
<1>2. T \in good
  <2>1. \A U \in SUBSET T : (\A x \in U : U \ {x} \in good) => U \in good
    BY <1>1
  <2>2. T \in SUBSET T
    OBVIOUS
  <2> HIDE DEF good
  <2> QED BY <2>1, <2>2, SetInduction
<1> QED
  BY <1>2

\* There is such a sum: the sums without each one of the elements give it.
LEMMA SumExists ==
    ASSUME NEW S, IsFiniteSet(S), NEW f, \A x \in S : f[x] \in Int
    PROVE  \E sum \in [SUBSET S -> Int] : Adds(sum, f, S)
<1> DEFINE good == {T \in SUBSET S : \E sum \in [SUBSET T -> Int] : Adds(sum, f, T)}
<1>1. ASSUME NEW T \in SUBSET S, \A x \in T : T \ {x} \in good
      PROVE  T \in good
  <2> DEFINE part == [x \in T |-> CHOOSE sum \in [SUBSET (T \ {x}) -> Int] : Adds(sum, f, T \ {x})]
             sum == [s \in SUBSET T |->
                       IF s = {} THEN 0 ELSE f[Head1(s)] + part[Head1(s)][s \ {Head1(s)}]]
  <2>1. ASSUME NEW x \in T
        PROVE  part[x] \in [SUBSET (T \ {x}) -> Int] /\ Adds(part[x], f, T \ {x})
    <3>1. \E p \in [SUBSET (T \ {x}) -> Int] : Adds(p, f, T \ {x})
      BY <1>1
    <3> QED BY <3>1
  <2> HIDE DEF part
  <2>2. ASSUME NEW s \in SUBSET T, s # {}
        PROVE  /\ Head1(s) \in s /\ Head1(s) \in T
               /\ s \ {Head1(s)} \in SUBSET (T \ {Head1(s)}) /\ s \ {Head1(s)} \in SUBSET T
    BY <2>2, HeadIsOne
  <2>3. sum \in [SUBSET T -> Int]
    <3>1. ASSUME NEW s \in SUBSET T, s # {}
          PROVE  f[Head1(s)] + part[Head1(s)][s \ {Head1(s)}] \in Int
      <4>1. f[Head1(s)] \in Int
        BY <2>2, <3>1
      <4>2. PICK p : p = part[Head1(s)]
        OBVIOUS
      <4>3. PICK r : r = s \ {Head1(s)}
        OBVIOUS
      <4>4. p \in [SUBSET (T \ {Head1(s)}) -> Int] /\ r \in SUBSET (T \ {Head1(s)})
        BY <2>1, <2>2, <3>1, <4>2, <4>3
      <4>5. p[r] \in Int
        BY <4>4
      <4> QED BY <4>1, <4>2, <4>3, <4>5
    <3> QED BY <3>1
  <2>4. ASSUME NEW s \in SUBSET T, s # {}
        PROVE  sum[s \ {Head1(s)}] = part[Head1(s)][s \ {Head1(s)}]
    <3>1. PICK r, p : r = s \ {Head1(s)} /\ p = part[Head1(s)]
      OBVIOUS
    <3>2. r \in SUBSET T /\ r \in SUBSET (T \ {Head1(s)}) /\ Adds(p, f, T \ {Head1(s)})
      BY <2>1, <2>2, <2>4, <3>1
    <3>3. p[r] = IF r = {} THEN 0 ELSE f[Head1(r)] + p[r \ {Head1(r)}]
      <4>1. PICK R : R = T \ {Head1(s)}
        OBVIOUS
      <4>2. r \in SUBSET R /\ Adds(p, f, R)
        BY <3>2, <4>1
      <4> HIDE DEF sum, good
      <4> QED BY <4>2, AddsUp
    <3>4. sum[r] = IF r = {} THEN 0 ELSE f[Head1(r)] + part[Head1(r)][r \ {Head1(r)}]
      BY <3>2
    <3>5. CASE r = {}
      BY <3>1, <3>3, <3>4, <3>5
    <3>6. CASE r # {}
      <4>1. PICK u, q : u = r \ {Head1(r)} /\ q = part[Head1(r)]
        OBVIOUS
      <4>2. Adds(q, f, T \ {Head1(r)}) /\ u \subseteq T \ {Head1(r)} /\ u \subseteq T \ {Head1(s)}
        BY <2>1, <2>2, <3>2, <3>6, <4>1
      <4>3. IsFiniteSet(u)
        <5>1. u \in SUBSET S
          BY <4>2
        <5> QED BY <5>1, FS_Subset
      <4>4. p[u] = q[u]
        BY <3>2, <4>2, <4>3, SumsAgree
      <4> HIDE DEF sum
      <4> QED BY <3>1, <3>3, <3>4, <3>6, <4>1, <4>4
    <3> HIDE DEF sum
    <3> QED BY <3>5, <3>6
  <2>5. Adds(sum, f, T)
    <3>1. \A s \in SUBSET T :
             sum[s] = IF s = {} THEN 0 ELSE f[Head1(s)] + sum[s \ {Head1(s)}]
      BY <2>4
    <3>2. sum = [s \in SUBSET T |-> sum[s]]
      OBVIOUS
    <3> HIDE DEF sum
    <3> QED BY <3>1, <3>2 DEF Adds
  <2> QED
    <3> HIDE DEF sum
    <3> QED BY <2>3, <2>5
<1>2. \A T \in SUBSET S : (\A x \in T : T \ {x} \in good) => T \in good
  BY <1>1
<1>3. S \in good
  <2>1. S \in SUBSET S
    OBVIOUS
  <2> HIDE DEF good
  <2> QED BY <1>2, <2>1, SetInduction
<1> QED
  BY <1>3

\* A sum is that of one of its numbers and of the others; here, of the one
\* the library takes first.
LEMMA TotalUnfolds ==
    ASSUME NEW S, IsFiniteSet(S), NEW f, \A x \in S : f[x] \in Int
    PROVE  /\ Total(f, S) \in Int
           /\ S = {} => Total(f, S) = 0
           /\ S # {} => Total(f, S) = f[Head1(S)] + Total(f, S \ {Head1(S)})
<1>1. PICK g \in [SUBSET S -> Int] : Adds(g, f, S)
  BY SumExists
<1>2. \E h : Adds(h, f, S) /\ Total(f, S) = h[S]
  BY <1>1 DEF Adds, Total, SumFunctionOnSet, FoldFunctionOnSet, MapThenFoldSet, Head1
<1>3. PICK h : Adds(h, f, S) /\ Total(f, S) = h[S]
  BY <1>2
<1>4. S \in SUBSET S /\ S \subseteq S
  OBVIOUS
<1>5. h[S] = g[S]
  BY <1>1, <1>3, <1>4, SumsAgree
<1>6. g[S] \in Int
  BY <1>1, <1>4
<1>7. g[S] = IF S = {} THEN 0 ELSE f[Head1(S)] + g[S \ {Head1(S)}]
  BY <1>1, <1>4, AddsUp
<1>8. CASE S = {}
  BY <1>3, <1>5, <1>6, <1>7, <1>8
<1>9. CASE S # {}
  <2>1. PICK R : R = S \ {Head1(S)}
    OBVIOUS
  <2>2. R \subseteq S /\ R \subseteq R /\ IsFiniteSet(R) /\ \A x \in R : f[x] \in Int
    BY <2>1, FS_RemoveElement
  <2>3. PICK a \in [SUBSET R -> Int] : Adds(a, f, R)
    BY <2>2, SumExists
  <2>4. \E b : Adds(b, f, R) /\ Total(f, R) = b[R]
    BY <2>3 DEF Adds, Total, SumFunctionOnSet, FoldFunctionOnSet, MapThenFoldSet, Head1
  <2>5. PICK b : Adds(b, f, R) /\ Total(f, R) = b[R]
    BY <2>4
  <2>6. b[R] = g[R]
    BY <1>1, <2>2, <2>5, SumsAgree
  <2> QED BY <1>3, <1>5, <1>6, <1>7, <1>9, <2>1, <2>5, <2>6
<1> QED
  BY <1>8, <1>9

\* Two sums of the same numbers are equal.
LEMMA TotalSame ==
    ASSUME NEW S, IsFiniteSet(S), NEW f, NEW g, \A x \in S : f[x] \in Int /\ f[x] = g[x]
    PROVE  Total(f, S) = Total(g, S)
<1>1. PICK a \in [SUBSET S -> Int] : Adds(a, f, S)
  BY SumExists
<1>2. PICK b \in [SUBSET S -> Int] : Adds(b, g, S)
  <2>1. \A x \in S : g[x] \in Int
    OBVIOUS
  <2> QED BY <2>1, SumExists
<1>3. \E h : Adds(h, f, S) /\ Total(f, S) = h[S]
  BY <1>1 DEF Adds, Total, SumFunctionOnSet, FoldFunctionOnSet, MapThenFoldSet, Head1
<1>4. \E h : Adds(h, g, S) /\ Total(g, S) = h[S]
  BY <1>2 DEF Adds, Total, SumFunctionOnSet, FoldFunctionOnSet, MapThenFoldSet, Head1
<1>5. PICK h : Adds(h, f, S) /\ Total(f, S) = h[S]
  BY <1>3
<1>6. PICK k : Adds(k, g, S) /\ Total(g, S) = k[S]
  BY <1>4
<1>7. h[S] = k[S]
  <2>1. S \subseteq S
    OBVIOUS
  <2> QED BY <1>5, <1>6, <2>1, SumsAgree
<1> QED
  BY <1>5, <1>6, <1>7

\* Any number may be taken first.
LEMMA TotalRemove ==
    ASSUME NEW S, IsFiniteSet(S), NEW f, \A x \in S : f[x] \in Int
    PROVE  \A x \in S : Total(f, S) = f[x] + Total(f, S \ {x})
<1> DEFINE good == {T \in SUBSET S : \A x \in T : Total(f, T) = f[x] + Total(f, T \ {x})}
<1>1. ASSUME NEW T \in SUBSET S, \A x \in T : T \ {x} \in good
      PROVE  T \in good
  <2>1. ASSUME NEW x \in T
        PROVE  Total(f, T) = f[x] + Total(f, T \ {x})
    <3>1. PICK y : y = Head1(T)
      OBVIOUS
    <3>2. y \in T /\ IsFiniteSet(T) /\ \A z \in T : f[z] \in Int
      BY <2>1, <3>1, HeadIsOne, FS_Subset
    <3>3. Total(f, T) = f[y] + Total(f, T \ {y})
      BY <2>1, <3>1, <3>2, TotalUnfolds
    <3>4. CASE x = y
      BY <3>3, <3>4
    <3>5. CASE x # y
      <4>1. PICK A, B, C : A = T \ {x} /\ B = T \ {y} /\ C = A \ {y}
        OBVIOUS
      <4>2. A \in good /\ B \in good /\ y \in A /\ x \in B /\ C = B \ {x}
        BY <1>1, <2>1, <3>2, <3>5, <4>1
      <4>3. Total(f, A) = f[y] + Total(f, C) /\ Total(f, B) = f[x] + Total(f, C)
        BY <4>1, <4>2
      <4>4. Total(f, C) \in Int
        <5>1. IsFiniteSet(C) /\ \A z \in C : f[z] \in Int
          BY <3>2, <4>1, FS_RemoveElement
        <5> QED BY <5>1, TotalUnfolds
      <4>5. f[x] \in Int /\ f[y] \in Int
        BY <3>2
      <4> QED BY <3>3, <4>1, <4>3, <4>4, <4>5
    <3> QED BY <3>4, <3>5
  <2> QED BY <2>1
<1>2. \A T \in SUBSET S : (\A x \in T : T \ {x} \in good) => T \in good
  BY <1>1
<1>3. S \in good
  <2>1. S \in SUBSET S
    OBVIOUS
  <2> HIDE DEF good
  <2> QED BY <1>2, <2>1, SetInduction
<1> QED
  BY <1>3

\* A sum of two parts.
LEMMA TotalSplit ==
    ASSUME NEW S, IsFiniteSet(S), NEW f, \A x \in S : f[x] \in Int, NEW P \in SUBSET S
    PROVE  Total(f, S) = Total(f, P) + Total(f, S \ P)
<1> DEFINE good == {T \in SUBSET P : Total(f, S) = Total(f, T) + Total(f, S \ T)}
<1>1. \A T \in SUBSET S : /\ IsFiniteSet(T) /\ (\A x \in T : f[x] \in Int)
                          /\ Total(f, T) \in Int
                          /\ \A x \in T : Total(f, T) = f[x] + Total(f, T \ {x})
  <2> TAKE T \in SUBSET S
  <2>1. IsFiniteSet(T) /\ \A x \in T : f[x] \in Int
    BY FS_Subset
  <2> QED BY <2>1, TotalUnfolds, TotalRemove
<1>2. ASSUME NEW T \in SUBSET P, \A x \in T : T \ {x} \in good
      PROVE  T \in good
  <2>1. CASE T = {}
    <3>1. Total(f, T) = 0
      BY <2>1, FS_EmptySet, TotalUnfolds
    <3>2. S \ T = S /\ Total(f, S) \in Int
      BY <1>1, <2>1
    <3>3. Total(f, S) = Total(f, T) + Total(f, S \ T)
      <4>1. PICK n : n = Total(f, S)
        OBVIOUS
      <4>2. n \in Int /\ n = 0 + n
        BY <3>2, <4>1
      <4>3. Total(f, S \ T) = n
        BY <3>2, <4>1
      <4> HIDE DEF good
      <4> QED BY <3>1, <4>1, <4>2, <4>3
    <3> QED BY <3>3
  <2>2. ASSUME NEW x \in T
        PROVE  T \in good
    <3>1. PICK A, B, C : A = T \ {x} /\ B = S \ T /\ C = S \ A
      OBVIOUS
    <3>2. A \in good
      BY <1>2, <2>2, <3>1
    <3>3. Total(f, S) = Total(f, A) + Total(f, C)
      BY <3>1, <3>2
    <3>4. T \in SUBSET S /\ A \in SUBSET S /\ B \in SUBSET S /\ C \in SUBSET S /\ x \in C /\ B = C \ {x}
      BY <2>2, <3>1
    <3>5. Total(f, T) = f[x] + Total(f, A) /\ Total(f, C) = f[x] + Total(f, B)
      BY <1>1, <2>2, <3>1, <3>4
    <3>6. Total(f, A) \in Int /\ Total(f, B) \in Int /\ f[x] \in Int
      BY <1>1, <3>4
    <3> QED BY <3>1, <3>3, <3>5, <3>6
  <2> QED BY <2>1, <2>2
<1>3. \A T \in SUBSET P : (\A x \in T : T \ {x} \in good) => T \in good
  BY <1>2
<1>4. P \in good
  <2>1. P \in SUBSET P /\ IsFiniteSet(P)
    BY FS_Subset
  <2> HIDE DEF good
  <2> QED BY <1>3, <2>1, SetInduction
<1> QED
  BY <1>4

\* A sum of numbers that are not negative is none.
LEMMA TotalNat ==
    ASSUME NEW S, IsFiniteSet(S), NEW f, \A x \in S : f[x] \in Nat
    PROVE  Total(f, S) \in Nat
<1> DEFINE good == {T \in SUBSET S : Total(f, T) \in Nat}
<1>1. ASSUME NEW T \in SUBSET S, \A x \in T : T \ {x} \in good
      PROVE  T \in good
  <2>1. IsFiniteSet(T) /\ \A x \in T : f[x] \in Int /\ f[x] \in Nat
    BY FS_Subset
  <2>2. CASE T = {}
    BY <2>1, <2>2, TotalUnfolds
  <2>3. CASE T # {}
    <3>1. PICK x, R : x = Head1(T) /\ R = T \ {x}
      OBVIOUS
    <3>2. x \in T /\ Total(f, R) \in Nat
      BY <1>1, <2>3, <3>1, HeadIsOne
    <3>3. Total(f, T) = f[x] + Total(f, R)
      BY <2>1, <2>3, <3>1, TotalUnfolds
    <3> QED BY <2>1, <3>2, <3>3
  <2> QED BY <2>2, <2>3
<1>2. \A T \in SUBSET S : (\A x \in T : T \ {x} \in good) => T \in good
  BY <1>1
<1>3. S \in good
  <2>1. S \in SUBSET S
    OBVIOUS
  <2> HIDE DEF good
  <2> QED BY <1>2, <2>1, SetInduction
<1> QED
  BY <1>3

\* Summing what h maps to each value, and then those sums, sums everything.
ImageOf(h, S) == {h[x] : x \in S}
Fiber(h, S, V) == {x \in S : h[x] \in V}

LEMMA ImageFinite ==
    ASSUME NEW S, IsFiniteSet(S), NEW h
    PROVE  IsFiniteSet(ImageOf(h, S))
<1> DEFINE g == [x \in S |-> h[x]]
           I == ImageOf(h, S)
<1>1. g \in Surjection(S, I)
  BY DEF ImageOf, Surjection
<1> HIDE DEF g, I
<1>2. IsFiniteSet(I)
  BY <1>1, FS_Surjection
<1> QED
  BY <1>2 DEF I

LEMMA TotalFibers ==
    ASSUME NEW S, IsFiniteSet(S), NEW f, \A x \in S : f[x] \in Int, NEW h,
           NEW F, \A v \in ImageOf(h, S) : F[v] = Total(f, Fiber(h, S, {v}))
    PROVE  /\ IsFiniteSet(ImageOf(h, S))
           /\ Total(F, ImageOf(h, S)) = Total(f, S)
<1> DEFINE I == ImageOf(h, S)
           good == {V \in SUBSET I : Total(F, V) = Total(f, Fiber(h, S, V))}
<1>1. IsFiniteSet(I)
  BY ImageFinite
<1>2. \A V : /\ Fiber(h, S, V) \in SUBSET S /\ IsFiniteSet(Fiber(h, S, V))
             /\ \A x \in Fiber(h, S, V) : f[x] \in Int
             /\ Total(f, Fiber(h, S, V)) \in Int
  <2> TAKE V
  <2>1. Fiber(h, S, V) \in SUBSET S
    BY DEF Fiber
  <2>2. PICK P : P = Fiber(h, S, V)
    OBVIOUS
  <2>3. P \in SUBSET S /\ IsFiniteSet(P) /\ \A x \in P : f[x] \in Int
    BY <2>1, <2>2, FS_Subset
  <2>4. Total(f, P) \in Int
    BY <2>3, TotalUnfolds
  <2> QED BY <2>2, <2>3, <2>4
<1>3. \A v \in I : F[v] \in Int
  BY <1>2
<1>4. ASSUME NEW V \in SUBSET I, \A v \in V : V \ {v} \in good
      PROVE  V \in good
  <2>1. IsFiniteSet(V) /\ \A v \in V : F[v] \in Int
    <3> HIDE DEF I
    <3> QED BY <1>1, <1>3, FS_Subset
  <2>2. CASE V = {}
    <3>1. Fiber(h, S, V) = {}
      BY <2>2 DEF Fiber
    <3>2. Total(F, V) = 0
      BY <2>1, <2>2, TotalUnfolds
    <3>3. Total(f, Fiber(h, S, V)) = 0
      BY <1>2, <3>1, TotalUnfolds
    <3> QED BY <3>2, <3>3
  <2>3. ASSUME NEW v \in V
        PROVE  V \in good
    <3>1. PICK W, A, B, C : /\ W = V \ {v} /\ A = Fiber(h, S, V)
                            /\ B = Fiber(h, S, {v}) /\ C = Fiber(h, S, W)
      OBVIOUS
    <3>2. B \in SUBSET A /\ C = A \ B
      BY <3>1, <2>3 DEF Fiber
    <3>3. IsFiniteSet(A) /\ \A x \in A : f[x] \in Int
      BY <1>2, <3>1
    <3>4. Total(f, A) = Total(f, B) + Total(f, C)
      BY <3>2, <3>3, TotalSplit
    <3>5. W \in good
      BY <1>4, <2>3, <3>1
    <3>6. Total(F, W) = Total(f, C)
      BY <3>1, <3>5
    <3>7. Total(F, V) = F[v] + Total(F, W)
      BY <2>1, <2>3, <3>1, TotalRemove
    <3>8. F[v] = Total(f, B)
      BY <2>3, <3>1
    <3>9. Total(F, V) = Total(f, A)
      BY <3>4, <3>6, <3>7, <3>8
    <3> QED BY <3>1, <3>9
  <2> QED BY <2>2, <2>3
<1>5. I \in good
  <2>1. \A V \in SUBSET I : (\A v \in V : V \ {v} \in good) => V \in good
    BY <1>4
  <2>2. I \in SUBSET I
    OBVIOUS
  <2> HIDE DEF good, I
  <2> QED BY <1>1, <2>1, <2>2, SetInduction
<1>6. Fiber(h, S, I) = S
  BY DEF Fiber, ImageOf
<1> QED
  BY <1>1, <1>5, <1>6

-----------------------------------------------------------------------------
(* The plan of an import. *)

\* Of finitely many things in a total order one comes before all others.
LEMMA BestOf ==
    ASSUME NEW S, IsFiniteSet(S), S # {}, NEW order,
           \A a, b \in S : a # b => <<a, b>> \in order \/ <<b, a>> \in order,
           \A a, b, c \in S : a # c /\ <<a, b>> \in order /\ <<b, c>> \in order => <<a, c>> \in order
    PROVE  \E best \in S : \A x \in S \ {best} : <<best, x>> \in order
<1> DEFINE good == {T \in SUBSET S : T = {} \/ \E b \in T : \A x \in T \ {b} : <<b, x>> \in order}
<1>1. ASSUME NEW T \in SUBSET S, \A x \in T : T \ {x} \in good
      PROVE  T \in good
  <2>1. CASE T = {}
    BY <2>1
  <2>2. ASSUME NEW y \in T
        PROVE  T \in good
    <3>1. PICK R : R = T \ {y}
      OBVIOUS
    <3>2. R \in good
      BY <1>1, <2>2, <3>1
    <3>3. CASE R = {}
      BY <2>2, <3>1, <3>3
    <3>4. CASE R # {}
      <4>1. PICK b \in R : \A x \in R \ {b} : <<b, x>> \in order
        BY <3>2, <3>4
      <4>2. b \in T /\ b # y /\ b \in S /\ y \in S
        BY <2>2, <3>1, <4>1
      <4>3. CASE <<b, y>> \in order
        BY <3>1, <4>1, <4>2, <4>3
      <4>4. CASE <<y, b>> \in order
        <5>1. \A x \in T \ {y} : <<y, x>> \in order
          BY <2>2, <3>1, <4>1, <4>2, <4>4
        <5> QED BY <2>2, <5>1
      <4> QED BY <4>2, <4>3, <4>4
    <3> QED BY <3>3, <3>4
  <2> QED BY <2>1, <2>2
<1>2. \A T \in SUBSET S : (\A x \in T : T \ {x} \in good) => T \in good
  BY <1>1
<1>3. S \in good
  <2>1. S \in SUBSET S
    OBVIOUS
  <2> HIDE DEF good
  <2> QED BY <1>2, <2>1, SetInduction
<1> QED
  BY <1>3

LEMMA Extremes ==
    ASSUME NEW S \in SUBSET Int, IsFiniteSet(S), S # {}
    PROVE  Max(S) \in S /\ Min(S) \in S
<1>1. \E best \in S : \A x \in S : best >= x
  <2> DEFINE order == {p \in S \X S : p[1] >= p[2]}
  <2>1. \A a, b \in S : <<a, b>> \in order <=> a >= b
    OBVIOUS
  <2>2. \A a, b \in S : a # b => <<a, b>> \in order \/ <<b, a>> \in order
    BY <2>1
  <2>3. \A a, b, c \in S : a # c /\ <<a, b>> \in order /\ <<b, c>> \in order => <<a, c>> \in order
    BY <2>1
  <2>4. PICK best \in S : \A x \in S \ {best} : <<best, x>> \in order
    <3> HIDE DEF order
    <3> QED BY <2>2, <2>3, BestOf
  <2>5. ASSUME NEW x \in S
        PROVE  best >= x
    <3>1. best \in Int
      OBVIOUS
    <3>2. x # best => <<best, x>> \in order
      <4> HIDE DEF order
      <4> QED BY <2>4
    <3> QED BY <2>1, <3>1, <3>2
  <2> QED BY <2>5
<1>2. \E best \in S : \A x \in S : best =< x
  <2> DEFINE order == {p \in S \X S : p[1] =< p[2]}
  <2>1. \A a, b \in S : <<a, b>> \in order <=> a =< b
    OBVIOUS
  <2>2. \A a, b \in S : a # b => <<a, b>> \in order \/ <<b, a>> \in order
    BY <2>1
  <2>3. \A a, b, c \in S : a # c /\ <<a, b>> \in order /\ <<b, c>> \in order => <<a, c>> \in order
    BY <2>1
  <2>4. PICK best \in S : \A x \in S \ {best} : <<best, x>> \in order
    <3> HIDE DEF order
    <3> QED BY <2>2, <2>3, BestOf
  <2>5. ASSUME NEW x \in S
        PROVE  best =< x
    <3>1. best \in Int
      OBVIOUS
    <3>2. x # best => <<best, x>> \in order
      <4> HIDE DEF order
      <4> QED BY <2>4
    <3> QED BY <2>1, <3>1, <3>2
  <2> QED BY <2>5
<1> QED
  BY <1>1, <1>2 DEF Max, Min

\* A session that has candidates has a best one: the order is total, because
\* no two charges start together.
LEMMA BestChargeFits ==
    ASSUME NEW s, s.start \in Int, Candidates(s) # {}
    PROVE  bestCharge(s) \in Candidates(s) /\ bestCharge(s) \in Charges
<1> DEFINE order == {p \in Charges \X Charges : Beats(s, p[1], p[2])}
<1>1. /\ Candidates(s) \subseteq Charges /\ IsFiniteSet(Candidates(s))
      /\ \A c \in Charges : Started[c] \in Int /\ IsDC[c] \in BOOLEAN /\ Lasted[c] \in Nat
      /\ \A c, d \in Charges : Started[c] = Started[d] => c = d
  <2>1. Candidates(s) \in SUBSET Charges
    BY DEF Candidates
  <2> QED BY <2>1, ChargeAssumption, FS_Subset
<1>2. \A c \in Charges : Distance(s, c) \in Int
  BY <1>1 DEF Distance, Ended
<1>3. \A a, b \in Charges : <<a, b>> \in order <=> Beats(s, a, b)
  OBVIOUS
<1>4. \A a, b \in Charges : a # b => Beats(s, a, b) \/ Beats(s, b, a)
  <2> SUFFICES ASSUME NEW a \in Charges, NEW b \in Charges, a # b
               PROVE  Beats(s, a, b) \/ Beats(s, b, a)
    OBVIOUS
  <2>1. Started[a] # Started[b] /\ Started[a] \in Int /\ Started[b] \in Int
    BY <1>1
  <2>2. Distance(s, a) \in Int /\ Distance(s, b) \in Int
    BY <1>2
  <2>3. IsDC[a] \in BOOLEAN /\ IsDC[b] \in BOOLEAN
    BY <1>1
  <2>4. Distance(s, a) < Distance(s, b) \/ Distance(s, b) < Distance(s, a)
        \/ Distance(s, a) = Distance(s, b)
    BY <2>2
  <2>5. Started[a] > Started[b] \/ Started[b] > Started[a]
    BY <2>1
  <2> QED BY <2>3, <2>4, <2>5, Zenon DEF Beats
<1>5. \A a, b, c \in Charges : Beats(s, a, b) /\ Beats(s, b, c) => Beats(s, a, c)
  <2> SUFFICES ASSUME NEW a \in Charges, NEW b \in Charges, NEW c \in Charges,
                      Beats(s, a, b), Beats(s, b, c)
               PROVE  Beats(s, a, c)
    OBVIOUS
  <2>1. Started[a] \in Int /\ Started[b] \in Int /\ Started[c] \in Int
        /\ Distance(s, a) \in Int /\ Distance(s, b) \in Int /\ Distance(s, c) \in Int
    BY <1>1, <1>2
  <2>2. IsDC[a] \in BOOLEAN /\ IsDC[b] \in BOOLEAN /\ IsDC[c] \in BOOLEAN
    BY <1>1
  <2> DEFINE less(x, y) == \/ Distance(s, x) < Distance(s, y)
                           \/ Distance(s, x) = Distance(s, y) /\ Started[x] > Started[y]
  <2>3. less(a, b) /\ less(b, c) => less(a, c)
    BY <2>1
  <2>4. \A x, y : Beats(s, x, y) <=> (IsDC[x] /\ ~IsDC[y]) \/ (IsDC[x] = IsDC[y] /\ less(x, y))
    BY DEF Beats
  <2> HIDE DEF less
  <2> QED BY <2>2, <2>3, <2>4, Zenon
<1>6. \E best \in Candidates(s) : \A d \in Candidates(s) \ {best} : <<best, d>> \in order
  <2>1. \A a, b \in Candidates(s) : a # b => <<a, b>> \in order \/ <<b, a>> \in order
    BY <1>1, <1>3, <1>4
  <2>2. \A a, b, c \in Candidates(s) :
           a # c /\ <<a, b>> \in order /\ <<b, c>> \in order => <<a, c>> \in order
    BY <1>1, <1>3, <1>5
  <2> HIDE DEF order
  <2> QED BY <1>1, <2>1, <2>2, BestOf
<1>7. \E best \in Candidates(s) : \A d \in Candidates(s) \ {best} : Beats(s, best, d)
  BY <1>1, <1>3, <1>6
<1>8. bestCharge(s) \in Candidates(s)
  BY <1>7 DEF bestCharge
<1> QED
  BY <1>1, <1>8

\* The rows of an export that count, and the session each belongs to.
GroupOf(file, i) == {j \in Readable(file) : KeyOf(file[j]) = KeyOf(file[i])}
SessionOf(file) == [i \in Readable(file) |-> Session(file, GroupOf(file, i))]
RowTotals(file) == [i \in Readable(file) |-> file[i].total]

LEMMA RowFacts ==
    ASSUME NEW file \in Seq(BillRow)
    PROVE  /\ Readable(file) \in SUBSET Nat /\ IsFiniteSet(Readable(file))
           /\ \A i \in Readable(file) : file[i] \in BillRow
<1>1. DOMAIN file = 1 .. Len(file) /\ Len(file) \in Nat /\ \A i \in DOMAIN file : file[i] \in BillRow
  OBVIOUS
<1>2. Readable(file) \in SUBSET DOMAIN file
  BY DEF Readable, Firsts
<1>3. IsFiniteSet(1 .. Len(file))
  BY <1>1, FS_Interval
<1>4. IsFiniteSet(Readable(file))
  BY <1>1, <1>2, <1>3, FS_Subset
<1> QED
  BY <1>1, <1>2, <1>4

LEMMA GroupFacts ==
    ASSUME NEW file \in Seq(BillRow), NEW i \in Readable(file)
    PROVE  /\ GroupOf(file, i) \in SUBSET Readable(file) /\ IsFiniteSet(GroupOf(file, i))
           /\ i \in GroupOf(file, i) /\ Min(GroupOf(file, i)) \in GroupOf(file, i)
           /\ \A j \in GroupOf(file, i) : GroupOf(file, j) = GroupOf(file, i)
<1>1. GroupOf(file, i) \in SUBSET Readable(file) /\ i \in GroupOf(file, i)
      /\ \A j \in GroupOf(file, i) : GroupOf(file, j) = GroupOf(file, i)
  BY DEF GroupOf
<1>2. PICK G : G = GroupOf(file, i)
  OBVIOUS
<1>3. IsFiniteSet(G) /\ G \in SUBSET Int /\ G # {}
  BY <1>1, <1>2, RowFacts, FS_Subset
<1>4. Min(G) \in G
  BY <1>3, Extremes
<1> QED
  BY <1>1, <1>2, <1>3, <1>4

\* A session is billed what its rows are; no two groups make the same session.
LEMMA SessionFacts ==
    ASSUME NEW file \in Seq(BillRow)
    PROVE  /\ ImageOf(SessionOf(file), Readable(file)) = Sessions(file)
           /\ \A i \in Readable(file) :
                 /\ SessionOf(file)[i].start \in Int /\ SessionOf(file)[i].vin \in Vins
                 /\ SessionOf(file)[i].total = Total(RowTotals(file), GroupOf(file, i))
                 /\ SessionOf(file)[i].total \in Int
                 /\ Fiber(SessionOf(file), Readable(file), {SessionOf(file)[i]}) = GroupOf(file, i)
<1>1. ASSUME NEW i \in Readable(file)
      PROVE  /\ SessionOf(file)[i].key = KeyOf(file[i])
             /\ SessionOf(file)[i].start \in Int /\ SessionOf(file)[i].vin \in Vins
             /\ SessionOf(file)[i].total = Total(RowTotals(file), GroupOf(file, i))
             /\ SessionOf(file)[i].total \in Int
  <2>1. PICK G, k : G = GroupOf(file, i) /\ k = Min(G)
    OBVIOUS
  <2>2. /\ G \in SUBSET Readable(file) /\ IsFiniteSet(G) /\ k \in G
        /\ KeyOf(file[k]) = KeyOf(file[i])
    <3>1. G \in SUBSET Readable(file) /\ IsFiniteSet(G) /\ k \in G
      BY <2>1, GroupFacts
    <3> QED BY <2>1, <3>1 DEF GroupOf
  <2>3. /\ SessionOf(file)[i].key = KeyOf(file[k])
        /\ SessionOf(file)[i].start = file[k].start
        /\ SessionOf(file)[i].vin = file[k].vin
        /\ SessionOf(file)[i].total = SumFunction([j \in G |-> file[j].total])
    BY <2>1 DEF SessionOf, Session
  <2>4. file[k].start \in Int /\ file[k].vin \in Vins
    <3>1. file[k] \in BillRow
      BY <2>2, RowFacts
    <3> QED BY <3>1 DEF BillRow
  <2>5. SumFunction([j \in G |-> file[j].total]) = Total(RowTotals(file), G)
        /\ Total(RowTotals(file), G) \in Int
    <3>1. PICK f, g : f = [j \in G |-> file[j].total] /\ g = RowTotals(file)
      OBVIOUS
    <3>2. DOMAIN f = G /\ \A j \in G : f[j] \in Int /\ g[j] \in Int /\ f[j] = g[j]
      <4>1. \A j \in G : file[j] \in BillRow /\ file[j].total \in Int
        BY <2>2, RowFacts DEF BillRow
      <4> QED BY <2>2, <3>1, <4>1 DEF RowTotals
    <3>3. SumFunction(f) = Total(f, G)
      BY <3>2, SumIsTotal
    <3>4. Total(f, G) = Total(g, G) /\ Total(g, G) \in Int
      BY <2>2, <3>2, TotalSame, TotalUnfolds
    <3> QED BY <3>1, <3>3, <3>4
  <2> QED BY <2>1, <2>2, <2>3, <2>4, <2>5
<1>2. ASSUME NEW i \in Readable(file)
      PROVE  Fiber(SessionOf(file), Readable(file), {SessionOf(file)[i]}) = GroupOf(file, i)
  <2>1. ASSUME NEW j \in Readable(file), SessionOf(file)[j] = SessionOf(file)[i]
        PROVE  j \in GroupOf(file, i)
    BY <1>1, <2>1 DEF GroupOf
  <2>2. ASSUME NEW j \in GroupOf(file, i)
        PROVE  j \in Readable(file) /\ SessionOf(file)[j] = SessionOf(file)[i]
    <3>1. j \in Readable(file) /\ GroupOf(file, j) = GroupOf(file, i)
      BY GroupFacts
    <3> QED BY <3>1 DEF SessionOf
  <2> QED BY <2>1, <2>2 DEF Fiber
<1>3. ImageOf(SessionOf(file), Readable(file)) = Sessions(file)
  <2>1. Groups(file) = {GroupOf(file, i) : i \in Readable(file)}
    BY DEF Groups, GroupOf
  <2> QED BY <2>1 DEF ImageOf, SessionOf, Sessions
<1> QED
  BY <1>1, <1>2, <1>3

SessionTotals(file) == [s \in Sessions(file) |-> s.total]

\* The sessions bill what the rows do.
LEMMA SessionsBill ==
    ASSUME NEW file \in Seq(BillRow)
    PROVE  /\ IsFiniteSet(Sessions(file))
           /\ \A s \in Sessions(file) : s.start \in Int /\ s.vin \in Vins /\ s.total \in Int
           /\ Total(SessionTotals(file), Sessions(file)) = Total(RowTotals(file), Readable(file))
<1>1. PICK R, h, f, F : /\ R = Readable(file) /\ h = SessionOf(file) /\ f = RowTotals(file)
                        /\ F = SessionTotals(file)
  OBVIOUS
<1>2. IsFiniteSet(R) /\ ImageOf(h, R) = Sessions(file)
  BY <1>1, RowFacts, SessionFacts
<1>3. \A i \in R : f[i] \in Int
  BY <1>1, RowFacts DEF RowTotals, BillRow
<1>4. ASSUME NEW s \in Sessions(file)
      PROVE  /\ s.start \in Int /\ s.vin \in Vins /\ s.total \in Int
             /\ F[s] = Total(f, Fiber(h, R, {s}))
  <2>1. PICK i \in R : s = h[i]
    BY <1>2 DEF ImageOf
  <2>2. /\ h[i].start \in Int /\ h[i].vin \in Vins /\ h[i].total \in Int
        /\ h[i].total = Total(f, Fiber(h, R, {h[i]}))
    BY <1>1, <2>1, SessionFacts
  <2>3. F[s] = s.total
    BY <1>1 DEF SessionTotals
  <2> QED BY <2>1, <2>2, <2>3
<1>5. IsFiniteSet(ImageOf(h, R)) /\ Total(F, ImageOf(h, R)) = Total(f, R)
  <2>1. \A s \in ImageOf(h, R) : F[s] = Total(f, Fiber(h, R, {s}))
    BY <1>2, <1>4
  <2> QED BY <1>2, <1>3, <2>1, TotalFibers
<1> QED
  BY <1>1, <1>2, <1>4, <1>5

\* The car that is chosen first is one of the file's, or none.
VinStarts(file, v) == {s.start : s \in {t \in Sessions(file) : t.vin = v}}
VinCount(file, v) == Cardinality({s \in Sessions(file) : s.vin = v})
AheadOf(file, v, w) ==
    \/ VinCount(file, v) > VinCount(file, w)
    \/ VinCount(file, v) = VinCount(file, w) /\ Max(VinStarts(file, v)) >= Max(VinStarts(file, w))

LEMMA DefaultVinFits ==
    ASSUME NEW file \in Seq(BillRow)
    PROVE  DefaultVin(file) \in Vins
<1> DEFINE cars == VinsOf(file)
           order == {p \in cars \X cars : AheadOf(file, p[1], p[2])}
<1>1. IsFiniteSet(Sessions(file)) /\ \A s \in Sessions(file) : s.start \in Int /\ s.vin \in Vins
  BY SessionsBill
<1>2. cars \subseteq Vins /\ IsFiniteSet(cars)
  <2>1. cars \in SUBSET ImageOf([s \in Sessions(file) |-> s.vin], Sessions(file))
    BY DEF VinsOf, ImageOf
  <2>2. IsFiniteSet(ImageOf([s \in Sessions(file) |-> s.vin], Sessions(file)))
    BY <1>1, ImageFinite
  <2>3. cars \subseteq Vins
    BY <1>1 DEF VinsOf
  <2> HIDE DEF cars
  <2> QED BY <2>1, <2>2, <2>3, FS_Subset
<1>3. ASSUME NEW v \in cars
      PROVE  VinCount(file, v) \in Nat /\ Max(VinStarts(file, v)) \in Int
  <2>1. PICK S : S = {s \in Sessions(file) : s.vin = v}
    OBVIOUS
  <2>2. IsFiniteSet(S) /\ S # {} /\ \A s \in S : s.start \in Int
    <3>1. S \in SUBSET Sessions(file)
      BY <2>1
    <3> QED BY <1>1, <2>1, <3>1, FS_Subset DEF VinsOf
  <2>3. VinCount(file, v) \in Nat
    BY <2>1, <2>2, FS_CardinalityType DEF VinCount
  <2>4. PICK I : I = VinStarts(file, v)
    OBVIOUS
  <2>5. I = ImageOf([s \in S |-> s.start], S)
    BY <2>1, <2>4 DEF VinStarts, ImageOf
  <2>6. IsFiniteSet(I) /\ I # {} /\ I \in SUBSET Int
    BY <2>2, <2>5, ImageFinite DEF ImageOf
  <2>7. Max(I) \in Int
    BY <2>6, Extremes
  <2> QED BY <2>3, <2>4, <2>7
<1>4. \A v, w \in cars : <<v, w>> \in order <=> AheadOf(file, v, w)
  <2> HIDE DEF cars
  <2> QED OBVIOUS
<1>5. \A v, w \in cars : AheadOf(file, v, w) \/ AheadOf(file, w, v)
  <2> HIDE DEF cars
  <2> QED BY <1>3 DEF AheadOf
<1>6. \A v, w, x \in cars : AheadOf(file, v, w) /\ AheadOf(file, w, x) => AheadOf(file, v, x)
  <2> HIDE DEF cars
  <2> QED BY <1>3 DEF AheadOf
<1>7. cars # {} => \E best \in cars : \A w \in cars \ {best} : AheadOf(file, best, w)
  <2>1. \A a, b \in cars : a # b => <<a, b>> \in order \/ <<b, a>> \in order
    BY <1>4, <1>5
  <2>2. \A a, b, c \in cars : a # c /\ <<a, b>> \in order /\ <<b, c>> \in order => <<a, c>> \in order
    BY <1>4, <1>6
  <2>3. cars # {} => \E best \in cars : \A w \in cars \ {best} : <<best, w>> \in order
    <3> HIDE DEF order, cars
    <3> QED BY <1>2, <2>1, <2>2, BestOf
  <2> QED BY <1>4, <2>3
<1>8. DefaultVin(file) = IF Cardinality(cars) < 2 THEN ""
                         ELSE CHOOSE v \in cars : \A w \in cars \ {v} : AheadOf(file, v, w)
  BY DEF DefaultVin, AheadOf, VinsOf, VinCount, VinStarts
<1>9. cars = {} => Cardinality(cars) < 2
  BY FS_EmptySet
<1>10. "" \in Vins
  BY DEF Vins
<1> HIDE DEF cars
<1> QED
  BY <1>2, <1>7, <1>8, <1>9, <1>10

\* What an import of a file for a car bills, each charge and all of them.
Kept(file, car) == {s \in Sessions(file) : ~IsSkipped(s, car)}
Bill(file, car, c) == SumFunction([s \in Matches(file, car)[c] |-> s.total])

LEMMA PlanBills ==
    ASSUME NEW file \in Seq(BillRow), NEW car
    PROVE  /\ DOMAIN Matches(file, car) \subseteq Charges
           /\ \A c \in DOMAIN Matches(file, car) : Bill(file, car, c) \in Nat
           /\ SumFunction([c \in DOMAIN Matches(file, car) |-> Bill(file, car, c)])
              + SumFunction([s \in Skipped(file, car) |-> s.total])
              = SumFunction([i \in Readable(file) |-> file[i].total])
<1>1. PICK S, K, f, h, M : /\ S = Sessions(file) /\ K = Kept(file, car) /\ f = SessionTotals(file)
                           /\ h = [s \in K |-> bestCharge(s)] /\ M = Matches(file, car)
  OBVIOUS
<1>2. /\ IsFiniteSet(S) /\ K \in SUBSET S /\ IsFiniteSet(K) /\ IsFiniteSet(S \ K)
      /\ \A s \in S : f[s] \in Int /\ f[s] = s.total /\ s.start \in Int
  <2>1. IsFiniteSet(S) /\ \A s \in S : f[s] \in Int /\ f[s] = s.total /\ s.start \in Int
    BY <1>1, SessionsBill DEF SessionTotals
  <2>2. K \in SUBSET S /\ S \ K \in SUBSET S
    BY <1>1 DEF Kept
  <2> QED BY <2>1, <2>2, FS_Subset
<1>3. /\ DOMAIN M = ImageOf(h, K)
      /\ \A c \in DOMAIN M : M[c] = Fiber(h, K, {c})
  BY <1>1 DEF Matches, Grouped, Kept, ImageOf, Fiber
<1>4. ASSUME NEW s \in K
      PROVE  f[s] \in Nat /\ bestCharge(s) \in Charges
  <2>1. ~IsSkipped(s, car) /\ s \in S
    BY <1>1 DEF Kept
  <2>2. ~(s.total < 0) /\ Candidates(s) # {}
    BY <2>1, Zenon DEF IsSkipped
  <2>3. f[s] \in Nat
    BY <1>2, <2>1, <2>2
  <2> QED BY <1>2, <2>1, <2>2, <2>3, BestChargeFits
<1>5. DOMAIN M \subseteq Charges
  BY <1>1, <1>3, <1>4 DEF ImageOf
<1>6. ASSUME NEW c \in DOMAIN M
      PROVE  Bill(file, car, c) = Total(f, Fiber(h, K, {c})) /\ Bill(file, car, c) \in Nat
  <2>1. PICK P, g : P = Fiber(h, K, {c}) /\ g = [s \in P |-> s.total]
    OBVIOUS
  <2>2. P \in SUBSET K /\ IsFiniteSet(P)
    <3>1. P \in SUBSET K
      BY <2>1 DEF Fiber
    <3> QED BY <1>2, <3>1, FS_Subset
  <2>3. DOMAIN g = P /\ \A s \in P : f[s] \in Int /\ f[s] \in Nat /\ g[s] = f[s]
    BY <1>2, <1>4, <2>1, <2>2
  <2>4. Bill(file, car, c) = SumFunction(g)
    BY <1>1, <1>3, <2>1 DEF Bill
  <2>5. SumFunction(g) = Total(g, P)
    BY <2>3, SumIsTotal
  <2>6. Total(g, P) = Total(f, P) /\ Total(f, P) \in Nat
    BY <2>2, <2>3, TotalSame, TotalNat
  <2> QED BY <2>1, <2>4, <2>5, <2>6
<1>7. SumFunction([c \in DOMAIN M |-> Bill(file, car, c)]) = Total(f, K)
  <2>1. PICK F : F = [c \in DOMAIN M |-> Bill(file, car, c)]
    OBVIOUS
  <2>2. \A c \in ImageOf(h, K) : F[c] = Total(f, Fiber(h, K, {c}))
    BY <1>3, <1>6, <2>1
  <2>3. \A s \in K : f[s] \in Int
    BY <1>2
  <2>4. Total(F, ImageOf(h, K)) = Total(f, K)
    BY <1>2, <2>2, <2>3, TotalFibers
  <2>5. DOMAIN F = ImageOf(h, K)
    BY <1>3, <2>1
  <2> QED BY <2>1, <2>4, <2>5, SumIsTotal
<1>8. SumFunction([s \in Skipped(file, car) |-> s.total]) = Total(f, S \ K)
  <2>1. PICK g : g = [s \in Skipped(file, car) |-> s.total]
    OBVIOUS
  <2>2. Skipped(file, car) = S \ K
    BY <1>1 DEF Skipped, Kept
  <2>3. DOMAIN g = S \ K /\ \A s \in S \ K : f[s] \in Int /\ g[s] = f[s] /\ g[s] \in Int
    BY <1>2, <2>1, <2>2
  <2>4. Total(g, S \ K) = Total(f, S \ K)
    BY <1>2, <2>3, TotalSame
  <2> QED BY <2>1, <2>3, <2>4, SumIsTotal
<1>9. Total(f, S) = Total(f, K) + Total(f, S \ K)
  BY <1>2, TotalSplit
<1>10. Total(f, S) = Total(RowTotals(file), Readable(file))
  BY <1>1, SessionsBill
<1>11. SumFunction([i \in Readable(file) |-> file[i].total]) = Total(RowTotals(file), Readable(file))
  <2>1. DOMAIN RowTotals(file) = Readable(file)
    BY DEF RowTotals
  <2>2. SumFunction(RowTotals(file)) = Total(RowTotals(file), Readable(file))
    BY <2>1, SumIsTotal
  <2> QED BY <2>2 DEF RowTotals
<1> QED
  BY <1>1, <1>5, <1>6, <1>7, <1>8, <1>9, <1>10, <1>11

(* The plan under review bills a file of the export to a car.               *)
Planned(file, car) ==
    /\ file \in DOMAIN Files /\ car \in Vins
    /\ DOMAIN plan = DOMAIN Matches(Files[file], car)
    /\ \A c \in DOMAIN plan : plan[c].teslaTotal = Bill(Files[file], car, c)

PlanInv == parsed # 0 => Planned(parsed, vin)

LEMMA FilesAreSequences == \A f \in DOMAIN Files : Files[f] \in Seq(BillRow)
BY EditAssumption

LEMMA ReviewPlans ==
    ASSUME NEW file \in DOMAIN Files, NEW car \in Vins, Review(file, car)
    PROVE  Planned(parsed, vin)'
<1>1. PICK M : M = Matches(Files[file], car)
  OBVIOUS
<1>2. MatchesIn[file][car] = M
  BY <1>1 DEF MatchesIn
<1>3. parsed' = file /\ vin' = car /\ plan' = [c \in DOMAIN M |-> Item(c, M[c], shown[c])]
  BY <1>2 DEF Review, planImport
<1>4. \A c \in DOMAIN M : plan'[c].teslaTotal = SumFunction([s \in M[c] |-> s.total])
  BY <1>3 DEF Item
<1>5. DOMAIN plan' = DOMAIN M
  BY <1>3
<1> QED
  BY <1>1, <1>3, <1>4, <1>5 DEF Planned, Bill

\* A plan is made, closed or kept.
LEMMA PlanSteps ==
    ASSUME PlanInv, [Next]_vars
    PROVE  \/ \E file \in DOMAIN Files, car \in Vins : Review(file, car)
           \/ NoPlan
           \/ UNCHANGED <<parsed, vin, plan>>
<1>1. ASSUME NEW file \in DOMAIN Files, ReadFile(file)
      PROVE  \E f \in DOMAIN Files, car \in Vins : Review(f, car)
  <2>1. FirstCar[file] \in Vins
    BY FilesAreSequences, DefaultVinFits DEF FirstCar
  <2> QED BY <1>1, <2>1 DEF ReadFile
<1>2. ASSUME NEW car \in Vins, ChooseVin(car)
      PROVE  \E f \in DOMAIN Files, v \in Vins : Review(f, v)
  BY <1>2 DEF ChooseVin, PlanInv, Planned
<1>3. ASSUME NEW ticked, NEW choice, apply(ticked, choice)
      PROVE  UNCHANGED <<parsed, vin, plan>>
  BY <1>3 DEF apply, GivenUp
<1>4. CASE verifyImport
  BY <1>4 DEF verifyImport, GivenUp
<1>5. CASE undo
  BY <1>5 DEF undo, GivenUp
<1>6. CASE verifyUndo
  BY <1>6 DEF verifyUndo, GivenUp
<1>7. CASE ClosePlan
  BY <1>7 DEF ClosePlan
<1>8. CASE UNCHANGED importVars
  BY <1>8 DEF importVars
<1>9. CASE \/ \E id \in {0} \cup FenceIds, name \in Names, area \in Areas, price \in FencePrices,
                 history \in BOOLEAN : Submit(id, name, area, price, history)
           \/ Resubmit \/ SaveStep \/ ShowNotice
           \/ \E id \in FenceIds : RemoveFence(id)
           \/ ReloadCharges
           \/ \E c \in Charges, value \in EditedCosts : saveCost(c, value)
           \/ UNCHANGED vars
  BY <1>8, <1>9 DEF Submit, Resubmit, SaveStep, ShowNotice, RemoveFence, ReloadCharges, saveCost, vars
<1> QED
  BY <1>1, <1>2, <1>3, <1>4, <1>5, <1>6, <1>7, <1>9 DEF Next

LEMMA PlanInvariant == Spec => []PlanInv
<1>1. Init => PlanInv
  BY DEF Init, PlanInv
<1>2. ASSUME PlanInv, [Next]_vars
      PROVE  PlanInv'
  <2>1. ASSUME NEW file \in DOMAIN Files, NEW car \in Vins, Review(file, car)
        PROVE  PlanInv'
    BY <2>1, ReviewPlans DEF PlanInv
  <2>2. CASE NoPlan
    BY <2>2 DEF PlanInv, NoPlan
  <2>3. CASE UNCHANGED <<parsed, vin, plan>>
    BY <1>2, <2>3 DEF PlanInv, Planned
  <2> QED
    BY <1>2, <2>1, <2>2, <2>3, PlanSteps
<1> QED
  BY <1>1, <1>2, PTL DEF Spec

(* Of what Tesla billed, each session of the chosen car that matches a      *)
(* charge is what exactly one charge of the plan gets, for any export and   *)
(* any charges, however the file groups, repeats and orders its rows        *)
(* (superchargerCsv.ts).                                                    *)
THEOREM EachSessionIsBilledOnce == Spec => []BilledOnce
<1>1. ASSUME Planned(parsed, vin)
      PROVE  SumFunction([c \in DOMAIN plan |-> plan[c].teslaTotal]) + NotBilled[parsed][vin]
                = Billed[parsed]
  <2>1. PICK file : file = Files[parsed]
    OBVIOUS
  <2>2. file \in Seq(BillRow)
    BY <1>1, <2>1, FilesAreSequences DEF Planned
  <2>3. NotBilled[parsed][vin] = SumFunction([s \in Skipped(file, vin) |-> s.total])
        /\ Billed[parsed] = SumFunction([i \in Readable(file) |-> file[i].total])
    BY <1>1, <2>1 DEF Planned, NotBilled, Billed
  <2>4. [c \in DOMAIN plan |-> plan[c].teslaTotal]
           = [c \in DOMAIN Matches(file, vin) |-> Bill(file, vin, c)]
    BY <1>1, <2>1 DEF Planned
  <2> QED
    BY <2>2, <2>3, <2>4, PlanBills
<1>2. PlanInv => BilledOnce
  BY <1>1 DEF PlanInv, BilledOnce
<1> QED
  BY <1>2, PlanInvariant, PTL

-----------------------------------------------------------------------------
(* Types.  A cost that is written comes from the form, from the plan or     *)
(* from what an import replaced; those are costs in turn (MoneyInv).  A     *)
(* place is numbered by the save that makes it, so that there are no more   *)
(* places than uses of the forms (CountInv).                                *)

Forms == [name : Names, area : Areas, price : FencePrices, history : BOOLEAN]
FormOK == form \in Forms \cup {NoForm} /\ (step # "idle" => form \in Forms)

PricedItem(item) ==
    /\ item.current \in Costs /\ item.teslaTotal \in Nat
    /\ item.status # "new" => item.current \in Nat

PlanOK ==
    /\ parsed \in DOMAIN Files \cup {0} /\ vin \in Vins
    /\ DOMAIN plan \subseteq Charges /\ \A c \in DOMAIN plan : PricedItem(plan[c])

CostsOK(f) == DOMAIN f \subseteq Charges /\ \A c \in DOMAIN f : f[c] \in Costs

UndoOK ==
    /\ writing \in {"no", "import", "undo"}
    /\ CostsOK(target) /\ CostsOK(previous) /\ CostsOK(applied)
    /\ CostsOK(replaced.old) /\ CostsOK(undoable.old)

MoneyInv ==
    /\ cost \in [All -> Costs] /\ shown \in [Charges -> Costs]
    /\ FormOK /\ PlanOK /\ UndoOK

LEMMA WithTypes ==
    ASSUME NEW costs \in [All -> Costs], NEW new, \A c \in DOMAIN new : new[c] \in Costs
    PROVE  With(costs, new) \in [All -> Costs]
BY DEF With

LEMMA EmptyTypes == CostsOK(Empty) /\ CostsOK(NoImport.old) /\ DOMAIN Empty = {}
BY DEF CostsOK, Empty, NoImport

\* The form is typed before it is sent.
LEMMA FormTypes ==
    ASSUME FormOK, [Next]_vars
    PROVE  FormOK'
<1>1. ASSUME NEW id, NEW name \in Names, NEW area \in Areas, NEW price \in FencePrices,
             NEW history \in BOOLEAN, Submit(id, name, area, price, history)
      PROVE  FormOK'
  <2>1. form' \in Forms
    BY <1>1 DEF Submit, Forms
  <2> QED BY <2>1 DEF FormOK
<1>2. CASE Resubmit
  BY <1>2 DEF Resubmit, FormOK
<1>3. CASE SaveStep
  BY <1>3 DEF SaveStep, FormOK
<1>4. CASE ShowNotice
  BY <1>4 DEF ShowNotice, FormOK
<1>5. ASSUME NEW id, RemoveFence(id)
      PROVE  FormOK'
  BY <1>5 DEF RemoveFence, FormOK
<1>6. CASE UNCHANGED formVars
  BY <1>6 DEF formVars, FormOK
<1>7. ASSUME NEW file, NEW car, Review(file, car)
      PROVE  FormOK'
  BY <1>6, <1>7 DEF Review
<1>8. ASSUME NEW ticked, NEW choice, apply(ticked, choice)
      PROVE  FormOK'
  BY <1>6, <1>8 DEF apply
<1>9. CASE \/ ReloadCharges \/ ClosePlan \/ verifyImport \/ undo \/ verifyUndo
           \/ \E c \in Charges, value \in EditedCosts : saveCost(c, value)
           \/ UNCHANGED vars
  BY <1>6, <1>9 DEF ReloadCharges, ClosePlan, verifyImport, undo, verifyUndo, saveCost, vars
<1> QED
  BY <1>1, <1>2, <1>3, <1>4, <1>5, <1>7, <1>8, <1>9 DEF Next, ReadFile, ChooseVin

LEMMA PlanTypes ==
    ASSUME PlanInv, PlanOK, shown \in [Charges -> Costs], [Next]_vars
    PROVE  PlanOK'
<1>1. ASSUME NEW file \in DOMAIN Files, NEW car \in Vins, Review(file, car)
      PROVE  PlanOK'
  <2>1. PICK M : M = Matches(Files[file], car)
    OBVIOUS
  <2>2. MatchesIn[file][car] = M
    BY <2>1 DEF MatchesIn
  <2>3. parsed' = file /\ vin' = car /\ plan' = [c \in DOMAIN M |-> Item(c, M[c], shown[c])]
    BY <1>1, <2>2 DEF Review, planImport
  <2>4. /\ DOMAIN M \subseteq Charges
        /\ \A c \in DOMAIN M : SumFunction([s \in M[c] |-> s.total]) \in Nat
    BY <2>1, FilesAreSequences, PlanBills DEF Bill
  <2>5. ASSUME NEW c \in DOMAIN M
        PROVE  PricedItem(plan'[c])
    <3>1. shown[c] \in Costs
      BY <2>4
    <3>2. /\ plan'[c].current = shown[c]
          /\ plan'[c].teslaTotal = SumFunction([s \in M[c] |-> s.total])
          /\ plan'[c].status # "new" => shown[c] # NoCost
      BY <2>3 DEF Item
    <3> QED BY <2>4, <3>1, <3>2 DEF PricedItem, Costs
  <2> QED BY <2>3, <2>4, <2>5 DEF PlanOK
<1>2. CASE NoPlan
  BY <1>2, EmptyTypes DEF NoPlan, PlanOK, Vins
<1>3. CASE UNCHANGED <<parsed, vin, plan>>
  BY <1>3 DEF PlanOK
<1> QED
  BY <1>1, <1>2, <1>3, PlanSteps

\* What an import writes.
LEMMA ImportTypes ==
    ASSUME PlanOK, NEW ticked, ticked \subseteq Actionable(plan), NEW choice
    PROVE  /\ ticked \subseteq Charges
           /\ \A c \in ticked : plan[c].current \in Costs /\ resultingCost(plan[c], choice[c]) \in Costs
<1>1. ASSUME NEW c \in ticked
      PROVE  c \in Charges /\ plan[c].current \in Costs /\ resultingCost(plan[c], choice[c]) \in Costs
  <2>1. c \in DOMAIN plan
    BY DEF Actionable
  <2>2. c \in Charges /\ PricedItem(plan[c])
    BY <2>1 DEF PlanOK
  <2> QED BY <2>2 DEF PricedItem, resultingCost, Costs
<1> QED
  BY <1>1

LEMMA UndoTypes ==
    ASSUME UndoOK, PlanOK, cost \in [All -> Costs], [Next]_vars
    PROVE  UndoOK'
<1>1. ASSUME NEW ticked \in SUBSET Charges, NEW choice \in [ticked -> ConflictChoices], apply(ticked, choice)
      PROVE  UndoOK'
  <2>1. /\ ticked \subseteq Actionable(plan) /\ undoable' = undoable /\ applied' = applied
    BY <1>1 DEF apply, GivenUp
  <2> DEFINE new == [c \in ticked |-> resultingCost(plan[c], choice[c])]
             old == [c \in ticked |-> cost[c]]
             seen == [c \in ticked |-> plan[c].current]
  <2>2. CostsOK(new) /\ CostsOK(old) /\ CostsOK(seen)
    <3>1. \A c \in ticked : cost[c] \in Costs
      BY DEF All
    <3> QED BY <2>1, <3>1, ImportTypes DEF CostsOK
  <2>3. replaced'.old = old \/ replaced' = replaced
    BY <1>1 DEF apply
  <2>4. \/ writing' = "import" /\ target' = new /\ previous' = seen
        \/ writing' = "no" /\ target' = Empty /\ previous' = Empty
    BY <1>1 DEF apply, GivenUp, Written
  <2> HIDE DEF new, old, seen
  <2> QED BY <2>1, <2>2, <2>3, <2>4, EmptyTypes DEF UndoOK
<1>2. CASE verifyImport
  BY <1>2, EmptyTypes DEF verifyImport, GivenUp, Written, UndoOK
<1>3. CASE undo
  BY <1>3, EmptyTypes DEF undo, GivenUp, Written, UndoOK
<1>4. CASE verifyUndo
  BY <1>4, EmptyTypes DEF verifyUndo, GivenUp, Written, UndoOK
<1>5. CASE UNCHANGED undoVars
  BY <1>5 DEF undoVars, UndoOK
<1> QED
  BY <1>1, <1>2, <1>3, <1>4, <1>5, OthersSpareUndo

LEMMA CostTypes ==
    ASSUME MoneyInv, LinkInv, [Next]_vars
    PROVE  cost' \in [All -> Costs] /\ shown' \in [Charges -> Costs]
<1>0. cost \in [All -> Costs] /\ shown \in [Charges -> Costs]
  BY DEF MoneyInv
<1>1. CASE SaveStep
  <2>1. shown' = shown
    BY <1>1 DEF SaveStep
  <2>2. CASE step = "price" /\ PriceCharges
    <3>1. form.price \in Costs
      BY <2>2, EditAssumption DEF MoneyInv, FormOK, Forms
    <3>2. cost' = With(cost, [c \in Unpriced |-> form.price])
      BY <2>2 DEF PriceCharges
    <3>3. \A c \in DOMAIN [c \in Unpriced |-> form.price] : [d \in Unpriced |-> form.price][c] \in Costs
      BY <3>1
    <3>4. PICK new : new = [c \in Unpriced |-> form.price]
      OBVIOUS
    <3>5. With(cost, new) \in [All -> Costs]
      BY <1>0, <3>1, <3>4, WithTypes
    <3> QED BY <1>0, <2>1, <3>2, <3>4, <3>5
  <2>3. CASE cost' = cost
    BY <1>0, <2>1, <2>3
  <2>4. (step = "price" /\ PriceCharges) \/ cost' = cost
    <3>1. step \in {"write", "unlink", "find", "link", "price"}
      BY <1>1 DEF SaveStep, LinkInv
    <3>2. Statement => (step = "price" /\ PriceCharges) \/ cost' = cost
      BY <3>1 DEF Statement, WriteFence, Unlink, FindFence, LinkCharges
    <3>3. Statement \/ UNCHANGED dbVars
      BY <1>1 DEF SaveStep
    <3> QED BY <3>2, <3>3 DEF dbVars
  <2> QED BY <2>2, <2>3, <2>4
<1>2. ASSUME NEW ticked, NEW choice, apply(ticked, choice)
      PROVE  cost' \in [All -> Costs] /\ shown' = shown
  <2>1. /\ ticked \subseteq Actionable(plan) /\ shown' = shown
        /\ \/ cost' = With(cost, [c \in ticked |-> resultingCost(plan[c], choice[c])])
           \/ cost' = cost
    BY <1>2 DEF apply, Executed, dbVars
  <2>2. PICK new : new = [c \in ticked |-> resultingCost(plan[c], choice[c])]
    OBVIOUS
  <2>3. \A c \in DOMAIN new : new[c] \in Costs
    BY <2>1, <2>2, ImportTypes DEF MoneyInv
  <2> QED BY <1>0, <2>1, <2>2, <2>3, WithTypes
<1>3. CASE undo
  <2>1. shown' = shown /\ (cost' = With(cost, applied) \/ cost' = cost)
    BY <1>3 DEF undo, Executed, dbVars
  <2>2. \A c \in DOMAIN applied : applied[c] \in Costs
    BY DEF MoneyInv, UndoOK, CostsOK
  <2> QED BY <1>0, <2>1, <2>2, WithTypes
<1>4. ASSUME NEW c \in Charges, NEW value \in EditedCosts, saveCost(c, value)
      PROVE  cost' \in [All -> Costs] /\ shown' = shown
  BY <1>0, <1>4, EditAssumption DEF saveCost, All
<1>5. CASE ReloadCharges
  <2>1. cost' = cost /\ shown' = [c \in Charges |-> cost[c]]
    BY <1>5 DEF ReloadCharges, dbVars
  <2> QED BY <1>0, <2>1 DEF All
<1>6. CASE UNCHANGED <<cost, shown>>
  BY <1>0, <1>6
<1>7. ASSUME NEW file, NEW car, Review(file, car)
      PROVE  UNCHANGED <<cost, shown>>
  BY <1>7 DEF Review, dbVars
<1>8. CASE \/ \E id \in {0} \cup FenceIds, name \in Names, area \in Areas, price \in FencePrices,
                 history \in BOOLEAN : Submit(id, name, area, price, history)
           \/ Resubmit \/ ShowNotice
           \/ \E id \in FenceIds : RemoveFence(id)
           \/ ClosePlan \/ verifyImport \/ verifyUndo
           \/ UNCHANGED vars
  BY <1>6, <1>8 DEF Submit, Resubmit, ShowNotice, RemoveFence, ClosePlan, verifyImport, verifyUndo,
                    dbVars, vars
<1> QED
  BY <1>0, <1>1, <1>2, <1>3, <1>4, <1>5, <1>6, <1>7, <1>8 DEF Next, ReadFile, ChooseVin

LEMMA MoneyInvariant == Spec => []MoneyInv
<1>1. Init => MoneyInv
  <2> SUFFICES ASSUME Init PROVE MoneyInv
    OBVIOUS
  <2>1. PICK costs \in InitialCosts :
           cost = [c \in All |-> IF c \in Charges THEN costs[c] ELSE NoCost]
    BY DEF Init
  <2>2. costs \in [Charges -> Costs] /\ NoCost \in Costs
    BY EditAssumption DEF Costs
  <2>3. cost \in [All -> Costs]
    BY <2>1, <2>2
  <2>4. shown \in [Charges -> Costs]
    BY <2>3 DEF Init, All
  <2>5. FormOK /\ PlanOK /\ UndoOK
    BY EmptyTypes DEF Init, FormOK, PlanOK, UndoOK, Vins
  <2> QED BY <2>3, <2>4, <2>5 DEF MoneyInv
<1>2. ASSUME MoneyInv, PlanInv, LinkInv, [Next]_vars
      PROVE  MoneyInv'
  BY <1>2, FormTypes, PlanTypes, UndoTypes, CostTypes DEF MoneyInv
<1> QED
  BY <1>1, <1>2, PlanInvariant, LinkInvariant, PTL DEF Spec

\* Every place was made by a save, and every save is a use.
Marks == editing \in {0} \cup FenceIds /\ saved \in {0} \cup FenceIds /\ notice \in BOOLEAN

CountInv ==
    /\ uses \in 0 .. MaxUses /\ fails \in 0 .. MaxFails
    /\ given \in Nat /\ given <= uses /\ (step = "write" => given < uses)
    /\ Marks
    /\ \A id \in DOMAIN fences : fences[id] \in Row

countVars == <<formVars, fences, given>>

\* What one more use and one more failure do to the counts.
LEMMA Ticks ==
    ASSUME CountInv
    PROVE  /\ uses \in Nat /\ uses <= MaxUses /\ MaxUses \in Nat /\ FenceIds = 1 .. MaxUses
           /\ uses \in 0 .. MaxUses /\ fails \in 0 .. MaxFails
           /\ Used => uses' = uses + 1 /\ uses' \in 0 .. MaxUses
           /\ fails' = fails \/ Fails => fails' \in 0 .. MaxFails
<1>1. MaxUses \in Nat /\ MaxFails \in Nat
  BY EditAssumption
<1>2. uses \in 0 .. MaxUses /\ fails \in 0 .. MaxFails
  BY DEF CountInv
<1>3. Used => uses' = uses + 1 /\ uses' \in 0 .. MaxUses
  BY <1>1, <1>2 DEF Used
<1>4. Fails => fails' \in 0 .. MaxFails
  BY <1>1, <1>2 DEF Fails
<1> QED
  BY <1>1, <1>2, <1>3, <1>4 DEF FenceIds

LEMMA CountsUsed ==
    ASSUME CountInv, UNCHANGED countVars, uses' = uses \/ Used, fails' = fails \/ Fails
    PROVE  CountInv'
<1>1. UNCHANGED <<step, editing, saved, notice, fences, given>>
  BY DEF countVars, formVars
<1>2. uses' \in 0 .. MaxUses /\ uses <= uses' /\ fails' \in 0 .. MaxFails
      /\ uses \in Nat /\ uses' \in Nat
  BY Ticks
<1>3. given <= uses' /\ (step = "write" => given < uses')
  BY <1>2 DEF CountInv
<1>4. Marks'
  BY <1>1 DEF CountInv, Marks
<1> QED
  BY <1>1, <1>2, <1>3, <1>4 DEF CountInv

LEMMA CountsSaved ==
    ASSUME CountInv, LinkInv, FormOK, SaveStep
    PROVE  CountInv'
<1>1. /\ uses' = uses /\ fails' \in 0 .. MaxFails
      /\ UNCHANGED <<form, editing, notice>>
      /\ step' = "idle" \/ step' = After(step)
      /\ step \in {"write", "unlink", "find", "link", "price"}
  <2>1. fails' \in 0 .. MaxFails
    BY Ticks DEF SaveStep, Answered
  <2>2. step \in {"write", "unlink", "find", "link", "price"}
    BY DEF SaveStep, LinkInv
  <2> QED BY <2>1, <2>2 DEF SaveStep
<1>2. step' # "write"
  BY <1>1 DEF After
<1>3. CASE UNCHANGED <<dbVars, saved>>
  <2>1. Marks'
    BY <1>1, <1>3 DEF CountInv, Marks
  <2> QED BY <1>1, <1>2, <1>3, <2>1 DEF CountInv, dbVars
<1>4. CASE step = "write" /\ WriteFence
  <2>1. FormRow \in Row
    BY <1>4 DEF FormOK, Forms, FormRow, Row
  <2>2. given' \in Nat /\ given' <= uses
    BY <1>4 DEF CountInv, WriteFence, NextId
  <2>3. \A id \in DOMAIN fences' : fences'[id] \in Row
    BY <1>4, <2>1 DEF CountInv, WriteFence
  <2>4. Marks'
    BY <1>1, <1>4 DEF WriteFence, CountInv, Marks
  <2> QED BY <1>1, <1>2, <2>2, <2>3, <2>4 DEF CountInv
<1>5. CASE step = "find" /\ FindFence
  <2>1. saved' \in DOMAIN fences /\ UNCHANGED <<fences, given>>
    BY <1>5 DEF FindFence, Found
  <2>2. saved' \in FenceIds
    BY <2>1, EditAssumption DEF LinkInv, PlacesInv, CountInv, FenceIds
  <2>3. Marks'
    BY <1>1, <2>2 DEF CountInv, Marks
  <2> QED BY <1>1, <1>2, <2>1, <2>3 DEF CountInv
<1>6. CASE UNCHANGED <<fences, given, saved>>
  <2>1. Marks'
    BY <1>1, <1>6 DEF CountInv, Marks
  <2> QED BY <1>1, <1>2, <1>6, <2>1 DEF CountInv
<1>7. Statement => \/ step = "write" /\ WriteFence
                   \/ step = "find" /\ FindFence
                   \/ UNCHANGED <<fences, given, saved>>
  BY <1>1 DEF Statement, Unlink, LinkCharges, PriceCharges
<1>8. Statement \/ UNCHANGED <<dbVars, saved>>
  BY DEF SaveStep
<1> QED
  BY <1>3, <1>4, <1>5, <1>6, <1>7, <1>8

LEMMA CountInvariant == Spec => []CountInv
<1>1. Init => CountInv
  <2> SUFFICES ASSUME Init PROVE CountInv
    OBVIOUS
  <2>1. MaxUses \in Nat /\ MaxFails \in Nat
    BY EditAssumption
  <2>2. DOMAIN fences = {}
    BY EmptyTypes DEF Init
  <2>3. Marks
    BY DEF Init, Marks
  <2>4. uses = 0 /\ fails = 0 /\ given = 0 /\ step # "write"
    BY DEF Init
  <2>5. uses \in 0 .. MaxUses /\ fails \in 0 .. MaxFails
    BY <2>1, <2>4
  <2>6. given \in Nat /\ given <= uses
    BY <2>4
  <2>7. \A id \in DOMAIN fences : fences[id] \in Row
    BY <2>2
  <2> QED BY <2>3, <2>4, <2>5, <2>6, <2>7 DEF CountInv
<1>2. ASSUME CountInv, LinkInv, FormOK, [Next]_vars
      PROVE  CountInv'
  <2>1. ASSUME NEW id \in {0} \cup FenceIds, NEW name \in Names, NEW area \in Areas,
               NEW price \in FencePrices, NEW history \in BOOLEAN,
               Submit(id, name, area, price, history)
        PROVE  CountInv'
    <3>1. editing' = id /\ saved' = 0 /\ notice' = FALSE /\ Used /\ UNCHANGED <<fences, given, fails>>
      BY <2>1 DEF Submit, dbVars
    <3>2. uses' = uses + 1 /\ uses' \in 0 .. MaxUses /\ uses \in Nat /\ fails \in 0 .. MaxFails
      BY <1>2, <3>1, Ticks
    <3>3. given \in Nat /\ given < uses'
      BY <1>2, <3>2 DEF CountInv
    <3>4. Marks'
      BY <3>1 DEF Marks
    <3> QED BY <1>2, <3>1, <3>2, <3>3, <3>4 DEF CountInv
  <2>2. CASE Resubmit
    <3>1. saved' = 0 /\ notice' = FALSE /\ Used /\ UNCHANGED <<editing, fences, given, fails>>
      BY <2>2 DEF Resubmit, dbVars
    <3>2. uses' = uses + 1 /\ uses' \in 0 .. MaxUses /\ uses \in Nat /\ fails \in 0 .. MaxFails
      BY <1>2, <3>1, Ticks
    <3>3. given \in Nat /\ given < uses'
      BY <1>2, <3>2 DEF CountInv
    <3>4. Marks'
      BY <1>2, <3>1 DEF CountInv, Marks
    <3> QED BY <1>2, <3>1, <3>2, <3>3, <3>4 DEF CountInv
  <2>3. CASE SaveStep
    BY <1>2, <2>3, CountsSaved
  <2>4. CASE ShowNotice
    <3>1. step' = "idle" /\ editing' = 0 /\ saved' = 0 /\ (notice' = TRUE \/ notice' = notice)
          /\ UNCHANGED <<fences, given, uses>> /\ (fails' = fails \/ Fails)
      BY <2>4 DEF ShowNotice, Answered, dbVars
    <3>2. fails' \in 0 .. MaxFails
      BY <1>2, <3>1, Ticks
    <3>3. Marks'
      BY <1>2, <3>1 DEF CountInv, Marks
    <3> QED BY <1>2, <3>1, <3>2, <3>3 DEF CountInv
  <2>5. ASSUME NEW id, RemoveFence(id)
        PROVE  CountInv'
    <3>1. /\ fences' = [k \in DOMAIN fences \ {id} |-> fences[k]]
          /\ step = "idle" /\ step' = step /\ notice' = FALSE /\ UNCHANGED <<given, editing, saved>>
          /\ Used /\ (fails' = fails \/ Fails)
      BY <2>5 DEF RemoveFence, Answered
    <3>2. uses' = uses + 1 /\ uses' \in 0 .. MaxUses /\ uses \in Nat /\ fails' \in 0 .. MaxFails
      BY <1>2, <3>1, Ticks
    <3>3. \A k \in DOMAIN fences' : fences'[k] \in Row
      BY <1>2, <3>1 DEF CountInv
    <3>4. given \in Nat /\ given <= uses'
      BY <1>2, <3>2 DEF CountInv
    <3>5. Marks'
      BY <1>2, <3>1 DEF CountInv, Marks
    <3> QED BY <1>2, <3>1, <3>2, <3>3, <3>4, <3>5 DEF CountInv
  <2>6. CASE UNCHANGED countVars /\ (uses' = uses \/ Used) /\ (fails' = fails \/ Fails)
    BY <1>2, <2>6, CountsUsed
  <2>7. ASSUME NEW file, NEW car, Review(file, car)
        PROVE  UNCHANGED countVars /\ UNCHANGED <<uses, fails>>
    BY <2>7 DEF Review, dbVars, countVars
  <2>8. ASSUME NEW ticked, NEW choice, apply(ticked, choice)
        PROVE  UNCHANGED countVars /\ Used /\ (fails' = fails \/ Fails)
    BY <2>8 DEF apply, Executed, GivenUp, Answered, dbVars, countVars
  <2>9. ASSUME NEW c, NEW value, saveCost(c, value)
        PROVE  UNCHANGED countVars /\ Used /\ fails' = fails
    BY <2>9 DEF saveCost, countVars
  <2>10. CASE ReloadCharges \/ ClosePlan \/ verifyImport \/ undo \/ verifyUndo \/ UNCHANGED vars
    <3>1. UNCHANGED countVars /\ uses' = uses /\ (fails' = fails \/ Fails)
      BY <2>10 DEF ReloadCharges, ClosePlan, verifyImport, undo, verifyUndo, Executed, GivenUp,
                   Answered, dbVars, countVars, vars
    <3> QED BY <2>6, <3>1
  <2> QED
    BY <1>2, <2>1, <2>2, <2>3, <2>4, <2>5, <2>6, <2>7, <2>8, <2>9, <2>10
       DEF Next, ReadFile, ChooseVin
<1>3. MoneyInv => FormOK
  BY DEF MoneyInv
<1> QED
  BY <1>1, <1>2, <1>3, LinkInvariant, MoneyInvariant, PTL DEF Spec

(* Every variable of the edits has its type, and a link leads to a place    *)
(* that exists, for any charges, places, exports, prices and failures.      *)
THEOREM TypeCorrect == Spec => []TypeOK
<1>1. LinkInv /\ MoneyInv /\ CountInv => TypeOK
  <2> SUFFICES ASSUME LinkInv, MoneyInv, CountInv PROVE TypeOK
    OBVIOUS
  <2>1. given \in {0} \cup FenceIds
    BY EditAssumption DEF CountInv, FenceIds
  <2>2. \A f \in {target, previous, applied, replaced.old, undoable.old} :
           DOMAIN f \subseteq Charges /\ \A c \in DOMAIN f : f[c] \in Costs
    BY DEF MoneyInv, UndoOK, CostsOK
  <2> QED
    BY <2>1, <2>2 DEF TypeOK, LinkInv, PlacesInv, MoneyInv, PlanOK, UndoOK, CountInv, Marks
<1> QED
  BY <1>1, LinkInvariant, MoneyInvariant, CountInvariant, PTL
===============================================================================
