-------------------------- MODULE SuperchargerPlan --------------------------
(***************************************************************************)
(* The dry run of an import of Tesla's Supercharger history                *)
(* (superchargerCsv.ts): the rows of the file are grouped into sessions,   *)
(* each session is matched with a recorded charge, and each charge gets    *)
(* what Tesla billed for it.                                               *)
(*                                                                         *)
(* A row is what its cells say: an invoice number or 0, a start in units   *)
(* of five minutes, a site (numbered), a VIN, a total in whole units of    *)
(* money, whether it can be read and whether its status is "paid".         *)
(* Energies, fees and the texts of warnings are left out.                  *)
(***************************************************************************)
EXTENDS Integers, Sequences, FiniteSets, FiniteSetsExt

CONSTANTS
    Charges,        \* ids of the closed charges that are loaded
    Started,        \* [Charges -> start], no two alike
    Lasted,         \* [Charges -> duration]
    IsDC            \* [Charges -> BOOLEAN]

ASSUME ChargeAssumption ==
    /\ IsFiniteSet(Charges)
    /\ Started \in [Charges -> Int] /\ Lasted \in [Charges -> Nat]
    /\ IsDC \in [Charges -> BOOLEAN]
    /\ \A c, d \in Charges : Started[c] = Started[d] => c = d

NoCost == -1
Vins == {"", "this car", "other car"}
EarlyBy == 3
LateBy == 1

BillRow == [invoice : Nat, start : Int, site : Nat, vin : Vins, total : Int,
            readable : BOOLEAN, paid : BOOLEAN]

-----------------------------------------------------------------------------
\* parseSuperchargerCsv.  A row like an earlier one is ignored; an
\* unreadable one is a problem, and a duplicate of it is not reported again.
Firsts(file) ==
    {i \in DOMAIN file : \A j \in 1 .. i - 1 : file[j] # file[i]}

Readable(file) == {i \in Firsts(file) : file[i].readable}

\* Fees of one session share its invoice; without one, start and site group
\* them.
KeyOf(row) == IF row.invoice # 0 THEN <<row.invoice, 0, 0>> ELSE <<0, row.start, row.site>>

Groups(file) ==
    LET rows == Readable(file)
    IN {{j \in rows : KeyOf(file[j]) = KeyOf(file[i])} : i \in rows}

\* The session of a group begins as its first row says.
Session(file, group) ==
    LET first == file[Min(group)]
    IN [key |-> KeyOf(first), start |-> first.start, vin |-> first.vin,
        total |-> SumFunction([i \in group |-> file[i].total]),
        paid |-> \A i \in group : file[i].paid]

Sessions(file) == {Session(file, group) : group \in Groups(file)}

-----------------------------------------------------------------------------
\* bestCharge: the window around a charge, then DC before AC, then the
\* nearest; of two as near, the newest, which the list has first.
Ended(c) == Started[c] + Lasted[c]
Candidates(s) ==
    {c \in Charges : Started[c] - EarlyBy <= s.start /\ s.start <= Ended(c) + LateBy}

Distance(s, c) ==
    IF s.start < Started[c] THEN Started[c] - s.start
    ELSE IF s.start > Ended(c) THEN s.start - Ended(c) ELSE 0

Beats(s, c, d) ==
    \/ IsDC[c] /\ ~IsDC[d]
    \/ /\ IsDC[c] = IsDC[d]
       /\ \/ Distance(s, c) < Distance(s, d)
          \/ Distance(s, c) = Distance(s, d) /\ Started[c] > Started[d]

bestCharge(s) ==
    CHOOSE c \in Candidates(s) : \A d \in Candidates(s) \ {c} : Beats(s, c, d)

\* Several cars in one file: the one chosen, or the one with most sessions
\* and, of two with as many, the one with the newest session.
VinsOf(file) == {s.vin : s \in Sessions(file)} \ {""}

DefaultVin(file) ==
    LET sessions == Sessions(file)
        vins == {s.vin : s \in sessions} \ {""}
        Count(v) == Cardinality({s \in sessions : s.vin = v})
        Newest(v) == Max({s.start : s \in {t \in sessions : t.vin = v}})
    IN IF Cardinality(vins) < 2 THEN ""
       ELSE CHOOSE v \in vins : \A w \in vins \ {v} :
                \/ Count(v) > Count(w)
                \/ Count(v) = Count(w) /\ Newest(v) >= Newest(w)

IsSkipped(s, vin) ==
    \/ vin # "" /\ s.vin # "" /\ s.vin # vin
    \/ s.total < 0
    \/ Candidates(s) = {}

Skipped(file, vin) == {s \in Sessions(file) : IsSkipped(s, vin)}

\* As if each session replaced the one before it.
GroupedMutLast(sessions) ==
    [c \in {bestCharge(s) : s \in sessions} |->
        {s \in sessions : bestCharge(s) = c /\ \A t \in sessions :
                            bestCharge(t) = c => s.start <= t.start}]

\* byCharge: the sessions of a charge are kept together.
Grouped(sessions) ==
    [c \in {bestCharge(s) : s \in sessions} |-> {s \in sessions : bestCharge(s) = c}]

Matches(file, vin) == Grouped({s \in Sessions(file) : ~IsSkipped(s, vin)})

\* planImport: an item for each charge with sessions, made of the costs that
\* are shown.
Item(c, sessions, cost) ==
    LET total == SumFunction([s \in sessions |-> s.total])
    IN [current |-> cost, teslaTotal |-> total,
        status |-> IF cost = NoCost THEN "new"
                   ELSE IF cost = total THEN "same" ELSE "conflict",
        warned |-> \/ Cardinality(sessions) > 1 \/ ~IsDC[c]
                   \/ \E s \in sessions : ~s.paid]

planImport(matches, costs) ==
    [c \in DOMAIN matches |-> Item(c, matches[c], costs[c])]

\* resultingCost, for an item that may be ticked: "new" or "conflict".
Actionable(plan) == {c \in DOMAIN plan : plan[c].status # "same"}

ConflictChoices == {"replace", "add", "keep"}

resultingCost(item, choice) ==
    IF item.status = "new" THEN item.teslaTotal
    ELSE IF choice = "add" THEN item.current + item.teslaTotal
    ELSE item.teslaTotal

Changes(item, choice) == item.status = "new" \/ choice # "keep"
=============================================================================
