------------------------------ MODULE TimeRange ------------------------------
(***************************************************************************)
(* The time range of the pages and its picker (viewSettings.ts,            *)
(* TimeRangePicker.tsx): expressions and the instants they stand for, the  *)
(* window that filters lists in the browser, the bounds that filter        *)
(* queries in SQL, and the picker's ways from one range to another.        *)
(*                                                                         *)
(* Time is counted in slots of the browser's local time: a day has         *)
(* DaySlots of them, its first is midnight and its last 23:59:59.  A text  *)
(* field holds an expression; one that is not recognised is "bad".         *)
(***************************************************************************)
EXTENDS Integers, Sequences

CONSTANTS
    DaySlots,       \* slots of a day
    LastDay,        \* bound: days run from 0 to LastDay
    UtcOffset,      \* slots that local time is ahead of UTC
    Quick,          \* lengths of the quick ranges
    Typed,          \* texts that are typed into a field
    MaxRecent       \* ranges kept as recent (4 in the code)

VARIABLES
    now,
    settings,   \* the applied range
    open,       \* the picker is open
    from, to,   \* its fields
    refused,    \* the fields that show an error
    calendarFor,
    recent      \* applied custom ranges, the last first

timeVars == <<now, settings, open, from, to, refused, calendarFor, recent>>

Days == 0 .. LastDay
Slots == 0 .. (LastDay + 1) * DaySlots - 1
Midnight(day) == day * DaySlots
EndOf(day) == day * DaySlots + DaySlots - 1
DayOf(t) == t \div DaySlots

\* "", an unknown text, "now-n", a bare date, and a date with its time.
Empty == [kind |-> "empty", n |-> 0]
Bad == [kind |-> "bad", n |-> 0]
Now(n) == [kind |-> "now", n |-> n]
Date(day) == [kind |-> "date", n |-> day]
At(t) == [kind |-> "at", n |-> t]
Expressions == [kind: {"empty", "bad", "now", "date", "at"}, n: Int]

ASSUME TimeAssumption ==
    /\ DaySlots \in Nat \ {0, 1} /\ LastDay \in Nat
    /\ UtcOffset \in -DaySlots .. DaySlots
    /\ Quick \subseteq Nat \ {0} /\ MaxRecent \in Nat \ {0}
    /\ Typed \subseteq Expressions

None == -1000                      \* null: an instant no bounded run comes to

parseTimeExpression(x, side) ==
    CASE x.kind = "now" -> now - x.n
      [] x.kind = "date" -> IF side = "to" THEN EndOf(x.n) ELSE Midnight(x.n)
      [] x.kind = "at" -> x.n
      [] OTHER -> None

-----------------------------------------------------------------------------
(* Ranges. *)

Setting(name, q, f, t) ==
    [timeRange |-> name, length |-> q, customFrom |-> f, customTo |-> t]
QuickRange(q) == Setting("quick", q, Empty, Empty)
AllTime == Setting("all", 0, Empty, Empty)
Custom(f, t) == Setting("custom", 0, f, t)
isCustom(s) == s.timeRange = "custom"
isQuick(s) == s.timeRange = "quick"

timeRangeInputs(s) ==
    IF isCustom(s) THEN <<s.customFrom, s.customTo>>
    ELSE IF isQuick(s) THEN <<Now(s.length), Now(0)>> ELSE <<Empty, Empty>>

rangeFromInputs(f, t) ==
    IF f = Empty /\ t = Empty THEN AllTime
    ELSE IF t = Now(0) /\ f.kind = "now" /\ f.n \in Quick THEN QuickRange(f.n)
    ELSE Custom(f, t)

timeWindow(s) ==
    IF isCustom(s) THEN [from |-> parseTimeExpression(s.customFrom, "from"),
                         to |-> parseTimeExpression(s.customTo, "to")]
    ELSE [from |-> IF isQuick(s) THEN now - s.length ELSE None, to |-> None]

withinTimeWindow(t, s) ==
    LET w == timeWindow(s)
    IN (w.from = None \/ t >= w.from) /\ (w.to = None \/ t <= w.to)

\* The bounds in SQL are texts: a stored "2026-10-04T20:30:34Z" compares
\* with "2026-10-04 23:59:59" by the UTC day and, within one, is greater.
UtcDay(t) == (t - UtcOffset) \div DaySlots
AtLeast(t, bound) == UtcDay(t) >= UtcDay(bound)
\* As if the end's day were cut off in local time.
AtMostMutLocal(t, bound) == UtcDay(t) < UtcDay(bound - DaySlots)

AtMost(t, bound) == UtcDay(t) < UtcDay(bound)

timeRangeSql(t, s) ==
    LET w == timeWindow(s)
    IN (w.from = None \/ AtLeast(t, w.from)) /\ (w.to = None \/ AtMost(t, w.to))

absoluteRange(f, t) == Custom(At(f), IF t >= now THEN Now(0) ELSE At(t))

WindowEnd(s) ==
    LET w == timeWindow(s) IN IF w.to = None \/ w.to > now THEN now ELSE w.to

Span(s) == WindowEnd(s) - timeWindow(s).from
Movable(s) == timeWindow(s).from # None /\ Span(s) > 0

Earlier(a, b) == IF a < b THEN a ELSE b

shiftTimeRange(s, direction) ==
    LET end == Earlier(WindowEnd(s) + direction * Span(s), now)
    IN absoluteRange(end - Span(s), end)

zoomOutTimeRange(s) ==
    LET end == Earlier(WindowEnd(s) + Span(s) \div 2, now)
    IN absoluteRange(end - 2 * Span(s), end)

-----------------------------------------------------------------------------
(* The picker. *)

TimeInit ==
    /\ now = EndOf(LastDay) - 1
    /\ settings \in {QuickRange(q) : q \in Quick}
    /\ open = FALSE
    /\ from = Empty /\ to = Empty
    /\ refused = {} /\ calendarFor = "none" /\ recent = <<>>

Tick ==
    /\ now < EndOf(LastDay)
    /\ now' = now + 1
    /\ UNCHANGED <<settings, open, from, to, refused, calendarFor, recent>>

\* Windows that began before the first day are left out.
Bounded(s) == s.customFrom.kind = "at" => s.customFrom.n \in Slots

OpenPicker ==
    /\ ~open /\ open' = TRUE
    /\ from' = timeRangeInputs(settings)[1] /\ to' = timeRangeInputs(settings)[2]
    /\ refused' = {} /\ calendarFor' = "none"
    /\ UNCHANGED <<now, settings, recent>>

\* A click outside, Escape, or the trigger again.  The fields are filled
\* anew at the next opening: what they held does not matter any more.
Closing ==
    open' = FALSE /\ from' = Empty /\ to' = Empty /\ refused' = {} /\ calendarFor' = "none"

ClosePicker == open /\ Closing /\ UNCHANGED <<now, settings, recent>>

choose(next) == settings' = next /\ Closing /\ UNCHANGED now

Inverted(f, t) ==
    LET a == parseTimeExpression(f, "from")
        b == parseTimeExpression(t, "to")
    IN a # None /\ b # None /\ a > b

\* filter, keeping the order.
Without(list, entry) ==
    LET Kept[k \in 0 .. Len(list)] ==
          IF k = 0 THEN <<>>
          ELSE IF list[k] = entry THEN Kept[k - 1] ELSE Append(Kept[k - 1], list[k])
    IN Kept[Len(list)]

Remembered(entry) ==
    LET others == Without(recent, entry)
    IN SubSeq(<<entry>> \o others, 1, Earlier(MaxRecent, Len(others) + 1))

apply ==
    /\ open
    /\ LET unknown == {side \in {"from", "to"} :
                         parseTimeExpression(IF side = "from" THEN from ELSE to, side) = None}
           errors == unknown \cup IF Inverted(from, to) THEN {"from"} ELSE {}
           next == rangeFromInputs(from, to)
       IN IF errors # {}
          THEN /\ refused' = errors
               /\ UNCHANGED <<now, settings, open, from, to, calendarFor, recent>>
          ELSE /\ recent' = IF isCustom(next) THEN Remembered(<<from, to>>) ELSE recent
               /\ choose(next)

Type(side, x) ==
    /\ open
    /\ from' = IF side = "from" THEN x ELSE from
    /\ to' = IF side = "to" THEN x ELSE to
    /\ refused' = refused \ {side}
    /\ UNCHANGED <<now, settings, open, calendarFor, recent>>

OpenCalendar(side) ==
    /\ open
    /\ calendarFor' = IF calendarFor = side THEN "none" ELSE side
    /\ UNCHANGED <<now, settings, open, from, to, refused, recent>>

\* As if a click could not move the end.
MovesEndMutNever(f, day) == FALSE

\* The first click sets From, the second To; a click on the wrong side of
\* the other end moves that end too.
MovesEnd(f, day) == f # None /\ f > Midnight(day)

pickDay(day) ==
    /\ open /\ calendarFor # "none"
    /\ IF calendarFor = "from"
       THEN LET t == parseTimeExpression(to, "to") IN
            /\ from' = At(Midnight(day))
            /\ to' = IF t # None /\ t < Midnight(day) THEN At(EndOf(day)) ELSE to
            /\ calendarFor' = "to"
       ELSE LET f == parseTimeExpression(from, "from") IN
            /\ from' = IF MovesEnd(f, day) THEN At(Midnight(day)) ELSE from
            /\ to' = At(EndOf(IF MovesEnd(f, day) THEN DayOf(f) ELSE day))
            /\ calendarFor' = "none"
    /\ refused' = {}
    /\ UNCHANGED <<now, settings, open, recent>>

ChooseRecent(i) ==
    /\ open /\ i \in DOMAIN recent
    /\ choose(rangeFromInputs(recent[i][1], recent[i][2]))
    /\ UNCHANGED recent

ChooseQuick(range) == open /\ choose(range) /\ UNCHANGED recent

\* The arrows and the magnifier beside the picker, whether it is open or
\* not: a pointer outside the popover but within the picker leaves it open.
Move(next) ==
    /\ settings # AllTime /\ Movable(settings) /\ Bounded(next)
    /\ settings' = next
    /\ UNCHANGED <<now, open, from, to, refused, calendarFor, recent>>

ShiftBack == Move(shiftTimeRange(settings, -1))
ShiftForward ==
    /\ isCustom(settings) /\ settings.customTo # Now(0)
    /\ Move(shiftTimeRange(settings, 1))
ZoomOut == Move(zoomOutTimeRange(settings))

TimeNext ==
    \/ Tick \/ OpenPicker \/ ClosePicker \/ apply
    \/ \E side \in {"from", "to"} :
          OpenCalendar(side) \/ \E x \in Typed : Type(side, x)
    \/ \E day \in Days : pickDay(day)
    \/ \E i \in 1 .. MaxRecent : ChooseRecent(i)
    \/ \E range \in {QuickRange(q) : q \in Quick} \cup {AllTime} : ChooseQuick(range)
    \/ ShiftBack \/ ShiftForward \/ ZoomOut

TimeSpec == TimeInit /\ [][TimeNext]_timeVars

-----------------------------------------------------------------------------
TimeTypeOK ==
    /\ now \in Slots
    /\ settings.timeRange \in {"quick", "all", "custom"}
    /\ isQuick(settings) => settings.length \in Quick
    /\ settings.customFrom \in Expressions /\ settings.customTo \in Expressions
    /\ open \in BOOLEAN /\ from \in Expressions /\ to \in Expressions
    /\ refused \subseteq {"from", "to"}
    /\ calendarFor \in {"none", "from", "to"}
    /\ Len(recent) <= MaxRecent

(* The lists in the browser and the queries agree about every instant but   *)
(* those of the UTC days in which the range begins and ends.                *)
ListsAndQueriesAgree ==
    \A t \in Slots :
        withinTimeWindow(t, settings) # timeRangeSql(t, settings) =>
            LET w == timeWindow(settings)
            IN UtcDay(t) \in {UtcDay(x) : x \in {w.from, w.to} \ {None}}

(* A click in the calendar never leaves the range upside down, in whichever *)
(* order the days are clicked and whatever the fields held.                 *)
PickedInOrder ==
    [][(\E day \in Days : pickDay(day)) => ~Inverted(from', to')]_timeVars

(* "Both ends are inclusive" (viewSettings.ts, ViewSettings): what lies in  *)
(* a custom range is found by the queries.                                  *)
BothEndsInclusive ==
    isCustom(settings) =>
        \A t \in Slots : withinTimeWindow(t, settings) => timeRangeSql(t, settings)
=============================================================================
