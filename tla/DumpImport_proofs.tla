-------------------------- MODULE DumpImport_proofs --------------------------
(***************************************************************************)
(* What a converted TeslaMate dump holds, for any cars, positions, minutes *)
(* and rows: an invariant of DumpNext, of CloseDump and of steps that      *)
(* leave the conversion alone.                                             *)
(***************************************************************************)
EXTENDS DumpImport, TLAPS

Referring == {"charges", "charging_processes", "drives", "positions"}

(* What has been read is rows; a table comes in one piece, in CopyOrder,    *)
(* and has each id once.                                                    *)
ReadInv ==
    /\ DOMAIN dump = Tables
    /\ dump["charges"] \subseteq ChargeRows
    /\ dump["charging_processes"] \subseteq ProcessRows
    /\ dump["drives"] \subseteq DriveRows
    /\ dump["positions"] \subseteq PositionRows
    /\ last \in 0 .. 9
    /\ section # "none" => last # 0 /\ section = CopyOrder[last]
    /\ \A i \in 1 .. 9 : i > last => dump[CopyOrder[i]] = {}
    /\ \A t \in Referring : \A x, y \in dump[t] : x.id = y.id => x = y

(* The last minute of a car that was seen has been sampled, and so has      *)
(* every other.                                                             *)
MinuteInv ==
    /\ lastMinute \in [Vehicles -> Nat]
    /\ \A v \in Vehicles : lastMinute[v] # 0 => <<v, lastMinute[v]>> \in battery
    /\ EveryMinuteSampled

(* The positions waited for are those the rows refer to.                    *)
TargetInv ==
    /\ \A d \in dump["drives"], p \in PositionIds :
          /\ (d.id \in Waiting(p, "drive-start")) <=> (d.start_position_id = p)
          /\ (d.id \in Waiting(p, "drive-end")) <=> (d.end_position_id = p)
    /\ \A c \in dump["charging_processes"], p \in PositionIds :
          (c.id \in Waiting(p, "charging")) <=> (c.position_id = p)
    /\ \A p \in PositionIds :
          /\ Waiting(p, "drive-start") \cup Waiting(p, "drive-end")
                \subseteq {d.id : d \in dump["drives"]}
          /\ Waiting(p, "charging") \subseteq {c.id : c \in dump["charging_processes"]}

(* While the file is read, every row has what can be known of it: the       *)
(* positions that came by, and the name of an address that came before.     *)
RowInv ==
    /\ DOMAIN drives = {d.id : d \in dump["drives"]}
    /\ DOMAIN sessions = {c.id : c \in dump["charging_processes"]}
    /\ DOMAIN samples = {c.id : c \in dump["charges"]}
    /\ stage # "converted" =>
          /\ \A d \in dump["drives"] :
                drives[d.id] = [vehicle |-> d.car_id,
                                at |-> IfRead(d.start_position_id),
                                until |-> IfRead(d.end_position_id),
                                place |-> AddressOf(d.start_address_id)]
          /\ \A c \in dump["charging_processes"] :
                sessions[c.id] = [vehicle |-> c.car_id,
                                  at |-> IfRead(c.position_id),
                                  place |-> AddressOf(c.address_id)]

DumpInv == ReadInv /\ MinuteInv /\ TargetInv /\ RowInv /\ JoinsResolved

-----------------------------------------------------------------------------
(* The order of the sections, by number. *)

LEMMA Order9 ==
    /\ Len(CopyOrder) = 9 /\ DOMAIN CopyOrder = 1 .. 9
    /\ CopyOrder[1] = "addresses" /\ CopyOrder[2] = "cars" /\ CopyOrder[3] = "charges"
    /\ CopyOrder[4] = "charging_processes" /\ CopyOrder[5] = "drives"
    /\ CopyOrder[6] = "geofences" /\ CopyOrder[7] = "positions"
    /\ CopyOrder[8] = "states" /\ CopyOrder[9] = "updates"
BY DEF CopyOrder

LEMMA TableNames ==
    Tables = {"addresses", "cars", "charges", "charging_processes", "drives",
              "geofences", "positions", "states", "updates"}
<1>1. \A i \in 1 .. 9 : i = 1 \/ i = 2 \/ i = 3 \/ i = 4 \/ i = 5 \/ i = 6 \/ i = 7 \/ i = 8 \/ i = 9
  OBVIOUS
<1> QED
  BY <1>1, Order9 DEF Tables

(* A section that is read has none after it.                                *)
LEMMA ComesBefore ==
    ASSUME ReadInv
    PROVE  /\ section = "addresses" =>
                dump["charges"] = {} /\ dump["charging_processes"] = {}
                /\ dump["drives"] = {} /\ dump["positions"] = {}
           /\ section = "charges" =>
                dump["charging_processes"] = {} /\ dump["drives"] = {} /\ dump["positions"] = {}
           /\ section = "charging_processes" => dump["drives"] = {} /\ dump["positions"] = {}
           /\ section = "drives" => dump["positions"] = {}
<1>1. last = 0 \/ last = 1 \/ last = 2 \/ last = 3 \/ last = 4 \/ last = 5 \/ last = 6
        \/ last = 7 \/ last = 8 \/ last = 9
  BY DEF ReadInv
<1>2. \A i \in 1 .. 9 : i > last => dump[CopyOrder[i]] = {}
  BY DEF ReadInv
<1>3. /\ 3 > last => dump["charges"] = {}
      /\ 4 > last => dump["charging_processes"] = {}
      /\ 5 > last => dump["drives"] = {}
      /\ 7 > last => dump["positions"] = {}
  BY <1>2, Order9
<1>4. /\ section = "addresses" => last = 1
      /\ section = "charges" => last = 3
      /\ section = "charging_processes" => last = 4
      /\ section = "drives" => last = 5
  BY <1>1, Order9 DEF ReadInv
<1> QED
  BY <1>3, <1>4

-----------------------------------------------------------------------------
(* Reading. *)

(* A row that is taken keeps its table a table.                             *)
LEMMA RowKeepsRead ==
    ASSUME ReadInv, NEW t \in Tables, NEW row, IsRow(t, row),
           t = "charges" => row \in ChargeRows,
           t = "charging_processes" => row \in ProcessRows,
           t = "drives" => row \in DriveRows,
           t = "positions" => row \in PositionRows
    PROVE  /\ ReadInv'
           /\ dump'[t] = dump[t] \cup {row}
           /\ \A u \in Tables \ {t} : dump'[u] = dump[u]
           /\ row \notin dump[t] /\ \A x \in dump[t] : x.id # row.id
<1>1. dump' = [dump EXCEPT ![t] = @ \cup {row}] /\ DOMAIN dump = Tables
  BY DEF IsRow, ReadInv
<1>2. dump'[t] = dump[t] \cup {row} /\ \A u \in Tables \ {t} : dump'[u] = dump[u]
  BY <1>1
<1>3. section = t /\ section' = section /\ last' = last /\ \A x \in dump[t] : x.id # row.id
  BY DEF IsRow
<1>4. "none" \notin Tables
  BY TableNames
<1>5. \A i \in 1 .. 9 : i > last => dump'[CopyOrder[i]] = {}
  <2>1. last \in 1 .. 9 /\ t = CopyOrder[last]
    BY <1>3, <1>4 DEF ReadInv
  <2>2. \A i, j \in 1 .. 9 : CopyOrder[i] = CopyOrder[j] => i = j
    <3>1. \A i \in 1 .. 9 : i = 1 \/ i = 2 \/ i = 3 \/ i = 4 \/ i = 5 \/ i = 6 \/ i = 7 \/ i = 8 \/ i = 9
      OBVIOUS
    <3> QED
      BY <3>1, Order9
  <2>3. \A i \in 1 .. 9 : CopyOrder[i] \in Tables
    BY Order9, TableNames DEF Tables
  <2> QED
    BY <1>2, <2>1, <2>2, <2>3 DEF ReadInv
<1>6. \A u \in Referring : \A x, y \in dump'[u] : x.id = y.id => x = y
  <2>1. Referring \subseteq Tables
    BY TableNames DEF Referring
  <2>2. ASSUME NEW u \in Referring, NEW x \in dump'[u], NEW y \in dump'[u], x.id = y.id
        PROVE  x = y
    <3>1. CASE u = t
      BY <1>2, <1>3, <2>2, <3>1 DEF ReadInv
    <3>2. CASE u # t
      BY <1>2, <2>1, <2>2, <3>2 DEF ReadInv
    <3> QED
      BY <3>1, <3>2
  <2> QED
    BY <2>2
<1>7. /\ dump'["charges"] \subseteq ChargeRows
      /\ dump'["charging_processes"] \subseteq ProcessRows
      /\ dump'["drives"] \subseteq DriveRows
      /\ dump'["positions"] \subseteq PositionRows
  BY <1>2, TableNames DEF ReadInv
<1>8. DOMAIN dump' = Tables
  BY <1>1
<1> QED
  BY <1>2, <1>3, <1>5, <1>6, <1>7, <1>8 DEF ReadInv

LEMMA MinuteStep ==
    ASSUME ReadInv, MinuteInv, NEW row \in PositionRows, PositionRow(row)
    PROVE  MinuteInv'
<1>1. row.car_id \in Vehicles /\ row.date \in Minutes /\ row.date \in Nat \ {0}
  BY DumpAssumption
<1>2. dump'["positions"] = dump["positions"] \cup {row}
  BY RowKeepsRead, TableNames DEF PositionRow
<1>3. CASE NewMinute(row.car_id, row.date)
  <2>1. /\ lastMinute' = [lastMinute EXCEPT ![row.car_id] = row.date]
        /\ battery' = battery \cup {<<row.car_id, row.date>>}
    BY <1>3 DEF PositionRow
  <2>2. /\ lastMinute' \in [Vehicles -> Nat]
        /\ \A v \in Vehicles : lastMinute'[v] # 0 => <<v, lastMinute'[v]>> \in battery'
    BY <1>1, <2>1 DEF MinuteInv
  <2>3. \A p \in dump'["positions"] : <<p.car_id, p.date>> \in battery'
    BY <1>2, <2>1 DEF MinuteInv, EveryMinuteSampled
  <2> QED
    BY <2>2, <2>3 DEF MinuteInv, EveryMinuteSampled
<1>4. CASE ~NewMinute(row.car_id, row.date)
  <2>1. UNCHANGED <<lastMinute, battery>> /\ lastMinute[row.car_id] = row.date
    BY <1>4 DEF PositionRow, NewMinute
  <2>2. <<row.car_id, row.date>> \in battery
    BY <1>1, <2>1 DEF MinuteInv
  <2>3. \A p \in dump'["positions"] : <<p.car_id, p.date>> \in battery'
    BY <1>2, <2>1, <2>2 DEF MinuteInv, EveryMinuteSampled
  <2> QED
    BY <2>1, <2>3 DEF MinuteInv, EveryMinuteSampled
<1> QED
  BY <1>3, <1>4

-----------------------------------------------------------------------------
(* Rows that others are joined with. *)

(* A target more, or none for NULL.                                         *)
Among(some, position, kind) ==
    {t.id : t \in {x \in some : x.position = position /\ x.kind = kind}}

LEMMA TargetAdded ==
    ASSUME NEW old, NEW q, NEW k, NEW i, NEW p, NEW kind, p # 0
    PROVE  Among(addPositionTarget(old, q, k, i), p, kind)
             = Among(old, p, kind) \cup (IF q = p /\ k = kind THEN {i} ELSE {})
<1>1. CASE q = 0
  BY <1>1 DEF addPositionTarget
<1>2. CASE q # 0
  <2> DEFINE t == [position |-> q, kind |-> k, id |-> i]
  <2>1. addPositionTarget(old, q, k, i) = old \cup {t}
    BY <1>2 DEF addPositionTarget
  <2>2. t.position = q /\ t.kind = k /\ t.id = i
    OBVIOUS
  <2> HIDE DEF t
  <2>3. \A some, x : x \in Among(some, p, kind)
                      <=> \E u \in some : u.position = p /\ u.kind = kind /\ u.id = x
    BY DEF Among
  <2>4. \A x : x \in Among(old \cup {t}, p, kind)
                <=> x \in Among(old, p, kind) \/ (q = p /\ k = kind /\ x = i)
    BY <2>2, <2>3
  <2> QED
    BY <2>1, <2>4
<1> QED
  BY <1>1, <1>2

(* A row of drives: no position has been read, so its own are waited for,   *)
(* and every address has.                                                   *)
LEMMA DriveStep ==
    ASSUME DumpInv, NEW row \in DriveRows, DriveRow(row)
    PROVE  DumpInv'
<1>1. /\ ReadInv' /\ \A x \in dump["drives"] : x.id # row.id
      /\ dump'["drives"] = dump["drives"] \cup {row}
      /\ \A t \in Tables \ {"drives"} : dump'[t] = dump[t]
  BY RowKeepsRead, TableNames DEF DumpInv, DriveRow
<1>2. section = "drives" /\ stage = "reading" /\ stage' = "reading"
  BY DEF DriveRow, IsRow
<1>3. /\ dump'["positions"] = {} /\ dump["positions"] = {}
      /\ dump'["charging_processes"] = dump["charging_processes"]
      /\ dump'["charges"] = dump["charges"] /\ dump'["addresses"] = dump["addresses"]
  BY <1>1, <1>2, ComesBefore, TableNames DEF DumpInv
<1>4. MinuteInv'
  BY <1>3 DEF DumpInv, DriveRow, MinuteInv, EveryMinuteSampled
<1>5. \A p \in PositionIds : p # 0
  BY DumpAssumption
<1>6. targets' = addPositionTarget(
            addPositionTarget(targets, row.start_position_id, "drive-start", row.id),
            row.end_position_id, "drive-end", row.id)
  BY DEF DriveRow
<1>7. \A p \in PositionIds :
        /\ Waiting(p, "drive-start")' = Waiting(p, "drive-start")
              \cup (IF row.start_position_id = p THEN {row.id} ELSE {})
        /\ Waiting(p, "drive-end")' = Waiting(p, "drive-end")
              \cup (IF row.end_position_id = p THEN {row.id} ELSE {})
        /\ Waiting(p, "charging")' = Waiting(p, "charging")
  <2>1. \A p, kind : Waiting(p, kind) = Among(targets, p, kind)
                     /\ Waiting(p, kind)' = Among(targets', p, kind)
    BY DEF Waiting, Among
  <2> DEFINE one == addPositionTarget(targets, row.start_position_id, "drive-start", row.id)
             two == addPositionTarget(one, row.end_position_id, "drive-end", row.id)
  <2>2. ASSUME NEW p \in PositionIds, NEW kind
        PROVE  /\ Among(one, p, kind) = Among(targets, p, kind)
                    \cup (IF row.start_position_id = p /\ "drive-start" = kind THEN {row.id} ELSE {})
               /\ Among(two, p, kind) = Among(one, p, kind)
                    \cup (IF row.end_position_id = p /\ "drive-end" = kind THEN {row.id} ELSE {})
    <3> HIDE DEF one
    <3>1. p # 0
      BY <1>5
    <3>2. Among(two, p, kind) = Among(one, p, kind)
                    \cup (IF row.end_position_id = p /\ "drive-end" = kind THEN {row.id} ELSE {})
      BY <3>1, TargetAdded
    <3>3. Among(one, p, kind) = Among(targets, p, kind)
                    \cup (IF row.start_position_id = p /\ "drive-start" = kind THEN {row.id} ELSE {})
      BY <3>1, TargetAdded DEF one
    <3> QED
      BY <3>2, <3>3
  <2>3. targets' = two
    BY <1>6
  <2> HIDE DEF one, two
  <2> QED
    BY <2>1, <2>2, <2>3
<1>8. TargetInv'
  <2>1. \A p \in PositionIds :
          /\ row.id \notin Waiting(p, "drive-start") /\ row.id \notin Waiting(p, "drive-end")
    BY <1>1 DEF DumpInv, TargetInv
  <2> QED
    BY <1>1, <1>3, <1>7, <2>1 DEF DumpInv, TargetInv
<1>9. RowInv'
  <2> DEFINE new == [vehicle |-> row.car_id, at |-> 0, until |-> 0,
                     place |-> AddressOf(row.start_address_id)]
  <2>1. drives' = [k \in DOMAIN drives \cup {row.id} |-> IF k = row.id THEN new ELSE drives[k]]
    BY DEF DriveRow, Insert
  <2>2. \A p : IfRead(p)' = 0 /\ IfRead(p) = 0
    BY <1>3 DEF IfRead
  <2>3. \A a : AddressOf(a)' = AddressOf(a)
    BY <1>3 DEF AddressOf
  <2>4. sessions' = sessions /\ samples' = samples
    BY DEF DriveRow
  <2>5. DOMAIN drives' = {d.id : d \in dump'["drives"]}
    BY <1>1, <2>1 DEF DumpInv, RowInv
  <2>6. \A d \in dump'["drives"] :
          drives'[d.id] = [vehicle |-> d.car_id, at |-> 0, until |-> 0,
                           place |-> AddressOf(d.start_address_id)]
    <3>1. drives'[row.id] = new
      BY <2>1
    <3>2. \A d \in dump["drives"] : d.id # row.id /\ drives'[d.id] = drives[d.id]
      BY <1>1, <2>1 DEF DumpInv, RowInv
    <3>3. \A d \in dump["drives"] :
            drives[d.id] = [vehicle |-> d.car_id, at |-> 0, until |-> 0,
                            place |-> AddressOf(d.start_address_id)]
      BY <1>2, <2>2 DEF DumpInv, RowInv
    <3> QED
      BY <1>1, <3>1, <3>2, <3>3
  <2> QED
    BY <1>2, <1>3, <2>2, <2>3, <2>4, <2>5, <2>6 DEF DumpInv, RowInv
<1>10. JoinsResolved'
  BY <1>2 DEF JoinsResolved
<1> QED
  BY <1>1, <1>4, <1>8, <1>9, <1>10 DEF DumpInv

(* A row of charging_processes, likewise.                                   *)
LEMMA ProcessStep ==
    ASSUME DumpInv, NEW row \in ProcessRows, ProcessRow(row)
    PROVE  DumpInv'
<1>1. /\ ReadInv' /\ \A x \in dump["charging_processes"] : x.id # row.id
      /\ dump'["charging_processes"] = dump["charging_processes"] \cup {row}
      /\ \A t \in Tables \ {"charging_processes"} : dump'[t] = dump[t]
  BY RowKeepsRead, TableNames DEF DumpInv, ProcessRow
<1>2. section = "charging_processes" /\ stage = "reading" /\ stage' = "reading"
  BY DEF ProcessRow, IsRow
<1>3. /\ dump'["positions"] = {} /\ dump["positions"] = {}
      /\ dump'["drives"] = {} /\ dump["drives"] = {}
      /\ dump'["charges"] = dump["charges"] /\ dump'["addresses"] = dump["addresses"]
  BY <1>1, <1>2, ComesBefore, TableNames DEF DumpInv
<1>4. MinuteInv'
  BY <1>3 DEF DumpInv, ProcessRow, MinuteInv, EveryMinuteSampled
<1>5. \A p \in PositionIds : p # 0
  BY DumpAssumption
<1>6. targets' = addPositionTarget(targets, row.position_id, "charging", row.id)
  BY DEF ProcessRow
<1>7. \A p \in PositionIds :
        /\ Waiting(p, "drive-start")' = Waiting(p, "drive-start")
        /\ Waiting(p, "drive-end")' = Waiting(p, "drive-end")
        /\ Waiting(p, "charging")' = Waiting(p, "charging")
              \cup (IF row.position_id = p THEN {row.id} ELSE {})
  <2>1. \A p, kind : Waiting(p, kind) = Among(targets, p, kind)
                     /\ Waiting(p, kind)' = Among(targets', p, kind)
    BY DEF Waiting, Among
  <2>2. ASSUME NEW p \in PositionIds, NEW kind
        PROVE  Among(targets', p, kind) = Among(targets, p, kind)
                    \cup (IF row.position_id = p /\ "charging" = kind THEN {row.id} ELSE {})
    <3>1. p # 0
      BY <1>5
    <3> QED
      BY <3>1, <1>6, TargetAdded
  <2> QED
    BY <2>1, <2>2
<1>8. TargetInv'
  <2>1. \A p \in PositionIds : row.id \notin Waiting(p, "charging")
    BY <1>1 DEF DumpInv, TargetInv
  <2> QED
    BY <1>1, <1>3, <1>7, <2>1 DEF DumpInv, TargetInv
<1>9. RowInv'
  <2> DEFINE new == [vehicle |-> row.car_id, at |-> 0, place |-> AddressOf(row.address_id)]
  <2>1. sessions' = [k \in DOMAIN sessions \cup {row.id} |-> IF k = row.id THEN new ELSE sessions[k]]
    BY DEF ProcessRow, Insert
  <2>2. \A p : IfRead(p)' = 0 /\ IfRead(p) = 0
    BY <1>3 DEF IfRead
  <2>3. \A a : AddressOf(a)' = AddressOf(a)
    BY <1>3 DEF AddressOf
  <2>4. drives' = drives /\ samples' = samples
    BY DEF ProcessRow
  <2>5. DOMAIN sessions' = {c.id : c \in dump'["charging_processes"]}
    BY <1>1, <2>1 DEF DumpInv, RowInv
  <2>6. \A c \in dump'["charging_processes"] :
          sessions'[c.id] = [vehicle |-> c.car_id, at |-> 0, place |-> AddressOf(c.address_id)]
    <3>1. sessions'[row.id] = new
      BY <2>1
    <3>2. \A c \in dump["charging_processes"] :
            c.id # row.id /\ sessions'[c.id] = sessions[c.id]
      BY <1>1, <2>1 DEF DumpInv, RowInv
    <3>3. \A c \in dump["charging_processes"] :
            sessions[c.id] = [vehicle |-> c.car_id, at |-> 0, place |-> AddressOf(c.address_id)]
      BY <1>2, <2>2 DEF DumpInv, RowInv
    <3> QED
      BY <1>1, <3>1, <3>2, <3>3
  <2> QED
    BY <1>2, <1>3, <2>2, <2>3, <2>4, <2>5, <2>6 DEF DumpInv, RowInv
<1>10. JoinsResolved'
  BY <1>2 DEF JoinsResolved
<1> QED
  BY <1>1, <1>4, <1>8, <1>9, <1>10 DEF DumpInv

(* A row of charges: nothing it refers to has been read.                    *)
LEMMA ChargeStep ==
    ASSUME DumpInv, NEW row \in ChargeRows, ChargeRow(row)
    PROVE  DumpInv'
<1>1. /\ ReadInv' /\ dump'["charges"] = dump["charges"] \cup {row}
      /\ \A t \in Tables \ {"charges"} : dump'[t] = dump[t]
  BY RowKeepsRead, TableNames DEF DumpInv, ChargeRow
<1>2. section = "charges" /\ stage = "reading" /\ stage' = "reading"
  BY DEF ChargeRow, IsRow
<1>3. /\ dump'["positions"] = {} /\ dump'["drives"] = {} /\ dump'["charging_processes"] = {}
      /\ dump["drives"] = {} /\ dump["charging_processes"] = {}
  BY <1>1, <1>2, ComesBefore, TableNames DEF DumpInv
<1>4. MinuteInv'
  BY <1>3 DEF DumpInv, ChargeRow, MinuteInv, EveryMinuteSampled
<1>5. \A p, kind : Waiting(p, kind)' = Waiting(p, kind)
  BY DEF ChargeRow, Waiting
<1>6. TargetInv'
  BY <1>3, <1>5 DEF DumpInv, TargetInv
<1>7. RowInv'
  <2>1. DOMAIN samples' = DOMAIN samples \cup {row.id} /\ drives' = drives /\ sessions' = sessions
    BY DEF ChargeRow, Insert
  <2> QED
    BY <1>1, <1>3, <2>1 DEF DumpInv, RowInv
<1>8. JoinsResolved'
  BY <1>2 DEF JoinsResolved
<1> QED
  BY <1>1, <1>4, <1>6, <1>7, <1>8 DEF DumpInv

(* A row of addresses comes before who refers to it; a geofence's row       *)
(* changes no row yet.                                                      *)
LEMMA PlainStep ==
    ASSUME DumpInv, NEW t \in {"addresses", "geofences"}, NEW row, PlainRow(t, row)
    PROVE  DumpInv'
<1>1. /\ ReadInv' /\ \A u \in Tables \ {t} : dump'[u] = dump[u]
  <2>1. IsRow(t, row) /\ t \in Tables
    BY TableNames DEF PlainRow
  <2> QED
    BY <2>1, RowKeepsRead DEF DumpInv
<1>2. section = t /\ stage = "reading" /\ stage' = "reading"
      /\ UNCHANGED <<targets, drives, sessions, samples, battery, lastMinute>>
  BY DEF PlainRow, IsRow, made
<1>3. \A u \in Referring : dump'[u] = dump[u]
  BY <1>1, TableNames DEF Referring
<1>4. MinuteInv'
  BY <1>2, <1>3 DEF DumpInv, MinuteInv, EveryMinuteSampled, Referring
<1>5. TargetInv'
  <2>1. \A p, kind : Waiting(p, kind)' = Waiting(p, kind)
    BY <1>2 DEF Waiting
  <2> QED
    BY <2>1, <1>3 DEF DumpInv, TargetInv, Referring
<1>6. RowInv'
  <2>1. \A p : IfRead(p)' = IfRead(p)
    BY <1>3 DEF IfRead, Referring
  <2>2. CASE t = "addresses"
    <3>1. dump["drives"] = {} /\ dump["charging_processes"] = {}
      BY <1>2, <2>2, ComesBefore DEF DumpInv
    <3> QED
      BY <1>2, <1>3, <3>1 DEF DumpInv, RowInv, Referring
  <2>3. CASE t = "geofences"
    <3>1. \A a : AddressOf(a)' = AddressOf(a)
      BY <1>1, <2>3, TableNames DEF AddressOf
    <3> QED
      BY <1>2, <1>3, <2>1, <3>1 DEF DumpInv, RowInv, Referring
  <2> QED
    BY <2>2, <2>3
<1>7. JoinsResolved'
  BY <1>2 DEF JoinsResolved
<1> QED
  BY <1>1, <1>4, <1>5, <1>6, <1>7 DEF DumpInv

(* A position is given to all who wait for it.                              *)
LEMMA PositionStep ==
    ASSUME DumpInv, NEW row \in PositionRows, PositionRow(row)
    PROVE  DumpInv'
<1>1. /\ ReadInv' /\ dump'["positions"] = dump["positions"] \cup {row}
      /\ \A t \in Tables \ {"positions"} : dump'[t] = dump[t]
      /\ \A x \in dump["positions"] : x.id # row.id
  BY RowKeepsRead, TableNames DEF DumpInv, PositionRow
<1>2. stage = "reading" /\ stage' = "reading" /\ UNCHANGED <<targets, samples>>
  BY DEF PositionRow, IsRow
<1>3. /\ dump'["drives"] = dump["drives"] /\ dump'["charges"] = dump["charges"]
      /\ dump'["charging_processes"] = dump["charging_processes"]
      /\ dump'["addresses"] = dump["addresses"]
  BY <1>1, TableNames
<1>4. row.id \in PositionIds
  BY DumpAssumption
<1>5. TargetInv'
  <2>1. \A p, kind : Waiting(p, kind)' = Waiting(p, kind)
    BY <1>2 DEF Waiting
  <2> QED
    BY <2>1, <1>3 DEF DumpInv, TargetInv
<1>6. RowInv'
  <2>1. \A p : IfRead(p)' = IF p = row.id THEN row.id ELSE IfRead(p)
    BY <1>1 DEF IfRead
  <2>2. \A a : AddressOf(a)' = AddressOf(a)
    BY <1>3 DEF AddressOf
  <2>3. DOMAIN drives' = DOMAIN drives /\ DOMAIN sessions' = DOMAIN sessions
    BY DEF PositionRow
  <2>4. ASSUME NEW d \in dump["drives"]
        PROVE  drives'[d.id] = [vehicle |-> d.car_id,
                                at |-> IfRead(d.start_position_id)',
                                until |-> IfRead(d.end_position_id)',
                                place |-> AddressOf(d.start_address_id)]
    <3>1. drives[d.id] = [vehicle |-> d.car_id,
                          at |-> IfRead(d.start_position_id),
                          until |-> IfRead(d.end_position_id),
                          place |-> AddressOf(d.start_address_id)]
      BY <1>2, <2>4 DEF DumpInv, RowInv
    <3>2. d.id \in DOMAIN drives
      BY <2>4 DEF DumpInv, RowInv
    <3>3. drives'[d.id] =
            [drives[d.id] EXCEPT
                !.at = IF d.id \in Waiting(row.id, "drive-start") THEN row.id ELSE @,
                !.until = IF d.id \in Waiting(row.id, "drive-end") THEN row.id ELSE @]
      BY <3>2 DEF PositionRow
    <3>4. /\ (d.id \in Waiting(row.id, "drive-start")) <=> (d.start_position_id = row.id)
          /\ (d.id \in Waiting(row.id, "drive-end")) <=> (d.end_position_id = row.id)
      BY <1>4, <2>4 DEF DumpInv, TargetInv
    <3> DEFINE start == IF d.id \in Waiting(row.id, "drive-start") THEN row.id
                        ELSE IfRead(d.start_position_id)
               end == IF d.id \in Waiting(row.id, "drive-end") THEN row.id
                      ELSE IfRead(d.end_position_id)
    <3>5. drives'[d.id] = [vehicle |-> d.car_id, at |-> start, until |-> end,
                           place |-> AddressOf(d.start_address_id)]
      <4> DEFINE given == IF d.id \in Waiting(row.id, "drive-start") THEN row.id
                          ELSE drives[d.id].at
                 taken == IF d.id \in Waiting(row.id, "drive-end") THEN row.id
                          ELSE drives[d.id].until
      <4>1. given = start /\ taken = end
        BY <3>1
      <4> DEFINE begun == [drives[d.id] EXCEPT !.at = given]
      <4>2. drives'[d.id] = [begun EXCEPT !.until = taken]
        BY <3>3
      <4> HIDE DEF start, end, given, taken
      <4>3. begun = [vehicle |-> d.car_id, at |-> given, until |-> IfRead(d.end_position_id),
                     place |-> AddressOf(d.start_address_id)]
        BY <3>1
      <4> HIDE DEF begun
      <4>4. [begun EXCEPT !.until = taken] =
                [vehicle |-> d.car_id, at |-> given, until |-> taken,
                 place |-> AddressOf(d.start_address_id)]
        BY <4>3
      <4> QED
        BY <4>1, <4>2, <4>4
    <3>6. /\ IfRead(d.start_position_id)' = IF d.id \in Waiting(row.id, "drive-start")
                                            THEN row.id ELSE IfRead(d.start_position_id)
          /\ IfRead(d.end_position_id)' = IF d.id \in Waiting(row.id, "drive-end")
                                          THEN row.id ELSE IfRead(d.end_position_id)
      BY <2>1, <3>4
    <3> QED
      BY <3>5, <3>6
  <2>5. ASSUME NEW c \in dump["charging_processes"]
        PROVE  sessions'[c.id] = [vehicle |-> c.car_id, at |-> IfRead(c.position_id)',
                                  place |-> AddressOf(c.address_id)]
    <3>1. sessions[c.id] = [vehicle |-> c.car_id, at |-> IfRead(c.position_id),
                            place |-> AddressOf(c.address_id)]
      BY <1>2, <2>5 DEF DumpInv, RowInv
    <3>2. c.id \in DOMAIN sessions
      BY <2>5 DEF DumpInv, RowInv
    <3>3. sessions'[c.id] =
            [sessions[c.id] EXCEPT !.at = IF c.id \in Waiting(row.id, "charging") THEN row.id ELSE @]
      BY <3>2 DEF PositionRow
    <3>4. (c.id \in Waiting(row.id, "charging")) <=> (c.position_id = row.id)
      BY <1>4, <2>5 DEF DumpInv, TargetInv
    <3> QED
      BY <2>1, <3>1, <3>3, <3>4
  <2> QED
    BY <1>2, <1>3, <2>2, <2>3, <2>4, <2>5 DEF DumpInv, RowInv
<1>7. MinuteInv'
  BY MinuteStep DEF DumpInv
<1>8. JoinsResolved'
  BY <1>2 DEF JoinsResolved
<1> QED
  BY <1>1, <1>5, <1>6, <1>7, <1>8 DEF DumpInv

-----------------------------------------------------------------------------
(* The ends and beginnings of sections, and of the file. *)

LEMMA SameLookups ==
    ASSUME UNCHANGED <<dump, targets>>
    PROVE  /\ \A p, kind : Waiting(p, kind)' = Waiting(p, kind)
           /\ \A p : IfRead(p)' = IfRead(p)
           /\ \A a : AddressOf(a)' = AddressOf(a)
           /\ \A g, a : Named(g, a)' = Named(g, a)
BY DEF Waiting, IfRead, AddressOf, Named, GeofenceOf

LEMMA ReadKept ==
    ASSUME ReadInv, dump' = dump, last' \in 0 .. 9, last' >= last,
           section' # "none" => last' # 0 /\ section' = CopyOrder[last']
    PROVE  ReadInv'
<1>1. \A i \in 1 .. 9 : i > last' => dump[CopyOrder[i]] = {}
  BY DEF ReadInv
<1> QED
  BY <1>1 DEF ReadInv

(* What is made of the rows stays true while they and the stage stay.       *)
LEMMA MadeKept ==
    ASSUME DumpInv, UNCHANGED <<dump, targets, made, lastMinute>>,
           (stage' # "converted" /\ stage # "converted") \/ stage' = stage
    PROVE  MinuteInv' /\ TargetInv' /\ RowInv' /\ JoinsResolved'
<1> USE SameLookups
<1>1. UNCHANGED <<drives, sessions, samples, battery>>
  BY DEF made
<1>2. MinuteInv'
  BY <1>1 DEF DumpInv, MinuteInv, EveryMinuteSampled
<1>3. TargetInv'
  BY DEF DumpInv, TargetInv
<1>4. RowInv'
  BY <1>1 DEF DumpInv, RowInv
<1>5. JoinsResolved'
  BY <1>1 DEF DumpInv, JoinsResolved
<1> QED
  BY <1>2, <1>3, <1>4, <1>5

LEMMA HeaderStep ==
    ASSUME DumpInv, NEW i \in DOMAIN CopyOrder, CopyHeader(i)
    PROVE  DumpInv'
<1>1. /\ stage' = stage /\ stage = "reading" /\ UNCHANGED <<dump, targets, made, lastMinute>>
      /\ section' = CopyOrder[i] /\ last' = i /\ i > last
  BY DEF CopyHeader
<1>2. i \in 1 .. 9 /\ last \in 0 .. 9
  BY Order9 DEF DumpInv, ReadInv
<1>3. ReadInv'
  BY <1>1, <1>2, ReadKept DEF DumpInv
<1> QED
  BY <1>1, <1>3, MadeKept DEF DumpInv

LEMMA StageStep ==
    ASSUME DumpInv, PickDump \/ EndOfSection \/ BadRow
    PROVE  DumpInv'
<1>1. /\ UNCHANGED <<last, dump, targets, made, lastMinute>>
      /\ section' = section \/ section' = "none"
      /\ stage # "converted" /\ stage' # "converted"
  BY DEF PickDump, EndOfSection, BadRow
<1>2. ReadInv'
  BY <1>1, ReadKept DEF DumpInv, ReadInv
<1> QED
  BY <1>1, <1>2, MadeKept DEF DumpInv

LEMMA EmptyDump ==
    ASSUME CloseDump
    PROVE  DumpInv'
<1>1. /\ section' = "none" /\ last' = 0 /\ stage' = "idle" /\ targets' = {}
      /\ dump' = [t \in Tables |-> {}] /\ drives' = NoRows /\ sessions' = NoRows
      /\ samples' = NoRows /\ lastMinute' = [v \in Vehicles |-> 0] /\ battery' = {}
  BY DEF CloseDump
<1>2. DOMAIN NoRows = {}
  BY DEF NoRows
<1>3. \A t \in Tables : dump'[t] = {}
  BY <1>1
<1>4. /\ dump'["charges"] = {} /\ dump'["charging_processes"] = {}
      /\ dump'["drives"] = {} /\ dump'["positions"] = {}
  BY <1>3, TableNames
<1>5. ReadInv'
  <2>1. \A i \in 1 .. 9 : dump'[CopyOrder[i]] = {}
    BY <1>3, Order9 DEF Tables
  <2>2. DOMAIN dump' = Tables /\ last' \in 0 .. 9
    BY <1>1
  <2> QED
    BY <1>1, <1>4, <2>1, <2>2 DEF ReadInv, Referring
<1>6. MinuteInv'
  BY <1>1, <1>4 DEF MinuteInv, EveryMinuteSampled
<1>7. TargetInv'
  BY <1>1, <1>4 DEF TargetInv, Waiting
<1>8. RowInv' /\ JoinsResolved'
  BY <1>1, <1>2, <1>4 DEF RowInv, JoinsResolved
<1> QED
  BY <1>5, <1>6, <1>7, <1>8 DEF DumpInv

LEMMA UniqueRow ==
    ASSUME ReadInv, NEW t \in Referring, NEW x \in dump[t]
    PROVE  RowOf(t, x.id) = x
BY DEF ReadInv, RowOf

(* At the end every name and every vehicle is there to be looked up.        *)
LEMMA EndStep ==
    ASSUME DumpInv, EndOfFile
    PROVE  DumpInv'
<1>1. stage = "reading" /\ UNCHANGED <<section, last, seen, dump, targets, lastMinute>>
  BY DEF EndOfFile
<1>2. ReadInv' /\ TargetInv'
  <2>1. ReadInv'
    BY <1>1, ReadKept DEF DumpInv, ReadInv
  <2>2. TargetInv'
    BY <1>1, SameLookups DEF DumpInv, TargetInv
  <2> QED
    BY <2>1, <2>2
<1>3. MinuteInv'
  BY <1>1 DEF DumpInv, MinuteInv, EveryMinuteSampled, EndOfFile, Finalize, made
<1>4. CASE stage' = "refused" /\ UNCHANGED made
  BY <1>1, <1>2, <1>4, MadeKept DEF DumpInv
<1>5. CASE stage' = "converted" /\ Finalize
  <2>1. /\ DOMAIN drives' = DOMAIN drives /\ DOMAIN sessions' = DOMAIN sessions
        /\ DOMAIN samples' = DOMAIN samples
    BY <1>5 DEF Finalize
  <2>2. RowInv'
    BY <1>1, <1>5, <2>1 DEF DumpInv, RowInv
  <2>3. (\A p : IfRead(p)' = IfRead(p)) /\ (\A a : AddressOf(a)' = AddressOf(a))
        /\ \A g, a : Named(g, a)' = Named(g, a)
    BY <1>1 DEF IfRead, AddressOf, Named, GeofenceOf
  <2>4. ASSUME NEW d \in dump["drives"]
        PROVE  /\ drives'[d.id].at = IfRead(d.start_position_id)
               /\ drives'[d.id].until = IfRead(d.end_position_id)
               /\ drives'[d.id].place = Named(d.start_geofence_id, AddressOf(d.start_address_id))
    <3>1. d.id \in DOMAIN drives /\ RowOf("drives", d.id) = d
      BY UniqueRow DEF DumpInv, RowInv, Referring
    <3>2. drives[d.id] = [vehicle |-> d.car_id, at |-> IfRead(d.start_position_id),
                          until |-> IfRead(d.end_position_id),
                          place |-> AddressOf(d.start_address_id)]
      BY <1>1 DEF DumpInv, RowInv
    <3>3. drives'[d.id] = [drives[d.id] EXCEPT !.place = Named(d.start_geofence_id, @)]
      BY <1>5, <3>1 DEF Finalize
    <3> QED
      BY <3>2, <3>3
  <2>5. ASSUME NEW c \in dump["charging_processes"]
        PROVE  /\ sessions'[c.id].at = IfRead(c.position_id)
               /\ sessions'[c.id].place = Named(c.geofence_id, AddressOf(c.address_id))
               /\ c.id \in DOMAIN sessions /\ sessions[c.id].vehicle = c.car_id
    <3>1. c.id \in DOMAIN sessions /\ RowOf("charging_processes", c.id) = c
      BY UniqueRow DEF DumpInv, RowInv, Referring
    <3>2. sessions[c.id] = [vehicle |-> c.car_id, at |-> IfRead(c.position_id),
                            place |-> AddressOf(c.address_id)]
      BY <1>1 DEF DumpInv, RowInv
    <3>3. sessions'[c.id] = [sessions[c.id] EXCEPT !.place = Named(c.geofence_id, @)]
      BY <1>5, <3>1 DEF Finalize
    <3> QED
      BY <3>1, <3>2, <3>3
  <2>6. ASSUME NEW x \in dump["charges"], NEW c \in dump["charging_processes"],
               x.charging_process_id = c.id
        PROVE  samples'[x.id] = c.car_id
    <3>1. x.id \in DOMAIN samples /\ RowOf("charges", x.id) = x
      BY UniqueRow DEF DumpInv, RowInv, Referring
    <3>2. samples'[x.id] = IF x.charging_process_id \in DOMAIN sessions
                           THEN sessions[x.charging_process_id].vehicle ELSE 0
      BY <1>5, <3>1 DEF Finalize
    <3> QED
      BY <2>5, <2>6, <3>2
  <2>7. JoinsResolved'
    BY <1>1, <2>3, <2>4, <2>5, <2>6 DEF JoinsResolved
  <2> QED
    BY <1>2, <1>3, <2>2, <2>7 DEF DumpInv
<1> QED
  BY <1>4, <1>5 DEF EndOfFile

-----------------------------------------------------------------------------
(* The invariant holds of a conversion that has not begun, and every step   *)
(* of it, every end of one and every step elsewhere keeps it.               *)
LEMMA DumpInvHolds ==
    /\ DumpInit => DumpInv
    /\ DumpInv /\ (DumpNext \/ CloseDump \/ UNCHANGED dumpVars) => DumpInv'
<1>1. DumpInit => DumpInv
  <2> SUFFICES ASSUME DumpInit PROVE DumpInv
    OBVIOUS
  <2>1. /\ section = "none" /\ last = 0 /\ stage = "idle" /\ targets = {}
        /\ dump = [t \in Tables |-> {}] /\ drives = NoRows /\ sessions = NoRows
        /\ samples = NoRows /\ lastMinute = [v \in Vehicles |-> 0] /\ battery = {}
    BY DEF DumpInit, Fresh
  <2>2. DOMAIN NoRows = {}
    BY DEF NoRows
  <2>3. \A t \in Tables : dump[t] = {}
    BY <2>1
  <2>4. /\ dump["charges"] = {} /\ dump["charging_processes"] = {}
        /\ dump["drives"] = {} /\ dump["positions"] = {}
    BY <2>3, TableNames
  <2>5. ReadInv
    <3>1. \A i \in 1 .. 9 : dump[CopyOrder[i]] = {}
      BY <2>3, Order9 DEF Tables
    <3>2. DOMAIN dump = Tables /\ last \in 0 .. 9
      BY <2>1
    <3> QED
      BY <2>1, <2>4, <3>1, <3>2 DEF ReadInv, Referring
  <2>6. MinuteInv /\ TargetInv
    BY <2>1, <2>4 DEF MinuteInv, EveryMinuteSampled, TargetInv, Waiting
  <2>7. RowInv /\ JoinsResolved
    BY <2>1, <2>2, <2>4 DEF RowInv, JoinsResolved
  <2> QED
    BY <2>5, <2>6, <2>7 DEF DumpInv
<1>2. ASSUME DumpInv, DumpNext
      PROVE  DumpInv'
  <2>1. CASE PickDump \/ EndOfSection \/ BadRow
    BY <1>2, <2>1, StageStep
  <2>2. CASE \E i \in DOMAIN CopyOrder : CopyHeader(i)
    BY <1>2, <2>2, HeaderStep
  <2>3. CASE \E row \in AddressRows : PlainRow("addresses", row)
    BY <1>2, <2>3, PlainStep
  <2>4. CASE \E row \in GeofenceRows : PlainRow("geofences", row)
    BY <1>2, <2>4, PlainStep
  <2>5. CASE \E row \in ChargeRows : ChargeRow(row)
    BY <1>2, <2>5, ChargeStep
  <2>6. CASE \E row \in ProcessRows : ProcessRow(row)
    BY <1>2, <2>6, ProcessStep
  <2>7. CASE \E row \in DriveRows : DriveRow(row)
    BY <1>2, <2>7, DriveStep
  <2>8. CASE \E row \in PositionRows : PositionRow(row)
    BY <1>2, <2>8, PositionStep
  <2>9. CASE EndOfFile
    BY <1>2, <2>9, EndStep
  <2>10. CASE Refused
    BY <2>10, EmptyDump DEF Refused
  <2> QED
    BY <1>2, <2>1, <2>2, <2>3, <2>4, <2>5, <2>6, <2>7, <2>8, <2>9, <2>10 DEF DumpNext
<1>3. CloseDump => DumpInv'
  BY EmptyDump
<1>4. ASSUME DumpInv, UNCHANGED dumpVars
      PROVE  DumpInv'
  <2>1. UNCHANGED <<stage, section, last, dump, targets, made, lastMinute>>
    BY <1>4 DEF dumpVars, made
  <2>2. ReadInv'
    BY <1>4, <2>1, ReadKept DEF DumpInv, ReadInv
  <2> QED
    BY <1>4, <2>1, <2>2, MadeKept DEF DumpInv
<1> QED
  BY <1>1, <1>2, <1>3, <1>4

-----------------------------------------------------------------------------
(* Types. *)

DumpTypes ==
    /\ DumpTypeOK
    /\ dump["addresses"] \subseteq AddressRows
    /\ dump["geofences"] \subseteq GeofenceRows

MadeDrives == [vehicle : Vehicles, at : {0} \cup PositionIds, until : {0} \cup PositionIds,
               place : PlaceNames]
MadeSessions == [vehicle : Vehicles, at : {0} \cup PositionIds, place : PlaceNames]

LEMMA PlaceTypes ==
    ASSUME DumpTypes
    PROVE  /\ \A id : AddressOf(id) \in PlaceNames
           /\ \A id : GeofenceOf(id) \in PlaceNames
           /\ \A id : \A place \in PlaceNames : Named(id, place) \in PlaceNames
<1>1. \A a \in dump["addresses"] : a.id = 1
  BY DEF DumpTypes, AddressRows
<1>2. \A a \in dump["geofences"] : a.id = 1
  BY DEF DumpTypes, GeofenceRows
<1>3. \A id : AddressOf(id) \in PlaceNames
  BY <1>1 DEF AddressOf, PlaceNames
<1>4. \A id : GeofenceOf(id) \in PlaceNames
  BY <1>2 DEF GeofenceOf, PlaceNames
<1>5. \A id : \A place \in PlaceNames : Named(id, place) \in PlaceNames
  BY <1>4 DEF Named
<1> QED
  BY <1>3, <1>4, <1>5

\* A row that is read changes neither the stage nor the section.
LEMMA RowTypes ==
    ASSUME DumpInv, DumpTypes, NEW t \in Tables, NEW row, IsRow(t, row),
           t = "addresses" => row \in AddressRows,
           t = "geofences" => row \in GeofenceRows
    PROVE  /\ dump'["addresses"] \subseteq AddressRows
           /\ dump'["geofences"] \subseteq GeofenceRows
           /\ UNCHANGED <<stage, section, last, seen>>
<1>1. dump' = [dump EXCEPT ![t] = @ \cup {row}] /\ DOMAIN dump = Tables
  BY DEF IsRow, DumpInv, ReadInv
<1>2. "addresses" \in Tables /\ "geofences" \in Tables
  BY TableNames
<1>3. dump'["addresses"] \subseteq AddressRows
  BY <1>1, <1>2 DEF DumpTypes
<1>4. dump'["geofences"] \subseteq GeofenceRows
  BY <1>1, <1>2 DEF DumpTypes
<1> QED
  BY <1>3, <1>4 DEF IsRow

LEMMA DumpTypesHold ==
    /\ DumpInit => DumpTypes
    /\ DumpInv /\ DumpTypes /\ (DumpNext \/ CloseDump \/ UNCHANGED dumpVars) => DumpTypes'
<1>1. DumpInit => DumpTypes
  BY TableNames, Order9 DEF DumpInit, Fresh, DumpTypes, DumpTypeOK, NoRows
<1>2. ASSUME DumpInv, DumpTypes, DumpNext \/ CloseDump \/ UNCHANGED dumpVars
      PROVE  DumpTypes'
  <2>1. /\ stage \in {"idle", "reading", "converted", "refused"}
        /\ section \in Tables \cup {"none"} /\ seen \subseteq Tables /\ last \in 0 .. Len(CopyOrder)
    BY <1>2 DEF DumpTypes, DumpTypeOK
  <2>2. /\ \A id \in DOMAIN drives : drives[id] \in MadeDrives
        /\ \A id \in DOMAIN sessions : sessions[id] \in MadeSessions
        /\ \A id \in DOMAIN samples : samples[id] \in Vehicles \cup {0}
        /\ positions \subseteq PositionIds /\ battery \subseteq Vehicles \X Minutes
    BY <1>2 DEF DumpTypes, DumpTypeOK, MadeDrives, MadeSessions
  <2>3. dump["addresses"] \subseteq AddressRows /\ dump["geofences"] \subseteq GeofenceRows
    BY <1>2 DEF DumpTypes
  <2>4. ASSUME /\ stage' \in {"idle", "reading", "converted", "refused"}
               /\ section' \in Tables \cup {"none"} /\ seen' \subseteq Tables
               /\ last' \in 0 .. Len(CopyOrder),
               dump'["addresses"] \subseteq AddressRows /\ dump'["geofences"] \subseteq GeofenceRows,
               \A id \in DOMAIN drives' : drives'[id] \in MadeDrives,
               \A id \in DOMAIN sessions' : sessions'[id] \in MadeSessions,
               \A id \in DOMAIN samples' : samples'[id] \in Vehicles \cup {0},
               positions' \subseteq PositionIds /\ battery' \subseteq Vehicles \X Minutes
        PROVE  DumpTypes'
    BY <2>4 DEF DumpTypes, DumpTypeOK, MadeDrives, MadeSessions
  <2>5. ASSUME UNCHANGED made, UNCHANGED dump,
               /\ stage' \in {"idle", "reading", "converted", "refused"}
               /\ section' \in Tables \cup {"none"} /\ seen' \subseteq Tables
               /\ last' \in 0 .. Len(CopyOrder)
        PROVE  DumpTypes'
    <3>1. UNCHANGED <<drives, sessions, samples, positions, battery, dump>>
      BY <2>5 DEF made
    <3> QED
      BY <2>2, <2>3, <2>4, <2>5, <3>1
  <2>6. ASSUME NEW t \in Tables, NEW row, IsRow(t, row),
               t = "addresses" => row \in AddressRows,
               t = "geofences" => row \in GeofenceRows,
               \A id \in DOMAIN drives' : drives'[id] \in MadeDrives,
               \A id \in DOMAIN sessions' : sessions'[id] \in MadeSessions,
               \A id \in DOMAIN samples' : samples'[id] \in Vehicles \cup {0},
               positions' \subseteq PositionIds /\ battery' \subseteq Vehicles \X Minutes
        PROVE  DumpTypes'
    BY <1>2, <2>1, <2>4, <2>6, RowTypes
  <2>7. CASE PickDump
    BY <2>1, <2>5, <2>7 DEF PickDump
  <2>8. ASSUME NEW i \in DOMAIN CopyOrder, CopyHeader(i)
        PROVE  DumpTypes'
    <3>1. CopyOrder[i] \in Tables /\ i \in 0 .. Len(CopyOrder)
      BY Order9 DEF Tables
    <3> QED
      BY <2>1, <2>5, <2>8, <3>1 DEF CopyHeader
  <2>9. CASE EndOfSection \/ BadRow
    BY <2>1, <2>5, <2>9 DEF EndOfSection, BadRow
  <2>10. ASSUME NEW row \in AddressRows, PlainRow("addresses", row)
         PROVE  DumpTypes'
    <3>1. UNCHANGED <<drives, sessions, samples, positions, battery>>
          /\ IsRow("addresses", row) /\ "addresses" \in Tables
      BY <2>10, TableNames DEF PlainRow, made
    <3> QED
      BY <2>2, <2>6, <3>1
  <2>11. ASSUME NEW row \in GeofenceRows, PlainRow("geofences", row)
         PROVE  DumpTypes'
    <3>1. UNCHANGED <<drives, sessions, samples, positions, battery>>
          /\ IsRow("geofences", row) /\ "geofences" \in Tables
      BY <2>11, TableNames DEF PlainRow, made
    <3> QED
      BY <2>2, <2>6, <3>1
  <2>12. ASSUME NEW row \in ChargeRows, ChargeRow(row)
         PROVE  DumpTypes'
    <3>1. /\ IsRow("charges", row) /\ samples' = Insert(samples, row.id, 0)
          /\ UNCHANGED <<drives, sessions, positions, battery>> /\ "charges" \in Tables
      BY <2>12, TableNames DEF ChargeRow
    <3>2. \A id \in DOMAIN samples' : samples'[id] \in Vehicles \cup {0}
      BY <2>2, <3>1 DEF Insert
    <3> QED
      BY <2>2, <2>6, <3>1, <3>2
  <2>13. ASSUME NEW row \in ProcessRows, ProcessRow(row)
         PROVE  DumpTypes'
    <3>1. /\ IsRow("charging_processes", row)
          /\ sessions' = Insert(sessions, row.id,
                [vehicle |-> row.car_id, at |-> 0, place |-> AddressOf(row.address_id)])
          /\ UNCHANGED <<drives, samples, positions, battery>> /\ "charging_processes" \in Tables
      BY <2>13, TableNames DEF ProcessRow
    <3>2. [vehicle |-> row.car_id, at |-> 0, place |-> AddressOf(row.address_id)] \in MadeSessions
      <4>1. row.car_id \in Vehicles
        BY DumpAssumption
      <4>2. AddressOf(row.address_id) \in PlaceNames
        BY <1>2, PlaceTypes
      <4> QED
        BY <4>1, <4>2 DEF MadeSessions
    <3>3. \A id \in DOMAIN sessions' : sessions'[id] \in MadeSessions
      BY <2>2, <3>1, <3>2 DEF Insert
    <3> QED
      BY <2>2, <2>6, <3>1, <3>3
  <2>14. ASSUME NEW row \in DriveRows, DriveRow(row)
         PROVE  DumpTypes'
    <3>1. /\ IsRow("drives", row)
          /\ drives' = Insert(drives, row.id,
                [vehicle |-> row.car_id, at |-> 0, until |-> 0,
                 place |-> AddressOf(row.start_address_id)])
          /\ UNCHANGED <<sessions, samples, positions, battery>> /\ "drives" \in Tables
      BY <2>14, TableNames DEF DriveRow
    <3>2. [vehicle |-> row.car_id, at |-> 0, until |-> 0,
           place |-> AddressOf(row.start_address_id)] \in MadeDrives
      <4>1. row.car_id \in Vehicles
        BY DumpAssumption
      <4>2. AddressOf(row.start_address_id) \in PlaceNames
        BY <1>2, PlaceTypes
      <4> QED
        BY <4>1, <4>2 DEF MadeDrives
    <3>3. \A id \in DOMAIN drives' : drives'[id] \in MadeDrives
      BY <2>2, <3>1, <3>2 DEF Insert
    <3> QED
      BY <2>2, <2>6, <3>1, <3>3
  <2>15. ASSUME NEW row \in PositionRows, PositionRow(row)
         PROVE  DumpTypes'
    <3>1. row.id \in PositionIds /\ row.car_id \in Vehicles /\ row.date \in Minutes
      BY DumpAssumption
    <3>2. IsRow("positions", row) /\ samples' = samples /\ "positions" \in Tables
      BY <2>15, TableNames DEF PositionRow
    <3>3. \A id \in DOMAIN drives' : drives'[id] \in MadeDrives
      <4>1. drives' = [id \in DOMAIN drives |->
                [drives[id] EXCEPT
                    !.at = IF id \in Waiting(row.id, "drive-start") THEN row.id ELSE @,
                    !.until = IF id \in Waiting(row.id, "drive-end") THEN row.id ELSE @]]
        BY <2>15 DEF PositionRow
      <4>2. ASSUME NEW d \in MadeDrives, NEW begun, NEW ended
            PROVE  [d EXCEPT !.at = IF begun THEN row.id ELSE @,
                             !.until = IF ended THEN row.id ELSE @] \in MadeDrives
        BY <3>1 DEF MadeDrives
      <4> QED
        BY <2>2, <4>1, <4>2
    <3>4. \A id \in DOMAIN sessions' : sessions'[id] \in MadeSessions
      <4>1. sessions' = [id \in DOMAIN sessions |->
                [sessions[id] EXCEPT !.at = IF id \in Waiting(row.id, "charging") THEN row.id ELSE @]]
        BY <2>15 DEF PositionRow
      <4>2. ASSUME NEW s \in MadeSessions, NEW begun
            PROVE  [s EXCEPT !.at = IF begun THEN row.id ELSE @] \in MadeSessions
        BY <3>1 DEF MadeSessions
      <4> QED
        BY <2>2, <4>1, <4>2
    <3>5. positions' \subseteq PositionIds
      BY <2>2, <2>15, <3>1 DEF PositionRow
    <3>6. battery' \subseteq Vehicles \X Minutes
      <4>1. battery' = battery \/ battery' = battery \cup {<<row.car_id, row.date>>}
        BY <2>15 DEF PositionRow
      <4> QED
        BY <2>2, <3>1, <4>1
    <3> QED
      BY <2>2, <2>6, <3>2, <3>3, <3>4, <3>5, <3>6
  <2>16. CASE EndOfFile
    <3>1. UNCHANGED <<section, last, seen, dump>>
      BY <2>16 DEF EndOfFile
    <3>2. CASE stage' = "refused" /\ UNCHANGED made
      BY <2>1, <2>5, <3>1, <3>2
    <3>3. CASE stage' = "converted" /\ Finalize
      <4>1. \A id \in DOMAIN drives' : drives'[id] \in MadeDrives
        <5>1. drives' = [id \in DOMAIN drives |->
                [drives[id] EXCEPT !.place = Named(RowOf("drives", id).start_geofence_id, @)]]
          BY <3>3 DEF Finalize
        <5>2. ASSUME NEW d \in MadeDrives, NEW g
              PROVE  [d EXCEPT !.place = Named(g, @)] \in MadeDrives
          <6>1. Named(g, d.place) \in PlaceNames
            BY <1>2, PlaceTypes DEF MadeDrives
          <6> QED
            BY <6>1 DEF MadeDrives
        <5> QED
          BY <2>2, <5>1, <5>2
      <4>2. \A id \in DOMAIN sessions' : sessions'[id] \in MadeSessions
        <5>1. sessions' = [id \in DOMAIN sessions |->
                [sessions[id] EXCEPT
                    !.place = Named(RowOf("charging_processes", id).geofence_id, @)]]
          BY <3>3 DEF Finalize
        <5>2. ASSUME NEW s \in MadeSessions, NEW g
              PROVE  [s EXCEPT !.place = Named(g, @)] \in MadeSessions
          <6>1. Named(g, s.place) \in PlaceNames
            BY <1>2, PlaceTypes DEF MadeSessions
          <6> QED
            BY <6>1 DEF MadeSessions
        <5> QED
          BY <2>2, <5>1, <5>2
      <4>3. \A id \in DOMAIN samples' : samples'[id] \in Vehicles \cup {0}
        <5>1. samples' = [id \in DOMAIN samples |->
                LET process == RowOf("charges", id).charging_process_id
                IN IF process \in DOMAIN sessions THEN sessions[process].vehicle ELSE 0]
          BY <3>3 DEF Finalize
        <5>2. \A process \in DOMAIN sessions : sessions[process].vehicle \in Vehicles
          BY <2>2 DEF MadeSessions
        <5> QED
          BY <5>1, <5>2
      <4>4. UNCHANGED <<positions, battery>>
        BY <3>3 DEF Finalize
      <4> QED
        BY <2>1, <2>2, <2>3, <2>4, <3>1, <3>3, <4>1, <4>2, <4>3, <4>4
    <3> QED
      BY <2>16, <3>2, <3>3 DEF EndOfFile
  <2>17. CASE CloseDump
    <3>1. /\ stage' = "idle" /\ section' = "none" /\ last' = 0 /\ seen' = {}
          /\ dump' = [t \in Tables |-> {}]
          /\ drives' = <<>> /\ sessions' = <<>> /\ samples' = <<>>
          /\ positions' = {} /\ battery' = {}
      BY <2>17 DEF CloseDump, NoRows
    <3>2. "addresses" \in Tables /\ "geofences" \in Tables /\ 0 \in 0 .. Len(CopyOrder)
      BY TableNames, Order9
    <3> QED
      BY <2>4, <3>1, <3>2
  <2>18. CASE UNCHANGED dumpVars
    BY <2>1, <2>5, <2>18 DEF dumpVars, made
  <2> QED
    BY <1>2, <2>7, <2>8, <2>9, <2>10, <2>11, <2>12, <2>13, <2>14, <2>15, <2>16, <2>17,
       <2>18 DEF DumpNext, Refused
<1> QED
  BY <1>1, <1>2
=============================================================================
