-------------------------- MODULE Replication_proofs --------------------------
(***************************************************************************)
(* Proofs about Replication: the types, that nothing is missed, that no    *)
(* change is stranded, that what retention removed is kept by the receiver *)
(* and that the receiver's copy implements Mirror, for any rows, tables,   *)
(* batch size and numbers of changes and faults.                           *)
(***************************************************************************)
EXTENDS Replication, FiniteSetTheorems, SequenceTheorems, WellFoundedInduction, TLAPS

-----------------------------------------------------------------------------
(* Least and greatest elements, which the library leaves to CHOOSE.        *)

\* A set of naturals that is not empty has a least element (from the well-foundedness of <).
LEMMA LeastNat ==
    ASSUME NEW S \in SUBSET Nat, S # {}
    PROVE  \E m \in S : \A n \in S : m <= n
<1> DEFINE less == OpToRel(<, Nat)
<1>1. IsWellFoundedOn(less, Nat)
  BY NatLessThanWellFounded
<1>2. PICK m \in S : \A n \in S : <<n, m>> \notin less
  <2> HIDE DEF less
  <2> QED BY <1>1, WFMin
<1>3. \A n \in S : ~(n < m)
  BY <1>2 DEF OpToRel
<1>4. m \in Nat /\ \A n \in S : n \in Nat
  BY <1>2
<1>5. \A n \in S : m <= n
  <2> HIDE DEF less
  <2> QED BY <1>3, <1>4
<1>6. QED
  BY <1>4, <1>5

\* What Min returns.
LEMMA MinIsLeast ==
    ASSUME NEW S \in SUBSET Nat, S # {}
    PROVE  Min(S) \in S /\ \A n \in S : Min(S) <= n
BY LeastNat DEF Min

\* What Max returns on a bounded set of naturals.
LEMMA MaxIsGreatest ==
    ASSUME NEW S \in SUBSET Nat, S # {}, NEW b \in Nat, \A n \in S : n <= b
    PROVE  Max(S) \in S /\ \A n \in S : Max(S) >= n
<1> DEFINE D == {d \in Nat : d <= b /\ b - d \in S}
<1>1. D # {}
  <2> PICK n \in S : TRUE
    OBVIOUS
  <2>1. b - (b - n) = n /\ b - n \in Nat /\ b - n <= b
    OBVIOUS
  <2> QED BY <2>1
<1>2. PICK m \in D : \A d \in D : m <= d
  <2>1. D \in SUBSET Nat
    OBVIOUS
  <2> HIDE DEF D
  <2> QED BY <1>1, <2>1, LeastNat
<1>3. ASSUME NEW n \in S PROVE b - m >= n
  <2>1. b - (b - n) = n /\ b - n \in Nat /\ b - n <= b
    OBVIOUS
  <2>2. b - n \in D
    BY <2>1
  <2>3. m <= b - n /\ m \in Nat
    BY <1>2, <2>2
  <2> QED BY <2>1, <2>3
<1>4. QED
  BY <1>2, <1>3 DEF Max

\* A function into the naturals on a finite set has a greatest value.
LEMMA FiniteHasGreatest ==
    ASSUME NEW S, IsFiniteSet(S), S # {}, NEW f \in [S -> Nat]
    PROVE  \E x \in S : \A y \in S : f[x] >= f[y]
<1> DEFINE Bad(T) == T # {} /\ ~ \E x \in T : \A y \in T : f[x] >= f[y]
           Sizes == {n \in Nat : \E T \in SUBSET S : Bad(T) /\ Cardinality(T) = n}
<1>1. SUFFICES ASSUME Bad(S) PROVE FALSE
  OBVIOUS
<1>2. Cardinality(S) \in Nat
  BY FS_CardinalityType
<1>3. Sizes # {}
  BY <1>1, <1>2
<1>4. PICK m \in Sizes : \A n \in Sizes : m <= n
  <2>1. Sizes \in SUBSET Nat
    OBVIOUS
  <2> HIDE DEF Sizes
  <2> QED BY <1>3, <2>1, LeastNat
<1>5. PICK T \in SUBSET S : Bad(T) /\ Cardinality(T) = m
  BY <1>4
<1>6. PICK x \in T : TRUE
  BY <1>5
<1>7. /\ IsFiniteSet(T)
      /\ Cardinality(T \ {x}) = Cardinality(T) - 1 /\ Cardinality(T \ {x}) \in Nat
  BY <1>6, FS_Subset, FS_RemoveElement, FS_CardinalityType
<1>8. ~Bad(T \ {x})
  <2>1. T \ {x} \in SUBSET S
    OBVIOUS
  <2>2. SUFFICES ASSUME Bad(T \ {x}) PROVE FALSE
    OBVIOUS
  <2>3. Cardinality(T \ {x}) \in Sizes
    BY <2>1, <2>2, <1>7
  <2> HIDE DEF Sizes, Bad
  <2>4. m \in Nat
    BY <1>5, <1>7, FS_CardinalityType
  <2> QED BY <2>3, <2>4, <1>4, <1>5, <1>7
<1>9. CASE T \ {x} = {}
  BY <1>5, <1>6, <1>9
<1>10. CASE T \ {x} # {}
  <2>1. PICK z \in T \ {x} : \A y \in T \ {x} : f[z] >= f[y]
    BY <1>8, <1>10
  <2>2. CASE f[z] >= f[x]
    BY <1>5, <2>1, <2>2
  <2>3. CASE f[x] >= f[z]
    <3>1. \A y \in T : f[x] >= f[y]
      BY <1>6, <2>1, <2>3
    <3> QED BY <1>5, <1>6, <3>1
  <2>4. f[z] \in Nat /\ f[x] \in Nat
    BY <1>6, <2>1
  <2> QED BY <2>2, <2>3, <2>4
<1> QED BY <1>9, <1>10

\* No table comes after LastTable: a bootstrap that has copied it has copied all.
LEMMA LastTableIsLast ==
    /\ LastTable \in Nat \ {0}
    /\ \A r \in Rows : TableOf[r] \in Nat \ {0} /\ TableOf[r] <= LastTable
<1> USE ReplicationAssumption
<1> DEFINE S == {TableOf[r] : r \in Rows}
<1>1. TableOf \in [Rows -> Nat]
  OBVIOUS
<1>2. PICK x \in Rows : \A y \in Rows : TableOf[x] >= TableOf[y]
  BY <1>1, FiniteHasGreatest
<1>3. S \in SUBSET Nat /\ S # {} /\ TableOf[x] \in Nat /\ \A n \in S : n <= TableOf[x]
  BY <1>2
<1>4. Max(S) \in S /\ \A n \in S : Max(S) >= n
  <2> HIDE DEF S
  <2> QED BY <1>3, MaxIsGreatest
<1>5. QED
  BY <1>4 DEF LastTable

-----------------------------------------------------------------------------
(* The outbox, entry by entry.                                             *)

\* The states of an entry.
OutboxStates == {"pending", "syncing", "synced", "cleaned"}

\* What markBatch does to an outbox, entry by entry.
LEMMA MarkedEntries ==
    ASSUME outbox \in Seq(Entries), NEW B, NEW s \in OutboxStates
    PROVE  /\ Marked(B, s) \in Seq(Entries)
           /\ Len(Marked(B, s)) = Len(outbox)
           /\ DOMAIN Marked(B, s) = DOMAIN outbox
           /\ \A q \in DOMAIN outbox :
                /\ Marked(B, s)[q].row = outbox[q].row
                /\ Marked(B, s)[q].op = outbox[q].op
                /\ Marked(B, s)[q].state =
                     IF q \in B /\ outbox[q].state # "cleaned" THEN s ELSE outbox[q].state
<1> DEFINE n == Len(outbox)
           M == Marked(B, s)
<1>1. n \in Nat /\ DOMAIN outbox = 1 .. n /\ \A q \in 1 .. n : outbox[q] \in Entries
  BY LenProperties, ElementOfSeq
<1>2. \A q \in 1 .. n :
        M[q] = IF q \in B /\ outbox[q].state # "cleaned"
               THEN [outbox[q] EXCEPT !.state = s] ELSE outbox[q]
  BY <1>1 DEF Marked
<1>3. \A e \in Entries : /\ [e EXCEPT !.state = s] \in Entries
                         /\ [e EXCEPT !.state = s].row = e.row
                         /\ [e EXCEPT !.state = s].op = e.op
                         /\ [e EXCEPT !.state = s].state = s
  BY DEF Entries, OutboxStates
<1>4. \A q \in 1 .. n : M[q] \in Entries
  <2> HIDE DEF M, n
  <2> QED BY <1>1, <1>2, <1>3
<1>5. M = [q \in 1 .. n |-> M[q]]
  BY <1>1 DEF Marked
<1>6. M \in [1 .. n -> Entries] /\ DOMAIN M = 1 .. n
  <2> HIDE DEF M, n
  <2> QED BY <1>4, <1>5
<1>7. M \in Seq(Entries) /\ Len(M) = n
  <2> HIDE DEF M, n
  <2>1. M \in Seq(Entries)
    BY <1>1, <1>6, SeqDef
  <2> QED BY <1>1, <1>6, <2>1, LenProperties
<1>8. ASSUME NEW q \in DOMAIN outbox
      PROVE  /\ M[q].row = outbox[q].row
             /\ M[q].op = outbox[q].op
             /\ M[q].state =
                  IF q \in B /\ outbox[q].state # "cleaned" THEN s ELSE outbox[q].state
  <2> HIDE DEF M, n
  <2>1. q \in 1 .. n /\ outbox[q] \in Entries
    BY <1>1
  <2>2. CASE q \in B /\ outbox[q].state # "cleaned"
    BY <1>2, <1>3, <2>1, <2>2
  <2>3. CASE ~(q \in B /\ outbox[q].state # "cleaned")
    BY <1>2, <2>1, <2>3
  <2> QED BY <2>2, <2>3
<1>9. QED
  BY <1>1, <1>6, <1>7, <1>8

\* The trigger's new entry, and the entries before it.
LEMMA AppendedEntries ==
    ASSUME outbox \in Seq(Entries), NEW e \in Entries
    PROVE  /\ Append(outbox, e) \in Seq(Entries)
           /\ Len(Append(outbox, e)) = Len(outbox) + 1
           /\ DOMAIN Append(outbox, e) = DOMAIN outbox \cup {Len(outbox) + 1}
           /\ Len(outbox) + 1 \notin DOMAIN outbox
           /\ \A q \in DOMAIN outbox : Append(outbox, e)[q] = outbox[q]
           /\ Append(outbox, e)[Len(outbox) + 1] = e
<1>1. Len(outbox) \in Nat /\ DOMAIN outbox = 1 .. Len(outbox)
  BY LenProperties
<1>2. /\ Append(outbox, e) \in Seq(Entries)
      /\ Len(Append(outbox, e)) = Len(outbox) + 1
      /\ \A i \in 1 .. Len(outbox) : Append(outbox, e)[i] = outbox[i]
      /\ Append(outbox, e)[Len(outbox) + 1] = e
  BY AppendProperties
<1>3. DOMAIN Append(outbox, e) = 1 .. (Len(outbox) + 1)
  BY <1>2, LenProperties
<1> QED BY <1>1, <1>2, <1>3

\* The outbox covers the high-water mark and the batch.
Within ==
    /\ highWater <= Len(outbox)
    /\ batch \subseteq DOMAIN outbox

\* The sequences of the outbox, and what an entry is.
LEMMA OutboxDomain ==
    ASSUME TypeOK
    PROVE  /\ Len(outbox) \in Nat /\ DOMAIN outbox = 1 .. Len(outbox)
           /\ Len(outbox) <= MaxChanges
           /\ DOMAIN outbox \subseteq Sequences
           /\ \A q \in DOMAIN outbox :
                /\ outbox[q].row \in Rows
                /\ outbox[q].op \in {"upsert", "delete"}
                /\ outbox[q].state \in OutboxStates
<1>1. outbox \in Seq(Entries) /\ Len(outbox) <= MaxChanges /\ MaxChanges \in Nat
  BY ReplicationAssumption DEF TypeOK
<1>2. Len(outbox) \in Nat /\ DOMAIN outbox = 1 .. Len(outbox)
  BY <1>1, LenProperties
<1>3. \A q \in 1 .. Len(outbox) : outbox[q] \in Entries
  BY <1>1, ElementOfSeq
<1>4. 1 .. Len(outbox) \subseteq Sequences
  BY <1>1, <1>2 DEF Sequences
<1> QED BY <1>1, <1>2, <1>3, <1>4 DEF Entries, OutboxStates

\* One kind of step: a write of the log.
LEMMA WriteStep ==
    ASSUME TypeOK, Write
    PROVE  \E r \in Rows, op \in {"upsert", "delete"} :
             /\ outbox' = Append(outbox, Change(r, op))
             /\ rows' = [rows EXCEPT ![r] = rows'[r]]
             /\ rows'[r] \in rows[r] + 1 .. Gone
             /\ op = "delete" => rows'[r] = Gone
             /\ rows[r] = 0 \/ Present(r)
<1> USE ReplicationAssumption
<1>1. PICK r \in Rows : Insert(r) \/ Update(r) \/ Delete(r)
  BY DEF Write
<1>2. rows \in [Rows -> 0 .. Gone] /\ rows[r] \in 0 .. Gone /\ Gone = LastVersion + 1
      /\ Gone \in Nat
  BY <1>1 DEF TypeOK, Versions, Gone
<1>3. CASE Insert(r)
  <2>1. rows' = [rows EXCEPT ![r] = 1] /\ rows'[r] = 1 /\ rows[r] = 0
    BY <1>2, <1>3 DEF Insert
  <2>2. rows' = [rows EXCEPT ![r] = rows'[r]] /\ rows'[r] \in rows[r] + 1 .. Gone
    BY <2>1, <1>2
  <2> QED BY <2>1, <2>2, <1>3 DEF Insert
<1>4. CASE Update(r)
  <2>1. rows' = [rows EXCEPT ![r] = rows[r] + 1] /\ rows'[r] = rows[r] + 1
        /\ rows[r] < LastVersion /\ Present(r)
    BY <1>2, <1>4 DEF Update
  <2>2. rows' = [rows EXCEPT ![r] = rows'[r]] /\ rows'[r] \in rows[r] + 1 .. Gone
    BY <2>1, <1>2
  <2> QED BY <2>1, <2>2, <1>4 DEF Update
<1>5. CASE Delete(r)
  <2>1. rows' = [rows EXCEPT ![r] = Gone] /\ rows'[r] = Gone /\ Present(r)
    BY <1>2, <1>5 DEF Delete
  <2>2. rows[r] \in 1 .. LastVersion
    BY <2>1 DEF Present
  <2>3. rows' = [rows EXCEPT ![r] = rows'[r]] /\ rows'[r] \in rows[r] + 1 .. Gone
    BY <2>1, <2>2, <1>2
  <2> QED BY <2>1, <2>3, <1>5 DEF Delete
<1> QED BY <1>1, <1>3, <1>4, <1>5

\* A batch is made of pending changes.
LEMMA PendingInOutbox == PendingBatch \subseteq InState("pending")
BY DEF PendingBatch

-----------------------------------------------------------------------------
(* Types.                                                                  *)

\* TypeOK needs the batch to stay in the outbox: the next statement is looked up there.
TypeInv == TypeOK /\ Within

\* The first state is well typed.
LEMMA TypeInit == Init => TypeInv
<1> SUFFICES ASSUME Init PROVE TypeInv
  OBVIOUS
<1> USE ReplicationAssumption
<1>1. outbox \in Seq(Entries) /\ Len(outbox) = 0
  BY EmptySeq DEF Init
<1>2. 0 \in Versions /\ 0 \in 0 .. LastTable
  BY LastTableIsLast DEF Versions, Gone
<1>3. rows \in [Rows -> Versions] /\ recv \in [Dests -> [Rows -> Versions]]
  BY <1>2 DEF Init
<1>4. /\ outbox \in Seq(Entries) /\ Len(outbox) <= MaxChanges
      /\ highWater \in 0 .. MaxChanges /\ faults \in 0 .. MaxFaults
      /\ configures \in 0 .. MaxConfigures /\ table \in 0 .. LastTable
  <2>1. highWater = 0 /\ faults = 0 /\ configures = 0 /\ table = 0
    BY DEF Init
  <2> QED BY <1>1, <1>2, <2>1
<1>5. /\ pruned \subseteq Rows /\ confirmed \in BOOLEAN /\ dest \in Dests
      /\ marker \subseteq Dests /\ pc \in Labels /\ copies \subseteq Statements
      /\ batch \subseteq Sequences /\ unsent \subseteq batch /\ leftover \subseteq Sequences
      /\ statement \in Statements \cup {NoStatement}
  BY DEF Init, Labels
<1>6. TypeOK
  BY <1>3, <1>4, <1>5 DEF TypeOK
<1> QED BY <1>1, <1>6 DEF Init, TypeInv, Within

\* The shapes a step may give the outbox: no entry is lost.
OutboxKept ==
    /\ outbox' \in Seq(Entries) /\ Len(outbox') \in Nat
    /\ Len(outbox) <= Len(outbox') /\ Len(outbox') <= MaxChanges
    /\ DOMAIN outbox \subseteq DOMAIN outbox'
    /\ \A q \in DOMAIN outbox :
         outbox'[q].row = outbox[q].row /\ outbox'[q].op = outbox[q].op

\* Marking loses no entry.
LEMMA MarkKeeps ==
    ASSUME TypeOK, NEW B, NEW s \in OutboxStates, outbox' = Marked(B, s)
    PROVE  OutboxKept /\ DOMAIN outbox' = DOMAIN outbox
BY MarkedEntries, OutboxDomain DEF TypeOK, OutboxKept

\* No step loses an entry of the outbox or changes what it is about; only a write adds one.
LEMMA StepKeepsOutbox ==
    ASSUME TypeOK, [Next]_vars
    PROVE  OutboxKept /\ (Write \/ DOMAIN outbox' = DOMAIN outbox)
<1> USE DEF OutboxStates
<1>1. CASE Write
  <2>1. PICK r \in Rows, op \in {"upsert", "delete"} : outbox' = Append(outbox, Change(r, op))
    BY <1>1, WriteStep
  <2>2. Change(r, op) \in Entries
    BY DEF Change, Entries
  <2>3. Len(outbox) < MaxChanges /\ MaxChanges \in Nat /\ Len(outbox) \in Nat
    BY <1>1, OutboxDomain, ReplicationAssumption DEF Write
  <2>4. outbox \in Seq(Entries)
    BY DEF TypeOK
  <2>5. /\ outbox' \in Seq(Entries) /\ Len(outbox') = Len(outbox) + 1
        /\ DOMAIN outbox' = DOMAIN outbox \cup {Len(outbox) + 1}
        /\ \A q \in DOMAIN outbox : outbox'[q] = outbox[q]
    BY <2>1, <2>2, <2>4, AppendedEntries
  <2>6. OutboxKept
    BY <2>3, <2>5 DEF OutboxKept
  <2> QED BY <1>1, <2>6
<1>2. CASE outbox' = outbox
  BY <1>2, OutboxDomain DEF OutboxKept, TypeOK
<1>4. CASE Work
  <2>1. CASE Acknowledge
    BY <2>1, MarkKeeps DEF Acknowledge
  <2>2. CASE TakeBatch
    <3>1. outbox' = outbox \/ outbox' = Marked(PendingBatch, "syncing")
      BY <2>2 DEF TakeBatch
    <3> QED BY <3>1, <1>2, MarkKeeps
  <2>3. CASE ConfirmBatch
    BY <2>3, MarkKeeps DEF ConfirmBatch
  <2>4. CASE Retain
    <3>1. PICK n \in 0 .. Len(outbox) :
            outbox' = Marked(1 .. n \cap InState("synced"), "cleaned")
      BY <2>4 DEF Retain
    <3> QED BY <3>1, MarkKeeps
  <2>5. CASE BeginPass \/ CopyTable \/ CopyRow \/ Copied \/ WriteMarker \/ Confirm
             \/ MakeStatement \/ Send
    BY <2>5, <1>2 DEF BeginPass, CopyTable, CopyRow, Copied, WriteMarker, Confirm,
                      MakeStatement, Send, local
  <2> QED BY <1>4, <2>1, <2>2, <2>3, <2>4, <2>5 DEF Work
<1>5. CASE PassFails \/ Crash \/ Start \/ (\E d \in Dests : Configure(d)) \/ ReturnLeftover
  <2>1. CASE PassFails
    <3>1. outbox' = outbox \/ outbox' = Marked(batch, "pending")
      BY <2>1 DEF PassFails
    <3> QED BY <3>1, <1>2, MarkKeeps
  <2>2. CASE Crash
    BY <2>2, <1>2 DEF Crash, local
  <2>3. CASE Start
    BY <2>3, MarkKeeps DEF Start
  <2>4. CASE \E d \in Dests : Configure(d)
    BY <2>4, MarkKeeps DEF Configure
  <2>5. CASE ReturnLeftover
    BY <2>5, MarkKeeps DEF ReturnLeftover
  <2> QED BY <1>5, <2>1, <2>2, <2>3, <2>4, <2>5
<1>6. CASE UNCHANGED vars
  BY <1>6, <1>2 DEF vars, local
<1> QED BY <1>1, <1>4, <1>5, <1>6 DEF Next

\* The high-water mark is a sequence of the outbox, or 0.
LEMMA HighWaterInOutbox ==
    ASSUME TypeOK
    PROVE  Max({q \in DOMAIN outbox : outbox[q].state # "cleaned"} \cup {0}) \in 0 .. Len(outbox)
<1> DEFINE S == {q \in DOMAIN outbox : outbox[q].state # "cleaned"} \cup {0}
<1>1. S \in SUBSET Nat /\ S # {} /\ (\A n \in S : n <= Len(outbox))
      /\ Len(outbox) \in Nat
  BY OutboxDomain
<1>2. Max(S) \in S
  <2> HIDE DEF S
  <2> QED BY <1>1, MaxIsGreatest
<1> QED BY <1>1, <1>2

\* The next change to be sent is an entry of the outbox.
LEMMA NextInBatch ==
    ASSUME TypeInv, unsent # {}
    PROVE  Min(unsent) \in unsent /\ Min(unsent) \in DOMAIN outbox /\ Min(unsent) \in Nat
           /\ \A q \in unsent : Min(unsent) <= q
<1>1. unsent \in SUBSET Nat /\ unsent \subseteq DOMAIN outbox
  BY OutboxDomain DEF TypeInv, TypeOK, Within
<1> QED BY <1>1, MinIsLeast

\* What a statement does to the receivers.
LEMMA ExecutedTypes ==
    ASSUME TypeOK, NEW s \in Statements, Executed(s)
    PROVE  /\ recv' \in [Dests -> [Rows -> Versions]]
           /\ recv'[dest][s.row] = s.version
           /\ \A r \in Rows \ {s.row} : recv'[dest][r] = recv[dest][r]
           /\ \A d \in Dests \ {dest} : recv'[d] = recv[d]
<1>1. s.row \in Rows /\ s.version \in Versions /\ dest \in Dests
      /\ recv \in [Dests -> [Rows -> Versions]]
  BY DEF Statements, TypeOK
<1> DEFINE now == [recv[dest] EXCEPT ![s.row] = s.version]
<1>2. now \in [Rows -> Versions] /\ now[s.row] = s.version
      /\ \A r \in Rows \ {s.row} : now[r] = recv[dest][r]
  BY <1>1
<1>3. recv' = [recv EXCEPT ![dest] = now]
  BY DEF Executed
<1> QED
  <2> HIDE DEF now
  <2> QED BY <1>1, <1>2, <1>3

\* A table's copies are statements.
LEMMA SnapshotTypes ==
    ASSUME TypeOK, NEW t
    PROVE  Snapshot(t) \subseteq Statements
BY ReplicationAssumption DEF TypeOK, Snapshot, Statements

\* Every step keeps the types.
LEMMA TypeStep ==
    ASSUME TypeInv, [Next]_vars
    PROVE  TypeInv'
<1> USE ReplicationAssumption
<1> USE DEF Labels
<1>1. OutboxKept
  BY StepKeepsOutbox DEF TypeInv
<1>2. TypeOK /\ Within
  BY DEF TypeInv
<1>3. CASE Write
  <2>1. PICK r \in Rows : rows' = [rows EXCEPT ![r] = rows'[r]] /\ rows'[r] \in rows[r] + 1 .. Gone
    BY <1>2, <1>3, WriteStep
  <2>2. rows \in [Rows -> Versions] /\ rows[r] \in Nat /\ Gone \in Nat
    BY <1>2 DEF TypeOK, Versions, Gone
  <2>3. rows'[r] \in Versions
    BY <2>1, <2>2 DEF Versions
  <2>4. rows' \in [Rows -> Versions]
    BY <2>1, <2>2, <2>3
  <2>5. TypeOK'
    BY <2>4, <1>1, <1>2, <1>3 DEF Write, TypeOK, OutboxKept, remote, worker, counters
  <2>6. Within'
    BY <1>1, <1>2, <1>3 DEF Write, TypeOK, Within, OutboxKept, remote, worker, counters
  <2> QED BY <2>5, <2>6 DEF TypeInv
<1>4. CASE BeginPass
  <2>1. highWater' \in 0 .. Len(outbox) /\ Len(outbox) \in Nat /\ Len(outbox) <= MaxChanges
    BY <1>2, <1>4, HighWaterInOutbox, OutboxDomain DEF BeginPass, TypeOK, Within
  <2>2. table' \in 0 .. LastTable
    BY <1>2, <1>4, LastTableIsLast DEF BeginPass, TypeOK
  <2> QED BY <1>1, <1>2, <1>4, <2>1, <2>2
          DEF BeginPass, TypeInv, TypeOK, Within, OutboxKept, local, remote, counters
<1>5. CASE CopyTable
  <2>1. table' \in 0 .. LastTable
    BY <1>2, <1>5, LastTableIsLast DEF CopyTable, TypeOK
  <2>2. copies' \subseteq Statements
    BY <1>2, <1>5, SnapshotTypes DEF CopyTable
  <2> QED BY <1>1, <1>2, <1>5, <2>1, <2>2
          DEF CopyTable, TypeInv, TypeOK, Within, OutboxKept, local, remote, counters
<1>6. CASE CopyRow
  <2>1. PICK s \in copies : Executed(s) /\ copies' = copies \ {s}
    BY <1>6 DEF CopyRow
  <2>2. recv' \in [Dests -> [Rows -> Versions]]
    BY <2>1, <1>2, ExecutedTypes DEF TypeOK
  <2> QED BY <1>1, <1>2, <1>6, <2>1, <2>2
          DEF CopyRow, TypeInv, TypeOK, Within, OutboxKept, local, counters
<1>7. CASE Copied
  BY <1>1, <1>2, <1>7 DEF Copied, TypeInv, TypeOK, Within, OutboxKept, local, remote, counters
<1>8. CASE WriteMarker
  BY <1>1, <1>2, <1>8 DEF WriteMarker, TypeInv, TypeOK, Within, OutboxKept, local, counters
<1>9. CASE Acknowledge
  BY <1>1, <1>2, <1>9 DEF Acknowledge, TypeInv, TypeOK, Within, OutboxKept, remote, counters
<1>10. CASE Confirm
  BY <1>1, <1>2, <1>10 DEF Confirm, TypeInv, TypeOK, Within, OutboxKept, remote, counters
<1>11. CASE TakeBatch
  <2>1. PendingBatch \subseteq DOMAIN outbox /\ DOMAIN outbox \subseteq Sequences
    BY <1>2, PendingInOutbox, OutboxDomain DEF InState
  <2>2. batch' \subseteq DOMAIN outbox /\ batch' \subseteq Sequences /\ unsent' \subseteq batch'
    BY <1>2, <1>11, <2>1 DEF TakeBatch, TypeOK, Within
  <2> QED BY <1>1, <1>2, <1>11, <2>2
          DEF TakeBatch, TypeInv, TypeOK, Within, OutboxKept, remote, counters
<1>12. CASE MakeStatement
  <2> DEFINE c == outbox[Min(unsent)]
  <2>1. c.row \in Rows
    BY <1>2, <1>12, NextInBatch, OutboxDomain DEF MakeStatement, TypeInv
  <2>2. rows[c.row] \in Versions /\ Gone \in Versions
    <3>1. Gone \in Nat /\ rows \in [Rows -> Versions]
      BY <1>2 DEF TypeOK, Gone
    <3>2. Gone \in Versions
      BY <3>1 DEF Versions
    <3> HIDE DEF c
    <3> QED BY <3>1, <3>2, <2>1
  <2>3. statement' \in Statements
    BY <1>12, <2>1, <2>2 DEF MakeStatement, Statements
  <2> QED BY <1>1, <1>2, <1>12, <2>3
          DEF MakeStatement, TypeInv, TypeOK, Within, OutboxKept, local, remote, counters
<1>13. CASE Send
  <2>1. statement \in Statements /\ Executed(statement)
    BY <1>2, <1>13 DEF Send, TypeOK
  <2>2. recv' \in [Dests -> [Rows -> Versions]]
    BY <2>1, <1>2, ExecutedTypes
  <2>3. unsent' \subseteq batch
    BY <1>2, <1>13 DEF Send, TypeOK
  <2> QED BY <1>1, <1>2, <1>13, <2>2, <2>3
          DEF Send, TypeInv, TypeOK, Within, OutboxKept, local, counters
<1>14. CASE ConfirmBatch
  BY <1>1, <1>2, <1>14 DEF ConfirmBatch, TypeInv, TypeOK, Within, OutboxKept, remote, counters
<1>15. CASE Retain
  <2>1. pruned' \subseteq Rows
    BY <1>2, <1>15 DEF Retain, Prunable, TypeOK
  <2> QED BY <1>1, <1>2, <1>15, <2>1, LastTableIsLast
          DEF Retain, PassOver, TypeInv, TypeOK, Within, OutboxKept, remote, counters
<1>16. CASE PassFails
  BY <1>1, <1>2, <1>16, LastTableIsLast
     DEF PassFails, PassOver, TypeInv, TypeOK, Within, OutboxKept, remote, counters
<1>17. CASE Crash
  BY <1>1, <1>2, <1>17, LastTableIsLast
     DEF Crash, TypeInv, TypeOK, Within, OutboxKept, local, remote, counters
<1>18. CASE Start
  BY <1>1, <1>2, <1>18 DEF Start, TypeInv, TypeOK, Within, OutboxKept, remote, counters
<1>19. ASSUME NEW d \in Dests, Configure(d) PROVE TypeInv'
  BY <1>1, <1>2, <1>19, LastTableIsLast
     DEF Configure, PassOver, TypeInv, TypeOK, Within, OutboxKept, remote, counters
<1>20. CASE ReturnLeftover
  BY <1>1, <1>2, <1>20
     DEF ReturnLeftover, TypeInv, TypeOK, Within, OutboxKept, remote, worker, counters
<1>21. CASE UNCHANGED vars
  BY <1>2, <1>21
     DEF vars, TypeInv, TypeOK, Within, local, remote, worker, counters
<1> QED BY <1>3, <1>4, <1>5, <1>6, <1>7, <1>8, <1>9, <1>10, <1>11, <1>12, <1>13, <1>14, <1>15,
           <1>16, <1>17, <1>18, <1>19, <1>20, <1>21 DEF Next, Work

\* The typed states, with the batch and the high-water mark inside the outbox,
\* are never left.
THEOREM TypesHold == Spec => []TypeInv
<1>1. Init => TypeInv
  BY TypeInit
<1>2. TypeInv /\ [Next]_vars => TypeInv'
  BY TypeStep
<1> QED BY <1>1, <1>2, PTL DEF Spec

\* TypeOK, for every value of the constants.
THEOREM TypeCorrect == Spec => []TypeOK
<1>1. TypeInv => TypeOK
  BY DEF TypeInv
<1> QED BY <1>1, TypesHold, PTL

-----------------------------------------------------------------------------
(* The worker's labels.                                                    *)

\* A change is about a row that was written; a delete is about one that is gone.
OutboxHonest ==
    \A q \in DOMAIN outbox :
        /\ rows[outbox[q].row] # 0
        /\ outbox[q].op = "delete" => rows[outbox[q].row] = Gone

\* What each label of the worker says about its variables: a batch only while
\* syncing, copies only while copying, the marker before the first batch.
Phases ==
    /\ pc # "syncing" => batch = {}
    /\ pc # "copying" => copies = {}
    /\ pc \in {"marking", "acking"} => table = LastTable
    /\ pc \in {"copying", "marking"} => dest \notin marker
    /\ pc \in {"acking", "confirming", "syncing", "retaining"} => dest \in marker
    /\ unsent = {} => statement = NoStatement
    /\ statement # NoStatement => statement.row = outbox[Min(unsent)].row

\* What the proofs below start from.
PhasesInv == TypeInv /\ OutboxHonest /\ Phases

\* Only the log writes rows.
LEMMA OnlyWriteWrites ==
    ASSUME [Next]_vars, ~Write
    PROVE  rows' = rows
BY DEF Next, Work, vars, local, BeginPass, CopyTable, CopyRow, Copied, WriteMarker, Acknowledge,
       Confirm, TakeBatch, MakeStatement, Send, ConfirmBatch, Retain, PassFails, Crash, Start,
       Configure, ReturnLeftover

\* A write of the log touches the rows and the outbox only.
LEMMA WriteLeavesAlone ==
    ASSUME Write
    PROVE  UNCHANGED <<pruned, confirmed, dest, recv, marker, pc, highWater, table, copies,
                       batch, unsent, statement, leftover, faults, configures>>
BY DEF Write, remote, worker, counters

\* Rows only move forward, so a change stays true of its row.
LEMMA HonestStep ==
    ASSUME PhasesInv, [Next]_vars
    PROVE  OutboxHonest'
<1>1. TypeOK /\ OutboxKept /\ (Write \/ DOMAIN outbox' = DOMAIN outbox)
  BY StepKeepsOutbox DEF PhasesInv, TypeInv
<1>2. CASE ~Write
  <2>1. rows' = rows
    BY <1>2, OnlyWriteWrites
  <2> QED BY <1>1, <1>2, <2>1 DEF PhasesInv, OutboxHonest, OutboxKept
<1>3. CASE Write
  <2>1. PICK r \in Rows, op \in {"upsert", "delete"} :
          /\ outbox' = Append(outbox, Change(r, op))
          /\ rows' = [rows EXCEPT ![r] = rows'[r]]
          /\ rows'[r] \in rows[r] + 1 .. Gone
          /\ op = "delete" => rows'[r] = Gone
    BY <1>1, <1>3, WriteStep
  <2>2. Change(r, op) \in Entries /\ Change(r, op).row = r /\ Change(r, op).op = op
    BY DEF Change, Entries
  <2> DEFINE n == Len(outbox) + 1
  <2>3. /\ DOMAIN outbox' = DOMAIN outbox \cup {n}
        /\ outbox'[n].row = r /\ outbox'[n].op = op
    BY <1>1, <2>1, <2>2, AppendedEntries DEF TypeOK
  <2>4. rows[r] \in 0 .. Gone /\ Gone \in Nat /\ rows \in [Rows -> 0 .. Gone]
    BY <1>1, ReplicationAssumption DEF TypeOK, Versions, Gone
  <2>5. rows'[r] # 0 /\ rows[r] # Gone /\ \A x \in Rows \ {r} : rows'[x] = rows[x]
    BY <2>1, <2>4
  <2>6. ASSUME NEW q \in DOMAIN outbox
        PROVE  /\ rows'[outbox'[q].row] # 0
               /\ outbox'[q].op = "delete" => rows'[outbox'[q].row] = Gone
    <3>1. outbox'[q].row = outbox[q].row /\ outbox'[q].op = outbox[q].op /\ outbox[q].row \in Rows
      BY <1>1, OutboxDomain DEF OutboxKept
    <3> QED BY <2>5, <3>1 DEF PhasesInv, OutboxHonest
  <2>7. rows'[outbox'[n].row] # 0 /\ (outbox'[n].op = "delete" => rows'[outbox'[n].row] = Gone)
    BY <2>1, <2>3, <2>5
  <2>8. ASSUME NEW q \in DOMAIN outbox'
        PROVE  /\ rows'[outbox'[q].row] # 0
               /\ outbox'[q].op = "delete" => rows'[outbox'[q].row] = Gone
    <3> HIDE DEF n
    <3> QED BY <2>3, <2>6, <2>7
  <2> QED BY <2>8 DEF OutboxHonest, Gone
<1> QED BY <1>2, <1>3

\* Every step keeps what the labels say.
LEMMA PhasesStep ==
    ASSUME PhasesInv, [Next]_vars
    PROVE  Phases'
<1> USE DEF Phases
<1>1. TypeOK /\ TypeInv /\ OutboxKept /\ Phases /\ unsent \subseteq batch
  BY StepKeepsOutbox DEF PhasesInv, TypeInv, TypeOK
<1>2. unsent # {} => outbox'[Min(unsent)].row = outbox[Min(unsent)].row
  BY <1>1, NextInBatch DEF OutboxKept
<1>3. CASE Write
  BY <1>1, <1>2, <1>3, WriteLeavesAlone
<1>4. CASE BeginPass
  BY <1>1, <1>2, <1>4 DEF BeginPass, local, remote
<1>5. CASE CopyTable
  BY <1>1, <1>2, <1>5 DEF CopyTable, local, remote
<1>6. CASE CopyRow
  BY <1>1, <1>2, <1>6 DEF CopyRow, local
<1>7. CASE Copied
  BY <1>1, <1>2, <1>7 DEF Copied, local, remote
<1>8. CASE WriteMarker
  BY <1>1, <1>2, <1>8 DEF WriteMarker, local
<1>9. CASE Acknowledge
  BY <1>1, <1>2, <1>9 DEF Acknowledge, remote
<1>10. CASE Confirm
  BY <1>1, <1>2, <1>10 DEF Confirm, remote
<1>11. CASE TakeBatch
  BY <1>1, <1>2, <1>11 DEF TakeBatch, remote
<1>12. CASE MakeStatement
  <2>1. statement'.row = outbox[Min(unsent)].row
    BY <1>12 DEF MakeStatement
  <2> QED BY <1>1, <1>2, <1>12, <2>1 DEF MakeStatement, local, remote
<1>13. CASE Send
  BY <1>1, <1>2, <1>13 DEF Send, local
<1>14. CASE ConfirmBatch
  BY <1>1, <1>2, <1>14 DEF ConfirmBatch, remote
<1>15. CASE Retain
  BY <1>1, <1>2, <1>15 DEF Retain, PassOver, remote
<1>16. CASE PassFails
  BY <1>1, <1>2, <1>16 DEF PassFails, PassOver, remote
<1>17. CASE Crash
  BY <1>1, <1>2, <1>17 DEF Crash, local, remote
<1>18. CASE Start
  BY <1>1, <1>2, <1>18 DEF Start, remote
<1>19. ASSUME NEW d \in Dests, Configure(d) PROVE Phases'
  BY <1>1, <1>2, <1>19 DEF Configure, PassOver, remote
<1>20. CASE ReturnLeftover
  BY <1>1, <1>2, <1>20 DEF ReturnLeftover, worker, remote
<1>21. CASE UNCHANGED vars
  BY <1>1, <1>2, <1>21 DEF vars, local, remote, worker
<1> QED BY <1>3, <1>4, <1>5, <1>6, <1>7, <1>8, <1>9, <1>10, <1>11, <1>12, <1>13, <1>14, <1>15,
           <1>16, <1>17, <1>18, <1>19, <1>20, <1>21 DEF Next, Work

\* The first state.
LEMMA PhasesInit == Init => PhasesInv
<1> SUFFICES ASSUME Init PROVE PhasesInv
  OBVIOUS
<1>1. TypeInv
  BY TypeInit
<1>2. Phases
  BY DEF Init, Phases
<1>3. DOMAIN outbox = {}
  <2>1. outbox = <<>> /\ Len(outbox) = 0
    BY EmptySeq DEF Init
  <2>2. DOMAIN outbox = 1 .. 0
    BY <1>1, <2>1, OutboxDomain DEF TypeInv
  <2> QED BY <2>2
<1> QED BY <1>1, <1>2, <1>3 DEF PhasesInv, OutboxHonest

\* The labels and the outbox are right in every reachable state.
THEOREM PhasesHold == Spec => []PhasesInv
<1>1. Init => PhasesInv
  BY PhasesInit
<1>2. PhasesInv /\ [Next]_vars => PhasesInv'
  BY TypeStep, HonestStep, PhasesStep DEF PhasesInv
<1> QED BY <1>1, <1>2, PTL DEF Spec

-----------------------------------------------------------------------------
(* Nothing is missed.                                                      *)

\* A change of row r that the bootstrap's acknowledgement will not settle.
Later(r) == \E q \in Unsynced : q > highWater /\ outbox[q].row = r

\* The changes of the batch the receiver has already.
Sent == batch \ unsent

\* A change of row r is still to be sent.
Owed(r) == \E q \in Unsynced \ Sent : outbox[q].row = r

\* The receiver lacks row r or has an old version of it.
Stale(r) == Present(r) /\ recv[dest][r] # rows[r]

\* Until the settings page is used there is one receiver.
FirstReceiver ==
    configures = 0 => dest = FirstDest /\ marker \subseteq {FirstDest}

\* If the row was updated after the statement was made, a later change says so.
StatementFresh ==
    statement # NoStatement /\ Present(statement.row)
        /\ statement.version # rows[statement.row]
    => \E q \in Unsynced \ batch : outbox[q].row = statement.row

\* The same of what the bootstrap has read and not sent yet ...
CopiesFresh ==
    \A s \in copies : Present(s.row) /\ s.version # rows[s.row] => Later(s.row)

\* ... and of the tables it has copied.
CopiedFresh ==
    pc \in {"copying", "marking", "acking"} =>
        \A r \in Rows :
            TableOf[r] <= table /\ Stale(r) /\ (\A s \in copies : s.row # r) => Later(r)

\* A row the receiver is behind on is owed.  (A second use of the settings page
\* may go back to a receiver that has missed what another acknowledged.)
StaleOwed ==
    configures <= 1 /\ dest \in marker => \A r \in Rows : Stale(r) => Owed(r)

\* The inductive strengthening of NothingMissed.
FreshInv ==
    /\ FirstReceiver
    /\ StatementFresh
    /\ CopiesFresh /\ CopiedFresh
    /\ StaleOwed

\* Unsynced, entry by entry.
LEMMA UnsyncedEntries ==
    Unsynced = {q \in DOMAIN outbox : outbox[q].state \in {"pending", "syncing"}}
BY DEF Unsynced, InState

\* Marking settles no change outside the marked set, and none at all when it
\* marks them pending or syncing.
LEMMA MarkedUnsynced ==
    ASSUME TypeOK, NEW B, NEW s \in OutboxStates, outbox' = Marked(B, s)
    PROVE  /\ Unsynced \ B \subseteq Unsynced'
           /\ s \in {"pending", "syncing"} => Unsynced \subseteq Unsynced'
<1>1. outbox \in Seq(Entries)
  BY DEF TypeOK
<1>2. /\ DOMAIN outbox' = DOMAIN outbox
      /\ \A q \in DOMAIN outbox : outbox'[q].state =
              IF q \in B /\ outbox[q].state # "cleaned" THEN s ELSE outbox[q].state
  BY <1>1, MarkedEntries
<1>3. Unsynced' = {q \in DOMAIN outbox' : outbox'[q].state \in {"pending", "syncing"}}
  BY DEF Unsynced, InState
<1> QED BY <1>2, <1>3, UnsyncedEntries

\* Only an acknowledgement settles a change.
LEMMA UnsyncedStays ==
    ASSUME TypeOK, [Next]_vars, ~Acknowledge, ~ConfirmBatch
    PROVE  Unsynced \subseteq Unsynced'
<1> USE DEF OutboxStates
<1>1. CASE Write
  <2>1. PICK r \in Rows, op \in {"upsert", "delete"} : outbox' = Append(outbox, Change(r, op))
    BY <1>1, WriteStep
  <2>2. Change(r, op) \in Entries /\ outbox \in Seq(Entries)
    BY DEF Change, Entries, TypeOK
  <2>3. DOMAIN outbox \subseteq DOMAIN outbox' /\ \A q \in DOMAIN outbox : outbox'[q] = outbox[q]
    BY <2>1, <2>2, AppendedEntries
  <2>4. Unsynced' = {q \in DOMAIN outbox' : outbox'[q].state \in {"pending", "syncing"}}
    BY DEF Unsynced, InState
  <2> QED BY <2>3, <2>4, UnsyncedEntries
<1>2. CASE outbox' = outbox
  BY <1>2 DEF Unsynced, InState
<1>3. CASE TakeBatch
  <2>1. outbox' = outbox \/ outbox' = Marked(PendingBatch, "syncing")
    BY <1>3 DEF TakeBatch
  <2> QED BY <2>1, <1>2, MarkedUnsynced
<1>4. CASE Retain
  <2>1. PICK n \in 0 .. Len(outbox) :
          outbox' = Marked(1 .. n \cap InState("synced"), "cleaned")
    BY <1>4 DEF Retain
  <2>2. Unsynced \ (1 .. n \cap InState("synced")) = Unsynced
    BY DEF Unsynced, InState
  <2>3. Unsynced \ (1 .. n \cap InState("synced")) \subseteq Unsynced'
    BY <2>1, MarkedUnsynced
  <2> QED BY <2>2, <2>3
<1>5. CASE PassFails
  <2>1. outbox' = outbox \/ outbox' = Marked(batch, "pending")
    BY <1>5 DEF PassFails
  <2> QED BY <2>1, <1>2, MarkedUnsynced
<1>6. CASE Start
  BY <1>6, MarkedUnsynced DEF Start
<1>7. ASSUME NEW d \in Dests, Configure(d) PROVE Unsynced \subseteq Unsynced'
  BY <1>7, MarkedUnsynced DEF Configure
<1>8. CASE ReturnLeftover
  BY <1>8, MarkedUnsynced DEF ReturnLeftover
<1>9. CASE BeginPass \/ CopyTable \/ CopyRow \/ Copied \/ WriteMarker \/ Confirm
           \/ MakeStatement \/ Send \/ Crash \/ UNCHANGED vars
  BY <1>9, <1>2 DEF BeginPass, CopyTable, CopyRow, Copied, WriteMarker, Confirm,
                    MakeStatement, Send, Crash, vars, local
<1> QED BY <1>1, <1>3, <1>4, <1>5, <1>6, <1>7, <1>8, <1>9 DEF Next, Work

\* A change that is not acknowledged stays about its row.
LEMMA UnsyncedRows ==
    ASSUME TypeOK, [Next]_vars
    PROVE  \A q \in Unsynced : outbox'[q].row = outbox[q].row /\ q \in Nat
<1>1. OutboxKept
  BY StepKeepsOutbox
<1> QED BY <1>1, UnsyncedEntries, OutboxDomain DEF OutboxKept

\* A row a write touches has a change behind every other; the rest is as it was.
LEMMA WriteIsOwed ==
    ASSUME TypeInv, Write, NEW x \in Rows
    PROVE  \/ rows'[x] = rows[x] /\ (Present(x)' <=> Present(x))
           \/ \E q \in Unsynced' : /\ q \notin batch /\ q > highWater
                                   /\ outbox'[q].row = x
<1>1. TypeOK /\ Within
  BY DEF TypeInv
<1>2. PICK r \in Rows, op \in {"upsert", "delete"} :
        /\ outbox' = Append(outbox, Change(r, op))
        /\ rows' = [rows EXCEPT ![r] = rows'[r]]
  BY <1>1, WriteStep
<1>3. Change(r, op) \in Entries /\ Change(r, op).row = r /\ Change(r, op).state = "pending"
      /\ outbox \in Seq(Entries)
  BY <1>1 DEF Change, Entries, TypeOK
<1> DEFINE n == Len(outbox) + 1
<1>4. /\ DOMAIN outbox' = DOMAIN outbox \cup {n} /\ n \notin DOMAIN outbox
      /\ outbox'[n].row = r /\ outbox'[n].state = "pending"
  BY <1>2, <1>3, AppendedEntries
<1>5. n \in Unsynced'
  BY <1>4 DEF Unsynced, InState
<1>6. n \notin batch /\ n > highWater
  BY <1>1, <1>4, OutboxDomain DEF Within, TypeOK
<1>7. CASE x = r
  BY <1>4, <1>5, <1>6, <1>7
<1>8. CASE x # r
  <2>1. rows'[x] = rows[x] /\ pruned' = pruned
    BY <1>1, <1>2, <1>8, WriteLeavesAlone DEF TypeOK
  <2> QED BY <2>1 DEF Present
<1> QED BY <1>7, <1>8

\* Only Configure leaves the first receiver.
LEMMA FirstReceiverStep ==
    ASSUME TypeOK, FirstReceiver, [Next]_vars
    PROVE  FirstReceiver'
<1> USE DEF FirstReceiver
<1>1. CASE WriteMarker
  BY <1>1 DEF WriteMarker, local, counters
<1>2. ASSUME NEW d \in Dests, Configure(d) PROVE FirstReceiver'
  BY <1>2 DEF Configure, TypeOK
<1>3. CASE Write
  BY <1>3, WriteLeavesAlone
<1>4. CASE BeginPass \/ CopyTable \/ CopyRow \/ Copied \/ Acknowledge \/ Confirm \/ TakeBatch
           \/ MakeStatement \/ Send \/ ConfirmBatch \/ Retain
  BY <1>4 DEF BeginPass, CopyTable, CopyRow, Copied, Acknowledge, Confirm, TakeBatch,
              MakeStatement, Send, ConfirmBatch, Retain, remote, counters
<1>5. CASE PassFails \/ Crash \/ Start \/ ReturnLeftover \/ UNCHANGED vars
  BY <1>5 DEF PassFails, Crash, Start, ReturnLeftover, vars, remote, counters
<1> QED BY <1>1, <1>2, <1>3, <1>4, <1>5 DEF Next, Work

\* Only a write brings a row or a version of it.
LEMMA PresentStays ==
    ASSUME [Next]_vars, ~Write
    PROVE  rows' = rows /\ \A r \in Rows : Present(r)' => Present(r)
<1>1. rows' = rows
  BY OnlyWriteWrites
<1>2. pruned \subseteq pruned'
  BY DEF Next, Work, vars, local, BeginPass, CopyTable, CopyRow, Copied, WriteMarker, Acknowledge,
         Confirm, TakeBatch, MakeStatement, Send, ConfirmBatch, Retain, PassFails, Crash, Start,
         Configure, ReturnLeftover
<1> QED BY <1>1, <1>2 DEF Present

\* A step keeps the statement, ends it, or makes it.
LEMMA StatementFreshStep ==
    ASSUME PhasesInv, StatementFresh, [Next]_vars
    PROVE  StatementFresh'
<1> USE DEF StatementFresh
<1>1. TypeOK /\ TypeInv /\ Phases /\ unsent \subseteq batch
  BY DEF PhasesInv, TypeInv, TypeOK
<1>2. \A q \in Unsynced : outbox'[q].row = outbox[q].row
  BY <1>1, UnsyncedRows
<1>3. statement # NoStatement => statement.row \in Rows
  BY <1>1 DEF TypeOK, Statements
<1>4. CASE Write
  <2>1. SUFFICES ASSUME NEW x \in Rows, x = statement.row, statement # NoStatement,
                        Present(x)', statement.version # rows'[x]
                 PROVE  \E q \in Unsynced' \ batch : outbox'[q].row = x
    <3>1. statement' = statement /\ batch' = batch
      BY <1>4, WriteLeavesAlone
    <3> QED BY <1>3, <3>1 DEF Present
  <2>2. Unsynced \subseteq Unsynced'
    BY <1>1, <1>4, UnsyncedStays DEF Write, Acknowledge, ConfirmBatch, remote, worker
  <2>3. \/ rows'[x] = rows[x] /\ Present(x)
        \/ \E q \in Unsynced' : q \notin batch /\ outbox'[q].row = x
    BY <1>1, <1>4, <2>1, WriteIsOwed
  <2> QED BY <2>1, <2>2, <2>3, <1>2
<1>5. CASE statement' = NoStatement
  BY <1>5
<1>6. CASE statement' = statement /\ batch' = batch /\ ~Write /\ ~Acknowledge /\ ~ConfirmBatch
  <2>1. rows' = rows /\ \A r \in Rows : Present(r)' => Present(r)
    BY <1>6, PresentStays
  <2>2. Unsynced \subseteq Unsynced'
    BY <1>1, <1>6, UnsyncedStays
  <2> QED BY <1>2, <1>3, <1>6, <2>1, <2>2
<1>7. CASE MakeStatement
  <2> DEFINE c == outbox[Min(unsent)]
  <2>1. c.row \in Rows /\ c.op \in {"upsert", "delete"} /\ Min(unsent) \in DOMAIN outbox
    BY <1>1, <1>7, NextInBatch, OutboxDomain DEF MakeStatement
  <2>2. PICK x \in Rows : x = c.row
    BY <2>1
  <2>3. rows' = rows /\ pruned' = pruned
    BY <1>7 DEF MakeStatement, local
  <2>4. statement'.row = x
        /\ (c.op = "upsert" /\ Present(x) => statement'.version = rows[x])
    BY <1>7, <2>2 DEF MakeStatement
  <2>5. Present(x) => c.op = "upsert"
    <3>1. Gone \notin 1 .. LastVersion
      BY ReplicationAssumption DEF Gone
    <3>2. c.op = "delete" => rows[x] = Gone
      BY <2>1, <2>2 DEF PhasesInv, OutboxHonest
    <3> HIDE DEF c
    <3> QED BY <2>1, <3>1, <3>2 DEF Present
  <2> HIDE DEF c
  <2>6. Present(x) => statement'.version = rows'[statement'.row]
    BY <2>3, <2>4, <2>5
  <2> QED BY <2>3, <2>4, <2>6 DEF Present
<1>8. CASE Acknowledge \/ ConfirmBatch \/ TakeBatch
  BY <1>1, <1>8 DEF Phases, Acknowledge, ConfirmBatch, TakeBatch
<1>9. CASE BeginPass \/ CopyTable \/ CopyRow \/ Copied \/ WriteMarker \/ Confirm
           \/ Start \/ ReturnLeftover \/ UNCHANGED vars
  <2>1. statement' = statement /\ batch' = batch
    BY <1>9 DEF BeginPass, CopyTable, CopyRow, Copied, WriteMarker, Confirm, Start,
                ReturnLeftover, vars, worker
  <2>2. CASE Write \/ Acknowledge \/ ConfirmBatch
    BY <2>2, <1>4, <1>8
  <2> QED BY <2>1, <2>2, <1>6
<1>10. CASE Send \/ Retain \/ PassFails \/ Crash \/ \E d \in Dests : Configure(d)
  BY <1>10, <1>5 DEF Send, Retain, PassFails, Crash, Configure, PassOver
<1> QED BY <1>4, <1>7, <1>8, <1>9, <1>10 DEF Next, Work

\* A later change stays one until the bootstrap acknowledges.
LEMMA LaterStays ==
    ASSUME TypeOK, [Next]_vars, ~Acknowledge, ~ConfirmBatch, highWater' = highWater,
           NEW r \in Rows, Later(r)
    PROVE  Later(r)'
BY UnsyncedStays, UnsyncedRows DEF Later

\* What a write does to what was read of the tables.
LEMMA WriteIsLater ==
    ASSUME TypeInv, Write, NEW x \in Rows
    PROVE  (rows'[x] = rows[x] /\ (Present(x)' <=> Present(x))) \/ Later(x)'
<1>1. highWater' = highWater
  BY WriteLeavesAlone
<1> QED BY <1>1, WriteIsOwed DEF Later

\* Every step keeps what was read and not sent yet fresh or followed by a change.
LEMMA CopiesFreshStep ==
    ASSUME PhasesInv, CopiesFresh, [Next]_vars
    PROVE  CopiesFresh'
<1> SUFFICES ASSUME NEW s \in copies', Present(s.row)', s.version # rows'[s.row]
             PROVE  Later(s.row)'
  BY DEF CopiesFresh
<1>1. TypeOK /\ TypeInv /\ Phases /\ copies \subseteq Statements
  BY DEF PhasesInv, TypeInv, TypeOK
<1>2. s \in copies => s.row \in Rows /\ (Present(s.row) /\ s.version # rows[s.row] => Later(s.row))
  BY <1>1 DEF CopiesFresh, Statements
<1>3. CASE Write
  BY <1>1, <1>2, <1>3, WriteLeavesAlone, WriteIsLater, LaterStays
     DEF Write, Acknowledge, ConfirmBatch, remote, worker
<1>4. CASE copies' = {}
  BY <1>4
<1>5. CASE copies' \subseteq copies /\ highWater' = highWater /\ ~Write /\ ~Acknowledge /\ ~ConfirmBatch
  <2>1. rows' = rows /\ (Present(s.row)' => Present(s.row))
    BY <1>2, <1>5, PresentStays
  <2> QED BY <1>1, <1>2, <1>5, <2>1, LaterStays
<1>6. CASE CopyTable
  <2>1. s \in Snapshot(table + 1) /\ rows' = rows
    BY <1>6 DEF CopyTable, local
  <2> QED BY <2>1 DEF Snapshot
<1>7. CASE BeginPass \/ Acknowledge \/ Confirm \/ TakeBatch \/ MakeStatement \/ Send \/ ConfirmBatch
  BY <1>1, <1>4, <1>7 DEF Phases, BeginPass, Acknowledge, Confirm, TakeBatch, MakeStatement,
                          Send, ConfirmBatch
<1>8. CASE Retain \/ PassFails \/ Crash \/ \E d \in Dests : Configure(d)
  BY <1>4, <1>8 DEF Retain, PassFails, Crash, Configure, PassOver
<1>9. CASE CopyRow \/ Copied \/ WriteMarker \/ Start \/ ReturnLeftover \/ UNCHANGED vars
  <2>1. copies' \subseteq copies /\ highWater' = highWater
    BY <1>9 DEF CopyRow, Copied, WriteMarker, Start, ReturnLeftover, vars, worker
  <2>2. CASE Write \/ Acknowledge \/ ConfirmBatch
    BY <2>2, <1>3, <1>7
  <2> QED BY <2>1, <2>2, <1>5
<1> QED BY <1>3, <1>6, <1>7, <1>8, <1>9 DEF Next, Work

\* The receiver's rows only change in CopyRow and Send.
LEMMA OnlySendingSends ==
    ASSUME [Next]_vars, ~CopyRow, ~Send
    PROVE  recv' = recv
<1>1. CASE Work
  BY <1>1 DEF Work, BeginPass, CopyTable, Copied, WriteMarker, Acknowledge, Confirm, TakeBatch,
              MakeStatement, ConfirmBatch, Retain, remote
<1>2. CASE Write
  BY <1>2, WriteLeavesAlone
<1>3. CASE PassFails \/ Crash \/ Start \/ (\E d \in Dests : Configure(d)) \/ ReturnLeftover
           \/ UNCHANGED vars
  BY <1>3 DEF PassFails, Crash, Start, Configure, ReturnLeftover, vars, remote
<1> QED BY <1>1, <1>2, <1>3 DEF Next

\* Without a write or a request nothing becomes stale.
LEMMA StaleComes ==
    ASSUME [Next]_vars, ~Write, ~CopyRow, ~Send, dest' = dest, NEW r \in Rows, Stale(r)'
    PROVE  Stale(r)
BY PresentStays, OnlySendingSends DEF Stale

\* Every step keeps the copied tables fresh or followed by a change.
LEMMA CopiedFreshStep ==
    ASSUME PhasesInv, CopiesFresh, CopiedFresh, [Next]_vars
    PROVE  CopiedFresh'
<1> SUFFICES ASSUME pc' \in {"copying", "marking", "acking"},
                    NEW r \in Rows, TableOf[r] <= table', Stale(r)',
                    \A s \in copies' : s.row # r
             PROVE  Later(r)'
  BY DEF CopiedFresh
<1>1. TypeOK /\ TypeInv /\ Phases /\ copies \subseteq Statements
  BY DEF PhasesInv, TypeInv, TypeOK
<1>2. pc \in {"copying", "marking", "acking"} /\ TableOf[r] <= table /\ Stale(r)
        /\ (\A s \in copies : s.row # r) => Later(r)
  BY DEF CopiedFresh
<1>3. CASE Write
  <2>1. UNCHANGED <<pc, table, copies, recv, dest, highWater>>
    BY <1>3, WriteLeavesAlone
  <2>2. ~Acknowledge /\ ~ConfirmBatch
    BY <1>3 DEF Write, Acknowledge, ConfirmBatch, remote, worker
  <2>3. CASE Later(r)'
    BY <2>3
  <2>4. CASE rows'[r] = rows[r] /\ (Present(r)' <=> Present(r))
    BY <1>1, <1>2, <2>1, <2>2, <2>4, LaterStays DEF Stale
  <2> QED BY <1>1, <1>3, <2>3, <2>4, WriteIsLater
<1>4. CASE BeginPass
  <2>1. table' = 0 \/ pc' = "confirming"
    BY <1>4 DEF BeginPass
  <2> QED BY <2>1, LastTableIsLast
<1>5. CASE CopyTable
  <2>1. /\ pc = "copying" /\ copies = {} /\ table' = table + 1 /\ copies' = Snapshot(table + 1)
        /\ UNCHANGED <<rows, pruned, recv, dest, highWater>>
    BY <1>5 DEF CopyTable, local, remote
  <2>2. Stale(r)
    BY <2>1 DEF Stale, Present
  <2>3. TableOf[r] # table + 1
    <3>1. SUFFICES ASSUME TableOf[r] = table + 1 PROVE FALSE
      OBVIOUS
    <3>2. [row |-> r, version |-> rows[r]] \in copies'
      BY <2>1, <2>2, <3>1 DEF Snapshot, Stale
    <3> QED BY <3>2
  <2>4. TableOf[r] <= table
    BY <1>1, <2>1, <2>3, LastTableIsLast DEF TypeOK
  <2>5. ~Acknowledge /\ ~ConfirmBatch
    BY <2>1 DEF Acknowledge, ConfirmBatch
  <2> QED BY <1>1, <1>2, <2>1, <2>2, <2>4, <2>5, LaterStays
<1>6. CASE CopyRow
  <2>1. PICK s \in copies : Executed(s) /\ copies' = copies \ {s}
    BY <1>6 DEF CopyRow
  <2>2. /\ pc = "copying"
        /\ UNCHANGED <<rows, pruned, dest, highWater, table>>
    BY <1>6 DEF CopyRow, local
  <2>3. ~Acknowledge /\ ~ConfirmBatch
    BY <2>2 DEF Acknowledge, ConfirmBatch
  <2>4. s \in Statements
    BY <1>1
  <2>5. CASE s.row = r
    <3>1. Present(r) /\ s.version # rows[r]
      BY <1>1, <2>1, <2>2, <2>4, <2>5, ExecutedTypes DEF Stale, Present
    <3>2. Later(r)
      BY <2>1, <2>5, <3>1 DEF CopiesFresh
    <3> QED BY <1>1, <2>2, <2>3, <3>2, LaterStays
  <2>6. CASE s.row # r
    <3>1. recv'[dest][r] = recv[dest][r]
      BY <1>1, <2>1, <2>4, <2>6, ExecutedTypes
    <3>2. Stale(r)
      BY <2>2, <3>1 DEF Stale, Present
    <3>3. \A t \in copies : t.row # r
      BY <2>1, <2>6
    <3> QED BY <1>1, <1>2, <2>2, <2>3, <3>2, <3>3, LaterStays
  <2> QED BY <2>5, <2>6
<1>7. CASE Copied \/ WriteMarker
  <2>1. /\ pc \in {"copying", "marking"}
        /\ UNCHANGED <<rows, pruned, recv, dest, highWater, table, copies>>
    BY <1>7 DEF Copied, WriteMarker, local, remote
  <2>2. Stale(r)
    BY <2>1 DEF Stale, Present
  <2>3. ~Acknowledge /\ ~ConfirmBatch
    BY <2>1 DEF Acknowledge, ConfirmBatch
  <2> QED BY <1>1, <1>2, <2>1, <2>2, <2>3, LaterStays
<1>8. CASE Acknowledge \/ Confirm \/ TakeBatch \/ MakeStatement \/ Send \/ ConfirmBatch
  BY <1>8 DEF Acknowledge, Confirm, TakeBatch, MakeStatement, Send, ConfirmBatch
<1>9. CASE Retain \/ PassFails \/ Crash \/ Start \/ \E d \in Dests : Configure(d)
  BY <1>9 DEF Retain, PassFails, Crash, Start, Configure, PassOver
<1>10. CASE ReturnLeftover
  <2>1. /\ UNCHANGED <<rows, pruned, recv, dest, highWater, table, copies, pc>>
    BY <1>10 DEF ReturnLeftover, remote, worker
  <2>2. Stale(r)
    BY <2>1 DEF Stale, Present
  <2>3. ~Acknowledge /\ (ConfirmBatch => FALSE)
    BY <1>10, <2>1 DEF Acknowledge, ConfirmBatch
  <2> QED BY <1>1, <1>2, <2>1, <2>2, <2>3, LaterStays
<1>11. CASE UNCHANGED vars
  BY <1>2, <1>11 DEF vars, local, remote, worker, Stale, Present, Later, Unsynced, InState
<1> QED BY <1>3, <1>4, <1>5, <1>6, <1>7, <1>8, <1>9, <1>10, <1>11 DEF Next, Work

\* What is owed stays owed until it is acknowledged or sent.
LEMMA OwedStays ==
    ASSUME TypeOK, [Next]_vars, ~Acknowledge, ~ConfirmBatch, Sent' \subseteq Sent,
           NEW r \in Rows, Owed(r)
    PROVE  Owed(r)'
BY UnsyncedStays, UnsyncedRows DEF Owed

\* A row the receiver is behind on stays owed: the heart of NothingMissed.
LEMMA StaleOwedStep ==
    ASSUME PhasesInv, FreshInv, [Next]_vars
    PROVE  StaleOwed'
<1> SUFFICES ASSUME configures' <= 1, dest' \in marker', NEW r \in Rows, Stale(r)'
             PROVE  Owed(r)'
  BY DEF StaleOwed
<1>1. TypeOK /\ TypeInv /\ Phases /\ unsent \subseteq batch /\ configures \in Nat
  BY ReplicationAssumption DEF PhasesInv, TypeInv, TypeOK
<1>2. configures <= 1 /\ dest \in marker /\ Stale(r) => Owed(r)
  BY DEF FreshInv, StaleOwed
<1>3. CASE Write
  <2>1. UNCHANGED <<configures, dest, marker, recv, batch, unsent>>
    BY <1>3, WriteLeavesAlone
  <2>2. ~Acknowledge /\ ~ConfirmBatch
    BY <1>3 DEF Write, Acknowledge, ConfirmBatch, remote, worker
  <2>3. CASE \E q \in Unsynced' : q \notin batch /\ outbox'[q].row = r
    BY <2>1, <2>3 DEF Owed, Sent
  <2>4. CASE rows'[r] = rows[r] /\ (Present(r)' <=> Present(r))
    <3>1. Stale(r)
      BY <2>1, <2>4 DEF Stale
    <3>2. Sent' \subseteq Sent
      BY <2>1 DEF Sent
    <3> QED BY <1>1, <1>2, <2>1, <2>2, <3>1, <3>2, OwedStays
  <2> QED BY <1>1, <1>3, <2>3, <2>4, WriteIsOwed
<1>4. CASE CopyRow
  BY <1>1, <1>4 DEF CopyRow, Phases
<1>5. CASE WriteMarker
  <2>1. pc = "marking" /\ UNCHANGED <<rows, pruned, outbox, recv, dest, batch, unsent>>
    BY <1>5 DEF WriteMarker, local
  <2>2. Stale(r)
    BY <2>1 DEF Stale, Present
  <2>3. TableOf[r] <= table /\ copies = {} /\ batch = {}
    BY <1>1, <2>1, LastTableIsLast DEF Phases
  <2>4. Later(r)
    BY <2>1, <2>2, <2>3 DEF FreshInv, CopiedFresh
  <2> QED BY <2>1, <2>3, <2>4 DEF Later, Owed, Sent, Unsynced, InState
<1>6. CASE Acknowledge
  <2>1. pc = "acking" /\ outbox' = Marked(1 .. highWater, "synced")
        /\ UNCHANGED <<rows, pruned, recv, dest, batch, unsent>>
    BY <1>6 DEF Acknowledge, remote
  <2>2. Stale(r)
    BY <2>1 DEF Stale, Present
  <2>3. TableOf[r] <= table /\ copies = {} /\ batch = {}
    BY <1>1, <2>1, LastTableIsLast DEF Phases
  <2>4. PICK q \in Unsynced : q > highWater /\ outbox[q].row = r
    BY <2>1, <2>2, <2>3 DEF FreshInv, CopiedFresh, Later
  <2>5. q \notin 1 .. highWater
    BY <1>1, <2>4 DEF TypeOK
  <2>6. q \in Unsynced'
    BY <1>1, <2>1, <2>4, <2>5, MarkedUnsynced DEF OutboxStates
  <2>7. outbox'[q].row = r
    BY <1>1, <2>4, UnsyncedRows
  <2> QED BY <2>1, <2>3, <2>6, <2>7 DEF Owed, Sent
<1>7. CASE Send
  <2>1. /\ pc = "syncing" /\ statement # NoStatement /\ Executed(statement)
        /\ unsent' = unsent \ {Min(unsent)}
        /\ UNCHANGED <<rows, pruned, dest, batch, marker, configures>>
    BY <1>7 DEF Send, local, counters
  <2>2. statement \in Statements /\ unsent # {} /\ statement.row = outbox[Min(unsent)].row
    BY <1>1, <2>1 DEF TypeOK, Phases
  <2>3. Min(unsent) \in unsent
    BY <1>1, <2>2, NextInBatch
  <2>4. ~Acknowledge /\ ~ConfirmBatch
    BY <2>1, <2>2 DEF Acknowledge, ConfirmBatch
  <2>5. Sent' = Sent \cup {Min(unsent)} /\ Sent \cup {Min(unsent)} \subseteq batch
    BY <1>1, <2>1, <2>3 DEF Sent
  <2>6. ASSUME NEW q \in Unsynced, q \notin Sent \cup {Min(unsent)}, outbox[q].row = r
        PROVE  Owed(r)'
    <3>1. q \in Unsynced' /\ outbox'[q].row = r
      BY <1>1, <2>4, <2>6, UnsyncedStays, UnsyncedRows
    <3> QED BY <2>5, <2>6, <3>1 DEF Owed
  <2>7. CASE statement.row = r
    <3>1. Present(r) /\ statement.version # rows[r]
      BY <1>1, <2>1, <2>2, <2>7, ExecutedTypes DEF Stale, Present
    <3>2. PICK q \in Unsynced \ batch : outbox[q].row = r
      BY <2>1, <2>7, <3>1 DEF FreshInv, StatementFresh
    <3> QED BY <2>5, <2>6, <3>2
  <2>8. CASE statement.row # r
    <3>1. Stale(r)
      BY <1>1, <2>1, <2>2, <2>8, ExecutedTypes DEF Stale, Present
    <3>2. PICK q \in Unsynced \ Sent : outbox[q].row = r
      BY <1>2, <2>1, <3>1 DEF Owed
    <3>3. q # Min(unsent)
      BY <2>2, <2>8, <3>2
    <3> QED BY <2>6, <3>2, <3>3
  <2> QED BY <2>7, <2>8
<1>8. CASE ConfirmBatch
  <2>1. /\ unsent = {} /\ outbox' = Marked(batch, "synced") /\ batch' = {}
        /\ UNCHANGED <<rows, pruned, recv, dest, marker, configures>>
    BY <1>8 DEF ConfirmBatch, remote, counters
  <2>2. Stale(r)
    BY <2>1 DEF Stale, Present
  <2>3. PICK q \in Unsynced : q \notin batch /\ outbox[q].row = r
    BY <1>2, <2>1, <2>2 DEF Owed, Sent
  <2>4. q \in Unsynced'
    BY <1>1, <2>1, <2>3, MarkedUnsynced DEF OutboxStates
  <2>5. outbox'[q].row = r
    BY <1>1, <2>3, UnsyncedRows
  <2> QED BY <2>1, <2>4, <2>5 DEF Owed, Sent
<1>9. ASSUME NEW d \in Dests, Configure(d) PROVE Owed(r)'
  <2>1. /\ configures' = configures + 1 /\ dest' = d /\ batch' = {}
        /\ UNCHANGED <<rows, pruned, recv, marker>>
    BY <1>9 DEF Configure, PassOver, remote
  <2>2. ~Acknowledge /\ ~ConfirmBatch
    BY <1>1, <2>1 DEF Acknowledge, ConfirmBatch, counters
  <2>3. configures = 0
    BY <1>1, <2>1
  <2>4. dest' = dest
    BY <2>1, <2>3 DEF FreshInv, FirstReceiver
  <2>5. Stale(r)
    BY <2>1, <2>4 DEF Stale, Present
  <2>6. Sent' \subseteq Sent
    BY <2>1 DEF Sent
  <2> QED BY <1>1, <1>2, <2>1, <2>2, <2>3, <2>4, <2>5, <2>6, OwedStays
<1>10. ASSUME ~Write, ~CopyRow, ~Send, ~Acknowledge, ~ConfirmBatch,
              UNCHANGED <<dest, marker, configures>>, batch' \ unsent' \subseteq batch \ unsent
       PROVE  Owed(r)'
  BY <1>1, <1>2, <1>10, StaleComes, OwedStays DEF Sent
<1>11. CASE BeginPass \/ CopyTable \/ Copied \/ Confirm \/ TakeBatch \/ MakeStatement
  <2>1. UNCHANGED <<dest, marker, configures>> /\ batch' \ unsent' \subseteq batch \ unsent
    BY <1>11 DEF BeginPass, CopyTable, Copied, Confirm, TakeBatch, MakeStatement, remote, counters
  <2> QED BY <2>1, <1>3, <1>4, <1>6, <1>7, <1>8, <1>10
<1>12. CASE Retain \/ PassFails \/ Crash \/ Start \/ ReturnLeftover \/ UNCHANGED vars
  <2>1. UNCHANGED <<dest, marker, configures>> /\ batch' \ unsent' \subseteq batch \ unsent
    BY <1>12 DEF Retain, PassFails, Crash, Start, ReturnLeftover, PassOver, vars, worker, remote,
                 counters
  <2> QED BY <2>1, <1>3, <1>4, <1>6, <1>7, <1>8, <1>10
<1> QED BY <1>3, <1>4, <1>5, <1>6, <1>7, <1>8, <1>9, <1>11, <1>12 DEF Next, Work

\* The inductive invariant of NothingMissed.
MissInv == PhasesInv /\ FreshInv

\* The first state.
LEMMA MissInit == Init => MissInv
<1> SUFFICES ASSUME Init PROVE MissInv
  OBVIOUS
<1>1. PhasesInv
  BY PhasesInit
<1>2. FreshInv
  BY DEF Init, FreshInv, FirstReceiver, StatementFresh, CopiesFresh, CopiedFresh, StaleOwed
<1> QED BY <1>1, <1>2 DEF MissInv

\* Every step.
LEMMA MissStep ==
    ASSUME MissInv, [Next]_vars
    PROVE  MissInv'
<1>1. PhasesInv'
  BY TypeStep, HonestStep, PhasesStep DEF MissInv, PhasesInv
<1>2. TypeOK
  BY DEF MissInv, PhasesInv, TypeInv
<1>3. FreshInv'
  BY <1>2, FirstReceiverStep, StatementFreshStep, CopiesFreshStep, CopiedFreshStep, StaleOwedStep
     DEF MissInv, FreshInv
<1> QED BY <1>1, <1>3 DEF MissInv

\* It holds in every reachable state.
LEMMA MissHolds == Spec => []MissInv
<1>1. MissInv /\ [Next]_vars => MissInv'
  BY MissStep
<1> QED BY <1>1, MissInit, PTL DEF Spec

\* Until the settings page has been used twice, a committed row is never missed:
\* what a bootstrapped receiver lacks has an unsent change in the outbox,
\* whatever requests fail and whenever the process dies (Bootstrap and
\* SyncIncremental).  Going from one receiver to another and back breaks it.
THEOREM NothingIsMissed == Spec => [](configures <= 1 => NothingMissed)
<1>1. MissInv => (configures <= 1 => NothingMissed)
  BY DEF MissInv, FreshInv, StaleOwed, Stale, Owed, NothingMissed
<1> QED BY <1>1, MissHolds, PTL

-----------------------------------------------------------------------------
(* No change is stranded.                                                  *)

\* What marking does to the changes marked syncing.
LEMMA MarkedSyncing ==
    ASSUME TypeOK, NEW B, NEW s \in OutboxStates, outbox' = Marked(B, s)
    PROVE  /\ s # "syncing" => InState("syncing")' = InState("syncing") \ B
           /\ InState("syncing")' \subseteq InState("syncing") \cup B
<1>1. outbox \in Seq(Entries)
  BY DEF TypeOK
<1>2. /\ DOMAIN outbox' = DOMAIN outbox
      /\ \A q \in DOMAIN outbox : outbox'[q].state =
              IF q \in B /\ outbox[q].state # "cleaned" THEN s ELSE outbox[q].state
  BY <1>1, MarkedEntries
<1>3. /\ InState("syncing")' = {q \in DOMAIN outbox' : outbox'[q].state = "syncing"}
      /\ InState("syncing") = {q \in DOMAIN outbox : outbox[q].state = "syncing"}
  BY DEF InState
<1> QED BY <1>2, <1>3

\* Every step keeps the changes marked syncing in the batch.
LEMMA NoneStrandedStep ==
    ASSUME ~ReturnsFail, PhasesInv, NoneStranded, [Next]_vars
    PROVE  NoneStranded'
<1> USE DEF NoneStranded, OutboxStates
<1>1. TypeOK /\ Phases
  BY DEF PhasesInv, TypeInv, TypeOK
<1>2. CASE Write
  <2>1. PICK r \in Rows, op \in {"upsert", "delete"} : outbox' = Append(outbox, Change(r, op))
    BY <1>1, <1>2, WriteStep
  <2>2. Change(r, op) \in Entries /\ Change(r, op).state = "pending" /\ outbox \in Seq(Entries)
    BY <1>1 DEF Change, Entries, TypeOK
  <2>3. InState("syncing")' \subseteq InState("syncing")
    <3>1. /\ DOMAIN outbox' = DOMAIN outbox \cup {Len(outbox) + 1}
          /\ \A q \in DOMAIN outbox : outbox'[q] = outbox[q]
          /\ outbox'[Len(outbox) + 1].state = "pending"
      BY <2>1, <2>2, AppendedEntries
    <3> QED BY <3>1 DEF InState
  <2> QED BY <1>2, <2>3, WriteLeavesAlone
<1>3. ASSUME outbox' = outbox, batch' = batch, pc # "down" PROVE NoneStranded'
  BY <1>3 DEF InState
<1>4. CASE BeginPass \/ CopyTable \/ CopyRow \/ Copied \/ WriteMarker \/ Confirm
           \/ MakeStatement \/ Send
  BY <1>3, <1>4 DEF BeginPass, CopyTable, CopyRow, Copied, WriteMarker, Confirm,
                    MakeStatement, Send, local
<1>5. CASE Acknowledge
  <2>1. InState("syncing")' \subseteq InState("syncing")
    BY <1>1, <1>5, MarkedSyncing DEF Acknowledge
  <2> QED BY <1>5, <2>1 DEF Acknowledge
<1>6. CASE TakeBatch
  <2>1. CASE PendingBatch = {}
    BY <1>3, <1>6, <2>1 DEF TakeBatch
  <2>2. CASE PendingBatch # {}
    <3>1. InState("syncing") = {} /\ batch' = PendingBatch
          /\ outbox' = Marked(PendingBatch, "syncing")
      BY <1>6, <2>2 DEF TakeBatch
    <3> QED BY <1>1, <3>1, MarkedSyncing
  <2> QED BY <2>1, <2>2
<1>7. CASE ConfirmBatch
  <2>1. InState("syncing") \subseteq batch /\ outbox' = Marked(batch, "synced")
    BY <1>7 DEF ConfirmBatch
  <2>2. InState("syncing")' = {}
    BY <1>1, <2>1, MarkedSyncing
  <2> QED BY <2>2
<1>8. CASE Retain
  <2>1. PICK n \in 0 .. Len(outbox) :
          outbox' = Marked(1 .. n \cap InState("synced"), "cleaned")
    BY <1>8 DEF Retain
  <2>2. InState("syncing") = {}
    BY <1>1, <1>8 DEF Retain, Phases
  <2>3. InState("syncing")' = {}
    BY <1>1, <2>1, <2>2, MarkedSyncing
  <2> QED BY <2>3
<1>9. CASE PassFails
  <2>1. InState("syncing") \subseteq batch /\ outbox' = Marked(batch, "pending")
    BY <1>9 DEF PassFails
  <2>2. InState("syncing")' = {}
    BY <1>1, <2>1, MarkedSyncing
  <2> QED BY <2>2
<1>10. CASE Crash
  BY <1>10 DEF Crash
<1>11. ASSUME outbox' = Marked(InState("syncing"), "pending") PROVE NoneStranded'
  <2>1. InState("syncing")' = {}
    BY <1>1, <1>11, MarkedSyncing
  <2> QED BY <2>1
<1>12. CASE Start \/ \E d \in Dests : Configure(d)
  BY <1>11, <1>12 DEF Start, Configure
<1>13. CASE ReturnLeftover
  <2>1. InState("syncing")' \subseteq InState("syncing")
    BY <1>1, <1>13, MarkedSyncing DEF ReturnLeftover
  <2> QED BY <1>13, <2>1 DEF ReturnLeftover, worker
<1>14. CASE UNCHANGED vars
  BY <1>14 DEF vars, local, worker, InState
<1> QED BY <1>2, <1>4, <1>5, <1>6, <1>7, <1>8, <1>9, <1>10, <1>12, <1>13, <1>14 DEF Next, Work

\* If no return of a batch fails, a change marked syncing is in the batch the
\* worker will confirm or return (SyncIncremental's defer, Recover), for any
\* number of receivers, crashes and uses of the settings page.
THEOREM NoneIsStranded ==
    ASSUME ~ReturnsFail
    PROVE  Spec => []NoneStranded
<1>1. Init => NoneStranded
  BY DEF Init, NoneStranded
<1>2. PhasesInv /\ NoneStranded /\ [Next]_vars => NoneStranded'
  BY NoneStrandedStep
<1> QED BY <1>1, <1>2, PhasesHold, PTL DEF Spec

-----------------------------------------------------------------------------
(* The archive is kept.                                                   *)

\* A row retention removed is final at both ends: the receiver has its last
\* version and no change of it is waiting.  It rests on StaleOwed, and on the
\* worker alone having the batch.
ArchiveInv ==
    configures = 0 =>
        /\ leftover = {}
        /\ batch \subseteq InState("syncing")
        /\ pruned # {} => dest \in marker
        /\ \A r \in pruned :
             /\ rows[r] \in 1 .. LastVersion
             /\ recv[dest][r] = rows[r]
             /\ \A q \in Unsynced : outbox[q].row # r

\* Acknowledging makes no work, nor does marking changes that wait already.
LEMMA MarkedOnly ==
    ASSUME TypeOK, NEW B, NEW s \in OutboxStates, outbox' = Marked(B, s),
           B \subseteq Unsynced \/ s \in {"synced", "cleaned"}
    PROVE  Unsynced' \subseteq Unsynced
<1>1. outbox \in Seq(Entries)
  BY DEF TypeOK
<1>2. /\ DOMAIN outbox' = DOMAIN outbox
      /\ \A q \in DOMAIN outbox : outbox'[q].state =
              IF q \in B /\ outbox[q].state # "cleaned" THEN s ELSE outbox[q].state
  BY <1>1, MarkedEntries
<1>3. Unsynced' = {q \in DOMAIN outbox' : outbox'[q].state \in {"pending", "syncing"}}
  BY DEF Unsynced, InState
<1> QED BY <1>2, <1>3, UnsyncedEntries

\* As long as the settings page is not used, only the triggers make work.
LEMMA OnlyWriteOwes ==
    ASSUME TypeOK, ArchiveInv, configures' = 0, [Next]_vars, ~Write
    PROVE  Unsynced' \subseteq Unsynced
<1> USE DEF OutboxStates
<1>0. InState("pending") \subseteq Unsynced /\ InState("syncing") \subseteq Unsynced
  BY DEF Unsynced
<1>1. CASE outbox' = outbox
  BY <1>1 DEF Unsynced, InState
<1>2. CASE BeginPass \/ CopyTable \/ CopyRow \/ Copied \/ WriteMarker \/ Confirm
           \/ MakeStatement \/ Send \/ Crash \/ UNCHANGED vars
  BY <1>1, <1>2 DEF BeginPass, CopyTable, CopyRow, Copied, WriteMarker, Confirm,
                    MakeStatement, Send, Crash, vars, local
<1>3. CASE Acknowledge \/ ConfirmBatch
  BY <1>3, MarkedOnly DEF Acknowledge, ConfirmBatch
<1>4. CASE TakeBatch
  <2>1. outbox' = outbox \/ outbox' = Marked(PendingBatch, "syncing")
    BY <1>4 DEF TakeBatch
  <2>2. PendingBatch \subseteq Unsynced
    BY <1>0, PendingInOutbox
  <2> QED BY <2>1, <2>2, <1>1, MarkedOnly
<1>5. CASE Retain
  <2>1. PICK n \in 0 .. Len(outbox) :
          outbox' = Marked(1 .. n \cap InState("synced"), "cleaned")
    BY <1>5 DEF Retain
  <2> QED BY <2>1, MarkedOnly
<1>6. CASE PassFails
  <2>1. outbox' = outbox \/ outbox' = Marked(batch, "pending")
    BY <1>6 DEF PassFails
  <2>2. batch \subseteq Unsynced
    BY <1>0, <1>6 DEF PassFails, ArchiveInv
  <2> QED BY <2>1, <2>2, <1>1, MarkedOnly
<1>7. CASE Start
  BY <1>0, <1>7, MarkedOnly DEF Start
<1>8. ASSUME NEW d \in Dests, Configure(d) PROVE FALSE
  BY <1>8, ReplicationAssumption DEF Configure, TypeOK
<1>9. CASE ReturnLeftover
  BY <1>9 DEF ReturnLeftover, ArchiveInv, counters
<1> QED BY <1>2, <1>3, <1>4, <1>5, <1>6, <1>7, <1>8, <1>9 DEF Next, Work

\* The batch stays marked while the worker has it.
LEMMA BatchStep ==
    ASSUME TypeInv, Phases, ArchiveInv, configures' = 0, [Next]_vars
    PROVE  configures = 0 /\ leftover' = {} /\ batch' \subseteq InState("syncing")'
<1> USE DEF OutboxStates
<1>1. TypeOK
  BY DEF TypeInv
<1>2. ASSUME NEW d \in Dests, Configure(d) PROVE FALSE
  BY <1>1, <1>2, ReplicationAssumption DEF Configure, TypeOK
<1>3. configures = 0
  BY <1>2, ReplicationAssumption
     DEF Next, Work, vars, counters, Write, BeginPass, CopyTable, CopyRow, Copied, WriteMarker,
         Acknowledge, Confirm, TakeBatch, MakeStatement, Send, ConfirmBatch, Retain, PassFails,
         Crash, Start, ReturnLeftover
<1>4. leftover = {} /\ batch \subseteq InState("syncing")
  BY <1>3 DEF ArchiveInv
<1>5. leftover' = {}
  BY <1>2, <1>4
     DEF Next, Work, vars, Write, BeginPass, CopyTable, CopyRow, Copied, WriteMarker,
         Acknowledge, Confirm, TakeBatch, MakeStatement, Send, ConfirmBatch, Retain, PassFails,
         Crash, Start, ReturnLeftover
<1>6. CASE batch' = {}
  BY <1>3, <1>5, <1>6
<1>7. CASE Write
  <2>1. PICK r \in Rows, op \in {"upsert", "delete"} : outbox' = Append(outbox, Change(r, op))
    BY <1>1, <1>7, WriteStep
  <2>2. Change(r, op) \in Entries /\ outbox \in Seq(Entries)
    BY <1>1 DEF Change, Entries, TypeOK
  <2>3. InState("syncing") \subseteq InState("syncing")'
    <3>1. /\ DOMAIN outbox \subseteq DOMAIN outbox'
          /\ \A q \in DOMAIN outbox : outbox'[q] = outbox[q]
      BY <2>1, <2>2, AppendedEntries
    <3> QED BY <3>1 DEF InState
  <2> QED BY <1>3, <1>4, <1>5, <1>7, <2>3, WriteLeavesAlone
<1>8. CASE batch' = batch /\ outbox' = outbox
  BY <1>3, <1>4, <1>5, <1>8 DEF InState
<1>9. CASE TakeBatch
  <2>1. CASE PendingBatch = {}
    BY <1>8, <1>9, <2>1 DEF TakeBatch
  <2>2. CASE PendingBatch # {}
    <3>1. batch' = PendingBatch /\ outbox' = Marked(PendingBatch, "syncing")
      BY <1>9, <2>2 DEF TakeBatch
    <3>2. outbox \in Seq(Entries)
      BY <1>1 DEF TypeOK
    <3>3. /\ DOMAIN outbox' = DOMAIN outbox
          /\ \A q \in DOMAIN outbox : outbox'[q].state =
                  IF q \in PendingBatch /\ outbox[q].state # "cleaned" THEN "syncing"
                  ELSE outbox[q].state
      BY <3>1, <3>2, MarkedEntries
    <3>4. \A q \in PendingBatch : q \in DOMAIN outbox /\ outbox[q].state = "pending"
      BY PendingInOutbox DEF InState
    <3>5. PendingBatch \subseteq InState("syncing")'
      BY <3>3, <3>4 DEF InState
    <3> QED BY <1>3, <1>5, <3>1, <3>5
  <2> QED BY <2>1, <2>2
<1>10. CASE Acknowledge
  BY <1>6, <1>10 DEF Acknowledge, Phases
<1>11. CASE ConfirmBatch \/ Retain \/ PassFails \/ Crash
  BY <1>6, <1>11 DEF ConfirmBatch, Retain, PassFails, Crash, PassOver
<1>12. CASE Start
  BY <1>6, <1>12 DEF Start, Phases
<1>13. CASE ReturnLeftover
  BY <1>4, <1>13 DEF ReturnLeftover
<1>14. CASE BeginPass \/ CopyTable \/ CopyRow \/ Copied \/ WriteMarker \/ Confirm
           \/ MakeStatement \/ Send \/ UNCHANGED vars
  BY <1>8, <1>14 DEF BeginPass, CopyTable, CopyRow, Copied, WriteMarker, Confirm,
                    MakeStatement, Send, vars, local, worker
<1> QED BY <1>2, <1>7, <1>9, <1>10, <1>11, <1>12, <1>13, <1>14 DEF Next, Work

\* A pruned row is final: nothing is owed for it, at either end.
Final(r) ==
    /\ rows[r] \in 1 .. LastVersion
    /\ recv[dest][r] = rows[r]
    /\ \A q \in Unsynced : outbox[q].row # r

\* Once final, always final.
LEMMA FinalStays ==
    ASSUME MissInv, ArchiveInv, configures' = 0, [Next]_vars, NEW r \in pruned
    PROVE  Final(r)'
<1>1. /\ TypeOK /\ TypeInv /\ Phases /\ r \in Rows /\ pruned \subseteq Rows
      /\ batch \subseteq DOMAIN outbox /\ unsent \subseteq batch
  BY DEF MissInv, PhasesInv, TypeInv, TypeOK, Within
<1>2. configures = 0 /\ batch \subseteq InState("syncing")
  BY <1>1, BatchStep DEF ArchiveInv
<1>3. Final(r) /\ dest \in marker
  BY <1>2 DEF ArchiveInv, Final
<1>4. dest' = dest
  <2>1. ASSUME NEW d \in Dests, Configure(d) PROVE FALSE
    BY <1>2, <2>1 DEF Configure
  <2> QED BY <2>1
     DEF Next, Work, vars, Write, BeginPass, CopyTable, CopyRow, Copied, WriteMarker,
         Acknowledge, Confirm, TakeBatch, MakeStatement, Send, ConfirmBatch, Retain, PassFails,
         Crash, Start, ReturnLeftover
<1>5. CASE Write
  <2>1. PICK x \in Rows, op \in {"upsert", "delete"} :
          /\ outbox' = Append(outbox, Change(x, op))
          /\ rows' = [rows EXCEPT ![x] = rows'[x]]
          /\ rows[x] = 0 \/ Present(x)
    BY <1>1, <1>5, WriteStep
  <2>2. x # r
    BY <1>3, <2>1 DEF Final, Present
  <2>3. rows'[r] = rows[r] /\ recv' = recv
    BY <1>1, <1>5, <2>1, <2>2, WriteLeavesAlone DEF TypeOK
  <2>4. Change(x, op) \in Entries /\ Change(x, op).row = x /\ outbox \in Seq(Entries)
    BY <1>1 DEF Change, Entries, TypeOK
  <2> DEFINE n == Len(outbox) + 1
  <2>5. /\ DOMAIN outbox' = DOMAIN outbox \cup {n}
        /\ \A q \in DOMAIN outbox : outbox'[q] = outbox[q]
        /\ outbox'[n].row = x
    BY <2>1, <2>4, AppendedEntries
  <2>6. ASSUME NEW q \in Unsynced' PROVE outbox'[q].row # r
    <3>1. q \in DOMAIN outbox' /\ outbox'[q].state \in {"pending", "syncing"}
      BY DEF Unsynced, InState
    <3> HIDE DEF n
    <3>2. CASE q = n
      BY <2>2, <2>5, <3>2
    <3>3. CASE q # n
      <4>1. q \in Unsynced
        BY <2>5, <3>1, <3>3, UnsyncedEntries
      <4> QED BY <1>3, <2>5, <3>1, <3>3, <4>1 DEF Final
    <3> QED BY <3>2, <3>3
  <2> QED BY <1>3, <1>4, <2>3, <2>6 DEF Final
<1>6. CASE ~Write
  <2>1. rows' = rows /\ Unsynced' \subseteq Unsynced
        /\ \A q \in Unsynced : outbox'[q].row = outbox[q].row
    BY <1>1, <1>6, OnlyWriteWrites, OnlyWriteOwes, UnsyncedRows
  <2>2. recv'[dest][r] = recv[dest][r]
    <3>1. CASE CopyRow
      BY <1>1, <1>3, <3>1 DEF CopyRow, Phases
    <3>2. CASE Send
      <4>1. /\ statement \in Statements /\ Executed(statement) /\ unsent # {}
            /\ statement.row = outbox[Min(unsent)].row
        BY <1>1, <3>2 DEF Send, TypeOK, Phases
      <4>2. Min(unsent) \in Unsynced
        BY <1>1, <1>2, <4>1, NextInBatch DEF Unsynced
      <4>3. statement.row # r
        BY <1>3, <4>1, <4>2 DEF Final
      <4> QED BY <1>1, <4>1, <4>3, ExecutedTypes
    <3>3. CASE ~CopyRow /\ ~Send
      BY <3>3, OnlySendingSends
    <3> QED BY <3>1, <3>2, <3>3
  <2> QED BY <1>3, <1>4, <2>1, <2>2 DEF Final
<1> QED BY <1>5, <1>6

\* What retention takes is at the receiver: nothing is owed when it looks.
LEMMA RetainedIsFinal ==
    ASSUME MissInv, ArchiveInv, configures' = 0, Retain, NEW r \in pruned' \ pruned
    PROVE  Final(r)' /\ dest' = dest /\ dest \in marker'
<1>1. TypeOK /\ Phases
  BY DEF MissInv, PhasesInv, TypeInv
<1>2. PICK S \in SUBSET Prunable, n \in 0 .. Len(outbox) :
        /\ S # {} => Unsynced = {} /\ confirmed
        /\ pruned' = pruned \cup S
        /\ outbox' = Marked(1 .. n \cap InState("synced"), "cleaned")
  BY DEF Retain
<1>3. /\ pc = "retaining" /\ UNCHANGED <<rows, dest, recv, marker, configures>>
  BY DEF Retain, remote, counters
<1>4. r \in Rows /\ Present(r) /\ Unsynced = {}
  BY <1>2 DEF Prunable
<1>5. dest \in marker
  BY <1>1, <1>3 DEF Phases
<1>6. recv[dest][r] = rows[r]
  BY <1>3, <1>4, <1>5 DEF MissInv, FreshInv, StaleOwed, Stale, Owed
<1>7. Unsynced' = {}
  BY <1>1, <1>2, <1>4, MarkedOnly DEF OutboxStates
<1> QED BY <1>3, <1>4, <1>5, <1>6, <1>7 DEF Final, Present

\* Only retention prunes.
LEMMA OnlyRetainPrunes ==
    ASSUME [Next]_vars, ~Retain
    PROVE  pruned' = pruned
BY DEF Next, Work, vars, local, Write, BeginPass, CopyTable, CopyRow, Copied, WriteMarker,
       Acknowledge, Confirm, TakeBatch, MakeStatement, Send, ConfirmBatch, PassFails, Crash,
       Start, Configure, ReturnLeftover

\* A marker is never removed.
LEMMA MarkersStay ==
    ASSUME [Next]_vars
    PROVE  marker \subseteq marker'
BY DEF Next, Work, vars, remote, Write, BeginPass, CopyTable, CopyRow, Copied, WriteMarker,
       Acknowledge, Confirm, TakeBatch, MakeStatement, Send, ConfirmBatch, Retain, PassFails,
       Crash, Start, Configure, ReturnLeftover

\* Every step keeps pruned rows final.
LEMMA ArchiveStep ==
    ASSUME MissInv, ArchiveInv, [Next]_vars
    PROVE  ArchiveInv'
<1> SUFFICES ASSUME configures' = 0 PROVE ArchiveInv'
  BY DEF ArchiveInv
<1>1. TypeInv /\ Phases
  BY DEF MissInv, PhasesInv
<1>2. configures = 0 /\ leftover' = {} /\ batch' \subseteq InState("syncing")'
  BY <1>1, BatchStep
<1>3. \A r \in pruned' : Final(r)'
  <2> SUFFICES ASSUME NEW r \in pruned' PROVE Final(r)'
    OBVIOUS
  <2>1. CASE r \in pruned
    BY <2>1, FinalStays
  <2>2. CASE r \notin pruned
    <3>1. Retain
      BY <2>2, OnlyRetainPrunes
    <3> QED BY <2>2, <3>1, RetainedIsFinal
  <2> QED BY <2>1, <2>2
<1>4. pruned' # {} => dest' \in marker'
  <2>1. CASE pruned' = pruned
    <3>1. dest' = dest
      <4>1. ASSUME NEW d \in Dests, Configure(d) PROVE FALSE
        BY <1>2, <4>1 DEF Configure
      <4> QED BY <4>1
         DEF Next, Work, vars, Write, BeginPass, CopyTable, CopyRow, Copied, WriteMarker,
             Acknowledge, Confirm, TakeBatch, MakeStatement, Send, ConfirmBatch, Retain,
             PassFails, Crash, Start, ReturnLeftover
    <3> QED BY <1>2, <2>1, <3>1, MarkersStay DEF ArchiveInv
  <2>2. CASE pruned' # pruned
    <3>1. Retain
      BY <2>2, OnlyRetainPrunes
    <3>2. pruned \subseteq pruned'
      BY <3>1 DEF Retain
    <3>3. PICK r \in pruned' \ pruned : TRUE
      BY <2>2, <3>2
    <3> QED BY <3>1, <3>3, RetainedIsFinal
  <2> QED BY <2>1, <2>2
<1> QED BY <1>2, <1>3, <1>4 DEF ArchiveInv, Final

\* Pruned rows are final in every reachable state.
LEMMA ArchiveHolds == Spec => [](MissInv /\ ArchiveInv)
<1>1. Init => ArchiveInv
  BY DEF Init, ArchiveInv
<1>2. MissInv /\ ArchiveInv /\ [Next]_vars => ArchiveInv'
  BY ArchiveStep
<1> QED BY <1>1, <1>2, MissHolds, PTL DEF Spec

\* Until the settings page is used, what retention removed locally is at the
\* receiver in its last version, for good (PruneAcknowledged).
THEOREM ArchiveIsKept == Spec => [](configures = 0 => ArchiveKept)
<1>1. ArchiveInv => (configures = 0 => ArchiveKept)
  BY DEF ArchiveInv, ArchiveKept
<1> QED BY <1>1, ArchiveHolds, PTL

-----------------------------------------------------------------------------
(* The receiver's copy implements Mirror.                                  *)

\* The receiver's version of a row, the one on its way, and the log's.
InOrder(s) == recv[dest][s.row] <= s.version /\ s.version <= rows[s.row]

\* No copy, no statement on its way is ahead of the log or behind the receiver,
\* and a row is copied once.
MirrorInv ==
    configures = 0 =>
        /\ \A r \in Rows : recv[dest][r] <= rows[r]
        /\ statement # NoStatement => InOrder(statement)
        /\ \A s \in copies : InOrder(s)
        /\ \A s, t \in copies : s.row = t.row => s = t

\* Versions can be compared.
LEMMA VersionsAreNumbers ==
    ASSUME TypeOK
    PROVE  /\ Gone \in Nat /\ LastVersion \in Nat /\ Gone = LastVersion + 1
           /\ dest \in Dests
           /\ \A r \in Rows : /\ rows[r] \in Nat /\ rows[r] <= Gone
                              /\ recv[dest][r] \in Nat
           /\ \A s \in Statements : s.row \in Rows /\ s.version \in Nat
BY ReplicationAssumption DEF TypeOK, Versions, Gone, Statements

\* Until the settings page is used the receiver does not change.
LEMMA StayOnReceiver ==
    ASSUME [Next]_vars, configures = 0, configures' = 0
    PROVE  dest' = dest
<1>1. ASSUME NEW d \in Dests, Configure(d) PROVE FALSE
  BY <1>1 DEF Configure
<1> QED BY <1>1
   DEF Next, Work, vars, Write, BeginPass, CopyTable, CopyRow, Copied, WriteMarker,
       Acknowledge, Confirm, TakeBatch, MakeStatement, Send, ConfirmBatch, Retain,
       PassFails, Crash, Start, ReturnLeftover

\* A statement is never behind the row, nor ahead of it.
LEMMA StatementIsCurrent ==
    ASSUME MissInv, ArchiveInv, configures = 0, MakeStatement
    PROVE  /\ statement'.row \in Rows
           /\ statement'.version = rows[statement'.row]
           /\ UNCHANGED <<rows, recv, dest, copies>>
<1> DEFINE c == outbox[Min(unsent)]
<1>1. TypeInv /\ TypeOK /\ unsent \subseteq batch /\ unsent # {} /\ batch \subseteq InState("syncing")
  BY DEF MissInv, PhasesInv, TypeInv, TypeOK, ArchiveInv, MakeStatement
<1>2. Min(unsent) \in DOMAIN outbox /\ Min(unsent) \in Unsynced
  BY <1>1, NextInBatch DEF Unsynced
<1>3. c.row \in Rows /\ c.op \in {"upsert", "delete"}
  BY <1>1, <1>2, OutboxDomain
<1>4. rows[c.row] # 0 /\ (c.op = "delete" => rows[c.row] = Gone)
  BY <1>2 DEF MissInv, PhasesInv, OutboxHonest
<1>5. c.row \notin pruned
  BY <1>2 DEF ArchiveInv
<1>6. /\ statement'.row = c.row
      /\ statement'.version = IF c.op = "upsert" /\ Present(c.row) THEN rows[c.row] ELSE Gone
      /\ UNCHANGED <<rows, recv, dest, copies>>
  BY DEF MakeStatement, local, remote
<1>7. statement'.version = rows[c.row]
  <2> HIDE DEF c
  <2>1. rows[c.row] \in 0 .. Gone /\ Gone = LastVersion + 1 /\ Gone \in Nat
    BY <1>1, <1>3, VersionsAreNumbers
  <2>2. CASE c.op = "upsert" /\ Present(c.row)
    BY <1>6, <2>2
  <2>3. CASE c.op = "delete"
    BY <1>4, <1>6, <2>3
  <2>4. CASE ~Present(c.row)
    <3>1. rows[c.row] \notin 1 .. LastVersion
      BY <1>5, <2>4 DEF Present
    <3>2. \A v \in 0 .. Gone : v # 0 /\ v \notin 1 .. LastVersion => v = Gone
      <4>1. LastVersion \in Nat /\ Gone = LastVersion + 1
        BY ReplicationAssumption DEF Gone
      <4> QED BY <4>1
    <3>3. rows[c.row] = Gone
      BY <1>4, <2>1, <3>1, <3>2
    <3> QED BY <1>6, <2>4, <3>3
  <2> QED BY <1>3, <2>2, <2>3, <2>4
<1> QED
  <2> HIDE DEF c
  <2> QED BY <1>3, <1>6, <1>7

\* A statement in order moves the mirror forward, or leaves it.
LEMMA ExecutedMirrors ==
    ASSUME TypeOK, NEW s \in Statements, Executed(s), InOrder(s), rows' = rows,
           dest = FirstDest
    PROVE  [Copy!Next]_<<rows, recv[FirstDest]>>
<1>1. s.row \in Rows /\ s.version \in Nat /\ rows[s.row] \in Nat /\ dest \in Dests
      /\ recv \in [Dests -> [Rows -> Versions]] /\ recv[dest][s.row] \in Nat
  BY VersionsAreNumbers DEF TypeOK
<1>2. recv'[dest] = [recv[dest] EXCEPT ![s.row] = s.version]
  BY <1>1 DEF Executed
<1>3. CASE s.version = recv[dest][s.row]
  <2>1. recv[dest] \in [Rows -> Versions]
    BY <1>1
  <2>2. recv'[dest] = recv[dest]
    BY <1>1, <1>2, <1>3, <2>1
  <2> QED BY <2>2
<1>4. CASE s.version # recv[dest][s.row]
  <2>1. s.version \in recv[FirstDest][s.row] + 1 .. rows[s.row]
    BY <1>1, <1>4 DEF InOrder
  <2>2. Copy!Replicate(s.row)
    BY <1>2, <2>1 DEF Copy!Replicate
  <2> QED BY <1>1, <2>2 DEF Copy!Next
<1> QED BY <1>3, <1>4

\* A write of the log is a write of the mirror.
LEMMA WriteMirrors ==
    ASSUME TypeOK, Write
    PROVE  Copy!Next
<1>1. PICK r \in Rows :
        /\ rows' = [rows EXCEPT ![r] = rows'[r]]
        /\ rows'[r] \in rows[r] + 1 .. Gone
  BY WriteStep
<1>2. Copy!Write(r)
  BY <1>1, WriteLeavesAlone DEF Copy!Write
<1> QED BY <1>2 DEF Copy!Next

\* All that the refinement needs.
MirrorAll == MissInv /\ ArchiveInv /\ MirrorInv

\* Every step keeps versions in order.
LEMMA MirrorInvStep ==
    ASSUME MirrorAll, [Next]_vars
    PROVE  MirrorInv'
<1> SUFFICES ASSUME configures' = 0 PROVE MirrorInv'
  BY DEF MirrorInv
<1>1. /\ TypeInv /\ Phases /\ MissInv /\ ArchiveInv /\ TypeOK
      /\ copies \subseteq Statements /\ unsent \subseteq batch
      /\ statement # NoStatement => statement \in Statements
  BY DEF MirrorAll, MissInv, PhasesInv, TypeInv, TypeOK
<1>2. configures = 0 /\ dest' = dest
  BY <1>1, BatchStep, StayOnReceiver
<1>3. /\ \A r \in Rows : recv[dest][r] <= rows[r]
      /\ statement # NoStatement => InOrder(statement)
      /\ \A s \in copies : InOrder(s)
      /\ \A s, t \in copies : s.row = t.row => s = t
  BY <1>2 DEF MirrorAll, MirrorInv
<1>4. CASE Write
  <2>1. PICK x \in Rows :
          /\ rows' = [rows EXCEPT ![x] = rows'[x]]
          /\ rows'[x] \in rows[x] + 1 .. Gone
    BY <1>1, <1>4, WriteStep
  <2>2. \A r \in Rows : rows'[r] \in Int /\ rows[r] <= rows'[r]
    BY <1>1, <2>1, VersionsAreNumbers DEF TypeOK
  <2>3. UNCHANGED <<recv, dest, statement, copies>>
    BY <1>4, WriteLeavesAlone
  <2>4. \A r \in Rows : recv'[dest'][r] <= rows'[r]
    BY <1>1, <1>3, <2>2, <2>3, VersionsAreNumbers
  <2>5. \A s \in Statements : InOrder(s) => InOrder(s)'
    BY <1>1, <2>2, <2>3, VersionsAreNumbers DEF InOrder
  <2>6. statement' # NoStatement => InOrder(statement)'
    BY <1>1, <1>3, <2>3, <2>5 DEF InOrder
  <2>7. \A s \in copies' : InOrder(s)'
    BY <1>1, <1>3, <2>3, <2>5
  <2> QED BY <1>3, <2>3, <2>4, <2>6, <2>7 DEF MirrorInv
<1>5. CASE CopyTable
  <2>1. /\ copies' = Snapshot(table + 1) /\ UNCHANGED <<rows, recv, dest, statement>>
    BY <1>5 DEF CopyTable, local, remote
  <2>2. statement' = NoStatement
    BY <1>1, <1>5, <2>1 DEF CopyTable, Phases
  <2>3. \A s \in copies' : s.row \in Rows /\ s.version = rows[s.row]
    BY <2>1 DEF Snapshot
  <2>4. \A s \in copies' : InOrder(s)'
    BY <1>1, <1>3, <2>1, <2>3, VersionsAreNumbers DEF InOrder
  <2>5. \A s, t \in copies' : s.row = t.row => s = t
    BY <2>1 DEF Snapshot
  <2>6. \A r \in Rows : recv'[dest'][r] <= rows'[r]
    BY <1>3, <2>1
  <2> QED BY <2>2, <2>4, <2>5, <2>6 DEF MirrorInv
<1>6. CASE CopyRow
  <2>1. PICK s \in copies : Executed(s) /\ copies' = copies \ {s}
    BY <1>6 DEF CopyRow
  <2>2. UNCHANGED <<rows, dest, statement>> /\ pc = "copying"
    BY <1>6 DEF CopyRow, local
  <2>3. statement' = NoStatement
    BY <1>1, <2>2 DEF Phases
  <2>4. /\ s \in Statements /\ recv'[dest][s.row] = s.version
        /\ \A r \in Rows \ {s.row} : recv'[dest][r] = recv[dest][r]
    BY <1>1, <2>1, ExecutedTypes
  <2>5. \A r \in Rows : recv'[dest'][r] <= rows'[r]
    BY <1>3, <2>1, <2>2, <2>4 DEF InOrder
  <2>6. ASSUME NEW t \in copies' PROVE InOrder(t)'
    <3>1. t \in copies /\ t.row # s.row /\ t.row \in Rows
      BY <1>1, <1>3, <2>1, VersionsAreNumbers
    <3> QED BY <1>3, <2>2, <2>4, <3>1 DEF InOrder
  <2> QED BY <1>3, <2>1, <2>3, <2>5, <2>6 DEF MirrorInv
<1>7. CASE MakeStatement
  <2>1. /\ statement'.row \in Rows /\ statement'.version = rows[statement'.row]
        /\ UNCHANGED <<rows, recv, dest, copies>>
    BY <1>1, <1>2, <1>7, StatementIsCurrent
  <2>2. InOrder(statement)'
    BY <1>1, <1>3, <2>1, VersionsAreNumbers DEF InOrder
  <2> QED BY <1>3, <2>1, <2>2 DEF MirrorInv, InOrder
<1>8. CASE Send
  <2>1. /\ statement # NoStatement /\ statement \in Statements /\ Executed(statement)
        /\ statement' = NoStatement /\ copies' = {} /\ UNCHANGED <<rows, dest>>
    BY <1>1, <1>8 DEF Send, local, Phases
  <2>2. /\ recv'[dest][statement.row] = statement.version
        /\ \A r \in Rows \ {statement.row} : recv'[dest][r] = recv[dest][r]
    BY <1>1, <2>1, ExecutedTypes
  <2>3. \A r \in Rows : recv'[dest'][r] <= rows'[r]
    BY <1>3, <2>1, <2>2 DEF InOrder
  <2> QED BY <2>1, <2>3 DEF MirrorInv
<1>9. ASSUME ~Write, ~CopyRow, ~Send, copies' \subseteq copies,
             statement' = statement \/ statement' = NoStatement
      PROVE  MirrorInv'
  <2>1. UNCHANGED <<rows, recv, dest>>
    BY <1>2, <1>9, OnlyWriteWrites, OnlySendingSends
  <2> QED BY <1>3, <1>9, <2>1 DEF MirrorInv, InOrder
<1>10. CASE BeginPass \/ Copied \/ WriteMarker \/ Acknowledge \/ Confirm \/ TakeBatch
            \/ ConfirmBatch \/ Start \/ ReturnLeftover \/ UNCHANGED vars
  <2>1. copies' = copies /\ statement' = statement
    BY <1>10 DEF BeginPass, Copied, WriteMarker, Acknowledge, Confirm, TakeBatch, ConfirmBatch,
                 Start, ReturnLeftover, vars, worker
  <2> QED BY <2>1, <1>4, <1>6, <1>8, <1>9
<1>11. CASE Retain \/ PassFails \/ Crash
  <2>1. copies' = {} /\ statement' = NoStatement
    BY <1>11 DEF Retain, PassFails, Crash, PassOver
  <2> QED BY <2>1, <1>4, <1>6, <1>8, <1>9
<1>12. ASSUME NEW d \in Dests, Configure(d) PROVE FALSE
  BY <1>2, <1>12 DEF Configure
<1> QED BY <1>4, <1>5, <1>6, <1>7, <1>8, <1>10, <1>11, <1>12 DEF Next, Work

\* Every step is a step of Mirror or leaves it alone.
LEMMA MirrorStep ==
    ASSUME MirrorAll, configures = 0, configures' = 0, [Next]_vars
    PROVE  [Copy!Next]_<<rows, recv[FirstDest]>>
<1>1. /\ TypeOK /\ copies \subseteq Statements
      /\ statement # NoStatement => statement \in Statements
      /\ dest = FirstDest
  BY DEF MirrorAll, MissInv, PhasesInv, TypeInv, TypeOK, FreshInv, FirstReceiver
<1>2. /\ statement # NoStatement => InOrder(statement)
      /\ \A s \in copies : InOrder(s)
  BY DEF MirrorAll, MirrorInv
<1>3. CASE Write
  BY <1>1, <1>3, WriteMirrors
<1>4. CASE CopyRow
  <2>1. PICK s \in copies : Executed(s)
    BY <1>4 DEF CopyRow
  <2>2. rows' = rows
    BY <1>4 DEF CopyRow, local
  <2> QED BY <1>1, <1>2, <2>1, <2>2, ExecutedMirrors
<1>5. CASE Send
  <2>1. statement # NoStatement /\ Executed(statement) /\ rows' = rows
    BY <1>5 DEF Send, local
  <2>2. PICK s \in Statements : s = statement
    BY <1>1, <2>1
  <2>3. Executed(s) /\ InOrder(s)
    BY <1>2, <2>1, <2>2 DEF Executed, InOrder
  <2> QED BY <1>1, <2>1, <2>3, ExecutedMirrors
<1>6. CASE ~Write /\ ~CopyRow /\ ~Send
  BY <1>6, OnlyWriteWrites, OnlySendingSends
<1> QED BY <1>3, <1>4, <1>5, <1>6

\* Versions are in order in every reachable state.
LEMMA MirrorHolds == Spec => []MirrorAll
<1>1. Init => MirrorInv
  BY VersionsAreNumbers, TypeInit DEF Init, MirrorInv, TypeInv
<1>2. MirrorAll /\ [Next]_vars => MirrorInv'
  BY MirrorInvStep
<1>3. MissInv /\ ArchiveInv /\ MirrorInv <=> MirrorAll
  BY DEF MirrorAll
<1> QED BY <1>1, <1>2, <1>3, ArchiveHolds, PTL DEF Spec

\* In a run that does not use the settings page, the replication implements
\* Mirror: the receiver's copy of every row moves forward along the row's life,
\* never back and never ahead, through batches, retries and restarts.
THEOREM CopyStaysInOrder == Spec /\ [](configures = 0) => CopyInOrder
<1>1. Init => Copy!Init
  BY ReplicationAssumption DEF Init, Copy!Init
<1>2. MirrorAll /\ configures = 0 /\ (configures = 0)' /\ [Next]_vars
      => [Copy!Next]_<<rows, recv[FirstDest]>>
  BY MirrorStep
<1> QED BY <1>1, <1>2, MirrorHolds, PTL DEF Spec, CopyInOrder, Copy!Spec
=============================================================================
