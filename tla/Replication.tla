----------------------------- MODULE Replication -----------------------------
(***************************************************************************)
(* Incremental replication (internal/cloudsync) of the local database to a *)
(* receiver, through the outbox cloud_sync_changes its triggers fill.      *)
(*                                                                         *)
(* One pass of the scheduler bootstraps a receiver that has no marker,     *)
(* confirms it, sends the pending changes batch by batch, and prunes what  *)
(* is acknowledged.  The grain of atomicity is one local transaction or    *)
(* one request to the receiver; the log goes on writing between any two.   *)
(*                                                                         *)
(* Data.  A row's content is its version: 0 before it is written, 1, 2,    *)
(* ... as it is updated, Gone once it is deleted.  A receiver's copy has   *)
(* the version last sent; Gone there is a row a DELETE was sent for.  Rows *)
(* are inserted with ascending ids per table.  Foreign keys are left out:  *)
(* a statement a receiver rejects is a request that fails.                 *)
(*                                                                         *)
(* SafeToSync may say no at any time: PassFails covers it, whatever the log  *)
(* is doing.                                                               *)
(***************************************************************************)
EXTENDS Integers, Sequences, FiniteSets, FiniteSetsExt

CONSTANTS
    Rows,           \* the rows of the replicated tables
    TableOf,        \* row -> the position of its table in bootstrapTables
    LastVersion,    \* bound: the versions of a row
    Dests,          \* receivers the worker may be pointed at
    FirstDest,      \* the receiver configured at first
    BatchSize,      \* batch_size
    MaxChanges,     \* bound: entries of the outbox
    MaxFaults,      \* bound: failed passes and crashes
    MaxConfigures,  \* bound: uses of the settings page
    ReturnsFail     \* whether the return of a batch to pending may fail

ASSUME ReplicationAssumption ==
    /\ Rows \subseteq Nat /\ IsFiniteSet(Rows) /\ Rows # {}
    /\ TableOf \in [Rows -> Nat \ {0}]
    /\ LastVersion \in Nat \ {0}
    /\ FirstDest \in Dests
    /\ BatchSize \in Nat \ {0}
    /\ ReturnsFail \in BOOLEAN
    /\ MaxChanges \in Nat /\ MaxFaults \in Nat /\ MaxConfigures \in Nat

VARIABLES
    rows,       \* row -> its last version
    pruned,     \* rows retention has removed from the local tables
    outbox,     \* cloud_sync_changes, by sequence
    confirmed,  \* schema_meta: cloud_sync_bootstrap_confirmed
    dest,       \* the configured receiver
    recv,       \* receiver -> row -> the version it holds
    marker,     \* receivers with the initial_bootstrap marker
    pc,         \* where the worker is
    highWater,  \* the last sequence the bootstrap covers
    table,      \* the table the bootstrap copies
    copies,     \* what was read of that table and is still to be sent
    batch,      \* sequences the worker has marked syncing
    unsent,     \* those of the batch it has not sent yet
    statement,  \* the statement to be sent next
    leftover,   \* batches of cancelled workers, not returned to pending yet
    faults,     \* faults so far
    configures  \* uses of the settings page so far

local    == <<rows, pruned, outbox, confirmed>>
remote   == <<recv, marker>>
worker   == <<pc, highWater, table, copies, batch, unsent, statement>>
counters == <<faults, configures>>
vars     == <<local, dest, remote, worker, leftover, counters>>

Gone == LastVersion + 1

Versions == 0 .. Gone

Sequences == 1 .. MaxChanges

NoStatement == [row |-> 0, version |-> 0]

Statements == [row : Rows, version : Versions]

Entries == [row : Rows, op : {"upsert", "delete"},
            state : {"pending", "syncing", "synced", "cleaned"}]

\* "waiting": between passes; "copying", "marking", "acking": EnsureBootstrap;
\* "confirming": the rest of syncOnce before SyncIncremental, which is
\* "syncing"; "retaining": after a successful pass.
Labels == {"down", "waiting", "copying", "marking", "acking", "confirming",
           "syncing", "retaining"}

LastTable == Max({TableOf[r] : r \in Rows})

TypeOK ==
    /\ rows \in [Rows -> Versions]
    /\ pruned \subseteq Rows
    /\ outbox \in Seq(Entries) /\ Len(outbox) <= MaxChanges
    /\ confirmed \in BOOLEAN
    /\ dest \in Dests
    /\ recv \in [Dests -> [Rows -> Versions]]
    /\ marker \subseteq Dests
    /\ pc \in Labels
    /\ highWater \in 0 .. MaxChanges
    /\ table \in 0 .. LastTable
    /\ copies \subseteq Statements
    /\ batch \subseteq Sequences /\ unsent \subseteq batch
    /\ leftover \subseteq Sequences
    /\ statement \in Statements \cup {NoStatement}
    /\ faults \in 0 .. MaxFaults
    /\ configures \in 0 .. MaxConfigures

Init ==
    /\ rows = [r \in Rows |-> 0]
    /\ pruned = {}
    /\ outbox = <<>>
    /\ confirmed = FALSE
    /\ dest = FirstDest
    /\ recv = [d \in Dests |-> [r \in Rows |-> 0]]
    /\ marker = {}
    /\ pc = "down"
    /\ highWater = 0 /\ table = 0 /\ copies = {}
    /\ batch = {} /\ unsent = {} /\ statement = NoStatement
    /\ leftover = {}
    /\ faults = 0 /\ configures = 0

-----------------------------------------------------------------------------
(* The log's writes.  The triggers add to the outbox in the same           *)
(* transaction.                                                            *)

Present(r) == rows[r] \in 1 .. LastVersion /\ r \notin pruned

Change(r, op) == [row |-> r, op |-> op, state |-> "pending"]

Insert(r) ==
    /\ rows[r] = 0
    /\ \A q \in Rows : TableOf[q] = TableOf[r] /\ q < r => rows[q] # 0
    /\ rows' = [rows EXCEPT ![r] = 1]
    /\ outbox' = Append(outbox, Change(r, "upsert"))

Update(r) ==
    /\ Present(r) /\ rows[r] < LastVersion
    /\ rows' = [rows EXCEPT ![r] = @ + 1]
    /\ outbox' = Append(outbox, Change(r, "upsert"))

Delete(r) ==
    /\ Present(r)
    /\ rows' = [rows EXCEPT ![r] = Gone]
    /\ outbox' = Append(outbox, Change(r, "delete"))

Write ==
    /\ pc # "down" /\ Len(outbox) < MaxChanges
    /\ \E r \in Rows : Insert(r) \/ Update(r) \/ Delete(r)
    /\ UNCHANGED <<pruned, confirmed, dest, remote, worker, leftover, counters>>

-----------------------------------------------------------------------------
(* The outbox. *)

InState(s) == {q \in DOMAIN outbox : outbox[q].state = s}

Unsynced == InState("pending") \cup InState("syncing")

\* markBatch: the entries of B that still exist get state s.
Marked(B, s) ==
    [q \in DOMAIN outbox |->
        IF q \in B /\ outbox[q].state # "cleaned"
        THEN [outbox[q] EXCEPT !.state = s] ELSE outbox[q]]

\* pendingBatch: the first BatchSize pending entries.
PendingBatch ==
    {q \in InState("pending") :
        Cardinality({p \in InState("pending") : p < q}) < BatchSize}

-----------------------------------------------------------------------------
(* The worker. *)

\* The pass ends here; what is written stays written.
PassOver ==
    /\ pc' = "waiting"
    /\ highWater' = 0 /\ table' = 0 /\ copies' = {}
    /\ batch' = {} /\ unsent' = {} /\ statement' = NoStatement

\* The receiver executes a statement.
Executed(s) == recv' = [recv EXCEPT ![dest][s.row] = s.version]

Snapshot(t) ==
    {[row |-> r, version |-> rows[r]] : r \in {q \in Rows : Present(q) /\ TableOf[q] = t}}

\* Mutant: the high-water mark is one too high.
BeginPassMutOff ==
    /\ pc = "waiting"
    /\ IF dest \in marker
       THEN pc' = "confirming" /\ UNCHANGED <<highWater, table>>
       ELSE /\ pc' = "copying"
            /\ highWater' = Len(outbox) + 1
            /\ table' = 0
    /\ UNCHANGED <<local, dest, remote, copies, batch, unsent, statement, leftover,
                   counters>>

\* A receiver that has the marker is not bootstrapped again.
BeginPass ==
    /\ pc = "waiting"
    /\ IF dest \in marker
       THEN pc' = "confirming" /\ UNCHANGED <<highWater, table>>
       ELSE /\ pc' = "copying"
            /\ highWater' = Max({q \in DOMAIN outbox : outbox[q].state # "cleaned"} \cup {0})
            /\ table' = 0
    /\ UNCHANGED <<local, dest, remote, copies, batch, unsent, statement, leftover,
                   counters>>

\* pushTable: the table is read by one SELECT ...
CopyTable ==
    /\ pc = "copying" /\ copies = {} /\ table < LastTable
    /\ table' = table + 1
    /\ copies' = Snapshot(table + 1)
    /\ UNCHANGED <<local, dest, remote, pc, highWater, batch, unsent, statement,
                   leftover, counters>>

\* ... and its rows are sent by several goroutines, in any order.
CopyRow ==
    /\ pc = "copying"
    /\ \E s \in copies : Executed(s) /\ copies' = copies \ {s}
    /\ UNCHANGED <<local, dest, marker, pc, highWater, table, batch, unsent,
                   statement, leftover, counters>>

Copied ==
    /\ pc = "copying" /\ copies = {} /\ table = LastTable
    /\ pc' = "marking"
    /\ UNCHANGED <<local, dest, remote, highWater, table, copies, batch, unsent,
                   statement, leftover, counters>>

WriteMarker ==
    /\ pc = "marking"
    /\ marker' = marker \cup {dest}
    /\ pc' = "acking"
    /\ UNCHANGED <<local, dest, recv, highWater, table, copies, batch, unsent,
                   statement, leftover, counters>>

\* Mutant: everything in the outbox counts as copied.
AcknowledgeMutAll ==
    /\ pc = "acking"
    /\ outbox' = Marked(DOMAIN outbox, "synced")
    /\ pc' = "confirming"
    /\ UNCHANGED <<rows, pruned, confirmed, dest, remote, highWater, table, copies,
                   batch, unsent, statement, leftover, counters>>

Acknowledge ==
    /\ pc = "acking"
    /\ outbox' = Marked(1 .. highWater, "synced")
    /\ pc' = "confirming"
    /\ UNCHANGED <<rows, pruned, confirmed, dest, remote, highWater, table, copies,
                   batch, unsent, statement, leftover, counters>>

\* syncOnce after EnsureBootstrap; pulling the settings touches none of these
\* tables.
Confirm ==
    /\ pc = "confirming"
    /\ confirmed' = TRUE
    /\ pc' = "syncing"
    /\ UNCHANGED <<rows, pruned, outbox, dest, remote, highWater, table, copies,
                   batch, unsent, statement, leftover, counters>>

\* SyncIncremental: one turn of its outer loop takes a batch ...
TakeBatch ==
    /\ pc = "syncing" /\ batch = {}
    /\ IF PendingBatch = {}
       THEN pc' = "retaining" /\ UNCHANGED <<outbox, batch, unsent>>
       ELSE /\ batch' = PendingBatch /\ unsent' = PendingBatch
            /\ outbox' = Marked(PendingBatch, "syncing")
            /\ UNCHANGED pc
    /\ UNCHANGED <<rows, pruned, confirmed, dest, remote, highWater, table, copies,
                   statement, leftover, counters>>

\* ... makes a statement of its next change from the row as it is now: a row
\* that is not there any more is deleted ...
MakeStatement ==
    /\ pc = "syncing" /\ unsent # {} /\ statement = NoStatement
    /\ LET change == outbox[Min(unsent)] IN
         statement' =
            [row |-> change.row,
             version |-> IF change.op = "upsert" /\ Present(change.row)
                         THEN rows[change.row] ELSE Gone]
    /\ UNCHANGED <<local, dest, remote, pc, highWater, table, copies, batch, unsent,
                   leftover, counters>>

\* ... sends it ...
Send ==
    /\ pc = "syncing" /\ statement # NoStatement
    /\ Executed(statement)
    /\ unsent' = unsent \ {Min(unsent)}
    /\ statement' = NoStatement
    /\ UNCHANGED <<local, dest, marker, pc, highWater, table, copies, batch,
                   leftover, counters>>

\* ... and confirms the batch once all of it is sent.
ConfirmBatch ==
    /\ pc = "syncing" /\ batch # {} /\ unsent = {}
    /\ outbox' = Marked(batch, "synced")
    /\ batch' = {}
    /\ UNCHANGED <<rows, pruned, confirmed, dest, remote, pc, highWater, table,
                   copies, unsent, statement, leftover, counters>>

\* Mutant: the entries of the batch are not returned.
PassFailsMutKeeps ==
    /\ pc \in {"copying", "marking", "acking", "confirming", "syncing"}
    /\ faults < MaxFaults /\ faults' = faults + 1
    /\ PassOver
    /\ UNCHANGED <<local, dest, remote, leftover, configures>>

(***************************************************************************)
(* A request fails for good, the vehicle is busy or the local database is: *)
(* the pass ends, and a batch goes back to pending.  The error of that     *)
(* return is ignored: if it fails, the batch stays syncing until the next  *)
(* Recover.  (A request that took effect and whose answer was lost is the  *)
(* request followed by this.)                                              *)
(***************************************************************************)
PassFails ==
    /\ pc \in {"copying", "marking", "acking", "confirming", "syncing"}
    /\ faults < MaxFaults /\ faults' = faults + 1
    /\ \/ outbox' = Marked(batch, "pending")
       \/ ReturnsFail /\ UNCHANGED outbox
    /\ PassOver
    /\ UNCHANGED <<rows, pruned, confirmed, dest, remote, leftover, configures>>

(***************************************************************************)
(* PruneAcknowledged, one transaction: of the rows that are old and closed *)
(* any may go, but never the newest of a table.  Nothing goes while a      *)
(* change is not acknowledged.  CleanupAcknowledged then removes the       *)
(* oldest acknowledged entries.                                            *)
(***************************************************************************)
Prunable ==
    {r \in Rows : Present(r) /\ \E q \in Rows :
                    Present(q) /\ TableOf[q] = TableOf[r] /\ q > r}

\* Mutant: pending changes are not looked for.
RetainMutUnchecked ==
    /\ pc = "retaining"
    /\ \E S \in SUBSET Prunable, n \in 0 .. Len(outbox) :
         /\ S # {} => confirmed
         /\ pruned' = pruned \cup S
         /\ outbox' = Marked(1 .. n \cap InState("synced"), "cleaned")
    /\ PassOver
    /\ UNCHANGED <<rows, confirmed, dest, remote, leftover, counters>>

\* Mutant: the delete triggers fire for pruned rows too.
RetainMutTriggers ==
    /\ pc = "retaining"
    /\ \/ /\ Unsynced = {} /\ confirmed /\ Len(outbox) < MaxChanges
          /\ \E r \in Prunable :
               /\ pruned' = pruned \cup {r}
               /\ outbox' = Append(outbox, Change(r, "delete"))
       \/ UNCHANGED <<pruned, outbox>>
    /\ PassOver
    /\ UNCHANGED <<rows, confirmed, dest, remote, leftover, counters>>

Retain ==
    /\ pc = "retaining"
    /\ \E S \in SUBSET Prunable, n \in 0 .. Len(outbox) :
         /\ S # {} => Unsynced = {} /\ confirmed
         /\ pruned' = pruned \cup S
         /\ outbox' = Marked(1 .. n \cap InState("synced"), "cleaned")
    /\ PassOver
    /\ UNCHANGED <<rows, confirmed, dest, remote, leftover, counters>>

-----------------------------------------------------------------------------
(* The process and the settings page. *)

Crash ==
    /\ pc # "down"
    /\ faults < MaxFaults /\ faults' = faults + 1
    /\ pc' = "down"
    /\ highWater' = 0 /\ table' = 0 /\ copies' = {}
    /\ batch' = {} /\ unsent' = {} /\ statement' = NoStatement
    /\ leftover' = {}
    /\ UNCHANGED <<local, dest, remote, configures>>

\* Mutant: no Recover.
StartMutForgets ==
    /\ pc = "down"
    /\ pc' = "waiting"
    /\ UNCHANGED <<local, dest, remote, highWater, table, copies, batch, unsent,
                   statement, leftover, counters>>

\* Scheduler.Start in a new process: Recover, then the loop.
Start ==
    /\ pc = "down"
    /\ outbox' = Marked(InState("syncing"), "pending")
    /\ pc' = "waiting"
    /\ UNCHANGED <<rows, pruned, confirmed, dest, remote, highWater, table, copies,
                   batch, unsent, statement, leftover, counters>>

(***************************************************************************)
(* Configure cancels the worker and starts another, which recovers,        *)
(* without waiting for the first to end: the deferred return of its batch  *)
(* to pending comes when it comes.                                         *)
(***************************************************************************)
Configure(d) ==
    /\ pc # "down"
    /\ configures < MaxConfigures /\ configures' = configures + 1
    /\ dest' = d
    /\ leftover' = leftover \cup batch
    /\ outbox' = Marked(InState("syncing"), "pending")
    /\ PassOver
    /\ UNCHANGED <<rows, pruned, confirmed, remote, faults>>

ReturnLeftover ==
    /\ leftover # {}
    /\ outbox' = Marked(leftover, "pending")
    /\ leftover' = {}
    /\ UNCHANGED <<rows, pruned, confirmed, dest, remote, worker, counters>>

Work ==
    \/ BeginPass \/ CopyTable \/ CopyRow \/ Copied \/ WriteMarker \/ Acknowledge
    \/ Confirm \/ TakeBatch \/ MakeStatement \/ Send \/ ConfirmBatch \/ Retain

Next ==
    \/ Write
    \/ Work
    \/ PassFails
    \/ Crash
    \/ Start
    \/ \E d \in Dests : Configure(d)
    \/ ReturnLeftover

Spec == Init /\ [][Next]_vars

(***************************************************************************)
(* The scheduler's loop goes on as long as the process lives, and a dead   *)
(* process is started again.  Faults are bounded: in the end the receiver  *)
(* can be reached and the car is parked.                                   *)
(***************************************************************************)
FairSpec == Spec /\ WF_vars(Work) /\ WF_vars(Start) /\ WF_vars(ReturnLeftover)

-----------------------------------------------------------------------------
(* Safety, whatever requests fail and whenever the process dies. *)

\* A committed row is never missed: once the receiver is bootstrapped, a row it
\* lacks or has an old version of has a change in the outbox that is still to
\* be sent (the comment on cloud_sync_changes).
NothingMissed ==
    \A r \in Rows :
        dest \in marker /\ Present(r) /\ recv[dest][r] # rows[r]
        => \E q \in Unsynced : outbox[q].row = r

\* What retention removed locally, the receiver has in its last version, for
\* good (the comment on PruneAcknowledged).
ArchiveKept == \A r \in pruned : recv[dest][r] = rows[r]

\* No change is stranded as long as no return of a batch fails: one marked
\* syncing is in the batch the worker will confirm or return (SyncIncremental,
\* Recover).
NoneStranded == pc # "down" => InState("syncing") \subseteq batch

\* The first receiver's copy moves forward along the log's life of each row,
\* never back and never ahead (Mirror).
Copy == INSTANCE Mirror WITH latest <- rows, copy <- recv[FirstDest]

CopyInOrder == Copy!Spec

-----------------------------------------------------------------------------
(* Liveness, once faults have ceased. *)

\* Every change is acknowledged in the end.
OutboxDrains == <>[](Unsynced = {})

\* The receiver ends up with the last version of every row the log still has.
MirrorCatchesUp ==
    <>[](\A r \in Rows : Present(r) => recv[dest][r] = rows[r])
=============================================================================
