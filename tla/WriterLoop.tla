----------------------------- MODULE WriterLoop -----------------------------
(***************************************************************************)
(* The ingestion actor (crates/ingestion, `writer_loop`): the one thread   *)
(* that owns the catalog writer, serves the commands of every caller one   *)
(* after the other, and micro-batches raw ingests per (tenant, table).     *)
(*                                                                         *)
(* A row carries the tenant that sent it, its table, the column list it    *)
(* was sent with and an identity; (system, entity) is one table, the       *)
(* engine's own tables (feature_store, semantic_catalog, suppression,      *)
(* audience_snapshot) are the table Engine.  The key values are left open: *)
(* any of the rows a command brings may share a key with each other or     *)
(* with stored rows of the table, and a delete may name the keys of any    *)
(* rows.  The catalog is, for each row, how often it was committed and the *)
(* tenant_id it was stamped with; an upsert that matches several stored    *)
(* rows leaves its row in the place of each, which counts as one copy.     *)
(* What a failed call had already committed is any proper subset of its    *)
(* rows; a crash in the middle of a call is such a failure followed by a   *)
(* crash.  The command channel is abstracted: the actor serves any command *)
(* its callers may send, and the command is chosen once flush_expired,     *)
(* which does not depend on it, is done.                                   *)
(***************************************************************************)
EXTENDS Integers, FiniteSets

CONSTANTS Tenants,        \* callers' tenants
          DefaultTenant,  \* config.tenant_id, set on the writer at start
          Tables,         \* raw_<system>_<entity>
          Engine,         \* the engine's own tables
          Shapes,         \* column lists a table may be ingested with
          FlushRows,      \* MicroBatchConfig::flush_rows (0: no buffering)
          AgeFlush,       \* MicroBatchConfig::flush_age_secs > 0
          EmptyCommands,  \* bound: commands without rows are sent too
          MaxRows,        \* bound: rows sent
          MaxFaults,      \* bound: writer calls that fail
          MaxCrashes      \* bound: crashes of the process

ASSUME WriterLoopAssumption ==
    /\ DefaultTenant \in Tenants
    /\ Tables # {} /\ Shapes # {} /\ Engine \notin Tables
    /\ FlushRows \in Nat
    /\ AgeFlush \in BOOLEAN
    /\ EmptyCommands \in BOOLEAN
    /\ MaxRows \in Nat /\ MaxFaults \in Nat /\ MaxCrashes \in Nat

AnyTable == Tables \cup {Engine}
AnyShape == CHOOSE s \in Shapes : TRUE

Row == [tenant : Tenants, table : AnyTable, cols : Shapes, id : 1..MaxRows]
Key == Tenants \X Tables

VARIABLES
    pending,    \* pending[k]: the PendingBatch under key k, if `open`
    tenant,     \* Writer::tenant, stamped on every committed row
    known,      \* tables the compaction sweep covers
    phase,      \* what the loop is doing
    cmd,        \* the command that is half done
    todo,       \* keys the current flush_some has still to flush
    copies,     \* copies[r]: committed copies of row r
    stamp,      \* stamp[r]: tenant_id of the committed copies of r
    stopping,   \* IngestionHandle::shutdown was called
    used,       \* identities of the rows sent so far
    acked,      \* history: rows whose write was answered Ok
    gone,       \* history: rows deleted, overwritten or skipped by an upsert, of a
                \* failed call, or in memory at a crash
    faults, crashes

catalogVars == <<copies, stamp, gone, faults>>
loopVars    == <<phase, cmd, todo>>
vars == <<pending, tenant, known, loopVars, catalogVars, stopping, used, acked, crashes>>

Command ==
    [op : {"none", "IngestRaw", "CompactAll", "Shutdown", "Disconnected"},
     tenant : Tenants, table : Tables, cols : Shapes, rows : SUBSET Row]

Batch == [open : BOOLEAN, cols : Shapes, rows : SUBSET Row, aged : BOOLEAN]

\* Types of the variables.
TypeOK ==
    /\ pending \in [Key -> Batch]
    /\ tenant \in Tenants
    /\ known \subseteq Tables
    /\ phase \in {"idle", "flush", "drain", "stopped", "exited"}
    /\ cmd \in Command
    /\ todo \subseteq Key
    /\ copies \in [Row -> Nat]
    /\ stamp \in [Row -> Tenants]
    /\ stopping \in BOOLEAN
    /\ used \subseteq 1..MaxRows
    /\ acked \subseteq Row /\ gone \subseteq Row
    /\ faults \in Nat /\ crashes \in Nat

Simple(op) ==
    [op |-> op, tenant |-> DefaultTenant, table |-> CHOOSE t \in Tables : TRUE,
     cols |-> AnyShape, rows |-> {}]
Idle == Simple("none")

Closed    == [open |-> FALSE, cols |-> AnyShape, rows |-> {}, aged |-> FALSE]
NoBatches == [k \in Key |-> Closed]

Init ==
    /\ pending = NoBatches
    /\ tenant = DefaultTenant
    /\ known = {}
    /\ phase = "idle" /\ cmd = Idle /\ todo = {}
    /\ copies = [r \in Row |-> 0]
    /\ stamp = [r \in Row |-> DefaultTenant]
    /\ stopping = FALSE
    /\ used = {}
    /\ acked = {} /\ gone = {}
    /\ faults = 0 /\ crashes = 0

-----------------------------------------------------------------------------
OpenKeys == {k \in Key : pending[k].open}
Buffered == UNION {pending[k].rows : k \in Key}

\* Outcomes of a writer call on `rows`: all of them done, or an error, after
\* some of its statements committed if the call is not one transaction.
Outcomes(rows, atomic) ==
    {[ok |-> TRUE, done |-> rows], [ok |-> FALSE, done |-> {}]}
        \cup {[ok |-> FALSE, done |-> d] : d \in IF atomic THEN {} ELSE (SUBSET rows) \ {rows}}

Fault(o) ==
    /\ o.ok \/ faults < MaxFaults
    /\ faults' = IF o.ok THEN faults ELSE faults + 1

\* The writer's call itself: the rows committed are stamped with tenant t.
Commit(rows, t, o) ==
    /\ Fault(o)
    /\ copies' = [r \in Row |-> IF r \in o.done THEN copies[r] + 1 ELSE copies[r]]
    /\ stamp' = [r \in Row |-> IF r \in o.done THEN t ELSE stamp[r]]
    /\ gone' = IF o.ok THEN gone ELSE gone \cup rows

\* Faulty variants: the batch is stamped with the writer's current tenant;
\* the batch stays in the buffer; the table is not registered.
flush_batch_CurrentTenant(k, rows, o) ==
    /\ tenant' = tenant
    /\ Commit(rows, tenant, o)
    /\ pending' = [pending EXCEPT ![k] = Closed]
    /\ known' = IF o.ok THEN known \cup {k[2]} ELSE known

flush_batch_Kept(k, rows, o) ==
    /\ tenant' = k[1]
    /\ Commit(rows, k[1], o)
    /\ pending' = pending
    /\ known' = IF o.ok THEN known \cup {k[2]} ELSE known

flush_batch_Unregistered(k, rows, o) ==
    /\ tenant' = k[1]
    /\ Commit(rows, k[1], o)
    /\ pending' = [pending EXCEPT ![k] = Closed]
    /\ known' = known

\* The batch was taken out of `pending`; the writer is set to the batch's own
\* tenant, and the table is known once the insert succeeded.
flush_batch(k, rows, o) ==
    /\ tenant' = k[1]
    /\ Commit(rows, k[1], o)
    /\ pending' = [pending EXCEPT ![k] = Closed]
    /\ known' = IF o.ok THEN known \cup {k[2]} ELSE known

-----------------------------------------------------------------------------
(***************************************************************************)
(* One round of the loop: recv_timeout returns (with a command or after    *)
(* AGE_TICK), the expired batches are flushed, the command is served.      *)
(***************************************************************************)
\* Faulty variant: nothing is ever old enough.
Expired_Never == {}

\* flush_expired: the batches whose age reached flush_age_secs.
Expired == IF AgeFlush THEN {k \in OpenKeys : pending[k].aged} ELSE {}

Wake ==
    /\ phase = "idle"
    /\ todo' = Expired
    /\ phase' = "flush"
    /\ UNCHANGED <<pending, tenant, known, cmd, catalogVars, stopping, used, acked, crashes>>

\* flush_some, one batch at a time.  The map's order is not modelled: the
\* batches go out in any order.
FlushNext(k) ==
    /\ k \in todo
    /\ \E o \in Outcomes(pending[k].rows, FALSE) : flush_batch(k, pending[k].rows, o)
    /\ todo' = todo \ {k}
    /\ UNCHANGED <<phase, cmd, stopping, used, acked, crashes>>

Flushed == phase = "flush" /\ todo = {}

\* The loop can take a new command of a caller: Cmd::Shutdown is the last one.
Ready == Flushed /\ cmd = Idle /\ ~stopping

\* The command is served and its rows answered.
Finish(rows, ok) ==
    /\ phase' = "idle"
    /\ cmd' = Idle
    /\ used' = used \cup {r.id : r \in rows}
    /\ acked' = IF ok THEN acked \cup rows ELSE acked
    /\ UNCHANGED <<todo, stopping, crashes>>

\* The rows of a new command: any number of rows not sent before.
NewRows(t, tb, c) ==
    {{[tenant |-> t, table |-> tb, cols |-> c, id |-> i] : i \in (1..n) \ used} : n \in 0..MaxRows}
        \ (IF EmptyCommands THEN {} ELSE {{}})

\* The timeout: no command.
HandleTimeout ==
    /\ Flushed /\ cmd = Idle
    /\ UNCHANGED <<pending, tenant, known, catalogVars>>
    /\ Finish({}, TRUE)

-----------------------------------------------------------------------------
(***************************************************************************)
(* Cmd::IngestRaw { tenant: t, (system, entity): tb, columns: c, rows }.   *)
(***************************************************************************)
\* The ingests that can be served now: a new one, or the half done one.
Ingest(t, tb, c, rows) ==
    \/ Ready /\ rows \in NewRows(t, tb, c)
    \/ /\ Flushed
       /\ cmd = [op |-> "IngestRaw", tenant |-> t, table |-> tb, cols |-> c, rows |-> rows]

\* Faulty variant: a change of columns is not noticed.
SchemaChange_Missed(k, c) == FALSE

SchemaChange(k, c) == pending[k].open /\ pending[k].cols # c

\* Faulty variant: the old batch is replaced without being flushed.
FlushOldSchema_Dropped(t, tb, c, rows) ==
    /\ FlushRows # 0 /\ Ready /\ rows \in NewRows(t, tb, c)
    /\ SchemaChange(<<t, tb>>, c)
    /\ pending' = [pending EXCEPT ![<<t, tb>>] = Closed]
    /\ cmd' = [op |-> "IngestRaw", tenant |-> t, table |-> tb, cols |-> c, rows |-> rows]
    /\ UNCHANGED <<tenant, known, catalogVars, phase, todo, stopping, used, acked, crashes>>

\* "buffered rows must not mix shapes": the old batch goes out first; if that
\* fails the error is only logged.
FlushOldSchema(t, tb, c, rows) ==
    /\ FlushRows # 0 /\ Ready /\ rows \in NewRows(t, tb, c)
    /\ SchemaChange(<<t, tb>>, c)
    /\ \E o \in Outcomes(pending[<<t, tb>>].rows, FALSE) :
         flush_batch(<<t, tb>>, pending[<<t, tb>>].rows, o)
    /\ cmd' = [op |-> "IngestRaw", tenant |-> t, table |-> tb, cols |-> c, rows |-> rows]
    /\ UNCHANGED <<phase, todo, stopping, used, acked, crashes>>

Full(rows) == Cardinality(rows) >= FlushRows

\* The rows are added to the open batch, or to a new one, and answered Ok.
IngestBuffered(t, tb, c, rows) ==
    LET k   == <<t, tb>>
        all == pending[k].rows \cup rows
    IN  /\ FlushRows # 0 /\ Ingest(t, tb, c, rows)
        /\ ~SchemaChange(k, c)
        /\ ~Full(all)
        /\ tenant' = t
        /\ pending' = [pending EXCEPT ![k] =
                         [open |-> TRUE, cols |-> c, rows |-> all, aged |-> @.aged]]
        /\ UNCHANGED <<known, catalogVars>>
        /\ Finish(rows, TRUE)

\* The threshold is reached: the whole batch goes out and its outcome is the
\* answer to this caller, also for the rows of earlier ones.  With flush_rows
\* = 0 nothing is ever buffered and this is the path without micro-batching.
IngestFlushed(t, tb, c, rows) ==
    LET k   == <<t, tb>>
        all == pending[k].rows \cup rows
    IN  /\ Ingest(t, tb, c, rows)
        /\ ~SchemaChange(k, c)
        /\ Full(all)
        /\ \E o \in Outcomes(all, FALSE) : flush_batch(k, all, o) /\ Finish(rows, o.ok)

(***************************************************************************)
(* The commands that go to the writer at once.                             *)
(***************************************************************************)
\* One call for the command's `rows`: o.done of them are committed, stored rows
\* `over` disappear, and what of `rows` was not committed is gone, or all of
\* them with the error.
CallWriter(t, tb, rows, o, over) ==
    /\ tenant' = t
    /\ Fault(o)
    /\ copies' = [r \in Row |-> IF r \in over THEN 0
                               ELSE IF r \in o.done THEN copies[r] + 1 ELSE copies[r]]
    /\ stamp' = [r \in Row |-> IF r \in o.done THEN t ELSE stamp[r]]
    /\ gone' = gone \cup over \cup (IF o.ok THEN rows \ o.done ELSE rows)
    /\ known' = IF o.ok /\ tb # Engine THEN known \cup {tb} ELSE known
    /\ Finish(rows, o.ok)
    /\ UNCHANGED pending

\* Faulty variant: every written table is registered for compaction.
WriteEngineTable_Registered(t) ==
    /\ Ready
    /\ tenant' = t
    /\ known' = known \cup {Engine}
    /\ UNCHANGED <<pending, catalogVars>>
    /\ Finish({}, TRUE)

\* WriteFeatures and Materialize are one transaction, WriteCatalog and
\* WriteSuppression commit row by row, and a suppression whose id is there
\* already is skipped; none registers a table.
WriteEngineTable(t) ==
    /\ Ready
    /\ \E rows \in NewRows(t, Engine, AnyShape) : \E atomic \in BOOLEAN :
         \E kept \in IF atomic THEN {rows} ELSE SUBSET rows :
           \E o \in Outcomes(kept, atomic) : CallWriter(t, Engine, rows, o, {})

InTable(tb) == {r \in Row : copies[r] > 0 /\ r.table = tb}

\* The stored rows whose key a merge of `done` may have: rows of any tenant,
\* since merge_upserts matches `ON t.key = s.key` alone.
Overwritten(tb, done) == IF done = {} THEN {{}} ELSE SUBSET InTable(tb)

\* UpsertRaw: dedup_by_key keeps the last row of each key and no row without
\* one; the kept rows are merged chunk by chunk.  The column values of an
\* overwritten row that the upsert does not name stay under the new row.
UpsertRaw(t, tb) ==
    /\ Ready
    /\ \E rows \in NewRows(t, tb, AnyShape) : \E kept \in SUBSET rows :
         \E o \in Outcomes(kept, FALSE) : \E over \in Overwritten(tb, o.done) :
           CallWriter(t, tb, rows, o, over)

\* Faulty variant: the tenant is not part of the match.
Matches_AnyTenant(r, t, tb) == copies[r] > 0 /\ r.table = tb

\* merge_deletes: `ON t.key = s.key AND t.tenant_id = ?`
Matches(r, t, tb) == copies[r] > 0 /\ r.table = tb /\ stamp[r] = t

\* ApplyCdcBatch: in one transaction, the upserts of the batch are merged as in
\* UpsertRaw, then the rows of its delete keys are removed, if they carry the
\* writer's tenant, which the merged ones now do.
ApplyCdcBatch(t, tb) ==
    /\ Ready
    /\ \E rows \in NewRows(t, tb, AnyShape) \cup {{}} : \E kept \in SUBSET rows :
         \E o \in Outcomes(kept, TRUE) : \E over \in Overwritten(tb, o.done) :
           \E del \in IF o.ok THEN SUBSET (o.done \cup {r \in Row : Matches(r, t, tb)}) ELSE {{}} :
             CallWriter(t, tb, rows, o, over \cup del)

\* DeleteRaw with the keys of the rows K; a failed call may have deleted some rows.
DeleteRaw(t, tb) ==
    /\ Ready
    /\ tenant' = t
    /\ \E K \in SUBSET used :
         \E o \in Outcomes({r \in Row : Matches(r, t, tb) /\ r.id \in K}, FALSE) :
            /\ Fault(o)
            /\ copies' = [r \in Row |-> IF r \in o.done THEN 0 ELSE copies[r]]
            /\ gone' = gone \cup o.done
            /\ known' = IF o.ok THEN known \cup {tb} ELSE known
    /\ UNCHANGED <<pending, stamp>>
    /\ Finish({}, TRUE)

\* ExportParquet and ReadCdcOffset change nothing here.
ReadOnly ==
    /\ Ready
    /\ UNCHANGED <<pending, tenant, known, catalogVars>>
    /\ Finish({}, TRUE)

-----------------------------------------------------------------------------
(***************************************************************************)
(* flush_pending, and the end of the thread and of the process.            *)
(***************************************************************************)
\* Faulty variant: the drain only takes what is old enough.
DrainKeys_Expired == Expired

DrainKeys == OpenKeys

Drain(op) ==
    /\ todo' = DrainKeys
    /\ phase' = "drain"
    /\ cmd' = Simple(op)
    /\ UNCHANGED <<pending, tenant, known, catalogVars, stopping, used, acked, crashes>>

CompactAll == Ready /\ Drain("CompactAll")

Shutdown == Flushed /\ cmd = Idle /\ stopping /\ Drain("Shutdown")

\* All senders are gone: no flush_expired before the drain.
Disconnected == phase = "idle" /\ ~stopping /\ Drain("Disconnected")

\* After the drain, compaction of the known tables changes no rows; the other
\* two end the thread.
EndDrain ==
    /\ phase = "drain" /\ todo = {}
    /\ phase' = IF cmd.op = "CompactAll" THEN "idle" ELSE "stopped"
    /\ cmd' = Idle
    /\ UNCHANGED <<pending, tenant, known, catalogVars, todo, stopping, used, acked, crashes>>

\* Time: a batch becomes flush_age_secs old.
Age(k) ==
    /\ AgeFlush
    /\ pending[k].open /\ ~pending[k].aged
    /\ pending' = [pending EXCEPT ![k].aged = TRUE]
    /\ UNCHANGED <<tenant, known, loopVars, catalogVars, stopping, used, acked, crashes>>

\* Engine::drop sends Cmd::Shutdown and does not wait for the answer.
shutdown ==
    /\ ~stopping /\ phase # "stopped"
    /\ stopping' = TRUE
    /\ UNCHANGED <<pending, tenant, known, loopVars, catalogVars, used, acked, crashes>>

\* main: `drop(engine)` returned, so the process exits whatever the writer
\* thread is doing.
ProcessExit ==
    /\ stopping /\ phase \notin {"stopped", "exited"}
    /\ phase' = "exited"
    /\ pending' = NoBatches
    /\ cmd' = Idle /\ todo' = {}
    /\ UNCHANGED <<tenant, known, catalogVars, stopping, used, acked, crashes>>

\* The process dies and is started again: what was only in memory is gone.
CrashRestart ==
    /\ crashes < MaxCrashes /\ phase # "exited"
    /\ crashes' = crashes + 1
    /\ gone' = gone \cup Buffered
    /\ pending' = NoBatches
    /\ tenant' = DefaultTenant
    /\ known' = {}
    /\ phase' = "idle" /\ cmd' = Idle /\ todo' = {}
    /\ stopping' = FALSE
    /\ UNCHANGED <<copies, stamp, faults, used, acked>>

-----------------------------------------------------------------------------
ServeIngest ==
    \E t \in Tenants : \E tb \in Tables : \E c \in Shapes :
        \E rows \in NewRows(t, tb, c) :
            \/ FlushOldSchema(t, tb, c, rows)
            \/ IngestBuffered(t, tb, c, rows)
            \/ IngestFlushed(t, tb, c, rows)

Serve ==
    \/ ServeIngest
    \/ HandleTimeout
    \/ \E t \in Tenants : WriteEngineTable(t)
    \/ \E t \in Tenants : \E tb \in Tables :
        UpsertRaw(t, tb) \/ ApplyCdcBatch(t, tb) \/ DeleteRaw(t, tb)
    \/ ReadOnly \/ CompactAll \/ Shutdown

writer_loop ==
    Wake \/ (\E k \in Key : FlushNext(k)) \/ Serve \/ Disconnected \/ EndDrain

Next ==
    \/ writer_loop
    \/ \E k \in Key : Age(k)
    \/ shutdown \/ ProcessExit \/ CrashRestart

Spec == Init /\ [][Next]_vars

\* The thread runs and time passes: recv_timeout wakes an idle loop.  Nothing
\* is assumed of the callers.
FairSpec ==
    /\ Spec
    /\ WF_vars(writer_loop)
    /\ \A k \in Key : WF_vars(Age(k))

-----------------------------------------------------------------------------
Stored == {r \in Row : copies[r] > 0}

\* Every committed row carries the tenant of the caller that sent it, however
\* the commands of several tenants interleave with delayed flushes.
StampedByOwner == \A r \in Stored : stamp[r] = r.tenant

\* A row sent once is committed at most once, whatever made its batch go out.
AtMostOnce == \A r \in Row : copies[r] <= 1

\* Where a row is in its life; a second copy is no state of RowLife.
Life ==
    [r \in Row |->
        CASE copies[r] > 1 -> "twice"
          [] copies[r] = 1 -> "stored"
          [] copies[r] = 0 /\ r \in Buffered -> "held"
          [] copies[r] = 0 /\ r \notin Buffered /\ r \in acked \cup gone -> "lost"
          [] OTHER -> "unsent"]

Rows == INSTANCE RowLife WITH life <- Life

\* The actor implements RowLife: whatever makes a batch go out, a row is stored
\* at most once, never comes back after it was lost or deleted, leaves memory
\* only for the catalog, with its failing batch or with the process, and the
\* catalog only by a delete of its tenant or under newly merged rows of its
\* table; no step brings in rows of two tenants, tables or column lists.
ImplementsRowLife == Rows!Spec

\* While the process lives, an acknowledged row is committed or buffered, or
\* was deleted or overwritten, or a later row of its own command had its key,
\* or its batch failed with an error, or it was in memory at an earlier crash:
\* nothing else loses it.
AckedAccounted ==
    phase # "exited" => acked \subseteq Stored \cup Buffered \cup gone

\* One call of the writer commits rows of one tenant, one table and one column
\* list, although its rows may come from several callers.
CommitsAreUniform ==
    [][\A r, q \in Row : copies'[r] > copies[r] /\ copies'[q] > copies[q]
          => r.tenant = q.tenant /\ r.table = q.table /\ r.cols = q.cols]_vars

\* Once the thread has stopped by itself, every acknowledged row is committed,
\* but for deletes, upserts, failed batches and what earlier crashes lost.
StoppedMeansDurable ==
    phase = "stopped" => acked \subseteq Stored \cup gone

\* The compaction sweep covers every raw table this process wrote to without
\* an error: the table of a committed row is known until the next restart.
SweepCoversWrites ==
    crashes = 0 => \A r \in Stored \ gone : r.table = Engine \/ r.table \in known

\* "so a delete never touches another tenant's rows" (merge_deletes): a row
\* leaves the catalog by a command of its own tenant, or because a command that
\* brings new rows to its table merged one with its key.
DeletesOwnRowsOnly ==
    [][\A r \in Row : copies'[r] < copies[r] =>
          \/ tenant' = r.tenant
          \/ \E q \in Row : q.table = r.table /\ q.id \in used' \ used]_vars

\* With age-based flushing no batch stays in the buffer, also when no command
\* ever comes again.
BuffersDrain ==
    \A k \in Key : AgeFlush /\ pending[k].open ~> ~pending[k].open

\* "so no acked ingest is lost on shutdown" (writer_loop): once a process that
\* was told to shut down is gone, every acknowledged row is committed.
NoAckedLossOnShutdown ==
    phase \in {"stopped", "exited"} => acked \subseteq Stored \cup gone

\* "cross-tenant access is impossible by construction" (specs/21-rest-api.md):
\* whatever the commands of other tenants do, a committed row stays until one
\* of its own tenant removes or replaces it.
OwnersKeepRows ==
    [][\A r \in Row : copies'[r] < copies[r] => tenant' = r.tenant]_vars
=============================================================================
