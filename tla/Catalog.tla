------------------------------ MODULE Catalog -------------------------------
(***************************************************************************)
(* The tables of the DuckLake catalog and what the single writer           *)
(* (crates/storage, `Writer`) makes of each command: one raw table with a  *)
(* merge key, the suppression table, the feature store with its wide       *)
(* views, the semantic catalogue and the audience snapshots.  Also what    *)
(* the readers of these tables compute (profiler, catalogue retrieval,     *)
(* feature producers, snapshot metadata).  A database is a record; every   *)
(* operator takes one and gives the next one, or an answer.                *)
(*                                                                         *)
(* A statement of several chunks commits chunk by chunk: `done` counts the *)
(* chunks that went through before the error, if there was one, and is -1  *)
(* if not even the table could be created.  A raw table is a set of rows   *)
(* with a rowid: the writer's call that made the row and its place there.  *)
(* A row also carries the number w of the call that wrote it last, and     *)
(* whether an insert or an upsert made it.                                 *)
(***************************************************************************)
EXTENDS Integers, Sequences, FiniteSets, FiniteSetsExt

CONSTANTS Null,        \* SQL NULL
          Columns,     \* columns of the raw table, in order
          Producers,   \* Producers[p] = [family, shorts]: the registry
          MergeChunk   \* rows per MERGE or INSERT statement

ASSUME CatalogAssumption ==
    /\ MergeChunk \in Nat \ {0}
    /\ Columns \in Seq(STRING) /\ Columns # <<>>

Families == {Producers[p].family : p \in DOMAIN Producers}

\* A catalog after Writer::attach and the ensure_* calls of the server.
Attached ==
    [exists |-> FALSE, raw |-> {}, suppression |-> <<>>, features |-> {},
     views |-> [f \in Families |-> {}], entries |-> {}, snapshots |-> {}]

-----------------------------------------------------------------------------
(***************************************************************************)
(* The raw table.                                                          *)
(***************************************************************************)
Chunks(rows) == (Len(rows) + MergeChunk - 1) \div MergeChunk

\* The rows of the first `done` chunks.
Prefix(rows, done) == SubSeq(rows, 1, Max({0, Min({done * MergeChunk, Len(rows)})}))

Stored(r, rowid, t, w, via) ==
    [rowid |-> rowid, key |-> r.key, val |-> r.val, tenant |-> t, w |-> w, via |-> via]

ingest_raw(db, rows, t, w, done) ==
    LET new == Prefix(rows, done)
    IN  [db EXCEPT !.exists = @ \/ done >= 0,
                   !.raw = @ \cup {Stored(new[i], <<w, i>>, t, w, "insert") : i \in DOMAIN new}]

\* Faulty variant: only rows without a key are dropped.
dedup_by_key_NullOnly(rows) == SelectSeq(rows, LAMBDA r : r.key # Null)

\* A row takes the place of the one with its key, if there is one.
Keep(kept, r) ==
    LET same == {j \in DOMAIN kept : kept[j].key = r.key}
    IN  CASE r.key = Null -> kept
          [] r.key # Null /\ same = {} -> Append(kept, r)
          [] OTHER -> [kept EXCEPT ![CHOOSE j \in same : TRUE] = r]

\* The last row of a key wins, at the place of the first; no key, no row.
dedup_by_key(rows) ==
    LET kept[i \in 0..Len(rows)] == IF i = 0 THEN <<>> ELSE Keep(kept[i - 1], rows[i])
    IN  kept[Len(rows)]

\* MERGE ... ON t.key = s.key: every row with the key is rewritten, whoever it
\* belongs to, and becomes the caller's.
merge_upserts(raw, rows, t, w) ==
    LET Hit(x) == {j \in DOMAIN rows : rows[j].key = x.key}
        new == {j \in DOMAIN rows : \A x \in raw : x.key # rows[j].key}
    IN  {IF Hit(x) = {} THEN x ELSE Stored(rows[CHOOSE j \in Hit(x) : TRUE], x.rowid, t, w, x.via) : x \in raw}
          \cup {Stored(rows[j], <<w, j>>, t, w, "upsert") : j \in new}

upsert_raw(db, rows, t, w, done) ==
    [db EXCEPT !.exists = @ \/ done >= 0,
               !.raw = merge_upserts(@, Prefix(dedup_by_key(rows), done), t, w)]

\* MERGE ... ON t.key = s.key AND t.tenant_id = ? WHEN MATCHED THEN DELETE.
merge_deletes(raw, keys, t) ==
    {x \in raw : ~(x.tenant = t /\ \E i \in DOMAIN keys : keys[i] = x.key)}

delete_raw(db, keys, t, done) ==
    [db EXCEPT !.raw = merge_deletes(@, Prefix(keys, done), t)]

-----------------------------------------------------------------------------
(***************************************************************************)
(* Suppression, features, semantic catalogue, snapshots.                   *)
(***************************************************************************)
\* Faulty variant: the row is appended in any case.
write_suppression_Append(db, row, t) ==
    [db EXCEPT !.suppression = Append(@, [row |-> row, tenant |-> t])]

\* INSERT ... WHERE NOT EXISTS a row with the id, of any tenant.
write_suppression_idempotent(db, row, t) ==
    IF \E i \in DOMAIN db.suppression : db.suppression[i].row.id = row.id THEN db
    ELSE [db EXCEPT !.suppression = Append(@, [row |-> row, tenant |-> t])]

feature_short_names(features, f) == {x.short : x \in {y \in features : y.family = f}}

\* Faulty variant: a view is rebuilt from the batch alone.
WideColumns_Batch(features, rows, f) == feature_short_names(rows, f)

\* The names already stored, by any tenant, and those of the batch.
WideColumns(features, rows, f) ==
    feature_short_names(features, f) \cup feature_short_names(rows, f)

\* One transaction: the rows and the wide views of the families they touch.
write_features_and_refresh(db, rows, t) ==
    LET touched == {x.family : x \in rows}
        stored  == db.features \cup
                     {[user |-> x.user, family |-> x.family, short |-> x.short, at |-> x.at,
                       value |-> x.value, tenant |-> t] : x \in rows}
    IN  [db EXCEPT !.features = stored,
                   !.views = [f \in Families |-> IF f \in touched THEN WideColumns(stored, rows, f)
                                                 ELSE @[f]]]

\* Catalogue rows are appended one statement each.
write_catalog_rows(db, rows, t, done) ==
    [db EXCEPT !.entries = @ \cup {[column |-> rows[i].column, text |-> rows[i].text,
                                    epoch |-> rows[i].epoch, tenant |-> t] : i \in 1..done}]

materialize_snapshot(db, snap, users, t) ==
    [db EXCEPT !.snapshots = @ \cup {[id |-> snap, tenant |-> t, user |-> u] : u \in users}]

\* COPY (SELECT ... WHERE snapshot_id = ?): of any tenant.
export_snapshot_parquet(db, snap) == {s \in db.snapshots : s.id = snap}

-----------------------------------------------------------------------------
(***************************************************************************)
(* Readers.                                                                *)
(***************************************************************************)
\* Profiler::onboard: a row for the table (column Null), one for each column.
\* A description or an embedding that fails is replaced by a stub.
profile(epoch) ==
    [i \in 1..(Len(Columns) + 1) |->
        [column |-> IF i = 1 THEN Null ELSE Columns[i - 1], text |-> "profiled", epoch |-> epoch]]

\* The rows of a tenant's column that carry the newest epoch: ORDER BY
\* source_epoch DESC takes any of them.
Newest(db, column, t) ==
    LET mine == {e \in db.entries : e.tenant = t /\ e.column = column}
    IN  {e \in mine : \A x \in mine : x.epoch <= e.epoch}

\* IntentRag::retrieve: one entry per column, at most k of them.  Which k
\* depends on similarities that are not modelled.
retrieve(db, t, k) ==
    LET cols == {e.column : e \in {x \in db.entries : x.tenant = t}}
    IN  {H \in SUBSET UNION {Newest(db, c, t) : c \in cols} :
           /\ Cardinality(H) = Min({k, Cardinality(cols)})
           /\ \A e, f \in H : e.column = f.column => e = f}

\* FeatureProducer::run over the raw table, for each user (the key) with events
\* up to as_of, of whatever tenant.  The score is a function of their times, so
\* the times stand for it.
run(db, p, as_of) ==
    LET events == {x \in db.raw : x.key # Null /\ x.val <= as_of}
    IN  UNION {{[user |-> u, family |-> Producers[p].family, short |-> s, at |-> as_of,
                 value |-> {e.val : e \in {x \in events : x.key = u}}] : s \in Producers[p].shorts}
                 : u \in {e.key : e \in events}}

\* snapshot_meta: the tenant's rows of a snapshot, or none.
snapshot_meta(db, snap, t) == {s \in db.snapshots : s.id = snap /\ s.tenant = t}
=============================================================================
