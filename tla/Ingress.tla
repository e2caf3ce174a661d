------------------------------ MODULE Ingress -------------------------------
(***************************************************************************)
(* The REST handlers that write and read the catalog (crates/ingress):     *)
(* authentication, onboarding with its profile, catalogue retrieval and    *)
(* edits, suppression feedback, producer runs, audience metadata and       *)
(* presigned exports; and the upsert, delete and materialise calls made    *)
(* inside the process.  Every caller runs one handler; a handler gives way *)
(* at each await, so handlers interleave with each other, with the single  *)
(* writer, which serves its commands in the order they were sent, with     *)
(* time and with a restart of the process.                                 *)
(*                                                                         *)
(* A read sees the newest catalog or the older one some reader is still    *)
(* attached to (module ReadPool says when).  Module WriterLoop has the     *)
(* writer's loop in full; here is what its commands do to the tables, for  *)
(* one raw table.  One unit of the clock is one second.                    *)
(***************************************************************************)
EXTENDS Catalog, Lists

CONSTANTS Callers,
          Scenarios,      \* each a function: what every caller asks for
          TenantOf,       \* config.tenants: bearer token -> tenant
          OwnToken,       \* config.auth_token, or Null
          DefaultTenant,
          FlushRows,      \* MicroBatchConfig::flush_rows
          MaxK, DefaultK, \* bounds and default of GET /catalog?k=
          TTL,            \* EXPORT_TTL_SECS
          MaxClock, MaxFaults, MaxRestarts, MaxTries  \* bounds

\* What the reading handlers await first.
FirstRead == [edit |-> "entry", retrieve |-> "retrieve", producer |-> "run", audience |-> "meta"]

Kinds == DOMAIN FirstRead \cup {"onboard", "upsert", "delete", "suppress", "materialize", "export"}

\* What the types of the requests guarantee, and that the id of a snapshot is a
\* fresh uuid.
ScenarioOK(s) ==
    /\ DOMAIN s = Callers
    /\ \A c \in Callers :
         /\ s[c].kind \in Kinds
         /\ s[c].kind = "onboard" /\ s[c].arg.ok => List(s[c].arg.rows)
         /\ s[c].kind \in {"upsert", "delete"} => List(s[c].arg)
    /\ \A c, d \in Callers :
         s[c].kind = "materialize" /\ s[d].kind = "materialize" /\ s[c].arg.snap = s[d].arg.snap => c = d

ASSUME IngressAssumption ==
    /\ {FlushRows, MaxClock, MaxFaults, MaxRestarts} \subseteq Nat
    /\ {MaxK, DefaultK, TTL, MaxTries} \subseteq Nat \ {0}
    /\ \A s \in Scenarios : ScenarioOK(s)

Tenants == {DefaultTenant} \cup {TenantOf[k] : k \in DOMAIN TenantOf}

VARIABLES
    cat,       \* the catalog
    view,      \* an older version of it, that readers may still see
    buffer,    \* buffer[t]: rows acknowledged and not yet committed
    queue,     \* commands sent to the writer
    registry,  \* FreshnessRegistry of the raw table: {} or {[type, epoch]}
    clock,
    key,       \* incarnation of the process, and so of its signing key
    calls,     \* calls[c]: the handler of c
    issued,    \* presigned tokens handed out
    writes,    \* history: calls of the writer on the raw table
    merges,    \* history: keys upserted and deleted by them
    faults

vars == <<cat, view, buffer, queue, registry, clock, key, calls, issued, writes, merges, faults>>
store == <<cat, view, buffer, queue, writes, merges, faults>>  \* the writer's side
rest  == <<registry, clock, key, issued>>

NoData == [none |-> TRUE]

Awaits == {"ingest", "label", "profile", "catalogue", "entry", "embed", "retrieve", "run", "meta",
           "owner", "write"}

\* Types of the variables; a batch left in the buffer is below the threshold.
TypeOK ==
    /\ \A t \in Tenants : Len(buffer[t]) < FlushRows \/ buffer[t] = <<>>
    /\ \A c \in Callers : /\ calls[c].pc \in Awaits \cup {"new", "done", "failed"}
                          /\ calls[c].try \in 0..MaxTries
    /\ \A r \in registry : r.epoch \in 0..MaxClock
    /\ clock \in 0..MaxClock /\ key \in 0..MaxRestarts /\ faults \in 0..MaxFaults
    /\ writes \in Nat

Init ==
    /\ cat = Attached /\ view = Attached
    /\ buffer = [t \in Tenants |-> <<>>]
    /\ queue = <<>>
    /\ registry = {}
    /\ clock = 0 /\ key = 0 /\ faults = 0 /\ writes = 0
    /\ issued = {} /\ merges = {}
    /\ \E s \in Scenarios : calls = [c \in Callers |->
         [pc |-> "new", req |-> s[c], try |-> 0, data |-> NoData]]

-----------------------------------------------------------------------------
(***************************************************************************)
(* Handlers: steps of one, and the end of its await.                       *)
(***************************************************************************)
Go(c, pc, data) == calls' = [calls EXCEPT ![c].pc = pc, ![c].data = data]
Fail(c) == Go(c, "failed", NoData)

\* resolve_tenant and require_auth: the tenants' list, then the engine's own
\* token; an engine without any token takes everybody for the default tenant.
require_auth(token) ==
    CASE OwnToken = Null /\ DOMAIN TenantOf = {} -> {DefaultTenant}
      [] token \in DOMAIN TenantOf -> {TenantOf[token]}
      [] token \notin DOMAIN TenantOf /\ token = OwnToken /\ token # Null -> {DefaultTenant}
      [] OTHER -> {}

\* Callers inside the process name the tenant themselves.
Authenticated(r) == IF r.kind \in {"upsert", "delete", "materialize"} THEN {r.token} ELSE require_auth(r.token)

Tenant(c) == CHOOSE t \in Authenticated(calls[c].req) : TRUE

\* A command goes to the writer and the handler awaits its answer.
Send(c, pc, op, arg, data) ==
    /\ queue' = Append(queue, [op |-> op, arg |-> arg, tenant |-> Tenant(c),
                               by |-> c, try |-> calls[c].try])
    /\ Go(c, pc, data)
    /\ UNCHANGED <<cat, view, buffer, writes, merges, faults>>

\* Refused before the first await: a field that is not an identifier, too many
\* rows, cells that do not fit, k out of range, an unknown producer or format.
Valid(r) ==
    CASE r.kind \in {"onboard", "suppress", "edit"} -> r.arg.ok
      [] r.kind = "retrieve" -> r.arg.k = 0 \/ r.arg.k \in 1..MaxK
      [] r.kind = "producer" -> r.arg.id \in DOMAIN Producers
      [] r.kind = "export" -> r.arg.format = "parquet"
      [] OTHER -> TRUE

\* presign::verify: the key that signed, this snapshot, not expired.
verify(tok, snap) == tok.key = key /\ tok.snap = snap /\ clock < tok.expiry

\* The handler up to its first await.  The caller of an export presents any
\* token there is, or a worthless one.
First(c, r) ==
    CASE r.kind = "onboard" -> Send(c, "ingest", "ingest", r.arg, NoData)
      [] r.kind \in {"upsert", "delete", "suppress", "materialize"} -> Send(c, "write", r.kind, r.arg, NoData)
      [] r.kind = "export" ->
           /\ \/ Fail(c)
              \/ \E tok \in issued : /\ verify(tok, r.arg.snap)
                                     /\ Go(c, "owner", [token |-> tok, at |-> clock])
           /\ UNCHANGED store
      [] OTHER -> Go(c, FirstRead[r.kind], NoData) /\ UNCHANGED store

Start(c) ==
    LET r == calls[c].req
    IN  /\ calls[c].pc = "new"
        /\ IF Authenticated(r) # {} /\ Valid(r) THEN First(c, r) ELSE Fail(c) /\ UNCHANGED store
        /\ UNCHANGED rest

\* onboard, once the rows are taken: the source type is parsed only now, and
\* the registry is set to the time of now.
Label(c) ==
    LET r == calls[c].req
    IN  /\ calls[c].pc = "label"
        /\ IF r.arg.type \notin {"batch", "cdc"} THEN Fail(c) /\ UNCHANGED registry
           ELSE /\ registry' = {[type |-> r.arg.type, epoch |-> clock]}
                /\ Go(c, "profile", [epoch |-> clock])
        /\ UNCHANGED <<store, clock, key, issued>>

\* Profiler::onboard and the catalogue rows, all stamped with the ingest time.
\* No table yet, a failed read or the timeout: not profiled, and still Ok.
Profile(c) ==
    /\ calls[c].pc = "profile"
    /\ \/ /\ \E db \in {cat, view} : db.exists
          /\ Send(c, "catalogue", "catalogue", profile(calls[c].data.epoch), NoData)
       \/ Go(c, "done", [profiled |-> FALSE]) /\ UNCHANGED store
    /\ UNCHANGED rest

\* put_catalog: the newest entry of the column is read.
catalogue_entry(c) ==
    LET col == calls[c].req.arg.column
        Mine(db) == {x \in db.entries : x.tenant = Tenant(c) /\ x.column = col}
    IN  /\ calls[c].pc = "entry"
        /\ \E db \in {cat, view} :
             IF Mine(db) = {} THEN Fail(c)
             ELSE \E e \in Newest(db, col, Tenant(c)) :
                    Go(c, "embed", [epoch |-> e.epoch, saw |-> Mine(db)])
        /\ UNCHANGED <<store, rest>>

\* Faulty variant: the edit is stamped with the time alone.
EditEpoch_Now(old) == clock

EditEpoch(old) == IF clock > old THEN clock ELSE old + 1

\* put_catalog: the new text is embedded and appended with a newer stamp.
Embed(c) ==
    /\ calls[c].pc = "embed"
    /\ \/ Fail(c) /\ UNCHANGED store
       \/ LET row == [column |-> calls[c].req.arg.column, text |-> calls[c].req.arg.text,
                      epoch |-> EditEpoch(calls[c].data.epoch)]
          IN  Send(c, "write", "catalogue", <<row>>, calls[c].data)
    /\ UNCHANGED rest

\* get_catalog; without an embedding of the utterance there is no answer.
Retrieve(c) ==
    LET k == IF calls[c].req.arg.k = 0 THEN DefaultK ELSE calls[c].req.arg.k
    IN  /\ calls[c].pc = "retrieve"
        /\ \/ Fail(c)
           \/ \E db \in {cat, view} : \E H \in retrieve(db, Tenant(c), k) :
                Go(c, "done", [hits |-> H])
        /\ UNCHANGED <<store, rest>>

\* run_producer: the producer reads and computes on the caller's task, then the
\* writer stores what it made for the caller's tenant.
RunProducer(c) ==
    LET r == calls[c].req.arg
    IN  /\ calls[c].pc = "run"
        /\ \E db \in {cat, view} :
             IF ~db.exists THEN Fail(c) /\ UNCHANGED store
             ELSE Send(c, "write", "features", run(db, r.id, r.as_of), NoData)
        /\ UNCHANGED rest

\* get_audience: a token for a snapshot that is the caller's.
Meta(c) ==
    LET snap == calls[c].req.arg.snap
        tok  == [key |-> key, snap |-> snap, expiry |-> clock + TTL, to |-> Tenant(c)]
    IN  /\ calls[c].pc = "meta"
        /\ \E db \in {cat, view} :
             IF snapshot_meta(db, snap, Tenant(c)) = {} THEN Fail(c) /\ UNCHANGED issued
             ELSE Go(c, "done", NoData) /\ issued' = issued \cup {tok}
        /\ UNCHANGED <<store, registry, clock, key>>

\* Faulty variant: a valid token is enough.
Owned_TokenOnly(db, snap, t) == TRUE

Owned(db, snap, t) == snapshot_meta(db, snap, t) # {}

\* get_export, second check: the snapshot belongs to the caller's tenant.
Owner(c) ==
    LET snap == calls[c].req.arg.snap
    IN  /\ calls[c].pc = "owner"
        /\ \E db \in {cat, view} :
             IF Owned(db, snap, Tenant(c)) THEN Send(c, "write", "export", snap, calls[c].data)
             ELSE Fail(c) /\ UNCHANGED store
        /\ UNCHANGED rest

\* The client goes away at an await: its handler is dropped, a command that was
\* sent is served all the same.
Disconnect(c) ==
    /\ calls[c].pc \in Awaits
    /\ Fail(c)
    /\ UNCHANGED <<store, rest>>

\* A delivery system that got no answer, or an error, posts its outcome again.
Retry(c) ==
    /\ calls[c].pc = "failed" /\ calls[c].req.kind = "suppress" /\ calls[c].try < MaxTries
    /\ calls' = [calls EXCEPT ![c].pc = "new", ![c].try = @ + 1]
    /\ UNCHANGED <<store, rest>>

-----------------------------------------------------------------------------
(***************************************************************************)
(* The writer.                                                             *)
(***************************************************************************)
\* Chunks done and outcome of a call of n chunks; -1: its DDL failed.
Outcomes(n) == {<<n, TRUE>>} \cup {<<d, FALSE>> : d \in -1..(n - 1)}

Fault(ok) ==
    /\ ok \/ faults < MaxFaults
    /\ faults' = IF ok THEN faults ELSE faults + 1

\* The answer reaches the handler if it still waits for this command.
Reply(m, ok, data) ==
    IF calls[m.by].pc \notin {"ingest", "write", "catalogue"} \/ calls[m.by].try # m.try
    THEN UNCHANGED calls
    ELSE LET pc == calls[m.by].pc
         IN  CASE pc = "ingest" -> IF ok THEN Go(m.by, "label", NoData) ELSE Fail(m.by)
               [] pc = "catalogue" -> Go(m.by, "done", [profiled |-> ok])
               [] OTHER -> IF ok THEN Go(m.by, "done", data) ELSE Fail(m.by)

\* The writer commits `rows` of tenant t to the raw table.
Insert(t, rows, done, ok) ==
    /\ cat' = ingest_raw(cat, rows, t, writes + 1, done)
    /\ buffer' = [buffer EXCEPT ![t] = <<>>]
    /\ writes' = writes + 1
    /\ Fault(ok)
    /\ UNCHANGED merges

\* Faulty variant: a full batch goes out one row late.
Full_Late(rows) == Len(rows) > FlushRows

Full(rows) == Len(rows) >= FlushRows

ServeIngest(m) ==
    LET all == buffer[m.tenant] \o m.arg.rows
    IN  /\ m.op = "ingest"
        /\ IF Full(all)
           THEN \E o \in Outcomes(Chunks(all)) : Insert(m.tenant, all, o[1], o[2]) /\ Reply(m, o[2], NoData)
           ELSE /\ buffer' = [buffer EXCEPT ![m.tenant] = all]
                /\ Reply(m, TRUE, NoData)
                /\ UNCHANGED <<cat, writes, merges, faults>>

\* The keys that the first chunks of a merge reached.
Reached(op, keys, done, t) ==
    {[op |-> op, key |-> k, tenant |-> t, w |-> writes + 1]
       : k \in {Prefix(keys, done)[i] : i \in 1..Len(Prefix(keys, done))}}

\* UpsertRaw and DeleteRaw go past the buffer; deleting from no table fails.
ServeMerge(m) ==
    LET rows == dedup_by_key(m.arg)
        keys == IF m.op = "delete" THEN m.arg ELSE [i \in DOMAIN rows |-> rows[i].key]
    IN  /\ m.op \in {"upsert", "delete"}
        /\ \E o \in Outcomes(Chunks(keys)) :
             /\ m.op = "delete" /\ ~cat.exists /\ keys # <<>> => o[1] = -1
             /\ cat' = IF m.op = "delete" THEN delete_raw(cat, keys, m.tenant, o[1])
                       ELSE upsert_raw(cat, m.arg, m.tenant, writes + 1, o[1])
             /\ merges' = merges \cup Reached(m.op, keys, o[1], m.tenant)
             /\ Fault(o[2]) /\ Reply(m, o[2], NoData)
        /\ writes' = writes + 1
        /\ UNCHANGED buffer

\* One statement or transaction: all of it or nothing.
ServeAtomic(m) ==
    LET done == CASE m.op = "suppress"    -> write_suppression_idempotent(cat, m.arg.row, m.tenant)
                  [] m.op = "features"    -> write_features_and_refresh(cat, m.arg, m.tenant)
                  [] m.op = "materialize" -> materialize_snapshot(cat, m.arg.snap, m.arg.users, m.tenant)
                  [] OTHER -> cat
    IN  /\ m.op \in {"suppress", "features", "materialize"}
        /\ \E ok \in BOOLEAN : /\ cat' = IF ok THEN done ELSE cat
                               /\ Fault(ok) /\ Reply(m, ok, NoData)
        /\ UNCHANGED <<buffer, writes, merges>>

\* The entries of a profile or of an edit, one statement each.
ServeCatalogue(m) ==
    /\ m.op = "catalogue"
    /\ \E o \in Outcomes(Len(m.arg)) :
         /\ cat' = write_catalog_rows(cat, m.arg, m.tenant, o[1])
         /\ Fault(o[2]) /\ Reply(m, o[2], NoData)
    /\ UNCHANGED <<buffer, writes, merges>>

ServeExport(m) ==
    /\ m.op = "export"
    /\ \E ok \in BOOLEAN :
         /\ Fault(ok)
         /\ Reply(m, ok, [token |-> calls[m.by].data.token, at |-> calls[m.by].data.at,
                          rows |-> export_snapshot_parquet(cat, m.arg)])
    /\ UNCHANGED <<cat, buffer, writes, merges>>

Serve ==
    /\ queue # <<>>
    /\ LET m == Head(queue)
       IN  \/ ServeIngest(m) \/ ServeMerge(m) \/ ServeAtomic(m) \/ ServeCatalogue(m)
           \/ ServeExport(m)
    /\ queue' = Tail(queue)
    /\ UNCHANGED <<view, rest>>

\* flush_expired and flush_pending: a batch goes out between two commands; one
\* that fails is dropped.
Flush(t) ==
    /\ buffer[t] # <<>>
    /\ \E o \in Outcomes(Chunks(buffer[t])) : Insert(t, buffer[t], o[1], o[2])
    /\ UNCHANGED <<view, queue, calls, rest>>

-----------------------------------------------------------------------------
\* The last reader attached to the older version refreshes.
Attach ==
    /\ view # cat
    /\ view' = cat
    /\ UNCHANGED <<cat, buffer, queue, calls, rest, writes, merges, faults>>

Tick ==
    /\ clock < MaxClock
    /\ clock' = clock + 1
    /\ UNCHANGED <<store, calls, registry, key, issued>>

\* The process is killed and started again: only the catalog is left.
Restart ==
    /\ key < MaxRestarts
    /\ key' = key + 1
    /\ buffer' = [t \in Tenants |-> <<>>] /\ queue' = <<>> /\ registry' = {}
    /\ view' = cat
    /\ calls' = [c \in Callers |-> IF calls[c].pc \notin Awaits THEN calls[c]
                                   ELSE [calls[c] EXCEPT !.pc = "failed", !.data = NoData]]
    /\ UNCHANGED <<cat, clock, issued, writes, merges, faults>>

Next ==
    \/ \E c \in Callers :
         \/ Start(c) \/ Label(c) \/ Profile(c) \/ catalogue_entry(c) \/ Embed(c)
         \/ Retrieve(c) \/ RunProducer(c) \/ Meta(c) \/ Owner(c) \/ Disconnect(c) \/ Retry(c)
    \/ Serve \/ (\E t \in Tenants : Flush(t)) \/ Attach \/ Tick \/ Restart

Spec == Init /\ [][Next]_vars

-----------------------------------------------------------------------------
Entries(db, t, col) == {x \in db.entries : x.tenant = t /\ x.column = col}

\* A merge reaches every row of its keys that was committed before it: after an
\* upsert no older row of the key is left, whoever owned it (the match is on the
\* key alone, see OwnersKeepRows in WriterLoop), and the rows it wrote are the
\* caller's; after a delete none of the caller's is left.  What was in the
\* buffer at that time comes later.  Upserts never pile up rows.
MergesReachCommitted ==
    /\ \A x \in cat.raw : \A m \in {y \in merges : y.key = x.key} :
         IF m.op = "upsert" THEN x.w >= m.w /\ (x.w = m.w => x.tenant = m.tenant)
         ELSE x.tenant = m.tenant => x.w > m.w
    /\ \A x, y \in cat.raw : x.via = "upsert" /\ y.via = "upsert" /\ x.key = y.key => x = y

\* An outcome is stored once, however often it was posted, and an acknowledged
\* one is stored as the caller posted it, unless someone else posted the same
\* id before.
SuppressionOnce ==
    /\ \A i, j \in DOMAIN cat.suppression : cat.suppression[i].row.id = cat.suppression[j].row.id => i = j
    /\ \A c \in Callers :
         LET q == calls[c].req
         IN  q.kind = "suppress" /\ calls[c].pc = "done" =>
               \E s \in {cat.suppression[i] : i \in DOMAIN cat.suppression} :
                  /\ s.row.id = q.arg.row.id
                  /\ \/ s.row = q.arg.row /\ s.tenant = Tenant(c)
                     \/ \E d \in Callers \ {c} :
                          /\ calls[d].req.kind = "suppress" /\ calls[d].req.arg.row = s.row
                          /\ (calls[d].pc # "new" \/ calls[d].try > 0) /\ s.tenant = Tenant(d)

\* A family's wide view has a column for every stored feature of the family and
\* no other, whichever batches, tenants and failures led there.
WideViewCovers ==
    \A f \in Families : cat.views[f] = feature_short_names(cat.features, f)

\* An edit made with all the column's entries in sight is what every retrieval
\* gives once it is stored, also if it lands in the second of the onboarding.
EditWins ==
    [][\A c \in Callers :
         LET t == Tenant(c)  new == calls[c].req.arg
         IN  /\ calls[c].req.kind = "edit" /\ calls[c].pc = "write" /\ calls'[c].pc = "done"
             /\ calls[c].data.saw = Entries(cat, t, new.column)
             => \A H \in retrieve(cat', t, Len(Columns) + 1) :
                  \E e \in H : e.column = new.column /\ e.text = new.text]_vars

\* A delivered export holds rows of the caller's own tenant only, under a URL
\* that this process gave to the same tenant less than TTL before.
ExportOwned ==
    \A c \in Callers :
        LET d == calls[c].data
        IN  calls[c].req.kind = "export" /\ calls[c].pc = "done" =>
              /\ d.rows # {} /\ \A s \in d.rows : s.tenant = Tenant(c)
              /\ d.token.to = Tenant(c) /\ d.at < d.token.expiry /\ d.token.expiry <= d.at + TTL
=============================================================================
