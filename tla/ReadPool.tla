------------------------------ MODULE ReadPool ------------------------------
(***************************************************************************)
(* The read path of the engine: one writer that commits catalog snapshots  *)
(* and advances a shared generation counter (crates/storage, `bump_write`),*)
(* and a pool of read-only workers, each pinned to the snapshot it attached*)
(* to, that re-attach when the counter moved or their attach is too old    *)
(* (crates/execution, `worker_loop`).                                      *)
(*                                                                         *)
(* The content of the catalog is abstracted to a version number: the count *)
(* of DuckLake snapshots committed so far.  A query is abstracted to its   *)
(* `floor`, the newest version a write had been acknowledged for when the  *)
(* query was sent: what its caller may expect to see.  A write counts once *)
(* its commits are answered Ok, whether or not it advanced the counter.    *)
(* An ingest answered from the micro-batch buffer has committed nothing    *)
(* yet, so its answer promises a reader nothing; its flush is a write here *)
(* that nobody is answered for (module WriterLoop says what becomes of its *)
(* rows).  The round-robin choice of a worker and the wait for a place in  *)
(* a full channel are abstracted to the arrival of a query at any worker   *)
(* with room.                                                              *)
(***************************************************************************)
EXTENDS Integers, Sequences

CONSTANTS Workers,     \* the reader threads ce-reader-0 .. ce-reader-(n-1)
          OnWrite,     \* TRUE: RefreshPolicy::OnWrite, FALSE: RefreshPolicy::Always
          QueueCap,    \* capacity of a worker's command channel (64 in the code)
          MaxCommits,  \* bound: catalog snapshots the writer commits
          MaxFaults    \* bound: ATTACH statements that fail

ASSUME ReadPoolAssumption ==
    /\ Workers # {}
    /\ OnWrite \in BOOLEAN
    /\ QueueCap \in Nat \ {0}
    /\ MaxCommits \in Nat
    /\ MaxFaults \in Nat

VARIABLES
    committed,   \* snapshots committed to the catalog
    writeGen,    \* the shared AtomicU64 `write_gen`
    published,   \* history: version of the catalog at the last bump_write
    acked,       \* history: version left by the last committed write answered Ok
    write,       \* where the single writer is in its current operation
    queue,       \* queue[w]: the commands in w's channel
    pc,          \* pc[w]: where worker w is in its loop
    cur,         \* cur[w]: floor of the query w is serving
    attached,    \* attached[w]: the alias `dro` is attached on w's connection
    view,        \* view[w]: version of w's latest successful ATTACH
    lastGen,     \* lastGen[w]: the local `last_gen`
    heard,       \* history: heard[w], the version announced when w took its query up
    due,         \* due[w]: `last_refresh.elapsed() >= interval`
    raced,       \* history: a bump fell between w's latest ATTACH and its load of write_gen
    faults       \* ATTACH failures so far

catalogVars == <<committed, writeGen, published, acked, write>>
workerVars  == <<queue, pc, cur, attached, view, lastGen, due, faults>>
history     == <<raced, heard>>
vars        == <<catalogVars, workerVars, history>>

Command == [op : {"query", "shutdown"}, floor : Nat]

WriterPc == {"none", "chunks", "bump", "reply", "ddl"}
WorkerPc == {"idle", "detach", "attach", "load", "run", "stopped"}

(***************************************************************************)
(* Types of the variables.                                                 *)
(***************************************************************************)
TypeOK ==
    /\ committed \in Nat /\ writeGen \in Nat /\ published \in Nat /\ acked \in Nat
    /\ faults \in Nat
    /\ write \in WriterPc
    /\ queue \in [Workers -> Seq(Command)]
    /\ pc \in [Workers -> WorkerPc]
    /\ cur \in [Workers -> Nat]
    /\ attached \in [Workers -> BOOLEAN]
    /\ view \in [Workers -> Nat]
    /\ lastGen \in [Workers -> Nat]
    /\ due \in [Workers -> BOOLEAN]
    /\ raced \in [Workers -> BOOLEAN]
    /\ heard \in [Workers -> Nat]

(***************************************************************************)
(* Engine::build: the tables are created, then every reader is opened, then*)
(* the pool starts with last_gen = 0 and a fresh last_refresh.  No write   *)
(* can come in between, so all workers start on the current version.       *)
(***************************************************************************)
Init ==
    /\ committed = 0 /\ writeGen = 0 /\ published = 0 /\ acked = 0
    /\ write = "none"
    /\ queue    = [w \in Workers |-> <<>>]
    /\ pc       = [w \in Workers |-> "idle"]
    /\ cur      = [w \in Workers |-> 0]
    /\ attached = [w \in Workers |-> TRUE]
    /\ view     = [w \in Workers |-> 0]
    /\ lastGen  = [w \in Workers |-> 0]
    /\ due      = [w \in Workers |-> FALSE]
    /\ raced    = [w \in Workers |-> FALSE]
    /\ heard    = [w \in Workers |-> 0]
    /\ faults = 0

-----------------------------------------------------------------------------
(***************************************************************************)
(* The writer.                                                             *)
(***************************************************************************)
CommitTo(next) ==
    /\ committed < MaxCommits
    /\ committed' = committed + 1
    /\ write' = next
    /\ UNCHANGED <<writeGen, published, acked, workerVars, history>>

\* apply_cdc_batch, write_features_and_refresh: BEGIN .. COMMIT, so one
\* snapshot; an error before COMMIT rolls back and leaves nothing behind.
CommitTxn == write = "none" /\ CommitTo("bump")

\* ingest_raw, upsert_raw, delete_raw, write_catalog_rows,
\* write_suppression_idempotent, materialize_snapshot, compact: each DDL
\* statement, chunk or row commits by itself.
CommitChunk == write \in {"none", "chunks"} /\ CommitTo("chunks")

\* A later chunk fails: `?` returns the error before bump_write.  What was
\* committed stays committed.
ChunkFails ==
    /\ write = "chunks"
    /\ write' = "none"
    /\ UNCHANGED <<committed, writeGen, published, acked, workerVars, history>>

\* ingest_raw / upsert_raw with no rows: the table is created and the call
\* returns Ok(0) before bump_write.  read_cdc_offsets creates its table the
\* same way.
CommitDdl == write = "none" /\ CommitTo("ddl")

AckDdl ==
    /\ write = "ddl"
    /\ acked' = committed
    /\ write' = "none"
    /\ UNCHANGED <<committed, writeGen, published, workerVars, history>>

bump_write ==
    /\ write \in {"chunks", "bump"}
    /\ writeGen' = writeGen + 1
    /\ published' = committed
    /\ raced' = [w \in Workers |-> raced[w] \/ pc[w] = "load"]
    /\ write' = "reply"
    /\ UNCHANGED <<committed, acked, workerVars, heard>>

\* The writer loop sends Ok to the caller.
Ack ==
    /\ write = "reply"
    /\ acked' = committed
    /\ write' = "none"
    /\ UNCHANGED <<committed, writeGen, published, workerVars, history>>

-----------------------------------------------------------------------------
(***************************************************************************)
(* The callers of the pool.                                                *)
(***************************************************************************)
Send(w, cmd) ==
    /\ Len(queue[w]) < QueueCap
    /\ queue' = [queue EXCEPT ![w] = Append(@, cmd)]
    /\ UNCHANGED <<catalogVars, history, pc, cur, attached, view, lastGen, due, faults>>

query_with_params(w) ==
    /\ pc[w] # "stopped"
    /\ Send(w, [op |-> "query", floor |-> acked])

shutdown(w) ==
    /\ pc[w] # "stopped"
    /\ \A i \in 1..Len(queue[w]) : queue[w][i].op # "shutdown"
    /\ Send(w, [op |-> "shutdown", floor |-> 0])

-----------------------------------------------------------------------------
(***************************************************************************)
(* A worker.  Reading write_gen, running DETACH, running ATTACH, reading   *)
(* write_gen again and running the query are separate steps: the writer    *)
(* thread runs between any two of them.                                    *)
(***************************************************************************)
\* Faulty variants, for checking that the properties notice: the generation
\* is not compared; the age of the attach is not looked at.
NeedsRefresh_AgeOnly(w) == ~OnWrite \/ due[w]
NeedsRefresh_GenOnly(w) == ~OnWrite \/ writeGen # lastGen[w]

NeedsRefresh(w) == ~OnWrite \/ writeGen # lastGen[w] \/ due[w]

\* A query is taken from the channel and the refresh decision is made.
Receive(w) ==
    /\ pc[w] = "idle"
    /\ queue[w] # <<>>
    /\ Head(queue[w]).op = "query"
    /\ queue' = [queue EXCEPT ![w] = Tail(@)]
    /\ cur' = [cur EXCEPT ![w] = Head(queue[w]).floor]
    /\ pc' = [pc EXCEPT ![w] = IF NeedsRefresh(w) THEN "detach" ELSE "run"]
    /\ heard' = [heard EXCEPT ![w] = published]
    /\ UNCHANGED <<catalogVars, raced, attached, view, lastGen, due, faults>>

\* `DETACH dro;`, the first statement of the refresh batch.  On a connection
\* where it is not attached the statement errors, the batch stops there and
\* the query is answered with the error.
Detach(w) ==
    /\ pc[w] = "detach"
    /\ attached' = [attached EXCEPT ![w] = FALSE]
    /\ pc' = [pc EXCEPT ![w] = IF attached[w] THEN "attach" ELSE "idle"]
    /\ UNCHANGED <<catalogVars, history, queue, cur, view, lastGen, due, faults>>

\* Faulty variant: the attach lands on some retained snapshot, not the latest.
Attach_Lagging(w) ==
    /\ pc[w] = "attach"
    /\ attached' = [attached EXCEPT ![w] = TRUE]
    /\ \E v \in 0..committed : view' = [view EXCEPT ![w] = v]
    /\ raced' = [raced EXCEPT ![w] = FALSE]
    /\ pc' = [pc EXCEPT ![w] = "load"]
    /\ UNCHANGED <<catalogVars, heard, queue, cur, lastGen, due, faults>>

\* `ATTACH ..`: the connection is pinned to the snapshot current now.
Attach(w) ==
    /\ pc[w] = "attach"
    /\ attached' = [attached EXCEPT ![w] = TRUE]
    /\ view' = [view EXCEPT ![w] = committed]
    /\ raced' = [raced EXCEPT ![w] = FALSE]
    /\ pc' = [pc EXCEPT ![w] = "load"]
    /\ UNCHANGED <<catalogVars, heard, queue, cur, lastGen, due, faults>>

\* Faulty variant: the failure is ignored and the query runs all the same.
AttachFails_Ignored(w) ==
    /\ pc[w] = "attach"
    /\ faults < MaxFaults
    /\ faults' = faults + 1
    /\ pc' = [pc EXCEPT ![w] = "run"]
    /\ UNCHANGED <<catalogVars, history, queue, cur, attached, view, lastGen, due>>

AttachFails(w) ==
    /\ pc[w] = "attach"
    /\ faults < MaxFaults
    /\ faults' = faults + 1
    /\ pc' = [pc EXCEPT ![w] = "idle"]
    /\ UNCHANGED <<catalogVars, history, queue, cur, attached, view, lastGen, due>>

\* Faulty variant: the generation is marked seen one short.
Load_OffByOne(w) ==
    /\ pc[w] = "load"
    /\ lastGen' = [lastGen EXCEPT ![w] = IF OnWrite THEN writeGen - 1 ELSE @]
    /\ due' = [due EXCEPT ![w] = FALSE]
    /\ pc' = [pc EXCEPT ![w] = "run"]
    /\ UNCHANGED <<catalogVars, history, queue, cur, attached, view, faults>>

\* "Committed only now, post-success": last_gen and last_refresh.
Load(w) ==
    /\ pc[w] = "load"
    /\ lastGen' = [lastGen EXCEPT ![w] = IF OnWrite THEN writeGen ELSE @]
    /\ due' = [due EXCEPT ![w] = FALSE]
    /\ pc' = [pc EXCEPT ![w] = "run"]
    /\ UNCHANGED <<catalogVars, history, queue, cur, attached, view, faults>>

\* run_query against the pinned snapshot, and the reply.
Run(w) ==
    /\ pc[w] = "run"
    /\ pc' = [pc EXCEPT ![w] = "idle"]
    /\ UNCHANGED <<catalogVars, history, queue, cur, attached, view, lastGen, due, faults>>

\* Cmd::Shutdown breaks the loop; what is still in the channel is dropped.
Stop(w) ==
    /\ pc[w] = "idle"
    /\ queue[w] # <<>>
    /\ Head(queue[w]).op = "shutdown"
    /\ queue' = [queue EXCEPT ![w] = <<>>]
    /\ pc' = [pc EXCEPT ![w] = "stopped"]
    /\ UNCHANGED <<catalogVars, history, cur, attached, view, lastGen, due, faults>>

\* Time: the worker's attach becomes older than the refresh interval.
Tick(w) ==
    /\ OnWrite
    /\ ~due[w]
    /\ due' = [due EXCEPT ![w] = TRUE]
    /\ UNCHANGED <<catalogVars, history, queue, pc, cur, attached, view, lastGen, faults>>

-----------------------------------------------------------------------------
Writer == CommitTxn \/ CommitChunk \/ ChunkFails \/ CommitDdl \/ AckDdl \/ bump_write \/ Ack

worker_loop(w) ==
    Receive(w) \/ Detach(w) \/ Attach(w) \/ AttachFails(w) \/ Load(w) \/ Run(w) \/ Stop(w)

Next ==
    \/ Writer
    \/ \E w \in Workers : query_with_params(w) \/ shutdown(w) \/ worker_loop(w) \/ Tick(w)

Spec == Init /\ [][Next]_vars

\* The worker threads are scheduled, time passes, and queries keep arriving
\* at every worker (round robin): nothing is assumed of the writer, of
\* failures or of shutdown.
FairSpec ==
    /\ Spec
    /\ \A w \in Workers :
         /\ WF_vars(Receive(w) \/ Detach(w) \/ Attach(w) \/ Load(w) \/ Run(w) \/ Stop(w))
         /\ WF_vars(Tick(w))
         /\ WF_vars(query_with_params(w))

-----------------------------------------------------------------------------
\* A query that is about to run sees every write answered Ok before it was sent,
\* with two exceptions under RefreshPolicy::OnWrite: the generation was bumped
\* between the ATTACH its worker is pinned to and the load of write_gen that
\* followed; or the write was answered without a bump, and then the query still
\* sees everything that had been announced when it was taken up.  With
\* RefreshPolicy::Always there is no exception.
NoStaleRead ==
    \A w \in Workers :
        pc[w] = "run" => \/ view[w] >= cur[w]
                         \/ OnWrite /\ (raced[w] \/ view[w] >= heard[w])

\* A query runs only on an attached connection: a worker whose ATTACH failed
\* answers with the error, never from what it was pinned to before.
RunsAttached ==
    \A w \in Workers : pc[w] \in {"run", "load"} => attached[w]

\* A worker never goes back in time: the snapshot it serves from only gets newer.
ViewsAdvance ==
    [][\A w \in Workers : view'[w] >= view[w]]_vars

\* The cadence backstop: whatever the writer committed, bumped or not, every
\* worker serves it eventually, unless it was stopped or its re-attach failed.
Unusable(w) == pc[w] = "stopped" \/ (pc[w] = "idle" /\ ~attached[w])

EventuallyVisible ==
    \A w \in Workers : \A n \in 1..MaxCommits :
        committed >= n ~> (view[w] >= n \/ Unusable(w))

\* "readers never serve stale data after a commit" (Engine::build): a query
\* sees every write that was acknowledged before it was sent and announced by
\* a bump before it was taken up.
ReadsSeeAckedWrites ==
    \A w \in Workers : pc[w] = "run" /\ cur[w] <= heard[w] => view[w] >= cur[w]

\* "the dirty signal survives so the next query retries" (worker_loop): a
\* worker whose refresh failed re-attaches later.
FailedRefreshIsRetried ==
    \A w \in Workers : ~attached[w] ~> (attached[w] \/ pc[w] = "stopped")
=============================================================================
