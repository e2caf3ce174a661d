------------------------------ MODULE CdcPump -------------------------------
(***************************************************************************)
(* The CDC path: a Kafka topic of change events, the adapter that cuts it  *)
(* into batches (crates/ingestion, `KafkaCdcAdapter`), the pump that sends *)
(* each batch to the writer (`run_cdc_pump`), and the transaction that     *)
(* applies its rows and commits its offsets (crates/storage,               *)
(* `apply_cdc_batch`).                                                     *)
(*                                                                         *)
(* A message is an upsert or a delete of a key, or one that is skipped (a  *)
(* tombstone, an unparseable message, an unknown operation, a row without  *)
(* a key).  A topic is keyed: the messages of a key are in one partition.  *)
(* The value of a row is abstracted to the message it came from: the table *)
(* holds, for each key, the index of the message that decided its state.   *)
(* Messages are counted from 1, so `committed` 0 is a partition with no    *)
(* row in cdc_offsets.  The writer thread serves a batch in one step: it   *)
(* is one transaction, and the pump waits for the answer.                  *)
(***************************************************************************)
EXTENDS Integers, Sequences, FiniteSets

CONSTANTS Partitions,   \* partitions of the topic
          Keys,         \* keys, in each partition
          MaxBatch,     \* MAX_BATCH_MESSAGES (500 in the code)
          MaxEvents,    \* bound: messages in the topic
          MaxFaults,    \* bound: transactions that fail
          MaxCrashes,   \* bound: restarts of the pump
          MaxTimeouts   \* bound: resumes that give up waiting for the assignment

ASSUME CdcPumpAssumption ==
    /\ MaxBatch \in Nat \ {0}
    /\ MaxEvents \in Nat /\ MaxFaults \in Nat /\ MaxCrashes \in Nat /\ MaxTimeouts \in Nat

VARIABLES
    log,        \* log[p]: the messages of partition p
    pc,         \* where the pump is: "start", "poll" or "apply"
    pos,        \* pos[p]: messages of p the consumer has handed out
    from,       \* from[p]: pos[p] before the current batch
    committed,  \* committed[p]: last consumed message, in cdc_offsets
    table,      \* table[p][k]: the row of key k
    applied,    \* history: messages of committed batches
    dropped,    \* history: messages handed out and not applied since
    scrambled,  \* history: keys deleted and re-created within one batch
    rewound,    \* history: a resume gave up and the topic is read again
    faults, crashes, timeouts

counters == <<faults, crashes, timeouts>>
history  == <<applied, dropped, scrambled, rewound>>
vars     == <<log, pc, pos, from, committed, table, history, counters>>

Message == [op : {"upsert", "delete", "skip"}, key : Keys]
Entry   == [at : Nat, live : BOOLEAN]

\* Types of the variables.
TypeOK ==
    /\ log \in [Partitions -> Seq(Message)]
    /\ pc \in {"start", "poll", "apply"}
    /\ pos \in [Partitions -> Nat]
    /\ from \in [Partitions -> Nat]
    /\ committed \in [Partitions -> Nat]
    /\ table \in [Partitions -> [Keys -> Entry]]
    /\ applied \subseteq Partitions \X Nat
    /\ dropped \subseteq Partitions \X Nat
    /\ scrambled \subseteq Partitions \X Keys
    /\ rewound \in BOOLEAN
    /\ faults \in Nat /\ crashes \in Nat /\ timeouts \in Nat

Zero == [p \in Partitions |-> 0]

\* auto.offset.reset = earliest: a new consumer is at the beginning.
Init ==
    /\ log = [p \in Partitions |-> <<>>]
    /\ pc = "start"
    /\ pos = Zero /\ from = Zero
    /\ committed = Zero
    /\ table = [p \in Partitions |-> [k \in Keys |-> [at |-> 0, live |-> FALSE]]]
    /\ applied = {} /\ dropped = {} /\ scrambled = {} /\ rewound = FALSE
    /\ faults = 0 /\ crashes = 0 /\ timeouts = 0

-----------------------------------------------------------------------------
Messages == UNION {{p} \X (1..Len(log[p])) : p \in Partitions}

\* The source database commits a change.
Produce(p, m) ==
    /\ Cardinality(Messages) < MaxEvents
    /\ log' = [log EXCEPT ![p] = Append(@, m)]
    /\ UNCHANGED <<pc, pos, from, committed, table, history, counters>>

-----------------------------------------------------------------------------
(***************************************************************************)
(* Start: read_cdc_offsets, and resume if there are any.                   *)
(***************************************************************************)
\* Faulty variants: past the next message; to the beginning; without looking
\* whether there is an offset.
SeekTo_Past(p)  == IF committed[p] = 0 THEN 0 ELSE committed[p] + 1
SeekTo_Start(p) == 0
SeekTo_NoRow(p) == committed[p] - 1

\* seek(offset): the message at the committed offset is delivered once more.
\* A partition without a row is read from the beginning.
SeekTo(p) == IF committed[p] = 0 THEN 0 ELSE committed[p] - 1

\* Whatever recv() returned while resume waited for the assignment is thrown
\* away, and the seek brings it back only where there is a committed offset.
Resume(discarded) ==
    /\ pc = "start"
    /\ \A p \in discarded : committed[p] = 0 /\ log[p] # <<>>
    /\ discarded # {} => \E p \in Partitions : committed[p] # 0
    /\ pos' = [p \in Partitions |-> IF p \in discarded THEN 1 ELSE SeekTo(p)]
    /\ dropped' = dropped \cup (discarded \X {1})
    /\ pc' = "poll"
    /\ UNCHANGED <<log, from, committed, table, applied, scrambled, rewound, counters>>

\* At most one message: recv() is called while there is no assignment.
Discards == {{}} \cup {{p} : p \in Partitions}

\* No assignment within 10 s: nothing is sought and the topic is read from
\* the beginning.
ResumeTimeout ==
    /\ pc = "start"
    /\ \E p \in Partitions : committed[p] # 0
    /\ timeouts < MaxTimeouts
    /\ timeouts' = timeouts + 1
    /\ rewound' = TRUE
    /\ pos' = Zero
    /\ pc' = "poll"
    /\ UNCHANGED <<log, from, committed, table, applied, dropped, scrambled, faults, crashes>>

-----------------------------------------------------------------------------
(***************************************************************************)
(* next_batch: messages are received until the batch is full, the time is  *)
(* up or a poll fails, so any number of them from each partition.          *)
(***************************************************************************)
IsData(p, i) == log[p][i].op # "skip"

DataIn(upto) ==
    UNION {{p} \X {i \in (pos[p] + 1)..upto[p] : IsData(p, i)} : p \in Partitions}

\* "if upserts.len() + deletes.len() >= MAX_BATCH_MESSAGES": nothing is
\* received once the batch is full, so its last message is a row.
FitsBatch(upto) ==
    \/ Cardinality(DataIn(upto)) < MaxBatch
    \/ /\ Cardinality(DataIn(upto)) = MaxBatch
       /\ \E p \in Partitions : upto[p] > pos[p] /\ IsData(p, upto[p])

next_batch(upto) ==
    /\ pc = "poll"
    /\ \A p \in Partitions : pos[p] <= upto[p] /\ upto[p] <= Len(log[p])
    /\ upto # pos
    /\ FitsBatch(upto)
    /\ from' = pos
    /\ pos' = upto
    /\ pc' = "apply"
    /\ UNCHANGED <<log, committed, table, history, counters>>

-----------------------------------------------------------------------------
(***************************************************************************)
(* apply_cdc_batch: one transaction.                                       *)
(***************************************************************************)
InBatch(p)   == (from[p] + 1)..pos[p]
Batch        == UNION {{p} \X InBatch(p) : p \in Partitions}
Of(p, k, op) == {i \in InBatch(p) : log[p][i].op = op /\ log[p][i].key = k}

LastOf(S) == CHOOSE i \in S : \A j \in S : j <= i

\* Faulty variant: the first row of a key wins.
Dedup_First(S) == CHOOSE i \in S : \A j \in S : i <= j

\* dedup_by_key: the last row of a key wins.
Dedup(S) == LastOf(S)

\* merge_upserts, then merge_deletes.
Merged(p, k) ==
    LET ups  == Of(p, k, "upsert")
        dels == Of(p, k, "delete")
    IN  IF dels # {} THEN [at |-> LastOf(ups \cup dels), live |-> FALSE]
        ELSE IF ups # {} THEN [at |-> Dedup(ups), live |-> TRUE]
        ELSE table[p][k]

\* The last message of k in the batch is an upsert, and a delete of k is too.
Recreated(p, k) ==
    /\ Of(p, k, "delete") # {}
    /\ \E i \in Of(p, k, "upsert") : \A j \in Of(p, k, "delete") : j < i

Touched(p, k) == Of(p, k, "upsert") \cup Of(p, k, "delete") # {}

\* Faulty variant: only messages with a row move the offset.
OffsetAfter_DataOnly(p) ==
    LET rows == {i \in InBatch(p) : IsData(p, i)}
    IN  IF rows = {} THEN committed[p] ELSE LastOf(rows)

\* upsert_cdc_offset: the last message consumed, of every partition in the batch.
OffsetAfter(p) == IF InBatch(p) = {} THEN committed[p] ELSE pos[p]

Apply ==
    /\ pc = "apply"
    /\ table' = [p \in Partitions |-> [k \in Keys |-> Merged(p, k)]]
    /\ committed' = [p \in Partitions |-> OffsetAfter(p)]
    /\ applied' = applied \cup Batch
    /\ dropped' = dropped \ Batch
    /\ scrambled' = {x \in Partitions \X Keys :
                        IF Touched(x[1], x[2]) THEN Recreated(x[1], x[2]) ELSE x \in scrambled}
    /\ pc' = "poll"
    /\ UNCHANGED <<log, pos, from, rewound, counters>>

\* The transaction is rolled back; "CDC batch failed; retrying" asks the
\* adapter for its next batch.
ApplyFails ==
    /\ pc = "apply"
    /\ faults < MaxFaults
    /\ faults' = faults + 1
    /\ dropped' = dropped \cup Batch
    /\ pc' = "poll"
    /\ UNCHANGED <<log, pos, from, committed, table, applied, scrambled, rewound, crashes, timeouts>>

\* The process restarts, or the pump ends (a panic, or an error of
\* read_cdc_offsets or resume) and the supervisor recreates the adapter.
Crash ==
    /\ crashes < MaxCrashes
    /\ crashes' = crashes + 1
    /\ pc' = "start"
    /\ pos' = Zero /\ from' = Zero
    /\ UNCHANGED <<log, committed, table, history, faults, timeouts>>

-----------------------------------------------------------------------------
Pump ==
    \/ \E d \in Discards : Resume(d)
    \/ \E upto \in [Partitions -> 0..MaxEvents] : next_batch(upto)
    \/ Apply

Next ==
    \/ \E p \in Partitions : \E m \in Message : Produce(p, m)
    \/ Pump \/ ResumeTimeout \/ ApplyFails \/ Crash

Spec == Init /\ [][Next]_vars

\* The pump task runs and the broker delivers what it has.  Nothing is assumed
\* of the source, of failures or of restarts.
FairSpec == Spec /\ WF_vars(Pump)

-----------------------------------------------------------------------------
\* The committed offset never runs ahead of the data: every message up to it
\* was applied, or dropped with a failed batch or by a resume.
NoSilentSkip ==
    \A p \in Partitions : \A i \in 1..committed[p] : <<p, i>> \in applied \cup dropped

\* Redelivery after a restart never takes a key back to an older message,
\* unless a resume gave up and the whole topic is replayed.
NoRegression ==
    [][\A p \in Partitions : \A k \in Keys : table'[p][k].at >= table[p][k].at \/ rewound]_vars

\* The state the source's log gives a key.
DataOf(p, k) == {i \in 1..Len(log[p]) : IsData(p, i) /\ log[p][i].key = k}
Expected(p, k) ==
    IF DataOf(p, k) = {} THEN [at |-> 0, live |-> FALSE]
    ELSE LET i == LastOf(DataOf(p, k)) IN [at |-> i, live |-> log[p][i].op = "upsert"]

CaughtUp == pc = "poll" /\ \A p \in Partitions : pos[p] = Len(log[p])

\* When the pump has caught up the table is what the log says, for every key
\* whose last message was not dropped and that was not re-created within the
\* batch that deleted it: restarts, replays and batch limits do not show.
CaughtUpMatches ==
    CaughtUp =>
        \A p \in Partitions : \A k \in Keys :
            \/ table[p][k] = Expected(p, k)
            \/ <<p, Expected(p, k).at>> \in dropped
            \/ <<p, k>> \in scrambled

\* Every message is eventually covered by the committed offset, the skipped
\* ones too, or is dropped with a failed batch.
EveryMessageSettles ==
    \A p \in Partitions : \A i \in 1..MaxEvents :
        Len(log[p]) >= i ~> (committed[p] >= i \/ <<p, i>> \in dropped)

\* "the committed offset guarantees no replay loss" (run_cdc_pump): a change
\* that was handed out and not applied is superseded by a later one of its key,
\* or is above the committed offset, so that a restart reads it again.
NoReplayLoss ==
    \A x \in dropped :
        LET p == x[1]
            i == x[2]
        IN  ~IsData(p, i) \/ table[p][log[p][i].key].at > i \/ i > committed[p]
=============================================================================
