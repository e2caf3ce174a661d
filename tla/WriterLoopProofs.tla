-------------------------- MODULE WriterLoopProofs --------------------------
(***************************************************************************)
(* Safety of the ingestion actor for any tenants, tables and column lists, *)
(* any flush threshold, and any number of rows, failing calls and crashes. *)
(***************************************************************************)
EXTENDS WriterLoop, TLAPS

\* A row in a batch has the batch's tenant, table and columns, was sent, and
\* is not committed yet; a batch that is not there has no rows.
BatchInv ==
    \A k \in Key :
        /\ ~pending[k].open => pending[k].rows = {}
        /\ \A r \in pending[k].rows :
             /\ r.tenant = k[1] /\ r.table = k[2] /\ r.cols = pending[k].cols
             /\ copies[r] = 0 /\ r.id \in used

\* A committed row was sent, is there once and belongs to its sender.
StoreInv ==
    \A r \in Row :
        /\ copies[r] <= 1
        /\ copies[r] > 0 => stamp[r] = r.tenant /\ r.id \in used

\* The rows of a half done ingest are its caller's and are not used elsewhere.
CmdInv ==
    cmd.op = "IngestRaw" =>
        \A r \in cmd.rows : /\ r.tenant = cmd.tenant /\ r.table = cmd.table /\ r.cols = cmd.cols
                            /\ r.id \notin used

\* A flush works on batches that are there, a drain on all of them.
DrainInv ==
    /\ todo \subseteq OpenKeys
    /\ phase = "drain" => todo = OpenKeys
    /\ phase = "stopped" => OpenKeys = {}

IInv ==
    /\ TypeOK
    /\ BatchInv
    /\ StoreInv
    /\ CmdInv
    /\ DrainInv
    /\ AckedAccounted
    /\ SweepCoversWrites

-----------------------------------------------------------------------------
\* Simple commands and the empty buffer are well typed.
LEMMA Constants ==
    /\ \A op \in {"none", "CompactAll", "Shutdown", "Disconnected"} :
         Simple(op) \in Command /\ Simple(op).op = op /\ Simple(op).rows = {}
    /\ Idle \in Command /\ Idle.op = "none" /\ Idle.rows = {}
    /\ Closed \in Batch
    /\ NoBatches \in [Key -> Batch]
    /\ AnyShape \in Shapes
  <1>1. AnyShape \in Shapes
    BY WriterLoopAssumption DEF AnyShape
  <1>2. (CHOOSE t \in Tables : TRUE) \in Tables
    BY WriterLoopAssumption
  <1>3. ASSUME NEW op \in {"none", "CompactAll", "Shutdown", "Disconnected"}
        PROVE  Simple(op) \in Command /\ Simple(op).op = op /\ Simple(op).rows = {}
    BY <1>1, <1>2, <1>3, WriterLoopAssumption DEF Simple, Command
  <1>4. Closed \in Batch
    BY <1>1 DEF Closed, Batch
  <1> QED
    BY <1>1, <1>3, <1>4 DEF Idle, NoBatches

\* Buffered is what the batches hold.
LEMMA BufferedMember ==
    \A r : r \in Buffered <=> \E k \in Key : r \in pending[k].rows
  BY DEF Buffered

\* See BufferedMember, in the next state.
LEMMA BufferedMemberNext ==
    \A r : r \in Buffered' <=> \E k \in Key : r \in pending'[k].rows
  BY DEF Buffered

\* New rows belong to the command's tenant and table and were never sent.
LEMMA NewRowsFresh ==
    ASSUME NEW t \in Tenants, NEW tb \in AnyTable, NEW c \in Shapes,
           NEW rows \in NewRows(t, tb, c)
    PROVE  /\ rows \subseteq Row
           /\ \A r \in rows : r.tenant = t /\ r.table = tb /\ r.cols = c /\ r.id \notin used
  <1>1. PICK n \in 0..MaxRows :
          rows = {[tenant |-> t, table |-> tb, cols |-> c, id |-> i] : i \in (1..n) \ used}
    BY DEF NewRows
  <1>2. ASSUME NEW r \in rows
        PROVE  /\ r \in Row
               /\ r.tenant = t /\ r.table = tb /\ r.cols = c /\ r.id \notin used
    <2>1. PICK i \in (1..n) \ used : r = [tenant |-> t, table |-> tb, cols |-> c, id |-> i]
      BY <1>1
    <2>2. i \in 1..MaxRows
      BY <1>1, WriterLoopAssumption
    <2> QED
      BY <2>1, <2>2 DEF Row
  <1> QED
    BY <1>2

\* The outcomes of a call on `rows` commit some of them, or all.
LEMMA OutcomeFacts ==
    ASSUME NEW rows, NEW atomic \in BOOLEAN, NEW o \in Outcomes(rows, atomic)
    PROVE  /\ o.ok \in BOOLEAN
           /\ o.done \subseteq rows
           /\ o.ok => o.done = rows
  <1>1. \/ o = [ok |-> TRUE, done |-> rows]
        \/ o = [ok |-> FALSE, done |-> {}]
        \/ \E d \in SUBSET rows : o = [ok |-> FALSE, done |-> d]
    BY DEF Outcomes
  <1>2. CASE o = [ok |-> TRUE, done |-> rows]
    BY <1>2
  <1>3. CASE o = [ok |-> FALSE, done |-> {}]
    BY <1>3
  <1>4. ASSUME NEW d \in SUBSET rows, o = [ok |-> FALSE, done |-> d]
        PROVE  o.ok = FALSE /\ o.done \subseteq rows
    BY <1>4
  <1> QED
    BY <1>1, <1>2, <1>3, <1>4

\* A writer call on rows of tenant t that are not committed.
LEMMA CommitFacts ==
    ASSUME TypeOK, StoreInv,
           NEW t \in Tenants, NEW rows \in SUBSET Row,
           \A r \in rows : r.tenant = t /\ copies[r] = 0 /\ r.id \in used',
           used \subseteq used',
           NEW atomic \in BOOLEAN, NEW o \in Outcomes(rows, atomic), Commit(rows, t, o)
    PROVE  /\ copies' \in [Row -> Nat] /\ stamp' \in [Row -> Tenants]
           /\ gone' \subseteq Row /\ faults' \in Nat
           /\ StoreInv'
           /\ Stored \subseteq Stored' /\ Stored' \subseteq Stored \cup o.done
           /\ gone \subseteq gone' /\ rows \subseteq Stored' \cup gone'
           /\ o.ok => rows \subseteq Stored'
           /\ ~o.ok => rows \subseteq gone'
           /\ \A r \in Row : r \notin rows => copies'[r] = copies[r]
  <1>1. o.done \subseteq rows /\ o.ok \in BOOLEAN /\ (o.ok => o.done = rows)
    BY OutcomeFacts
  <1>2. /\ \A r \in Row : copies'[r] = IF r \in o.done THEN copies[r] + 1 ELSE copies[r]
        /\ \A r \in Row : stamp'[r] = IF r \in o.done THEN t ELSE stamp[r]
        /\ gone' = IF o.ok THEN gone ELSE gone \cup rows
        /\ faults' = IF o.ok THEN faults ELSE faults + 1
    BY DEF Commit, Fault
  <1>3. copies' \in [Row -> Nat] /\ stamp' \in [Row -> Tenants]
    <2>1. \A r \in Row : copies[r] + 1 \in Nat /\ copies[r] \in Nat /\ stamp[r] \in Tenants
      BY DEF TypeOK
    <2> QED
      BY <2>1 DEF Commit
  <1>4. gone' \subseteq Row /\ faults' \in Nat /\ gone \subseteq gone'
    BY <1>2 DEF TypeOK
  <1>5. StoreInv'
    <2> SUFFICES ASSUME NEW r \in Row
                 PROVE  /\ copies'[r] <= 1
                        /\ copies'[r] > 0 => stamp'[r] = r.tenant /\ r.id \in used'
      BY DEF StoreInv
    <2>1. CASE r \in o.done
      BY <1>1, <1>2, <2>1 DEF TypeOK
    <2>2. CASE r \notin o.done
      BY <1>2, <2>2 DEF StoreInv, TypeOK
    <2> QED
      BY <2>1, <2>2
  <1>6. Stored \subseteq Stored' /\ Stored' \subseteq Stored \cup o.done
    BY <1>2 DEF Stored, TypeOK
  <1>7. o.done \subseteq Stored'
    BY <1>1, <1>2 DEF Stored, TypeOK
  <1>8. \A r \in Row : r \notin rows => copies'[r] = copies[r]
    BY <1>1, <1>2
  <1> QED
    BY <1>1, <1>2, <1>3, <1>4, <1>5, <1>6, <1>7, <1>8
-----------------------------------------------------------------------------
\* Where an acknowledged row may be.
Accounted == Stored \cup Buffered \cup gone

\* flush_batch on the batch under k, to which rows of the same tenant and
\* table that were never sent before may just have been added.
LEMMA FlushFacts ==
    ASSUME TypeOK, BatchInv, StoreInv, SweepCoversWrites,
           NEW k \in Key, NEW rows \in SUBSET Row,
           pending[k].rows \subseteq rows,
           \A r \in rows : \/ r \in pending[k].rows
                           \/ r.tenant = k[1] /\ r.table = k[2] /\ r.id \notin used,
           used \subseteq used', \A r \in rows : r.id \in used',
           crashes' = crashes,
           NEW o \in Outcomes(rows, FALSE), flush_batch(k, rows, o)
    PROVE  /\ pending' \in [Key -> Batch] /\ tenant' \in Tenants /\ known' \subseteq Tables
           /\ copies' \in [Row -> Nat] /\ stamp' \in [Row -> Tenants]
           /\ gone' \subseteq Row /\ faults' \in Nat
           /\ BatchInv' /\ StoreInv' /\ SweepCoversWrites'
           /\ OpenKeys' = OpenKeys \ {k}
           /\ Accounted \subseteq Accounted'
           /\ o.ok => rows \subseteq Stored'
  <1>1. k[1] \in Tenants /\ k[2] \in Tables
    BY DEF Key
  <1>2. \A r \in rows : r.tenant = k[1] /\ r.table = k[2] /\ copies[r] = 0
    BY DEF BatchInv, StoreInv, TypeOK
  <1>3. Commit(rows, k[1], o)
    BY DEF flush_batch
  <1>4. /\ copies' \in [Row -> Nat] /\ stamp' \in [Row -> Tenants]
        /\ gone' \subseteq Row /\ faults' \in Nat
        /\ StoreInv'
        /\ Stored \subseteq Stored' /\ Stored' \subseteq Stored \cup o.done
        /\ gone \subseteq gone' /\ rows \subseteq Stored' \cup gone'
        /\ o.ok => rows \subseteq Stored'
        /\ ~o.ok => rows \subseteq gone'
        /\ \A r \in Row : r \notin rows => copies'[r] = copies[r]
    <2>1. \A r \in rows : r.tenant = k[1] /\ copies[r] = 0 /\ r.id \in used'
      BY <1>2
    <2> QED
      BY <1>1, <1>3, <2>1, CommitFacts, Zenon
  <1>5. pending' = [pending EXCEPT ![k] = Closed] /\ tenant' = k[1]
    BY DEF flush_batch
  <1>6. pending' \in [Key -> Batch]
    BY <1>5, Constants DEF TypeOK
  <1>7. /\ pending'[k] = Closed
        /\ \A j \in Key : j # k => pending'[j] = pending[j]
        /\ ~pending'[k].open /\ pending'[k].rows = {}
    BY <1>5 DEF TypeOK, Closed
  <1>8. known' \subseteq Tables /\ known \subseteq known' /\ (o.ok => k[2] \in known')
    BY <1>1 DEF flush_batch, TypeOK
  <1>9. BatchInv'
    <2> SUFFICES ASSUME NEW j \in Key
                 PROVE  /\ ~pending'[j].open => pending'[j].rows = {}
                        /\ \A r \in pending'[j].rows :
                             /\ r.tenant = j[1] /\ r.table = j[2] /\ r.cols = pending'[j].cols
                             /\ copies'[r] = 0 /\ r.id \in used'
      BY DEF BatchInv
    <2>1. CASE j = k
      BY <1>7, <2>1
    <2>2. CASE j # k
      <3>1. pending[j].rows \subseteq Row
        BY DEF TypeOK, Batch
      <3>2. ASSUME NEW r \in pending[j].rows PROVE r \notin rows
        <4>1. r.tenant = j[1] /\ r.table = j[2]
          BY DEF BatchInv
        <4> QED
          BY <1>2, <2>2, <4>1 DEF Key
      <3> QED
        BY <1>4, <1>7, <2>2, <3>1, <3>2 DEF BatchInv
    <2> QED
      BY <2>1, <2>2
  <1>10. SweepCoversWrites'
    <2> SUFFICES ASSUME crashes = 0, NEW r \in Stored' \ gone'
                 PROVE  r.table = Engine \/ r.table \in known'
      BY DEF SweepCoversWrites
    <2>1. CASE r \in rows
      BY <1>2, <1>4, <1>8, <2>1, OutcomeFacts
    <2>2. CASE r \notin rows
      <3>1. r \in Stored \ gone
        BY <1>4, <2>2, OutcomeFacts
      <3> QED
        BY <1>8, <3>1 DEF SweepCoversWrites
    <2> QED
      BY <2>1, <2>2
  <1>11. OpenKeys' = OpenKeys \ {k}
    BY <1>7 DEF OpenKeys
  <1>12. Accounted \subseteq Accounted'
    <2> SUFFICES ASSUME NEW r \in Buffered PROVE r \in Accounted'
      BY <1>4 DEF Accounted
    <2>1. PICK j \in Key : r \in pending[j].rows
      BY BufferedMember
    <2>2. CASE j = k
      BY <1>4, <2>1, <2>2 DEF Accounted
    <2>3. CASE j # k
      <3>1. r \in Buffered'
        BY <1>7, <2>1, <2>3, BufferedMemberNext
      <3> QED
        BY <3>1 DEF Accounted
    <2> QED
      BY <2>2, <2>3
  <1> QED
    BY <1>1, <1>4, <1>5, <1>6, <1>8, <1>9, <1>10, <1>11, <1>12
-----------------------------------------------------------------------------
(***************************************************************************)
(* One lemma per kind of step.                                             *)
(***************************************************************************)
\* The actor starts in the invariant.
LEMMA InitIInv == Init => IInv
  <1> SUFFICES ASSUME Init PROVE IInv
    OBVIOUS
  <1>1. TypeOK
    BY Constants, WriterLoopAssumption DEF Init, TypeOK
  <1>2. \A k \in Key : ~pending[k].open /\ pending[k].rows = {}
    BY DEF Init, NoBatches, Closed
  <1>3. BatchInv /\ StoreInv
    BY <1>2 DEF Init, BatchInv, StoreInv
  <1>4. CmdInv /\ DrainInv
    BY <1>2, Constants DEF Init, CmdInv, DrainInv, OpenKeys
  <1>5. AckedAccounted /\ SweepCoversWrites
    BY DEF Init, AckedAccounted, SweepCoversWrites, Stored
  <1> QED
    BY <1>1, <1>3, <1>4, <1>5 DEF IInv

\* A step that leaves the buffer and the catalog alone keeps what the
\* invariant says of them.
LEMMA FrameIInv ==
    ASSUME IInv,
           UNCHANGED <<pending, known, copies, stamp, gone, used, acked, crashes>>,
           phase = "exited" => phase' = "exited"
    PROVE  BatchInv' /\ StoreInv' /\ AckedAccounted' /\ SweepCoversWrites' /\ OpenKeys' = OpenKeys
  <1>1. BatchInv' /\ StoreInv'
    BY DEF IInv, BatchInv, StoreInv
  <1>2. Stored' = Stored /\ Buffered' = Buffered /\ OpenKeys' = OpenKeys
    BY DEF Stored, Buffered, OpenKeys
  <1> QED
    BY <1>1, <1>2 DEF IInv, AckedAccounted, SweepCoversWrites

\* The steps of the loop that touch neither buffer nor catalog.
LEMMA ControlIInv ==
    IInv /\ (Wake \/ HandleTimeout \/ ReadOnly \/ CompactAll \/ Shutdown \/ Disconnected
             \/ EndDrain \/ shutdown)
        => IInv'
  <1> USE DEF catalogVars, loopVars
  <1>1. ASSUME IInv, Wake PROVE IInv'
    <2>1. BatchInv' /\ StoreInv' /\ AckedAccounted' /\ SweepCoversWrites' /\ OpenKeys' = OpenKeys
      BY <1>1, FrameIInv DEF Wake
    <2>2. Expired \subseteq OpenKeys /\ OpenKeys \subseteq Key
      BY DEF Expired, OpenKeys
    <2>3. TypeOK' /\ DrainInv' /\ CmdInv'
      BY <1>1, <2>1, <2>2 DEF Wake, IInv, TypeOK, DrainInv, CmdInv
    <2> QED
      BY <2>1, <2>3 DEF IInv
  <1>2. ASSUME IInv, HandleTimeout \/ ReadOnly PROVE IInv'
    <2>1. /\ UNCHANGED <<pending, tenant, known, catalogVars, todo, stopping, crashes>>
          /\ used' = used /\ acked' = acked /\ phase' = "idle" /\ cmd' = Idle
          /\ phase = "flush" /\ todo = {}
      BY <1>2 DEF HandleTimeout, ReadOnly, Ready, Flushed, Finish
    <2>2. BatchInv' /\ StoreInv' /\ AckedAccounted' /\ SweepCoversWrites' /\ OpenKeys' = OpenKeys
      BY <1>2, <2>1, FrameIInv
    <2>3. TypeOK' /\ DrainInv' /\ CmdInv'
      BY <1>2, <2>1, <2>2, Constants DEF IInv, TypeOK, DrainInv, CmdInv
    <2> QED
      BY <2>2, <2>3 DEF IInv
  <1>3. ASSUME IInv, NEW op \in {"CompactAll", "Shutdown", "Disconnected"}, Drain(op),
               phase # "exited"
        PROVE  IInv'
    <2>1. BatchInv' /\ StoreInv' /\ AckedAccounted' /\ SweepCoversWrites' /\ OpenKeys' = OpenKeys
      BY <1>3, FrameIInv DEF Drain
    <2>2. todo' = OpenKeys /\ OpenKeys \subseteq Key
      BY <1>3 DEF Drain, DrainKeys, OpenKeys
    <2>3. Simple(op) \in Command /\ Simple(op).op # "IngestRaw"
      BY <1>3, Constants
    <2>4. TypeOK' /\ DrainInv' /\ CmdInv'
      BY <1>3, <2>1, <2>2, <2>3 DEF Drain, IInv, TypeOK, DrainInv, CmdInv
    <2> QED
      BY <2>1, <2>4 DEF IInv
  <1>4. ASSUME IInv, EndDrain PROVE IInv'
    <2>1. BatchInv' /\ StoreInv' /\ AckedAccounted' /\ SweepCoversWrites' /\ OpenKeys' = OpenKeys
      BY <1>4, FrameIInv DEF EndDrain
    <2>2. TypeOK' /\ DrainInv' /\ CmdInv'
      BY <1>4, <2>1, Constants DEF EndDrain, IInv, TypeOK, DrainInv, CmdInv
    <2> QED
      BY <2>1, <2>2 DEF IInv
  <1>5. ASSUME IInv, shutdown PROVE IInv'
    <2>1. BatchInv' /\ StoreInv' /\ AckedAccounted' /\ SweepCoversWrites' /\ OpenKeys' = OpenKeys
      BY <1>5, FrameIInv DEF shutdown
    <2>2. TypeOK' /\ DrainInv' /\ CmdInv'
      BY <1>5, <2>1 DEF shutdown, IInv, TypeOK, DrainInv, CmdInv
    <2> QED
      BY <2>1, <2>2 DEF IInv
  <1> QED
    BY <1>1, <1>2, <1>3, <1>4, <1>5 DEF CompactAll, Shutdown, Disconnected, Ready, Flushed

\* Flushing one batch of a flush_some.
LEMMA FlushNextIInv ==
    ASSUME IInv, NEW k \in Key, FlushNext(k)
    PROVE  IInv'
  <1>1. PICK o \in Outcomes(pending[k].rows, FALSE) : flush_batch(k, pending[k].rows, o)
    BY DEF FlushNext
  <1>2. /\ used' = used /\ acked' = acked /\ crashes' = crashes /\ stopping' = stopping
        /\ phase' = phase /\ cmd' = cmd /\ todo' = todo \ {k}
    BY DEF FlushNext
  <1>3. pending[k].rows \in SUBSET Row /\ \A r \in pending[k].rows : r.id \in used'
    BY <1>2 DEF IInv, TypeOK, Batch, BatchInv
  <1>4. /\ pending' \in [Key -> Batch] /\ tenant' \in Tenants /\ known' \subseteq Tables
        /\ copies' \in [Row -> Nat] /\ stamp' \in [Row -> Tenants]
        /\ gone' \subseteq Row /\ faults' \in Nat
        /\ BatchInv' /\ StoreInv' /\ SweepCoversWrites'
        /\ OpenKeys' = OpenKeys \ {k}
        /\ Accounted \subseteq Accounted'
    BY <1>1, <1>2, <1>3, FlushFacts DEF IInv
  <1>5. TypeOK' /\ DrainInv' /\ CmdInv'
    BY <1>2, <1>4 DEF IInv, TypeOK, DrainInv, CmdInv
  <1>6. AckedAccounted'
    BY <1>2, <1>4 DEF IInv, AckedAccounted, Accounted
  <1> QED
    BY <1>4, <1>5, <1>6 DEF IInv
\* What an ingest that can be served brings: rows of its own, never sent.
LEMMA IngestFresh ==
    ASSUME IInv, NEW t \in Tenants, NEW tb \in Tables, NEW c \in Shapes, NEW rows,
           Ingest(t, tb, c, rows)
    PROVE  /\ rows \in SUBSET Row /\ phase = "flush" /\ todo = {}
           /\ \A r \in rows : r.tenant = t /\ r.table = tb /\ r.cols = c /\ r.id \notin used
  <1>1. CASE Ready /\ rows \in NewRows(t, tb, c)
    BY <1>1, NewRowsFresh DEF Ready, Flushed, AnyTable
  <1>2. CASE /\ Flushed
             /\ cmd = [op |-> "IngestRaw", tenant |-> t, table |-> tb, cols |-> c, rows |-> rows]
    BY <1>2 DEF Flushed, IInv, TypeOK, Command, CmdInv
  <1> QED
    BY <1>1, <1>2 DEF Ingest

\* The old batch goes out before a batch with other columns is started.
LEMMA FlushOldSchemaIInv ==
    ASSUME IInv, NEW t \in Tenants, NEW tb \in Tables, NEW c \in Shapes, NEW rows,
           FlushOldSchema(t, tb, c, rows)
    PROVE  IInv'
  <1> DEFINE k == <<t, tb>>
  <1>1. k \in Key
    BY DEF Key
  <1>2. PICK o \in Outcomes(pending[k].rows, FALSE) : flush_batch(k, pending[k].rows, o)
    BY DEF FlushOldSchema
  <1>3. /\ used' = used /\ acked' = acked /\ crashes' = crashes /\ stopping' = stopping
        /\ phase' = phase /\ todo' = todo /\ phase = "flush" /\ todo = {}
        /\ cmd' = [op |-> "IngestRaw", tenant |-> t, table |-> tb, cols |-> c, rows |-> rows]
    BY DEF FlushOldSchema, Ready, Flushed
  <1>4. /\ rows \in SUBSET Row
        /\ \A r \in rows : r.tenant = t /\ r.table = tb /\ r.cols = c /\ r.id \notin used
    BY NewRowsFresh DEF FlushOldSchema, AnyTable
  <1>5. pending[k].rows \in SUBSET Row /\ \A r \in pending[k].rows : r.id \in used'
    BY <1>1, <1>3 DEF IInv, TypeOK, Batch, BatchInv
  <1> HIDE DEF k
  <1>6. /\ pending' \in [Key -> Batch] /\ tenant' \in Tenants /\ known' \subseteq Tables
        /\ copies' \in [Row -> Nat] /\ stamp' \in [Row -> Tenants]
        /\ gone' \subseteq Row /\ faults' \in Nat
        /\ BatchInv' /\ StoreInv' /\ SweepCoversWrites'
        /\ OpenKeys' = OpenKeys \ {k}
        /\ Accounted \subseteq Accounted'
    BY <1>1, <1>2, <1>3, <1>5, FlushFacts DEF IInv
  <1>7. cmd' \in Command
    BY <1>3, <1>4 DEF Command
  <1>8. TypeOK' /\ DrainInv'
    BY <1>3, <1>6, <1>7 DEF IInv, TypeOK, DrainInv
  <1>9. CmdInv'
    BY <1>3, <1>4 DEF CmdInv
  <1>10. AckedAccounted'
    BY <1>3, <1>6 DEF IInv, AckedAccounted, Accounted
  <1> QED
    BY <1>6, <1>8, <1>9, <1>10 DEF IInv

\* A batch that reached the threshold goes out with the ingest that filled it.
LEMMA IngestFlushedIInv ==
    ASSUME IInv, NEW t \in Tenants, NEW tb \in Tables, NEW c \in Shapes, NEW rows,
           IngestFlushed(t, tb, c, rows)
    PROVE  IInv'
  <1> DEFINE k   == <<t, tb>>
             all == pending[k].rows \cup rows
  <1>1. k \in Key /\ k[1] = t /\ k[2] = tb
    BY DEF Key
  <1>2. /\ rows \in SUBSET Row /\ phase = "flush" /\ todo = {}
        /\ \A r \in rows : r.tenant = t /\ r.table = tb /\ r.cols = c /\ r.id \notin used
    BY IngestFresh DEF IngestFlushed
  <1>3. PICK o \in Outcomes(all, FALSE) : flush_batch(k, all, o) /\ Finish(rows, o.ok)
    BY DEF IngestFlushed
  <1>4. /\ crashes' = crashes /\ stopping' = stopping
        /\ phase' = "idle" /\ todo' = todo /\ cmd' = Idle
        /\ used' = used \cup {r.id : r \in rows}
        /\ acked' = IF o.ok THEN acked \cup rows ELSE acked
    BY <1>3 DEF Finish
  <1>5. pending[k].rows \in SUBSET Row /\ \A r \in pending[k].rows : r.id \in used
    BY <1>1 DEF IInv, TypeOK, Batch, BatchInv
  <1>6. all \in SUBSET Row /\ pending[k].rows \subseteq all /\ used \subseteq used'
    BY <1>2, <1>4, <1>5
  <1>7. \A r \in all : \/ r \in pending[k].rows
                       \/ r.tenant = k[1] /\ r.table = k[2] /\ r.id \notin used
    BY <1>1, <1>2
  <1>8. \A r \in all : r.id \in used'
    BY <1>4, <1>5
  <1>9. used' \subseteq 1..MaxRows
    BY <1>2, <1>4 DEF IInv, TypeOK, Row
  <1>10. rows \subseteq all
    OBVIOUS
  <1> HIDE DEF k, all
  <1>11. /\ pending' \in [Key -> Batch] /\ tenant' \in Tenants /\ known' \subseteq Tables
         /\ copies' \in [Row -> Nat] /\ stamp' \in [Row -> Tenants]
         /\ gone' \subseteq Row /\ faults' \in Nat
         /\ BatchInv' /\ StoreInv' /\ SweepCoversWrites'
         /\ OpenKeys' = OpenKeys \ {k}
         /\ Accounted \subseteq Accounted'
         /\ o.ok => all \subseteq Stored'
    BY <1>1, <1>3, <1>4, <1>6, <1>7, <1>8, FlushFacts DEF IInv
  <1>12. acked' \subseteq Row
    BY <1>2, <1>4 DEF IInv, TypeOK
  <1>13. TypeOK' /\ DrainInv' /\ CmdInv'
    BY <1>2, <1>4, <1>9, <1>11, <1>12, Constants DEF IInv, TypeOK, DrainInv, CmdInv
  <1>14. AckedAccounted'
    <2>1. acked \subseteq Accounted'
      BY <1>2, <1>11 DEF IInv, AckedAccounted, Accounted
    <2>2. o.ok => rows \subseteq Accounted'
      BY <1>10, <1>11 DEF Accounted
    <2> QED
      BY <1>4, <2>1, <2>2 DEF AckedAccounted, Accounted
  <1> QED
    BY <1>11, <1>13, <1>14 DEF IInv
\* An ingest below the threshold is buffered with its own kind.
LEMMA IngestBufferedIInv ==
    ASSUME IInv, NEW t \in Tenants, NEW tb \in Tables, NEW c \in Shapes, NEW rows,
           IngestBuffered(t, tb, c, rows)
    PROVE  IInv'
  <1> DEFINE k   == <<t, tb>>
             all == pending[k].rows \cup rows
  <1>1. k \in Key /\ k[1] = t /\ k[2] = tb
    BY DEF Key
  <1>2. /\ rows \in SUBSET Row /\ phase = "flush" /\ todo = {}
        /\ \A r \in rows : r.tenant = t /\ r.table = tb /\ r.cols = c /\ r.id \notin used
    BY IngestFresh DEF IngestBuffered
  <1>3. /\ crashes' = crashes /\ stopping' = stopping
        /\ phase' = "idle" /\ todo' = todo /\ cmd' = Idle
        /\ used' = used \cup {r.id : r \in rows}
        /\ acked' = acked \cup rows
        /\ known' = known /\ copies' = copies /\ stamp' = stamp /\ gone' = gone
        /\ faults' = faults /\ tenant' = t
    BY DEF IngestBuffered, Finish, catalogVars
  <1>4. /\ pending' = [pending EXCEPT ![k] =
                         [open |-> TRUE, cols |-> c, rows |-> all, aged |-> pending[k].aged]]
        /\ ~SchemaChange(k, c)
    BY DEF IngestBuffered
  <1>5. pending[k] \in Batch /\ pending[k].rows \subseteq Row
    BY <1>1 DEF IInv, TypeOK, Batch
  <1>6. all \in SUBSET Row
    BY <1>2, <1>5
  <1>7. [open |-> TRUE, cols |-> c, rows |-> all, aged |-> pending[k].aged] \in Batch
    BY <1>5, <1>6 DEF Batch
  <1>8. /\ pending' \in [Key -> Batch]
        /\ pending'[k].open /\ pending'[k].cols = c /\ pending'[k].rows = all
        /\ \A j \in Key : j # k => pending'[j] = pending[j]
    BY <1>1, <1>4, <1>7 DEF IInv, TypeOK
  <1>9. used' \subseteq 1..MaxRows /\ used \subseteq used'
    BY <1>2, <1>3 DEF IInv, TypeOK, Row
  <1>10. BatchInv'
    <2> SUFFICES ASSUME NEW j \in Key
                 PROVE  /\ ~pending'[j].open => pending'[j].rows = {}
                        /\ \A r \in pending'[j].rows :
                             /\ r.tenant = j[1] /\ r.table = j[2] /\ r.cols = pending'[j].cols
                             /\ copies'[r] = 0 /\ r.id \in used'
      BY DEF BatchInv
    <2>1. CASE j # k
      BY <1>3, <1>8, <1>9, <2>1 DEF IInv, BatchInv
    <2>2. CASE j = k
      <3>1. ASSUME NEW r \in pending[k].rows
            PROVE  /\ r.tenant = k[1] /\ r.table = k[2] /\ r.cols = c
                   /\ copies[r] = 0 /\ r.id \in used'
        BY <1>1, <1>4, <1>9 DEF IInv, BatchInv, SchemaChange
      <3>2. ASSUME NEW r \in rows
            PROVE  /\ r.tenant = k[1] /\ r.table = k[2] /\ r.cols = c
                   /\ copies[r] = 0 /\ r.id \in used'
        BY <1>1, <1>2, <1>3 DEF IInv, StoreInv, TypeOK
      <3> QED
        BY <1>3, <1>8, <2>2, <3>1, <3>2
    <2> QED
      BY <2>1, <2>2
  <1>11. StoreInv'
    BY <1>3, <1>9 DEF IInv, StoreInv
  <1>12. SweepCoversWrites' /\ Stored' = Stored
    BY <1>3 DEF IInv, SweepCoversWrites, Stored
  <1>13. Buffered \cup rows \subseteq Buffered'
    <2>1. ASSUME NEW r \in Buffered PROVE r \in Buffered'
      <3>1. PICK j \in Key : r \in pending[j].rows
        BY BufferedMember
      <3>2. r \in pending'[j].rows
        BY <1>8, <3>1
      <3> QED
        BY <3>2, BufferedMemberNext
    <2>2. ASSUME NEW r \in rows PROVE r \in Buffered'
      BY <1>1, <1>8, BufferedMemberNext
    <2> QED
      BY <2>1, <2>2
  <1>14. AckedAccounted'
    BY <1>2, <1>3, <1>12, <1>13 DEF IInv, AckedAccounted
  <1>15. TypeOK'
    BY <1>2, <1>3, <1>8, <1>9, Constants DEF IInv, TypeOK
  <1>16. CmdInv' /\ DrainInv'
    BY <1>2, <1>3, Constants DEF CmdInv, DrainInv
  <1> QED
    BY <1>10, <1>11, <1>12, <1>14, <1>15, <1>16 DEF IInv

\* A command that goes to the writer at once: it brings new rows of one kind,
\* and what disappears was just merged or stored; a command without new rows
\* removes rows of its own tenant.
DirectCall(t, tb, rows, o, over) ==
    /\ rows \in SUBSET Row /\ over \in SUBSET Row
    /\ o.ok \in BOOLEAN /\ o.done \subseteq rows
    /\ \A r \in rows : /\ r.tenant = t /\ r.table = tb
                       /\ r.cols = AnyShape /\ r.id \notin used
    /\ \A r \in over : /\ r \in o.done \/ copies[r] > 0
                       /\ r.table = tb
                       /\ rows = {} => stamp[r] = t
    /\ Ready /\ CallWriter(t, tb, rows, o, over)

\* What it changes.
DirectEffect(t, tb, rows, o, over) ==
    /\ crashes' = crashes /\ stopping' = stopping /\ tenant' = t /\ pending' = pending
    /\ phase' = "idle" /\ todo' = todo /\ cmd' = Idle
    /\ phase = "flush" /\ todo = {}
    /\ used' = used \cup {r.id : r \in rows} /\ used' \subseteq 1..MaxRows
    /\ acked' = IF o.ok THEN acked \cup rows ELSE acked
    /\ \A r \in Row : copies'[r] = IF r \in over THEN 0
                                  ELSE IF r \in o.done THEN 1 ELSE copies[r]
    /\ \A r \in Row : stamp'[r] = IF r \in o.done THEN t ELSE stamp[r]
    /\ copies' \in [Row -> Nat] /\ stamp' \in [Row -> Tenants]
    /\ gone' = gone \cup over \cup (IF o.ok THEN rows \ o.done ELSE rows)
    /\ gone' \subseteq Row /\ faults' \in Nat
    /\ known' = IF o.ok /\ tb # Engine THEN known \cup {tb} ELSE known
    /\ \A r \in rows : copies[r] = 0

\* See DirectCall and DirectEffect.
LEMMA DirectCallEffect ==
    ASSUME IInv, NEW t \in Tenants, NEW tb \in AnyTable, NEW rows, NEW o, NEW over,
           DirectCall(t, tb, rows, o, over)
    PROVE  DirectEffect(t, tb, rows, o, over)
  <1> USE DEF DirectCall
  <1>1. o.done \subseteq rows /\ o.ok \in BOOLEAN
    OBVIOUS
  <1>2. \A r \in rows : copies[r] = 0
    BY DEF IInv, StoreInv, TypeOK
  <1>3. copies' = [r \in Row |-> IF r \in over THEN 0
                                ELSE IF r \in o.done THEN copies[r] + 1 ELSE copies[r]]
    BY DEF CallWriter
  <1>4. \A r \in Row : copies'[r] = IF r \in over THEN 0
                                     ELSE IF r \in o.done THEN 1 ELSE copies[r]
    BY <1>1, <1>2, <1>3
  <1>5. copies' \in [Row -> Nat]
    BY <1>3 DEF IInv, TypeOK
  <1>6. /\ stamp' = [r \in Row |-> IF r \in o.done THEN t ELSE stamp[r]]
        /\ gone' = gone \cup over \cup (IF o.ok THEN rows \ o.done ELSE rows)
        /\ known' = IF o.ok /\ tb # Engine THEN known \cup {tb} ELSE known
    BY DEF CallWriter
  <1>7. stamp' \in [Row -> Tenants] /\ \A r \in Row : stamp'[r] = IF r \in o.done THEN t ELSE stamp[r]
    BY <1>6 DEF IInv, TypeOK
  <1>8. gone' \subseteq Row
    BY <1>6 DEF IInv, TypeOK
  <1>9. faults' \in Nat
    BY DEF CallWriter, Fault, IInv, TypeOK
  <1>10. /\ crashes' = crashes /\ stopping' = stopping /\ tenant' = t /\ pending' = pending
         /\ phase' = "idle" /\ todo' = todo /\ cmd' = Idle
         /\ used' = used \cup {r.id : r \in rows}
         /\ acked' = IF o.ok THEN acked \cup rows ELSE acked
         /\ phase = "flush" /\ todo = {}
    BY DEF CallWriter, Finish, Ready, Flushed
  <1>11. used' \subseteq 1..MaxRows
    BY <1>10 DEF IInv, TypeOK, Row
  <1> QED
    BY <1>2, <1>4, <1>5, <1>6, <1>7, <1>8, <1>9, <1>10, <1>11 DEF DirectEffect

\* A command that goes to the writer at once keeps the invariant.
LEMMA DirectCallIInv ==
    ASSUME IInv, NEW t \in Tenants, NEW tb \in AnyTable, NEW rows, NEW o, NEW over,
           DirectCall(t, tb, rows, o, over)
    PROVE  IInv'
  <1>1. /\ DirectEffect(t, tb, rows, o, over)
        /\ rows \in SUBSET Row /\ over \in SUBSET Row /\ o.ok \in BOOLEAN /\ o.done \subseteq rows
        /\ \A r \in rows : r.tenant = t /\ r.table = tb /\ r.id \notin used
    BY DirectCallEffect DEF DirectCall
  <1> USE DEF DirectEffect
  <1>2. StoreInv'
    <2> SUFFICES ASSUME NEW r \in Row
                 PROVE  /\ copies'[r] <= 1
                        /\ copies'[r] > 0 => stamp'[r] = r.tenant /\ r.id \in used'
      BY DEF StoreInv
    <2>1. CASE r \in over
      BY <1>1, <2>1
    <2>2. CASE r \notin over /\ r \in o.done
      BY <1>1, <2>2
    <2>3. CASE r \notin over /\ r \notin o.done
      BY <1>1, <2>3 DEF IInv, StoreInv
    <2> QED
      BY <2>1, <2>2, <2>3
  <1>3. /\ Stored' \subseteq Stored \cup o.done /\ Stored \subseteq Stored' \cup gone'
        /\ rows \subseteq Stored' \cup gone' /\ gone \subseteq gone'
    BY <1>1 DEF Stored
  <1>4. BatchInv'
    <2>1. ASSUME NEW k \in Key, NEW r \in pending[k].rows
          PROVE  copies'[r] = 0 /\ r.id \in used'
      <3>1. r \in Row /\ r.id \in used /\ copies[r] = 0
        BY DEF IInv, BatchInv, TypeOK, Batch
      <3>2. r \notin rows /\ r \notin o.done
        BY <1>1, <3>1
      <3>3. copies'[r] = IF r \in over THEN 0 ELSE IF r \in o.done THEN 1 ELSE copies[r]
        BY <1>1, <3>1
      <3>4. used \subseteq used'
        BY <1>1
      <3> QED
        BY <3>1, <3>2, <3>3, <3>4
    <2> QED
      BY <1>1, <2>1 DEF IInv, BatchInv
  <1>5. known' \subseteq Tables /\ known \subseteq known' /\ (o.ok => tb = Engine \/ tb \in known')
    BY <1>1 DEF IInv, TypeOK, AnyTable
  <1>6. SweepCoversWrites'
    <2> SUFFICES ASSUME crashes = 0, NEW r \in Stored' \ gone'
                 PROVE  r.table = Engine \/ r.table \in known'
      BY <1>1 DEF SweepCoversWrites
    <2>1. CASE r \in rows
      BY <1>1, <1>5, <2>1
    <2>2. CASE r \notin rows
      <3>1. r \in Stored \ gone
        BY <1>1, <1>3, <2>2
      <3> QED
        BY <1>5, <3>1 DEF IInv, SweepCoversWrites
    <2> QED
      BY <2>1, <2>2
  <1>7. OpenKeys' = OpenKeys /\ Buffered' = Buffered
    BY <1>1 DEF OpenKeys, Buffered
  <1>8. AckedAccounted'
    BY <1>1, <1>3, <1>7 DEF IInv, AckedAccounted
  <1>9. acked' \subseteq Row
    BY <1>1 DEF IInv, TypeOK
  <1>10. TypeOK' /\ DrainInv' /\ CmdInv'
    BY <1>1, <1>5, <1>7, <1>9, Constants DEF IInv, TypeOK, DrainInv, CmdInv
  <1> QED
    BY <1>2, <1>4, <1>6, <1>8, <1>10 DEF IInv

\* The direct writes are such calls: what a merge overwrites is stored, and
\* what a CDC batch deletes is stored or was just merged.
LEMMA DirectWrite ==
    ASSUME IInv, NEW t \in Tenants, NEW tb \in Tables,
           WriteEngineTable(t) \/ UpsertRaw(t, tb) \/ ApplyCdcBatch(t, tb)
    PROVE  \E b \in AnyTable : \E rows, o, over : DirectCall(t, b, rows, o, over)
  <1>1. tb \in AnyTable /\ Engine \in AnyTable /\ AnyShape \in Shapes
    BY Constants DEF AnyTable
  <1>2. CASE WriteEngineTable(t)
    <2>1. PICK rows \in NewRows(t, Engine, AnyShape), atomic \in BOOLEAN :
            \E kept \in IF atomic THEN {rows} ELSE SUBSET rows :
              \E o \in Outcomes(kept, atomic) : CallWriter(t, Engine, rows, o, {})
      BY <1>2 DEF WriteEngineTable
    <2>2. PICK kept \in SUBSET rows : \E o \in Outcomes(kept, atomic) : CallWriter(t, Engine, rows, o, {})
      BY <2>1
    <2>3. PICK o \in Outcomes(kept, atomic) : CallWriter(t, Engine, rows, o, {})
      BY <2>2
    <2>4. /\ rows \in SUBSET Row
          /\ \A r \in rows : r.tenant = t /\ r.table = Engine /\ r.cols = AnyShape /\ r.id \notin used
      BY <1>1, NewRowsFresh
    <2>5. Ready
      BY <1>2 DEF WriteEngineTable
    <2>6. o.ok \in BOOLEAN /\ o.done \subseteq rows
      BY OutcomeFacts
    <2> QED
      BY <1>1, <2>3, <2>4, <2>5, <2>6 DEF DirectCall
  <1>3. CASE UpsertRaw(t, tb)
    <2>1. PICK rows \in NewRows(t, tb, AnyShape) : \E kept \in SUBSET rows :
            \E o \in Outcomes(kept, FALSE) : \E over \in Overwritten(tb, o.done) :
              CallWriter(t, tb, rows, o, over)
      BY <1>3 DEF UpsertRaw
    <2>2. PICK kept \in SUBSET rows : \E o \in Outcomes(kept, FALSE) :
            \E over \in Overwritten(tb, o.done) : CallWriter(t, tb, rows, o, over)
      BY <2>1
    <2>8. PICK o \in Outcomes(kept, FALSE) :
            \E over \in Overwritten(tb, o.done) : CallWriter(t, tb, rows, o, over)
      BY <2>2
    <2>9. PICK over \in Overwritten(tb, o.done) : CallWriter(t, tb, rows, o, over)
      BY <2>8
    <2>3. /\ rows \in SUBSET Row
          /\ \A r \in rows : r.tenant = t /\ r.table = tb /\ r.cols = AnyShape /\ r.id \notin used
      BY <1>1, NewRowsFresh
    <2>4. o.ok \in BOOLEAN /\ o.done \subseteq rows
      BY OutcomeFacts
    <2>5. over \in SUBSET Row
      BY DEF Overwritten, InTable
    <2>6. \A r \in over : copies[r] > 0 /\ r.table = tb /\ rows # {}
      BY <2>4 DEF Overwritten, InTable
    <2>7. Ready
      BY <1>3 DEF UpsertRaw
    <2> QED
      BY <1>1, <2>3, <2>4, <2>5, <2>6, <2>7, <2>9 DEF DirectCall
  <1>4. CASE ApplyCdcBatch(t, tb)
    <2> DEFINE Del(o) ==
                 IF o.ok THEN SUBSET (o.done \cup {r \in Row : Matches(r, t, tb)}) ELSE {{}}
    <2>1. PICK rows \in NewRows(t, tb, AnyShape) \cup {{}} : \E kept \in SUBSET rows :
            \E o \in Outcomes(kept, TRUE) : \E over \in Overwritten(tb, o.done) :
              \E del \in Del(o) : CallWriter(t, tb, rows, o, over \cup del)
      BY <1>4 DEF ApplyCdcBatch
    <2>2. PICK kept \in SUBSET rows : \E o \in Outcomes(kept, TRUE) :
            \E over \in Overwritten(tb, o.done) :
              \E del \in Del(o) : CallWriter(t, tb, rows, o, over \cup del)
      BY <2>1
    <2>12. PICK o \in Outcomes(kept, TRUE) : \E over \in Overwritten(tb, o.done) :
              \E del \in Del(o) : CallWriter(t, tb, rows, o, over \cup del)
      BY <2>2
    <2>13. PICK over \in Overwritten(tb, o.done), del \in Del(o) :
             CallWriter(t, tb, rows, o, over \cup del)
      BY <2>12
    <2>3. /\ rows \in SUBSET Row
          /\ \A r \in rows : r.tenant = t /\ r.table = tb /\ r.cols = AnyShape /\ r.id \notin used
      BY <1>1, NewRowsFresh
    <2>4. o.ok \in BOOLEAN /\ o.done \subseteq rows
      BY OutcomeFacts
    <2>5. over \in SUBSET Row /\ \A r \in over : copies[r] > 0 /\ r.table = tb /\ rows # {}
      BY <2>4 DEF Overwritten, InTable
    <2>6. del \subseteq o.done \cup {r \in Row : Matches(r, t, tb)}
      OBVIOUS
    <2>7. \A r \in del : /\ r \in Row /\ r.table = tb
                         /\ r \in o.done \/ copies[r] > 0
                         /\ rows = {} => stamp[r] = t
      BY <2>3, <2>4, <2>6 DEF Matches
    <2>8. Ready
      BY <1>4 DEF ApplyCdcBatch
    <2> DEFINE both == over \cup del
    <2>9. /\ both \in SUBSET Row
          /\ \A r \in both : /\ r \in o.done \/ copies[r] > 0
                             /\ r.table = tb
                             /\ rows = {} => stamp[r] = t
      <3>1. \A r \in both : r \in over \/ r \in del
        OBVIOUS
      <3> HIDE DEF both
      <3> QED
        BY <2>5, <2>7, <3>1
    <2>11. CallWriter(t, tb, rows, o, both)
      BY <2>13
    <2> HIDE DEF both
    <2>10. DirectCall(t, tb, rows, o, both)
      BY <2>3, <2>4, <2>8, <2>9, <2>11 DEF DirectCall
    <2> QED
      BY <1>1, <2>10
  <1> QED
    BY <1>2, <1>3, <1>4

\* The direct writes keep the invariant.
LEMMA DirectWriteIInv ==
    ASSUME IInv, NEW t \in Tenants, NEW tb \in Tables,
           WriteEngineTable(t) \/ UpsertRaw(t, tb) \/ ApplyCdcBatch(t, tb)
    PROVE  IInv'
  <1>1. PICK b \in AnyTable : \E rows, o, over : DirectCall(t, b, rows, o, over)
    BY DirectWrite
  <1> QED
    BY <1>1, DirectCallIInv
\* A delete, complete or not.
LEMMA DeleteRawIInv ==
    ASSUME IInv, NEW t \in Tenants, NEW tb \in Tables, DeleteRaw(t, tb)
    PROVE  IInv'
  <1>1. PICK K \in SUBSET used :
          \E o \in Outcomes({r \in Row : Matches(r, t, tb) /\ r.id \in K}, FALSE) :
            /\ Fault(o)
            /\ copies' = [r \in Row |-> IF r \in o.done THEN 0 ELSE copies[r]]
            /\ gone' = gone \cup o.done
            /\ known' = IF o.ok THEN known \cup {tb} ELSE known
    BY DEF DeleteRaw
  <1> DEFINE hit == {r \in Row : Matches(r, t, tb) /\ r.id \in K}
  <1>2. PICK o \in Outcomes(hit, FALSE) :
            /\ Fault(o)
            /\ copies' = [r \in Row |-> IF r \in o.done THEN 0 ELSE copies[r]]
            /\ gone' = gone \cup o.done
            /\ known' = IF o.ok THEN known \cup {tb} ELSE known
    BY <1>1
  <1>3. o.done \subseteq hit
    BY <1>2, OutcomeFacts
  <1>4. o.done \subseteq Row
    BY <1>3
  <1> HIDE DEF hit
  <1>5. /\ crashes' = crashes /\ stopping' = stopping /\ tenant' = t /\ pending' = pending
        /\ phase' = "idle" /\ todo' = todo /\ cmd' = Idle /\ stamp' = stamp
        /\ used' = used /\ acked' = acked
        /\ phase = "flush" /\ todo = {}
    BY DEF DeleteRaw, Finish, Ready, Flushed
  <1>6. copies' \in [Row -> Nat]
    BY <1>2 DEF IInv, TypeOK
  <1>7. \A r \in Row : copies'[r] = 0 \/ copies'[r] = copies[r]
    BY <1>2
  <1>8. gone' \subseteq Row /\ faults' \in Nat /\ known' \subseteq Tables /\ known \subseteq known'
    BY <1>2, <1>4 DEF IInv, TypeOK, Fault
  <1>9. BatchInv'
    <2>1. ASSUME NEW k \in Key, NEW r \in pending[k].rows PROVE copies'[r] = 0
      <3>1. r \in Row /\ copies[r] = 0
        BY DEF IInv, BatchInv, TypeOK, Batch
      <3> QED
        BY <1>7, <3>1
    <2> QED
      BY <1>5, <2>1 DEF IInv, BatchInv
  <1>10. StoreInv'
    BY <1>5, <1>7 DEF IInv, StoreInv
  <1>11. Stored' \subseteq Stored /\ Stored \subseteq Stored' \cup gone' /\ gone \subseteq gone'
    BY <1>2, <1>7 DEF Stored
  <1>12. OpenKeys' = OpenKeys /\ Buffered' = Buffered
    BY <1>5 DEF OpenKeys, Buffered
  <1>13. AckedAccounted' /\ SweepCoversWrites'
    BY <1>5, <1>8, <1>11, <1>12 DEF IInv, AckedAccounted, SweepCoversWrites
  <1>14. TypeOK' /\ DrainInv' /\ CmdInv'
    BY <1>5, <1>6, <1>8, <1>12, Constants DEF IInv, TypeOK, DrainInv, CmdInv
  <1> QED
    BY <1>9, <1>10, <1>13, <1>14 DEF IInv

\* A batch grows old.
LEMMA AgeIInv ==
    ASSUME IInv, NEW k \in Key, Age(k)
    PROVE  IInv'
  <1> USE DEF catalogVars, loopVars
  <1>1. /\ pending' = [pending EXCEPT ![k].aged = TRUE]
        /\ UNCHANGED <<tenant, known, loopVars, catalogVars, stopping, used, acked, crashes>>
    BY DEF Age
  <1>2. pending' \in [Key -> Batch]
    BY <1>1 DEF IInv, TypeOK, Batch
  <1>3. \A j \in Key : /\ pending'[j].open = pending[j].open
                       /\ pending'[j].rows = pending[j].rows
                       /\ pending'[j].cols = pending[j].cols
    BY <1>1 DEF IInv, TypeOK, Batch
  <1>4. OpenKeys' = OpenKeys
    BY <1>3 DEF OpenKeys
  <1>5. \A r : r \in Buffered' <=> r \in Buffered
    BY <1>3, BufferedMember, BufferedMemberNext
  <1>6. BatchInv' /\ StoreInv'
    BY <1>1, <1>3 DEF IInv, BatchInv, StoreInv
  <1>7. Stored' = Stored
    BY <1>1 DEF Stored
  <1>8. AckedAccounted' /\ SweepCoversWrites'
    BY <1>1, <1>5, <1>7 DEF IInv, AckedAccounted, SweepCoversWrites
  <1>9. TypeOK' /\ DrainInv' /\ CmdInv'
    BY <1>1, <1>2, <1>4 DEF IInv, TypeOK, DrainInv, CmdInv
  <1> QED
    BY <1>6, <1>8, <1>9 DEF IInv

\* The end of the process, wanted or not, empties the memory.
LEMMA ProcessEndIInv == IInv /\ (ProcessExit \/ CrashRestart) => IInv'
  <1> SUFFICES ASSUME IInv, ProcessExit \/ CrashRestart PROVE IInv'
    OBVIOUS
  <1> USE DEF catalogVars
  <1>1. /\ pending' = NoBatches /\ cmd' = Idle /\ todo' = {}
        /\ copies' = copies /\ stamp' = stamp /\ faults' = faults
        /\ used' = used /\ acked' = acked
    BY DEF ProcessExit, CrashRestart
  <1>2. \A k \in Key : ~pending'[k].open /\ pending'[k].rows = {}
    BY <1>1 DEF NoBatches, Closed
  <1>3. BatchInv' /\ StoreInv'
    BY <1>1, <1>2 DEF IInv, BatchInv, StoreInv
  <1>4. OpenKeys' = {} /\ Stored' = Stored
    BY <1>1, <1>2 DEF OpenKeys, Stored
  <1>5. CmdInv' /\ DrainInv'
    BY <1>1, <1>4, Constants DEF CmdInv, DrainInv
  <1>6. CASE ProcessExit
    <2>1. TypeOK'
      BY <1>1, <1>6, Constants DEF ProcessExit, IInv, TypeOK
    <2>2. AckedAccounted' /\ SweepCoversWrites'
      BY <1>1, <1>4, <1>6 DEF ProcessExit, IInv, AckedAccounted, SweepCoversWrites
    <2> QED
      BY <1>3, <1>5, <2>1, <2>2 DEF IInv
  <1>7. CASE CrashRestart
    <2>1. Buffered \subseteq Row
      BY BufferedMember DEF IInv, TypeOK, Batch
    <2>2. gone' = gone \cup Buffered
      BY <1>7 DEF CrashRestart
    <2>3. TypeOK'
      <3>1. /\ tenant' = DefaultTenant /\ known' = {} /\ phase' = "idle" /\ stopping' = FALSE
            /\ crashes' = crashes + 1
        BY <1>7 DEF CrashRestart
      <3>2. gone' \subseteq Row
        BY <2>1, <2>2 DEF IInv, TypeOK
      <3>3. tenant' \in Tenants /\ crashes' \in Nat
        BY <3>1, WriterLoopAssumption DEF IInv, TypeOK
      <3>4. pending' \in [Key -> Batch] /\ cmd' \in Command
        BY <1>1, Constants
      <3>5. /\ copies' \in [Row -> Nat] /\ stamp' \in [Row -> Tenants] /\ faults' \in Nat
            /\ used' \subseteq 1..MaxRows /\ acked' \subseteq Row
        BY <1>1 DEF IInv, TypeOK
      <3> QED
        BY <1>1, <3>1, <3>2, <3>3, <3>4, <3>5 DEF TypeOK
    <2>4. AckedAccounted'
      BY <1>1, <1>4, <1>7, <2>2 DEF CrashRestart, IInv, AckedAccounted
    <2>5. SweepCoversWrites'
      BY <1>7 DEF CrashRestart, IInv, TypeOK, SweepCoversWrites
    <2> QED
      BY <1>3, <1>5, <2>3, <2>4, <2>5 DEF IInv
  <1> QED
    BY <1>6, <1>7

\* Every step preserves the invariant.
LEMMA NextIInv == IInv /\ [Next]_vars => IInv'
  <1> SUFFICES ASSUME IInv, [Next]_vars PROVE IInv'
    OBVIOUS
  <1>1. CASE ServeIngest
    <2>1. PICK t \in Tenants, tb \in Tables, c \in Shapes :
            \E rows \in NewRows(t, tb, c) :
                \/ FlushOldSchema(t, tb, c, rows)
                \/ IngestBuffered(t, tb, c, rows)
                \/ IngestFlushed(t, tb, c, rows)
      BY <1>1 DEF ServeIngest
    <2> QED
      BY <2>1, FlushOldSchemaIInv, IngestBufferedIInv, IngestFlushedIInv
  <1>2. ASSUME NEW t \in Tenants, WriteEngineTable(t) PROVE IInv'
    BY <1>2, DirectWriteIInv, WriterLoopAssumption
  <1>3. ASSUME NEW t \in Tenants, NEW tb \in Tables, UpsertRaw(t, tb) \/ ApplyCdcBatch(t, tb)
        PROVE  IInv'
    BY <1>3, DirectWriteIInv
  <1>4. ASSUME NEW t \in Tenants, NEW tb \in Tables, DeleteRaw(t, tb) PROVE IInv'
    BY <1>4, DeleteRawIInv
  <1>5. CASE Wake \/ HandleTimeout \/ ReadOnly \/ CompactAll \/ Shutdown \/ Disconnected
               \/ EndDrain \/ shutdown
    BY <1>5, ControlIInv
  <1>6. ASSUME NEW k \in Key, FlushNext(k) \/ Age(k) PROVE IInv'
    BY <1>6, FlushNextIInv, AgeIInv
  <1>7. CASE ProcessExit \/ CrashRestart
    BY <1>7, ProcessEndIInv
  <1>8. CASE UNCHANGED vars
    BY <1>8 DEF vars, loopVars, catalogVars, IInv, TypeOK, BatchInv, StoreInv, CmdInv, DrainInv,
                AckedAccounted, SweepCoversWrites, OpenKeys, Stored, Buffered
  <1> QED
    BY <1>1, <1>2, <1>3, <1>4, <1>5, <1>6, <1>7, <1>8 DEF Next, writer_loop, Serve

\* The inductive invariant is an invariant.
LEMMA IInvHolds == Spec => []IInv
  BY InitIInv, NextIInv, PTL DEF Spec

-----------------------------------------------------------------------------
\* The variables of the actor keep their types.
THEOREM TypeCorrect == Spec => []TypeOK
  BY IInvHolds, PTL DEF IInv

\* writer_loop / flush_batch: no delayed flush stamps a row with another
\* tenant than its sender's, and no row is committed twice.
THEOREM TenantStampsAreRight == Spec => [](StampedByOwner /\ AtMostOnce)
  <1>1. IInv => StampedByOwner /\ AtMostOnce
    BY DEF IInv, StoreInv, StampedByOwner, AtMostOnce, Stored
  <1> QED
    BY <1>1, IInvHolds, PTL

\* writer_loop: an acknowledged row is only lost with an error, under a row of
\* its key, by a delete or with the death of the process.
THEOREM AckedRowsAreAccounted == Spec => []AckedAccounted
  BY IInvHolds, PTL DEF IInv

\* flush_pending: when the thread ends by itself the buffer is empty, so every
\* acknowledged row is committed or accounted for.
THEOREM DrainIsComplete == Spec => []StoppedMeansDurable
  <1>1. IInv => StoppedMeansDurable
    <2> SUFFICES ASSUME IInv, phase = "stopped" PROVE acked \subseteq Stored \cup gone
      BY DEF StoppedMeansDurable
    <2>1. OpenKeys = {}
      BY DEF IInv, DrainInv
    <2>2. \A k \in Key : ~pending[k].open
      BY <2>1 DEF OpenKeys
    <2>3. \A k \in Key : pending[k].rows = {}
      BY <2>2 DEF IInv, BatchInv
    <2>4. \A r : r \notin Buffered
      BY <2>3, BufferedMember
    <2> QED
      BY <2>4 DEF IInv, AckedAccounted
  <1> QED
    BY <1>1, IInvHolds, PTL

\* Cmd::CompactAll: the sweep covers every raw table written without an error.
THEOREM SweepIsComplete == Spec => []SweepCoversWrites
  BY IInvHolds, PTL DEF IInv

\* writer_loop / merge_deletes / merge_upserts: a row is only removed by its
\* own tenant, or under the newly merged rows of its table.
THEOREM DeletesAreTenantScoped == Spec => DeletesOwnRowsOnly
  <1> DEFINE Allowed(r) == \/ tenant' = r.tenant
                           \/ \E q \in Row : q.table = r.table /\ q.id \in used' \ used
  <1>1. ASSUME IInv, [Next]_vars, NEW r \in Row, copies'[r] < copies[r]
        PROVE  Allowed(r)
    <2>1. copies \in [Row -> Nat]
      BY <1>1 DEF IInv, TypeOK
    <2>2. ASSUME NEW rows, NEW t, NEW o, Commit(rows, t, o) PROVE FALSE
      BY <1>1, <2>1, <2>2 DEF Commit
    <2>3. copies' # copies
      BY <1>1, <2>1
    <2>4. ASSUME NEW t \in Tenants, NEW tb \in Tables, DeleteRaw(t, tb)
          PROVE  tenant' = r.tenant
      <3>1. PICK K \in SUBSET used :
              \E o \in Outcomes({q \in Row : Matches(q, t, tb) /\ q.id \in K}, FALSE) :
                copies' = [q \in Row |-> IF q \in o.done THEN 0 ELSE copies[q]]
        BY <2>4 DEF DeleteRaw
      <3> DEFINE hit == {q \in Row : Matches(q, t, tb) /\ q.id \in K}
      <3>2. PICK o \in Outcomes(hit, FALSE) :
              copies' = [q \in Row |-> IF q \in o.done THEN 0 ELSE copies[q]]
        BY <3>1
      <3>3. o.done \subseteq hit
        BY <3>2, OutcomeFacts
      <3>4. r \in o.done
        BY <1>1, <2>1, <3>2
      <3>5. Matches(r, t, tb)
        BY <3>3, <3>4
      <3>6. stamp[r] = r.tenant
        BY <1>1, <3>5 DEF Matches, IInv, StoreInv
      <3> QED
        BY <2>4, <3>5, <3>6 DEF Matches, DeleteRaw
    <2>5. ASSUME NEW k, NEW rows, NEW o, flush_batch(k, rows, o) PROVE FALSE
      BY <2>2, <2>5 DEF flush_batch
    <2>6. ASSUME NEW t \in Tenants, NEW tb \in Tables,
                 WriteEngineTable(t) \/ UpsertRaw(t, tb) \/ ApplyCdcBatch(t, tb)
          PROVE  Allowed(r)
      <3>1. PICK b \in AnyTable : \E rows, o, over : DirectCall(t, b, rows, o, over)
        BY <1>1, <2>6, DirectWrite
      <3>2. PICK rows, o, over : DirectCall(t, b, rows, o, over)
        BY <3>1
      <3>3. DirectEffect(t, b, rows, o, over)
        BY <1>1, <3>2, DirectCallEffect
      <3> USE DEF DirectCall, DirectEffect
      <3>4. r \in over /\ copies[r] > 0
        BY <1>1, <2>1, <3>2, <3>3
      <3>5. CASE rows = {}
        BY <1>1, <3>2, <3>3, <3>4, <3>5 DEF IInv, StoreInv
      <3>6. CASE rows # {}
        <4>1. PICK q \in rows : TRUE
          BY <3>6
        <4> QED
          BY <3>1, <3>2, <3>3, <3>4, <4>1
      <3> QED
        BY <3>5, <3>6
    <2>7. CASE ServeIngest
      <3>1. \E t \in Tenants, tb \in Tables, c \in Shapes : \E rows \in NewRows(t, tb, c) :
                \/ FlushOldSchema(t, tb, c, rows)
                \/ IngestBuffered(t, tb, c, rows)
                \/ IngestFlushed(t, tb, c, rows)
        BY <2>7 DEF ServeIngest
      <3>2. ASSUME NEW t, NEW tb, NEW c, NEW rows, FlushOldSchema(t, tb, c, rows) PROVE FALSE
        BY <2>5, <3>2 DEF FlushOldSchema
      <3>3. ASSUME NEW t, NEW tb, NEW c, NEW rows, IngestBuffered(t, tb, c, rows) PROVE FALSE
        BY <2>3, <3>3 DEF IngestBuffered, catalogVars
      <3>4. ASSUME NEW t, NEW tb, NEW c, NEW rows, IngestFlushed(t, tb, c, rows) PROVE FALSE
        BY <2>5, <3>4 DEF IngestFlushed
      <3> QED
        BY <3>1, <3>2, <3>3, <3>4
    <2>8. CASE Wake \/ HandleTimeout \/ ReadOnly \/ CompactAll \/ Shutdown \/ Disconnected
                 \/ EndDrain \/ shutdown \/ ProcessExit \/ CrashRestart \/ UNCHANGED vars
      BY <2>3, <2>8 DEF Wake, HandleTimeout, ReadOnly, CompactAll, Shutdown, Disconnected, Drain,
                        EndDrain, shutdown, ProcessExit, CrashRestart, vars, catalogVars
    <2>9. ASSUME NEW k \in Key, FlushNext(k) \/ Age(k) PROVE FALSE
      BY <2>3, <2>5, <2>9 DEF FlushNext, Age, catalogVars
    <2>11. Tables # {}
      BY WriterLoopAssumption
    <2> QED
      BY <1>1, <2>4, <2>6, <2>7, <2>8, <2>9, <2>11 DEF Next, writer_loop, Serve
  <1>2. IInv /\ [Next]_vars => [\A r \in Row : copies'[r] < copies[r] => Allowed(r)]_vars
    BY <1>1
  <1> QED
    BY <1>2, IInvHolds, PTL DEF Spec, DeletesOwnRowsOnly

-----------------------------------------------------------------------------
(***************************************************************************)
(* The ingestion actor implements RowLife: its initial states map to the   *)
(* initial state of RowLife, and each of its steps to one of Hold, Store,  *)
(* Remove, Merge and End, or to none.                                      *)
(***************************************************************************)
\* What is in memory was answered, and whatever was answered or lost was sent:
\* a row that is gone can therefore never be the row of a new command.
HistoryInv ==
    /\ \A r \in Row : r \in Buffered => r \in acked
    /\ \A r \in Row : r \in acked \/ r \in gone => r.id \in used

RInv == IInv /\ HistoryInv

-----------------------------------------------------------------------------
\* Life, given that no row has two copies.
LEMMA LifeValue ==
    ASSUME IInv
    PROVE  \A r \in Row :
             Life[r] = IF copies[r] = 1 THEN "stored"
                       ELSE IF r \in Buffered THEN "held"
                       ELSE IF r \in acked \/ r \in gone THEN "lost" ELSE "unsent"
  <1> SUFFICES ASSUME NEW r \in Row
               PROVE  Life[r] = IF copies[r] = 1 THEN "stored"
                                ELSE IF r \in Buffered THEN "held"
                                ELSE IF r \in acked \/ r \in gone THEN "lost" ELSE "unsent"
    OBVIOUS
  <1>1. copies[r] = 0 \/ copies[r] = 1
    BY DEF IInv, TypeOK, StoreInv
  <1> QED
    BY <1>1 DEF Life

\* See LifeValue, in the next state.
LEMMA LifeValueNext ==
    ASSUME IInv'
    PROVE  \A r \in Row :
             Life'[r] = IF copies'[r] = 1 THEN "stored"
                        ELSE IF r \in Buffered' THEN "held"
                        ELSE IF r \in acked' \/ r \in gone' THEN "lost" ELSE "unsent"
  <1> SUFFICES ASSUME NEW r \in Row
               PROVE  Life'[r] = IF copies'[r] = 1 THEN "stored"
                                 ELSE IF r \in Buffered' THEN "held"
                                 ELSE IF r \in acked' \/ r \in gone' THEN "lost" ELSE "unsent"
    OBVIOUS
  <1>1. copies'[r] = 0 \/ copies'[r] = 1
    BY DEF IInv, TypeOK, StoreInv
  <1> QED
    BY <1>1 DEF Life

\* The rows of a batch are buffered, of the batch's kind, and not stored.
LEMMA BatchRows ==
    ASSUME IInv, NEW k \in Key
    PROVE  /\ pending[k].rows \in SUBSET Row
           /\ \A r \in pending[k].rows :
                /\ r \in Buffered /\ copies[r] = 0 /\ r.id \in used
                /\ r.tenant = k[1] /\ r.table = k[2] /\ r.cols = pending[k].cols
  BY BufferedMember DEF IInv, TypeOK, Batch, BatchInv

\* A batch that goes out leaves the buffer, and nothing else does.
LEMMA FlushedBuffer ==
    ASSUME IInv, NEW k \in Key, pending' = [pending EXCEPT ![k] = Closed],
           NEW rows, pending[k].rows \subseteq rows,
           \A r \in rows : r \in pending[k].rows \/ r.id \notin used
    PROVE  \A r : r \in Buffered' <=> r \in Buffered /\ r \notin rows
  <1> SUFFICES ASSUME NEW r PROVE r \in Buffered' <=> r \in Buffered /\ r \notin rows
    OBVIOUS
  <1>1. /\ pending'[k].rows = {}
        /\ \A j \in Key : j # k => pending'[j] = pending[j]
    BY DEF IInv, TypeOK, Closed
  <1>2. r \in Buffered' <=> \E j \in Key : j # k /\ r \in pending[j].rows
    BY <1>1, BufferedMemberNext
  <1>3. ASSUME NEW j \in Key, j # k, r \in pending[j].rows PROVE r \notin rows
    <2>1. r.id \in used /\ r.tenant = j[1] /\ r.table = j[2]
      BY <1>3, BatchRows
    <2>2. r \notin pending[k].rows
      <3>1. SUFFICES ASSUME r \in pending[k].rows PROVE FALSE
        OBVIOUS
      <3>2. r.tenant = k[1] /\ r.table = k[2]
        BY <3>1, BatchRows
      <3>3. j[1] = k[1] /\ j[2] = k[2]
        BY <2>1, <3>2
      <3> QED
        BY <1>3, <3>3 DEF Key
    <2> QED
      BY <2>1, <2>2
  <1> QED
    BY <1>2, <1>3, BufferedMember

-----------------------------------------------------------------------------
(***************************************************************************)
(* What each kind of step does to the lives of rows.                       *)
(***************************************************************************)
\* Nothing, if it changes neither the catalog nor what was answered.
LEMMA SilentLife ==
    ASSUME RInv, copies' = copies, acked' = acked, gone' = gone, used' = used,
           \A r : r \in Buffered' <=> r \in Buffered
    PROVE  HistoryInv' /\ Life' = Life
  <1>1. HistoryInv'
    BY DEF RInv, HistoryInv
  <1>2. \A r \in Row :
          /\ copies'[r] = copies[r] /\ (r \in Buffered' <=> r \in Buffered)
          /\ r \in acked' \cup gone' <=> r \in acked \cup gone
    OBVIOUS
  <1>3. Life' = Life
    BY <1>2 DEF Life
  <1> QED
    BY <1>1, <1>3

\* A call of the writer stores or loses its rows, which were held or new.
LEMMA CommitLife ==
    ASSUME RInv, IInv',
           NEW rows \in SUBSET Row, NEW t, NEW atomic \in BOOLEAN,
           NEW o \in Outcomes(rows, atomic), Commit(rows, t, o),
           \A r \in rows : copies[r] = 0 /\ (r \in Buffered \/ r.id \notin used),
           \A r : r \in Buffered' <=> r \in Buffered /\ r \notin rows,
           used \subseteq used', \A r \in rows : r.id \in used',
           acked \subseteq acked', acked' \subseteq acked \cup rows
    PROVE  /\ HistoryInv'
           /\ \A r \in Row : r \notin rows => Life'[r] = Life[r]
           /\ \A r \in rows : Life[r] \in {"unsent", "held"} /\ Life'[r] \in {"stored", "lost"}
  <1>1. o.done \subseteq rows /\ o.ok \in BOOLEAN /\ (o.ok => o.done = rows)
    BY OutcomeFacts
  <1>2. /\ \A r \in Row : copies'[r] = IF r \in o.done THEN copies[r] + 1 ELSE copies[r]
        /\ gone' = IF o.ok THEN gone ELSE gone \cup rows
    BY DEF Commit
  <1>3. HistoryInv'
    BY <1>2 DEF RInv, HistoryInv
  <1>4. ASSUME NEW r \in Row, r \notin rows PROVE Life'[r] = Life[r]
    <2>1. copies'[r] = copies[r] /\ (r \in Buffered' <=> r \in Buffered)
      BY <1>1, <1>2, <1>4
    <2>2. r \in acked' \/ r \in gone' <=> r \in acked \/ r \in gone
      BY <1>2, <1>4
    <2> QED
      BY <2>1, <2>2, LifeValue, LifeValueNext DEF RInv
  <1>5. ASSUME NEW r \in rows
        PROVE  Life[r] \in {"unsent", "held"} /\ Life'[r] \in {"stored", "lost"}
    <2>1. Life[r] \in {"unsent", "held"}
      BY LifeValue DEF RInv, HistoryInv
    <2>2. copies'[r] = 1 \/ r \in gone'
      BY <1>1, <1>2
    <2>3. r \notin Buffered'
      OBVIOUS
    <2> QED
      BY <2>1, <2>2, <2>3, LifeValueNext
  <1> QED
    BY <1>3, <1>4, <1>5

\* Where a step leads, from the rows R that it moves.
LEMMA LifeTyped ==
    ASSUME IInv'
    PROVE  Life' \in [Row -> {"unsent", "held", "stored", "lost"}]
  <1>1. \A r \in Row : Life'[r] \in {"unsent", "held", "stored", "lost"}
    BY LifeValueNext
  <1>2. Life' = [r \in Row |-> Life'[r]]
    BY DEF Life
  <1> QED
    BY <1>1, <1>2

\* A call of the writer on rows of one kind is a Store step.
LEMMA StoreStep ==
    ASSUME IInv', NEW R \in SUBSET Row,
           \A r \in Row : r \notin R => Life'[r] = Life[r],
           \A r \in R : Life[r] \in {"unsent", "held"} /\ Life'[r] \in {"stored", "lost"},
           \A r, q \in R : r.tenant = q.tenant /\ r.table = q.table /\ r.cols = q.cols
    PROVE  Rows!Next
  <1>1. Rows!Moved \subseteq R
    BY DEF Rows!Moved
  <1>2. Rows!Store
    BY <1>1 DEF Rows!Store, Rows!Moves, Rows!Uniform
  <1> QED
    BY <1>2, LifeTyped DEF Rows!Next

-----------------------------------------------------------------------------
(***************************************************************************)
(* One lemma per kind of step: the invariant is preserved, and the step is *)
(* one of RowLife or leaves all lives as they are.                         *)
(***************************************************************************)
\* Flushing one batch of a flush_some.
LEMMA FlushNextRefines ==
    ASSUME RInv, IInv', NEW k \in Key, FlushNext(k)
    PROVE  HistoryInv' /\ Rows!Next
  <1>1. PICK o \in Outcomes(pending[k].rows, FALSE) : flush_batch(k, pending[k].rows, o)
    BY DEF FlushNext
  <1> DEFINE R == pending[k].rows
  <1>2. /\ R \in SUBSET Row
        /\ \A r \in R : /\ r \in Buffered /\ copies[r] = 0 /\ r.id \in used
                        /\ r.tenant = k[1] /\ r.table = k[2] /\ r.cols = pending[k].cols
    BY BatchRows DEF RInv
  <1>3. used' = used /\ acked' = acked
    BY DEF FlushNext
  <1>4. Commit(R, k[1], o) /\ pending' = [pending EXCEPT ![k] = Closed]
    BY <1>1 DEF flush_batch
  <1>5. \A r : r \in Buffered' <=> r \in Buffered /\ r \notin R
    BY <1>4, FlushedBuffer DEF RInv
  <1> HIDE DEF R
  <1>6. /\ HistoryInv'
        /\ \A r \in Row : r \notin R => Life'[r] = Life[r]
        /\ \A r \in R : Life[r] \in {"unsent", "held"} /\ Life'[r] \in {"stored", "lost"}
    <2>1. o \in Outcomes(R, FALSE)
      BY <1>1 DEF R
    <2> QED
      BY <1>2, <1>3, <1>4, <1>5, <2>1, CommitLife
  <1> QED
    BY <1>2, <1>6, StoreStep

\* The batch with other columns goes out; the new rows still wait.
LEMMA FlushOldSchemaRefines ==
    ASSUME RInv, IInv', NEW t \in Tenants, NEW tb \in Tables, NEW c \in Shapes, NEW rows,
           FlushOldSchema(t, tb, c, rows)
    PROVE  HistoryInv' /\ Rows!Next
  <1> DEFINE k == <<t, tb>>
             R == pending[k].rows
  <1>1. k \in Key
    BY DEF Key
  <1>2. PICK o \in Outcomes(R, FALSE) : flush_batch(k, R, o)
    BY DEF FlushOldSchema
  <1>3. used' = used /\ acked' = acked
    BY DEF FlushOldSchema
  <1> HIDE DEF k
  <1>4. /\ R \in SUBSET Row
        /\ \A r \in R : /\ r \in Buffered /\ copies[r] = 0 /\ r.id \in used
                        /\ r.tenant = k[1] /\ r.table = k[2] /\ r.cols = pending[k].cols
    BY <1>1, BatchRows DEF RInv
  <1>5. Commit(R, k[1], o) /\ pending' = [pending EXCEPT ![k] = Closed]
    BY <1>2 DEF flush_batch
  <1>6. \A r : r \in Buffered' <=> r \in Buffered /\ r \notin R
    BY <1>1, <1>5, FlushedBuffer DEF RInv
  <1> HIDE DEF R
  <1>7. /\ HistoryInv'
        /\ \A r \in Row : r \notin R => Life'[r] = Life[r]
        /\ \A r \in R : Life[r] \in {"unsent", "held"} /\ Life'[r] \in {"stored", "lost"}
    BY <1>2, <1>3, <1>4, <1>5, <1>6, CommitLife
  <1> QED
    BY <1>4, <1>7, StoreStep

\* A full batch goes out, with the rows of the command that filled it.
LEMMA IngestFlushedRefines ==
    ASSUME RInv, IInv', NEW t \in Tenants, NEW tb \in Tables, NEW c \in Shapes, NEW rows,
           IngestFlushed(t, tb, c, rows)
    PROVE  HistoryInv' /\ Rows!Next
  <1> DEFINE k == <<t, tb>>
             R == pending[k].rows \cup rows
  <1>1. k \in Key /\ k[1] = t /\ k[2] = tb
    BY DEF Key
  <1>2. /\ rows \in SUBSET Row
        /\ \A r \in rows : r.tenant = t /\ r.table = tb /\ r.cols = c /\ r.id \notin used
    BY IngestFresh DEF IngestFlushed, RInv
  <1>3. PICK o \in Outcomes(R, FALSE) : flush_batch(k, R, o) /\ Finish(rows, o.ok)
    BY DEF IngestFlushed
  <1>4. /\ used' = used \cup {r.id : r \in rows}
        /\ acked' = IF o.ok THEN acked \cup rows ELSE acked
    BY <1>3 DEF Finish
  <1>5. pending[k].open => pending[k].cols = c
    BY DEF IngestFlushed, SchemaChange
  <1> HIDE DEF k
  <1>6. /\ pending[k].rows \in SUBSET Row
        /\ \A r \in pending[k].rows :
             /\ r \in Buffered /\ copies[r] = 0 /\ r.id \in used
             /\ r.tenant = k[1] /\ r.table = k[2] /\ r.cols = pending[k].cols
    BY <1>1, BatchRows DEF RInv
  <1>7. \A r \in pending[k].rows : r.cols = c
    BY <1>1, <1>5, <1>6 DEF RInv, IInv, BatchInv
  <1>8. Commit(R, k[1], o) /\ pending' = [pending EXCEPT ![k] = Closed]
    BY <1>3 DEF flush_batch
  <1>9. \A r : r \in Buffered' <=> r \in Buffered /\ r \notin R
    <2>1. pending[k].rows \subseteq R /\ \A r \in R : r \in pending[k].rows \/ r.id \notin used
      BY <1>2
    <2> HIDE DEF R
    <2> QED
      BY <1>1, <1>8, <2>1, FlushedBuffer DEF RInv
  <1>10. /\ R \in SUBSET Row
         /\ \A r \in R : r.tenant = t /\ r.table = tb /\ r.cols = c
         /\ used \subseteq used' /\ \A r \in R : r.id \in used'
         /\ acked \subseteq acked' /\ acked' \subseteq acked \cup R
    BY <1>1, <1>2, <1>4, <1>6, <1>7
  <1>11. \A r \in R : copies[r] = 0 /\ (r \in Buffered \/ r.id \notin used)
    BY <1>2, <1>6 DEF RInv, IInv, StoreInv, TypeOK
  <1> HIDE DEF R
  <1>12. /\ HistoryInv'
         /\ \A r \in Row : r \notin R => Life'[r] = Life[r]
         /\ \A r \in R : Life[r] \in {"unsent", "held"} /\ Life'[r] \in {"stored", "lost"}
    BY <1>3, <1>8, <1>9, <1>10, <1>11, CommitLife
  <1> QED
    BY <1>10, <1>12, StoreStep

\* A direct write stores or loses its new rows, under which stored rows of the
\* table may disappear; one without new rows removes rows of its tenant.
LEMMA DirectWriteRefines ==
    ASSUME RInv, IInv', NEW t \in Tenants, NEW tb \in Tables,
           WriteEngineTable(t) \/ UpsertRaw(t, tb) \/ ApplyCdcBatch(t, tb)
    PROVE  HistoryInv' /\ Rows!Next
  <1>0. PICK b \in AnyTable : \E rows, o, over : DirectCall(t, b, rows, o, over)
    BY DirectWrite DEF RInv
  <1>1. PICK rows, o, over : DirectCall(t, b, rows, o, over)
    BY <1>0
  <1>2. /\ rows \in SUBSET Row /\ over \in SUBSET Row /\ o.ok \in BOOLEAN /\ o.done \subseteq rows
        /\ \A r \in rows : /\ r.tenant = t /\ r.table = b
                           /\ r.cols = AnyShape /\ r.id \notin used
        /\ \A r \in over : /\ r \in o.done \/ copies[r] > 0
                           /\ r.table = b
                           /\ rows = {} => stamp[r] = t
    BY <1>1 DEF DirectCall
  <1>3. /\ pending' = pending
        /\ used' = used \cup {r.id : r \in rows}
        /\ acked' = IF o.ok THEN acked \cup rows ELSE acked
        /\ \A r \in Row : copies'[r] = IF r \in over THEN 0
                                      ELSE IF r \in o.done THEN 1 ELSE copies[r]
        /\ gone' = gone \cup over \cup (IF o.ok THEN rows \ o.done ELSE rows)
        /\ \A r \in rows : copies[r] = 0
    BY <1>1, DirectCallEffect DEF RInv, DirectEffect
  <1>4. Buffered' = Buffered
    BY <1>3 DEF Buffered
  <1>5. \A r \in over : r \in rows \/ (copies[r] = 1 /\ r.id \in used /\ stamp[r] = r.tenant)
    BY <1>2 DEF RInv, IInv, StoreInv, TypeOK
  <1>6. HistoryInv'
    BY <1>3, <1>4, <1>5 DEF RInv, HistoryInv
  <1>7. ASSUME NEW r \in Row, copies[r] # 0 PROVE r \notin Buffered
    <2>1. SUFFICES ASSUME r \in Buffered PROVE FALSE
      OBVIOUS
    <2>2. PICK j \in Key : r \in pending[j].rows
      BY <2>1, BufferedMember
    <2> QED
      BY <1>7, <2>2, BatchRows DEF RInv
  <1>8. ASSUME NEW r \in Row, r \notin rows, r \notin over PROVE Life'[r] = Life[r]
    <2>1. /\ copies'[r] = copies[r]
          /\ r \in acked' \/ r \in gone' <=> r \in acked \/ r \in gone
      BY <1>2, <1>3, <1>8
    <2> QED
      BY <1>4, <2>1, LifeValue, LifeValueNext DEF RInv
  <1>9. ASSUME NEW r \in rows PROVE Life[r] = "unsent" /\ Life'[r] \in {"stored", "lost"}
    <2>1. copies[r] = 0 /\ r \notin Buffered /\ r \notin acked /\ r \notin gone
      BY <1>2, <1>3 DEF RInv, HistoryInv
    <2>2. copies'[r] = 1 \/ r \in gone'
      BY <1>2, <1>3
    <2> QED
      BY <1>2, <1>4, <2>1, <2>2, LifeValue, LifeValueNext DEF RInv
  <1>10. ASSUME NEW r \in over, r \notin rows PROVE Life[r] = "stored" /\ Life'[r] = "lost"
    <2>1. copies[r] = 1 /\ r \notin Buffered
      BY <1>2, <1>5, <1>7, <1>10
    <2>2. copies'[r] = 0 /\ r \in gone'
      BY <1>2, <1>3
    <2> QED
      BY <1>2, <1>4, <2>1, <2>2, LifeValue, LifeValueNext DEF RInv
  <1>11. Rows!Moved \subseteq rows \cup over
    BY <1>8 DEF Rows!Moved
  <1>12. CASE rows = {}
    <2>1. \A r \in over : r.tenant = t /\ r.table = b
      BY <1>2, <1>5, <1>12
    <2>2. Rows!Remove
      BY <1>10, <1>11, <1>12, <2>1 DEF Rows!Remove, Rows!Moves
    <2> QED
      BY <1>6, <2>2, LifeTyped DEF Rows!Next
  <1>13. CASE rows # {}
    <2>1. Rows!Moves({"unsent", "stored"}, {"stored", "lost"})
      BY <1>9, <1>10, <1>11 DEF Rows!Moves
    <2>2. \A r \in Rows!Moved : r.table = b
      BY <1>2, <1>11
    <2>3. \A r \in Rows!Moved : Life[r] = "unsent" => r \in rows
      BY <1>10, <1>11
    <2>4. rows \subseteq Rows!Moved
      BY <1>2, <1>9 DEF Rows!Moved
    <2> DEFINE new == {r \in Rows!Moved : Life[r] = "unsent"}
    <2>5. new # {}
      BY <1>9, <1>13, <2>4
    <2>6. Rows!Uniform(new)
      BY <1>2, <2>3 DEF Rows!Uniform
    <2>7. Rows!Merge
      BY <2>1, <2>2, <2>5, <2>6 DEF Rows!Merge
    <2> QED
      BY <1>6, <2>7, LifeTyped DEF Rows!Next
  <1> QED
    BY <1>12, <1>13

\* Rows below the threshold are held.
LEMMA IngestBufferedRefines ==
    ASSUME RInv, IInv', NEW t \in Tenants, NEW tb \in Tables, NEW c \in Shapes, NEW rows,
           IngestBuffered(t, tb, c, rows)
    PROVE  HistoryInv' /\ Rows!Next
  <1> DEFINE k   == <<t, tb>>
             all == pending[k].rows \cup rows
  <1>1. k \in Key
    BY DEF Key
  <1>2. /\ rows \in SUBSET Row
        /\ \A r \in rows : r.tenant = t /\ r.table = tb /\ r.cols = c /\ r.id \notin used
    BY IngestFresh DEF IngestBuffered, RInv
  <1>3. /\ used' = used \cup {r.id : r \in rows} /\ acked' = acked \cup rows
        /\ copies' = copies /\ gone' = gone
    BY DEF IngestBuffered, Finish, catalogVars
  <1>4. pending' = [pending EXCEPT ![k] =
                      [open |-> TRUE, cols |-> c, rows |-> all, aged |-> pending[k].aged]]
    BY DEF IngestBuffered
  <1> HIDE DEF k
  <1>5. /\ pending'[k].rows = all
        /\ \A j \in Key : j # k => pending'[j] = pending[j]
    BY <1>1, <1>4 DEF RInv, IInv, TypeOK
  <1>6. \A r : r \in Buffered' <=> r \in Buffered \/ r \in rows
    <2> SUFFICES ASSUME NEW r PROVE r \in Buffered' <=> r \in Buffered \/ r \in rows
      OBVIOUS
    <2>1. ASSUME r \in Buffered' PROVE r \in Buffered \/ r \in rows
      <3>1. PICK j \in Key : r \in pending'[j].rows
        BY <2>1, BufferedMemberNext
      <3> QED
        BY <1>1, <1>5, <3>1, BufferedMember
    <2>2. ASSUME r \in Buffered PROVE r \in Buffered'
      <3>1. PICK j \in Key : r \in pending[j].rows
        BY <2>2, BufferedMember
      <3>2. r \in pending'[j].rows
        BY <1>5, <3>1
      <3> QED
        BY <3>2, BufferedMemberNext
    <2>3. ASSUME r \in rows PROVE r \in Buffered'
      BY <1>1, <1>5, <2>3, BufferedMemberNext
    <2> QED
      BY <2>1, <2>2, <2>3
  <1>7. HistoryInv'
    BY <1>2, <1>3, <1>6 DEF RInv, HistoryInv
  <1>8. ASSUME NEW r \in Row, r \notin rows PROVE Life'[r] = Life[r]
    BY <1>3, <1>6, <1>8, LifeValue, LifeValueNext DEF RInv
  <1>9. ASSUME NEW r \in rows PROVE Life[r] = "unsent" /\ Life'[r] = "held"
    <2>1. copies[r] = 0
      BY <1>2 DEF RInv, IInv, StoreInv, TypeOK
    <2>2. r \notin Buffered /\ r \notin acked /\ r \notin gone
      BY <1>2 DEF RInv, HistoryInv
    <2> QED
      BY <1>2, <1>3, <1>6, <2>1, <2>2, LifeValue, LifeValueNext DEF RInv
  <1>10. Rows!Moved \subseteq rows
    BY <1>8 DEF Rows!Moved
  <1>11. Rows!Hold
    BY <1>2, <1>9, <1>10 DEF Rows!Hold, Rows!Moves, Rows!Uniform
  <1> QED
    BY <1>7, <1>11, LifeTyped DEF Rows!Next

\* A delete removes stored rows of the caller from one table.
LEMMA DeleteRawRefines ==
    ASSUME RInv, IInv', NEW t \in Tenants, NEW tb \in Tables, DeleteRaw(t, tb)
    PROVE  HistoryInv' /\ Rows!Next
  <1>1. PICK K \in SUBSET used :
          \E o \in Outcomes({r \in Row : Matches(r, t, tb) /\ r.id \in K}, FALSE) :
            /\ copies' = [r \in Row |-> IF r \in o.done THEN 0 ELSE copies[r]]
            /\ gone' = gone \cup o.done
    BY DEF DeleteRaw
  <1> DEFINE hit == {r \in Row : Matches(r, t, tb) /\ r.id \in K}
  <1>2. PICK o \in Outcomes(hit, FALSE) :
            /\ copies' = [r \in Row |-> IF r \in o.done THEN 0 ELSE copies[r]]
            /\ gone' = gone \cup o.done
    BY <1>1
  <1> DEFINE R == o.done
  <1>3. R \subseteq hit
    BY <1>2, OutcomeFacts
  <1>4. \A r \in R : /\ r \in Row /\ r.id \in used
                     /\ copies[r] = 1 /\ r.tenant = t /\ r.table = tb
    BY <1>3 DEF Matches, RInv, IInv, StoreInv, TypeOK
  <1>5. used' = used /\ acked' = acked /\ pending' = pending
    BY DEF DeleteRaw, Finish
  <1> HIDE DEF hit, R
  <1>6. Buffered' = Buffered
    BY <1>5 DEF Buffered
  <1>7. /\ \A r \in Row : copies'[r] = IF r \in R THEN 0 ELSE copies[r]
        /\ gone' = gone \cup R
    BY <1>2 DEF R
  <1>8. HistoryInv'
    BY <1>4, <1>5, <1>6, <1>7 DEF RInv, HistoryInv
  <1>9. ASSUME NEW r \in Row, r \notin R PROVE Life'[r] = Life[r]
    BY <1>5, <1>6, <1>7, <1>9, LifeValue, LifeValueNext DEF RInv
  <1>10. ASSUME NEW r \in R PROVE Life[r] = "stored" /\ Life'[r] = "lost"
    <2>1. r \notin Buffered
      <3>1. SUFFICES ASSUME r \in Buffered PROVE FALSE
        OBVIOUS
      <3>2. PICK j \in Key : r \in pending[j].rows
        BY <3>1, BufferedMember
      <3> QED
        BY <1>4, <3>2, BatchRows DEF RInv
    <2> QED
      BY <1>4, <1>6, <1>7, <2>1, LifeValue, LifeValueNext DEF RInv
  <1>11. Rows!Moved \subseteq R
    BY <1>9 DEF Rows!Moved
  <1>12. Rows!Remove
    BY <1>4, <1>10, <1>11 DEF Rows!Remove, Rows!Moves
  <1> QED
    BY <1>8, <1>12, LifeTyped DEF Rows!Next

\* The end of the process loses what was held, and that only.
LEMMA ProcessEndRefines ==
    ASSUME RInv, IInv', ProcessExit \/ CrashRestart
    PROVE  HistoryInv' /\ Rows!Next
  <1>1. /\ pending' = NoBatches /\ copies' = copies /\ used' = used /\ acked' = acked
        /\ gone' = gone \/ gone' = gone \cup Buffered
    BY DEF ProcessExit, CrashRestart, catalogVars
  <1>2. \A k \in Key : pending'[k].rows = {}
    BY <1>1 DEF NoBatches, Closed
  <1>3. \A r : r \notin Buffered'
    BY <1>2, BufferedMemberNext
  <1>4. HistoryInv'
    BY <1>1, <1>3 DEF RInv, HistoryInv
  <1>5. ASSUME NEW r \in Row, r \notin Buffered PROVE Life'[r] = Life[r]
    BY <1>1, <1>3, <1>5, LifeValue, LifeValueNext DEF RInv
  <1>6. ASSUME NEW r \in Row, r \in Buffered PROVE Life[r] = "held" /\ Life'[r] = "lost"
    <2>1. copies[r] = 0
      <3>1. PICK j \in Key : r \in pending[j].rows
        BY <1>6, BufferedMember
      <3> QED
        BY <3>1, BatchRows DEF RInv
    <2>2. r \in acked
      BY <1>6 DEF RInv, HistoryInv
    <2> QED
      BY <1>1, <1>3, <1>6, <2>1, <2>2, LifeValue, LifeValueNext DEF RInv
  <1>7. \A r \in Row : Life[r] = "held" => r \in Buffered
    BY LifeValue DEF RInv
  <1>8. Rows!Moved = Rows!In("held")
    BY <1>5, <1>6, <1>7 DEF Rows!Moved, Rows!In
  <1>9. Rows!End
    BY <1>5, <1>6, <1>8 DEF Rows!End, Rows!Moves, Rows!Moved
  <1> QED
    BY <1>4, <1>9, LifeTyped DEF Rows!Next

\* The steps of the loop's control, and time, change no row's life.
LEMMA ControlRefines ==
    ASSUME RInv, \/ Wake \/ HandleTimeout \/ ReadOnly \/ CompactAll \/ Shutdown
                 \/ Disconnected \/ EndDrain \/ shutdown \/ UNCHANGED vars
                 \/ \E k \in Key : Age(k)
    PROVE  HistoryInv' /\ Life' = Life
  <1>1. CASE \E k \in Key : Age(k)
    <2>1. PICK k \in Key : Age(k)
      BY <1>1
    <2>2. copies' = copies /\ acked' = acked /\ gone' = gone /\ used' = used
      BY <2>1 DEF Age, catalogVars
    <2>3. \A j \in Key : pending'[j].rows = pending[j].rows
      BY <2>1 DEF Age, RInv, IInv, TypeOK, Batch
    <2>4. \A r : r \in Buffered' <=> r \in Buffered
      BY <2>3, BufferedMember, BufferedMemberNext
    <2> QED
      BY <2>2, <2>4, SilentLife
  <1>2. CASE ~ \E k \in Key : Age(k)
    <2>1. /\ copies' = copies /\ acked' = acked /\ gone' = gone /\ used' = used
          /\ pending' = pending
      BY <1>2 DEF Wake, HandleTimeout, ReadOnly, CompactAll, Shutdown, Disconnected, Drain,
                  EndDrain, shutdown, Finish, vars, catalogVars
    <2>2. \A r : r \in Buffered' <=> r \in Buffered
      BY <2>1 DEF Buffered
    <2> QED
      BY <2>1, <2>2, SilentLife
  <1> QED
    BY <1>1, <1>2

-----------------------------------------------------------------------------
\* The initial states map to the initial state of RowLife.
LEMMA InitRefines == Init => RInv /\ Rows!Init
  <1> SUFFICES ASSUME Init PROVE RInv /\ Rows!Init
    OBVIOUS
  <1>1. IInv
    BY InitIInv
  <1>2. \A r : r \notin Buffered
    BY BufferedMember DEF Init, NoBatches, Closed
  <1>3. HistoryInv
    BY <1>2 DEF Init, HistoryInv
  <1>4. \A r \in Row : Life[r] = "unsent"
    BY <1>1, <1>2, LifeValue DEF Init
  <1>5. Life = [r \in Row |-> Life[r]]
    BY DEF Life
  <1> QED
    BY <1>1, <1>3, <1>4, <1>5 DEF RInv, Rows!Init

\* Every step maps to a step of RowLife or to none.
LEMMA StepRefines == RInv /\ [Next]_vars => RInv' /\ [Rows!Next]_Life
  <1> SUFFICES ASSUME RInv, [Next]_vars PROVE RInv' /\ [Rows!Next]_Life
    OBVIOUS
  <1>1. IInv'
    BY NextIInv DEF RInv
  <1> SUFFICES HistoryInv' /\ (Rows!Next \/ Life' = Life)
    BY <1>1 DEF RInv
  <1>2. CASE ServeIngest
    <2>1. PICK t \in Tenants, tb \in Tables, c \in Shapes :
            \E rows \in NewRows(t, tb, c) :
                \/ FlushOldSchema(t, tb, c, rows)
                \/ IngestBuffered(t, tb, c, rows)
                \/ IngestFlushed(t, tb, c, rows)
      BY <1>2 DEF ServeIngest
    <2> QED
      BY <1>1, <2>1, FlushOldSchemaRefines, IngestBufferedRefines, IngestFlushedRefines
  <1>3. ASSUME NEW t \in Tenants, WriteEngineTable(t) PROVE HistoryInv' /\ Rows!Next
    BY <1>1, <1>3, DirectWriteRefines, WriterLoopAssumption
  <1>4. ASSUME NEW t \in Tenants, NEW tb \in Tables, UpsertRaw(t, tb) \/ ApplyCdcBatch(t, tb)
        PROVE  HistoryInv' /\ Rows!Next
    BY <1>1, <1>4, DirectWriteRefines
  <1>5. ASSUME NEW t \in Tenants, NEW tb \in Tables, DeleteRaw(t, tb)
        PROVE  HistoryInv' /\ Rows!Next
    BY <1>1, <1>5, DeleteRawRefines
  <1>6. ASSUME NEW k \in Key, FlushNext(k) PROVE HistoryInv' /\ Rows!Next
    BY <1>1, <1>6, FlushNextRefines
  <1>7. CASE ProcessExit \/ CrashRestart
    BY <1>1, <1>7, ProcessEndRefines
  <1>8. CASE \/ Wake \/ HandleTimeout \/ ReadOnly \/ CompactAll \/ Shutdown
             \/ Disconnected \/ EndDrain \/ shutdown \/ UNCHANGED vars
             \/ \E k \in Key : Age(k)
    BY <1>8, ControlRefines
  <1> QED
    BY <1>2, <1>3, <1>4, <1>5, <1>6, <1>7, <1>8 DEF Next, writer_loop, Serve

\* writer_loop implements RowLife: a row is stored at most once, never comes
\* back after it was lost or deleted, leaves memory only for the catalog, with
\* its failing batch or with the process, and the catalog only by a delete of
\* its tenant or under merged rows; no step brings in rows of two kinds.
THEOREM ActorImplementsRowLife == Spec => ImplementsRowLife
  BY InitRefines, StepRefines, PTL DEF Spec, ImplementsRowLife, Rows!Spec

\* flush_batch and the direct writes: one call of the writer never commits rows
\* of two tenants, two tables or two column lists.  The copies of a row grow
\* only in a Store or Merge step, whose new rows are of one kind.
THEOREM CommitsOfOneKind == Spec => CommitsAreUniform
  <1>1. ASSUME RInv, [Next]_vars,
               NEW r \in Row, NEW q \in Row, copies'[r] > copies[r], copies'[q] > copies[q]
        PROVE  r.tenant = q.tenant /\ r.table = q.table /\ r.cols = q.cols
    <2>1. RInv' /\ [Rows!Next]_Life
      BY <1>1, StepRefines
    <2>2. ASSUME NEW x \in Row, copies'[x] > copies[x]
          PROVE  Life[x] # "stored" /\ Life'[x] = "stored"
      <3>1. copies[x] \in Nat /\ copies'[x] \in Nat /\ copies[x] <= 1 /\ copies'[x] <= 1
        BY <1>1, <2>1 DEF RInv, IInv, TypeOK, StoreInv
      <3>2. copies[x] = 0 /\ copies'[x] = 1
        BY <2>2, <3>1
      <3> QED
        BY <1>1, <2>1, <3>2, LifeValue, LifeValueNext DEF RInv
    <2>3. /\ r \in Rows!Moved /\ q \in Rows!Moved
          /\ Life[r] # "stored" /\ Life[q] # "stored" /\ Life'[r] = "stored"
      BY <1>1, <2>2 DEF Rows!Moved
    <2>4. Rows!Store \/ Rows!Merge
      BY <2>1, <2>3 DEF Rows!Next, Rows!Hold, Rows!Remove, Rows!End, Rows!Moves, Rows!Moved
    <2>5. CASE Rows!Store
      BY <2>3, <2>5 DEF Rows!Store, Rows!Uniform
    <2>6. CASE Rows!Merge
      <3> DEFINE new == {x \in Rows!Moved : Life[x] = "unsent"}
      <3>1. r \in new /\ q \in new
        BY <2>3, <2>6 DEF Rows!Merge, Rows!Moves
      <3> QED
        BY <2>6, <3>1 DEF Rows!Merge, Rows!Uniform
    <2> QED
      BY <2>4, <2>5, <2>6
  <1>2. RInv /\ [Next]_vars =>
          [\A r, q \in Row : copies'[r] > copies[r] /\ copies'[q] > copies[q]
             => r.tenant = q.tenant /\ r.table = q.table /\ r.cols = q.cols]_vars
    BY <1>1
  <1>3. Spec => []RInv
    BY InitRefines, StepRefines, PTL DEF Spec
  <1> QED
    BY <1>2, <1>3, PTL DEF Spec, CommitsAreUniform
=============================================================================
