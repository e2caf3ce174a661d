--------------------------- MODULE CdcPumpProofs ----------------------------
(***************************************************************************)
(* Safety of the CDC path for any number of partitions, keys and messages, *)
(* any batch limit, and any number of failures, restarts and timeouts.     *)
(***************************************************************************)
EXTENDS CdcPump, WellFoundedInduction, TLAPS

\* Messages that were applied, or dropped.
Settled == applied \cup dropped

\* What lies before the current batch is settled, and so is what was handed
\* out when there is no batch.
HandedOut ==
    \A p \in Partitions :
        /\ from[p] <= pos[p]
        /\ pc = "start" => from[p] = 0
        /\ pc = "poll" => \A i \in 1..pos[p] : <<p, i>> \in Settled
        /\ pc = "apply" => \A i \in 1..from[p] : <<p, i>> \in Settled

\* Unless a resume gave up, the table holds nothing beyond the committed offset
\* and a batch starts at the message of that offset or after it.
OnlyForward ==
    \A p \in Partitions :
        /\ ~rewound => \A k \in Keys : table[p][k].at <= committed[p]
        /\ ~rewound /\ pc = "poll" => committed[p] <= pos[p] + 1
        /\ ~rewound /\ pc = "apply" => committed[p] <= from[p] + 1

IInv == TypeOK /\ HandedOut /\ NoSilentSkip /\ OnlyForward

\* A row of partition p is older than a message of its key up to n only where
\* that message was dropped.
Covered(p, n) ==
    \A k \in Keys : \A i \in DataOf(p, k) : table[p][k].at < i /\ i <= n => <<p, i>> \in dropped

\* Positions stay within the log, and the table follows it up to the committed
\* offset and up to what was handed out before the current batch.
Follows ==
    \A p \in Partitions :
        /\ from[p] <= pos[p] /\ pos[p] <= Len(log[p]) /\ committed[p] <= Len(log[p])
        /\ Covered(p, committed[p])
        /\ pc = "poll" => Covered(p, pos[p])
        /\ pc = "apply" => Covered(p, from[p])

\* A row comes from a message of its key, and has the state that message gives
\* it unless the batch that wrote it re-created the key.
Traced ==
    \A p \in Partitions : \A k \in Keys :
        LET row == table[p][k]
        IN  \/ row = [at |-> 0, live |-> FALSE]
            \/ /\ row.at \in DataOf(p, k)
               /\ (row.live <=> log[p][row.at].op = "upsert") \/ <<p, k>> \in scrambled

LogInv == Follows /\ Traced

-----------------------------------------------------------------------------
\* A non-empty set of numbers up to n has a largest member.
LEMMA LastExists ==
    ASSUME NEW n \in Nat, NEW S \in SUBSET (1..n), S # {}
    PROVE  LastOf(S) \in S /\ \A j \in S : j <= LastOf(S)
  <1> DEFINE T == {n - i : i \in S}
  <1>1. \A i \in S : n - i \in Nat
    OBVIOUS
  <1>2. T \in SUBSET Nat
    BY <1>1
  <1>3. T # {}
    OBVIOUS
  <1>4. PICK m \in T : \A k \in T : m <= k
    <2> HIDE DEF T
    <2> DEFINE R == OpToRel(<, Nat)
    <2>1. IsWellFoundedOn(R, Nat)
      BY NatLessThanWellFounded
    <2>2. \A x, y \in Nat : x < y => <<x, y>> \in R
      BY DEF OpToRel
    <2> HIDE DEF R
    <2>3. PICK x \in T : \A y \in T : ~ (<<y, x>> \in R)
      BY <1>2, <1>3, <2>1, WFMin
    <2>4. ASSUME NEW k \in T PROVE x <= k
      <3>1. x \in Nat /\ k \in Nat
        BY <1>2
      <3>2. ~ (k < x)
        BY <2>2, <2>3, <3>1
      <3> QED
        BY <3>1, <3>2
    <2> QED
      BY <2>4
  <1>5. PICK i \in S : m = n - i
    BY <1>4
  <1>6. \A j \in S : j <= i
    BY <1>4, <1>5
  <1> QED
    BY <1>5, <1>6 DEF LastOf

\* The messages of the current batch.
LEMMA BatchMember ==
    ASSUME TypeOK
    PROVE  /\ Batch \subseteq Partitions \X Nat
           /\ \A p \in Partitions : \A i \in Nat : <<p, i>> \in Batch <=> i \in InBatch(p)
  <1>1. \A p \in Partitions : InBatch(p) \subseteq Nat
    BY DEF InBatch, TypeOK
  <1>2. \A p \in Partitions : \A i \in Nat : <<p, i>> \in Batch <=> i \in InBatch(p)
    BY DEF Batch
  <1> QED
    BY <1>1, <1>2 DEF Batch

\* Where the transaction leaves a key: untouched, or at a message of the batch.
LEMMA MergedFacts ==
    ASSUME TypeOK, NEW p \in Partitions, NEW k \in Keys
    PROVE  /\ Merged(p, k) \in Entry
           /\ Merged(p, k) = table[p][k] \/ Merged(p, k).at \in InBatch(p)
  <1> DEFINE ups  == Of(p, k, "upsert")
             dels == Of(p, k, "delete")
  <1>1. pos[p] \in Nat /\ from[p] \in Nat
    BY DEF TypeOK
  <1>2. ups \in SUBSET (1..pos[p]) /\ dels \in SUBSET (1..pos[p]) /\ InBatch(p) \subseteq Nat
    BY <1>1 DEF Of, InBatch
  <1>3. ups \subseteq InBatch(p) /\ dels \subseteq InBatch(p)
    BY DEF Of
  <1>4. table[p][k] \in Entry
    BY DEF TypeOK
  <1> HIDE DEF ups, dels
  <1>5. CASE dels # {}
    <2>1. LastOf(ups \cup dels) \in ups \cup dels
      <3>1. ups \cup dels \in SUBSET (1..pos[p]) /\ ups \cup dels # {}
        BY <1>2, <1>5
      <3> QED
        BY <1>1, <3>1, LastExists
    <2>2. Merged(p, k) = [at |-> LastOf(ups \cup dels), live |-> FALSE]
      BY <1>5 DEF Merged, ups, dels
    <2>3. LastOf(ups \cup dels) \in InBatch(p) /\ LastOf(ups \cup dels) \in Nat
      BY <1>2, <1>3, <2>1
    <2> QED
      BY <2>2, <2>3 DEF Entry
  <1>6. CASE dels = {} /\ ups # {}
    <2>1. LastOf(ups) \in ups
      BY <1>1, <1>2, <1>6, LastExists
    <2>2. Merged(p, k) = [at |-> LastOf(ups), live |-> TRUE]
      BY <1>6 DEF Merged, Dedup, ups, dels
    <2>3. LastOf(ups) \in InBatch(p) /\ LastOf(ups) \in Nat
      BY <1>2, <1>3, <2>1
    <2> QED
      BY <2>2, <2>3 DEF Entry
  <1>7. CASE dels = {} /\ ups = {}
    BY <1>4, <1>7 DEF Merged, ups, dels
  <1> QED
    BY <1>5, <1>6, <1>7
-----------------------------------------------------------------------------
\* The pump starts in the invariant.
LEMMA InitIInv == Init => IInv
  <1> SUFFICES ASSUME Init PROVE IInv
    OBVIOUS
  <1>1. /\ Zero \in [Partitions -> Nat] /\ \A p \in Partitions : Zero[p] = 0
    BY DEF Zero
  <1>2. TypeOK
    <2>1. log \in [Partitions -> Seq(Message)]
      <3>1. <<>> \in Seq(Message)
        OBVIOUS
      <3> QED
        BY <3>1 DEF Init
    <2>2. table \in [Partitions -> [Keys -> Entry]]
      <3>1. [at |-> 0, live |-> FALSE] \in Entry
        BY DEF Entry
      <3> QED
        BY <3>1 DEF Init
    <2> QED
      BY <1>1, <2>1, <2>2 DEF Init, TypeOK
  <1>3. HandedOut
    BY <1>1 DEF Init, HandedOut
  <1>4. NoSilentSkip
    BY <1>1 DEF Init, NoSilentSkip
  <1>5. OnlyForward
    BY <1>1 DEF Init, OnlyForward
  <1> QED
    BY <1>2, <1>3, <1>4, <1>5 DEF IInv

\* The end of a partition's log moves, and nothing else.
LEMMA ProduceIInv ==
    ASSUME IInv, NEW p \in Partitions, NEW m \in Message, Produce(p, m)
    PROVE  IInv'
  <1> USE DEF history, counters
  <1>1. log' \in [Partitions -> Seq(Message)]
    <2>1. log \in [Partitions -> Seq(Message)] /\ Append(log[p], m) \in Seq(Message)
      BY DEF IInv, TypeOK
    <2> QED
      BY <2>1 DEF Produce
  <1> QED
    BY <1>1 DEF Produce, IInv, TypeOK, HandedOut, Settled, NoSilentSkip, OnlyForward

\* A consumer that starts: at the committed offsets, or at the beginning.
LEMMA StartIInv ==
    ASSUME IInv, (\E d \in Discards : Resume(d)) \/ ResumeTimeout \/ Crash
    PROVE  IInv'
  <1> USE DEF history, counters
  <1>0. /\ Zero \in [Partitions -> Nat] /\ \A p \in Partitions : Zero[p] = 0
    BY DEF Zero
  <1>1. ASSUME NEW d \in Discards, Resume(d) PROVE IInv'
    <2>1. d \subseteq Partitions
      BY DEF Discards
    <2>2. \A p \in Partitions : committed[p] \in Nat
      BY DEF IInv, TypeOK
    <2>3. /\ \A p \in Partitions : pos'[p] = IF p \in d THEN 1 ELSE SeekTo(p)
          /\ pos' \in [Partitions -> Nat]
      BY <1>1, <2>2 DEF Resume, SeekTo
    <2>4. /\ \A p \in d : <<p, 1>> \in dropped'
          /\ dropped \subseteq dropped' /\ dropped' \subseteq Partitions \X Nat
      BY <1>1, <2>1 DEF Resume, IInv, TypeOK
    <2>5. TypeOK'
      BY <1>1, <2>3, <2>4 DEF Resume, IInv, TypeOK
    <2>6. NoSilentSkip'
      BY <1>1, <2>4 DEF Resume, IInv, NoSilentSkip
    <2>7. HandedOut'
      <3>0. \A p \in Partitions : from'[p] = 0
        BY <1>1 DEF Resume, IInv, HandedOut
      <3> SUFFICES ASSUME NEW p \in Partitions
                   PROVE  from'[p] <= pos'[p] /\ \A i \in 1..pos'[p] : <<p, i>> \in Settled'
        BY <1>1 DEF Resume, HandedOut
      <3>1. CASE p \in d
        <4>1. pos'[p] = 1 /\ <<p, 1>> \in Settled'
          BY <2>3, <2>4, <3>1 DEF Settled
        <4>2. \A i \in 1..1 : i = 1
          OBVIOUS
        <4> QED
          BY <3>0, <4>1, <4>2
      <3>2. CASE p \notin d
        <4>1. pos'[p] \in 0..committed[p]
          BY <2>2, <2>3, <3>2 DEF SeekTo
        <4>2. \A i \in 1..committed[p] : <<p, i>> \in Settled'
          BY <1>1, <2>4 DEF Resume, IInv, NoSilentSkip, Settled
        <4> QED
          BY <2>2, <3>0, <4>1, <4>2
      <3> QED
        BY <3>1, <3>2
    <2>8. OnlyForward'
      BY <1>1, <2>2, <2>3 DEF Resume, SeekTo, IInv, OnlyForward
    <2> QED
      BY <2>5, <2>6, <2>7, <2>8 DEF IInv
  <1>2. ASSUME ResumeTimeout PROVE IInv'
    <2>1. TypeOK'
      <3>1. /\ pos' \in [Partitions -> Nat] /\ pc' \in {"start", "poll", "apply"}
            /\ rewound' \in BOOLEAN /\ timeouts' \in Nat
        BY <1>0, <1>2 DEF ResumeTimeout, IInv, TypeOK
      <3>2. UNCHANGED <<log, from, committed, table, applied, dropped, scrambled, faults, crashes>>
        BY <1>2 DEF ResumeTimeout
      <3> QED
        BY <3>1, <3>2 DEF IInv, TypeOK
    <2>2. HandedOut'
      BY <1>0, <1>2 DEF ResumeTimeout, IInv, HandedOut
    <2>3. NoSilentSkip'
      BY <1>2 DEF ResumeTimeout, IInv, NoSilentSkip
    <2>4. OnlyForward'
      BY <1>2 DEF ResumeTimeout, OnlyForward
    <2> QED
      BY <2>1, <2>2, <2>3, <2>4 DEF IInv
  <1>3. ASSUME Crash PROVE IInv'
    <2>1. TypeOK'
      BY <1>0, <1>3 DEF Crash, IInv, TypeOK
    <2>2. HandedOut'
      BY <1>0, <1>3 DEF Crash, HandedOut
    <2>3. NoSilentSkip'
      BY <1>3 DEF Crash, IInv, NoSilentSkip
    <2>4. OnlyForward'
      BY <1>3 DEF Crash, IInv, OnlyForward
    <2> QED
      BY <2>1, <2>2, <2>3, <2>4 DEF IInv
  <1> QED
    BY <1>1, <1>2, <1>3

\* Messages are handed out.
LEMMA NextBatchIInv ==
    ASSUME IInv, NEW upto \in [Partitions -> 0..MaxEvents], next_batch(upto)
    PROVE  IInv'
  <1> USE DEF history, counters
  <1>1. pos' = upto /\ from' = pos /\ pc = "poll" /\ pc' = "apply"
    BY DEF next_batch
  <1>2. pos' \in [Partitions -> Nat]
    BY <1>1, CdcPumpAssumption
  <1>3. TypeOK'
    BY <1>1, <1>2 DEF next_batch, IInv, TypeOK
  <1>4. HandedOut'
    BY <1>1 DEF next_batch, IInv, HandedOut, Settled
  <1>5. NoSilentSkip' /\ OnlyForward'
    BY <1>1 DEF next_batch, IInv, NoSilentSkip, OnlyForward
  <1> QED
    BY <1>3, <1>4, <1>5, CdcPumpAssumption DEF next_batch, IInv

\* After the batch, applied or not, everything handed out is settled.
LEMMA BatchSettles ==
    ASSUME IInv, pc = "apply", UNCHANGED pos,
           Settled \cup Batch \subseteq Settled'
    PROVE  \A p \in Partitions : \A i \in 1..pos[p] : <<p, i>> \in Settled'
  <1> SUFFICES ASSUME NEW p \in Partitions, NEW i \in 1..pos[p] PROVE <<p, i>> \in Settled'
    OBVIOUS
  <1>1. from[p] \in Nat /\ pos[p] \in Nat /\ i \in Nat
    BY DEF IInv, TypeOK
  <1>2. CASE i <= from[p]
    BY <1>1, <1>2 DEF IInv, HandedOut
  <1>3. CASE i > from[p]
    <2>1. i \in InBatch(p)
      BY <1>1, <1>3 DEF InBatch
    <2> QED
      BY <1>1, <2>1, BatchMember DEF IInv
  <1> QED
    BY <1>1, <1>2, <1>3

\* The transaction fails.
LEMMA ApplyFailsIInv ==
    ASSUME IInv, ApplyFails
    PROVE  IInv'
  <1>1. /\ pc = "apply" /\ pc' = "poll" /\ dropped' = dropped \cup Batch /\ faults' = faults + 1
        /\ UNCHANGED <<log, pos, from, committed, table, applied, scrambled, rewound, crashes,
                       timeouts>>
    BY DEF ApplyFails
  <1>2. Batch \subseteq Partitions \X Nat
    BY BatchMember DEF IInv
  <1>3. TypeOK'
    <2>1. dropped' \subseteq Partitions \X Nat
      BY <1>1, <1>2 DEF IInv, TypeOK
    <2>2. faults' \in Nat /\ pc' \in {"start", "poll", "apply"}
      BY <1>1 DEF IInv, TypeOK
    <2> QED
      BY <1>1, <2>1, <2>2 DEF IInv, TypeOK
  <1>4. \A p \in Partitions : \A i \in 1..pos[p] : <<p, i>> \in Settled'
    BY <1>1, BatchSettles DEF Settled
  <1>5. HandedOut'
    BY <1>1, <1>4 DEF IInv, HandedOut
  <1>6. NoSilentSkip'
    BY <1>1 DEF IInv, NoSilentSkip
  <1>7. OnlyForward'
    <2> SUFFICES ASSUME NEW p \in Partitions, ~rewound PROVE committed[p] <= pos[p] + 1
      BY <1>1 DEF IInv, OnlyForward
    <2> QED
      BY <1>1 DEF IInv, TypeOK, HandedOut, OnlyForward
  <1> QED
    BY <1>3, <1>5, <1>6, <1>7 DEF IInv

\* The offset a transaction commits: the end of the batch, or what it was.
LEMMA OffsetFacts ==
    ASSUME IInv, pc = "apply", NEW p \in Partitions
    PROVE  /\ OffsetAfter(p) \in Nat
           /\ OffsetAfter(p) = pos[p] \/ OffsetAfter(p) = committed[p]
           /\ \A i \in InBatch(p) : from[p] < i /\ i <= OffsetAfter(p)
           /\ ~rewound => committed[p] <= OffsetAfter(p) /\ OffsetAfter(p) <= pos[p] + 1
  <1>1. from[p] \in Nat /\ pos[p] \in Nat /\ committed[p] \in Nat /\ from[p] <= pos[p]
    BY DEF IInv, TypeOK, HandedOut
  <1>2. ~rewound => committed[p] <= from[p] + 1
    BY DEF IInv, OnlyForward
  <1>3. CASE from[p] = pos[p]
    <2>1. InBatch(p) = {} /\ OffsetAfter(p) = committed[p]
      BY <1>1, <1>3 DEF InBatch, OffsetAfter
    <2> QED
      BY <1>1, <1>2, <1>3, <2>1
  <1>4. CASE from[p] < pos[p]
    <2>1. pos[p] \in InBatch(p)
      BY <1>1, <1>4 DEF InBatch
    <2>2. OffsetAfter(p) = pos[p]
      BY <2>1 DEF OffsetAfter
    <2>3. \A i \in InBatch(p) : from[p] < i /\ i <= pos[p]
      BY <1>1 DEF InBatch
    <2> QED
      BY <1>1, <1>2, <1>4, <2>2, <2>3
  <1> QED
    BY <1>1, <1>3, <1>4

\* A committed batch moves a key forward only.
LEMMA MergedForward ==
    ASSUME IInv, pc = "apply", ~rewound, NEW p \in Partitions, NEW k \in Keys
    PROVE  table[p][k].at <= Merged(p, k).at /\ Merged(p, k).at <= OffsetAfter(p)
  <1>1. /\ from[p] \in Nat /\ committed[p] \in Nat /\ pos[p] \in Nat
        /\ table[p][k] \in Entry /\ Merged(p, k) \in Entry
    BY MergedFacts DEF IInv, TypeOK
  <1>2. table[p][k].at \in Nat /\ Merged(p, k).at \in Nat
    BY <1>1 DEF Entry
  <1>3. table[p][k].at <= committed[p] /\ committed[p] <= from[p] + 1
    BY DEF IInv, OnlyForward
  <1>4. OffsetAfter(p) \in Nat /\ committed[p] <= OffsetAfter(p)
    BY OffsetFacts
  <1>5. CASE Merged(p, k) = table[p][k]
    BY <1>1, <1>2, <1>3, <1>4, <1>5
  <1>6. CASE Merged(p, k).at \in InBatch(p)
    <2>1. from[p] < Merged(p, k).at /\ Merged(p, k).at <= OffsetAfter(p)
      BY <1>6, OffsetFacts
    <2> QED
      BY <1>1, <1>2, <1>3, <2>1
  <1>7. Merged(p, k) = table[p][k] \/ Merged(p, k).at \in InBatch(p)
    BY MergedFacts DEF IInv
  <1> QED
    BY <1>5, <1>6, <1>7

\* The transaction commits.
LEMMA ApplyIInv ==
    ASSUME IInv, Apply
    PROVE  IInv'
  <1> USE DEF history, counters
  <1>1. /\ pc = "apply" /\ pc' = "poll"
        /\ applied' = applied \cup Batch /\ dropped' = dropped \ Batch
        /\ UNCHANGED <<log, pos, from, rewound, faults, crashes, timeouts>>
    BY DEF Apply
  <1>2. /\ table' = [p \in Partitions |-> [k \in Keys |-> Merged(p, k)]]
        /\ committed' = [p \in Partitions |-> OffsetAfter(p)]
        /\ scrambled' \subseteq Partitions \X Keys
    BY DEF Apply
  <1>3. TypeOK'
    <2>1. Batch \subseteq Partitions \X Nat
      BY BatchMember DEF IInv
    <2>2. table' \in [Partitions -> [Keys -> Entry]]
      BY <1>2, MergedFacts DEF IInv
    <2>3. committed' \in [Partitions -> Nat]
      BY <1>1, <1>2, OffsetFacts
    <2> QED
      BY <1>1, <1>2, <2>1, <2>2, <2>3 DEF IInv, TypeOK
  <1>4. Settled \cup Batch \subseteq Settled'
    BY <1>1 DEF Settled
  <1>5. \A p \in Partitions : \A i \in 1..pos[p] : <<p, i>> \in Settled'
    BY <1>1, <1>4, BatchSettles
  <1>6. HandedOut'
    BY <1>1, <1>5 DEF IInv, HandedOut
  <1>7. NoSilentSkip'
    <2> SUFFICES ASSUME NEW p \in Partitions, NEW i \in 1..OffsetAfter(p)
                 PROVE  <<p, i>> \in Settled'
      BY <1>2 DEF NoSilentSkip, Settled
    <2>1. CASE OffsetAfter(p) = pos[p]
      BY <1>5, <2>1
    <2>2. CASE OffsetAfter(p) = committed[p]
      BY <1>4, <2>2 DEF IInv, NoSilentSkip, Settled
    <2> QED
      BY <1>1, <2>1, <2>2, OffsetFacts
  <1>8. OnlyForward'
    <2> SUFFICES ASSUME NEW p \in Partitions, ~rewound
                 PROVE  /\ \A k \in Keys : Merged(p, k).at <= OffsetAfter(p)
                        /\ OffsetAfter(p) <= pos[p] + 1
      BY <1>1, <1>2 DEF OnlyForward
    <2>1. \A k \in Keys : Merged(p, k).at <= OffsetAfter(p)
      BY <1>1, MergedForward
    <2> QED
      BY <1>1, <2>1, OffsetFacts
  <1> QED
    BY <1>3, <1>6, <1>7, <1>8 DEF IInv

\* Every step preserves the invariant.
LEMMA NextIInv == IInv /\ [Next]_vars => IInv'
  <1> SUFFICES ASSUME IInv, [Next]_vars PROVE IInv'
    OBVIOUS
  <1>1. CASE \E p \in Partitions : \E m \in Message : Produce(p, m)
    BY <1>1, ProduceIInv
  <1>2. CASE (\E d \in Discards : Resume(d)) \/ ResumeTimeout \/ Crash
    BY <1>2, StartIInv
  <1>3. CASE \E upto \in [Partitions -> 0..MaxEvents] : next_batch(upto)
    BY <1>3, NextBatchIInv
  <1>4. CASE Apply
    BY <1>4, ApplyIInv
  <1>5. CASE ApplyFails
    BY <1>5, ApplyFailsIInv
  <1>6. CASE UNCHANGED vars
    BY <1>6 DEF vars, history, counters, IInv, TypeOK, HandedOut, Settled, NoSilentSkip, OnlyForward
  <1> QED
    BY <1>1, <1>2, <1>3, <1>4, <1>5, <1>6 DEF Next, Pump

\* The invariant holds of the specification.
LEMMA Invariance == Spec => []IInv
  BY InitIInv, NextIInv, PTL DEF Spec

-----------------------------------------------------------------------------
\* The messages of a key with a row are members of its partition's log.
LEMMA DataFacts ==
    ASSUME TypeOK, NEW p \in Partitions, NEW k \in Keys
    PROVE  /\ Len(log[p]) \in Nat
           /\ DataOf(p, k) \in SUBSET (1..Len(log[p]))
           /\ \A i \in DataOf(p, k) : i \in Nat /\ i >= 1 /\ log[p][i] \in Message
  <1>1. log[p] \in Seq(Message)
    BY DEF TypeOK
  <1>2. Len(log[p]) \in Nat /\ DataOf(p, k) \in SUBSET (1..Len(log[p]))
    BY <1>1 DEF DataOf
  <1> QED
    BY <1>1, <1>2

\* The pump starts with nothing handed out and an empty table.
LEMMA InitLogInv == Init => LogInv
  <1> SUFFICES ASSUME Init PROVE LogInv
    OBVIOUS
  <1>1. \A p \in Partitions : /\ from[p] = 0 /\ pos[p] = 0 /\ committed[p] = 0
                              /\ log[p] = <<>>
    BY DEF Init, Zero
  <1>2. \A p \in Partitions : Len(log[p]) = 0 /\ \A k \in Keys : DataOf(p, k) = {}
    BY <1>1 DEF DataOf
  <1>3. Follows
    BY <1>1, <1>2 DEF Follows, Covered
  <1>4. Traced
    BY DEF Init, Traced
  <1> QED
    BY <1>3, <1>4 DEF LogInv

\* A message is added behind every position, and the others stay what they are.
LEMMA ProduceLogInv ==
    ASSUME IInv, LogInv, NEW q \in Partitions, NEW m \in Message, Produce(q, m)
    PROVE  LogInv'
  <1>1. /\ log' = [log EXCEPT ![q] = Append(@, m)]
        /\ UNCHANGED <<pc, pos, from, committed, table, dropped, scrambled>>
    BY DEF Produce, history
  <1>2. log \in [Partitions -> Seq(Message)]
    BY DEF IInv, TypeOK
  <1>3. ASSUME NEW p \in Partitions
        PROVE  /\ Len(log[p]) \in Nat /\ Len(log'[p]) \in Nat /\ Len(log[p]) <= Len(log'[p])
               /\ \A i \in 1..Len(log[p]) : log'[p][i] = log[p][i]
    <2>1. CASE p = q
      <3>1. log'[p] = Append(log[p], m) /\ log[p] \in Seq(Message)
        BY <1>1, <1>2, <2>1
      <3> QED
        BY <3>1
    <2>2. CASE p # q
      <3>1. log'[p] = log[p] /\ log[p] \in Seq(Message)
        BY <1>1, <1>2, <2>2
      <3> QED
        BY <3>1
    <2> QED
      BY <2>1, <2>2
  <1>4. ASSUME NEW p \in Partitions, NEW k \in Keys
        PROVE  /\ DataOf(p, k) \subseteq DataOf(p, k)'
               /\ \A i \in DataOf(p, k)' : i <= Len(log[p]) => i \in DataOf(p, k)
    <2>1. DataOf(p, k) = {i \in 1..Len(log[p]) : log[p][i].op # "skip" /\ log[p][i].key = k}
      BY DEF DataOf, IsData
    <2>2. DataOf(p, k)' = {i \in 1..Len(log'[p]) : log'[p][i].op # "skip" /\ log'[p][i].key = k}
      BY DEF DataOf, IsData
    <2> QED
      BY <1>3, <2>1, <2>2
  <1>5. ASSUME NEW p \in Partitions, NEW n \in Nat, n <= Len(log[p]), Covered(p, n)
        PROVE  Covered(p, n)'
    <2> SUFFICES ASSUME NEW k \in Keys, NEW i \in DataOf(p, k)', table[p][k].at < i, i <= n
                 PROVE  <<p, i>> \in dropped
      BY <1>1 DEF Covered
    <2>1. i \in Nat
      BY <1>3 DEF DataOf
    <2>2. i \in DataOf(p, k)
      BY <1>3, <1>4, <1>5, <2>1
    <2> QED
      BY <1>5, <2>2 DEF Covered
  <1>6. Follows'
    <2> SUFFICES ASSUME NEW p \in Partitions
                 PROVE  /\ from[p] <= pos[p] /\ pos[p] <= Len(log'[p]) /\ committed[p] <= Len(log'[p])
                        /\ Covered(p, committed[p])'
                        /\ pc = "poll" => Covered(p, pos[p])'
                        /\ pc = "apply" => Covered(p, from[p])'
      BY <1>1 DEF Follows
    <2>1. /\ from[p] \in Nat /\ pos[p] \in Nat /\ committed[p] \in Nat
          /\ from[p] <= pos[p] /\ pos[p] <= Len(log[p]) /\ committed[p] <= Len(log[p])
          /\ from[p] <= Len(log[p])
      BY <1>3 DEF IInv, TypeOK, LogInv, Follows
    <2>2. /\ Covered(p, committed[p])
          /\ pc = "poll" => Covered(p, pos[p])
          /\ pc = "apply" => Covered(p, from[p])
      BY DEF LogInv, Follows
    <2>3. Covered(p, committed[p])'
      BY <1>1, <1>5, <2>1, <2>2
    <2>4. pc = "poll" => Covered(p, pos[p])'
      BY <1>1, <1>5, <2>1, <2>2
    <2>5. pc = "apply" => Covered(p, from[p])'
      BY <1>1, <1>5, <2>1, <2>2
    <2> QED
      BY <1>3, <2>1, <2>3, <2>4, <2>5
  <1>7. Traced'
    <2> SUFFICES ASSUME NEW p \in Partitions, NEW k \in Keys,
                        table[p][k].at \in DataOf(p, k)
                 PROVE  /\ table[p][k].at \in DataOf(p, k)'
                        /\ log'[p][table[p][k].at] = log[p][table[p][k].at]
      BY <1>1 DEF LogInv, Traced
    <2>1. table[p][k].at \in 1..Len(log[p])
      BY DEF DataOf
    <2> QED
      BY <1>3, <1>4, <2>1
  <1> QED
    BY <1>6, <1>7 DEF LogInv

\* A consumer that starts reads again from the committed offset or before it,
\* and what its resume threw away counts as dropped.
LEMMA StartLogInv ==
    ASSUME IInv, LogInv, (\E d \in Discards : Resume(d)) \/ ResumeTimeout \/ Crash
    PROVE  LogInv'
  <1>0. \A p \in Partitions : Zero[p] = 0
    BY DEF Zero
  <1>1. /\ UNCHANGED <<log, committed, table, scrambled>>
        /\ dropped \subseteq dropped'
        /\ pc' = "start" \/ pc' = "poll"
    BY DEF Resume, ResumeTimeout, Crash, history
  <1>2. \A p \in Partitions : \A k \in Keys : DataOf(p, k)' = DataOf(p, k)
    BY <1>1 DEF DataOf, IsData
  <1>3. \A p \in Partitions : \A n : Covered(p, n) => Covered(p, n)'
    BY <1>1, <1>2 DEF Covered
  <1>4. ASSUME NEW p \in Partitions
        PROVE  /\ from'[p] = 0 /\ pos'[p] \in Nat /\ pos'[p] <= Len(log[p])
               /\ Covered(p, pos[p])'
    <2>0. /\ committed[p] \in Nat /\ committed[p] <= Len(log[p]) /\ Len(log[p]) \in Nat
          /\ Covered(p, committed[p])'
          /\ pc = "start" => from[p] = 0
      BY <1>1, <1>3 DEF IInv, TypeOK, HandedOut, LogInv, Follows
    <2>1. ASSUME NEW n \in Nat, n <= committed[p] PROVE Covered(p, n)'
      <3> SUFFICES ASSUME NEW k \in Keys, NEW i \in DataOf(p, k),
                          table[p][k].at < i, i <= n
                   PROVE  <<p, i>> \in dropped'
        BY <1>1, <1>2 DEF Covered
      <3>1. i \in Nat
        BY DataFacts DEF IInv
      <3>2. i <= committed[p]
        BY <2>0, <2>1, <3>1
      <3> QED
        BY <1>1, <1>2, <2>0, <3>2 DEF Covered
    <2>2. ASSUME NEW d \in Discards, Resume(d)
          PROVE  /\ from'[p] = 0 /\ pos'[p] \in Nat /\ pos'[p] <= Len(log[p])
                 /\ Covered(p, pos[p])'
      <3>1. from'[p] = 0
        BY <2>0, <2>2 DEF Resume
      <3>2. CASE p \in d
        <4>1. pos'[p] = 1 /\ <<p, 1>> \in dropped' /\ log[p] # <<>> /\ log[p] \in Seq(Message)
          BY <2>2, <3>2 DEF Resume, IInv, TypeOK
        <4>2. 1 <= Len(log[p])
          BY <4>1
        <4>3. Covered(p, 1)'
          <5> SUFFICES ASSUME NEW k \in Keys, NEW i \in DataOf(p, k), i <= 1
                       PROVE  <<p, i>> \in dropped'
            BY <1>2 DEF Covered
          <5>1. i = 1
            BY DataFacts DEF IInv
          <5> QED
            BY <4>1, <5>1
        <4> QED
          BY <3>1, <4>1, <4>2, <4>3
      <3>3. CASE p \notin d
        <4>1. pos'[p] = SeekTo(p)
          BY <2>2, <3>3 DEF Resume
        <4>2. SeekTo(p) \in Nat /\ SeekTo(p) <= committed[p]
          BY <2>0 DEF SeekTo
        <4> QED
          BY <2>0, <2>1, <3>1, <4>1, <4>2
      <3> QED
        BY <3>2, <3>3
    <2>3. CASE ResumeTimeout \/ Crash
      <3>1. from'[p] = 0 /\ pos'[p] = 0
        BY <1>0, <2>0, <2>3 DEF ResumeTimeout, Crash
      <3> QED
        BY <2>0, <2>1, <3>1
    <2> QED
      BY <2>2, <2>3
  <1>5. Follows'
    <2>1. \A p \in Partitions : /\ committed[p] <= Len(log[p])
                                /\ Covered(p, committed[p])'
      BY <1>1, <1>3 DEF LogInv, Follows
    <2> QED
      BY <1>1, <1>4, <2>1 DEF Follows
  <1>6. Traced'
    BY <1>1, <1>2 DEF LogInv, Traced
  <1> QED
    BY <1>5, <1>6 DEF LogInv

\* A batch is handed out: the table still follows the log up to its beginning.
LEMMA NextBatchLogInv ==
    ASSUME IInv, LogInv, NEW upto \in [Partitions -> 0..MaxEvents], next_batch(upto)
    PROVE  LogInv'
  <1>1. /\ pos' = upto /\ from' = pos /\ pc = "poll" /\ pc' = "apply"
        /\ \A p \in Partitions : pos[p] <= upto[p] /\ upto[p] <= Len(log[p])
        /\ UNCHANGED <<log, committed, table, dropped, scrambled>>
    BY DEF next_batch, history
  <1>2. \A p \in Partitions : \A k \in Keys : DataOf(p, k)' = DataOf(p, k)
    BY <1>1 DEF DataOf, IsData
  <1>3. \A p \in Partitions : \A n : Covered(p, n) => Covered(p, n)'
    BY <1>1, <1>2 DEF Covered
  <1>4. Follows'
    BY <1>1, <1>3 DEF LogInv, Follows
  <1>5. Traced'
    BY <1>1, <1>2 DEF LogInv, Traced
  <1> QED
    BY <1>4, <1>5 DEF LogInv

\* The transaction fails: its messages are dropped, and the table is no further
\* behind the log than they say.
LEMMA ApplyFailsLogInv ==
    ASSUME IInv, LogInv, ApplyFails
    PROVE  LogInv'
  <1>1. /\ pc = "apply" /\ pc' = "poll" /\ dropped' = dropped \cup Batch
        /\ UNCHANGED <<log, pos, from, committed, table, scrambled>>
    BY DEF ApplyFails
  <1>2. \A p \in Partitions : \A k \in Keys : DataOf(p, k)' = DataOf(p, k)
    BY <1>1 DEF DataOf, IsData
  <1>3. \A p \in Partitions : \A n : Covered(p, n) => Covered(p, n)'
    BY <1>1, <1>2 DEF Covered
  <1>4. ASSUME NEW p \in Partitions PROVE Covered(p, pos[p])'
    <2>0. from[p] \in Nat /\ pos[p] \in Nat /\ Covered(p, from[p])
      BY <1>1 DEF IInv, TypeOK, LogInv, Follows
    <2> SUFFICES ASSUME NEW k \in Keys, NEW i \in DataOf(p, k), table[p][k].at < i, i <= pos[p]
                 PROVE  <<p, i>> \in dropped'
      BY <1>1, <1>2 DEF Covered
    <2>1. i \in Nat
      BY DataFacts DEF IInv
    <2>2. CASE i <= from[p]
      BY <1>1, <2>0, <2>2 DEF Covered
    <2>3. CASE from[p] < i
      <3>1. i \in InBatch(p)
        BY <2>0, <2>1, <2>3 DEF InBatch
      <3> QED
        BY <1>1, <2>1, <3>1, BatchMember DEF IInv
    <2> QED
      BY <2>0, <2>1, <2>2, <2>3
  <1>5. Follows'
    BY <1>1, <1>3, <1>4 DEF LogInv, Follows
  <1>6. Traced'
    BY <1>1, <1>2 DEF LogInv, Traced
  <1> QED
    BY <1>5, <1>6 DEF LogInv

\* Where the transaction leaves a key of its batch: at the last message of the
\* key in the batch, with the state of that message unless the key was
\* re-created.
LEMMA MergedLast ==
    ASSUME IInv, LogInv, pc = "apply", NEW p \in Partitions, NEW k \in Keys, Touched(p, k)
    PROVE  /\ Merged(p, k).at \in DataOf(p, k)
           /\ \A i \in DataOf(p, k) : i \in InBatch(p) => i <= Merged(p, k).at
           /\ (Merged(p, k).live <=> log[p][Merged(p, k).at].op = "upsert") \/ Recreated(p, k)
  <1> DEFINE ups  == Of(p, k, "upsert")
             dels == Of(p, k, "delete")
             last == LastOf(ups \cup dels)
  <1>1. /\ pos[p] \in Nat /\ from[p] \in Nat /\ pos[p] <= Len(log[p]) /\ log[p] \in Seq(Message)
        /\ Len(log[p]) \in Nat
    BY DEF IInv, TypeOK, LogInv, Follows
  <1>2. /\ ups \cup dels \in SUBSET (1..pos[p]) /\ ups \cup dels # {}
        /\ ups \cup dels \subseteq InBatch(p)
        /\ InBatch(p) \subseteq 1..Len(log[p])
    BY <1>1 DEF Of, InBatch, Touched
  <1>3. last \in ups \cup dels /\ \A j \in ups \cup dels : j <= last
    <2> HIDE DEF ups, dels
    <2> QED
      BY <1>1, <1>2, LastExists
  <1>4. /\ \A i \in ups : log[p][i].op = "upsert" /\ log[p][i].key = k
        /\ \A i \in dels : log[p][i].op = "delete" /\ log[p][i].key = k
    BY DEF Of
  <1>5. \A i \in DataOf(p, k) : i \in InBatch(p) => i \in ups \cup dels
    <2> SUFFICES ASSUME NEW i \in DataOf(p, k), i \in InBatch(p) PROVE i \in ups \cup dels
      OBVIOUS
    <2>1. log[p][i] \in Message /\ log[p][i].op # "skip" /\ log[p][i].key = k
      BY DataFacts DEF IInv, DataOf, IsData
    <2>2. log[p][i].op = "upsert" \/ log[p][i].op = "delete"
      BY <2>1 DEF Message
    <2> QED
      BY <2>1, <2>2 DEF Of
  <1>6. ups \cup dels \subseteq DataOf(p, k)
    BY <1>2, <1>4 DEF DataOf, IsData
  <1>7. /\ Merged(p, k).at = last
        /\ dels # {} => Merged(p, k).live = FALSE
        /\ dels = {} => Merged(p, k).live = TRUE
    <2>1. CASE dels # {}
      BY <2>1 DEF Merged
    <2>2. CASE dels = {}
      <3>1. ups # {} /\ ups \cup dels = ups
        BY <1>2, <2>2
      <3> QED
        BY <2>2, <3>1 DEF Merged, Dedup
    <2> QED
      BY <2>1, <2>2
  <1>8. ASSUME dels # {}, log[p][last].op = "upsert" PROVE Recreated(p, k)
    <2>1. last \in ups /\ \A j \in dels : j # last
      BY <1>3, <1>4, <1>8
    <2>2. \A j \in dels : j \in Nat /\ last \in Nat
      BY <1>2, <1>3
    <2>3. \A j \in dels : j < last
      <3> HIDE DEF last, ups, dels
      <3> QED
        BY <1>3, <2>1, <2>2
    <2> QED
      BY <1>8, <2>1, <2>3 DEF Recreated
  <1>9. dels = {} => log[p][last].op = "upsert"
    BY <1>3, <1>4
  <1> HIDE DEF last, ups, dels
  <1>10. (Merged(p, k).live <=> log[p][last].op = "upsert") \/ Recreated(p, k)
    <2>1. CASE dels = {}
      BY <1>7, <1>9, <2>1
    <2>2. CASE dels # {}
      BY <1>7, <1>8, <2>2
    <2> QED
      BY <2>1, <2>2
  <1> QED
    BY <1>3, <1>5, <1>6, <1>7, <1>10

\* A key without a message in the batch is left as it is.
LEMMA MergedUntouched ==
    ASSUME IInv, NEW p \in Partitions, NEW k \in Keys, ~ Touched(p, k)
    PROVE  /\ Merged(p, k) = table[p][k]
           /\ \A i \in DataOf(p, k) : i \notin InBatch(p)
  <1>1. Of(p, k, "upsert") = {} /\ Of(p, k, "delete") = {}
    BY DEF Touched
  <1>2. Merged(p, k) = table[p][k]
    BY <1>1 DEF Merged
  <1>3. ASSUME NEW i \in DataOf(p, k), i \in InBatch(p) PROVE FALSE
    <2>1. log[p][i] \in Message /\ log[p][i].op # "skip" /\ log[p][i].key = k
      BY DataFacts DEF IInv, DataOf, IsData
    <2>2. log[p][i].op = "upsert" \/ log[p][i].op = "delete"
      BY <2>1 DEF Message
    <2> QED
      BY <1>1, <1>3, <2>1, <2>2 DEF Of
  <1> QED
    BY <1>2, <1>3

\* The transaction commits: the table follows the log up to the end of the batch.
LEMMA ApplyLogInv ==
    ASSUME IInv, LogInv, Apply
    PROVE  LogInv'
  <1>1. /\ pc = "apply" /\ pc' = "poll" /\ dropped' = dropped \ Batch
        /\ UNCHANGED <<log, pos, from>>
    BY DEF Apply
  <1>2. /\ \A p \in Partitions : \A k \in Keys : table'[p][k] = Merged(p, k)
        /\ \A p \in Partitions : committed'[p] = OffsetAfter(p)
    BY DEF Apply
  <1>3. \A p \in Partitions : \A k \in Keys : DataOf(p, k)' = DataOf(p, k)
    BY <1>1 DEF DataOf, IsData
  <1>4. ASSUME NEW p \in Partitions, NEW k \in Keys
        PROVE  <<p, k>> \in scrambled' <=> IF Touched(p, k) THEN Recreated(p, k)
                                                            ELSE <<p, k>> \in scrambled
    <2>1. scrambled' = {x \in Partitions \X Keys :
                          IF Touched(x[1], x[2]) THEN Recreated(x[1], x[2]) ELSE x \in scrambled}
      BY DEF Apply
    <2>2. <<p, k>> \in Partitions \X Keys /\ <<p, k>>[1] = p /\ <<p, k>>[2] = k
      OBVIOUS
    <2> DEFINE Mark(x) == IF Touched(x[1], x[2]) THEN Recreated(x[1], x[2]) ELSE x \in scrambled
    <2>3. Mark(<<p, k>>) <=> IF Touched(p, k) THEN Recreated(p, k) ELSE <<p, k>> \in scrambled
      BY <2>2
    <2>4. scrambled' = {x \in Partitions \X Keys : Mark(x)}
      BY <2>1
    <2> HIDE DEF Mark
    <2> QED
      BY <2>2, <2>3, <2>4
  <1>5. ASSUME NEW p \in Partitions PROVE Covered(p, pos[p])'
    <2>0. from[p] \in Nat /\ pos[p] \in Nat /\ Covered(p, from[p])
      BY <1>1 DEF IInv, TypeOK, LogInv, Follows
    <2> SUFFICES ASSUME NEW k \in Keys, NEW i \in DataOf(p, k), Merged(p, k).at < i, i <= pos[p]
                 PROVE  <<p, i>> \in dropped'
      BY <1>1, <1>2, <1>3 DEF Covered
    <2>1. i \in Nat
      BY DataFacts DEF IInv
    <2>2. Merged(p, k).at \in Nat
      BY MergedFacts DEF IInv, Entry
    <2>3. CASE i \in InBatch(p)
      <3>1. Touched(p, k)
        BY <2>3, MergedUntouched
      <3>2. i <= Merged(p, k).at
        BY <1>1, <2>3, <3>1, MergedLast
      <3> QED
        BY <2>1, <2>2, <3>2
    <2>4. CASE i \notin InBatch(p)
      <3>1. i <= from[p]
        BY <2>0, <2>1, <2>4 DEF InBatch
      <3>2. table[p][k].at < i
        <4>1. CASE Merged(p, k) = table[p][k]
          BY <4>1
        <4>2. CASE Merged(p, k).at \in InBatch(p)
          <5>1. from[p] < Merged(p, k).at
            BY <1>1, <4>2, OffsetFacts
          <5> QED
            BY <2>0, <2>1, <2>2, <3>1, <5>1
        <4> QED
          BY <4>1, <4>2, MergedFacts DEF IInv
      <3>3. <<p, i>> \in dropped
        BY <2>0, <3>1, <3>2 DEF Covered
      <3>4. <<p, i>> \notin Batch
        BY <2>1, <2>4, BatchMember DEF IInv
      <3> QED
        BY <1>1, <3>3, <3>4
    <2> QED
      BY <2>3, <2>4
  <1>6. ASSUME NEW p \in Partitions, InBatch(p) = {}, Covered(p, committed[p])
        PROVE  Covered(p, committed[p])'
    <2>1. committed'[p] = committed[p]
      BY <1>2, <1>6 DEF OffsetAfter
    <2> SUFFICES ASSUME NEW k \in Keys, NEW i \in DataOf(p, k), Merged(p, k).at < i,
                        i <= committed[p]
                 PROVE  <<p, i>> \in dropped'
      BY <1>2, <1>3, <2>1 DEF Covered
    <2>2. Merged(p, k) = table[p][k]
      BY <1>6, MergedFacts DEF IInv
    <2>3. <<p, i>> \in dropped
      BY <1>6, <2>2 DEF Covered
    <2>4. <<p, i>> \notin Batch
      BY <1>6, DataFacts, BatchMember DEF IInv
    <2> QED
      BY <1>1, <2>3, <2>4
  <1>7. Follows'
    <2> SUFFICES ASSUME NEW p \in Partitions
                 PROVE  /\ from[p] <= pos[p] /\ pos[p] <= Len(log[p])
                        /\ committed'[p] <= Len(log[p])
                        /\ Covered(p, committed[p])'
                        /\ Covered(p, pos[p])'
      BY <1>1 DEF Follows
    <2>1. /\ from[p] <= pos[p] /\ pos[p] <= Len(log[p]) /\ committed[p] <= Len(log[p])
          /\ Covered(p, committed[p])
      BY DEF LogInv, Follows
    <2>2. CASE InBatch(p) = {}
      <3>1. committed'[p] = committed[p]
        BY <1>2, <2>2 DEF OffsetAfter
      <3> QED
        BY <1>5, <1>6, <2>1, <2>2, <3>1
    <2>3. CASE InBatch(p) # {}
      <3>1. committed'[p] = pos[p]
        BY <1>2, <2>3 DEF OffsetAfter
      <3>2. Covered(p, committed[p])'
        BY <1>1, <1>5, <3>1
      <3> QED
        BY <1>5, <2>1, <3>1, <3>2
    <2> QED
      BY <2>2, <2>3
  <1>8. Traced'
    <2> SUFFICES ASSUME NEW p \in Partitions, NEW k \in Keys
                 PROVE  LET row == Merged(p, k)
                        IN  \/ row = [at |-> 0, live |-> FALSE]
                            \/ /\ row.at \in DataOf(p, k)
                               /\ \/ row.live <=> log[p][row.at].op = "upsert"
                                  \/ <<p, k>> \in scrambled'
      BY <1>1, <1>2, <1>3 DEF Traced
    <2>1. CASE Touched(p, k)
      BY <1>1, <1>4, <2>1, MergedLast
    <2>2. CASE ~ Touched(p, k)
      BY <1>4, <2>2, MergedUntouched DEF LogInv, Traced
    <2> QED
      BY <2>1, <2>2
  <1> QED
    BY <1>7, <1>8 DEF LogInv

\* Every step keeps the table on the heels of the log.
LEMMA NextLogInv == IInv /\ LogInv /\ [Next]_vars => LogInv'
  <1> SUFFICES ASSUME IInv, LogInv, [Next]_vars PROVE LogInv'
    OBVIOUS
  <1>1. CASE \E p \in Partitions : \E m \in Message : Produce(p, m)
    BY <1>1, ProduceLogInv
  <1>2. CASE (\E d \in Discards : Resume(d)) \/ ResumeTimeout \/ Crash
    BY <1>2, StartLogInv
  <1>3. CASE \E upto \in [Partitions -> 0..MaxEvents] : next_batch(upto)
    BY <1>3, NextBatchLogInv
  <1>4. CASE Apply
    BY <1>4, ApplyLogInv
  <1>5. CASE ApplyFails
    BY <1>5, ApplyFailsLogInv
  <1>6. CASE UNCHANGED vars
    BY <1>6 DEF vars, history, counters, LogInv, Follows, Covered, Traced, DataOf, IsData
  <1> QED
    BY <1>1, <1>2, <1>3, <1>4, <1>5, <1>6 DEF Next, Pump

\* When nothing is left to hand out, a table that follows the log is the one
\* the log gives.
LEMMA FollowedToTheEnd == IInv /\ LogInv => CaughtUpMatches
  <1> SUFFICES ASSUME IInv, LogInv, CaughtUp, NEW p \in Partitions, NEW k \in Keys,
                      <<p, k>> \notin scrambled, table[p][k] # Expected(p, k)
               PROVE  <<p, Expected(p, k).at>> \in dropped
    BY DEF CaughtUpMatches
  <1> DEFINE row  == table[p][k]
             data == DataOf(p, k)
             last == LastOf(data)
  <1>1. Len(log[p]) \in Nat /\ data \in SUBSET (1..Len(log[p])) /\ row \in Entry
    BY DataFacts DEF IInv, TypeOK
  <1>2. Covered(p, Len(log[p]))
    BY DEF CaughtUp, LogInv, Follows
  <1>3. \/ row = [at |-> 0, live |-> FALSE]
        \/ row.at \in data /\ (row.live <=> log[p][row.at].op = "upsert")
    BY DEF LogInv, Traced
  <1>4. data # {}
    <2> SUFFICES ASSUME data = {} PROVE FALSE
      OBVIOUS
    <2>1. Expected(p, k) = [at |-> 0, live |-> FALSE]
      BY DEF Expected
    <2> QED
      BY <1>3, <2>1
  <1>5. Expected(p, k) = [at |-> last, live |-> log[p][last].op = "upsert"]
    BY <1>4 DEF Expected
  <1>6. last \in data /\ \A j \in data : j <= last
    <2> HIDE DEF data
    <2> QED
      BY <1>1, <1>4, LastExists
  <1>7. row.at # last
    <2> SUFFICES ASSUME row.at = last PROVE FALSE
      OBVIOUS
    <2>1. last \in Nat /\ last # 0
      BY <1>1, <1>6
    <2>2. row.live <=> log[p][last].op = "upsert"
      BY <1>3, <2>1
    <2>3. row.at = Expected(p, k).at /\ row.live = Expected(p, k).live
      BY <1>1, <1>5, <2>2 DEF Entry
    <2>4. Expected(p, k) \in Entry
      BY <1>5, <2>1 DEF Entry
    <2> QED
      BY <1>1, <2>3, <2>4 DEF Entry
  <1>8. row.at < last
    <2> HIDE DEF data, last, row
    <2>1. row.at \in Nat /\ last \in Nat /\ last >= 1
      BY <1>1, <1>6 DEF Entry
    <2>2. row.at = 0 \/ row.at <= last
      BY <1>3, <1>6
    <2> QED
      BY <1>7, <2>1, <2>2
  <1>9. last <= Len(log[p])
    BY <1>1, <1>6
  <1>10. <<p, last>> \in dropped
    <2> HIDE DEF last
    <2> QED
      BY <1>2, <1>6, <1>8, <1>9 DEF Covered
  <1> QED
    BY <1>5, <1>10

-----------------------------------------------------------------------------
\* The variables of the CDC path keep their types, whatever fails or restarts.
THEOREM TypeCorrect == Spec => []TypeOK
  <1>1. IInv => TypeOK
    BY DEF IInv
  <1> QED
    BY Invariance, <1>1, PTL

\* cdc_offsets never runs ahead of the data: apply_cdc_batch commits an offset
\* only with the messages up to it behind it, and resume seeks to no other.
THEOREM OffsetNeverAheadOfData == Spec => []NoSilentSkip
  <1>1. IInv => NoSilentSkip
    BY DEF IInv
  <1> QED
    BY Invariance, <1>1, PTL

\* What apply_cdc_batch merges is, once the pump has caught up, the table the
\* source's log describes, whatever was replayed, cut into batches or restarted
\* on the way: a key differs only when its last message was dropped with a
\* failed batch or by a resume, or when one batch deleted and re-created it.
THEOREM CaughtUpIsRight == Spec => []CaughtUpMatches
  BY InitIInv, NextIInv, InitLogInv, NextLogInv, FollowedToTheEnd, PTL DEF Spec

\* A batch redelivered after a restart never takes a row of the table back to
\* an older message, as long as no resume gave up.
THEOREM RedeliveryNeverRegresses == Spec => NoRegression
  <1> DEFINE Forward == \A p \in Partitions : \A k \in Keys :
                            table'[p][k].at >= table[p][k].at \/ rewound
  <1>1. IInv /\ [Next]_vars => [Forward]_vars
    <2> SUFFICES ASSUME IInv, Next, NEW p \in Partitions, NEW k \in Keys, ~rewound
                 PROVE  table'[p][k].at >= table[p][k].at
      OBVIOUS
    <2>1. table[p][k].at \in Nat
      BY DEF IInv, TypeOK, Entry
    <2>2. CASE Apply
      <3>1. table'[p][k] = Merged(p, k) /\ Merged(p, k) \in Entry
        BY <2>2, MergedFacts DEF Apply, IInv
      <3>2. Merged(p, k).at \in Nat
        BY <3>1 DEF Entry
      <3>3. table[p][k].at <= Merged(p, k).at
        BY <2>2, MergedForward DEF Apply
      <3> QED
        BY <2>1, <3>1, <3>2, <3>3
    <2>3. CASE UNCHANGED table
      BY <2>1, <2>3
    <2> QED
      BY <2>2, <2>3 DEF Next, Pump, Produce, Resume, ResumeTimeout, next_batch, ApplyFails, Crash
  <1> QED
    BY Invariance, <1>1, PTL DEF Spec, NoRegression
=============================================================================
