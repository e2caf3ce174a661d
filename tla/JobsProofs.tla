----------------------------- MODULE JobsProofs ------------------------------
(***************************************************************************)
(* Safety of the job registry and its semaphore for any number of jobs,    *)
(* tenants, clients and permits.                                           *)
(***************************************************************************)
EXTENDS Jobs, FiniteSetTheorems, TLAPS

Started == {"spawned", "answered"}

\* A supervisor exists exactly for the requests that got a permit.
TaskOfHandler == \A j \in Ids : task[j] # "none" <=> handler[j] \in Started

\* An entry belongs to the tenant of its request.
EntryOwned ==
    \A j \in Ids : registry[j].status # "none" =>
        handler[j] # "new" /\ registry[j].tenant = owner[j]

\* Success was recorded for a snapshot that exists, and an outcome is in the
\* registry only after it was recorded.
OutcomeBacked ==
    \A j \in Ids :
        /\ result[j] = "ok" => j \in snapshots
        /\ registry[j].status = "done" => j \in snapshots
        /\ registry[j].status \in {"done", "failed"} => task[j] \in {"release", "ended"}

\* An answer is about a job that exists.
AnswersExist == \A c \in Pollers : poll[c].answer # "none" => handler[poll[c].id] # "new"

IInv ==
    /\ TypeOK
    /\ TaskOfHandler
    /\ EntryOwned
    /\ OutcomeBacked
    /\ AnswersExist
    /\ SlotsConserved
    /\ AnswersAreTrue
    /\ RunningIsLive

Holders == {j \in Ids : Holding(j)}

\* Initial values of the constants' choices.
LEMMA Choices == SomeTenant \in Tenants /\ (CHOOSE j \in Ids : TRUE) \in Ids /\ NoEntry \in Entry
  BY JobsAssumption DEF SomeTenant, NoEntry, Entry, Status

\* The holders are counted.
LEMMA HoldersFinite == IsFiniteSet(Holders) /\ Cardinality(Holders) \in Nat
  <1>1. Holders \subseteq Ids
    BY DEF Holders
  <1> QED
    BY <1>1, JobsAssumption, FS_Subset, FS_CardinalityType

-----------------------------------------------------------------------------
\* Nothing runs at the start.
LEMMA InitIInv == Init => IInv
  <1> SUFFICES ASSUME Init PROVE IInv
    OBVIOUS
  <1>1. TypeOK
    <2>1. poll \in [Pollers -> Request]
      BY Choices DEF Init, Request, Status
    <2>2. registry \in [Ids -> Entry] /\ owner \in [Ids -> Tenants]
      BY Choices DEF Init
    <2>3. free \in 0..Slots
      BY JobsAssumption DEF Init
    <2> QED
      BY <2>1, <2>2, <2>3 DEF Init, TypeOK
  <1>2. TaskOfHandler /\ EntryOwned /\ OutcomeBacked /\ RunningIsLive
    BY DEF Init, TaskOfHandler, Started, EntryOwned, OutcomeBacked, RunningIsLive, NoEntry
  <1>3. AnswersExist /\ AnswersAreTrue
    BY DEF Init, AnswersExist, AnswersAreTrue
  <1>4. SlotsConserved
    <2>1. {j \in Ids : Holding(j)} = {}
      BY DEF Init, Holding
    <2>2. Cardinality({j \in Ids : Holding(j)}) = 0
      BY <2>1, FS_EmptySet
    <2>3. free = Slots /\ Slots \in Nat
      BY JobsAssumption DEF Init
    <2> QED
      BY <2>2, <2>3 DEF SlotsConserved
  <1> QED
    BY <1>1, <1>2, <1>3, <1>4 DEF IInv

\* Steps that move no supervisor keep the permits as they are.
LEMMA SlotsKept ==
    ASSUME IInv, UNCHANGED free, \A j \in Ids : Holding(j)' = Holding(j)
    PROVE  SlotsConserved'
  <1>1. {j \in Ids : Holding(j)}' = {j \in Ids : Holding(j)}
    OBVIOUS
  <1> QED
    BY <1>1 DEF IInv, SlotsConserved

\* A request is accepted.
LEMMA PostIInv ==
    ASSUME IInv, NEW j \in Ids, NEW t \in Tenants, post_jobs(j, t)
    PROVE  IInv'
  <1> USE DEF IInv
  <1>1. /\ handler[j] = "new" /\ handler' = [handler EXCEPT ![j] = "waiting"]
        /\ owner' = [owner EXCEPT ![j] = t]
        /\ registry' = [registry EXCEPT ![j] =
                          [status |-> "running", tenant |-> t, old |-> FALSE]]
        /\ UNCHANGED <<free, task, result, snapshots, poll>>
    BY DEF post_jobs
  <1>2. TypeOK'
    <2>1. [status |-> "running", tenant |-> t, old |-> FALSE] \in Entry
      BY DEF Entry, Status
    <2>2. ticket' \in [Ids -> Nat] /\ arrivals' \in Nat
      BY DEF post_jobs, TypeOK
    <2> QED
      BY <1>1, <2>1, <2>2 DEF TypeOK
  <1>3. TaskOfHandler'
    BY <1>1 DEF TaskOfHandler, Started, TypeOK
  <1>4. EntryOwned'
    BY <1>1 DEF EntryOwned, TypeOK
  <1>5. OutcomeBacked' /\ RunningIsLive'
    BY <1>1 DEF OutcomeBacked, RunningIsLive, TypeOK
  <1>6. AnswersExist' /\ AnswersAreTrue'
    <2> SUFFICES ASSUME NEW c \in Pollers
                 PROVE  /\ poll[c].answer # "none" => handler'[poll[c].id] # "new"
                        /\ poll[c].answer # "none" => poll[c].tenant = owner'[poll[c].id]
                        /\ poll[c].answer = "done" => poll[c].id \in snapshots
      BY <1>1 DEF AnswersExist, AnswersAreTrue
    <2>1. poll[c].id \in Ids
      BY DEF TypeOK, Request
    <2>2. poll[c].answer # "none" => poll[c].id # j
      BY <1>1 DEF AnswersExist
    <2> QED
      BY <1>1, <2>1, <2>2 DEF AnswersExist, AnswersAreTrue, TypeOK
  <1>7. SlotsConserved'
    BY <1>1, SlotsKept DEF Holding
  <1> QED
    BY <1>2, <1>3, <1>4, <1>5, <1>6, <1>7

\* A waiting request gets a permit.
LEMMA SpawnIInv ==
    ASSUME IInv, NEW j \in Ids, Spawn(j)
    PROVE  IInv'
  <1> USE DEF IInv
  <1>1. /\ handler[j] = "waiting" /\ free > 0
        /\ free' = free - 1
        /\ handler' = [handler EXCEPT ![j] = "spawned"]
        /\ task' = [task EXCEPT ![j] = "materialise"]
        /\ UNCHANGED <<registry, owner, result, snapshots, poll>>
    BY DEF Spawn
  <1>2. TypeOK'
    <2>1. ticket' \in [Ids -> Nat] /\ arrivals' \in Nat
      BY DEF Spawn, TypeOK
    <2>2. free' \in 0..Slots
      BY <1>1, JobsAssumption DEF TypeOK
    <2> QED
      BY <1>1, <2>1, <2>2 DEF TypeOK
  <1>3. task[j] = "none"
    BY <1>1 DEF TaskOfHandler, Started
  <1>4. TaskOfHandler' /\ EntryOwned'
    BY <1>1 DEF TaskOfHandler, Started, EntryOwned, TypeOK
  <1>5. OutcomeBacked' /\ RunningIsLive'
    BY <1>1, <1>3 DEF OutcomeBacked, RunningIsLive, TypeOK
  <1>6. AnswersExist' /\ AnswersAreTrue'
    BY <1>1 DEF AnswersExist, AnswersAreTrue, TypeOK, Request
  <1>7. SlotsConserved'
    <2>1. Holders' = Holders \cup {j} /\ j \notin Holders
      BY <1>1, <1>3 DEF Holders, Holding, TypeOK
    <2>2. Cardinality(Holders') = Cardinality(Holders) + 1
      BY <2>1, HoldersFinite, FS_AddElement
    <2>3. free + Cardinality(Holders) = Slots
      BY DEF SlotsConserved, Holders
    <2>4. free' + Cardinality(Holders') = Slots
      BY <1>1, <2>2, <2>3, HoldersFinite, JobsAssumption DEF TypeOK
    <2> QED
      BY <2>4 DEF SlotsConserved, Holders
  <1> QED
    BY <1>2, <1>4, <1>5, <1>6, <1>7

\* The request is answered, or its client goes away.
LEMMA HandlerIInv ==
    ASSUME IInv, NEW j \in Ids, Respond(j) \/ Cancel(j)
    PROVE  IInv'
  <1> USE DEF IInv, taskVars
  <1>1. /\ UNCHANGED <<registry, owner, arrivals, free, task, result, snapshots, poll>>
        /\ \/ handler[j] = "spawned" /\ handler' = [handler EXCEPT ![j] = "answered"]
           \/ handler[j] = "waiting" /\ handler' = [handler EXCEPT ![j] = "cancelled"]
    BY DEF Respond, Cancel
  <1>2. TypeOK'
    <2>1. ticket' \in [Ids -> Nat]
      BY DEF Respond, Cancel, TypeOK
    <2> QED
      BY <1>1, <2>1 DEF TypeOK
  <1>3. TaskOfHandler' /\ EntryOwned'
    BY <1>1 DEF TaskOfHandler, Started, EntryOwned, TypeOK
  <1>4. OutcomeBacked' /\ RunningIsLive'
    BY <1>1 DEF OutcomeBacked, RunningIsLive, TypeOK
  <1>5. AnswersExist' /\ AnswersAreTrue'
    BY <1>1 DEF AnswersExist, AnswersAreTrue, TypeOK, Request
  <1>6. SlotsConserved'
    BY <1>1, SlotsKept DEF Holding
  <1> QED
    BY <1>2, <1>3, <1>4, <1>5, <1>6

\* The materialisation ends.
LEMMA MaterialiseIInv ==
    ASSUME IInv, NEW j \in Ids, NEW r \in {"ok", "error", "panic"}, Materialise(j, r)
    PROVE  IInv'
  <1> USE DEF IInv
  <1>1. /\ task[j] = "materialise" /\ task' = [task EXCEPT ![j] = "record"]
        /\ result' = [result EXCEPT ![j] = r]
        /\ snapshots \subseteq snapshots' /\ snapshots' \subseteq Ids
        /\ r = "ok" => j \in snapshots'
        /\ UNCHANGED <<registry, handler, owner, ticket, arrivals, free, poll>>
    BY DEF Materialise, TypeOK
  <1>2. TypeOK'
    BY <1>1 DEF TypeOK
  <1>3. TaskOfHandler' /\ EntryOwned'
    BY <1>1 DEF TaskOfHandler, EntryOwned, TypeOK
  <1>4. OutcomeBacked' /\ RunningIsLive'
    BY <1>1 DEF OutcomeBacked, RunningIsLive, TypeOK
  <1>5. AnswersExist' /\ AnswersAreTrue'
    BY <1>1 DEF AnswersExist, AnswersAreTrue
  <1>6. SlotsConserved'
    BY <1>1, SlotsKept DEF Holding, TypeOK
  <1> QED
    BY <1>2, <1>3, <1>4, <1>5, <1>6

\* The outcome is recorded.
LEMMA RecordIInv ==
    ASSUME IInv, NEW j \in Ids, Record(j)
    PROVE  IInv'
  <1> USE DEF IInv
  <1> DEFINE e == [status |-> IF result[j] = "ok" THEN "done" ELSE "failed",
                   tenant |-> owner[j], old |-> FALSE]
  <1>1. /\ task[j] = "record" /\ task' = [task EXCEPT ![j] = "release"]
        /\ registry' = [registry EXCEPT ![j] = e]
        /\ UNCHANGED <<handler, owner, ticket, arrivals, free, result, snapshots, poll>>
    BY DEF Record, Insert
  <1>2. /\ e \in Entry /\ e.tenant = owner[j] /\ e.status \in {"done", "failed"}
        /\ e.status = "done" => j \in snapshots
    BY DEF Entry, Status, TypeOK, OutcomeBacked
  <1> HIDE DEF e
  <1>3. TypeOK'
    BY <1>1, <1>2 DEF TypeOK
  <1>4. TaskOfHandler'
    BY <1>1 DEF TaskOfHandler, TypeOK
  <1>5. EntryOwned'
    BY <1>1, <1>2 DEF EntryOwned, TaskOfHandler, Started, TypeOK
  <1>6. OutcomeBacked' /\ RunningIsLive'
    BY <1>1, <1>2 DEF OutcomeBacked, RunningIsLive, TypeOK
  <1>7. AnswersExist' /\ AnswersAreTrue'
    BY <1>1 DEF AnswersExist, AnswersAreTrue
  <1>8. SlotsConserved'
    BY <1>1, SlotsKept DEF Holding, TypeOK
  <1> QED
    BY <1>3, <1>4, <1>5, <1>6, <1>7, <1>8

\* The permit is given back.
LEMMA ReleaseIInv ==
    ASSUME IInv, NEW j \in Ids, Release(j)
    PROVE  IInv'
  <1> USE DEF IInv
  <1>1. /\ task[j] = "release" /\ task' = [task EXCEPT ![j] = "ended"]
        /\ free' = free + 1
        /\ UNCHANGED <<registry, handler, owner, ticket, arrivals, result, snapshots, poll>>
    BY DEF Release
  <1>2. SlotsConserved' /\ free' \in 0..Slots
    <2>1. Holders' = Holders \ {j} /\ j \in Holders
      BY <1>1 DEF Holders, Holding, TypeOK
    <2>2. Cardinality(Holders') = Cardinality(Holders) - 1 /\ Cardinality(Holders') \in Nat
      BY <2>1, HoldersFinite, FS_RemoveElement, FS_CardinalityType
    <2>3. free + Cardinality(Holders) = Slots
      BY DEF SlotsConserved, Holders
    <2>4. free' + Cardinality(Holders') = Slots /\ free' \in 0..Slots
      BY <1>1, <2>2, <2>3, HoldersFinite, JobsAssumption DEF TypeOK
    <2> QED
      BY <2>4 DEF SlotsConserved, Holders
  <1>3. TypeOK'
    BY <1>1, <1>2 DEF TypeOK
  <1>4. TaskOfHandler' /\ EntryOwned'
    BY <1>1 DEF TaskOfHandler, EntryOwned, TypeOK
  <1>5. OutcomeBacked' /\ RunningIsLive'
    BY <1>1 DEF OutcomeBacked, RunningIsLive, TypeOK
  <1>6. AnswersExist' /\ AnswersAreTrue'
    BY <1>1 DEF AnswersExist, AnswersAreTrue
  <1> QED
    BY <1>2, <1>3, <1>4, <1>5, <1>6

\* Polls, expiry and the passing of time.
LEMMA RegistryIInv ==
    ASSUME IInv,
           (\E c \in Pollers : get_job(c)) \/ (\E j \in Ids : Age(j))
    PROVE  IInv'
  <1> USE DEF IInv, taskVars
  <1>1. /\ UNCHANGED <<handler, owner, ticket, arrivals, free, task, result, snapshots>>
        /\ TaskOfHandler'
    BY DEF get_job, Expire, Read, Lookup, Age, TaskOfHandler
  <1>2. SlotsConserved'
    BY <1>1, SlotsKept DEF Holding
  <1>3. ASSUME NEW j \in Ids, Age(j) PROVE IInv'
    <2>1. UNCHANGED poll /\ registry' = [registry EXCEPT ![j].old = TRUE]
      BY <1>3 DEF Age
    <2>2. /\ registry' \in [Ids -> Entry]
          /\ \A i \in Ids : /\ registry'[i].status = registry[i].status
                            /\ registry'[i].tenant = registry[i].tenant
      <3>1. registry \in [Ids -> Entry]
        BY DEF TypeOK
      <3>2. ASSUME NEW i \in Ids
            PROVE  /\ registry'[i] = IF i = j THEN [registry[i] EXCEPT !.old = TRUE]
                                              ELSE registry[i]
                   /\ registry[i] \in Entry
        BY <2>1, <3>1
      <3>3. ASSUME NEW i \in Ids
            PROVE  /\ registry'[i] \in Entry
                   /\ registry'[i].status = registry[i].status
                   /\ registry'[i].tenant = registry[i].tenant
        BY <3>2 DEF Entry
      <3>4. registry' = [i \in Ids |-> registry'[i]]
        BY <2>1, <3>1
      <3> QED
        BY <3>3, <3>4
    <2>3. TypeOK'
      BY <1>1, <2>1, <2>2 DEF TypeOK
    <2>4. EntryOwned' /\ OutcomeBacked' /\ RunningIsLive'
      BY <1>1, <2>2 DEF EntryOwned, OutcomeBacked, RunningIsLive
    <2>5. AnswersExist' /\ AnswersAreTrue'
      BY <1>1, <2>1 DEF AnswersExist, AnswersAreTrue
    <2> QED
      BY <1>1, <1>2, <2>3, <2>4, <2>5
  <1>4. ASSUME NEW c \in Pollers, NEW j \in Ids, NEW t \in Tenants, Lookup(c, j, t) PROVE IInv'
    <2>1. PICK at \in {"remove", "read"} :
             poll' = [poll EXCEPT ![c] = [at |-> at, id |-> j, tenant |-> t,
                                          saw |-> registry[j].status, answer |-> "none"]]
      BY <1>4 DEF Lookup
    <2>2. UNCHANGED registry
      BY <1>4 DEF Lookup
    <2>3. poll' \in [Pollers -> Request]
      <3>1. registry[j].status \in Status
        BY DEF TypeOK, Entry
      <3> QED
        BY <2>1, <3>1 DEF TypeOK, Request, Status
    <2>4. TypeOK'
      BY <1>1, <2>2, <2>3 DEF TypeOK
    <2>5. EntryOwned' /\ OutcomeBacked' /\ RunningIsLive'
      BY <1>1, <2>2 DEF EntryOwned, OutcomeBacked, RunningIsLive
    <2>6. \A d \in Pollers : d # c => poll'[d] = poll[d]
      BY <2>1 DEF TypeOK
    <2>7. poll'[c].answer = "none"
      BY <2>1 DEF TypeOK
    <2>8. AnswersExist' /\ AnswersAreTrue'
      BY <1>1, <2>6, <2>7 DEF AnswersExist, AnswersAreTrue
    <2> QED
      BY <1>1, <1>2, <2>4, <2>5, <2>8
  <1>5. ASSUME NEW c \in Pollers, Expire(c) PROVE IInv'
    <2>1. /\ registry' = [registry EXCEPT ![poll[c].id] = NoEntry]
          /\ poll' = [poll EXCEPT ![c].at = "idle"]
      BY <1>5 DEF Expire
    <2>2. /\ poll' \in [Pollers -> Request]
          /\ \A d \in Pollers : /\ poll'[d].answer = poll[d].answer
                                /\ poll'[d].id = poll[d].id /\ poll'[d].tenant = poll[d].tenant
      BY <2>1 DEF TypeOK, Request
    <2>3. registry' \in [Ids -> Entry]
      BY <2>1, Choices DEF TypeOK
    <2>4. TypeOK'
      BY <1>1, <2>2, <2>3 DEF TypeOK
    <2>5. \A i \in Ids : registry'[i] = registry[i] \/ registry'[i].status = "none"
      BY <2>1 DEF NoEntry, TypeOK
    <2>6. EntryOwned' /\ OutcomeBacked' /\ RunningIsLive'
      BY <1>1, <2>5 DEF EntryOwned, OutcomeBacked, RunningIsLive
    <2>7. AnswersExist' /\ AnswersAreTrue'
      BY <1>1, <2>2 DEF AnswersExist, AnswersAreTrue
    <2> QED
      BY <1>1, <1>2, <2>4, <2>6, <2>7
  <1>6. ASSUME NEW c \in Pollers, Read(c) PROVE IInv'
    <2> DEFINE e == registry[poll[c].id]
               a == IF Visible(e, poll[c].tenant) THEN e.status ELSE "none"
    <2>1. UNCHANGED registry /\ poll' = [poll EXCEPT ![c].at = "idle", ![c].answer = a]
      BY <1>6 DEF Read
    <2>2. poll[c].id \in Ids /\ e \in Entry /\ a \in Status
      BY DEF TypeOK, Request, Entry, Status
    <2>3. a # "none" => /\ poll[c].tenant = owner[poll[c].id]
                        /\ handler[poll[c].id] # "new"
      BY <2>2 DEF Visible, EntryOwned
    <2>4. a = "done" => poll[c].id \in snapshots
      BY <2>2 DEF OutcomeBacked
    <2> HIDE DEF a, e
    <2>5. /\ poll' \in [Pollers -> Request]
          /\ \A d \in Pollers : /\ poll'[d].id = poll[d].id /\ poll'[d].tenant = poll[d].tenant
                                /\ poll'[d].answer = IF d = c THEN a ELSE poll[d].answer
      <3>1. poll \in [Pollers -> Request]
        BY DEF TypeOK
      <3>2. ASSUME NEW d \in Pollers
            PROVE  /\ poll'[d] = IF d = c THEN [poll[d] EXCEPT !.at = "idle", !.answer = a]
                                          ELSE poll[d]
                   /\ poll[d] \in Request
        BY <2>1, <3>1
      <3>3. ASSUME NEW d \in Pollers
            PROVE  /\ poll'[d] \in Request
                   /\ poll'[d].id = poll[d].id /\ poll'[d].tenant = poll[d].tenant
                   /\ poll'[d].answer = IF d = c THEN a ELSE poll[d].answer
        BY <2>2, <3>2 DEF Request
      <3>4. poll' = [d \in Pollers |-> poll'[d]]
        BY <2>1, <3>1
      <3> QED
        BY <3>3, <3>4
    <2>6. TypeOK'
      BY <1>1, <2>1, <2>5 DEF TypeOK
    <2>7. EntryOwned' /\ OutcomeBacked' /\ RunningIsLive'
      BY <1>1, <2>1 DEF EntryOwned, OutcomeBacked, RunningIsLive
    <2>8. AnswersExist' /\ AnswersAreTrue'
      BY <1>1, <2>3, <2>4, <2>5 DEF AnswersExist, AnswersAreTrue
    <2> QED
      BY <1>1, <1>2, <2>6, <2>7, <2>8
  <1> QED
    BY <1>3, <1>4, <1>5, <1>6 DEF get_job

\* Every step preserves the invariant.
LEMMA NextIInv == IInv /\ [Next]_vars => IInv'
  <1> SUFFICES ASSUME IInv, [Next]_vars PROVE IInv'
    OBVIOUS
  <1>1. ASSUME NEW j \in Ids, NEW t \in Tenants, post_jobs(j, t) PROVE IInv'
    BY <1>1, PostIInv
  <1>2. ASSUME NEW j \in Ids, Respond(j) \/ Cancel(j) PROVE IInv'
    BY <1>2, HandlerIInv
  <1>3. ASSUME NEW j \in Ids, Supervisor(j) PROVE IInv'
    BY <1>3, SpawnIInv, MaterialiseIInv, RecordIInv, ReleaseIInv DEF Supervisor
  <1>4. CASE (\E c \in Pollers : get_job(c)) \/ (\E j \in Ids : Age(j))
    BY <1>4, RegistryIInv
  <1>5. CASE UNCHANGED vars
    BY <1>5 DEF vars, taskVars, IInv, TypeOK, TaskOfHandler, EntryOwned, OutcomeBacked,
                AnswersExist, SlotsConserved, Holding, AnswersAreTrue, RunningIsLive
  <1> QED
    BY <1>1, <1>2, <1>3, <1>4, <1>5 DEF Next

\* The invariant holds of the specification.
LEMMA Invariance == Spec => []IInv
  BY InitIInv, NextIInv, PTL DEF Spec

-----------------------------------------------------------------------------
\* The variables of the job machinery keep their types; the number of free
\* permits stays between zero and the number of slots.
THEOREM TypeCorrect == Spec => []TypeOK
  <1>1. IInv => TypeOK
    BY DEF IInv
  <1> QED
    BY Invariance, <1>1, PTL

\* Cancelled requests, failures and panics neither leak nor mint permits of
\* `materialise_slots`.
THEOREM PermitsAreConserved == Spec => []SlotsConserved
  <1>1. IInv => SlotsConserved
    BY DEF IInv
  <1> QED
    BY Invariance, <1>1, PTL

\* GET /jobs/:id answers with the asker's own job, and with "done" only when
\* the snapshot is in the catalog.
THEOREM PollsAreTruthful == Spec => []AnswersAreTrue
  <1>1. IInv => AnswersAreTrue
    BY DEF IInv
  <1> QED
    BY Invariance, <1>1, PTL

\* No job is reported as running without a request or a supervisor behind it,
\* except when its client went away.
THEOREM NoOrphans == Spec => []RunningIsLive
  <1>1. IInv => RunningIsLive
    BY DEF IInv
  <1> QED
    BY Invariance, <1>1, PTL

\* set_done and set_failed happen once: an outcome never changes.
LEMMA FinalStep == ASSUME IInv, Next, NEW j \in Ids PROVE Final(j)
  <1> SUFFICES ASSUME registry[j].status \in {"done", "failed"}
               PROVE  registry'[j].status \in {registry[j].status, "none"}
    BY DEF Final
  <1> USE DEF IInv
  <1>1. ASSUME NEW i \in Ids, NEW t \in Tenants, post_jobs(i, t)
        PROVE  registry'[j] = registry[j]
    <2>1. i # j
      BY <1>1 DEF post_jobs, EntryOwned
    <2> QED
      BY <1>1, <2>1 DEF post_jobs, TypeOK
  <1>2. ASSUME NEW i \in Ids, Record(i) PROVE registry'[j] = registry[j]
    <2>1. i # j
      BY <1>2 DEF Record, OutcomeBacked
    <2> QED
      BY <1>2, <2>1 DEF Record, Insert, TypeOK
  <1>3. ASSUME NEW i \in Ids, Age(i) PROVE registry'[j].status = registry[j].status
    BY <1>3 DEF Age, TypeOK, Entry
  <1>4. ASSUME NEW c \in Pollers, Expire(c)
        PROVE  registry'[j] = registry[j] \/ registry'[j].status = "none"
    BY <1>4 DEF Expire, NoEntry, TypeOK
  <1>5. CASE UNCHANGED registry
    BY <1>5
  <1> QED
    BY <1>1, <1>2, <1>3, <1>4, <1>5
       DEF Next, Supervisor, get_job, Respond, Cancel, Spawn, Materialise, Release, Lookup, Read

\* What a poll that is about to remove an entry knows of it: it was old and
\* still is, or is gone, or was running and its outcome has replaced it.
PollsKnow ==
    \A c \in Pollers : poll[c].at = "remove" =>
        LET j == poll[c].id IN
        /\ handler[j] # "new"
        /\ poll[c].saw = "running" \/ task[j] \in {"release", "ended"}
        /\ \/ registry[j].status = "none" \/ registry[j].old
           \/ poll[c].saw = "running" /\ registry[j].status # "running"

\* No step of another poll, of the supervisor or of time makes that wrong.
LEMMA PollsKnowKept == IInv /\ PollsKnow /\ [Next]_vars => PollsKnow'
  <1> SUFFICES ASSUME IInv, PollsKnow, [Next]_vars,
                      NEW c \in Pollers, poll'[c].at = "remove"
               PROVE  LET j == poll'[c].id IN
                      /\ handler'[j] # "new"
                      /\ poll'[c].saw = "running" \/ task'[j] \in {"release", "ended"}
                      /\ \/ registry'[j].status = "none" \/ registry'[j].old
                         \/ poll'[c].saw = "running" /\ registry'[j].status # "running"
    BY DEF PollsKnow
  <1> USE DEF IInv
  <1>1. poll[c].id \in Ids /\ poll \in [Pollers -> Request] /\ registry \in [Ids -> Entry]
    BY DEF TypeOK, Request
  <1>2. ASSUME NEW j \in Ids, NEW t \in Tenants, post_jobs(j, t) PROVE poll'[c].id # j
    BY <1>2 DEF post_jobs, PollsKnow
  <1>3. CASE \E j \in Ids : \E t \in Tenants : post_jobs(j, t)
    BY <1>1, <1>2, <1>3 DEF post_jobs, PollsKnow, TypeOK
  <1>4. CASE \E j \in Ids : Record(j)
    <2>1. PICK j \in Ids : Record(j)
      BY <1>4
    <2>2. UNCHANGED <<handler, poll>> /\ task[j] = "record"
          /\ task' = [task EXCEPT ![j] = "release"]
      BY <2>1 DEF Record
    <2>3. registry'[j].status # "running" /\ \A i \in Ids : i # j => registry'[i] = registry[i]
      BY <2>1, <1>1 DEF Record, Insert
    <2>4. \A i \in Ids : i # j => task'[i] = task[i]
      BY <2>2 DEF TypeOK
    <2>5. CASE poll[c].id = j
      BY <2>2, <2>3, <2>5 DEF PollsKnow
    <2>6. CASE poll[c].id # j
      BY <1>1, <2>2, <2>3, <2>4, <2>6 DEF PollsKnow
    <2> QED
      BY <2>5, <2>6
  <1>5. CASE \E j \in Ids : Age(j)
    <2>1. PICK j \in Ids : Age(j)
      BY <1>5
    <2>2. UNCHANGED <<handler, task, poll>> /\ registry' = [registry EXCEPT ![j].old = TRUE]
      BY <2>1 DEF Age, taskVars
    <2>3. registry'[poll[c].id].status = registry[poll[c].id].status
          /\ (registry[poll[c].id].old => registry'[poll[c].id].old)
      BY <1>1, <2>2 DEF Entry
    <2> QED
      BY <2>2, <2>3 DEF PollsKnow
  <1>6. CASE \E d \in Pollers : Expire(d) \/ Read(d)
    <2>1. PICK d \in Pollers : Expire(d) \/ Read(d)
      BY <1>6
    <2>2. d # c /\ UNCHANGED <<handler, task>> /\ poll'[c] = poll[c]
      BY <1>1, <2>1 DEF Expire, Read, taskVars, Request
    <2>3. registry'[poll[c].id] = registry[poll[c].id] \/ registry'[poll[c].id].status = "none"
      BY <1>1, <2>1 DEF Expire, Read, NoEntry
    <2> QED
      BY <2>2, <2>3 DEF PollsKnow
  <1>7. CASE \E d \in Pollers : \E j \in Ids : \E t \in Tenants : Lookup(d, j, t)
    <2>1. PICK d \in Pollers, j \in Ids, t \in Tenants : Lookup(d, j, t)
      BY <1>7
    <2>2. UNCHANGED <<registry, handler, task>>
      BY <2>1 DEF Lookup, taskVars
    <2>3. CASE d # c
      <3>1. poll'[c] = poll[c]
        BY <1>1, <2>1, <2>3 DEF Lookup
      <3> QED
        BY <2>2, <3>1 DEF PollsKnow
    <2>4. CASE d = c
      <3>1. /\ poll'[c].id = j /\ poll'[c].saw = registry[j].status
            /\ registry[j].status # "none" /\ registry[j].old
        BY <1>1, <2>1, <2>4 DEF Lookup
      <3>2. registry[j].status \in {"running", "done", "failed"}
        BY <1>1, <3>1 DEF Entry, Status
      <3> QED
        BY <2>2, <3>1, <3>2 DEF EntryOwned, OutcomeBacked
    <2> QED
      BY <2>3, <2>4
  <1>8. CASE \E j \in Ids : \/ Respond(j) \/ Cancel(j) \/ Spawn(j) \/ Release(j)
                          \/ \E r \in {"ok", "error", "panic"} : Materialise(j, r)
    <2>1. UNCHANGED <<registry, poll>>
      BY <1>8 DEF Respond, Cancel, Spawn, Release, Materialise
    <2>2. handler[poll[c].id] # "new" => handler'[poll[c].id] # "new"
      BY <1>1, <1>8 DEF Respond, Cancel, Spawn, Release, Materialise, TypeOK
    <2>3. task[poll[c].id] \in {"release", "ended"} => task'[poll[c].id] \in {"release", "ended"}
      <3>1. \A j \in Ids : Spawn(j) => task[j] = "none"
        BY DEF Spawn, TaskOfHandler, Started
      <3> QED
        BY <1>1, <1>8, <3>1 DEF Respond, Cancel, Spawn, Release, Materialise, TypeOK, taskVars
    <2> QED
      BY <2>1, <2>2, <2>3 DEF PollsKnow
  <1>9. CASE UNCHANGED vars
    BY <1>9 DEF vars, taskVars, PollsKnow
  <1> QED
    BY <1>3, <1>4, <1>5, <1>6, <1>7, <1>8, <1>9 DEF Next, Supervisor, get_job

\* A step of get_owned's polls removes entries as ExpiresByAge says.
LEMMA ExpiryStep == ASSUME IInv, PollsKnow, Next, NEW j \in Ids PROVE ExpiresByAge(j)
  <1> SUFFICES ASSUME registry[j].status # "none", ~registry[j].old, registry'[j].status = "none"
               PROVE  /\ registry[j].status # "running"
                      /\ \E c \in Pollers : /\ poll[c].at = "remove" /\ poll[c].id = j
                                            /\ poll[c].saw = "running"
    BY DEF ExpiresByAge
  <1>1. registry \in [Ids -> Entry]
    BY DEF IInv, TypeOK
  <1>2. ASSUME NEW i \in Ids, Age(i) PROVE registry'[j].status = registry[j].status
    BY <1>1, <1>2 DEF Age, Entry
  <1>3. ASSUME NEW i \in Ids, Record(i) PROVE registry'[j] = registry[j] \/ registry'[j].status # "none"
    BY <1>1, <1>3 DEF Record, Insert
  <1>4. ASSUME NEW i \in Ids, NEW t \in Tenants, post_jobs(i, t)
        PROVE  registry'[j] = registry[j] \/ registry'[j].status # "none"
    BY <1>1, <1>4 DEF post_jobs
  <1>5. PICK c \in Pollers : Expire(c)
    BY <1>2, <1>3, <1>4
       DEF Next, Supervisor, get_job, Respond, Cancel, Spawn, Materialise, Release, Lookup, Read
  <1>6. poll[c].at = "remove" /\ poll[c].id = j
    BY <1>1, <1>5 DEF Expire
  <1> QED
    BY <1>6 DEF PollsKnow

\* set_done and set_failed happen once: an outcome never changes; and get_owned
\* removes an entry that is not old only if it looked up a running job that
\* ended before the removal.
THEOREM OutcomesAreFinal == Spec => OutcomeIsFinal
  <1> DEFINE Rule == \A j \in Ids : Final(j) /\ ExpiresByAge(j)
  <1>1. Init => PollsKnow
    BY DEF Init, PollsKnow
  <1>2. IInv /\ PollsKnow /\ [Next]_vars => [Rule]_vars
    BY FinalStep, ExpiryStep
  <1> QED
    BY Invariance, <1>1, <1>2, PollsKnowKept, PTL DEF Spec, OutcomeIsFinal
=============================================================================
