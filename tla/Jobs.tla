-------------------------------- MODULE Jobs --------------------------------
(***************************************************************************)
(* Asynchronous materialisation jobs (crates/ingress, jobs.rs): the        *)
(* POST /jobs handler, the semaphore that bounds the running jobs, the     *)
(* supervisor task that records how a job ended, the in-memory registry    *)
(* with its time to live, and the polls of GET /jobs/:id.                  *)
(*                                                                         *)
(* A request refused before a job id is minted changes nothing and is left *)
(* out.  What a job computes is abstracted to whether its snapshot is in   *)
(* the catalog; job j's snapshot is j.  The map is a DashMap: each of its  *)
(* operations is one step, and other threads run between two of them.      *)
(***************************************************************************)
EXTENDS Integers, FiniteSets

CONSTANTS Ids,      \* job ids: bound on the requests
          Tenants,
          Pollers,  \* concurrent GET /jobs/:id requests
          Slots     \* permits of `materialise_slots`

ASSUME JobsAssumption ==
    /\ Ids # {} /\ Tenants # {}
    /\ IsFiniteSet(Ids)
    /\ Slots \in Nat \ {0}

VARIABLES
    registry,  \* registry[j]: the entry of job j
    handler,   \* handler[j]: where the POST /jobs request that minted j is
    owner,     \* owner[j]: tenant of that request
    ticket,    \* ticket[j]: place of a waiting request; tokio's semaphore is FIFO
    arrivals,  \* requests that have asked for a permit
    free,      \* permits not held
    task,      \* task[j]: where the supervisor task of j is
    result,    \* result[j]: how the materialisation ended
    snapshots, \* jobs whose snapshot is in the catalog
    poll       \* poll[c]: the GET request c, and its last answer

taskVars == <<ticket, arrivals, free, task, result, snapshots>>
vars == <<registry, handler, owner, taskVars, poll>>

Status  == {"none", "running", "done", "failed"}
Entry   == [status : Status, tenant : Tenants, old : BOOLEAN]
\* `saw`: what the first lookup of a poll found.
Request == [at : {"idle", "remove", "read"}, id : Ids, tenant : Tenants,
            saw : Status, answer : Status]

\* Types of the variables.
TypeOK ==
    /\ registry \in [Ids -> Entry]
    /\ handler \in [Ids -> {"new", "waiting", "spawned", "answered", "cancelled"}]
    /\ owner \in [Ids -> Tenants]
    /\ ticket \in [Ids -> Nat] /\ arrivals \in Nat
    /\ free \in 0..Slots
    /\ task \in [Ids -> {"none", "materialise", "record", "release", "ended"}]
    /\ result \in [Ids -> {"none", "ok", "error", "panic"}]
    /\ snapshots \subseteq Ids
    /\ poll \in [Pollers -> Request]

SomeTenant == CHOOSE t \in Tenants : TRUE
NoEntry == [status |-> "none", tenant |-> SomeTenant, old |-> FALSE]

Init ==
    /\ registry = [j \in Ids |-> NoEntry]
    /\ handler = [j \in Ids |-> "new"]
    /\ owner = [j \in Ids |-> SomeTenant]
    /\ ticket = [j \in Ids |-> 0] /\ arrivals = 0
    /\ free = Slots
    /\ task = [j \in Ids |-> "none"]
    /\ result = [j \in Ids |-> "none"]
    /\ snapshots = {}
    /\ poll = [c \in Pollers |-> [at |-> "idle", id |-> CHOOSE j \in Ids : TRUE,
                                  tenant |-> SomeTenant, saw |-> "none", answer |-> "none"]]

Insert(j, status) ==
    registry' = [registry EXCEPT ![j] = [status |-> status, tenant |-> owner[j], old |-> FALSE]]

-----------------------------------------------------------------------------
(***************************************************************************)
(* POST /jobs.                                                             *)
(***************************************************************************)
\* insert_running, then the wait for a permit.
post_jobs(j, t) ==
    /\ handler[j] = "new"
    /\ handler' = [handler EXCEPT ![j] = "waiting"]
    /\ owner' = [owner EXCEPT ![j] = t]
    /\ registry' = [registry EXCEPT ![j] =
                      [status |-> "running", tenant |-> t, old |-> FALSE]]
    /\ arrivals' = arrivals + 1
    /\ ticket' = [ticket EXCEPT ![j] = arrivals']
    /\ UNCHANGED <<free, task, result, snapshots, poll>>

\* The request that has waited longest gets the permit and spawns the
\* supervisor with it.
Spawn(j) ==
    /\ handler[j] = "waiting" /\ free > 0
    /\ \A k \in Ids : handler[k] = "waiting" => ticket[j] <= ticket[k]
    /\ ticket' = [ticket EXCEPT ![j] = 0]
    /\ free' = free - 1
    /\ handler' = [handler EXCEPT ![j] = "spawned"]
    /\ task' = [task EXCEPT ![j] = "materialise"]
    /\ UNCHANGED <<registry, owner, arrivals, result, snapshots, poll>>

\* Faulty variant: the job is registered only now.
Respond_Registers(j) ==
    /\ handler[j] = "spawned"
    /\ handler' = [handler EXCEPT ![j] = "answered"]
    /\ Insert(j, "running")
    /\ UNCHANGED <<owner, taskVars, poll>>

\* 202 with the job id.
Respond(j) ==
    /\ handler[j] = "spawned"
    /\ handler' = [handler EXCEPT ![j] = "answered"]
    /\ UNCHANGED <<registry, owner, taskVars, poll>>

\* Faulty variant: a request that has no permit gives one back.
Cancel_Releases(j) ==
    /\ handler[j] = "waiting"
    /\ handler' = [handler EXCEPT ![j] = "cancelled"]
    /\ ticket' = [ticket EXCEPT ![j] = 0]
    /\ free' = free + 1
    /\ UNCHANGED <<registry, owner, arrivals, task, result, snapshots, poll>>

\* The client goes away while its request waits: the server drops the handler
\* at its only await, and the entry stays.
Cancel(j) ==
    /\ handler[j] = "waiting"
    /\ handler' = [handler EXCEPT ![j] = "cancelled"]
    /\ ticket' = [ticket EXCEPT ![j] = 0]
    /\ UNCHANGED <<registry, owner, arrivals, free, task, result, snapshots, poll>>

-----------------------------------------------------------------------------
(***************************************************************************)
(* The supervisor task.                                                    *)
(***************************************************************************)
\* The inner task ends; one that fails may have committed its snapshot.
Materialise(j, r) ==
    /\ task[j] = "materialise"
    /\ result' = [result EXCEPT ![j] = r]
    /\ \/ snapshots' = snapshots \cup {j}
       \/ r # "ok" /\ snapshots' = snapshots
    /\ task' = [task EXCEPT ![j] = "record"]
    /\ UNCHANGED <<registry, handler, owner, ticket, arrivals, free, poll>>

\* Faulty variants: a failure is taken for success; a panic is not recorded.
Record_AlwaysDone(j) ==
    /\ task[j] = "record"
    /\ Insert(j, "done")
    /\ task' = [task EXCEPT ![j] = "release"]
    /\ UNCHANGED <<handler, owner, ticket, arrivals, free, result, snapshots, poll>>

Record_PanicLost(j) ==
    /\ task[j] = "record"
    /\ IF result[j] = "panic" THEN UNCHANGED registry
       ELSE Insert(j, IF result[j] = "ok" THEN "done" ELSE "failed")
    /\ task' = [task EXCEPT ![j] = "release"]
    /\ UNCHANGED <<handler, owner, ticket, arrivals, free, result, snapshots, poll>>

\* set_done or set_failed; a panic of the inner task is a failure.
Record(j) ==
    /\ task[j] = "record"
    /\ Insert(j, IF result[j] = "ok" THEN "done" ELSE "failed")
    /\ task' = [task EXCEPT ![j] = "release"]
    /\ UNCHANGED <<handler, owner, ticket, arrivals, free, result, snapshots, poll>>

\* Faulty variant: only a job that succeeded gives its permit back.
Release_OnSuccess(j) ==
    /\ task[j] = "release"
    /\ free' = IF result[j] = "ok" THEN free + 1 ELSE free
    /\ task' = [task EXCEPT ![j] = "ended"]
    /\ UNCHANGED <<registry, handler, owner, ticket, arrivals, result, snapshots, poll>>

\* `_permit` is dropped with the task.
Release(j) ==
    /\ task[j] = "release"
    /\ free' = free + 1
    /\ task' = [task EXCEPT ![j] = "ended"]
    /\ UNCHANGED <<registry, handler, owner, ticket, arrivals, result, snapshots, poll>>

-----------------------------------------------------------------------------
(***************************************************************************)
(* GET /jobs/:id.  Ids are not secret: any tenant may ask for any of them. *)
(***************************************************************************)
\* get_owned, first lookup: is the entry older than the time to live?
Lookup(c, j, t) ==
    /\ poll[c].at = "idle"
    /\ poll' = [poll EXCEPT ![c] =
                  [at |-> IF registry[j].status # "none" /\ registry[j].old THEN "remove" ELSE "read",
                   id |-> j, tenant |-> t, saw |-> registry[j].status, answer |-> "none"]]
    /\ UNCHANGED <<registry, handler, owner, taskVars>>

\* `drop(entry); self.map.remove(id)`: by now it may be another entry.
Expire(c) ==
    /\ poll[c].at = "remove"
    /\ registry' = [registry EXCEPT ![poll[c].id] = NoEntry]
    /\ poll' = [poll EXCEPT ![c].at = "idle"]
    /\ UNCHANGED <<handler, owner, taskVars>>

\* Faulty variant: whoever asks is answered.
Visible_ToAll(e, t) == TRUE

Visible(e, t) == e.tenant = t

\* Second lookup, filtered by tenant; absent is a 404.
Read(c) ==
    LET e == registry[poll[c].id] IN
    /\ poll[c].at = "read"
    /\ poll' = [poll EXCEPT ![c].at = "idle",
                            ![c].answer = IF Visible(e, poll[c].tenant) THEN e.status ELSE "none"]
    /\ UNCHANGED <<registry, handler, owner, taskVars>>

\* Time: an entry becomes older than the time to live.
Age(j) ==
    /\ registry[j].status # "none" /\ ~registry[j].old
    /\ registry' = [registry EXCEPT ![j].old = TRUE]
    /\ UNCHANGED <<handler, owner, taskVars, poll>>

-----------------------------------------------------------------------------
Supervisor(j) ==
    Spawn(j) \/ (\E r \in {"ok", "error", "panic"} : Materialise(j, r)) \/ Record(j) \/ Release(j)

get_job(c) == Expire(c) \/ Read(c) \/ \E j \in Ids : \E t \in Tenants : Lookup(c, j, t)

Next ==
    \/ \E j \in Ids :
         \/ \E t \in Tenants : post_jobs(j, t)
         \/ Respond(j) \/ Cancel(j) \/ Supervisor(j) \/ Age(j)
    \/ \E c \in Pollers : get_job(c)

Spec == Init /\ [][Next]_vars

\* Spawned tasks run and a materialisation ends (its statements have a
\* timeout); nothing is assumed of clients.
FairSpec == Spec /\ \A j \in Ids : WF_vars(Supervisor(j))

-----------------------------------------------------------------------------
Holding(j) == task[j] \in {"materialise", "record", "release"}

\* A permit is held by exactly one job: requests that were cancelled while they
\* waited, failures and panics neither leak nor mint one.
SlotsConserved == free + Cardinality({j \in Ids : Holding(j)}) = Slots

\* A poll is answered with the job of its own tenant only, and "done" only for
\* a snapshot that is in the catalog.
AnswersAreTrue ==
    \A c \in Pollers :
        /\ poll[c].answer # "none" => poll[c].tenant = owner[poll[c].id]
        /\ poll[c].answer = "done" => poll[c].id \in snapshots

\* No job is orphaned: one that is reported as running is waiting for a permit
\* or has a live supervisor, unless its client went away before it started.
RunningIsLive ==
    \A j \in Ids :
        registry[j].status = "running" =>
            handler[j] \in {"waiting", "cancelled"} \/ task[j] \in {"materialise", "record"}

\* A job that ended never goes back to running and never changes its outcome:
\* its entry stays or expires.
Final(j) ==
    registry[j].status \in {"done", "failed"}
      => registry'[j].status \in {registry[j].status, "none"}

\* A poll removes an entry that is not old only if the job it looked up was
\* still running and ended before the removal (get_owned releases the shard
\* guard in between).  A running job that is not old stays.
ExpiresByAge(j) ==
    registry[j].status # "none" /\ ~registry[j].old /\ registry'[j].status = "none"
      => /\ registry[j].status # "running"
         /\ \E c \in Pollers : /\ poll[c].at = "remove" /\ poll[c].id = j
                               /\ poll[c].saw = "running"

\* Outcomes are final and entries go by their age, but for the race in get_owned.
OutcomeIsFinal == [][\A j \in Ids : Final(j) /\ ExpiresByAge(j)]_vars

\* Every job whose client keeps waiting gets a permit and ends.
JobsEnd ==
    \A j \in Ids : handler[j] = "waiting" ~> (task[j] = "ended" \/ handler[j] = "cancelled")
=============================================================================
