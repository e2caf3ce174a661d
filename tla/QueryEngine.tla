----------------------------- MODULE QueryEngine ----------------------------
(***************************************************************************)
(* The query engine (crates/query, `QueryEngine`) under concurrent         *)
(* requests: the in-flight semaphore, the catalogue guardrail, the         *)
(* survivor count of a Derive, EXPLAIN, the timed reads, profiles, the     *)
(* freshness label, and `materialize` up to the writer's INSERT.           *)
(*                                                                         *)
(* The catalog is the sequence of its committed versions; each read is     *)
(* served by some worker of the pool and sees some committed version, not  *)
(* always the newest and not the same one as the request's other reads     *)
(* (module ReadPool says which); the writer sees the newest.  Between any  *)
(* two awaits of a request other requests run, versions are committed and  *)
(* sources are registered as fresh, by an onboarding or a CDC batch before *)
(* or after their rows are committed.  EXPLAIN's estimate is any number.   *)
(* A read that is given up goes on in its worker (`stuck`).                *)
(***************************************************************************)
EXTENDS Segment

CONSTANTS Requests,      \* concurrent callers
          Menu,          \* Menu[r]: the [kind, tenant, q] that r may ask
          Content,       \* Content[v]: the catalog in version v
          Permits,       \* guardrails.threads.max(1)
          Workers,       \* reader pool size
          Rules,         \* SuppressionRules
          EnforceCatalogue, SurvivorCap, MaxOutputRows, SyncRowCap,  \* guardrails
          Estimates,     \* est_rows EXPLAIN may give (0: none)
          MaxVersions, MaxClock, MaxRegs  \* bounds: commits, time, registrations

ASSUME QueryEngineAssumption ==
    /\ {Permits, Workers, MaxVersions} \subseteq Nat \ {0}
    /\ {SurvivorCap, MaxOutputRows, SyncRowCap, MaxClock, MaxRegs} \subseteq Nat
    /\ Rules.no_repeat \in BOOLEAN /\ {Rules.max, Rules.days} \subseteq Nat
    /\ EnforceCatalogue \in BOOLEAN
    /\ Estimates \subseteq Nat
    /\ IsFiniteSet(Requests)
    /\ \A v \in DOMAIN Content : Database(Content[v])
    /\ \A r \in Requests : \A a \in Menu[r] :
         a.kind = "sql" \/ (a.kind \in {"dsl", "job"} /\ Query(a.q))

VARIABLES
    log,        \* committed versions of the catalog
    registry,   \* FreshnessRegistry: registry[d] or Unknown
    clock,      \* now_epoch, and now() of the database
    permits,    \* free permits of `inflight`
    stuck,      \* workers busy with reads nobody waits for
    req,        \* req[r]: the request of r and how far it is
    snaps       \* audience_snapshot, one record per INSERT

vars == <<log, registry, clock, permits, stuck, req, snaps>>
env  == <<log, registry, clock>>

Asks == UNION {Menu[r] : r \in Requests}

\* The texts the compiler produces: one per request and survivor limit.
Statement ==
    [a \in Asks |-> [n \in {Null} \cup 0..SurvivorCap |->
        IF a.kind = "sql" \/ ~validate(a.q) THEN [ok |-> FALSE]
        ELSE compile_with_opts(a.q, a.tenant, Rules, n)]]

\* strip_derive: the narrowing of a Derive, compiled on its own.
Survivors ==
    [a \in {x \in Asks : x.kind # "sql" /\ has_derive(x.q)} |->
        compile_with_opts(strip_last_op(a.q), a.tenant, Rules, Null)]

Unknown == [type |-> "none", epoch |-> 0]
Meta    == {Unknown} \cup [type : {"batch", "cdc"}, epoch : 0..MaxClock]

Reads   == {"count", "run", "recency", "categories"}
NoRead  == [version |-> 0, at |-> 0]

\* tables, names: what the catalogue check has still to look up; limit: the
\* survivors counted; reads: version and time of each read; answer: what they
\* returned.
Fresh ==
    [pc |-> "new", ask |-> Null, tables |-> {}, names |-> {}, limit |-> Null,
     reads |-> [x \in Reads |-> NoRead], answer |-> [keys |-> {}],
     as_of |-> 0, families |-> <<>>,
     label |-> [worst |-> "none", lag |-> 0]]

Inside == {"catalogue", "count", "explain", "run", "metrics", "recency", "categories", "label", "sql"}
Busy   == Inside \cup {"waiting", "freeze", "families", "insert"}

\* Types of the variables.
TypeOK ==
    /\ log \in Seq(DOMAIN Content) /\ Len(log) \in 1..MaxVersions
    /\ registry \in [Datasets -> Meta]
    /\ clock \in 0..MaxClock
    /\ permits \in 0..Permits
    /\ stuck \in 0..Workers
    /\ \A r \in Requests :
         /\ req[r].pc \in Busy \cup {"new", "done", "failed"}
         /\ req[r].limit \in Nat \cup {Null}
         /\ req[r].label.lag \in 0..MaxClock
    /\ \A s \in snaps : s.by \in Requests /\ s.as_of \in 0..MaxClock

Init ==
    /\ log \in {<<v>> : v \in DOMAIN Content}
    /\ registry = [d \in Datasets |-> Unknown]
    /\ clock = 0
    /\ permits = Permits
    /\ stuck = 0
    /\ req = [r \in Requests |-> Fresh]
    /\ snaps = {}

-----------------------------------------------------------------------------
(***************************************************************************)
(* The rest of the engine: commits, registrations, time.                   *)
(***************************************************************************)
Db(v)  == Content[log[v]]
Latest == Db(Len(log))

\* The feature store and the semantic catalogue only grow.
Commit(new) ==
    /\ Len(log) < MaxVersions /\ Content[new] # Latest
    /\ Latest.features \subseteq Content[new].features
    /\ Latest.catalogue \subseteq Content[new].catalogue
    /\ log' = Append(log, new)
    /\ UNCHANGED <<registry, clock, permits, stuck, req, snaps>>

Registered == {d \in Datasets : registry[d] # Unknown}

\* FreshnessRegistry::set overwrites whatever was there.
set(d, type) ==
    /\ Cardinality(Registered) < MaxRegs \/ d \in Registered
    /\ registry' = [registry EXCEPT ![d] = [type |-> type, epoch |-> clock]]
    /\ UNCHANGED <<log, clock, permits, stuck, req, snaps>>

Tick ==
    /\ clock < MaxClock
    /\ clock' = clock + 1
    /\ UNCHANGED <<log, registry, permits, stuck, req, snaps>>

\* A read nobody waits for any more ends.
OrphanEnds ==
    /\ stuck > 0
    /\ stuck' = stuck - 1
    /\ UNCHANGED <<env, permits, req, snaps>>

\* FreshnessRegistry::get: any name may be looked up.
get(reg, d) == IF d \in DOMAIN reg THEN reg[d] ELSE Unknown

\* Faulty variant: only the first source is graded.
worst_First(sources, reg, now) ==
    LET m == get(reg, sources[1])
    IN  [worst |-> m.type, lag |-> IF m = Unknown THEN 0 ELSE now - m.epoch]

\* FreshnessRegistry::worst: the largest lag, ties for batch; a source nobody
\* registered counts as fresh batch data.
worst(sources, reg, now) ==
    LET Lag(m)  == IF m = Unknown THEN 0 ELSE now - m.epoch
        Type(m) == IF m = Unknown THEN "batch" ELSE m.type
        w[i \in 0..Len(sources)] ==
          IF i = 0 THEN [worst |-> "batch", lag |-> 0]
          ELSE LET m == get(reg, sources[i])
               IN  IF \/ Lag(m) > w[i - 1].lag
                      \/ Lag(m) = w[i - 1].lag /\ Type(m) = "batch"
                   THEN [worst |-> Type(m), lag |-> Lag(m)] ELSE w[i - 1]
    IN  w[Len(sources)]

-----------------------------------------------------------------------------
(***************************************************************************)
(* run, run_sync, run_sql_approved and materialize, one action per read.   *)
(***************************************************************************)
Asked(r)    == req[r].ask
Compiled(r) == Statement[req[r].ask][req[r].limit]

\* The requests that hold a permit of `inflight`; jobs have their own.
Holds(r) == req[r].pc \in Inside /\ Asked(r).kind # "job"

\* Faulty variant: an early return keeps the permit.
Release_OnSuccess(r, pc) == permits' = IF Holds(r) /\ pc = "done" THEN permits + 1 ELSE permits

\* Faulty variant: a permit is returned for a job, which has none.
Release_Always(r, pc) == permits' = permits + 1

\* The permit is dropped with the request's future, however it ends.
Release(r, pc) == permits' = IF Holds(r) THEN permits + 1 ELSE permits

End(r, pc) == req' = [req EXCEPT ![r].pc = pc] /\ Release(r, pc)
Go(r, pc)  == req' = [req EXCEPT ![r].pc = pc] /\ UNCHANGED permits

\* A worker is free to serve a read.
Served == stuck < Workers
Versions == 1..Len(log)
Stamp(v) == [version |-> v, at |-> clock]

\* POST /query and parse::parse: raw SQL needs the approval token; a metric or a
\* profile cannot be materialised.  From then on the request knows what
\* enforce_catalogue has to look up: nothing when it is switched off.
Submit(r, a) ==
    LET pc == CASE a.kind = "sql" -> IF a.approved THEN "waiting" ELSE "failed"
                [] a.kind # "sql" /\ ~validate(a.q) -> "failed"
                [] a.kind = "dsl" /\ validate(a.q) -> "waiting"
                [] OTHER -> IF has_derive(a.q) \/ has_characterize(a.q) THEN "failed" ELSE "catalogue"
        checked == EnforceCatalogue /\ a.kind # "sql" /\ pc # "failed"
    IN  /\ req[r].pc = "new"
        /\ req' = [req EXCEPT ![r] =
             [Fresh EXCEPT !.pc = pc, !.ask = a,
                !.tables = IF checked THEN {x[1] : x \in referenced_columns(a.q)} ELSE {},
                !.names  = IF checked THEN referenced_features(a.q) ELSE {}]]
        /\ UNCHANGED <<env, permits, stuck, snaps>>

Acquire(r) ==
    /\ req[r].pc = "waiting" /\ permits > 0
    /\ permits' = permits - 1
    /\ req' = [req EXCEPT ![r].pc = IF Asked(r).kind = "sql" THEN "sql" ELSE "catalogue"]
    /\ UNCHANGED <<env, stuck, snaps>>

Catalogued(db, d) == {x.column : x \in {y \in db.catalogue : y.table = d}}

\* enforce_catalogue, the raw columns of one table: any tenant's entry counts.
\* The age of the entries is only logged.
CheckTable(r, d) ==
    /\ req[r].pc = "catalogue" /\ d \in req[r].tables /\ Served
    /\ \E v \in Versions :
         IF {x[2] : x \in {y \in referenced_columns(Asked(r).q) : y[1] = d}} \subseteq Catalogued(Db(v), d)
         THEN req' = [req EXCEPT ![r].tables = @ \ {d}] /\ UNCHANGED permits
         ELSE End(r, "failed")
    /\ UNCHANGED <<env, stuck, snaps>>

\* enforce_catalogue, one feature name: the caller's own tenant has values.
CheckName(r, n) ==
    /\ req[r].pc = "catalogue" /\ req[r].tables = {} /\ n \in req[r].names /\ Served
    /\ \E v \in Versions :
         IF \E f \in Db(v).features : f.feature_name = n /\ f.tenant_id = Asked(r).tenant
         THEN req' = [req EXCEPT ![r].names = @ \ {n}] /\ UNCHANGED permits
         ELSE End(r, "failed")
    /\ UNCHANGED <<env, stuck, snaps>>

\* compile_and_check after the guardrail, and the branch of run_sync for a
\* profile.  A Derive's own compile waits for the survivor count.
Compile(r) ==
    LET q == Asked(r).q
        c == IF has_derive(q) THEN Survivors[req[r].ask] ELSE Compiled(r)
    IN  /\ req[r].pc = "catalogue" /\ req[r].tables = {} /\ req[r].names = {}
        /\ IF c.ok THEN Go(r, CASE has_derive(q) -> "count"
                                [] has_characterize(q) -> "metrics"
                                [] OTHER -> "explain")
           ELSE End(r, "failed")
        /\ UNCHANGED <<env, stuck, snaps>>

OverCap(n) == n > SurvivorCap

\* derive_survivor_limit: the narrowing is counted, and the count is the LIMIT
\* of the statement that runs later.
Count(r) ==
    LET c == Survivors[req[r].ask]
    IN  /\ req[r].pc = "count" /\ Served
        /\ \E v \in Versions :
             LET n == Cardinality(Segments(c, c.params, Db(v), clock))
             IN  IF ~Bindable(c, Db(v)) \/ OverCap(n) THEN End(r, "failed")
                 ELSE /\ req' = [req EXCEPT ![r].pc = "explain", ![r].limit = n,
                                            ![r].reads["count"] = Stamp(v)]
                      /\ UNCHANGED permits
        /\ UNCHANGED <<env, stuck, snaps>>

\* What a read that was given up leaves behind: its worker, or nothing.
Abandon == stuck' \in {stuck, stuck + 1} \cap (0..Workers)

\* explain_cost, enforce and the choice of mode.  A job only logs the estimate;
\* an EXPLAIN that fails or times out is an estimate of 0.
Explain(r) ==
    /\ req[r].pc = "explain"
    /\ \E est \in Estimates :
         /\ est > 0 => Served /\ UNCHANGED stuck
         /\ est = 0 => Abandon
         /\ CASE Asked(r).kind = "job" -> Go(r, "freeze")
              [] Asked(r).kind = "dsl" /\ (est > MaxOutputRows \/ est > SyncRowCap) -> End(r, "failed")
              [] OTHER -> Go(r, "run")
    /\ UNCHANGED <<env, snaps>>

\* The statement itself and the output cap.
Run(r) ==
    LET c == Compiled(r)
        Results(db) == IF has_derive(Asked(r).q) THEN DeriveResults(c, db, clock)
                       ELSE {[keys |-> Segments(c, c.params, db, clock)]}
        Rows(x) == IF has_derive(Asked(r).q) THEN 1 ELSE Cardinality(x.keys)
    IN  /\ req[r].pc = "run" /\ Served
        /\ \E v \in Versions :
             \/ ~Bindable(c, Db(v)) /\ End(r, "failed")
             \/ /\ Bindable(c, Db(v))
                /\ \E x \in Results(Db(v)) :
                     IF Rows(x) > MaxOutputRows THEN End(r, "failed")
                     ELSE /\ req' = [req EXCEPT ![r].pc = "label", ![r].answer = x,
                                                ![r].reads["run"] = Stamp(v)]
                          /\ UNCHANGED permits
        /\ UNCHANGED <<env, stuck, snaps>>

\* assemble_profile: the shares of the category counts are taken of the order
\* totals of the first read; a ratio or a share of nothing is 0.
assemble_profile(m, recency, cats) ==
    LET Share(n, total) == IF total > 0 THEN <<n, total>> ELSE <<0, 1>>
    IN  [users |-> <<m.seg_users, m.base.active>>,
         aov |-> <<<<m.seg_amount, m.seg.orders>>, <<m.base_amount, m.base.orders>>>>,
         frequency |-> <<<<m.seg.orders, m.seg.active>>, <<m.base.orders, m.base.active>>>>,
         recency |-> recency,
         mix |-> [x \in DOMAIN cats |-> <<Share(cats[x].seg, m.seg.orders),
                                          Share(cats[x].base, m.base.orders)>>]]

\* run_characterize: three statements over one segment, each read on its own.
Profile(r) ==
    LET c == Compiled(r)
        Rows(db, part) == LET p == ProfileParts(c, db, clock)
                          IN  IF part = "categories" THEN Top(p.categories) ELSE {p[part]}
        So(x) == IF x = "run" THEN <<>> ELSE req[r].answer.parts
        Then(x, pc, part) ==
          \E v \in Versions :
            IF ~Bindable(c, Db(v)) THEN End(r, "failed")
            ELSE \E rows \in Rows(Db(v), part) :
                   /\ req' = [req EXCEPT ![r].pc = pc, ![r].reads[x] = Stamp(v),
                                ![r].answer = [keys |-> {}, parts |-> Append(So(x), rows)]]
                   /\ UNCHANGED permits
    IN  /\ Served
        /\ \/ req[r].pc = "metrics" /\ Then("run", "recency", "metrics")
           \/ req[r].pc = "recency" /\ Then("recency", "categories", "recency")
           \/ req[r].pc = "categories" /\ Then("categories", "label", "categories")
        /\ UNCHANGED <<env, stuck, snaps>>

\* A profile is put together; the label is made from the registry of now, and
\* the caller is answered.
Label(r) ==
    LET a == req[r].answer
        answer == IF has_characterize(Asked(r).q)
                  THEN [keys |-> {}, parts |-> a.parts,
                        profile |-> assemble_profile(a.parts[1], a.parts[2], a.parts[3])]
                  ELSE a
    IN  /\ req[r].pc = "label"
        /\ req' = [req EXCEPT ![r].pc = "done", ![r].answer = answer,
                              ![r].label = worst(Compiled(r).sources, registry, clock)]
        /\ Release(r, "done")
        /\ UNCHANGED <<env, stuck, snaps>>

\* run_sql_approved: any statement, not scoped to a tenant, labelled batch 0.
RunSql(r) ==
    /\ req[r].pc = "sql" /\ Served
    /\ \E rows \in {0, MaxOutputRows + 1} :
         IF rows > MaxOutputRows THEN End(r, "failed")
         ELSE /\ req' = [req EXCEPT ![r].pc = "done", ![r].label = [worst |-> "batch", lag |-> 0]]
              /\ Release(r, "done")
    /\ UNCHANGED <<env, stuck, snaps>>

\* Faulty variant: the survivor count is not timed.
GiveUp_NotCount(r) ==
    /\ req[r].pc \in {"run", "metrics", "recency", "categories", "sql", "catalogue"}
    /\ End(r, "failed")
    /\ Abandon
    /\ UNCHANGED <<env, snaps>>

\* A timed read fails or is given up after statement_timeout_secs.
GiveUp(r) ==
    /\ \/ req[r].pc \in {"count", "run", "metrics", "recency", "categories", "sql"}
       \/ req[r].pc = "catalogue" /\ req[r].tables \cup req[r].names # {}
    /\ End(r, "failed")
    /\ Abandon
    /\ UNCHANGED <<env, snaps>>

\* The client goes away and the handler's future is dropped; a job is a task
\* of its own and goes on.
Cancel(r) ==
    /\ req[r].pc \in Inside \cup {"waiting"} /\ Asked(r).kind # "job"
    /\ End(r, "failed")
    /\ Abandon
    /\ UNCHANGED <<env, snaps>>

-----------------------------------------------------------------------------
(***************************************************************************)
(* materialize, after the checks it shares with the queries.               *)
(***************************************************************************)
\* Faulty variant: the cut-off is the wall clock.
AsOf_Now(r) == clock

\* The oldest registered source of the segment, or now.
AsOf(r) ==
    LET c == Compiled(r)
        known == {get(registry, c.sources[i]) : i \in DOMAIN c.sources} \ {Unknown}
    IN  IF known = {} THEN clock ELSE Min({m.epoch : m \in known})

Freeze(r) ==
    /\ req[r].pc = "freeze"
    /\ req' = [req EXCEPT ![r].pc = "families", ![r].as_of = AsOf(r)]
    /\ UNCHANGED <<env, permits, stuck, snaps>>

\* A fixed order of a set of names (a family is one name here).
Ordered(S) ==
    CHOOSE f \in [1..Cardinality(S) -> S] : \A i, j \in DOMAIN f : i # j => f[i] # f[j]

\* feature_families: the names the tenant has values of; a failed read is an
\* empty store.
Families(r) ==
    /\ req[r].pc = "families"
    /\ \/ /\ Served /\ UNCHANGED stuck
          /\ \E v \in Versions :
               req' = [req EXCEPT ![r].pc = "insert", ![r].families =
                         Ordered({f.feature_name : f \in {g \in Db(v).features :
                                                            g.tenant_id = Asked(r).tenant}})]
       \/ Abandon /\ req' = [req EXCEPT ![r].pc = "insert"]
    /\ UNCHANGED <<env, permits, snaps>>

\* Faulty variant: the pivots' parameters are pushed before the segment's.
wrap_params_PivotsFirst(r) ==
    LET k == req[r].families
        pivots == [i \in 1..(2 * Len(k)) |-> IF i % 2 = 1 THEN req[r].as_of ELSE Asked(r).tenant]
    IN  <<Asked(r).q[1].ops>> \o pivots \o Compiled(r).params

\* hit_reason, the segment's parameters, then cut-off and tenant per family:
\* the order of their placeholders in the text.
wrap_params(r) ==
    LET k == req[r].families
        pivots == [i \in 1..(2 * Len(k)) |-> IF i % 2 = 1 THEN req[r].as_of ELSE Asked(r).tenant]
    IN  <<Asked(r).q[1].ops>> \o Compiled(r).params \o pivots

\* The writer's INSERT ... SELECT: one row per key with the feature values of
\* the point-in-time pivots, Null where there is none.
SnapshotRows(c, ps, families, db, now) ==
    LET n == Len(c.params)
        At(i) == ps[1 + n + 2 * i - 1]
        Of(i) == ps[1 + n + 2 * i]
        Frozen(u, i) == LET S == {f \in db.features : /\ f.user_id = u /\ f.tenant_id = Of(i)
                                                      /\ f.feature_name = families[i]
                                                      /\ Compare(f.as_of_ts, "le", At(i))}
                        IN  IF S = {} THEN Null ELSE ArgMax(S)
    IN  {[user |-> u, features |-> [i \in DOMAIN families |-> Frozen(u, i)], hit_reason |-> ps[1]]
            : u \in Segments(c, SubSeq(ps, 2, n + 1), db, now)}

\* The writer commits the snapshot or fails; nothing bounds the wait for it.
Insert(r) ==
    /\ req[r].pc = "insert"
    /\ \/ /\ Bindable(Compiled(r), Latest)
          /\ snaps' = snaps \cup
               {[by |-> r, as_of |-> req[r].as_of, version |-> Len(log), at |-> clock,
                 rows |-> SnapshotRows(Compiled(r), wrap_params(r), req[r].families, Latest, clock)]}
          /\ End(r, "done")
       \/ End(r, "failed") /\ UNCHANGED snaps
    /\ UNCHANGED <<env, stuck>>

-----------------------------------------------------------------------------
\* The reads of r that wait for a worker of the pool.
Read(r) ==
    \/ Count(r) \/ Run(r) \/ Profile(r) \/ RunSql(r)
    \/ \E d \in req[r].tables : CheckTable(r, d)
    \/ \E n \in req[r].names : CheckName(r, n)

\* What r does without one, the timeout of a read included.
Advance(r) ==
    \/ Acquire(r) \/ Compile(r) \/ Explain(r) \/ Label(r) \/ GiveUp(r)
    \/ Freeze(r) \/ Families(r) \/ Insert(r)

Next ==
    \/ \E r \in Requests : \E a \in Menu[r] : Submit(r, a)
    \/ \E r \in Requests : Read(r) \/ Advance(r) \/ Cancel(r)
    \/ \E v \in DOMAIN Content : Commit(v)
    \/ \E d \in Datasets : \E type \in {"batch", "cdc"} : set(d, type)
    \/ Tick \/ OrphanEnds

Spec == Init /\ [][Next]_vars

\* A request that can go on does, timers fire and the writer replies.  The
\* workers need never answer; nothing is assumed of callers and commits.
FairSpec == Spec /\ \A r \in Requests : WF_vars(Advance(r))

-----------------------------------------------------------------------------
Answered(r) == req[r].pc \in {"label", "done"} /\ Asked(r).kind = "dsl"

\* The rows of an answered segment are what the segment means on the data the
\* caller's tenant owns in the version that was read: no other tenant's rows
\* matter, whatever placeholders and parameters the compiler produced.  The
\* frequency cap is that of specs/20-ingestion.md, section 5, over users
\* `targeted`; the comment of compile_exclude says more (CapCountsContacts).
AnswerIsDenotation ==
    \A r \in Requests :
        LET a == Asked(r)  x == req[r].reads["run"]
        IN  Answered(r) /\ ~has_derive(a.q) /\ ~has_characterize(a.q) =>
              req[r].answer.keys = Denotation(a.q, Db(x.version), a.tenant, x.at, Rules)

\* "a user with >= max_contacts targeted/delivered writebacks in the last
\* window_days days across campaigns is excluded" (compile_exclude): nobody in
\* the answer of a segment with an Exclude was contacted that often.
CapCountsContacts ==
    \A r \in Requests :
        LET a == Asked(r)  x == req[r].reads["run"]  own == Own(Db(x.version), a.tenant)
            Recent(u) == {s \in Contacts(own, u, {"targeted", "delivered"}) :
                            s.occurred_ts >= x.at - Rules.days}
        IN  /\ Answered(r) /\ ~has_derive(a.q) /\ ~has_characterize(a.q) /\ Len(a.q) = 1
            /\ Rules.max > 0 /\ \E i \in DOMAIN a.q[1].ops : a.q[1].ops[i].kind = "exclude"
            => \A u \in req[r].answer.keys : Cardinality(Recent(u)) < Rules.max

\* A Derive is computed over survivors only, never over more than the cap, also
\* when users join the segment between the count and the run; it is over all of
\* them if both reads saw one version at one time.
DeriveWithinSurvivors ==
    \A r \in Requests :
        LET a == Asked(r)  x == req[r].reads["run"]
            S == Denotation(strip_last_op(a.q), Db(x.version), a.tenant, x.at, Rules)
        IN  Answered(r) /\ has_derive(a.q) =>
              /\ req[r].answer.over \subseteq S
              /\ Cardinality(req[r].answer.over) <= SurvivorCap
              /\ req[r].reads["count"] = x => req[r].answer.over = S
              /\ req[r].answer.value =
                   MetricOver(a.q[1].ops[Len(a.q[1].ops)], Db(x.version), a.tenant, req[r].answer.over)

\* A profile is about the tenant's own orders, and if its reads saw one version
\* it is consistent: the counts of the categories shown are part of the totals,
\* all of them if no category was cut off, and none that was ranks higher.
ProfileConsistent ==
    \A r \in Requests :
        LET a == Asked(r)  x == req[r].reads["run"]  p == req[r].answer.parts
            last == a.q[1].ops[Len(a.q[1].ops)]
            own == Own(Db(x.version), a.tenant).raw[last.event]
            seg == {e \in own : e.user_id # Null /\ e.user_id \in
                      Denotation(strip_last_op(a.q), Db(x.version), a.tenant, x.at, Rules)}
            all == {e[last.category] : e \in own}
            Sum(side) == MapThenSumSet(LAMBDA k : p[3][k][side], DOMAIN p[3])
        IN  Answered(r) /\ has_characterize(a.q) =>
              /\ p[1].base.orders = Cardinality(own) /\ p[1].seg.orders = Cardinality(seg)
              /\ req[r].reads["categories"] = x =>
                   /\ \A side \in {"seg", "base"} :
                        /\ Sum(side) <= p[1][side].orders
                        /\ Cardinality(all) <= TopCategories => Sum(side) = p[1][side].orders
                   /\ \A k \in all \ DOMAIN p[3] : \A j \in DOMAIN p[3] :
                        Cardinality({e \in seg : e[last.category] = k}) <= p[3][j].seg
                   /\ req[r].pc = "done" =>
                        LET mix == req[r].answer.profile.mix
                        IN  \A k \in DOMAIN mix : \A i \in 1..2 : mix[k][i][1] <= mix[k][i][2]

\* With the guardrail on, a statement is run only if every raw column its text
\* names is catalogued, and every feature it names has values of the tenant.
CataloguedOnly ==
    \A r \in Requests :
        EnforceCatalogue /\ req[r].pc \in {"run", "metrics", "label", "done", "insert"}
            /\ Asked(r).kind # "sql" =>
          /\ \A x \in SqlColumns(Compiled(r)) : x[2] \in Catalogued(Latest, x[1])
          /\ \A n \in SqlFeatures(Compiled(r)) :
               \E f \in Latest.features : f.feature_name = n /\ f.tenant_id = Asked(r).tenant

\* Timeouts, failures and clients that go away neither leak nor mint permits.
PermitsConserved == permits + Cardinality({r \in Requests : Holds(r)}) = Permits

\* A label is no better than the oldest registration, when it is made, of the raw
\* tables that the statement names, those of nested segments and events too, and
\* the cut-off of a job is no later than any of them.
FreshnessHonest ==
    [][\A r \in Requests :
         /\ req[r].pc = "label" /\ req'[r].pc = "done" =>
              \A d \in SqlTables(Compiled(r)) \cap Registered :
                 req'[r].label.lag >= clock - registry[d].epoch
         /\ req[r].pc = "freeze" /\ req'[r].pc = "families" =>
              \A d \in SqlTables(Compiled(r)) \cap Registered :
                 req'[r].as_of <= registry[d].epoch]_vars

\* A snapshot holds the segment of the writer's version, with the values its
\* features had at the cut-off and none that is newer, all of the job's tenant.
SnapshotIsPointInTime ==
    \A s \in snaps :
        LET a == Asked(s.by)  own == Own(Db(s.version), a.tenant)
        IN  /\ {x.user : x \in s.rows} = Denotation(a.q, Db(s.version), a.tenant, s.at, Rules)
            /\ \A x \in s.rows : \A i \in DOMAIN x.features :
                 LET K == Known(own, x.user, req[s.by].families[i], s.as_of)
                 IN  IF K = {} THEN x.features[i] = Null
                     ELSE x.features[i] = ArgMax(K)

\* Every query and job that was submitted comes to an end, although workers may
\* hang for ever and permits are scarce.
QueriesEnd == \A r \in Requests : req[r].pc \in Busy ~> req[r].pc \in {"done", "failed"}
=============================================================================
