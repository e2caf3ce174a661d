------------------------- MODULE QueryEngineProofs ---------------------------
(***************************************************************************)
(* Safety of the query engine for any number of concurrent requests, for   *)
(* every query that can be written, every content of the catalog, and any  *)
(* order of commits, registrations, timeouts and cancellations.            *)
(***************************************************************************)
EXTENDS QueryEngine, SegmentProofs

Fields == {"pc", "ask", "tables", "names", "limit", "reads", "answer", "as_of", "families", "label"}

\* A request that was compiled, and one whose survivors are counted.
Counted == {"explain", "run", "metrics", "recency", "categories", "label", "freeze", "families", "insert"}
Past    == Counted \cup {"count"}

\* The request x is a record, and its numbers are in range.
Ranges(x) ==
    /\ DOMAIN x = Fields /\ DOMAIN x.reads = Reads
    /\ x.pc \in Busy \cup {"new", "done", "failed"}
    /\ x.limit \in {Null} \cup 0..SurvivorCap
    /\ x.as_of \in 0..MaxClock /\ x.label.lag \in 0..MaxClock
    /\ List(x.families)

\* What a request must have asked to be where it is.
Flow(r, x) ==
    /\ x.pc # "new" => x.ask \in Menu[r]
    /\ x.pc = "sql" => x.ask.kind = "sql"
    /\ x.pc = "waiting" => x.ask.kind # "job"
    /\ x.pc \in Past \cup {"catalogue"} => x.ask.kind # "sql"
    /\ x.pc \in Past \cup {"catalogue", "waiting", "done"} /\ x.ask.kind # "sql" => validate(x.ask.q)
    /\ x.pc \in {"freeze", "families", "insert"} => x.ask.kind = "job"
    /\ x.pc \in Busy \cup {"done"} /\ x.ask.kind = "job" =>
         ~has_derive(x.ask.q) /\ ~has_characterize(x.ask.q)
    /\ x.pc = "count" => has_derive(x.ask.q)
    /\ x.pc \in {"metrics", "recency", "categories"} => has_characterize(x.ask.q)

Survived(a, db, at) == Denotation(strip_last_op(a.q), db, a.tenant, at, Rules)

\* What is compiled can be run: with the number of the survivors that were
\* counted, if they have to be.
Compiles(x) ==
    /\ x.pc \in {"catalogue", "waiting", "count"} => x.limit = Null
    /\ x.pc = "count" => Survivors[x.ask].ok
    /\ x.pc \in Counted \cup {"done"} /\ x.ask.kind # "sql" => Statement[x.ask][x.limit].ok
    /\ x.pc \in Counted \cup {"done"} /\ x.ask.kind # "sql" /\ has_derive(x.ask.q) =>
         /\ x.limit # Null /\ x.reads["count"].version \in Versions
         /\ x.limit = Cardinality(Survived(x.ask, Db(x.reads["count"].version), x.reads["count"].at))

HasValues(a, n) == \E f \in Latest.features : f.feature_name = n /\ f.tenant_id = a.tenant

\* Whatever the guardrail has not still to look up was found, and still is.
Checked(x) ==
    EnforceCatalogue /\ x.pc \in Busy \cup {"done"} /\ x.ask.kind # "sql" =>
        /\ \A y \in referenced_columns(x.ask.q) : y[1] \in x.tables \/ y[2] \in Catalogued(Latest, y[1])
        /\ \A n \in referenced_features(x.ask.q) : n \in x.names \/ HasValues(x.ask, n)
        /\ x.pc \in Past \cup {"done"} => x.tables = {} /\ x.names = {}

\* The answers are right.
Answers(x) ==
    LET y == x.reads["run"]
    IN  x.pc \in {"label", "done"} /\ x.ask.kind = "dsl" =>
          /\ ~has_derive(x.ask.q) /\ ~has_characterize(x.ask.q) =>
               /\ y.version \in Versions
               /\ x.answer.keys = Denotation(x.ask.q, Db(y.version), x.ask.tenant, y.at, Rules)
          /\ has_derive(x.ask.q) =>
               /\ y.version \in Versions
               /\ x.answer.over \in Limited(Survived(x.ask, Db(y.version), y.at), x.limit)
               /\ IsFiniteSet(Survived(x.ask, Db(y.version), y.at))
               /\ x.answer.value = MetricOver(LastOp(x.ask.q), Db(y.version), x.ask.tenant, x.answer.over)

RequestOK(r, x) == Ranges(x) /\ Flow(r, x) /\ Compiles(x) /\ Checked(x) /\ Answers(x)

\* The rest of the engine.
EngineOK ==
    /\ log \in Seq(DOMAIN Content) /\ Len(log) \in 1..MaxVersions
    /\ \A v \in Versions : Db(v).features \subseteq Latest.features /\ Db(v).catalogue \subseteq Latest.catalogue
    /\ registry \in [Datasets -> Meta] /\ \A d \in Datasets : registry[d].epoch <= clock
    /\ clock \in 0..MaxClock
    /\ stuck \in 0..Workers

\* A snapshot belongs to a job that is over.
Recorded(s) ==
    /\ s.by \in Requests /\ req[s.by].pc = "done" /\ Asked(s.by).kind = "job"
    /\ s.as_of \in 0..MaxClock /\ s.version \in Versions

\* What SnapshotIsPointInTime says of one snapshot.
PointInTime(s) ==
    LET a == Asked(s.by)  own == Own(Db(s.version), a.tenant)
    IN  /\ {x.user : x \in s.rows} = Denotation(a.q, Db(s.version), a.tenant, s.at, Rules)
        /\ \A x \in s.rows : \A i \in DOMAIN x.features :
             LET K == Known(own, x.user, req[s.by].families[i], s.as_of)
             IN  IF K = {} THEN x.features[i] = Null
                 ELSE x.features[i] = ArgMax(K)

IInv ==
    /\ EngineOK
    /\ req = [r \in Requests |-> req[r]]
    /\ \A r \in Requests : RequestOK(r, req[r])
    /\ permits \in Nat /\ PermitsConserved
    /\ \A s \in snaps : Recorded(s) /\ PointInTime(s)

-----------------------------------------------------------------------------
(***************************************************************************)
(* The freshness label and the cut-off of a job.                           *)
(***************************************************************************)
LagOf(m, now) == IF m = Unknown THEN 0 ELSE now - m.epoch

\* FreshnessRegistry::worst is at least as old as each of its sources, and no
\* older than the clock.
LEMMA WorstFacts ==
    ASSUME NEW sources, List(sources), NEW now \in Nat, NEW reg,
           \A d : get(reg, d) \in Meta /\ get(reg, d).epoch <= now
    PROVE  /\ worst(sources, reg, now).lag \in 0..now
           /\ \A i \in DOMAIN sources : LagOf(get(reg, sources[i]), now) <= worst(sources, reg, now).lag
  <1> DEFINE n == Len(sources)
             V == [worst : {"batch", "cdc"}, lag : 0..now]
             Lag(m)  == IF m = Unknown THEN 0 ELSE now - m.epoch
             Type(m) == IF m = Unknown THEN "batch" ELSE m.type
             m(i) == get(reg, sources[i])
             Next1(i, y) == IF \/ Lag(m(i)) > y.lag
                               \/ Lag(m(i)) = y.lag /\ Type(m(i)) = "batch"
                            THEN [worst |-> Type(m(i)), lag |-> Lag(m(i))] ELSE y
             v == [worst |-> "batch", lag |-> 0]
             G == [i \in 1..n |-> [y \in V |-> Next1(i, y)]]
             Step(h, i) == IF i = 0 THEN v ELSE Next1(i, h[i - 1])
             w[i \in 0..n] ==
               IF i = 0 THEN [worst |-> "batch", lag |-> 0]
               ELSE LET k == get(reg, sources[i])
                    IN  IF \/ Lag(k) > w[i - 1].lag
                           \/ Lag(k) = w[i - 1].lag /\ Type(k) = "batch"
                        THEN [worst |-> Type(k), lag |-> Lag(k)] ELSE w[i - 1]
  <1>1. n \in Nat /\ DOMAIN sources = 1..n
    BY ListFacts
  <1>2. \A i \in 1..n : Lag(m(i)) \in 0..now /\ Type(m(i)) \in {"batch", "cdc"}
    BY DEF Meta, Unknown
  <1>3. v \in V
    OBVIOUS
  <1>4. \A i \in 1..n : \A y \in V : Next1(i, y) \in V /\ Lag(m(i)) <= Next1(i, y).lag /\ y.lag <= Next1(i, y).lag
    <2> SUFFICES ASSUME NEW i \in 1..n, NEW y \in V
                 PROVE  Next1(i, y) \in V /\ Lag(m(i)) <= Next1(i, y).lag /\ y.lag <= Next1(i, y).lag
      OBVIOUS
    <2> DEFINE l == Lag(m(i))
               ty == Type(m(i))
               z == [worst |-> ty, lag |-> l]
    <2>1. l \in 0..now /\ ty \in {"batch", "cdc"}
      BY <1>2
    <2>2. Next1(i, y) = IF l > y.lag \/ (l = y.lag /\ ty = "batch") THEN z ELSE y
      OBVIOUS
    <2> HIDE DEF l, ty, Next1
    <2>3. z \in V /\ z.lag = l
      BY <2>1
    <2> HIDE DEF z
    <2>4. CASE l > y.lag \/ (l = y.lag /\ ty = "batch")
      BY <2>1, <2>2, <2>3, <2>4 DEF l
    <2>5. CASE ~(l > y.lag \/ (l = y.lag /\ ty = "batch"))
      BY <2>1, <2>2, <2>5 DEF l
    <2> QED
      BY <2>4, <2>5
  <1>5. G \in [1..n -> [V -> V]]
    BY <1>4
  <1> HIDE DEF V, v, Next1
  <1>6. PICK f \in [0..n -> V] : f[0] = v /\ \A i \in 1..n : f[i] = G[i][f[i - 1]]
    <2> HIDE DEF G
    <2> QED
      BY <1>1, <1>3, <1>5, Recursion
  <1>7. f = [i \in 0..n |-> Step(f, i)]
    <2>1. ASSUME NEW i \in 0..n PROVE f[i] = Step(f, i)
      <3>1. CASE i = 0
        BY <1>6, <3>1
      <3>2. CASE i # 0
        <4>1. i \in 1..n /\ i - 1 \in 0..n
          BY <1>1, <3>2
        <4>2. f[i - 1] \in V
          BY <4>1
        <4> QED
          BY <1>6, <3>2, <4>1, <4>2
      <3> QED
        BY <3>1, <3>2
    <2> HIDE DEF Step
    <2> QED
      BY <1>6, <2>1
  <1>8. w = [i \in 0..n |-> Step(w, i)]
    BY <1>7, Zenon DEF Next1, v
  <1>9. worst(sources, reg, now) = w[n]
    BY Zenon DEF worst
  <1> HIDE DEF w
  <1>10. w[0] = v /\ \A i \in 1..n : w[i] = Next1(i, w[i - 1])
    BY <1>1, <1>8
  <1> DEFINE S == {i \in 0..n : w[i] \in V /\ \A j \in 1..i : Lag(m(j)) <= w[i].lag}
  <1>11. 0 \in S
    BY <1>1, <1>3, <1>10
  <1>12. ASSUME NEW i \in 1..n, i - 1 \in S PROVE i \in S
    <2>1. w[i] = Next1(i, w[i - 1]) /\ w[i - 1] \in V
      BY <1>10, <1>12
    <2>2. w[i] \in V /\ Lag(m(i)) <= w[i].lag /\ w[i - 1].lag <= w[i].lag
      BY <1>4, <2>1
    <2>3. \A j \in 1..(i - 1) : Lag(m(j)) <= w[i - 1].lag
      BY <1>12
    <2>4. w[i].lag \in Int /\ w[i - 1].lag \in Int
      BY <2>1, <2>2 DEF V
    <2>5. ASSUME NEW j \in 1..i PROVE Lag(m(j)) <= w[i].lag
      <3>1. Lag(m(j)) \in Int
        BY <1>2
      <3> HIDE DEF Lag, m
      <3>2. CASE j = i
        BY <2>2, <3>2
      <3>3. CASE j # i
        <4>1. j \in 1..(i - 1)
          BY <3>3
        <4> QED
          BY <2>2, <2>3, <2>4, <3>1, <4>1
      <3> QED
        BY <3>2, <3>3
    <2> QED
      BY <2>2, <2>5
  <1> HIDE DEF S
  <1>13. n \in S
    <2>1. 0..n \subseteq S
      BY <1>1, <1>11, <1>12, UpTo
    <2> QED
      BY <1>1, <2>1
  <1> QED
    BY <1>1, <1>9, <1>13 DEF S, V, LagOf

-----------------------------------------------------------------------------
(***************************************************************************)
(* Steps.  A step of the engine around the requests keeps what was found   *)
(* out in the versions so far; a step of a request changes its own record. *)
(***************************************************************************)
\* The permits that the request x holds.
Held(x) == IF x.pc \in Inside /\ x.ask.kind # "job" THEN 1 ELSE 0

\* r goes on as x, and its permits are accounted for.
Moves(r, x) ==
    /\ req' = [req EXCEPT ![r] = x] /\ req[r].pc # "done"
    /\ RequestOK(r, x)
    /\ permits' = permits + Held(req[r]) - Held(x)
    /\ Held(req[r]) = 1 \/ Held(x) = 0 \/ permits > 0

\* One holder more or less is one permit less or more.
LEMMA HoldersMove ==
    ASSUME IInv, NEW r \in Requests, NEW x, Moves(r, x)
    PROVE  permits' \in Nat /\ PermitsConserved'
  <1> DEFINE H == {i \in Requests : Holds(i)}
             K == {i \in Requests : i # r /\ Holds(i)}
             B(y) == IF y.pc \in Inside /\ y.ask.kind # "job" THEN {r} ELSE {}
             H1 == {i \in Requests : Holds(i)'}
  <1>1. req = [i \in Requests |-> req[i]] /\ permits \in Nat /\ permits + Cardinality(H) = Permits
    BY DEF IInv, PermitsConserved
  <1>2. DOMAIN req = Requests
    BY <1>1
  <1>3. req'[r] = x /\ \A i \in Requests \ {r} : req'[i] = req[i]
    BY <1>2 DEF Moves
  <1>4. H = K \cup B(req[r]) /\ H1 = K \cup B(x)
    BY <1>3 DEF Holds, Asked
  <1>5. IsFiniteSet(K)
    <2>1. K \subseteq Requests
      OBVIOUS
    <2> HIDE DEF K
    <2> QED
      BY <2>1, QueryEngineAssumption, FS_Subset
  <1>6. \A y : Cardinality(K \cup B(y)) = Cardinality(K) + Held(y)
    <2> SUFFICES ASSUME NEW y PROVE Cardinality(K \cup B(y)) = Cardinality(K) + Held(y)
      OBVIOUS
    <2>1. r \notin K /\ Cardinality(K) \in Nat
      BY <1>5, FS_CardinalityType
    <2> HIDE DEF K
    <2>2. Cardinality(K \cup {r}) = Cardinality(K) + 1
      BY <1>5, <2>1, FS_AddElement
    <2>3. CASE y.pc \in Inside /\ y.ask.kind # "job"
      BY <2>2, <2>3 DEF Held
    <2>4. CASE ~(y.pc \in Inside /\ y.ask.kind # "job")
      <3> DEFINE U == K \cup B(y)
      <3>1. U = K /\ Held(y) = 0
        BY <2>4 DEF Held
      <3> HIDE DEF U
      <3>2. Cardinality(U) = Cardinality(K) + Held(y)
        BY <2>1, <3>1
      <3> QED
        BY <3>2 DEF U
    <2> QED
      BY <2>3, <2>4
  <1>7. Cardinality(K) \in Nat
    BY <1>5, FS_CardinalityType
  <1>8. Held(x) \in {0, 1} /\ Held(req[r]) \in {0, 1}
    BY DEF Held
  <1>9. permits' = permits + Held(req[r]) - Held(x) /\ (Held(req[r]) = 1 \/ Held(x) = 0 \/ permits > 0)
    BY DEF Moves
  <1>10. Cardinality(H) = Cardinality(K) + Held(req[r]) /\ Cardinality(H1) = Cardinality(K) + Held(x)
    BY <1>4, <1>6
  <1>11. PermitsConserved' <=> permits' + Cardinality(H1) = Permits
    BY DEF PermitsConserved
  <1> HIDE DEF H, K, H1
  <1>12. permits' \in Nat
    BY <1>1, <1>8, <1>9
  <1>13. permits' + Cardinality(H1) = permits + Cardinality(H)
    BY <1>1, <1>7, <1>8, <1>9, <1>10
  <1> QED
    BY <1>1, <1>11, <1>12, <1>13

\* A step of a request keeps the invariant if what it adds to the snapshots is
\* right.
LEMMA MoveIInv ==
    ASSUME IInv, NEW r \in Requests, NEW x, Moves(r, x),
           UNCHANGED env, stuck' \in 0..Workers,
           \A s \in snaps' : s \in snaps \/ (Recorded(s)' /\ PointInTime(s)')
    PROVE  IInv'
  <1>1. req = [i \in Requests |-> req[i]]
    BY DEF IInv
  <1>2. DOMAIN req = Requests
    BY <1>1
  <1>3. req'[r] = x /\ (\A i \in Requests \ {r} : req'[i] = req[i]) /\ req[r].pc # "done" /\ RequestOK(r, x)
    BY <1>2 DEF Moves
  <1>4. req' = [i \in Requests |-> req'[i]]
    BY <1>2 DEF Moves
  <1>5. log' = log /\ registry' = registry /\ clock' = clock
    BY DEF env
  <1>6. EngineOK'
    BY <1>5 DEF IInv, EngineOK, Versions, Db, Latest
  <1>8. ASSUME NEW i \in Requests PROVE RequestOK(i, req[i])'
    <2>1. RequestOK(i, req[i])' <=> RequestOK(i, req'[i])
      BY <1>5 DEF RequestOK, Ranges, Flow, Compiles, Checked, Answers, Survived, HasValues, Versions, Db, Latest
    <2> QED
      BY <1>3, <2>1 DEF IInv
  <1>9. ASSUME NEW s \in snaps' PROVE Recorded(s)' /\ PointInTime(s)'
    <2>1. CASE s \in snaps
      <3>1. Recorded(s) /\ PointInTime(s)
        BY <2>1 DEF IInv
      <3>2. s.by \in Requests /\ s.by # r
        BY <1>3, <3>1 DEF Recorded
      <3>3. req'[s.by] = req[s.by]
        BY <1>3, <3>2
      <3> QED
        BY <1>5, <3>1, <3>3 DEF Recorded, PointInTime, Asked, Versions, Db
    <2> QED
      BY <2>1, <1>9
  <1>10. permits' \in Nat /\ PermitsConserved'
    BY HoldersMove
  <1> QED
    BY <1>4, <1>6, <1>8, <1>9, <1>10 DEF IInv

\* The statements of a request that was accepted.
LEMMA AskFacts ==
    ASSUME NEW r \in Requests, NEW a \in Menu[r], a.kind # "sql", validate(a.q)
    PROVE  /\ a.kind \in {"dsl", "job"} /\ Valid(a.q) /\ RulesOK(Rules)
           /\ \A n \in {Null} \cup 0..SurvivorCap :
                Statement[a][n] = compile_with_opts(a.q, a.tenant, Rules, n)
           /\ has_derive(a.q) =>
                Survivors[a] = compile_with_opts(strip_last_op(a.q), a.tenant, Rules, Null)
  <1>1. a \in Asks
    BY DEF Asks
  <1>2. a.kind \in {"dsl", "job"} /\ Query(a.q)
    BY QueryEngineAssumption
  <1>3. RulesOK(Rules)
    BY QueryEngineAssumption DEF RulesOK
  <1>4. Statement[a] = [n \in {Null} \cup 0..SurvivorCap |->
          IF a.kind = "sql" \/ ~validate(a.q) THEN [ok |-> FALSE]
          ELSE compile_with_opts(a.q, a.tenant, Rules, n)]
    BY <1>1, Zenon DEF Statement
  <1>5. ASSUME NEW n \in {Null} \cup 0..SurvivorCap
        PROVE  Statement[a][n] = compile_with_opts(a.q, a.tenant, Rules, n)
    <2>1. Statement[a][n] = IF a.kind = "sql" \/ ~validate(a.q) THEN [ok |-> FALSE]
                            ELSE compile_with_opts(a.q, a.tenant, Rules, n)
      BY <1>4
    <2> QED
      BY <2>1
  <1>6. has_derive(a.q) => Survivors[a] = compile_with_opts(strip_last_op(a.q), a.tenant, Rules, Null)
    BY <1>1 DEF Survivors
  <1> QED
    BY <1>2, <1>3, <1>5, <1>6 DEF Valid

\* The versions that were committed.
LEMMA VersionFacts ==
    ASSUME IInv
    PROVE  /\ Len(log) \in Versions /\ Latest = Db(Len(log)) /\ clock \in Int
           /\ \A v \in Versions : Database(Db(v)) /\ v \in Nat
  <1>1. log \in Seq(DOMAIN Content) /\ Len(log) \in Nat \ {0} /\ clock \in Int
    BY QueryEngineAssumption DEF IInv, EngineOK
  <1>2. \A v \in Versions : log[v] \in DOMAIN Content
    BY <1>1 DEF Versions
  <1> QED
    BY <1>1, <1>2, QueryEngineAssumption DEF Versions, Latest, Db

\* A request that has been accepted, and its statement.
LEMMA RequestFacts ==
    ASSUME NEW r \in Requests, NEW x, RequestOK(r, x), x.ask.kind # "sql",
           x.pc \in Past \cup {"catalogue", "waiting", "done"}
    PROVE  /\ x.ask \in Menu[r] /\ validate(x.ask.q) /\ Valid(x.ask.q) /\ x.ask.kind \in {"dsl", "job"}
           /\ Statement[x.ask][x.limit] = compile_with_opts(x.ask.q, x.ask.tenant, Rules, x.limit)
           /\ has_derive(x.ask.q) =>
                Survivors[x.ask] = compile_with_opts(strip_last_op(x.ask.q), x.ask.tenant, Rules, Null)
  <1>1. x.ask \in Menu[r] /\ validate(x.ask.q)
    BY DEF RequestOK, Flow, Past, Counted
  <1>2. x.limit \in {Null} \cup 0..SurvivorCap
    BY DEF RequestOK, Ranges
  <1> QED
    BY <1>1, <1>2, AskFacts

-----------------------------------------------------------------------------
(***************************************************************************)
(* The steps of a request, one by one.                                     *)
(***************************************************************************)
\* A request that fails keeps nothing but its ask.
LEMMA FailMoves ==
    ASSUME IInv, NEW r \in Requests, req[r].pc \in Busy, End(r, "failed")
    PROVE  \E x : Moves(r, x)
  <1> DEFINE x == [req[r] EXCEPT !.pc = "failed"]
  <1>1. RequestOK(r, req[r])
    BY DEF IInv
  <1>2. DOMAIN req[r] = Fields
    BY <1>1 DEF RequestOK, Ranges
  <1>3. /\ DOMAIN x = Fields /\ x.pc = "failed" /\ x.ask = req[r].ask /\ x.limit = req[r].limit
        /\ x.reads = req[r].reads /\ x.as_of = req[r].as_of /\ x.label = req[r].label /\ x.families = req[r].families
    BY <1>2 DEF Fields
  <1>4. req' = [req EXCEPT ![r] = x] /\ permits' = IF Holds(r) THEN permits + 1 ELSE permits
    BY DEF End, Release
  <1> HIDE DEF x
  <1>5. RequestOK(r, x)
    <2>1. Ranges(x)
      BY <1>1, <1>3 DEF RequestOK, Ranges
    <2>2. Flow(r, x)
      BY <1>1, <1>3 DEF RequestOK, Flow, Busy, Inside, Past, Counted
    <2>3. Compiles(x) /\ Checked(x) /\ Answers(x)
      BY <1>3 DEF Compiles, Checked, Answers, Busy, Inside, Past, Counted
    <2> QED
      BY <2>1, <2>2, <2>3 DEF RequestOK
  <1>6. req[r].pc # "done"
    BY DEF Busy, Inside
  <1>7. permits' = permits + Held(req[r]) - Held(x) /\ Held(x) = 0
    <2>1. permits \in Nat
      BY DEF IInv
    <2>2. Held(x) = 0
      BY <1>3 DEF Held, Inside
    <2>3. Held(req[r]) = IF Holds(r) THEN 1 ELSE 0
      BY DEF Held, Holds, Asked
    <2> QED
      BY <1>4, <2>1, <2>2, <2>3
  <1> QED
    BY <1>4, <1>5, <1>6, <1>7, Zenon DEF Moves

\* A request is submitted.
LEMMA SubmitMoves ==
    ASSUME IInv, NEW r \in Requests, NEW a \in Menu[r], Submit(r, a)
    PROVE  \E x : Moves(r, x)
  <1> DEFINE pc == CASE a.kind = "sql" -> IF a.approved THEN "waiting" ELSE "failed"
                     [] a.kind # "sql" /\ ~validate(a.q) -> "failed"
                     [] a.kind = "dsl" /\ validate(a.q) -> "waiting"
                     [] OTHER -> IF has_derive(a.q) \/ has_characterize(a.q) THEN "failed" ELSE "catalogue"
             checked == EnforceCatalogue /\ a.kind # "sql" /\ pc # "failed"
             tables == IF checked THEN {x[1] : x \in referenced_columns(a.q)} ELSE {}
             names == IF checked THEN referenced_features(a.q) ELSE {}
             x == [Fresh EXCEPT !.pc = pc, !.ask = a, !.tables = tables, !.names = names]
  <1>1. /\ req[r].pc = "new" /\ req' = [req EXCEPT ![r] = x]
        /\ UNCHANGED <<env, permits, stuck, snaps>>
    BY DEF Submit
  <1>2. a.kind \in {"sql", "dsl", "job"}
    BY QueryEngineAssumption
  <1>3. /\ pc \in {"waiting", "failed", "catalogue"}
        /\ pc = "waiting" => a.kind # "job" /\ (a.kind # "sql" => validate(a.q))
        /\ pc = "catalogue" => /\ a.kind = "job" /\ validate(a.q)
                               /\ ~has_derive(a.q) /\ ~has_characterize(a.q)
    <2>1. CASE a.kind = "sql"
      BY <2>1
    <2>2. CASE a.kind # "sql" /\ ~validate(a.q)
      BY <2>2
    <2>3. CASE a.kind = "dsl" /\ validate(a.q)
      BY <2>3
    <2>4. CASE a.kind = "job" /\ validate(a.q)
      BY <2>4
    <2> QED
      BY <1>2, <2>1, <2>2, <2>3, <2>4
  <1>4. checked => /\ \A y \in referenced_columns(a.q) : y[1] \in tables
                   /\ \A n \in referenced_features(a.q) : n \in names
    OBVIOUS
  <1>5. checked <=> EnforceCatalogue /\ a.kind # "sql" /\ pc # "failed"
    OBVIOUS
  <1> HIDE DEF tables, names, checked, pc
  <1>6. /\ DOMAIN x = Fields /\ x.pc = pc /\ x.ask = a /\ x.limit = Null /\ x.tables = tables /\ x.names = names
        /\ x.reads = [y \in Reads |-> NoRead] /\ x.as_of = 0 /\ x.label.lag = 0 /\ x.families = <<>>
    BY DEF Fresh, Fields
  <1> HIDE DEF x
  <1>7. RequestOK(r, x)
    <2>1. Ranges(x)
      BY <1>3, <1>6, ElementsShort, QueryEngineAssumption DEF Ranges, Busy, Inside
    <2>2. Flow(r, x)
      BY <1>3, <1>6 DEF Flow, Past, Counted, Busy, Inside
    <2>3. Compiles(x) /\ Answers(x)
      BY <1>3, <1>6 DEF Compiles, Answers, Counted
    <2>4. Checked(x)
      BY <1>3, <1>4, <1>5, <1>6 DEF Checked, Past, Counted, Busy, Inside
    <2> QED
      BY <2>1, <2>2, <2>3, <2>4 DEF RequestOK
  <1>8. permits' = permits + Held(req[r]) - Held(x) /\ Held(x) = 0
    <2>1. permits \in Nat
      BY DEF IInv
    <2>2. Held(x) = 0 /\ Held(req[r]) = 0
      BY <1>1, <1>3, <1>6 DEF Held, Inside
    <2> QED
      BY <1>1, <2>1, <2>2
  <1> QED
    BY <1>1, <1>7, <1>8, Zenon DEF Moves

\* A request that only goes on to another point.
LEMMA PcFacts ==
    ASSUME NEW y, Ranges(y), NEW pc \in Busy \cup {"done"}, NEW x, x = [y EXCEPT !.pc = pc]
    PROVE  /\ Ranges(x) /\ x.pc = pc /\ x.ask = y.ask /\ x.tables = y.tables /\ x.names = y.names
           /\ x.limit = y.limit /\ x.reads = y.reads /\ x.answer = y.answer
  <1>1. DOMAIN y = Fields
    BY DEF Ranges
  <1>2. /\ DOMAIN x = Fields /\ x.pc = pc /\ x.ask = y.ask /\ x.tables = y.tables /\ x.names = y.names
        /\ x.limit = y.limit /\ x.reads = y.reads /\ x.answer = y.answer
        /\ x.as_of = y.as_of /\ x.label = y.label /\ x.families = y.families
    BY <1>1 DEF Fields
  <1> QED
    BY <1>2 DEF Ranges

\* A permit is acquired.
LEMMA AcquireMoves ==
    ASSUME IInv, NEW r \in Requests, Acquire(r)
    PROVE  \E x : Moves(r, x)
  <1> DEFINE y == req[r]
             pc == IF y.ask.kind = "sql" THEN "sql" ELSE "catalogue"
             x == [y EXCEPT !.pc = pc]
  <1>1. /\ y.pc = "waiting" /\ permits > 0 /\ permits' = permits - 1
        /\ req' = [req EXCEPT ![r] = x]
    BY DEF Acquire, Asked
  <1>2. RequestOK(r, y)
    BY DEF IInv
  <1>3. pc \in Busy \cup {"done"} /\ (pc = "sql" <=> y.ask.kind = "sql") /\ pc \in {"sql", "catalogue"}
    BY DEF Busy, Inside
  <1> HIDE DEF x, y, pc
  <1>4. /\ Ranges(x) /\ x.pc = pc /\ x.ask = y.ask /\ x.tables = y.tables /\ x.names = y.names
        /\ x.limit = y.limit /\ x.reads = y.reads /\ x.answer = y.answer
    BY <1>2, <1>3, PcFacts DEF RequestOK, x
  <1>5. Flow(r, x)
    BY <1>1, <1>2, <1>3, <1>4 DEF RequestOK, Flow, Past, Counted, Busy, Inside
  <1>6. Compiles(x) /\ Answers(x)
    BY <1>1, <1>2, <1>3, <1>4 DEF RequestOK, Compiles, Answers, Counted
  <1>7. Checked(x)
    BY <1>1, <1>2, <1>3, <1>4 DEF RequestOK, Checked, Past, Counted, Busy, Inside
  <1>8. y.ask.kind # "job"
    BY <1>1, <1>2 DEF RequestOK, Flow
  <1>9. permits' = permits + Held(y) - Held(x)
    <2>1. permits \in Nat
      BY DEF IInv
    <2>2. Held(y) = 0 /\ Held(x) = 1
      BY <1>1, <1>3, <1>4, <1>8 DEF Held, Inside
    <2> QED
      BY <1>1, <2>1, <2>2
  <1>10. RequestOK(r, x)
    BY <1>4, <1>5, <1>6, <1>7 DEF RequestOK
  <1>11. req[r].pc # "done"
    BY <1>1 DEF y
  <1> QED
    BY <1>1, <1>9, <1>10, <1>11, Zenon DEF Moves, y

\* What a read of the guardrail finds in some version is still there.
LEMMA Grown ==
    ASSUME IInv, NEW v \in Versions
    PROVE  /\ \A d : Catalogued(Db(v), d) \subseteq Catalogued(Latest, d)
           /\ Db(v).features \subseteq Latest.features
  BY DEF IInv, EngineOK, Catalogued

\* One thing less to look up.
LEMMA LookedUpMoves ==
    ASSUME IInv, NEW r \in Requests, req[r].pc = "catalogue", UNCHANGED permits,
           NEW x, req' = [req EXCEPT ![r] = x],
           x.pc = "catalogue", Ranges(x), x.ask = req[r].ask, x.limit = req[r].limit,
           \A y \in referenced_columns(x.ask.q) : y[1] \in req[r].tables =>
              y[1] \in x.tables \/ y[2] \in Catalogued(Latest, y[1]),
           \A n \in referenced_features(x.ask.q) : n \in req[r].names => n \in x.names \/ HasValues(x.ask, n)
    PROVE  Moves(r, x)
  <1>1. RequestOK(r, req[r])
    BY DEF IInv
  <1>2. Flow(r, x)
    BY <1>1 DEF RequestOK, Flow
  <1>3. Compiles(x) /\ Answers(x)
    BY <1>1 DEF RequestOK, Compiles, Answers, Counted
  <1>4. Checked(x)
    BY <1>1 DEF RequestOK, Checked, Past, Counted, Busy, Inside
  <1>5. permits' = permits + Held(req[r]) - Held(x) /\ (Held(req[r]) = 1 \/ Held(x) = 0)
    <2>1. permits \in Nat
      BY DEF IInv
    <2>2. Held(req[r]) = Held(x) /\ Held(x) \in {0, 1}
      BY DEF Held
    <2> QED
      BY <2>1, <2>2
  <1>6. RequestOK(r, x)
    BY <1>2, <1>3, <1>4 DEF RequestOK
  <1> QED
    BY <1>5, <1>6, Zenon DEF Moves

\* The columns of a table are looked up.
LEMMA CheckTableMoves ==
    ASSUME IInv, NEW r \in Requests, NEW d \in req[r].tables, CheckTable(r, d)
    PROVE  \E x : Moves(r, x)
  <1> DEFINE y == req[r]
             cols == {x[2] : x \in {z \in referenced_columns(y.ask.q) : z[1] = d}}
  <1>1. PICK v \in Versions :
          IF cols \subseteq Catalogued(Db(v), d)
          THEN req' = [req EXCEPT ![r].tables = @ \ {d}] /\ UNCHANGED permits
          ELSE End(r, "failed")
    BY Zenon DEF CheckTable, Asked
  <1>2. y.pc = "catalogue"
    BY DEF CheckTable
  <1>3. RequestOK(r, y)
    BY DEF IInv
  <1>4. CASE ~(cols \subseteq Catalogued(Db(v), d))
    <2>1. End(r, "failed")
      BY <1>1, <1>4
    <2>2. req[r].pc \in Busy
      BY <1>2 DEF Busy, Inside
    <2> QED
      BY <2>1, <2>2, FailMoves
  <1>5. CASE cols \subseteq Catalogued(Db(v), d)
    <2> DEFINE x == [y EXCEPT !.tables = @ \ {d}]
    <2>1. req' = [req EXCEPT ![r] = x] /\ UNCHANGED permits
      BY <1>1, <1>5
    <2>2. DOMAIN y = Fields
      BY <1>3 DEF RequestOK, Ranges
    <2>3. /\ DOMAIN x = Fields /\ x.pc = y.pc /\ x.ask = y.ask /\ x.names = y.names /\ x.limit = y.limit
          /\ x.tables = y.tables \ {d} /\ x.reads = y.reads
          /\ x.as_of = y.as_of /\ x.label = y.label /\ x.families = y.families
      BY <2>2 DEF Fields
    <2> HIDE DEF x
    <2>4. Ranges(x)
      BY <1>3, <2>3 DEF RequestOK, Ranges
    <2>5. \A z \in referenced_columns(x.ask.q) : z[1] \in y.tables =>
             z[1] \in x.tables \/ z[2] \in Catalogued(Latest, z[1])
      <3> SUFFICES ASSUME NEW z \in referenced_columns(y.ask.q), z[1] = d PROVE z[2] \in Catalogued(Latest, d)
        BY <2>3
      <3>1. z[2] \in cols
        OBVIOUS
      <3> QED
        BY <1>5, <3>1, Grown
    <2>6. \A n \in referenced_features(x.ask.q) : n \in y.names => n \in x.names \/ HasValues(x.ask, n)
      BY <2>3
    <2> HIDE DEF cols
    <2>7. Moves(r, x)
      BY <1>2, <2>1, <2>3, <2>4, <2>5, <2>6, LookedUpMoves
    <2> QED
      BY <2>7
  <1> QED
    BY <1>4, <1>5

\* A feature name is looked up.
LEMMA CheckNameMoves ==
    ASSUME IInv, NEW r \in Requests, NEW n \in req[r].names, CheckName(r, n)
    PROVE  \E x : Moves(r, x)
  <1> DEFINE y == req[r]
             found(db) == \E f \in db.features : f.feature_name = n /\ f.tenant_id = y.ask.tenant
  <1>1. PICK v \in Versions :
          IF found(Db(v))
          THEN req' = [req EXCEPT ![r].names = @ \ {n}] /\ UNCHANGED permits
          ELSE End(r, "failed")
    BY Zenon DEF CheckName, Asked
  <1>2. y.pc = "catalogue"
    BY DEF CheckName
  <1>3. RequestOK(r, y)
    BY DEF IInv
  <1>4. CASE ~found(Db(v))
    <2>1. End(r, "failed")
      BY <1>1, <1>4
    <2>2. req[r].pc \in Busy
      BY <1>2 DEF Busy, Inside
    <2> QED
      BY <2>1, <2>2, FailMoves
  <1>5. CASE found(Db(v))
    <2> DEFINE x == [y EXCEPT !.names = @ \ {n}]
    <2>1. req' = [req EXCEPT ![r] = x] /\ UNCHANGED permits
      BY <1>1, <1>5
    <2>2. DOMAIN y = Fields
      BY <1>3 DEF RequestOK, Ranges
    <2>3. /\ DOMAIN x = Fields /\ x.pc = y.pc /\ x.ask = y.ask /\ x.names = y.names \ {n} /\ x.limit = y.limit
          /\ x.tables = y.tables /\ x.reads = y.reads
          /\ x.as_of = y.as_of /\ x.label = y.label /\ x.families = y.families
      BY <2>2 DEF Fields
    <2> HIDE DEF x
    <2>4. Ranges(x)
      BY <1>3, <2>3 DEF RequestOK, Ranges
    <2>5. HasValues(x.ask, n)
      BY <1>5, <2>3, Grown DEF HasValues
    <2>6. \A z \in referenced_columns(x.ask.q) : z[1] \in y.tables =>
             z[1] \in x.tables \/ z[2] \in Catalogued(Latest, z[1])
      BY <2>3
    <2>7. \A k \in referenced_features(x.ask.q) : k \in y.names => k \in x.names \/ HasValues(x.ask, k)
      BY <2>3, <2>5
    <2>8. Moves(r, x)
      BY <1>2, <2>1, <2>3, <2>4, <2>6, <2>7, LookedUpMoves
    <2> QED
      BY <2>8
  <1> QED
    BY <1>4, <1>5

\* A request goes on to a point where it has what it has now.
LEMMA GoMoves ==
    ASSUME IInv, NEW r \in Requests, NEW pc \in Busy, Go(r, pc),
           req[r].pc \in Past \cup {"catalogue"}, pc \in Past, req[r].ask.kind # "sql",
           pc \in {"freeze", "families", "insert"} => req[r].ask.kind = "job",
           pc \in Inside \/ req[r].ask.kind = "job",
           req[r].pc \in Inside \/ req[r].ask.kind = "job",
           pc = "count" => has_derive(req[r].ask.q),
           pc \in {"metrics", "recency", "categories"} => has_characterize(req[r].ask.q),
           pc # "label",
           NEW x, x = [req[r] EXCEPT !.pc = pc],
           Compiles(x),
           EnforceCatalogue => req[r].tables = {} /\ req[r].names = {}
    PROVE  \E z : Moves(r, z)
  <1> DEFINE y == req[r]
  <1>1. RequestOK(r, y)
    BY DEF IInv
  <1>2. /\ Ranges(x) /\ x.pc = pc /\ x.ask = y.ask /\ x.tables = y.tables /\ x.names = y.names
        /\ x.limit = y.limit /\ x.reads = y.reads /\ x.answer = y.answer
    BY <1>1, PcFacts DEF RequestOK
  <1>3. req' = [req EXCEPT ![r] = x] /\ permits' = permits
    BY DEF Go
  <1> HIDE DEF y
  <1>4. y.pc \in Past \cup {"catalogue"} /\ y.ask.kind # "sql"
    BY DEF y
  <1>5. Flow(r, x)
    BY <1>1, <1>2, <1>4 DEF RequestOK, Flow, Past, Counted, Busy, Inside, y
  <1>6. Answers(x)
    <2>1. pc \notin {"label", "done"}
      BY DEF Busy, Inside
    <2> QED
      BY <1>2, <2>1 DEF Answers
  <1>7. Checked(x)
    BY <1>1, <1>2, <1>4 DEF RequestOK, Checked, Past, Counted, Busy, Inside, y
  <1>8. RequestOK(r, x)
    BY <1>2, <1>5, <1>6, <1>7 DEF RequestOK
  <1>9. Held(x) = Held(req[r]) /\ Held(x) \in {0, 1}
    BY <1>2 DEF Held, y
  <1>10. permits' = permits + Held(req[r]) - Held(x) /\ (Held(req[r]) = 1 \/ Held(x) = 0)
    <2>1. permits \in Nat
      BY DEF IInv
    <2> QED
      BY <1>3, <1>9, <2>1
  <1>11. req[r].pc # "done"
    BY DEF Past, Counted
  <1> QED
    BY <1>3, <1>8, <1>10, <1>11, Zenon DEF Moves

\* The request is compiled.
LEMMA CompileMoves ==
    ASSUME IInv, NEW r \in Requests, Compile(r)
    PROVE  \E x : Moves(r, x)
  <1> DEFINE y == req[r]
             q == y.ask.q
             c == IF has_derive(q) THEN Survivors[y.ask] ELSE Statement[y.ask][y.limit]
             pc == CASE has_derive(q) -> "count" [] has_characterize(q) -> "metrics" [] OTHER -> "explain"
  <1>1. /\ y.pc = "catalogue" /\ y.tables = {} /\ y.names = {}
        /\ IF c.ok THEN Go(r, pc) ELSE End(r, "failed")
    BY Zenon DEF Compile, Asked, Compiled
  <1>2. RequestOK(r, y)
    BY DEF IInv
  <1>3. CASE ~c.ok
    <2>1. End(r, "failed") /\ req[r].pc \in Busy
      BY <1>1, <1>3 DEF Busy, Inside
    <2> QED
      BY <2>1, FailMoves
  <1>4. CASE c.ok
    <2> DEFINE x == [y EXCEPT !.pc = pc]
    <2>1. Go(r, pc)
      BY <1>1, <1>4
    <2>2. y.ask.kind # "sql" /\ Valid(q)
      <3>1. y.ask.kind # "sql" /\ y.pc \in Past \cup {"catalogue", "waiting", "done"}
        BY <1>1, <1>2 DEF RequestOK, Flow
      <3> QED
        BY <1>2, <3>1, RequestFacts
    <2>3. has_derive(q) => ~has_characterize(q)
      BY <2>2, TerminalFacts
    <2>4. y.ask.kind = "job" => ~has_derive(q) /\ ~has_characterize(q)
      BY <1>1, <1>2 DEF RequestOK, Flow, Busy, Inside
    <2>5. /\ pc \in {"count", "metrics", "explain"}
          /\ pc = "count" <=> has_derive(q)
          /\ pc = "metrics" => has_characterize(q)
      <3>1. CASE has_derive(q)
        BY <2>3, <3>1
      <3>2. CASE has_characterize(q)
        BY <2>3, <3>2
      <3>3. CASE ~has_derive(q) /\ ~has_characterize(q)
        BY <3>3
      <3> QED
        BY <3>1, <3>2, <3>3
    <2>6. y.limit = Null
      BY <1>1, <1>2 DEF RequestOK, Compiles
    <2>7. c.ok /\ c = IF has_derive(q) THEN Survivors[y.ask] ELSE Statement[y.ask][y.limit]
      BY <1>4
    <2> HIDE DEF pc, x, c
    <2>8. x.pc = pc /\ x.ask = y.ask /\ x.limit = y.limit
      <3>1. Ranges(y) /\ pc \in Busy \cup {"done"}
        BY <1>2, <2>5 DEF RequestOK, Busy, Inside
      <3> QED
        BY <3>1, PcFacts DEF x
    <2>9. Compiles(x)
      BY <2>5, <2>6, <2>7, <2>8 DEF Compiles, Counted
    <2>10. /\ pc \in Busy /\ pc \in Past /\ pc \notin {"freeze", "families", "insert", "label"} /\ pc \in Inside
           /\ y.pc \in Past \cup {"catalogue"} /\ y.pc \in Inside
      BY <1>1, <2>5 DEF Busy, Inside, Past, Counted
    <2> QED
      BY <1>1, <2>1, <2>2, <2>5, <2>9, <2>10, GoMoves DEF x
  <1> QED
    BY <1>3, <1>4

\* Several fields of a request change at once.
LEMMA Twice ==
    ASSUME NEW f, NEW r \in DOMAIN f, NEW u, NEW v
    PROVE  [f EXCEPT ![r] = u][r] = u /\ [[f EXCEPT ![r] = u] EXCEPT ![r] = v] = [f EXCEPT ![r] = v]
  OBVIOUS

\* The nested update of Count (the survivors, the limit, the step) as one record.
LEMMA CountRecord ==
    ASSUME NEW r \in DOMAIN req, NEW n, NEW s
    PROVE  [req EXCEPT ![r].pc = "explain", ![r].limit = n, ![r].reads["count"] = s]
             = [req EXCEPT ![r] = [req[r] EXCEPT !.pc = "explain", !.limit = n, !.reads["count"] = s]]
  <1> DEFINE A == [req[r] EXCEPT !.pc = "explain"]
             B == [A EXCEPT !.limit = n]
             C == [B EXCEPT !.reads["count"] = s]
             f == [req EXCEPT ![r] = A]
             g == [f EXCEPT ![r] = [f[r] EXCEPT !.limit = n]]
             h == [g EXCEPT ![r] = [g[r] EXCEPT !.reads["count"] = s]]
  <1>1. f[r] = A /\ r \in DOMAIN f
    BY Twice
  <1>2. g = [req EXCEPT ![r] = B]
    <2> HIDE DEF A
    <2> QED
      BY <1>1, Twice
  <1>3. g[r] = B /\ r \in DOMAIN g
    <2> HIDE DEF B, g
    <2> QED
      BY <1>2, Twice
  <1>4. h = [req EXCEPT ![r] = C]
    <2> HIDE DEF B, g
    <2>1. h = [g EXCEPT ![r] = C]
      BY <1>3
    <2> HIDE DEF h, C
    <2> QED
      BY <1>2, <2>1, Twice
  <1> QED
    BY <1>4, Zenon

\* The survivors of a Derive are counted.
LEMMA CountMoves ==
    ASSUME IInv, NEW r \in Requests, Count(r)
    PROVE  \E x : Moves(r, x)
  <1> DEFINE y == req[r]
             a == y.ask
             c == Survivors[a]
             N(v) == Cardinality(Segments(c, c.params, Db(v), clock))
             X(v, n) == [y EXCEPT !.pc = "explain", !.limit = n, !.reads["count"] = Stamp(v)]
  <1>1. y.pc = "count"
    BY DEF Count
  <1>2. PICK v \in Versions :
          IF ~Bindable(c, Db(v)) \/ OverCap(N(v)) THEN End(r, "failed")
          ELSE req' = [req EXCEPT ![r] = X(v, N(v))] /\ UNCHANGED permits
    <2> DEFINE Z(n, st) == [req EXCEPT ![r].pc = "explain", ![r].limit = n, ![r].reads["count"] = st]
    <2>1. PICK v \in Versions :
            IF ~Bindable(c, Db(v)) \/ OverCap(N(v)) THEN End(r, "failed")
            ELSE req' = Z(N(v), Stamp(v)) /\ UNCHANGED permits
      BY Zenon DEF Count
    <2>2. r \in DOMAIN req
      BY DEF IInv
    <2> DEFINE W(n, st) == [req EXCEPT ![r] = [req[r] EXCEPT !.pc = "explain", !.limit = n, !.reads["count"] = st]]
    <2>3. \A n, st : Z(n, st) = W(n, st)
      BY <2>2, CountRecord, Zenon
    <2>4. W(N(v), Stamp(v)) = [req EXCEPT ![r] = X(v, N(v))]
      OBVIOUS
    <2> HIDE DEF Z, W, X, N, c
    <2> QED
      BY <2>1, <2>3, <2>4
  <1>3. RequestOK(r, y)
    BY DEF IInv
  <1>4. CASE ~Bindable(c, Db(v)) \/ OverCap(N(v))
    <2>1. End(r, "failed")
      BY <1>2, <1>4
    <2>2. req[r].pc \in Busy
      BY <1>1 DEF Busy, Inside
    <2> QED
      BY <2>1, <2>2, FailMoves
  <1>5. CASE Bindable(c, Db(v)) /\ ~OverCap(N(v))
    <2> DEFINE n == N(v)
               x == X(v, n)
               s == strip_last_op(a.q)
               d == Statement[a][n]
    <2>1. req' = [req EXCEPT ![r] = x] /\ UNCHANGED permits
      BY <1>2, <1>5
    <2> HIDE DEF x, N
    <2>2. a.kind # "sql" /\ has_derive(a.q) /\ c.ok
      BY <1>1, <1>3 DEF RequestOK, Flow, Compiles, Past
    <2>3. a \in Menu[r] /\ validate(a.q) /\ Valid(a.q) /\ c = compile_with_opts(s, a.tenant, Rules, Null)
      <3>1. y.pc \in Past \cup {"catalogue", "waiting", "done"}
        BY <1>1 DEF Past
      <3> QED
        BY <1>3, <2>2, <3>1, RequestFacts
    <2>4. LastOp(a.q).kind = "derive" /\ LastOp(a.q).kind \in Terminal
      BY <2>2, <2>3, TerminalFacts DEF Terminal
    <2>5. Valid(s) /\ RulesOK(Rules)
      BY <2>3, <2>4, Stripped, AskFacts, <2>2
    <2>6. Database(Db(v)) /\ clock \in Int
      BY VersionFacts
    <2>7. Segments(c, c.params, Db(v), clock) = Survived(a, Db(v), clock)
      BY <1>5, <2>2, <2>3, <2>5, <2>6, CompilerCorrect DEF Survived
    <2>8. IsFiniteSet(Survived(a, Db(v), clock))
      <3>1. IsFiniteSet(Segments(c, c.params, Db(v), clock))
        BY <1>5, <2>2, <2>3, <2>5, <2>6, SegmentsFinite
      <3> QED
        BY <2>7, <3>1
    <2>9. n = Cardinality(Survived(a, Db(v), clock))
      BY <2>7 DEF N
    <2>10. n \in 0..SurvivorCap /\ n # Null
      <3>1. n \in Nat
        BY <2>8, <2>9, FS_CardinalityType
      <3>2. ~(n > SurvivorCap)
        BY <1>5 DEF OverCap
      <3> QED
        BY <3>1, <3>2, QueryEngineAssumption, SegmentAssumption
    <2> HIDE DEF n, s, c, d
    <2>11. d.ok
      <3>1. d = compile_with_opts(a.q, a.tenant, Rules, n)
        BY <2>2, <2>3, <2>10, AskFacts DEF d
      <3> QED
        BY <2>2, <2>3, <2>4, <2>10, <3>1, StrippedOk DEF s
    <2>12. DOMAIN y = Fields /\ DOMAIN y.reads = Reads
      BY <1>3 DEF RequestOK, Ranges
    <2>13. /\ DOMAIN x = Fields /\ x.pc = "explain" /\ x.ask = a /\ x.tables = y.tables /\ x.names = y.names
           /\ x.limit = n /\ x.as_of = y.as_of /\ x.label = y.label /\ x.families = y.families
           /\ x.reads = [y.reads EXCEPT !["count"] = Stamp(v)]
      BY <2>12 DEF Fields, x
    <2>14. DOMAIN x.reads = Reads /\ x.reads["count"].version = v /\ x.reads["count"].at = clock
      BY <2>12, <2>13 DEF Reads, Stamp
    <2>15. Ranges(x)
      BY <1>3, <2>10, <2>13, <2>14 DEF RequestOK, Ranges, Busy, Inside
    <2>16. Flow(r, x)
      BY <1>1, <1>3, <2>2, <2>13 DEF RequestOK, Flow, Past, Counted, Busy, Inside
    <2>17. Compiles(x)
      BY <2>9, <2>10, <2>11, <2>13, <2>14 DEF Compiles, d
    <2>18. Answers(x)
      BY <2>13 DEF Answers
    <2>19. Checked(x)
      BY <1>1, <1>3, <2>13 DEF RequestOK, Checked, Past, Counted, Busy, Inside
    <2>20. Held(x) = Held(y) /\ Held(x) \in {0, 1} /\ permits \in Nat
      BY <1>1, <2>13 DEF Held, Inside, IInv
    <2>21. permits' = permits + Held(y) - Held(x) /\ (Held(y) = 1 \/ Held(x) = 0)
      BY <2>1, <2>20
    <2>22. RequestOK(r, x)
      BY <2>15, <2>16, <2>17, <2>18, <2>19 DEF RequestOK
    <2>23. y.pc # "done"
      BY <1>1
    <2> QED
      BY <2>1, <2>21, <2>22, <2>23, Zenon DEF Moves
  <1> QED
    BY <1>4, <1>5

\* EXPLAIN.
LEMMA ExplainMoves ==
    ASSUME IInv, NEW r \in Requests, Explain(r)
    PROVE  (\E x : Moves(r, x)) /\ stuck' \in 0..Workers
  <1> DEFINE y == req[r]
  <1>1. y.pc = "explain" /\ RequestOK(r, y)
    BY DEF Explain, IInv
  <1>2. PICK est \in Estimates :
          /\ est > 0 => Served /\ UNCHANGED stuck
          /\ est = 0 => Abandon
          /\ CASE y.ask.kind = "job" -> Go(r, "freeze")
               [] y.ask.kind = "dsl" /\ (est > MaxOutputRows \/ est > SyncRowCap) -> End(r, "failed")
               [] OTHER -> Go(r, "run")
    BY Zenon DEF Explain, Asked
  <1>3. stuck' \in 0..Workers
    <2>1. stuck \in 0..Workers
      BY DEF IInv, EngineOK
    <2>2. est > 0 \/ est = 0
      BY QueryEngineAssumption
    <2> QED
      BY <1>2, <2>1, <2>2 DEF Abandon
  <1>4. y.ask.kind # "sql"
    BY <1>1 DEF RequestOK, Flow, Past, Counted
  <1>5. CASE y.ask.kind = "job"
    <2>1. Go(r, "freeze")
      BY <1>2, <1>5
    <2> DEFINE x == [y EXCEPT !.pc = "freeze"]
    <2>2. /\ x.pc = "freeze" /\ x.ask = y.ask /\ x.limit = y.limit /\ x.reads = y.reads
      <3>1. Ranges(y) /\ "freeze" \in Busy \cup {"done"}
        BY <1>1 DEF RequestOK, Busy
      <3> QED
        BY <3>1, PcFacts
    <2>3. Compiles(x)
      BY <1>1, <2>2 DEF RequestOK, Compiles, Counted
    <2>4. EnforceCatalogue => y.tables = {} /\ y.names = {}
      BY <1>1, <1>4 DEF RequestOK, Checked, Past, Counted, Busy, Inside
    <2>5. "freeze" \in Busy /\ "freeze" \in Past /\ y.pc \in Past
      BY <1>1 DEF Busy, Past, Counted
    <2> HIDE DEF x
    <2> QED
      BY <1>1, <1>3, <1>4, <1>5, <2>1, <2>3, <2>4, <2>5, GoMoves DEF x
  <1>6. CASE y.ask.kind # "job" /\ y.ask.kind = "dsl" /\ (est > MaxOutputRows \/ est > SyncRowCap)
    <2>1. End(r, "failed")
      BY <1>2, <1>6
    <2>2. y.pc \in Busy
      BY <1>1 DEF Busy, Inside
    <2> QED
      BY <1>3, <2>1, <2>2, FailMoves
  <1>7. CASE y.ask.kind # "job" /\ ~(y.ask.kind = "dsl" /\ (est > MaxOutputRows \/ est > SyncRowCap))
    <2>1. Go(r, "run")
      BY <1>2, <1>7
    <2> DEFINE x == [y EXCEPT !.pc = "run"]
    <2>2. /\ x.pc = "run" /\ x.ask = y.ask /\ x.limit = y.limit /\ x.reads = y.reads
      <3>1. Ranges(y) /\ "run" \in Busy \cup {"done"}
        BY <1>1 DEF RequestOK, Busy, Inside
      <3> QED
        BY <3>1, PcFacts
    <2>3. Compiles(x)
      BY <1>1, <2>2 DEF RequestOK, Compiles, Counted
    <2>4. EnforceCatalogue => y.tables = {} /\ y.names = {}
      BY <1>1, <1>4 DEF RequestOK, Checked, Past, Counted, Busy, Inside
    <2>5. "run" \in Busy /\ "run" \in Past /\ y.pc \in Past /\ "run" \in Inside /\ y.pc \in Inside
      BY <1>1 DEF Busy, Past, Counted, Inside
    <2> HIDE DEF x
    <2> QED
      BY <1>1, <1>3, <1>4, <2>1, <2>3, <2>4, <2>5, GoMoves DEF x
  <1> QED
    BY <1>3, <1>5, <1>6, <1>7

\* The nested update of Run (the answer, the read, the step) as one record.
LEMMA RunRecord ==
    ASSUME NEW r \in DOMAIN req, NEW z, NEW s
    PROVE  [req EXCEPT ![r].pc = "label", ![r].answer = z, ![r].reads["run"] = s]
             = [req EXCEPT ![r] = [req[r] EXCEPT !.pc = "label", !.answer = z, !.reads["run"] = s]]
  <1> DEFINE A == [req[r] EXCEPT !.pc = "label"]
             B == [A EXCEPT !.answer = z]
             C == [B EXCEPT !.reads["run"] = s]
             f == [req EXCEPT ![r] = A]
             g == [f EXCEPT ![r] = [f[r] EXCEPT !.answer = z]]
             h == [g EXCEPT ![r] = [g[r] EXCEPT !.reads["run"] = s]]
  <1>1. f[r] = A /\ r \in DOMAIN f
    BY Twice
  <1>2. g = [req EXCEPT ![r] = B]
    <2> HIDE DEF A
    <2> QED
      BY <1>1, Twice
  <1>3. g[r] = B /\ r \in DOMAIN g
    <2> HIDE DEF B, g
    <2> QED
      BY <1>2, Twice
  <1>4. h = [req EXCEPT ![r] = C]
    <2> HIDE DEF B, g
    <2>1. h = [g EXCEPT ![r] = C]
      BY <1>3
    <2> HIDE DEF h, C
    <2> QED
      BY <1>2, <2>1, Twice
  <1> QED
    BY <1>4, Zenon

\* The results of the statement of a request in version v.
Outcomes(x, v) ==
    LET c == Statement[x.ask][x.limit]
    IN  IF has_derive(x.ask.q) THEN DeriveResults(c, Db(v), clock)
        ELSE {[keys |-> Segments(c, c.params, Db(v), clock)]}

\* The statement is run: it fails, or one of its results is the answer.
LEMMA RunStep ==
    ASSUME IInv, NEW r \in Requests, Run(r)
    PROVE  \/ End(r, "failed")
           \/ /\ UNCHANGED permits
              /\ \E v \in Versions : \E z \in Outcomes(req[r], v) :
                   /\ Bindable(Statement[req[r].ask][req[r].limit], Db(v))
                   /\ req' = [req EXCEPT ![r] = [req[r] EXCEPT !.pc = "label", !.answer = z, !.reads["run"] = Stamp(v)]]
  <1> DEFINE c == Compiled(r)
             Results(db) == IF has_derive(Asked(r).q) THEN DeriveResults(c, db, clock)
                            ELSE {[keys |-> Segments(c, c.params, db, clock)]}
             Rows(x) == IF has_derive(Asked(r).q) THEN 1 ELSE Cardinality(x.keys)
             Z(z, st) == [req EXCEPT ![r].pc = "label", ![r].answer = z, ![r].reads["run"] = st]
             W(z, st) == [req EXCEPT ![r] = [req[r] EXCEPT !.pc = "label", !.answer = z, !.reads["run"] = st]]
  <1>1. PICK v \in Versions :
             \/ ~Bindable(c, Db(v)) /\ End(r, "failed")
             \/ /\ Bindable(c, Db(v))
                /\ \E z \in Results(Db(v)) :
                     IF Rows(z) > MaxOutputRows THEN End(r, "failed")
                     ELSE /\ req' = Z(z, Stamp(v))
                          /\ UNCHANGED permits
    BY Zenon DEF Run
  <1>2. r \in DOMAIN req
    BY DEF IInv
  <1>3. \A z, st : Z(z, st) = W(z, st)
    BY <1>2, RunRecord, Zenon
  <1>4. Results(Db(v)) = Outcomes(req[r], v) /\ c = Statement[req[r].ask][req[r].limit]
    BY Zenon DEF Outcomes, Compiled, Asked
  <1>5. \A z, st : W(z, st) = [req EXCEPT ![r] = [req[r] EXCEPT !.pc = "label", !.answer = z, !.reads["run"] = st]]
    OBVIOUS
  <1> HIDE DEF c, Results, Rows, Z, W
  <1>6. CASE End(r, "failed")
    BY <1>6
  <1>7. CASE ~End(r, "failed")
    <2>1. PICK z \in Results(Db(v)) : Bindable(c, Db(v)) /\ req' = Z(z, Stamp(v)) /\ UNCHANGED permits
      BY <1>1, <1>7
    <2>2. req' = W(z, Stamp(v)) /\ z \in Outcomes(req[r], v) /\ Bindable(Statement[req[r].ask][req[r].limit], Db(v))
      BY <1>3, <1>4, <2>1
    <2> QED
      BY <1>5, <2>1, <2>2
  <1> QED
    BY <1>6, <1>7

\* The answer of a query is what it means.
LEMMA RunMoves ==
    ASSUME IInv, NEW r \in Requests, Run(r)
    PROVE  \E x : Moves(r, x)
  <1> DEFINE y == req[r]
             a == y.ask
             c == Statement[a][y.limit]
  <1>1. y.pc = "run" /\ RequestOK(r, y)
    BY DEF Run, IInv
  <1>2. y.pc \in Busy /\ y.pc # "done"
    BY <1>1 DEF Busy, Inside
  <1>3. CASE End(r, "failed")
    BY <1>2, <1>3, FailMoves
  <1>4. CASE ~End(r, "failed")
    <2>1. PICK v \in Versions : \E z \in Outcomes(req[r], v) :
            /\ Bindable(c, Db(v)) /\ UNCHANGED permits
            /\ req' = [req EXCEPT ![r] = [req[r] EXCEPT !.pc = "label", !.answer = z, !.reads["run"] = Stamp(v)]]
      BY <1>4, RunStep
    <2>2. PICK z \in Outcomes(req[r], v) :
            /\ Bindable(c, Db(v)) /\ UNCHANGED permits
            /\ req' = [req EXCEPT ![r] = [req[r] EXCEPT !.pc = "label", !.answer = z, !.reads["run"] = Stamp(v)]]
      BY <2>1
    <2> DEFINE x == [y EXCEPT !.pc = "label", !.answer = z, !.reads["run"] = Stamp(v)]
    <2>3. req' = [req EXCEPT ![r] = x] /\ UNCHANGED permits /\ Bindable(c, Db(v))
      BY <2>2
    <2>4. DOMAIN y = Fields /\ DOMAIN y.reads = Reads
      BY <1>1 DEF RequestOK, Ranges
    <2>5. /\ DOMAIN x = Fields /\ x.pc = "label" /\ x.ask = a /\ x.tables = y.tables /\ x.names = y.names
          /\ x.limit = y.limit /\ x.as_of = y.as_of /\ x.label = y.label /\ x.families = y.families /\ x.answer = z
          /\ x.reads = [y.reads EXCEPT !["run"] = Stamp(v)]
      BY <2>4 DEF Fields
    <2>6. /\ DOMAIN x.reads = Reads /\ x.reads["run"].version = v /\ x.reads["run"].at = clock
          /\ x.reads["count"] = y.reads["count"]
      BY <2>4, <2>5 DEF Reads, Stamp
    <2> HIDE DEF x
    <2>7. a.kind # "sql" /\ y.pc \in Past \cup {"catalogue", "waiting", "done"}
      BY <1>1 DEF RequestOK, Flow, Past, Counted
    <2>8. Valid(a.q) /\ RulesOK(Rules) /\ c = compile_with_opts(a.q, a.tenant, Rules, y.limit)
      BY <1>1, <2>7, RequestFacts, AskFacts
    <2>9. c.ok
      BY <1>1, <2>7 DEF RequestOK, Compiles, Counted
    <2>10. Database(Db(v)) /\ clock \in Int
      BY VersionFacts
    <2> HIDE DEF c
    <2>11. ASSUME ~has_derive(a.q) PROVE z.keys = Denotation(a.q, Db(v), a.tenant, clock, Rules)
      <3>1. z.keys = Segments(c, c.params, Db(v), clock)
        BY <2>11 DEF Outcomes, c
      <3>2. Segments(c, c.params, Db(v), clock) = Denotation(a.q, Db(v), a.tenant, clock, Rules)
        BY <2>3, <2>8, <2>9, <2>10, CompilerCorrect
      <3> QED
        BY <3>1, <3>2
    <2>12. ASSUME has_derive(a.q)
           PROVE  /\ z.over \in Limited(Survived(a, Db(v), clock), y.limit)
                  /\ IsFiniteSet(Survived(a, Db(v), clock))
                  /\ z.value = MetricOver(LastOp(a.q), Db(v), a.tenant, z.over)
      <3>1. z \in DeriveResults(c, Db(v), clock)
        BY <2>12 DEF Outcomes, c
      <3>2. LastOp(a.q).kind = "derive"
        BY <2>8, <2>12, TerminalFacts
      <3> QED
        BY <2>3, <2>8, <2>9, <2>10, <3>1, <3>2, DeriveMeans DEF Survived
    <2>13. Ranges(x)
      BY <1>1, <2>5, <2>6 DEF RequestOK, Ranges, Busy, Inside
    <2>14. Flow(r, x)
      BY <1>1, <2>5, <2>7 DEF RequestOK, Flow, Past, Counted, Busy, Inside
    <2>15. Compiles(x)
      BY <1>1, <2>5, <2>6, <2>7 DEF RequestOK, Compiles, Counted
    <2>16. Checked(x)
      BY <1>1, <2>5 DEF RequestOK, Checked, Past, Counted, Busy, Inside
    <2>17. Answers(x)
      BY <2>5, <2>6, <2>11, <2>12 DEF Answers
    <2>18. RequestOK(r, x)
      BY <2>13, <2>14, <2>15, <2>16, <2>17 DEF RequestOK
    <2>19. Held(x) = Held(y) /\ Held(x) \in {0, 1} /\ permits \in Nat
      BY <1>1, <2>5 DEF Held, Inside, IInv
    <2>20. permits' = permits + Held(y) - Held(x) /\ (Held(y) = 1 \/ Held(x) = 0)
      BY <2>3, <2>19
    <2> QED
      BY <1>2, <2>3, <2>18, <2>20, Zenon DEF Moves
  <1> QED
    BY <1>3, <1>4

\* A request that goes on to pc after read k, whose stamp is s, with answer z.
Spliced(r, pc, k, s, z)  == [req EXCEPT ![r].pc = pc, ![r].reads[k] = s, ![r].answer = z]
Gathered(r, pc, k, s, z) == [req EXCEPT ![r] = [req[r] EXCEPT !.pc = pc, !.reads[k] = s, !.answer = z]]

\* Three fields of a request are changed at once.
LEMMA ProfileRecord ==
    ASSUME NEW r \in DOMAIN req, NEW pc, NEW k, NEW s, NEW z
    PROVE  Spliced(r, pc, k, s, z) = Gathered(r, pc, k, s, z)
  <1> DEFINE A == [req[r] EXCEPT !.pc = pc]
             B == [A EXCEPT !.reads[k] = s]
             C == [B EXCEPT !.answer = z]
             f == [req EXCEPT ![r] = A]
             g == [f EXCEPT ![r] = [f[r] EXCEPT !.reads[k] = s]]
             h == [g EXCEPT ![r] = [g[r] EXCEPT !.answer = z]]
  <1>1. f[r] = A /\ r \in DOMAIN f
    BY Twice
  <1>2. g = [req EXCEPT ![r] = B]
    <2> HIDE DEF A
    <2> QED
      BY <1>1, Twice
  <1>3. g[r] = B /\ r \in DOMAIN g
    <2> HIDE DEF B, g
    <2> QED
      BY <1>2, Twice
  <1>4. h = [req EXCEPT ![r] = C]
    <2> HIDE DEF B, g
    <2>1. h = [g EXCEPT ![r] = C]
      BY <1>3
    <2> HIDE DEF h, C
    <2> QED
      BY <1>2, <2>1, Twice
  <1> QED
    BY <1>4, Zenon DEF Spliced, Gathered

\* A statement of a profile is run: it fails, or its rows join the answer.
LEMMA ProfileStep ==
    ASSUME IInv, NEW r \in Requests, Profile(r)
    PROVE  /\ req[r].pc \in {"metrics", "recency", "categories"}
           /\ \/ End(r, "failed")
              \/ /\ UNCHANGED permits
                 /\ \E pc \in {"recency", "categories", "label"} : \E k \in {"run", "recency", "categories"} :
                      \E s, z : req' = Gathered(r, pc, k, s, z)
  <1> DEFINE c == Compiled(r)
             Rows(db, part) == LET p == ProfileParts(c, db, clock)
                               IN  IF part = "categories" THEN Top(p.categories) ELSE {p[part]}
             So(k) == IF k = "run" THEN <<>> ELSE req[r].answer.parts
             Then(k, pc, part) ==
               \E v \in Versions :
                 IF ~Bindable(c, Db(v)) THEN End(r, "failed")
                 ELSE \E rows \in Rows(Db(v), part) :
                        /\ req' = Spliced(r, pc, k, Stamp(v), [keys |-> {}, parts |-> Append(So(k), rows)])
                        /\ UNCHANGED permits
  <1>1. \/ req[r].pc = "metrics" /\ Then("run", "recency", "metrics")
        \/ req[r].pc = "recency" /\ Then("recency", "categories", "recency")
        \/ req[r].pc = "categories" /\ Then("categories", "label", "categories")
    BY Zenon DEF Profile, Spliced
  <1>2. r \in DOMAIN req
    BY DEF IInv
  <1>3. \A k, pc, st, z : Spliced(r, pc, k, st, z) = Gathered(r, pc, k, st, z)
    BY <1>2, ProfileRecord, Zenon
  <1>4. \A k, pc, part : Then(k, pc, part) =>
           End(r, "failed") \/ (UNCHANGED permits /\ \E s, z : req' = Gathered(r, pc, k, s, z))
    <2> HIDE DEF c, Rows, So
    <2> QED
      BY <1>3, Zenon
  <1> HIDE DEF Then
  <1> QED
    BY <1>1, <1>4

\* A statement of a profile keeps the invariant.
LEMMA ProfileMoves ==
    ASSUME IInv, NEW r \in Requests, Profile(r)
    PROVE  \E x : Moves(r, x)
  <1> DEFINE y == req[r]
             a == y.ask
  <1>1. y.pc \in {"metrics", "recency", "categories"} /\ RequestOK(r, y)
    BY ProfileStep DEF IInv
  <1>2. y.pc \in Busy /\ y.pc # "done"
    BY <1>1 DEF Busy, Inside
  <1>3. CASE End(r, "failed")
    BY <1>2, <1>3, FailMoves
  <1>4. CASE ~End(r, "failed")
    <2>0. PICK pc \in {"recency", "categories", "label"}, k \in {"run", "recency", "categories"} :
            \E s, z : /\ UNCHANGED permits
                      /\ req' = Gathered(r, pc, k, s, z)
      BY <1>4, ProfileStep, Zenon
    <2>1. PICK s, z : UNCHANGED permits /\ req' = Gathered(r, pc, k, s, z)
      BY <2>0, Zenon
    <2> DEFINE x == [y EXCEPT !.pc = pc, !.reads[k] = s, !.answer = z]
    <2>2. req' = [req EXCEPT ![r] = x] /\ UNCHANGED permits
      BY <2>1, Zenon DEF Gathered
    <2>3. DOMAIN y = Fields /\ DOMAIN y.reads = Reads
      BY <1>1 DEF RequestOK, Ranges
    <2>4. /\ DOMAIN x = Fields /\ x.pc = pc /\ x.ask = a /\ x.tables = y.tables /\ x.names = y.names
          /\ x.limit = y.limit /\ x.as_of = y.as_of /\ x.label = y.label /\ x.families = y.families
          /\ x.reads = [y.reads EXCEPT ![k] = s]
      BY <2>3 DEF Fields
    <2> HIDE DEF x
    <2>5. DOMAIN x.reads = Reads /\ x.reads["count"] = y.reads["count"]
      BY <2>3, <2>4 DEF Reads
    <2>6. a.kind # "sql" /\ y.pc \in Past \cup {"catalogue", "waiting", "done"} /\ has_characterize(a.q)
      BY <1>1 DEF RequestOK, Flow, Past, Counted
    <2>7. ~has_derive(a.q)
      <3>1. Valid(a.q)
        BY <1>1, <2>6, RequestFacts
      <3> QED
        BY <2>6, <3>1, TerminalFacts
    <2>8. Ranges(x)
      BY <1>1, <2>4, <2>5 DEF RequestOK, Ranges, Busy, Inside
    <2>9. Flow(r, x)
      BY <1>1, <2>4, <2>6 DEF RequestOK, Flow, Past, Counted, Busy, Inside
    <2>10. Compiles(x)
      BY <1>1, <2>4, <2>5, <2>6 DEF RequestOK, Compiles, Counted
    <2>11. Checked(x)
      BY <1>1, <2>4 DEF RequestOK, Checked, Past, Counted, Busy, Inside
    <2>12. Answers(x)
      BY <2>4, <2>6, <2>7 DEF Answers
    <2>13. RequestOK(r, x)
      BY <2>8, <2>9, <2>10, <2>11, <2>12 DEF RequestOK
    <2>14. Held(x) = Held(y) /\ Held(x) \in {0, 1} /\ permits \in Nat
      BY <1>1, <2>4 DEF Held, Inside, IInv
    <2>15. permits' = permits + Held(y) - Held(x) /\ (Held(y) = 1 \/ Held(x) = 0)
      BY <2>2, <2>14
    <2> QED
      BY <1>2, <2>2, <2>13, <2>15, Zenon DEF Moves
  <1> QED
    BY <1>3, <1>4

\* The sources and the parameters of a statement are lists.
LEMMA CompiledLists ==
    ASSUME NEW q, Valid(q), NEW t, NEW rules, NEW limit, NEW c, c = compile_with_opts(q, t, rules, limit)
    PROVE  List(c.sources) /\ List(c.params)
  <1> DEFINE body == Join(Parts(q, t, rules))
  <1>1. CompiledIs(c, q, t, Parts(q, t, rules), body)
    BY CompiledShape
  <1> HIDE DEF body
  <1>2. /\ PieceOK(body)
        /\ List(TailParams(c.last, t)) /\ c.params = body.params \o TailParams(c.last, t)
        /\ List(TailTables(c.last)) /\ c.sources = body.sources \o TailTables(c.last)
    BY <1>1, Zenon DEF CompiledIs
  <1>3. List(body.params) /\ List(body.sources)
    BY <1>2 DEF PieceOK
  <1> QED
    BY <1>2, <1>3, ConcatList

\* Whatever name is looked up in the registry, what is found is not of the
\* future.
LEMMA RegistryFacts ==
    ASSUME IInv
    PROVE  /\ \A d : get(registry, d) \in Meta /\ get(registry, d).epoch <= clock
           /\ \A d \in Datasets : get(registry, d) = registry[d]
           /\ clock \in 0..MaxClock /\ clock \in Nat
  <1>1. /\ registry \in [Datasets -> Meta] /\ clock \in 0..MaxClock
        /\ \A d \in Datasets : registry[d].epoch <= clock
    BY DEF IInv, EngineOK
  <1>2. clock \in Nat
    BY <1>1, QueryEngineAssumption
  <1>3. Unknown \in Meta /\ Unknown.epoch <= clock
    BY <1>2 DEF Meta, Unknown
  <1> QED
    BY <1>1, <1>2, <1>3 DEF get

\* A request is answered, with a label.
Closed(r, w) == [req EXCEPT ![r].pc = "done", ![r].label = w]

\* A request that ends with an outcome, as one record.
LEMMA ClosedRecord ==
    ASSUME NEW r \in DOMAIN req, NEW w
    PROVE  Closed(r, w) = [req EXCEPT ![r] = [req[r] EXCEPT !.pc = "done", !.label = w]]
  <1> DEFINE A == [req[r] EXCEPT !.pc = "done"]
             B == [A EXCEPT !.label = w]
             f == [req EXCEPT ![r] = A]
             g == [f EXCEPT ![r] = [f[r] EXCEPT !.label = w]]
  <1>1. f[r] = A /\ r \in DOMAIN f
    BY Twice
  <1>2. g = [req EXCEPT ![r] = B]
    <2> HIDE DEF A
    <2> QED
      BY <1>1, Twice
  <1> QED
    BY <1>2, Zenon DEF Closed

\* The cut-off of a job.
Dated(r, w) == [req EXCEPT ![r].pc = "families", ![r].as_of = w]

\* AsOf's update of a materialisation, as one record.
LEMMA DatedRecord ==
    ASSUME NEW r \in DOMAIN req, NEW w
    PROVE  Dated(r, w) = [req EXCEPT ![r] = [req[r] EXCEPT !.pc = "families", !.as_of = w]]
  <1> DEFINE A == [req[r] EXCEPT !.pc = "families"]
             B == [A EXCEPT !.as_of = w]
             f == [req EXCEPT ![r] = A]
             g == [f EXCEPT ![r] = [f[r] EXCEPT !.as_of = w]]
  <1>1. f[r] = A /\ r \in DOMAIN f
    BY Twice
  <1>2. g = [req EXCEPT ![r] = B]
    <2> HIDE DEF A
    <2> QED
      BY <1>1, Twice
  <1> QED
    BY <1>2, Zenon DEF Dated

\* The families of a job.
Listed(r, w) == [req EXCEPT ![r].pc = "insert", ![r].families = w]

\* The update of Families, as one record.
LEMMA ListedRecord ==
    ASSUME NEW r \in DOMAIN req, NEW w
    PROVE  Listed(r, w) = [req EXCEPT ![r] = [req[r] EXCEPT !.pc = "insert", !.families = w]]
  <1> DEFINE A == [req[r] EXCEPT !.pc = "insert"]
             B == [A EXCEPT !.families = w]
             f == [req EXCEPT ![r] = A]
             g == [f EXCEPT ![r] = [f[r] EXCEPT !.families = w]]
  <1>1. f[r] = A /\ r \in DOMAIN f
    BY Twice
  <1>2. g = [req EXCEPT ![r] = B]
    <2> HIDE DEF A
    <2> QED
      BY <1>1, Twice
  <1> QED
    BY <1>2, Zenon DEF Listed

\* A request is answered, with a label and its last answer.
Labelled(r, z, w) == [req EXCEPT ![r].pc = "done", ![r].answer = z, ![r].label = w]
Graded(x, z, w)   == [x EXCEPT !.pc = "done", !.answer = z, !.label = w]

\* The update of Label, as one record.
LEMMA LabelledRecord ==
    ASSUME NEW r \in DOMAIN req, NEW z, NEW w
    PROVE  Labelled(r, z, w) = [req EXCEPT ![r] = Graded(req[r], z, w)]
  <1> DEFINE A == [req[r] EXCEPT !.pc = "done"]
             B == [A EXCEPT !.answer = z]
             C == [B EXCEPT !.label = w]
             f == [req EXCEPT ![r] = A]
             g == [f EXCEPT ![r] = [f[r] EXCEPT !.answer = z]]
             h == [g EXCEPT ![r] = [g[r] EXCEPT !.label = w]]
  <1>1. f[r] = A /\ r \in DOMAIN f
    BY Twice
  <1>2. g = [req EXCEPT ![r] = B]
    <2> HIDE DEF A
    <2> QED
      BY <1>1, Twice
  <1>3. g[r] = B /\ r \in DOMAIN g
    <2> HIDE DEF B, g
    <2> QED
      BY <1>2, Twice
  <1>4. h = [req EXCEPT ![r] = C]
    <2> HIDE DEF B, g
    <2>1. h = [g EXCEPT ![r] = C]
      BY <1>3
    <2> HIDE DEF h, C
    <2> QED
      BY <1>2, <2>1, Twice
  <1> QED
    BY <1>4, Zenon DEF Labelled, Graded

\* The label of an answer.
LEMMA LabelMoves ==
    ASSUME IInv, NEW r \in Requests, Label(r)
    PROVE  \E x : Moves(r, x) /\ x.label = worst(Compiled(r).sources, registry, clock)
  <1> DEFINE y == req[r]
             a == y.ask
             w == worst(Compiled(r).sources, registry, clock)
  <1>1. y.pc = "label" /\ RequestOK(r, y) /\ r \in DOMAIN req
    BY DEF Label, IInv
  <1>2. PICK z : /\ ~has_characterize(a.q) => z = y.answer
                 /\ req' = Labelled(r, z, w) /\ Release(r, "done")
    BY Zenon DEF Label, Labelled, Asked
  <1> DEFINE x == Graded(y, z, w)
  <1>3. req' = [req EXCEPT ![r] = x]
    BY <1>1, <1>2, LabelledRecord, Zenon
  <1>4. DOMAIN y = Fields /\ DOMAIN y.reads = Reads
    BY <1>1 DEF RequestOK, Ranges
  <1> HIDE DEF w
  <1>5. /\ DOMAIN x = Fields /\ x.pc = "done" /\ x.ask = a /\ x.tables = y.tables /\ x.names = y.names
        /\ x.limit = y.limit /\ x.as_of = y.as_of /\ x.label = w /\ x.families = y.families
        /\ x.answer = z /\ x.reads = y.reads
    BY <1>4 DEF Fields, Graded
  <1> HIDE DEF x
  <1>6. a.kind # "sql" /\ y.pc \in Past \cup {"catalogue", "waiting", "done"}
    BY <1>1 DEF RequestOK, Flow, Past, Counted
  <1>7. Valid(a.q) /\ Statement[a][y.limit] = compile_with_opts(a.q, a.tenant, Rules, y.limit)
    BY <1>1, <1>6, RequestFacts
  <1>8. w.lag \in 0..MaxClock
    <2> DEFINE s == Compiled(r).sources
    <2>1. List(s)
      BY <1>7, CompiledLists DEF Compiled
    <2>2. /\ \A d : get(registry, d) \in Meta /\ get(registry, d).epoch <= clock
          /\ clock \in Nat /\ clock \in 0..MaxClock
      BY RegistryFacts
    <2> HIDE DEF s
    <2>3. worst(s, registry, clock).lag \in 0..clock
      BY <2>1, <2>2, WorstFacts
    <2> QED
      BY <2>2, <2>3, QueryEngineAssumption DEF w, s
  <1>9. Ranges(x)
    BY <1>1, <1>5, <1>8 DEF RequestOK, Ranges
  <1>10. Flow(r, x)
    BY <1>1, <1>5, <1>6 DEF RequestOK, Flow, Past, Counted, Busy, Inside
  <1>11. Compiles(x)
    BY <1>1, <1>5, <1>6 DEF RequestOK, Compiles, Counted
  <1>12. Checked(x)
    BY <1>1, <1>5 DEF RequestOK, Checked, Past, Counted, Busy, Inside
  <1>13. Answers(x)
    <2>1. ~has_characterize(a.q) => x.answer = y.answer
      BY <1>2, <1>5
    <2>2. ~(has_derive(a.q) /\ has_characterize(a.q))
      BY <1>7, TerminalFacts
    <2> QED
      BY <1>1, <1>5, <2>1, <2>2 DEF RequestOK, Answers
  <1>14. RequestOK(r, x)
    BY <1>9, <1>10, <1>11, <1>12, <1>13 DEF RequestOK
  <1>15. permits' = permits + Held(y) - Held(x) /\ Held(x) = 0
    <2>1. permits \in Nat
      BY DEF IInv
    <2>2. Held(x) = 0
      BY <1>5 DEF Held, Inside
    <2>3. Held(y) = IF Holds(r) THEN 1 ELSE 0
      BY DEF Held, Holds, Asked
    <2> QED
      BY <1>2, <2>1, <2>2, <2>3 DEF Release
  <1>16. Moves(r, x)
    BY <1>1, <1>3, <1>14, <1>15, Zenon DEF Moves
  <1> QED
    BY <1>5, <1>16 DEF w

\* Raw SQL fails or is answered.
LEMMA RunSqlMoves ==
    ASSUME IInv, NEW r \in Requests, RunSql(r)
    PROVE  \E x : Moves(r, x)
  <1> DEFINE y == req[r]
             w == [worst |-> "batch", lag |-> 0]
             x == [y EXCEPT !.pc = "done", !.label = w]
  <1>1. y.pc = "sql" /\ RequestOK(r, y) /\ r \in DOMAIN req /\ y.pc \in Busy
    BY DEF RunSql, IInv, Busy, Inside
  <1>2. PICK rows \in {0, MaxOutputRows + 1} :
          IF rows > MaxOutputRows THEN End(r, "failed") ELSE req' = Closed(r, w) /\ Release(r, "done")
    BY Zenon DEF RunSql, Closed
  <1>3. CASE End(r, "failed")
    BY <1>1, <1>3, FailMoves
  <1>4. CASE req' = Closed(r, w) /\ Release(r, "done")
    <2>1. req' = [req EXCEPT ![r] = x]
      <3> HIDE DEF w
      <3> QED
        BY <1>1, <1>4, ClosedRecord
    <2>2. DOMAIN y = Fields /\ y.ask.kind = "sql"
      BY <1>1 DEF RequestOK, Ranges, Flow
    <2>3. /\ DOMAIN x = Fields /\ x.pc = "done" /\ x.ask = y.ask /\ x.tables = y.tables /\ x.names = y.names
          /\ x.limit = y.limit /\ x.as_of = y.as_of /\ x.label.lag = 0 /\ x.families = y.families
          /\ x.reads = y.reads
      BY <2>2 DEF Fields
    <2> HIDE DEF x, w
    <2>4. Ranges(x)
      BY <1>1, <2>3, QueryEngineAssumption DEF RequestOK, Ranges
    <2>5. Flow(r, x)
      BY <1>1, <2>2, <2>3 DEF RequestOK, Flow, Past, Counted, Busy, Inside
    <2>6. Compiles(x) /\ Checked(x) /\ Answers(x)
      BY <2>2, <2>3 DEF Compiles, Checked, Answers, Counted
    <2>7. RequestOK(r, x)
      BY <2>4, <2>5, <2>6 DEF RequestOK
    <2>8. permits' = permits + Held(y) - Held(x) /\ Held(x) = 0
      <3>1. permits \in Nat
        BY DEF IInv
      <3>2. Held(x) = 0
        BY <2>3 DEF Held, Inside
      <3>3. Held(y) = IF Holds(r) THEN 1 ELSE 0
        BY DEF Held, Holds, Asked
      <3> QED
        BY <1>4, <3>1, <3>2, <3>3 DEF Release
    <2>9. y.pc # "done"
      BY <1>1
    <2> QED
      BY <2>1, <2>7, <2>8, <2>9, Zenon DEF Moves
  <1> QED
    BY <1>2, <1>3, <1>4

\* A read is given up, or the client goes away.
LEMMA EndedMoves ==
    ASSUME IInv, NEW r \in Requests, GiveUp(r) \/ Cancel(r)
    PROVE  (\E x : Moves(r, x)) /\ stuck' \in 0..Workers
  <1>1. req[r].pc \in Busy /\ End(r, "failed") /\ Abandon
    BY DEF GiveUp, Cancel, Busy, Inside
  <1> QED
    BY <1>1, FailMoves DEF Abandon

-----------------------------------------------------------------------------
(***************************************************************************)
(* Jobs.                                                                   *)
(***************************************************************************)
\* The cut-off is no later than any registered source, and never in the future.
LEMMA AsOfFacts ==
    ASSUME IInv, NEW r \in Requests, List(Compiled(r).sources)
    PROVE  /\ AsOf(r) \in 0..MaxClock
           /\ \A i \in DOMAIN Compiled(r).sources :
                LET m == get(registry, Compiled(r).sources[i])
                IN  m # Unknown => AsOf(r) <= m.epoch
  <1> DEFINE s == Compiled(r).sources
             known == {get(registry, s[i]) : i \in DOMAIN s} \ {Unknown}
             E == {m.epoch : m \in known}
  <1>1. /\ \A d : get(registry, d) \in Meta /\ get(registry, d).epoch <= clock
        /\ clock \in 0..MaxClock /\ clock \in Nat
    BY RegistryFacts
  <1>2. AsOf(r) = IF known = {} THEN clock ELSE Min(E)
    BY DEF AsOf
  <1>3. E \subseteq 0..MaxClock
    <2>1. \A m \in known : m \in Meta /\ m # Unknown
      BY <1>1
    <2> HIDE DEF known
    <2> QED
      BY <2>1 DEF Meta
  <1>4. \A i \in DOMAIN s : get(registry, s[i]) # Unknown => get(registry, s[i]).epoch \in E
    OBVIOUS
  <1>5. CASE known = {}
    BY <1>1, <1>2, <1>5
  <1>6. CASE known # {}
    <2>1. E # {} /\ E \subseteq Nat
      BY <1>3, <1>6, QueryEngineAssumption
    <2> HIDE DEF E
    <2>2. \E m \in E : \A k \in E : m <= k
      BY <2>1, Least
    <2>3. Min(E) \in E /\ \A k \in E : Min(E) <= k
      BY <2>2 DEF Min
    <2> HIDE DEF known
    <2> QED
      BY <1>2, <1>3, <1>4, <1>6, <2>3
  <1> QED
    BY <1>5, <1>6

\* The cut-off is set.
LEMMA FreezeMoves ==
    ASSUME IInv, NEW r \in Requests, Freeze(r)
    PROVE  \E x : Moves(r, x) /\ x.as_of = AsOf(r) /\ List(Compiled(r).sources)
  <1> DEFINE y == req[r]
             x == [y EXCEPT !.pc = "families", !.as_of = AsOf(r)]
  <1>1. y.pc = "freeze" /\ RequestOK(r, y) /\ r \in DOMAIN req
    BY DEF Freeze, IInv
  <1>2. req' = Dated(r, AsOf(r)) /\ UNCHANGED permits
    BY Zenon DEF Freeze, Dated
  <1>3. req' = [req EXCEPT ![r] = x]
    <2>1. \A w : Dated(r, w) = [req EXCEPT ![r] = [req[r] EXCEPT !.pc = "families", !.as_of = w]]
      BY <1>1, DatedRecord
    <2> QED
      BY <1>2, <2>1
  <1>4. y.ask.kind # "sql" /\ y.pc \in Past \cup {"catalogue", "waiting", "done"} /\ y.ask.kind = "job"
    BY <1>1 DEF RequestOK, Flow, Past, Counted
  <1>5. List(Compiled(r).sources)
    <2>1. Valid(y.ask.q) /\ Statement[y.ask][y.limit] = compile_with_opts(y.ask.q, y.ask.tenant, Rules, y.limit)
      BY <1>1, <1>4, RequestFacts
    <2> QED
      BY <2>1, CompiledLists DEF Compiled
  <1>6. AsOf(r) \in 0..MaxClock
    BY <1>5, AsOfFacts
  <1>7. DOMAIN y = Fields
    BY <1>1 DEF RequestOK, Ranges
  <1>8. /\ DOMAIN x = Fields /\ x.pc = "families" /\ x.ask = y.ask /\ x.tables = y.tables /\ x.names = y.names
        /\ x.limit = y.limit /\ x.as_of = AsOf(r) /\ x.label = y.label /\ x.families = y.families
        /\ x.reads = y.reads
    BY <1>7 DEF Fields
  <1> HIDE DEF x
  <1>9. Ranges(x)
    BY <1>1, <1>6, <1>8 DEF RequestOK, Ranges, Busy
  <1>10. Flow(r, x)
    BY <1>1, <1>4, <1>8 DEF RequestOK, Flow, Past, Counted, Busy, Inside
  <1>11. Compiles(x)
    BY <1>1, <1>4, <1>8 DEF RequestOK, Compiles, Counted
  <1>12. Checked(x)
    BY <1>1, <1>8 DEF RequestOK, Checked, Past, Counted, Busy, Inside
  <1>13. Answers(x)
    BY <1>8 DEF Answers
  <1>14. RequestOK(r, x)
    BY <1>9, <1>10, <1>11, <1>12, <1>13 DEF RequestOK
  <1>15. permits' = permits + Held(y) - Held(x) /\ Held(x) = 0
    <2>1. permits \in Nat
      BY DEF IInv
    <2>2. Held(x) = 0 /\ Held(y) = 0
      BY <1>1, <1>8 DEF Held, Inside
    <2> QED
      BY <1>2, <2>1, <2>2
  <1>16. Moves(r, x)
    BY <1>1, <1>3, <1>14, <1>15, Zenon DEF Moves
  <1> QED
    BY <1>5, <1>8, <1>16

\* A fixed order of a finite set exists, and is a list.
LEMMA OrderedList ==
    ASSUME NEW S, IsFiniteSet(S)
    PROVE  List(Ordered(S))
  <1> DEFINE n == Cardinality(S)
             P(f) == \A i, j \in DOMAIN f : i # j => f[i] # f[j]
  <1>1. n \in Nat /\ ExistsBijection(1..n, S)
    BY FS_CardinalityType
  <1> HIDE DEF n
  <1>2. PICK f \in [1..n -> S] : P(f)
    BY <1>1 DEF ExistsBijection, Bijection, Injection, Surjection, IsInjective
  <1>3. Ordered(S) = CHOOSE g \in [1..n -> S] : P(g)
    BY Zenon DEF Ordered, n
  <1>4. Ordered(S) \in [1..n -> S]
    <2> HIDE DEF P
    <2> QED
      BY <1>2, <1>3
  <1>5. Ordered(S) \in Seq(S)
    BY <1>1, <1>4
  <1> QED
    BY <1>5, IsList

\* The feature families are listed, or not.
LEMMA FamiliesMoves ==
    ASSUME IInv, NEW r \in Requests, Families(r)
    PROVE  (\E x : Moves(r, x)) /\ stuck' \in 0..Workers
  <1> DEFINE y == req[r]
             N(v) == {f.feature_name : f \in {g \in Db(v).features : g.tenant_id = Asked(r).tenant}}
  <1>1. y.pc = "families" /\ RequestOK(r, y) /\ r \in DOMAIN req
    BY DEF Families, IInv
  <1>2. stuck' \in 0..Workers
    BY DEF Families, Abandon, IInv, EngineOK
  <1>3. /\ UNCHANGED permits
        /\ (\E v \in Versions : req' = Listed(r, Ordered(N(v)))) \/ req' = [req EXCEPT ![r].pc = "insert"]
    BY Zenon DEF Families, Listed
  <1>4. PICK w : List(w) /\ req' = [req EXCEPT ![r] = [req[r] EXCEPT !.pc = "insert", !.families = w]]
    <2>1. CASE req' = [req EXCEPT ![r].pc = "insert"]
      <3> DEFINE w == y.families
                 z == [y EXCEPT !.pc = "insert"]
                 u == [y EXCEPT !.pc = "insert", !.families = w]
      <3>1. List(w) /\ DOMAIN y = Fields
        BY <1>1 DEF RequestOK, Ranges
      <3>2. z = u
        BY <3>1
      <3>3. req' = [req EXCEPT ![r] = z]
        BY <2>1
      <3> HIDE DEF z
      <3> QED
        BY <3>1, <3>2, <3>3
    <2>2. CASE \E v \in Versions : req' = Listed(r, Ordered(N(v)))
      <3>1. PICK v \in Versions : req' = Listed(r, Ordered(N(v)))
        BY <2>2
      <3> DEFINE F == {g \in Db(v).features : g.tenant_id = Asked(r).tenant}
                 h == [f \in F |-> f.feature_name]
      <3>2. IsFiniteSet(Db(v).features)
        BY VersionFacts DEF Database
      <3>3. IsFiniteSet(F)
        <4>1. F \in SUBSET Db(v).features
          OBVIOUS
        <4> HIDE DEF F
        <4> QED
          BY <3>2, <4>1, FS_Subset
      <3>4. IsFiniteSet({h[f] : f \in DOMAIN h})
        <4>1. DOMAIN h = F
          OBVIOUS
        <4> HIDE DEF h, F
        <4> QED
          BY <3>3, <4>1, FiniteImage
      <3>5. {h[f] : f \in DOMAIN h} = N(v)
        OBVIOUS
      <3> HIDE DEF N, h, F
      <3>6. List(Ordered(N(v)))
        BY <3>4, <3>5, OrderedList
      <3>7. \A w : Listed(r, w) = [req EXCEPT ![r] = [req[r] EXCEPT !.pc = "insert", !.families = w]]
        BY <1>1, ListedRecord
      <3> QED
        BY <3>1, <3>6, <3>7
    <2> QED
      BY <1>3, <2>1, <2>2
  <1> DEFINE x == [y EXCEPT !.pc = "insert", !.families = w]
  <1>5. req' = [req EXCEPT ![r] = x]
    BY <1>4
  <1>6. DOMAIN y = Fields
    BY <1>1 DEF RequestOK, Ranges
  <1>7. /\ DOMAIN x = Fields /\ x.pc = "insert" /\ x.ask = y.ask /\ x.tables = y.tables /\ x.names = y.names
        /\ x.limit = y.limit /\ x.as_of = y.as_of /\ x.label = y.label /\ x.families = w
        /\ x.reads = y.reads
    BY <1>6 DEF Fields
  <1> HIDE DEF x
  <1>8. Ranges(x)
    BY <1>1, <1>4, <1>7 DEF RequestOK, Ranges, Busy
  <1>9. Flow(r, x)
    BY <1>1, <1>7 DEF RequestOK, Flow, Past, Counted, Busy, Inside
  <1>10. Compiles(x)
    BY <1>1, <1>7 DEF RequestOK, Compiles, Counted
  <1>11. Checked(x)
    BY <1>1, <1>7 DEF RequestOK, Checked, Past, Counted, Busy, Inside
  <1>12. Answers(x)
    BY <1>7 DEF Answers
  <1>13. RequestOK(r, x)
    BY <1>8, <1>9, <1>10, <1>11, <1>12 DEF RequestOK
  <1>14. permits' = permits + Held(y) - Held(x) /\ Held(x) = 0
    <2>1. permits \in Nat
      BY DEF IInv
    <2>2. Held(x) = 0 /\ Held(y) = 0
      BY <1>1, <1>7 DEF Held, Inside
    <2> QED
      BY <1>3, <2>1, <2>2
  <1> QED
    BY <1>1, <1>2, <1>5, <1>13, <1>14, Zenon DEF Moves

\* The parameters ps of an INSERT wrap those of the segment, P, and give each of
\* its k pivots the cut-off and the tenant.
Wrapped(ps, P, k, at, t) ==
    /\ SubSeq(ps, 2, Len(P) + 1) = P
    /\ \A i \in 1..k : ps[1 + Len(P) + 2 * i - 1] = at /\ ps[1 + Len(P) + 2 * i] = t

\* The rows are those of the users of q, with what was known at the cut-off.
KnownThen(rows, q, db, t, now, families, at) ==
    /\ {x.user : x \in rows} = Denotation(q, db, t, now, Rules)
    /\ \A x \in rows : \A i \in DOMAIN x.features :
         LET K == Known(Own(db, t), x.user, families[i], at)
         IN  IF K = {} THEN x.features[i] = Null ELSE x.features[i] = ArgMax(K)

\* The parameters of the INSERT: one, then those of the segment, then two per
\* family.
LEMMA WrapFacts ==
    ASSUME NEW e, NEW P, List(P), NEW k \in Nat, NEW at, NEW t,
           NEW piv, piv = [i \in 1..(2 * k) |-> IF i % 2 = 1 THEN at ELSE t],
           NEW ps, ps = <<e>> \o P \o piv
    PROVE  Wrapped(ps, P, k, at, t)
  <1> DEFINE n == Len(P)
             A == <<e>> \o P
  <1>1. n \in Nat
    BY ListFacts
  <1>2. List(<<e>>) /\ Len(<<e>>) = 1
    BY ElementsShort
  <1>3. List(A) /\ Len(A) = n + 1
    BY <1>1, <1>2, ConcatFacts
  <1>4. List(piv) /\ Len(piv) = 2 * k /\ DOMAIN piv = 1..(2 * k)
    <2>1. 2 * k \in Nat /\ piv = [i \in 1..(2 * k) |-> piv[i]]
      OBVIOUS
    <2> QED
      BY <2>1, ListFn
  <1>5. SubSeq(A, 2, n + 1) = P
    <2>1. 2 = Len(<<e>>) + 1 /\ n + 1 = Len(<<e>>) + n /\ 1 \in Int /\ n \in Int
      BY <1>1, <1>2
    <2>2. SubSeq(A, Len(<<e>>) + 1, Len(<<e>>) + n) = SubSeq(P, 1, n)
      BY <1>1, <1>2, SubSeqConcat
    <2>3. SubSeq(P, 1, n) = P
      <3> DEFINE T == {P[i] : i \in DOMAIN P}
      <3>1. P \in Seq(T)
        BY DEF List
      <3> HIDE DEF T
      <3> QED
        BY <3>1
    <2> QED
      BY <1>1, <1>2, <2>2, <2>3
  <1>6. SubSeq(ps, 2, n + 1) = SubSeq(A, 2, n + 1)
    <2> HIDE DEF A
    <2>1. ps = A \o piv
      BY DEF A
    <2>2. SubSeq(A \o piv, 2, n + 1) = SubSeq(A, 2, n + 1)
      BY <1>1, <1>3, <1>4, SubSeqConcat
    <2> QED
      BY <2>1, <2>2
  <1>7. ASSUME NEW i \in 1..k PROVE ps[1 + n + 2 * i - 1] = at /\ ps[1 + n + 2 * i] = t
    <2>1. 2 * i - 1 \in DOMAIN piv /\ 2 * i \in DOMAIN piv
      BY <1>4
    <2>2. piv[2 * i - 1] = at /\ piv[2 * i] = t
      <3>1. (2 * i - 1) % 2 = 1 /\ (2 * i) % 2 = 0
        OBVIOUS
      <3> QED
        BY <1>4, <2>1, <3>1
    <2>3. ps = A \o piv
      OBVIOUS
    <2> HIDE DEF A
    <2>4. ps[Len(A) + (2 * i - 1)] = at /\ ps[Len(A) + 2 * i] = t
      <3>1. \A j \in DOMAIN piv : ps[Len(A) + j] = piv[j]
        BY ONLY <1>3, <1>4, <2>3, ConcatFacts
      <3> QED
        BY <2>1, <2>2, <3>1
    <2>5. Len(A) + (2 * i - 1) = 1 + n + 2 * i - 1 /\ Len(A) + 2 * i = 1 + n + 2 * i
      BY <1>1, <1>3
    <2> QED
      BY <2>4, <2>5
  <1> QED
    BY <1>5, <1>6, <1>7 DEF Wrapped

\* The rows of a snapshot: the segment's users, with what was known of them at
\* the cut-off.
LEMMA SnapshotMeans ==
    ASSUME NEW q, Valid(q), NEW t, RulesOK(Rules), NEW limit, NEW c, c = compile_with_opts(q, t, Rules, limit),
           c.ok, NEW db, Database(db), Bindable(c, db), NEW now \in Int, NEW at \in Int,
           NEW families, List(families), NEW ps, Wrapped(ps, c.params, Len(families), at, t),
           NEW rows, rows = SnapshotRows(c, ps, families, db, now)
    PROVE  KnownThen(rows, q, db, t, now, families, at)
  <1> DEFINE n == Len(c.params)
             Of(i) == ps[1 + n + 2 * i]
             At(i) == ps[1 + n + 2 * i - 1]
             S(u, i) == {f \in db.features : /\ f.user_id = u /\ f.tenant_id = Of(i)
                                             /\ f.feature_name = families[i]
                                             /\ Compare(f.as_of_ts, "le", At(i))}
             Cell(u, i) == IF S(u, i) = {} THEN Null ELSE ArgMax(S(u, i))
             U == Segments(c, SubSeq(ps, 2, n + 1), db, now)
             Row(u) == [user |-> u, features |-> [i \in DOMAIN families |-> Cell(u, i)], hit_reason |-> ps[1]]
             K(u, i) == Known(Own(db, t), u, families[i], at)
  <1>1. rows = {Row(u) : u \in U}
    BY Zenon DEF SnapshotRows
  <1>2. U = Denotation(q, db, t, now, Rules)
    <2>1. Segments(c, c.params, db, now) = Denotation(q, db, t, now, Rules)
      BY CompilerCorrect
    <2> QED
      BY <2>1, Zenon DEF Wrapped
  <1>3. DOMAIN families = 1..Len(families)
    BY ListFacts
  <1>4. \A u : \A i \in DOMAIN families : S(u, i) = K(u, i)
    <2> SUFFICES ASSUME NEW u, NEW i \in DOMAIN families PROVE S(u, i) = K(u, i)
      OBVIOUS
    <2>1. At(i) = at /\ Of(i) = t
      BY <1>3 DEF Wrapped
    <2>2. \A f \in db.features : Compare(f.as_of_ts, "le", at) <=> f.as_of_ts <= at
      BY DEF Compare, Database
    <2>3. Own(db, t).features = {f \in db.features : f.tenant_id = t}
      BY OwnFacts
    <2>4. at # Null
      BY SegmentAssumption
    <2>5. K(u, i) = {f \in Own(db, t).features : f.user_id = u /\ f.feature_name = families[i] /\ f.as_of_ts <= at}
      BY <2>4 DEF Known
    <2> HIDE DEF At, Of, K
    <2> QED
      BY <2>1, <2>2, <2>3, <2>5
  <1> HIDE DEF U, S, K
  <1>5. \A u : Row(u).user = u /\ DOMAIN Row(u).features = DOMAIN families
               /\ \A i \in DOMAIN families : Row(u).features[i] = Cell(u, i)
    OBVIOUS
  <1> HIDE DEF Row, Cell
  <1>6. {x.user : x \in rows} = U
    <2>1. \A u : Row(u).user = u
      BY <1>5
    <2>2. \A x \in rows : x.user \in U
      BY <1>1, <2>1
    <2>3. \A u \in U : \E x \in rows : x.user = u
      BY <1>1, <2>1
    <2> QED
      BY <2>2, <2>3
  <1>7. ASSUME NEW x \in rows, NEW i \in DOMAIN x.features
        PROVE  IF K(x.user, i) = {} THEN x.features[i] = Null ELSE x.features[i] = ArgMax(K(x.user, i))
    <2>1. PICK u \in U : x = Row(u)
      BY <1>1
    <2>2. x.user = u /\ i \in DOMAIN families /\ x.features[i] = Cell(u, i)
      BY <1>5, <2>1
    <2>3. x.features[i] = IF K(u, i) = {} THEN Null ELSE ArgMax(K(u, i))
      BY <1>4, <2>2 DEF Cell
    <2> QED
      BY <2>2, <2>3
  <1> QED
    BY <1>2, <1>6, <1>7 DEF K, KnownThen

\* The snapshot is committed, or the job fails.
LEMMA InsertKeeps ==
    ASSUME IInv, NEW r \in Requests, Insert(r)
    PROVE  IInv'
  <1> DEFINE y == req[r]
             a == y.ask
             c == Compiled(r)
             rows == SnapshotRows(c, wrap_params(r), y.families, Latest, clock)
             new == [by |-> r, as_of |-> y.as_of, version |-> Len(log), at |-> clock, rows |-> rows]
  <1>1. y.pc = "insert" /\ RequestOK(r, y) /\ r \in DOMAIN req /\ UNCHANGED env /\ UNCHANGED stuck
    BY DEF Insert, IInv
  <1>2. stuck' \in 0..Workers
    BY <1>1 DEF IInv, EngineOK
  <1>3. CASE End(r, "failed") /\ UNCHANGED snaps
    <2>1. y.pc \in Busy
      BY <1>1 DEF Busy
    <2>2. PICK x : Moves(r, x)
      BY <1>3, <2>1, FailMoves
    <2> QED
      BY <1>1, <1>2, <1>3, <2>2, MoveIInv
  <1>4. CASE Bindable(c, Latest) /\ snaps' = snaps \cup {new} /\ End(r, "done")
    <2> DEFINE x == [y EXCEPT !.pc = "done"]
    <2>1. req' = [req EXCEPT ![r] = x] /\ Release(r, "done")
      BY <1>4 DEF End
    <2>2. a.kind = "job" /\ a.kind # "sql" /\ y.pc \in Past \cup {"catalogue", "waiting", "done"}
      BY <1>1 DEF RequestOK, Flow, Past, Counted
    <2>3. /\ Ranges(x) /\ x.pc = "done" /\ x.ask = y.ask /\ x.tables = y.tables /\ x.names = y.names
          /\ x.limit = y.limit /\ x.reads = y.reads /\ x.families = y.families
      <3>1. Ranges(y) /\ DOMAIN y = Fields
        BY <1>1 DEF RequestOK, Ranges
      <3> QED
        BY <3>1, PcFacts DEF Fields
    <2> HIDE DEF x
    <2>4. Moves(r, x)
      <3>1. Flow(r, x)
        BY <1>1, <2>2, <2>3 DEF RequestOK, Flow, Past, Counted, Busy, Inside
      <3>2. Compiles(x)
        BY <1>1, <2>2, <2>3 DEF RequestOK, Compiles, Counted
      <3>3. Checked(x)
        BY <1>1, <2>3 DEF RequestOK, Checked, Past, Counted, Busy, Inside
      <3>4. Answers(x)
        BY <2>2, <2>3 DEF Answers
      <3>5. RequestOK(r, x)
        BY <2>3, <3>1, <3>2, <3>3, <3>4 DEF RequestOK
      <3>6. permits' = permits + Held(y) - Held(x) /\ Held(x) = 0
        <4>1. permits \in Nat
          BY DEF IInv
        <4>2. Held(x) = 0 /\ ~Holds(r) /\ Held(y) = 0
          BY <2>2, <2>3 DEF Held, Holds, Asked, Inside
        <4> QED
          BY <2>1, <4>1, <4>2 DEF Release
      <3> QED
        BY <1>1, <2>1, <3>5, <3>6, Zenon DEF Moves
    <2>5. /\ Valid(a.q) /\ RulesOK(Rules) /\ c = compile_with_opts(a.q, a.tenant, Rules, y.limit)
          /\ c.ok /\ List(c.params)
      <3>1. a \in Menu[r] /\ validate(a.q) /\ Valid(a.q) /\ c = compile_with_opts(a.q, a.tenant, Rules, y.limit)
        BY <1>1, <2>2, RequestFacts DEF Compiled
      <3>2. RulesOK(Rules) /\ List(c.params)
        BY <2>2, <3>1, AskFacts, CompiledLists
      <3>3. c.ok
        BY <1>1, <2>2 DEF RequestOK, Compiles, Counted, Compiled
      <3> QED
        BY <3>1, <3>2, <3>3
    <2>6. Len(log) \in Versions /\ Latest = Db(Len(log)) /\ Database(Latest) /\ clock \in Int
      BY VersionFacts
    <2>7. List(y.families) /\ y.as_of \in 0..MaxClock /\ y.as_of \in Int
      BY <1>1, QueryEngineAssumption DEF RequestOK, Ranges
    <2> DEFINE ps == wrap_params(r)
               k == Len(y.families)
    <2>8. Wrapped(ps, c.params, k, y.as_of, a.tenant)
      <3> DEFINE piv == [i \in 1..(2 * k) |-> IF i % 2 = 1 THEN y.as_of ELSE a.tenant]
                 e == a.q[1].ops
                 P == c.params
      <3>1. ps = <<e>> \o P \o piv
        BY Zenon DEF wrap_params, Asked
      <3>2. k \in Nat
        BY <2>7, ListFacts
      <3>3. piv = [i \in 1..(2 * k) |-> IF i % 2 = 1 THEN y.as_of ELSE a.tenant]
        OBVIOUS
      <3>4. List(P)
        BY <2>5
      <3> HIDE DEF k, c, e, piv, ps, P
      <3>5. Wrapped(ps, P, k, y.as_of, a.tenant)
        BY ONLY <3>1, <3>2, <3>3, <3>4, WrapFacts
      <3> QED
        BY <3>5 DEF P
    <2> HIDE DEF c, ps
    <2>9. KnownThen(rows, a.q, Latest, a.tenant, clock, y.families, y.as_of)
      <3> DEFINE q == a.q
                 t == a.tenant
                 families == y.families
                 at == y.as_of
                 limit == y.limit
      <3>1. rows = SnapshotRows(c, ps, families, Latest, clock)
        BY DEF ps
      <3>2. Valid(q) /\ RulesOK(Rules) /\ c = compile_with_opts(q, t, Rules, limit) /\ c.ok
        BY <2>5
      <3>3. Database(Latest) /\ Bindable(c, Latest) /\ clock \in Int /\ at \in Int /\ List(families)
        BY <1>4, <2>6, <2>7
      <3>4. Wrapped(ps, c.params, Len(families), at, t)
        BY <2>8
      <3> HIDE DEF rows, q, t, families, at, limit
      <3>5. KnownThen(rows, q, Latest, t, clock, families, at)
        BY ONLY <3>1, <3>2, <3>3, <3>4, SnapshotMeans
      <3> QED
        BY <3>5 DEF q, t, families, at
    <2> HIDE DEF rows
    <2>10. req'[r].pc = "done" /\ req'[r].ask = a /\ req'[r].families = y.families
      BY <1>1, <2>1, <2>3
    <2>11. log' = log
      BY <1>1 DEF env
    <2>12. PICK s : s = new
      OBVIOUS
    <2>13. s.by = r /\ s.as_of = y.as_of /\ s.version = Len(log) /\ s.at = clock /\ s.rows = rows
      BY <2>12
    <2>14. snaps' = snaps \cup {s}
      BY <1>4, <2>12
    <2> HIDE DEF new
    <2>15. Recorded(s)'
      BY <2>2, <2>6, <2>7, <2>10, <2>11, <2>13 DEF Recorded, Asked, Versions
    <2>16. PointInTime(s)'
      <3>1. Db(s.version)' = Latest
        BY <2>6, <2>11, <2>13 DEF Db
      <3> QED
        BY <2>9, <2>10, <2>13, <3>1 DEF PointInTime, Asked, KnownThen
    <2> QED
      BY <1>1, <1>2, <2>4, <2>14, <2>15, <2>16, MoveIInv
  <1> QED
    BY <1>3, <1>4, Zenon DEF Insert

-----------------------------------------------------------------------------
(***************************************************************************)
(* The invariant is inductive.                                             *)
(***************************************************************************)
\* The invariant holds at first.
LEMMA InitKeeps == Init => IInv
  <1> SUFFICES ASSUME Init PROVE IInv
    OBVIOUS
  <1>1. PICK v \in DOMAIN Content : log = <<v>>
    BY DEF Init
  <1>2. Len(log) = 1 /\ log \in Seq(DOMAIN Content) /\ Versions = {1}
    BY <1>1 DEF Versions
  <1>3. EngineOK
    <2>1. \A k \in Versions : Db(k) = Latest
      BY <1>2 DEF Latest
    <2>2. 1 \in 1..MaxVersions /\ 0 \in 0..MaxClock /\ 0 \in 0..Workers
      BY QueryEngineAssumption
    <2>3. registry \in [Datasets -> Meta] /\ clock = 0 /\ stuck = 0 /\ \A d \in Datasets : registry[d].epoch = 0
      BY DEF Init, Meta, Unknown
    <2> QED
      BY <1>2, <2>1, <2>2, <2>3 DEF EngineOK
  <1>4. req = [r \in Requests |-> Fresh]
    BY DEF Init
  <1>5. \A r \in Requests : req[r] = Fresh
    BY <1>4
  <1>6. ASSUME NEW r \in Requests PROVE RequestOK(r, Fresh)
    <2>1. /\ DOMAIN Fresh = Fields /\ Fresh.pc = "new" /\ Fresh.limit = Null
          /\ Fresh.reads = [y \in Reads |-> NoRead] /\ Fresh.as_of = 0 /\ Fresh.label.lag = 0
          /\ Fresh.families = <<>>
      BY DEF Fresh, Fields
    <2>2. Ranges(Fresh)
      BY <2>1, ElementsShort, QueryEngineAssumption DEF Ranges
    <2>3. Flow(r, Fresh)
      BY <2>1 DEF Flow, Past, Counted, Busy, Inside
    <2>4. Compiles(Fresh) /\ Checked(Fresh) /\ Answers(Fresh)
      BY <2>1 DEF Compiles, Checked, Answers, Past, Counted, Busy, Inside
    <2> QED
      BY <2>2, <2>3, <2>4 DEF RequestOK
  <1>7. permits \in Nat /\ PermitsConserved
    <2> DEFINE H == {r \in Requests : Holds(r)}
    <2>1. \A r \in Requests : ~Holds(r)
      BY <1>5 DEF Fresh, Holds, Inside
    <2>2. H = {}
      BY <2>1
    <2> HIDE DEF H
    <2>3. Cardinality(H) = 0
      BY <2>2, FS_EmptySet
    <2> QED
      BY <2>3, QueryEngineAssumption DEF Init, PermitsConserved, H
  <1>8. snaps = {}
    BY DEF Init
  <1>9. req = [r \in Requests |-> req[r]]
    BY <1>4
  <1> QED
    BY <1>3, <1>5, <1>6, <1>7, <1>8, <1>9 DEF IInv

\* Registrations, time and workers do not touch what the requests know.
LEMMA EngineMoves ==
    ASSUME IInv, UNCHANGED <<log, permits, req, snaps>>, EngineOK'
    PROVE  IInv'
  <1>1. log' = log /\ permits' = permits /\ req' = req /\ snaps' = snaps
    OBVIOUS
  <1>2. ASSUME NEW r \in Requests PROVE RequestOK(r, req[r])'
    <2>1. RequestOK(r, req[r])
      BY DEF IInv
    <2> QED
      BY <1>1, <2>1 DEF RequestOK, Ranges, Flow, Compiles, Checked, Answers, Survived, HasValues, Versions, Db, Latest
  <1>3. ASSUME NEW s \in snaps PROVE (Recorded(s) /\ PointInTime(s))'
    <2>1. Recorded(s) /\ PointInTime(s)
      BY DEF IInv
    <2> QED
      BY <1>1, <2>1 DEF Recorded, PointInTime, Asked, Versions, Db
  <1>4. permits' \in Nat /\ PermitsConserved'
    BY <1>1 DEF IInv, PermitsConserved, Holds, Asked
  <1>5. (req = [r \in Requests |-> req[r]])'
    BY <1>1 DEF IInv
  <1> QED
    BY <1>1, <1>2, <1>3, <1>4, <1>5 DEF IInv

\* A commit leaves the older versions as they are, and everything that was
\* found in the catalogue and in the feature store is still there.
LEMMA CommitKeeps ==
    ASSUME IInv, NEW new \in DOMAIN Content, Commit(new)
    PROVE  IInv'
  <1>0. PICK n : n = Len(log)
    OBVIOUS
  <1>1. /\ log \in Seq(DOMAIN Content) /\ n \in 1..MaxVersions /\ n < MaxVersions
        /\ log' = Append(log, new) /\ n \in Nat /\ MaxVersions \in Nat
    BY <1>0, QueryEngineAssumption DEF Commit, IInv, EngineOK
  <1>2. registry' = registry /\ clock' = clock /\ permits' = permits /\ stuck' = stuck /\ req' = req /\ snaps' = snaps
    BY DEF Commit
  <1>3. /\ log' \in Seq(DOMAIN Content) /\ Len(log') = n + 1 /\ log'[n + 1] = new
        /\ \A v \in 1..n : log'[v] = log[v]
    BY <1>0, <1>1
  <1>4. Versions = 1..n /\ Versions' = 1..(n + 1) /\ Versions \subseteq Versions'
    BY <1>0, <1>1, <1>3 DEF Versions
  <1>5. \A v \in Versions : Db(v)' = Db(v)
    BY <1>3, <1>4 DEF Db
  <1>6. Latest' = Content[new] /\ Db(n + 1)' = Latest'
    BY <1>3 DEF Latest, Db
  <1>7. /\ Latest.features \subseteq Latest'.features
        /\ Latest.catalogue \subseteq Latest'.catalogue
    BY <1>6 DEF Commit
  <1>8. EngineOK'
    <2>1. ASSUME NEW v \in 1..(n + 1)
          PROVE  Db(v)'.features \subseteq Latest'.features /\ Db(v)'.catalogue \subseteq Latest'.catalogue
      <3>1. CASE v = n + 1
        BY <1>6, <3>1
      <3>2. CASE v # n + 1
        <4>1. v \in Versions
          BY <1>1, <1>4, <3>2
        <4>2. Db(v).features \subseteq Latest.features /\ Db(v).catalogue \subseteq Latest.catalogue
          BY <4>1 DEF IInv, EngineOK
        <4> QED
          BY <1>5, <1>7, <4>1, <4>2
      <3> QED
        BY <3>1, <3>2
    <2>2. Len(log') \in 1..MaxVersions
      BY <1>1, <1>3
    <2> QED
      BY <1>2, <1>3, <1>4, <2>1, <2>2 DEF IInv, EngineOK
  <1>9. /\ \A d : Catalogued(Latest, d) \subseteq Catalogued(Latest', d)
        /\ \A a, k : HasValues(a, k) => HasValues(a, k)'
    BY <1>7 DEF Catalogued, HasValues
  <1>10. ASSUME NEW r \in Requests PROVE RequestOK(r, req[r])'
    <2>1. PICK x : x = req[r]
      OBVIOUS
    <2>2. req'[r] = x /\ RequestOK(r, x)
      BY <1>2, <2>1 DEF IInv
    <2>3. Ranges(x) /\ Flow(r, x)
      BY <2>2 DEF RequestOK
    <2>4. Compiles(x)'
      BY <1>4, <1>5, <2>2 DEF RequestOK, Compiles, Survived
    <2>5. Checked(x)'
      BY <1>9, <2>2 DEF RequestOK, Checked
    <2>6. Answers(x)'
      BY <1>4, <1>5, <2>2 DEF RequestOK, Answers, Survived
    <2> QED
      BY <2>2, <2>3, <2>4, <2>5, <2>6 DEF RequestOK
  <1>11. ASSUME NEW s \in snaps PROVE (Recorded(s) /\ PointInTime(s))'
    <2>1. Recorded(s) /\ PointInTime(s)
      BY DEF IInv
    <2>2. s.version \in Versions
      BY <2>1 DEF Recorded
    <2>3. Recorded(s)'
      BY <1>2, <1>4, <2>1 DEF Recorded, Asked
    <2>4. PointInTime(s)'
      BY <1>2, <1>5, <2>1, <2>2 DEF PointInTime, Asked
    <2> QED
      BY <2>3, <2>4
  <1>12. permits' \in Nat /\ PermitsConserved'
    BY <1>2 DEF IInv, PermitsConserved, Holds, Asked
  <1>13. (req = [r \in Requests |-> req[r]])'
    BY <1>2 DEF IInv
  <1> QED
    BY <1>2, <1>8, <1>10, <1>11, <1>12, <1>13 DEF IInv

\* The other steps of the engine.
LEMMA EngineKeeps ==
    ASSUME IInv,
           \/ \E d \in Datasets : \E type \in {"batch", "cdc"} : set(d, type)
           \/ Tick \/ OrphanEnds \/ UNCHANGED vars
    PROVE  IInv'
  <1>0. EngineOK /\ clock \in Nat /\ clock \in 0..MaxClock
    BY QueryEngineAssumption DEF IInv, EngineOK
  <1>1. CASE \E d \in Datasets : \E type \in {"batch", "cdc"} : set(d, type)
    <2>1. PICK d \in Datasets, type \in {"batch", "cdc"} : set(d, type)
      BY <1>1
    <2> DEFINE m == [type |-> type, epoch |-> clock]
    <2>2. /\ registry' = [registry EXCEPT ![d] = m]
          /\ UNCHANGED <<log, clock, permits, stuck, req, snaps>>
      BY <2>1 DEF set
    <2>3. m \in Meta /\ m.epoch = clock
      BY <1>0 DEF Meta
    <2> HIDE DEF m
    <2>4. registry' \in [Datasets -> Meta] /\ \A k \in Datasets : registry'[k].epoch <= clock
      BY <1>0, <2>2, <2>3 DEF EngineOK
    <2>5. EngineOK'
      BY <1>0, <2>2, <2>4 DEF EngineOK, Versions, Db, Latest
    <2> QED
      BY <2>2, <2>5, EngineMoves
  <1>2. CASE Tick
    <2>1. clock' = clock + 1 /\ clock < MaxClock /\ UNCHANGED <<log, registry, permits, stuck, req, snaps>>
      BY <1>2 DEF Tick
    <2>2. \A d \in Datasets : registry[d].epoch <= clock'
      <3> SUFFICES ASSUME NEW d \in Datasets PROVE registry[d].epoch <= clock'
        OBVIOUS
      <3>1. registry[d] \in Meta /\ registry[d].epoch <= clock
        BY <1>0 DEF EngineOK
      <3>2. registry[d].epoch \in Int
        BY <3>1, QueryEngineAssumption DEF Meta, Unknown
      <3> QED
        BY <1>0, <2>1, <3>1, <3>2
    <2>3. clock' \in 0..MaxClock
      BY <1>0, <2>1, QueryEngineAssumption
    <2>4. EngineOK'
      BY <1>0, <2>1, <2>2, <2>3 DEF EngineOK, Versions, Db, Latest
    <2> QED
      BY <2>1, <2>4, EngineMoves
  <1>3. CASE OrphanEnds
    <2>1. stuck > 0 /\ stuck' = stuck - 1 /\ UNCHANGED <<log, registry, clock, permits, req, snaps>>
      BY <1>3 DEF OrphanEnds, env
    <2>2. stuck' \in 0..Workers
      BY <1>0, <2>1, QueryEngineAssumption DEF EngineOK
    <2>3. EngineOK'
      BY <1>0, <2>1, <2>2 DEF EngineOK, Versions, Db, Latest
    <2> QED
      BY <2>1, <2>3, EngineMoves
  <1>4. CASE UNCHANGED vars
    <2>1. UNCHANGED <<log, registry, clock, permits, stuck, req, snaps>>
      BY <1>4 DEF vars
    <2>2. EngineOK'
      BY <1>0, <2>1 DEF EngineOK, Versions, Db, Latest
    <2> QED
      BY <2>1, <2>2, EngineMoves
  <1> QED
    BY <1>1, <1>2, <1>3, <1>4

\* What a request does, the snapshots apart: its record changes, and no other.
LEMMA RequestMoves ==
    ASSUME IInv, NEW r \in Requests,
           (\E a \in Menu[r] : Submit(r, a)) \/ Read(r) \/ Advance(r) \/ Cancel(r), ~Insert(r)
    PROVE  /\ \E x : Moves(r, x)
           /\ UNCHANGED env /\ UNCHANGED snaps /\ stuck' \in 0..Workers
  <1>1. stuck \in 0..Workers
    BY DEF IInv, EngineOK
  <1>2. CASE \E a \in Menu[r] : Submit(r, a)
    <2>1. PICK a \in Menu[r] : Submit(r, a)
      BY <1>2
    <2>2. UNCHANGED <<env, stuck, snaps>>
      BY <2>1 DEF Submit
    <2> QED
      BY <1>1, <2>1, <2>2, SubmitMoves
  <1>3. CASE Count(r)
    <2>1. UNCHANGED <<env, stuck, snaps>>
      BY <1>3, Zenon DEF Count
    <2> QED
      BY <1>1, <1>3, <2>1, CountMoves
  <1>4. CASE Run(r)
    <2>1. UNCHANGED <<env, stuck, snaps>>
      BY <1>4, Zenon DEF Run
    <2> QED
      BY <1>1, <1>4, <2>1, RunMoves
  <1>5. CASE Profile(r)
    <2>1. UNCHANGED <<env, stuck, snaps>>
      BY <1>5, Zenon DEF Profile
    <2> QED
      BY <1>1, <1>5, <2>1, ProfileMoves
  <1>6. CASE RunSql(r)
    <2>1. UNCHANGED <<env, stuck, snaps>>
      BY <1>6, Zenon DEF RunSql
    <2> QED
      BY <1>1, <1>6, <2>1, RunSqlMoves
  <1>7. CASE \E d \in req[r].tables : CheckTable(r, d)
    <2>1. PICK d \in req[r].tables : CheckTable(r, d)
      BY <1>7
    <2>2. UNCHANGED <<env, stuck, snaps>>
      BY <2>1, Zenon DEF CheckTable
    <2> QED
      BY <1>1, <2>1, <2>2, CheckTableMoves
  <1>8. CASE \E n \in req[r].names : CheckName(r, n)
    <2>1. PICK n \in req[r].names : CheckName(r, n)
      BY <1>8
    <2>2. UNCHANGED <<env, stuck, snaps>>
      BY <2>1, Zenon DEF CheckName
    <2> QED
      BY <1>1, <2>1, <2>2, CheckNameMoves
  <1>9. CASE Acquire(r)
    <2>1. UNCHANGED <<env, stuck, snaps>>
      BY <1>9, Zenon DEF Acquire
    <2> QED
      BY <1>1, <1>9, <2>1, AcquireMoves
  <1>10. CASE Compile(r)
    <2>1. UNCHANGED <<env, stuck, snaps>>
      BY <1>10, Zenon DEF Compile
    <2> QED
      BY <1>1, <1>10, <2>1, CompileMoves
  <1>11. CASE Explain(r)
    <2>1. UNCHANGED <<env, snaps>>
      BY <1>11, Zenon DEF Explain
    <2> QED
      BY <1>11, <2>1, ExplainMoves
  <1>12. CASE Label(r)
    <2>1. UNCHANGED <<env, stuck, snaps>>
      BY <1>12, Zenon DEF Label
    <2>2. \E x : Moves(r, x)
      BY <1>12, LabelMoves
    <2> QED
      BY <1>1, <2>1, <2>2
  <1>13. CASE GiveUp(r) \/ Cancel(r)
    <2>1. UNCHANGED <<env, snaps>>
      BY <1>13, Zenon DEF GiveUp, Cancel
    <2> QED
      BY <1>13, <2>1, EndedMoves
  <1>14. CASE Freeze(r)
    <2>1. UNCHANGED <<env, stuck, snaps>>
      BY <1>14, Zenon DEF Freeze
    <2>2. \E x : Moves(r, x)
      BY <1>14, FreezeMoves
    <2> QED
      BY <1>1, <2>1, <2>2
  <1>15. CASE Families(r)
    <2>1. UNCHANGED <<env, snaps>>
      BY <1>15, Zenon DEF Families
    <2> QED
      BY <1>15, <2>1, FamiliesMoves
  <1> QED
    BY <1>2, <1>3, <1>4, <1>5, <1>6, <1>7, <1>8, <1>9, <1>10, <1>11, <1>12, <1>13, <1>14, <1>15, Zenon
    DEF Read, Advance

\* Every step keeps the invariant.
LEMMA NextKeeps ==
    ASSUME IInv, [Next]_vars
    PROVE  IInv'
  <1>1. ASSUME NEW r \in Requests, (\E a \in Menu[r] : Submit(r, a)) \/ Read(r) \/ Advance(r) \/ Cancel(r)
        PROVE  IInv'
    <2>1. CASE Insert(r)
      BY <2>1, InsertKeeps
    <2>2. CASE ~Insert(r)
      <3>1. (\E x : Moves(r, x)) /\ UNCHANGED env /\ UNCHANGED snaps /\ stuck' \in 0..Workers
        BY <1>1, <2>2, RequestMoves
      <3>2. PICK x : Moves(r, x)
        BY <3>1
      <3>3. \A s \in snaps' : s \in snaps
        BY <3>1
      <3> QED
        BY <3>1, <3>2, <3>3, MoveIInv
    <2> QED
      BY <2>1, <2>2
  <1>2. CASE \E v \in DOMAIN Content : Commit(v)
    BY <1>2, CommitKeeps
  <1>3. CASE \/ \E d \in Datasets : \E type \in {"batch", "cdc"} : set(d, type)
             \/ Tick \/ OrphanEnds \/ UNCHANGED vars
    BY <1>3, EngineKeeps
  <1> QED
    BY <1>1, <1>2, <1>3, Zenon DEF Next

\* The inductive invariant.
LEMMA Inductive == Spec => []IInv
  <1>1. Init => IInv
    BY InitKeeps
  <1>2. IInv /\ [Next]_vars => IInv'
    BY NextKeeps
  <1> QED
    BY <1>1, <1>2, PTL DEF Spec

-----------------------------------------------------------------------------
(***************************************************************************)
(* What follows.                                                           *)
(***************************************************************************)
\* Type correctness: the log of versions, the registry, the clock, the permits,
\* the workers and the requests stay in range, whatever the engine does.
THEOREM TypeCorrect == Spec => []TypeOK
  <1>1. ASSUME IInv PROVE TypeOK
    <2>1. permits \in 0..Permits
      <3> DEFINE H == {r \in Requests : Holds(r)}
      <3>1. IsFiniteSet(H)
        <4>1. H \in SUBSET Requests
          OBVIOUS
        <4> HIDE DEF H
        <4> QED
          BY <4>1, QueryEngineAssumption, FS_Subset
      <3>2. permits + Cardinality(H) = Permits /\ permits \in Nat
        BY <1>1 DEF IInv, PermitsConserved
      <3> HIDE DEF H
      <3>3. Cardinality(H) \in Nat
        BY <3>1, FS_CardinalityType
      <3> QED
        BY <3>2, <3>3, QueryEngineAssumption
    <2>2. ASSUME NEW r \in Requests
          PROVE  /\ req[r].pc \in Busy \cup {"new", "done", "failed"}
                 /\ req[r].limit \in Nat \cup {Null}
                 /\ req[r].label.lag \in 0..MaxClock
      <3>1. RequestOK(r, req[r])
        BY <1>1 DEF IInv
      <3> QED
        BY <3>1, QueryEngineAssumption DEF RequestOK, Ranges
    <2>3. \A s \in snaps : s.by \in Requests /\ s.as_of \in 0..MaxClock
      BY <1>1 DEF IInv, Recorded
    <2> QED
      BY <1>1, <2>1, <2>2, <2>3 DEF IInv, EngineOK, TypeOK
  <1> QED
    BY <1>1, Inductive, PTL

\* Permits are neither leaked nor minted (QueryEngine::inflight): not by a
\* timeout, a rejected query, a failed read or a client that goes away.
THEOREM PermitsKept == Spec => []PermitsConserved
  <1>1. IInv => PermitsConserved
    BY DEF IInv
  <1> QED
    BY <1>1, Inductive, PTL

\* Whatever statement is run names only columns that are catalogued and features
\* of the tenant (enforce_catalogue), also after other tenants onboarded more.
THEOREM OnlyCatalogued == Spec => []CataloguedOnly
  <1>1. ASSUME IInv PROVE CataloguedOnly
    <2> SUFFICES ASSUME NEW r \in Requests, EnforceCatalogue,
                        req[r].pc \in {"run", "metrics", "label", "done", "insert"}, Asked(r).kind # "sql"
                 PROVE  /\ \A x \in SqlColumns(Compiled(r)) : x[2] \in Catalogued(Latest, x[1])
                        /\ \A n \in SqlFeatures(Compiled(r)) :
                             \E f \in Latest.features : f.feature_name = n /\ f.tenant_id = Asked(r).tenant
      BY DEF CataloguedOnly
    <2> DEFINE y == req[r]
               c == Compiled(r)
    <2>1. RequestOK(r, y) /\ y.ask.kind # "sql"
      BY <1>1 DEF IInv, Asked
    <2>2. /\ y.pc \in Past \cup {"catalogue", "waiting", "done"} /\ y.pc \in Counted \cup {"done"}
          /\ y.pc \in Past \cup {"done"} /\ y.pc \in Busy \cup {"done"}
      BY DEF Past, Counted, Busy, Inside
    <2>3. Valid(y.ask.q) /\ c = compile_with_opts(y.ask.q, y.ask.tenant, Rules, y.limit)
      BY <2>1, <2>2, RequestFacts DEF Compiled
    <2>4. c.ok
      BY <2>1, <2>2 DEF RequestOK, Compiles, Compiled
    <2>5. /\ \A z \in referenced_columns(y.ask.q) : z[2] \in Catalogued(Latest, z[1])
          /\ \A n \in referenced_features(y.ask.q) : HasValues(y.ask, n)
      BY <2>1, <2>2 DEF RequestOK, Checked
    <2> HIDE DEF c
    <2>6. SqlColumns(c) \subseteq referenced_columns(y.ask.q) /\ SqlFeatures(c) \subseteq referenced_features(y.ask.q)
      BY <2>3, <2>4, QueryNames
    <2> QED
      BY <2>5, <2>6 DEF c, HasValues, Asked
  <1> QED
    BY <1>1, Inductive, PTL

\* The rows of every answered query are what the query means on the tenant's own
\* data, in the version and at the time of its read (run_sync), whatever the
\* other tenants store and the other requests do.
THEOREM AnswersRight == Spec => []AnswerIsDenotation
  <1>1. ASSUME IInv PROVE AnswerIsDenotation
    <2>1. \A r \in Requests : RequestOK(r, req[r])
      BY <1>1 DEF IInv
    <2> QED
      BY <2>1 DEF AnswerIsDenotation, RequestOK, Answers, Answered, Asked
  <1> QED
    BY <1>1, Inductive, PTL

\* A Derive is computed over survivors only, never over more than the cap, and
\* over all of them if nothing changed between its two reads
\* (derive_survivor_limit and the LIMIT of the compiled statement).
THEOREM DerivesWithin == Spec => []DeriveWithinSurvivors
  <1>1. ASSUME IInv PROVE DeriveWithinSurvivors
    <2> SUFFICES ASSUME NEW r \in Requests, Answered(r), has_derive(Asked(r).q)
                 PROVE  LET a == Asked(r)  x == req[r].reads["run"]
                            S == Denotation(strip_last_op(a.q), Db(x.version), a.tenant, x.at, Rules)
                        IN  /\ req[r].answer.over \subseteq S
                            /\ Cardinality(req[r].answer.over) <= SurvivorCap
                            /\ req[r].reads["count"] = x => req[r].answer.over = S
                            /\ req[r].answer.value =
                                 MetricOver(a.q[1].ops[Len(a.q[1].ops)], Db(x.version), a.tenant, req[r].answer.over)
      BY Zenon DEF DeriveWithinSurvivors
    <2> DEFINE y == req[r]
               a == y.ask
               x == y.reads["run"]
               S == Survived(a, Db(x.version), x.at)
               T == y.answer.over
    <2>1. RequestOK(r, y) /\ a.kind = "dsl" /\ y.pc \in {"label", "done"} /\ has_derive(a.q)
      BY <1>1 DEF IInv, Answered, Asked
    <2>2. /\ T \in Limited(S, y.limit) /\ IsFiniteSet(S)
          /\ y.answer.value = MetricOver(LastOp(a.q), Db(x.version), a.tenant, T)
      BY <2>1 DEF RequestOK, Answers
    <2>3. /\ y.limit # Null /\ y.limit \in {Null} \cup 0..SurvivorCap
          /\ y.limit = Cardinality(Survived(a, Db(y.reads["count"].version), y.reads["count"].at))
      BY <2>1 DEF RequestOK, Compiles, Counted, Ranges
    <2>4. LastOp(a.q) = a.q[1].ops[Len(a.q[1].ops)]
      <3>1. Valid(a.q)
        BY <2>1, RequestFacts DEF Past, Counted
      <3> QED
        BY <2>1, <3>1, TerminalFacts DEF Terminal
    <2>5. y.limit \in Nat /\ y.limit <= SurvivorCap
      BY <2>3, QueryEngineAssumption
    <2>6. y.reads["count"] = x => y.limit = Cardinality(S)
      BY <2>3
    <2> HIDE DEF S, T
    <2>7. T \subseteq S /\ Cardinality(T) = Min({y.limit, Cardinality(S)})
      BY <2>2 DEF Limited
    <2>8. Cardinality(S) \in Nat /\ (Cardinality(S) = Cardinality(T) => S = T)
      BY <2>2, <2>7, FS_CardinalityType, FS_Subset
    <2>9. Cardinality(T) = IF y.limit <= Cardinality(S) THEN y.limit ELSE Cardinality(S)
      BY <2>5, <2>7, <2>8, MinOfTwo
    <2>10. Cardinality(T) <= SurvivorCap
      BY <2>5, <2>8, <2>9, QueryEngineAssumption
    <2>11. y.reads["count"] = x => T = S
      BY <2>5, <2>6, <2>8, <2>9
    <2> QED
      BY <2>2, <2>4, <2>7, <2>10, <2>11 DEF S, T, Survived, Asked
  <1> QED
    BY <1>1, Inductive, PTL

\* A materialised audience is the segment of the version the writer saw, with
\* the feature values known at the job's cut-off (materialize and its wrapped
\* INSERT, whose parameters are bound by position).
THEOREM SnapshotsRight == Spec => []SnapshotIsPointInTime
  <1>1. ASSUME IInv PROVE SnapshotIsPointInTime
    <2>1. \A s \in snaps : PointInTime(s)
      BY <1>1 DEF IInv
    <2> QED
      BY <2>1 DEF SnapshotIsPointInTime, PointInTime
  <1> QED
    BY <1>1, Inductive, PTL

\* A step that changes a request is one of its own.
LEMMA OwnStep ==
    ASSUME IInv, Next, NEW r \in Requests, req'[r] # req[r]
    PROVE  (\E a \in Menu[r] : Submit(r, a)) \/ Read(r) \/ Advance(r) \/ Cancel(r)
  <1>1. ASSUME NEW i \in Requests, (\E a \in Menu[i] : Submit(i, a)) \/ Read(i) \/ Advance(i) \/ Cancel(i)
        PROVE  i = r
    <2> SUFFICES ASSUME i # r PROVE FALSE
      OBVIOUS
    <2>1. r \in DOMAIN req
      BY DEF IInv
    <2>2. CASE Insert(i)
      <3>1. End(i, "done") \/ End(i, "failed")
        BY <2>2, Zenon DEF Insert
      <3> QED
        BY <2>1, <3>1 DEF End
    <2>3. CASE ~Insert(i)
      <3>1. PICK x : Moves(i, x)
        BY <1>1, <2>3, RequestMoves
      <3> QED
        BY <2>1, <3>1 DEF Moves
    <2> QED
      BY <2>2, <2>3
  <1>2. ASSUME \/ \E v \in DOMAIN Content : Commit(v)
               \/ \E d \in Datasets : \E type \in {"batch", "cdc"} : set(d, type)
               \/ Tick \/ OrphanEnds
        PROVE  FALSE
    <2>1. req' = req
      BY <1>2 DEF Commit, set, Tick, OrphanEnds
    <2> QED
      BY <2>1
  <1> QED
    BY <1>1, <1>2, Zenon DEF Next

\* Where each step of a request begins.
LEMMA StepFrom ==
    ASSUME NEW r \in Requests,
           (\E a \in Menu[r] : Submit(r, a)) \/ Read(r) \/ Advance(r) \/ Cancel(r)
    PROVE  /\ req[r].pc = "label" => Label(r) \/ End(r, "failed")
           /\ req[r].pc = "freeze" => Freeze(r)
  <1>1. ASSUME NEW a \in Menu[r], Submit(r, a) PROVE req[r].pc = "new"
    BY <1>1, Zenon DEF Submit
  <1>2. ASSUME Count(r) PROVE req[r].pc = "count"
    BY <1>2, Zenon DEF Count
  <1>3. ASSUME Run(r) PROVE req[r].pc = "run"
    BY <1>3, Zenon DEF Run
  <1>4. ASSUME Profile(r) PROVE req[r].pc = "metrics" \/ req[r].pc = "recency" \/ req[r].pc = "categories"
    BY <1>4, Zenon DEF Profile
  <1>5. ASSUME RunSql(r) PROVE req[r].pc = "sql"
    BY <1>5, Zenon DEF RunSql
  <1>6. ASSUME NEW d, CheckTable(r, d) PROVE req[r].pc = "catalogue"
    BY <1>6, Zenon DEF CheckTable
  <1>7. ASSUME NEW n, CheckName(r, n) PROVE req[r].pc = "catalogue"
    BY <1>7, Zenon DEF CheckName
  <1>8. ASSUME Acquire(r) PROVE req[r].pc = "waiting"
    BY <1>8, Zenon DEF Acquire
  <1>9. ASSUME Compile(r) PROVE req[r].pc = "catalogue"
    BY <1>9, Zenon DEF Compile
  <1>10. ASSUME Explain(r) PROVE req[r].pc = "explain"
    BY <1>10, Zenon DEF Explain
  <1>11. ASSUME GiveUp(r) PROVE req[r].pc # "label" /\ req[r].pc # "freeze"
    BY <1>11 DEF GiveUp
  <1>12. ASSUME Cancel(r) PROVE End(r, "failed") /\ req[r].pc # "freeze"
    BY <1>12 DEF Cancel, Inside
  <1>13. ASSUME Families(r) PROVE req[r].pc = "families"
    BY <1>13, Zenon DEF Families
  <1>14. ASSUME Insert(r) PROVE req[r].pc = "insert"
    BY <1>14, Zenon DEF Insert
  <1>15. ASSUME Label(r) PROVE req[r].pc = "label"
    BY <1>15, Zenon DEF Label
  <1>16. CASE \E a \in Menu[r] : Submit(r, a)
    BY <1>1, <1>16
  <1>17. CASE Read(r)
    <2>1. req[r].pc \in {"count", "run", "metrics", "recency", "categories", "sql", "catalogue"}
      BY <1>2, <1>3, <1>4, <1>5, <1>6, <1>7, <1>17 DEF Read
    <2> QED
      BY <2>1
  <1>18. CASE Advance(r)
    <2>1. CASE Label(r)
      BY <1>15, <2>1
    <2>2. CASE Freeze(r)
      <3>1. req[r].pc = "freeze"
        BY <2>2, Zenon DEF Freeze
      <3> QED
        BY <2>2, <3>1
    <2>3. CASE Acquire(r) \/ Compile(r) \/ Explain(r) \/ GiveUp(r) \/ Families(r) \/ Insert(r)
      <3>1. req[r].pc # "label" /\ req[r].pc # "freeze"
        BY <1>8, <1>9, <1>10, <1>11, <1>13, <1>14, <2>3
      <3> QED
        BY <3>1
    <2> QED
      BY <1>18, <2>1, <2>2, <2>3, Zenon DEF Advance
  <1> QED
    BY <1>12, <1>16, <1>17, <1>18

\* The raw tables that a statement names are among its sources.
LEMMA SourcesCover ==
    ASSUME NEW r \in Requests, RequestOK(r, req[r]), req[r].pc \in {"label", "freeze"},
           NEW d \in SqlTables(Compiled(r)) \cap Datasets
    PROVE  /\ List(Compiled(r).sources)
           /\ \E i \in DOMAIN Compiled(r).sources : Compiled(r).sources[i] = d
  <1> DEFINE y == req[r]
             c == Compiled(r)
  <1>1. /\ y.pc \in Past \cup {"catalogue", "waiting", "done"} /\ y.pc \in Counted \cup {"done"}
        /\ y.ask.kind # "sql"
    BY DEF RequestOK, Flow, Past, Counted
  <1>2. Valid(y.ask.q) /\ c = compile_with_opts(y.ask.q, y.ask.tenant, Rules, y.limit)
    BY <1>1, RequestFacts DEF Compiled
  <1>3. c.ok
    BY <1>1 DEF RequestOK, Compiles, Compiled
  <1> HIDE DEF c
  <1>4. SqlTables(c) \subseteq Elements(c.sources) /\ List(c.sources)
    BY <1>2, <1>3, QueryNames, CompiledLists
  <1> QED
    BY <1>4 DEF c, Elements

\* The freshness label is no better than the registrations of the tables that
\* were read (FreshnessRegistry::worst), and a job's cut-off no later than any of
\* them (materialize).
THEOREM LabelsHonest == Spec => FreshnessHonest
  <1> DEFINE Honest ==
        \A r \in Requests :
         /\ req[r].pc = "label" /\ req'[r].pc = "done" =>
              \A d \in SqlTables(Compiled(r)) \cap Registered :
                 req'[r].label.lag >= clock - registry[d].epoch
         /\ req[r].pc = "freeze" /\ req'[r].pc = "families" =>
              \A d \in SqlTables(Compiled(r)) \cap Registered :
                 req'[r].as_of <= registry[d].epoch
  <1>1. ASSUME IInv, Next PROVE Honest
    <2>1. ASSUME NEW r \in Requests, req[r].pc = "label", req'[r].pc = "done",
                 NEW d \in SqlTables(Compiled(r)) \cap Registered
          PROVE  req'[r].label.lag >= clock - registry[d].epoch
      <3>1. RequestOK(r, req[r]) /\ r \in DOMAIN req
        BY <1>1 DEF IInv
      <3>2. req'[r] # req[r]
        BY <2>1
      <3>3. Label(r) \/ End(r, "failed")
        BY <1>1, <2>1, <3>2, OwnStep, StepFrom
      <3>4. ~End(r, "failed")
        <4>1. ASSUME End(r, "failed") PROVE FALSE
          <5>1. DOMAIN req[r] = Fields
            BY <3>1 DEF RequestOK, Ranges
          <5>2. req'[r].pc = "failed"
            BY <3>1, <4>1, <5>1 DEF End, Fields
          <5> QED
            BY <2>1, <5>2
        <4> QED
          BY <4>1
      <3> DEFINE s == Compiled(r).sources
      <3>5. PICK x : Moves(r, x) /\ x.label = worst(s, registry, clock)
        BY <1>1, <3>3, <3>4, LabelMoves
      <3>6. req'[r].label = worst(s, registry, clock)
        BY <3>1, <3>5 DEF Moves
      <3>7. d \in Datasets /\ registry[d] # Unknown
        BY DEF Registered
      <3>8. List(s) /\ \E i \in DOMAIN s : s[i] = d
        BY <2>1, <3>1, <3>7, SourcesCover
      <3>9. /\ \A k : get(registry, k) \in Meta /\ get(registry, k).epoch <= clock
            /\ get(registry, d) = registry[d] /\ clock \in Nat
        BY <1>1, <3>7, RegistryFacts
      <3> HIDE DEF s
      <3>10. LagOf(get(registry, d), clock) <= worst(s, registry, clock).lag
        BY <3>8, <3>9, WorstFacts
      <3>11. worst(s, registry, clock).lag \in 0..clock
        BY <3>8, <3>9, WorstFacts
      <3>12. registry[d].epoch \in Int
        BY <3>9, QueryEngineAssumption DEF Meta, Unknown
      <3> QED
        BY <3>6, <3>7, <3>9, <3>10, <3>11, <3>12 DEF LagOf
    <2>2. ASSUME NEW r \in Requests, req[r].pc = "freeze", req'[r].pc = "families",
                 NEW d \in SqlTables(Compiled(r)) \cap Registered
          PROVE  req'[r].as_of <= registry[d].epoch
      <3>1. RequestOK(r, req[r]) /\ r \in DOMAIN req
        BY <1>1 DEF IInv
      <3>2. req'[r] # req[r]
        BY <2>2
      <3>3. Freeze(r)
        BY <1>1, <2>2, <3>2, OwnStep, StepFrom
      <3> DEFINE s == Compiled(r).sources
      <3>4. PICK x : Moves(r, x) /\ x.as_of = AsOf(r)
        BY <1>1, <3>3, FreezeMoves
      <3>5. req'[r].as_of = AsOf(r)
        BY <3>1, <3>4 DEF Moves
      <3>6. d \in Datasets /\ registry[d] # Unknown
        BY DEF Registered
      <3>7. List(s) /\ \E i \in DOMAIN s : s[i] = d
        BY <2>2, <3>1, <3>6, SourcesCover
      <3>8. get(registry, d) = registry[d]
        BY <1>1, <3>6, RegistryFacts
      <3>9. \A i \in DOMAIN s : get(registry, s[i]) # Unknown => AsOf(r) <= get(registry, s[i]).epoch
        BY <1>1, <3>7, AsOfFacts
      <3> HIDE DEF s
      <3> QED
        BY <3>5, <3>6, <3>7, <3>8, <3>9
    <2> QED
      BY <2>1, <2>2
  <1>2. IInv /\ [Next]_vars =>
         [\A r \in Requests :
            /\ req[r].pc = "label" /\ req'[r].pc = "done" =>
                 \A d \in SqlTables(Compiled(r)) \cap Registered :
                    req'[r].label.lag >= clock - registry[d].epoch
            /\ req[r].pc = "freeze" /\ req'[r].pc = "families" =>
                 \A d \in SqlTables(Compiled(r)) \cap Registered :
                    req'[r].as_of <= registry[d].epoch]_vars
    BY <1>1, Zenon
  <1> QED
    BY <1>2, Inductive, PTL DEF Spec, FreshnessHonest

-----------------------------------------------------------------------------
(***************************************************************************)
(* Profiles: a second invariant, over what IInv says of the requests.      *)
(***************************************************************************)
\* The orders that a profile of the request a is about in the version of its
\* read y, and those of the segment.
OrdersOf(a, y)      == Own(Db(y.version), a.tenant).raw[LastOp(a.q).event]
SegmentOrders(a, y) == OrdersOfUsers(OrdersOf(a, y), Survived(a, Db(y.version), y.at))

Profiled(x) == x.pc \in Past \cup {"done"} /\ x.ask.kind = "dsl" /\ has_characterize(x.ask.q)

\* The totals in p are those of the read y of the request a.
TotalsOf(a, y, p) ==
    /\ y.version \in Versions /\ IsFiniteSet(OrdersOf(a, y)) /\ List(p)
    /\ p[1].seg.orders = Cardinality(SegmentOrders(a, y))
    /\ p[1].base.orders = Cardinality(OrdersOf(a, y))

\* The category counts in p are those of the read z, the cut-off applied.
CategoriesAt(a, z, p) ==
    /\ z.version \in Versions
    /\ p[3] \in Top(CategoryCounts(SegmentOrders(a, z), OrdersOf(a, z), LastOp(a.q).category))

\* A profile never takes the path of a single statement, and what its reads
\* have returned so far is what they saw.
ProfileOK(x) ==
    LET y == x.reads["run"]  z == x.reads["categories"]  p == x.answer.parts
    IN  Profiled(x) =>
          /\ x.pc \notin {"count", "explain", "run"}
          /\ x.pc \in {"recency", "categories", "label", "done"} => TotalsOf(x.ask, y, p)
          /\ x.pc = "recency" => Len(p) = 1
          /\ x.pc = "categories" => Len(p) = 2
          /\ x.pc \in {"label", "done"} => CategoriesAt(x.ask, z, p)
          /\ x.pc = "done" => x.answer.profile.mix = assemble_profile(p[1], p[2], p[3]).mix

ProfilesOK == \A r \in Requests : ProfileOK(req[r])

\* What a profile has read stays as it was, also when versions are committed.
LEMMA ProfileLasts ==
    ASSUME Versions \subseteq Versions', \A v \in Versions : Db(v)' = Db(v),
           NEW x, ProfileOK(x)
    PROVE  ProfileOK(x)'
  <1>1. ASSUME NEW a, NEW y, y.version \in Versions
        PROVE  OrdersOf(a, y)' = OrdersOf(a, y) /\ SegmentOrders(a, y)' = SegmentOrders(a, y)
    <2>1. Db(y.version)' = Db(y.version)
      BY <1>1
    <2> QED
      BY <2>1, Zenon DEF OrdersOf, SegmentOrders, Survived
  <1>2. ASSUME NEW a, NEW y, NEW p, TotalsOf(a, y, p) PROVE TotalsOf(a, y, p)'
    <2>1. y.version \in Versions
      BY <1>2 DEF TotalsOf
    <2> QED
      BY <1>1, <1>2, <2>1 DEF TotalsOf
  <1>3. ASSUME NEW a, NEW z, NEW p, CategoriesAt(a, z, p) PROVE CategoriesAt(a, z, p)'
    <2>1. z.version \in Versions
      BY <1>3 DEF CategoriesAt
    <2> QED
      BY <1>1, <1>3, <2>1 DEF CategoriesAt
  <1> QED
    BY <1>2, <1>3 DEF ProfileOK, Profiled

\* A request asks the same from its submission to its end.
LEMMA AskKept ==
    ASSUME IInv, NEW r \in Requests, Read(r) \/ Advance(r) \/ Cancel(r)
    PROVE  req'[r].ask = req[r].ask
  <1>1. r \in DOMAIN req /\ DOMAIN req[r] = Fields /\ "ask" \in Fields
    BY DEF IInv, RequestOK, Ranges, Fields
  <1>2. ASSUME NEW pc, req' = [req EXCEPT ![r].pc = pc] PROVE req'[r].ask = req[r].ask
    BY <1>1, <1>2
  <1>3. ASSUME NEW pc, End(r, pc) \/ Go(r, pc) PROVE req'[r].ask = req[r].ask
    BY <1>2, <1>3 DEF End, Go
  <1>4. ASSUME NEW x, req' = [req EXCEPT ![r] = x], x.ask = req[r].ask PROVE req'[r].ask = req[r].ask
    BY <1>1, <1>4
  <1>5. CASE Count(r)
    <2> DEFINE Z(n, s) == [req EXCEPT ![r].pc = "explain", ![r].limit = n, ![r].reads["count"] = s]
               W(n, s) == [req EXCEPT ![r] = [req[r] EXCEPT !.pc = "explain", !.limit = n, !.reads["count"] = s]]
    <2>1. End(r, "failed") \/ \E n, s : req' = Z(n, s)
      BY <1>5, Zenon DEF Count
    <2>2. \A n, s : Z(n, s) = W(n, s)
      BY <1>1, CountRecord, Zenon
    <2>3. ASSUME NEW n, NEW s, req' = W(n, s) PROVE req'[r].ask = req[r].ask
      BY <1>1, <2>3
    <2> HIDE DEF Z, W
    <2> QED
      BY <1>3, <2>1, <2>2, <2>3
  <1>6. CASE Run(r)
    <2>1. \/ End(r, "failed")
          \/ \E z, s : req' = [req EXCEPT ![r] = [req[r] EXCEPT !.pc = "label", !.answer = z, !.reads["run"] = s]]
      BY <1>6, RunStep, Zenon
    <2>2. ASSUME NEW z, NEW s,
                 req' = [req EXCEPT ![r] = [req[r] EXCEPT !.pc = "label", !.answer = z, !.reads["run"] = s]]
          PROVE  req'[r].ask = req[r].ask
      BY <1>1, <2>2
    <2> QED
      BY <1>3, <2>1, <2>2
  <1>7. CASE Profile(r)
    <2>1. \/ End(r, "failed")
          \/ \E pc, k, s, z : req' = Gathered(r, pc, k, s, z)
      BY <1>7, ProfileStep, Zenon
    <2>2. ASSUME NEW pc, NEW k, NEW s, NEW z, req' = Gathered(r, pc, k, s, z)
          PROVE  req'[r].ask = req[r].ask
      BY <1>1, <2>2 DEF Gathered
    <2> QED
      BY <1>3, <2>1, <2>2
  <1>8. CASE RunSql(r)
    <2>1. End(r, "failed") \/ \E w : req' = Closed(r, w)
      BY <1>8, Zenon DEF RunSql, Closed
    <2>2. ASSUME NEW w, req' = Closed(r, w) PROVE req'[r].ask = req[r].ask
      <3>1. req' = [req EXCEPT ![r] = [req[r] EXCEPT !.pc = "done", !.label = w]]
        BY <1>1, <2>2, ClosedRecord, Zenon
      <3> QED
        BY <1>1, <3>1
    <2> QED
      BY <1>3, <2>1, <2>2
  <1>9. ASSUME NEW d, CheckTable(r, d) PROVE req'[r].ask = req[r].ask
    <2>1. End(r, "failed") \/ req' = [req EXCEPT ![r].tables = @ \ {d}]
      BY <1>9, Zenon DEF CheckTable
    <2> QED
      BY <1>1, <1>3, <2>1
  <1>10. ASSUME NEW n, CheckName(r, n) PROVE req'[r].ask = req[r].ask
    <2>1. End(r, "failed") \/ req' = [req EXCEPT ![r].names = @ \ {n}]
      BY <1>10, Zenon DEF CheckName
    <2> QED
      BY <1>1, <1>3, <2>1
  <1>11. CASE Acquire(r)
    BY <1>2, <1>11, Zenon DEF Acquire
  <1>12. CASE Compile(r)
    <2>1. End(r, "failed") \/ \E pc : Go(r, pc)
      BY <1>12, Zenon DEF Compile
    <2> QED
      BY <1>3, <2>1
  <1>13. CASE Explain(r)
    <2>1. End(r, "failed") \/ \E pc : Go(r, pc)
      BY <1>13, Zenon DEF Explain
    <2> QED
      BY <1>3, <2>1
  <1>14. CASE Label(r)
    <2>1. \E z, w : req' = Labelled(r, z, w)
      BY <1>14, Zenon DEF Label, Labelled
    <2>2. ASSUME NEW z, NEW w, req' = Labelled(r, z, w) PROVE req'[r].ask = req[r].ask
      <3>1. req' = [req EXCEPT ![r] = Graded(req[r], z, w)]
        BY <1>1, <2>2, LabelledRecord, Zenon
      <3> QED
        BY <1>1, <3>1 DEF Graded
    <2> QED
      BY <2>1, <2>2
  <1>15. CASE GiveUp(r) \/ Cancel(r)
    BY <1>3, <1>15 DEF GiveUp, Cancel
  <1>16. CASE Freeze(r)
    <2>1. \E w : req' = Dated(r, w)
      BY <1>16, Zenon DEF Freeze, Dated
    <2>2. ASSUME NEW w, req' = Dated(r, w) PROVE req'[r].ask = req[r].ask
      <3>1. req' = [req EXCEPT ![r] = [req[r] EXCEPT !.pc = "families", !.as_of = w]]
        BY <1>1, <2>2, DatedRecord, Zenon
      <3> QED
        BY <1>1, <3>1
    <2> QED
      BY <2>1, <2>2
  <1>17. CASE Families(r)
    <2>1. (\E w : req' = Listed(r, w)) \/ req' = [req EXCEPT ![r].pc = "insert"]
      BY <1>17, Zenon DEF Families, Listed
    <2>2. ASSUME NEW w, req' = Listed(r, w) PROVE req'[r].ask = req[r].ask
      <3>1. req' = [req EXCEPT ![r] = [req[r] EXCEPT !.pc = "insert", !.families = w]]
        BY <1>1, <2>2, ListedRecord, Zenon
      <3> QED
        BY <1>1, <3>1
    <2> QED
      BY <1>2, <2>1, <2>2
  <1>18. CASE Insert(r)
    <2>1. End(r, "done") \/ End(r, "failed")
      BY <1>18, Zenon DEF Insert
    <2> QED
      BY <1>3, <2>1
  <1> QED
    BY <1>5, <1>6, <1>7, <1>8, <1>9, <1>10, <1>11, <1>12, <1>13, <1>14, <1>15, <1>16, <1>17, <1>18, Zenon
    DEF Read, Advance

\* A request that is past its compile as a profile has come there by the compile,
\* by one of the three reads of a profile or by the label.
LEMMA ProfileComes ==
    ASSUME IInv, ProfilesOK, NEW r \in Requests,
           (\E a \in Menu[r] : Submit(r, a)) \/ Read(r) \/ Advance(r) \/ Cancel(r),
           Profiled(req'[r])
    PROVE  /\ req'[r].ask = req[r].ask
           /\ \/ Compile(r) /\ req'[r].pc = "metrics"
              \/ Profile(r) /\ ~End(r, "failed")
              \/ Label(r)
  <1> DEFINE x == req'[r]
             y == req[r]
  <1>1. RequestOK(r, y) /\ r \in DOMAIN req /\ DOMAIN y = Fields /\ "pc" \in Fields
    BY DEF IInv, RequestOK, Ranges, Fields
  <1>2. x.pc \in Past \cup {"done"} /\ x.ask.kind = "dsl" /\ has_characterize(x.ask.q)
    BY DEF Profiled
  <1>3. ASSUME NEW pc, End(r, pc) \/ Go(r, pc) PROVE x.pc = pc
    BY <1>1, <1>3 DEF End, Go
  <1>4. ~End(r, "failed")
    <2>1. x.pc # "failed"
      BY <1>2 DEF Past, Counted
    <2> QED
      BY <1>3, <2>1
  <1>5. ASSUME NEW a \in Menu[r] PROVE ~Submit(r, a)
    <2> SUFFICES ASSUME Submit(r, a) PROVE FALSE
      OBVIOUS
    <2> DEFINE pc == CASE a.kind = "sql" -> IF a.approved THEN "waiting" ELSE "failed"
                       [] a.kind # "sql" /\ ~validate(a.q) -> "failed"
                       [] a.kind = "dsl" /\ validate(a.q) -> "waiting"
                       [] OTHER -> IF has_derive(a.q) \/ has_characterize(a.q) THEN "failed" ELSE "catalogue"
               checked == EnforceCatalogue /\ a.kind # "sql" /\ pc # "failed"
               tables == IF checked THEN {z[1] : z \in referenced_columns(a.q)} ELSE {}
               names == IF checked THEN referenced_features(a.q) ELSE {}
    <2>1. req' = [req EXCEPT ![r] = [Fresh EXCEPT !.pc = pc, !.ask = a, !.tables = tables, !.names = names]]
      BY DEF Submit
    <2>2. pc \in {"waiting", "failed", "catalogue"}
      <3>1. a.kind \in {"sql", "dsl", "job"}
        BY QueryEngineAssumption
      <3>2. CASE a.kind = "sql"
        BY <3>2
      <3>3. CASE a.kind # "sql" /\ ~validate(a.q)
        BY <3>3
      <3>4. CASE a.kind = "dsl" /\ validate(a.q)
        BY <3>4
      <3>5. CASE a.kind = "job" /\ validate(a.q)
        BY <3>5
      <3> QED
        BY <3>1, <3>2, <3>3, <3>4, <3>5
    <2> HIDE DEF pc, checked, tables, names
    <2>3. x.pc = pc
      BY <1>1, <2>1 DEF Fresh
    <2> QED
      BY <1>2, <2>2, <2>3 DEF Past, Counted
  <1>6. Read(r) \/ Advance(r) \/ Cancel(r)
    BY <1>5
  <1>7. x.ask = y.ask
    BY <1>6, AskKept
  <1>8. ProfileOK(y)
    BY DEF ProfilesOK
  <1>9. y.pc \in Past => y.pc \notin {"count", "explain", "run"} /\ y.ask.kind = "dsl"
    BY <1>2, <1>7, <1>8 DEF ProfileOK, Profiled
  <1>10. y.pc \notin {"sql", "freeze", "families", "insert"}
    BY <1>1, <1>2, <1>7 DEF RequestOK, Flow
  <1> HIDE DEF x, y
  <1>11. ~Count(r) /\ ~Run(r) /\ ~RunSql(r) /\ ~Explain(r) /\ ~Freeze(r) /\ ~Families(r) /\ ~Insert(r)
    <2>1. y.pc \notin {"count", "explain", "run", "sql", "freeze", "families", "insert"}
      BY <1>9, <1>10 DEF Past, Counted
    <2> QED
      BY <2>1, Zenon DEF Count, Run, RunSql, Explain, Freeze, Families, Insert, y
  <1>12. ASSUME NEW d
         PROVE  ~CheckTable(r, d) /\ ~CheckName(r, d)
    <2>1. ASSUME y.pc = "catalogue",
                 \/ req' = [req EXCEPT ![r].tables = @ \ {d}]
                 \/ req' = [req EXCEPT ![r].names = @ \ {d}]
          PROVE  x.pc = "catalogue"
      BY <1>1, <2>1 DEF x, y
    <2>2. x.pc # "catalogue"
      BY <1>2 DEF Past, Counted
    <2>3. CheckTable(r, d) \/ CheckName(r, d) =>
            y.pc = "catalogue" /\ \/ req' = [req EXCEPT ![r].tables = @ \ {d}]
                                  \/ req' = [req EXCEPT ![r].names = @ \ {d}]
      BY <1>4, Zenon DEF CheckTable, CheckName, y
    <2> QED
      BY <2>1, <2>2, <2>3
  <1>13. ~Acquire(r)
    <2>1. ASSUME NEW pc, req' = [req EXCEPT ![r].pc = pc] PROVE x.pc = pc
      BY <1>1, <2>1 DEF x, y
    <2>2. Acquire(r) => req' = [req EXCEPT ![r].pc = IF Asked(r).kind = "sql" THEN "sql" ELSE "catalogue"]
      BY Zenon DEF Acquire
    <2>3. Acquire(r) => x.pc = "sql" \/ x.pc = "catalogue"
      BY <2>1, <2>2
    <2> QED
      BY <1>2, <2>3 DEF Past, Counted
  <1>14. ~GiveUp(r) /\ ~Cancel(r)
    BY <1>4, Zenon DEF GiveUp, Cancel
  <1>15. ASSUME Compile(r) PROVE x.pc = "metrics"
    <2> DEFINE q == y.ask.q
               pc == CASE has_derive(q) -> "count" [] has_characterize(q) -> "metrics" [] OTHER -> "explain"
    <2>1. y.pc = "catalogue" /\ Go(r, pc)
      BY <1>4, <1>15, Zenon DEF Compile, Asked, y
    <2>2. Valid(q)
      <3>1. y.ask.kind # "sql"
        BY <1>2, <1>7
      <3> QED
        BY <1>1, <2>1, <3>1, RequestFacts
    <2>3. has_characterize(q) /\ ~has_derive(q)
      BY <1>2, <1>7, <2>2, TerminalFacts
    <2>4. pc = "metrics"
      BY <2>3
    <2> HIDE DEF pc
    <2> QED
      BY <1>3, <2>1, <2>4
  <1> QED
    BY <1>4, <1>6, <1>7, <1>11, <1>12, <1>13, <1>14, <1>15, Zenon DEF Read, Advance, x, y

\* The read of a profile that r makes in version v, of the part whose turn it is,
\* with the statement c.
PartRead(r, c, v) ==
    LET y == req[r]  p == ProfileParts(c, Db(v), clock)
        Joins(pc, k, parts, rows) ==
          req' = Gathered(r, pc, k, Stamp(v), [keys |-> {}, parts |-> Append(parts, rows)])
    IN  \/ y.pc = "metrics" /\ Joins("recency", "run", <<>>, p.metrics)
        \/ y.pc = "recency" /\ \E rows : Joins("categories", "recency", y.answer.parts, rows)
        \/ y.pc = "categories" /\ \E rows \in Top(p.categories) : Joins("label", "categories", y.answer.parts, rows)

\* Each read of a profile is of the part whose turn it is, in some version.
LEMMA ProfileReads ==
    ASSUME IInv, NEW r \in Requests, Profile(r), ~End(r, "failed"),
           NEW c, c = Compiled(r)
    PROVE  \E v \in Versions : Bindable(c, Db(v)) /\ PartRead(r, c, v)
  <1> DEFINE Rows(db, part) == LET p == ProfileParts(c, db, clock)
                               IN  IF part = "categories" THEN Top(p.categories) ELSE {p[part]}
             So(k) == IF k = "run" THEN <<>> ELSE req[r].answer.parts
             Joins(k, pc, v, rows) ==
               req' = Gathered(r, pc, k, Stamp(v), [keys |-> {}, parts |-> Append(So(k), rows)])
             Then(k, pc, part) ==
               \E v \in Versions :
                 IF ~Bindable(c, Db(v)) THEN End(r, "failed")
                 ELSE \E rows \in Rows(Db(v), part) :
                        /\ req' = Spliced(r, pc, k, Stamp(v), [keys |-> {}, parts |-> Append(So(k), rows)])
                        /\ UNCHANGED permits
             So1(k, pc, part) ==
               \E v \in Versions : Bindable(c, Db(v)) /\ \E rows \in Rows(Db(v), part) : Joins(k, pc, v, rows)
  <1>1. \/ req[r].pc = "metrics" /\ Then("run", "recency", "metrics")
        \/ req[r].pc = "recency" /\ Then("recency", "categories", "recency")
        \/ req[r].pc = "categories" /\ Then("categories", "label", "categories")
    BY Zenon DEF Profile, Spliced
  <1>2. r \in DOMAIN req
    BY DEF IInv
  <1>3. \A k, pc, st, z : Spliced(r, pc, k, st, z) = Gathered(r, pc, k, st, z)
    BY <1>2, ProfileRecord, Zenon
  <1>4. \A k, pc, part : Then(k, pc, part) => So1(k, pc, part)
    <2> HIDE DEF Rows, So
    <2> QED
      BY <1>3, Zenon
  <1>5. \A db : /\ Rows(db, "metrics") = {ProfileParts(c, db, clock).metrics}
                /\ Rows(db, "categories") = Top(ProfileParts(c, db, clock).categories)
    OBVIOUS
  <1>6. ASSUME NEW v \in Versions
        PROVE  PartRead(r, c, v) <=>
                 \/ req[r].pc = "metrics" /\ Joins("run", "recency", v, ProfileParts(c, Db(v), clock).metrics)
                 \/ req[r].pc = "recency" /\ \E rows : Joins("recency", "categories", v, rows)
                 \/ /\ req[r].pc = "categories"
                    /\ \E rows \in Top(ProfileParts(c, Db(v), clock).categories) :
                         Joins("categories", "label", v, rows)
    <2>1. So("run") = <<>> /\ So("recency") = req[r].answer.parts /\ So("categories") = req[r].answer.parts
      OBVIOUS
    <2> HIDE DEF So
    <2> QED
      BY <2>1, Zenon DEF PartRead
  <1> HIDE DEF Then, Rows, So, Joins
  <1>7. CASE req[r].pc = "metrics" /\ So1("run", "recency", "metrics")
    <2>1. PICK v \in Versions : Bindable(c, Db(v)) /\ \E rows \in Rows(Db(v), "metrics") : Joins("run", "recency", v, rows)
      BY <1>7, Zenon
    <2>2. Joins("run", "recency", v, ProfileParts(c, Db(v), clock).metrics)
      BY <1>5, <2>1
    <2> QED
      BY <1>6, <1>7, <2>1, <2>2
  <1>8. CASE req[r].pc = "recency" /\ So1("recency", "categories", "recency")
    <2>1. PICK v \in Versions : Bindable(c, Db(v)) /\ \E rows \in Rows(Db(v), "recency") : Joins("recency", "categories", v, rows)
      BY <1>8, Zenon
    <2> QED
      BY <1>6, <1>8, <2>1
  <1>9. CASE req[r].pc = "categories" /\ So1("categories", "label", "categories")
    <2>1. PICK v \in Versions : Bindable(c, Db(v)) /\ \E rows \in Rows(Db(v), "categories") : Joins("categories", "label", v, rows)
      BY <1>9, Zenon
    <2>2. \E rows \in Top(ProfileParts(c, Db(v), clock).categories) : Joins("categories", "label", v, rows)
      BY <1>5, <2>1
    <2> QED
      BY <1>6, <1>9, <2>1, <2>2
  <1> HIDE DEF So1
  <1> QED
    BY <1>1, <1>4, <1>7, <1>8, <1>9

\* What a read of a profile returns is what it is meant to.
LEMMA ProfileRight ==
    ASSUME IInv, NEW r \in Requests, Profile(r), ~End(r, "failed"), ProfileOK(req[r])
    PROVE  ProfileOK(req'[r])
  <1> DEFINE y == req[r]
             a == y.ask
             c == Compiled(r)
             last == LastOp(a.q)
             parts == y.answer.parts
  <1>1. RequestOK(r, y) /\ y.pc \in {"metrics", "recency", "categories"} /\ ProfileOK(y)
    BY ProfileStep DEF IInv
  <1>2. a.kind # "sql" /\ y.pc \in Past \cup {"catalogue", "waiting", "done"} /\ has_characterize(a.q) /\ y.pc \in Busy
    BY <1>1 DEF RequestOK, Flow, Past, Counted, Busy, Inside
  <1>3. Valid(a.q) /\ RulesOK(Rules) /\ c = compile_with_opts(a.q, a.tenant, Rules, y.limit) /\ a.kind = "dsl"
    <2>1. /\ a \in Menu[r] /\ validate(a.q) /\ Valid(a.q) /\ a.kind \in {"dsl", "job"}
          /\ c = compile_with_opts(a.q, a.tenant, Rules, y.limit)
      BY <1>1, <1>2, RequestFacts DEF Compiled
    <2>2. a.kind # "job"
      BY <1>1, <1>2 DEF RequestOK, Flow
    <2> QED
      BY <1>2, <2>1, <2>2, AskFacts
  <1>4. c.ok
    BY <1>1, <1>2 DEF RequestOK, Compiles, Counted, Compiled
  <1>5. last.kind = "characterize"
    BY <1>2, <1>3, TerminalFacts
  <1>6. Profiled(y)
    BY <1>1, <1>2, <1>3 DEF Profiled, Past, Counted
  <1>7. PICK v \in Versions : Bindable(c, Db(v)) /\ PartRead(r, c, v)
    BY ProfileReads, Zenon
  <1> DEFINE st == Stamp(v)
             ev == OrdersOf(a, st)
             In == SegmentOrders(a, st)
             m == ProfileParts(c, Db(v), clock)
  <1>8. st.version = v /\ st.at = clock
    BY DEF Stamp
  <1>9. /\ IsFiniteSet(ev)
        /\ m.metrics.seg.orders = Cardinality(In) /\ m.metrics.base.orders = Cardinality(ev)
        /\ m.categories = CategoryCounts(In, ev, last.category)
    <2>1. PICK q, t, db, limit : q = a.q /\ t = a.tenant /\ db = Db(v) /\ limit = y.limit
      OBVIOUS
    <2>2. Valid(q) /\ RulesOK(Rules) /\ c = compile_with_opts(q, t, Rules, limit) /\ c.ok /\ LastOp(q).kind = "characterize"
      BY <1>3, <1>4, <1>5, <2>1
    <2>3. Database(db) /\ clock \in Int /\ Bindable(c, db)
      BY <1>7, <2>1, VersionFacts
    <2>4. /\ ev = Own(db, t).raw[LastOp(q).event]
          /\ In = OrdersOfUsers(ev, Denotation(strip_last_op(q), db, t, clock, Rules))
      BY <1>8, <2>1, Zenon DEF OrdersOf, SegmentOrders, Survived
    <2> HIDE DEF c, ev, In, st, m
    <2>5. /\ IsFiniteSet(ev)
          /\ ProfileParts(c, db, clock).metrics.seg.orders = Cardinality(In)
          /\ ProfileParts(c, db, clock).metrics.base.orders = Cardinality(ev)
          /\ ProfileParts(c, db, clock).categories = CategoryCounts(In, ev, LastOp(q).category)
      BY <2>2, <2>3, <2>4, ProfileMeans
    <2> QED
      BY <2>1, <2>5 DEF m
  <1>10. /\ r \in DOMAIN req /\ DOMAIN y = Fields /\ DOMAIN y.reads = Reads
    BY <1>1 DEF IInv, RequestOK, Ranges
  <1>11. ASSUME NEW pc, NEW k \in Reads, NEW s, NEW z, NEW x, x = req'[r], req' = Gathered(r, pc, k, s, z)
         PROVE  /\ x.pc = pc /\ x.ask = a /\ x.answer = z /\ x.reads[k] = s
                /\ \A i \in Reads \ {k} : x.reads[i] = y.reads[i]
    <2>1. x = [y EXCEPT !.pc = pc, !.reads[k] = s, !.answer = z]
      BY <1>10, <1>11 DEF Gathered
    <2> HIDE DEF y
    <2>2. x.pc = pc /\ x.ask = y.ask /\ x.answer = z /\ x.reads = [y.reads EXCEPT ![k] = s]
      BY <1>10, <2>1 DEF Fields
    <2> QED
      BY <1>10, <2>2
  <1> DEFINE Z(p) == [keys |-> {}, parts |-> p]
  <1>12. \A p : Z(p).parts = p
    OBVIOUS
  <1>13. PICK x : x = req'[r]
    OBVIOUS
  <1> SUFFICES ProfileOK(x)
    BY <1>13
  <1> DEFINE R == Reads
  <1>14. "run" \in R /\ "recency" \in R /\ "categories" \in R
    BY DEF Reads
  <1> HIDE DEF R
  <1> DEFINE Joins(pc, k, old, rows) == req' = Gathered(r, pc, k, st, Z(Append(old, rows)))
  <1>15. \/ y.pc = "metrics" /\ Joins("recency", "run", <<>>, m.metrics)
         \/ y.pc = "recency" /\ \E rows : Joins("categories", "recency", parts, rows)
         \/ y.pc = "categories" /\ \E rows \in Top(m.categories) : Joins("label", "categories", parts, rows)
    BY <1>7, Zenon DEF PartRead
  <1> HIDE DEF c, ev, In, st, Z, y, m
  <1>16. CASE y.pc = "metrics" /\ Joins("recency", "run", <<>>, m.metrics)
    <2>1. PICK e : e = <<>>
      OBVIOUS
    <2> DEFINE p == Append(e, m.metrics)
    <2>2. req' = Gathered(r, "recency", "run", st, Z(p))
      BY <1>16, <2>1
    <2>3. List(e) /\ Len(e) = 0
      BY <2>1, ElementsShort
    <2>4. List(p) /\ Len(p) = Len(e) + 1 /\ p[Len(e) + 1] = m.metrics
      BY <2>3, AppendLen, Zenon
    <2> HIDE DEF p
    <2>5. List(p) /\ Len(p) = 1 /\ p[1] = m.metrics
      BY <2>3, <2>4
    <2>6. x.pc = "recency" /\ x.ask = a /\ x.answer = Z(p) /\ x.reads["run"] = st
      BY <1>11, <1>13, <1>14, <2>2 DEF R
    <2>7. TotalsOf(a, st, p)
      BY <1>7, <1>8, <1>9, <2>5 DEF TotalsOf, ev, In
    <2> QED
      BY <1>12, <2>5, <2>6, <2>7 DEF ProfileOK
  <1>17. ASSUME y.pc = "recency", NEW rows, Joins("categories", "recency", parts, rows)
         PROVE  ProfileOK(x)
    <2> DEFINE p == Append(parts, rows)
    <2>1. TotalsOf(a, y.reads["run"], parts) /\ Len(parts) = 1
      BY <1>1, <1>6, <1>17 DEF ProfileOK
    <2>2. req' = Gathered(r, "categories", "recency", st, Z(p))
      BY <1>17
    <2> HIDE DEF parts
    <2>3. List(parts)
      BY <2>1 DEF TotalsOf
    <2>4. /\ List(p) /\ Len(p) = Len(parts) + 1 /\ p[Len(parts) + 1] = rows
          /\ \A i \in 1..Len(parts) : p[i] = parts[i]
      BY <2>3, AppendLen, Zenon
    <2> HIDE DEF p
    <2>5. List(p) /\ Len(p) = 2 /\ p[1] = parts[1]
      BY <2>1, <2>4
    <2>6. x.pc = "categories" /\ x.ask = a /\ x.answer = Z(p) /\ x.reads["run"] = y.reads["run"]
      BY <1>11, <1>13, <1>14, <2>2 DEF R
    <2>7. TotalsOf(a, y.reads["run"], p)
      BY <2>1, <2>5 DEF TotalsOf
    <2> QED
      BY <1>12, <2>5, <2>6, <2>7 DEF ProfileOK
  <1>18. ASSUME y.pc = "categories", NEW rows \in Top(m.categories), Joins("label", "categories", parts, rows)
         PROVE  ProfileOK(x)
    <2> DEFINE p == Append(parts, rows)
    <2>1. TotalsOf(a, y.reads["run"], parts) /\ Len(parts) = 2
      BY <1>1, <1>6, <1>18 DEF ProfileOK
    <2>2. req' = Gathered(r, "label", "categories", st, Z(p))
      BY <1>18
    <2> HIDE DEF parts
    <2>3. List(parts)
      BY <2>1 DEF TotalsOf
    <2>4. /\ List(p) /\ Len(p) = Len(parts) + 1 /\ p[Len(parts) + 1] = rows
          /\ \A i \in 1..Len(parts) : p[i] = parts[i]
      BY <2>3, AppendLen, Zenon
    <2> HIDE DEF p
    <2>5. List(p) /\ p[1] = parts[1] /\ p[3] = rows
      BY <2>1, <2>4
    <2>6. /\ x.pc = "label" /\ x.ask = a /\ x.answer = Z(p)
          /\ x.reads["run"] = y.reads["run"] /\ x.reads["categories"] = st
      BY <1>11, <1>13, <1>14, <2>2 DEF R
    <2>7. TotalsOf(a, y.reads["run"], p)
      BY <2>1, <2>5 DEF TotalsOf
    <2>8. CategoriesAt(a, st, p)
      BY <1>7, <1>8, <1>9, <1>18, <2>5 DEF CategoriesAt, ev, In
    <2> QED
      BY <1>12, <2>6, <2>7, <2>8 DEF ProfileOK
  <1> HIDE DEF Joins
  <1> QED
    BY <1>13, <1>15, <1>16, <1>17, <1>18, Zenon

\* The profile of an answer is put together of what its reads returned.
LEMMA LabelRight ==
    ASSUME IInv, NEW r \in Requests, Label(r), ProfileOK(req[r]), Profiled(req'[r]), req'[r].ask = req[r].ask
    PROVE  ProfileOK(req'[r])
  <1> DEFINE y == req[r]
             p == y.answer.parts
             z == [keys |-> {}, parts |-> p, profile |-> assemble_profile(p[1], p[2], p[3])]
             w == worst(Compiled(r).sources, registry, clock)
  <1>1. y.pc = "label" /\ r \in DOMAIN req /\ DOMAIN y = Fields
    BY DEF Label, IInv, RequestOK, Ranges
  <1>2. y.ask.kind = "dsl" /\ has_characterize(y.ask.q)
    BY DEF Profiled
  <1>3. req' = Labelled(r, z, w)
    BY <1>2, Zenon DEF Label, Labelled, Asked
  <1>4. req' = [req EXCEPT ![r] = Graded(y, z, w)]
    BY <1>1, <1>3, LabelledRecord, Zenon
  <1>5. PICK x : x = req'[r]
    OBVIOUS
  <1>6. z.parts = p /\ z.profile.mix = assemble_profile(p[1], p[2], p[3]).mix
    OBVIOUS
  <1>7. Profiled(y)
    BY <1>1, <1>2 DEF Profiled, Past, Counted
  <1>8. TotalsOf(y.ask, y.reads["run"], p) /\ CategoriesAt(y.ask, y.reads["categories"], p)
    BY <1>1, <1>7 DEF ProfileOK
  <1> HIDE DEF w, z, y
  <1>9. x.pc = "done" /\ x.ask = y.ask /\ x.answer = z /\ x.reads = y.reads
    <2>1. x = Graded(y, z, w)
      BY <1>1, <1>4, <1>5
    <2> QED
      BY <1>1, <2>1 DEF Graded, Fields
  <1> HIDE DEF p
  <1>10. ProfileOK(x)
    BY <1>6, <1>8, <1>9 DEF ProfileOK
  <1> QED
    BY <1>5, <1>10

\* Every step keeps the profiles right.
LEMMA ProfilesKept ==
    ASSUME IInv, ProfilesOK, [Next]_vars
    PROVE  ProfilesOK'
  <1>1. Versions \subseteq Versions' /\ \A v \in Versions : Db(v)' = Db(v)
    <2>1. ASSUME log' = log PROVE Versions \subseteq Versions' /\ \A v \in Versions : Db(v)' = Db(v)
      BY <2>1 DEF Versions, Db
    <2>2. ASSUME NEW new \in DOMAIN Content, Commit(new)
          PROVE  Versions \subseteq Versions' /\ \A v \in Versions : Db(v)' = Db(v)
      <3>1. log \in Seq(DOMAIN Content) /\ log' = Append(log, new)
        BY <2>2 DEF IInv, EngineOK, Commit
      <3>2. Len(log) \in Nat /\ Len(log') = Len(log) + 1 /\ \A v \in 1..Len(log) : log'[v] = log[v]
        BY <3>1
      <3> QED
        BY <3>2 DEF Versions, Db
    <2>3. ASSUME NEW i \in Requests, (\E a \in Menu[i] : Submit(i, a)) \/ Read(i) \/ Advance(i) \/ Cancel(i)
          PROVE  log' = log
      <3>1. CASE Insert(i)
        BY <3>1, Zenon DEF Insert, env
      <3>2. CASE ~Insert(i)
        BY <2>3, <3>2, RequestMoves DEF env
      <3> QED
        BY <3>1, <3>2
    <2>4. CASE \/ \E d \in Datasets : \E type \in {"batch", "cdc"} : set(d, type)
               \/ Tick \/ OrphanEnds \/ UNCHANGED vars
      <3>1. log' = log
        BY <2>4 DEF set, Tick, OrphanEnds, vars, env
      <3> QED
        BY <2>1, <3>1
    <2> QED
      BY <2>1, <2>2, <2>3, <2>4, Zenon DEF Next
  <1>2. ASSUME NEW r \in Requests PROVE ProfileOK(req'[r])
    <2>1. CASE req'[r] = req[r]
      BY <2>1 DEF ProfilesOK
    <2>2. CASE req'[r] # req[r] /\ ~Profiled(req'[r])
      BY <2>2 DEF ProfileOK
    <2>3. CASE req'[r] # req[r] /\ Profiled(req'[r])
      <3>1. Next
        BY <2>3 DEF vars
      <3>2. (\E a \in Menu[r] : Submit(r, a)) \/ Read(r) \/ Advance(r) \/ Cancel(r)
        BY <2>3, <3>1, OwnStep
      <3>3. /\ req'[r].ask = req[r].ask
            /\ \/ Compile(r) /\ req'[r].pc = "metrics"
               \/ Profile(r) /\ ~End(r, "failed")
               \/ Label(r)
        BY <2>3, <3>2, ProfileComes
      <3>4. ProfileOK(req[r])
        BY DEF ProfilesOK
      <3>5. CASE req'[r].pc = "metrics"
        BY <3>5 DEF ProfileOK
      <3>6. CASE Profile(r) /\ ~End(r, "failed")
        BY <3>4, <3>6, ProfileRight
      <3>7. CASE Label(r)
        BY <2>3, <3>3, <3>4, <3>7, LabelRight
      <3> QED
        BY <3>3, <3>5, <3>6, <3>7
    <2> QED
      BY <2>1, <2>2, <2>3
  <1>3. ASSUME NEW r \in Requests PROVE ProfileOK(req[r])'
    <2>1. PICK x : x = req'[r]
      OBVIOUS
    <2>2. ProfileOK(x)
      BY <1>2, <2>1
    <2>3. ProfileOK(x)'
      BY <1>1, <2>2, ProfileLasts
    <2> QED
      BY <2>1, <2>3 DEF ProfileOK, TotalsOf, CategoriesAt, OrdersOf, SegmentOrders, Survived, Profiled
  <1> QED
    BY <1>3 DEF ProfilesOK

\* The second invariant.
LEMMA ProfilesInductive == Spec => []ProfilesOK
  <1>1. Init => ProfilesOK
    <2> SUFFICES ASSUME Init, NEW r \in Requests PROVE ~Profiled(req[r])
      BY DEF ProfilesOK, ProfileOK
    <2>1. req[r].pc = "new"
      BY DEF Init, Fresh
    <2> QED
      BY <2>1 DEF Profiled, Past, Counted
  <1>2. IInv /\ ProfilesOK /\ [Next]_vars => ProfilesOK'
    BY ProfilesKept
  <1> QED
    BY <1>1, <1>2, Inductive, PTL DEF Spec

\* A share of a profile is part of a whole (assemble_profile).
LEMMA SharesAreParts ==
    ASSUME NEW m, NEW recency, NEW k, NEW mix, mix = assemble_profile(m, recency, k).mix,
           \A side \in {"seg", "base"} : m[side].orders \in Nat,
           \A side \in {"seg", "base"} : \A x \in DOMAIN k : k[x][side] \in Nat /\ k[x][side] <= m[side].orders
    PROVE  \A x \in DOMAIN mix : \A i \in 1..2 : mix[x][i][1] <= mix[x][i][2]
  <1> DEFINE Share(n, total) == IF total > 0 THEN <<n, total>> ELSE <<0, 1>>
  <1>1. mix = [x \in DOMAIN k |-> <<Share(k[x].seg, m.seg.orders), Share(k[x].base, m.base.orders)>>]
    BY DEF assemble_profile
  <1>2. ASSUME NEW n \in Nat, NEW total \in Nat, n <= total
        PROVE  Share(n, total)[1] <= Share(n, total)[2]
    <2>1. CASE total > 0
      BY <1>2, <2>1
    <2>2. CASE ~(total > 0)
      BY <2>2
    <2> QED
      BY <2>1, <2>2
  <1> SUFFICES ASSUME NEW x \in DOMAIN mix, NEW i \in 1..2
               PROVE  mix[x][i][1] <= mix[x][i][2]
    OBVIOUS
  <1> HIDE DEF Share
  <1>3. x \in DOMAIN k /\ mix[x] = <<Share(k[x].seg, m.seg.orders), Share(k[x].base, m.base.orders)>>
    BY <1>1
  <1>4. /\ k[x].seg \in Nat /\ m.seg.orders \in Nat /\ k[x].seg <= m.seg.orders
        /\ k[x].base \in Nat /\ m.base.orders \in Nat /\ k[x].base <= m.base.orders
    BY <1>3
  <1>5. CASE i = 1
    <2>1. mix[x][i] = Share(k[x].seg, m.seg.orders)
      BY <1>3, <1>5
    <2> QED
      BY <1>2, <1>4, <2>1
  <1>6. CASE i = 2
    <2>1. mix[x][i] = Share(k[x].base, m.base.orders)
      BY <1>3, <1>6
    <2> QED
      BY <1>2, <1>4, <2>1
  <1> QED
    BY <1>5, <1>6

\* A profile is about the orders of the caller's tenant and, if its reads saw one
\* version at one time, adds up: the counts of the categories shown are part of
\* the totals and all of them if none was cut off, a category that was cut off
\* ranks no higher, and every share is part of a whole (run_characterize and
\* assemble_profile, three statements that are read one by one).
THEOREM ProfilesRight == Spec => []ProfileConsistent
  <1>1. ASSUME IInv, ProfilesOK PROVE ProfileConsistent
    <2> SUFFICES ASSUME NEW r \in Requests, Answered(r), has_characterize(Asked(r).q)
                 PROVE  LET a == Asked(r)  x == req[r].reads["run"]  p == req[r].answer.parts
                            last == a.q[1].ops[Len(a.q[1].ops)]
                            own == Own(Db(x.version), a.tenant).raw[last.event]
                            seg == {e \in own : e.user_id # Null /\ e.user_id \in
                                      Denotation(strip_last_op(a.q), Db(x.version), a.tenant, x.at, Rules)}
                            all == {e[last.category] : e \in own}
                            Sum(side) == MapThenSumSet(LAMBDA k : p[3][k][side], DOMAIN p[3])
                        IN  /\ p[1].base.orders = Cardinality(own) /\ p[1].seg.orders = Cardinality(seg)
                            /\ req[r].reads["categories"] = x =>
                                 /\ \A side \in {"seg", "base"} :
                                      /\ Sum(side) <= p[1][side].orders
                                      /\ Cardinality(all) <= TopCategories => Sum(side) = p[1][side].orders
                                 /\ \A k \in all \ DOMAIN p[3] : \A j \in DOMAIN p[3] :
                                      Cardinality({e \in seg : e[last.category] = k}) <= p[3][j].seg
                                 /\ req[r].pc = "done" =>
                                      LET mix == req[r].answer.profile.mix
                                      IN  \A k \in DOMAIN mix : \A i \in 1..2 : mix[k][i][1] <= mix[k][i][2]
      BY Zenon DEF ProfileConsistent
    <2> DEFINE y == req[r]
               a == y.ask
               x == y.reads["run"]
               p == y.answer.parts
               last == a.q[1].ops[Len(a.q[1].ops)]
               col == last.category
               own == Own(Db(x.version), a.tenant).raw[last.event]
               seg == {e \in own : e.user_id # Null /\ e.user_id \in
                         Denotation(strip_last_op(a.q), Db(x.version), a.tenant, x.at, Rules)}
               all == {e[last.category] : e \in own}
               Sum(side) == MapThenSumSet(LAMBDA k : p[3][k][side], DOMAIN p[3])
    <2>1. RequestOK(r, y) /\ a.kind = "dsl" /\ y.pc \in {"label", "done"} /\ has_characterize(a.q) /\ ProfileOK(y)
      BY <1>1 DEF IInv, ProfilesOK, Answered, Asked
    <2>2. Profiled(y)
      BY <2>1 DEF Profiled, Past, Counted
    <2>3. /\ TotalsOf(a, x, p) /\ CategoriesAt(a, y.reads["categories"], p)
          /\ y.pc = "done" => y.answer.profile.mix = assemble_profile(p[1], p[2], p[3]).mix
      BY <2>1, <2>2 DEF ProfileOK
    <2>4. LastOp(a.q) = last
      <3>1. Valid(a.q)
        BY <2>1, RequestFacts DEF Past, Counted
      <3> QED
        BY <2>1, <3>1, TerminalFacts DEF Terminal
    <2>5. OrdersOf(a, x) = own /\ SegmentOrders(a, x) = seg /\ all = CategoriesOf(own, col)
      <3>1. OrdersOf(a, x) = own
        BY <2>4, Zenon DEF OrdersOf
      <3> HIDE DEF own
      <3>2. SegmentOrders(a, x) = seg
        BY <3>1, Zenon DEF SegmentOrders, OrdersOfUsers, Survived
      <3> QED
        BY <3>1, <3>2, Zenon DEF CategoriesOf
    <2>6. \A k : {e \in seg : e[last.category] = k} = Group(seg, col, k)
      BY Zenon DEF Group
    <2>7. \A side : Sum(side) = SumOver(p[3], side, DOMAIN p[3])
      BY Zenon DEF MapThenSumSet, MapThenFoldSet, SumOver
    <2>8. /\ IsFiniteSet(own) /\ seg \in SUBSET own
          /\ p[1].base.orders = Cardinality(own) /\ p[1].seg.orders = Cardinality(seg)
      BY <2>3, <2>5 DEF TotalsOf
    <2> HIDE DEF own, seg, all, Sum, last, col
    <2>9. ASSUME y.reads["categories"] = x
          PROVE  /\ \A side \in {"seg", "base"} :
                      /\ Sum(side) <= p[1][side].orders
                      /\ Cardinality(all) <= TopCategories => Sum(side) = p[1][side].orders
                 /\ \A k \in all \ DOMAIN p[3] : \A j \in DOMAIN p[3] :
                      Cardinality(Group(seg, col, k)) <= p[3][j].seg
                 /\ y.pc = "done" =>
                      \A k \in DOMAIN y.answer.profile.mix : \A i \in 1..2 :
                        y.answer.profile.mix[k][i][1] <= y.answer.profile.mix[k][i][2]
      <3> DEFINE m == p[1]
                 t == p[3]
      <3>1. t \in Top(CategoryCounts(seg, own, col))
        BY <2>3, <2>4, <2>5, <2>9 DEF CategoriesAt, col
      <3> HIDE DEF p, t, y
      <3>2. ASSUME NEW side \in {"seg", "base"}
            PROVE  /\ Sum(side) <= m[side].orders
                   /\ Cardinality(all) <= TopCategories => Sum(side) = m[side].orders
                   /\ m[side].orders \in Nat
                   /\ \A k \in DOMAIN t : t[k][side] \in Nat /\ t[k][side] <= m[side].orders
        <4>1. PICK rows : rows = IF side = "seg" THEN seg ELSE own
          OBVIOUS
        <4>2. m[side].orders = Cardinality(rows)
          BY <2>8, <4>1
        <4>3. Cardinality(rows) \in Nat
          BY <2>8, <4>1, FS_Subset, FS_CardinalityType
        <4>4. /\ SumOver(t, side, DOMAIN t) <= Cardinality(rows)
              /\ Cardinality(CategoriesOf(own, col)) <= TopCategories =>
                   SumOver(t, side, DOMAIN t) = Cardinality(rows)
              /\ \A k \in DOMAIN t : t[k][side] \in Nat /\ t[k][side] <= Cardinality(rows)
          BY <2>8, <3>1, <4>1, CategoriesAddUp
        <4>5. Sum(side) = SumOver(t, side, DOMAIN t)
          BY <2>7 DEF t
        <4> QED
          BY <2>5, <4>2, <4>3, <4>4, <4>5
      <3>3. \A k \in all \ DOMAIN t : \A j \in DOMAIN t : Cardinality(Group(seg, col, k)) <= t[j].seg
        BY <2>5, <2>8, <3>1, TopFacts
      <3>4. ASSUME y.pc = "done"
            PROVE  \A k \in DOMAIN y.answer.profile.mix : \A i \in 1..2 :
                     y.answer.profile.mix[k][i][1] <= y.answer.profile.mix[k][i][2]
        <4>1. y.answer.profile.mix = assemble_profile(m, p[2], t).mix
          BY <2>3, <3>4 DEF t
        <4> HIDE DEF m
        <4> QED
          BY <3>2, <4>1, SharesAreParts
      <3> QED
        BY <3>2, <3>3, <3>4 DEF t
    <2> QED
      BY <2>6, <2>8, <2>9, Zenon DEF own, seg, all, Sum, last, col, Asked
  <1> QED
    BY <1>1, Inductive, ProfilesInductive, PTL
=============================================================================
