------------------------------ MODULE Segment -------------------------------
(***************************************************************************)
(* The segment DSL (crates/query: ast, parse, compiler): what a query may  *)
(* say, which queries parse::validate accepts, the SQL and the bound       *)
(* parameters the compiler makes of them, what the database answers, and,  *)
(* written independently of the compiler, what the answer should be.       *)
(*                                                                         *)
(* A SetOp is the last op of a valid segment, so a segment with its nested *)
(* ones is a sequence of parts: the `other` of part i is the rest of the   *)
(* sequence from part i + 1.  SQL text is a sequence of templates in the   *)
(* order of the text, each with the number n of its `?`; parameters are    *)
(* bound to the `?` from left to right, so a parameter pushed in the wrong *)
(* order lands in the wrong place, as in the code.  Values are numbers or  *)
(* Null; LIKE is a given relation on them.                                 *)
(***************************************************************************)
EXTENDS Integers, Sequences, FiniteSets, FiniteSetsExt, Lists

CONSTANTS Tenants,     \* tenant ids
          Datasets,    \* (system, entity) pairs, one raw table each
          Null,        \* SQL NULL
          Huge,        \* a string longer than MAX_PRED_VALUE_BYTES
          BadTime,     \* a text that is not a timestamp
          Idents,      \* the names validate_ident accepts
          Likes,       \* pairs <<value, pattern>> for which LIKE holds
          MaxOps, MaxInValues, MaxWithinDays, MaxNesting, \* caps of the DSL
          TopCategories \* categories in a profile

ASSUME SegmentAssumption ==
    /\ Null \notin Int /\ Huge \notin Int /\ BadTime \notin Int
    /\ {MaxOps, MaxInValues, MaxWithinDays, MaxNesting, TopCategories} \subseteq Nat

-----------------------------------------------------------------------------
(***************************************************************************)
(* The catalog as the queries see it: raw tables with their columns, the   *)
(* suppression table, the feature store with its wide views, and the       *)
(* semantic catalogue.                                                     *)
(***************************************************************************)
Database(db) ==
    /\ DOMAIN db = {"raw", "columns", "suppression", "features", "catalogue"}
    /\ \A d \in Datasets :
         /\ IsFiniteSet(db.raw[d])
         /\ \A r \in db.raw[d] : /\ r.tenant_id \in Tenants
                                 /\ \A c \in db.columns[d] : r[c] \in Int \cup {Null}
    /\ IsFiniteSet(db.suppression)
    /\ IsFiniteSet(db.features) /\ \A f \in db.features : f.as_of_ts \in Int

\* What tenant t owns of a database.
Own(db, t) ==
    LET Mine(S) == {r \in S : r.tenant_id = t}
    IN  [db EXCEPT !.raw = [d \in Datasets |-> Mine(@[d])],
                   !.suppression = Mine(@), !.features = Mine(@)]

\* arg_max(num_value, as_of_ts) over the rows of a feature store.
ArgMax(rows) == (CHOOSE f \in rows : \A g \in rows : g.as_of_ts <= f.as_of_ts).num_value

\* The names a family's wide view has columns for: every name ever stored.
ViewColumns(db) == {f.feature_name : f \in db.features}

-----------------------------------------------------------------------------
(***************************************************************************)
(* ast: the queries that can be written at all.                            *)
(***************************************************************************)
Binary     == {"eq", "ne", "lt", "le", "gt", "ge", "like", "notLike"}
Comparison == Binary \ {"like", "notLike"}
Narrowing  == {"filter", "recency", "lapsed", "feature", "exclude"}
Terminal   == {"derive", "characterize"}

NoPred == [column |-> "", cmp |-> "none", value |-> [list |-> FALSE, vals |-> <<>>]]

Predicate(p) ==
    /\ p.cmp \in Binary \cup {"in", "notIn"}
    /\ p.value.list \in BOOLEAN /\ List(p.value.vals)
    /\ ~p.value.list => Len(p.value.vals) = 1

SegmentOp(op) ==
    /\ op.kind \in Narrowing \cup Terminal \cup {"setOp", "similar"}
    /\ op.kind = "filter" => Predicate(op.pred)
    /\ op.kind \in {"recency", "lapsed"} => op.pred = NoPred \/ Predicate(op.pred)
    /\ op.kind = "setOp" => op.set \in {"intersect", "union", "minus"}

Query(q) ==
    /\ List(q) /\ q # <<>>
    /\ \A i \in DOMAIN q :
         /\ DOMAIN q[i] = {"source", "key", "as_of", "ops"}
         /\ q[i].as_of \in Int \cup {Null, BadTime}
         /\ List(q[i].ops) /\ \A j \in DOMAIN q[i].ops : SegmentOp(q[i].ops[j])
         /\ i < Len(q) <=> \E j \in DOMAIN q[i].ops : q[i].ops[j].kind = "setOp"

-----------------------------------------------------------------------------
(***************************************************************************)
(* parse::validate.                                                        *)
(***************************************************************************)

\* A list is accepted only with in / notIn and within its caps; a scalar with
\* any operator: the mismatch with in / notIn is left to the compiler.
validate_value(v, cmp) ==
    /\ \A i \in DOMAIN v.vals : v.vals[i] # Huge
    /\ v.list => cmp \in {"in", "notIn"} /\ Len(v.vals) <= MaxInValues

validate_predicate(p) == p.column \in Idents /\ validate_value(p.value, p.cmp)

validate_op(op) ==
    CASE op.kind = "filter" -> validate_predicate(op.pred)
      [] op.kind \in {"recency", "lapsed"} ->
           /\ {op.event, op.user_key, op.ts} \subseteq Idents
           /\ op.days \in 1..MaxWithinDays
           /\ op.pred = NoPred \/ validate_predicate(op.pred)
      [] op.kind = "exclude" -> op.campaign \in Idents
      [] op.kind = "feature" -> op.name \in Idents /\ op.cmp \in Comparison
      [] op.kind = "derive" -> {op.event, op.column} \subseteq Idents
      [] op.kind = "characterize" ->
           {op.event, op.ts, op.monetary, op.category} \subseteq Idents
      [] op.kind = "setOp" -> TRUE
      [] op.kind = "similar" -> FALSE

\* A set operation is the last op; so is a metric or a profile, which must
\* also follow a narrowing op.
validate_positions(ops) ==
    \A i \in DOMAIN ops :
        /\ ops[i].kind \in Terminal \cup {"setOp"} => i = Len(ops)
        /\ ops[i].kind \in Terminal => \E j \in 1..(i - 1) : ops[j].kind \in Narrowing

validate(q) ==
    \A i \in DOMAIN q :
        /\ {q[i].source, q[i].key} \subseteq Idents
        /\ q[i].as_of # BadTime
        /\ Len(q[i].ops) <= MaxOps
        /\ \A j \in DOMAIN q[i].ops : validate_op(q[i].ops[j])
        /\ validate_positions(q[i].ops)

\* The last op of a part decides how it is run.
EndsIn(p, kinds) == p.ops # <<>> /\ p.ops[Len(p.ops)].kind \in kinds

\* has_derive, has_characterize look at the outer segment only.
has_derive(q)       == \E j \in DOMAIN q[1].ops : q[1].ops[j].kind = "derive"
has_characterize(q) == \E j \in DOMAIN q[1].ops : q[1].ops[j].kind = "characterize"

\* strip_derive, strip_last_op.
strip_last_op(q) ==
    [q EXCEPT ![1].ops = SubSeq(@, 1, Len(@) - 1)]

-----------------------------------------------------------------------------
(***************************************************************************)
(* ast: what a segment refers to, for the catalogue guardrail.             *)
(***************************************************************************)
\* Faulty variant: the event's predicate column is forgotten.
OpColumns_NoPredicate(p, op) ==
    LET At(d, cs) == {<<d, c>> : c \in cs}
    IN  CASE op.kind = "filter" -> At(p.source, {op.pred.column})
          [] op.kind \in {"recency", "lapsed"} -> At(op.event, {op.user_key, op.ts})
          [] op.kind = "derive" -> At(op.event, {"user_id", op.column})
          [] op.kind = "characterize" ->
               At(op.event, {"user_id", op.ts, op.monetary, op.category})
          [] OTHER -> {}

\* collect_columns, one op (a Count metric has no column of its own).
OpColumns(p, op) ==
    LET At(d, cs) == {<<d, c>> : c \in cs}
    IN  CASE op.kind = "filter" -> At(p.source, {op.pred.column})
          [] op.kind \in {"recency", "lapsed"} ->
               At(op.event, {op.user_key, op.ts}
                     \cup (IF op.pred = NoPred THEN {} ELSE {op.pred.column}))
          [] op.kind = "derive" -> At(op.event, {"user_id", op.column})
          [] op.kind = "characterize" ->
               At(op.event, {"user_id", op.ts, op.monetary, op.category})
          [] OTHER -> {}

referenced_columns(q) ==
    UNION {{<<q[i].source, q[i].key>>}
             \cup UNION {OpColumns(q[i], q[i].ops[j]) : j \in DOMAIN q[i].ops} : i \in DOMAIN q}

referenced_features(q) ==
    UNION {{q[i].ops[j].name : j \in {k \in DOMAIN q[i].ops : q[i].ops[k].kind = "feature"}}
             : i \in DOMAIN q}

-----------------------------------------------------------------------------
(***************************************************************************)
(* compiler: a template of SQL text with n placeholders, and the           *)
(* parameters in the order they are pushed.                                *)
(***************************************************************************)
Piece(tmpl, params) == [ok |-> TRUE, tmpl |-> tmpl, params |-> params, sources |-> <<>>]
Failed == [ok |-> FALSE, tmpl |-> <<>>, params |-> <<>>, sources |-> <<>>]

Const(b) == [t |-> "const", holds |-> b, n |-> 0]

\* compile_predicate, compile_in and to_value: an empty list is 1=0 or 1=1;
\* the wrong kind of value for the operator is rejected here.
compile_predicate(p) ==
    LET k == Len(p.value.vals)
    IN  CASE p.cmp \in Binary /\ ~p.value.list ->
               Piece(<<[t |-> "cmp", column |-> p.column, cmp |-> p.cmp, n |-> 1]>>, p.value.vals)
          [] p.cmp \in {"in", "notIn"} /\ p.value.list /\ k = 0 ->
               Piece(<<Const(p.cmp = "notIn")>>, <<>>)
          [] p.cmp \in {"in", "notIn"} /\ p.value.list /\ k > 0 ->
               Piece(<<[t |-> "in", column |-> p.column, neg |-> (p.cmp = "notIn"), n |-> k]>>,
                     p.value.vals)
          [] OTHER -> Failed

\* `[NOT] EXISTS (SELECT 1 FROM event e WHERE e.user_key = base.key AND
\* e.tenant_id = ? AND <pred> AND e.ts <side> now - days)`.
Exists(op, key, pred, neg, side) ==
    [t |-> "exists", neg |-> neg, event |-> op.event, user_key |-> op.user_key, key |-> key,
     ts |-> op.ts, days |-> op.days, side |-> side, pred |-> pred, n |-> 1 + pred.n]

\* compile_recency and compile_lapsed (before the window and not within it).
compile_event(op, key, tenant) ==
    LET p    == IF op.pred = NoPred THEN Piece(<<Const(TRUE)>>, <<>>) ELSE compile_predicate(op.pred)
        args == <<tenant>> \o p.params
    IN  IF ~p.ok THEN Failed
        ELSE [Piece(IF op.kind = "recency"
                    THEN <<Exists(op, key, p.tmpl[1], FALSE, "within")>>
                    ELSE <<Exists(op, key, p.tmpl[1], FALSE, "before"),
                           Exists(op, key, p.tmpl[1], TRUE, "within")>>,
                    IF op.kind = "recency" THEN args ELSE args \o args)
              EXCEPT !.sources = <<op.event>>]

\* Faulty variant: the tenant is pushed after the values, as if its `?` came
\* last in the text.
compile_feature_TenantLast(op, key, as_of, tenant) ==
    IF op.cmp \notin Comparison THEN Failed
    ELSE IF as_of = Null
         THEN Piece(<<[t |-> "wide", name |-> op.name, cmp |-> op.cmp, key |-> key, n |-> 2]>>,
                    <<op.value, tenant>>)
         ELSE Piece(<<[t |-> "pit", cmp |-> op.cmp, key |-> key, n |-> 4]>>,
                    <<op.name, as_of, op.value, tenant>>)

\* The latest-wins wide view, or the feature store bounded by the segment's
\* own asOf: f.tenant_id = ? [AND f.feature_name = ? AND f.as_of_ts <= ?] ... ?
compile_feature(op, key, as_of, tenant) ==
    IF op.cmp \notin Comparison THEN Failed
    ELSE IF as_of = Null
         THEN Piece(<<[t |-> "wide", name |-> op.name, cmp |-> op.cmp, key |-> key, n |-> 2]>>,
                    <<tenant, op.value>>)
         ELSE Piece(<<[t |-> "pit", cmp |-> op.cmp, key |-> key, n |-> 4]>>,
                    <<tenant, op.name, as_of, op.value>>)

\* rules: per_campaign_no_repeat, and frequency_cap with max contacts in days
\* (max = 0: no cap).  The cap's text counts `targeted` write-backs only, the
\* comment above it says targeted/delivered (see QueryEngine!CapCountsContacts).
compile_exclude(op, key, tenant, rules) ==
    LET repeat == <<[t |-> "norepeat", key |-> key, n |-> 2]>>
        cap    == <<[t |-> "cap", key |-> key, days |-> rules.days, n |-> 2]>>
    IN  CASE rules.no_repeat /\ rules.max > 0 ->
               Piece(repeat \o cap, <<tenant, op.campaign, tenant, rules.max>>)
          [] rules.no_repeat /\ rules.max = 0 -> Piece(repeat, <<tenant, op.campaign>>)
          [] ~rules.no_repeat /\ rules.max > 0 -> Piece(cap, <<tenant, rules.max>>)
          [] OTHER -> Piece(<<Const(TRUE)>>, <<>>)

\* The arms of compile_at for the ops that narrow.
compile_op(p, op, tenant, rules) ==
    CASE op.kind = "filter" -> compile_predicate(op.pred)
      [] op.kind \in {"recency", "lapsed"} -> compile_event(op, p.key, tenant)
      [] op.kind = "feature" -> compile_feature(op, p.key, p.as_of, tenant)
      [] op.kind = "exclude" -> compile_exclude(op, p.key, tenant, rules)
      [] OTHER -> Failed

\* Concatenation of the pieces of a part, or of the parts of a query.
Join(pieces) ==
    LET cat[i \in 0..Len(pieces)] ==
          IF i = 0 THEN Piece(<<>>, <<>>)
          ELSE [ok      |-> cat[i - 1].ok /\ pieces[i].ok,
                tmpl    |-> cat[i - 1].tmpl \o pieces[i].tmpl,
                params  |-> cat[i - 1].params \o pieces[i].params,
                sources |-> cat[i - 1].sources \o pieces[i].sources]
    IN  cat[Len(pieces)]

\* The part's own scan: the tenant conjunct comes first.
compile_part(q, i, tenant, rules) ==
    LET p   == q[i]
        ops == IF EndsIn(p, {"setOp"} \cup (IF i = 1 THEN Terminal ELSE {}))
               THEN SubSeq(p.ops, 1, Len(p.ops) - 1) ELSE p.ops
        all == Join(<<Piece(<<[t |-> "tenant", n |-> 1]>>, <<tenant>>)>>
                      \o [j \in DOMAIN ops |-> compile_op(p, ops[j], tenant, rules)])
    IN  [all EXCEPT !.tmpl = [j \in DOMAIN @ |-> [part |-> i, tmpl |-> @[j]]],
                    !.sources = <<p.source>> \o @]

\* What follows the segment: the op, the parameters of its own placeholders
\* and its table.
LastOp(q) == IF q[1].ops = <<>> THEN [kind |-> "none"] ELSE q[1].ops[Len(q[1].ops)]

TailParams(last, tenant) ==
    CASE last.kind = "derive" -> <<last.metric, tenant>>
      [] last.kind = "characterize" -> <<tenant>>
      [] OTHER -> <<>>

TailTables(last) == IF last.kind \in Terminal THEN <<last.event>> ELSE <<>>

\* The parts in the order of the text, the operators between them, and what
\* follows the segment; a profile goes through compile_characterize, which
\* compiles the narrowing the same way.  limit is Null without a Derive.
compile_with_opts(q, tenant, rules, limit) ==
    LET body == Join([i \in DOMAIN q |-> compile_part(q, i, tenant, rules)])
    IN  [ok      |-> /\ body.ok /\ Len(q) - 1 <= MaxNesting
                     /\ LastOp(q).kind = "derive" => limit # Null,
         heads   |-> [i \in DOMAIN q |-> [source |-> q[i].source, key |-> q[i].key]],
         kinds   |-> [i \in 1..(Len(q) - 1) |-> q[i].ops[Len(q[i].ops)].set],
         conj    |-> body.tmpl,
         last    |-> LastOp(q), limit |-> limit,
         params  |-> body.params \o TailParams(LastOp(q), tenant),
         sources |-> body.sources \o TailTables(LastOp(q))]

-----------------------------------------------------------------------------
(***************************************************************************)
(* What the compiled text reads, found in the text itself.                 *)
(***************************************************************************)
TmplColumns(d, tm) ==
    CASE tm.t \in {"cmp", "in"} -> {<<d, tm.column>>}
      [] tm.t = "exists" ->
           {<<tm.event, tm.user_key>>, <<tm.event, tm.ts>>, <<d, tm.key>>}
             \cup (IF tm.pred.t = "const" THEN {} ELSE {<<tm.event, tm.pred.column>>})
      [] tm.t \in {"wide", "pit", "norepeat", "cap"} -> {<<d, tm.key>>}
      [] OTHER -> {}

TailColumns(c) ==
    CASE c.last.kind = "derive" -> {<<c.last.event, "user_id">>, <<c.last.event, c.last.column>>}
      [] c.last.kind = "characterize" ->
           {<<c.last.event, f>> : f \in {"user_id", c.last.ts, c.last.monetary, c.last.category}}
      [] OTHER -> {}

\* Raw columns, raw tables and wide-view columns that the text names.
SqlColumns(c) ==
    {<<c.heads[i].source, c.heads[i].key>> : i \in DOMAIN c.heads}
        \cup (UNION {TmplColumns(c.heads[c.conj[j].part].source, c.conj[j].tmpl) : j \in DOMAIN c.conj})
        \cup TailColumns(c)
SqlTables(c)   == {x[1] : x \in SqlColumns(c)}
SqlFeatures(c) == {c.conj[j].tmpl.name : j \in {k \in DOMAIN c.conj : c.conj[k].tmpl.t = "wide"}}

\* The statement can be bound: every name it uses exists, and a profile joins
\* on s.user_id, which the segment has only if that is its key.
Bindable(c, db) ==
    /\ \A x \in SqlColumns(c) : x[1] \in Datasets /\ x[2] \in db.columns[x[1]]
    /\ SqlFeatures(c) \subseteq ViewColumns(db)
    /\ c.last.kind = "characterize" => c.heads[1].key = "user_id"

-----------------------------------------------------------------------------
(***************************************************************************)
(* The database: the statement c with its parameters bound left to right.  *)
(***************************************************************************)
Compare(x, cmp, y) ==
    CASE cmp = "eq" -> x # Null /\ x = y
      [] cmp = "ne" -> x # Null /\ y # Null /\ x # y
      [] cmp = "like" -> <<x, y>> \in Likes
      [] cmp = "notLike" -> x # Null /\ y # Null /\ <<x, y>> \notin Likes
      [] OTHER -> /\ {x, y} \subseteq Int
                  /\ CASE cmp = "lt" -> x < y [] cmp = "le" -> x <= y
                       [] cmp = "gt" -> x > y [] cmp = "ge" -> x >= y

\* A predicate template on row r with the arguments a.
RowHolds(tm, a, r) ==
    CASE tm.t = "const" -> tm.holds
      [] tm.t = "cmp" -> Compare(r[tm.column], tm.cmp, a[1])
      [] tm.t = "in" ->
           LET x == r[tm.column]
           IN  IF tm.neg THEN \A i \in DOMAIN a : Compare(x, "ne", a[i])
               ELSE \E i \in DOMAIN a : Compare(x, "eq", a[i])

InWindow(ts, side, days, now) ==
    ts # Null /\ IF side = "within" THEN ts >= now - days ELSE ts < now - days

\* A conjunct on the base row b.
ConjHolds(tm, a, b, db, now) ==
    CASE tm.t = "tenant" -> b.tenant_id = a[1]
      [] tm.t = "exists" ->
           LET some == \E e \in db.raw[tm.event] :
                         /\ Compare(e[tm.user_key], "eq", b[tm.key])
                         /\ e.tenant_id = a[1]
                         /\ RowHolds(tm.pred, Tail(a), e)
                         /\ InWindow(e[tm.ts], tm.side, tm.days, now)
           IN  IF tm.neg THEN ~some ELSE some
      [] tm.t = "wide" ->
           LET S == {f \in db.features : /\ f.user_id = b[tm.key] /\ f.tenant_id = a[1]
                                         /\ f.feature_name = tm.name}
           IN  S # {} /\ Compare(ArgMax(S), tm.cmp, a[2])
      [] tm.t = "pit" ->
           LET S == {f \in db.features : /\ f.user_id = b[tm.key] /\ f.tenant_id = a[1]
                                         /\ f.feature_name = a[2]
                                         /\ Compare(f.as_of_ts, "le", a[3])}
           IN  S # {} /\ Compare(ArgMax(S), tm.cmp, a[4])
      [] tm.t = "norepeat" ->
           ~\E s \in db.suppression : /\ s.user_id = b[tm.key] /\ s.tenant_id = a[1]
                                      /\ s.campaign_id = a[2]
                                      /\ s.action \in {"targeted", "delivered"}
      [] tm.t = "cap" ->
           LET S == {s \in db.suppression : /\ s.user_id = b[tm.key] /\ s.tenant_id = a[1]
                                            /\ s.action = "targeted"
                                            /\ s.occurred_ts >= now - tm.days}
           IN  S = {} \/ ~Compare(Cardinality(S), "ge", a[2])
      [] OTHER -> RowHolds(tm, a, b)

\* Start[j]: position of the first parameter of template j.
Start(c) ==
    LET pos[j \in 1..(Len(c.conj) + 1)] ==
          IF j = 1 THEN 1 ELSE pos[j - 1] + c.conj[j - 1].tmpl.n
    IN  pos

Combine(kind, A, B) ==
    CASE kind = "intersect" -> A \cap B [] kind = "union" -> A \cup B [] kind = "minus" -> A \ B

\* `(part) KW (rest)`: ps are the parameters from the first conjunct on.
Segments(c, ps, db, now) ==
    LET pos == Start(c)
        Arg(j) == SubSeq(ps, pos[j], pos[j + 1] - 1)
        Keys(i) == {b[c.heads[i].key] :
                      b \in {r \in db.raw[c.heads[i].source] :
                               \A j \in DOMAIN c.conj : c.conj[j].part = i =>
                                  ConjHolds(c.conj[j].tmpl, Arg(j), r, db, now)}}
        rest[i \in DOMAIN c.heads] ==
          IF i = Len(c.heads) THEN Keys(i) ELSE Combine(c.kinds[i], Keys(i), rest[i + 1])
    IN  rest[1]

\* sum, min, max of a numeric column over rows; Null without a number.  An
\* average is its sum and its count.
Aggregate(metric, col, rows) ==
    LET S == {r \in rows : r[col] # Null}
        Total == MapThenSumSet(LAMBDA r : r[col], S)
    IN  CASE metric = "count" -> Cardinality(rows)
          [] S = {} -> Null
          [] metric = "sum" -> Total
          [] metric = "avg" -> <<Total, Cardinality(S)>>
          [] metric = "min" -> Min({r[col] : r \in S})
          [] metric = "max" -> Max({r[col] : r \in S})

\* Faulty variant: the survivors are not limited.
Limited_Not(S, limit) == {S}

\* SELECT DISTINCT ... LIMIT: any `limit` of the rows.
Limited(S, limit) == {T \in SUBSET S : Cardinality(T) = Min({limit, Cardinality(S)})}

\* Results of a Derive.
DeriveResults(c, db, now) ==
    LET all  == Segments(c, c.params, db, now)
        k    == Start(c)[Len(c.conj) + 1]
    IN  {[name |-> c.params[k], over |-> S,
          value |-> Aggregate(c.last.metric, c.last.column,
                      {e \in db.raw[c.last.event] :
                         e.user_id \in S \ {Null} /\ e.tenant_id = c.params[k + 1]})]
            : S \in Limited(all, c.limit)}

\* Orders and active users.
Stats(rows) ==
    [orders |-> Cardinality(rows), active |-> Cardinality({e.user_id : e \in rows} \ {Null})]

\* Faulty variant: orders without a category are dropped.
CategoryCounts_NotNull(In, ev, col) ==
    [x \in {e[col] : e \in ev} \ {Null} |->
        [seg  |-> Cardinality({e \in In : e[col] = x}),
         base |-> Cardinality({e \in ev : e[col] = x})]]

\* GROUP BY category, the orders without one included.
CategoryCounts(In, ev, col) ==
    [x \in {e[col] : e \in ev} |->
        [seg  |-> Cardinality({e \in In : e[col] = x}),
         base |-> Cardinality({e \in ev : e[col] = x})]]

\* ORDER BY seg_n DESC LIMIT: no group that is left out ranks above one kept.
Top(counts) ==
    LET all == DOMAIN counts
    IN  {[x \in T |-> counts[x]] :
           T \in {K \in SUBSET all : /\ Cardinality(K) = Min({TopCategories, Cardinality(all)})
                                     /\ \A x \in K : \A y \in all \ K : counts[x].seg >= counts[y].seg}}

\* The three statements of a profile, the third before its LIMIT: `ev` are the
\* tenant's orders, In those of the segment.
ProfileParts(c, db, now) ==
    LET seg == Segments(c, c.params, db, now)
        ev  == {e \in db.raw[c.last.event] :
                  e.tenant_id = c.params[Start(c)[Len(c.conj) + 1]]}
        In  == {e \in ev : e.user_id \in seg \ {Null}}
        Last(rows, u) == Max({e[c.last.ts] : e \in {x \in rows : x.user_id = u}})
        Days(all) == LET rows == {e \in all : e[c.last.ts] # Null}
                         us   == {e.user_id : e \in rows}
                     IN  <<MapThenSumSet(LAMBDA u : now - Last(rows, u), us), Cardinality(us)>>
    IN  [metrics |-> [seg_users |-> Cardinality(seg), seg |-> Stats(In), base |-> Stats(ev),
                      seg_amount |-> Aggregate("sum", c.last.monetary, In),
                      base_amount |-> Aggregate("sum", c.last.monetary, ev)],
         recency |-> [seg |-> Days(In), base |-> Days(ev)],
         categories |-> CategoryCounts(In, ev, c.last.category)]

-----------------------------------------------------------------------------
(***************************************************************************)
(* What a segment means, from the DSL alone: computed on what the caller's *)
(* tenant owns, with no SQL, no parameters and no tenant conjunct.         *)
(***************************************************************************)
Satisfies(p, x) ==
    LET listed == {p.value.vals[i] : i \in DOMAIN p.value.vals}
    IN  CASE p.cmp = "in" -> x \in listed \ {Null}
          [] p.cmp = "notIn" -> listed = {} \/ (x # Null /\ Null \notin listed /\ x \notin listed)
          [] OTHER -> Compare(x, p.cmp, p.value.vals[1])

\* Times of the user's events that match the op's predicate.
EventTimes(op, own, user) ==
    {e[op.ts] : e \in {x \in own.raw[op.event] :
                         /\ user # Null /\ x[op.user_key] = user
                         /\ op.pred = NoPred \/ Satisfies(op.pred, x[op.pred.column])}} \ {Null}

\* Values of a feature known at time `upto`.
Known(own, user, name, upto) ==
    {f \in own.features : f.user_id = user /\ f.feature_name = name
                            /\ (upto = Null \/ f.as_of_ts <= upto)}

Contacts(own, user, actions) == {s \in own.suppression : s.user_id = user /\ s.action \in actions}

Meets(op, p, b, own, now, rules) ==
    LET user == b[p.key]
    IN  CASE op.kind = "filter" -> Satisfies(op.pred, b[op.pred.column])
          [] op.kind = "recency" -> \E ts \in EventTimes(op, own, user) : ts >= now - op.days
          [] op.kind = "lapsed" ->
               LET T == EventTimes(op, own, user) IN T # {} /\ Max(T) < now - op.days
          [] op.kind = "feature" ->
               LET F == Known(own, user, op.name, p.as_of)
               IN  F # {} /\ Compare(ArgMax(F), op.cmp, op.value)
          [] op.kind = "exclude" ->
               /\ rules.no_repeat =>
                    \A s \in Contacts(own, user, {"targeted", "delivered"}) : s.campaign_id # op.campaign
               \* "a user targeted >= N times in the last D days" (specs/20, section 5)
               /\ rules.max > 0 =>
                    Cardinality({s \in Contacts(own, user, {"targeted"}) :
                                   s.occurred_ts >= now - rules.days}) < rules.max
          [] OTHER -> TRUE

Denotation(q, db, t, now, rules) ==
    LET own == Own(db, t)
        Of(p) == {b[p.key] : b \in {r \in own.raw[p.source] :
                                      \A j \in DOMAIN p.ops : Meets(p.ops[j], p, r, own, now, rules)}}
        from[i \in DOMAIN q] ==
          IF EndsIn(q[i], {"setOp"}) THEN Combine(q[i].ops[Len(q[i].ops)].set, Of(q[i]), from[i + 1])
          ELSE Of(q[i])
    IN  from[1]

\* The metric of a Derive over the users of S, user by user.
MetricOver(op, db, t, S) ==
    LET own == Own(db, t)
    IN  Aggregate(op.metric, op.column,
                  UNION {{e \in own.raw[op.event] : e.user_id = u} : u \in S \ {Null}})
=============================================================================
