---------------------------- MODULE MCQueryEngine ---------------------------
(***************************************************************************)
(* Instances of QueryEngine: two tenants with the same user ids and        *)
(* contradictory rows, two raw tables, two contents of the catalog, and    *)
(* for each caller a list of the segments it may ask for.                  *)
(***************************************************************************)
EXTENDS QueryEngine

CONSTANTS t1, t2, users, orders, visits, spend

MCIdents == {users, orders, visits, spend, "user_id", "ts", "val"}
MCLikes  == {<<1, 1>>, <<2, 1>>}
MCRules  == [no_repeat |-> TRUE, max |-> 1, days |-> 2]
MCCapRules == [MCRules EXCEPT !.no_repeat = FALSE]

Raw(i, t, u, ts, v) == [id |-> i, tenant_id |-> t, user_id |-> u, ts |-> ts, val |-> v]
Feat(t, u, n, at, v) ==
    [tenant_id |-> t, user_id |-> u, feature_name |-> n, as_of_ts |-> at, num_value |-> v]
Supp(t, u, k, a, ts) ==
    [tenant_id |-> t, user_id |-> u, campaign_id |-> k, action |-> a, occurred_ts |-> ts]
Cat(t, d, cs) == {[tenant_id |-> t, table |-> d, column |-> c] : c \in cs}

AllColumns == {"user_id", "ts", "val"}

Early ==
    [raw |-> [d \in {users, orders} |->
        IF d = users THEN {Raw(1, t1, 1, 0, 1), Raw(2, t1, 2, 0, 0), Raw(3, t2, 1, 0, 0), Raw(4, t2, 2, 0, 1)}
        ELSE {Raw(5, t1, 1, -3, 1), Raw(6, t1, 2, 0, 2), Raw(7, t2, 1, 0, 3), Raw(8, t2, 2, -3, 3)}],
     columns |-> [d \in {users, orders} |-> AllColumns],
     suppression |-> {Supp(t2, 1, visits, "targeted", 0)},
     features |-> {Feat(t1, 1, spend, -1, 1), Feat(t2, 2, spend, -1, 1)},
     catalogue |-> Cat(t1, users, AllColumns) \cup Cat(t2, orders, {"user_id", "ts"})]

\* Later: a third user, an order without a user, contacts, newer features.
Late ==
    [Early EXCEPT
        !.raw[users] = @ \cup {Raw(9, t1, 3, Null, 1)},
        !.raw[orders] = @ \cup {Raw(10, t1, 3, -3, Null), Raw(11, t1, Null, 0, 1)},
        !.suppression = @ \cup {Supp(t1, 2, spend, "delivered", 0), Supp(t1, 1, visits, "targeted", -1)},
        !.features = @ \cup {Feat(t1, 1, spend, 1, 0), Feat(t1, 3, spend, 0, 1)},
        !.catalogue = @ \cup Cat(t2, orders, AllColumns)]

MCContent == <<Early, Late>>

-----------------------------------------------------------------------------
One(x)  == [list |-> FALSE, vals |-> <<x>>]
Some(s) == [list |-> TRUE, vals |-> s]
Pred(c, cmp, v) == [column |-> c, cmp |-> cmp, value |-> v]
Filter(c, cmp, v) == [kind |-> "filter", pred |-> Pred(c, cmp, v)]
Event(k, p) == [kind |-> k, event |-> orders, user_key |-> "user_id", ts |-> "ts", days |-> 2, pred |-> p]
Feature(cmp) == [kind |-> "feature", name |-> spend, cmp |-> cmp, value |-> 1]
Exclude(k) == [kind |-> "exclude", campaign |-> k]
Derive(m) == [kind |-> "derive", metric |-> m, event |-> orders,
              column |-> IF m = "count" THEN "user_id" ELSE "val"]
Characterize == [kind |-> "characterize", event |-> orders, ts |-> "ts", monetary |-> "val", category |-> "val"]
SetOp(k) == [kind |-> "setOp", set |-> k]
Similar == [kind |-> "similar"]
Part(ops) == [source |-> users, key |-> "user_id", as_of |-> Null, ops |-> ops]

Everyone == Filter("val", "notIn", Some(<<>>))

\* Ops that narrow and compile, and ops that are refused here or there.
Ops == <<Everyone, Filter("val", "eq", One(1)), Filter("val", "in", Some(<<0, Null>>)),
         Filter("val", "notIn", Some(<<Null, 0>>)), Filter("ts", "lt", One(1)),
         Event("recency", NoPred), Event("recency", Pred("val", "like", One(1))),
         Event("lapsed", NoPred), Event("lapsed", Pred("val", "gt", One(0))),
         Feature("ge"), Exclude(spend)>>
Refused == <<Filter("val", "in", One(1)), Filter("val", "eq", Some(<<1>>)), Filter("bad", "eq", One(1)),
             Filter("val", "eq", One(Huge)), Feature("in"), Similar, [Event("recency", NoPred) EXCEPT !.days = 0]>>

Each(ops) == [i \in DOMAIN ops |-> <<Part(<<ops[i]>>)>>]
Pairs  == <<<<Part(<<Event("lapsed", Pred("val", "gt", One(0))), Exclude(spend)>>)>>,
            <<Part(<<Feature("lt"), Filter("val", "le", One(1)), Event("recency", NoPred)>>)>>>>
Both(k) == <<Part(<<Filter("val", "eq", One(1)), SetOp(k)>>), [Part(<<Feature("ge")>>) EXCEPT !.as_of = 0]>>
Sets   == <<Both("intersect"), Both("union"), Both("minus"),
            <<Part(<<SetOp("union")>>), Part(<<Everyone, Derive("count")>>)>>,
            <<Part(<<SetOp("minus"), Everyone>>), Part(<<>>)>>,
            <<Part(<<SetOp("minus")>>), Part(<<Exclude(visits), SetOp("union")>>),
              [Part(<<Event("recency", NoPred)>>) EXCEPT !.source = orders]>>,
            <<Part(<<SetOp("union")>>), Part(<<SetOp("union")>>), Part(<<SetOp("union")>>), Part(<<>>)>>>>
Others == <<<<[Part(<<Feature("ge")>>) EXCEPT !.as_of = 0]>>, <<[Part(<<>>) EXCEPT !.as_of = BadTime]>>,
            <<[Part(<<Everyone>>) EXCEPT !.key = "val"]>>, <<Part(<<>>)>>,
            <<Part(<<Everyone, Everyone, Everyone, Everyone>>)>>>>
Metric(m) == <<Part(<<Filter("val", "eq", One(1)), Derive(m)>>)>>
Metrics  == <<Metric("count"), Metric("sum"), Metric("max"),
              <<Part(<<Derive("count")>>)>>, <<Part(<<Everyone, Derive("avg")>>)>>>>
Profiles == <<<<Part(<<Filter("val", "eq", One(1)), Characterize>>)>>,
              <<[Part(<<Everyone, Characterize>>) EXCEPT !.key = "val"]>>>>

Asking(kind, t, Q) == {[kind |-> kind, tenant |-> t, q |-> Q[i]] : i \in DOMAIN Q}

Main ==
    Asking("dsl", t1, Each(Ops \o Refused) \o Pairs \o Sets \o Others \o Metrics \o Profiles)
      \cup Asking("job", t1, Pairs \o Sets \o <<Metric("sum")>>)
      \cup Asking("dsl", t2, <<<<Part(<<Event("lapsed", NoPred)>>)>>, Metric("max")>>)

Sql == {[kind |-> "sql", tenant |-> t2, q |-> <<>>, approved |-> b] : b \in BOOLEAN}

MCMenu == [r \in Requests |-> IF r = 1 THEN Main ELSE Sql]
=============================================================================
