----------------------------- MODULE MCIngress ------------------------------
(***************************************************************************)
(* Instances of Ingress: two tenants, one raw table of two columns, two    *)
(* producers of one family, and for each scenario what the callers do.     *)
(***************************************************************************)
EXTENDS Ingress

CONSTANTS t1, t2, a, b, s1

MCTenantOf  == [k2 |-> t2]
MCColumns   == <<"user_id", "ts">>
MCProducers == [cadence |-> [family |-> "buy", shorts |-> {"regularity"}],
                spend   |-> [family |-> "buy", shorts |-> {"sum", "mean"}]]

Req(kind, token, arg) == [kind |-> kind, token |-> token, arg |-> arg]
Row(k, v) == [key |-> k, val |-> v]
Onboard(token, rows, type) == Req("onboard", token, [rows |-> rows, type |-> type, ok |-> TRUE])
Edit(token, text) == Req("edit", token, [column |-> "ts", text |-> text, ok |-> TRUE])
Suppress(token, campaign) ==
    Req("suppress", token, [row |-> [id |-> s1, campaign |-> campaign], ok |-> TRUE])
Producer(token, id) == Req("producer", token, [id |-> id, as_of |-> 1])
Lookup(token, k) == Req("retrieve", token, [k |-> k])
Export(token, format) == Req("export", token, [snap |-> s1, format |-> format])

Two == <<Row(a, 1), Row(b, 2)>>

MCScenarios ==
    { \* merges, one of them with a repeated and a missing key, around a buffered row
      <<Onboard("k1", <<Row(a, 0)>>, "batch"), Req("upsert", t2, <<Row(a, 1), Row(Null, 1), Row(b, 1), Row(a, 2)>>),
        Req("delete", t1, <<a, b>>)>>,
      <<Onboard("k1", Two, "cdc"), Req("upsert", t1, <<Row(b, 3)>>), Req("upsert", t2, <<Row(b, 4), Row(a, 4)>>)>>,
      \* edits and onboardings of one column
      <<Onboard("k1", Two, "batch"), Edit("k1", "one"), Edit("k1", "two")>>,
      <<Onboard("k1", Two, "batch"), Edit("k1", "one"), Onboard("k1", <<Row(a, 0)>>, "other")>>,
      <<Onboard("k2", Two, "batch"), Edit("k1", "one"), Lookup("k2", 0)>>,
      <<Req("onboard", "k1", [ok |-> FALSE]), Lookup("k2", 9), Suppress("k9", 1)>>,
      \* one outcome, posted by two tenants and twice by one of them
      <<Suppress("k1", 1), Suppress("k2", 1), Suppress("k1", 2)>>,
      \* features of one family from two producers
      <<Onboard("k1", Two, "batch"), Producer("k1", "cadence"), Producer("k2", "spend")>>,
      <<Onboard("k1", <<Row(Null, 1), Row(a, 2)>>, "batch"), Producer("k1", "cadence"), Producer("k2", "other")>>,
      \* exports by the owner and by someone else
      <<Req("materialize", t1, [snap |-> s1, users |-> {a}]), Req("audience", "k1", [snap |-> s1]), Export("k1", "parquet")>>,
      <<Req("materialize", t1, [snap |-> s1, users |-> {a, b}]), Req("audience", "k1", [snap |-> s1]), Export("k2", "parquet")>>,
      <<Req("materialize", t1, [snap |-> s1, users |-> {}]), Req("audience", "k1", [snap |-> s1]), Export("k1", "csv")>> }
=============================================================================
