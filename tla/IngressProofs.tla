--------------------------- MODULE IngressProofs -----------------------------
(***************************************************************************)
(* Safety of the tables under the REST handlers, for any number of         *)
(* callers, tenants, rows, columns, failures, restarts and retries.        *)
(***************************************************************************)
EXTENDS Ingress, Induction

\* The commands on their way, and the columns there can be entries for.
Sent  == {queue[i] : i \in DOMAIN queue}
Named == {Null} \cup {Columns[i] : i \in DOMAIN Columns}

\* Records and sequences are what they look like, and no request changes.
Shape ==
    /\ DOMAIN cat = DOMAIN Attached
    /\ DOMAIN buffer = Tenants /\ \A t \in Tenants : List(buffer[t])
    /\ List(queue) /\ List(cat.suppression)
    /\ DOMAIN calls = Callers
    /\ \A c \in Callers : DOMAIN calls[c] = {"pc", "req", "try", "data"}
    /\ \E s \in Scenarios : \A c \in Callers : calls[c].req = s[c]

\* What a request of kind k can be at, and what an onboarding remembers.
Leads(k, pc, data) ==
    /\ pc \in {"ingest", "label", "profile", "catalogue"} => k = "onboard"
    /\ pc \in {"entry", "embed"} => k = "edit"
    /\ pc = "retrieve" => k = "retrieve"
    /\ pc = "run" => k = "producer"
    /\ pc = "meta" => k = "audience"
    /\ pc = "owner" => k = "export"
    /\ pc = "profile" => data.epoch \in Nat

HandlersOwn == \A c \in Callers : Leads(calls[c].req.kind, calls[c].pc, calls[c].data)

Active(c) == calls[c].pc # "new" \/ calls[c].try > 0

\* The command m is what the request q asks for.
Carries(m, q) ==
    /\ m.op = "ingest" => List(m.arg.rows) /\ m.tenant \in Tenants
    /\ m.op \in {"upsert", "delete", "suppress", "materialize"} => q.kind = m.op /\ m.arg = q.arg
    /\ q.kind = "suppress" => m.op = "suppress"
    /\ m.op = "catalogue" => /\ List(m.arg)
                             /\ \A i \in DOMAIN m.arg : m.arg[i].epoch \in Nat /\ m.arg[i].column \in Named
    /\ q.kind = "export" => m.op = "export" /\ m.arg = q.arg.snap
    /\ q.kind = "edit" => /\ m.op = "catalogue" /\ Len(m.arg) = 1
                          /\ m.arg[1].column = q.arg.column /\ m.arg[1].text = q.arg.text

\* A command goes under the tenant of its sender.
CommandsOwn ==
    \A m \in Sent : /\ m.by \in Callers /\ m.tenant = Tenant(m.by) /\ Active(m.by)
                    /\ Carries(m, calls[m.by].req)

\* Catalogue entries are about the table or one of its columns.
EntriesNamed ==
    \A db \in {cat, view} :
        /\ IsFiniteSet(db.entries)
        /\ \A e \in db.entries : e.epoch \in Nat /\ e.column \in Named

\* What the edit q saw is no newer than the epoch it remembers.
Seen(q, data) ==
    /\ data.epoch \in Nat /\ q.arg.column \in Named
    /\ \A e \in data.saw : e.epoch \in Nat /\ e.epoch <= data.epoch

\* An edit is newer than every entry it saw.
EditsAhead ==
    /\ \A c \in Callers : calls[c].req.kind = "edit" /\ calls[c].pc \in {"embed", "write"} =>
         Seen(calls[c].req, calls[c].data)
    /\ \A m \in Sent : calls[m.by].req.kind = "edit" =>
         /\ calls[m.by].pc \in {"write", "done", "failed"}
         /\ calls[m.by].pc = "write" => m.arg[1].epoch > calls[m.by].data.epoch

\* A stored outcome was posted by a caller of its tenant.
OutcomesPosted ==
    \A i \in DOMAIN cat.suppression : \E d \in Callers :
        /\ calls[d].req.kind = "suppress" /\ calls[d].req.arg.row = cat.suppression[i].row
        /\ Active(d) /\ cat.suppression[i].tenant = Tenant(d)

\* Snapshots were materialised for their tenant; readers see no others.
SnapshotsOwned ==
    /\ view.snapshots \subseteq cat.snapshots
    /\ \A s \in cat.snapshots : \E d \in Callers :
         /\ calls[d].req.kind = "materialize"
         /\ calls[d].req.arg.snap = s.id /\ s.tenant = Tenant(d)

\* A token was made for a tenant with rows in its snapshot, and ends in time.
TokensBacked ==
    \A tok \in issued :
        /\ \E s \in cat.snapshots : s.id = tok.snap /\ s.tenant = tok.to
        /\ tok.expiry \in Nat /\ tok.expiry <= clock + TTL

\* The token of the export q was good when it was presented.
Presented(q, data) ==
    /\ data.token.snap = q.arg.snap
    /\ data.at \in Nat /\ data.at < data.token.expiry /\ data.token.expiry <= data.at + TTL

\* What an export has checked so far.
ExportsChecked ==
    \A c \in Callers : calls[c].req.kind = "export" /\ calls[c].pc \in {"owner", "write"} =>
        /\ Presented(calls[c].req, calls[c].data) /\ calls[c].data.token \in issued
        /\ calls[c].pc = "write" =>
             \E s \in cat.snapshots : s.id = calls[c].req.arg.snap /\ s.tenant = Tenant(c)

\* No row and no merge is of a call that is yet to come.
RowsDated ==
    /\ \A x \in cat.raw : x.w \in Nat /\ x.w <= writes
    /\ \A m \in merges : m.w \in Nat /\ m.w <= writes

IInv ==
    /\ Shape
    /\ TypeOK
    /\ HandlersOwn
    /\ CommandsOwn
    /\ EntriesNamed
    /\ EditsAhead
    /\ OutcomesPosted
    /\ SuppressionOnce
    /\ SnapshotsOwned
    /\ TokensBacked
    /\ ExportsChecked
    /\ ExportOwned
    /\ WideViewCovers
    /\ RowsDated
    /\ MergesReachCommitted

-----------------------------------------------------------------------------
\* The rows of the first chunks are a prefix, whose length depends on that of
\* the list alone.
LEMMA PrefixOf ==
    ASSUME NEW n \in Nat, NEW done \in Int
    PROVE  \E m \in 0..n : \A R : \A rows \in Seq(R) :
             Len(rows) = n => Prefix(rows, done) = SubSeq(rows, 1, m)
  <1> DEFINE least == Min({done * MergeChunk, n})
             m == Max({0, least})
  <1>1. done * MergeChunk \in Int
    BY CatalogAssumption
  <1>2. least \in Int /\ least <= n
    <2>1. \E x \in {done * MergeChunk, n} : \A y \in {done * MergeChunk, n} : x <= y
      BY <1>1
    <2> QED
      BY <1>1, <2>1 DEF Min
  <1> HIDE DEF least
  <1>3. m \in 0..n
    <2>1. \E x \in {0, least} : \A y \in {0, least} : x >= y
      BY <1>2
    <2> QED
      BY <1>2, <2>1 DEF Max
  <1>4. \A R : \A rows \in Seq(R) : Len(rows) = n => Prefix(rows, done) = SubSeq(rows, 1, m)
    BY DEF Prefix, least
  <1> QED
    BY <1>3, <1>4

\* A prefix of a sequence.
LEMMA SubSeqFacts ==
    ASSUME NEW R, NEW rows \in Seq(R), NEW m \in 0..Len(rows)
    PROVE  /\ SubSeq(rows, 1, m) \in Seq(R)
           /\ DOMAIN SubSeq(rows, 1, m) = 1..m /\ Len(SubSeq(rows, 1, m)) = m
           /\ \A i \in 1..m : SubSeq(rows, 1, m)[i] = rows[i]
           /\ 1..m \subseteq DOMAIN rows
  OBVIOUS

\* Each key once, and every row with a key.
Keyed(rows) ==
    /\ \A i \in DOMAIN rows : rows[i].key # Null
    /\ \A i, j \in DOMAIN rows : rows[i].key = rows[j].key => i = j

\* Taking one more row keeps the keys distinct.
LEMMA KeepKeyed ==
    ASSUME NEW R, NEW k \in Seq(R), Keyed(k), NEW r \in R
    PROVE  Keep(k, r) \in Seq(R) /\ Keyed(Keep(k, r))
  <1> DEFINE same == {j \in DOMAIN k : k[j].key = r.key}
  <1>1. CASE r.key = Null
    BY <1>1 DEF Keep
  <1>2. CASE r.key # Null /\ same = {}
    <2>1. Keep(k, r) = Append(k, r)
      BY <1>2 DEF Keep
    <2>2. Append(k, r) \in Seq(R) /\ Keyed(Append(k, r))
      BY <1>2 DEF Keyed
    <2> QED
      BY <2>1, <2>2
  <1>3. CASE r.key # Null /\ same # {}
    <2>1. PICK j \in same : Keep(k, r) = [k EXCEPT ![j] = r]
      BY <1>3 DEF Keep
    <2>2. j \in DOMAIN k /\ k[j].key = r.key
      OBVIOUS
    <2>3. [k EXCEPT ![j] = r] \in Seq(R) /\ Keyed([k EXCEPT ![j] = r])
      BY <1>3, <2>2 DEF Keyed
    <2> QED
      BY <2>1, <2>3
  <1> QED
    BY <1>1, <1>2, <1>3

\* dedup_by_key gives rows of the list, with distinct keys.
LEMMA DedupKeyed ==
    ASSUME NEW R, NEW rows \in Seq(R)
    PROVE  dedup_by_key(rows) \in Seq(R) /\ Keyed(dedup_by_key(rows))
  <1> DEFINE V == {s \in Seq(R) : Keyed(s)}
             kept[i \in 0..Len(rows)] == IF i = 0 THEN <<>> ELSE Keep(kept[i - 1], rows[i])
             G == [i \in 1..Len(rows) |-> [k \in V |-> Keep(k, rows[i])]]
  <1>1. dedup_by_key(rows) = kept[Len(rows)]
    BY DEF dedup_by_key
  <1>2. Len(rows) \in Nat /\ <<>> \in V
    BY DEF Keyed
  <1>3. \A k \in V : \A r \in R : Keep(k, r) \in V
    BY KeepKeyed
  <1>4. G \in [1..Len(rows) -> [V -> V]]
    <2>1. \A i \in 1..Len(rows) : rows[i] \in R
      OBVIOUS
    <2> HIDE DEF V
    <2> QED
      BY <1>3, <2>1
  <1>5. PICK f \in [0..Len(rows) -> V] :
          f[0] = <<>> /\ \A i \in 1..Len(rows) : f[i] = G[i][f[i - 1]]
    <2> DEFINE n == Len(rows)
               none == <<>>
    <2>1. none \in V /\ n \in Nat /\ G \in [1..n -> [V -> V]]
      BY <1>2, <1>4
    <2> HIDE DEF V, G, n, none
    <2>2. \E f \in [0..n -> V] : f[0] = none /\ \A i \in 1..n : f[i] = G[i][f[i - 1]]
      BY <2>1, Recursion
    <2> QED
      BY <2>2 DEF n, none
  <1>6. ASSUME NEW i \in 1..Len(rows) PROVE f[i] = Keep(f[i - 1], rows[i])
    <2> HIDE DEF V
    <2>1. f[i - 1] \in V
      OBVIOUS
    <2> QED
      BY <1>5, <2>1
  <1>7. f = [i \in 0..Len(rows) |-> IF i = 0 THEN <<>> ELSE Keep(f[i - 1], rows[i])]
    <2> HIDE DEF V
    <2>1. \A i \in 0..Len(rows) : i # 0 => i \in 1..Len(rows)
      OBVIOUS
    <2> QED
      BY <1>5, <1>6, <2>1
  <1>8. kept = [i \in 0..Len(rows) |-> IF i = 0 THEN <<>> ELSE Keep(kept[i - 1], rows[i])]
    BY <1>7, Zenon
  <1>9. \A i \in 0..Len(rows) : kept[i] \in V
    <2> DEFINE S == {i \in 0..Len(rows) : kept[i] \in V}
    <2> HIDE DEF kept, V
    <2>1. 0 \in S
      BY <1>2, <1>8
    <2>2. ASSUME NEW i \in 1..Len(rows), i - 1 \in S PROVE i \in S
      <3>1. i \in 0..Len(rows) /\ i # 0 /\ rows[i] \in R
        OBVIOUS
      <3>2. kept[i] = Keep(kept[i - 1], rows[i])
        BY <1>8, <3>1
      <3> QED
        BY <1>3, <2>2, <3>1, <3>2
    <2> HIDE DEF S
    <2>3. 0..Len(rows) \subseteq S
      BY <1>2, <2>1, <2>2, UpTo
    <2> QED
      BY <2>3 DEF S
  <1>10. Len(rows) \in 0..Len(rows)
    BY <1>2
  <1> HIDE DEF kept
  <1> QED
    BY <1>1, <1>9, <1>10

-----------------------------------------------------------------------------
\* A handler goes on, or ends.
LEMMA GoFacts ==
    ASSUME Shape, NEW c \in Callers, NEW pc, NEW data, Go(c, pc, data)
    PROVE  /\ DOMAIN calls' = Callers
           /\ \A d \in Callers : /\ DOMAIN calls'[d] = {"pc", "req", "try", "data"}
                                 /\ calls'[d].req = calls[d].req /\ calls'[d].try = calls[d].try
           /\ \A d \in Callers \ {c} : calls'[d] = calls[d]
           /\ calls'[c].pc = pc /\ calls'[c].data = data
  BY DEF Shape, Go

\* The tenant of a caller is fixed by its request.
LEMMA SameTenant ==
    ASSUME NEW c \in Callers, calls'[c].req = calls[c].req
    PROVE  Tenant(c)' = Tenant(c)
  BY DEF Tenant, Authenticated

-----------------------------------------------------------------------------
\* A step of c's handler that leaves the writer's side as it is, but for the
\* commands `new` it sends.
Handles(c, pc, data, new) ==
    /\ calls[c].pc \in Awaits \cup {"new"} /\ (calls[c].pc = "write" => pc = "failed")
    /\ Go(c, pc, data)
    /\ pc \in Awaits \cup {"done", "failed"}
    /\ List(queue') /\ Sent' = Sent \cup new
    /\ UNCHANGED <<cat, view, buffer, writes, merges, faults, clock, key>>

\* The next await and the commands follow from the request.
Follows(c, pc, data, new) ==
    LET q == calls[c].req
    IN  /\ Leads(q.kind, pc, data)
        /\ pc = "done" => q.kind \notin {"suppress", "export"}
        /\ q.kind = "edit" /\ pc \in {"embed", "write"} => Seen(q, data)
        /\ q.kind = "export" /\ pc \in {"owner", "write"} =>
             /\ Presented(q, data) /\ data.token \in issued
             /\ pc = "write" => \E s \in cat.snapshots : s.id = q.arg.snap /\ s.tenant = Tenant(c)
        /\ \A m \in new : /\ m.by = c /\ m.tenant = Tenant(c) /\ Carries(m, q)
                          /\ q.kind = "edit" => pc = "write" /\ m.arg[1].epoch > data.epoch

\* Such a step keeps the invariant, up to what it does to the registry and to
\* the tokens.
LEMMA HandlerIInv ==
    ASSUME IInv, NEW c \in Callers, NEW pc, NEW data, NEW new,
           Handles(c, pc, data, new), Follows(c, pc, data, new), issued \subseteq issued'
    PROVE  /\ (\A r \in registry' : r.epoch \in 0..MaxClock) /\ TokensBacked' => IInv'
           /\ issued' = issued => TokensBacked'
  <1> USE DEF IInv, Handles
  <1>1. /\ DOMAIN calls' = Callers
        /\ \A d \in Callers : /\ DOMAIN calls'[d] = {"pc", "req", "try", "data"}
                              /\ calls'[d].req = calls[d].req /\ calls'[d].try = calls[d].try
        /\ \A d \in Callers \ {c} : calls'[d] = calls[d]
        /\ calls'[c].pc = pc /\ calls'[c].data = data
    BY GoFacts
  <1>2. \A d \in Callers : Tenant(d)' = Tenant(d)
    BY <1>1, SameTenant
  <1>3. \A d \in Callers : Active(d) => Active(d)'
    BY <1>1 DEF Active, Awaits
  <1>4. Active(c)'
    BY <1>1 DEF Active, Awaits
  <1>5. Shape'
    BY <1>1 DEF Shape
  <1>6. (\A r \in registry' : r.epoch \in 0..MaxClock) => TypeOK'
    BY <1>1 DEF TypeOK
  <1>7. HandlersOwn'
    BY <1>1 DEF HandlersOwn, Follows
  <1>8. CommandsOwn'
    <2> SUFFICES ASSUME NEW m \in Sent'
                 PROVE  (m.by \in Callers /\ m.tenant = Tenant(m.by) /\ Active(m.by) /\ Carries(m, calls[m.by].req))'
      BY DEF CommandsOwn
    <2>1. CASE m \in Sent
      BY <1>1, <1>2, <1>3, <2>1 DEF CommandsOwn
    <2>2. CASE m \in new
      BY <1>1, <1>2, <1>4, <2>2 DEF Follows
    <2> QED
      BY <2>1, <2>2
  <1>9. EntriesNamed' /\ WideViewCovers' /\ RowsDated' /\ MergesReachCommitted'
    BY DEF EntriesNamed, WideViewCovers, RowsDated, MergesReachCommitted
  <1>10. EditsAhead'
    <2>1. ASSUME NEW d \in Callers, calls'[d].req.kind = "edit", calls'[d].pc \in {"embed", "write"}
          PROVE  Seen(calls'[d].req, calls'[d].data)
      BY <1>1, <2>1 DEF EditsAhead, Follows
    <2>2. ASSUME NEW m \in Sent', calls'[m.by].req.kind = "edit"
          PROVE  /\ calls'[m.by].pc \in {"write", "done", "failed"}
                 /\ calls'[m.by].pc = "write" => m.arg[1].epoch > calls'[m.by].data.epoch
      <3>1. CASE m \in Sent
        <4>1. m.by \in Callers /\ calls[m.by].req.kind = "edit"
          BY <1>1, <2>2, <3>1 DEF CommandsOwn
        <4>2. /\ calls[m.by].pc \in {"write", "done", "failed"}
              /\ calls[m.by].pc = "write" => m.arg[1].epoch > calls[m.by].data.epoch
          BY <3>1, <4>1 DEF EditsAhead
        <4>3. CASE m.by = c
          BY <1>1, <4>2, <4>3 DEF Awaits
        <4>4. CASE m.by # c
          BY <1>1, <4>1, <4>2, <4>4
        <4> QED
          BY <4>3, <4>4
      <3>2. CASE m \in new
        BY <1>1, <2>2, <3>2 DEF Follows
      <3> QED
        BY <3>1, <3>2
    <2> QED
      BY <2>1, <2>2 DEF EditsAhead
  <1>11. OutcomesPosted'
    BY <1>1, <1>2, <1>3 DEF OutcomesPosted
  <1>12. SuppressionOnce'
    <2>1. ASSUME NEW e \in Callers, calls'[e].req.kind = "suppress", calls'[e].pc = "done"
          PROVE  calls[e].req.kind = "suppress" /\ calls[e].pc = "done"
      BY <1>1, <2>1 DEF Follows
    <2> QED
      BY <1>1, <1>2, <1>3, <2>1 DEF SuppressionOnce, Active
  <1>13. SnapshotsOwned'
    BY <1>1, <1>2 DEF SnapshotsOwned
  <1>14. ExportsChecked'
    <2> SUFFICES ASSUME NEW e \in Callers, calls'[e].req.kind = "export", calls'[e].pc \in {"owner", "write"}
                 PROVE  /\ Presented(calls'[e].req, calls'[e].data) /\ calls'[e].data.token \in issued'
                        /\ calls'[e].pc = "write" =>
                             \E s \in cat.snapshots : s.id = calls'[e].req.arg.snap /\ s.tenant = Tenant(e)'
      BY DEF ExportsChecked, Presented
    <2>1. CASE e = c
      BY <1>1, <1>2, <2>1 DEF Follows
    <2>2. CASE e # c
      BY <1>1, <1>2, <2>2 DEF ExportsChecked
    <2> QED
      BY <2>1, <2>2
  <1>15. ExportOwned'
    BY <1>1, <1>2 DEF ExportOwned, Follows
  <1>16. issued' = issued => TokensBacked'
    BY DEF TokensBacked
  <1> QED
    BY <1>5, <1>6, <1>7, <1>8, <1>9, <1>10, <1>11, <1>12, <1>13, <1>14, <1>15, <1>16

\* A step that sends nothing.
LEMMA QuietHandles ==
    ASSUME Shape, NEW c \in Callers, NEW pc, NEW data, Go(c, pc, data), UNCHANGED <<store, clock, key>>,
           calls[c].pc \in Awaits \cup {"new"}, calls[c].pc = "write" => pc = "failed",
           pc \in Awaits \cup {"done", "failed"}
    PROVE  Handles(c, pc, data, {})
  BY DEF Handles, Shape, Sent, store

\* A step that sends a command.
LEMMA SendHandles ==
    ASSUME Shape, NEW c \in Callers, NEW pc, NEW op, NEW arg, NEW data, Send(c, pc, op, arg, data),
           UNCHANGED <<clock, key>>, calls[c].pc \in (Awaits \cup {"new"}) \ {"write"}, pc \in Awaits
    PROVE  Handles(c, pc, data, {[op |-> op, arg |-> arg, tenant |-> Tenant(c), by |-> c, try |-> calls[c].try]})
  <1> DEFINE m == [op |-> op, arg |-> arg, tenant |-> Tenant(c), by |-> c, try |-> calls[c].try]
  <1>1. /\ queue' = Append(queue, m) /\ Go(c, pc, data)
        /\ UNCHANGED <<cat, view, buffer, writes, merges, faults>>
    BY DEF Send
  <1> HIDE DEF m
  <1>2. List(queue) /\ Sent = {queue[i] : i \in DOMAIN queue}
    BY DEF Shape, Sent
  <1>3. List(Append(queue, m)) /\ Sent' = Sent \cup {m}
    BY <1>1, <1>2, AppendFacts DEF Sent
  <1> QED
    BY <1>1, <1>3 DEF Handles, m

\* A handler that fails keeps the invariant.
LEMMA FailIInv ==
    ASSUME IInv, NEW c \in Callers, Fail(c), UNCHANGED <<store, clock, key, issued>>,
           calls[c].pc \in Awaits \cup {"new"}, \A r \in registry' : r.epoch \in 0..MaxClock
    PROVE  IInv'
  <1>1. Handles(c, "failed", NoData, {})
    BY QuietHandles DEF IInv, Fail
  <1>2. Follows(c, "failed", NoData, {})
    BY DEF Follows, Leads
  <1> QED
    BY <1>1, <1>2, HandlerIInv

\* Every request is one of a scenario.
LEMMA RequestFacts ==
    ASSUME Shape, NEW c \in Callers
    PROVE  LET q == calls[c].req
           IN  /\ q.kind \in Kinds
               /\ q.kind = "onboard" /\ q.arg.ok => List(q.arg.rows)
               /\ q.kind \in {"upsert", "delete"} => List(q.arg)
  BY IngressAssumption DEF Shape, ScenarioOK

\* Snapshot ids are fresh uuids: only one call materialises into each.
LEMMA UniqueSnapshots ==
    ASSUME Shape, NEW c \in Callers, NEW d \in Callers,
           calls[c].req.kind = "materialize", calls[d].req.kind = "materialize",
           calls[c].req.arg.snap = calls[d].req.arg.snap
    PROVE  c = d
  BY IngressAssumption DEF Shape, ScenarioOK

-----------------------------------------------------------------------------
\* The handler up to its first await.
LEMMA StartIInv ==
    ASSUME IInv, NEW c \in Callers, Start(c)
    PROVE  IInv'
  <1> DEFINE q == calls[c].req
  <1>1. calls[c].pc = "new" /\ UNCHANGED rest
    BY DEF Start
  <1>2. \A r \in registry' : r.epoch \in 0..MaxClock
    BY <1>1 DEF rest, IInv, TypeOK
  <1>3. UNCHANGED <<clock, key, issued>>
    BY <1>1 DEF rest
  <1>4. CASE Fail(c) /\ UNCHANGED store
    BY <1>1, <1>2, <1>3, <1>4, FailIInv
  <1>5. CASE Authenticated(q) # {} /\ Valid(q) /\ First(c, q)
    <2>1. q.kind \in Kinds /\ (q.kind = "onboard" /\ q.arg.ok => List(q.arg.rows))
      BY RequestFacts DEF IInv
    <2>2. CASE q.kind = "onboard"
      <3> DEFINE m == [op |-> "ingest", arg |-> q.arg, tenant |-> Tenant(c), by |-> c, try |-> calls[c].try]
      <3>1. Send(c, "ingest", "ingest", q.arg, NoData)
        BY <1>5, <2>2 DEF First
      <3>2. Handles(c, "ingest", NoData, {m})
        BY <1>1, <1>3, <3>1, SendHandles DEF IInv, Awaits
      <3>3. List(m.arg.rows)
        BY <1>5, <2>1, <2>2 DEF Valid
      <3>4. Tenant(c) \in Tenants
        <4>1. Authenticated(q) = require_auth(q.token)
          BY <2>2 DEF Authenticated
        <4>2. require_auth(q.token) \subseteq Tenants
          BY DEF require_auth, Tenants
        <4> QED
          BY <1>5, <4>1, <4>2 DEF Tenant
      <3>5. Follows(c, "ingest", NoData, {m})
        BY <2>2, <3>3, <3>4 DEF Follows, Leads, Carries
      <3> QED
        BY <1>2, <1>3, <3>2, <3>5, HandlerIInv
    <2>3. CASE q.kind \in {"upsert", "delete", "suppress", "materialize"}
      <3> DEFINE m == [op |-> q.kind, arg |-> q.arg, tenant |-> Tenant(c), by |-> c, try |-> calls[c].try]
      <3>1. Send(c, "write", q.kind, q.arg, NoData)
        BY <1>5, <2>3 DEF First
      <3>2. Handles(c, "write", NoData, {m})
        BY <1>1, <1>3, <3>1, SendHandles DEF IInv, Awaits
      <3>3. Follows(c, "write", NoData, {m})
        BY <2>3 DEF Follows, Leads, Carries
      <3> QED
        BY <1>2, <1>3, <3>2, <3>3, HandlerIInv
    <2>4. CASE q.kind = "export"
      <3>1. UNCHANGED store
        BY <1>5, <2>4 DEF First
      <3>2. CASE Fail(c)
        BY <1>1, <1>2, <1>3, <3>1, <3>2, FailIInv
      <3>3. ASSUME NEW tok \in issued, verify(tok, q.arg.snap), Go(c, "owner", [token |-> tok, at |-> clock])
            PROVE  IInv'
        <4>1. Handles(c, "owner", [token |-> tok, at |-> clock], {})
          BY <1>1, <1>3, <3>1, <3>3, QuietHandles DEF IInv, Awaits
        <4>2. clock \in Nat /\ tok.expiry \in Nat /\ tok.expiry <= clock + TTL
          BY DEF IInv, TypeOK, TokensBacked
        <4>3. Follows(c, "owner", [token |-> tok, at |-> clock], {})
          BY <2>4, <3>3, <4>2 DEF Follows, Leads, Presented, verify
        <4> QED
          BY <1>2, <1>3, <4>1, <4>3, HandlerIInv
      <3> QED
        BY <1>5, <2>4, <3>2, <3>3 DEF First
    <2>5. CASE q.kind \in DOMAIN FirstRead
      <3> DEFINE pc == FirstRead[q.kind]
      <3>1. Go(c, pc, NoData) /\ UNCHANGED store
        BY <1>5, <2>5 DEF First, FirstRead
      <3>2. /\ q.kind = "edit" => pc = "entry"
            /\ q.kind = "retrieve" => pc = "retrieve"
            /\ q.kind = "producer" => pc = "run"
            /\ q.kind = "audience" => pc = "meta"
            /\ q.kind \in {"edit", "retrieve", "producer", "audience"}
        BY <2>5 DEF FirstRead
      <3> HIDE DEF pc
      <3>3. Handles(c, pc, NoData, {})
        BY <1>1, <1>3, <3>1, <3>2, QuietHandles DEF IInv, Awaits
      <3>4. Follows(c, pc, NoData, {})
        BY <3>2 DEF Follows, Leads
      <3> QED
        BY <1>2, <1>3, <3>3, <3>4, HandlerIInv
    <2> QED
      BY <2>1, <2>2, <2>3, <2>4, <2>5 DEF Kinds
  <1> QED
    BY <1>4, <1>5 DEF Start

\* The source type is parsed and the registry set.
LEMMA LabelIInv ==
    ASSUME IInv, NEW c \in Callers, Label(c)
    PROVE  IInv'
  <1>1. calls[c].pc = "label" /\ UNCHANGED <<store, clock, key, issued>>
    BY DEF Label
  <1>2. clock \in Nat /\ clock \in 0..MaxClock
    BY IngressAssumption DEF IInv, TypeOK
  <1>3. CASE Fail(c) /\ UNCHANGED registry
    BY <1>1, <1>3, FailIInv DEF IInv, TypeOK, Awaits
  <1>4. CASE /\ registry' = {[type |-> calls[c].req.arg.type, epoch |-> clock]}
             /\ Go(c, "profile", [epoch |-> clock])
    <2>1. Handles(c, "profile", [epoch |-> clock], {})
      BY <1>1, <1>4, QuietHandles DEF IInv, Awaits
    <2>2. calls[c].req.kind = "onboard"
      BY <1>1 DEF IInv, HandlersOwn, Leads
    <2>3. Follows(c, "profile", [epoch |-> clock], {})
      BY <1>2, <2>2 DEF Follows, Leads
    <2>4. \A r \in registry' : r.epoch \in 0..MaxClock
      BY <1>2, <1>4
    <2> QED
      BY <1>1, <2>1, <2>3, <2>4, HandlerIInv
  <1> QED
    BY <1>3, <1>4 DEF Label

\* What a handler leaves alone.
LEMMA RestKept ==
    ASSUME IInv, UNCHANGED rest
    PROVE  UNCHANGED <<clock, key, issued>> /\ \A r \in registry' : r.epoch \in 0..MaxClock
  BY DEF IInv, TypeOK, rest

\* The entries of a profile are about the table and its columns.
LEMMA ProfileFacts ==
    ASSUME NEW e \in Nat
    PROVE  /\ List(profile(e))
           /\ \A i \in DOMAIN profile(e) : profile(e)[i].epoch \in Nat /\ profile(e)[i].column \in Named
  <1>1. Len(Columns) \in Nat /\ DOMAIN Columns = 1..Len(Columns)
    BY CatalogAssumption
  <1> DEFINE n == Len(Columns) + 1
             E(i) == [column |-> IF i = 1 THEN Null ELSE Columns[i - 1], text |-> "profiled", epoch |-> e]
             R == {E(i) : i \in 1..n}
  <1>2. profile(e) = [i \in 1..n |-> E(i)]
    BY DEF profile
  <1>3. n \in Nat
    BY <1>1
  <1>4. \A i \in 1..n : E(i).epoch = e /\ E(i).column \in Named
    BY <1>1 DEF Named
  <1>5. \A i \in 1..n : E(i) \in R
    OBVIOUS
  <1> HIDE DEF E, R, n
  <1>6. profile(e) \in Seq(R)
    BY <1>2, <1>3, <1>5
  <1>7. List(profile(e))
    BY <1>6, IsList
  <1> QED
    BY <1>2, <1>4, <1>7

\* The profiler's entries go to the writer.
LEMMA ProfileIInv ==
    ASSUME IInv, NEW c \in Callers, Profile(c)
    PROVE  IInv'
  <1>1. calls[c].pc = "profile" /\ UNCHANGED <<clock, key, issued>> /\ (\A r \in registry' : r.epoch \in 0..MaxClock)
    BY RestKept DEF Profile
  <1>2. calls[c].req.kind = "onboard" /\ calls[c].data.epoch \in Nat
    BY <1>1 DEF IInv, HandlersOwn, Leads
  <1>3. CASE Send(c, "catalogue", "catalogue", profile(calls[c].data.epoch), NoData)
    <2> DEFINE rows == profile(calls[c].data.epoch)
               m == [op |-> "catalogue", arg |-> rows, tenant |-> Tenant(c), by |-> c, try |-> calls[c].try]
    <2>1. List(rows) /\ \A i \in DOMAIN rows : rows[i].epoch \in Nat /\ rows[i].column \in Named
      BY <1>2, ProfileFacts
    <2>2. Send(c, "catalogue", "catalogue", rows, NoData)
      BY <1>3
    <2> HIDE DEF rows
    <2>3. Handles(c, "catalogue", NoData, {m})
      BY <1>1, <2>2, SendHandles DEF IInv, Awaits
    <2>4. Follows(c, "catalogue", NoData, {m})
      BY <1>2, <2>1 DEF Follows, Leads, Carries
    <2> QED
      BY <1>1, <2>3, <2>4, HandlerIInv
  <1>4. CASE Go(c, "done", [profiled |-> FALSE]) /\ UNCHANGED store
    <2>1. Handles(c, "done", [profiled |-> FALSE], {})
      BY <1>1, <1>4, QuietHandles DEF IInv, Awaits
    <2>2. Follows(c, "done", [profiled |-> FALSE], {})
      BY <1>2 DEF Follows, Leads
    <2> QED
      BY <1>1, <2>1, <2>2, HandlerIInv
  <1> QED
    BY <1>3, <1>4 DEF Profile

\* The newest entry is read.
LEMMA EntryIInv ==
    ASSUME IInv, NEW c \in Callers, catalogue_entry(c)
    PROVE  IInv'
  <1> DEFINE col == calls[c].req.arg.column
             Mine(db) == {x \in db.entries : x.tenant = Tenant(c) /\ x.column = col}
  <1>1. /\ calls[c].pc = "entry" /\ UNCHANGED store
        /\ UNCHANGED <<clock, key, issued>> /\ (\A r \in registry' : r.epoch \in 0..MaxClock)
    BY RestKept DEF catalogue_entry
  <1>2. calls[c].req.kind = "edit"
    BY <1>1 DEF IInv, HandlersOwn, Leads
  <1>3. CASE Fail(c)
    BY <1>1, <1>3, FailIInv DEF Awaits
  <1>4. ASSUME NEW db \in {cat, view}, NEW e \in Newest(db, col, Tenant(c)),
               Go(c, "embed", [epoch |-> e.epoch, saw |-> Mine(db)])
        PROVE  IInv'
    <2> DEFINE data == [epoch |-> e.epoch, saw |-> Mine(db)]
    <2>1. e \in Mine(db) /\ \A x \in Mine(db) : x.epoch <= e.epoch
      BY <1>4 DEF Newest
    <2>2. \A x \in Mine(db) : x.epoch \in Nat /\ x.column \in Named
      BY DEF IInv, EntriesNamed
    <2>3. Seen(calls[c].req, data)
      BY <2>1, <2>2 DEF Seen
    <2>4. Handles(c, "embed", data, {})
      BY <1>1, <1>4, QuietHandles DEF IInv, Awaits
    <2> HIDE DEF data
    <2>5. Follows(c, "embed", data, {})
      BY <1>2, <2>3 DEF Follows, Leads
    <2> QED
      BY <1>1, <2>4, <2>5, HandlerIInv
  <1> QED
    BY <1>3, <1>4 DEF catalogue_entry

\* The edit goes to the writer, newer than what it saw.
LEMMA EmbedIInv ==
    ASSUME IInv, NEW c \in Callers, Embed(c)
    PROVE  IInv'
  <1> DEFINE q == calls[c].req
             old == calls[c].data
             row == [column |-> q.arg.column, text |-> q.arg.text, epoch |-> EditEpoch(old.epoch)]
             m == [op |-> "catalogue", arg |-> <<row>>, tenant |-> Tenant(c), by |-> c, try |-> calls[c].try]
  <1>1. /\ calls[c].pc = "embed"
        /\ UNCHANGED <<clock, key, issued>> /\ (\A r \in registry' : r.epoch \in 0..MaxClock)
    BY RestKept DEF Embed
  <1>2. q.kind = "edit"
    BY <1>1 DEF IInv, HandlersOwn, Leads
  <1>3. CASE Fail(c) /\ UNCHANGED store
    BY <1>1, <1>3, FailIInv DEF Awaits
  <1>4. CASE Send(c, "write", "catalogue", <<row>>, old)
    <2>1. Handles(c, "write", old, {m})
      BY <1>1, <1>4, SendHandles DEF IInv, Awaits
    <2>2. Seen(q, old)
      BY <1>1, <1>2 DEF IInv, EditsAhead
    <2>3. clock \in Nat
      BY IngressAssumption DEF IInv, TypeOK
    <2>4. EditEpoch(old.epoch) \in Nat /\ EditEpoch(old.epoch) > old.epoch
      BY <2>2, <2>3 DEF Seen, EditEpoch
    <2>5. row.epoch \in Nat /\ row.epoch > old.epoch /\ row.column \in Named
      BY <2>2, <2>4 DEF Seen
    <2>6. row.column = q.arg.column /\ row.text = q.arg.text
      OBVIOUS
    <2> HIDE DEF row
    <2>7. <<row>> \in Seq({row})
      OBVIOUS
    <2>8. List(<<row>>)
      BY <2>7, IsList
    <2>9. DOMAIN <<row>> = {1} /\ <<row>>[1] = row /\ Len(<<row>>) = 1
      OBVIOUS
    <2>10. m.by = c /\ m.tenant = Tenant(c) /\ m.op = "catalogue" /\ m.arg = <<row>>
      OBVIOUS
    <2> HIDE DEF m
    <2>11. Carries(m, q)
      BY <1>2, <2>5, <2>6, <2>8, <2>9, <2>10 DEF Carries
    <2>12. Follows(c, "write", old, {m})
      BY <1>2, <2>2, <2>5, <2>9, <2>10, <2>11 DEF Follows, Leads
    <2> QED
      BY <1>1, <2>1, <2>12, HandlerIInv DEF m
  <1> QED
    BY <1>3, <1>4 DEF Embed

\* A retrieval is answered.
LEMMA RetrieveIInv ==
    ASSUME IInv, NEW c \in Callers, Retrieve(c)
    PROVE  IInv'
  <1>1. /\ calls[c].pc = "retrieve" /\ UNCHANGED store
        /\ UNCHANGED <<clock, key, issued>> /\ (\A r \in registry' : r.epoch \in 0..MaxClock)
    BY RestKept DEF Retrieve
  <1>2. calls[c].req.kind = "retrieve"
    BY <1>1 DEF IInv, HandlersOwn, Leads
  <1>3. CASE Fail(c)
    BY <1>1, <1>3, FailIInv DEF Awaits
  <1>4. ASSUME NEW H, Go(c, "done", [hits |-> H]) PROVE IInv'
    <2>1. Handles(c, "done", [hits |-> H], {})
      BY <1>1, <1>4, QuietHandles DEF IInv, Awaits
    <2>2. Follows(c, "done", [hits |-> H], {})
      BY <1>2 DEF Follows, Leads
    <2> QED
      BY <1>1, <2>1, <2>2, HandlerIInv
  <1> QED
    BY <1>3, <1>4 DEF Retrieve

\* A producer's features go to the writer.
LEMMA RunProducerIInv ==
    ASSUME IInv, NEW c \in Callers, RunProducer(c)
    PROVE  IInv'
  <1>1. /\ calls[c].pc = "run"
        /\ UNCHANGED <<clock, key, issued>> /\ (\A r \in registry' : r.epoch \in 0..MaxClock)
    BY RestKept DEF RunProducer
  <1>2. calls[c].req.kind = "producer"
    BY <1>1 DEF IInv, HandlersOwn, Leads
  <1>3. CASE Fail(c) /\ UNCHANGED store
    BY <1>1, <1>3, FailIInv DEF Awaits
  <1>4. ASSUME NEW rows, Send(c, "write", "features", rows, NoData) PROVE IInv'
    <2> DEFINE m == [op |-> "features", arg |-> rows, tenant |-> Tenant(c), by |-> c, try |-> calls[c].try]
    <2>1. Handles(c, "write", NoData, {m})
      BY <1>1, <1>4, SendHandles DEF IInv, Awaits
    <2>2. Follows(c, "write", NoData, {m})
      BY <1>2 DEF Follows, Leads, Carries
    <2> QED
      BY <1>1, <2>1, <2>2, HandlerIInv
  <1> QED
    BY <1>3, <1>4 DEF RunProducer

\* A token is handed out to a tenant that has rows of the snapshot.
LEMMA MetaIInv ==
    ASSUME IInv, NEW c \in Callers, Meta(c)
    PROVE  IInv'
  <1> DEFINE snap == calls[c].req.arg.snap
             tok  == [key |-> key, snap |-> snap, expiry |-> clock + TTL, to |-> Tenant(c)]
  <1>1. /\ calls[c].pc = "meta" /\ UNCHANGED <<store, registry, clock, key>>
        /\ \A r \in registry' : r.epoch \in 0..MaxClock
    BY DEF Meta, IInv, TypeOK
  <1>2. calls[c].req.kind = "audience"
    BY <1>1 DEF IInv, HandlersOwn, Leads
  <1>3. CASE Fail(c) /\ UNCHANGED issued
    BY <1>1, <1>3, FailIInv DEF Awaits
  <1>4. ASSUME NEW db \in {cat, view}, snapshot_meta(db, snap, Tenant(c)) # {},
               Go(c, "done", NoData), issued' = issued \cup {tok}
        PROVE  IInv'
    <2>1. Handles(c, "done", NoData, {})
      BY <1>1, <1>4, QuietHandles DEF IInv, Awaits
    <2>2. Follows(c, "done", NoData, {})
      BY <1>2 DEF Follows, Leads
    <2>3. \E s \in cat.snapshots : s.id = snap /\ s.tenant = Tenant(c)
      BY <1>4 DEF IInv, SnapshotsOwned, snapshot_meta
    <2>4. clock \in Nat /\ TTL \in Nat
      BY IngressAssumption DEF IInv, TypeOK
    <2>5. TokensBacked'
      BY <1>1, <1>4, <2>3, <2>4 DEF IInv, TokensBacked, store
    <2> QED
      BY <1>1, <1>4, <2>1, <2>2, <2>5, HandlerIInv
  <1> QED
    BY <1>3, <1>4 DEF Meta

\* An export of the caller's own snapshot goes to the writer.
LEMMA OwnerIInv ==
    ASSUME IInv, NEW c \in Callers, Owner(c)
    PROVE  IInv'
  <1> DEFINE snap == calls[c].req.arg.snap
  <1>1. /\ calls[c].pc = "owner"
        /\ UNCHANGED <<clock, key, issued>> /\ (\A r \in registry' : r.epoch \in 0..MaxClock)
    BY RestKept DEF Owner
  <1>2. calls[c].req.kind = "export"
    BY <1>1 DEF IInv, HandlersOwn, Leads
  <1>3. CASE Fail(c) /\ UNCHANGED store
    BY <1>1, <1>3, FailIInv DEF Awaits
  <1>4. ASSUME NEW db \in {cat, view}, Owned(db, snap, Tenant(c)),
               Send(c, "write", "export", snap, calls[c].data)
        PROVE  IInv'
    <2> DEFINE m == [op |-> "export", arg |-> snap, tenant |-> Tenant(c), by |-> c, try |-> calls[c].try]
    <2>1. Handles(c, "write", calls[c].data, {m})
      BY <1>1, <1>4, SendHandles DEF IInv, Awaits
    <2>2. \E s \in cat.snapshots : s.id = snap /\ s.tenant = Tenant(c)
      BY <1>4 DEF IInv, SnapshotsOwned, snapshot_meta, Owned
    <2>3. Presented(calls[c].req, calls[c].data) /\ calls[c].data.token \in issued
      BY <1>1, <1>2 DEF IInv, ExportsChecked
    <2>4. Follows(c, "write", calls[c].data, {m})
      BY <1>2, <2>2, <2>3 DEF Follows, Leads, Carries
    <2> QED
      BY <1>1, <2>1, <2>4, HandlerIInv
  <1> QED
    BY <1>3, <1>4 DEF Owner

\* The client goes away.
LEMMA DisconnectIInv ==
    ASSUME IInv, NEW c \in Callers, Disconnect(c)
    PROVE  IInv'
  BY FailIInv, RestKept DEF Disconnect

\* An outcome is posted again.
LEMMA RetryIInv ==
    ASSUME IInv, NEW c \in Callers, Retry(c)
    PROVE  IInv'
  <1> USE DEF IInv
  <1>1. /\ calls[c].pc = "failed" /\ calls[c].req.kind = "suppress" /\ calls[c].try < MaxTries
        /\ calls' = [calls EXCEPT ![c].pc = "new", ![c].try = @ + 1]
        /\ UNCHANGED <<cat, view, buffer, queue, writes, merges, faults, registry, clock, key, issued>>
    BY DEF Retry, store, rest
  <1>2. /\ DOMAIN calls' = Callers
        /\ \A d \in Callers : DOMAIN calls'[d] = {"pc", "req", "try", "data"} /\ calls'[d].req = calls[d].req
        /\ \A d \in Callers \ {c} : calls'[d] = calls[d]
        /\ calls'[c].pc = "new" /\ calls'[c].try = calls[c].try + 1
    BY <1>1 DEF Shape
  <1>3. \A d \in Callers : Tenant(d)' = Tenant(d)
    BY <1>2, SameTenant
  <1>4. calls[c].try \in 0..MaxTries /\ MaxTries \in Nat
    BY IngressAssumption DEF TypeOK
  <1>5. \A d \in Callers : Active(d) => Active(d)'
    BY <1>2, <1>4 DEF Active
  <1>6. Sent' = Sent
    BY <1>1 DEF Sent
  <1>7. Shape'
    BY <1>1, <1>2 DEF Shape
  <1>8. TypeOK'
    <2>1. \A d \in Callers : /\ calls'[d].pc \in Awaits \cup {"new", "done", "failed"}
                             /\ calls'[d].try \in 0..MaxTries
      BY <1>1, <1>2, <1>4 DEF TypeOK
    <2> QED
      BY <1>1, <2>1 DEF TypeOK
  <1>9. HandlersOwn'
    BY <1>2 DEF HandlersOwn, Leads
  <1>10. CommandsOwn'
    BY <1>2, <1>3, <1>5, <1>6 DEF CommandsOwn
  <1>11. EntriesNamed' /\ WideViewCovers' /\ RowsDated' /\ MergesReachCommitted' /\ TokensBacked'
    BY <1>1 DEF EntriesNamed, WideViewCovers, RowsDated, MergesReachCommitted, TokensBacked
  <1>12. EditsAhead'
    BY <1>1, <1>2, <1>6 DEF EditsAhead, CommandsOwn
  <1>13. OutcomesPosted' /\ SnapshotsOwned'
    BY <1>1, <1>2, <1>3, <1>5 DEF OutcomesPosted, SnapshotsOwned
  <1>14. SuppressionOnce'
    BY <1>1, <1>2, <1>3, <1>5 DEF SuppressionOnce, Active
  <1>15. ExportsChecked' /\ ExportOwned'
    BY <1>1, <1>2, <1>3 DEF ExportsChecked, ExportOwned
  <1> QED
    BY <1>7, <1>8, <1>9, <1>10, <1>11, <1>12, <1>13, <1>14, <1>15

-----------------------------------------------------------------------------
\* What an answer does to the handler that waits for it.
LEMMA ReplyFacts ==
    ASSUME Shape, NEW m, m.by \in Callers, NEW ok \in BOOLEAN, NEW data, Reply(m, ok, data)
    PROVE  \/ calls' = calls
           \/ \E pc, d : LET was == calls[m.by].pc
                         IN  /\ Go(m.by, pc, d)
                             /\ \/ was \in {"ingest", "write"} /\ pc = "failed"
                                \/ was = "ingest" /\ pc = "label"
                                \/ was = "catalogue" /\ pc = "done"
                                \/ was = "write" /\ ok /\ pc = "done" /\ d = data
  <1> DEFINE was == calls[m.by].pc
  <1> SUFFICES ASSUME was \in {"ingest", "write", "catalogue"}, calls[m.by].try = m.try
               PROVE  \E pc, d : /\ Go(m.by, pc, d)
                                 /\ \/ was \in {"ingest", "write"} /\ pc = "failed"
                                    \/ was = "ingest" /\ pc = "label"
                                    \/ was = "catalogue" /\ pc = "done"
                                    \/ was = "write" /\ ok /\ pc = "done" /\ d = data
    BY DEF Reply
  <1>1. CASE was = "ingest"
    <2>1. Go(m.by, "label", NoData) \/ Go(m.by, "failed", NoData)
      BY <1>1 DEF Reply, Fail
    <2> QED
      BY <1>1, <2>1
  <1>2. CASE was = "catalogue"
    <2>1. Go(m.by, "done", [profiled |-> ok])
      BY <1>2 DEF Reply
    <2> QED
      BY <1>2, <2>1
  <1>3. CASE was = "write"
    <2>1. (ok /\ Go(m.by, "done", data)) \/ Go(m.by, "failed", NoData)
      BY <1>3 DEF Reply, Fail
    <2> QED
      BY <1>3, <2>1
  <1> QED
    BY <1>1, <1>2, <1>3

\* What the writer may do to the two tables that handlers rely on.
Served(m, ok) ==
    /\ DOMAIN cat' = DOMAIN cat /\ List(cat'.suppression)
    /\ \A i \in DOMAIN cat.suppression :
         i \in DOMAIN cat'.suppression /\ cat'.suppression[i] = cat.suppression[i]
    /\ \A i \in DOMAIN cat'.suppression : i \notin DOMAIN cat.suppression =>
         m.op = "suppress" /\ cat'.suppression[i] = [row |-> m.arg.row, tenant |-> m.tenant]
    /\ \A i, j \in DOMAIN cat'.suppression : cat'.suppression[i].row.id = cat'.suppression[j].row.id => i = j
    /\ m.op = "suppress" /\ ok =>
         \E i \in DOMAIN cat'.suppression : cat'.suppression[i].row.id = m.arg.row.id
    /\ cat.snapshots \subseteq cat'.snapshots
    /\ \A s \in cat'.snapshots : s \notin cat.snapshots =>
         m.op = "materialize" /\ s.id = m.arg.snap /\ s.tenant = m.tenant

\* The invariants that speak of the handlers.
CallsInv ==
    /\ HandlersOwn /\ CommandsOwn /\ EditsAhead /\ OutcomesPosted /\ SuppressionOnce
    /\ SnapshotsOwned /\ TokensBacked /\ ExportsChecked /\ ExportOwned
    /\ \A c \in Callers : /\ calls[c].pc \in Awaits \cup {"new", "done", "failed"}
                          /\ calls[c].try \in 0..MaxTries
    /\ DOMAIN calls = Callers
    /\ \A c \in Callers : DOMAIN calls[c] = {"pc", "req", "try", "data"}
    /\ \E s \in Scenarios : \A c \in Callers : calls[c].req = s[c]
    /\ List(queue) /\ List(cat.suppression) /\ DOMAIN cat = DOMAIN Attached

\* An answer to the command m keeps them.
LEMMA ServeCalls ==
    ASSUME IInv, NEW m \in Sent, NEW ok \in BOOLEAN, NEW data, Reply(m, ok, data), Served(m, ok),
           List(queue'), Sent' \subseteq Sent, UNCHANGED <<view, clock, key, issued>>,
           m.op = "export" /\ ok =>
             /\ cat' = cat
             /\ data = [token |-> calls[m.by].data.token, at |-> calls[m.by].data.at,
                        rows |-> export_snapshot_parquet(cat, m.arg)]
    PROVE  CallsInv'
  <1> USE DEF IInv
  <1>0. /\ m.by \in Callers /\ m.tenant = Tenant(m.by) /\ Active(m.by)
        /\ Carries(m, calls[m.by].req)
    BY DEF CommandsOwn
  <1> DEFINE c == m.by
  <1>1. /\ DOMAIN calls' = Callers
        /\ \A d \in Callers : /\ DOMAIN calls'[d] = {"pc", "req", "try", "data"}
                              /\ calls'[d].req = calls[d].req /\ calls'[d].try = calls[d].try
        /\ \A d \in Callers \ {c} : calls'[d] = calls[d]
        /\ \/ calls'[c] = calls[c]
           \/ calls[c].pc \in {"ingest", "write"} /\ calls'[c].pc = "failed"
           \/ calls[c].pc = "ingest" /\ calls'[c].pc = "label"
           \/ calls[c].pc = "catalogue" /\ calls'[c].pc = "done"
           \/ calls[c].pc = "write" /\ ok /\ calls'[c].pc = "done" /\ calls'[c].data = data
    <2>1. CASE calls' = calls
      BY <2>1 DEF Shape
    <2>2. ASSUME NEW pc, NEW d, Go(c, pc, d),
                 \/ calls[c].pc \in {"ingest", "write"} /\ pc = "failed"
                 \/ calls[c].pc = "ingest" /\ pc = "label"
                 \/ calls[c].pc = "catalogue" /\ pc = "done"
                 \/ calls[c].pc = "write" /\ ok /\ pc = "done" /\ d = data
          PROVE  <1>1!:
      BY <1>0, <2>2, GoFacts
    <2> QED
      BY <1>0, <2>1, <2>2, ReplyFacts
  <1> HIDE DEF c
  <1>2. c \in Callers /\ c = m.by
    BY <1>0 DEF c
  <1>3. \A d \in Callers : Tenant(d)' = Tenant(d)
    BY <1>1, SameTenant
  <1>4. \A d \in Callers : Active(d) => Active(d)'
    BY <1>1, <1>2 DEF Active
  <1>5. HandlersOwn'
    BY <1>1, <1>2 DEF HandlersOwn, Leads
  <1>6. CommandsOwn'
    BY <1>1, <1>3, <1>4 DEF CommandsOwn
  <1>7. EditsAhead'
    <2>1. ASSUME NEW d \in Callers, calls'[d].req.kind = "edit", calls'[d].pc \in {"embed", "write"}
          PROVE  Seen(calls'[d].req, calls'[d].data)
      BY <1>1, <1>2, <2>1 DEF EditsAhead
    <2>2. ASSUME NEW n \in Sent', calls'[n.by].req.kind = "edit"
          PROVE  /\ calls'[n.by].pc \in {"write", "done", "failed"}
                 /\ calls'[n.by].pc = "write" => n.arg[1].epoch > calls'[n.by].data.epoch
      <3>1. n \in Sent /\ n.by \in Callers /\ calls[n.by].req.kind = "edit"
        BY <1>1, <2>2 DEF CommandsOwn
      <3>2. /\ calls[n.by].pc \in {"write", "done", "failed"}
            /\ calls[n.by].pc = "write" => n.arg[1].epoch > calls[n.by].data.epoch
        BY <3>1 DEF EditsAhead
      <3> QED
        BY <1>1, <1>2, <3>1, <3>2
    <2> QED
      BY <2>1, <2>2 DEF EditsAhead
  <1>8. OutcomesPosted'
    <2> SUFFICES ASSUME NEW i \in DOMAIN cat'.suppression
                 PROVE  \E d \in Callers :
                          /\ calls'[d].req.kind = "suppress" /\ calls'[d].req.arg.row = cat'.suppression[i].row
                          /\ Active(d)' /\ cat'.suppression[i].tenant = Tenant(d)'
      BY DEF OutcomesPosted
    <2>1. CASE i \in DOMAIN cat.suppression
      BY <1>1, <1>3, <1>4, <2>1 DEF OutcomesPosted, Served
    <2>2. CASE i \notin DOMAIN cat.suppression
      <3>1. m.op = "suppress" /\ cat'.suppression[i] = [row |-> m.arg.row, tenant |-> m.tenant]
        BY <2>2 DEF Served
      <3>2. calls[c].req.kind = "suppress" /\ m.arg = calls[c].req.arg
        BY <1>0, <1>2, <3>1 DEF Carries
      <3> QED
        BY <1>0, <1>1, <1>2, <1>3, <1>4, <3>1, <3>2
    <2> QED
      BY <2>1, <2>2
  <1>9. SuppressionOnce'
    <2>1. ASSUME NEW e \in Callers, calls'[e].req.kind = "suppress", calls'[e].pc = "done"
          PROVE  \E i \in DOMAIN cat'.suppression : cat'.suppression[i].row.id = calls'[e].req.arg.row.id
      <3>1. CASE calls[e].pc = "done"
        <4>1. \E i \in DOMAIN cat.suppression : cat.suppression[i].row.id = calls[e].req.arg.row.id
          BY <1>1, <2>1, <3>1 DEF SuppressionOnce
        <4> QED
          BY <1>1, <4>1 DEF Served
      <3>2. CASE calls[e].pc # "done"
        <4>1. e = c /\ ((calls[c].pc = "write" /\ ok) \/ calls[c].pc = "catalogue")
          BY <1>1, <1>2, <2>1, <3>2
        <4>2. calls[c].req.kind = "suppress" /\ ok
          BY <1>1, <1>2, <2>1, <4>1 DEF HandlersOwn, Leads
        <4>3. m.op = "suppress" /\ m.arg = calls[c].req.arg
          BY <1>0, <1>2, <4>2 DEF Carries
        <4> QED
          BY <1>1, <1>2, <4>1, <4>2, <4>3 DEF Served
      <3> QED
        BY <3>1, <3>2
    <2>2. ASSUME NEW e \in Callers, calls'[e].req.kind = "suppress", calls'[e].pc = "done"
          PROVE  \E s \in {cat'.suppression[i] : i \in DOMAIN cat'.suppression} :
                    /\ s.row.id = calls'[e].req.arg.row.id
                    /\ \/ s.row = calls'[e].req.arg.row /\ s.tenant = Tenant(e)'
                       \/ \E d \in Callers \ {e} :
                            /\ calls'[d].req.kind = "suppress" /\ calls'[d].req.arg.row = s.row
                            /\ (calls'[d].pc # "new" \/ calls'[d].try > 0) /\ s.tenant = Tenant(d)'
      <3>1. PICK i \in DOMAIN cat'.suppression : cat'.suppression[i].row.id = calls'[e].req.arg.row.id
        BY <2>1, <2>2
      <3>2. PICK d \in Callers :
               /\ calls'[d].req.kind = "suppress" /\ calls'[d].req.arg.row = cat'.suppression[i].row
               /\ Active(d)' /\ cat'.suppression[i].tenant = Tenant(d)'
        BY <1>8 DEF OutcomesPosted
      <3>3. calls'[d].pc # "new" \/ calls'[d].try > 0
        BY <3>2 DEF Active
      <3> QED
        BY <3>1, <3>2, <3>3
    <2>3. \A i, j \in DOMAIN cat'.suppression : cat'.suppression[i].row.id = cat'.suppression[j].row.id => i = j
      BY DEF Served
    <2> QED
      BY <2>2, <2>3 DEF SuppressionOnce
  <1>10. SnapshotsOwned'
    <2>1. view'.snapshots \subseteq cat'.snapshots
      BY DEF SnapshotsOwned, Served
    <2>2. ASSUME NEW s \in cat'.snapshots
          PROVE  \E d \in Callers : /\ calls'[d].req.kind = "materialize"
                                    /\ calls'[d].req.arg.snap = s.id /\ s.tenant = Tenant(d)'
      <3>1. CASE s \in cat.snapshots
        BY <1>1, <1>3, <3>1 DEF SnapshotsOwned
      <3>2. CASE s \notin cat.snapshots
        <4>1. m.op = "materialize" /\ s.id = m.arg.snap /\ s.tenant = m.tenant
          BY <3>2 DEF Served
        <4>2. calls[c].req.kind = "materialize" /\ m.arg = calls[c].req.arg
          BY <1>0, <1>2, <4>1 DEF Carries
        <4> QED
          BY <1>0, <1>1, <1>2, <1>3, <4>1, <4>2
      <3> QED
        BY <3>1, <3>2
    <2> QED
      BY <2>1, <2>2 DEF SnapshotsOwned
  <1>11. TokensBacked'
    BY DEF TokensBacked, Served
  <1>12. ExportsChecked'
    BY <1>1, <1>2, <1>3 DEF ExportsChecked, Served
  <1>13. ExportOwned'
    <2> SUFFICES ASSUME NEW e \in Callers, calls'[e].req.kind = "export", calls'[e].pc = "done"
                 PROVE  LET d == calls'[e].data
                        IN  /\ d.rows # {} /\ \A s \in d.rows : s.tenant = Tenant(e)'
                            /\ d.token.to = Tenant(e)' /\ d.at < d.token.expiry /\ d.token.expiry <= d.at + TTL
      BY DEF ExportOwned
    <2>1. CASE calls'[e] = calls[e]
      BY <1>1, <1>3, <2>1 DEF ExportOwned
    <2>2. CASE calls'[e] # calls[e]
      <3>1. e = c
        BY <1>1, <2>2
      <3>2. calls[c].req.kind = "export"
        BY <1>1, <1>2, <3>1
      <3>3. calls[c].pc # "catalogue"
        BY <1>2, <3>2 DEF HandlersOwn, Leads
      <3>4. calls[c].pc = "write" /\ ok /\ calls'[c].data = data
        BY <1>1, <2>2, <3>1, <3>3
      <3>5. m.op = "export" /\ m.arg = calls[c].req.arg.snap
        BY <1>0, <1>2, <3>2 DEF Carries
      <3>6. /\ data.token = calls[c].data.token /\ data.at = calls[c].data.at
            /\ data.rows = {s \in cat.snapshots : s.id = calls[c].req.arg.snap}
        BY <1>2, <3>4, <3>5 DEF export_snapshot_parquet
      <3>7. /\ Presented(calls[c].req, calls[c].data) /\ calls[c].data.token \in issued
            /\ \E s \in cat.snapshots : s.id = calls[c].req.arg.snap /\ s.tenant = Tenant(c)
        BY <1>2, <3>2, <3>4 DEF ExportsChecked
      <3>8. PICK own \in cat.snapshots : own.id = calls[c].req.arg.snap /\ own.tenant = Tenant(c)
        BY <3>7
      <3>9. ASSUME NEW s \in cat.snapshots, s.id = calls[c].req.arg.snap PROVE s.tenant = Tenant(c)
        <4>1. PICK d \in Callers : /\ calls[d].req.kind = "materialize"
                                   /\ calls[d].req.arg.snap = s.id /\ s.tenant = Tenant(d)
          BY DEF SnapshotsOwned
        <4>2. PICK f \in Callers : /\ calls[f].req.kind = "materialize"
                                   /\ calls[f].req.arg.snap = own.id /\ own.tenant = Tenant(f)
          BY DEF SnapshotsOwned
        <4>3. d = f
          BY <3>8, <3>9, <4>1, <4>2, UniqueSnapshots
        <4> QED
          BY <3>8, <4>1, <4>2, <4>3
      <3>10. data.token.to = Tenant(c)
        <4>1. PICK s \in cat.snapshots : s.id = data.token.snap /\ s.tenant = data.token.to
          BY <3>6, <3>7 DEF TokensBacked
        <4>2. s.id = calls[c].req.arg.snap
          BY <3>6, <3>7, <4>1 DEF Presented
        <4> QED
          BY <3>9, <4>1, <4>2
      <3> QED
        BY <1>2, <1>3, <3>1, <3>4, <3>6, <3>7, <3>8, <3>9, <3>10 DEF Presented
    <2> QED
      BY <2>1, <2>2
  <1>14. \A d \in Callers : /\ calls'[d].pc \in Awaits \cup {"new", "done", "failed"}
                            /\ calls'[d].try \in 0..MaxTries
    BY <1>1, <1>2 DEF TypeOK, Awaits
  <1>15. \E s \in Scenarios : \A d \in Callers : calls'[d].req = s[d]
    BY <1>1 DEF Shape
  <1>16. List(queue') /\ List(cat'.suppression) /\ DOMAIN cat' = DOMAIN Attached'
    BY DEF Served, Shape, Attached
  <1> QED
    BY <1>1, <1>5, <1>6, <1>7, <1>8, <1>9, <1>10, <1>11, <1>12, <1>13, <1>14, <1>15, <1>16 DEF CallsInv

-----------------------------------------------------------------------------
\* A command on another table leaves outcomes and snapshots as they are.
LEMMA OtherTables ==
    ASSUME IInv, NEW m, NEW ok, DOMAIN cat' = DOMAIN cat, m.op # "suppress" \/ ~ok,
           cat'.suppression = cat.suppression, cat'.snapshots = cat.snapshots
    PROVE  Served(m, ok)
  BY DEF IInv, Served, SuppressionOnce, Shape

\* The budget of faults.
LEMMA FaultFacts ==
    ASSUME TypeOK, NEW ok \in BOOLEAN, Fault(ok)
    PROVE  faults' \in 0..MaxFaults
  BY IngressAssumption DEF TypeOK, Fault

\* How many chunks a call may get through.
LEMMA OutcomeFacts ==
    ASSUME NEW n \in Nat, NEW o \in Outcomes(n)
    PROVE  o[1] \in Int /\ o[2] \in BOOLEAN /\ o[1] <= n /\ (o[2] => o[1] = n)
  <1>1. CASE o = <<n, TRUE>>
    BY <1>1
  <1>2. ASSUME NEW d \in -1..(n - 1), o = <<d, FALSE>>
        PROVE  o[1] \in Int /\ o[2] \in BOOLEAN /\ o[1] <= n /\ (o[2] => o[1] = n)
    BY <1>2
  <1> QED
    BY <1>1, <1>2 DEF Outcomes

\* A merge has a number of chunks.
LEMMA ChunksNat ==
    ASSUME NEW s, List(s)
    PROVE  Chunks(s) \in Nat
  <1>1. Len(s) + MergeChunk - 1 \in Nat
    BY ListFacts, CatalogAssumption
  <1> QED
    BY <1>1, CatalogAssumption DEF Chunks

\* A part of a list of rows.
LEMMA PrefixFacts ==
    ASSUME NEW s, List(s), NEW done \in Int
    PROVE  \E m \in 0..Len(s) :
             /\ \A u : List(u) /\ Len(u) = Len(s) =>
                  /\ DOMAIN Prefix(u, done) = 1..m /\ Len(Prefix(u, done)) = m
                  /\ \A i \in 1..m : Prefix(u, done)[i] = u[i]
             /\ 1..m \subseteq DOMAIN s
  <1>1. Len(s) \in Nat /\ DOMAIN s = 1..Len(s)
    BY ListFacts
  <1>2. PICK m \in 0..Len(s) : \A R : \A rows \in Seq(R) :
           Len(rows) = Len(s) => Prefix(rows, done) = SubSeq(rows, 1, m)
    BY <1>1, PrefixOf
  <1>3. ASSUME NEW u, List(u), Len(u) = Len(s)
        PROVE  /\ DOMAIN Prefix(u, done) = 1..m /\ Len(Prefix(u, done)) = m
               /\ \A i \in 1..m : Prefix(u, done)[i] = u[i]
    <2> DEFINE R == {u[i] : i \in DOMAIN u}
    <2>1. u \in Seq(R)
      BY <1>3 DEF List
    <2> HIDE DEF R
    <2>2. Prefix(u, done) = SubSeq(u, 1, m)
      BY <1>2, <1>3, <2>1
    <2> QED
      BY <1>3, <2>1, <2>2, SubSeqFacts
  <1> QED
    BY <1>1, <1>3

\* Inserted rows are newer than every merge.
LEMMA IngestRows ==
    ASSUME IInv, NEW t, NEW rows, List(rows), NEW done \in Int,
           cat' = ingest_raw(cat, rows, t, writes + 1, done), writes' = writes + 1, merges' = merges
    PROVE  /\ RowsDated' /\ MergesReachCommitted'
           /\ DOMAIN cat' = DOMAIN cat /\ cat'.suppression = cat.suppression /\ cat'.snapshots = cat.snapshots
           /\ cat'.entries = cat.entries /\ cat'.features = cat.features /\ cat'.views = cat.views
  <1> DEFINE new == Prefix(rows, done)
             fresh == {Stored(new[i], <<writes + 1, i>>, t, writes + 1, "insert") : i \in DOMAIN new}
  <1>1. DOMAIN cat = {"exists", "raw", "suppression", "features", "views", "entries", "snapshots"}
    BY DEF IInv, Shape, Attached
  <1>2. cat' = [cat EXCEPT !.exists = @ \/ done >= 0, !.raw = @ \cup fresh]
    BY DEF ingest_raw
  <1>3. \A x \in fresh : x.w = writes + 1 /\ x.via = "insert"
    BY DEF Stored
  <1> HIDE DEF fresh
  <1>4. /\ DOMAIN cat' = DOMAIN cat /\ cat'.suppression = cat.suppression /\ cat'.snapshots = cat.snapshots
        /\ cat'.entries = cat.entries /\ cat'.features = cat.features /\ cat'.views = cat.views
        /\ cat'.raw = cat.raw \cup fresh
    BY <1>1, <1>2
  <1>5. writes \in Nat
    BY DEF IInv, TypeOK
  <1>6. RowsDated'
    BY <1>3, <1>4, <1>5 DEF IInv, RowsDated
  <1>7. MergesReachCommitted'
    BY <1>3, <1>4, <1>5 DEF IInv, RowsDated, MergesReachCommitted
  <1> QED
    BY <1>4, <1>6, <1>7

\* An upsert rewrites every row of the keys it reaches, and adds one at most.
LEMMA UpsertRows ==
    ASSUME IInv, NEW t, NEW arg, List(arg), NEW done \in Int,
           cat' = upsert_raw(cat, arg, t, writes + 1, done), writes' = writes + 1,
           merges' = merges \cup Reached("upsert", [i \in DOMAIN dedup_by_key(arg) |-> dedup_by_key(arg)[i].key], done, t)
    PROVE  /\ RowsDated' /\ MergesReachCommitted'
           /\ DOMAIN cat' = DOMAIN cat /\ cat'.suppression = cat.suppression /\ cat'.snapshots = cat.snapshots
           /\ cat'.entries = cat.entries /\ cat'.features = cat.features /\ cat'.views = cat.views
  <1> DEFINE rows == dedup_by_key(arg)
             keys == [i \in DOMAIN rows |-> rows[i].key]
             part == Prefix(rows, done)
             pkeys == Prefix(keys, done)
             w == writes + 1
             Hit(x) == {j \in DOMAIN part : part[j].key = x.key}
             Re(x) == IF Hit(x) = {} THEN x
                      ELSE Stored(part[CHOOSE j \in Hit(x) : TRUE], x.rowid, t, w, x.via)
             Add(j) == Stored(part[j], <<w, j>>, t, w, "upsert")
             new == {j \in DOMAIN part : \A x \in cat.raw : x.key # part[j].key}
             reached == Reached("upsert", keys, done, t)
  <1>1. DOMAIN cat = {"exists", "raw", "suppression", "features", "views", "entries", "snapshots"}
    BY DEF IInv, Shape, Attached
  <1>2. cat' = [cat EXCEPT !.exists = @ \/ done >= 0, !.raw = {Re(x) : x \in @} \cup {Add(j) : j \in new}]
    BY <1>1 DEF upsert_raw, merge_upserts
  <1>3. List(rows) /\ Keyed(rows)
    <2> DEFINE R == {arg[i] : i \in DOMAIN arg}
    <2>1. arg \in Seq(R)
      BY DEF List
    <2> HIDE DEF R
    <2> QED
      BY <2>1, DedupKeyed, IsList
  <1> HIDE DEF rows
  <1>4. List(keys) /\ Len(keys) = Len(rows) /\ DOMAIN keys = DOMAIN rows
    <2> DEFINE K == {rows[i].key : i \in DOMAIN rows}
    <2>1. Len(rows) \in Nat /\ DOMAIN rows = 1..Len(rows)
      BY <1>3, ListFacts
    <2>2. \A i \in 1..Len(rows) : rows[i].key \in K
      BY <2>1
    <2> HIDE DEF K
    <2>3. [i \in 1..Len(rows) |-> rows[i].key] \in Seq(K)
      BY <2>1, <2>2
    <2>4. keys = [i \in 1..Len(rows) |-> rows[i].key]
      BY <2>1
    <2> HIDE DEF keys
    <2>5. keys \in Seq(K)
      BY <2>3, <2>4
    <2>6. DOMAIN keys = 1..Len(rows)
      BY <2>4
    <2> QED
      BY <2>1, <2>5, <2>6, IsList
  <1>5. PICK n \in 0..Len(rows) :
           /\ DOMAIN part = 1..n /\ \A i \in 1..n : part[i] = rows[i]
           /\ DOMAIN pkeys = 1..n /\ Len(pkeys) = n /\ \A i \in 1..n : pkeys[i] = keys[i]
           /\ 1..n \subseteq DOMAIN rows
    <2> HIDE DEF keys
    <2> QED
      BY <1>3, <1>4, PrefixFacts
  <1>6. \A i \in 1..n : pkeys[i] = part[i].key
    BY <1>4, <1>5
  <1>7. \A i, j \in DOMAIN part : part[i].key = part[j].key => i = j
    BY <1>3, <1>5 DEF Keyed
  <1>8. reached = {[op |-> "upsert", key |-> k, tenant |-> t, w |-> w] : k \in {part[i].key : i \in DOMAIN part}}
    <2>1. {pkeys[i] : i \in 1..Len(pkeys)} = {part[i].key : i \in DOMAIN part}
      <3> HIDE DEF part, pkeys
      <3> QED
        BY <1>5, <1>6
    <2> QED
      BY <2>1 DEF Reached
  <1> HIDE DEF part, pkeys, keys, reached
  <1>9. /\ \A x \in cat.raw : Hit(x) = {} => Re(x) = x
        /\ \A x \in cat.raw : Hit(x) # {} =>
             Re(x).key = x.key /\ Re(x).w = w /\ Re(x).tenant = t /\ Re(x).via = x.via
    BY DEF Stored
  <1>10. \A j \in new : Add(j).key = part[j].key /\ Add(j).w = w /\ Add(j).tenant = t /\ Add(j).via = "upsert"
    BY DEF Stored
  <1>11. /\ \A x \in cat.raw : Hit(x) = {} <=> \A j \in DOMAIN part : part[j].key # x.key
         /\ \A j \in new : j \in DOMAIN part /\ \A x \in cat.raw : x.key # part[j].key
    OBVIOUS
  <1> HIDE DEF Re, Add, Hit, new
  <1>12. /\ DOMAIN cat' = DOMAIN cat /\ cat'.suppression = cat.suppression /\ cat'.snapshots = cat.snapshots
         /\ cat'.entries = cat.entries /\ cat'.features = cat.features /\ cat'.views = cat.views
         /\ cat'.raw = {Re(x) : x \in cat.raw} \cup {Add(j) : j \in new}
    BY <1>1, <1>2
  <1>13. writes \in Nat /\ merges' = merges \cup reached
    BY DEF IInv, TypeOK, reached, keys, rows
  <1>14. RowsDated'
    <2>1. \A x \in cat'.raw : x.w \in Nat /\ x.w <= writes'
      BY <1>9, <1>10, <1>12, <1>13 DEF IInv, RowsDated
    <2>2. \A m \in merges' : m.w \in Nat /\ m.w <= writes'
      BY <1>8, <1>13 DEF IInv, RowsDated
    <2> QED
      BY <2>1, <2>2 DEF RowsDated
  <1>15. \A x \in cat'.raw : (x.w = w /\ x.tenant = t) \/ (x \in cat.raw /\ \A j \in DOMAIN part : part[j].key # x.key)
    <2>1. ASSUME NEW y \in cat.raw
          PROVE  \/ Re(y).w = w /\ Re(y).tenant = t
                 \/ Re(y) \in cat.raw /\ \A j \in DOMAIN part : part[j].key # Re(y).key
      <3>1. CASE Hit(y) = {}
        <4>1. Re(y) = y /\ \A j \in DOMAIN part : part[j].key # y.key
          BY <1>9, <1>11, <3>1
        <4> QED
          BY <4>1
      <3>2. CASE Hit(y) # {}
        BY <1>9, <3>2
      <3> QED
        BY <3>1, <3>2
    <2> QED
      BY <1>10, <1>12, <2>1
  <1>16. ASSUME NEW x \in cat'.raw, NEW m \in merges', m.key = x.key
         PROVE  IF m.op = "upsert" THEN x.w >= m.w /\ (x.w = m.w => x.tenant = m.tenant)
                ELSE x.tenant = m.tenant => x.w > m.w
    <2>1. CASE m \in merges
      <3>1. m.w \in Nat /\ m.w <= writes
        BY <2>1 DEF IInv, RowsDated
      <3>2. CASE x.w = w
        BY <1>13, <3>1, <3>2
      <3>3. CASE x \in cat.raw
        BY <1>16, <2>1, <3>3 DEF IInv, MergesReachCommitted
      <3> QED
        BY <1>15, <3>2, <3>3
    <2>2. CASE m \in reached
      <3>1. m.op = "upsert" /\ m.w = w /\ m.tenant = t /\ \E j \in DOMAIN part : part[j].key = x.key
        BY <1>8, <1>16, <2>2
      <3> QED
        BY <1>13, <1>15, <3>1
    <2> QED
      BY <1>13, <2>1, <2>2
  <1>17. ASSUME NEW x \in cat'.raw, NEW y \in cat'.raw, x.via = "upsert", y.via = "upsert", x.key = y.key
         PROVE  x = y
    <2>0. \A u \in cat.raw : Re(u).key = u.key /\ Re(u).via = u.via
      BY <1>9
    <2>1. ASSUME NEW u \in cat.raw, NEW v \in cat.raw, x = Re(u), y = Re(v) PROVE x = y
      <3>1. u.key = v.key /\ u.via = "upsert" /\ v.via = "upsert"
        BY <1>17, <2>0, <2>1
      <3>2. u = v
        BY <3>1 DEF IInv, MergesReachCommitted
      <3> QED
        BY <2>1, <3>2
    <2>2. ASSUME NEW i \in new, NEW j \in new, x = Add(i), y = Add(j) PROVE x = y
      <3>1. part[i].key = part[j].key /\ i \in DOMAIN part /\ j \in DOMAIN part
        BY <1>10, <1>11, <1>17, <2>2
      <3>2. i = j
        BY <1>7, <3>1
      <3> QED
        BY <2>2, <3>2
    <2>3. ASSUME NEW u \in cat.raw, NEW j \in new, Re(u).key = Add(j).key PROVE FALSE
      BY <1>10, <1>11, <2>0, <2>3
    <2> QED
      BY <1>12, <1>17, <2>1, <2>2, <2>3
  <1>18. MergesReachCommitted'
    BY <1>16, <1>17 DEF MergesReachCommitted
  <1> QED
    BY <1>12, <1>14, <1>18

\* A delete leaves none of the caller's rows of the keys it reaches.
LEMMA DeleteRows ==
    ASSUME IInv, NEW t, NEW keys, List(keys), NEW done \in Int,
           cat' = delete_raw(cat, keys, t, done), writes' = writes + 1,
           merges' = merges \cup Reached("delete", keys, done, t)
    PROVE  /\ RowsDated' /\ MergesReachCommitted'
           /\ DOMAIN cat' = DOMAIN cat /\ cat'.suppression = cat.suppression /\ cat'.snapshots = cat.snapshots
           /\ cat'.entries = cat.entries /\ cat'.features = cat.features /\ cat'.views = cat.views
  <1> DEFINE part == Prefix(keys, done)
             left == {x \in cat.raw : ~(x.tenant = t /\ \E i \in DOMAIN part : part[i] = x.key)}
             reached == Reached("delete", keys, done, t)
  <1>1. DOMAIN cat = {"exists", "raw", "suppression", "features", "views", "entries", "snapshots"}
    BY DEF IInv, Shape, Attached
  <1>2. cat' = [cat EXCEPT !.raw = left]
    BY <1>1 DEF delete_raw, merge_deletes
  <1>3. DOMAIN part = 1..Len(part)
    BY PrefixFacts
  <1>4. \A m \in reached : m.op = "delete" /\ m.tenant = t /\ m.w = writes + 1 /\ \E i \in DOMAIN part : part[i] = m.key
    BY <1>3 DEF Reached
  <1>5. \A x \in left : x \in cat.raw /\ ~(x.tenant = t /\ \E i \in DOMAIN part : part[i] = x.key)
    OBVIOUS
  <1>6. merges' = merges \cup reached /\ writes \in Nat
    BY DEF IInv, TypeOK
  <1> HIDE DEF left, reached, part
  <1>7. /\ DOMAIN cat' = DOMAIN cat /\ cat'.suppression = cat.suppression /\ cat'.snapshots = cat.snapshots
        /\ cat'.entries = cat.entries /\ cat'.features = cat.features /\ cat'.views = cat.views
        /\ cat'.raw = left
    BY <1>1, <1>2
  <1>8. RowsDated'
    BY <1>4, <1>5, <1>6, <1>7 DEF IInv, RowsDated
  <1>9. MergesReachCommitted'
    <2>1. ASSUME NEW x \in left, NEW m \in merges', m.key = x.key
          PROVE  IF m.op = "upsert" THEN x.w >= m.w /\ (x.w = m.w => x.tenant = m.tenant)
                 ELSE x.tenant = m.tenant => x.w > m.w
      <3>1. CASE m \in merges
        BY <1>5, <2>1, <3>1 DEF IInv, MergesReachCommitted
      <3>2. CASE m \in reached
        BY <1>4, <1>5, <2>1, <3>2
      <3> QED
        BY <1>6, <3>1, <3>2
    <2>2. \A x, y \in left : x.via = "upsert" /\ y.via = "upsert" /\ x.key = y.key => x = y
      BY <1>5 DEF IInv, MergesReachCommitted
    <2> QED
      BY <1>7, <2>1, <2>2 DEF MergesReachCommitted
  <1> QED
    BY <1>7, <1>8, <1>9

\* The views are rebuilt with the rows.
LEMMA FeatureViews ==
    ASSUME IInv, NEW rows, NEW t, cat' = write_features_and_refresh(cat, rows, t)
    PROVE  /\ WideViewCovers'
           /\ DOMAIN cat' = DOMAIN cat /\ cat'.suppression = cat.suppression /\ cat'.snapshots = cat.snapshots
           /\ cat'.entries = cat.entries /\ cat'.raw = cat.raw
  <1> DEFINE touched == {x.family : x \in rows}
             Row(x) == [user |-> x.user, family |-> x.family, short |-> x.short, at |-> x.at,
                        value |-> x.value, tenant |-> t]
             stored == cat.features \cup {Row(x) : x \in rows}
  <1>1. DOMAIN cat = {"exists", "raw", "suppression", "features", "views", "entries", "snapshots"}
    BY DEF IInv, Shape, Attached
  <1>2. cat' = [cat EXCEPT !.features = stored,
                   !.views = [f \in Families |-> IF f \in touched THEN WideColumns(stored, rows, f) ELSE @[f]]]
    BY DEF write_features_and_refresh
  <1>3. \A x \in rows : Row(x) \in stored /\ Row(x).family = x.family /\ Row(x).short = x.short
    OBVIOUS
  <1>4. \A y \in stored : y \in cat.features \/ \E x \in rows : y = Row(x)
    OBVIOUS
  <1>5. cat.features \subseteq stored /\ \A f : f \in touched <=> \E x \in rows : x.family = f
    OBVIOUS
  <1> HIDE DEF Row, stored, touched
  <1>6. /\ DOMAIN cat' = DOMAIN cat /\ cat'.suppression = cat.suppression /\ cat'.snapshots = cat.snapshots
        /\ cat'.entries = cat.entries /\ cat'.raw = cat.raw /\ cat'.features = stored
        /\ cat'.views = [f \in Families |-> IF f \in touched THEN WideColumns(stored, rows, f) ELSE cat.views[f]]
    BY <1>1, <1>2
  <1>7. ASSUME NEW f \in Families
        PROVE  cat'.views[f] = feature_short_names(stored, f)
    <2>1. CASE f \in touched
      <3>1. cat'.views[f] = feature_short_names(stored, f) \cup feature_short_names(rows, f)
        BY <1>6, <2>1 DEF WideColumns
      <3>2. feature_short_names(rows, f) \subseteq feature_short_names(stored, f)
        BY <1>3 DEF feature_short_names
      <3> QED
        BY <3>1, <3>2
    <2>2. CASE f \notin touched
      <3>1. cat'.views[f] = feature_short_names(cat.features, f)
        BY <1>6, <2>2 DEF IInv, WideViewCovers
      <3>2. {y \in stored : y.family = f} = {y \in cat.features : y.family = f}
        BY <1>3, <1>4, <1>5, <2>2
      <3> QED
        BY <3>1, <3>2 DEF feature_short_names
    <2> QED
      BY <2>1, <2>2
  <1> QED
    BY <1>6, <1>7 DEF WideViewCovers

\* An outcome is appended unless its id is there.
LEMMA OutcomeStored ==
    ASSUME IInv, NEW m, m.op = "suppress", NEW ok \in BOOLEAN,
           cat' = IF ok THEN write_suppression_idempotent(cat, m.arg.row, m.tenant) ELSE cat
    PROVE  /\ Served(m, ok)
           /\ cat'.raw = cat.raw /\ cat'.entries = cat.entries
           /\ cat'.features = cat.features /\ cat'.views = cat.views
  <1> DEFINE old == cat.suppression
             new == [row |-> m.arg.row, tenant |-> m.tenant]
  <1>1. DOMAIN cat = {"exists", "raw", "suppression", "features", "views", "entries", "snapshots"}
    BY DEF IInv, Shape, Attached
  <1>2. List(old) /\ \A i, j \in DOMAIN old : old[i].row.id = old[j].row.id => i = j
    BY DEF IInv, Shape, SuppressionOnce
  <1>3. CASE ~ok
    BY <1>2, <1>3 DEF Served
  <1>4. CASE ok /\ \E i \in DOMAIN old : old[i].row.id = m.arg.row.id
    BY <1>2, <1>4 DEF Served, write_suppression_idempotent
  <1>5. CASE ok /\ ~\E i \in DOMAIN old : old[i].row.id = m.arg.row.id
    <2>1. cat' = [cat EXCEPT !.suppression = Append(old, new)]
      BY <1>5 DEF write_suppression_idempotent
    <2>2. new.row.id = m.arg.row.id
      OBVIOUS
    <2>3. /\ DOMAIN cat' = DOMAIN cat /\ cat'.suppression = Append(old, new) /\ cat'.snapshots = cat.snapshots
          /\ cat'.raw = cat.raw /\ cat'.entries = cat.entries
          /\ cat'.features = cat.features /\ cat'.views = cat.views
      BY <1>1, <2>1
    <2> HIDE DEF new
    <2>4. /\ List(Append(old, new)) /\ DOMAIN Append(old, new) = 1..(Len(old) + 1)
          /\ \A i \in DOMAIN old : Append(old, new)[i] = old[i]
          /\ Append(old, new)[Len(old) + 1] = new
          /\ Len(old) \in Nat /\ DOMAIN old = 1..Len(old)
      BY <1>2, AppendFacts, ListFacts
    <2>5. \A i \in DOMAIN Append(old, new) : i \in DOMAIN old \/ i = Len(old) + 1
      BY <2>4
    <2>6. \A i, j \in DOMAIN Append(old, new) : Append(old, new)[i].row.id = Append(old, new)[j].row.id => i = j
      BY <1>2, <1>5, <2>2, <2>4, <2>5
    <2>7. Len(old) + 1 \in DOMAIN Append(old, new) /\ DOMAIN old \subseteq DOMAIN Append(old, new)
      BY <2>4
    <2> DEFINE all == Append(old, new)
    <2>8. Served(m, ok)
      <3> HIDE DEF all
      <3>1. cat'.suppression = all /\ List(all)
        BY <2>3, <2>4 DEF all
      <3>2. \A i \in DOMAIN old : i \in DOMAIN all /\ all[i] = old[i]
        BY <2>4, <2>7 DEF all
      <3>3. \A i \in DOMAIN all : i \notin DOMAIN old => all[i] = new
        BY <2>4, <2>5 DEF all
      <3>4. \E i \in DOMAIN all : all[i].row.id = m.arg.row.id
        BY <2>2, <2>4, <2>7 DEF all
      <3>5. \A i, j \in DOMAIN all : all[i].row.id = all[j].row.id => i = j
        BY <2>6 DEF all
      <3> QED
        BY <2>3, <3>1, <3>2, <3>3, <3>4, <3>5 DEF Served, new
    <2> QED
      BY <2>3, <2>8
  <1> QED
    BY <1>3, <1>4, <1>5

\* A snapshot is stored under the caller's tenant.
LEMMA SnapshotStored ==
    ASSUME IInv, NEW m, m.op = "materialize", NEW ok \in BOOLEAN,
           cat' = IF ok THEN materialize_snapshot(cat, m.arg.snap, m.arg.users, m.tenant) ELSE cat
    PROVE  /\ Served(m, ok)
           /\ cat'.raw = cat.raw /\ cat'.entries = cat.entries
           /\ cat'.features = cat.features /\ cat'.views = cat.views
  <1> DEFINE new == {[id |-> m.arg.snap, tenant |-> m.tenant, user |-> u] : u \in m.arg.users}
  <1>1. DOMAIN cat = {"exists", "raw", "suppression", "features", "views", "entries", "snapshots"}
    BY DEF IInv, Shape, Attached
  <1>2. List(cat.suppression) /\ \A i, j \in DOMAIN cat.suppression :
           cat.suppression[i].row.id = cat.suppression[j].row.id => i = j
    BY DEF IInv, Shape, SuppressionOnce
  <1>3. CASE ~ok
    BY <1>2, <1>3 DEF Served
  <1>4. CASE ok
    <2>1. cat' = [cat EXCEPT !.snapshots = cat.snapshots \cup new]
      BY <1>4 DEF materialize_snapshot
    <2>2. \A s \in new : s.id = m.arg.snap /\ s.tenant = m.tenant
      OBVIOUS
    <2> HIDE DEF new
    <2>3. /\ DOMAIN cat' = DOMAIN cat /\ cat'.suppression = cat.suppression
          /\ cat'.raw = cat.raw /\ cat'.entries = cat.entries
          /\ cat'.features = cat.features /\ cat'.views = cat.views
          /\ cat'.snapshots = cat.snapshots \cup new
      BY <1>1, <2>1
    <2> QED
      BY <1>2, <2>2, <2>3 DEF Served
  <1> QED
    BY <1>3, <1>4

\* New catalogue entries are about the table or one of its columns.
LEMMA EntriesStored ==
    ASSUME IInv, NEW rows, List(rows), NEW t, NEW done \in Int, done <= Len(rows),
           \A i \in DOMAIN rows : rows[i].epoch \in Nat /\ rows[i].column \in Named,
           cat' = write_catalog_rows(cat, rows, t, done)
    PROVE  /\ IsFiniteSet(cat'.entries) /\ (\A e \in cat'.entries : e.epoch \in Nat /\ e.column \in Named)
           /\ DOMAIN cat' = DOMAIN cat /\ cat'.suppression = cat.suppression /\ cat'.snapshots = cat.snapshots
           /\ cat'.raw = cat.raw /\ cat'.features = cat.features /\ cat'.views = cat.views
           /\ cat'.entries = cat.entries \cup
                {[column |-> rows[i].column, text |-> rows[i].text,
                  epoch |-> rows[i].epoch, tenant |-> t] : i \in 1..done}
  <1> DEFINE E(i) == [column |-> rows[i].column, text |-> rows[i].text,
                      epoch |-> rows[i].epoch, tenant |-> t]
             new == {E(i) : i \in 1..done}
  <1>1. DOMAIN cat = {"exists", "raw", "suppression", "features", "views", "entries", "snapshots"}
    BY DEF IInv, Shape, Attached
  <1>2. cat' = [cat EXCEPT !.entries = cat.entries \cup new]
    BY DEF write_catalog_rows
  <1>3. 1..done \subseteq DOMAIN rows
    BY ListFacts
  <1>4. \A e \in new : e.epoch \in Nat /\ e.column \in Named
    BY <1>3
  <1>5. IsFiniteSet(new)
    <2> DEFINE f == [i \in 1..done |-> E(i)]
    <2>1. IsFiniteSet(1..done)
      BY FS_Interval
    <2>2. DOMAIN f = 1..done /\ new = {f[x] : x \in DOMAIN f}
      OBVIOUS
    <2> HIDE DEF f, new
    <2> QED
      BY <2>1, <2>2, FiniteImage
  <1>6. IsFiniteSet(cat.entries) /\ \A e \in cat.entries : e.epoch \in Nat /\ e.column \in Named
    BY DEF IInv, EntriesNamed
  <1> HIDE DEF new
  <1>7. /\ DOMAIN cat' = DOMAIN cat /\ cat'.suppression = cat.suppression /\ cat'.snapshots = cat.snapshots
        /\ cat'.raw = cat.raw /\ cat'.features = cat.features /\ cat'.views = cat.views
        /\ cat'.entries = cat.entries \cup new
    BY <1>1, <1>2
  <1>8. IsFiniteSet(cat.entries \cup new)
    BY <1>5, <1>6, FS_Union
  <1> QED
    BY <1>4, <1>6, <1>7, <1>8 DEF new

-----------------------------------------------------------------------------
BufferOK ==
    /\ DOMAIN buffer = Tenants
    /\ \A t \in Tenants : List(buffer[t]) /\ (Len(buffer[t]) < FlushRows \/ buffer[t] = <<>>)

\* The parts of the invariant after a step of the writer.
LEMMA Assemble ==
    ASSUME IInv, CallsInv', BufferOK', EntriesNamed', WideViewCovers', RowsDated', MergesReachCommitted',
           faults' \in 0..MaxFaults, writes' \in Nat, UNCHANGED <<registry, clock, key>>
    PROVE  IInv'
  <1>1. Shape'
    BY DEF CallsInv, BufferOK, Shape
  <1>2. TypeOK'
    BY DEF IInv, TypeOK, CallsInv, BufferOK
  <1> QED
    BY <1>1, <1>2 DEF IInv, CallsInv

\* What is on every side of a command that is served.
LEMMA ServeFacts ==
    ASSUME IInv, queue # <<>>, queue' = Tail(queue), UNCHANGED <<view, rest>>
    PROVE  /\ Head(queue) \in Sent /\ List(queue') /\ Sent' \subseteq Sent
           /\ UNCHANGED <<view, registry, clock, key, issued>>
           /\ BufferOK /\ writes \in Nat
           /\ Head(queue).by \in Callers /\ Carries(Head(queue), calls[Head(queue).by].req)
           /\ (UNCHANGED buffer => BufferOK')
  <1>1. List(queue)
    BY DEF IInv, Shape
  <1>2. Head(queue) \in Sent /\ List(Tail(queue)) /\ Sent' \subseteq Sent
    BY <1>1, TailFacts DEF Sent
  <1>3. BufferOK
    BY DEF IInv, Shape, TypeOK, BufferOK
  <1>4. UNCHANGED buffer => BufferOK'
    BY <1>3 DEF BufferOK
  <1> QED
    BY <1>2, <1>3, <1>4 DEF IInv, TypeOK, CommandsOwn, rest

\* A batch that went out leaves an empty buffer.
LEMMA EmptyBuffer ==
    ASSUME BufferOK, NEW t, buffer' = [buffer EXCEPT ![t] = <<>>]
    PROVE  BufferOK'
  <1>1. <<>> \in Seq({})
    OBVIOUS
  <1>2. List(<<>>)
    BY <1>1, IsList
  <1>3. DOMAIN buffer' = Tenants
    BY DEF BufferOK
  <1>4. \A u \in Tenants : buffer'[u] = buffer[u] \/ buffer'[u] = <<>>
    BY DEF BufferOK
  <1> QED
    BY <1>2, <1>3, <1>4 DEF BufferOK

\* The invariants of the tables that a step leaves alone.
LEMMA TablesKept ==
    ASSUME IInv, UNCHANGED view
    PROVE  /\ cat'.entries = cat.entries => EntriesNamed'
           /\ cat'.features = cat.features /\ cat'.views = cat.views => WideViewCovers'
           /\ cat'.raw = cat.raw /\ UNCHANGED <<writes, merges>> => RowsDated' /\ MergesReachCommitted'
  <1>1. cat'.entries = cat.entries => EntriesNamed'
    BY DEF IInv, EntriesNamed
  <1>2. cat'.features = cat.features /\ cat'.views = cat.views => WideViewCovers'
    BY DEF IInv, WideViewCovers
  <1>3. cat'.raw = cat.raw /\ UNCHANGED <<writes, merges>> => RowsDated' /\ MergesReachCommitted'
    BY DEF IInv, RowsDated, MergesReachCommitted
  <1> QED
    BY <1>1, <1>2, <1>3

\* Rows are buffered, or a full batch goes out.
LEMMA ServeIngestIInv ==
    ASSUME IInv, queue # <<>>, queue' = Tail(queue), UNCHANGED <<view, rest>>, ServeIngest(Head(queue))
    PROVE  IInv'
  <1> DEFINE m == Head(queue)
             all == buffer[m.tenant] \o m.arg.rows
  <1>1. /\ m \in Sent /\ List(queue') /\ Sent' \subseteq Sent
        /\ UNCHANGED <<view, registry, clock, key, issued>>
        /\ BufferOK /\ writes \in Nat /\ m.op = "ingest"
        /\ m.by \in Callers /\ Carries(m, calls[m.by].req)
    BY ServeFacts DEF ServeIngest
  <1>2. List(m.arg.rows) /\ List(buffer[m.tenant])
    BY <1>1 DEF BufferOK, Carries
  <1>3. List(all)
    BY <1>2, ConcatList
  <1>4. List(all) /\ Len(all) \in Nat
    BY <1>3, ListFacts
  <1> HIDE DEF all
  <1>5. ASSUME NEW o \in Outcomes(Chunks(all)), Insert(m.tenant, all, o[1], o[2]), Reply(m, o[2], NoData)
        PROVE  IInv'
    <2>1. o[1] \in Int /\ o[2] \in BOOLEAN
      BY <1>4, ChunksNat, OutcomeFacts
    <2>2. /\ cat' = ingest_raw(cat, all, m.tenant, writes + 1, o[1])
          /\ buffer' = [buffer EXCEPT ![m.tenant] = <<>>]
          /\ writes' = writes + 1 /\ Fault(o[2]) /\ UNCHANGED merges
      BY <1>5 DEF Insert
    <2>3. /\ RowsDated' /\ MergesReachCommitted'
          /\ DOMAIN cat' = DOMAIN cat /\ cat'.suppression = cat.suppression /\ cat'.snapshots = cat.snapshots
          /\ cat'.entries = cat.entries /\ cat'.features = cat.features /\ cat'.views = cat.views
      BY <1>4, <2>1, <2>2, IngestRows
    <2>4. Served(m, o[2])
      BY <1>1, <2>1, <2>3, OtherTables
    <2>5. CallsInv'
      BY <1>1, <1>5, <2>1, <2>4, ServeCalls
    <2>6. BufferOK' /\ faults' \in 0..MaxFaults /\ writes' \in Nat
      <3>1. BufferOK'
        BY <1>1, <2>2, EmptyBuffer
      <3>2. faults' \in 0..MaxFaults
        BY <2>1, <2>2, FaultFacts DEF IInv
      <3> QED
        BY <1>1, <2>2, <3>1, <3>2
    <2> QED
      BY <1>1, <2>3, <2>5, <2>6, TablesKept, Assemble
  <1>6. CASE /\ ~Full(all)
             /\ buffer' = [buffer EXCEPT ![m.tenant] = all]
             /\ Reply(m, TRUE, NoData)
             /\ UNCHANGED <<cat, writes, merges, faults>>
    <2>1. Served(m, TRUE)
      BY <1>1, <1>6, OtherTables
    <2>2. CallsInv'
      BY <1>1, <1>6, <2>1, ServeCalls
    <2>3. BufferOK'
      <3>1. Len(all) < FlushRows
        BY <1>4, <1>6, IngressAssumption DEF Full
      <3>2. DOMAIN buffer' = Tenants /\ \A u \in Tenants : buffer'[u] = buffer[u] \/ buffer'[u] = all
        BY <1>1, <1>6 DEF BufferOK
      <3> QED
        BY <1>1, <1>4, <3>1, <3>2 DEF BufferOK
    <2>4. faults' \in 0..MaxFaults /\ writes' \in Nat
      BY <1>1, <1>6 DEF IInv, TypeOK
    <2> QED
      BY <1>1, <1>6, <2>2, <2>3, <2>4, TablesKept, Assemble
  <1> QED
    BY <1>5, <1>6 DEF ServeIngest, all

\* A merge.
LEMMA ServeMergeIInv ==
    ASSUME IInv, queue # <<>>, queue' = Tail(queue), UNCHANGED <<view, rest>>, ServeMerge(Head(queue))
    PROVE  IInv'
  <1> DEFINE m == Head(queue)
             rows == dedup_by_key(m.arg)
             keys == IF m.op = "delete" THEN m.arg ELSE [i \in DOMAIN rows |-> rows[i].key]
  <1>1. /\ m \in Sent /\ List(queue') /\ Sent' \subseteq Sent
        /\ UNCHANGED <<view, registry, clock, key, issued>>
        /\ BufferOK' /\ writes \in Nat /\ m.op \in {"upsert", "delete"}
        /\ m.by \in Callers /\ Carries(m, calls[m.by].req) /\ writes' = writes + 1
    BY ServeFacts DEF ServeMerge
  <1>2. List(m.arg)
    <2>1. calls[m.by].req.kind = m.op /\ m.arg = calls[m.by].req.arg
      BY <1>1 DEF Carries
    <2> QED
      BY <1>1, <2>1, RequestFacts DEF IInv
  <1>3. PICK o \in Outcomes(Chunks(keys)) :
          /\ cat' = IF m.op = "delete" THEN delete_raw(cat, keys, m.tenant, o[1])
                    ELSE upsert_raw(cat, m.arg, m.tenant, writes + 1, o[1])
          /\ merges' = merges \cup Reached(m.op, keys, o[1], m.tenant)
          /\ Fault(o[2]) /\ Reply(m, o[2], NoData)
    BY DEF ServeMerge
  <1>4. List(keys)
    <2>1. CASE m.op = "delete"
      BY <1>2, <2>1
    <2>2. CASE m.op = "upsert"
      <3> DEFINE A == {m.arg[i] : i \in DOMAIN m.arg}
                 K == {rows[i].key : i \in DOMAIN rows}
      <3>1. m.arg \in Seq(A)
        BY <1>2 DEF List
      <3> HIDE DEF A
      <3>2. rows \in Seq(A)
        BY <3>1, DedupKeyed
      <3> HIDE DEF rows
      <3>3. keys = [i \in 1..Len(rows) |-> rows[i].key] /\ Len(rows) \in Nat /\ DOMAIN rows = 1..Len(rows)
        BY <2>2, <3>2
      <3>4. \A i \in 1..Len(rows) : rows[i].key \in K
        BY <3>3
      <3> HIDE DEF keys, K
      <3>5. keys \in Seq(K)
        BY <3>3, <3>4
      <3> QED
        BY <3>5, IsList
    <2> QED
      BY <1>1, <2>1, <2>2
  <1>5. o[1] \in Int /\ o[2] \in BOOLEAN
    <2> HIDE DEF keys
    <2> QED
      BY <1>4, ChunksNat, OutcomeFacts
  <1>6. /\ RowsDated' /\ MergesReachCommitted'
        /\ DOMAIN cat' = DOMAIN cat /\ cat'.suppression = cat.suppression /\ cat'.snapshots = cat.snapshots
        /\ cat'.entries = cat.entries /\ cat'.features = cat.features /\ cat'.views = cat.views
    <2>1. CASE m.op = "delete"
      <3>1. keys = m.arg
        BY <2>1
      <3> HIDE DEF keys, m
      <3> QED
        BY <1>1, <1>3, <1>4, <1>5, <2>1, <3>1, DeleteRows
    <2>2. CASE m.op = "upsert"
      <3>1. keys = [i \in DOMAIN dedup_by_key(m.arg) |-> dedup_by_key(m.arg)[i].key]
        BY <2>2
      <3> HIDE DEF keys, m, rows
      <3>2. cat' = upsert_raw(cat, m.arg, m.tenant, writes + 1, o[1])
        BY <1>3, <2>2
      <3>3. merges' = merges \cup Reached("upsert", [i \in DOMAIN dedup_by_key(m.arg) |-> dedup_by_key(m.arg)[i].key],
                                           o[1], m.tenant)
        BY <1>3, <2>2, <3>1
      <3> QED
        BY <1>1, <1>2, <1>5, <3>2, <3>3, UpsertRows
    <2> QED
      BY <1>1, <2>1, <2>2
  <1> HIDE DEF m, keys, rows
  <1>7. Served(m, o[2])
    BY <1>1, <1>5, <1>6, OtherTables
  <1>8. CallsInv'
    BY <1>1, <1>3, <1>5, <1>7, ServeCalls
  <1>9. faults' \in 0..MaxFaults
    BY <1>3, <1>5, FaultFacts DEF IInv
  <1>10. EntriesNamed' /\ WideViewCovers'
    BY <1>1, <1>6, TablesKept
  <1> QED
    BY <1>1, <1>6, <1>8, <1>9, <1>10, Assemble

\* A command of one transaction.
LEMMA ServeAtomicIInv ==
    ASSUME IInv, queue # <<>>, queue' = Tail(queue), UNCHANGED <<view, rest>>, ServeAtomic(Head(queue))
    PROVE  IInv'
  <1> DEFINE m == Head(queue)
  <1>1. /\ m \in Sent /\ List(queue') /\ Sent' \subseteq Sent
        /\ UNCHANGED <<view, registry, clock, key, issued>>
        /\ BufferOK' /\ writes \in Nat /\ m.op \in {"suppress", "features", "materialize"}
        /\ UNCHANGED <<writes, merges>>
    BY ServeFacts DEF ServeAtomic
  <1>2. PICK ok \in BOOLEAN :
          /\ m.op = "suppress" => cat' = IF ok THEN write_suppression_idempotent(cat, m.arg.row, m.tenant) ELSE cat
          /\ m.op = "features" => cat' = IF ok THEN write_features_and_refresh(cat, m.arg, m.tenant) ELSE cat
          /\ m.op = "materialize" =>
               cat' = IF ok THEN materialize_snapshot(cat, m.arg.snap, m.arg.users, m.tenant) ELSE cat
          /\ Fault(ok) /\ Reply(m, ok, NoData)
    BY <1>1 DEF ServeAtomic
  <1> HIDE DEF m
  <1>3. Served(m, ok) /\ cat'.raw = cat.raw /\ cat'.entries = cat.entries /\ WideViewCovers'
    <2>1. CASE m.op = "suppress"
      BY <1>1, <1>2, <2>1, OutcomeStored, TablesKept
    <2>2. CASE m.op = "materialize"
      BY <1>1, <1>2, <2>2, SnapshotStored, TablesKept
    <2>3. CASE m.op = "features" /\ ok
      <3>1. /\ WideViewCovers'
            /\ DOMAIN cat' = DOMAIN cat /\ cat'.suppression = cat.suppression /\ cat'.snapshots = cat.snapshots
            /\ cat'.entries = cat.entries /\ cat'.raw = cat.raw
        BY <1>2, <2>3, FeatureViews
      <3> QED
        BY <2>3, <3>1, OtherTables
    <2>4. CASE m.op = "features" /\ ~ok
      <3>1. cat' = cat
        BY <1>2, <2>4
      <3> QED
        BY <1>1, <2>4, <3>1, OtherTables, TablesKept
    <2> QED
      BY <1>1, <2>1, <2>2, <2>3, <2>4
  <1>4. CallsInv'
    BY <1>1, <1>2, <1>3, ServeCalls
  <1>5. faults' \in 0..MaxFaults
    BY <1>2, FaultFacts DEF IInv
  <1>6. EntriesNamed' /\ RowsDated' /\ MergesReachCommitted' /\ writes' \in Nat
    BY <1>1, <1>3, TablesKept
  <1> QED
    BY <1>1, <1>3, <1>4, <1>5, <1>6, Assemble

\* Catalogue entries.
LEMMA ServeCatalogueIInv ==
    ASSUME IInv, queue # <<>>, queue' = Tail(queue), UNCHANGED <<view, rest>>, ServeCatalogue(Head(queue))
    PROVE  IInv'
  <1> DEFINE m == Head(queue)
  <1>1. /\ m \in Sent /\ List(queue') /\ Sent' \subseteq Sent
        /\ UNCHANGED <<view, registry, clock, key, issued>>
        /\ BufferOK' /\ writes \in Nat /\ m.op = "catalogue"
        /\ m.by \in Callers /\ Carries(m, calls[m.by].req) /\ UNCHANGED <<writes, merges>>
    BY ServeFacts DEF ServeCatalogue
  <1>2. List(m.arg) /\ \A i \in DOMAIN m.arg : m.arg[i].epoch \in Nat /\ m.arg[i].column \in Named
    BY <1>1 DEF Carries
  <1>3. PICK o \in Outcomes(Len(m.arg)) :
          /\ cat' = write_catalog_rows(cat, m.arg, m.tenant, o[1])
          /\ Fault(o[2]) /\ Reply(m, o[2], NoData)
    BY DEF ServeCatalogue
  <1>4. o[1] \in Int /\ o[2] \in BOOLEAN /\ o[1] <= Len(m.arg)
    BY <1>2, ListFacts, OutcomeFacts
  <1> HIDE DEF m
  <1>5. /\ IsFiniteSet(cat'.entries) /\ (\A e \in cat'.entries : e.epoch \in Nat /\ e.column \in Named)
        /\ DOMAIN cat' = DOMAIN cat /\ cat'.suppression = cat.suppression /\ cat'.snapshots = cat.snapshots
        /\ cat'.raw = cat.raw /\ cat'.features = cat.features /\ cat'.views = cat.views
    BY <1>2, <1>3, <1>4, EntriesStored
  <1>6. EntriesNamed'
    BY <1>1, <1>5 DEF IInv, EntriesNamed
  <1>7. Served(m, o[2])
    BY <1>1, <1>4, <1>5, OtherTables
  <1>8. CallsInv'
    BY <1>1, <1>3, <1>4, <1>7, ServeCalls
  <1>9. faults' \in 0..MaxFaults
    BY <1>3, <1>4, FaultFacts DEF IInv
  <1>10. WideViewCovers' /\ RowsDated' /\ MergesReachCommitted' /\ writes' \in Nat
    BY <1>1, <1>5, TablesKept
  <1> QED
    BY <1>1, <1>6, <1>8, <1>9, <1>10, Assemble

\* An export is read.
LEMMA ServeExportIInv ==
    ASSUME IInv, queue # <<>>, queue' = Tail(queue), UNCHANGED <<view, rest>>, ServeExport(Head(queue))
    PROVE  IInv'
  <1> DEFINE m == Head(queue)
             data == [token |-> calls[m.by].data.token, at |-> calls[m.by].data.at,
                      rows |-> export_snapshot_parquet(cat, m.arg)]
  <1>1. /\ m \in Sent /\ List(queue') /\ Sent' \subseteq Sent
        /\ UNCHANGED <<view, registry, clock, key, issued>>
        /\ BufferOK' /\ writes \in Nat /\ m.op = "export"
        /\ UNCHANGED <<cat, writes, merges>>
    BY ServeFacts DEF ServeExport
  <1>2. PICK ok \in BOOLEAN : Fault(ok) /\ Reply(m, ok, data)
    BY DEF ServeExport
  <1> HIDE DEF m
  <1>3. Served(m, ok)
    BY <1>1, OtherTables
  <1>4. CallsInv'
    <2>1. data = [token |-> calls[m.by].data.token, at |-> calls[m.by].data.at,
                  rows |-> export_snapshot_parquet(cat, m.arg)]
      OBVIOUS
    <2> HIDE DEF data
    <2> QED
      BY <1>1, <1>2, <1>3, <2>1, ServeCalls
  <1>5. faults' \in 0..MaxFaults
    BY <1>2, FaultFacts DEF IInv
  <1>6. EntriesNamed' /\ WideViewCovers' /\ RowsDated' /\ MergesReachCommitted' /\ writes' \in Nat
    BY <1>1, TablesKept
  <1> QED
    BY <1>1, <1>4, <1>5, <1>6, Assemble

-----------------------------------------------------------------------------
\* Steps that leave the handlers and their tables alone.
LEMMA CallsKept ==
    ASSUME IInv, UNCHANGED <<calls, queue, issued, clock>>,
           view'.snapshots \subseteq cat.snapshots, DOMAIN cat' = DOMAIN cat,
           cat'.suppression = cat.suppression, cat'.snapshots = cat.snapshots
    PROVE  CallsInv'
  <1> USE DEF IInv
  <1>1. \A d \in Callers : Tenant(d)' = Tenant(d)
    BY SameTenant
  <1>2. Sent' = Sent
    BY DEF Sent
  <1>3. \A d : Active(d)' = Active(d)
    BY DEF Active
  <1>4. HandlersOwn' /\ EditsAhead'
    BY <1>2 DEF HandlersOwn, EditsAhead
  <1>5. CommandsOwn'
    BY <1>1, <1>2, <1>3 DEF CommandsOwn
  <1>6. OutcomesPosted' /\ SuppressionOnce'
    BY <1>1, <1>3 DEF OutcomesPosted, SuppressionOnce
  <1>7. SnapshotsOwned' /\ TokensBacked' /\ ExportsChecked' /\ ExportOwned'
    BY <1>1 DEF SnapshotsOwned, TokensBacked, ExportsChecked, ExportOwned
  <1>8. DOMAIN Attached' = DOMAIN Attached
    BY DEF Attached
  <1> QED
    BY <1>4, <1>5, <1>6, <1>7, <1>8 DEF CallsInv, Shape, TypeOK

\* A batch goes out between two commands.
LEMMA FlushIInv ==
    ASSUME IInv, NEW t \in Tenants, Flush(t)
    PROVE  IInv'
  <1>1. UNCHANGED <<view, queue, calls, registry, clock, key, issued>>
    BY DEF Flush, rest
  <1>2. PICK o \in Outcomes(Chunks(buffer[t])) : Insert(t, buffer[t], o[1], o[2])
    BY DEF Flush
  <1>3. BufferOK /\ List(buffer[t]) /\ writes \in Nat
    BY DEF IInv, Shape, TypeOK, BufferOK
  <1>4. o[1] \in Int /\ o[2] \in BOOLEAN
    BY <1>3, ChunksNat, OutcomeFacts
  <1>5. /\ cat' = ingest_raw(cat, buffer[t], t, writes + 1, o[1])
        /\ buffer' = [buffer EXCEPT ![t] = <<>>]
        /\ writes' = writes + 1 /\ Fault(o[2]) /\ UNCHANGED merges
    BY <1>2 DEF Insert
  <1>6. /\ RowsDated' /\ MergesReachCommitted'
        /\ DOMAIN cat' = DOMAIN cat /\ cat'.suppression = cat.suppression /\ cat'.snapshots = cat.snapshots
        /\ cat'.entries = cat.entries /\ cat'.features = cat.features /\ cat'.views = cat.views
    BY <1>3, <1>4, <1>5, IngestRows
  <1>7. CallsInv'
    <2>1. view'.snapshots \subseteq cat.snapshots
      BY <1>1 DEF IInv, SnapshotsOwned
    <2> QED
      BY <1>1, <1>6, <2>1, CallsKept
  <1>8. BufferOK'
    BY <1>3, <1>5, EmptyBuffer
  <1>9. faults' \in 0..MaxFaults
    BY <1>4, <1>5, FaultFacts DEF IInv
  <1>10. EntriesNamed' /\ WideViewCovers' /\ writes' \in Nat
    BY <1>1, <1>3, <1>5, <1>6, TablesKept
  <1> QED
    BY <1>1, <1>6, <1>7, <1>8, <1>9, <1>10, Assemble

\* A reader attaches to the newest catalog.
LEMMA AttachIInv ==
    ASSUME IInv, Attach
    PROVE  IInv'
  <1>1. view' = cat /\ UNCHANGED <<cat, buffer, queue, calls, registry, clock, key, issued, writes, merges, faults>>
    BY DEF Attach, rest
  <1>2. CallsInv'
    BY <1>1, CallsKept
  <1>3. BufferOK' /\ faults' \in 0..MaxFaults /\ writes' \in Nat
    BY <1>1 DEF IInv, Shape, TypeOK, BufferOK
  <1>4. EntriesNamed' /\ WideViewCovers' /\ RowsDated' /\ MergesReachCommitted'
    BY <1>1 DEF IInv, EntriesNamed, WideViewCovers, RowsDated, MergesReachCommitted
  <1> QED
    BY <1>1, <1>2, <1>3, <1>4, Assemble

\* Time passes.
LEMMA TickIInv ==
    ASSUME IInv, Tick
    PROVE  IInv'
  <1> USE DEF IInv
  <1>1. /\ clock < MaxClock /\ clock' = clock + 1
        /\ UNCHANGED <<cat, view, buffer, queue, writes, merges, faults, calls, registry, key, issued>>
    BY DEF Tick, store
  <1>2. clock \in 0..MaxClock /\ MaxClock \in Nat /\ TTL \in Nat
    BY IngressAssumption DEF TypeOK
  <1>3. \A d \in Callers : Tenant(d)' = Tenant(d)
    BY <1>1, SameTenant
  <1>4. Sent' = Sent /\ \A d : Active(d)' = Active(d)
    BY <1>1 DEF Sent, Active
  <1>5. Shape'
    BY <1>1 DEF Shape, Attached
  <1>6. TypeOK'
    BY <1>1, <1>2 DEF TypeOK
  <1>7. HandlersOwn' /\ EditsAhead'
    BY <1>1, <1>4 DEF HandlersOwn, EditsAhead
  <1>8. CommandsOwn'
    BY <1>1, <1>3, <1>4 DEF CommandsOwn
  <1>9. OutcomesPosted' /\ SuppressionOnce'
    BY <1>1, <1>3, <1>4 DEF OutcomesPosted, SuppressionOnce
  <1>10. TokensBacked'
    BY <1>1, <1>2 DEF TokensBacked
  <1>11. SnapshotsOwned' /\ ExportsChecked' /\ ExportOwned'
    BY <1>1, <1>3 DEF SnapshotsOwned, ExportsChecked, ExportOwned
  <1>12. EntriesNamed' /\ WideViewCovers' /\ RowsDated' /\ MergesReachCommitted'
    BY <1>1 DEF EntriesNamed, WideViewCovers, RowsDated, MergesReachCommitted
  <1> QED
    BY <1>5, <1>6, <1>7, <1>8, <1>9, <1>10, <1>11, <1>12

\* The process is killed and started again.
LEMMA RestartIInv ==
    ASSUME IInv, Restart
    PROVE  IInv'
  <1> USE DEF IInv
  <1>1. /\ key < MaxRestarts /\ key' = key + 1
        /\ buffer' = [t \in Tenants |-> <<>>] /\ queue' = <<>> /\ registry' = {} /\ view' = cat
        /\ UNCHANGED <<cat, clock, issued, writes, merges, faults>>
    BY DEF Restart
  <1>2. calls' = [c \in Callers |-> IF calls[c].pc \notin Awaits THEN calls[c]
                                    ELSE [calls[c] EXCEPT !.pc = "failed", !.data = NoData]]
    BY DEF Restart
  <1>3. /\ DOMAIN calls' = Callers
        /\ \A d \in Callers : /\ DOMAIN calls'[d] = {"pc", "req", "try", "data"}
                              /\ calls'[d].req = calls[d].req /\ calls'[d].try = calls[d].try
                              /\ calls'[d] = calls[d] \/ calls'[d].pc = "failed"
                              /\ calls'[d].pc \notin Awaits
    <2> SUFFICES ASSUME NEW d \in Callers
                 PROVE  /\ DOMAIN calls'[d] = {"pc", "req", "try", "data"}
                        /\ calls'[d].req = calls[d].req /\ calls'[d].try = calls[d].try
                        /\ calls'[d] = calls[d] \/ calls'[d].pc = "failed"
                        /\ calls'[d].pc \notin Awaits
      BY <1>2
    <2>1. DOMAIN calls[d] = {"pc", "req", "try", "data"} /\ "failed" \notin Awaits
      BY DEF Shape, Awaits
    <2>2. CASE calls[d].pc \notin Awaits
      BY <1>2, <2>1, <2>2
    <2>3. CASE calls[d].pc \in Awaits
      BY <1>2, <2>1, <2>3
    <2> QED
      BY <2>2, <2>3
  <1>4. \A d \in Callers : Tenant(d)' = Tenant(d)
    BY <1>3, SameTenant
  <1>5. \A d \in Callers : Active(d) => Active(d)'
    BY <1>3 DEF Active
  <1>6. List(<<>>) /\ Sent' = {}
    <2>1. <<>> \in Seq({})
      OBVIOUS
    <2>2. List(<<>>)
      BY <2>1, IsList
    <2>3. queue' = <<>> /\ DOMAIN <<>> = {}
      BY <1>1
    <2>4. Sent' = {}
      BY <2>3 DEF Sent
    <2> QED
      BY <2>2, <2>4
  <1>7. Shape'
    BY <1>1, <1>3, <1>6 DEF Shape, Attached
  <1>8. TypeOK'
    <2>1. key' \in 0..MaxRestarts
      BY <1>1, IngressAssumption DEF TypeOK
    <2>2. \A d \in Callers : /\ calls'[d].pc \in Awaits \cup {"new", "done", "failed"}
                             /\ calls'[d].try \in 0..MaxTries
      BY <1>3 DEF TypeOK
    <2> QED
      BY <1>1, <2>1, <2>2 DEF TypeOK
  <1>9. HandlersOwn'
    BY <1>3 DEF HandlersOwn, Leads, Awaits
  <1>10. CommandsOwn' /\ EditsAhead'
    BY <1>3, <1>6 DEF CommandsOwn, EditsAhead, Awaits
  <1>11. OutcomesPosted'
    BY <1>1, <1>3, <1>4, <1>5 DEF OutcomesPosted
  <1>12. SuppressionOnce'
    <2>1. \A e \in Callers : calls'[e].pc = "done" => calls[e].pc = "done"
      BY <1>3
    <2> QED
      BY <1>1, <1>3, <1>4, <1>5, <2>1 DEF SuppressionOnce, Active
  <1>13. SnapshotsOwned' /\ TokensBacked'
    BY <1>1, <1>3, <1>4 DEF SnapshotsOwned, TokensBacked
  <1>14. ExportsChecked'
    BY <1>3 DEF ExportsChecked, Awaits
  <1>15. ExportOwned'
    BY <1>3, <1>4 DEF ExportOwned
  <1>16. EntriesNamed' /\ WideViewCovers' /\ RowsDated' /\ MergesReachCommitted'
    BY <1>1 DEF EntriesNamed, WideViewCovers, RowsDated, MergesReachCommitted
  <1> QED
    BY <1>7, <1>8, <1>9, <1>10, <1>11, <1>12, <1>13, <1>14, <1>15, <1>16

\* An attached catalog, and callers that have not called yet.
LEMMA InitIInv == Init => IInv
  <1> SUFFICES ASSUME Init PROVE IInv
    OBVIOUS
  <1>1. /\ cat = Attached /\ view = Attached /\ buffer = [t \in Tenants |-> <<>>] /\ queue = <<>>
        /\ registry = {} /\ clock = 0 /\ key = 0 /\ faults = 0 /\ writes = 0 /\ issued = {} /\ merges = {}
    BY DEF Init
  <1>2. PICK s \in Scenarios : calls = [c \in Callers |-> [pc |-> "new", req |-> s[c], try |-> 0, data |-> NoData]]
    BY DEF Init
  <1>3. \A c \in Callers : /\ DOMAIN calls[c] = {"pc", "req", "try", "data"}
                           /\ calls[c].pc = "new" /\ calls[c].req = s[c] /\ calls[c].try = 0
    BY <1>2
  <1>4. List(<<>>) /\ Sent = {}
    <2>1. <<>> \in Seq({})
      OBVIOUS
    <2>2. List(<<>>)
      BY <2>1, IsList
    <2>3. queue = <<>> /\ DOMAIN <<>> = {}
      BY <1>1
    <2>4. Sent = {}
      BY <2>3 DEF Sent
    <2> QED
      BY <2>2, <2>4
  <1>5. /\ cat.suppression = <<>> /\ cat.entries = {} /\ cat.snapshots = {} /\ cat.raw = {} /\ cat.features = {}
        /\ view.entries = {} /\ view.snapshots = {} /\ cat.views = [f \in Families |-> {}]
    BY <1>1 DEF Attached
  <1>6. Shape
    BY <1>1, <1>2, <1>3, <1>4, <1>5 DEF Shape
  <1>7. TypeOK
    BY <1>1, <1>3, IngressAssumption DEF TypeOK
  <1>8. HandlersOwn /\ CommandsOwn /\ EditsAhead
    BY <1>3, <1>4 DEF HandlersOwn, Leads, CommandsOwn, EditsAhead
  <1>9. EntriesNamed
    BY <1>5, FS_EmptySet DEF EntriesNamed
  <1>10. OutcomesPosted /\ SuppressionOnce
    BY <1>3, <1>5 DEF OutcomesPosted, SuppressionOnce
  <1>11. SnapshotsOwned /\ TokensBacked /\ ExportsChecked /\ ExportOwned
    BY <1>1, <1>3, <1>5 DEF SnapshotsOwned, TokensBacked, ExportsChecked, ExportOwned
  <1>12. WideViewCovers
    BY <1>5 DEF WideViewCovers, feature_short_names
  <1>13. RowsDated /\ MergesReachCommitted
    BY <1>1, <1>5 DEF RowsDated, MergesReachCommitted
  <1> QED
    BY <1>6, <1>7, <1>8, <1>9, <1>10, <1>11, <1>12, <1>13 DEF IInv

\* Every step keeps the invariant.
LEMMA NextIInv == IInv /\ [Next]_vars => IInv'
  <1> SUFFICES ASSUME IInv, [Next]_vars PROVE IInv'
    OBVIOUS
  <1>1. ASSUME NEW c \in Callers,
               \/ Start(c) \/ Label(c) \/ Profile(c) \/ catalogue_entry(c) \/ Embed(c)
               \/ Retrieve(c) \/ RunProducer(c) \/ Meta(c) \/ Owner(c) \/ Disconnect(c) \/ Retry(c)
        PROVE  IInv'
    BY <1>1, StartIInv, LabelIInv, ProfileIInv, EntryIInv, EmbedIInv, RetrieveIInv, RunProducerIInv, MetaIInv,
       OwnerIInv, DisconnectIInv, RetryIInv
  <1>2. CASE Serve
    <2>1. queue # <<>> /\ queue' = Tail(queue) /\ UNCHANGED <<view, rest>>
      BY <1>2 DEF Serve
    <2> QED
      BY <1>2, <2>1, ServeIngestIInv, ServeMergeIInv, ServeAtomicIInv, ServeCatalogueIInv, ServeExportIInv DEF Serve
  <1>3. CASE \E t \in Tenants : Flush(t)
    BY <1>3, FlushIInv
  <1>4. CASE Attach
    BY <1>4, AttachIInv
  <1>5. CASE Tick
    BY <1>5, TickIInv
  <1>6. CASE Restart
    BY <1>6, RestartIInv
  <1>7. CASE UNCHANGED vars
    <2>1. UNCHANGED <<cat, view, buffer, queue, registry, clock, key, calls, issued, writes, merges, faults>>
      BY <1>7 DEF vars
    <2>2. CallsInv'
      <3>1. view'.snapshots \subseteq cat.snapshots
        BY <2>1 DEF IInv, SnapshotsOwned
      <3> QED
        BY <2>1, <3>1, CallsKept
    <2>3. BufferOK' /\ faults' \in 0..MaxFaults /\ writes' \in Nat
      BY <2>1 DEF IInv, Shape, TypeOK, BufferOK
    <2> QED
      BY <2>1, <2>2, <2>3, TablesKept, Assemble
  <1> QED
    BY <1>1, <1>2, <1>3, <1>4, <1>5, <1>6, <1>7 DEF Next

\* The inductive invariant holds in every reachable state.
LEMMA Invariance == Spec => []IInv
  BY InitIInv, NextIInv, PTL DEF Spec

-----------------------------------------------------------------------------
\* What a handler is doing, unless it is c's own step, is left alone.
LEMMA OtherHandlers ==
    ASSUME Shape, NEW c \in Callers, NEW d \in Callers,
           \/ Start(d) \/ Label(d) \/ Profile(d) \/ catalogue_entry(d) \/ Embed(d)
           \/ Retrieve(d) \/ RunProducer(d) \/ Meta(d) \/ Owner(d) \/ Disconnect(d) \/ Retry(d),
           calls[c].pc = "write"
    PROVE  calls'[c].pc \in {"write", "failed"}
  <1>1. ASSUME NEW pc, NEW data, Go(d, pc, data), calls[d].pc # "write" \/ pc = "failed"
        PROVE  calls'[c].pc \in {"write", "failed"}
    <2>1. d # c => calls'[c] = calls[c]
      BY <1>1, GoFacts
    <2>2. d = c => calls'[c].pc = pc
      BY <1>1, GoFacts
    <2> QED
      BY <1>1, <2>1, <2>2
  <1>2. CASE Start(d)
    <2>1. calls[d].pc = "new" /\ \E pc, data : Go(d, pc, data)
      <3>1. CASE First(d, calls[d].req)
        BY <1>2, <3>1, Zenon DEF Start, First, Send, Fail
      <3>2. CASE Fail(d)
        BY <1>2, <3>2, Zenon DEF Start, Fail
      <3> QED
        BY <1>2, <3>1, <3>2 DEF Start
    <2> QED
      BY <1>1, <2>1
  <1>3. CASE Label(d)
    BY <1>1, <1>3 DEF Label, Fail
  <1>4. CASE Profile(d)
    BY <1>1, <1>4 DEF Profile, Send
  <1>5. CASE catalogue_entry(d)
    <2>1. calls[d].pc = "entry" /\ \E pc, data : Go(d, pc, data)
      BY <1>5, Zenon DEF catalogue_entry, Fail
    <2> QED
      BY <1>1, <2>1
  <1>6. CASE Embed(d)
    BY <1>1, <1>6 DEF Embed, Send, Fail
  <1>7. CASE Retrieve(d)
    <2>1. calls[d].pc = "retrieve" /\ \E pc, data : Go(d, pc, data)
      BY <1>7, Zenon DEF Retrieve, Fail
    <2> QED
      BY <1>1, <2>1
  <1>8. CASE RunProducer(d)
    <2>1. calls[d].pc = "run" /\ \E pc, data : Go(d, pc, data)
      BY <1>8, Zenon DEF RunProducer, Send, Fail
    <2> QED
      BY <1>1, <2>1
  <1>9. CASE Meta(d)
    <2>1. calls[d].pc = "meta" /\ \E pc, data : Go(d, pc, data)
      BY <1>9, Zenon DEF Meta, Fail
    <2> QED
      BY <1>1, <2>1
  <1>10. CASE Owner(d)
    <2>1. calls[d].pc = "owner" /\ \E pc, data : Go(d, pc, data)
      BY <1>10, Zenon DEF Owner, Send, Fail
    <2> QED
      BY <1>1, <2>1
  <1>11. CASE Disconnect(d)
    BY <1>1, <1>11 DEF Disconnect, Fail
  <1>12. CASE Retry(d)
    <2>1. d # c /\ calls'[c] = calls[c]
      BY <1>12 DEF Retry, Shape
    <2> QED
      BY <2>1
  <1> QED
    BY <1>2, <1>3, <1>4, <1>5, <1>6, <1>7, <1>8, <1>9, <1>10, <1>11, <1>12

\* An answer concerns the sender of the command.
LEMMA ReplyOther ==
    ASSUME Shape, NEW m, m.by \in Callers, NEW ok, NEW data, Reply(m, ok, data), NEW c \in Callers, c # m.by
    PROVE  calls'[c] = calls[c]
  <1>1. calls' = calls \/ \E pc, d : Go(m.by, pc, d)
    BY Zenon DEF Reply, Fail
  <1> QED
    BY <1>1, GoFacts

\* An edit ends well only when the writer stores its row.
LEMMA EditServed ==
    ASSUME IInv, [Next]_vars, NEW c \in Callers,
           calls[c].req.kind = "edit", calls[c].pc = "write", calls'[c].pc = "done"
    PROVE  \E row \in cat'.entries :
             /\ cat'.entries = cat.entries \cup {row}
             /\ row.column = calls[c].req.arg.column /\ row.text = calls[c].req.arg.text
             /\ row.tenant = Tenant(c) /\ row.epoch \in Nat /\ row.epoch > calls[c].data.epoch
  <1>1. Shape
    BY DEF IInv
  <1>2. Serve
    <2>1. CASE \E d \in Callers :
                 \/ Start(d) \/ Label(d) \/ Profile(d) \/ catalogue_entry(d) \/ Embed(d)
                 \/ Retrieve(d) \/ RunProducer(d) \/ Meta(d) \/ Owner(d) \/ Disconnect(d) \/ Retry(d)
      <3>1. calls'[c].pc \in {"write", "failed"}
        BY <1>1, <2>1, OtherHandlers
      <3> QED
        BY <3>1
    <2>2. CASE Restart
      <3>1. calls'[c] = [calls[c] EXCEPT !.pc = "failed", !.data = NoData]
        BY <2>2 DEF Restart, Awaits
      <3> QED
        BY <1>1, <3>1 DEF Shape
    <2>3. CASE (\E t \in Tenants : Flush(t)) \/ Attach \/ Tick \/ UNCHANGED vars
      BY <2>3 DEF Flush, Attach, Tick, vars
    <2> QED
      BY <2>1, <2>2, <2>3 DEF Next
  <1> DEFINE m == Head(queue)
  <1>3. /\ m \in Sent /\ m.by \in Callers /\ Carries(m, calls[m.by].req)
        /\ m.tenant = Tenant(m.by)
    <2>1. queue # <<>> /\ queue' = Tail(queue) /\ UNCHANGED <<view, rest>>
      BY <1>2 DEF Serve
    <2>2. m \in Sent /\ m.by \in Callers /\ Carries(m, calls[m.by].req)
      BY <2>1, ServeFacts
    <2> QED
      BY <2>2 DEF IInv, CommandsOwn
  <1>4. m.by = c
    <2>1. \E ok, data : Reply(m, ok, data)
      <3>1. CASE ServeIngest(m)
        BY <3>1, Zenon DEF ServeIngest
      <3>2. CASE ServeMerge(m)
        BY <3>2, Zenon DEF ServeMerge
      <3>3. CASE ServeAtomic(m)
        BY <3>3, Zenon DEF ServeAtomic
      <3>4. CASE ServeCatalogue(m)
        BY <3>4, Zenon DEF ServeCatalogue
      <3>5. CASE ServeExport(m)
        BY <3>5, Zenon DEF ServeExport
      <3> QED
        BY <1>2, <3>1, <3>2, <3>3, <3>4, <3>5 DEF Serve
    <2> HIDE DEF m
    <2>2. m.by # c => calls'[c] = calls[c]
      BY <1>1, <1>3, <2>1, ReplyOther
    <2> QED
      BY <2>2
  <1>5. /\ m.op = "catalogue" /\ List(m.arg) /\ Len(m.arg) = 1
        /\ m.arg[1].column = calls[c].req.arg.column /\ m.arg[1].text = calls[c].req.arg.text
        /\ \A i \in DOMAIN m.arg : m.arg[i].epoch \in Nat /\ m.arg[i].column \in Named
    BY <1>3, <1>4 DEF Carries
  <1>6. m.arg[1].epoch > calls[c].data.epoch
    BY <1>3, <1>4 DEF IInv, EditsAhead
  <1>7. PICK o \in Outcomes(Len(m.arg)) :
          /\ cat' = write_catalog_rows(cat, m.arg, m.tenant, o[1])
          /\ Reply(m, o[2], NoData)
    <2>1. ServeCatalogue(m)
      BY <1>2, <1>5 DEF Serve, ServeIngest, ServeMerge, ServeAtomic, ServeExport
    <2> QED
      BY <2>1 DEF ServeCatalogue
  <1> HIDE DEF m
  <1>8. o[1] = 1
    <2>1. o[1] \in Int /\ o[2] \in BOOLEAN /\ (o[2] => o[1] = 1)
      BY <1>5, <1>7, OutcomeFacts
    <2>2. ~o[2] => Go(c, "failed", NoData) \/ calls' = calls
      BY <1>4, <1>7 DEF Reply, Fail
    <2>3. Go(c, "failed", NoData) => calls'[c].pc = "failed"
      BY <1>1, GoFacts
    <2> QED
      BY <2>1, <2>2, <2>3
  <1> DEFINE E(i) == [column |-> m.arg[i].column, text |-> m.arg[i].text,
                      epoch |-> m.arg[i].epoch, tenant |-> m.tenant]
  <1>9. cat'.entries = cat.entries \cup {E(i) : i \in 1..1}
    BY <1>5, <1>7, <1>8, EntriesStored
  <1>10. cat'.entries = cat.entries \cup {E(1)}
    BY <1>9
  <1>11. 1 \in DOMAIN m.arg
    BY <1>5, ListFacts
  <1> DEFINE row == E(1)
  <1>12. /\ row.tenant = Tenant(c) /\ row.epoch \in Nat /\ row.epoch > calls[c].data.epoch
         /\ row.column = calls[c].req.arg.column /\ row.text = calls[c].req.arg.text
    BY <1>3, <1>4, <1>5, <1>6, <1>11
  <1>13. cat'.entries = cat.entries \cup {row}
    BY <1>10
  <1> HIDE DEF row
  <1> QED
    BY <1>12, <1>13

\* There is room in an answer for every column.
LEMMA NamedSize == IsFiniteSet(Named) /\ Cardinality(Named) <= Len(Columns) + 1
  <1> DEFINE T == {Columns[i] : i \in DOMAIN Columns}
  <1>1. DOMAIN Columns = 1..Len(Columns) /\ Len(Columns) \in Nat
    BY CatalogAssumption
  <1>2. IsFiniteSet(DOMAIN Columns) /\ Cardinality(DOMAIN Columns) = Len(Columns)
    <2> DEFINE n == Len(Columns)
    <2>1. n \in Nat /\ 1 \in Int /\ n \in Int /\ (1 > n => n = 0)
      BY <1>1
    <2> HIDE DEF n
    <2>2. IsFiniteSet(1..n) /\ Cardinality(1..n) = IF 1 > n THEN 0 ELSE n - 1 + 1
      BY <2>1, FS_Interval
    <2>3. Cardinality(1..n) = n
      BY <2>1, <2>2
    <2> QED
      BY <1>1, <2>2, <2>3 DEF n
  <1>3. IsFiniteSet(T) /\ Cardinality(T) <= Len(Columns)
    BY <1>2, FiniteImage
  <1> HIDE DEF T
  <1>4. IsFiniteSet(T \cup {Null}) /\ Cardinality(T \cup {Null}) <= Cardinality(T) + 1 /\ Cardinality(T) \in Nat
    <2>1. Cardinality(T) \in Nat
      BY <1>3, FS_CardinalityType
    <2>2. /\ IsFiniteSet(T \cup {Null})
          /\ Cardinality(T \cup {Null}) = IF Null \in T THEN Cardinality(T) ELSE Cardinality(T) + 1
      BY <1>3, FS_AddElement
    <2> QED
      BY <2>1, <2>2
  <1>5. Named = T \cup {Null}
    BY DEF Named, T
  <1>6. IsFiniteSet(Named) /\ Cardinality(Named) <= Cardinality(T) + 1 /\ Cardinality(Named) \in Nat
    BY <1>4, <1>5, FS_CardinalityType
  <1> QED
    BY <1>1, <1>3, <1>4, <1>6

\* An answer that has room for every column has an entry of each: one with the
\* newest epoch.
LEMMA RetrieveAll ==
    ASSUME NEW db, NEW t, IsFiniteSet(db.entries), \A e \in db.entries : e.column \in Named,
           NEW H \in retrieve(db, t, Len(Columns) + 1),
           NEW row \in db.entries, row.tenant = t
    PROVE  \E e \in H : e.column = row.column /\ e \in Newest(db, row.column, t)
  <1> DEFINE mine == {x \in db.entries : x.tenant = t}
             cols == {e.column : e \in mine}
             k == Len(Columns) + 1
             f == [e \in H |-> e.column]
  <1>1. /\ H \in SUBSET UNION {Newest(db, c, t) : c \in cols}
        /\ Cardinality(H) = Min({k, Cardinality(cols)})
        /\ \A e, g \in H : e.column = g.column => e = g
    BY DEF retrieve
  <1>2. cols \subseteq Named
    OBVIOUS
  <1>3. IsFiniteSet(cols) /\ Cardinality(cols) \in Nat /\ Cardinality(cols) <= k /\ k \in Nat
    <2>1. Len(Columns) \in Nat
      BY CatalogAssumption
    <2> HIDE DEF cols
    <2>2. IsFiniteSet(cols) /\ Cardinality(cols) <= Cardinality(Named)
      BY <1>2, NamedSize, FS_Subset
    <2> QED
      BY <2>1, <2>2, NamedSize, FS_CardinalityType
  <1> HIDE DEF k
  <1>4. Cardinality(H) = Cardinality(cols)
    <2> DEFINE n == Cardinality(cols)
    <2>1. n \in Nat /\ n <= k /\ k \in Nat /\ Cardinality(H) = Min({k, n})
      BY <1>1, <1>3
    <2> HIDE DEF n
    <2>2. \E x \in {k, n} : \A y \in {k, n} : x <= y
      BY <2>1
    <2>3. Min({k, n}) = n
      BY <2>1, <2>2 DEF Min
    <2> QED
      BY <2>1, <2>3 DEF n
  <1>5. \A e \in H : e \in db.entries /\ e.tenant = t /\ e \in Newest(db, e.column, t)
    BY <1>1 DEF Newest
  <1>6. f \in Injection(H, cols)
    <2>1. f \in [H -> cols]
      BY <1>5
    <2>2. \A a, b \in H : f[a] = f[b] => a = b
      BY <1>1
    <2> QED
      BY <2>1, <2>2 DEF Injection, IsInjective
  <1>7. row.column \in cols
    OBVIOUS
  <1>8. f \in Surjection(H, cols)
    <2> HIDE DEF f, cols
    <2> QED
      BY <1>3, <1>4, <1>6, FS_Injection
  <1>9. PICK e \in H : f[e] = row.column
    BY <1>7, <1>8 DEF Surjection
  <1>10. e.column = row.column
    BY <1>9
  <1> QED
    BY <1>5, <1>10

\* The types of the handlers' and the writer's state.
THEOREM TypeCorrect == Spec => []TypeOK
  BY Invariance, PTL DEF IInv

\* MERGE of an upsert or a delete (storage, merge_upserts and merge_deletes):
\* no row that was committed before it is left behind, for any chunking.
THEOREM MergesComplete == Spec => []MergesReachCommitted
  BY Invariance, PTL DEF IInv

\* write_suppression_idempotent under retries, disconnections and restarts: one
\* row for an outcome, and an acknowledged one is there.
THEOREM OutcomesStoredOnce == Spec => []SuppressionOnce
  BY Invariance, PTL DEF IInv

\* refresh_wide_view: a column for each stored feature of the family.
THEOREM WideViewsCover == Spec => []WideViewCovers
  BY Invariance, PTL DEF IInv

\* get_export and presign::verify: a caller gets rows of its own tenant, under
\* a token its tenant was given in time.
THEOREM ExportsOwned == Spec => []ExportOwned
  BY Invariance, PTL DEF IInv

\* put_catalog and IntentRag::retrieve: an edit that saw every entry of its
\* column is in every answer with room for all columns.
THEOREM EditsWin == Spec => EditWins
  <1> DEFINE Wins == \A c \in Callers :
               LET t == Tenant(c)  new == calls[c].req.arg
               IN  /\ calls[c].req.kind = "edit" /\ calls[c].pc = "write" /\ calls'[c].pc = "done"
                   /\ calls[c].data.saw = Entries(cat, t, new.column)
                   => \A H \in retrieve(cat', t, Len(Columns) + 1) :
                        \E e \in H : e.column = new.column /\ e.text = new.text
  <1>1. ASSUME IInv, [Next]_vars PROVE Wins
    <2> SUFFICES ASSUME NEW c \in Callers,
                        calls[c].req.kind = "edit", calls[c].pc = "write", calls'[c].pc = "done",
                        calls[c].data.saw = Entries(cat, Tenant(c), calls[c].req.arg.column),
                        NEW H \in retrieve(cat', Tenant(c), Len(Columns) + 1)
                 PROVE  \E e \in H : e.column = calls[c].req.arg.column /\ e.text = calls[c].req.arg.text
      OBVIOUS
    <2> DEFINE t == Tenant(c)
               col == calls[c].req.arg.column
    <2>1. PICK row \in cat'.entries :
            /\ cat'.entries = cat.entries \cup {row}
            /\ row.column = col /\ row.text = calls[c].req.arg.text
            /\ row.tenant = t /\ row.epoch \in Nat /\ row.epoch > calls[c].data.epoch
      BY <1>1, EditServed
    <2>2. Seen(calls[c].req, calls[c].data)
      BY <1>1 DEF IInv, EditsAhead
    <2> HIDE DEF t
    <2>3. \A x \in cat.entries : x.tenant = t /\ x.column = col => x.epoch \in Nat /\ x.epoch < row.epoch
      BY <2>1, <2>2 DEF Entries, Seen, t
    <2>4. Newest(cat', col, t) \subseteq {row}
      <3> SUFFICES ASSUME NEW x \in Newest(cat', col, t), x # row PROVE FALSE
        OBVIOUS
      <3>1. x \in cat.entries /\ x.tenant = t /\ x.column = col
        BY <2>1 DEF Newest
      <3>2. row.epoch <= x.epoch
        BY <2>1 DEF Newest
      <3> QED
        BY <2>1, <2>3, <3>1, <3>2
    <2>5. IInv'
      BY <1>1, NextIInv
    <2>6. IsFiniteSet(cat'.entries) /\ \A e \in cat'.entries : e.column \in Named
      BY <2>5 DEF IInv, EntriesNamed
    <2>7. PICK e \in H : e.column = row.column /\ e \in Newest(cat', row.column, t)
      BY <2>1, <2>6, RetrieveAll DEF t
    <2>8. e = row
      BY <2>1, <2>4, <2>7
    <2> QED
      BY <2>1, <2>8
  <1>2. EditWins <=> [][Wins]_vars
    BY DEF EditWins
  <1> QED
    BY <1>1, <1>2, Invariance, PTL DEF Spec
=============================================================================
