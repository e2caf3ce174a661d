------------------------------ MODULE RowLife -------------------------------
(***************************************************************************)
(* What the ingestion actor promises of a row, without saying how: once it *)
(* was taken it is held in memory or stored, it is stored once, and it     *)
(* goes for good, with the batch whose commit failed, by a delete of its   *)
(* own tenant, under a newly merged row of its table, or with everything   *)
(* in memory when the process ends.  The rows a step brings in, and those  *)
(* a delete removes, are of one tenant and one table.                      *)
(***************************************************************************)
CONSTANT Row     \* records with fields tenant, table and cols, among others

VARIABLE life    \* life[r]: unsent, held, stored or lost

Uniform(R) ==
    \A r, q \in R : r.tenant = q.tenant /\ r.table = q.table /\ r.cols = q.cols

In(state) == {r \in Row : life[r] = state}

Init == life = [r \in Row |-> "unsent"]

\* The rows of a step, and where it may take them.
Moved == {r \in Row : life'[r] # life[r]}
Moves(from, to) == \A r \in Moved : life[r] \in from /\ life'[r] \in to

\* The rows of a command are taken into the buffer and acknowledged.
Hold == Moves({"unsent"}, {"held"}) /\ Uniform(Moved)

\* A call of the writer for rows that were held or are new: they are stored, or
\* the call failed and what it had not stored is lost.
Store == Moves({"unsent", "held"}, {"stored", "lost"}) /\ Uniform(Moved)

\* A delete removes rows of one tenant from one table.
Remove ==
    /\ Moves({"stored"}, {"lost"})
    /\ \A r, q \in Moved : r.tenant = q.tenant /\ r.table = q.table

\* An upsert: new rows of one kind are stored or lost, and stored rows of their
\* table, of whatever tenant, are lost under them.
Merge ==
    LET new == {r \in Moved : life[r] = "unsent"}
    IN  /\ Moves({"unsent", "stored"}, {"stored", "lost"})
        /\ new # {} /\ Uniform(new)
        /\ \A r, q \in Moved : r.table = q.table

\* The process ends: all that was held is lost, nothing that was stored.
End == Moves({"held"}, {"lost"}) /\ Moved = In("held")

Next ==
    /\ life' \in [Row -> {"unsent", "held", "stored", "lost"}]
    /\ Hold \/ Store \/ Remove \/ Merge \/ End

Spec == Init /\ [][Next]_life
=============================================================================
