---------------------------- MODULE MCVaultRows ----------------------------
(* A vault with two discs (one with two items), served with any order of requests. *)
EXTENDS VaultRows, TLC

CONSTANTS phone, d1, d2, i1, i2, MaxHead

MCTableOf == [r \in Row |-> IF r \in {d1, d2} THEN "disc" ELSE "disc_item"]
MCParent == [r \in Row |-> IF r \in {i1, i2} THEN d1 ELSE None]

\* Each outbox id is one edit of one row; only its base version changes between sends.
EditOf == 1 :> [row |-> d1, op |-> "upsert", fields |-> {"notes"}, full |-> FALSE]
       @@ 2 :> [row |-> i1, op |-> "upsert", fields |-> {"notes", "title"}, full |-> TRUE]
       @@ 3 :> [row |-> d1, op |-> "delete", fields |-> {}, full |-> FALSE]
       @@ 4 :> [row |-> i1, op |-> "upsert", fields |-> {"title"}, full |-> FALSE]
       @@ 5 :> [row |-> d2, op |-> "upsert", fields |-> {"notes"}, full |-> FALSE]
       @@ 6 :> [row |-> i2, op |-> "upsert", fields |-> {"notes", "title"}, full |-> TRUE]

\* The second entry of a request of two: a create and its child, a delete and a late edit
\* of the child, two discs at the disc limit.
Follows == 1 :> {2, 5} @@ 2 :> {} @@ 3 :> {4, 5} @@ 4 :> {3} @@ 5 :> {} @@ 6 :> {3}

\* The base is that of a device that never saw the row, saw its first state or its last.
Sendable ==
  {[id |-> i, row |-> EditOf[i].row, op |-> EditOf[i].op, fields |-> EditOf[i].fields,
    full |-> EditOf[i].full, base |-> b] : i \in EntryId, b \in 0..MaxHead}

Plausible(e) == e.base \in {0, 1, row[e.row].version}

Requests ==
  LET S == {e \in Sendable : Plausible(e)}
  IN {<<e>> : e \in S} \cup {p \in S \X S : p[2].id \in Follows[p[1].id]}

MCNext ==
  \/ /\ head < MaxHead
     /\ \E d \in Device, entries \in Requests : PushBegin(d, entries)
  \/ ServerStep

MCSpec == Init /\ [][MCNext]_vars
============================================================================
