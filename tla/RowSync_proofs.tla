--------------------------- MODULE RowSync_proofs ---------------------------
(***************************************************************************)
(* Proofs about the row channel end to end.  Pulling and pushing have an   *)
(* invariant each: PullInv says what a page that is on its way may be,     *)
(* PushInv follows every edit from the outbox through requests, late ones  *)
(* included, to the change log.  Both rest on SyncTyped and on the proofs  *)
(* about the vault, whose steps the vault's part of SyncNext takes.        *)
(***************************************************************************)
EXTENDS RowSync, VaultRows_proofs
----------------------------------------------------------------------------
\* What the answer to GET /sync/changes may be, and a run of the engine.
PageRec == [changes: UNION {[S -> RowState] : S \in SUBSET Row},
            hasMore: BOOLEAN, head: Nat, next: Nat]
Run == [phase: Phase, results: Seq(Result), page: {<<>>} \cup PageRec]

SyncTyped ==
  /\ Bounded
  /\ SyncTypeOK
  /\ outbox \in [Device -> Seq(OutboxRow)]
  /\ sync \in [Device -> Run]
  /\ \A d \in Device : /\ sync[d].phase = "apply" => sync[d].page \in PageRec
                       /\ sync[d].phase # "handle" => sync[d].results = <<>>

(***************************************************************************)
(* Pulling.  A page that waits to be applied is not behind last_seq, and a *)
(* row that was written up to its end is on the page as the vault has it,  *)
(* or on the device already.                                               *)
(***************************************************************************)
PageSound(d) ==
  LET p == sync[d].page
  IN /\ lastSeq[d] <= p.next /\ p.next <= head
     /\ \A r \in DOMAIN p.changes : p.changes[r].version <= row[r].version
     /\ \A r \in Row : Exists(r) /\ row[r].version <= p.next =>
          \/ local[d][r].version = row[r].version
          \/ r \in DOMAIN p.changes /\ p.changes[r].version = row[r].version

PullInv ==
  /\ PulledIsCurrent
  /\ \A d \in Device : lastSeq[d] <= head
  /\ \A d \in Device : sync[d].phase = "apply" => PageSound(d)

(***************************************************************************)
(* Pushing.  Entries are known by their ids: who queues them, who has them *)
(* on the way to the vault, who is told of them.                           *)
(***************************************************************************)
Known(e) == e.id \in DOMAIN made /\ made[e.id].row = e.row /\ made[e.id].op = e.op

\* The edit has taken effect at the vault, or deletes a row the vault deleted.
Done(i) ==
  \/ \E l \in log : l.entry = i
  \/ made[i].op = "delete" /\ \E l \in log : l.row = made[i].row /\ l.op = "delete"

Acked(x) == x.status \in {"applied", "duplicate"}

Waits(d, i) == \E n \in DOMAIN outbox[d] : outbox[d][n].id = i /\ ~outbox[d][n].blocked
Blocked(d, i) == \E n \in DOMAIN outbox[d] : outbox[d][n].id = i /\ outbox[d][n].blocked

\* Entry i of a request of d has yet to be served; the answer to it has yet to be handled.
Flies(d, i) ==
  \/ \E m \in inflight : m.device = d /\ \E n \in DOMAIN m.entries : m.entries[n].id = i
  \/ job.device = d /\ \E n \in DOMAIN job.todo : job.todo[n].id = i
Told(d, i) ==
  \/ \E n \in DOMAIN sync[d].results : sync[d].results[n].id = i
  \/ job.device = d /\ \E n \in DOMAIN job.results : job.results[n].id = i
Wrote(d, i) == \E l \in log : l.device = d /\ l.entry = i

\* Device d will handle an answer about entry i.
Awaits(d, i) ==
  \/ \E m \in inflight : /\ m.device = d /\ m.awaited
                         /\ \E n \in DOMAIN m.entries : m.entries[n].id = i
  \/ /\ answered /\ job.device = d
     /\ \/ \E n \in DOMAIN job.todo : job.todo[n].id = i
        \/ \E n \in DOMAIN job.results : job.results[n].id = i
  \/ \E n \in DOMAIN sync[d].results : sync[d].results[n].id = i

\* Every record of an edit says the same of it.
Consistent ==
  /\ \A i \in DOMAIN made : made[i].id = i
  /\ \A d \in Device : \A n \in DOMAIN outbox[d] : Known(outbox[d][n])
  /\ \A m \in inflight : \A n \in DOMAIN m.entries : Known(m.entries[n])
  /\ \A n \in DOMAIN job.todo : Known(job.todo[n])
  /\ \A l \in log : l.entry # None => l.entry \in DOMAIN made /\ made[l.entry].row = l.row

\* What an answer says is so, and of an edit of the row it names.
Truthful(x) == x.id \in DOMAIN made /\ made[x.id].row = x.row /\ (Acked(x) => Done(x.id))

AnswersTrue ==
  /\ \A n \in DOMAIN job.results : Truthful(job.results[n])
  /\ \A d \in Device : \A n \in DOMAIN sync[d].results : Truthful(sync[d].results[n])

\* An outbox is in the order of its ids, and no two devices queue one edit.
BoxesOrdered ==
  /\ \A d \in Device : \A m, n \in DOMAIN outbox[d] :
       m < n => outbox[d][m].id < outbox[d][n].id
  /\ \A c, d \in Device : \A m \in DOMAIN outbox[c], n \in DOMAIN outbox[d] :
       outbox[c][m].id = outbox[d][n].id => c = d

\* A device waits for one answer at most, and only while it is pushing.
OneRequest ==
  /\ \A m \in inflight : m.awaited => sync[m.device].phase = "pushing"
  /\ \A m, k \in inflight : m.awaited /\ k.awaited /\ m.device = k.device => m = k
  /\ answered => /\ job # Idle /\ sync[job.device].phase = "pushing"
                 /\ \A m \in inflight : m.device = job.device => ~m.awaited

\* Only the answer to come sets an entry aside.
AwaitedUnblocked == \A d \in Device : \A i : Awaits(d, i) => ~Blocked(d, i)

\* A request is forgotten by its device only with its edits settled or given up.
FlyingKept ==
  \A d \in Device : \A i \in DOMAIN made :
    Flies(d, i) => Waits(d, i) \/ ~Standing(i) \/ Done(i)

\* No later edit of the row is under way or written while an edit still waits.
InTurn ==
  \A d \in Device : \A i, j \in DOMAIN made :
    /\ Waits(d, i) /\ made[i].row = made[j].row
    /\ Flies(d, j) \/ Told(d, j) \/ Wrote(d, j)
    => j <= i

\* An edit that arrives after a later one of its row is a copy.
LateIsCopy ==
  \A d \in Device : \A i \in DOMAIN made : \A l \in log :
    /\ Flies(d, i)
    /\ l.device = d /\ l.entry # None /\ l.row = made[i].row /\ i < l.entry
    => ~Standing(i) \/ (\E k \in log : k.entry = i) \/ FoundDeleted(i, l.seq)

\* The records of edits agree, and so do the answers; outboxes, edits under way and the log
\* fit together.
Recorded == Consistent /\ AnswersTrue /\ OneRequest
Delivering ==
  /\ BoxesOrdered /\ AwaitedUnblocked
  /\ NoEditLost /\ FlyingKept /\ InTurn /\ LateIsCopy /\ OrderKept

PushInv == RowsReplayLog /\ pruned = 0 /\ aged = 0 /\ Recorded /\ Delivering
----------------------------------------------------------------------------
(***************************************************************************)
(* The outbox: what a batch takes from it and what an answer leaves of it. *)
(***************************************************************************)
\* box is what is left of old when the answers rs are handled.
Settles(old, rs, box) ==
  \E at \in [DOMAIN box -> DOMAIN old] :
    /\ \A k, l \in DOMAIN box : k < l => at[k] < at[l]
    /\ \A k \in DOMAIN box :
         LET e == old[at[k]]
         IN /\ box[k].id = e.id /\ box[k].row = e.row /\ box[k].op = e.op
            /\ box[k].fields = e.fields
            /\ box[k].blocked <=>
                 e.blocked \/ \E x \in rs : x.status \in {"conflict", "rejected"} /\ x.id = e.id
            /\ \A x \in rs : Acked(x) => x.id # e.id
    /\ \A m \in DOMAIN old :
         (\A x \in rs : Acked(x) => x.id # old[m].id) => \E k \in DOMAIN box : at[k] = m

\* handleResult settles an outbox in the sense of Settles.
LEMMA SettledOf ==
  ASSUME NEW d \in Device, outbox \in [Device -> Seq(OutboxRow)], NEW rs \in SUBSET Result
  PROVE  /\ Settled(d, rs) \in Seq(OutboxRow)
         /\ Settles(outbox[d], rs, Settled(d, rs))
<1>. DEFINE old == outbox[d]
            acked == {x \in rs : x.status \in {"applied", "duplicate"}}
            refused == {x.id : x \in {y \in rs : y.status \in {"conflict", "rejected"}}}
            after(e) ==
              [e EXCEPT !.blocked = @ \/ e.id \in refused,
                        !.base = IF \E x \in acked : x.row = e.row /\ @ < x.version
                                 THEN (CHOOSE x \in acked : x.row = e.row).version ELSE @]
            waits == {n \in DOMAIN outbox[d] : \A x \in acked : x.id # outbox[d][n].id}
            kept == Kept(outbox[d], waits)
            box == [n \in DOMAIN kept |-> after(kept[n])]
<1>1. Settled(d, rs) = box
  BY DEF Settled
<1>2. old \in Seq(OutboxRow) /\ waits \subseteq DOMAIN old
  OBVIOUS
<1>3. ASSUME NEW e \in OutboxRow
      PROVE  /\ after(e) \in OutboxRow
             /\ after(e).id = e.id /\ after(e).row = e.row /\ after(e).op = e.op
             /\ after(e).fields = e.fields
             /\ after(e).blocked <=> (e.blocked \/ e.id \in refused)
  <2>. DEFINE b == IF \E x \in acked : x.row = e.row /\ e.base < x.version
                   THEN (CHOOSE x \in acked : x.row = e.row).version ELSE e.base
  <2>1. b \in Nat
    <3>1. CASE \E x \in acked : x.row = e.row
      <4>1. (CHOOSE x \in acked : x.row = e.row) \in Result
        BY <3>1
      <4>. QED
        BY <4>1 DEF Result, OutboxRow
    <3>2. CASE ~ \E x \in acked : x.row = e.row
      BY <3>2 DEF OutboxRow
    <3>. QED
      BY <3>1, <3>2
  <2>2. (e.blocked \/ e.id \in refused) \in BOOLEAN
    OBVIOUS
  <2>3. after(e) = [e EXCEPT !.blocked = e.blocked \/ e.id \in refused, !.base = b]
    OBVIOUS
  <2>. HIDE DEF b, after, refused, acked
  <2>. QED
    BY <2>1, <2>2, <2>3 DEF OutboxRow
<1>. DEFINE n == Cardinality(waits)
<1>4. PICK at \in [1..n -> waits] :
        /\ \A i \in waits : \E k \in 1..n : at[k] = i
        /\ \A k, l \in 1..n : k < l => at[k] < at[l]
        /\ kept = [k \in 1..n |-> old[at[k]]]
        /\ kept \in Seq(OutboxRow)
        /\ Len(kept) = n
  <2>. HIDE DEF waits
  <2>. QED
    BY <1>2, KeptOf
<1>5. DOMAIN kept = 1..n /\ DOMAIN box = 1..n /\ \A k \in 1..n : box[k] = after(old[at[k]])
  <2>1. DOMAIN kept = 1..n /\ \A k \in 1..n : kept[k] = old[at[k]]
    BY <1>4
  <2>. HIDE DEF kept, after, n, old
  <2>. QED
    BY <2>1
<1>6. n \in Nat
  BY <1>4
<1>7. \A k \in 1..n : at[k] \in waits /\ at[k] \in DOMAIN old /\ old[at[k]] \in OutboxRow
  BY <1>2, <1>4
<1>. HIDE DEF after, kept, n
<1>8. box \in Seq(OutboxRow)
  <2>1. \A k \in 1..n : box[k] \in OutboxRow
    BY <1>3, <1>5, <1>7
  <2>. QED
    BY <1>5, <1>6, <2>1
<1>9. at \in [DOMAIN box -> DOMAIN old]
  BY <1>4, <1>5, <1>7
<1>10. ASSUME NEW k \in DOMAIN box
       PROVE  LET e == old[at[k]]
              IN /\ box[k].id = e.id /\ box[k].row = e.row /\ box[k].op = e.op
                 /\ box[k].fields = e.fields
                 /\ box[k].blocked <=>
                      e.blocked \/ \E x \in rs : x.status \in {"conflict", "rejected"} /\ x.id = e.id
                 /\ \A x \in rs : Acked(x) => x.id # e.id
  <2>1. k \in 1..n
    BY <1>5
  <2>2. box[k] = after(old[at[k]]) /\ at[k] \in waits /\ old[at[k]] \in OutboxRow
    BY <1>5, <1>7, <2>1
  <2>3. \A x \in rs : Acked(x) => x.id # old[at[k]].id
    BY <2>2 DEF Acked
  <2>4. old[at[k]].id \in refused
          <=> \E x \in rs : x.status \in {"conflict", "rejected"} /\ x.id = old[at[k]].id
    OBVIOUS
  <2>. HIDE DEF refused, box
  <2>. QED
    BY <1>3, <2>2, <2>3, <2>4
<1>11. ASSUME NEW m \in DOMAIN old, \A x \in rs : Acked(x) => x.id # old[m].id
       PROVE  \E k \in DOMAIN box : at[k] = m
  <2>1. m \in waits
    BY <1>11 DEF Acked
  <2>. QED
    BY <1>4, <1>5, <2>1
<1>12. \A k, l \in DOMAIN box : k < l => at[k] < at[l]
  BY <1>4, <1>5
<1>. HIDE DEF box, old
<1>13. Settles(old, rs, box)
  BY <1>9, <1>10, <1>11, <1>12 DEF Settles
<1>. QED
  BY <1>1, <1>8, <1>13 DEF old

\* batch takes waiting entries of box, and of a row the first one only.
TakenFirst(box, batch) ==
  \A n \in DOMAIN batch :
    \E m \in DOMAIN box :
      /\ batch[n] = box[m] /\ ~box[m].blocked
      /\ \A k \in DOMAIN box : ~box[k].blocked /\ box[k].row = box[m].row => m <= k

\* nextBatch takes the waiting entries that come first of their rows.
LEMMA BatchOf ==
  ASSUME NEW box \in Seq(OutboxRow)
  PROVE  /\ NextBatch(box) \in Seq(OutboxRow)
         /\ TakenFirst(box, NextBatch(box))
<1>. DEFINE I == {n \in DOMAIN box : ~box[n].blocked}
            c == Cardinality(I)
            p == PendingOf(box)
            fits(n) == \A i, j \in 1..n : i # j => p[i].row # p[j].row
            sizes == {n \in 0..BatchSize : n <= Len(p) /\ fits(n)}
            size == CHOOSE n \in sizes : \A m \in sizes : m <= n
<1>1. NextBatch(box) = SubSeq(p, 1, size)
  BY DEF NextBatch
<1>2. PICK at \in [1..c -> I] :
        /\ \A i \in I : \E k \in 1..c : at[k] = i
        /\ \A k, l \in 1..c : k < l => at[k] < at[l]
        /\ p = [k \in 1..c |-> box[at[k]]]
        /\ p \in Seq(OutboxRow)
        /\ Len(p) = c
  <2>1. I \subseteq DOMAIN box
    OBVIOUS
  <2>. HIDE DEF I
  <2>. QED
    BY <2>1, KeptOf DEF PendingOf, I
<1>. HIDE DEF p
<1>3. c \in Nat /\ BatchSize \in Nat
  <2>1. c \in Nat
    <3>1. I \subseteq DOMAIN box
      OBVIOUS
    <3>. HIDE DEF I
    <3>. QED
      BY <3>1, KeptOf
  <2>. QED
    BY <2>1, SyncAssumption
<1>. HIDE DEF c
<1>4. size \in sizes
  <2>1. 0 \in sizes /\ sizes \subseteq 0..BatchSize
    BY <1>2, <1>3
  <2>. HIDE DEF sizes
  <2>2. \E n \in sizes : \A m \in sizes : m <= n
    BY <1>3, <2>1, GreatestNat
  <2>. QED
    BY <2>2
<1>. HIDE DEF size
<1>5. size \in Nat /\ size <= c /\ fits(size)
  <2>1. size \in 0..BatchSize /\ size <= Len(p) /\ fits(size)
    BY <1>4
  <2>2. size \in Nat
    BY <1>3, <2>1
  <2>. HIDE DEF fits
  <2>3. size <= c
    BY <1>2, <2>1
  <2>. QED
    BY <2>1, <2>2, <2>3
<1>. HIDE DEF sizes
<1>6. SubSeq(p, 1, size) \in Seq(OutboxRow) /\ DOMAIN SubSeq(p, 1, size) = 1..size
      /\ \A n \in 1..size : SubSeq(p, 1, size)[n] = p[n]
  BY <1>2, <1>3, <1>5
<1>7. ASSUME NEW n \in 1..size
      PROVE  \E m \in DOMAIN box :
               /\ p[n] = box[m] /\ ~box[m].blocked
               /\ \A k \in DOMAIN box : ~box[k].blocked /\ box[k].row = box[m].row => m <= k
  <2>1. n \in 1..c /\ at[n] \in I /\ p[n] = box[at[n]]
    BY <1>2, <1>3, <1>5
  <2>2. ASSUME NEW k \in DOMAIN box, ~box[k].blocked, box[k].row = box[at[n]].row
        PROVE  at[n] <= k
    <3>1. k \in I
      BY <2>2
    <3>2. PICK l \in 1..c : at[l] = k
      BY <1>2, <3>1
    <3>3. p[l] = box[k]
      BY <1>2, <3>2
    <3>4. l >= n
      <4>1. SUFFICES ASSUME l < n PROVE FALSE
        BY <1>3, <2>1
      <4>2. l \in 1..size /\ n \in 1..size /\ l # n
        BY <1>3, <1>5, <4>1
      <4>. QED
        BY <1>5, <2>1, <2>2, <3>3, <4>2
    <3>5. at[l] >= at[n]
      <4>1. at[l] \in Nat /\ at[n] \in Nat
        BY <2>1, <3>1, <3>2
      <4>2. l = n \/ n < l
        BY <1>3, <2>1, <3>4
      <4>. QED
        BY <1>2, <2>1, <4>1, <4>2
    <3>. QED
      BY <3>2, <3>5
  <2>3. at[n] \in DOMAIN box /\ ~box[at[n]].blocked
    BY <2>1
  <2>. QED
    BY <2>1, <2>2, <2>3
<1>. QED
  BY <1>1, <1>6, <1>7 DEF TakenFirst
----------------------------------------------------------------------------
(***************************************************************************)
(* What the actions do, in the terms of the invariants, and their types.   *)
(***************************************************************************)
\* new is what the entries make of the row r that was old: it is there, and deleted if an entry
\* deletes it; no delete brings a row about.
Touched(new, old, r, entries) ==
  /\ new.exists
  /\ \E n \in DOMAIN entries : /\ entries[n].row = r
                               /\ new.deleted <=> entries[n].op = "delete"
                               /\ old.exists \/ entries[n].op = "upsert"

\* A user operation of d queues entries that follow the ones ever made; the tables show what
\* they write at once, and no version moves.
Edits(d, entries) ==
  /\ job = Idle
  /\ entries \in Seq(OutboxRow) /\ entries # <<>>
  /\ Len(made) + Len(entries) <= MaxEdits
  /\ \A n \in DOMAIN entries : entries[n].id = Len(made) + n /\ ~entries[n].blocked
  /\ outbox' = [outbox EXCEPT ![d] = @ \o entries]
  /\ made' = made \o entries
  /\ \E mine \in [Row -> LocalRow] :
       /\ local' = [local EXCEPT ![d] = mine]
       /\ \A r \in Row : mine[r].version = local[d][r].version
       /\ \A r \in Row : mine[r] = local[d][r] \/ Touched(mine[r], local[d][r], r, entries)
       /\ \A r \in Row, f \in Field :
            \/ mine[r].val[f] = local[d][r].val[f]
            \/ \E n \in DOMAIN entries : entries[n].row = r /\ f \in entries[n].fields
       /\ \A n \in DOMAIN entries : \A f \in entries[n].fields :
            mine[entries[n].row].val[f] = entries[n].id
  /\ \A n \in DOMAIN entries : entries[n].op = "delete" => entries[n].fields = {}
  /\ EditUnchanged

\* A new entry is an outbox row under a fresh id.
LEMMA NewEntryTyped ==
  ASSUME SyncTyped, NEW d \in Device, NEW n \in Nat \ {0}, NEW r \in Row,
         NEW op \in {"upsert", "delete"}, NEW F \in SUBSET Field, NEW full \in BOOLEAN,
         Len(made) + n <= MaxEdits
  PROVE  /\ NewEntry(d, n, r, op, F, full) \in OutboxRow
         /\ NewEntry(d, n, r, op, F, full).id = Len(made) + n
         /\ ~NewEntry(d, n, r, op, F, full).blocked
<1>1. Len(made) \in Nat /\ local[d][r] \in LocalRow
  BY DEF SyncTyped, SyncTypeOK
<1>2. Len(made) + n \in EntryId
  BY <1>1, SyncAssumption
<1>3. local[d][r].version \in Nat
  BY <1>1 DEF LocalRow
<1>. QED
  BY <1>2, <1>3 DEF NewEntry, OutboxRow

\* writeRow is a user operation with one entry.
LEMMA WriteRowIs ==
  ASSUME SyncTyped, NEW d \in Device, NEW r \in Row, NEW F \in SUBSET Field,
         NEW full \in BOOLEAN, WriteRow(d, r, F, full)
  PROVE  Edits(d, <<NewEntry(d, 1, r, "upsert", F, full)>>)
<1>. DEFINE e == NewEntry(d, 1, r, "upsert", F, full)
            new == [exists |-> TRUE, version |-> local[d][r].version, deleted |-> FALSE,
                    val |-> [f \in Field |-> IF f \in F THEN Len(made) + 1
                                             ELSE local[d][r].val[f]]]
            mine == [local[d] EXCEPT ![r] = new]
<1>1. /\ Enqueue(d, <<e>>)
      /\ EditUnchanged
      /\ local' = [local EXCEPT ![d][r] =
           [exists |-> TRUE, version |-> @.version, deleted |-> FALSE,
            val |-> [f \in Field |-> IF f \in F THEN Len(made) + 1 ELSE @.val[f]]]]
  BY DEF WriteRow
<1>2. /\ local \in [Device -> [Row -> LocalRow]] /\ local[d][r] \in LocalRow
      /\ Len(made) \in Nat
  BY DEF SyncTyped, SyncTypeOK
<1>3. Len(made) + 1 <= MaxEdits /\ job = Idle
      /\ outbox' = [outbox EXCEPT ![d] = @ \o <<e>>] /\ made' = made \o <<e>>
  BY <1>1 DEF Enqueue
<1>4. e \in OutboxRow /\ e.id = Len(made) + 1 /\ ~e.blocked
  BY <1>3, NewEntryTyped
<1>14. e.row = r /\ e.op = "upsert" /\ e.fields = F
  BY DEF NewEntry
<1>5. Len(made) + 1 \in Value /\ \A f \in Field : local[d][r].val[f] \in Value
  BY <1>2, <1>3, SyncAssumption DEF LocalRow, Value
<1>6. new \in LocalRow /\ new.version = local[d][r].version
  BY <1>2, <1>5 DEF LocalRow
<1>7. mine \in [Row -> LocalRow] /\ \A q \in Row : mine[q].version = local[d][q].version
  <2>. HIDE DEF new
  <2>. QED
    BY <1>2, <1>6
<1>8. local' = [local EXCEPT ![d] = mine]
  BY <1>1, <1>2
<1>15. /\ mine[r].exists /\ ~mine[r].deleted
       /\ \A q \in Row : q # r => mine[q] = local[d][q]
  BY <1>2
<1>9. /\ \A f \in F : mine[r].val[f] = Len(made) + 1
      /\ \A q \in Row, f \in Field : mine[q].val[f] = local[d][q].val[f] \/ (q = r /\ f \in F)
  BY <1>2
<1>. HIDE DEF e, mine, new
<1>10. <<e>> \in Seq(OutboxRow) /\ <<e>> # <<>> /\ Len(<<e>>) = 1
      /\ \A n \in DOMAIN <<e>> : <<e>>[n].id = Len(made) + n /\ ~<<e>>[n].blocked
  BY <1>4
<1>11. DOMAIN <<e>> = {1} /\ <<e>>[1] = e
  OBVIOUS
<1>. DEFINE es == <<e>>
<1>12. /\ \A q \in Row, f \in Field :
            \/ mine[q].val[f] = local[d][q].val[f]
            \/ \E n \in DOMAIN es : es[n].row = q /\ f \in es[n].fields
       /\ \A n \in DOMAIN es : \A f \in es[n].fields : mine[es[n].row].val[f] = es[n].id
       /\ \A n \in DOMAIN es : es[n].op = "delete" => es[n].fields = {}
       /\ \A q \in Row : mine[q] = local[d][q] \/ Touched(mine[q], local[d][q], q, es)
  <2>. HIDE DEF es
  <2>1. DOMAIN es = {1} /\ es[1] = e
    BY <1>11 DEF es
  <2>2. e.op # "delete" /\ e.row = r /\ e.fields = F
    BY <1>14
  <2>3. ASSUME NEW q \in Row, NEW f \in Field, mine[q].val[f] # local[d][q].val[f]
        PROVE  \E n \in DOMAIN es : es[n].row = q /\ f \in es[n].fields
    <3>1. q = r /\ f \in F
      BY <1>9, <2>3
    <3>. QED
      BY <2>1, <2>2, <3>1
  <2>4. ASSUME NEW n \in DOMAIN es
        PROVE  /\ \A f \in es[n].fields : mine[es[n].row].val[f] = es[n].id
               /\ es[n].op = "delete" => es[n].fields = {}
    <3>1. es[n] = e
      BY <2>1
    <3>. QED
      BY <1>4, <1>9, <2>2, <3>1
  <2>5. ASSUME NEW q \in Row
        PROVE  mine[q] = local[d][q] \/ Touched(mine[q], local[d][q], q, es)
    BY <1>14, <1>15, <2>1 DEF Touched
  <2>. QED
    BY <2>3, <2>4, <2>5
<1>13. Edits(d, <<e>>)
  BY <1>1, <1>3, <1>7, <1>8, <1>10, <1>12 DEF Edits
<1>. QED
  BY <1>13 DEF e

\* deleteRow of some rows is a user operation with an entry for each.
LEMMA DeleteRowsIs ==
  ASSUME SyncTyped, NEW d \in Device, NEW rows \in Seq(Row), rows # <<>>, DeleteRows(d, rows),
         \A n \in DOMAIN rows : local[d][rows[n]].exists
  PROVE  Edits(d, [n \in DOMAIN rows |-> NewEntry(d, n, rows[n], "delete", {}, FALSE)])
<1>. DEFINE es == [n \in DOMAIN rows |-> NewEntry(d, n, rows[n], "delete", {}, FALSE)]
            mine == [r \in Row |-> IF \E n \in DOMAIN rows : rows[n] = r
                                   THEN [local[d][r] EXCEPT !.deleted = TRUE]
                                   ELSE local[d][r]]
<1>1. /\ Enqueue(d, es)
      /\ EditUnchanged
      /\ local' = [local EXCEPT ![d] = mine]
  BY DEF DeleteRows
<1>2. /\ local[d] \in [Row -> LocalRow] /\ Len(made) \in Nat
      /\ DOMAIN rows = 1..Len(rows) /\ Len(rows) \in Nat /\ Len(rows) > 0
  BY DEF SyncTyped, SyncTypeOK
<1>3. Len(es) = Len(rows) /\ DOMAIN es = 1..Len(rows)
  BY <1>2
<1>4. Len(made) + Len(rows) <= MaxEdits /\ job = Idle
      /\ outbox' = [outbox EXCEPT ![d] = @ \o es] /\ made' = made \o es
  BY <1>1, <1>3 DEF Enqueue
<1>5. ASSUME NEW n \in 1..Len(rows)
      PROVE  /\ es[n] \in OutboxRow /\ es[n].id = Len(made) + n /\ ~es[n].blocked
             /\ es[n].fields = {} /\ es[n].row = rows[n] /\ es[n].op = "delete"
  <2>1. n \in Nat \ {0} /\ rows[n] \in Row /\ Len(made) + n <= MaxEdits
    BY <1>2, <1>4, SyncAssumption
  <2>2. es[n] = NewEntry(d, n, rows[n], "delete", {}, FALSE)
    BY <1>2
  <2>3. "delete" \in {"upsert", "delete"} /\ {} \in SUBSET Field /\ FALSE \in BOOLEAN
    OBVIOUS
  <2>. HIDE DEF es
  <2>. DEFINE x == rows[n]
              e == NewEntry(d, n, x, "delete", {}, FALSE)
  <2>4. x \in Row
    BY <2>1
  <2>. HIDE DEF x
  <2>5. e \in OutboxRow /\ e.id = Len(made) + n /\ ~e.blocked
    BY <2>1, <2>3, <2>4, NewEntryTyped
  <2>6. e.row = x /\ e.op = "delete" /\ e.fields = {}
    BY DEF NewEntry
  <2>. QED
    BY <2>2, <2>5, <2>6 DEF x
<1>6. /\ mine \in [Row -> LocalRow]
      /\ \A r \in Row : mine[r].version = local[d][r].version /\ mine[r].val = local[d][r].val
  <2>1. \A r \in Row : /\ [local[d][r] EXCEPT !.deleted = TRUE] \in LocalRow
                       /\ [local[d][r] EXCEPT !.deleted = TRUE].version = local[d][r].version
                       /\ [local[d][r] EXCEPT !.deleted = TRUE].val = local[d][r].val
    BY <1>2 DEF LocalRow
  <2>. QED
    BY <1>2, <2>1
<1>9. ASSUME NEW r \in Row
      PROVE  mine[r] = local[d][r] \/ Touched(mine[r], local[d][r], r, es)
  <2>. HIDE DEF es
  <2>1. CASE \A n \in DOMAIN rows : rows[n] # r
    BY <2>1
  <2>2. ASSUME NEW n \in DOMAIN rows, rows[n] = r
        PROVE  Touched(mine[r], local[d][r], r, es)
    <3>1. mine[r] = [local[d][r] EXCEPT !.deleted = TRUE] /\ local[d][r] \in LocalRow
      BY <1>2, <2>2
    <3>2. mine[r].deleted /\ mine[r].exists = local[d][r].exists
      BY <3>1 DEF LocalRow
    <3>3. local[d][r].exists
      BY <2>2
    <3>4. es[n].row = r /\ es[n].op = "delete" /\ n \in DOMAIN es
      BY <1>2, <1>3, <1>5, <2>2
    <3>. QED
      BY <3>2, <3>3, <3>4 DEF Touched
  <2>. QED
    BY <2>1, <2>2
<1>. HIDE DEF es, mine
<1>7. es \in Seq(OutboxRow) /\ es # <<>>
  <2>1. es \in [1..Len(rows) -> OutboxRow]
    <3>1. es = [n \in 1..Len(rows) |-> es[n]]
      BY <1>3 DEF es
    <3>. QED
      BY <1>5, <3>1
  <2>. QED
    BY <1>2, <1>3, <2>1
<1>10. /\ \A r \in Row : mine[r] = local[d][r] \/ Touched(mine[r], local[d][r], r, es)
       /\ \A n \in DOMAIN es : es[n].id = Len(made) + n /\ ~es[n].blocked /\ es[n].fields = {}
  BY <1>3, <1>5, <1>9
<1>8. Edits(d, es)
  BY <1>1, <1>3, <1>4, <1>6, <1>7, <1>10 DEF Edits

<1>. QED
  BY <1>8 DEF es

\* Each user operation queues edits or discards one.
LEMMA UserIs ==
  ASSUME SyncTyped, NEW d \in Device, UserStep(d)
  PROVE  (\E entries : Edits(d, entries)) \/ \E n \in DOMAIN outbox[d] : Discard(d, n)
<1>1. ASSUME NEW r \in Row, NEW F \in (SUBSET Field) \ {{}}, EditDisc(d, r, F)
      PROVE  \E entries : Edits(d, entries)
  BY <1>1, WriteRowIs DEF EditDisc
<1>2. ASSUME NEW r \in Row, AddItem(d, r) PROVE \E entries : Edits(d, entries)
  BY <1>2, WriteRowIs DEF AddItem
<1>3. ASSUME NEW r \in Row, NEW f \in Field, EditItem(d, r, f)
      PROVE  \E entries : Edits(d, entries)
  BY <1>3, WriteRowIs DEF EditItem
<1>4. ASSUME NEW r \in Row, RemoveItem(d, r) PROVE \E entries : Edits(d, entries)
  <2>1. <<r>> \in Seq(Row) /\ <<r>> # <<>> /\ DOMAIN <<r>> = {1} /\ <<r>>[1] = r
    OBVIOUS
  <2>. QED
    BY <1>4, <2>1, DeleteRowsIs DEF RemoveItem
<1>5. ASSUME NEW r \in Row, DeleteDisc(d, r) PROVE \E entries : Edits(d, entries)
  <2>. DEFINE items == {c \in Row : Parent[c] = r /\ LocalLive(d, c)}
              n == Cardinality(items)
  <2>1. PICK order \in Bijection(1..n, items) : DeleteRows(d, Append(order, r))
    BY <1>5 DEF DeleteDisc
  <2>2. n \in Nat
    BY RowsAssumption, FS_Subset, FS_CardinalityType
  <2>3. order \in [1..n -> Row]
    BY <2>1 DEF Bijection, Injection
  <2>. HIDE DEF n
  <2>4. order \in Seq(Row)
    BY <2>2, <2>3
  <2>5. r \in Row /\ Append(order, r) \in Seq(Row) /\ Append(order, r) # <<>>
    <3>. HIDE DEF items
    <3>1. Append(order, r) \in Seq(Row) /\ Len(Append(order, r)) = Len(order) + 1
      BY <2>4
    <3>2. Len(order) \in Nat /\ Len(<<>>) = 0
      BY <2>4
    <3>. QED
      BY <3>1, <3>2
  <2>6. \A k \in DOMAIN Append(order, r) : local[d][Append(order, r)[k]].exists
    <3>1. local[d][r].exists /\ \A k \in 1..n : local[d][order[k]].exists
      BY <1>5, <2>1 DEF DeleteDisc, LocalLive, Bijection, Injection
    <3>2. \A k \in DOMAIN Append(order, r) :
            Append(order, r)[k] = r \/ (k \in 1..n /\ Append(order, r)[k] = order[k])
      <4>1. DOMAIN order = 1..n
        BY <2>3
      <4>. HIDE DEF items
      <4>2. Len(order) = n
        BY <2>2, <2>4, <4>1
      <4>. QED
        BY <2>2, <2>4, <2>5, <4>2
    <3>. QED
      BY <3>1, <3>2
  <2>. QED
    BY <2>1, <2>5, <2>6, DeleteRowsIs
<1>6. ASSUME
 NEW n \in 1..Len(outbox[d]), Discard(d, n)
      PROVE  \E k \in DOMAIN outbox[d] : Discard(d, k)
  BY <1>6 DEF Discard
<1>. QED
  BY <1>1, <1>2, <1>3, <1>4, <1>5, <1>6 DEF UserStep

\* What the loop of pushOutbox does with box: a request with first entries of their rows, or
\* no request.
Sends(d, box) ==
  \/ /\ sync' = [sync EXCEPT ![d] = [phase |-> "pushing", results |-> <<>>, page |-> <<>>]]
     /\ \E entries \in Seq(Entry) :
          /\ inflight' = inflight \cup {[device |-> d, entries |-> entries, awaited |-> TRUE]}
          /\ \A n \in DOMAIN entries : \E m \in DOMAIN box :
               /\ entries[n].id = box[m].id /\ entries[n].row = box[m].row
               /\ entries[n].op = box[m].op /\ entries[n].fields = box[m].fields
               /\ ~box[m].blocked
               /\ \A k \in DOMAIN box :
                    ~box[k].blocked /\ box[k].row = box[m].row => m <= k
  \/ /\ \E phase \in {"idle", "pull"} :
          sync' = [sync EXCEPT ![d] = [phase |-> phase, results |-> <<>>, page |-> <<>>]]
     /\ inflight' = inflight

\* A turn of the push loop: d handles the results rs, which leave box, and sends what is next.
Turn(d, rs, box) ==
  /\ job = Idle
  /\ sync[d].phase \in {"idle", "handle"}
  /\ rs \subseteq Range(sync[d].results) /\ rs \subseteq Result
  /\ box \in Seq(OutboxRow) /\ Settles(outbox[d], rs, box)
  /\ outbox' = [outbox EXCEPT ![d] = box]
  /\ Sends(d, box)
  /\ paused' \in [Device -> BOOLEAN] /\ conflicts' \in [Device -> SUBSET EntryId]
  /\ aborts' \in 0..MaxAborts
  /\ UNCHANGED <<vars, answered, local, lastSeq, made, dropped>>

(* A request carries the batch, and the batch is of waiting entries that come first. *)
LEMMA PushNextIs ==
  ASSUME NEW d, NEW box \in Seq(OutboxRow), PushNext(d, box)
  PROVE  Sends(d, box)
<1>. DEFINE batch == NextBatch(box)
            entries == [n \in DOMAIN batch |-> AsPushEntry(batch[n])]
<1>1. batch \in Seq(OutboxRow) /\ TakenFirst(box, batch)
  BY BatchOf
<1>2. CASE batch # <<>>
  <2>1. /\ sync' = [sync EXCEPT ![d] = [phase |-> "pushing", results |-> <<>>, page |-> <<>>]]
        /\ inflight' = inflight \cup {[device |-> d, entries |-> entries, awaited |-> TRUE]}
    BY <1>2 DEF PushNext, Goto, Asleep
  <2>2. DOMAIN batch = 1..Len(batch) /\ Len(batch) \in Nat
        /\ \A n \in DOMAIN batch : batch[n] \in OutboxRow
    BY <1>1
  <2>. HIDE DEF batch
  <2>3. \A n \in DOMAIN batch : AsPushEntry(batch[n]) \in Entry
    BY <2>2 DEF AsPushEntry, OutboxRow, Entry
  <2>4. entries \in [1..Len(batch) -> Entry] /\ DOMAIN entries = DOMAIN batch
    BY <2>2, <2>3
  <2>5. entries \in Seq(Entry)
    BY <2>2, <2>4
  <2>6. \A n \in DOMAIN entries :
          /\ entries[n].id = batch[n].id /\ entries[n].row = batch[n].row
          /\ entries[n].op = batch[n].op /\ entries[n].fields = batch[n].fields
    BY <2>4 DEF AsPushEntry
  <2>. HIDE DEF entries
  <2>7. \A n \in DOMAIN entries : \E m \in DOMAIN box :
          /\ entries[n].id = box[m].id /\ entries[n].row = box[m].row
          /\ entries[n].op = box[m].op /\ entries[n].fields = box[m].fields
          /\ ~box[m].blocked
          /\ \A k \in DOMAIN box : ~box[k].blocked /\ box[k].row = box[m].row => m <= k
    BY <1>1, <2>4, <2>6, SMTT(30) DEF TakenFirst
  <2>. QED
    BY <2>1, <2>5, <2>7 DEF Sends
<1>3. CASE batch = <<>>
  BY <1>3 DEF PushNext, Sends, Goto, Asleep
<1>. QED
  BY <1>2, <1>3

(* Without results a turn leaves the outbox as it was. *)
LEMMA SettlesNothing ==
  ASSUME NEW box \in Seq(OutboxRow)
  PROVE  Settles(box, {}, box)
<1>. DEFINE at == [k \in DOMAIN box |-> k]
<1>1. at \in [DOMAIN box -> DOMAIN box] /\ \A k \in DOMAIN box : at[k] = k
  OBVIOUS
<1>2. \A k \in DOMAIN box : box[k].blocked \in BOOLEAN
  <2>1. \A k \in DOMAIN box : box[k] \in OutboxRow
    OBVIOUS
  <2>. QED
    BY <2>1 DEF OutboxRow
<1>. HIDE DEF at
<1>3. \A k \in DOMAIN box :
        LET e == box[at[k]]
        IN /\ box[k].id = e.id /\ box[k].row = e.row /\ box[k].op = e.op
           /\ box[k].fields = e.fields
           /\ box[k].blocked <=>
                e.blocked \/ \E x \in {} : x.status \in {"conflict", "rejected"} /\ x.id = e.id
           /\ \A x \in {} : Acked(x) => x.id # e.id
  BY <1>1, <1>2
<1>4. \A k, l \in DOMAIN box : k < l => at[k] < at[l]
  BY <1>1
<1>5. \A m \in DOMAIN box : \E k \in DOMAIN box : at[k] = m
  BY <1>1
<1>. QED
  BY <1>1, <1>3, <1>4, <1>5 DEF Settles

(* The engine's steps between an answer and the next request are turns. *)
LEMMA SyncStartIs ==
  ASSUME SyncTyped, NEW d \in Device, SyncStart(d)
  PROVE  \E rs, box : Turn(d, rs, box)
<1>1. outbox[d] \in Seq(OutboxRow) /\ outbox' = [outbox EXCEPT ![d] = outbox[d]]
  BY DEF SyncTyped, SyncStart
<1>2. Sends(d, outbox[d])
  BY <1>1, PushNextIs DEF SyncStart
<1>3. paused' \in [Device -> BOOLEAN] /\ conflicts' \in [Device -> SUBSET EntryId]
      /\ aborts' \in 0..MaxAborts
  BY DEF SyncTyped, SyncTypeOK, SyncStart
<1>4. Turn(d, {}, outbox[d])
  BY <1>1, <1>2, <1>3, SettlesNothing DEF Turn, SyncStart, At
<1>. QED
  BY <1>4

\* The results a device has yet to handle are results.
LEMMA ResultsTyped ==
  ASSUME SyncTyped, NEW d \in Device
  PROVE  /\ sync[d].results \in Seq(Result)
         /\ Range(sync[d].results) \subseteq Result
         /\ \A rs \in SUBSET Result : Conflicting(rs) \subseteq EntryId
<1>1. sync[d] \in Run
  BY DEF SyncTyped
<1>2. sync[d].results \in Seq(Result)
  BY <1>1 DEF Run
<1>3. Range(sync[d].results) \subseteq Result
  BY <1>2 DEF Range
<1>4. \A rs \in SUBSET Result : Conflicting(rs) \subseteq EntryId
  BY DEF Conflicting, Result
<1>. QED
  BY <1>2, <1>3, <1>4

\* An answer handled to its end is a turn of the push loop.
LEMMA HandleResponseIs ==
  ASSUME SyncTyped, NEW d \in Device, HandleResponse(d)
  PROVE  \E rs, box : Turn(d, rs, box)
<1>. DEFINE rs == Range(sync[d].results)
            box == Settled(d, rs)
<1>1. rs \in SUBSET Result /\ Conflicting(rs) \subseteq EntryId
  BY ResultsTyped
<1>2. outbox \in [Device -> Seq(OutboxRow)]
  BY DEF SyncTyped
<1>3. box \in Seq(OutboxRow) /\ Settles(outbox[d], rs, box)
  <2>. HIDE DEF rs
  <2>. QED
    BY <1>1, <1>2, SettledOf
<1>4. /\ At(d, "handle")
      /\ outbox' = [outbox EXCEPT ![d] = box]
      /\ conflicts' = [conflicts EXCEPT ![d] = @ \cup Conflicting(rs)]
      /\ \/ Goto(d, "pull") /\ paused' = [paused EXCEPT ![d] = TRUE] /\ UNCHANGED inflight
         \/ PushNext(d, box) /\ UNCHANGED paused
      /\ UNCHANGED <<vars, answered, local, lastSeq, made, dropped, aborts>>
  BY DEF HandleResponse
<1>. HIDE DEF rs, box
<1>5. Sends(d, box)
  BY <1>3, <1>4, PushNextIs DEF Sends, Goto, Asleep
<1>6. paused' \in [Device -> BOOLEAN] /\ conflicts' \in [Device -> SUBSET EntryId]
      /\ aborts' \in 0..MaxAborts
  <2>1. paused \in [Device -> BOOLEAN] /\ conflicts \in [Device -> SUBSET EntryId]
        /\ aborts \in 0..MaxAborts
    BY DEF SyncTyped, SyncTypeOK
  <2>2. conflicts[d] \cup Conflicting(rs) \subseteq EntryId
    BY <1>1, <2>1
  <2>. QED
    BY <1>4, <2>1, <2>2
<1>7. Turn(d, rs, box)
  BY <1>1, <1>3, <1>4, <1>5, <1>6 DEF Turn, At, rs
<1>. QED
  BY <1>7

\* So is one cut off by the tab closing.
LEMMA CrashInResponseIs ==
  ASSUME SyncTyped, NEW d \in Device, NEW n \in Nat, CrashInResponse(d, n)
  PROVE  \E rs, box : Turn(d, rs, box)
<1>. DEFINE rs == {sync[d].results[k] : k \in 1..n}
            box == Settled(d, rs)
<1>1. sync[d].results \in Seq(Result) /\ n \in 1..(Len(sync[d].results) - 1)
  BY ResultsTyped DEF CrashInResponse
<1>2. 1..n \subseteq DOMAIN sync[d].results
  BY <1>1
<1>3. rs \in SUBSET Result /\ rs \subseteq Range(sync[d].results)
  BY <1>1, <1>2 DEF Range
<1>4. outbox \in [Device -> Seq(OutboxRow)]
  BY DEF SyncTyped
<1>5. box \in Seq(OutboxRow) /\ Settles(outbox[d], rs, box)
  <2>. HIDE DEF rs
  <2>. QED
    BY <1>3, <1>4, SettledOf
<1>6. /\ At(d, "handle")
      /\ outbox' = [outbox EXCEPT ![d] = box]
      /\ conflicts' = [conflicts EXCEPT ![d] = @ \cup Conflicting(rs)]
      /\ Goto(d, "idle")
      /\ aborts < MaxAborts /\ aborts' = aborts + 1
      /\ UNCHANGED <<vars, netVars, local, lastSeq, paused, made, dropped>>
  BY DEF CrashInResponse
<1>. HIDE DEF rs, box
<1>7. Sends(d, box)
  <2>1. inflight' = inflight
    BY <1>6 DEF netVars
  <2>2. sync' = [sync EXCEPT ![d] = [phase |-> "idle", results |-> <<>>, page |-> <<>>]]
    <3>1. Goto(d, "idle")
      BY <1>6
    <3>2. [Asleep EXCEPT !.phase = "idle"] = [phase |-> "idle", results |-> <<>>, page |-> <<>>]
      BY DEF Asleep
    <3>. QED
      BY <3>1, <3>2 DEF Goto
  <2>. QED
    BY <2>1, <2>2 DEF Sends
<1>8. paused' \in [Device -> BOOLEAN] /\ conflicts' \in [Device -> SUBSET EntryId]
      /\ aborts' \in 0..MaxAborts
  <2>1. paused \in [Device -> BOOLEAN] /\ conflicts \in [Device -> SUBSET EntryId]
        /\ aborts \in 0..MaxAborts
    BY DEF SyncTyped, SyncTypeOK
  <2>2. conflicts[d] \cup Conflicting(rs) \subseteq EntryId
    BY <1>3, <2>1, ResultsTyped
  <2>3. aborts + 1 \in 0..MaxAborts
    BY <1>6, <2>1, SyncAssumption
  <2>. QED
    BY <1>6, <2>1, <2>2, <2>3
<1>9. Turn(d, rs, box)
  BY <1>3, <1>5, <1>6, <1>7, <1>8 DEF Turn, At, netVars
<1>. QED
  BY <1>9

\* A pull is merged into the tables; last_seq is written unless the tab closes before.
Applies(d) ==
  /\ At(d, "apply")
  /\ local' = [local EXCEPT ![d] = Merged(d)]
  /\ \/ lastSeq' = [lastSeq EXCEPT ![d] = sync[d].page.next]
     \/ lastSeq' = lastSeq
  /\ \E phase \in {"idle", "pull"} :
       sync' = [sync EXCEPT ![d] = [phase |-> phase, results |-> <<>>, page |-> <<>>]]
  /\ aborts' \in 0..MaxAborts
  /\ UNCHANGED <<vars, netVars, outbox, paused, conflicts, made, dropped>>

\* A page is merged whether or not the tab closes after it.
LEMMA AppliesIs ==
  ASSUME SyncTyped, NEW d \in Device, ApplyPage(d) \/ CrashBeforeLastSeq(d)
  PROVE  Applies(d)
<1>1. aborts \in 0..MaxAborts /\ MaxAborts \in Nat
  BY SyncAssumption DEF SyncTyped, SyncTypeOK
<1>2. \A phase : [Asleep EXCEPT !.phase = phase]
                   = [phase |-> phase, results |-> <<>>, page |-> <<>>]
  BY DEF Asleep
<1>3. CASE ApplyPage(d)
  <2>1. \E phase \in {"idle", "pull"} : Goto(d, phase)
    BY <1>3 DEF ApplyPage
  <2>. QED
    BY <1>1, <1>2, <1>3, <2>1 DEF ApplyPage, Applies, Goto
<1>4. CASE CrashBeforeLastSeq(d)
  <2>1. Goto(d, "idle") /\ aborts < MaxAborts /\ aborts' = aborts + 1
    BY <1>4 DEF CrashBeforeLastSeq
  <2>2. aborts' \in 0..MaxAborts
    BY <1>1, <2>1
  <2>. QED
    BY <1>2, <1>4, <2>1, <2>2 DEF CrashBeforeLastSeq, Applies, Goto
<1>. QED
  BY <1>3, <1>4

(* The cases of a step of the row channel. *)
LEMMA SyncCases ==
  ASSUME SyncTyped, [SyncNext]_allVars,
         NEW P,
         UNCHANGED allVars => P,
         ASSUME NEW d \in Device, NEW entries, Edits(d, entries) PROVE P,
         ASSUME NEW d \in Device, NEW n \in DOMAIN outbox[d], Discard(d, n) PROVE P,
         ASSUME NEW d \in Device, NEW rs, NEW box, Turn(d, rs, box) PROVE P,
         ASSUME NEW d \in Device, PullServe(d) PROVE P,
         ASSUME NEW d \in Device, Applies(d) PROVE P,
         ASSUME NEW d \in Device, Abort(d) PROVE P,
         ASSUME NEW d \in Device, Unpause(d) PROVE P,
         Midnight => P,
         ASSUME NEW m \in inflight, Deliver(m) PROVE P,
         ServeOne => P,
         Answer => P
  PROVE  P
<1>1. CASE UNCHANGED allVars
  BY <1>1
<1>2. CASE VaultStep
  BY <1>2 DEF VaultStep
<1>3. ASSUME NEW d \in Device, UserStep(d) PROVE P
  <2>1. CASE \E entries : Edits(d, entries)
    BY <2>1
  <2>2. CASE \E n \in DOMAIN outbox[d] : Discard(d, n)
    BY <2>2
  <2>. QED
    BY <1>3, <2>1, <2>2, UserIs
<1>4. ASSUME NEW d \in Device, EngineStep(d) PROVE P
  <2>1. CASE \E rs, box : Turn(d, rs, box)
    BY <2>1
  <2>2. CASE SyncStart(d) \/ HandleResponse(d)
    BY <2>1, <2>2, SyncStartIs, HandleResponseIs
  <2>3. ASSUME NEW n \in 1..BatchSize, CrashInResponse(d, n) PROVE P
    <3>1. n \in Nat
      BY SyncAssumption
    <3>. QED
      BY <2>1, <2>3, <3>1, CrashInResponseIs
  <2>4. CASE ApplyPage(d) \/ CrashBeforeLastSeq(d)
    BY <2>4, AppliesIs
  <2>. QED
    BY <1>4, <2>2, <2>3, <2>4 DEF EngineStep
<1>. QED
  BY <1>1, <1>2, <1>3, <1>4 DEF SyncNext

(* Every step of the row channel is one of the vault's, or leaves the vault alone. *)
LEMMA VaultMoves ==
  ASSUME SyncTyped, [SyncNext]_allVars
  PROVE  [Next]_vars
<1>1. ASSUME NEW m \in inflight, Deliver(m) PROVE [Next]_vars
  <2>1. m \in [device: Device, entries: Seq(Entry), awaited: BOOLEAN]
    BY DEF SyncTyped, SyncTypeOK
  <2>2. m.device \in Device /\ m.entries \in Seq(Entry)
    BY <2>1
  <2>. QED
    BY <1>1, <2>2 DEF Deliver, Next
<1>2. ServeOne => [Next]_vars
  BY DEF ServeOne, Next, ServerStep
<1>3. Answer => [Next]_vars
  BY DEF Answer, Next, ServerStep
<1>4. Midnight => [Next]_vars
  BY DEF Midnight, Next, ServerStep
<1>5. \A d \in Device : \A entries : Edits(d, entries) => UNCHANGED vars
  BY DEF Edits, EditUnchanged
<1>6. \A d \in Device : \A n : Discard(d, n) => UNCHANGED vars
  BY DEF Discard
<1>7. \A d \in Device : \A rs, box : Turn(d, rs, box) => UNCHANGED vars
  BY DEF Turn
<1>8. \A d \in Device : PullServe(d) \/ Applies(d) \/ Abort(d) \/ Unpause(d) => UNCHANGED vars
  BY DEF PullServe, Applies, Abort, Unpause
<1>9. UNCHANGED allVars => UNCHANGED vars
  BY DEF allVars
<1>. HIDE DEF vars
<1>. QED
  BY <1>1, <1>2, <1>3, <1>4, <1>5, <1>6, <1>7, <1>8, <1>9, SyncCases
----------------------------------------------------------------------------
(***************************************************************************)
(* Types.                                                                  *)
(***************************************************************************)
(* A pulled row shows a column as it is pulled, or the last edit that waits to be sent. *)
LEMMA ReappliedIs ==
  ASSUME NEW d \in Device, outbox[d] \in Seq(OutboxRow), NEW r \in Row, NEW theirs \in RowState
  PROVE  LET box == outbox[d]
             new == Reapplied(d, r, theirs)
             waits(n, f) == /\ ~box[n].blocked /\ box[n].row = r /\ box[n].op = "upsert"
                            /\ f \in box[n].fields
         IN /\ new \in LocalRow
            /\ new.exists /\ new.version = theirs.version /\ new.deleted = theirs.deleted
            /\ \A f \in Field :
                 \/ (\A n \in DOMAIN box : ~waits(n, f)) /\ new.val[f] = theirs.val[f]
                 \/ \E n \in DOMAIN box :
                      /\ waits(n, f) /\ new.val[f] = box[n].id
                      /\ \A m \in DOMAIN box : waits(m, f) => box[m].id <= box[n].id
<1>. DEFINE box == outbox[d]
            p == Pending(d)
            takes(k, f) == p[k].row = r /\ p[k].op = "upsert" /\ f \in p[k].fields
            mine(f) == {p[n].id : n \in {k \in DOMAIN p : p[k].row = r /\ p[k].op = "upsert"
                                                            /\ f \in p[k].fields}}
            waits(n, f) == /\ ~box[n].blocked /\ box[n].row = r /\ box[n].op = "upsert"
                           /\ f \in box[n].fields
            val(f) == IF mine(f) = {} THEN theirs.val[f]
                      ELSE CHOOSE i \in mine(f) : \A j \in mine(f) : j <= i
            new == Reapplied(d, r, theirs)
            I == {n \in DOMAIN box : ~box[n].blocked}
            c == Cardinality(I)
<1>1. new = [exists |-> TRUE, version |-> theirs.version, deleted |-> theirs.deleted,
             val |-> [f \in Field |-> val(f)]]
  BY DEF Reapplied
<1>0. box \in Seq(OutboxRow) /\ \A n \in DOMAIN box : box[n] \in OutboxRow
  OBVIOUS
<1>2. PICK at \in [1..c -> I] :
        /\ \A i \in I : \E k \in 1..c : at[k] = i
        /\ p = [k \in 1..c |-> box[at[k]]]
  <2>1. I \subseteq DOMAIN box
    OBVIOUS
  <2>2. p = Kept(box, I)
    BY DEF Pending, PendingOf
  <2>. HIDE DEF I, p, box
  <2>3. \E at \in [1..Cardinality(I) -> I] :
          /\ \A i \in I : \E k \in 1..Cardinality(I) : at[k] = i
          /\ \A k, l \in 1..Cardinality(I) : k < l => at[k] < at[l]
          /\ Kept(box, I) = [k \in 1..Cardinality(I) |-> box[at[k]]]
          /\ Kept(box, I) \in Seq(OutboxRow)
          /\ Len(Kept(box, I)) = Cardinality(I)
    BY <1>0, <2>1, KeptOf
  <2>. QED
    BY <2>2, <2>3
<1>3. ASSUME NEW f PROVE mine(f) = {box[n].id : n \in {k \in DOMAIN box : waits(k, f)}}
  <2>1. DOMAIN p = 1..c /\ \A k \in 1..c : p[k] = box[at[k]] /\ at[k] \in I
    BY <1>2
  <2>2. ASSUME NEW k \in DOMAIN p, takes(k, f)
        PROVE  \E n \in DOMAIN box : waits(n, f) /\ p[k].id = box[n].id
    BY <2>1, <2>2
  <2>3. ASSUME NEW n \in DOMAIN box, waits(n, f)
        PROVE  \E k \in DOMAIN p : takes(k, f) /\ p[k].id = box[n].id
    <3>1. n \in I
      BY <2>3
    <3>2. PICK k \in 1..c : at[k] = n
      BY <1>2, <3>1
    <3>. QED
      BY <2>1, <2>3, <3>2
  <2>. QED
    BY <2>2, <2>3
<1>. HIDE DEF p, I, c, mine
<1>4. ASSUME NEW f \in Field, mine(f) # {}
      PROVE  val(f) \in mine(f) /\ \A j \in mine(f) : j <= val(f)
  <2>1. \A n \in DOMAIN box : box[n].id \in 1..MaxEdits
    BY <1>0, SyncAssumption DEF OutboxRow
  <2>2. mine(f) \subseteq 0..MaxEdits /\ MaxEdits \in Nat
    BY <1>3, <2>1, SyncAssumption
  <2>3. \E i \in mine(f) : \A j \in mine(f) : j <= i
    BY <1>4, <2>2, GreatestNat
  <2>. QED
    BY <1>4, <2>3
<1>5. ASSUME NEW f \in Field
      PROVE  /\ val(f) \in Value
             /\ \/ (\A n \in DOMAIN box : ~waits(n, f)) /\ val(f) = theirs.val[f]
                \/ \E n \in DOMAIN box :
                     /\ waits(n, f) /\ val(f) = box[n].id
                     /\ \A m \in DOMAIN box : waits(m, f) => box[m].id <= box[n].id
  <2>1. CASE mine(f) = {}
    <3>1. \A n \in DOMAIN box : ~waits(n, f)
      BY <1>3, <2>1
    <3>2. val(f) = theirs.val[f]
      BY <2>1
    <3>3. theirs.val[f] \in Value
      BY DEF RowState
    <3>. QED
      BY <3>1, <3>2, <3>3
  <2>2. CASE mine(f) # {}
    <3>1. val(f) \in mine(f) /\ \A j \in mine(f) : j <= val(f)
      BY <1>4, <2>2
    <3>. HIDE DEF val
    <3>2. PICK n \in DOMAIN box : waits(n, f) /\ val(f) = box[n].id
      BY <1>3, <3>1
    <3>3. \A m \in DOMAIN box : waits(m, f) => box[m].id <= box[n].id
      BY <1>3, <3>1, <3>2
    <3>4. box[n].id \in EntryId
      BY <1>0 DEF OutboxRow
    <3>. QED
      BY <3>2, <3>3, <3>4 DEF Value
  <2>. QED
    BY <2>1, <2>2
<1>. HIDE DEF val
<1>6. new \in LocalRow
  <2>1. theirs.version \in Nat /\ theirs.deleted \in BOOLEAN
    BY DEF RowState
  <2>2. [f \in Field |-> val(f)] \in [Field -> Value]
    BY <1>5
  <2>. QED
    BY <1>1, <2>1, <2>2 DEF LocalRow
<1>7. \A f \in Field : new.val[f] = val(f)
  BY <1>1
<1>8. new.exists /\ new.version = theirs.version /\ new.deleted = theirs.deleted
  BY <1>1
<1>. HIDE DEF new, waits
<1>9. \A f \in Field :
        \/ (\A n \in DOMAIN box : ~waits(n, f)) /\ new.val[f] = theirs.val[f]
        \/ \E n \in DOMAIN box :
             /\ waits(n, f) /\ new.val[f] = box[n].id
             /\ \A m \in DOMAIN box : waits(m, f) => box[m].id <= box[n].id
  BY <1>5, <1>7
<1>. QED
  BY <1>6, <1>8, <1>9 DEF new, waits

\* A page of changes is made of rows of the vault.
LEMMA PageTyped ==
  ASSUME Bounded, NEW since \in Nat
  PROVE  Page(since) \in PageRec
<1>. DEFINE p == Page(since)
            rows == Oldest(Candidates(since), PageSize)
<1>1. p.hasMore \in BOOLEAN /\ p.next \in Nat /\ p.changes = [r \in rows |-> row[r]]
  BY PageIs
<1>2. p = [changes |-> p.changes, hasMore |-> p.hasMore, head |-> head, next |-> p.next]
  BY DEF Page
<1>3. rows \in SUBSET Row
  BY DEF Oldest, Candidates
<1>4. head \in Nat /\ row \in [Row -> RowState]
  BY DEF Bounded, TypeOK
<1>. HIDE DEF rows, p
<1>5. p.changes \in [rows -> RowState]
  BY <1>1, <1>3, <1>4
<1>6. p.changes \in UNION {[S -> RowState] : S \in SUBSET Row}
  BY <1>3, <1>5
<1>7. p \in PageRec
  BY <1>1, <1>2, <1>4, <1>6 DEF PageRec
<1>. QED
  BY <1>7 DEF p

\* What a merged page leaves in the tables.
LEMMA MergedIs ==
  ASSUME SyncTyped, NEW d \in Device, sync[d].phase = "apply"
  PROVE  LET page == sync[d].page
         IN /\ page \in PageRec
            /\ DOMAIN page.changes \subseteq Row
            /\ \A r \in DOMAIN page.changes : page.changes[r] \in RowState
            /\ Merged(d) \in [Row -> LocalRow]
            /\ \A r \in Row :
                 \/ /\ r \in DOMAIN page.changes => page.changes[r].version <= local[d][r].version
                    /\ Merged(d)[r] = local[d][r]
                 \/ /\ r \in DOMAIN page.changes
                    /\ local[d][r].version < page.changes[r].version
                    /\ Merged(d)[r] = Reapplied(d, r, page.changes[r])
<1>. DEFINE page == sync[d].page
            theirs == page.changes
            new(r) == IF r \in DOMAIN theirs /\ local[d][r].version < theirs[r].version
                      THEN Reapplied(d, r, theirs[r]) ELSE local[d][r]
<1>1. page \in PageRec
  BY DEF SyncTyped
<1>2. theirs \in UNION {[S -> RowState] : S \in SUBSET Row}
  BY <1>1 DEF PageRec
<1>3. DOMAIN theirs \subseteq Row /\ \A r \in DOMAIN theirs : theirs[r] \in RowState
  BY <1>2
<1>4. Merged(d) = [r \in Row |-> new(r)]
  BY DEF Merged
<1>5. local[d] \in [Row -> LocalRow] /\ outbox[d] \in Seq(OutboxRow)
  BY DEF SyncTyped, SyncTypeOK
<1>. HIDE DEF page
<1>6. \A r \in DOMAIN theirs : Reapplied(d, r, theirs[r]) \in LocalRow
  BY <1>3, <1>5, ReappliedIs
<1>7. \A r \in Row : new(r) \in LocalRow
  BY <1>5, <1>6
<1>8. Merged(d) \in [Row -> LocalRow] /\ \A r \in Row : Merged(d)[r] = new(r)
  BY <1>4, <1>7
<1>9. \A r \in Row : local[d][r].version \in Nat
  BY <1>5 DEF LocalRow
<1>10. \A r \in DOMAIN theirs : theirs[r].version \in Nat
  BY <1>3 DEF RowState
<1>11. ASSUME NEW r \in Row
       PROVE  \/ /\ r \in DOMAIN theirs => theirs[r].version <= local[d][r].version
                 /\ Merged(d)[r] = local[d][r]
              \/ /\ r \in DOMAIN theirs
                 /\ local[d][r].version < theirs[r].version
                 /\ Merged(d)[r] = Reapplied(d, r, theirs[r])
  BY <1>8, <1>9, <1>10
<1>. QED
  BY <1>1, <1>3, <1>8, <1>11 DEF page

\* The device's part of SyncTyped.
Shaped ==
  /\ SyncTypeOK
  /\ outbox \in [Device -> Seq(OutboxRow)]
  /\ sync \in [Device -> Run]
  /\ \A d \in Device : /\ sync[d].phase = "apply" => sync[d].page \in PageRec
                       /\ sync[d].phase # "handle" => sync[d].results = <<>>

\* A run that moves on forgets what it knew.
LEMMA PhaseTyped ==
  ASSUME Shaped, NEW d \in Device, NEW phase \in {"idle", "pushing", "pull"},
         sync' = [sync EXCEPT ![d] = [phase |-> phase, results |-> <<>>, page |-> <<>>]]
  PROVE  /\ sync' \in [Device -> Run]
         /\ \A c \in Device : /\ sync'[c].phase \in Phase
                              /\ sync'[c].phase = "apply" => sync'[c].page \in PageRec
                              /\ sync'[c].phase # "handle" => sync'[c].results = <<>>
<1>1. [phase |-> phase, results |-> <<>>, page |-> <<>>] \in Run
  BY DEF Run, Phase
<1>2. sync \in [Device -> Run] /\ \A c \in Device : sync[c].phase \in Phase
  BY DEF Shaped, SyncTypeOK
<1>. QED
  BY <1>1, <1>2 DEF Shaped, Phase

\* User operations keep the types.
LEMMA ShapedEdits ==
  ASSUME Shaped, NEW d \in Device, NEW entries, Edits(d, entries)
  PROVE  Shaped'
<1>1. PICK mine \in [Row -> LocalRow] : local' = [local EXCEPT ![d] = mine]
  BY DEF Edits
<1>2. local' \in [Device -> [Row -> LocalRow]]
  BY <1>1 DEF Shaped, SyncTypeOK
<1>3. outbox[d] \o entries \in Seq(OutboxRow) /\ made \o entries \in Seq(OutboxRow)
  BY DEF Edits, Shaped, SyncTypeOK
<1>4. outbox' \in [Device -> Seq(OutboxRow)] /\ made' \in Seq(OutboxRow)
  BY <1>3 DEF Edits, Shaped
<1>. QED
  BY <1>2, <1>4 DEF Edits, EditUnchanged, netVars, Shaped, SyncTypeOK

\* A discarded entry leaves the others in their order.
LEMMA DiscardIs ==
  ASSUME outbox \in [Device -> Seq(OutboxRow)], NEW d \in Device, NEW n \in DOMAIN outbox[d],
         Discard(d, n)
  PROVE  \E box \in Seq(OutboxRow) :
           /\ outbox' = [outbox EXCEPT ![d] = box]
           /\ Len(box) = Len(outbox[d]) - 1
           /\ \A k \in DOMAIN box : box[k] = IF k < n THEN outbox[d][k] ELSE outbox[d][k + 1]
<1>. DEFINE old == outbox[d]
            box == SubSeq(old, 1, n - 1) \o SubSeq(old, n + 1, Len(old))
<1>1. old \in Seq(OutboxRow) /\ n \in 1..Len(old)
  OBVIOUS
<1>2. outbox' = [outbox EXCEPT ![d] = box]
  BY DEF Discard
<1>3. /\ box \in Seq(OutboxRow) /\ Len(box) = Len(old) - 1
      /\ \A k \in 1..(Len(old) - 1) : box[k] = IF k < n THEN old[k] ELSE old[k + 1]
  <2>. HIDE DEF old
  <2>. QED
    BY <1>1, WithoutOne
<1>4. DOMAIN box = 1..(Len(old) - 1)
  <2>. HIDE DEF box
  <2>. QED
    BY <1>3
<1>. HIDE DEF box
<1>. QED
  BY <1>2, <1>3, <1>4

\* Discarding keeps the types.
LEMMA ShapedDiscard ==
  ASSUME Shaped, NEW d \in Device, NEW n \in DOMAIN outbox[d], Discard(d, n)
  PROVE  Shaped'
<1>1. outbox \in [Device -> Seq(OutboxRow)] /\ dropped \subseteq EntryId
  BY DEF Shaped, SyncTypeOK
<1>2. outbox' \in [Device -> Seq(OutboxRow)]
  BY <1>1, DiscardIs
<1>3. outbox[d][n] \in OutboxRow
  BY <1>1
<1>4. dropped' \subseteq EntryId
  BY <1>1, <1>3 DEF Discard, OutboxRow
<1>. QED
  BY <1>2, <1>4 DEF Discard, netVars, Shaped, SyncTypeOK

\* A turn of the push loop keeps the types.
LEMMA ShapedTurn ==
  ASSUME Shaped, NEW d \in Device, NEW rs, NEW box, Turn(d, rs, box)
  PROVE  Shaped'
<1>1. outbox' \in [Device -> Seq(OutboxRow)]
  BY DEF Turn, Shaped
<1>2. /\ sync' \in [Device -> Run]
      /\ \A c \in Device : /\ sync'[c].phase \in Phase
                           /\ sync'[c].phase = "apply" => sync'[c].page \in PageRec
                           /\ sync'[c].phase # "handle" => sync'[c].results = <<>>
  BY PhaseTyped DEF Turn, Sends
<1>3. inflight' \subseteq [device: Device, entries: Seq(Entry), awaited: BOOLEAN]
  <2>1. inflight \subseteq [device: Device, entries: Seq(Entry), awaited: BOOLEAN]
    BY DEF Shaped, SyncTypeOK
  <2>2. \A entries \in Seq(Entry) :
          [device |-> d, entries |-> entries, awaited |-> TRUE]
            \in [device: Device, entries: Seq(Entry), awaited: BOOLEAN]
    OBVIOUS
  <2>3. Sends(d, box)
    BY DEF Turn
  <2>4. CASE inflight' = inflight
    BY <2>1, <2>4
  <2>5. CASE \E entries \in Seq(Entry) :
               inflight' = inflight \cup {[device |-> d, entries |-> entries, awaited |-> TRUE]}
    BY <2>1, <2>2, <2>5
  <2>. QED
    BY <2>3, <2>4, <2>5 DEF Sends
<1>. QED
  BY <1>1, <1>2, <1>3 DEF Turn, Shaped, SyncTypeOK

\* Reading a page keeps the types.
LEMMA ShapedPull ==
  ASSUME Bounded, Shaped, NEW d \in Device, PullServe(d)
  PROVE  Shaped'
<1>1. lastSeq[d] \in Nat /\ sync \in [Device -> Run] /\ \A c \in Device : sync[c].phase \in Phase
  BY DEF Shaped, SyncTypeOK
<1>. DEFINE page == Page(lastSeq[d])
<1>2. page \in PageRec
  BY <1>1, PageTyped
<1>3. sync' = [sync EXCEPT ![d] = [phase |-> "apply", results |-> <<>>, page |-> page]]
  BY DEF PullServe
<1>. HIDE DEF page
<1>4. [phase |-> "apply", results |-> <<>>, page |-> page] \in Run
  BY <1>2 DEF Run, Phase
<1>5. /\ sync' \in [Device -> Run]
      /\ \A c \in Device : /\ sync'[c].phase \in Phase
                           /\ sync'[c].phase = "apply" => sync'[c].page \in PageRec
                           /\ sync'[c].phase # "handle" => sync'[c].results = <<>>
  BY <1>1, <1>2, <1>3, <1>4 DEF Shaped, Phase
<1>. QED
  BY <1>5 DEF PullServe, netVars, Shaped, SyncTypeOK

\* Merging a page keeps the types.
LEMMA ShapedApplies ==
  ASSUME Bounded, Shaped, NEW d \in Device, Applies(d)
  PROVE  Shaped'
<1>1. sync[d].phase = "apply"
  BY DEF Applies, At
<1>2. Merged(d) \in [Row -> LocalRow] /\ sync[d].page \in PageRec
  BY <1>1, MergedIs DEF SyncTyped, Shaped
<1>3. local' \in [Device -> [Row -> LocalRow]]
  BY <1>2 DEF Applies, Shaped, SyncTypeOK
<1>4. lastSeq' \in [Device -> Nat]
  BY <1>2 DEF Applies, Shaped, SyncTypeOK, PageRec
<1>5. /\ sync' \in [Device -> Run]
      /\ \A c \in Device : /\ sync'[c].phase \in Phase
                           /\ sync'[c].phase = "apply" => sync'[c].page \in PageRec
                           /\ sync'[c].phase # "handle" => sync'[c].results = <<>>
  BY PhaseTyped DEF Applies
<1>. QED
  BY <1>3, <1>4, <1>5 DEF Applies, netVars, Shaped, SyncTypeOK

\* A lost connection keeps the types.
LEMMA ShapedAbort ==
  ASSUME Shaped, NEW d \in Device, Abort(d)
  PROVE  Shaped'
<1>1. sync' = [sync EXCEPT ![d] = [phase |-> "idle", results |-> <<>>, page |-> <<>>]]
  <2>1. [Asleep EXCEPT !.phase = "idle"] = [phase |-> "idle", results |-> <<>>, page |-> <<>>]
    BY DEF Asleep
  <2>. QED
    BY <2>1 DEF Abort, Goto
<1>2. /\ sync' \in [Device -> Run]
      /\ \A c \in Device : /\ sync'[c].phase \in Phase
                           /\ sync'[c].phase = "apply" => sync'[c].page \in PageRec
                           /\ sync'[c].phase # "handle" => sync'[c].results = <<>>
  BY <1>1, PhaseTyped
<1>3. inflight' \subseteq [device: Device, entries: Seq(Entry), awaited: BOOLEAN]
  <2>1. inflight \subseteq [device: Device, entries: Seq(Entry), awaited: BOOLEAN]
    BY DEF Shaped, SyncTypeOK
  <2>2. \A m \in inflight : [m EXCEPT !.awaited = FALSE]
                              \in [device: Device, entries: Seq(Entry), awaited: BOOLEAN]
    BY <2>1
  <2>3. inflight' = {IF m.device = d THEN [m EXCEPT !.awaited = FALSE] ELSE m : m \in inflight}
    BY DEF Abort
  <2>. QED
    BY <2>1, <2>2, <2>3
<1>4. aborts' \in 0..MaxAborts
  <2>1. aborts \in 0..MaxAborts /\ MaxAborts \in Nat
    BY SyncAssumption DEF Shaped, SyncTypeOK
  <2>2. aborts < MaxAborts /\ aborts' = aborts + 1
    BY DEF Abort
  <2>. QED
    BY <2>1, <2>2
<1>. QED
  BY <1>2, <1>3, <1>4 DEF Abort, Shaped, SyncTypeOK

\* An answer keeps the types.
LEMMA ShapedAnswer ==
  ASSUME Bounded, Shaped, Answer
  PROVE  Shaped'
<1>1. sync \in [Device -> Run] /\ \A c \in Device : sync[c].phase \in Phase
  BY DEF Shaped, SyncTypeOK
<1>2. job \in [device: Device, todo: Seq(Entry), results: Seq(Result)]
  BY DEF Bounded, TypeOK, Answer, PushEnd
<1>3. [phase |-> "handle", results |-> job.results, page |-> <<>>] \in Run
  BY <1>2 DEF Run, Phase
<1>4. \/ sync' = [sync EXCEPT ![job.device] =
                    [phase |-> "handle", results |-> job.results, page |-> <<>>]]
      \/ sync' = sync
  BY DEF Answer, Asleep
<1>5. /\ sync' \in [Device -> Run]
      /\ \A c \in Device : /\ sync'[c].phase \in Phase
                           /\ sync'[c].phase = "apply" => sync'[c].page \in PageRec
                           /\ sync'[c].phase # "handle" => sync'[c].results = <<>>
  <2>1. CASE sync' = sync
    BY <1>1, <2>1 DEF Shaped
  <2>2. CASE sync' = [sync EXCEPT ![job.device] =
                        [phase |-> "handle", results |-> job.results, page |-> <<>>]]
    <3>1. sync' \in [Device -> Run]
      BY <1>1, <1>3, <2>2
    <3>2. ASSUME NEW c \in Device
          PROVE  /\ sync'[c].phase \in Phase
                 /\ sync'[c].phase = "apply" => sync'[c].page \in PageRec
                 /\ sync'[c].phase # "handle" => sync'[c].results = <<>>
      <4>1. CASE c = job.device
        BY <1>1, <2>2, <4>1 DEF Phase
      <4>2. CASE c # job.device
        BY <1>1, <2>2, <4>2 DEF Shaped
      <4>. QED
        BY <4>1, <4>2
    <3>. QED
      BY <3>1, <3>2
  <2>. QED
    BY <1>4, <2>1, <2>2
<1>. QED
  BY <1>5 DEF Answer, Shaped, SyncTypeOK

(* Vault, devices and network keep their types. *)
LEMMA SyncTypedStep == SyncTyped /\ [SyncNext]_allVars => SyncTyped'
<1>. SUFFICES ASSUME SyncTyped, [SyncNext]_allVars PROVE SyncTyped'
  OBVIOUS
<1>1. Bounded'
  BY VaultMoves, BoundedStep DEF SyncTyped
<1>2. Bounded /\ Shaped
  BY DEF SyncTyped, Shaped
<1>3. UNCHANGED allVars => Shaped'
  BY <1>2 DEF allVars, deviceVars, netVars, Shaped, SyncTypeOK
<1>4. \A d \in Device : Unpause(d) => Shaped'
  BY <1>2 DEF Unpause, netVars, Shaped, SyncTypeOK
<1>5. Midnight \/ ServeOne => Shaped'
  BY <1>2 DEF Midnight, ServeOne, deviceVars, netVars, Shaped, SyncTypeOK
<1>6. \A m \in inflight : Deliver(m) => Shaped'
  BY <1>2 DEF Deliver, deviceVars, Shaped, SyncTypeOK
<1>7. Shaped'
  BY <1>2, <1>3, <1>4, <1>5, <1>6, SyncCases, ShapedEdits, ShapedDiscard, ShapedTurn,
     ShapedPull, ShapedApplies, ShapedAbort, ShapedAnswer
<1>. QED
  BY <1>1, <1>7 DEF SyncTyped, Shaped

\* The types hold at first.
LEMMA SyncTypedInit == SyncInit => SyncTyped
<1>. SUFFICES ASSUME SyncInit PROVE SyncTyped
  OBVIOUS
<1>1. Bounded
  BY BoundedInit DEF SyncInit
<1>2. NoRow \in LocalRow
  BY DEF NoRow, LocalRow, Value
<1>3. Asleep \in Run /\ Asleep.phase = "idle" /\ Asleep.results = <<>>
  BY DEF Asleep, Run, Phase
<1>4. 0 \in 0..MaxAborts
  BY SyncAssumption
<1>. QED
  BY <1>1, <1>2, <1>3, <1>4 DEF SyncInit, SyncTyped, SyncTypeOK, Phase

\* The types hold of every state.
LEMMA SyncTypedAlways == SyncSpec => []SyncTyped
BY SyncTypedInit, SyncTypedStep, PTL DEF SyncSpec

(* The devices' tables, outboxes and runs, and what is on the network, keep their types. *)
THEOREM RowChannelTyped == SyncSpec => []SyncTypeOK
<1>1. SyncTyped => SyncTypeOK
  BY DEF SyncTyped
<1>. QED
  BY <1>1, SyncTypedAlways, PTL

(* With devices and a network around it the vault makes its own steps only. *)
THEOREM VaultWithinSync == SyncSpec => Spec
<1>1. SyncInit => Init
  BY DEF SyncInit
<1>2. SyncTyped /\ [SyncNext]_allVars => [Next]_vars
  BY VaultMoves
<1>. QED
  BY <1>1, <1>2, SyncTypedAlways, PTL DEF SyncSpec, Spec
----------------------------------------------------------------------------
(***************************************************************************)
(* Pulling.                                                                *)
(***************************************************************************)
(* A row that changes gets a version past the head. *)
LEMMA RowsAdvance ==
  ASSUME Bounded, [Next]_vars
  PROVE  /\ head \in Nat /\ head' \in Nat /\ head <= head'
         /\ \A r \in Row : /\ row[r].version \in Nat /\ row'[r].version \in Nat
                           /\ row[r].version <= head
                           /\ row'[r] = row[r] \/ row'[r].version > head
<1>1. Bounded'
  BY BoundedStep
<1>2. head \in Nat /\ head' \in Nat
      /\ \A r \in Row : /\ row[r].version \in Nat /\ row'[r].version \in Nat
                        /\ row[r].version <= head
  BY <1>1 DEF Bounded, TypeOK, RowsBounded, RowState
<1>3. CASE UNCHANGED <<row, head>>
  BY <1>2, <1>3
<1>4. ASSUME job.todo # <<>>, Upsert(Head(job.todo))
      PROVE  head <= head' /\ \A r \in Row : row'[r] = row[r] \/ row'[r].version > head
  <2>. DEFINE e == Head(job.todo)
  <2>1. /\ row' = [row EXCEPT ![e.row] = Written(e)]
        /\ head' = head + 1
    BY <1>4, UpsertStep DEF Bounded
  <2>2. Written(e).version = head + 1 /\ row \in [Row -> RowState]
    BY DEF Written, Bounded, TypeOK
  <2>. HIDE DEF e
  <2>. QED
    BY <1>2, <2>1, <2>2
<1>5. ASSUME job.todo # <<>>, Tombstone(Head(job.todo))
      PROVE  head <= head' /\ \A r \in Row : row'[r] = row[r] \/ row'[r].version > head
  <2>. DEFINE e == Head(job.todo)
              kids == Children(e.row)
              n == Cardinality(kids)
  <2>1. e \in Entry
    BY <1>5, HeadTyped DEF Bounded
  <2>2. e.row \in Row
    BY <2>1 DEF Entry
  <2>3. PICK place \in Bijection(kids, 1..n) : TombstoneWith(e, place)
    BY <1>5, TombstoneStep DEF Bounded
  <2>4. n \in Nat /\ \A k \in kids : place[k] \in 1..n
    BY <2>2, <2>3, ChildrenFinite, PlaceTyped
  <2>5. /\ row' = [r \in Row |->
              IF r = e.row THEN Tombstoned(r, head + 1)
              ELSE IF r \in kids THEN Tombstoned(r, head + 1 + place[r])
              ELSE row[r]]
        /\ head' = head + 1 + n
    BY <2>3 DEF TombstoneWith
  <2>6. \A r \in Row : \A seq : Tombstoned(r, seq).version = seq
    BY DEF Tombstoned
  <2>. HIDE DEF e, kids, n
  <2>7. head <= head'
    BY <1>2, <2>4, <2>5
  <2>8. ASSUME NEW r \in Row PROVE row'[r] = row[r] \/ row'[r].version > head
    <3>1. CASE r = e.row
      BY <1>2, <2>5, <2>6, <3>1
    <3>2. CASE r # e.row /\ r \in kids
      <4>1. row'[r].version = head + 1 + place[r] /\ place[r] \in 1..n
        BY <2>4, <2>5, <2>6, <3>2
      <4>. QED
        BY <1>2, <2>4, <4>1
    <3>3. CASE r # e.row /\ r \notin kids
      BY <2>5, <3>3
    <3>. QED
      BY <3>1, <3>2, <3>3
  <2>. QED
    BY <2>7, <2>8
<1>6. ASSUME job.todo # <<>>, ReplyOnly(Head(job.todo)) PROVE UNCHANGED <<row, head>>
  BY <1>6, ReplyOnlyStep DEF Bounded
<1>7. /\ UNCHANGED vars => UNCHANGED <<row, head>>
      /\ PushEnd => UNCHANGED <<row, head>>
      /\ NewDay => UNCHANGED <<row, head>>
      /\ \A s : Age(s) => UNCHANGED <<row, head>>
      /\ \A d, entries : PushBegin(d, entries) => UNCHANGED <<row, head>>
  BY DEF vars, PushEnd, NewDay, Age, PushBegin
<1>. DEFINE P == head <= head' /\ \A r \in Row : row'[r] = row[r] \/ row'[r].version > head
<1>8. UNCHANGED <<row, head>> => P
  BY <1>2, <1>3
<1>9. TypeOK
  BY DEF Bounded
<1>. HIDE DEF P
<1>10. P
  BY <1>4, <1>5, <1>6, <1>7, <1>8, <1>9, NextCases DEF P
<1>. QED
  BY <1>2, <1>10 DEF P

\* The numbers that pulling is about.
LEMMA PullTypes ==
  ASSUME SyncTyped, NEW d \in Device
  PROVE  /\ lastSeq[d] \in Nat
         /\ \A r \in Row : local[d][r].version \in Nat
         /\ sync[d].phase = "apply" =>
              /\ sync[d].page.next \in Nat
              /\ DOMAIN sync[d].page.changes \subseteq Row
              /\ \A r \in DOMAIN sync[d].page.changes :
                   sync[d].page.changes[r].version \in Nat
<1>1. lastSeq[d] \in Nat /\ local[d] \in [Row -> LocalRow]
  BY DEF SyncTyped, SyncTypeOK
<1>2. \A r \in Row : local[d][r].version \in Nat
  BY <1>1 DEF LocalRow
<1>3. ASSUME sync[d].phase = "apply"
      PROVE  /\ sync[d].page.next \in Nat
             /\ DOMAIN sync[d].page.changes \subseteq Row
             /\ \A r \in DOMAIN sync[d].page.changes :
                  sync[d].page.changes[r].version \in Nat
  <2>1. sync[d].page \in PageRec
    BY <1>3 DEF SyncTyped
  <2>2. DOMAIN sync[d].page.changes \subseteq Row
        /\ \A r \in DOMAIN sync[d].page.changes : sync[d].page.changes[r] \in RowState
    BY <1>3, MergedIs
  <2>. QED
    BY <2>1, <2>2 DEF PageRec, RowState
<1>. QED
  BY <1>1, <1>2, <1>3

(* A step that pulls nothing: what the vault writes is newer than every page. *)
LEMMA PullQuiet ==
  ASSUME SyncTyped, PullInv, [Next]_vars, lastSeq' = lastSeq,
         \A d \in Device : \A r \in Row : local'[d][r].version = local[d][r].version,
         \A d \in Device : sync'[d].phase = "apply" => sync'[d] = sync[d]
  PROVE  PullInv'
<1>1. /\ head \in Nat /\ head' \in Nat /\ head <= head'
      /\ \A r \in Row : /\ row[r].version \in Nat /\ row'[r].version \in Nat
                        /\ row[r].version <= head
                        /\ row'[r] = row[r] \/ row'[r].version > head
  BY RowsAdvance DEF SyncTyped
<1>2. \A d \in Device : lastSeq[d] \in Nat /\ lastSeq[d] <= head
  BY PullTypes DEF PullInv
<1>3. ASSUME NEW d \in Device, NEW r \in Row
      PROVE  /\ local'[d][r].version <= row'[r].version
             /\ Exists(r)' /\ row'[r].version <= lastSeq'[d]
                  => local'[d][r].version = row'[r].version
  <2>1. local[d][r].version \in Nat /\ local[d][r].version <= row[r].version
        /\ (Exists(r) /\ row[r].version <= lastSeq[d] => local[d][r].version = row[r].version)
    BY PullTypes DEF PullInv, PulledIsCurrent
  <2>2. CASE row'[r] = row[r]
    BY <2>1, <2>2 DEF Exists
  <2>3. CASE row'[r].version > head
    BY <1>1, <1>2, <2>1, <2>3
  <2>. QED
    BY <1>1, <2>2, <2>3
<1>4. ASSUME NEW d \in Device, sync'[d].phase = "apply"
      PROVE  PageSound(d)'
  <2>. DEFINE p == sync[d].page
  <2>1. sync'[d] = sync[d] /\ sync[d].phase = "apply"
    BY <1>4
  <2>2. PageSound(d)
    BY <2>1 DEF PullInv
  <2>3. /\ p.next \in Nat
        /\ DOMAIN p.changes \subseteq Row
        /\ \A r \in DOMAIN p.changes : p.changes[r].version \in Nat
    BY <2>1, PullTypes
  <2>4. lastSeq'[d] <= p.next /\ p.next <= head'
    BY <1>1, <1>2, <2>2, <2>3 DEF PageSound
  <2>5. \A r \in DOMAIN p.changes : p.changes[r].version <= row'[r].version
    BY <1>1, <2>2, <2>3 DEF PageSound
  <2>6. ASSUME NEW r \in Row, Exists(r)', row'[r].version <= p.next
        PROVE  \/ local'[d][r].version = row'[r].version
               \/ r \in DOMAIN p.changes /\ p.changes[r].version = row'[r].version
    <3>1. row'[r] = row[r]
      BY <1>1, <2>2, <2>3, <2>6 DEF PageSound
    <3>. QED
      BY <2>2, <2>6, <3>1 DEF PageSound, Exists
  <2>. QED
    BY <2>1, <2>4, <2>5, <2>6 DEF PageSound
<1>5. \A d \in Device : lastSeq'[d] <= head'
  BY <1>1, <1>2
<1>. QED
  BY <1>3, <1>4, <1>5 DEF PullInv, PulledIsCurrent

(* What is read is sound: the page is complete up to its end. *)
LEMMA PullServed ==
  ASSUME SyncTyped, PullInv, NEW d \in Device, PullServe(d)
  PROVE  PullInv'
<1>. DEFINE page == Page(lastSeq[d])
<1>1. lastSeq[d] \in Nat /\ lastSeq[d] <= head /\ head \in Nat
  BY PullTypes DEF PullInv, SyncTyped, Bounded, TypeOK
<1>2. /\ page.next \in Nat
      /\ page.hasMore => page.next > lastSeq[d] /\ page.next <= head
      /\ ~page.hasMore => page.next = IF head > lastSeq[d] THEN head ELSE lastSeq[d]
      /\ page.hasMore \in BOOLEAN
      /\ page.changes = [r \in DOMAIN page.changes |-> row[r]]
      /\ DOMAIN page.changes = {r \in Row : row[r].version \in (lastSeq[d] + 1)..page.next}
  BY <1>1, PageIs DEF SyncTyped
<1>3. /\ sync' = [sync EXCEPT ![d] = [phase |-> "apply", results |-> <<>>, page |-> page]]
      /\ UNCHANGED <<vars, local, lastSeq>>
  BY DEF PullServe
<1>4. sync \in [Device -> Run] /\ \A r \in Row : row[r].version \in Nat
  BY DEF SyncTyped, Bounded, TypeOK, RowState
<1>. HIDE DEF page
<1>5. lastSeq[d] <= page.next /\ page.next <= head
  BY <1>1, <1>2
<1>6. \A r \in DOMAIN page.changes : page.changes[r] = row[r] /\ r \in Row
  BY <1>2
<1>7. ASSUME NEW r \in Row, Exists(r), row[r].version <= page.next
      PROVE  \/ local[d][r].version = row[r].version
             \/ r \in DOMAIN page.changes /\ page.changes[r].version = row[r].version
  <2>1. CASE row[r].version <= lastSeq[d]
    BY <1>7, <2>1 DEF PullInv, PulledIsCurrent
  <2>2. CASE ~(row[r].version <= lastSeq[d])
    <3>1. row[r].version \in (lastSeq[d] + 1)..page.next
      BY <1>1, <1>2, <1>4, <1>7, <2>2
    <3>. QED
      BY <1>2, <1>6, <3>1
  <2>. QED
    BY <2>1, <2>2
<1>8. \A r \in DOMAIN page.changes : page.changes[r].version <= row[r].version
  BY <1>4, <1>6
<1>9. UNCHANGED <<row, head, local, lastSeq>>
  BY <1>3 DEF vars
<1>10. ASSUME NEW c \in Device, sync'[c].phase = "apply" PROVE PageSound(c)'
  <2>1. CASE c = d
    <3>1. sync'[c].page = page
      BY <1>3, <1>4, <2>1
    <3>. QED
      BY <1>5, <1>7, <1>8, <1>9, <2>1, <3>1 DEF PageSound, Exists
  <2>2. CASE c # d
    <3>1. sync'[c] = sync[c]
      BY <1>3, <1>4, <2>2
    <3>. QED
      BY <1>9, <1>10, <3>1 DEF PullInv, PageSound, Exists
  <2>. QED
    BY <2>1, <2>2
<1>. QED
  BY <1>9, <1>10 DEF PullInv, PulledIsCurrent, Exists

(* Applying a sound page leaves the device with what was written up to its end. *)
LEMMA PullApplied ==
  ASSUME SyncTyped, PullInv, NEW d \in Device, Applies(d)
  PROVE  PullInv' /\ lastSeq'[d] >= lastSeq[d]
         /\ \A r \in Row : local'[d][r].version >= local[d][r].version
<1>. DEFINE p == sync[d].page
<1>1. sync[d].phase = "apply"
  BY DEF Applies, At
<1>2. PageSound(d)
  BY <1>1 DEF PullInv
<1>3. /\ p.next \in Nat
      /\ DOMAIN p.changes \subseteq Row
      /\ \A r \in DOMAIN p.changes : p.changes[r] \in RowState /\ p.changes[r].version \in Nat
      /\ lastSeq[d] \in Nat /\ \A r \in Row : local[d][r].version \in Nat
      /\ outbox[d] \in Seq(OutboxRow)
  BY <1>1, PullTypes, MergedIs DEF SyncTyped
<1>4. UNCHANGED <<row, head>>
  BY DEF Applies, vars
<1>5. \A r \in Row : row[r].version \in Nat
  BY DEF SyncTyped, Bounded, TypeOK, RowState
<1>6. \A r \in Row :
        \/ /\ r \in DOMAIN p.changes => p.changes[r].version <= local[d][r].version
           /\ local'[d][r].version = local[d][r].version
        \/ /\ r \in DOMAIN p.changes
           /\ local[d][r].version < p.changes[r].version
           /\ local'[d][r].version = p.changes[r].version
  <2>1. local'[d] = Merged(d)
    BY DEF Applies, SyncTyped, SyncTypeOK
  <2>2. \A r \in DOMAIN p.changes :
          Reapplied(d, r, p.changes[r]).version = p.changes[r].version
    BY <1>3, ReappliedIs
  <2>. QED
    BY <1>1, <2>1, <2>2, MergedIs
<1>7. \A c \in Device \ {d} : local'[c] = local[c] /\ lastSeq'[c] = lastSeq[c]
  BY DEF Applies, SyncTyped, SyncTypeOK
<1>8. lastSeq'[d] = p.next \/ lastSeq'[d] = lastSeq[d]
  BY DEF Applies, SyncTyped, SyncTypeOK
<1>9. \A c \in Device : sync'[c].phase = "apply" => c # d /\ sync'[c] = sync[c]
  BY DEF Applies, SyncTyped
<1>. HIDE DEF p
<1>10. lastSeq'[d] >= lastSeq[d] /\ lastSeq'[d] <= head
  BY <1>2, <1>3, <1>8 DEF PageSound, PullInv, p
<1>11. \A r \in Row : local'[d][r].version >= local[d][r].version
  BY <1>3, <1>6
<1>12. ASSUME NEW r \in Row
       PROVE  /\ local'[d][r].version <= row[r].version
              /\ Exists(r) /\ row[r].version <= lastSeq'[d]
                   => local'[d][r].version = row[r].version
  <2>1. /\ local[d][r].version <= row[r].version
        /\ Exists(r) /\ row[r].version <= lastSeq[d] => local[d][r].version = row[r].version
    BY DEF PullInv, PulledIsCurrent
  <2>2. r \in DOMAIN p.changes => p.changes[r].version <= row[r].version
    BY <1>2 DEF PageSound, p
  <2>3. Exists(r) /\ row[r].version <= p.next =>
          \/ local[d][r].version = row[r].version
          \/ r \in DOMAIN p.changes /\ p.changes[r].version = row[r].version
    BY <1>2 DEF PageSound, p
  <2>. QED
    BY <1>3, <1>5, <1>6, <1>8, <2>1, <2>2, <2>3
<1>13. PulledIsCurrent'
  <2>1. ASSUME NEW c \in Device \ {d}, NEW r \in Row
        PROVE  /\ local'[c][r].version <= row'[r].version
               /\ Exists(r)' /\ row'[r].version <= lastSeq'[c]
                    => local'[c][r].version = row'[r].version
    BY <1>4, <1>7 DEF PullInv, PulledIsCurrent, Exists
  <2>. QED
    BY <1>4, <1>12, <2>1 DEF PulledIsCurrent, Exists
<1>14. \A c \in Device : lastSeq'[c] <= head'
  BY <1>4, <1>7, <1>10 DEF PullInv
<1>15. ASSUME NEW c \in Device, sync'[c].phase = "apply" PROVE PageSound(c)'
  <2>1. c # d /\ sync'[c] = sync[c] /\ local'[c] = local[c] /\ lastSeq'[c] = lastSeq[c]
    BY <1>7, <1>9, <1>15
  <2>2. PageSound(c)
    BY <1>15, <2>1 DEF PullInv
  <2>. QED
    BY <1>4, <2>1, <2>2 DEF PageSound, Exists
<1>. QED
  BY <1>10, <1>11, <1>13, <1>14, <1>15 DEF PullInv

\* No device is taken back by a step.
Onward ==
  \A d \in Device : /\ lastSeq'[d] >= lastSeq[d]
                    /\ \A r \in Row : local'[d][r].version >= local[d][r].version

\* No step lets a device miss a change, or hold a version of the future.
LEMMA PullStep ==
  ASSUME SyncTyped, PullInv, [SyncNext]_allVars
  PROVE  PullInv' /\ Onward
<1>. DEFINE Quiet == /\ lastSeq' = lastSeq
                     /\ \A d \in Device : \A r \in Row :
                          local'[d][r].version = local[d][r].version
                     /\ \A d \in Device : sync'[d].phase = "apply" => sync'[d] = sync[d]
<1>1. /\ sync \in [Device -> Run] /\ local \in [Device -> [Row -> LocalRow]]
      /\ \A d \in Device : lastSeq[d] \in Nat
      /\ \A d \in Device : \A r \in Row : local[d][r].version \in Nat
  BY PullTypes DEF SyncTyped, SyncTypeOK
<1>2. Quiet => PullInv' /\ Onward
  <2>1. Quiet => PullInv'
    BY VaultMoves, PullQuiet
  <2>2. Quiet => Onward
    BY <1>1 DEF Onward
  <2>. QED
    BY <2>1, <2>2
<1>3. UNCHANGED allVars => Quiet
  BY DEF allVars, deviceVars
<1>4. ASSUME NEW d \in Device, NEW entries, Edits(d, entries) PROVE Quiet
  <2>1. PICK mine \in [Row -> LocalRow] :
          /\ local' = [local EXCEPT ![d] = mine]
          /\ \A r \in Row : mine[r].version = local[d][r].version
    BY <1>4 DEF Edits
  <2>2. lastSeq' = lastSeq /\ sync' = sync
    BY <1>4 DEF Edits, EditUnchanged
  <2>3. ASSUME NEW c \in Device, NEW r \in Row
        PROVE  local'[c][r].version = local[c][r].version
    BY <1>1, <2>1
  <2>. QED
    BY <2>2, <2>3
<1>5. ASSUME NEW d \in Device, NEW n \in DOMAIN outbox[d], Discard(d, n) PROVE Quiet
  BY <1>5 DEF Discard
<1>6. ASSUME NEW d \in Device, NEW phase \in {"idle", "pushing", "pull", "handle"},
             sync'[d].phase = phase, NEW x, sync' = [sync EXCEPT ![d] = x]
      PROVE  \A c \in Device : sync'[c].phase = "apply" => sync'[c] = sync[c]
  BY <1>1, <1>6
<1>7. ASSUME NEW d \in Device, NEW rs, NEW box, Turn(d, rs, box) PROVE Quiet
  <2>1. lastSeq' = lastSeq /\ local' = local /\ Sends(d, box)
    BY <1>7 DEF Turn
  <2>2. PICK phase \in {"idle", "pushing", "pull"} :
          sync' = [sync EXCEPT ![d] = [phase |-> phase, results |-> <<>>, page |-> <<>>]]
    BY <2>1 DEF Sends
  <2>3. sync'[d].phase = phase
    BY <1>1, <2>2
  <2>4. \A c \in Device : sync'[c].phase = "apply" => sync'[c] = sync[c]
    BY <1>6, <2>2, <2>3
  <2>. QED
    BY <2>1, <2>4
<1>8. ASSUME NEW d \in Device, Abort(d) PROVE Quiet
  <2>1. sync' = [sync EXCEPT ![d] = [Asleep EXCEPT !.phase = "idle"]]
        /\ lastSeq' = lastSeq /\ local' = local
    BY <1>8 DEF Abort, Goto
  <2>2. sync'[d].phase = "idle"
    BY <1>1, <2>1 DEF Asleep
  <2>3. \A c \in Device : sync'[c].phase = "apply" => sync'[c] = sync[c]
    BY <1>6, <2>1, <2>2
  <2>. QED
    BY <2>1, <2>3
<1>9. ASSUME NEW d \in Device, Unpause(d) PROVE Quiet
  BY <1>9 DEF Unpause
<1>10. Midnight \/ ServeOne => Quiet
  BY DEF Midnight, ServeOne, deviceVars
<1>11. ASSUME NEW m \in inflight, Deliver(m) PROVE Quiet
  BY <1>11 DEF Deliver, deviceVars
<1>12. Answer => Quiet
  <2>. SUFFICES ASSUME Answer PROVE Quiet
    OBVIOUS
  <2>1. lastSeq' = lastSeq /\ local' = local
    BY DEF Answer
  <2>2. \/ sync' = sync
        \/ sync' = [sync EXCEPT ![job.device] =
                      [Asleep EXCEPT !.phase = "handle", !.results = job.results]]
    BY DEF Answer
  <2>3. ASSUME NEW c \in Device, sync'[c].phase = "apply" PROVE sync'[c] = sync[c]
    BY <1>1, <2>2, <2>3 DEF Asleep
  <2>. QED
    BY <2>1, <2>3
<1>13. ASSUME NEW d \in Device, PullServe(d) PROVE PullInv' /\ Onward
  <2>1. PullInv'
    BY <1>13, PullServed
  <2>2. Onward
    BY <1>1, <1>13 DEF PullServe, Onward
  <2>. QED
    BY <2>1, <2>2
<1>14. ASSUME NEW d \in Device, Applies(d) PROVE PullInv' /\ Onward
  <2>1. /\ PullInv' /\ lastSeq'[d] >= lastSeq[d]
        /\ \A r \in Row : local'[d][r].version >= local[d][r].version
    BY <1>14, PullApplied
  <2>2. \A c \in Device \ {d} : local'[c] = local[c] /\ lastSeq'[c] = lastSeq[c]
    BY <1>14 DEF Applies, SyncTyped, SyncTypeOK
  <2>3. \A c \in Device \ {d} :
          /\ lastSeq'[c] >= lastSeq[c]
          /\ \A r \in Row : local'[c][r].version >= local[c][r].version
    BY <1>1, <2>2
  <2>. QED
    BY <2>1, <2>3 DEF Onward
<1>. HIDE DEF Quiet
<1>. DEFINE G == PullInv' /\ Onward
<1>15. Quiet => G
  BY <1>2
<1>16. \A d \in Device : PullServe(d) \/ Applies(d) => G
  BY <1>13, <1>14
<1>. HIDE DEF G
<1>17. G
  BY <1>3, <1>4, <1>5, <1>7, <1>8, <1>9, <1>10, <1>11, <1>12, <1>15, <1>16, SyncCases
<1>. QED
  BY <1>17 DEF G

\* At first there is nothing to pull.
LEMMA PullInit == SyncInit => PullInv
BY DEF SyncInit, Init, PullInv, PulledIsCurrent, Exists, Absent, NoRow, Asleep

\* What was pulled stays current in every state.
LEMMA PullAlways == SyncSpec => []PullInv
<1>1. SyncTyped /\ PullInv /\ [SyncNext]_allVars => PullInv'
  BY PullStep
<1>. QED
  BY <1>1, PullInit, SyncTypedAlways, PTL DEF SyncSpec

(* What lies below last_seq is on the device as the vault has it, whatever was written    *)
(* between two pages and wherever a run was cut off.                                      *)
THEOREM PulledStaysCurrent == SyncSpec => []PulledIsCurrent
<1>1. PullInv => PulledIsCurrent
  BY DEF PullInv
<1>. QED
  BY <1>1, PullAlways, PTL

(* No pull, late or cut off, takes last_seq or the version of a row back. *)
THEOREM PullsGoOnward == SyncSpec => NeverBack
<1>1. SyncTyped /\ PullInv /\ [SyncNext]_allVars =>
        [\A d \in Device : /\ lastSeq'[d] >= lastSeq[d]
                           /\ \A r \in Row :
                                local'[d][r].version >= local[d][r].version]_allVars
  BY PullStep DEF Onward
<1>. QED
  BY <1>1, PullAlways, SyncTypedAlways, PTL DEF SyncSpec, NeverBack
----------------------------------------------------------------------------
(***************************************************************************)
(* Pushing.                                                                *)
(***************************************************************************)
(* Serving an entry writes one record of it at most, none that it had before, and what is *)
(* acknowledged is in the log, or deletes a row that is deleted.                          *)
LEMMA ServeOneIs ==
  ASSUME SyncTyped, RowsReplayLog, pruned = 0, ServeOne
  PROVE  LET e == Head(job.todo)
         IN /\ job.todo \in Seq(Entry) /\ job.todo # <<>> /\ e \in Entry
            /\ job.results \in Seq(Result) /\ job.device \in Device
            /\ job'.device = job.device /\ job'.todo = Tail(job.todo)
            /\ \E x \in Result :
                 /\ job'.results = Append(job.results, x)
                 /\ x.id = e.id /\ x.row = e.row
                 /\ Acked(x) =>
                      \/ \E l \in log' : l.entry = e.id
                      \/ /\ e.op = "delete" /\ row'[e.row].deleted
                         /\ \E l \in log' : l.row = e.row /\ l.op = "delete"
            /\ log \subseteq log'
            /\ \A l \in log' : l \in log \/
                 (l.entry # None => /\ l.entry = e.id /\ l.row = e.row /\ l.op = e.op
                                    /\ l.op = "upsert" => l.fields = e.fields
                                    /\ l.device = job.device
                                    /\ \A k \in log : k.entry # e.id /\ k.seq < l.seq)
            /\ pruned' = pruned /\ aged' = aged
<1>. DEFINE e == Head(job.todo)
            res(status, version) == [id |-> e.id, row |-> e.row, status |-> status,
                                     version |-> version]
            told(status) == \E version \in Nat :
                              job' = [job EXCEPT !.todo = Tail(@),
                                                 !.results = Append(@, res(status, version))]
            done == \/ \E l \in log' : l.entry = e.id
                    \/ /\ e.op = "delete" /\ row'[e.row].deleted
                       /\ \E l \in log' : l.row = e.row /\ l.op = "delete"
            new(l) == l.entry # None => /\ l.entry = e.id /\ l.row = e.row /\ l.op = e.op
                                        /\ l.op = "upsert" => l.fields = e.fields
                                        /\ l.device = job.device
                                        /\ \A k \in log : k.entry # e.id /\ k.seq < l.seq
            P == /\ \E status \in Status : told(status) /\ (status \in {"applied", "duplicate"} => done)
                 /\ log \subseteq log'
                 /\ \A l \in log' : l \in log \/ new(l)
                 /\ pruned' = pruned /\ aged' = aged
<1>1. job.todo # <<>> /\ Serve(e) /\ TypeOK /\ Bounded
  BY DEF ServeOne, SyncTyped, Bounded
<1>2. /\ e \in Entry
      /\ job \in [device: Device, todo: Seq(Entry), results: Seq(Result)]
      /\ Tail(job.todo) \in Seq(Entry)
  BY <1>1, HeadTyped
<1>3. /\ row \in [Row -> RowState] /\ head \in Nat /\ e.row \in Row /\ e.id \in EntryId
      /\ \A l \in log : l.seq \in Nat /\ l.seq <= head
      /\ Logged(e) = {l \in log : l.entry = e.id}
  <2>1. \A l \in log : l.seq \in 1..head
    BY <1>1 DEF Bounded, LogBounded
  <2>2. row \in [Row -> RowState] /\ head \in Nat /\ e.row \in Row /\ e.id \in EntryId
    BY <1>1, <1>2 DEF TypeOK, Entry
  <2>3. Logged(e) = {l \in log : l.entry = e.id}
    BY <2>1, <2>2 DEF Logged
  <2>. QED
    BY <2>1, <2>2, <2>3
<1>4. \A status, version : Reply(e, status, version) /\ version \in Nat => told(status)
  BY DEF Reply
<1>16. ASSUME NEW status \in Status, told(status), status \in {"applied", "duplicate"} => done,
              log \subseteq log', \A l \in log' : l \in log \/ new(l),
              pruned' = pruned, aged' = aged
       PROVE  P
  BY <1>16
<1>17. ASSUME NEW status \in Status, told(status), status \in {"applied", "duplicate"} => done,
              UNCHANGED <<log, pruned, aged>>
       PROVE  P
  BY <1>16, <1>17
<1>18. /\ "applied" \in Status /\ "duplicate" \in Status /\ "deferred" \in Status
       /\ "rejected" \in Status /\ "conflict" \in Status
  BY DEF Status
<1>. HIDE DEF e, told, P
<1>5. ASSUME ReplyDuplicate(e) PROVE P
  <2>1. PICK l \in Logged(e) : Reply(e, "duplicate", l.seq)
    BY <1>5 DEF ReplyDuplicate
  <2>2. told("duplicate") /\ l \in log /\ l.entry = e.id
    BY <1>3, <1>4, <2>1
  <2>3. UNCHANGED <<log, pruned, aged>>
    BY <1>5 DEF ReplyDuplicate
  <2>4. done
    BY <2>2, <2>3
  <2>. HIDE DEF done, new
  <2>. QED
    BY <1>17, <1>18, <2>2, <2>3, <2>4
<1>6. ASSUME ReplyDeferred(e) \/ ReplyRejected(e) \/ ReplyConflict(e) PROVE P
  <2>1. told("deferred") \/ told("rejected") \/ told("conflict")
    BY <1>4, <1>6 DEF ReplyDeferred, ReplyRejected, ReplyConflict
  <2>2. UNCHANGED <<log, pruned, aged>>
    BY <1>6 DEF ReplyDeferred, ReplyRejected, ReplyConflict
  <2>. HIDE DEF done, new
  <2>. QED
    BY <1>17, <1>18, <2>1, <2>2
<1>7. ASSUME ReplyAlreadyDeleted(e) PROVE P
  <2>1. row[e.row].version \in Nat
    BY <1>3 DEF RowState
  <2>2. told("applied") /\ e.op = "delete" /\ row[e.row].deleted
    BY <1>4, <1>7, <2>1 DEF ReplyAlreadyDeleted
  <2>3. UNCHANGED <<log, pruned, aged>>
    BY <1>7 DEF ReplyAlreadyDeleted
  <2>6. row' = row
    BY <1>7 DEF ReplyAlreadyDeleted
  <2>4. \E l \in log : l.row = e.row /\ l.op = "delete"
    <3>1. ~Absent.deleted
      BY DEF Absent
    <3>2. row[e.row].version # 0
      BY <1>3, <2>2, <3>1 DEF RowsReplayLog
    <3>. QED
      BY <1>3, <2>2, <3>2 DEF RowsReplayLog
  <2>5. done
    BY <2>2, <2>3, <2>4, <2>6
  <2>. HIDE DEF done, new
  <2>. QED
    BY <1>17, <1>18, <2>2, <2>3, <2>5
<1>8. ASSUME Upsert(e) PROVE P
  <2>. DEFINE rec == [seq |-> head + 1, row |-> e.row, op |-> "upsert",
                      fields |-> e.fields, entry |-> e.id, device |-> job.device,
                      lost |-> Overwritten(e)]
  <2>1. log' = log \cup {rec} /\ pruned' = pruned /\ aged' = aged
        /\ Reply(e, "applied", head + 1) /\ Logged(e) = {}
    BY <1>8 DEF Upsert, Admitted
  <2>2. told("applied")
    BY <1>3, <1>4, <2>1
  <2>3. \A k \in log : k.entry # e.id /\ k.seq < head + 1
    BY <1>3, <2>1
  <2>4. /\ rec.entry = e.id /\ rec.row = e.row /\ rec.device = job.device /\ rec.seq = head + 1
        /\ rec.op = "upsert" /\ e.op = "upsert" /\ rec.fields = e.fields
    BY <1>8 DEF Upsert
  <2>. HIDE DEF rec
  <2>5. done /\ log \subseteq log' /\ \A l \in log' : l \in log \/ new(l)
    BY <2>1, <2>3, <2>4
  <2>. HIDE DEF done, new
  <2>. QED
    BY <1>16, <1>18, <2>1, <2>2, <2>5
<1>9. ASSUME Tombstone(e) PROVE P
  <2>. DEFINE kids == Children(e.row)
              n == Cardinality(kids)
  <2>1. PICK place \in Bijection(kids, 1..n) :
          log' = log \cup {Removal(e.row, head + 1, e.id)}
                     \cup {Removal(k, head + 1 + place[k], None) : k \in kids}
    BY <1>9 DEF Tombstone
  <2>2. pruned' = pruned /\ aged' = aged /\ Reply(e, "applied", head + 1) /\ Logged(e) = {}
        /\ e.op = "delete"
    BY <1>9 DEF Tombstone, Admitted
  <2>3. told("applied")
    BY <1>3, <1>4, <2>2
  <2>4. \A k \in log : k.entry # e.id /\ k.seq < head + 1
    BY <1>3, <2>2
  <2>5. \A r, seq, i : /\ Removal(r, seq, i).entry = i /\ Removal(r, seq, i).row = r
                       /\ Removal(r, seq, i).op = "delete"
                       /\ Removal(r, seq, i).seq = seq
                       /\ Removal(r, seq, i).device = job.device
    BY DEF Removal
  <2>. HIDE DEF kids, n
  <2>6. ASSUME NEW l \in log' PROVE l \in log \/ new(l)
    <3>1. CASE l = Removal(e.row, head + 1, e.id)
      BY <2>2, <2>4, <2>5, <3>1
    <3>2. CASE \E k \in kids : l = Removal(k, head + 1 + place[k], None)
      BY <2>5, <3>2
    <3>. QED
      BY <2>1, <3>1, <3>2
  <2>7. done
    BY <2>1, <2>5
  <2>8. log \subseteq log'
    BY <2>1
  <2>. HIDE DEF done, new
  <2>. QED
    BY <1>16, <1>18, <2>2, <2>3, <2>6, <2>7, <2>8
<1>10. P
  BY <1>1, <1>5, <1>6, <1>7, <1>8, <1>9 DEF Serve
<1>. USE DEF P
<1>11. PICK status \in Status, version \in Nat :
         /\ job' = [job EXCEPT !.todo = Tail(@), !.results = Append(@, res(status, version))]
         /\ status \in {"applied", "duplicate"} => done
  <2>1. PICK status \in Status : told(status) /\ (status \in {"applied", "duplicate"} => done)
    BY <1>10
  <2>2. PICK version \in Nat :
          job' = [job EXCEPT !.todo = Tail(@), !.results = Append(@, res(status, version))]
    BY <2>1 DEF told
  <2>. QED
    BY <2>1, <2>2
<1>. DEFINE x == res(status, version)
<1>12. x \in Result /\ x.id = e.id /\ x.row = e.row /\ (Acked(x) => done)
  BY <1>3, <1>11 DEF Result, Acked
<1>. HIDE DEF x
<1>13. job'.device = job.device /\ job'.todo = Tail(job.todo)
       /\ job'.results = Append(job.results, x)
  BY <1>2, <1>11 DEF x
<1>14. job.todo \in Seq(Entry) /\ job.results \in Seq(Result) /\ job.device \in Device
  BY <1>2
<1>15. \E y \in Result :
         /\ job'.results = Append(job.results, y)
         /\ y.id = e.id /\ y.row = e.row
         /\ Acked(y) => done
  BY <1>12, <1>13
<1>. QED
  BY <1>1, <1>2, <1>10, <1>13, <1>14, <1>15 DEF e

\* The edits made are outbox rows, by their numbers.
LEMMA MadeTyped ==
  ASSUME SyncTyped
  PROVE  /\ made \in Seq(OutboxRow) /\ DOMAIN made = 1..Len(made) /\ Len(made) \in Nat
         /\ \A i \in DOMAIN made : i \in Nat /\ made[i] \in OutboxRow
BY DEF SyncTyped, SyncTypeOK

(* A step that moves requests and answers along, and nothing else. *)
LEMMA Carried ==
  ASSUME Delivering, UNCHANGED <<outbox, made, dropped, log>>,
         \A d \in Device : \A i : /\ Flies(d, i)' => Flies(d, i)
                                  /\ Told(d, i)' => Told(d, i)
                                  /\ Awaits(d, i)' => Awaits(d, i)
  PROVE  Delivering'
<1>1. /\ \A d, i : Waits(d, i)' <=> Waits(d, i)
      /\ \A d, i : Blocked(d, i)' <=> Blocked(d, i)
      /\ \A d, i : Wrote(d, i)' <=> Wrote(d, i)
      /\ \A i : Done(i)' <=> Done(i)
      /\ \A i : Standing(i)' <=> Standing(i)
      /\ \A i, b : FoundDeleted(i, b)' <=> FoundDeleted(i, b)
  BY DEF Waits, Blocked, Wrote, Done, Standing, FoundDeleted
<1>2. BoxesOrdered' /\ NoEditLost'
  BY DEF Delivering, BoxesOrdered, NoEditLost
<1>3. AwaitedUnblocked'
  BY <1>1 DEF Delivering, AwaitedUnblocked
<1>4. FlyingKept'
  BY <1>1 DEF Delivering, FlyingKept
<1>5. InTurn'
  BY <1>1 DEF Delivering, InTurn
<1>6. LateIsCopy'
  BY <1>1 DEF Delivering, LateIsCopy
<1>7. OrderKept'
  BY <1>1 DEF Delivering, OrderKept
<1>. QED
  BY <1>2, <1>3, <1>4, <1>5, <1>6, <1>7 DEF Delivering

(* A run that pulls, or pauses, has nothing under way. *)
LEMMA QuietPush ==
  ASSUME Recorded, Delivering,
         UNCHANGED <<outbox, made, dropped, log, job, inflight, answered>>,
         \A d \in Device : /\ sync'[d].results = sync[d].results
                           /\ sync[d].phase = "pushing" => sync'[d].phase = "pushing",
         SyncTyped
  PROVE  Recorded' /\ Delivering'
<1>1. Delivering'
  <2>1. \A d \in Device : \A i : /\ Flies(d, i)' => Flies(d, i)
                                 /\ Told(d, i)' => Told(d, i)
                                 /\ Awaits(d, i)' => Awaits(d, i)
    BY DEF Flies, Told, Awaits
  <2>. QED
    BY <2>1, Carried
<1>2. Consistent'
  BY DEF Recorded, Consistent, Known
<1>3. AnswersTrue'
  BY DEF Recorded, AnswersTrue, Truthful, Done, Acked
<1>4. OneRequest'
  <2>1. \A m \in inflight : m.device \in Device
    BY DEF SyncTyped, SyncTypeOK
  <2>2. answered => job.device \in Device
    BY DEF Recorded, OneRequest, SyncTyped, Bounded, TypeOK
  <2>. QED
    BY <2>1, <2>2 DEF Recorded, OneRequest
<1>. QED
  BY <1>1, <1>2, <1>3, <1>4 DEF Recorded

(* A device that gives up waits for no answer. *)
LEMMA AbortPush ==
  ASSUME SyncTyped, Recorded, Delivering, NEW d \in Device, Abort(d)
  PROVE  Recorded' /\ Delivering'
<1>. DEFINE lone(m) == IF m.device = d THEN [m EXCEPT !.awaited = FALSE] ELSE m
<1>1. /\ inflight' = {lone(m) : m \in inflight}
      /\ UNCHANGED <<outbox, made, dropped, log, job, answered>>
      /\ sync' = [sync EXCEPT ![d] = [Asleep EXCEPT !.phase = "idle"]]
  BY DEF Abort, Goto, vars
<1>2. job = Idle /\ ~answered
  BY DEF Abort, Recorded, OneRequest
<1>3. /\ sync'[d].results = <<>>
      /\ \A c \in Device \ {d} : sync'[c] = sync[c]
  BY <1>1 DEF SyncTyped, Asleep
<1>4. \A m \in inflight : m \in [device: Device, entries: Seq(Entry), awaited: BOOLEAN]
  BY DEF SyncTyped, SyncTypeOK
<1>5. \A m \in inflight : /\ lone(m).device = m.device /\ lone(m).entries = m.entries
                          /\ lone(m).awaited <=> m.awaited /\ m.device # d
  BY <1>4
<1>. HIDE DEF lone
<1>6. \A c \in Device : \A i : /\ Flies(c, i)' => Flies(c, i)
                               /\ Told(c, i)' => Told(c, i)
                               /\ Awaits(c, i)' => Awaits(c, i)
  <2>1. ASSUME NEW c \in Device, NEW i, Flies(c, i)' PROVE Flies(c, i)
    BY <1>1, <1>5, <2>1 DEF Flies
  <2>2. ASSUME NEW c \in Device, NEW i, Told(c, i)' PROVE Told(c, i)
    BY <1>1, <1>3, <2>2 DEF Told
  <2>3. ASSUME NEW c \in Device, NEW i, Awaits(c, i)' PROVE Awaits(c, i)
    BY <1>1, <1>2, <1>3, <1>5, <2>3 DEF Awaits
  <2>. QED
    BY <2>1, <2>2, <2>3
<1>7. Delivering'
  BY <1>1, <1>6, Carried
<1>8. Consistent'
  BY <1>1, <1>5 DEF Recorded, Consistent, Known
<1>9. AnswersTrue'
  BY <1>1, <1>3 DEF Recorded, AnswersTrue, Truthful, Done, Acked
<1>10. OneRequest'
  <2>1. \A m \in inflight : m.awaited /\ m.device # d => sync'[m.device].phase = "pushing"
    BY <1>3, <1>4 DEF Recorded, OneRequest
  <2>2. \A m, k \in inflight : m.awaited /\ k.awaited /\ m.device = k.device => m = k
    BY DEF Recorded, OneRequest
  <2>3. \A m \in inflight' : m.awaited => sync'[m.device].phase = "pushing"
    BY <1>1, <1>5, <2>1
  <2>4. \A m, k \in inflight' : m.awaited /\ k.awaited /\ m.device = k.device => m = k
    BY <1>1, <1>5, <2>2
  <2>. QED
    BY <1>1, <1>2, <2>3, <2>4 DEF OneRequest
<1>. QED
  BY <1>7, <1>8, <1>9, <1>10 DEF Recorded

(* A request that reaches the vault is served as it was sent. *)
LEMMA DeliverPush ==
  ASSUME SyncTyped, Recorded, Delivering, NEW m \in inflight, Deliver(m)
  PROVE  Recorded' /\ Delivering'
<1>1. /\ job = Idle
      /\ job' = [device |-> m.device, todo |-> m.entries, results |-> <<>>]
      /\ inflight' = inflight \ {m}
      /\ answered' = m.awaited
      /\ UNCHANGED <<outbox, made, dropped, log, sync>>
  BY DEF Deliver, PushBegin, deviceVars
<1>2. m \in [device: Device, entries: Seq(Entry), awaited: BOOLEAN]
  BY DEF SyncTyped, SyncTypeOK
<1>3. \A c \in Device : \A i : /\ Flies(c, i)' => Flies(c, i)
                               /\ Told(c, i)' => Told(c, i)
                               /\ Awaits(c, i)' => Awaits(c, i)
  <2>1. ASSUME NEW c \in Device, NEW i, Flies(c, i)' PROVE Flies(c, i)
    BY <1>1, <2>1 DEF Flies
  <2>2. ASSUME NEW c \in Device, NEW i, Told(c, i)' PROVE Told(c, i)
    BY <1>1, <2>2 DEF Told
  <2>3. ASSUME NEW c \in Device, NEW i, Awaits(c, i)' PROVE Awaits(c, i)
    BY <1>1, <2>3 DEF Awaits
  <2>. QED
    BY <2>1, <2>2, <2>3
<1>4. Delivering'
  BY <1>1, <1>3, Carried
<1>5. Consistent'
  BY <1>1 DEF Recorded, Consistent, Known
<1>6. AnswersTrue'
  BY <1>1 DEF Recorded, AnswersTrue, Truthful, Done, Acked
<1>7. OneRequest'
  <2>1. job' # Idle
    BY <1>1, <1>2, RowsAssumption DEF Idle
  <2>. QED
    BY <1>1, <2>1 DEF Recorded, OneRequest
<1>. QED
  BY <1>4, <1>5, <1>6, <1>7 DEF Recorded

(* An answer is handed to the device that waits for it, or lost. *)
LEMMA AnswerPush ==
  ASSUME SyncTyped, Recorded, Delivering, Answer
  PROVE  Recorded' /\ Delivering'
<1>1. /\ job # Idle /\ job' = Idle /\ ~answered'
      /\ UNCHANGED <<outbox, made, dropped, log, inflight>>
      /\ IF answered
         THEN sync' = [sync EXCEPT ![job.device] =
                         [phase |-> "handle", results |-> job.results, page |-> <<>>]]
         ELSE sync' = sync
  BY DEF Answer, PushEnd, Asleep
<1>2. job \in [device: Device, todo: Seq(Entry), results: Seq(Result)]
  BY <1>1 DEF SyncTyped, Bounded, TypeOK
<1>3. /\ \A c \in Device \ {job.device} : sync'[c] = sync[c]
      /\ answered => /\ sync'[job.device].results = job.results
                     /\ sync'[job.device].phase = "handle"
      /\ ~answered => sync'[job.device] = sync[job.device]
  BY <1>1, <1>2 DEF SyncTyped
<1>4. /\ Idle.todo = <<>> /\ Idle.results = <<>> /\ Idle.device = None
      /\ DOMAIN <<>> = {}
  BY DEF Idle
<1>5. \A c \in Device : \A i : /\ Flies(c, i)' => Flies(c, i)
                               /\ Told(c, i)' => Told(c, i)
                               /\ Awaits(c, i)' => Awaits(c, i)
  <2>1. ASSUME NEW c \in Device, NEW i, Flies(c, i)' PROVE Flies(c, i)
    BY <1>1, <1>4, <2>1 DEF Flies
  <2>2. ASSUME NEW c \in Device, NEW i, Told(c, i)' PROVE Told(c, i)
    BY <1>1, <1>3, <1>4, <2>2 DEF Told
  <2>3. ASSUME NEW c \in Device, NEW i, Awaits(c, i)' PROVE Awaits(c, i)
    BY <1>1, <1>3, <1>4, <2>3 DEF Awaits
  <2>. QED
    BY <2>1, <2>2, <2>3
<1>6. Delivering'
  BY <1>1, <1>5, Carried
<1>7. Consistent'
  BY <1>1, <1>4 DEF Recorded, Consistent, Known
<1>8. AnswersTrue'
  BY <1>1, <1>3, <1>4 DEF Recorded, AnswersTrue, Truthful, Done, Acked
<1>9. OneRequest'
  <2>1. \A k \in inflight : k.device \in Device
    BY DEF SyncTyped, SyncTypeOK
  <2>2. ASSUME NEW k \in inflight, k.awaited PROVE sync'[k.device].phase = "pushing"
    <3>1. sync[k.device].phase = "pushing" /\ (answered => k.device # job.device)
      BY <2>2 DEF Recorded, OneRequest
    <3>. QED
      BY <1>3, <2>1, <3>1
  <2>. QED
    BY <1>1, <2>2 DEF Recorded, OneRequest
<1>. QED
  BY <1>6, <1>7, <1>8, <1>9 DEF Recorded

(* Of two edits of a row under way the earlier one has been answered. *)
LEMMA PairsOrdered ==
  ASSUME SyncTyped, FlyingKept, InTurn,
         NEW d \in Device, NEW i \in DOMAIN made, NEW j \in DOMAIN made,
         Flies(d, i), Flies(d, j), made[i].row = made[j].row, i < j
  PROVE  ~Standing(i) \/ Done(i)
<1>1. SUFFICES ASSUME Waits(d, i) PROVE FALSE
  BY DEF FlyingKept
<1>2. j <= i
  BY <1>1 DEF InTurn
<1>3. i \in Nat /\ j \in Nat
  BY MadeTyped
<1>. QED
  BY <1>2, <1>3

\* What is under way or written is of an edit that was made.
LEMMA OnlyMade ==
  ASSUME Recorded, NEW d \in Device, NEW i, i # None,
         Flies(d, i) \/ Told(d, i) \/ Wrote(d, i) \/ Waits(d, i) \/ Blocked(d, i) \/ Awaits(d, i)
  PROVE  i \in DOMAIN made
<1>1. Consistent /\ AnswersTrue
  BY DEF Recorded
<1>2. Flies(d, i) => i \in DOMAIN made
  BY <1>1 DEF Flies, Consistent, Known
<1>3. Told(d, i) => i \in DOMAIN made
  BY <1>1 DEF Told, AnswersTrue, Truthful
<1>4. Wrote(d, i) => i \in DOMAIN made
  BY <1>1 DEF Wrote, Consistent
<1>5. Waits(d, i) \/ Blocked(d, i) => i \in DOMAIN made
  BY <1>1 DEF Waits, Blocked, Consistent, Known
<1>6. Awaits(d, i) => Flies(d, i) \/ Told(d, i)
  BY DEF Awaits, Flies, Told
<1>. QED
  BY <1>2, <1>3, <1>4, <1>5, <1>6

(* A discarded entry stands no longer. *)
LEMMA DiscardPush ==
  ASSUME SyncTyped, Recorded, Delivering, NEW d \in Device, NEW n \in DOMAIN outbox[d],
         Discard(d, n)
  PROVE  Recorded' /\ Delivering'
<1>. DEFINE old == outbox[d]
<1>1. PICK box \in Seq(OutboxRow) :
        /\ outbox' = [outbox EXCEPT ![d] = box]
        /\ Len(box) = Len(old) - 1
        /\ \A k \in DOMAIN box : box[k] = IF k < n THEN old[k] ELSE old[k + 1]
  BY DiscardIs DEF SyncTyped
<1>2. /\ dropped' = dropped \cup {old[n].id}
      /\ UNCHANGED <<made, log, job, inflight, answered, sync>>
  BY DEF Discard, vars, netVars
<1>3. /\ outbox \in [Device -> Seq(OutboxRow)] /\ old \in Seq(OutboxRow)
      /\ n \in 1..Len(old) /\ Len(old) \in Nat
  BY DEF SyncTyped
<1>4. outbox'[d] = box /\ \A c \in Device \ {d} : outbox'[c] = outbox[c]
  BY <1>1, <1>3
<1>. HIDE DEF old
<1>5. ASSUME NEW k \in DOMAIN box
      PROVE  \E m \in DOMAIN old : m # n /\ box[k] = old[m] /\ k <= m /\ m <= k + 1
                                   /\ (m = k <=> k < n)
  <2>1. k \in 1..(Len(old) - 1)
    BY <1>1, <1>3
  <2>2. CASE k < n
    BY <1>1, <1>3, <2>1, <2>2
  <2>3. CASE ~(k < n)
    <3>1. box[k] = old[k + 1]
      BY <1>1, <2>3
    <3>2. k + 1 \in DOMAIN old /\ k + 1 # n /\ k + 1 # k /\ k <= k + 1
      BY <1>3, <2>1, <2>3
    <3>. QED
      BY <2>3, <3>1, <3>2
  <2>. QED
    BY <2>2, <2>3
<1>6. ASSUME NEW m \in DOMAIN old, m # n
      PROVE  \E k \in DOMAIN box : box[k] = old[m]
  <2>1. CASE m < n
    <3>1. m \in DOMAIN box
      BY <1>1, <1>3, <2>1
    <3>. QED
      BY <1>1, <2>1, <3>1
  <2>2. CASE m > n
    <3>1. m - 1 \in DOMAIN box /\ ~(m - 1 < n) /\ (m - 1) + 1 = m
      BY <1>1, <1>3, <2>2
    <3>. QED
      BY <1>1, <3>1
  <2>. QED
    BY <1>3, <1>6, <2>1, <2>2
<1>7. \A c \in Device : \A i : /\ Waits(c, i)' => Waits(c, i)
                               /\ Blocked(c, i)' => Blocked(c, i)
  <2>1. \A k \in DOMAIN box : \E m \in DOMAIN old : box[k] = old[m]
    BY <1>5
  <2>. QED
    BY <1>4, <2>1 DEF Waits, Blocked, old
<1>8. \A c \in Device : \A i : Waits(c, i) => Waits(c, i)' \/ i \in dropped'
  BY <1>2, <1>4, <1>6 DEF Waits, old
<1>9. \A i : ~Standing(i) => ~Standing(i)'
  <2>1. ASSUME NEW i, NEW c \in Device, NEW m \in DOMAIN outbox[c],
               outbox[c][m].id = i, outbox[c][m].blocked
        PROVE  ~Standing(i)'
    <3>1. CASE c # d
      BY <1>4, <2>1, <3>1 DEF Standing
    <3>2. CASE c = d /\ m = n
      BY <1>2, <2>1, <3>2 DEF Standing, old
    <3>3. CASE c = d /\ m # n
      <4>1. PICK k \in DOMAIN box : box[k] = old[m]
        BY <1>6, <2>1, <3>3 DEF old
      <4>. QED
        BY <1>4, <2>1, <3>3, <4>1 DEF Standing, old
    <3>. QED
      BY <3>1, <3>2, <3>3
  <2>2. \A i : i \in dropped => ~Standing(i)'
    BY <1>2 DEF Standing
  <2>. QED
    BY <2>1, <2>2 DEF Standing
<1>10. \A c \in Device : \A i : /\ Flies(c, i)' <=> Flies(c, i)
                                /\ Told(c, i)' <=> Told(c, i)
                                /\ Awaits(c, i)' <=> Awaits(c, i)
                                /\ Wrote(c, i)' <=> Wrote(c, i)
  BY <1>2 DEF Flies, Told, Awaits, Wrote
<1>11. (\A i : Done(i)' <=> Done(i)) /\ \A i, b : FoundDeleted(i, b)' <=> FoundDeleted(i, b)
  BY <1>2 DEF Done, FoundDeleted
<1>12. BoxesOrdered'
  <2>1. ASSUME NEW k \in DOMAIN box, NEW l \in DOMAIN box, k < l
        PROVE  box[k].id < box[l].id
    <3>1. PICK m \in DOMAIN old : box[k] = old[m] /\ k <= m /\ m <= k + 1 /\ (m = k <=> k < n)
      BY <1>5
    <3>2. PICK q \in DOMAIN old : box[l] = old[q] /\ l <= q /\ q <= l + 1 /\ (q = l <=> l < n)
      BY <1>5
    <3>3. k \in Nat /\ l \in Nat /\ m \in Nat /\ q \in Nat /\ n \in Nat
      BY <1>1, <1>3
    <3>4. m < q
      BY <2>1, <3>1, <3>2, <3>3
    <3>. QED
      BY <3>1, <3>2, <3>4 DEF Delivering, BoxesOrdered, old
  <2>2. \A c \in Device : \A m, q \in DOMAIN outbox'[c] :
          m < q => outbox'[c][m].id < outbox'[c][q].id
    BY <1>4, <2>1 DEF Delivering, BoxesOrdered
  <2>3. \A c \in Device : \A k \in DOMAIN outbox'[c] :
          \E m \in DOMAIN outbox[c] : outbox'[c][k] = outbox[c][m]
    BY <1>4, <1>5 DEF old
  <2>4. \A b, c \in Device : \A m \in DOMAIN outbox'[b], q \in DOMAIN outbox'[c] :
          outbox'[b][m].id = outbox'[c][q].id => b = c
    BY <2>3 DEF Delivering, BoxesOrdered
  <2>. QED
    BY <2>2, <2>4 DEF BoxesOrdered
<1>13. AwaitedUnblocked'
  BY <1>7, <1>10 DEF Delivering, AwaitedUnblocked
<1>14. NoEditLost'
  <2>1. ASSUME NEW i \in DOMAIN made, NEW c \in Device, NEW m \in DOMAIN outbox[c],
               outbox[c][m].id = i
        PROVE  i \in dropped' \/ \E q \in DOMAIN outbox'[c] : outbox'[c][q].id = i
    <3>1. CASE c # d
      BY <1>4, <2>1, <3>1
    <3>2. CASE c = d
      BY <1>2, <1>4, <1>6, <2>1, <3>2 DEF old
    <3>. QED
      BY <3>1, <3>2
  <2>. QED
    BY <1>2, <2>1 DEF Delivering, NoEditLost
<1>15. FlyingKept'
  <2>1. \A i : i \in dropped' => ~Standing(i)'
    BY DEF Standing
  <2>. QED
    BY <1>2, <1>8, <1>9, <1>10, <1>11, <2>1 DEF Delivering, FlyingKept
<1>16. InTurn'
  BY <1>2, <1>7, <1>10 DEF Delivering, InTurn
<1>17. LateIsCopy'
  BY <1>2, <1>9, <1>10, <1>11 DEF Delivering, LateIsCopy
<1>18. OrderKept'
  BY <1>2, <1>9, <1>11 DEF Delivering, OrderKept
<1>19. Consistent'
  <2>1. \A c \in Device : \A k \in DOMAIN outbox'[c] :
          \E m \in DOMAIN outbox[c] : outbox'[c][k] = outbox[c][m]
    BY <1>4, <1>5 DEF old
  <2>. QED
    BY <1>2, <2>1 DEF Recorded, Consistent, Known
<1>20. AnswersTrue' /\ OneRequest'
  BY <1>2 DEF Recorded, AnswersTrue, Truthful, Done, Acked, OneRequest
<1>. QED
  BY <1>12, <1>13, <1>14, <1>15, <1>16, <1>17, <1>18, <1>19, <1>20 DEF Recorded, Delivering

(* New entries follow every edit ever made. *)
LEMMA EditsPush ==
  ASSUME SyncTyped, Recorded, Delivering, NEW d \in Device, NEW entries, Edits(d, entries)
  PROVE  Recorded' /\ Delivering'
<1>. DEFINE old == outbox[d]
            c0 == Len(made)
            box == old \o entries
<1>1. /\ entries \in Seq(OutboxRow)
      /\ \A n \in DOMAIN entries : entries[n].id = c0 + n /\ ~entries[n].blocked
      /\ outbox' = [outbox EXCEPT ![d] = box]
      /\ made' = made \o entries
      /\ UNCHANGED <<log, job, inflight, answered, sync, dropped>>
  BY DEF Edits, EditUnchanged, vars, netVars
<1>2. /\ outbox \in [Device -> Seq(OutboxRow)] /\ old \in Seq(OutboxRow)
      /\ made \in Seq(OutboxRow) /\ DOMAIN made = 1..c0 /\ c0 \in Nat
  BY MadeTyped DEF SyncTyped
<1>3. outbox'[d] = box /\ \A c \in Device \ {d} : outbox'[c] = outbox[c]
  BY <1>1, <1>2
<1>. HIDE DEF old
<1>4. /\ Len(old) \in Nat /\ Len(entries) \in Nat /\ DOMAIN old = 1..Len(old)
      /\ DOMAIN entries = 1..Len(entries) /\ DOMAIN box = 1..(Len(old) + Len(entries))
  BY <1>1, <1>2
<1>5. \A n \in DOMAIN old : n \in DOMAIN box /\ box[n] = old[n]
  BY <1>1, <1>2
<1>6. \A n \in DOMAIN entries : Len(old) + n \in DOMAIN box /\ box[Len(old) + n] = entries[n]
  BY <1>1, <1>2
<1>7. ASSUME NEW n \in DOMAIN box
      PROVE  n \in DOMAIN old \/ \E k \in DOMAIN entries : n = Len(old) + k
  <2>1. CASE n > Len(old)
    <3>1. n - Len(old) \in DOMAIN entries /\ n = Len(old) + (n - Len(old))
      BY <1>4, <2>1
    <3>. QED
      BY <3>1
  <2>. QED
    BY <1>4, <2>1
<1>8. \A i \in DOMAIN made : i \in DOMAIN made' /\ made'[i] = made[i] /\ i \in Nat /\ i <= c0
  BY <1>1, <1>2
<1>9. \A n \in DOMAIN entries : c0 + n \in DOMAIN made' /\ made'[c0 + n] = entries[n]
  BY <1>1, <1>2
<1>10. ASSUME NEW i \in DOMAIN made', i \notin DOMAIN made
       PROVE  /\ i \in Nat /\ i > c0
              /\ \E n \in DOMAIN entries : i = c0 + n
  <2>1. i \in 1..(c0 + Len(entries))
    BY <1>1, <1>2
  <2>2. i > c0
    BY <1>2, <1>10, <2>1
  <2>3. i - c0 \in DOMAIN entries /\ i = c0 + (i - c0)
    BY <1>2, <1>4, <2>1, <2>2
  <2>. QED
    BY <1>2, <2>1, <2>2, <2>3
<1>. HIDE DEF box
<1>11. \A n \in DOMAIN box : box[n] \in OutboxRow
  <2>1. /\ \A n \in DOMAIN old : old[n] \in OutboxRow
        /\ \A n \in DOMAIN entries : entries[n] \in OutboxRow
    BY <1>1, <1>2
  <2>. QED
    BY <1>5, <1>6, <1>7, <2>1
<1>12. \A n \in DOMAIN entries : entries[n].id = c0 + n /\ entries[n].id \in Nat
                                 /\ entries[n].id > c0 /\ entries[n].id \notin DOMAIN made
  BY <1>1, <1>2, <1>4
<1>13. ASSUME NEW c \in Device, NEW n \in DOMAIN outbox[c]
       PROVE  /\ outbox[c][n].id \in DOMAIN made /\ outbox[c][n].id <= c0
              /\ n \in DOMAIN outbox'[c] /\ outbox'[c][n] = outbox[c][n]
  <2>1. outbox[c][n].id \in DOMAIN made
    BY DEF Recorded, Consistent, Known
  <2>. QED
    BY <1>3, <1>5, <1>8, <2>1 DEF old
<1>14. ASSUME NEW c \in Device, NEW n \in DOMAIN outbox'[c]
       PROVE  \/ n \in DOMAIN outbox[c] /\ outbox'[c][n] = outbox[c][n]
              \/ c = d /\ \E k \in DOMAIN entries : n = Len(old) + k /\ outbox'[c][n] = entries[k]
  <2>1. CASE c # d
    BY <1>3, <2>1
  <2>2. CASE c = d
    BY <1>3, <1>5, <1>6, <1>7, <2>2 DEF old
  <2>. QED
    BY <2>1, <2>2
<1>15. \A c \in Device : \A i \in DOMAIN made : /\ Waits(c, i)' => Waits(c, i)
                                                /\ Waits(c, i) => Waits(c, i)'
  BY <1>12, <1>13, <1>14 DEF Waits
<1>16. \A c \in Device : \A i : /\ Blocked(c, i)' => Blocked(c, i)
                                /\ Blocked(c, i) => Blocked(c, i)'
  BY <1>1, <1>13, <1>14 DEF Blocked
<1>17. \A i : Standing(i)' <=> Standing(i)
  <2>1. \A i : Standing(i) <=> i \notin dropped /\ \A c \in Device : ~Blocked(c, i)
    BY DEF Standing, Blocked
  <2>2. \A i : Standing(i)' <=> i \notin dropped /\ \A c \in Device : ~Blocked(c, i)'
    BY <1>1 DEF Standing, Blocked
  <2>. QED
    BY <1>16, <2>1, <2>2
<1>18. \A c \in Device : \A i : /\ Flies(c, i)' <=> Flies(c, i)
                                /\ Told(c, i)' <=> Told(c, i)
                                /\ Awaits(c, i)' <=> Awaits(c, i)
                                /\ Wrote(c, i)' <=> Wrote(c, i)
  BY <1>1 DEF Flies, Told, Awaits, Wrote
<1>19. /\ \A i \in DOMAIN made : Done(i) => Done(i)'
       /\ \A i \in DOMAIN made : \A b : FoundDeleted(i, b) => FoundDeleted(i, b)'
  BY <1>1, <1>8 DEF Done, FoundDeleted
<1>20. \A i \in DOMAIN made' : i # None
  <2>1. made' \in Seq(OutboxRow) /\ \A i \in DOMAIN made' : i \in Nat
    BY <1>1, <1>2
  <2>2. \A i \in DOMAIN made : made[i].id = i /\ made[i] \in OutboxRow
    BY <1>2 DEF Recorded, Consistent
  <2>3. \A n \in DOMAIN entries : entries[n] \in OutboxRow
    BY <1>1
  <2>4. \A i \in DOMAIN made' : i \in EntryId
    BY <1>10, <1>12, <2>2, <2>3 DEF OutboxRow
  <2>. QED
    BY <2>4, RowsAssumption
<1>21. \A c \in Device : \A i \in DOMAIN made' :
         Flies(c, i) \/ Told(c, i) \/ Wrote(c, i) => i \in DOMAIN made
  BY <1>20, OnlyMade
<1>22. BoxesOrdered'
  <2>1. ASSUME NEW c \in Device, NEW m \in DOMAIN outbox'[c], NEW n \in DOMAIN outbox'[c], m < n
        PROVE  outbox'[c][m].id < outbox'[c][n].id
    <3>1. CASE n \in DOMAIN outbox[c] /\ outbox'[c][n] = outbox[c][n]
      <4>1. m \in DOMAIN outbox[c] /\ outbox'[c][m] = outbox[c][m]
        <5>1. outbox[c] \in Seq(OutboxRow) /\ outbox'[c] \in Seq(OutboxRow)
          BY <1>2, <1>3, <1>4, <1>11, <1>1 DEF box
        <5>2. m \in 1..Len(outbox'[c]) /\ n \in 1..Len(outbox[c]) /\ Len(outbox[c]) \in Nat
              /\ Len(outbox'[c]) \in Nat
          BY <3>1, <5>1
        <5>3. m \in DOMAIN outbox[c]
          BY <2>1, <5>1, <5>2
        <5>. QED
          BY <1>13, <5>3
      <4>. QED
        BY <2>1, <3>1, <4>1 DEF Delivering, BoxesOrdered
    <3>2. CASE c = d /\ \E k \in DOMAIN entries : n = Len(old) + k /\ outbox'[c][n] = entries[k]
      <4>1. PICK k \in DOMAIN entries : n = Len(old) + k /\ outbox'[c][n] = entries[k]
        BY <3>2
      <4>2. CASE m \in DOMAIN outbox[c] /\ outbox'[c][m] = outbox[c][m]
        <5>1. outbox'[c][m].id <= c0 /\ outbox'[c][m].id \in Nat
          BY <1>8, <1>13, <4>2
        <5>. QED
          BY <1>2, <1>12, <4>1, <5>1
      <4>3. CASE \E l \in DOMAIN entries : m = Len(old) + l /\ outbox'[c][m] = entries[l]
        <5>1. PICK l \in DOMAIN entries : m = Len(old) + l /\ outbox'[c][m] = entries[l]
          BY <4>3
        <5>2. l < k /\ l \in Nat /\ k \in Nat
          BY <1>4, <2>1, <4>1, <5>1
        <5>. QED
          BY <1>2, <1>12, <4>1, <5>1, <5>2
      <4>. QED
        BY <1>14, <4>2, <4>3
    <3>. QED
      BY <1>14, <3>1, <3>2
  <2>2. ASSUME NEW b \in Device, NEW c \in Device,
               NEW m \in DOMAIN outbox'[b], NEW n \in DOMAIN outbox'[c],
               outbox'[b][m].id = outbox'[c][n].id
        PROVE  b = c
    <3>1. CASE m \in DOMAIN outbox[b] /\ outbox'[b][m] = outbox[b][m]
      <4>1. outbox'[c][n].id \in DOMAIN made
        BY <1>13, <2>2, <3>1
      <4>2. n \in DOMAIN outbox[c] /\ outbox'[c][n] = outbox[c][n]
        BY <1>12, <1>14, <4>1
      <4>. QED
        BY <2>2, <3>1, <4>2 DEF Delivering, BoxesOrdered
    <3>2. CASE b = d /\ \E k \in DOMAIN entries : outbox'[b][m] = entries[k]
      <4>1. outbox'[c][n].id \notin DOMAIN made
        BY <1>12, <2>2, <3>2
      <4>. QED
        BY <1>13, <1>14, <3>2, <4>1
    <3>. QED
      BY <1>14, <3>1, <3>2
  <2>. QED
    BY <2>1, <2>2 DEF BoxesOrdered
<1>23. AwaitedUnblocked'
  BY <1>16, <1>18 DEF Delivering, AwaitedUnblocked
<1>24. NoEditLost'
  <2>1. ASSUME NEW i \in DOMAIN made
        PROVE  \/ \E c \in Device : \E n \in DOMAIN outbox'[c] : outbox'[c][n].id = i
               \/ i \in dropped' \/ Done(i)'
    BY <1>1, <1>13, <1>19 DEF Delivering, NoEditLost, Done
  <2>2. ASSUME NEW i \in DOMAIN made', i \notin DOMAIN made
        PROVE  \E n \in DOMAIN outbox'[d] : outbox'[d][n].id = i
    <3>1. PICK n \in DOMAIN entries : i = c0 + n
      BY <1>10, <2>2
    <3>. QED
      BY <1>3, <1>6, <1>12, <3>1
  <2>. QED
    BY <2>1, <2>2 DEF NoEditLost, Done
<1>25. FlyingKept'
  BY <1>15, <1>17, <1>18, <1>19, <1>21 DEF Delivering, FlyingKept
<1>26. InTurn'
  <2>1. SUFFICES ASSUME NEW c \in Device, NEW i \in DOMAIN made', NEW j \in DOMAIN made',
                        Waits(c, i)', made'[i].row = made'[j].row,
                        Flies(c, j) \/ Told(c, j) \/ Wrote(c, j)
                 PROVE  j <= i
    BY <1>18 DEF InTurn
  <2>2. j \in DOMAIN made /\ j \in Nat /\ j <= c0
    BY <1>8, <1>21, <2>1
  <2>3. CASE i \in DOMAIN made
    BY <1>8, <1>15, <2>1, <2>2, <2>3 DEF Delivering, InTurn
  <2>4. CASE i \notin DOMAIN made
    BY <1>2, <1>10, <2>2, <2>4
  <2>. QED
    BY <2>3, <2>4
<1>27. LateIsCopy'
  <2>1. SUFFICES ASSUME NEW c \in Device, NEW i \in DOMAIN made', NEW l \in log, Flies(c, i),
                        l.device = c, l.entry # None, l.row = made'[i].row, i < l.entry
                 PROVE  ~Standing(i)' \/ (\E k \in log : k.entry = i) \/ FoundDeleted(i, l.seq)'
    BY <1>1, <1>18 DEF LateIsCopy
  <2>2. i \in DOMAIN made
    BY <1>21, <2>1
  <2>. QED
    BY <1>8, <1>17, <1>19, <2>1, <2>2 DEF Delivering, LateIsCopy
<1>28. OrderKept'
  <2>1. \A l \in log : l.entry # None => l.entry \in DOMAIN made
    BY DEF Recorded, Consistent
  <2>. QED
    BY <1>1, <1>17, <1>19, <2>1 DEF Delivering, OrderKept
<1>29. Consistent'
  <2>1. \A e : Known(e) => Known(e)'
    BY <1>8 DEF Known
  <2>2. ASSUME NEW i \in DOMAIN made' PROVE made'[i].id = i
    BY <1>8, <1>9, <1>10, <1>12 DEF Recorded, Consistent
  <2>3. \A n \in DOMAIN entries : Known(entries[n])'
    BY <1>9, <1>12 DEF Known
  <2>4. \A c \in Device : \A n \in DOMAIN outbox'[c] : Known(outbox[c][n])'
    <3>1. ASSUME NEW c \in Device, NEW n \in DOMAIN outbox'[c]
          PROVE  Known(outbox[c][n])'
      <4>1. \E e : Known(e)' /\ outbox'[c][n] = e
        BY <1>14, <2>1, <2>3 DEF Recorded, Consistent
      <4>. QED
        BY <4>1 DEF Known
    <3>. QED
      BY <3>1
  <2>. QED
    BY <1>1, <1>8, <2>1, <2>2, <2>4 DEF Recorded, Consistent
<1>30. AnswersTrue'
  <2>1. \A x : Truthful(x) => Truthful(x)'
    BY <1>8, <1>19 DEF Truthful, Acked
  <2>. QED
    BY <1>1, <2>1 DEF Recorded, AnswersTrue
<1>31. OneRequest'
  BY <1>1 DEF Recorded, OneRequest
<1>. QED
  BY <1>22, <1>23, <1>24, <1>25, <1>26, <1>27, <1>28, <1>29, <1>30, <1>31
     DEF Recorded, Delivering

(* A turn of the push loop settles what has been answered and sends first entries only. *)
LEMMA TurnPush ==
  ASSUME SyncTyped, Recorded, Delivering,
         NEW d \in Device, NEW rs, NEW box, Turn(d, rs, box)
  PROVE  Recorded' /\ Delivering'
<1>. DEFINE old == outbox[d]
            fresh(m, es) == m = [device |-> d, entries |-> es, awaited |-> TRUE]
            first(e, n) == /\ e.id = box[n].id /\ e.row = box[n].row /\ e.op = box[n].op
                           /\ ~box[n].blocked
                           /\ \A k \in DOMAIN box :
                                ~box[k].blocked /\ box[k].row = box[n].row => n <= k
<1>1. /\ job = Idle /\ sync[d].phase \in {"idle", "handle"}
      /\ rs \subseteq Range(sync[d].results)
      /\ box \in Seq(OutboxRow) /\ Settles(old, rs, box)
      /\ outbox' = [outbox EXCEPT ![d] = box]
      /\ UNCHANGED <<log, job, answered, made, dropped>>
  BY DEF Turn, vars
<1>2. PICK at \in [DOMAIN box -> DOMAIN old] :
        /\ \A k, l \in DOMAIN box : k < l => at[k] < at[l]
        /\ \A k \in DOMAIN box :
             LET e == old[at[k]]
             IN /\ box[k].id = e.id /\ box[k].row = e.row /\ box[k].op = e.op
                /\ box[k].fields = e.fields
                /\ box[k].blocked <=>
                     e.blocked \/ \E x \in rs : x.status \in {"conflict", "rejected"} /\ x.id = e.id
                /\ \A x \in rs : Acked(x) => x.id # e.id
        /\ \A m \in DOMAIN old :
             (\A x \in rs : Acked(x) => x.id # old[m].id) => \E k \in DOMAIN box : at[k] = m
  BY <1>1 DEF Settles
<1>3. /\ outbox \in [Device -> Seq(OutboxRow)] /\ sync \in [Device -> Run]
      /\ \A m \in inflight : m.device \in Device
  BY DEF SyncTyped, SyncTypeOK
<1>4. outbox'[d] = box /\ \A c \in Device \ {d} : outbox'[c] = outbox[c]
  BY <1>1, <1>3
<1>5. ASSUME NEW k \in DOMAIN box
      PROVE  /\ at[k] \in DOMAIN old
             /\ box[k].id = old[at[k]].id /\ box[k].row = old[at[k]].row
             /\ box[k].op = old[at[k]].op
             /\ old[at[k]].blocked => box[k].blocked
             /\ \A x \in rs : Acked(x) => x.id # box[k].id
  BY <1>2
<1>6. \A x \in rs : Told(d, x.id) /\ Truthful(x)
  <2>1. \A x \in rs : \E n \in DOMAIN sync[d].results : x = sync[d].results[n]
    BY <1>1 DEF Range
  <2>. QED
    BY <2>1 DEF Told, Recorded, AnswersTrue
<1>7. ASSUME NEW m \in DOMAIN old
      PROVE  \/ \E k \in DOMAIN box : at[k] = m
             \/ Done(old[m].id) /\ Awaits(d, old[m].id)
  <2>1. CASE \A x \in rs : Acked(x) => x.id # old[m].id
    BY <1>2, <2>1
  <2>2. CASE \E x \in rs : Acked(x) /\ x.id = old[m].id
    BY <1>1, <1>6, <2>2 DEF Truthful, Awaits, Told, Idle
  <2>. QED
    BY <2>1, <2>2
<1>8. /\ \/ inflight' = inflight
         \/ \E es \in Seq(Entry) :
              /\ inflight' = inflight \cup {[device |-> d, entries |-> es, awaited |-> TRUE]}
              /\ \A n \in DOMAIN es : \E k \in DOMAIN box : first(es[n], k)
              /\ sync'[d].phase = "pushing"
      /\ sync'[d].results = <<>>
      /\ \A c \in Device \ {d} : sync'[c] = sync[c]
  <2>1. Sends(d, box)
    BY DEF Turn
  <2>2. CASE /\ sync' = [sync EXCEPT ![d] = [phase |-> "pushing", results |-> <<>>, page |-> <<>>]]
             /\ \E es \in Seq(Entry) :
                  /\ inflight' = inflight \cup {[device |-> d, entries |-> es, awaited |-> TRUE]}
                  /\ \A n \in DOMAIN es : \E k \in DOMAIN box : first(es[n], k)
    BY <1>3, <2>2
  <2>3. CASE /\ \E phase \in {"idle", "pull"} :
                  sync' = [sync EXCEPT ![d] = [phase |-> phase, results |-> <<>>, page |-> <<>>]]
             /\ inflight' = inflight
    BY <1>3, <2>3
  <2>. QED
    BY <2>1, <2>2, <2>3 DEF Sends
<1>. HIDE DEF old
\* What is sent is the first waiting entry of its row.
<1>. DEFINE Sent(i) == \E k \in DOMAIN box : /\ box[k].id = i /\ ~box[k].blocked
                                             /\ \A l \in DOMAIN box :
                                                  /\ ~box[l].blocked /\ box[l].row = box[k].row
                                                  => k <= l
<1>9. \A c \in Device : \A i : /\ Flies(c, i)' => Flies(c, i) \/ (c = d /\ Sent(i))
                               /\ Awaits(c, i)' => (c # d /\ Awaits(c, i)) \/ (c = d /\ Sent(i))
                               /\ Told(c, i)' => Told(c, i)
                               /\ Wrote(c, i)' <=> Wrote(c, i)
  <2>1. ASSUME NEW c \in Device, NEW i, Flies(c, i)' PROVE Flies(c, i) \/ (c = d /\ Sent(i))
    BY <1>1, <1>8, <2>1 DEF Flies
  <2>2. ASSUME NEW c \in Device, NEW i, Awaits(c, i)'
        PROVE  (c # d /\ Awaits(c, i)) \/ (c = d /\ Sent(i))
    <3>1. ~answered /\ ~answered'
      BY <1>1 DEF Recorded, OneRequest
    <3>2. \A m \in inflight : m.awaited => m.device # d
      BY <1>1 DEF Recorded, OneRequest
    <3>3. CASE \E m \in inflight' : /\ m.device = c /\ m.awaited
                                    /\ \E n \in DOMAIN m.entries : m.entries[n].id = i
      BY <1>8, <3>2, <3>3 DEF Awaits
    <3>4. CASE \E n \in DOMAIN sync'[c].results : sync'[c].results[n].id = i
      BY <1>8, <3>4 DEF Awaits
    <3>. QED
      BY <2>2, <3>1, <3>3, <3>4 DEF Awaits
  <2>3. ASSUME NEW c \in Device, NEW i, Told(c, i)' PROVE Told(c, i)
    BY <1>1, <1>8, <2>3 DEF Told
  <2>. QED
    BY <1>1, <2>1, <2>2, <2>3 DEF Wrote
<1>10. /\ \A i : Done(i)' <=> Done(i)
       /\ \A i, b : FoundDeleted(i, b)' <=> FoundDeleted(i, b)
  BY <1>1 DEF Done, FoundDeleted
<1>11. \A c \in Device : \A i : Waits(c, i)' => Waits(c, i)
  BY <1>4, <1>5 DEF Waits, old
<1>12. \A c \in Device : \A i : Blocked(c, i) => Blocked(c, i)'
  <2>1. ASSUME NEW i, Blocked(d, i) PROVE Blocked(d, i)'
    <3>1. PICK m \in DOMAIN old : old[m].id = i /\ old[m].blocked
      BY <2>1 DEF Blocked, old
    <3>2. ~Awaits(d, i)
      BY <2>1 DEF Delivering, AwaitedUnblocked
    <3>3. PICK k \in DOMAIN box : at[k] = m
      BY <1>7, <3>1, <3>2
    <3>. QED
      BY <1>4, <1>5, <3>1, <3>3 DEF Blocked
  <2>2. \A c \in Device \ {d} : \A i : Blocked(c, i) => Blocked(c, i)'
    BY <1>4 DEF Blocked
  <2>. QED
    BY <2>1, <2>2
<1>13. \A i : ~Standing(i) => ~Standing(i)'
  <2>1. \A i : Standing(i) <=> i \notin dropped /\ \A c \in Device : ~Blocked(c, i)
    BY DEF Standing, Blocked
  <2>2. \A i : Standing(i)' <=> i \notin dropped /\ \A c \in Device : ~Blocked(c, i)'
    BY <1>1 DEF Standing, Blocked
  <2>. QED
    BY <1>12, <2>1, <2>2
<1>14. \A c \in Device : \A i : Waits(c, i) => Waits(c, i)' \/ ~Standing(i)' \/ Done(i)'
  <2>1. ASSUME NEW i, Waits(d, i) PROVE Waits(d, i)' \/ ~Standing(i)' \/ Done(i)'
    <3>1. PICK m \in DOMAIN old : old[m].id = i /\ ~old[m].blocked
      BY <2>1 DEF Waits, old
    <3>2. CASE Done(old[m].id)
      BY <1>10, <3>1, <3>2
    <3>3. CASE \E k \in DOMAIN box : at[k] = m
      <4>1. PICK k \in DOMAIN box : at[k] = m
        BY <3>3
      <4>2. box[k].id = i
        BY <1>5, <3>1, <4>1
      <4>. QED
        BY <1>4, <4>2 DEF Waits, Standing
    <3>. QED
      BY <1>7, <3>2, <3>3
  <2>2. \A c \in Device \ {d} : \A i : Waits(c, i) => Waits(c, i)'
    BY <1>4 DEF Waits
  <2>. QED
    BY <2>1, <2>2
<1>15. \A c \in Device : \A k \in DOMAIN outbox'[c] :
         \E m \in DOMAIN outbox[c] :
           /\ outbox'[c][k].id = outbox[c][m].id /\ outbox'[c][k].row = outbox[c][m].row
           /\ outbox'[c][k].op = outbox[c][m].op
  BY <1>4, <1>5 DEF old
<1>16. BoxesOrdered'
  <2>1. ASSUME NEW k \in DOMAIN box, NEW l \in DOMAIN box, k < l
        PROVE  box[k].id < box[l].id
    <3>1. at[k] < at[l] /\ at[k] \in DOMAIN old /\ at[l] \in DOMAIN old
      BY <1>2, <2>1
    <3>2. old[at[k]].id < old[at[l]].id
      BY <3>1 DEF Delivering, BoxesOrdered, old
    <3>. QED
      BY <1>5, <3>2
  <2>2. \A c \in Device : \A m, n \in DOMAIN outbox'[c] :
          m < n => outbox'[c][m].id < outbox'[c][n].id
    BY <1>4, <2>1 DEF Delivering, BoxesOrdered
  <2>3. \A b, c \in Device : \A m \in DOMAIN outbox'[b], n \in DOMAIN outbox'[c] :
          outbox'[b][m].id = outbox'[c][n].id => b = c
    BY <1>15 DEF Delivering, BoxesOrdered
  <2>. QED
    BY <2>2, <2>3 DEF BoxesOrdered
\* An entry of the new outbox comes before those with a greater id.
<1>17. \A k, l \in DOMAIN box : (box[k].id = box[l].id => k = l)
                                /\ (k <= l => box[k].id <= box[l].id)
  <2>1. box \in Seq(OutboxRow)
    BY <1>1
  <2>2. \A k \in DOMAIN box : k \in Nat /\ box[k].id \in Nat
    <3>1. \A k \in DOMAIN box : k \in Nat /\ box[k] \in OutboxRow
      BY <2>1
    <3>. QED
      BY <3>1, SyncAssumption DEF OutboxRow
  <2>3. \A k, l \in DOMAIN box : k < l => box[k].id < box[l].id
    BY <1>4, <1>16 DEF BoxesOrdered
  <2>. QED
    BY <2>2, <2>3
<1>18. \A i : Sent(i) => Waits(d, i)' /\ Waits(d, i)
  BY <1>4, <1>11 DEF Waits
<1>19. AwaitedUnblocked'
  <2>1. ASSUME NEW i, Sent(i) PROVE ~Blocked(d, i)'
    BY <1>4, <1>17, <2>1 DEF Blocked
  <2>2. ASSUME NEW c \in Device, c # d, NEW i, Awaits(c, i) PROVE ~Blocked(c, i)'
    BY <1>4, <2>2 DEF Delivering, AwaitedUnblocked, Blocked
  <2>. QED
    BY <1>9, <2>1, <2>2 DEF AwaitedUnblocked
<1>20. NoEditLost'
  <2>1. ASSUME NEW i \in DOMAIN made, NEW c \in Device, NEW m \in DOMAIN outbox[c],
               outbox[c][m].id = i
        PROVE  Done(i)' \/ \E n \in DOMAIN outbox'[c] : outbox'[c][n].id = i
    <3>1. CASE c # d
      BY <1>4, <2>1, <3>1
    <3>2. CASE c = d
      BY <1>4, <1>5, <1>7, <1>10, <2>1, <3>2 DEF old
    <3>. QED
      BY <3>1, <3>2
  <2>. QED
    BY <1>1, <2>1 DEF Delivering, NoEditLost, Done
<1>21. FlyingKept'
  BY <1>1, <1>9, <1>10, <1>13, <1>14, <1>18 DEF Delivering, FlyingKept
<1>22. InTurn'
  <2>1. SUFFICES ASSUME NEW c \in Device, NEW i \in DOMAIN made, NEW j \in DOMAIN made,
                        Waits(c, i)', made[i].row = made[j].row,
                        Flies(c, j)' \/ Told(c, j)' \/ Wrote(c, j)'
                 PROVE  j <= i
    BY <1>1 DEF InTurn
  <2>2. CASE Flies(c, j) \/ Told(c, j) \/ Wrote(c, j)
    BY <1>11, <2>1, <2>2 DEF Delivering, InTurn
  <2>3. CASE c = d /\ Sent(j)
    <3>1. PICK k \in DOMAIN box : /\ box[k].id = j /\ ~box[k].blocked
                                  /\ \A l \in DOMAIN box :
                                       ~box[l].blocked /\ box[l].row = box[k].row => k <= l
      BY <2>3
    <3>2. PICK l \in DOMAIN box : box[l].id = i /\ ~box[l].blocked
      BY <1>4, <2>1, <2>3 DEF Waits
    <3>3. \A n \in DOMAIN box : box[n].row = made[box[n].id].row
      BY <1>4, <1>15 DEF Recorded, Consistent, Known
    <3>4. k <= l
      BY <2>1, <3>1, <3>2, <3>3
    <3>. QED
      BY <1>17, <3>1, <3>2, <3>4
  <2>. QED
    BY <1>9, <2>1, <2>2, <2>3
<1>23. LateIsCopy'
  <2>1. SUFFICES ASSUME NEW c \in Device, NEW i \in DOMAIN made, NEW l \in log,
                        Flies(c, i)',
                        l.device = c, l.entry # None, l.row = made[i].row, i < l.entry
                 PROVE  ~Standing(i)' \/ (\E k \in log : k.entry = i) \/ FoundDeleted(i, l.seq)'
    BY <1>1 DEF LateIsCopy
  <2>2. CASE Flies(c, i)
    BY <1>10, <1>13, <2>1, <2>2 DEF Delivering, LateIsCopy
  <2>3. CASE c = d /\ Sent(i)
    <3>1. Waits(c, i) /\ Wrote(c, l.entry)
      BY <1>18, <2>1, <2>3 DEF Wrote
    <3>2. l.entry \in DOMAIN made /\ made[l.entry].row = l.row
      BY <2>1 DEF Recorded, Consistent
    <3>3. l.entry <= i
      BY <2>1, <3>1, <3>2 DEF Delivering, InTurn
    <3>4. i \in Nat /\ l.entry \in Nat
      BY <3>2, MadeTyped
    <3>. QED
      BY <2>1, <3>3, <3>4
  <2>. QED
    BY <1>9, <2>1, <2>2, <2>3
<1>24. OrderKept'
  BY <1>1, <1>10, <1>13 DEF Delivering, OrderKept
<1>25. Consistent'
  <2>1. \A c \in Device : \A k \in DOMAIN outbox'[c] : Known(outbox[c][k])'
    BY <1>1, <1>15 DEF Recorded, Consistent, Known
  <2>2. \A m \in inflight' : \A n \in DOMAIN m.entries : Known(m.entries[n])'
    <3>1. \A k \in DOMAIN box : /\ box[k].id \in DOMAIN made
                                /\ made[box[k].id].row = box[k].row
                                /\ made[box[k].id].op = box[k].op
      BY <1>4, <1>15 DEF Recorded, Consistent, Known
    <3>2. ASSUME NEW es \in Seq(Entry), \A n \in DOMAIN es : \E k \in DOMAIN box : first(es[n], k)
          PROVE  \A n \in DOMAIN es : Known(es[n])'
      BY <1>1, <3>1, <3>2, SMTT(30) DEF Known
    <3>3. \A m \in inflight : \A n \in DOMAIN m.entries : Known(m.entries[n])'
      BY <1>1 DEF Recorded, Consistent, Known
    <3>. QED
      BY <1>8, <3>2, <3>3
  <2>. QED
    BY <1>1, <2>1, <2>2 DEF Recorded, Consistent, Known
<1>26. AnswersTrue'
  <2>1. \A x : Truthful(x)' <=> Truthful(x)
    BY <1>1, <1>10 DEF Truthful, Acked
  <2>. QED
    BY <1>1, <1>8, <2>1 DEF Recorded, AnswersTrue
<1>27. OneRequest'
  <2>1. ~answered /\ ~answered' /\ \A m \in inflight : m.awaited => m.device # d
    BY <1>1 DEF Recorded, OneRequest
  <2>2. /\ \A m \in inflight : m.awaited => sync'[m.device].phase = "pushing"
        /\ \A m, k \in inflight : m.awaited /\ k.awaited /\ m.device = k.device => m = k
    BY <1>3, <1>8, <2>1 DEF Recorded, OneRequest
  <2>3. CASE inflight' = inflight
    BY <2>1, <2>2, <2>3 DEF OneRequest
  <2>4. CASE /\ \E es \in Seq(Entry) :
                  inflight' = inflight \cup {[device |-> d, entries |-> es, awaited |-> TRUE]}
             /\ sync'[d].phase = "pushing"
    <3>1. PICK es \in Seq(Entry) :
            inflight' = inflight \cup {[device |-> d, entries |-> es, awaited |-> TRUE]}
      BY <2>4
    <3>. DEFINE new == [device |-> d, entries |-> es, awaited |-> TRUE]
    <3>2. new.device = d /\ inflight' = inflight \cup {new}
      BY <3>1
    <3>. HIDE DEF new
    <3>3. \A m \in inflight' : m.awaited => sync'[m.device].phase = "pushing"
      BY <2>2, <2>4, <3>2
    <3>4. \A m, k \in inflight' : m.awaited /\ k.awaited /\ m.device = k.device => m = k
      BY <2>1, <2>2, <3>2
    <3>. QED
      BY <2>1, <3>3, <3>4 DEF OneRequest
  <2>. QED
    BY <1>8, <2>3, <2>4
<1>. QED
  BY <1>16, <1>19, <1>20, <1>21, <1>22, <1>23, <1>24, <1>25, <1>26, <1>27
     DEF Recorded, Delivering

(* Serving an entry writes it after the earlier edits of its row, or not for the first time. *)
LEMMA ServePush ==
  ASSUME SyncTyped, RowsReplayLog, pruned = 0, Recorded, Delivering, ServeOne
  PROVE  Recorded' /\ Delivering'
<1>. DEFINE e == Head(job.todo)
            c == job.device
<1>1. /\ job.todo \in Seq(Entry) /\ job.todo # <<>> /\ e \in Entry
      /\ job.results \in Seq(Result) /\ c \in Device
      /\ job'.device = c /\ job'.todo = Tail(job.todo)
      /\ log \subseteq log'
      /\ \A l \in log' : l \in log \/
           (l.entry # None => /\ l.entry = e.id /\ l.row = e.row /\ l.device = c
                              /\ \A k \in log : k.entry # e.id /\ k.seq < l.seq)
  BY ServeOneIs
<1>2. PICK x \in Result :
        /\ job'.results = Append(job.results, x)
        /\ x.id = e.id /\ x.row = e.row
        /\ Acked(x) =>
             \/ \E l \in log' : l.entry = e.id
             \/ e.op = "delete" /\ \E l \in log' : l.row = e.row /\ l.op = "delete"
  BY ServeOneIs
<1>3. UNCHANGED <<outbox, made, dropped, inflight, answered, sync>>
  BY DEF ServeOne, deviceVars, netVars
<1>4. /\ \E n \in DOMAIN job.todo : job.todo[n] = e
      /\ \A n \in DOMAIN Tail(job.todo) :
           \E m \in DOMAIN job.todo : Tail(job.todo)[n] = job.todo[m]
  <2>1. 1 \in DOMAIN job.todo /\ job.todo[1] = e
    BY <1>1
  <2>2. \A n \in DOMAIN Tail(job.todo) :
          n + 1 \in DOMAIN job.todo /\ Tail(job.todo)[n] = job.todo[n + 1]
    BY <1>1
  <2>. QED
    BY <2>1, <2>2
<1>5. \A n \in DOMAIN job'.results :
        \/ job'.results[n] = x
        \/ n \in DOMAIN job.results /\ job'.results[n] = job.results[n]
  BY <1>1, <1>2
<1>6. e.id \in DOMAIN made /\ made[e.id].row = e.row /\ made[e.id].op = e.op
      /\ e.id # None
  BY <1>1, <1>4, RowsAssumption DEF Recorded, Consistent, Known, Entry
<1>. HIDE DEF e, c
<1>7. Flies(c, e.id)
  BY <1>4 DEF Flies, c
<1>8. \A d \in Device : \A i : /\ Flies(d, i)' => Flies(d, i)
                               /\ Told(d, i)' => Told(d, i) \/ Flies(d, i)
                               /\ Wrote(d, i)' /\ i # None => Wrote(d, i) \/ Flies(d, i)
                               /\ Awaits(d, i)' => Awaits(d, i)
  <2>1. ASSUME NEW d \in Device, NEW i, Flies(d, i)' PROVE Flies(d, i)
    BY <1>1, <1>3, <1>4, <2>1 DEF Flies, c
  <2>2. ASSUME NEW d \in Device, NEW i, Told(d, i)' PROVE Told(d, i) \/ Flies(d, i)
    BY <1>1, <1>2, <1>3, <1>5, <1>7, <2>2 DEF Told, c
  <2>3. ASSUME NEW d \in Device, NEW i, Wrote(d, i)', i # None PROVE Wrote(d, i) \/ Flies(d, i)
    BY <1>1, <1>7, <2>3 DEF Wrote
  <2>4. ASSUME NEW d \in Device, NEW i, Awaits(d, i)' PROVE Awaits(d, i)
    BY <1>1, <1>2, <1>3, <1>4, <1>5, <2>4 DEF Awaits, c
  <2>. QED
    BY <2>1, <2>2, <2>3, <2>4
<1>9. /\ \A d, i : /\ Waits(d, i)' <=> Waits(d, i)
                   /\ Blocked(d, i)' <=> Blocked(d, i)
      /\ \A i : Standing(i)' <=> Standing(i)
      /\ \A i : Done(i) => Done(i)'
      /\ \A i, b : FoundDeleted(i, b) => FoundDeleted(i, b)'
  BY <1>1, <1>3 DEF Waits, Blocked, Standing, Done, FoundDeleted
<1>10. BoxesOrdered'
  BY <1>3 DEF Delivering, BoxesOrdered
<1>11. AwaitedUnblocked'
  BY <1>8, <1>9 DEF Delivering, AwaitedUnblocked
<1>12. NoEditLost'
  BY <1>1, <1>3 DEF Delivering, NoEditLost
<1>13. FlyingKept'
  BY <1>3, <1>8, <1>9 DEF Delivering, FlyingKept
<1>14. \A i \in DOMAIN made : i # None /\ i \in Nat
  <2>1. \A i \in DOMAIN made : made[i].id = i /\ made[i] \in OutboxRow /\ i \in Nat
    BY MadeTyped DEF Recorded, Consistent
  <2>. QED
    BY <2>1, RowsAssumption DEF OutboxRow
<1>15. InTurn'
  BY <1>3, <1>8, <1>9, <1>14 DEF Delivering, InTurn
<1>16. \A k \in log : k.seq \in Nat
  BY DEF SyncTyped, Bounded, TypeOK, LogRec
<1>17. LateIsCopy'
  <2>1. SUFFICES ASSUME NEW d \in Device, NEW i \in DOMAIN made, NEW l \in log',
                        Flies(d, i),
                        l.device = d, l.entry # None, l.row = made[i].row, i < l.entry
                 PROVE  ~Standing(i) \/ (\E k \in log' : k.entry = i) \/ FoundDeleted(i, l.seq)'
    BY <1>3, <1>8, <1>9 DEF LateIsCopy
  <2>2. CASE l \in log
    BY <1>1, <1>9, <2>1, <2>2 DEF Delivering, LateIsCopy
  <2>3. CASE l \notin log
    <3>1. /\ l.entry = e.id /\ l.row = e.row /\ d = c
          /\ \A k \in log : k.seq < l.seq
      BY <1>1, <2>1, <2>3
    <3>2. ~Standing(i) \/ Done(i)
      BY <1>6, <1>7, <2>1, <3>1, PairsOrdered DEF Delivering
    <3>3. Done(i) => (\E k \in log' : k.entry = i) \/ FoundDeleted(i, l.seq)'
      BY <1>1, <1>3, <3>1 DEF Done, FoundDeleted
    <3>. QED
      BY <3>2, <3>3
  <2>. QED
    BY <2>2, <2>3
<1>18. OrderKept'
  <2>1. SUFFICES ASSUME NEW l \in log', NEW m \in log', l.entry # None, m.entry # None,
                        l.row = m.row, l.device = m.device, l.seq < m.seq,
                        Standing(l.entry), Standing(m.entry)
                 PROVE  l.entry <= m.entry \/ FoundDeleted(m.entry, l.seq)'
    BY <1>9 DEF OrderKept
  <2>2. CASE l \in log /\ m \in log
    BY <1>9, <2>1, <2>2 DEF Delivering, OrderKept
  <2>3. CASE l \in log /\ m \notin log
    <3>1. m.entry = e.id /\ m.row = e.row /\ m.device = c
          /\ \A k \in log : k.entry # e.id
      BY <1>1, <2>1, <2>3
    <3>2. l.entry \in DOMAIN made /\ l.entry \in Nat /\ e.id \in Nat
      BY <1>6, <1>14, <2>1, <2>3 DEF Recorded, Consistent
    <3>3. SUFFICES ASSUME e.id < l.entry PROVE FoundDeleted(m.entry, l.seq)'
      BY <3>1, <3>2
    <3>4. \/ ~Standing(e.id)
          \/ \E k \in log : k.entry = e.id
          \/ FoundDeleted(e.id, l.seq)
      BY <1>1, <1>6, <1>7, <2>1, <2>3, <3>1, <3>3 DEF Delivering, LateIsCopy
    <3>. QED
      BY <1>9, <2>1, <3>1, <3>4
  <2>4. CASE l \notin log /\ m \in log
    <3>1. m.seq < l.seq /\ m.seq \in Nat
      BY <1>1, <1>16, <2>1, <2>4
    <3>2. l.seq \in Nat
      <4>1. SyncTyped'
        BY SyncTypedStep DEF ServeOne, SyncNext, VaultStep
      <4>. QED
        BY <2>1, <4>1 DEF SyncTyped, Bounded, TypeOK, LogRec
    <3>. QED
      BY <2>1, <3>1, <3>2
  <2>5. CASE l \notin log /\ m \notin log
    BY <1>1, <1>6, <1>14, <2>1, <2>5
  <2>. QED
    BY <2>2, <2>3, <2>4, <2>5
<1>19. Consistent'
  <2>1. \A n \in DOMAIN job'.todo : Known(job.todo[n])'
    BY <1>1, <1>3, <1>4 DEF Recorded, Consistent, Known
  <2>2. \A l \in log' : l.entry # None => l.entry \in DOMAIN made /\ made[l.entry].row = l.row
    BY <1>1, <1>6 DEF Recorded, Consistent
  <2>. QED
    BY <1>3, <2>1, <2>2 DEF Recorded, Consistent, Known
<1>20. AnswersTrue'
  <2>1. \A y : Truthful(y) => Truthful(y)'
    BY <1>3, <1>9 DEF Truthful, Acked
  <2>2. Truthful(x)'
    BY <1>2, <1>3, <1>6 DEF Truthful, Acked, Done
  <2>3. ASSUME NEW n \in DOMAIN job'.results PROVE Truthful(job.results[n])'
    <3>1. \E y : Truthful(y)' /\ job'.results[n] = y
      BY <1>5, <2>1, <2>2 DEF Recorded, AnswersTrue
    <3>. QED
      BY <3>1 DEF Truthful
  <2>4. ASSUME NEW d \in Device, NEW n \in DOMAIN sync[d].results
        PROVE  Truthful(sync[d].results[n])'
    <3>1. \E y : Truthful(y)' /\ sync'[d].results[n] = y
      BY <1>3, <2>1 DEF Recorded, AnswersTrue
    <3>. QED
      BY <3>1 DEF Truthful
  <2>. QED
    BY <1>3, <2>3, <2>4 DEF AnswersTrue
<1>21. OneRequest'
  <2>1. answered => job' # Idle
    BY <1>1, RowsAssumption DEF Idle
  <2>. QED
    BY <1>1, <1>3, <2>1 DEF Recorded, OneRequest, c
<1>. QED
  BY <1>10, <1>11, <1>12, <1>13, <1>15, <1>17, <1>18, <1>19, <1>20, <1>21
     DEF Recorded, Delivering

(* A step that leaves the devices' outboxes, the network and the log alone. *)
LEMMA IdlePush ==
  ASSUME SyncTyped, Recorded, Delivering, [SyncNext]_allVars,
         UNCHANGED <<outbox, made, dropped, log, job, inflight, answered>>,
         \/ sync' = sync
         \/ \E d \in Device : /\ sync[d].phase \in {"pull", "apply"}
                              /\ \E x \in {y \in Run : y.results = <<>>} :
                                   sync' = [sync EXCEPT ![d] = x]
  PROVE  Recorded' /\ Delivering'
<1>1. sync \in [Device -> Run]
  BY DEF SyncTyped
<1>2. \A d \in Device : /\ sync'[d].results = sync[d].results
                        /\ sync[d].phase = "pushing" => sync'[d].phase = "pushing"
  <2>1. CASE sync' = sync
    BY <2>1
  <2>2. ASSUME NEW d \in Device, sync[d].phase \in {"pull", "apply"}, NEW x \in Run,
               x.results = <<>>, sync' = [sync EXCEPT ![d] = x]
        PROVE  \A c \in Device : /\ sync'[c].results = sync[c].results
                                 /\ sync[c].phase = "pushing" => sync'[c].phase = "pushing"
    <3>1. sync[d].results = <<>>
      BY <2>2 DEF SyncTyped
    <3>. QED
      BY <1>1, <2>2, <3>1
  <2>. QED
    BY <2>1, <2>2
<1>. QED
  BY <1>2, QuietPush

(* An edit keeps its place from the outbox to the log, whatever is lost, sent again or late. *)
LEMMA PushStep == SyncTyped /\ PushInv /\ [SyncNext]_allVars => PushInv'
<1>. SUFFICES ASSUME SyncTyped, PushInv, [SyncNext]_allVars PROVE PushInv'
  OBVIOUS
<1>1. Recorded /\ Delivering /\ RowsReplayLog /\ pruned = 0 /\ aged = 0
  BY DEF PushInv
<1>2. RowsReplayLog'
  BY <1>1, VaultMoves, ReplaysStep DEF SyncTyped
<1>. DEFINE Still == UNCHANGED <<outbox, made, dropped, log, job, inflight, answered>>
            Rests == UNCHANGED <<pruned, aged>>
            G == Recorded' /\ Delivering' /\ pruned' = 0 /\ aged' = 0
<1>3. Rests => pruned' = 0 /\ aged' = 0
  BY <1>1
<1>4. UNCHANGED allVars => G
  <2>1. UNCHANGED allVars => Still /\ Rests /\ sync' = sync
    BY DEF allVars, vars, deviceVars, netVars
  <2>. QED
    BY <1>1, <1>3, <2>1, IdlePush
<1>5. ASSUME NEW d \in Device, NEW entries, Edits(d, entries) PROVE G
  <2>1. Rests
    BY <1>5 DEF Edits, EditUnchanged, vars
  <2>. QED
    BY <1>1, <1>3, <1>5, <2>1, EditsPush
<1>6. ASSUME NEW d \in Device, NEW n \in DOMAIN outbox[d], Discard(d, n) PROVE G
  <2>1. Rests
    BY <1>6 DEF Discard, vars
  <2>. QED
    BY <1>1, <1>3, <1>6, <2>1, DiscardPush
<1>7. ASSUME NEW d \in Device, NEW rs, NEW box, Turn(d, rs, box) PROVE G
  <2>1. Rests
    BY <1>7 DEF Turn, vars
  <2>. QED
    BY <1>1, <1>3, <1>7, <2>1, TurnPush
<1>8. ASSUME NEW d \in Device, PullServe(d) PROVE G
  <2>1. Still /\ Rests /\ sync[d].phase = "pull"
    BY <1>8 DEF PullServe, vars, netVars, At
  <2>. DEFINE x == [phase |-> "apply", results |-> <<>>, page |-> Page(lastSeq[d])]
  <2>2. sync' = [sync EXCEPT ![d] = x]
    BY <1>8 DEF PullServe
  <2>3. x \in Run /\ x.results = <<>>
    <3>1. lastSeq[d] \in Nat /\ Bounded
      BY DEF SyncTyped, SyncTypeOK
    <3>2. Page(lastSeq[d]) \in PageRec
      BY <3>1, PageTyped
    <3>. QED
      BY <3>2 DEF Run, Phase
  <2>. HIDE DEF x
  <2>. QED
    BY <1>1, <1>3, <2>1, <2>2, <2>3, IdlePush
<1>9. ASSUME NEW d \in Device, Applies(d) PROVE G
  <2>1. Still /\ Rests /\ sync[d].phase = "apply"
    BY <1>9 DEF Applies, vars, netVars, At
  <2>2. PICK phase \in {"idle", "pull"} :
          sync' = [sync EXCEPT ![d] = [phase |-> phase, results |-> <<>>, page |-> <<>>]]
    BY <1>9 DEF Applies
  <2>. DEFINE x == [phase |-> phase, results |-> <<>>, page |-> <<>>]
  <2>3. x \in Run /\ x.results = <<>>
    BY DEF Run, Phase
  <2>4. sync' = [sync EXCEPT ![d] = x]
    BY <2>2
  <2>. HIDE DEF x
  <2>. QED
    BY <1>1, <1>3, <2>1, <2>3, <2>4, IdlePush
<1>10. ASSUME NEW d \in Device, Abort(d) PROVE G
  <2>1. Rests
    BY <1>10 DEF Abort, vars
  <2>. QED
    BY <1>1, <1>3, <1>10, <2>1, AbortPush
<1>11. ASSUME NEW d \in Device, Unpause(d) PROVE G
  <2>1. Still /\ Rests /\ sync' = sync
    BY <1>11 DEF Unpause, vars, netVars
  <2>. QED
    BY <1>1, <1>3, <2>1, IdlePush
<1>12. Midnight => G
  <2>1. Midnight => Still /\ Rests /\ sync' = sync
    BY DEF Midnight, NewDay, deviceVars, netVars
  <2>. QED
    BY <1>1, <1>3, <2>1, IdlePush
<1>13. ASSUME NEW m \in inflight, Deliver(m) PROVE G
  <2>1. Rests
    BY <1>13 DEF Deliver, PushBegin
  <2>. QED
    BY <1>1, <1>3, <1>13, <2>1, DeliverPush
<1>14. ServeOne => G
  <2>. SUFFICES ASSUME ServeOne PROVE G
    OBVIOUS
  <2>1. Rests
    BY <1>1, ServeOneIs
  <2>. QED
    BY <1>1, <1>3, <2>1, ServePush
<1>15. Answer => G
  <2>. SUFFICES ASSUME Answer PROVE G
    OBVIOUS
  <2>1. pruned' = 0 /\ aged' = 0
    BY <1>1, LimitsAssumption DEF Answer, PushEnd
  <2>. QED
    BY <1>1, <2>1, AnswerPush
<1>. HIDE DEF G
<1>16. G
  BY <1>4, <1>5, <1>6, <1>7, <1>8, <1>9, <1>10, <1>11, <1>12, <1>13, <1>14, <1>15, SyncCases
<1>. QED
  BY <1>2, <1>16 DEF G, PushInv

\* At first there is nothing to push.
LEMMA PushInit == SyncInit => PushInv
<1>. SUFFICES ASSUME SyncInit PROVE PushInv
  OBVIOUS
<1>1. RowsReplayLog
  BY DEF SyncInit, Init, RowsReplayLog, Absent, Writes
<1>2. /\ log = {} /\ inflight = {} /\ made = <<>> /\ job = Idle /\ ~answered
      /\ pruned = 0 /\ aged = 0
      /\ \A d \in Device : outbox[d] = <<>> /\ sync[d] = Asleep
  BY DEF SyncInit, Init
<1>3. DOMAIN <<>> = {} /\ Idle.todo = <<>> /\ Idle.results = <<>> /\ Asleep.results = <<>>
  BY DEF Idle, Asleep
<1>4. Recorded
  BY <1>2, <1>3 DEF Recorded, Consistent, AnswersTrue, OneRequest
<1>5. Delivering
  BY <1>2, <1>3 DEF Delivering, BoxesOrdered, AwaitedUnblocked, Blocked, NoEditLost,
     FlyingKept, InTurn, LateIsCopy, OrderKept
<1>. QED
  BY <1>1, <1>2, <1>4, <1>5 DEF PushInv

\* The invariant of pushing holds of every state.
LEMMA PushAlways == SyncSpec => []PushInv
BY PushInit, PushStep, SyncTypedAlways, PTL DEF SyncSpec

(* Nothing is lost: an edit stays queued until it is in the log, moot or given up. *)
THEOREM EditsKept == SyncSpec => []NoEditLost
<1>1. PushInv => NoEditLost
  BY DEF PushInv, Delivering
<1>. QED
  BY <1>1, PushAlways, PTL

(* The edits a device made of a row are in the log in the order they were made, for every *)
(* number of lost, repeated and late requests.                                            *)
THEOREM EditsInOrder == SyncSpec => []OrderKept
<1>1. PushInv => OrderKept
  BY DEF PushInv, Delivering
<1>. QED
  BY <1>1, PushAlways, PTL
----------------------------------------------------------------------------
(***************************************************************************)
(* What is queued stays visible.                                           *)
(***************************************************************************)
\* Deletes write no column, and what was given up had been made.
Bare ==
  /\ \A d \in Device : \A n \in DOMAIN outbox[d] :
       outbox[d][n].op = "delete" => outbox[d][n].fields = {}
  /\ dropped \subseteq DOMAIN made

\* Column f of the row of entry n shows it, or a later entry that covers it.
Shows(d, n, f) ==
  \/ local[d][outbox[d][n].row].val[f] = outbox[d][n].id
  \/ \E k \in DOMAIN outbox[d] : /\ k > n /\ outbox[d][k].row = outbox[d][n].row
                                 /\ f \in outbox[d][k].fields

GivenUp(r) == \E i \in dropped : made[i].row = r

\* Entry n of device d has its values on the screen, unless an edit of its row was given up.
EntryShown(d, n) ==
  ~outbox[d][n].blocked /\ ~GivenUp(outbox[d][n].row) =>
     \A f \in outbox[d][n].fields : Shows(d, n, f)

VisibleInv == Bare /\ \A d \in Device : \A n \in DOMAIN outbox[d] : EntryShown(d, n)

\* An entry is visible when a later one of the column is.
LEMMA VisibleIs == VisibleInv => PendingVisible
BY DEF VisibleInv, EntryShown, Shows, GivenUp, PendingVisible

(* A step that changes neither edits nor tables. *)
LEMMA VisibleQuiet ==
  ASSUME VisibleInv, UNCHANGED <<outbox, local, made, dropped>>
  PROVE  VisibleInv'
BY DEF VisibleInv, Bare, EntryShown, Shows, GivenUp

\* A step leaves the outbox of d as it was but for entries that no waiting one is covered by.
Thinned(d, at) ==
  /\ at \in [DOMAIN outbox'[d] -> DOMAIN outbox[d]]
  /\ \A k, l \in DOMAIN outbox'[d] : at[k] > at[l] => k > l
  /\ \A k \in DOMAIN outbox'[d] :
       /\ outbox'[d][k].id = outbox[d][at[k]].id
       /\ outbox'[d][k].row = outbox[d][at[k]].row
       /\ outbox'[d][k].fields = outbox[d][at[k]].fields
       /\ outbox[d][at[k]].blocked => outbox'[d][k].blocked
       /\ \A m \in DOMAIN outbox[d] :
            /\ ~outbox'[d][k].blocked
            /\ \A r : r = outbox[d][m].row => ~GivenUp(r)'
            /\ m > at[k] /\ outbox[d][m].row = outbox[d][at[k]].row
            => \E l \in DOMAIN outbox'[d] : at[l] = m

(* What such a step leaves is shown as before. *)
LEMMA VisibleThinned ==
  ASSUME NEW d \in Device, NEW at, Thinned(d, at),
         local'[d] = local[d],
         \A r : GivenUp(r) => GivenUp(r)',
         \A n \in DOMAIN outbox[d] : EntryShown(d, n)
  PROVE  \A n \in DOMAIN outbox'[d] : EntryShown(d, n)'
<1>. SUFFICES ASSUME NEW n \in DOMAIN outbox'[d], ~outbox'[d][n].blocked,
                     \A r : r = outbox'[d][n].row => ~GivenUp(r)',
                     NEW f \in outbox'[d][n].fields
              PROVE  Shows(d, n, f)'
  BY DEF EntryShown, GivenUp
<1>. DEFINE old == outbox[d]
            box == outbox'[d]
<1>1. /\ at[n] \in DOMAIN old /\ ~old[at[n]].blocked /\ f \in old[at[n]].fields
      /\ box[n].id = old[at[n]].id /\ box[n].row = old[at[n]].row
      /\ \A r : r = old[at[n]].row => ~GivenUp(r)
  BY DEF Thinned
<1>2. Shows(d, at[n], f)
  BY <1>1 DEF EntryShown
<1>3. CASE local[d][old[at[n]].row].val[f] = old[at[n]].id
  BY <1>1, <1>3 DEF Shows
<1>4. ASSUME NEW m \in DOMAIN old, m > at[n], old[m].row = old[at[n]].row, f \in old[m].fields
      PROVE  Shows(d, n, f)'
  <2>1. PICK l \in DOMAIN box : at[l] = m
    BY <1>1, <1>4 DEF Thinned
  <2>2. l > n /\ box[l].row = box[n].row /\ f \in box[l].fields
    BY <1>1, <1>4, <2>1 DEF Thinned
  <2>. QED
    BY <2>2 DEF Shows
<1>. QED
  BY <1>2, <1>3, <1>4 DEF Shows

(* A new edit shows at once, and what it overwrites is covered by it. *)
LEMMA VisibleEdits ==
  ASSUME SyncTyped, Recorded, VisibleInv, NEW d \in Device, NEW entries, Edits(d, entries)
  PROVE  VisibleInv'
<1>. DEFINE old == outbox[d]
            box == old \o entries
<1>1. PICK mine \in [Row -> LocalRow] :
        /\ local' = [local EXCEPT ![d] = mine]
        /\ \A r \in Row, f \in Field :
             \/ mine[r].val[f] = local[d][r].val[f]
             \/ \E n \in DOMAIN entries : entries[n].row = r /\ f \in entries[n].fields
        /\ \A n \in DOMAIN entries : \A f \in entries[n].fields :
             mine[entries[n].row].val[f] = entries[n].id
  BY DEF Edits
<1>2. /\ entries \in Seq(OutboxRow)
      /\ outbox' = [outbox EXCEPT ![d] = box]
      /\ made' = made \o entries
      /\ dropped' = dropped
      /\ \A n \in DOMAIN entries : entries[n].op = "delete" => entries[n].fields = {}
  BY DEF Edits, EditUnchanged
<1>3. /\ outbox \in [Device -> Seq(OutboxRow)] /\ old \in Seq(OutboxRow)
      /\ made \in Seq(OutboxRow) /\ local \in [Device -> [Row -> LocalRow]]
  BY MadeTyped DEF SyncTyped, SyncTypeOK
<1>4. /\ outbox'[d] = box /\ local'[d] = mine
      /\ \A c \in Device \ {d} : outbox'[c] = outbox[c] /\ local'[c] = local[c]
  BY <1>1, <1>2, <1>3
<1>. HIDE DEF old
<1>5. /\ Len(old) \in Nat /\ Len(entries) \in Nat /\ DOMAIN old = 1..Len(old)
      /\ DOMAIN entries = 1..Len(entries) /\ DOMAIN box = 1..(Len(old) + Len(entries))
  BY <1>2, <1>3
<1>6. \A n \in DOMAIN old : /\ n \in DOMAIN box /\ box[n] = old[n] /\ n \in Nat
                            /\ n <= Len(old)
  BY <1>2, <1>3
<1>7. \A n \in DOMAIN entries : /\ Len(old) + n \in DOMAIN box /\ n \in Nat /\ n >= 1
                                /\ box[Len(old) + n] = entries[n]
  BY <1>2, <1>3
<1>8. ASSUME NEW n \in DOMAIN box
      PROVE  n \in DOMAIN old \/ \E k \in DOMAIN entries : n = Len(old) + k
  <2>1. CASE n > Len(old)
    <3>1. n - Len(old) \in DOMAIN entries /\ n = Len(old) + (n - Len(old))
      BY <1>5, <2>1
    <3>. QED
      BY <3>1
  <2>. QED
    BY <1>5, <2>1
<1>9. \A i \in DOMAIN made : i \in DOMAIN made' /\ made'[i] = made[i]
  BY <1>2, <1>3
<1>. HIDE DEF box
<1>10. \A r : GivenUp(r)' <=> GivenUp(r)
  BY <1>2, <1>9 DEF VisibleInv, Bare, GivenUp
<1>11. \A n \in DOMAIN old : old[n] \in OutboxRow
  BY <1>3
<1>12. \A n \in DOMAIN entries : entries[n] \in OutboxRow
  BY <1>2
<1>13. ASSUME NEW n \in DOMAIN old PROVE EntryShown(d, n)'
  <2>. SUFFICES ASSUME ~old[n].blocked, ~GivenUp(old[n].row), NEW f \in old[n].fields
                PROVE  Shows(d, n, f)'
    BY <1>4, <1>6, <1>10 DEF EntryShown
  <2>1. old[n].row \in Row /\ f \in Field
    BY <1>11 DEF OutboxRow
  <2>2. Shows(d, n, f)
    BY DEF VisibleInv, EntryShown, old
  <2>3. CASE \E k \in DOMAIN old : k > n /\ old[k].row = old[n].row /\ f \in old[k].fields
    BY <1>4, <1>6, <2>3 DEF Shows
  <2>4. CASE \E k \in DOMAIN entries : entries[k].row = old[n].row /\ f \in entries[k].fields
    <3>1. PICK k \in DOMAIN entries : entries[k].row = old[n].row /\ f \in entries[k].fields
      BY <2>4
    <3>2. Len(old) + k > n
      BY <1>5, <1>6, <1>7
    <3>. QED
      BY <1>4, <1>6, <1>7, <3>1, <3>2 DEF Shows
  <2>5. CASE local[d][old[n].row].val[f] = old[n].id /\ mine[old[n].row].val[f] = old[n].id
    BY <1>4, <1>6, <2>5 DEF Shows
  <2>6. mine[old[n].row].val[f] = local[d][old[n].row].val[f] \/
        \E k \in DOMAIN entries : entries[k].row = old[n].row /\ f \in entries[k].fields
    BY <1>1, <2>1
  <2>7. \/ local[d][old[n].row].val[f] = old[n].id
        \/ \E k \in DOMAIN old : k > n /\ old[k].row = old[n].row /\ f \in old[k].fields
    BY <2>2 DEF Shows, old
  <2>. QED
    BY <2>3, <2>4, <2>5, <2>6, <2>7
<1>14. ASSUME NEW k \in DOMAIN entries, NEW n, n = Len(old) + k PROVE EntryShown(d, n)'
  <2>1. box[n] = entries[k]
    BY <1>7, <1>14
  <2>2. \A f \in entries[k].fields : mine[entries[k].row].val[f] = entries[k].id
    BY <1>1
  <2>. QED
    BY <1>4, <2>1, <2>2 DEF EntryShown, Shows
<1>15. ASSUME NEW n \in DOMAIN outbox'[d] PROVE EntryShown(d, n)'
  <2>1. n \in DOMAIN box
    BY <1>4, <1>15
  <2>2. CASE n \in DOMAIN old
    BY <1>13, <2>2
  <2>3. CASE \E k \in DOMAIN entries : n = Len(old) + k
    BY <1>14, <2>3
  <2>. QED
    BY <1>8, <2>1, <2>2, <2>3
<1>16. ASSUME NEW c \in Device, c # d, NEW n \in DOMAIN outbox'[c] PROVE EntryShown(c, n)'
  BY <1>4, <1>10, <1>16 DEF VisibleInv, EntryShown, Shows
<1>17. ASSUME NEW c \in Device, NEW n \in DOMAIN outbox'[c], outbox'[c][n].op = "delete"
       PROVE  outbox'[c][n].fields = {}
  <2>1. CASE c # d
    BY <1>4, <1>17, <2>1 DEF VisibleInv, Bare
  <2>2. CASE c = d
    <3>1. \A m \in DOMAIN old : old[m].op = "delete" => old[m].fields = {}
      BY DEF VisibleInv, Bare, old
    <3>2. n \in DOMAIN box /\ box[n].op = "delete" /\ outbox'[c][n] = box[n]
      BY <1>4, <1>17, <2>2
    <3>3. CASE n \in DOMAIN old
      BY <1>6, <3>1, <3>2, <3>3
    <3>4. ASSUME NEW k \in DOMAIN entries, n = Len(old) + k PROVE box[n].fields = {}
      BY <1>2, <1>7, <3>2, <3>4
    <3>. QED
      BY <1>8, <3>2, <3>3, <3>4
  <2>. QED
    BY <2>1, <2>2
<1>18. dropped' \subseteq DOMAIN made'
  BY <1>2, <1>9 DEF VisibleInv, Bare
<1>. QED
  BY <1>15, <1>16, <1>17, <1>18 DEF VisibleInv, Bare

(* Once an edit was discarded its row shows what it may. *)
LEMMA VisibleDiscard ==
  ASSUME SyncTyped, Recorded, VisibleInv, NEW d \in Device, NEW n \in DOMAIN outbox[d],
         Discard(d, n)
  PROVE  VisibleInv'
<1>. DEFINE old == outbox[d]
<1>1. /\ outbox \in [Device -> Seq(OutboxRow)] /\ old \in Seq(OutboxRow)
      /\ DOMAIN old = 1..Len(old) /\ Len(old) \in Nat /\ n \in 1..Len(old)
  BY DEF SyncTyped
<1>2. PICK box \in Seq(OutboxRow) :
        /\ outbox' = [outbox EXCEPT ![d] = box]
        /\ Len(box) = Len(old) - 1
        /\ \A k \in DOMAIN box : box[k] = IF k < n THEN old[k] ELSE old[k + 1]
  BY <1>1, DiscardIs
<1>3. /\ dropped' = dropped \cup {old[n].id}
      /\ UNCHANGED <<local, made>>
  BY DEF Discard
<1>4. /\ outbox'[d] = box
      /\ \A c \in Device \ {d} : outbox'[c] = outbox[c]
  BY <1>1, <1>2
<1>5. old[n].id \in DOMAIN made /\ made[old[n].id].row = old[n].row
  BY DEF Recorded, Consistent, Known
<1>6. \A r : GivenUp(r) => GivenUp(r)'
  BY <1>3 DEF GivenUp
<1>7. \A r : r = old[n].row => GivenUp(r)'
  BY <1>3, <1>5 DEF GivenUp
<1>. DEFINE at == [k \in DOMAIN box |-> IF k < n THEN k ELSE k + 1]
<1>8. DOMAIN box = 1..(Len(old) - 1)
  BY <1>2
<1>. HIDE DEF old
<1>9. /\ at \in [DOMAIN box -> DOMAIN old]
      /\ \A k \in DOMAIN box : box[k] = old[at[k]]
      /\ \A k, l \in DOMAIN box : at[k] > at[l] => k > l
      /\ \A m \in DOMAIN old : m # n => \E l \in DOMAIN box : at[l] = m
  <2>1. at \in [DOMAIN box -> DOMAIN old]
    BY <1>1, <1>8
  <2>2. \A k \in DOMAIN box : box[k] = old[at[k]]
    BY <1>2
  <2>3. \A k, l \in DOMAIN box : at[k] > at[l] => k > l
    BY <1>1, <1>8
  <2>4. ASSUME NEW m \in DOMAIN old, m # n PROVE \E l \in DOMAIN box : at[l] = m
    <3>1. CASE m < n
      BY <1>1, <1>8, <3>1
    <3>2. CASE m > n
      <4>1. m - 1 \in DOMAIN box /\ ~(m - 1 < n) /\ (m - 1) + 1 = m
        BY <1>1, <1>8, <3>2
      <4>. QED
        BY <4>1
    <3>. QED
      BY <1>1, <2>4, <3>1, <3>2
  <2>. QED
    BY <2>1, <2>2, <2>3, <2>4
<1>. HIDE DEF at
<1>10. Thinned(d, at)
  <2>1. outbox[d] = old
    BY DEF old
  <2>. QED
    BY <1>4, <1>7, <1>9, <2>1 DEF Thinned
<1>11. \A m \in DOMAIN outbox[d] : EntryShown(d, m)
  BY DEF VisibleInv
<1>12. local'[d] = local[d]
  BY <1>3
<1>13. \A m \in DOMAIN outbox'[d] : EntryShown(d, m)'
  BY <1>6, <1>10, <1>11, <1>12, VisibleThinned
<1>14. ASSUME NEW c \in Device, c # d, NEW m \in DOMAIN outbox'[c] PROVE EntryShown(c, m)'
  BY <1>3, <1>4, <1>6, <1>14 DEF VisibleInv, EntryShown, Shows
<1>15. Bare'
  <2>1. \A m \in DOMAIN old : old[m].op = "delete" => old[m].fields = {}
    BY DEF VisibleInv, Bare, old
  <2>2. \A k \in DOMAIN box : box[k].op = "delete" => box[k].fields = {}
    BY <1>9, <2>1
  <2>3. \A c \in Device \ {d} : \A k \in DOMAIN outbox'[c] :
          outbox'[c][k].op = "delete" => outbox'[c][k].fields = {}
    BY <1>4 DEF VisibleInv, Bare
  <2>4. dropped' \subseteq DOMAIN made'
    BY <1>3, <1>5 DEF VisibleInv, Bare
  <2>. QED
    BY <1>4, <2>2, <2>3, <2>4 DEF Bare
<1>. QED
  BY <1>13, <1>14, <1>15 DEF VisibleInv

(* What the vault took leaves the outbox first of its row: nothing that waits was covered by *)
(* it.                                                                                     *)
LEMMA VisibleTurn ==
  ASSUME SyncTyped, Recorded, Delivering, VisibleInv, NEW d \in Device, NEW rs, NEW box,
         Turn(d, rs, box)
  PROVE  VisibleInv'
<1>1. /\ outbox \in [Device -> Seq(OutboxRow)]
      /\ outbox' = [outbox EXCEPT ![d] = box]
      /\ rs \subseteq Range(sync[d].results)
      /\ Settles(outbox[d], rs, box)
      /\ UNCHANGED <<local, made, dropped>>
  BY DEF SyncTyped, Turn
<1>2. /\ outbox'[d] = box
      /\ \A c \in Device \ {d} : outbox'[c] = outbox[c]
  BY <1>1
<1>3. PICK at \in [DOMAIN box -> DOMAIN outbox[d]] :
        /\ \A k, l \in DOMAIN box : k < l => at[k] < at[l]
        /\ \A k \in DOMAIN box :
             LET e == outbox[d][at[k]]
             IN /\ box[k].id = e.id /\ box[k].row = e.row /\ box[k].op = e.op
                /\ box[k].fields = e.fields
                /\ box[k].blocked <=>
                     e.blocked \/ \E x \in rs : /\ x.status \in {"conflict", "rejected"}
                                                /\ x.id = e.id
                /\ \A x \in rs : Acked(x) => x.id # e.id
        /\ \A m \in DOMAIN outbox[d] :
             (\A x \in rs : Acked(x) => x.id # outbox[d][m].id)
               => \E k \in DOMAIN box : at[k] = m
  BY <1>1 DEF Settles
<1>4. DOMAIN outbox[d] \subseteq Nat /\ DOMAIN box \subseteq Nat
      /\ \A m \in DOMAIN outbox[d] : outbox[d][m].id \in Nat
  <2>1. box \in Seq(OutboxRow) /\ outbox[d] \in Seq(OutboxRow)
    BY DEF Turn, SyncTyped
  <2>2. \A m \in DOMAIN outbox[d] : outbox[d][m] \in OutboxRow
    BY <2>1
  <2>3. \A m \in DOMAIN outbox[d] : outbox[d][m].id \in EntryId
    BY <2>2 DEF OutboxRow
  <2>. QED
    BY <2>1, <2>3, SyncAssumption
<1>5. \A k, l \in DOMAIN box : at[k] > at[l] => k > l
  <2>. SUFFICES ASSUME NEW k \in DOMAIN box, NEW l \in DOMAIN box, at[k] > at[l], ~(k > l)
                PROVE  FALSE
    OBVIOUS
  <2>1. k = l \/ k < l
    BY <1>4
  <2>2. at[k] \in Nat /\ at[l] \in Nat /\ at[k] <= at[l]
    BY <1>3, <1>4, <2>1
  <2>. QED
    BY <2>2
<1>6. ASSUME NEW k \in DOMAIN box, NEW m \in DOMAIN outbox[d], ~box[k].blocked,
             m > at[k], outbox[d][m].row = outbox[d][at[k]].row
      PROVE  \E l \in DOMAIN box : at[l] = m
  <2>. DEFINE i == outbox[d][at[k]].id
              j == outbox[d][m].id
  <2>1. SUFFICES ASSUME NEW x \in rs, x.id = j PROVE FALSE
    BY <1>3
  <2>2. Told(d, j)
    BY <1>1, <2>1 DEF Told, Range
  <2>3. Waits(d, i)
    BY <1>3, <1>6 DEF Waits
  <2>4. i \in DOMAIN made /\ j \in DOMAIN made /\ made[i].row = made[j].row
    BY <1>6 DEF Recorded, Consistent, Known
  <2>5. i < j
    BY <1>4, <1>6 DEF Delivering, BoxesOrdered
  <2>6. i \in Nat /\ j \in Nat
    BY <1>4
  <2>. HIDE DEF i, j
  <2>7. j <= i
    BY <2>2, <2>3, <2>4 DEF Delivering, InTurn
  <2>. QED
    BY <2>5, <2>6, <2>7
<1>7. \A k \in DOMAIN box :
        /\ box[k].id = outbox[d][at[k]].id /\ box[k].row = outbox[d][at[k]].row
        /\ box[k].op = outbox[d][at[k]].op
        /\ box[k].fields = outbox[d][at[k]].fields
        /\ outbox[d][at[k]].blocked => box[k].blocked
  BY <1>3
<1>8. Thinned(d, at)
  BY <1>2, <1>5, <1>6, <1>7 DEF Thinned
<1>9. \A r : GivenUp(r)' <=> GivenUp(r)
  BY <1>1 DEF GivenUp
<1>10. \A n \in DOMAIN outbox'[d] : EntryShown(d, n)'
  <2>1. local'[d] = local[d]
    BY <1>1
  <2>. QED
    BY <1>8, <1>9, <2>1, VisibleThinned DEF VisibleInv
<1>11. ASSUME NEW c \in Device, c # d, NEW n \in DOMAIN outbox'[c] PROVE EntryShown(c, n)'
  BY <1>1, <1>2, <1>9, <1>11 DEF VisibleInv, EntryShown, Shows
<1>12. Bare'
  <2>1. \A k \in DOMAIN box : box[k].op = "delete" => box[k].fields = {}
    BY <1>7 DEF VisibleInv, Bare
  <2>2. \A c \in Device \ {d} : \A k \in DOMAIN outbox'[c] :
          outbox'[c][k].op = "delete" => outbox'[c][k].fields = {}
    BY <1>2 DEF VisibleInv, Bare
  <2>. QED
    BY <1>1, <1>2, <2>1, <2>2 DEF VisibleInv, Bare
<1>. QED
  BY <1>10, <1>11, <1>12 DEF VisibleInv

(* A pulled row shows the last edit that waits, which covers the others. *)
LEMMA VisibleApplies ==
  ASSUME SyncTyped, Delivering, VisibleInv, NEW d \in Device, Applies(d)
  PROVE  VisibleInv'
<1>1. /\ sync[d].phase = "apply"
      /\ local' = [local EXCEPT ![d] = Merged(d)]
      /\ UNCHANGED <<outbox, made, dropped>>
  BY DEF Applies, At
<1>2. /\ outbox[d] \in Seq(OutboxRow) /\ local \in [Device -> [Row -> LocalRow]]
  BY DEF SyncTyped, SyncTypeOK
<1>3. local'[d] = Merged(d) /\ \A c \in Device \ {d} : local'[c] = local[c]
  BY <1>1, <1>2
<1>4. \A r : GivenUp(r)' <=> GivenUp(r)
  BY <1>1 DEF GivenUp
<1>5. ASSUME NEW n \in DOMAIN outbox[d] PROVE EntryShown(d, n)'
  <2>. DEFINE e == outbox[d][n]
  <2>1. SUFFICES ASSUME ~e.blocked, ~GivenUp(e.row), NEW f \in e.fields
                 PROVE  Shows(d, n, f)'
    BY <1>1, <1>4 DEF EntryShown
  <2>2. e \in OutboxRow
    BY <1>2
  <2>3. e.row \in Row /\ e.op \in {"upsert", "delete"} /\ f \in Field
    BY <2>2 DEF OutboxRow
  <2>4. e.op = "upsert"
    BY <2>3 DEF VisibleInv, Bare
  <2>5. CASE Merged(d)[e.row] = local[d][e.row]
    <3>1. Shows(d, n, f)
      BY <2>1 DEF VisibleInv, EntryShown
    <3>. QED
      BY <1>1, <1>3, <2>5, <3>1 DEF Shows
  <2>6. ASSUME NEW theirs \in RowState, Merged(d)[e.row] = Reapplied(d, e.row, theirs)
        PROVE  Shows(d, n, f)'
    <3>. DEFINE waits(k) == /\ ~outbox[d][k].blocked /\ outbox[d][k].row = e.row
                            /\ outbox[d][k].op = "upsert" /\ f \in outbox[d][k].fields
    <3>1. waits(n)
      BY <2>1, <2>4
    <3>2. PICK q \in DOMAIN outbox[d] :
            /\ waits(q) /\ Reapplied(d, e.row, theirs).val[f] = outbox[d][q].id
            /\ \A m \in DOMAIN outbox[d] : waits(m) => outbox[d][m].id <= outbox[d][q].id
      <4>1. ASSUME NEW r \in Row
            PROVE  LET box == outbox[d]
                       new == Reapplied(d, r, theirs)
                       wait(m, g) == /\ ~box[m].blocked /\ box[m].row = r
                                     /\ box[m].op = "upsert" /\ g \in box[m].fields
                   IN \A g \in Field :
                        \/ (\A m \in DOMAIN box : ~wait(m, g)) /\ new.val[g] = theirs.val[g]
                        \/ \E m \in DOMAIN box :
                             /\ wait(m, g) /\ new.val[g] = box[m].id
                             /\ \A k \in DOMAIN box : wait(k, g) => box[k].id <= box[m].id
        BY <1>2, ReappliedIs
      <4>. HIDE DEF e
      <4>. QED
        BY <2>3, <3>1, <4>1
    <3>3. e.id <= outbox[d][q].id
      BY <3>1, <3>2
    <3>4. q = n \/ q > n
      <4>1. q \in Nat /\ n \in Nat /\ outbox[d][q] \in OutboxRow
        BY <1>2
      <4>2. e.id \in Nat /\ outbox[d][q].id \in Nat
        BY <2>2, <4>1, SyncAssumption DEF OutboxRow
      <4>3. q < n => outbox[d][q].id < e.id
        BY DEF Delivering, BoxesOrdered
      <4>. QED
        BY <3>3, <4>1, <4>2, <4>3
    <3>5. CASE q = n
      BY <1>1, <1>3, <2>6, <3>2, <3>5 DEF Shows
    <3>6. CASE q > n
      BY <1>1, <3>2, <3>6 DEF Shows
    <3>. QED
      BY <3>4, <3>5, <3>6
  <2>7. \/ Merged(d)[e.row] = local[d][e.row]
        \/ \E theirs \in RowState : Merged(d)[e.row] = Reapplied(d, e.row, theirs)
    <3>. HIDE DEF e
    <3>. QED
      BY <1>1, <2>3, MergedIs
  <2>. QED
    BY <2>5, <2>6, <2>7
<1>6. ASSUME NEW c \in Device, c # d, NEW n \in DOMAIN outbox[c] PROVE EntryShown(c, n)'
  BY <1>1, <1>3, <1>4, <1>6 DEF VisibleInv, EntryShown, Shows
<1>7. Bare'
  BY <1>1 DEF VisibleInv, Bare
<1>. QED
  BY <1>1, <1>5, <1>6, <1>7 DEF VisibleInv

\* No step takes a waiting value off the screen.
LEMMA VisibleStep ==
  ASSUME SyncTyped, PushInv, VisibleInv, [SyncNext]_allVars
  PROVE  VisibleInv'
<1>1. Recorded /\ Delivering
  BY DEF PushInv
<1>. DEFINE Quiet == UNCHANGED <<outbox, local, made, dropped>>
            G == VisibleInv'
<1>2. Quiet => G
  BY VisibleQuiet
<1>3. /\ UNCHANGED allVars => Quiet
      /\ \A d \in Device : PullServe(d) \/ Abort(d) \/ Unpause(d) => Quiet
      /\ Midnight \/ ServeOne \/ Answer => Quiet
      /\ \A m \in inflight : Deliver(m) => Quiet
  BY DEF allVars, deviceVars, PullServe, Abort, Unpause, Midnight, ServeOne, Answer, Deliver
<1>4. ASSUME NEW d \in Device, NEW entries, Edits(d, entries) PROVE G
  BY <1>1, <1>4, VisibleEdits
<1>5. ASSUME NEW d \in Device, NEW n \in DOMAIN outbox[d], Discard(d, n) PROVE G
  BY <1>1, <1>5, VisibleDiscard
<1>6. ASSUME NEW d \in Device, NEW rs, NEW box, Turn(d, rs, box) PROVE G
  BY <1>1, <1>6, VisibleTurn
<1>7. ASSUME NEW d \in Device, Applies(d) PROVE G
  BY <1>1, <1>7, VisibleApplies
<1>. HIDE DEF Quiet, G
<1>8. G
  BY <1>2, <1>3, <1>4, <1>5, <1>6, <1>7, SyncCases
<1>. QED
  BY <1>8 DEF G

(* What the user typed stays on the screen until the vault has taken it, whatever is pulled *)
(* meanwhile and wherever an answer is cut off.                                           *)
THEOREM PendingShown == SyncSpec => []PendingVisible
<1>1. SyncInit => VisibleInv
  <2>. SUFFICES ASSUME SyncInit PROVE VisibleInv
    OBVIOUS
  <2>1. dropped = {} /\ \A d \in Device : outbox[d] = <<>>
    BY DEF SyncInit
  <2>. QED
    BY <2>1 DEF VisibleInv, Bare
<1>2. SyncTyped /\ PushInv /\ VisibleInv /\ [SyncNext]_allVars => VisibleInv'
  BY VisibleStep
<1>. QED
  BY <1>1, <1>2, VisibleIs, PushAlways, SyncTypedAlways, PTL DEF SyncSpec
=============================================================================
