----------------------------- MODULE VaultRows -----------------------------
(***************************************************************************)
(* The row channel of one vault: VaultStore.push and VaultStore.changes of *)
(* apps/api/src/vault/vault-store.ts, over the synced tables, the change   *)
(* log and the daily write counter.                                        *)
(*                                                                         *)
(* Push runs without an await inside a single-threaded Durable Object: the *)
(* loop over the entries of a request is the variable job, and no other    *)
(* step of the vault happens while it runs.  An edit writes values of its  *)
(* own, so a column holds the id of the outbox entry that wrote it.        *)
(***************************************************************************)
EXTENDS Integers, FiniteSets, Sequences, Functions

CONSTANTS
  Row,            \* primary keys of the synced rows
  TableOf,        \* the table of each row; "disc" is the table of discs
  Parent,         \* the row that a required reference of a row names, or None
  Field,          \* the columns a device may push
  Device,
  EntryId,        \* outbox ids (UUIDs made on the devices)
  None,
  MaxDiscs,       \* quotas.maxDiscs
  MaxMetaWrites,  \* quotas.maxMetaWritesPerDay
  PruneLimit,     \* the 500 of pruneChangeLog
  PageSize        \* LIMITS.changesPageSize

ASSUME RowsAssumption ==
  /\ IsFiniteSet(Row)
  /\ None \notin Row \cup EntryId \cup Device
  /\ Parent \in [Row -> Row \cup {None}]

ASSUME LimitsAssumption ==
  /\ MaxDiscs \in Nat
  /\ MaxMetaWrites \in Nat
  /\ PruneLimit \in Nat \ {0}
  /\ PageSize \in Nat \ {0}

\* SYNCED_TABLES nests references one level deep: disc_item -> disc, tag_link -> tag.
ASSUME DepthAssumption ==
  \A r \in Row : Parent[r] # None => Parent[Parent[r]] = None

VARIABLES
  row,     \* the synced tables
  log,     \* every change_log record ever written; the table holds those after pruned
  head,    \* sqlite_sequence of change_log
  pruned,  \* records up to this seq were deleted by pruneChangeLog
  aged,    \* records up to this seq are older than the retention period
  writes,  \* quota_usage.meta_writes of today
  job      \* the push request being served

vars == <<row, log, head, pruned, aged, writes, job>>

Value == EntryId \cup {None}
Entry == [id: EntryId, row: Row, op: {"upsert", "delete"},
          fields: SUBSET Field,
          full: BOOLEAN,   \* carries every required column, the reference included
          base: Nat]
RowState == [version: Nat, deleted: BOOLEAN, val: [Field -> Value]]
LogRec == [seq: Nat, row: Row, op: {"upsert", "delete"}, fields: SUBSET Field,
           entry: Value, device: Device, lost: SUBSET (Field \X Value)]
Status == {"applied", "duplicate", "deferred", "rejected", "conflict"}
Result == [id: EntryId, row: Row, status: Status, version: Nat]

\* A row the table does not hold.  A stored row always has the seq of a log record.
Absent == [version |-> 0, deleted |-> FALSE, val |-> [f \in Field |-> None]]

Idle == [device |-> None, todo |-> <<>>, results |-> <<>>]

Init ==
  /\ row = [r \in Row |-> Absent]
  /\ log = {}
  /\ head = 0
  /\ pruned = 0
  /\ aged = 0
  /\ writes = 0
  /\ job = Idle
----------------------------------------------------------------------------
Exists(r) == row[r].version # 0
Live(r) == Exists(r) /\ ~row[r].deleted
LiveDiscs == {r \in Row : TableOf[r] = "disc" /\ Live(r)}
\* Mutant: tombstone forgets the rows that refer to the deleted one.
ChildrenForgotten(r) == {}

Children(r) == {c \in Row : Parent[c] = r /\ Live(c)}

\* push: the request is known by its device and its entries.
PushBegin(d, entries) ==
  /\ job = Idle
  /\ job' = [device |-> d, todo |-> entries, results |-> <<>>]
  /\ UNCHANGED <<row, log, head, pruned, aged, writes>>

Reply(e, status, version) ==
  job' = [job EXCEPT !.todo = Tail(@),
                     !.results = Append(@, [id |-> e.id, row |-> e.row,
                                            status |-> status, version |-> version])]

\* Mutant: push does not look the outbox id up.
LoggedForgotten(e) == {}

Logged(e) == {l \in log : l.seq > pruned /\ l.entry = e.id}

ReplyDuplicate(e) ==
  /\ \E l \in Logged(e) : Reply(e, "duplicate", l.seq)
  /\ UNCHANGED <<row, log, head, pruned, aged, writes>>

ReplyDeferred(e) ==
  /\ Logged(e) = {}
  /\ writes >= MaxMetaWrites
  /\ Reply(e, "deferred", 0)
  /\ UNCHANGED <<row, log, head, pruned, aged, writes>>

\* Mutant: push forgets the daily quota.
AdmittedUnmetered(e) == Logged(e) = {}

\* The entry reaches applyEntry.
Admitted(e) ==
  /\ Logged(e) = {}
  /\ writes < MaxMetaWrites

\* What applyEntry, checkReferences and insertRow throw for.
Refused(e) ==
  IF e.op = "delete" THEN ~Exists(e.row)
  ELSE \/ e.full /\ Parent[e.row] # None /\ ~Live(Parent[e.row])
       \/ ~Exists(e.row) /\ TableOf[e.row] = "disc" /\ Cardinality(LiveDiscs) >= MaxDiscs
       \/ ~Exists(e.row) /\ TableOf[e.row] # "disc" /\ ~e.full
       \/ row[e.row].deleted /\ e.base < row[e.row].version

ReplyRejected(e) ==
  /\ Admitted(e)
  /\ Refused(e)
  /\ Reply(e, "rejected", 0)
  /\ UNCHANGED <<row, log, head, pruned, aged, writes>>

\* A device that never saw the disc tries to create it again.
DiscExists(e) == TableOf[e.row] = "disc" /\ Live(e.row) /\ e.base = 0

ReplyConflict(e) ==
  /\ Admitted(e)
  /\ e.op = "upsert"
  /\ ~Refused(e)
  /\ DiscExists(e)
  /\ Reply(e, "conflict", 0)
  /\ UNCHANGED <<row, log, head, pruned, aged, writes>>

\* Values the write replaces although its device had not seen the row's last version.
Overwritten(e) ==
  IF row[e.row].version > e.base
  THEN {<<f, row[e.row].val[f]>> : f \in {g \in e.fields : row[e.row].val[g] # e.id}}
  ELSE {}

\* Mutant: the whole row is replaced, not only the columns of the entry.
WrittenWhole(e) == [version |-> head + 1, deleted |-> FALSE,
                    val |-> [f \in Field |-> IF f \in e.fields THEN e.id ELSE None]]

Written(e) == [version |-> head + 1, deleted |-> FALSE,
               val |-> [f \in Field |-> IF f \in e.fields THEN e.id
                                        ELSE row[e.row].val[f]]]

\* Inserts the row or updates it field by field; either way it is live afterwards.
Upsert(e) ==
  /\ Admitted(e)
  /\ e.op = "upsert"
  /\ ~Refused(e)
  /\ ~DiscExists(e)
  /\ row' = [row EXCEPT ![e.row] = Written(e)]
  /\ log' = log \cup {[seq |-> head + 1, row |-> e.row, op |-> "upsert",
                       fields |-> e.fields, entry |-> e.id, device |-> job.device,
                       lost |-> Overwritten(e)]}
  /\ head' = head + 1
  /\ writes' = writes + 1
  /\ Reply(e, "applied", head + 1)
  /\ UNCHANGED <<pruned, aged>>

ReplyAlreadyDeleted(e) ==
  /\ Admitted(e)
  /\ e.op = "delete"
  /\ row[e.row].deleted
  /\ Reply(e, "applied", row[e.row].version)
  /\ UNCHANGED <<row, log, head, pruned, aged, writes>>

Removal(r, seq, entry) ==
  [seq |-> seq, row |-> r, op |-> "delete", fields |-> {}, entry |-> entry,
   device |-> job.device, lost |-> {}]

Tombstoned(r, seq) == [version |-> seq, deleted |-> TRUE, val |-> row[r].val]

\* Soft-deletes the row, then every live row that refers to it, each with a seq of its own
\* (the SELECT of the children names no order).
Tombstone(e) ==
  /\ Admitted(e)
  /\ e.op = "delete"
  /\ Live(e.row)
  /\ LET kids == Children(e.row)
         n == Cardinality(kids)
     IN \E place \in Bijection(kids, 1..n) :
          /\ row' = [r \in Row |->
                IF r = e.row THEN Tombstoned(r, head + 1)
                ELSE IF r \in kids THEN Tombstoned(r, head + 1 + place[r])
                ELSE row[r]]
          /\ log' = log \cup {Removal(e.row, head + 1, e.id)}
                        \cup {Removal(k, head + 1 + place[k], None) : k \in kids}
          /\ head' = head + 1 + n
          /\ writes' = writes + 1 + n
  /\ Reply(e, "applied", head + 1)
  /\ UNCHANGED <<pruned, aged>>

\* Mutant: the prune limit is counted from the newest aged record.
PushEndFromNewest ==
  /\ job # Idle
  /\ job.todo = <<>>
  /\ pruned' = aged - PruneLimit
  /\ job' = Idle
  /\ UNCHANGED <<row, log, head, aged, writes>>

\* After the loop: drop the oldest aged records, at most PruneLimit of them, and answer.
PushEnd ==
  /\ job # Idle
  /\ job.todo = <<>>
  /\ pruned' = IF aged > pruned + PruneLimit THEN pruned + PruneLimit
               ELSE IF aged > pruned THEN aged ELSE pruned
  /\ job' = Idle
  /\ UNCHANGED <<row, log, head, aged, writes>>

\* The retention period passes for the records up to s.
Age(s) ==
  /\ job = Idle
  /\ s \in (aged + 1)..head
  /\ aged' = s
  /\ UNCHANGED <<row, log, head, pruned, writes, job>>

\* UTC midnight: the quota_usage row of the new day does not exist yet.
NewDay ==
  /\ job = Idle
  /\ writes > 0
  /\ writes' = 0
  /\ UNCHANGED <<row, log, head, pruned, aged, job>>

Serve(e) ==
  \/ ReplyDuplicate(e) \/ ReplyDeferred(e) \/ ReplyRejected(e) \/ ReplyConflict(e)
  \/ Upsert(e) \/ ReplyAlreadyDeleted(e) \/ Tombstone(e)

ServerStep ==
  \/ job.todo # <<>> /\ Serve(Head(job.todo))
  \/ PushEnd
  \/ \E s \in 1..head : Age(s)
  \/ NewDay

Next ==
  \/ \E d \in Device, entries \in Seq(Entry) : PushBegin(d, entries)
  \/ ServerStep

Spec == Init /\ [][Next]_vars
----------------------------------------------------------------------------
(***************************************************************************)
(* VaultStore.changes: the latest state of the rows changed after since.   *)
(***************************************************************************)
\* ORDER BY version LIMIT n
Oldest(S, n) == {r \in S : Cardinality({s \in S : row[s].version < row[r].version}) < n}

\* Mutant: each table contributes no more than a page.
CandidatesOfPage(since) ==
  LET changed == {r \in Row : row[r].version > since}
  IN {r \in changed :
        r \in Oldest({s \in changed : TableOf[s] = TableOf[r]}, PageSize)}

\* Each table contributes one row more than a page, so that hasMore can be told.
Candidates(since) ==
  LET changed == {r \in Row : row[r].version > since}
  IN {r \in changed :
        r \in Oldest({s \in changed : TableOf[s] = TableOf[r]}, PageSize + 1)}

\* Mutant: an empty page sends the device back to the start.
PageRestarting(since) ==
  LET cand == Candidates(since)
      rows == Oldest(cand, PageSize)
      last == CHOOSE r \in rows : \A s \in rows : row[s].version <= row[r].version
  IN [changes |-> [r \in rows |-> row[r]],
      hasMore |-> Cardinality(cand) > PageSize,
      head |-> head,
      next |-> IF rows = {} THEN 0 ELSE row[last].version]

Page(since) ==
  LET cand == Candidates(since)
      rows == Oldest(cand, PageSize)
      more == Cardinality(cand) > PageSize
      last == CHOOSE r \in rows : \A s \in rows : row[s].version <= row[r].version
  IN [changes |-> [r \in rows |-> row[r]],
      hasMore |-> more,
      head |-> head,
      next |-> IF more THEN row[last].version ELSE IF head > since THEN head ELSE since]
----------------------------------------------------------------------------
TypeOK ==
  /\ row \in [Row -> RowState]
  /\ log \subseteq LogRec
  /\ head \in Nat
  /\ pruned \in Nat
  /\ aged \in Nat
  /\ writes \in Nat
  /\ job \in {Idle} \cup [device: Device, todo: Seq(Entry), results: Seq(Result)]

(* Every row is exactly what replaying the change log gives: its version is the seq of   *)
(* its last record, it is deleted when that record is a delete, and each column holds    *)
(* what the last upsert naming the column wrote (the audit log loses nothing and the     *)
(* version stamp of recordChange never trails the log).                                  *)
LastRecord(l) == \A m \in log : m.row = l.row => m.seq <= l.seq

Writes(r, f) == {l \in log : l.row = r /\ l.op = "upsert" /\ f \in l.fields}

RowsReplayLog ==
  \A r \in Row :
    /\ row[r].version = 0 => row[r] = Absent /\ \A l \in log : l.row # r
    /\ row[r].version # 0 =>
         \E l \in log : /\ l.row = r
                        /\ LastRecord(l)
                        /\ l.seq = row[r].version
                        /\ row[r].deleted <=> l.op = "delete"
    /\ \A f \in Field :
         \/ row[r].val[f] = None /\ Writes(r, f) = {}
         \/ \E l \in Writes(r, f) : /\ l.entry = row[r].val[f]
                                    /\ \A m \in Writes(r, f) : m.seq <= l.seq

(* An outbox entry takes effect once however often it is pushed, as long as the log       *)
(* remembers it: a second record of the same entry is only ever written after the first   *)
(* was pruned (push looks the outbox id up in change_log).                                *)
AppliedOnce ==
  \A l, m \in log :
    l.entry = m.entry /\ l.entry # None /\ l.seq < m.seq => l.seq <= pruned

(* No row outlives the deletion of the row it refers to: whatever is live under a         *)
(* tombstoned parent was saved again after the parent went.                               *)
CascadeComplete ==
  \A r \in Row :
    Live(r) /\ Parent[r] # None /\ row[Parent[r]].deleted
      => row[r].version > row[Parent[r]].version

(* A device that follows the feed misses nothing: for every point since, the page holds   *)
(* each row whose version lies between since and next, nothing older, and the last page   *)
(* reaches the head (changes cuts every table at PageSize + 1 rows before it merges).     *)
FeedComplete ==
  \A since \in 0..head :
    LET p == Page(since)
    IN /\ DOMAIN p.changes = {r \in Row : row[r].version \in (since + 1)..p.next}
       /\ p.hasMore => p.next > since
       /\ ~p.hasMore => p.next = head
       /\ Cardinality(DOMAIN p.changes) <= PageSize

(* The daily write quota holds up to one cascade: the entry that finds the last free      *)
(* write may still tombstone the children of its row, and nothing after it is applied     *)
(* before the next day.                                                                   *)
WritesBounded ==
  \/ writes <= MaxMetaWrites
  \/ \E r \in Row : writes <= MaxMetaWrites + Cardinality({c \in Row : Parent[c] = r})
============================================================================
