------------------------------ MODULE RowSync ------------------------------
(***************************************************************************)
(* The row channel end to end: the devices' SyncEngine                     *)
(* (apps/web/src/sync/engine.ts) with its outbox and local tables          *)
(* (apps/web/src/db/rows.ts), an unreliable network, and the vault of      *)
(* VaultRows.                                                              *)
(*                                                                         *)
(* A device's database runs in one worker: an action is the code between   *)
(* two awaits of the engine, or a whole user operation.  A request whose   *)
(* device gave up waiting may still reach the vault later.  The vault      *)
(* serves a push without yielding, so no device moves while job # Idle.    *)
(***************************************************************************)
EXTENDS VaultRows, Sublists

CONSTANTS
  BatchSize,   \* LIMITS.pushBatchSize
  MaxEdits,    \* bound: local edits made in a behaviour
  MaxAborts,   \* bound: lost connections and closed tabs in a behaviour
  MaxDiscards  \* bound: pending changes the user discards in a behaviour

ASSUME SyncAssumption ==
  /\ BatchSize \in Nat \ {0}
  /\ MaxEdits \in Nat
  /\ EntryId = 1..MaxEdits
  /\ MaxAborts \in Nat
  /\ MaxDiscards \in Nat

VARIABLES
  local,     \* the synced tables of each device
  outbox,    \* outbox of each device, in rowid order
  lastSeq,   \* sync_state.last_seq
  paused,    \* paused_until lies in the future
  conflicts, \* outbox ids with a row in the conflict table
  sync,      \* where the single sync run of a device stands
  inflight,  \* push requests on their way to the vault
  answered,  \* whether the device of job still waits for its answer
  made,      \* history: every entry ever enqueued, by id
  dropped,   \* history: entries the user discarded
  aborts

deviceVars == <<local, outbox, lastSeq, paused, conflicts, sync, made, dropped, aborts>>
netVars == <<inflight, answered>>
allVars == <<vars, deviceVars, netVars>>

LocalRow == [exists: BOOLEAN, version: Nat, deleted: BOOLEAN, val: [Field -> Value]]
OutboxRow == [id: EntryId, row: Row, op: {"upsert", "delete"}, fields: SUBSET Field,
              full: BOOLEAN, base: Nat, blocked: BOOLEAN]
Phase == {"idle", "pushing", "handle", "pull", "apply"}

NoRow == [exists |-> FALSE, version |-> 0, deleted |-> FALSE,
          val |-> [f \in Field |-> None]]
Asleep == [phase |-> "idle", results |-> <<>>, page |-> <<>>]

SyncInit ==
  /\ Init
  /\ local = [d \in Device |-> [r \in Row |-> NoRow]]
  /\ outbox = [d \in Device |-> <<>>]
  /\ lastSeq = [d \in Device |-> 0]
  /\ paused = [d \in Device |-> FALSE]
  /\ conflicts = [d \in Device |-> {}]
  /\ sync = [d \in Device |-> Asleep]
  /\ inflight = {}
  /\ answered = FALSE
  /\ made = <<>>
  /\ dropped = {}
  /\ aborts = 0
----------------------------------------------------------------------------
(***************************************************************************)
(* Local edits: writeRow, deleteRow and the operations built from them.    *)
(***************************************************************************)
LocalLive(d, r) == local[d][r].exists /\ ~local[d][r].deleted

\* Mutant: the base is the version before the one the edit was made on.
NewEntryBehind(d, n, r, op, F, full) ==
  [id |-> Len(made) + n, row |-> r, op |-> op, fields |-> F, full |-> full,
   base |-> local[d][r].version - 1, blocked |-> FALSE]

NewEntry(d, n, r, op, F, full) ==
  [id |-> Len(made) + n, row |-> r, op |-> op, fields |-> F, full |-> full,
   base |-> local[d][r].version, blocked |-> FALSE]

Enqueue(d, entries) ==
  /\ job = Idle
  /\ Len(made) + Len(entries) <= MaxEdits
  /\ outbox' = [outbox EXCEPT ![d] = @ \o entries]
  /\ made' = made \o entries

EditUnchanged == UNCHANGED <<vars, netVars, lastSeq, paused, conflicts, sync, dropped, aborts>>

\* writeRow: an edit shows at once, and brings a deleted row back.  The base version is
\* the row's local one, which only a pull advances.
WriteRow(d, r, F, full) ==
  /\ local[d][r].exists \/ TableOf[r] = "disc" \/ full
  /\ Enqueue(d, <<NewEntry(d, 1, r, "upsert", F, full)>>)
  /\ local' = [local EXCEPT ![d][r] =
       [exists |-> TRUE, version |-> @.version, deleted |-> FALSE,
        val |-> [f \in Field |-> IF f \in F THEN Len(made) + 1 ELSE @.val[f]]]]
  /\ EditUnchanged

\* setDiscStatus, setDiscNotes, setDiscTitle, saveDiscAiRaw, the disc row of a scan.
EditDisc(d, r, F) == TableOf[r] = "disc" /\ WriteRow(d, r, F, FALSE)

\* insertDiscItem makes a row with an id of its own under a disc of this device.
AddItem(d, r) ==
  /\ Parent[r] # None
  /\ local[d][Parent[r]].exists
  /\ \A x \in Device : ~local[x][r].exists
  /\ WriteRow(d, r, Field, TRUE)

\* setDiscItemImageUrl: the item was read before a network lookup, so that it may be
\* deleted by the time its picture is stored.
EditItem(d, r, f) ==
  /\ Parent[r] # None
  /\ local[d][r].exists
  /\ WriteRow(d, r, {f}, FALSE)

\* deleteRow of the rows in order, in one transaction.
DeleteRows(d, rows) ==
  /\ Enqueue(d, [n \in DOMAIN rows |-> NewEntry(d, n, rows[n], "delete", {}, FALSE)])
  /\ local' = [local EXCEPT ![d] =
       [r \in Row |-> IF \E n \in DOMAIN rows : rows[n] = r
                      THEN [@[r] EXCEPT !.deleted = TRUE] ELSE @[r]]]
  /\ EditUnchanged

RemoveItem(d, r) == Parent[r] # None /\ local[d][r].exists /\ DeleteRows(d, <<r>>)

\* deleteDisc: the items this device knows first, then the disc.
DeleteDisc(d, r) ==
  LET items == {c \in Row : Parent[c] = r /\ LocalLive(d, c)}
      n == Cardinality(items)
  IN /\ TableOf[r] = "disc"
     /\ local[d][r].exists
     /\ \E order \in Bijection(1..n, items) : DeleteRows(d, Append(order, r))

\* "Discard" in the list of pending changes.
Discard(d, n) ==
  /\ job = Idle
  /\ Cardinality(dropped) < MaxDiscards
  /\ n \in DOMAIN outbox[d]
  /\ outbox' = [outbox EXCEPT ![d] = SubSeq(@, 1, n - 1) \o SubSeq(@, n + 1, Len(@))]
  /\ dropped' = dropped \cup {outbox[d][n].id}
  /\ UNCHANGED <<vars, netVars, local, lastSeq, paused, conflicts, sync, made, aborts>>

UserStep(d) ==
  \/ \E r \in Row, F \in (SUBSET Field) \ {{}} : EditDisc(d, r, F)
  \/ \E r \in Row : AddItem(d, r)
  \/ \E r \in Row, f \in Field : EditItem(d, r, f)
  \/ \E r \in Row : RemoveItem(d, r)
  \/ \E r \in Row : DeleteDisc(d, r)
  \/ \E n \in 1..Len(outbox[d]) : Discard(d, n)
----------------------------------------------------------------------------
(***************************************************************************)
(* SyncEngine.sync: push the outbox, then pull.                            *)
(***************************************************************************)
PendingOf(box) == Kept(box, {n \in DOMAIN box : ~box[n].blocked})
Pending(d) == PendingOf(outbox[d])

\* Mutant: a batch takes whatever waits.
NextBatchAny(box) ==
  LET p == PendingOf(box) IN SubSeq(p, 1, IF Len(p) < BatchSize THEN Len(p) ELSE BatchSize)

\* The longest run of pending entries without a second entry for a row, cut at BatchSize.
NextBatch(box) ==
  LET p == PendingOf(box)
      fits(n) == \A i, j \in 1..n : i # j => p[i].row # p[j].row
      sizes == {n \in 0..BatchSize : n <= Len(p) /\ fits(n)}
  IN SubSeq(p, 1, CHOOSE n \in sizes : \A m \in sizes : m <= n)

AsPushEntry(e) == [id |-> e.id, row |-> e.row, op |-> e.op, fields |-> e.fields,
                   full |-> e.full, base |-> e.base]

Goto(d, phase) == sync' = [sync EXCEPT ![d] = [Asleep EXCEPT !.phase = phase]]

\* The loop of pushOutbox: send the next batch of box, or go on to the pull.
PushNext(d, box) ==
  LET batch == NextBatch(box)
  IN IF batch # <<>>
     THEN /\ inflight' = inflight \cup
               {[device |-> d, entries |-> [n \in DOMAIN batch |-> AsPushEntry(batch[n])],
                 awaited |-> TRUE]}
          /\ Goto(d, "pushing")
     ELSE /\ Goto(d, "pull")
          /\ UNCHANGED inflight

\* The engine of d is at an await that can resume.
At(d, phase) == job = Idle /\ sync[d].phase = phase

\* syncIfNeeded starts a run only for pending entries or a head past the last pull.
SyncStart(d) ==
  /\ At(d, "idle")
  /\ ~paused[d]
  /\ Pending(d) # <<>> \/ head > lastSeq[d]
  /\ PushNext(d, outbox[d])
  /\ UNCHANGED <<vars, answered, local, outbox, lastSeq, paused, conflicts, made, dropped, aborts>>

\* A request reaches the vault, in time or late.
Deliver(m) ==
  /\ PushBegin(m.device, m.entries)
  /\ inflight' = inflight \ {m}
  /\ answered' = m.awaited
  /\ UNCHANGED deviceVars

ServeOne ==
  /\ job.todo # <<>>
  /\ Serve(Head(job.todo))
  /\ UNCHANGED <<deviceVars, netVars>>

\* The answer reaches the device unless it gave up.
Answer ==
  /\ PushEnd
  /\ IF answered
     THEN sync' = [sync EXCEPT ![job.device] =
                     [Asleep EXCEPT !.phase = "handle", !.results = job.results]]
     ELSE sync' = sync
  /\ answered' = FALSE
  /\ UNCHANGED <<inflight, local, outbox, lastSeq, paused, conflicts, made, dropped, aborts>>

\* Mutant: a refused entry is deleted like an applied one.
SettledDroppingRefused(d, rs) ==
  LET box == outbox[d]
  IN Kept(box, {n \in DOMAIN box : \A x \in rs : x.id = box[n].id => x.status = "deferred"})

\* Mutant: a refused entry is not blocked.
SettledUnblocked(d, rs) ==
  LET acked == {x \in rs : x.status \in {"applied", "duplicate"}}
      after(e) ==
        [e EXCEPT !.base = IF \E x \in acked : x.row = e.row /\ @ < x.version
                           THEN (CHOOSE x \in acked : x.row = e.row).version ELSE @]
      waits == {n \in DOMAIN outbox[d] : \A x \in acked : x.id # outbox[d][n].id}
      kept == Kept(outbox[d], waits)
  IN [n \in DOMAIN kept |-> after(kept[n])]

\* handleResult for each of the results rs: every outcome but "deferred" settles its entry,
\* and an applied one lifts the base of the later edits of its row.
Settled(d, rs) ==
  LET acked == {x \in rs : x.status \in {"applied", "duplicate"}}
      refused == {x.id : x \in {y \in rs : y.status \in {"conflict", "rejected"}}}
      after(e) ==
        [e EXCEPT !.blocked = @ \/ e.id \in refused,
                  !.base = IF \E x \in acked : x.row = e.row /\ @ < x.version
                           THEN (CHOOSE x \in acked : x.row = e.row).version ELSE @]
      waits == {n \in DOMAIN outbox[d] : \A x \in acked : x.id # outbox[d][n].id}
      kept == Kept(outbox[d], waits)
  IN [n \in DOMAIN kept |-> after(kept[n])]

Conflicting(rs) == {x.id : x \in {y \in rs : y.status = "conflict"}}

\* Every result is handled, and the loop goes on unless the vault deferred an entry.
HandleResponse(d) ==
  LET rs == Range(sync[d].results)
      box == Settled(d, rs)
      deferred == \E x \in rs : x.status = "deferred"
  IN /\ At(d, "handle")
     /\ outbox' = [outbox EXCEPT ![d] = box]
     /\ conflicts' = [conflicts EXCEPT ![d] = @ \cup Conflicting(rs)]
     /\ IF deferred
        THEN Goto(d, "pull") /\ paused' = [paused EXCEPT ![d] = TRUE] /\ UNCHANGED inflight
        ELSE PushNext(d, box) /\ UNCHANGED paused
     /\ UNCHANGED <<vars, answered, local, lastSeq, made, dropped, aborts>>

\* The tab closes after the first n results, each handled in a transaction of its own.
CrashInResponse(d, n) ==
  LET rs == {sync[d].results[k] : k \in 1..n}
  IN /\ At(d, "handle")
     /\ n \in 1..(Len(sync[d].results) - 1)
     /\ aborts < MaxAborts
     /\ aborts' = aborts + 1
     /\ outbox' = [outbox EXCEPT ![d] = Settled(d, rs)]
     /\ conflicts' = [conflicts EXCEPT ![d] = @ \cup Conflicting(rs)]
     /\ Goto(d, "idle")
     /\ UNCHANGED <<vars, netVars, local, lastSeq, paused, made, dropped>>

\* GET /sync/changes: the page is read now and applied after an await.
PullServe(d) ==
  /\ At(d, "pull")
  /\ sync' = [sync EXCEPT ![d] = [phase |-> "apply", results |-> <<>>,
                                  page |-> Page(lastSeq[d])]]
  /\ UNCHANGED <<vars, netVars, local, outbox, lastSeq, paused, conflicts, made, dropped, aborts>>

\* Mutant: a tombstone does not hide the row.
ReappliedUndeleted(d, r, theirs) ==
  [exists |-> TRUE, version |-> theirs.version, deleted |-> local[d][r].deleted,
   val |-> theirs.val]

\* Mutant: the pulled values replace the ones still to send.
ReappliedNothing(d, r, theirs) ==
  [exists |-> TRUE, version |-> theirs.version, deleted |-> theirs.deleted,
   val |-> theirs.val]

\* applyChanges: the server's row, with the fields of pending upserts put back on top in
\* the order of their ids.  Pending deletes are not put back.
Reapplied(d, r, theirs) ==
  LET p == Pending(d)
      mine(f) == {p[n].id : n \in {k \in DOMAIN p : p[k].row = r /\ p[k].op = "upsert"
                                                      /\ f \in p[k].fields}}
  IN [exists |-> TRUE, version |-> theirs.version, deleted |-> theirs.deleted,
      val |-> [f \in Field |->
                 IF mine(f) = {} THEN theirs.val[f]
                 ELSE CHOOSE i \in mine(f) : \A j \in mine(f) : j <= i]]

\* Mutant: a pulled row does not replace one with edits still to send.
MergedUnlessPending(d) ==
  LET theirs == sync[d].page.changes
  IN [r \in Row |->
        IF r \in DOMAIN theirs /\ \A n \in DOMAIN outbox[d] : outbox[d][n].row # r
        THEN Reapplied(d, r, theirs[r]) ELSE local[d][r]]

Merged(d) ==
  LET theirs == sync[d].page.changes
  IN [r \in Row |->
        IF r \in DOMAIN theirs /\ local[d][r].version < theirs[r].version
        THEN Reapplied(d, r, theirs[r]) ELSE local[d][r]]

ApplyPage(d) ==
  /\ At(d, "apply")
  /\ local' = [local EXCEPT ![d] = Merged(d)]
  /\ lastSeq' = [lastSeq EXCEPT ![d] = sync[d].page.next]
  /\ Goto(d, IF sync[d].page.hasMore THEN "pull" ELSE "idle")
  /\ UNCHANGED <<vars, netVars, outbox, paused, conflicts, made, dropped, aborts>>

\* The tab closes between the transaction of applyChanges and the write of last_seq.
CrashBeforeLastSeq(d) ==
  /\ At(d, "apply")
  /\ aborts < MaxAborts
  /\ aborts' = aborts + 1
  /\ local' = [local EXCEPT ![d] = Merged(d)]
  /\ Goto(d, "idle")
  /\ UNCHANGED <<vars, netVars, outbox, lastSeq, paused, conflicts, made, dropped>>

\* The connection fails or the tab closes at an await; the request sent is not recalled.
Abort(d) ==
  /\ job = Idle
  /\ sync[d].phase # "idle"
  /\ aborts < MaxAborts
  /\ aborts' = aborts + 1
  /\ Goto(d, "idle")
  /\ inflight' = {IF m.device = d THEN [m EXCEPT !.awaited = FALSE] ELSE m : m \in inflight}
  /\ UNCHANGED <<vars, answered, local, outbox, lastSeq, paused, conflicts, made, dropped>>

Unpause(d) ==
  /\ job = Idle
  /\ paused[d]
  /\ paused' = [paused EXCEPT ![d] = FALSE]
  /\ UNCHANGED <<vars, netVars, local, outbox, lastSeq, conflicts, sync, made, dropped, aborts>>

EngineStep(d) ==
  \/ SyncStart(d)
  \/ HandleResponse(d)
  \/ \E n \in 1..BatchSize : CrashInResponse(d, n)
  \/ PullServe(d)
  \/ ApplyPage(d)
  \/ CrashBeforeLastSeq(d)
  \/ Abort(d)
  \/ Unpause(d)

Midnight == NewDay /\ UNCHANGED <<deviceVars, netVars>>

VaultStep ==
  \/ \E m \in inflight : Deliver(m)
  \/ ServeOne
  \/ Answer
  \/ Midnight

SyncNext == VaultStep \/ \E d \in Device : UserStep(d) \/ EngineStep(d)

SyncSpec == SyncInit /\ [][SyncNext]_allVars

\* The vault serves what reaches it, a connection that is not lost delivers, the engine
\* goes on when its awaits resolve, the automatic triggers of the app (focus, reconnect,
\* interval) start a run again and again, and days pass.  Nothing is assumed of the user,
\* nor of a request nobody waits for.
Fairness ==
  /\ \A d \in Device :
       /\ WF_allVars(SyncStart(d))
       /\ WF_allVars(HandleResponse(d))
       /\ WF_allVars(PullServe(d))
       /\ WF_allVars(ApplyPage(d))
       /\ WF_allVars(Unpause(d))
  /\ WF_allVars(\E m \in inflight : m.awaited /\ Deliver(m))
  /\ WF_allVars(ServeOne)
  /\ WF_allVars(Answer)
  /\ SF_allVars(Midnight)

SyncFairSpec == SyncSpec /\ Fairness
----------------------------------------------------------------------------
SyncTypeOK ==
  /\ local \in [Device -> [Row -> LocalRow]]
  /\ \A d \in Device : outbox[d] \in Seq(OutboxRow)
  /\ lastSeq \in [Device -> Nat]
  /\ paused \in [Device -> BOOLEAN]
  /\ conflicts \in [Device -> SUBSET EntryId]
  /\ \A d \in Device : sync[d].phase \in Phase
  /\ inflight \subseteq [device: Device, entries: Seq(Entry), awaited: BOOLEAN]
  /\ made \in Seq(OutboxRow)
  /\ dropped \subseteq EntryId
  /\ aborts \in 0..MaxAborts

(* Everything up to last_seq has arrived: a row whose version a device has pulled past is *)
(* there with that version, whatever changed between the pages and wherever the run was   *)
(* cut off; and no device ever holds a version the vault has not given out.               *)
PulledIsCurrent ==
  \A d \in Device, r \in Row :
    /\ local[d][r].version <= row[r].version
    /\ Exists(r) /\ row[r].version <= lastSeq[d] => local[d][r].version = row[r].version

AsEdit(e) == [id |-> e.id, row |-> e.row, op |-> e.op]

Entries == UNION {{outbox[d][n] : n \in DOMAIN outbox[d]} : d \in Device}
Queued == {e.id : e \in Entries}
Taken == {l.entry : l \in {m \in log : m.entry # None}}
Refusals == {e.id : e \in {x \in Entries : x.blocked}}

\* What EditDelivery sees of a state.
Queues == [d \in Device |-> LET p == Pending(d) IN [n \in DOMAIN p |-> AsEdit(p[n])]]
Aside == {AsEdit(made[i]) : i \in dropped \cup Refusals}
Moot == {AsEdit(made[i]) : i \in DOMAIN made \ (dropped \cup Taken \cup Queued)}
Gone == {l.row : l \in {m \in log : m.op = "delete"}}

Delivery == INSTANCE EditDelivery WITH
  queue <- Queues, made <- Len(made), aside <- Aside, moot <- Moot, taken <- Taken, gone <- Gone

(* The row channel delivers: mapped on the queues of waiting edits and on what the change *)
(* log holds, every step of devices, network and vault is a step of EditDelivery or none.  *)
(* So each edit takes effect at most once, the edits of a row take effect in the order     *)
(* their device made them, and an edit leaves its queue only for a reason the user sees.   *)
EditsDelivered == Delivery!DeliverySpec

\* Device d has nothing queued for row r, discarded nothing of it, and has pulled its version.
Drained(d, r) ==
  /\ row[r].version <= lastSeq[d]
  /\ \A n \in DOMAIN outbox[d] : outbox[d][n].row # r
  /\ \A i \in dropped : made[i].row # r

(* A drained device shows the vault's row: it knows of the same rows, deleted or not, and *)
(* no edit hangs on locally that the vault does not have.  A column may only lag behind   *)
(* with a value of the device's own that another device replaced (see LastWriteShown).    *)
Agreement ==
  \A d \in Device, r \in Row :
    Drained(d, r) =>
      /\ local[d][r].exists = Exists(r)
      /\ local[d][r].deleted = row[r].deleted
      /\ \A f \in Field :
           \/ local[d][r].val[f] = row[r].val[f]
           \/ \E l \in Writes(r, f) : l.entry = local[d][r].val[f] /\ l.device = d

(* "Last write wins, per field, in the order the server receives them": a drained device  *)
(* shows the vault's values.                                                              *)
LastWriteShown ==
  \A d \in Device, r \in Row : Drained(d, r) => local[d][r].val = row[r].val

(* "Nothing is lost": each edit is still queued, was discarded by the user, is in the     *)
(* change log, or was a delete of a row that was deleted already.                         *)
NoEditLost ==
  \A i \in DOMAIN made :
    \/ \E d \in Device : \E n \in DOMAIN outbox[d] : outbox[d][n].id = i
    \/ i \in dropped
    \/ \E l \in log : l.entry = i
    \/ made[i].op = "delete" /\ \E l \in log : l.row = made[i].row /\ l.op = "delete"

(* The vault applies a device's edits of one row in the order they were made, although    *)
(* requests are lost, resent and delivered late (nextBatch sends one entry per row).      *)
(* Edits that the vault refused or the user discarded may still arrive late; so may a     *)
(* delete that had found the row deleted, since that answer leaves no record to know its  *)
(* copy by.                                                                               *)
Standing(i) ==
  /\ i \notin dropped
  /\ \A d \in Device : \A n \in DOMAIN outbox[d] :
       outbox[d][n].id = i => ~outbox[d][n].blocked

FoundDeleted(i, before) ==
  /\ made[i].op = "delete"
  /\ \E k \in log : k.row = made[i].row /\ k.op = "delete" /\ k.seq < before

OrderKept ==
  \A l, m \in log :
    /\ l.entry # None /\ m.entry # None
    /\ l.row = m.row /\ l.device = m.device
    /\ l.seq < m.seq
    /\ Standing(l.entry) /\ Standing(m.entry)
    => l.entry <= m.entry \/ FoundDeleted(m.entry, l.seq)

(* Only two devices can be in conflict: an entry is set aside as "disc_exists" when        *)
(* another device created the disc, never against the device's own earlier edit.          *)
NoSelfConflict ==
  \A d \in Device : \A i \in conflicts[d] :
    \E l \in log : l.row = made[i].row /\ l.device # d

(* The delete wins: the vault holds no live row that refers to a deleted one.             *)
ParentsLive == \A r \in Row : Live(r) /\ Parent[r] # None => Live(Parent[r])

(* What the user typed stays on the screen until the vault has taken it: the column shows *)
(* the last edit waiting to be sent, whatever is pulled meanwhile.                        *)
PendingVisible ==
  \A d \in Device : \A n \in DOMAIN outbox[d] :
    LET e == outbox[d][n]
        covers(x, f) == x.row = e.row /\ f \in x.fields
    IN ~e.blocked /\ (\A i \in dropped : made[i].row # e.row) =>
         \A f \in e.fields :
           \/ local[d][e.row].val[f] = e.id
           \/ \E k \in DOMAIN outbox[d] : k > n /\ covers(outbox[d][k], f)

(* A pull never takes a device back: local versions and last_seq only grow.               *)
NeverBack ==
  [][\A d \in Device : /\ lastSeq'[d] >= lastSeq[d]
                       /\ \A r \in Row : local'[d][r].version >= local[d][r].version]_allVars

(* When the users stop editing, every edit comes to rest at the vault or in front of the  *)
(* user (as a conflict or an error), and every device has pulled everything: lost         *)
(* connections, closed tabs, the daily quota and the other device delay that, no more.    *)
Converges ==
  <>[](\A d \in Device : Pending(d) = <<>> /\ lastSeq[d] = head)
============================================================================
