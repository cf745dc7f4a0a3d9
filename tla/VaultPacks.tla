----------------------------- MODULE VaultPacks -----------------------------
(***************************************************************************)
(* The pack storage of one vault: reservation, upload and commit of pack   *)
(* parts (VaultStore of apps/api/src/vault/vault-store.ts behind VaultDO   *)
(* of vault-do.ts), over the shared guards of KvGuards.                    *)
(*                                                                         *)
(* A method of VaultStore runs in one step.  A method of VaultDO awaits    *)
(* hashing, D1 and KV, and the Durable Object serves other requests        *)
(* meanwhile: an upload is a record with the await it stands at, and the   *)
(* keys a request still has to queue for the purge are in toQueue.         *)
(***************************************************************************)
EXTENDS KvGuards

CONSTANTS
  Disc,
  Pack,         \* packs by hash; the same pack may be committed, replaced and come again
  DiscOf,       \* the disc of each pack
  PackOf,       \* the pack of each part
  Upload,       \* upload requests in service
  None,
  MaxPackBytes, \* quotas.maxPackBytes
  MaxReserved,  \* bound: reservations made in a behaviour
  MaxCrashes    \* bound: failed calls and restarts in a behaviour

ASSUME PacksAssumption ==
  /\ IsFiniteSet(Upload)
  /\ None \notin Pack \cup Key
  /\ DiscOf \in [Pack -> Disc]
  /\ PackOf \in [Key -> Pack]
  /\ MaxPackBytes \in Nat
  /\ MaxReserved \in Nat
  /\ MaxCrashes \in Nat

VARIABLES
  disc,      \* pack_hash of each disc row, and whether there is one that is not deleted
  part,      \* the row of pack_part of each part
  committed, \* parts with committed_at
  stale,     \* parts reserved longer ago than STALE_RESERVATION_MS
  upload,    \* uploadPart requests
  toQueue,   \* requests that wait for enqueuePurge
  wipe,      \* how far the deletion of the account came; "left" once one was broken off
  released,  \* history: keys the store has ever given up
  reserved,  \* reservations made so far
  crashes

storeVars == <<disc, part, committed, stale, wipe, released, reserved>>
requestVars == <<upload, toQueue, crashes>>
packVars == <<guardVars, storeVars, requestVars>>

Phase == {"idle", "bytes", "write", "put", "back", "mark"}
Unserved == [phase |-> "idle", key |-> None]

PacksInit ==
  /\ GuardInit
  /\ disc = [d \in Disc |-> [live |-> FALSE, pack |-> None]]
  /\ part = [k \in Key |-> "none"]
  /\ committed = {}
  /\ stale = {}
  /\ upload = [u \in Upload |-> Unserved]
  /\ toQueue = {}
  /\ wipe = "none"
  /\ released = {}
  /\ reserved = 0
  /\ crashes = 0

Gone == wipe = "gone"

PartsOf(p) == {k \in Key : PackOf[k] = p}
Rows == {k \in Key : part[k] # "none"}
Uploaded == {k \in Key : part[k] = "uploaded"}
----------------------------------------------------------------------------
(***************************************************************************)
(* Rows of discs, as far as packs depend on them (pushes of the row        *)
(* channel).                                                               *)
(***************************************************************************)
SaveDisc(d) ==
  /\ ~Gone
  /\ ~disc[d].live
  /\ disc' = [disc EXCEPT ![d].live = TRUE]
  /\ UNCHANGED <<guardVars, requestVars, part, committed, stale, wipe, released, reserved>>

DeleteDisc(d) ==
  /\ ~Gone
  /\ disc[d].live
  /\ disc' = [disc EXCEPT ![d].live = FALSE]
  /\ UNCHANGED <<guardVars, requestVars, part, committed, stale, wipe, released, reserved>>
----------------------------------------------------------------------------
(***************************************************************************)
(* reservePacks                                                            *)
(***************************************************************************)
Request(keys, now, deleting) ==
  IF keys = {} THEN {} ELSE {[keys |-> keys, now |-> now, wipe |-> deleting]}

\* Mutant: dropStaleReservations does not look at committed_at.
DroppableAll == Rows \cap stale

\* Rows that dropStaleReservations deletes.
Droppable == (Rows \cap stale) \ committed

\* Mutant: the storage quota does not count what is reserved already.
FitsAlone(p, rows) == BytesOf(PartsOf(p)) <= MaxPackBytes

Fits(p, rows) == BytesOf(rows) + BytesOf(PartsOf(p)) <= MaxPackBytes

\* Drops the stale reservations of the vault, then reserves p unless it is the current
\* pack, is reserved already or does not fit.
Reserve(p) ==
  LET kept == Rows \ Droppable
      fresh == disc[DiscOf[p]].pack # p /\ kept \cap PartsOf(p) = {} /\ Fits(p, kept)
  IN /\ ~Gone
     /\ fresh => reserved < MaxReserved
     /\ reserved' = IF fresh THEN reserved + 1 ELSE reserved
     /\ part' = [k \in Key |-> IF fresh /\ PackOf[k] = p THEN "reserved"
                               ELSE IF k \in kept THEN part[k] ELSE "none"]
     /\ stale' = stale \ Droppable
     /\ toQueue' = toQueue \cup Request(Droppable \cap Uploaded, TRUE, FALSE)
     /\ released' = released \cup (Droppable \cap Uploaded)
     /\ UNCHANGED <<guardVars, disc, committed, upload, wipe, crashes>>

\* Seven days pass since p was reserved.
ReservationStales(p) ==
  /\ (Rows \cap PartsOf(p)) \ stale # {}
  /\ stale' = stale \cup (Rows \cap PartsOf(p))
  /\ UNCHANGED <<guardVars, requestVars, disc, part, committed, wipe, released, reserved>>
----------------------------------------------------------------------------
(***************************************************************************)
(* uploadPart                                                              *)
(***************************************************************************)
At(u, phase) == upload[u].phase = phase

Goto(u, phase) ==
  upload' = [upload EXCEPT ![u] = IF phase = "idle" THEN Unserved ELSE [@ EXCEPT !.phase = phase]]

\* The part is reserved; a part that is uploaded already is answered without storing it.
\* The daily upload quota, which only refuses requests, is left out.
UploadBegin(u, k) ==
  /\ ~Gone
  /\ At(u, "idle")
  /\ part[k] = "reserved"
  /\ upload' = [upload EXCEPT ![u] = [phase |-> "bytes", key |-> k]]
  /\ UNCHANGED <<guardVars, storeVars, toQueue, crashes>>

UploadBytes(u) ==
  /\ At(u, "bytes")
  /\ TakeBytes(upload[u].key)
  /\ Goto(u, "write")
  /\ UNCHANGED <<storeVars, toQueue, crashes>>

UploadRefused(u) ==
  /\ At(u, "bytes")
  /\ ~BytesLeft(upload[u].key)
  /\ Goto(u, "idle")
  /\ UNCHANGED <<guardVars, storeVars, toQueue, crashes>>

UploadWrite(u) ==
  /\ At(u, "write")
  /\ TakeWrite
  /\ Goto(u, "put")
  /\ UNCHANGED <<storeVars, toQueue, crashes>>

UploadDeferred(u) ==
  /\ At(u, "write")
  /\ ~WriteLeft
  /\ Goto(u, "back")
  /\ UNCHANGED <<guardVars, storeVars, toQueue, crashes>>

\* reserveKvWrite without a write left, or the catch of uploadPart.
UploadBack(u) ==
  /\ At(u, "back")
  /\ GiveBack(upload[u].key)
  /\ Goto(u, "idle")
  /\ UNCHANGED <<storeVars, toQueue, crashes>>

UploadPut(u) ==
  /\ At(u, "put")
  /\ KvPut(upload[u].key)
  /\ Goto(u, "mark")
  /\ UNCHANGED <<storeVars, toQueue, crashes>>

\* Mutant: the error of the KV write is swallowed.
UploadFailsUnseen(u) ==
  /\ At(u, "put")
  /\ crashes < MaxCrashes
  /\ crashes' = crashes + 1
  /\ Goto(u, "mark")
  /\ UNCHANGED <<guardVars, storeVars, toQueue>>

\* KV refuses the write.
UploadFails(u) ==
  /\ At(u, "put")
  /\ crashes < MaxCrashes
  /\ crashes' = crashes + 1
  /\ Goto(u, "back")
  /\ UNCHANGED <<guardVars, storeVars, toQueue>>

\* Marks the row if it is still there.
UploadMark(u) ==
  LET k == upload[u].key
  IN /\ At(u, "mark")
     /\ part' = IF part[k] = "reserved" THEN [part EXCEPT ![k] = "uploaded"] ELSE part
     /\ Goto(u, "idle")
     /\ UNCHANGED <<guardVars, disc, committed, stale, toQueue, wipe, released, crashes, reserved>>
----------------------------------------------------------------------------
(***************************************************************************)
(* commitPack, wipe, the purge queue and restarts                          *)
(***************************************************************************)
\* Mutant: the commit counts rows and does not look whether they are uploaded.
CompleteReserved(p) == PartsOf(p) \subseteq Rows

Complete(p) == PartsOf(p) \subseteq Uploaded

\* A commit of the current pack, of an incomplete one or for a disc that is not live
\* changes nothing.  The rows of the old pack go, and its keys wait 30 days.
Commit(p) ==
  LET d == DiscOf[p]
      old == {k \in Rows : PackOf[k] = disc[d].pack}
  IN /\ ~Gone
     /\ disc[d].live
     /\ disc[d].pack # p
     /\ Complete(p)
     /\ disc' = [disc EXCEPT ![d].pack = p]
     /\ part' = [k \in Key |-> IF k \in old THEN "none" ELSE part[k]]
     /\ committed' = (committed \ old) \cup PartsOf(p)
     /\ stale' = stale \ old
     /\ toQueue' = toQueue \cup Request(old \cap Uploaded, FALSE, FALSE)
     /\ released' = released \cup (old \cap Uploaded)
     /\ UNCHANGED <<guardVars, upload, wipe, crashes, reserved>>

DatabaseDeleted ==
  /\ wipe' = "gone"
  /\ disc' = [d \in Disc |-> [live |-> FALSE, pack |-> None]]
  /\ part' = [k \in Key |-> "none"]
  /\ committed' = {}
  /\ stale' = {}

\* wipe lists the uploaded keys and queues them; without any it goes on at once.
WipeBegin ==
  /\ wipe \in {"none", "left"}
  /\ toQueue' = toQueue \cup Request(Uploaded, TRUE, TRUE)
  /\ released' = released \cup Uploaded
  /\ \/ Uploaded = {} /\ DatabaseDeleted
     \/ Uploaded # {} /\ wipe' = "listed" /\ UNCHANGED <<disc, part, committed, stale>>
  /\ UNCHANGED <<guardVars, upload, crashes, reserved>>

QueuePurge(q) ==
  /\ q \in toQueue
  /\ Enqueue(q.keys, q.now)
  /\ toQueue' = toQueue \ {q}
  /\ wipe' = IF q.wipe THEN "queued" ELSE wipe
  /\ UNCHANGED <<disc, part, committed, stale, upload, released, crashes, reserved>>

WipeEnd ==
  /\ wipe = "queued"
  /\ DatabaseDeleted
  /\ UNCHANGED <<guardVars, requestVars, released, reserved>>

\* The Durable Object restarts: its requests end where they stood.
Restart ==
  /\ crashes < MaxCrashes
  /\ crashes' = crashes + 1
  /\ upload' = [u \in Upload |-> Unserved]
  /\ toQueue' = {}
  /\ wipe' = IF wipe \in {"listed", "queued"} THEN "left" ELSE wipe
  /\ UNCHANGED <<guardVars, disc, part, committed, stale, released, reserved>>

CronFails ==
  /\ crashes < MaxCrashes
  /\ crashes' = crashes + 1
  /\ PurgeFails
  /\ UNCHANGED <<storeVars, upload, toQueue>>

PacksNewDay ==
  /\ kvWrites + kvDeletes > 0
  /\ GuardsNewDay
  /\ UNCHANGED <<requestVars, disc, part, committed, stale, wipe, released, reserved>>

CronStep ==
  \/ PurgeSelect
  \/ \E k \in Key : PurgeDelete(k)
  \/ PurgeSettle
  \/ \E k \in Key : RetentionEnds(k)

Cron == CronStep /\ UNCHANGED <<storeVars, requestVars>>

UploadStep(u) ==
  \/ UploadBytes(u) \/ UploadRefused(u) \/ UploadWrite(u) \/ UploadDeferred(u)
  \/ UploadBack(u) \/ UploadPut(u) \/ UploadFails(u) \/ UploadMark(u)

PacksNext ==
  \/ \E d \in Disc : SaveDisc(d) \/ DeleteDisc(d)
  \/ \E p \in Pack : Reserve(p) \/ ReservationStales(p) \/ Commit(p)
  \/ \E u \in Upload, k \in Key : UploadBegin(u, k)
  \/ \E u \in Upload : UploadStep(u)
  \/ WipeBegin
  \/ WipeEnd
  \/ \E q \in toQueue : QueuePurge(q)
  \/ Restart
  \/ CronFails
  \/ PacksNewDay
  \/ Cron

PacksSpec == PacksInit /\ [][PacksNext]_packVars

\* The cron is scheduled every day, a purge it began goes on unless it fails, and days
\* pass.
PacksFairSpec ==
  /\ PacksSpec
  /\ WF_packVars(PurgeSelect /\ UNCHANGED <<storeVars, requestVars>>)
  /\ WF_packVars(\E k \in Key : PurgeDelete(k) /\ UNCHANGED <<storeVars, requestVars>>)
  /\ WF_packVars(PurgeSettle /\ UNCHANGED <<storeVars, requestVars>>)
  /\ WF_packVars(PacksNewDay)
----------------------------------------------------------------------------
PacksTypeOK ==
  /\ GuardTypeOK
  /\ disc \in [Disc -> [live: BOOLEAN, pack: Pack \cup {None}]]
  /\ part \in [Key -> {"none", "reserved", "uploaded"}]
  /\ committed \subseteq Rows
  /\ stale \subseteq Rows
  /\ reserved \in 0..MaxReserved
  /\ upload \in [Upload -> [phase: Phase, key: Key \cup {None}]]
  /\ \A u \in Upload : upload[u].key = None <=> At(u, "idle")
  /\ toQueue \subseteq [keys: SUBSET Key, now: BOOLEAN, wipe: BOOLEAN]
  /\ wipe \in {"none", "listed", "queued", "gone", "left"}
  /\ released \subseteq Key
  /\ crashes \in 0..MaxCrashes

(* The pack a disc names is whole: all its parts have their rows, uploaded and committed, *)
(* whatever was dropped as stale, replaced or reserved again in between (commitPack,      *)
(* dropStaleReservations).                                                                *)
CurrentComplete ==
  \A d \in Disc : disc[d].pack # None => PartsOf(disc[d].pack) \subseteq Uploaded \cap committed

(* A part the vault counts as uploaded is in KV, unless the vault has given up its key    *)
(* before (uploadPart marks after the KV write, and the cron deletes given-up keys only). *)
UploadedStored == Uploaded \ released \subseteq kv

(* The pack a disc names can be downloaded, as long as nobody deletes the account: the   *)
(* cron deletes replaced packs only (purgeDueKeys).                                       *)
CurrentStored ==
  wipe = "none" => \A d \in Disc : disc[d].pack # None => PartsOf(disc[d].pack) \subseteq kv

Taken == {u \in Upload : upload[u].phase \in {"write", "put", "back"}}

(* The account never stores more than its guard allows, with uploads of the same part     *)
(* side by side, failed writes, restarts and purges: the counter never falls below what   *)
(* KV holds plus what the uploads under way may still add, until an account is deleted    *)
(* (a deletion that is broken off queues its keys twice).                                 *)
GuardHolds ==
  /\ wipe = "none" =>
       BytesOf(kv) + SumFunctionOnSet([u \in Taken |-> Bytes[upload[u].key]], Taken) <= kvBytes
  /\ kvBytes <= KvBytesGuard

(* The vault keeps to its storage quota.                                                  *)
QuotaKept == BytesOf(Rows) <= MaxPackBytes

(* The deletes counted today and those of the run under way stay within the daily guard,  *)
(* over any number of runs, failed ones included (purgeDueKeys).                          *)
DeletesWithinGuard ==
  kvDeletes + (IF purge.today THEN Cardinality(purge.picked) ELSE 0) <= KvDeletesGuard

(* When an account is deleted, every part the vault then counts as uploaded is already    *)
(* queued for the purge (wipe).                                                           *)
WipeQueuesAll == [][WipeEnd => Uploaded \cap kv \subseteq Queued]_packVars

(* The keys that are due leave the queue, whatever the daily limit of deletes: again and  *)
(* again none is left (reservations, and with them the keys to queue, are bounded).       *)
Drains == []<>(due = <<>>)
============================================================================
