# DiscVault in TLA+

DiscVault keeps a catalog of a person's discs on every device of an account.  Each device has
its own SQLite database and works offline; a Cloudflare Worker with one Durable Object per vault
keeps the account's copy.  This directory specifies that program in TLA+, model-checks the
specifications with TLC on small instances and proves properties of them with TLAPS.

Paths below are relative to the repository.

## 1. The system

| Part | State | Operations | Interacts with |
|---|---|---|---|
| **Vault row channel** (`apps/api/src/vault/vault-store.ts`: `push`, `changes`) | synced tables, `change_log`, `sqlite_sequence`, `quota_usage` | `push` (upsert, delete, `pack_commit`), `changes`, `head`, `manifest`, pruning | called by the API routes through `VaultDO`; hands replaced packs to the purge queue |
| **Vault pack storage** (`vault-store.ts`, `vault-do.ts`) | `pack_part`, pack columns of `disc` | `reservePacks`, `uploadPart`, `markUploaded`, `commitPack`, `dropStaleReservations`, `wipe` | KV for the bytes, the directory for the guards and the purge queue |
| **Directory** (`directory/directory.ts`, `auth/`) | users, vaults, sessions, devices, config, `usage_total`, `usage_daily`, `purge_queue` (D1) | sign-up decision, vault provisioning, device registration and revocation, KV guards, purge cron, account deletion | all vaults share it, each call is a network await |
| **Accounts in the browser** (`apps/web/src/account`, `app/session.tsx`) | cookie, `discvault:accounts`, a file per vault | `bootstrapAccount`, sign-in, sign-out, account deletion | the API by the cookie; the worker opens the file |
| **Sync engine** (`apps/web/src/sync/engine.ts`) | `outbox`, `sync_state`, `conflict` | `sync`, `syncIfNeeded`, `pushOutbox`, `handleResult`, `pull`, `uploadPendingPacks`, `loadChangedPacks` | transport to the API, local tables |
| **Local edits** (`db/rows.ts`, `db/disc-items.ts`, `db/sync-admin.ts`) | local copies of the synced tables | `writeRow`, `deleteRow`, `applyChanges`, items, discard, conflicts | called by every screen through the worker |
| **Tab leadership** (`db/worker.ts`, `db/leader-channel.ts`) | Web Lock, BroadcastChannel, pool of file handles, role of each tab | `open`, `becomeLeader`, `watchForPromotion`, `teardown`, remote calls with timeouts | decides which tab owns the database |
| **Device packs** (`db/packs.ts`, `scan/`, `archive/`) | `folder`, `file`, `local_pack`, `pending_pack_part` | import, scan commit, removal, export | engine, pack format |
| **Pack format, catalog** (`packages/sync-protocol/src/pack.ts`, `db/catalog.ts`, `tools/import-legacy`) | none but the rows they make | walk, `dedupeSiblingFolders`, `buildPack`, `parsePackPart`, `listFolderChildren` | both sides |
| **Migrations** (`packages/schema/src`) | `user_version`, or a key in the object's storage | `migrate` | both databases |
| **AI analysis, icons, keys** (`apps/web/src/ai`, `images`, `ui/genre-icon.tsx`) | a bulk queue, an icon queue, keys in localStorage | analyse, cancel, look pictures up, generate icons | writes items through the worker |
| **Screens** (`apps/web/src/screens`) | the wizard's form; a query cache per tab | scan wizard; queries, mutations, invalidations | the worker |

What is hard about it, and what each part owes:

- *Row channel.*  Requests are resent after a lost answer, arrive late, and carry a base version
  that may be stale.  Owed: an edit takes effect once, in the order its device made it; the log
  and the tables tell the same story; a delete takes the rows that refer to it along; a device
  that follows the feed misses nothing; the daily quota holds.
- *Engine and local edits.*  Every `await` lets the user edit, another tab call, or the page
  close; a response is handled in several transactions.  Owed: no edit is lost; what is not sent
  yet stays visible; a device with nothing to send shows the vault's rows; everything settles.
- *Packs, guards and purge.*  Uploads await between the check of a reservation and its use, and
  keys wait thirty days in a queue.  Owed: the current pack of a disc is in KV; counters equal
  what is stored; a refused step gives back what it took; devices end with the vault's pack.
- *Tab leadership.*  Locks, promotion and `teardown` race.  Owed: one tab has the database open,
  one sync runs, and a tab that loads starts or says why it cannot.
- *Accounts.*  Sign-ups count, then insert; sessions outlive what they name; tabs share a cookie.
  Owed: the cap holds within what is at work at once; one vault per user; devices stay with their
  owner; rows of two vaults never meet.
- *Migrations, pack format, analysis, icons, wizard, queries.*  Owed: a crash between two
  statements is survivable; a tree comes back as it was; no disc is analysed twice at once; a scan
  is saved under a disc number; a screen does not keep showing what an operation has changed.

`PROJECT.json` lists the hazards one by one, at their lines.

## 2. Modules

| Module | Models |
|---|---|
| `VaultRows`, `VaultRows_proofs` | `VaultStore.push` and `changes`; its theorems |
| `RowSync`, `RowSync_proofs` | devices + network + `VaultRows`; its theorems |
| `Sublists` | `SELECT ... WHERE ... ORDER BY rowid` and the removal of an entry over a sequence, without recursion |
| `EditDelivery`, `EditDelivery_proofs` | abstract: what the row channel promises of an edit; that `RowSync` implements it, and that drained devices agree |
| `KvGuards` | guards of the shared KV namespace, purge queue and cron (`directory.ts`) |
| `VaultPacks`, `VaultPacks_proofs` | reservation, upload, commit of packs, wipe, over `KvGuards`; its theorems |
| `DevicePacks` | packs of the devices of a vault: scan, import, upload, commit, download |
| `Collections_proofs` | lemmas about the selections of `Sublists`, and about sums over finite sets, for the counters of `KvGuards` |
| `Tabs` | the tabs of a browser: lock, leader, channel, opening and leaving |
| `Accounts` | sign-up, sessions, vaults, devices, deletion; browsers with several tabs |
| `Analysis` | AI runs, the bulk queue, items and their pictures |
| `KeyStore`, `Icons` | API keys; generated icons of several tabs |
| `ScanWizard` | the wizard that adds or re-scans a disc |
| `Migrations` | `migrate` over both databases, from every release |
| `Catalog`, `Catalog_proofs` | a disc's tree: walk or legacy dump, pack, import, browsing, backup; its theorems |
| `Screens` | the query cache of a tab |
| `MCVaultRows`, `MCRowSync`, `MCVaultPacks`, `MCBrowser`, `MCApp` | instances for TLC; the last two are compositions |
| `Browser_proofs` | theorems of `Tabs`, `DevicePacks` and their composition `MCBrowser` |
| `App_proofs` | theorems of `Accounts`, `ScanWizard`, `KeyStore` and `Icons`, `Analysis`, `Migrations`, `Screens`, and of the composition `MCApp` |

`RowSync` EXTENDS `VaultRows`: it adds the devices' variables, and each of its vault steps is an
action of `VaultRows` with the devices unchanged.  `VaultPacks` stands to `KvGuards` the same way:
the guards are shared by every vault, and each step of an upload that calls the directory is an
action of `KvGuards` next to a change of the request.  `Icons` EXTENDS `KeyStore`.  `RowSync`,
`EditDelivery`, `DevicePacks`, `KvGuards`, `KeyStore`, `Analysis`, `Catalog` and `Screens` take their
selections from `Sublists`: `Kept(s, In)` has the elements of `s` at the places `In`, in their order.

`MCBrowser` and `MCApp` are sums of modules that share no state: a variable `part` picks the module
a behaviour is of, and the variables of the others keep an initial value.  Each property then speaks
of its own module, in one run instead of many small ones.

### VaultRows

| Specification | Code |
|---|---|
| `row[r]` (version, deleted, value per column) | the row of a synced table; version 0 is "no such row", because a stored row always has the seq of a log record |
| `log`, `pruned` | `change_log`; the model keeps pruned records in `log` as history and `pruned` marks the prefix the table no longer has |
| `head` | `sqlite_sequence` of `change_log` |
| `aged` | prefix of records older than `changeLogRetentionDays` |
| `writes` | `quota_usage.meta_writes` of today |
| `job` | the `for` loop of `push`: device, entries still to do, results so far |
| `PushBegin`, `Serve`, `PushEnd` | start of `push`, one iteration, `pruneChangeLog` and the answer |
| `ReplyDuplicate`, `ReplyDeferred`, `ReplyRejected`, `ReplyConflict`, `ReplyAlreadyDeleted`, `Upsert`, `Tombstone` | the exits of an iteration, in the order the code tests them |
| `Age`, `NewDay` | the clock |
| `Page(since)` | `changes` |

A column holds the id of the outbox entry that wrote it: two edits never write equal values, which
makes it visible who wrote what.  A field set stands for the columns an entry carries and `full`
for "all required columns are there", the reference among them.  A `tombstone` reaches one level
of children (`DepthAssumption`: `disc_item` refers to `disc`, `tag_link` to `tag`, nothing refers
to those), in any order, because its SELECT names none.  `LoggedForgotten` and the other
definitions marked "Mutant", here and in every module, are the faulty variants that show what each
property notices; no specification uses them.

### RowSync and EditDelivery

| Specification | Code |
|---|---|
| `local`, `outbox`, `lastSeq`, `paused`, `conflicts` | tables of the device's database |
| `sync[d].phase` | the `await` at which the engine of `d` stands: `idle`, `pushing` (answer awaited), `handle` (answer arrived), `pull`, `apply` (page arrived) |
| `inflight`, `answered` | push requests on the way; whether the device of the one being served still waits |
| `made`, `dropped`, `aborts` | history of edits and discards, count of failures |
| `EditDisc`, `AddItem`, `EditItem`, `RemoveItem`, `DeleteDisc`, `Discard` | the worker's API over `writeRow` and `deleteRow` |
| `SyncStart`, `PushNext`, `HandleResponse`, `PullServe`, `ApplyPage` | `sync` between its awaits |
| `Abort`, `CrashInResponse`, `CrashBeforeLastSeq` | a lost connection, a closed tab, at any await or between the transactions |
| `Deliver`, `ServeOne`, `Answer` | `VaultDO.push` |

A device's database runs in one worker, and one sync runs at a time (`syncInFlight`), so an action
is the code between two awaits.  A Durable Object does not yield inside `push`, so no device moves
while `job # Idle`.  A request whose device gave up stays in `inflight` and may arrive at any
later time: `Abort` and `Deliver` together give lost answers, resends and late copies.
`replaceDiscItems` is a sequence of `RemoveItem` and `AddItem` steps.

`EditDelivery` knows no messages, versions, pages or crashes: a device has a `queue` of edits, the
vault has `taken` some, and some are `aside`.  `Make` queues edits, `Take` lets the first waiting
edit of a row take effect, `Settle` lets edits leave the queue once the device learns what became
of them, `GiveUp` is a discard.  `RowSync` implements it by

    Delivery == INSTANCE EditDelivery WITH
      queue <- the unblocked entries of the outbox,  made  <- how many edits were made,
      taken <- the entries the log has a record of,  gone  <- the rows with a delete in the log,
      aside <- the edits refused or discarded,       moot  <- the deletes that found their row gone

and `row_sync` checks `EditsDelivered == Delivery!DeliverySpec` as a temporal property.  Writing the
abstract module showed what the channel does *not* promise: an edit set aside may still be taken
later, once, by the late copy of a request whose resend was refused; and a delete that finds its
row deleted leaves no log record (`vault-store.ts:215`), so that its late copy is no duplicate and
may delete a row revived meanwhile.  `EditDelivery` has both as possibilities of `Take`.

### KvGuards and VaultPacks

| Specification | Code |
|---|---|
| `kv`, `kvBytes`, `kvWrites`, `kvDeletes` | the keys KV holds; `usage_total.kv_bytes`; today's row of `usage_daily` |
| `waiting`, `due` | `purge_queue`: keys whose `delete_after` lies ahead, and the others in its order |
| `purge` | `purgeDueKeys` between its statements: selected keys, those still to delete, whether its day is still today |
| `disc[d]` | `disc.pack_hash`, and whether the row exists undeleted |
| `part[k]`, `committed`, `stale` | the row of `pack_part` (none, reserved, uploaded), `committed_at`, older than `STALE_RESERVATION_MS` |
| `upload[u]` | an `uploadPart` at one of its awaits: before the bytes guard, before the writes guard, at the KV write, at the release of bytes, before `markUploaded` |
| `toQueue` | requests at `queuePurge`; lost in a restart |
| `wipe` | account deletion: `listed` while the keys are being queued, `queued` until `deleteAll`, `gone`; `left` if a restart broke it off |
| `Reserve`, `Commit`, `UploadMark` | `reservePacks` (with `dropStaleReservations`), `commitPack`, `markUploaded`: synchronous |
| `TakeBytes`, `TakeWrite`, `GiveBack`, `Enqueue`, `PurgeSelect`, `PurgeSettle` | one D1 statement or batch each |
| `PurgeDelete` | one of the KV deletes of `Promise.all` |

A part is named by its KV key (`kvKey`: vault, disc, hash, part); a pack that comes back has the
same keys again.  `Reserve` reserves one pack; a request for several is several steps.  Rows of
discs appear as `SaveDisc` and `DeleteDisc` only.  `enqueuePurge` of 500 keys and fewer is one
statement.  The model lets the cron run at any time, several times a day too.  `KvPut` is
external: a write that throws is taken to have stored nothing, and a read sees every earlier
write and delete at once.  Deletes still under way when one of them fails are not continued;
their keys stay queued.

### DevicePacks

| Specification | Code |
|---|---|
| `row`, `files`, `pending`, `outbox` | of each device: its disc rows, the pack its `folder`, `file` and `local_pack` rows are from, `pending_pack_part`, its entries for discs |
| `engine` | where its sync stands: uploading (with the reservation's answer), pushing (with the entry `sent`), pulling, loading |
| `loads` | the workers of `loadChangedPacks`, each at the download of a pack; not `live` when its sync has ended |
| `vault`, `kept`, `seen` | disc rows of the vault, the parts it has of each pack, the version of the disc at each entry it has recorded |
| `done`, `undone` | history: packs ever committed; on each device, the discs whose delete was discarded, until a newer row comes |
| scan, import and delete of a disc | `commitScannedPack`, `importPackParts`, `removeDiscCatalog` with `deleteRow` |
| `Discard` | `discardEntry`: any entry, blocked, pending or in a request on its way; the row stays as edited |
| `Answers`, `Refuses` | the results of the vault for an entry: duplicate, deferred by the daily quota, refused (conflict, deleted, missing, incomplete pack, limit of discs) or applied |

A pack is a number that stands for its hash; the archive is one pack that any device may import, as
the disc it was made of or as another (`inner`).  A push carries the oldest entry, and the vault
serves it and the device handles the answer in one step, since `RowSync` has that protocol in
detail.  What `VaultPacks` has inside the vault shows here as reservations that disappear.  The daily
quota and the limit of discs count rows of other tables and other discs too, so that either may be
met at any time.

### Tabs

| Specification | Code |
|---|---|
| `tab[t].page`, `tries` | the page: `loading` the account, `opening` the vault, `register`ing the device, `in`, `error` with Retry, signed `out` |
| `tab[t].role`, `db`, `result`, `syncing`, `engines` | `role`, `current`, `openResult`, `syncInFlight` of the worker; engines at work |
| `tab[t].opening`, `lead`, `leaving` | the awaits of `open`, of `becomeLeader` (pool, `persist`) and of `wipe` |
| `lock`, `queue`, `handles` | external: the Web Lock and its waiters, the exclusive OPFS handles |
| `calls`, `posted`, `held`, `answers` | `LeaderChannel.pending`, messages under way, handlers at work |
| `BootStep`, `WorkerStep` | `bootstrapAccount` in the page; the worker |
| `SignOutFollowing`, `SignOutLeading`, `SignOutWaiting`, `Unlinked`, `RunWipe` | `wipe`, by role |
| `HandlesFreed`, `Answered`, `TimeOut` | the browser releases the handles of a tab that is gone; a delivered answer; ten seconds |

A tab is one page load; a reload is the end of one and the start of another.

### Accounts

| Specification | Code |
|---|---|
| `users`, `vaults`, `sessions`, `devices`, `config` | D1 tables |
| `cloud[v]`, `files[b]` | which vaults' rows a vault object and a local file hold |
| `cookie[b]` | the cookie with its cached user, shared by all tabs; `fresh` for the five minutes the cache is trusted |
| `open`, `known`, `signing`, `boot`, `ending` | the vault the tabs have open, `discvault:accounts`, and the procedures between their awaits |
| `registering` | the `POST /devices` at the server between the SELECT of the owner and the upsert; `page` is nobody's when the page has given up |
| `Register`, `Upsert`, `RegisterTimesOut` | `registerDevice` up to its await and after it; the page's fifteen seconds |
| `alone` | history, of a device row: its last registration overlapped none of another account for the same id |

Better Auth is external, modelled from how `auth/better-auth.ts` configures it: the callback
decides, inserts the user, runs the hooks, and creates the session, in separate steps.  The cookie
cache expires (`CacheExpires`) only once its session is gone: before that the session would be read
and trusted again.

### Analysis, KeyStore, Icons, ScanWizard

`Analysis` has each run of `analyzeDiscWithAi` at its awaits (summary, ask, raw answer, items,
title, list), the chain of models it falls back along, the bulk queues with `progress` and
`cancelRequested`, and the picture searches that outlive a run (`StoreImageUrl`, `CacheImage`).  A
run finds at most one item, known by the run's number; a quota is an answer that fails.  The user
deletes and edits discs and items meanwhile.

`KeyStore` gives each operation on a provider's keys as the set of its outcomes, because a write to
localStorage may fail and the code goes on.  `Icons` has, of each tab, the module variables of
`genre-icon.tsx` (cache, queue, `inflight`, `rejected`, the halt after a failure).

`ScanWizard` has the form of `Scan.tsx` with its mode, step, number and result, the discs its
queries `listed`, and the `scans` and `saves` under way, each with the visit of the page that
started it: the user may go back, switch the mode, type another number or leave.  A folder stands
for the result of its scan.

### Migrations, Catalog

`Migrations` lists the statements of `CLIENT_MIGRATIONS` and `VAULT_MIGRATIONS` as each release
shipped them, down to what tells releases apart (the stubs of the first one, `disc_item`, its image
column and the image table).  `stored` is the database on disk and `run` a call of `migrate` between
two statements; a failure or a stop rolls the transaction of the migration back.  In the vault the
version is a key of the object's storage, written in the same transaction.

`Catalog` takes one disc through its life: `WalkFolder`, `WalkFile`, `WalkUp` (`scanDirectory`) or
`LegacyRows` and `Dedupe` (`dir_master`, `dedupeSiblingFolders`), then `BuildPack`, `ImportPackParts`
(`parsePackPart` and the inserts), and `ExportArchive` with a second import.  A name is a letter and
its case, a path a sequence of names, the size of a part a number of rows.

### Screens

| Specification | Code |
|---|---|
| `view` | the screen, with its tab, scope or mode |
| `cached[key]` | of each query that was read: the changes to its tables that its value does not have yet |
| `answers` | what the worker was asked by queries, oldest first; each was computed when it was asked and arrives in order |
| `tasks`, `running` | the operations so far, and those that take effect only when they end: sync, import, the save of a scan, analyses, the bulk run, pictures |
| `handlers` | code after an operation that invalidates queries and awaits them |
| `dealt` | history: operations whose code has run, each with the queries that it may leave without it (`misses`) |
| `Move`, `Write`, `Start`, `Ends`, `Invalidate`, `Done`, `Arrives` | navigation, a single write, the start and the effect of a longer operation, `invalidateQueries`, the end of a handler, an answer |

The tables each query reads come from its SQL (`Touches`), what each operation invalidates from its
mutation or from the session (`Invalidates`), and the queries an operation is for from where its code
runs (`Concerns`: of an analysis and its pictures the page of the disc, of a bulk run the two lists
it names, of every other operation all).  `Misses` is what an operation may leave stale, and the same
for writes that are served at once and operations that take effect later: the queries being asked
when it takes effect, and those on screen that it does not concern (when it fails: all on screen),
unless its code asks them again.  react-query is external: a query is asked when a screen mounts it, shows the
old value meanwhile, and an invalidated one is asked again if it is on screen.  The queries of one
disc, type or genre are one query; the three of the overview that read files are one, and the scope
Folders of the search is like Files.

## 3. What the runs check

| Run | Instance | Result |
|---|---|---|
| `vault_rows` | 2 discs, 2 items on one of them, 6 outbox ids, any order and repetition of requests of one or two entries, bases 0, 1 or current | `TypeOK`, `RowsReplayLog`, `AppliedOnce`, `CascadeComplete`, `FeedComplete`, `WritesBounded` hold |
| `row_sync` | 2 devices, a disc and its item, 3 edits, 1 failure, daily quota 2 | `SyncTypeOK`, `PulledIsCurrent`, `Agreement`, `NoEditLost`, `OrderKept`, `PendingVisible`, `NeverBack` and the refinement `EditsDelivered` hold |
| `row_sync_live` | 2 edits, 1 failure, 1 discard, daily quota 1, fair | `Converges` holds |
| `vault_packs` | 1 disc, 1 pack of two parts, 2 of one, room for two parts, 2 reservations, 1 upload at a time, 1 failure, fair cron | `PacksTypeOK`, `CurrentComplete`, `UploadedStored`, `GuardHolds`, `DeletesWithinGuard`, `QuotaKept`, `Drains` hold |
| `browser` | `Tabs`: 2 tabs, 1 call, 2 bootstraps of a tab; `DevicePacks`: 2 devices, 2 discs, 2 scans, imports or deletes, 1 failure or limit met, 1 discard of any entry; both fair | `BrowserTypeOK`; `LockHeld`, `OneEngine`, `BootEnds`; `PartsKept`, `CommitsSettle`, `DevicesShow` hold |
| `app` | the seven parts below | `AppTypeOK` and one property of each part, three of `Accounts` more, hold |
| `current_purged` | 2 packs of one part, 3 reservations, no failure | `CurrentStored` is violated (section 6) |
| `wipe_missed` | 1 pack of two parts, no failure | `WipeQueuesAll` is violated (section 6) |
| `self_conflict` | 2 edits, no failure | `NoSelfConflict` is violated (section 6) |
| `live_child` | 4 edits, no failure | `ParentsLive` is violated (section 6) |
| `stale_edit` | 1 disc, 3 edits, 1 failure, daily quota 1 | `LastWriteShown` is violated (section 6) |
| `data_never_mixes` | 2 people, 1 browser | `DataNeverMixes` is violated (section 6) |

What the properties of `browser` and `app` say:

| Property | Meaning |
|---|---|
| `LockHeld` | a tab with a connection to the file holds the lock, and keeps it only while it has one or is about to get one |
| `OneEngine` | one sync works on the vault, through every change of leader, timeout and repeated call |
| `BootEnds` | each tab is again and again closed, signed in, signed out or at Retry: no page loads for ever |
| `PartsKept` | staged parts stay on the device until the vault has committed their pack |
| `CommitsSettle`, `DevicesShow` | no entry waits for ever: each is settled, discarded or blocked in sight; a device with nothing staged for a disc ends with the pack of the vault, unless it has discarded its delete of the disc |
| `VaultAgrees`, `OpenProvisioned` | the vault by the session is the vault by the user's row; a vault that is open is provisioned, after every half-failed sign-up |
| `SignupBounded` | only sign-ups decided while another is on its way to its insert pass the cap |
| `DevicesOwned` | a device is of the owner of its vault, and its session of the same user, unless its registration overlapped another account's |
| `ItemsOfLastRun` | items of two runs are on a disc together only if a picture search revived one |
| `CallsSpared` | one bulk run at a time; one Gemini call per icon, none after a failure |
| `ScanSaved` | nothing is saved under a number that is none, no page has two scans or saves at work, no step shows what it lacks |
| `Upgraded` | every released database, interrupted anywhere, ends with the schema of a new one |
| `TreeKept` | paths, parents and files of a folder survive dump, scan, pack, import, browsing and backup |
| `ScreensFresh` | after an operation was dealt with, no query on screen shows the vault without it, but for those the code leaves out |

Three of them hold with exceptions, each a thing the code does, and each reachable in the run:

- `DevicesShow` leaves out a disc whose delete the device has discarded (`undone`): the row stays
  deleted on the device, and pull does not bring it back before the vault's row changes.
- `DevicesOwned` asks nothing of the session of a row that is not `alone`.  Between the SELECT of the
  owner (`directory.ts:148`) and the upsert another account may register the same id; the second
  upsert then leaves its session in the first one's row.  The user and the vault of the row stay.
- `ScreensFresh` leaves out the query of a deleted disc, which fails and keeps its value, a query that
  is being asked at the moment, and `misses`: a query that was being asked when the operation took
  effect, or was on screen then and is not one the operation concerns, or the operation failed.  It
  does say that what the operation concerns, and whatever is shown later, has the change.

**Bounds.**  `MaxHead` (5): no push begins once the log is that long; a create, a child, a
delete with its cascade and a late edit fit.  `PruneLimit` 1 (500 in the code) makes a prune stop
short; `PageSize` 1 (1000) makes every feed a sequence of pages, with the one-row look-ahead per
table in play; `MaxDiscs` 1 and `MaxMetaWrites` 2 make the limits bite.  One device suffices for
the vault alone: `push` only records which device called.  `MaxEdits` 3 with two devices is the
smallest number with a create, a child and a concurrent delete or late edit; `MaxAborts` 1 gives
one request that arrives late or never, or one crash inside an answer or between a page and
`last_seq`; `BatchSize` 2 gives answers with more than one result.  The retention period does not
pass in `RowSync` (its runs never take `Age`); pruning is checked in `vault_rows`.  `row_sync`
identifies states that differ by the names of the devices; the run with liveness does not.
A late copy of a moot delete takes four edits; it was looked for in simulations, with no step
outside `EditDelivery`.

For packs, `vault_packs` has one pack of two parts and two of one part, of which two fit beside each
other (`MaxPackBytes` 2): with 2 reservations the pack of the disc is replaced, or goes stale and is
reserved again, or the quota refuses it.  `current_purged` has the third, with which a pack is
replaced and comes back.  `MaxCrashes` 1 gives one failed KV write, restart or broken cron run.
Parts have size 1.  `KvBytesGuard` 2 (900 MB), reached by parts that are replaced and not yet
deleted, makes the bytes guard refuse; `KvWritesGuard` 1 (950) makes uploads give back and wait for
midnight; `KvDeletesGuard` and `PurgeBatch` 1 (900 and 100) spread the queue over days.  Two uploads
side by side gave no error either in 2.0 million states of a smaller instance (`Upload = {u1, u2}`,
two packs of one part); the run has one to stay short: at its awaits the upload interleaves with
everything else.

In `browser` two tabs are leader and follower, and either may close, fail, time out or be promoted
at any await; `MaxTries` 2 is a Retry, `MaxCalls` 1 one call of the pages that may be a sync, beside
the calls that open the vault.  `MaxWork` 2 gives a pack that is replaced, deleted or imported while
another device uploads or loads it, `MaxFails` 1 a failed request, a dropped reservation, a closed
tab, a deferral or the limit of discs, `MaxDiscards` 1 a delete, an edit or a commit discarded while it
is pending or on its way, and the two discs are what an import under another number needs.

In `app`: two people and two browsers, two users and sessions, one device id, one operator request,
which opens the sign-up or invites someone, and a cap of 1, passed by two sign-ups at once (with
caps of 1 and 2, `Accounts` alone has no error either); a device id that two accounts register needs
no second one.  `MaxBusy` 3 bounds the sign-ups, bootstraps, deletions and given-up registrations at
work at once: two registrations of one id and what either browser does beside them.  Two runs and two queues on two discs, one edit: a run that ends after its
successor, a queue cancelled while it waits.  Two tabs, two icons, two keys, one use of the keys.
One disc number, two folders and two visits of the wizard.  Four opens of a database, for four
migrations.  Two letters, one of them in two cases, three folders, four entries, parts of three rows:
siblings that differ in case, a child before its parent, a folder at the boundary of a part.  Two
operations and three moves, three of both together (`MaxActs`): `Screens` alone was also run with two moves and
two operations, and with three moves and one, under a larger `MaxActs`.  `AppSymmetry` exchanges
browsers and people; the run has no temporal property.

Behaviours end when the bounds are used up, so `CHECK_DEADLOCK FALSE`: a quiet system with no
edits left to make is meant to stop.

**Fairness.**  `SyncFairSpec`: the vault serves the request it holds and answers (a single loop).
A request whose sender still waits is delivered, a device resumes when its await resolves (weak
fairness of the engine's steps).  `SyncStart` is fair because of the triggers of
`app/session.tsx:121-149` (focus, reconnect, every fifteen minutes, after a local write), and
`Unpause` because `paused_until` is a time.  `Midnight` has strong fairness: the day changes again
and again, though it cannot change in the middle of `push`.  Nothing is assumed of the user, of
failures, or of a request nobody waits for.

`PacksFairSpec` assumes that the cron selects, deletes and settles (`wrangler.jsonc` schedules it
daily, `MaxCrashes` bounds its failures) and that days pass; nothing of uploads, devices or the user.

`TabsFairness`: the awaits of a page's bootstrap and of a worker resolve, one way or the other
(`BootStep`, `WorkerStep`: a granted lock, a pool that opens or fails, a message that is delivered),
the browser frees the handles of a tab that is gone, a delivered answer is read, and a call that is
not answered times out after ten seconds.  Nothing makes a user open, close or retry a tab.

`PacksFairness`: the sync of each device takes its next step, starting with the triggers above, and
a download ends (`EngineStep`, `LoadDone`).  `MaxFails` bounds the failures and the limits met (the
quota is a day's, and a sync that waits for midnight is one that starts late), `MaxDiscards` the
discards; nobody has to scan or to discard.

## 4. What is proved

Each theorem holds for every value of the constants that satisfies the assumptions named below;
the runs evaluate those assumptions for their instances.

| Module | Theorem | Statement |
|---|---|---|
| `VaultRows_proofs` | `TypeCorrect` | `Spec => []TypeOK` |
| | `Idempotent`, `DeleteWins` | `[]AppliedOnce`; `[]CascadeComplete` |
| | `QuotaHolds`, `LogTellsRows` | `[]WritesBounded`; `[]RowsReplayLog` |
| | `FeedIsComplete` | `[]FeedComplete` |
| `RowSync_proofs` | `RowChannelTyped` | `SyncSpec => []SyncTypeOK` |
| | `VaultWithinSync` | `SyncSpec => Spec`: with devices around it the vault takes its own steps, so the theorems above hold |
| | `PulledStaysCurrent`, `PullsGoOnward` | `[]PulledIsCurrent`; the action property `NeverBack` |
| | `EditsKept`, `EditsInOrder` | `[]NoEditLost`; `[]OrderKept` |
| | `PendingShown` | `[]PendingVisible` |
| `EditDelivery_proofs` | `EditsReachVault` | `SyncSpec => EditsDelivered`, the refinement of `EditDelivery` |
| | `DrainedDevicesAgree` | `SyncSpec => []Agreement` |
| `Browser_proofs` | `DevicePacksTyped`, `StagedPartsStay` | `PacksSafe => []DevicePacksTypeOK`; `[]PartsKept` |
| | `TabsTyped`, `LockGuardsConnection`, `OneEngineAtWork` | `TabsSafe => []TabsTypeOK`; `[]LockHeld`; `[]OneEngine` |
| | `BrowserRefines`, `BrowserTyped` | `BrowserSpec => TabsSafe /\ PacksSafe`; `[]BrowserTypeOK` |
| `VaultPacks_proofs` | `PackStorageTyped`, `CurrentPackWhole` | `PacksSpec => []PacksTypeOK`; `[]CurrentComplete` |
| | `UploadsAreStored`, `StorageGuarded` | `[]UploadedStored`; `[]GuardHolds` |
| | `DeletesMetered`, `QuotaHeld` | `[]DeletesWithinGuard`; `[]QuotaKept` |
| `Catalog_proofs` | `CatalogTyped`, `TreesKept` | `CatalogSpec => []CatalogTypeOK`; `[]TreeKept` |
| `App_proofs` | `AccountsTyped` | `AccountsSpec => []AccountsTypeOK` |
| | `OneVaultPerUser`, `DevicesStayOwned` | `[]VaultAgrees`; `[]DevicesOwned` |
| | `OpenVaultsProvisioned`, `SignupsBounded` | `[]OpenProvisioned`; `[]SignupBounded` |
| | `ScanTyped`, `SavesAreSound` | `ScanSpec => []ScanTypeOK`; `[]ScanSaved` |
| | `IconsTyped`, `IconCallsSpared` | `IconsSpec => []IconsTypeOK`; `[]IconsSpared` |
| | `AnalysisTyped`, `ReplacesItems`, `BulkRunsAlone` | `AnalysisSpec => []AnalysisTypeOK`; `[]ItemsOfLastRun`; `[]OneBulkRun` |
| | `MigrationsTyped`, `AlwaysUpgraded` | `MigrationsSpec => []MigrationsTypeOK`; `[]Upgraded` |
| | `ScreensTypeCorrect`, `NeverStale` | `ScreensSpec => []ScreensTypeOK`; `[]ScreensFresh` |
| | `AppRefines` | `AppSpec` implies the specification of each of its seven parts |
| | `AppTyped`, `GeminiSpared`, `AppSafe` | `AppSpec => []AppTypeOK`; `[]CallsSpared`; the safety theorems of all parts, of the composition |

`Collections_proofs` holds the lemmas these share.

**Assumptions.**  `RowsAssumption` (finitely many rows, a parent is a row or `None`),
`LimitsAssumption` (limits are naturals, the page and the prune limit positive), `DepthAssumption`
(section 2), `SyncAssumption` (outbox ids are `1..MaxEdits`, batches are not empty),
`GuardsAssumption` and `PacksAssumption` (a part is of one pack, a pack of one disc; finitely many
keys and uploads at a time), `DevicePacksAssumption` (discs are numbers, bounds are naturals, a pack
has a part), `AccountsAssumption` and `TabsAssumption` (bounds are naturals, `None` is nobody),
`AnalysisAssumption` (discs are numbered from 1 in the order of `disc_no`, a model is in the chain, a
batch is not empty), `IconsAssumption` (key ids are numbers other than `NoKey`, the legacy key's among
them), `ScanWizardAssumption`, `MigrationsAssumption`, `ScreensAssumption` (bounds are naturals,
`NoFolder` is no folder), and `CatalogAssumption` (a letter in upper case is a letter, a part has room
for a row).  Nothing is assumed of how many rows, devices, tabs, people, packs or edits
there are.


### The vault

None of the properties is inductive alone.  `Bounded` adds to `TypeOK` that no log record and no row
version lies past `head`: without it a new record's seq need not be the largest, so neither "the
last record of the row" nor "saved after the parent went" would survive a step.  `Bounded` is proved
first; each theorem then has one step per action (`NextCases` splits `Next` once for all of them).

`Idempotent`: an entry is admitted only when no unpruned record has its id, so a second record of
the id is written after `pruned` passed the first, and `pruned` never falls.  `DeleteWins`:
`Tombstone` takes all live children in the same step (they get seqs above the parent's, being
children of a row that has no parent itself), and an upsert of a child gets a seq above every
tombstone.  `QuotaHolds`: an admitted entry finds `writes < MaxMetaWrites` and adds one record, or
one per child more.  `LogTellsRows`: each step that writes a row adds exactly the record with that
row's new version, larger than all before it; columns not named keep their last writer.
`FeedIsComplete` is a theorem about `Page` in every state with `Bounded`: each table gives its oldest
`PageSize + 1` changed rows (a set whose members are fewer than n, and every row outside it newer),
so a row the page leaves out is newer than every row it takes, and the page ends before it.

### Devices, network and vault

The vault's part of `SyncNext` are the actions of `VaultRows`, so its lemmas apply as they are
(`SyncCases` splits the rest).  Every device takes part in one of two stories, and each has its
invariant over `SyncTyped`:

- *Pulling.*  `PageSound`: a page that waits to be applied is not behind `last_seq`, and every row
  written up to its end is on the page as the vault has it, or on the device already.  The vault may
  move on while the page waits; what it writes then lies past the page's end.
- *Pushing.*  `PushInv` follows an edit: a request that is on the way carries edits of its device in
  their order; a record of the log belongs to an edit once made; an edit that is neither taken nor
  set aside still waits; results on their way tell what the log says.  `EditsKept` is one conjunct.
  `EditsInOrder` rests on `Turn`: of two edits of a row, the later one is not sent before the earlier
  is out of the way, *and* a late copy of a request was sent when this held (`FlyingKept`, `InTurn`),
  while a blocked entry is never answered "applied".
- *`PendingShown`*: what is not sent yet is on top of the row, since every write of the local copy
  either puts the pending entries back on top (`ReappliedIs`) or thins the outbox (`Thinned`).

`SelectSeq` cannot be reasoned about (section "Out of reach"), so outboxes and queues are `Kept` of
`Sublists`: the entries at a set of positions, in the order of the positions.  `Collections_proofs`
says where an entry stood before and that order is kept.

### The refinement

A queue of `EditDelivery` lists edits in the order of their ids, so it is known by the set of edits in
it (`Lists`, `SameList`): every change of an outbox is followed as a change of a set.  The invariant
(`Ready`) is `SyncTyped`, `PushInv`, who made an edit (`Owners`), that outboxes are in order
(`Listed`), and that an edit waits once (`Single`).  Then `Make` is implemented by the edit operations
(`EditsDeliver`), `Settle` by `HandleResponse` and its crash (`TurnDelivers`), `GiveUp` by `Discard`
(`DiscardDelivers`), `Take` by the vault's writes (`ServeDelivers`), and everything else stutters.

### Agreement

`DrainedDevicesAgree` needs both stories, so it stands after the refinement, in four conjuncts over
`Ready`.  `Faithful`: entries on their way and records of the log say what the edit they are for says.
`PagesTrue`: a page has each row as the vault has it, or in an older version.  `MootKnown`: when an
answer acknowledges an edit that has no record (a delete that found its row deleted), the row is
deleted still, or newer than the device has it.  `Shown` is what a device shows at *every* moment: at
the vault's version of a row it shows the vault's row, but for edits of its own that are queued,
discarded, or in the log.  A drained device has the vault's version (`PulledStaysCurrent`) and neither
of the first two, which leaves the vault's values and the device's own in the log.


### Packs on the devices

Staged parts go only with the answer "applied" to their commit, so `StagedPartsStay` is about what the
vault may answer that to: a commit it applies now, or one whose *id* it has seen.  `PartsInv` says
what ids promise: they are given out once per device and step (`n.entries`), two entries with one id
are one edit (`Alike`), and a commit whose id the vault has seen is of a pack in `done`.  It speaks of
the entries `Out` of a device, in its outbox *or* in the request on its way: a discard takes an entry
from the first and not from the second.  Steps are of three kinds: they queue a commit together with
all its parts (`Adds`), leave parts and the vault's memory alone (`Leaves`), or settle an entry
(`Settles`), where parts go of committed packs only.

### Tabs

`TabsInv` says of each tab what its worker remembers against who holds the lock and the file
handles.  The conjunct that carries `OneEngineAtWork` is that an engine runs on the *handles*: they
stay with the worker when the lock goes, so a new leader, which must open the file first, cannot
sync beside an engine that outlived its `teardown`.

### Pack storage

- `CurrentPackWhole`: `PackInv` adds that `committed` rows exist and that the pack a disc names is of
  that disc.  The first makes a drop of stale reservations miss current packs, the second makes a
  commit, which deletes the rows of the pack it replaces, miss those of every other disc.
- `UploadsAreStored`: `KeysInv` says that the directory deletes only keys that were given up at
  some time before.  A key that was and has been uploaded again is what finding 3 is about; it is
  the exception `UploadedStored` names.
- `StorageGuarded`: the invariant `Ledger` says what the counter counts: the objects that live, the
  writes that are held by an upload, the keys that are queued, the requests that carry keys to the
  queue.  Each step moves bytes from one of these to another.  What a purge has deleted stays
  counted until the purge settles; a key stored again is counted again.
- `DeletesMetered` and `QuotaHeld` need the directory's `GuardInv` alone and the order of the two
  checks in `Reserve`.

### Accounts

`AccountsInv` gives each variable its type with the condition that whatever names a user or a session
names one that was given out (`UserOf(count)`, `CookieOf(count)`, ...): this is why a new user's or
session's number occurs nowhere yet, and counting up only enlarges these sets.  `VaultOf` (a vault has
its owner's number) gives `OneVaultPerUser`.  `OpenInv` says what each procedure of a browser still
owes before it opens a vault.  `OwnedInv`, for `DevicesStayOwned`, says of every request between SELECT
and upsert (`RequestsOwned`) that its session is its user's and, when it is `alone`, that the row of
its device is the same user's if there is one, and that no request of another user for that device is
at work.  Then the upsert of a request that is alone finds no row of another user, and any upsert
leaves owner and vault of an old row as they were.
`SignupsBounded`: users plus the sign-ups between their decision and their insert are fewer than the
largest cap there was plus the browsers, and a sign-up that is alone finds the cap as it is.

### The other parts of the app

- *Wizard.*  A scan or save of a page that was left answers into nothing, so `Flagged` says that
  those of the page on screen are what its flags say.  `SavesAreSound` then has to follow the form
  from one step to the next: a step is only entered with what it shows.
- *Keys and icons.*  `Queueing`: a name in the queue is in flight, and neither in the cache nor
  rejected.  `Spared`: what a tab asked Gemini for is one of these, or the call under way, or the tab
  has halted.  Hence a name leaves the queue into one of them before it could be queued again.
- *AI analysis.*  `QueuesSound`: only the last bulk run has not ended, and while it has not, the
  progress flag is set: that is `BulkRunsAlone`, since a start waits for the flag.  `ItemsSound`: a
  run stores its item once, in one transaction with the deletion of the disc's others; a run that
  has not come that far (`Early`) has none, so nothing lies there under the number of a later run.
- *Migrations.*  `Schemas` lists what a database may look like between two migrations: it depends on
  its version and on the latest release that has opened it, since the first migration is written
  with the schema of the release (`Base`, `Grown`).  `Migrating`: a transaction under way has what its
  first statements make of the schema on disk (`After`).  `Leads` takes each version of each kind to
  the next, whichever statements find their work done.
- *Screens.*  The worker answers in order: of a read and an operation, the answer of the one served
  first comes first (`InOrder`).  A read that missed an operation's change is thus in the cache, stale,
  before the code that waits for the operation invalidates it; a read that is asked later has the
  change.  A query that the operation neither `misses` nor is still to ask again (`Left`) was off
  screen and not being asked when it took effect, or has been asked since: shown, it has the change.
  `Excused` are a deleted disc's own query and the moment before the code leaves its page.
  `NeverStale` has the exceptions of `ScreensFresh` (section 3), and no others.
- *Catalog.*  The walk has a path from the names it is in, the old rows by their parents, an import
  by the rows read before, the explorer by the names clicked.  `TreesKept` follows one function from
  ids to paths through all of them: `Tree(h, list, P)` says that `P` leads along the rows of `list`,
  with the names as they are (`Plain`: walk, pack, table, explorer) or without their case (`Fold`:
  `dedupeSiblingFolders` keeps one of two folders that differ in case, so only these paths survive).
  `CatalogInv` says per stage what of the disc's paths is in the rows at hand.  Each algorithm is a
  recursive function over `0..n`; where its result is more than one step's, it has a loop invariant:
  `Queued` (no folder twice, none before its parent, and the children of every folder the queue is
  past), `Parted` (each file of the folders so far is in one part, and a folder's files are in one),
  `Folding` (a folder folded away has the path of the one that stays).
- *Compositions.*  `MCBrowser` and `MCApp` leave the variables of every other part alone, so each
  step of theirs is one of a part and a stutter of the rest (`AppStep`): `AppRefines`, and with it
  `AppSafe`, follow.

### Out of reach

The prover has no induction over an operator, so a fact about a recursive definition is proved through
the *set* of arguments for which it holds (`SubsetInduction` of `Collections_proofs`), or by a smallest
counterexample.  `SelectSeq`, `Remove` and the folds are recursive inside the standard and community
modules, where this does not help; `Sublists` and recursive functions over `0..n` replace them.

*Only model-checked.*
Liveness (`Converges`, `Drains`, `BootEnds`, `CommitsSettle`, `DevicesShow`), which the prover does not
reach, and the counterexamples of section 6.  Every invariant of a passing run is a theorem.

## 5. Not modelled

- `pack_commit` as an entry among the others of a push: `VaultRows` has upserts and deletes only;
  what a commit does to packs, row and log is in `VaultPacks` and `DevicePacks`.
- The daily upload quota of a vault: it refuses requests and changes nothing else.  Rejected
  reservations (wrong hash, oversized part) and quotas changed while devices are active
  (`setQuotas`).  The operators' paged read of a vault (`exportPage`).
- Optional references in `tombstone` (`vault-store.ts:364-366`): no table declares one.
- Field validation (`validateFields`) beyond "carries the required columns": the devices validate
  with the same function before they enqueue.
- Resolving conflicts (`keepTheirs`, `dismissConflict`): see section 6.
- `importArchive` as one operation: it is a `writeRow` per disc (`RowSync`) and a pack per disc
  (`DevicePacks`, `Catalog`).
- Expired sessions in the engine: to it they are an `Abort` that a sign-in ends.
- What queries select, group and order: `Screens` has which tables they read, `Catalog` the tree.
  Changes made by other tabs, refetches on focus, retries and garbage collection of the cache.
- Filters, dialogs, scrolling, themes and preferences: presentation.
- Item keys, hashing, canonical JSON and gzip, taken to be injective; the parsing of dumps, of AI
  answers and of what picture providers return.

## 6. Findings

1. **A device in conflict with itself** (`self_conflict`).  `writeRow` takes the base version from
   the local row, which only a pull advances.  An edit made after the answer to the device's own
   create was handled and before the pull of the same run is applied is queued with base 0, and
   stays so: `applyChanges` lifts the row, not the outbox.  The vault answers `disc_exists`, and the
   edit is set aside as a conflict although no other device was involved.
2. **A live item under a deleted disc** (`live_child`).  `checkReferences` looks only at columns
   the entry carries.  A picture stored for an item read before a network lookup carries
   `image_url` alone; if disc and item were deleted and the tombstones pulled meanwhile, the base is
   current and the update clears `deleted_at` of the item.  The disc stays deleted.
3. **The cron deletes a part of a current pack** (`current_purged`).  Nothing takes a key out of
   `purge_queue` when its pack is reserved or committed again, and `purgeDueKeys` asks no vault.
   A reservation that went stale after a part was uploaded has its key queued for now, by the same
   call that reserves the pack anew; a pack that is replaced and comes back within thirty days ends
   the same way.  The disc then names a pack nobody can download.
4. **A part that outlives its account** (`wipe_missed`).  `wipe` lists the keys before it awaits the
   directory; an upload that finishes meanwhile is marked, and `deleteAll` forgets its key.
5. **Rows of two accounts meet** (`data_never_mixes`).  A tab learns once which vault is its own
   (`account/session.ts:45-47`); every later request goes to the vault of the cookie, which another
   tab may have exchanged by signing in as someone else.  The next sync of the first tab pulls the
   second vault's rows into the first one's file, and pushes its outbox there.
   `WEB_APP_ARCHITECTURE.md:387` says "Changes are never pushed to the wrong vault."
6. **A device that keeps its own old value** (`stale_edit`).  A request the quota deferred arrives again, late,
   on the next day and is applied; another device then writes the column.  The first device pulls that
   row, and puts its own entry, still in the outbox, back on top (`rows.ts:149`).  The resend is
   answered "duplicate", which deletes the entry and changes no row: the device shows its old value
   until the row is next written, though everything is synced.  `WEB_APP_ARCHITECTURE.md:382` says that
   the last write the server accepts wins.

Met on the way, without a run; each is one step, or outside what the properties promise:

- `keepTheirs` writes the server row with its system columns, which `writeRow` refuses: it always
  throws.  `dismissConflict` removes the conflict and leaves its entry blocked
  (`sync-admin.ts:36`).
- A backup has the synced tables in `meta.json` (`export.ts:33`); `importArchive` never reads it.
- A pack imported under another number keeps the old `disc_no` inside, and other devices refuse it
  as incomplete (`packs.ts:31`); `DevicesShow` leaves such packs out.
- A delete that is discarded before it is pushed leaves the disc deleted on the device and live in the
  vault: `discardEntry` (`sync-admin.ts:12`) removes the entry and restores no row, and pull takes rows
  newer than the device's only.  The disc comes back with the next edit made elsewhere.
- Two accounts of one browser that register the same device id at once both find no other owner
  (`directory.ts:148`), and the upsert takes over the session but not the user (150-155): the row of
  one account's device then names the other's session.  `revokeDevice` deletes by session *and* user, so
  that revoking such a device signs nobody out.
- An analysis that ends after its page was left refreshes only the queries of the disc, and a bulk run
  only two lists (`DiscExplorer.tsx:146-149`, `bulk-analyze.ts:98`, 106): the list of discs that is on
  screen meanwhile, or the overview of a disc, shows the old titles and items until it is opened anew
  or focused.  `WEB_APP_ARCHITECTURE.md:86` has the cache invalidated "after local writes and sync
  pulls".
- A list opened before the answer to a delete, while an earlier query of it was still on its way,
  shows the deleted disc until the next focus.  An automatic sync that brings nothing but refusals
  does not refresh the Sync screen (`session.tsx:62`).
- A follower whose promotion fails stays without a connection and without another attempt
  (`worker.ts:283`).
- The breakdown by category does not look at `category_override`.  A title the user types during an
  analysis is overwritten by it (`analyze.ts:68`).  The icon caches of two tabs overwrite each
  other (`genre-icon.tsx:194`).
- A deletion of an account that a restart breaks off leaves a vault whose packs are queued, and a
  second attempt queues them again after the purge: `kv_bytes` then counts less than KV holds
  (`GuardHolds` is stated up to the first deletion).

## 7. Running

    tlc -workers 2 -config MCApp.cfg MCApp
    tlapm EditDelivery_proofs.tla

`app` (1.5 million states), `row_sync` (1.1 million) and `browser` (0.6 million) take about three
minutes, `vault_packs` two, `live_child` one and a half, the others less.

