----------------------------- MODULE DevicePacks -----------------------------
(***************************************************************************)
(* Disc packs on the devices of one vault: scanned or imported from an     *)
(* archive (apps/web/src/db/packs.ts, archive/import.ts), uploaded,        *)
(* committed, downloaded and loaded by the sync engine (sync/engine.ts).   *)
(*                                                                         *)
(* The vault is what the devices see of it; VaultPacks has its inside, and *)
(* RowSync the delivery of the entries.  A pack is known by its number,    *)
(* which stands for its hash; an action is the code between two awaits.    *)
(***************************************************************************)
EXTENDS Integers, FiniteSets, Sequences, SequencesExt, Sublists

CONSTANTS
  Device,
  Disc,
  MaxWork,   \* bound: scans, imports of the archive and deletions
  MaxFails,  \* bound: requests, reservations and loads that fail, limits met, and tabs closed
  MaxDiscards,  \* bound: entries discarded
  Parts      \* parts of a pack

ASSUME DevicePacksAssumption ==
  /\ IsFiniteSet(Device) /\ Device # {}
  /\ Disc \subseteq Nat \ {0} /\ IsFiniteSet(Disc) /\ Disc # {}
  /\ MaxWork \in Nat /\ MaxFails \in Nat /\ MaxDiscards \in Nat
  /\ Parts \in Nat \ {0}

VARIABLES
  row,      \* of each device and disc: the disc row
  files,    \* of each device and disc: the pack its folders, files and local_pack are from
  pending,  \* of each device: its pending_pack_part rows
  outbox,   \* of each device: its outbox entries for discs
  engine,   \* of each device: where its sync stands
  loads,    \* of each device: the workers of loadChangedPacks at work
  vault,    \* the disc rows of the vault
  kept,     \* of each pack reserved or committed, the parts the vault has
  seen,     \* of each entry the vault has recorded (change_log.outbox_id), the disc's version then
  done,     \* history: the packs ever committed
  inner,    \* of each pack, the disc its data names
  undone,   \* history, of each device: discs whose delete was discarded, until a newer row comes
  n         \* packs scanned, entries made, work, failures and discards so far

packVars == <<row, files, pending, outbox, engine, loads, vault, kept, seen, done, inner, undone,
              n>>

NoPack == 0
Archived == MaxWork + 1                   \* the one pack of the archive
Pack == 1..Archived
Part == 1..Parts

Ref == [disc: Disc, pack: Pack]           \* the key of a pack: disc number and hash
Row == [pack: Pack \cup {NoPack}, state: {"none", "live", "deleted"}, version: Nat]
AllParts == [disc: Disc, pack: Pack, part: Part]
Staged == [disc: Disc, pack: Pack, part: Part, uploaded: BOOLEAN]
Entry == [id: Nat, disc: Disc, op: {"upsert", "pack_commit", "delete"},
          pack: Pack \cup {NoPack}, base: Nat, blocked: BOOLEAN]
Load == [disc: Disc, pack: Pack, live: BOOLEAN]     \* live: its sync still waits for it
Engine == [step: {"idle", "upload", "push", "pull", "load"},
           todo: SUBSET Ref, missing: SUBSET AllParts,
           sent: SUBSET Entry]                      \* the entry of the request on its way

NoRow == [pack |-> NoPack, state |-> "none", version |-> 0]
RefOf(x) == [disc |-> x.disc, pack |-> x.pack]
NotSyncing == [step |-> "idle", todo |-> {}, missing |-> {}, sent |-> {}]

PacksInit ==
  /\ row = [d \in Device |-> [c \in Disc |-> NoRow]]
  /\ files = [d \in Device |-> [c \in Disc |-> NoPack]]
  /\ pending = [d \in Device |-> {}]
  /\ outbox = [d \in Device |-> <<>>]
  /\ engine = [d \in Device |-> NotSyncing]
  /\ loads = [d \in Device |-> {}]
  /\ vault = [c \in Disc |-> NoRow]
  /\ kept = [r \in {} |-> {}]
  /\ seen = [i \in {} |-> 0] /\ done = {}
  /\ inner = [p \in {} |-> NoPack]
  /\ undone = [d \in Device |-> {}]
  /\ n = [packs |-> 0, entries |-> 0, work |-> 0, fails |-> 0, discards |-> 0]

vaultVars == <<vault, kept, seen, done>>
Fails == n.fails < MaxFails /\ n' = [n EXCEPT !.fails = @ + 1]
Works(entries) ==
  n.work < MaxWork /\ n' = [n EXCEPT !.work = @ + 1, !.entries = @ + entries]
----------------------------------------------------------------------------
(***************************************************************************)
(* The user: scans, imports, deletes, discards.                            *)
(***************************************************************************)
NewEntry(d, k, c, op, p) ==
  [id |-> n.entries + k, disc |-> c, op |-> op, pack |-> p,
   base |-> IF op = "pack_commit" THEN 0 ELSE row[d][c].version, blocked |-> FALSE]

\* Mutant: the parts are numbered from zero.
StagedPartsFromZero(d, c, p) ==
  {[disc |-> c, pack |-> p, part |-> i - 1, uploaded |-> FALSE] : i \in Part}

\* A pack that is staged already keeps its parts as they are (ON CONFLICT DO NOTHING).
StagedParts(d, c, p) ==
  {[disc |-> c, pack |-> p, part |-> i, uploaded |-> FALSE] :
     i \in {j \in Part : \A s \in pending[d] : ~(s.disc = c /\ s.pack = p /\ s.part = j)}}

\* One transaction: the disc row, its files, the staged parts, and the commit behind the row.
Staging(d, c, p) ==
  /\ row' = [row EXCEPT ![d][c].pack = p, ![d][c].state = "live"]
  /\ files' = [files EXCEPT ![d][c] = p]
  /\ pending' = [pending EXCEPT ![d] = @ \cup StagedParts(d, c, p)]
  /\ outbox' = [outbox EXCEPT ![d] = @ \o <<NewEntry(d, 1, c, "upsert", NoPack),
                                           NewEntry(d, 2, c, "pack_commit", p)>>]
  /\ undone' = [undone EXCEPT ![d] = @ \ {c}]

\* commitScannedPack: a new pack, for a new disc or an old one, whoever made it.
CommitScannedPack(d, c) ==
  LET p == n.packs + 1
  IN /\ n.work < MaxWork
     /\ Staging(d, c, p)
     /\ inner' = [x \in DOMAIN inner \cup {p} |-> IF x = p THEN c ELSE inner[x]]
     /\ n' = [n EXCEPT !.packs = p, !.entries = @ + 2, !.work = @ + 1]
     /\ UNCHANGED <<engine, loads, vaultVars>>

\* importArchive of one disc: skipped, replaced, or under another number, where the pack keeps
\* the number it was built with.
ImportArchive(d, c) ==
  LET first == IF Archived \in DOMAIN inner THEN inner[Archived] ELSE c
  IN /\ Works(2)
     /\ c # first => row[d][first].state = "live" /\ row[d][c].state # "live"
     /\ Staging(d, c, Archived)
     /\ inner' = [x \in DOMAIN inner \cup {Archived} |-> IF x = Archived THEN first ELSE inner[x]]
     /\ UNCHANGED <<engine, loads, vaultVars>>

\* deleteDisc: the catalog goes at once, staged parts and queued commits stay.
DeleteDisc(d, c) ==
  /\ row[d][c].state = "live" /\ Works(1)
  /\ row' = [row EXCEPT ![d][c].state = "deleted"]
  /\ files' = [files EXCEPT ![d][c] = NoPack]
  /\ outbox' = [outbox EXCEPT ![d] = Append(@, NewEntry(d, 1, c, "delete", NoPack))]
  /\ UNCHANGED <<pending, engine, loads, vaultVars, inner, undone>>

\* Discard drops any entry, blocked or not; its staged parts stay, and so does the row as edited.
\* A request that is on its way goes on.
Discard(d) == \E i \in DOMAIN outbox[d] :
  /\ n.discards < MaxDiscards /\ n' = [n EXCEPT !.discards = @ + 1]
  /\ outbox' = [outbox EXCEPT ![d] = RemoveAt(@, i)]
  /\ undone' = [undone EXCEPT ![d] = IF outbox[d][i].op = "delete"
                                       THEN @ \cup {outbox[d][i].disc} ELSE @]
  /\ UNCHANGED <<row, files, pending, engine, loads, vaultVars, inner>>
----------------------------------------------------------------------------
(***************************************************************************)
(* uploadPendingPacks.                                                     *)
(***************************************************************************)
At(d, step) == engine[d].step = step
Goto(d, e) == engine' = [engine EXCEPT ![d] = e]

ToUpload(d) == {RefOf(s) : s \in {x \in pending[d] : ~x.uploaded}}

\* nextBatch: the oldest entry that is not blocked, unless it waits for an upload.
Waiting(q) == {i \in DOMAIN q : ~q[i].blocked}
Oldest(q) == q[CHOOSE i \in Waiting(q) : \A j \in Waiting(q) : i <= j]
CanPush(q, staged) ==
  /\ Waiting(q) # {}
  /\ Oldest(q).op = "pack_commit" =>
       \A s \in staged : RefOf(s) = RefOf(Oldest(q)) => s.uploaded

\* Mutant: a sync ends when it has pushed.
OnwardUnpulled(q, staged, todo, missing) ==
  IF \E s \in staged : ~s.uploaded /\ RefOf(s) \in todo
    THEN [NotSyncing EXCEPT !.step = "upload", !.todo = todo, !.missing = missing]
  ELSE IF CanPush(q, staged) THEN [NotSyncing EXCEPT !.step = "push", !.sent = {Oldest(q)}]
  ELSE NotSyncing

\* What the engine does next, without an await in between.
Onward(q, staged, todo, missing) ==
  IF \E s \in staged : ~s.uploaded /\ RefOf(s) \in todo
    THEN [NotSyncing EXCEPT !.step = "upload", !.todo = todo, !.missing = missing]
  ELSE IF CanPush(q, staged) THEN [NotSyncing EXCEPT !.step = "push", !.sent = {Oldest(q)}]
  ELSE [NotSyncing EXCEPT !.step = "pull"]

\* A sync with nothing to upload.
StartSync(d) ==
  /\ At(d, "idle") /\ ToUpload(d) = {}
  /\ Goto(d, Onward(outbox[d], pending[d], {}, {}))
  /\ UNCHANGED <<row, files, pending, outbox, loads, vaultVars, inner, undone, n>>

\* blockPackCommit.
BlockedCommits(q, refused) ==
  [i \in DOMAIN q |->
     IF q[i].op = "pack_commit" /\ [disc |-> q[i].disc, pack |-> q[i].pack] \in refused
       THEN [q[i] EXCEPT !.blocked = TRUE] ELSE q[i]]

\* A sync starts with POST /packs/reserve: reservations older than a week are dropped first; a
\* new one may be refused.  A pack that is reserved comes back with the parts the vault lacks.
Reserve(d) ==
  LET todo == ToUpload(d)
      current == {r \in Ref : vault[r.disc].pack = r.pack}
  IN \E dropped \in SUBSET (DOMAIN kept \ current) :
     LET valid == DOMAIN kept \ dropped
     IN \E refused \in SUBSET (todo \ (valid \cup current)) :
        /\ At(d, "idle") /\ todo # {}
        /\ IF dropped \cup refused = {} THEN n' = n ELSE Fails
        /\ kept' = [r \in valid \cup (todo \ (refused \cup current)) |->
                      IF r \in valid THEN kept[r] ELSE {}]
        /\ outbox' = [outbox EXCEPT ![d] = BlockedCommits(@, refused)]
        /\ Goto(d, Onward(outbox'[d], pending[d], todo \ refused,
                          {m \in AllParts : /\ RefOf(m) \in todo \ (refused \cup current)
                                            /\ m.part \notin kept'[RefOf(m)]}))
        /\ UNCHANGED <<row, files, pending, loads, vault, seen, done, inner, undone>>

\* One part: PUT it when it is missing, then mark it.  A request can fail before or after the
\* vault stores the part, and the vault refuses a part whose reservation is gone.
UploadPart(d) == \E s \in pending[d] :
  LET r == RefOf(s)
      part == [disc |-> s.disc, pack |-> s.pack, part |-> s.part]
      stored == IF part \in engine[d].missing /\ r \in DOMAIN kept
                  THEN [kept EXCEPT ![r] = @ \cup {s.part}] ELSE kept
      refused == part \in engine[d].missing /\ r \notin DOMAIN kept
  IN /\ At(d, "upload") /\ ~s.uploaded /\ r \in engine[d].todo
     /\ \/ /\ ~refused /\ kept' = stored
              /\ pending' = [pending EXCEPT ![d] = (@ \ {s}) \cup {[s EXCEPT !.uploaded = TRUE]}]
           /\ Goto(d, Onward(outbox[d], pending'[d], engine[d].todo, engine[d].missing))
           /\ UNCHANGED n
        \/ /\ UNCHANGED pending /\ kept' \in {kept, stored}
           /\ Goto(d, NotSyncing)
           /\ IF refused THEN n' = n ELSE Fails
     /\ UNCHANGED <<row, files, outbox, loads, vault, seen, done, inner, undone>>
----------------------------------------------------------------------------
(***************************************************************************)
(* pushOutbox and the vault's answer.                                      *)
(***************************************************************************)
Complete(r) == r \in DOMAIN kept /\ kept[r] = Part

\* What the vault refuses, as a conflict (a new disc under a number that is taken) or for good.
Refuses(e) ==
  LET v == vault[e.disc]
  IN CASE e.op = "upsert" -> \/ v.state = "live" /\ e.base = 0
                             \/ v.state = "deleted" /\ e.base < v.version
       [] e.op = "delete" -> v.state = "none"
       [] e.op = "pack_commit" -> v.state # "live" \/ (v.pack # e.pack /\ ~Complete(RefOf(e)))

\* A new disc may meet the limit of discs, which counts those outside Disc too, and any entry the
\* daily quota, which every table uses.
Answers(e) ==
  IF e.id \in DOMAIN seen THEN {"duplicate"}
  ELSE {"deferred", IF Refuses(e) THEN "refused" ELSE "applied"}
         \cup {r \in {"refused"} : e.op = "upsert" /\ vault[e.disc].state = "none"}
LimitMet(e, answer) == answer = "deferred" \/ (answer = "refused" /\ ~Refuses(e))

\* The vault's disc row after an entry it applies; commitPack gives up the parts of the pack
\* before.  A delete of a deleted disc and a commit of the same pack leave no record.
Applied(e) ==
  LET v == vault[e.disc]
      new == CASE e.op = "upsert" -> [v EXCEPT !.state = "live"]
               [] e.op = "delete" -> [v EXCEPT !.state = "deleted"]
               [] e.op = "pack_commit" -> [v EXCEPT !.pack = e.pack]
      next == v.version + 1
  IN /\ IF new = v /\ e.op # "upsert" THEN UNCHANGED <<vault, seen>>
        ELSE /\ vault' = [vault EXCEPT ![e.disc] = [new EXCEPT !.version = next]]
             /\ seen' = [i \in DOMAIN seen \cup {e.id} |-> IF i = e.id THEN next ELSE seen[i]]
     /\ kept' = IF new.pack = v.pack THEN kept
                ELSE [r \in DOMAIN kept \ {[disc |-> e.disc, pack |-> v.pack]} |-> kept[r]]
     /\ done' = IF e.op = "pack_commit" THEN done \cup {RefOf(e)} ELSE done

\* handleResult: later entries of the row were made on top of an applied one.
Rebased(d, e) ==
  LET rest == Kept(outbox[d], {i \in DOMAIN outbox[d] : outbox[d][i].id # e.id})
      version == IF e.id \in DOMAIN seen THEN seen[e.id] ELSE vault'[e.disc].version
  IN [i \in DOMAIN rest |->
        IF rest[i].disc = e.disc /\ rest[i].base < version
          THEN [rest[i] EXCEPT !.base = version] ELSE rest[i]]

Blocked(d, e) ==
  [i \in DOMAIN outbox[d] |-> [outbox[d][i] EXCEPT !.blocked = @ \/ outbox[d][i].id = e.id]]

\* The staged parts of a pack, which go when its commit is applied.
Unstaged(d, e) ==
  IF e.op = "pack_commit" THEN [pending EXCEPT ![d] = {s \in @ : RefOf(s) # RefOf(e)}] ELSE pending

\* Mutant: the staged parts go with the answer, whatever it says.
SettledAlways(d, e, answer) ==
  /\ outbox' = [outbox EXCEPT ![d] = IF answer \in {"applied", "duplicate"} THEN Rebased(d, e)
                                       ELSE Blocked(d, e)]
  /\ pending' = Unstaged(d, e)

\* Mutant: a refused entry is left to be pushed again.
SettledUnblocked(d, e, answer) ==
  IF answer \in {"applied", "duplicate"}
    THEN outbox' = [outbox EXCEPT ![d] = Rebased(d, e)] /\ pending' = Unstaged(d, e)
    ELSE UNCHANGED <<outbox, pending>>

\* handleResult; a deferred entry stays as it is.
Settled(d, e, answer) ==
  CASE answer \in {"applied", "duplicate"} ->
         outbox' = [outbox EXCEPT ![d] = Rebased(d, e)] /\ pending' = Unstaged(d, e)
    [] answer = "refused" -> outbox' = [outbox EXCEPT ![d] = Blocked(d, e)] /\ UNCHANGED pending
    [] answer = "deferred" -> UNCHANGED <<outbox, pending>>

\* One entry; the request or its answer may be lost.  A deferral ends the pushing; that the next
\* sync waits for midnight is a sync that starts late.
Push(d) == \E e \in engine[d].sent : \E answer \in Answers(e) :
  /\ At(d, "push")
  /\ \/ /\ IF answer = "applied" THEN Applied(e) ELSE UNCHANGED vaultVars
        /\ Settled(d, e, answer)
        /\ Goto(d, IF answer = "deferred" THEN [NotSyncing EXCEPT !.step = "pull"]
                   ELSE Onward(outbox'[d], pending'[d], {}, {}))
        /\ IF LimitMet(e, answer) THEN Fails ELSE UNCHANGED n
     \/ /\ \/ answer = "applied" /\ Applied(e)
           \/ UNCHANGED vaultVars
        /\ Goto(d, NotSyncing) /\ Fails
        /\ UNCHANGED <<outbox, pending>>
  /\ UNCHANGED <<row, files, loads, inner, undone>>
----------------------------------------------------------------------------
(***************************************************************************)
(* pull and loadChangedPacks.                                              *)
(***************************************************************************)
\* applyChanges: pack fields are the vault's.
Pulled(d) ==
  [c \in Disc |-> IF vault[c].version > row[d][c].version THEN vault[c] ELSE row[d][c]]

\* discsNeedingPacks, but for the deleted ones.
NeedsPack(d, c, r) ==
  /\ r.state = "live" /\ r.pack # NoPack /\ r.pack # files[d][c]
  /\ \A s \in pending[d] : s.disc # c

\* The pull ends, deleted discs lose their catalog, and a worker per disc starts to download.
Pull(d) ==
  LET new == Pulled(d)
      needed == {c \in Disc : NeedsPack(d, c, new[c])}
  IN /\ At(d, "pull")
     /\ row' = [row EXCEPT ![d] = new]
     /\ files' = [files EXCEPT ![d] = [c \in Disc |-> IF new[c].state = "deleted" THEN NoPack
                                                      ELSE files[d][c]]]
     /\ loads' = [loads EXCEPT ![d] = @ \cup {[disc |-> c, pack |-> new[c].pack, live |-> TRUE] :
                                                c \in needed}]
     /\ Goto(d, [NotSyncing EXCEPT !.step = IF needed = {} THEN "idle" ELSE "load"])
     /\ undone' = [undone EXCEPT ![d] = {c \in @ : vault[c].version <= row[d][c].version}]
     /\ UNCHANGED <<pending, outbox, vaultVars, inner, n>>

\* importPackParts refuses parts that name another disc; one failure ends the sync, and leaves
\* the other workers to go on without it.
LoadDone(d, c) == \E l \in {x \in loads[d] : x.disc = c} :
  LET orphaned == {[x EXCEPT !.live = FALSE] : x \in loads[d] \ {l}}
      failed == /\ files' = files
                /\ loads' = [loads EXCEPT ![d] = IF l.live THEN orphaned ELSE @ \ {l}]
                /\ IF l.live THEN Goto(d, NotSyncing) ELSE UNCHANGED engine
  IN /\ \/ /\ inner[l.pack] = l.disc
           /\ files' = [files EXCEPT ![d][l.disc] = l.pack]
           /\ loads' = [loads EXCEPT ![d] = @ \ {l}]
           /\ IF l.live /\ \A x \in loads'[d] : ~x.live THEN Goto(d, NotSyncing)
                                                     ELSE UNCHANGED engine
           /\ UNCHANGED n
        \/ inner[l.pack] # l.disc /\ failed /\ UNCHANGED n
        \/ inner[l.pack] = l.disc /\ failed /\ Fails
     /\ UNCHANGED <<row, pending, outbox, vaultVars, inner, undone>>

\* The tab is closed, or a request other than those above fails.
TabCloses(d) ==
  /\ engine[d] # NotSyncing \/ loads[d] # {}
  /\ Goto(d, NotSyncing) /\ loads' = [loads EXCEPT ![d] = {}] /\ Fails
  /\ UNCHANGED <<row, files, pending, outbox, vaultVars, inner, undone>>
----------------------------------------------------------------------------
UserStep(d) ==
  \/ \E c \in Disc : CommitScannedPack(d, c) \/ ImportArchive(d, c) \/ DeleteDisc(d, c)
  \/ Discard(d) \/ TabCloses(d)

EngineStep(d) ==
  StartSync(d) \/ Reserve(d) \/ UploadPart(d) \/ Push(d) \/ Pull(d)

PacksNext == \E d \in Device : UserStep(d) \/ EngineStep(d) \/ \E c \in Disc : LoadDone(d, c)

PacksSafe == PacksInit /\ [][PacksNext]_packVars

\* A sync starts at the latest every 15 minutes; requests end.
PacksFairness ==
  \A d \in Device : /\ WF_packVars(EngineStep(d))
                    /\ \A c \in Disc : WF_packVars(LoadDone(d, c))
PacksSpec == PacksSafe /\ PacksFairness
----------------------------------------------------------------------------
\* The variables hold what the tables and the engine keep in them.
DevicePacksTypeOK ==
  /\ row \in [Device -> [Disc -> Row]]
  /\ files \in [Device -> [Disc -> Pack \cup {NoPack}]]
  /\ \A d \in Device : /\ pending[d] \subseteq Staged
                       /\ outbox[d] \in Seq(Entry)
                       /\ engine[d] \in Engine
                       /\ loads[d] \subseteq Load
  /\ vault \in [Disc -> Row]
  /\ DOMAIN kept \subseteq Ref /\ \A r \in DOMAIN kept : kept[r] \subseteq Part
  /\ done \subseteq Ref /\ undone \in [Device -> SUBSET Disc]

\* The parts of a scan or an import stay on the device until the vault has committed the pack,
\* whatever is refused, lost or discarded: nothing else holds them (engine.ts 322, §5.2).
PartsKept ==
  \A d \in Device : \A i \in DOMAIN outbox[d] :
    LET e == outbox[d][i]
    IN e.op = "pack_commit" /\ RefOf(e) \notin done
         => {s.part : s \in {x \in pending[d] : RefOf(x) = RefOf(e)}} = Part

\* In the end no commit waits: each is applied, or blocked where the user sees it.
CommitsSettle ==
  <>[](\A d \in Device : Waiting(outbox[d]) = {})

\* In the end a device with nothing staged for a disc shows the files of the pack the vault has,
\* whatever it loaded, scanned, imported or discarded while packs were on their way.  Two cases
\* are what the code leaves: a renumbered pack cannot be loaded elsewhere (packs.ts 31), and a
\* delete that is discarded (sync-admin.ts 12) leaves its disc deleted here until the vault's row
\* changes.
DevicesShow ==
  <>[](\A d \in Device, c \in Disc :
        /\ \A s \in pending[d] : s.disc # c
        /\ vault[c].state = "live" /\ vault[c].pack # NoPack
        /\ inner[vault[c].pack] = c
        /\ c \notin undone[d]
        => files[d][c] = vault[c].pack)

=============================================================================
