------------------------------ MODULE Analysis ------------------------------
(***************************************************************************)
(* AI identification in one tab: the runs of analyzeDiscWithAi             *)
(* (apps/web/src/ai/analyze.ts) that the disc explorer and the bulk queue  *)
(* (ai/bulk-analyze.ts) start, the searches for preview pictures that      *)
(* follow a run (images/lookup.ts), the items and pictures they store      *)
(* (db/disc-items.ts, db/worker.ts), and what the user does meanwhile.     *)
(*                                                                         *)
(* An action is the code between two awaits.  A run yields at most one     *)
(* item, which has the run's number.                                       *)
(***************************************************************************)
EXTENDS Naturals, Sequences, Sublists

CONSTANTS
  Disc,        \* the discs, numbered in the order of disc_no
  MaxModels,   \* models in the fallback chain when Gemini's list has come
  MaxRuns,     \* bound: runs started
  MaxLoops,    \* bound: bulk queues started
  MaxEdits,    \* bound: what the user does beside starting runs
  MaxBatch     \* MAX_BATCH_SIZE

ASSUME AnalysisAssumption ==
  /\ MaxRuns \in Nat /\ MaxLoops \in Nat /\ MaxEdits \in Nat
  /\ MaxModels \in Nat \ {0} /\ MaxBatch \in Nat \ {0}
  /\ IsFiniteSet(Disc) /\ Disc = 1..Cardinality(Disc)

VARIABLES
  discs,     \* disc rows: whether they are live and have a title
  items,     \* disc_item: of each run that found something, its row
  blobs,     \* disc_item_image
  runs,      \* analyses: of the explorer (loop 0) or of a bulk queue
  searches,  \* items whose picture is being looked up or downloaded
  loops,     \* bulk queues
  bulk,      \* bulk-analyze.ts: progress # null, cancelRequested, runId
  revived,   \* history: items that came back from their deletion
  used       \* runs started and edits made

analysisVars == <<discs, items, blobs, runs, searches, loops, bulk, revived, used>>

Run == 1..MaxRuns
DiscRow == [live: BOOLEAN, titled: BOOLEAN]
Item == [disc: Disc, live: BOOLEAN]
Target == [disc: Disc, titled: BOOLEAN]
RunState == [step: {"summary", "ask", "raw", "items", "title", "list"}, target: Target,
             loop: 0..MaxLoops, models: 0..MaxModels, found: BOOLEAN, named: BOOLEAN]
Over == [step |-> "over"]
Search == [item: Run, run: Run, caching: BOOLEAN]
LoopState == [step: {"run", "next", "wait", "ended"}, todo: Seq(Target), models: 1..MaxModels]

AnalysisInit ==
  /\ \E titled \in BOOLEAN : discs = [d \in Disc |-> [live |-> TRUE, titled |-> titled]]
  /\ items = [r \in {} |-> {}] /\ blobs = {}
  /\ runs = <<>> /\ searches = {} /\ loops = <<>>
  /\ bulk = [progress |-> FALSE, cancel |-> FALSE]
  /\ revived = {}
  /\ used = 0
----------------------------------------------------------------------------
(***************************************************************************)
(* Starting a run.                                                         *)
(***************************************************************************)
\* Mutant: only the models of the list, which may not have come.
ChainOfList == {0, MaxModels}

\* buildModelFallbackChain: the model picked, and the others when their list has come.
Chain == {1, MaxModels}

StartRun(target, loop, chain) ==
  /\ Len(runs) < MaxRuns
  /\ runs' = Append(runs, [step |-> "summary", target |-> target, loop |-> loop,
                           models |-> chain, found |-> FALSE, named |-> FALSE])

TargetOf(d) == [disc |-> d, titled |-> discs[d].titled]

\* "Analyze with AI" of the explorer.  A page that is left does not stop its run.
Explore(d) ==
  /\ discs[d].live
  /\ \E chain \in Chain : StartRun(TargetOf(d), 0, chain)
  /\ UNCHANGED <<discs, items, blobs, searches, loops, bulk, revived, used>>
----------------------------------------------------------------------------
(***************************************************************************)
(* The bulk queue.                                                         *)
(***************************************************************************)
\* analyzeAllWithAi: the listed discs that have no items, as far as the batch goes.
StartBulkAnalyze ==
  LET analyzed == {items[i].disc : i \in {x \in DOMAIN items : items[x].live}}
  IN /\ ~bulk.progress /\ Len(loops) < MaxLoops
     /\ \E listed \in SUBSET {d \in Disc \ analyzed : discs[d].live} : \E chain \in Chain :
          LET all == Kept([d \in Disc |-> d], listed)
              batch == [i \in 1..(IF Len(all) < MaxBatch THEN Len(all) ELSE MaxBatch)
                          |-> TargetOf(all[i])]
          IN /\ listed # {}
             /\ StartRun(Head(batch), Len(loops) + 1, chain)
             /\ loops' = Append(loops, [step |-> "run", todo |-> Tail(batch), models |-> chain])
     /\ bulk' = [progress |-> TRUE, cancel |-> FALSE]
     /\ UNCHANGED <<discs, items, blobs, searches, revived, used>>

\* cancelRequested, or a later queue has started.
Stops(l) == bulk.cancel \/ l # Len(loops)

EndLoop(l) ==
  /\ loops' = [loops EXCEPT ![l].step = "ended"]
  /\ bulk' = [bulk EXCEPT !.progress = FALSE]

LoopNext(l) ==
  /\ loops[l].step = "next"
  /\ IF loops[l].todo = <<>> \/ Stops(l)
       THEN EndLoop(l)
       ELSE loops' = [loops EXCEPT ![l].step = "wait"] /\ UNCHANGED bulk
  /\ UNCHANGED <<discs, items, blobs, runs, searches, revived, used>>

\* Five minutes later, or when the queue is cancelled.
LoopWakes(l) ==
  /\ loops[l].step = "wait"
  /\ IF Stops(l)
       THEN EndLoop(l) /\ UNCHANGED runs
       ELSE /\ StartRun(Head(loops[l].todo), l, loops[l].models)
            /\ loops' = [loops EXCEPT ![l].step = "run", ![l].todo = Tail(@)]
            /\ UNCHANGED bulk
  /\ UNCHANGED <<discs, items, blobs, searches, revived, used>>

\* Mutant: a cancelled queue counts as over at once.
CancelledAtOnce == bulk' = [progress |-> FALSE, cancel |-> TRUE]

Cancelled == bulk' = [bulk EXCEPT !.cancel = TRUE]

CancelBulkAnalyze ==
  /\ bulk.progress /\ ~bulk.cancel
  /\ Cancelled
  /\ UNCHANGED <<discs, items, blobs, runs, searches, loops, revived, used>>
----------------------------------------------------------------------------
(***************************************************************************)
(* analyzeDiscWithAi.                                                      *)
(***************************************************************************)
Goto(r, step) == runs' = [runs EXCEPT ![r].step = step]
End(r) == runs' = [runs EXCEPT ![r] = Over]
At(r, step) == runs[r].step = step
DiscOf(r) == runs[r].target.disc

\* What waits for the run: its queue, or the explorer, which goes on to look for pictures.
Finish(r) ==
  IF runs[r].loop = 0
    THEN Goto(r, "list") /\ UNCHANGED loops
    ELSE End(r) /\ loops' = [loops EXCEPT ![runs[r].loop].step = "next"]

\* An error ends the run, and its queue.
Fail(r) ==
  /\ End(r)
  /\ IF runs[r].loop = 0 THEN UNCHANGED <<loops, bulk>> ELSE EndLoop(runs[r].loop)

RunFails(r) ==
  /\ runs[r].step \in {"summary", "raw", "items", "title", "list"}
  /\ Fail(r)
  /\ UNCHANGED <<discs, items, blobs, searches, revived, used>>

\* discAiSummary: there is none of a deleted disc.
Summarise(r) ==
  /\ At(r, "summary")
  /\ IF discs[DiscOf(r)].live
       THEN Goto(r, "ask") /\ UNCHANGED <<loops, bulk>>
       ELSE Fail(r)
  /\ UNCHANGED <<discs, items, blobs, searches, revived, used>>

ModelFails(r) ==
  /\ At(r, "ask")
  /\ IF runs[r].models > 1
       THEN runs' = [runs EXCEPT ![r].models = @ - 1] /\ UNCHANGED <<loops, bulk>>
       ELSE Fail(r)
  /\ UNCHANGED <<discs, items, blobs, searches, revived, used>>

\* identifyDiscItems: the items, maybe none, and maybe a title.
ModelAnswers(r) ==
  /\ At(r, "ask")
  /\ \E found, named \in BOOLEAN :
       runs' = [runs EXCEPT ![r].step = "raw", ![r].models = 0,
                            ![r].found = found, ![r].named = named]
  /\ UNCHANGED <<discs, items, blobs, searches, loops, bulk, revived, used>>

\* meta.aiRaw; a write to a disc row brings the disc back (rows.ts 46).
SaveDiscAiRaw(r) ==
  /\ At(r, "raw")
  /\ discs' = [discs EXCEPT ![DiscOf(r)].live = TRUE]
  /\ Goto(r, "items")
  /\ UNCHANGED <<items, blobs, searches, loops, bulk, revived, used>>

LiveItems(d) == {i \in DOMAIN items : items[i].disc = d /\ items[i].live}

\* removeDiscItem of every item in set.
Removed(set) == [i \in DOMAIN items |-> IF i \in set THEN [items[i] EXCEPT !.live = FALSE]
                                        ELSE items[i]]

\* addDiscItem of what run r found, whose row no other run has.
WithItem(rest, r, d) ==
  [i \in DOMAIN rest \cup {r} |-> IF i = r THEN [disc |-> d, live |-> TRUE] ELSE rest[i]]

\* Mutant: the items are added to those the disc has.
ItemsAdded(d) == items

\* The items that the disc had are replaced.
ItemsReplaced(d) == Removed(LiveItems(d))

ApplyDiscItems(r) ==
  LET d == DiscOf(r)
      rest == ItemsReplaced(d)
  IN /\ At(r, "items")
     /\ items' = IF runs[r].found THEN WithItem(rest, r, d) ELSE rest
     /\ blobs' = blobs \ LiveItems(d)
     /\ IF runs[r].named /\ ~runs[r].target.titled
          THEN Goto(r, "title") /\ UNCHANGED loops ELSE Finish(r)
     /\ UNCHANGED <<discs, searches, bulk, revived, used>>

\* The title is written though the user may have given one since the run started.
SetDiscTitle(r) ==
  /\ At(r, "title")
  /\ discs' = [discs EXCEPT ![DiscOf(r)] = [live |-> TRUE, titled |-> TRUE]]
  /\ Finish(r)
  /\ UNCHANGED <<items, blobs, searches, bulk, revived, used>>
----------------------------------------------------------------------------
(***************************************************************************)
(* fetchPreviewImagesForDisc.                                              *)
(***************************************************************************)
FetchPreviewImages(r) ==
  /\ At(r, "list")
  /\ searches' = searches \cup {[item |-> i, run |-> r, caching |-> FALSE] :
                                  i \in LiveItems(DiscOf(r))}
  /\ End(r)
  /\ UNCHANGED <<discs, items, blobs, loops, bulk, revived, used>>

\* lookupPreviewImage answers.  setDiscItemImageUrl, like every write, brings a deleted row back;
\* an item whose search fails there is left alone.
StoreImageUrl(s) ==
  /\ s \in searches /\ ~s.caching
  /\ items' = [items EXCEPT ![s.item].live = TRUE]
  /\ revived' = IF items[s.item].live THEN revived ELSE revived \cup {s.item}
  /\ \E found \in BOOLEAN :
       searches' = (searches \ {s}) \cup (IF found THEN {[s EXCEPT !.caching = TRUE]} ELSE {})
  /\ UNCHANGED <<discs, blobs, runs, loops, bulk, used>>

\* cacheDiscItemImage: the picture is stored, whatever became of the item.
CacheImage(s) ==
  /\ s \in searches /\ s.caching
  /\ searches' = searches \ {s}
  /\ blobs' \in {blobs, blobs \cup {s.item}}
  /\ UNCHANGED <<discs, items, runs, loops, bulk, revived, used>>
----------------------------------------------------------------------------
(***************************************************************************)
(* The user.                                                               *)
(***************************************************************************)
Edits == used < MaxEdits /\ used' = used + 1

RemoveItem(i) ==
  /\ items[i].live /\ Edits
  /\ items' = Removed({i}) /\ blobs' = blobs \ {i}
  /\ UNCHANGED <<discs, runs, searches, loops, bulk, revived>>

DeleteDisc(d) ==
  /\ discs[d].live /\ Edits
  /\ discs' = [discs EXCEPT ![d].live = FALSE]
  /\ items' = Removed(LiveItems(d)) /\ blobs' = blobs \ LiveItems(d)
  /\ UNCHANGED <<runs, searches, loops, bulk, revived>>

\* A scan saved under the number, with or without a title; "Mark retired", and notes.
EditDisc(d) ==
  /\ Edits
  /\ \E titled \in {discs[d].titled, TRUE} :
       discs' = [discs EXCEPT ![d] = [live |-> TRUE, titled |-> titled]]
  /\ UNCHANGED <<items, blobs, runs, searches, loops, bulk, revived>>
----------------------------------------------------------------------------
RunStep(r) ==
  \/ Summarise(r) \/ ModelFails(r) \/ ModelAnswers(r)
  \/ SaveDiscAiRaw(r) \/ ApplyDiscItems(r) \/ SetDiscTitle(r) \/ FetchPreviewImages(r)
  \/ RunFails(r)

AnalysisNext ==
  \/ \E d \in Disc : Explore(d) \/ DeleteDisc(d) \/ EditDisc(d)
  \/ StartBulkAnalyze \/ CancelBulkAnalyze
  \/ \E l \in DOMAIN loops : LoopNext(l) \/ LoopWakes(l)
  \/ \E r \in DOMAIN runs : RunStep(r)
  \/ \E s \in searches : StoreImageUrl(s) \/ CacheImage(s)
  \/ \E i \in DOMAIN items : RemoveItem(i)

AnalysisSpec == AnalysisInit /\ [][AnalysisNext]_analysisVars
----------------------------------------------------------------------------
\* Rows, runs, queues and stores hold what the code keeps in them.
AnalysisTypeOK ==
  /\ discs \in [Disc -> DiscRow]
  /\ DOMAIN items \subseteq Run /\ \A i \in DOMAIN items : items[i] \in Item
  /\ blobs \subseteq DOMAIN items /\ revived \subseteq DOMAIN items
  /\ runs \in Seq(RunState \cup {Over}) /\ loops \in Seq(LoopState)
  /\ searches \subseteq Search

\* Two items of different runs are on a disc together only if the search for a picture brought
\* one of them back: "re-analyzing never piles up duplicates" (disc-items.ts 79-85) but for that.
ItemsOfLastRun ==
  \A i, j \in DOMAIN items :
    /\ i # j /\ items[i].disc = items[j].disc
    /\ items[i].live /\ items[j].live
    => i \in revived \/ j \in revived

\* The queues analyse one disc at a time, "never in parallel" (bulk-analyze.ts 72), also when
\* one is cancelled and another started while the first still waits for Gemini.
OneBulkRun ==
  \A r, q \in DOMAIN runs :
    /\ runs[r] # Over /\ runs[q] # Over
    /\ runs[r].loop # 0 /\ runs[q].loop # 0
    => r = q
=============================================================================
