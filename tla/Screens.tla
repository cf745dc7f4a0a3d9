------------------------------ MODULE Screens ------------------------------
(***************************************************************************)
(* What the screens show: the query cache of a tab (react-query, modelled  *)
(* from its use), the queries each screen reads from the vault worker, the *)
(* operations the screens and the session send to it, and the queries each *)
(* of them asks again afterwards.                                          *)
(*                                                                         *)
(* The worker answers a query and a single write in the order they are     *)
(* asked; a sync, an import, a scan's save or an analysis takes effect and *)
(* answers later.  A value read from the worker is the set of the changes  *)
(* made to its tables since.                                               *)
(***************************************************************************)
EXTENDS Naturals, Sequences, SequencesExt, Sublists

CONSTANTS
  MaxMoves,    \* bound: changes of screen the user makes
  MaxTasks,    \* bound: operations
  MaxActs      \* bound: both together

ASSUME ScreensAssumption == MaxMoves \in Nat /\ MaxTasks \in Nat /\ MaxActs \in Nat

VARIABLES
  view,       \* the screen, with its tab, scope or mode
  cached,     \* of each query read so far: the changes its value lacks
  answers,    \* what the worker has asked of it, oldest first, already served
  tasks,      \* the kinds of the operations so far
  running,    \* those that take their effect later
  handlers,   \* code that waits for the answers to what it invalidated
  dealt,      \* the operations dealt with, each with the queries that may still miss it
  recorded,   \* the ref of the search screen: its query is in the history
  moves

screenVars == <<view, cached, answers, tasks, running, handlers, dealt, recorded, moves>>

\* The queries of each screen, those that are enabled, in the order they are asked.  One stands
\* for the three of the overview that read a disc's files, one for the titles of a type or of a
\* genre; the scope Folders of the search is like Files.
DashboardQueries == <<"missing-discs", "category-breakdown", "media-type-breakdown",
                      "discs-recent", "recent-searches">>
DiscsQueries == <<"discs-recent", "missing-discs", "disc-nos-with-ai-items">>
BrowseQueries == <<"disc", "disc-folder">>
OverviewQueries == BrowseQueries \o <<"disc-files", "disc-items">>
ScanQueries == <<"discs-recent", "missing-discs">>
SearchQueries(hits) == hits \o <<"ext-category-map">>
TitlesQueries == <<"disc-item-type-counts", "disc-item-genre-counts">>
GroupQueries == <<"disc-items-by">>
CategoriesQueries == <<"ext-category-map", "ext-counts">>
SyncQueries == <<"outbox", "conflicts">>

Queries(v) ==
  CASE v = "dashboard" -> DashboardQueries
    [] v = "discs" -> DiscsQueries
    [] v = "browse" -> BrowseQueries
    [] v = "overview" -> OverviewQueries
    [] v = "new disc" -> ScanQueries
    [] v = "rescan" -> Append(ScanQueries, "disc")
    [] v = "search" -> SearchQueries(<<>>)
    [] v = "search files" -> SearchQueries(<<"search-files">>)
    [] v = "search both" -> SearchQueries(<<"search-files", "search-folders">>)
    [] v = "titles" -> TitlesQueries
    [] v = "group" -> GroupQueries
    [] v = "categories" -> CategoriesQueries
    [] v = "import" -> <<>>
    [] v = "sync" -> SyncQueries

Shown(v) == Range(Queries(v))

Searches == {"search", "search files", "search both"}

\* The views of one component, whose queries stay mounted between them.
Components == {{"browse", "overview"}, {"new disc", "rescan"}, Searches}
View == (UNION Components) \cup {"dashboard", "discs", "titles", "group", "categories", "import",
                               "sync"}
Key == UNION {Shown(v) : v \in View}

\* The queries by what they read: rows of discs, files and folders, items, or both.
OfDiscs == {"discs-recent", "missing-discs", "media-type-breakdown", "disc"}
OfFiles == {"disc-folder", "disc-files", "category-breakdown", "ext-counts"}
OfHits == {"search-files", "search-folders"}
OfDiscItems == {"disc-items", "disc-nos-with-ai-items"}
OfItems == {"disc-item-type-counts", "disc-item-genre-counts", "disc-items-by"}

Reads(key) ==
  CASE key \in OfDiscs -> {"disc"}
    [] key \in OfFiles -> {"file"}
    [] key \in OfHits -> {"file", "disc"}
    [] key \in OfDiscItems -> {"disc_item"}
    [] key \in OfItems -> {"disc_item", "disc"}
    [] key = "ext-category-map" -> {"category_override"}
    [] key = "recent-searches" -> {"search_history"}
    [] key = "outbox" -> {"outbox"}
    [] key = "conflicts" -> {"conflict"}

\* The operations: where each is offered, the tables it writes.
AtOnce == {"retire", "save notes", "remove item", "delete disc", "set category", "discard",
           "dismiss", "record search"}
Later == {"analyze", "pictures", "bulk", "save scan", "import", "sync"}
Kind == AtOnce \cup Later
OfferedOn(kind) ==
  CASE kind \in {"retire", "bulk"} -> {"discs"}
    [] kind \in {"save notes", "remove item", "analyze"} -> {"overview"}
    [] kind = "delete disc" -> {"browse", "overview"}
    [] kind = "save scan" -> {"new disc", "rescan"}
    [] kind = "set category" -> {"categories"}
    [] kind = "import" -> {"import"}
    [] kind \in {"discard", "dismiss"} -> {"sync"}
    [] kind = "record search" -> {"search files", "search both"}
    [] kind = "sync" -> View
    [] kind = "pictures" -> {}
Writes(kind) ==
  CASE kind \in {"retire", "save notes"} -> {"disc", "outbox"}
    [] kind \in {"remove item", "pictures"} -> {"disc_item", "outbox"}
    [] kind \in {"analyze", "bulk"} -> {"disc", "disc_item", "outbox"}
    [] kind = "delete disc" -> {"disc", "disc_item", "file", "outbox"}
    [] kind = "save scan" -> {"disc", "file", "outbox"}
    [] kind = "set category" -> {"category_override", "outbox"}
    [] kind \in {"sync", "import"} ->
         {"disc", "disc_item", "file", "category_override", "outbox", "conflict"}
    [] kind = "discard" -> {"outbox"}
    [] kind = "dismiss" -> {"conflict"}
    [] kind = "record search" -> {"search_history"}

Touches(kind, key) == Reads(key) \cap Writes(kind) # {}

\* Mutant: an analysis may give the disc its title, and only the items are asked again.
ItemsOnly == <<{"disc-items"}>>

Analyzed == <<{"disc-items", "disc"}>>

\* What the code that asked for an operation invalidates when it is done, one set after the
\* answers to the one before.
Invalidates(kind) ==
  CASE kind = "retire" -> <<{"missing-discs"}, {"discs-recent"}>>
    [] kind = "bulk" -> <<{"disc-nos-with-ai-items"}, {"discs-recent"}>>
    [] kind = "save notes" -> <<{"disc"}>>
    [] kind \in {"remove item", "pictures"} -> <<{"disc-items"}>>
    [] kind = "analyze" -> Analyzed
    [] kind \in {"save scan", "import", "sync"} -> <<Key>>
    [] kind = "set category" -> <<{"ext-category-map"}>>
    [] kind = "discard" -> <<{"outbox"}>>
    [] kind = "dismiss" -> <<{"conflicts"}>>
    [] kind \in {"delete disc", "record search"} -> <<>>

\* The queries an operation concerns: those of its disc's overview, or those that show what a run
\* over the discs has done (which changes the missing numbers only where it brings a deleted disc
\* back); else all.
Concerns(kind) ==
  CASE kind \in {"analyze", "pictures"} -> Range(OverviewQueries)
    [] kind = "bulk" -> {"disc-nos-with-ai-items", "discs-recent"}
    [] OTHER -> Key

Query(key) == [key |-> key, lacks |-> {}]
IsQuery(a) == "key" \in DOMAIN a
InFlight == {a.key : a \in {b \in Range(answers) : IsQuery(b)}}

\* Queries of a screen are asked behind what was asked before.
Asked(list, v, keys) ==
  LET asks == Without(Queries(v), Shown(v) \ keys)
  IN list \o [i \in DOMAIN asks |-> Query(asks[i])]

\* The queries that a change of screen mounts or enables; all are stale (staleTime 0), and
\* one that is being asked is not asked again.
Mounting(from, to) ==
  IF \E c \in Components : {from, to} \subseteq c THEN Shown(to) \ Shown(from) ELSE Shown(to)

Show(v) ==
  /\ view' = v
  /\ answers' = Asked(answers, v, Mounting(view, v) \ InFlight)
  /\ recorded' = (recorded /\ {view, v} \subseteq Searches)

ScreensInit ==
  /\ view = "dashboard"
  /\ cached = << >>
  /\ answers = Asked(<<>>, view, Shown(view))
  /\ tasks = <<>> /\ running = {} /\ handlers = {} /\ dealt = {}
  /\ recorded = FALSE /\ moves = 0
----------------------------------------------------------------------------
\* The user goes to another screen, tab, scope or mode; what was under way goes on.
Move(v) ==
  /\ moves < MaxMoves /\ moves + Len(tasks) < MaxActs /\ v # view
  /\ moves' = moves + 1
  /\ Show(v)
  /\ UNCHANGED <<cached, tasks, running, handlers, dealt>>

\* Task i writes: what has been read before lacks it, in the cache and on its way.
Takes(i, kind, list) ==
  /\ cached' = [key \in DOMAIN cached |->
                  IF Touches(kind, key) THEN cached[key] \cup {i} ELSE cached[key]]
  /\ answers' = [n \in DOMAIN answers |->
                   IF IsQuery(answers[n]) /\ Touches(kind, answers[n].key)
                     THEN [answers[n] EXCEPT !.lacks = @ \cup {i}] ELSE answers[n]] \o list

\* The queries that may go on missing an operation, until they are shown anew: those being asked
\* when it takes effect and those on screen that it does not concern, unless its code asks them
\* again.
Misses(concerned, todo) == (InFlight \cup (Shown(view) \ concerned)) \ (UNION Range(todo))

Answer(i, outcome, concerned, todo) ==
  [task |-> i, outcome |-> outcome, misses |-> Misses(concerned, todo), todo |-> todo]

\* A write the worker serves at once.
Write(kind) ==
  /\ Len(tasks) < MaxTasks /\ moves + Len(tasks) < MaxActs /\ view \in OfferedOn(kind)
  /\ kind = "record search" => ~recorded /\ (Shown(view) \cap InFlight) \ DOMAIN cached = {}
  /\ tasks' = Append(tasks, kind)
  /\ recorded' = (recorded \/ kind = "record search")
  /\ LET i == Len(tasks')
     IN Takes(i, kind, <<Answer(i, "done", Concerns(kind), Invalidates(kind))>>)
  /\ UNCHANGED <<view, running, handlers, dealt, moves>>

\* One bulk run, and one sync, go on at a time.
Start(kind) ==
  /\ Len(tasks) < MaxTasks /\ moves + Len(tasks) < MaxActs /\ view \in OfferedOn(kind)
  /\ kind \in {"bulk", "sync"} => \A i \in running : tasks[i] # kind
  /\ tasks' = Append(tasks, kind)
  /\ running' = running \cup {Len(tasks')}
  /\ UNCHANGED <<view, cached, answers, handlers, dealt, recorded, moves>>

\* It succeeds; or it fails half-way, which only a bulk run has something to invalidate for;
\* or an automatic sync had nothing but refusals, and says nothing to the screens.
Ends(i) ==
  /\ running' = running \ {i}
  /\ LET kind == tasks[i]
         todo == Invalidates(kind)
     IN \/ Takes(i, kind, <<Answer(i, "done", Concerns(kind), todo)>>)
        \/ kind = "bulk" /\ Takes(i, kind, <<Answer(i, "failed", {}, Tail(todo))>>)
        \/ kind \in {"analyze", "sync"} /\ Takes(i, kind, <<Answer(i, "failed", {}, <<>>)>>)
  /\ UNCHANGED <<view, tasks, handlers, dealt, recorded, moves>>

\* A query of a disc that has been deleted is an error, which leaves the value there was.
Fails(a) ==
  a.key = "disc" /\ \E i \in DOMAIN tasks : tasks[i] = "delete disc" /\ i \notin a.lacks

\* The oldest answer arrives: a query has its value, an operation what follows it.
Arrives ==
  /\ answers # <<>> /\ answers' = Tail(answers)
  /\ LET a == Head(answers)
     IN IF IsQuery(a)
          THEN /\ cached' = IF Fails(a) THEN cached
                            ELSE [key \in DOMAIN cached \cup {a.key} |->
                                    IF key = a.key THEN a.lacks ELSE cached[key]]
               /\ handlers' = {[h EXCEPT !.waits = @ \ {a.key}] : h \in handlers}
          ELSE /\ handlers' = handlers \cup {[task |-> a.task, outcome |-> a.outcome,
                                              misses |-> a.misses, todo |-> a.todo, waits |-> {}]}
               /\ UNCHANGED cached
  /\ UNCHANGED <<view, tasks, running, dealt, recorded, moves>>

\* invalidateQueries: what is on screen is asked again, and an answer under way ignored, unless
\* the query has no value yet, when that answer is waited for.  The rest is asked when shown.
Invalidate(h) ==
  LET active == Head(h.todo) \cap Shown(view)
      again == active \ (InFlight \ DOMAIN cached)
      left == {n \in DOMAIN answers : ~(IsQuery(answers[n]) /\ answers[n].key \in again)}
  IN /\ h.waits = {} /\ h.todo # <<>>
     /\ answers' = Asked(Kept(answers, left), view, again)
     /\ handlers' = {[g EXCEPT !.waits = @ \ again] : g \in handlers \ {h}}
                      \cup {[h EXCEPT !.todo = Tail(@), !.waits = active]}
     /\ UNCHANGED <<view, cached, tasks, running, dealt, recorded, moves>>

\* Nothing is left to invalidate.  A deleted disc is left for the list of discs; the pictures
\* of the items of an analysis are looked up next.
Done(h) ==
  /\ h.waits = {} /\ h.todo = <<>>
  /\ handlers' = handlers \ {h}
  /\ dealt' = dealt \cup {[task |-> h.task, misses |-> h.misses]}
  /\ IF tasks[h.task] = "delete disc" /\ view # "discs" THEN Show("discs")
     ELSE UNCHANGED <<view, answers, recorded>>
  /\ IF tasks[h.task] = "analyze" /\ h.outcome = "done" /\ Len(tasks) < MaxTasks
       THEN tasks' = Append(tasks, "pictures") /\ running' = running \cup {Len(tasks')}
       ELSE UNCHANGED <<tasks, running>>
  /\ UNCHANGED <<cached, moves>>

ScreensNext ==
  \/ \E v \in View : Move(v)
  \/ \E kind \in AtOnce : Write(kind)
  \/ \E kind \in Later : Start(kind)
  \/ \E i \in running : Ends(i)
  \/ \E h \in handlers : Invalidate(h) \/ Done(h)
  \/ Arrives

ScreensSpec == ScreensInit /\ [][ScreensNext]_screenVars
----------------------------------------------------------------------------
\* The queries have values that lack changes made, and only what is shown or was is asked.
ScreensTypeOK ==
  /\ view \in View /\ DOMAIN cached \subseteq Key /\ running \subseteq DOMAIN tasks
  /\ tasks \in Seq(Kind) /\ Len(tasks) <= MaxTasks /\ moves \in 0..MaxMoves
  /\ \A key \in DOMAIN cached : \A i \in cached[key] : Touches(tasks[i], key)
  /\ Shown(view) \subseteq DOMAIN cached \cup InFlight \cup {"disc"}
  /\ \A h \in handlers : h.waits \subseteq InFlight

\* Once an operation has been dealt with, no query on screen shows the vault without it, whatever
\* the user opened meanwhile and whatever other operation was under way, but for a query that is
\* being asked, that fails for a deleted disc, or that the code leaves out (misses): it was being
\* asked when the operation took effect, or it was on screen then and the operation failed or does
\* not concern it.  So an analysis that ends on the list of discs leaves the list as it was
\* (DiscExplorer.tsx 146-149), and a run over the discs the overview of one (bulk-analyze.ts 98,
\* 106); but what they concern, and what is opened later, is never stale (Discs.tsx 144-148,
\* DiscExplorer.tsx 105-170, session.tsx 62-64).
ScreensFresh ==
  \A key \in (Shown(view) \ InFlight) \cap DOMAIN cached : \A d \in dealt :
    d.task \in cached[key] =>
      key \in d.misses \/ (key = "disc" /\ "delete disc" \in Range(tasks))
=============================================================================
