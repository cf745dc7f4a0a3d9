-------------------------------- MODULE Tabs --------------------------------
(***************************************************************************)
(* The tabs of one browser that have the same vault open: the worker of    *)
(* each tab (apps/web/src/db/worker.ts) races for the vault's Web Lock,    *)
(* the winner opens the SQLite file and serves the calls of the others     *)
(* over a BroadcastChannel (db/leader-channel.ts); the page of a tab       *)
(* (app/session.tsx, account/session.ts) opens the vault and signs out.    *)
(*                                                                         *)
(* An action is the code of one tab between two awaits.  A tab of the      *)
(* model is one page load: a reload is the end of one tab and the start    *)
(* of another.                                                             *)
(***************************************************************************)
EXTENDS Integers, FiniteSets, Sequences, SequencesExt

CONSTANTS
  Tab,       \* page loads
  NoTab,     \* nobody
  MaxCalls,  \* bound: calls the pages make, beside those that open the vault
  MaxTries   \* bound: bootstraps of one tab

ASSUME TabsAssumption ==
  /\ NoTab \notin Tab
  /\ IsFiniteSet(Tab)
  /\ MaxCalls \in Nat
  /\ MaxTries \in Nat \ {0}

VARIABLES
  tab,      \* the page, and the module variables of the worker, of each tab
  lock,     \* external: the holder of the Web Lock discvault:vault:<id>
  queue,    \* external: the tabs waiting for it
  handles,  \* external: the worker whose pool holds the OPFS access handles
  calls,    \* the calls whose caller still waits (LeaderChannel.pending)
  posted,   \* external: requests not yet delivered, by receiver
  held,     \* calls a handler is working on
  answers,  \* external: answers not yet delivered
  made      \* calls made so far

tabVars == <<tab, lock, queue, handles, calls, posted, held, answers, made>>

Page == {"unborn", "loading", "opening", "register", "in", "error", "out", "gone"}
Role == {"none", "leader", "follower"}

TabState == [
  page: Page, tries: 0..MaxTries,
  role: Role,
  chan: {"none", "quiet", "serving"},                \* channel, and its handler
  opening: {"no", "lock", "lead", "ask", "again"},   \* where open() stands
  lead: {"no", "pool", "persist"},                   \* where becomeLeader stands
  db: BOOLEAN,                                       \* current # null
  result: BOOLEAN,                                   \* openResult # null
  syncing: BOOLEAN,                                  \* syncInFlight # null
  engines: Nat,                                      \* SyncEngines at work
  leaving: BOOLEAN]                                  \* wipe() waits for the pool

Call == [from: Tab, kind: {"open", "call", "sync", "wipe"}, id: Nat]
Msg == [call: Call, at: Tab]
Answer == [call: Call, ok: BOOLEAN]

Unborn == [page |-> "unborn", tries |-> 0, role |-> "none", chan |-> "none",
           opening |-> "no", lead |-> "no", db |-> FALSE, result |-> FALSE,
           syncing |-> FALSE, engines |-> 0, leaving |-> FALSE]

TabsInit ==
  /\ tab = [t \in Tab |-> Unborn]
  /\ lock = NoTab
  /\ queue = <<>>
  /\ handles = NoTab
  /\ calls = {} /\ posted = {} /\ held = {} /\ answers = {}
  /\ made = 0

Up(t) == tab[t].page \notin {"unborn", "gone"}
Set(t, r) == tab' = [tab EXCEPT ![t] = r]

NetUnchanged == UNCHANGED <<calls, posted, held, answers, made>>
LockUnchanged == UNCHANGED <<lock, queue, handles>>
----------------------------------------------------------------------------
(***************************************************************************)
(* LeaderChannel.                                                          *)
(***************************************************************************)
\* call(): the request reaches every other tab whose channel is open.
Post(c) ==
  /\ calls' = calls \cup {c}
  /\ posted' = posted \cup
       {[call |-> c, at |-> u] : u \in {x \in Tab \ {c.from} : tab[x].chan # "none"}}
  /\ UNCHANGED <<held, answers>>

\* close() rejects what the tab waits for; what its handlers would answer is lost with it.
Closed(t) ==
  /\ calls' = {c \in calls : c.from # t}
  /\ posted' = {m \in posted : m.at # t}
  /\ held' = {m \in held : m.at # t}
  /\ UNCHANGED made

\* onMessage of a request: a tab that serves nothing drops it.
Hear(t) == \E m \in posted :
  /\ m.at = t
  /\ posted' = posted \ {m}
  /\ held' = IF tab[t].chan = "serving" THEN held \cup {m} ELSE held
  /\ UNCHANGED <<tab, calls, answers, made>> /\ LockUnchanged

\* An answer is posted for a caller that may have given up meanwhile.
Reply(m, ok) ==
  /\ held' = held \ {m}
  /\ answers' = answers \cup {[call |-> m.call, ok |-> ok]}
  /\ UNCHANGED <<calls, posted, made>>
----------------------------------------------------------------------------
(***************************************************************************)
(* teardown.                                                               *)
(***************************************************************************)
\* The closed channel rejects an open() that asks the leader.  becomeLeader goes on behind a
\* teardown while it waits for the pool; past that, nothing it does still matters.
OpenRejected(r) ==
  IF r.opening \in {"ask", "again"} THEN [r EXCEPT !.opening = "no", !.page = "error"] ELSE r

\* Mutant: teardown forgets the sync that is running.
TornDownSync(r) ==
  [OpenRejected(r) EXCEPT !.role = "none", !.chan = "none", !.db = FALSE, !.result = FALSE,
                          !.lead = IF @ = "persist" THEN "no" ELSE @, !.syncing = FALSE]

TornDown(r) ==
  [OpenRejected(r) EXCEPT !.role = "none", !.chan = "none", !.db = FALSE, !.result = FALSE,
                          !.lead = IF @ = "persist" THEN "no" ELSE @]

Released(t) == IF lock = t THEN NoTab ELSE lock

\* teardown of tab t, after which its state is r, but for what a teardown clears.
TeardownTo(t, r) ==
  /\ Set(t, TornDown(r))
  /\ lock' = IF tab[t].db THEN Released(t) ELSE lock
  /\ queue' = RemoveFirst(queue, t)
  /\ UNCHANGED handles
  /\ Closed(t)
----------------------------------------------------------------------------
(***************************************************************************)
(* The page: SessionProvider and bootstrapAccount.                         *)
(***************************************************************************)
StartTab(t) ==
  /\ tab[t].page = "unborn"
  /\ Set(t, [tab[t] EXCEPT !.page = "loading", !.tries = 1])
  /\ LockUnchanged /\ NetUnchanged

Retry(t) ==
  /\ tab[t].page = "error"
  /\ tab[t].tries < MaxTries
  /\ Set(t, [tab[t] EXCEPT !.page = "loading", !.tries = @ + 1])
  /\ LockUnchanged /\ NetUnchanged

\* GET /account fails: 401 or no network is the signed-out page, else the error page.
AccountRefused(t) ==
  /\ tab[t].page = "loading"
  /\ \E p \in {"out", "error"} : Set(t, [tab[t] EXCEPT !.page = p])
  /\ LockUnchanged /\ NetUnchanged

AskOpen(t, r) ==
  /\ Set(t, r)
  /\ Post([from |-> t, kind |-> "open", id |-> tab[t].tries])
  /\ UNCHANGED made

\* open() of a tab that leads already, follows already, or has to find out.
OpenLeading(t) ==
  /\ tab[t].page = "loading" /\ tab[t].role = "leader" /\ tab[t].db
  /\ Set(t, [tab[t] EXCEPT !.page = "register"])
  /\ LockUnchanged /\ NetUnchanged

OpenFollowing(t) ==
  /\ tab[t].page = "loading" /\ tab[t].role = "follower"
  /\ AskOpen(t, [tab[t] EXCEPT !.page = "opening", !.opening = "again"])
  /\ LockUnchanged

OpenFresh(t) ==
  /\ tab[t].page = "loading"
  /\ tab[t].role # "follower" /\ ~(tab[t].role = "leader" /\ tab[t].db)
  /\ Set(t, [tab[t] EXCEPT !.page = "opening", !.chan = "quiet", !.opening = "lock"])
  /\ LockUnchanged /\ NetUnchanged

\* deviceId and POST /devices: bootstrapAccount fails as a whole, the vault stays open.
Register(t) ==
  /\ tab[t].page = "register"
  /\ \E p \in {"in", "out", "error"} : Set(t, [tab[t] EXCEPT !.page = p])
  /\ LockUnchanged /\ NetUnchanged

\* The tab or its worker goes away: the browser releases the lock at once, the file
\* handles a moment later.
CloseTab(t) ==
  /\ Up(t)
  /\ Set(t, [Unborn EXCEPT !.page = "gone"])
  /\ lock' = Released(t)
  /\ queue' = RemoveFirst(queue, t)
  /\ UNCHANGED <<handles, answers>>
  /\ Closed(t)

HandlesFreed ==
  /\ handles # NoTab /\ tab[handles].page = "gone"
  /\ handles' = NoTab
  /\ UNCHANGED <<tab, lock, queue>> /\ NetUnchanged
----------------------------------------------------------------------------
(***************************************************************************)
(* The worker: open, becomeLeader, watchForPromotion.                      *)
(***************************************************************************)
\* requestLock with ifAvailable answers; a follower waits for the lock and asks the leader.
WinLock(t) ==
  /\ tab[t].opening = "lock" /\ lock = NoTab
  /\ lock' = t
  /\ Set(t, [tab[t] EXCEPT !.role = "leader", !.chan = "serving",
                           !.opening = "lead", !.lead = "pool"])
  /\ UNCHANGED <<queue, handles>> /\ NetUnchanged

Follow(t) ==
  /\ tab[t].opening = "lock" /\ lock # NoTab
  /\ queue' = Append(queue, t)
  /\ AskOpen(t, [tab[t] EXCEPT !.role = "follower", !.opening = "ask"])
  /\ UNCHANGED <<lock, handles>>

Promote(t) ==
  /\ queue # <<>> /\ Head(queue) = t /\ lock = NoTab
  /\ lock' = t
  /\ queue' = Tail(queue)
  /\ Set(t, [tab[t] EXCEPT !.role = "leader", !.chan = "serving", !.lead = "pool"])
  /\ UNCHANGED handles /\ NetUnchanged

\* pool(), then the connection: the access handles of the pool belong to one worker.
PoolReady(t) ==
  /\ tab[t].lead = "pool" /\ handles \in {NoTab, t}
  /\ handles' = t
  /\ Set(t, [tab[t] EXCEPT !.lead = "persist", !.db = TRUE])
  /\ UNCHANGED <<lock, queue>> /\ NetUnchanged

\* ensurePersistence answers: open() resolves, the calls that waited may run.
Persisted(t) ==
  /\ tab[t].lead = "persist"
  /\ Set(t, IF tab[t].opening = "lead"
              THEN [tab[t] EXCEPT !.lead = "no", !.result = TRUE, !.opening = "no",
                                  !.page = "register"]
              ELSE [tab[t] EXCEPT !.lead = "no", !.result = TRUE])
  /\ LockUnchanged /\ NetUnchanged

\* Mutant: the error path of becomeLeader leaves the lock to a teardown that cannot free it.
LockAfterFailureKept(t) == lock

\* catch of becomeLeader: the lock is released if there is no connection to go with it.
LockAfterFailure(t) == IF tab[t].db THEN lock ELSE Released(t)

\* open() tears down when its attempt fails; the promotion swallows the error and the tab
\* stays a leader.
LeadFails(t) ==
  /\ tab[t].lead \in {"pool", "persist"}
  /\ IF tab[t].opening = "lead"
       THEN /\ Set(t, TornDown([tab[t] EXCEPT !.lead = "no", !.opening = "no",
                                               !.page = "error"]))
            /\ lock' = IF tab[t].db THEN Released(t) ELSE LockAfterFailure(t)
            /\ queue' = RemoveFirst(queue, t)
            /\ Closed(t) /\ UNCHANGED answers
       ELSE /\ Set(t, [tab[t] EXCEPT !.lead = "no"])
            /\ lock' = LockAfterFailure(t)
            /\ UNCHANGED queue /\ NetUnchanged
  /\ UNCHANGED handles
----------------------------------------------------------------------------
(***************************************************************************)
(* Calls of the page: remote() and runSync.                                *)
(***************************************************************************)
MakeCall(t, kind) ==
  /\ made < MaxCalls
  /\ made' = made + 1
  /\ Post([from |-> t, kind |-> kind, id |-> made])

\* A follower's call of any method but open, wipe and sync; a leader runs it on the spot.
Forward(t) ==
  /\ tab[t].page = "in" /\ tab[t].role = "follower"
  /\ MakeCall(t, "call")
  /\ UNCHANGED tab /\ LockUnchanged

\* runSync: one engine per worker, shared by its callers.
SyncStarted(r) ==
  IF r.syncing THEN r ELSE [r EXCEPT !.syncing = TRUE, !.engines = @ + 1]

\* syncNow coalesces the triggers of one page.
SyncNow(t) ==
  /\ tab[t].page = "in"
  /\ \/ /\ tab[t].role = "leader"
        /\ tab[t].db /\ ~tab[t].syncing
        /\ Set(t, SyncStarted(tab[t]))
        /\ NetUnchanged
     \/ /\ tab[t].role = "follower"
        /\ \A c \in calls : ~(c.from = t /\ c.kind = "sync")
        /\ MakeCall(t, "sync")
        /\ UNCHANGED tab
  /\ LockUnchanged

SyncDone(t) ==
  /\ tab[t].engines > 0
  /\ Set(t, [tab[t] EXCEPT !.syncing = FALSE, !.engines = @ - 1])
  /\ LET joined == {m \in held : m.at = t /\ m.call.kind = "sync" /\ tab[t].lead = "no"}
     IN /\ held' = held \ joined
        /\ answers' = answers \cup {[call |-> m.call, ok |-> TRUE] : m \in joined}
  /\ UNCHANGED <<calls, posted, made>> /\ LockUnchanged

\* The leader's handler, once its own opening is over: it may have failed.
RunCall(t) == \E m \in held :
  /\ m.at = t /\ tab[t].lead = "no"
  /\ \/ m.call.kind = "open" /\ Reply(m, tab[t].result) /\ UNCHANGED tab
     \/ m.call.kind = "call" /\ Reply(m, tab[t].db) /\ UNCHANGED tab
     \/ /\ m.call.kind = "sync" /\ ~tab[t].syncing
        /\ IF tab[t].db
             THEN Set(t, SyncStarted(tab[t])) /\ NetUnchanged
             ELSE Reply(m, FALSE) /\ UNCHANGED tab
  /\ LockUnchanged

\* Mutant: the timer of a call is cleared with the first request that is heard.
GivesUpUnheard(c) == \E m \in posted : m.call = c

GivesUp(c) == TRUE

\* What a caller does with its answer, or without one.  open() inside its first attempt
\* tears down on failure; a wipe that succeeded tears the follower down.
Settle(c, ok) ==
  LET t == c.from
      r == tab[t]
      end == [r EXCEPT !.opening = "no"]
      rest == calls' = calls \ {c} /\ UNCHANGED <<posted, held, made>>
  IN \/ /\ c.kind = "open"
        /\ \/ ok /\ Set(t, [end EXCEPT !.page = "register"]) /\ rest /\ LockUnchanged
           \/ /\ ~ok /\ r.opening = "again"
              /\ Set(t, [end EXCEPT !.page = "error"]) /\ rest /\ LockUnchanged
           \/ ~ok /\ r.opening = "ask" /\ TeardownTo(t, r)
     \/ /\ c.kind = "wipe" /\ ok
        /\ TeardownTo(t, [r EXCEPT !.page = "out"])
     \/ /\ c.kind \in {"call", "sync"} \/ (c.kind = "wipe" /\ ~ok)
        /\ UNCHANGED tab /\ rest /\ LockUnchanged

\* The answer of a call that is over is ignored.
Answered == \E a \in answers :
  /\ answers' = answers \ {a}
  /\ IF a.call \in calls
       THEN Settle(a.call, a.ok)
       ELSE UNCHANGED <<tab, calls, posted, held, made>> /\ LockUnchanged

\* The timer of call(): the request may still be on its way, or running.
TimeOut == \E c \in calls :
  /\ GivesUp(c)
  /\ Settle(c, FALSE)
  /\ UNCHANGED answers
----------------------------------------------------------------------------
(***************************************************************************)
(* Sign out and wipe.                                                      *)
(***************************************************************************)
\* The follower forwards the wipe; a leader with its connection open deletes the file and
\* tears down; any other tab first waits for the pool.
SignOutFollowing(t) ==
  /\ tab[t].page = "in" /\ tab[t].role = "follower"
  /\ MakeCall(t, "wipe")
  /\ UNCHANGED tab /\ LockUnchanged

SignOutLeading(t) ==
  /\ tab[t].page = "in" /\ tab[t].role # "follower" /\ tab[t].db
  /\ TeardownTo(t, [tab[t] EXCEPT !.page = "out"])
  /\ UNCHANGED answers

SignOutWaiting(t) ==
  /\ tab[t].page = "in" /\ tab[t].role # "follower" /\ ~tab[t].db /\ ~tab[t].leaving
  /\ Set(t, [tab[t] EXCEPT !.leaving = TRUE])
  /\ LockUnchanged /\ NetUnchanged

\* The pool answers after becomeLeader, which waits for the same promise: the file is
\* unlinked, but a connection opened meanwhile is not torn down.
Unlinked(t) ==
  /\ tab[t].leaving /\ tab[t].lead # "pool"
  /\ \/ /\ handles \in {NoTab, t}
        /\ handles' = t
        /\ Set(t, [tab[t] EXCEPT !.leaving = FALSE, !.page = "out"])
     \/ /\ handles # t
        /\ UNCHANGED handles
        /\ Set(t, [tab[t] EXCEPT !.leaving = FALSE])
  /\ UNCHANGED <<lock, queue>> /\ NetUnchanged

\* A forwarded wipe closes the channel its answer would be posted on.
RunWipe(t) == \E m \in held :
  /\ m.at = t /\ m.call.kind = "wipe" /\ tab[t].lead = "no"
  /\ \/ tab[t].db /\ TeardownTo(t, tab[t]) /\ UNCHANGED answers
     \/ /\ ~tab[t].db
        /\ \/ handles \in {NoTab, t} /\ handles' = t /\ Reply(m, TRUE)
           \/ handles # t /\ UNCHANGED handles /\ Reply(m, FALSE)
        /\ UNCHANGED <<tab, lock, queue>>
----------------------------------------------------------------------------
PageStep(t) ==
  \/ StartTab(t) \/ Retry(t) \/ CloseTab(t)
  \/ Forward(t) \/ SyncNow(t)
  \/ SignOutFollowing(t) \/ SignOutLeading(t) \/ SignOutWaiting(t)

BootStep(t) ==
  \/ AccountRefused(t) \/ OpenLeading(t) \/ OpenFollowing(t) \/ OpenFresh(t)
  \/ Register(t)

WorkerStep(t) ==
  \/ WinLock(t) \/ Follow(t) \/ Promote(t)
  \/ PoolReady(t) \/ Persisted(t) \/ LeadFails(t)
  \/ Hear(t) \/ RunCall(t) \/ RunWipe(t) \/ SyncDone(t) \/ Unlinked(t)

TabsNext ==
  \/ \E t \in Tab : PageStep(t) \/ BootStep(t) \/ WorkerStep(t)
  \/ HandlesFreed \/ Answered \/ TimeOut

\* Requests to the server end (apiRequest gives up after 15 s), timers fire, promises of
\* the browser settle.  Users need not do anything.
TabsFairness ==
  /\ \A t \in Tab : WF_tabVars(BootStep(t)) /\ WF_tabVars(WorkerStep(t))
  /\ WF_tabVars(HandlesFreed) /\ WF_tabVars(Answered) /\ WF_tabVars(TimeOut)

TabsSafe == TabsInit /\ [][TabsNext]_tabVars
TabsSpec == TabsSafe /\ TabsFairness
----------------------------------------------------------------------------
\* The variables hold what the code keeps in them.
TabsTypeOK ==
  /\ tab \in [Tab -> TabState]
  /\ lock \in Tab \cup {NoTab}
  /\ queue \in Seq(Tab)
  /\ handles \in Tab \cup {NoTab}
  /\ calls \subseteq Call
  /\ posted \subseteq Msg
  /\ held \subseteq Msg
  /\ answers \subseteq Answer
  /\ made \in 0..MaxCalls

\* A tab with a connection to the vault's file holds the vault's lock, and keeps the lock only
\* while it has a connection or is about to get one: also when it tears down, fails or is
\* promoted half way through an open.  A lock kept without would leave every other tab waiting,
\* and a connection without the lock is the second one of the file (worker.ts 46-56, 259).
LockHeld ==
  \A t \in Tab : /\ tab[t].db => lock = t
                 /\ lock = t => tab[t].db \/ tab[t].lead # "no"

\* At most one sync engine works on the vault, whoever asked for it and whoever led when it
\* started: "two syncs never pull or push over each other" (worker.ts 199).
OneEngine ==
  \A t, u \in Tab : tab[t].engines > 0 /\ tab[u].engines > 0 => t = u /\ tab[t].engines = 1

\* A page that loads ends up signed in, signed out or on the page with Retry, whatever the
\* other tabs do (session.tsx, account/session.ts 25).
BootEnds ==
  \A t \in Tab : []<>(tab[t].page \notin {"loading", "opening", "register"})
=============================================================================
