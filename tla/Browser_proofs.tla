--------------------------- MODULE Browser_proofs ---------------------------
(***************************************************************************)
(* Proofs about what runs in the browser, for any number of tabs, calls,   *)
(* devices, discs and parts.                                               *)
(*                                                                         *)
(* Tabs: the variables keep their types, the connection to the vault's     *)
(* file and the vault's lock go together, and one sync engine works at a   *)
(* time.                                                                   *)
(*                                                                         *)
(* DevicePacks: whatever is scanned, imported, deleted, discarded, refused *)
(* and lost, the parts of a pack are staged on its device until the vault  *)
(* has committed it.  Staged parts go with the answer to their commit, so  *)
(* the proof is about which entries the vault can answer "applied": those  *)
(* it applies now, and those it has seen, which it applied before under    *)
(* the same id.                                                            *)
(***************************************************************************)
EXTENDS MCBrowser, Collections_proofs
----------------------------------------------------------------------------
(***************************************************************************)
(* The inductive invariant.  A tab is sound when what its worker remembers *)
(* agrees with who holds the lock and the file handles:                    *)
(*   - a page load that is over, or has not begun, has left nothing;       *)
(*   - a connection implies the lock and the handles, becomeLeader under   *)
(*     way implies the lock, and has a connection once past the pool;      *)
(*   - an engine is counted by syncInFlight, and runs on the handles: they *)
(*     stay with the worker when the lock goes, which is what keeps a new  *)
(*     leader from syncing beside an engine that outlived its teardown;    *)
(*   - an open() that is about to ask for the lock is not waiting for it.  *)
(***************************************************************************)
Sound(r, t, holder, owner) ==
  /\ r.page \in {"unborn", "gone"} => r = [Unborn EXCEPT !.page = r.page]
  /\ r.db => holder = t /\ owner = t /\ r.lead # "pool"
  /\ r.lead # "no" => holder = t
  /\ r.lead = "persist" => r.db
  /\ holder = t => r.db \/ r.lead # "no"
  /\ r.engines = IF r.syncing THEN 1 ELSE 0
  /\ r.syncing => owner = t
  /\ r.opening = "lock" => r.role # "follower"

TabsSound == \A t \in Tab : Sound(tab[t], t, lock, handles)

\* The queue of the lock: followers, each once.
QueueSound ==
  /\ \A i \in DOMAIN queue : tab[queue[i]].role = "follower"
  /\ \A i, j \in DOMAIN queue : queue[i] = queue[j] => i = j

\* A call waits in a tab that is there to hear its answer.
CallersUp == \A c \in calls : Up(c.from)

TabsInv == TabsTypeOK /\ TabsSound /\ QueueSound /\ CallersUp
----------------------------------------------------------------------------
(***************************************************************************)
(* Lemmas about the operators of Tabs.                                     *)
(***************************************************************************)

\* Taking an element out of a sequence without repetitions leaves the others, each once.
LEMMA RemoveFirstOf ==
  ASSUME NEW S, NEW q \in Seq(S), NEW e,
         \A i, j \in DOMAIN q : q[i] = q[j] => i = j
  PROVE  LET r == RemoveFirst(q, e)
         IN /\ r \in Seq(S)
            /\ \A i \in DOMAIN r : r[i] # e /\ \E k \in DOMAIN q : r[i] = q[k]
            /\ \A i, j \in DOMAIN r : r[i] = r[j] => i = j
<1>1. CASE ~ \E i \in 1..Len(q) : q[i] = e
  BY <1>1 DEF RemoveFirst
<1>2. CASE \E i \in 1..Len(q) : q[i] = e
  <2>1. PICK k \in 1..Len(q) : q[k] = e
    BY <1>2
  <2>2. {i \in 1..Len(q) : q[i] = e} = {k}
    BY <2>1
  <2>3. SelectInSeq(q, LAMBDA v : v = e) = k
    BY <2>2 DEF SelectInSeq, Min
  <2>. DEFINE r == SubSeq(q, 1, k - 1) \o SubSeq(q, k + 1, Len(q))
  <2>4. RemoveFirst(q, e) = r
    BY <1>2, <2>3 DEF RemoveFirst, RemoveAt
  <2>5. /\ r \in Seq(S)
        /\ DOMAIN r = 1..(Len(q) - 1)
        /\ \A i \in 1..(Len(q) - 1) : r[i] = IF i < k THEN q[i] ELSE q[i + 1]
    <3>. DEFINE a == SubSeq(q, 1, k - 1)
                b == SubSeq(q, k + 1, Len(q))
    <3>1. a \in Seq(S) /\ Len(a) = k - 1 /\ \A i \in 1..(k - 1) : a[i] = q[i]
      OBVIOUS
    <3>2. /\ b \in Seq(S) /\ Len(b) = Len(q) - k
          /\ \A i \in 1..(Len(q) - k) : b[i] = q[k + i]
      OBVIOUS
    <3>3. r = a \o b
      OBVIOUS
    <3>. HIDE DEF a, b, r
    <3>4. a \o b \in Seq(S) /\ Len(a \o b) = Len(q) - 1
      <4>1. a \in Seq(S) /\ b \in Seq(S)
        BY <3>1, <3>2
      <4>2. a \o b \in Seq(S) /\ Len(a \o b) = Len(a) + Len(b)
        BY <4>1
      <4>. QED
        BY <3>1, <3>2, <4>2
    <3>5. \A i \in 1..(k - 1) : (a \o b)[i] = q[i]
      BY <3>1, <3>2
    <3>6. ASSUME NEW i \in k..(Len(q) - 1) PROVE (a \o b)[i] = q[i + 1]
      <4>1. (a \o b)[i] = b[i - (k - 1)]
        BY <3>1, <3>2
      <4>. QED
        BY <3>2, <4>1
    <3>7. ASSUME NEW i \in 1..(Len(q) - 1)
          PROVE  (a \o b)[i] = IF i < k THEN q[i] ELSE q[i + 1]
      <4>1. CASE i < k
        <5>1. i \in 1..(k - 1)
          BY <4>1
        <5>. QED
          BY <3>5, <4>1, <5>1
      <4>2. CASE ~(i < k)

        <5>1. i \in k..(Len(q) - 1)
          BY <4>2
        <5>. QED
          BY <3>6, <4>2, <5>1
      <4>. QED
        BY <4>1, <4>2
    <3>8. DOMAIN (a \o b) = 1..(Len(q) - 1)
      BY <3>4
    <3>. QED
      BY <3>3, <3>4, <3>7, <3>8
  <2>6. \A i
 \in 1..Len(q) : i # k => q[i] # e
    BY <2>1
  <2>. HIDE DEF r
  <2>7. \A i \in DOMAIN r : r[i] # e /\ \E m \in DOMAIN q : r[i] = q[m]
    BY <2>5, <2>6
  <2>8. \A i, j \in DOMAIN r : r[i] = r[j] => i = j
    BY <2>5, SMTT(30)
  <2>. QED
    BY <2>4, <2>5, <2>7, <2>8
<1>. QED
  BY <1>1, <1>2

\* A record of the module variables stays one when one of its fields is assigned.
LEMMA FieldTyped ==
  ASSUME NEW r \in TabState
  PROVE  /\ \A v \in Page : [r EXCEPT !.page = v] \in TabState
         /\ \A v \in 0..MaxTries : [r EXCEPT !.tries = v] \in TabState
         /\ \A v \in Role : [r EXCEPT !.role = v] \in TabState
         /\ \A v \in {"none", "quiet", "serving"} : [r EXCEPT !.chan = v] \in TabState
         /\ \A v \in {"no", "lock", "lead", "ask", "again"} :
              [r EXCEPT !.opening = v] \in TabState
         /\ \A v \in {"no", "pool", "persist"} : [r EXCEPT !.lead = v] \in TabState
         /\ \A v \in BOOLEAN : [r EXCEPT !.db = v] \in TabState
         /\ \A v \in BOOLEAN : [r EXCEPT !.result = v] \in TabState
         /\ \A v \in BOOLEAN : [r EXCEPT !.syncing = v] \in TabState
         /\ \A v \in Nat : [r EXCEPT !.engines = v] \in TabState
         /\ \A v \in BOOLEAN : [r EXCEPT !.leaving = v] \in TabState
  BY DEF TabState

\* The pages, roles and numbers of bootstraps the actions assign.
LEMMA PageNames ==
  /\ \A p \in {"unborn", "loading", "opening", "register", "in", "error", "out", "gone"} :
       p \in Page
  /\ \A x \in {"none", "leader", "follower"} : x \in Role
  /\ 0 \in 0..MaxTries /\ 1 \in 0..MaxTries
  BY TabsAssumption DEF Page, Role

\* A tab of a new page, before it asked for the lock.
LEMMA UnbornTyped == ASSUME NEW p \in Page PROVE [Unborn EXCEPT !.page = p] \in TabState
<1>1. Unborn \in TabState
  BY PageNames DEF Unborn, TabState
<1>. QED
  BY <1>1, FieldTyped

\* teardown: the connection, the channel and the role are gone, what waits for the pool goes
\* on, and an engine at work is not stopped.
LEMMA TornDownIs ==
  ASSUME NEW r \in TabState
  PROVE  LET s == TornDown(r)
         IN /\ s \in TabState
            /\ ~s.db
            /\ s.lead = IF r.lead = "persist" THEN "no" ELSE r.lead
            /\ s.engines = r.engines /\ (s.syncing <=> r.syncing)
            /\ s.role = "none"
            /\ s.page \in {r.page, "error"}
            /\ r.opening = "lock" => s.opening = "lock"
            /\ s.opening \in {r.opening, "no"}
<1>1. TornDown(r) \in TabState
  <2>1. PICK s : s = OpenRejected(r)
    OBVIOUS
  <2>2. [r EXCEPT !.opening = "no", !.page = "error"] \in TabState
    BY DEF TabState, Page
  <2>3. s \in TabState
    BY <2>1, <2>2 DEF OpenRejected
  <2>4. PICK l \in {"no", "pool", "persist"} : l = IF s.lead = "persist" THEN "no" ELSE s.lead
    BY <2>3 DEF TabState
  <2>5. TornDown(r) = [s EXCEPT !.role = "none", !.chan = "none", !.db = FALSE, !.result = FALSE,
                                !.lead = l]
    BY <2>1, <2>4 DEF TornDown
  <2>6. PICK x : x = [s EXCEPT !.role = "none", !.chan = "none"]
    OBVIOUS
  <2>7. x \in TabState
    BY <2>3, <2>6 DEF TabState, Role
  <2>8. [x EXCEPT !.db = FALSE, !.result = FALSE, !.lead = l] \in TabState
    BY <2>4, <2>7 DEF TabState
  <2>. QED
    BY <2>5, <2>6, <2>8


<1>2. LET s == TornDown(r)
      IN /\ ~s.db /\ s.role = "none"
         /\ s.lead = IF r.lead = "persist" THEN "no" ELSE r.lead
         /\ s.engines = r.engines /\ (s.syncing <=> r.syncing)
  BY DEF TornDown, OpenRejected, TabState
<1>3. LET s == TornDown(r)
      IN /\ s.page \in {r.page, "error"}
         /\ r.opening = "lock" => s.opening = "lock"
         /\ s.opening \in {r.opening, "no"}
  BY DEF TornDown, OpenRejected, TabState
<1>. QED
  BY <1>1, <1>2, <1>3
----------------------------------------------------------------------------
(***************************************************************************)
(* How a step of one tab keeps the invariant.                              *)
(***************************************************************************)

\* The other tabs stay sound when t takes or leaves the lock and the handles, since it can
\* take them only when they are free.
LEMMA OwnStep ==
  ASSUME TabsInv, NEW t \in Tab, NEW r \in TabState, Set(t, r),
         lock' = lock \/ {lock, lock'} \subseteq {t, NoTab},
         handles' = handles \/ {handles, handles'} \subseteq {t, NoTab},
         Sound(r, t, lock', handles')
  PROVE  /\ tab' \in [Tab -> TabState]
         /\ lock' \in Tab \cup {NoTab} /\ handles' \in Tab \cup {NoTab}
         /\ TabsSound'
<1>1. tab' \in [Tab -> TabState] /\ tab'[t] = r /\ \A u \in Tab \ {t} : tab'[u] = tab[u]
  BY DEF Set, TabsInv, TabsTypeOK
<1>2. lock' \in Tab \cup {NoTab} /\ handles' \in Tab \cup {NoTab}
  BY DEF TabsInv, TabsTypeOK
<1>3. ASSUME NEW u \in Tab PROVE Sound(tab'[u], u, lock', handles')
  <2>1. CASE u = t
    BY <1>1, <2>1
  <2>2. CASE u # t
    <3>1. Sound(tab[u], u, lock, handles) /\ tab'[u] = tab[u]
      BY <1>1, <2>2 DEF TabsInv, TabsSound
    <3>2. (lock = u <=> lock' = u) /\ (handles = u <=> handles' = u)
      BY <2>2, TabsAssumption
    <3>. QED
      BY <3>1, <3>2 DEF Sound
  <2>. QED
    BY <2>1, <2>2
<1>. QED
  BY <1>1, <1>2, <1>3 DEF TabsSound

MessagesTyped ==
  /\ calls \subseteq Call
  /\ posted \subseteq Msg
  /\ held \subseteq Msg
  /\ answers \subseteq Answer
  /\ made \in 0..MaxCalls

\* The whole invariant after a step of t, from what the step does to each part of it.
LEMMA StepOf ==
  ASSUME TabsInv, NEW t \in Tab, NEW r \in TabState, Set(t, r),
         lock' = lock \/ {lock, lock'} \subseteq {t, NoTab},
         handles' = handles \/ {handles, handles'} \subseteq {t, NoTab},
         Sound(r, t, lock', handles'),
         queue' \in Seq(Tab), QueueSound', MessagesTyped', CallersUp'
  PROVE  TabsInv'
<1>1. /\ tab' \in [Tab -> TabState] /\ TabsSound'
      /\ lock' \in Tab \cup {NoTab} /\ handles' \in Tab \cup {NoTab}
  BY OwnStep
<1>. QED
  BY <1>1 DEF TabsInv, TabsTypeOK, MessagesTyped

\* A step that changes neither tabs nor lock.
LEMMA MessageStep ==
  ASSUME TabsInv, UNCHANGED tab, LockUnchanged, MessagesTyped',
         \A c \in calls' : c \in calls \/ Up(c.from)
  PROVE  TabsInv'
<1>1. TabsTypeOK'
  BY DEF TabsInv, TabsTypeOK, MessagesTyped, LockUnchanged
<1>2. TabsSound' /\ QueueSound' /\ CallersUp'
  BY DEF TabsInv, TabsSound, QueueSound, CallersUp, LockUnchanged, Up
<1>. QED
  BY <1>1, <1>2 DEF TabsInv

\* The queue is sound after a step of t that does not take the role of a waiting tab,
LEMMA QueueKept ==
  ASSUME TabsInv, NEW t \in Tab, NEW r \in TabState, Set(t, r), UNCHANGED queue,
         r.role = tab[t].role \/ tab[t].role # "follower"
  PROVE  queue' \in Seq(Tab) /\ QueueSound'
<1>1. queue \in Seq(Tab) /\ tab \in [Tab -> TabState]
  BY DEF TabsInv, TabsTypeOK
<1>2. ASSUME NEW i \in DOMAIN queue PROVE tab'[queue[i]].role = "follower"
  BY <1>1 DEF TabsInv, QueueSound, Set
<1>. QED
  BY <1>1, <1>2 DEF TabsInv, QueueSound

\* and after one in which t stops waiting.
LEMMA QueueLeft ==
  ASSUME TabsInv, NEW t \in Tab, NEW r \in TabState, Set(t, r),
         queue' = RemoveFirst(queue, t)
  PROVE  queue' \in Seq(Tab) /\ QueueSound'
<1>1. queue \in Seq(Tab) /\ tab \in [Tab -> TabState] /\ QueueSound
  BY DEF TabsInv, TabsTypeOK
<1>2. /\ queue' \in Seq(Tab)
      /\ \A i \in DOMAIN queue' : queue'[i] # t /\ \E k \in DOMAIN queue : queue'[i] = queue[k]
      /\ \A i, j \in DOMAIN queue' : queue'[i] = queue'[j] => i = j
  BY <1>1, RemoveFirstOf DEF QueueSound
<1>3. ASSUME NEW i \in DOMAIN queue' PROVE tab'[queue'[i]].role = "follower"
  <2>1. queue'[i] \in Tab \ {t} /\ tab[queue'[i]].role = "follower"
    BY <1>1, <1>2 DEF QueueSound
  <2>. QED
    BY <1>1, <2>1 DEF Set
<1>. QED
  BY <1>2, <1>3 DEF QueueSound

\* Callers are up after a step of t that adds no calls but its own and leaves t up,
LEMMA CallersKept ==
  ASSUME TabsInv, NEW t \in Tab, NEW r \in TabState, Set(t, r),
         r.page \notin {"unborn", "gone"}, \A c \in calls' : c \in calls \/ c.from = t
  PROVE  CallersUp'
<1>1. ASSUME NEW c \in calls' PROVE Up(c.from)'
  <2>1. tab \in [Tab -> TabState] /\ \A x \in calls : x.from \in Tab /\ Up(x.from)
    BY DEF TabsInv, TabsTypeOK, Call, CallersUp
  <2>. QED
    BY <2>1 DEF Up, Set
<1>. QED
  BY <1>1 DEF CallersUp

\* and after one that closes the channel of t.
LEMMA ChannelClosed ==
  ASSUME TabsInv, NEW t \in Tab, NEW r \in TabState, Set(t, r), Closed(t),
         answers' \subseteq answers
  PROVE  MessagesTyped' /\ CallersUp'
<1>1. MessagesTyped'
  BY DEF TabsInv, TabsTypeOK, MessagesTyped, Closed
<1>2. ASSUME NEW c \in calls' PROVE Up(c.from)'
  <2>1. /\ tab \in [Tab -> TabState]
        /\ c.from \in Tab \ {t} /\ Up(c.from)
    BY <1>2 DEF TabsInv, TabsTypeOK, Call, CallersUp, Closed
  <2>. QED
    BY <2>1 DEF Up, Set
<1>. QED
  BY <1>1, <1>2 DEF CallersUp

\* A step that leaves the tab's role, the lock and the messages alone.
LEMMA LocalStep ==
  ASSUME TabsInv, NEW t \in Tab, NEW r \in TabState, Set(t, r),
         LockUnchanged, NetUnchanged,
         Sound(r, t, lock, handles),
         r.role = tab[t].role, r.page \notin {"unborn", "gone"}
  PROVE  TabsInv'
<1>1. UNCHANGED <<lock, queue, handles, calls, posted, held, answers, made>>
  BY DEF LockUnchanged, NetUnchanged
<1>2. tab' \in [Tab -> TabState] /\ TabsSound'
  BY <1>1, OwnStep
<1>3. \A u \in Tab : tab'[u].role = tab[u].role /\ (Up(u) => Up(u)')
  BY DEF Set, TabsInv, TabsTypeOK, Up
<1>4. TabsTypeOK'
  BY <1>1, <1>2 DEF TabsInv, TabsTypeOK
<1>5. QueueSound'
  <2>1. \A i \in DOMAIN queue : queue[i] \in Tab
    BY DEF TabsInv, TabsTypeOK
  <2>. QED
    BY <1>1, <1>3, <2>1 DEF TabsInv, QueueSound
<1>6. CallersUp'
  <2>1. \A c \in calls : c.from \in Tab
    BY DEF TabsInv, TabsTypeOK, Call
  <2>. QED
    BY <1>1, <1>3, <2>1 DEF TabsInv, CallersUp
<1>. QED
  BY <1>2, <1>4, <1>5, <1>6 DEF TabsInv


\* A request is posted to the other tabs.
LEMMA PostTyped ==
  ASSUME TabsInv, NEW c \in Call, Post(c), made' \in 0..MaxCalls
  PROVE  MessagesTyped' /\ \A x \in calls' : x \in calls \/ x = c
BY DEF TabsInv, TabsTypeOK, MessagesTyped, Post, Msg

\* A handler answers.
LEMMA ReplyTyped ==
  ASSUME TabsInv, NEW m \in held, NEW ok \in BOOLEAN, Reply(m, ok)
  PROVE  MessagesTyped' /\ calls' = calls
BY DEF TabsInv, TabsTypeOK, MessagesTyped, Reply, Msg, Answer

\* teardown of a tab keeps the invariant, whatever page it leads to.
LEMMA TeardownStep ==
  ASSUME TabsInv, NEW t \in Tab, NEW r \in TabState, TeardownTo(t, r),
         r = tab[t] \/ r = [tab[t] EXCEPT !.page = "out"],
         Up(t), answers' \subseteq answers
  PROVE  TabsInv'
<1>. DEFINE s == TornDown(r)
<1>1. tab[t] \in TabState /\ Sound(tab[t], t, lock, handles) /\ TabsInv
  BY DEF TabsInv, TabsTypeOK, TabsSound
<1>2. /\ r.page \notin {"unborn", "gone"}
      /\ r.role = tab[t].role /\ r.engines = tab[t].engines
      /\ r.lead = tab[t].lead /\ r.lead \in {"no", "pool", "persist"}
      /\ (r.syncing <=> tab[t].syncing) /\ (r.db <=> tab[t].db)
  BY <1>1 DEF TabState, Up
<1>3. /\ s \in TabState /\ ~s.db
      /\ s.lead = IF r.lead = "persist" THEN "no" ELSE r.lead
      /\ s.engines = r.engines /\ (s.syncing <=> r.syncing)
      /\ s.role = "none" /\ s.page \notin {"unborn", "gone"}
  BY <1>2, TornDownIs
<1>4. Set(t, s) /\ Closed(t) /\ queue' = RemoveFirst(queue, t) /\ handles' = handles
  BY DEF TeardownTo
<1>5. lock' = lock \/ {lock, lock'} \subseteq {t, NoTab}
  BY DEF TeardownTo, Released
<1>6. Sound(s, t, lock', handles')
  <2>1. t # NoTab
    BY TabsAssumption
  <2>2. lock' = IF tab[t].db THEN NoTab ELSE lock
    BY <1>1 DEF TeardownTo, Released, Sound
  <2>3. s.opening = "lock" => s.role # "follower"
    BY <1>3
  <2>. HIDE DEF s
  <2>. QED
    BY <1>1, <1>2, <1>3, <1>4, <2>1, <2>2, <2>3 DEF Sound
<1>. HIDE DEF s
<1>7. queue' \in Seq(Tab) /\ QueueSound'
  BY <1>3, <1>4, QueueLeft
<1>8. MessagesTyped' /\ CallersUp'
  BY <1>3, <1>4, ChannelClosed
<1>. QED
  BY <1>3, <1>4, <1>5, <1>6, <1>7, <1>8, StepOf

\* Steps of one tab that concern nobody else: the page starts, tries again, is refused, or
\* goes on once the vault is open.
LEMMA QuietSteps ==
  ASSUME TabsInv, NEW t \in Tab,
         \/ StartTab(t) \/ Retry(t) \/ AccountRefused(t) \/ OpenLeading(t) \/ OpenFresh(t)
         \/ Register(t) \/ Persisted(t) \/ SignOutWaiting(t)
  PROVE  TabsInv'
<1>1. tab[t] \in TabState /\ Sound(tab[t], t, lock, handles)
  BY DEF TabsInv, TabsTypeOK, TabsSound
<1>2. CASE StartTab(t)
  <2>. DEFINE r == [tab[t] EXCEPT !.page = "loading", !.tries = 1]
  <2>1. r \in TabState
    BY <1>1, FieldTyped, PageNames
  <2>2. /\ Sound(r, t, lock, handles)
        /\ r.role = tab[t].role /\ r.page \notin {"unborn", "gone"}
    BY <1>1, <1>2 DEF Sound, TabState, StartTab, Unborn
  <2>. QED
    BY <1>2, <2>1, <2>2, LocalStep DEF StartTab
<1>3. CASE Retry(t)
  <2>. DEFINE r == [tab[t] EXCEPT !.page = "loading", !.tries = @ + 1]
  <2>1. tab[t].tries + 1 \in 0..MaxTries
    BY <1>1, <1>3, TabsAssumption DEF Retry, TabState
  <2>2. r \in TabState
    BY <1>1, FieldTyped, PageNames, <2>1
  <2>3. /\ Sound(r, t, lock, handles)
        /\ r.role = tab[t].role /\ r.page \notin {"unborn", "gone"}
    BY <1>1, <1>3 DEF Sound, TabState, Retry, Unborn
  <2>. QED
    BY <1>3, <2>2, <2>3, LocalStep DEF Retry
<1>4. CASE AccountRefused(t)
  <2>1. PICK p \in {"out", "error"} : Set(t, [tab[t] EXCEPT !.page = p])
    BY <1>4 DEF AccountRefused
  <2>. DEFINE r == [tab[t] EXCEPT !.page = p]
  <2>2. r \in TabState
    BY <1>1, FieldTyped, PageNames, <2>1
  <2>3. /\ Sound(r, t, lock, handles)
        /\ r.role = tab[t].role /\ r.page \notin {"unborn", "gone"}
    BY <1>1, <1>4, <2>1 DEF Sound, TabState, AccountRefused, Unborn
  <2>. QED
    BY <1>4, <2>1, <2>2, <2>3, LocalStep DEF AccountRefused
<1>5. CASE OpenLeading(t)
  <2>. DEFINE r == [tab[t] EXCEPT !.page = "register"]
  <2>1. r \in TabState
    BY <1>1, FieldTyped, PageNames
  <2>2. /\ Sound(r, t, lock, handles)
        /\ r.role = tab[t].role /\ r.page \notin {"unborn", "gone"}
    BY <1>1, <1>5 DEF Sound, TabState, OpenLeading, Unborn
  <2>. QED
    BY <1>5, <2>1, <2>2, LocalStep DEF OpenLeading
<1>6. CASE OpenFresh(t)
  <2>. DEFINE r == [tab[t] EXCEPT !.page = "opening", !.chan = "quiet", !.opening = "lock"]
  <2>1. r \in TabState
    BY <1>1, FieldTyped, PageNames
  <2>2. /\ Sound(r, t, lock, handles)
        /\ r.role = tab[t].role /\ r.page \notin {"unborn", "gone"}
    BY <1>1, <1>6 DEF Sound, TabState, OpenFresh, Unborn
  <2>. QED
    BY <1>6, <2>1, <2>2, LocalStep DEF OpenFresh
<1>7. CASE Register(t)
  <2>1. PICK p \in {"in", "out", "error"} : Set(t, [tab[t] EXCEPT !.page = p])
    BY <1>7 DEF Register
  <2>. DEFINE r == [tab[t] EXCEPT !.page = p]
  <2>2. r \in TabState
    BY <1>1, FieldTyped, PageNames, <2>1
  <2>3. /\ Sound(r, t, lock, handles)
        /\ r.role = tab[t].role /\ r.page \notin {"unborn", "gone"}
    BY <1>1, <1>7, <2>1 DEF Sound, TabState, Register, Unborn
  <2>. QED
    BY <1>7, <2>1, <2>2, <2>3, LocalStep DEF Register
<1>8. CASE Persisted(t)
  <2>. DEFINE r == IF tab[t].opening = "lead"
                     THEN [tab[t] EXCEPT !.lead = "no", !.result = TRUE, !.opening = "no",
                                         !.page = "register"]
                     ELSE [tab[t] EXCEPT !.lead = "no", !.result = TRUE]
  <2>1. r \in TabState
    BY <1>1, FieldTyped, PageNames
  <2>2. /\ Sound(r, t, lock, handles)
        /\ r.role = tab[t].role /\ r.page \notin {"unborn", "gone"}
    BY <1>1, <1>8 DEF Sound, TabState, Persisted, Unborn
  <2>. QED
    BY <1>8, <2>1, <2>2, LocalStep DEF Persisted
<1>9. CASE SignOutWaiting(t)
  <2>. DEFINE r == [tab[t] EXCEPT !.leaving = TRUE]
  <2>1. r \in TabState
    BY <1>1, FieldTyped, PageNames
  <2>2. /\ Sound(r, t, lock, handles)
        /\ r.role = tab[t].role /\ r.page \notin {"unborn", "gone"}
    BY <1>1, <1>9 DEF Sound, TabState, SignOutWaiting, Unborn
  <2>. QED
    BY <1>9, <2>1, <2>2, LocalStep DEF SignOutWaiting
<1>. QED
  BY <1>2, <1>3, <1>4, <1>5, <1>6, <1>7, <1>8, <1>9

\* The worker gets the lock, the pool and the connection, or fails to.
LEMMA WinLockStep ==
  ASSUME TabsInv, NEW t \in Tab, WinLock(t)
  PROVE  TabsInv'
<1>. DEFINE r == [tab[t] EXCEPT !.role = "leader", !.chan = "serving",
                                !.opening = "lead", !.lead = "pool"]
<1>1. tab[t] \in TabState /\ Sound(tab[t], t, lock, handles) /\ t # NoTab
  BY TabsAssumption DEF TabsInv, TabsTypeOK, TabsSound
<1>2. r \in TabState
  BY <1>1, FieldTyped, PageNames
<1>3. /\ Sound(r, t, lock', handles')
      /\ tab[t].role # "follower" /\ r.page \notin {"unborn", "gone"}
  BY <1>1 DEF Sound, TabState, WinLock, Unborn
<1>4. /\ Set(t, r) /\ UNCHANGED <<queue, handles>> /\ NetUnchanged
      /\ {lock, lock'} \subseteq {t, NoTab}
  BY DEF WinLock
<1>. HIDE DEF r
<1>5. queue' \in Seq(Tab) /\ QueueSound'
  BY <1>2, <1>3, <1>4, QueueKept
<1>6. MessagesTyped'
  BY <1>4 DEF NetUnchanged, MessagesTyped, TabsInv, TabsTypeOK
<1>7. CallersUp'
  BY <1>2, <1>3, <1>4, CallersKept DEF NetUnchanged
<1>. QED
  BY <1>2, <1>3, <1>4, <1>5, <1>6, <1>7, StepOf

\* A tab that found the lock taken waits for it and asks the leader meanwhile.
LEMMA FollowStep ==
  ASSUME TabsInv, NEW t \in Tab, Follow(t)
  PROVE  TabsInv'
<1>. DEFINE r == [tab[t] EXCEPT !.role = "follower", !.opening = "ask"]
            c == [from |-> t, kind |-> "open", id |-> tab[t].tries]
<1>1. tab[t] \in TabState /\ Sound(tab[t], t, lock, handles)
  BY DEF TabsInv, TabsTypeOK, TabsSound
<1>2. r \in TabState /\ c \in Call
  <2>1. tab[t].tries \in Nat
    BY <1>1, TabsAssumption DEF TabState
  <2>. QED
    BY <1>1, <2>1, FieldTyped, PageNames DEF Call
<1>3. /\ Sound(r, t, lock', handles')
      /\ tab[t].role # "follower" /\ r.page \notin {"unborn", "gone"} /\ r.role = "follower"
  BY <1>1 DEF Sound, TabState, Follow, Unborn
<1>4. /\ Set(t, r) /\ Post(c) /\ UNCHANGED <<lock, handles, made>>
      /\ queue' = Append(queue, t)
  BY DEF Follow, AskOpen
<1>. HIDE DEF r, c
<1>5. queue' \in Seq(Tab) /\ QueueSound'
  <2>1. queue \in Seq(Tab) /\ QueueSound /\ tab \in [Tab -> TabState]
    BY DEF TabsInv, TabsTypeOK
  <2>2. /\ queue' \in Seq(Tab) /\ DOMAIN queue' = 1..(Len(queue) + 1)
        /\ DOMAIN queue = 1..Len(queue)
        /\ \A i \in DOMAIN queue : queue'[i] = queue[i] /\ queue[i] \in Tab
        /\ queue'[Len(queue) + 1] = t
    BY <1>4, <2>1
  <2>3. tab'[t].role = "follower" /\ \A u \in Tab \ {t} : tab'[u] = tab[u]
    BY <1>3, <1>4, <2>1 DEF Set
  <2>4. \A i \in DOMAIN queue : queue[i] # t
    BY <1>3, <2>1 DEF QueueSound
  <2>5. \A i \in DOMAIN queue' : i \in DOMAIN queue \/ i = Len(queue) + 1
    BY <2>1, <2>2
  <2>. QED
    BY <2>1, <2>2, <2>3, <2>4, <2>5 DEF QueueSound
<1>6. made' \in 0..MaxCalls
  BY <1>4 DEF TabsInv, TabsTypeOK
<1>7. MessagesTyped' /\ \A x \in calls' : x \in calls \/ x = c
  BY <1>2, <1>4, <1>6, PostTyped
<1>8. CallersUp'
  <2>1. c.from = t
    BY DEF c
  <2>. QED
    BY <1>2, <1>3, <1>4, <1>7, <2>1, CallersKept
<1>. QED
  BY <1>2, <1>3, <1>4, <1>5, <1>7, <1>8, StepOf

\* The tab at the head of the queue gets the lock its leader gave up.
LEMMA PromoteStep ==
  ASSUME TabsInv, NEW t \in Tab, Promote(t)
  PROVE  TabsInv'
<1>. DEFINE r == [tab[t] EXCEPT !.role = "leader", !.chan = "serving", !.lead = "pool"]
<1>1. tab[t] \in TabState /\ Sound(tab[t], t, lock, handles) /\ t # NoTab
  BY TabsAssumption DEF TabsInv, TabsTypeOK, TabsSound
<1>2. r \in TabState
  BY <1>1, FieldTyped, PageNames
<1>3. queue \in Seq(Tab) /\ QueueSound /\ tab \in [Tab -> TabState] /\ queue # <<>>
  BY DEF TabsInv, TabsTypeOK, Promote
<1>4. tab[t].role = "follower" /\ queue[1] = t
  BY <1>3 DEF QueueSound, Promote
<1>5. /\ Sound(r, t, lock', handles')
      /\ r.page \notin {"unborn", "gone"}
  BY <1>1, <1>4 DEF Sound, TabState, Promote, Unborn
<1>6. /\ Set(t, r) /\ UNCHANGED handles /\ NetUnchanged /\ {lock, lock'} \subseteq {t, NoTab}
      /\ queue' = Tail(queue)
  BY DEF Promote
<1>. HIDE DEF r
<1>7. queue' \in Seq(Tab) /\ QueueSound'
  <2>1. /\ queue' \in Seq(Tab) /\ DOMAIN queue' = 1..(Len(queue) - 1)
        /\ DOMAIN queue = 1..Len(queue)
        /\ \A i \in DOMAIN queue' : queue'[i] = queue[i + 1] /\ i + 1 \in DOMAIN queue
    BY <1>3, <1>6
  <2>2. \A i \in DOMAIN queue' : queue'[i] # t
    BY <1>3, <1>4, <2>1 DEF QueueSound
  <2>3. ASSUME NEW i \in DOMAIN queue' PROVE tab'[queue'[i]].role = "follower"
    BY <1>3, <1>6, <2>1, <2>2 DEF QueueSound, Set
  <2>4. \A i, j \in DOMAIN queue' : queue'[i] = queue'[j] => i = j
    BY <1>3, <2>1 DEF QueueSound
  <2>. QED
    BY <1>3, <1>6, <2>1, <2>3, <2>4 DEF QueueSound
<1>8. MessagesTyped'
  BY <1>6 DEF NetUnchanged, MessagesTyped, TabsInv, TabsTypeOK
<1>9. CallersUp'
  BY <1>2, <1>5, <1>6, CallersKept DEF NetUnchanged
<1>. QED
  BY <1>2, <1>5, <1>6, <1>7, <1>8, <1>9, StepOf

\* The pool is installed: the tab takes the handles, which the lock alone does not free.
LEMMA PoolReadyStep ==
  ASSUME TabsInv, NEW t \in Tab, PoolReady(t)
  PROVE  TabsInv'
<1>. DEFINE r == [tab[t] EXCEPT !.lead = "persist", !.db = TRUE]
<1>1. tab[t] \in TabState /\ Sound(tab[t], t, lock, handles)
  BY DEF TabsInv, TabsTypeOK, TabsSound
<1>2. r \in TabState
  BY <1>1, FieldTyped, PageNames
<1>3. /\ Sound(r, t, lock', handles')
      /\ r.role = tab[t].role /\ r.page \notin {"unborn", "gone"}
  BY <1>1 DEF Sound, TabState, PoolReady, Unborn
<1>4. /\ Set(t, r) /\ UNCHANGED <<lock, queue>> /\ NetUnchanged
      /\ {handles, handles'} \subseteq {t, NoTab}
  BY DEF PoolReady
<1>. HIDE DEF r
<1>5. queue' \in Seq(Tab) /\ QueueSound'
  BY <1>2, <1>3, <1>4, QueueKept
<1>6. MessagesTyped'
  BY <1>4 DEF NetUnchanged, MessagesTyped, TabsInv, TabsTypeOK
<1>7. CallersUp'
  BY <1>2, <1>3, <1>4, CallersKept DEF NetUnchanged
<1>. QED
  BY <1>2, <1>3, <1>4, <1>5, <1>6, <1>7, StepOf

\* A failed open() tears down, a failed promotion gives the lock back.
LEMMA LeadFailsStep ==
  ASSUME TabsInv, NEW t \in Tab, LeadFails(t)
  PROVE  TabsInv'
<1>1. /\ tab[t] \in TabState /\ Sound(tab[t], t, lock, handles) /\ t # NoTab
      /\ tab[t].lead \in {"pool", "persist"} /\ handles' = handles
  BY TabsAssumption DEF TabsInv, TabsTypeOK, TabsSound, LeadFails
<1>2. lock = t /\ tab[t].page \notin {"unborn", "gone"}
  BY <1>1 DEF Sound, Unborn, TabState
<1>3. CASE tab[t].opening = "lead"
  <2>. DEFINE q == [tab[t] EXCEPT !.lead = "no", !.opening = "no", !.page = "error"]
              s == TornDown(q)
  <2>1. /\ q \in TabState /\ q.lead = "no" /\ q.opening = "no" /\ q.page = "error"
        /\ q.engines = tab[t].engines /\ (q.syncing <=> tab[t].syncing)
    <3>1. q \in TabState
      BY <1>1, FieldTyped, PageNames
    <3>. QED
      BY <1>1, <3>1 DEF TabState
  <2>2. /\ Set(t, s) /\ Closed(t) /\ UNCHANGED answers /\ queue' = RemoveFirst(queue, t)
        /\ lock' = NoTab
    BY <1>2, <1>3 DEF LeadFails, LockAfterFailure, Released
  <2>. HIDE DEF q
  <2>3. /\ s \in TabState /\ ~s.db /\ s.lead = "no" /\ s.opening = "no"
        /\ s.engines = q.engines /\ (s.syncing <=> q.syncing)
        /\ s.page \notin {"unborn", "gone"}
    BY <2>1, TornDownIs
  <2>. HIDE DEF s
  <2>4. Sound(s, t, lock', handles')
    BY <1>1, <2>1, <2>2, <2>3 DEF Sound
  <2>5. queue' \in Seq(Tab) /\ QueueSound'
    BY <2>2, <2>3, QueueLeft
  <2>6. MessagesTyped' /\ CallersUp'
    BY <2>2, <2>3, ChannelClosed
  <2>. QED
    BY <1>1, <1>2, <2>2, <2>3, <2>4, <2>5, <2>6, StepOf
<1>4. CASE tab[t].opening # "lead"
  <2>. DEFINE r == [tab[t] EXCEPT !.lead = "no"]
  <2>1. r \in TabState
    BY <1>1, FieldTyped
  <2>2. /\ r.page = tab[t].page /\ r.role = tab[t].role /\ r.lead = "no"
        /\ r.opening = tab[t].opening
        /\ r.engines = tab[t].engines /\ (r.syncing <=> tab[t].syncing)
        /\ (r.db <=> tab[t].db)
    BY <1>1 DEF TabState
  <2>3. /\ Set(t, r) /\ UNCHANGED queue /\ NetUnchanged
        /\ lock' = IF tab[t].db THEN lock ELSE NoTab
    BY <1>2, <1>4 DEF LeadFails, LockAfterFailure, Released
  <2>. HIDE DEF r
  <2>4. Sound(r, t, lock', handles')
    BY <1>1, <1>2, <2>2, <2>3 DEF Sound
  <2>5. queue' \in Seq(Tab) /\ QueueSound'
    BY <2>1, <2>2, <2>3, QueueKept
  <2>6. MessagesTyped'
    BY <2>3 DEF NetUnchanged, MessagesTyped, TabsInv, TabsTypeOK
  <2>7. CallersUp'
    BY <1>2, <2>1, <2>2, <2>3, CallersKept DEF NetUnchanged
  <2>. QED
    BY <1>1, <1>2, <2>1, <2>3, <2>4, <2>5, <2>6, <2>7, StepOf
<1>. QED
  BY <1>3, <1>4

\* A tab that goes away leaves its lock, its place in the queue and its calls, and for a
\* moment the file handles: it has no connection and no engine any more.
LEMMA CloseTabStep ==
  ASSUME TabsInv, NEW t \in Tab, CloseTab(t)
  PROVE  TabsInv'
<1>. DEFINE r == [Unborn EXCEPT !.page = "gone"]
<1>1. Sound(tab[t], t, lock, handles) /\ t # NoTab /\ r \in TabState
  BY TabsAssumption, UnbornTyped, PageNames DEF TabsInv, TabsTypeOK, TabsSound
<1>2. /\ Set(t, r) /\ lock' = Released(t) /\ queue' = RemoveFirst(queue, t)
      /\ UNCHANGED <<handles, answers>> /\ Closed(t)
  BY DEF CloseTab
<1>3. Sound(r, t, lock', handles')
  BY <1>1, <1>2 DEF Sound, Released, Unborn
<1>4. lock' = lock \/ {lock, lock'} \subseteq {t, NoTab}
  BY <1>2 DEF Released
<1>. HIDE DEF r
<1>5. queue' \in Seq(Tab) /\ QueueSound'
  BY <1>1, <1>2, QueueLeft
<1>6. MessagesTyped' /\ CallersUp'
  BY <1>1, <1>2, ChannelClosed
<1>. QED
  BY <1>1, <1>2, <1>3, <1>4, <1>5, <1>6, StepOf

\* The browser frees the handles of a worker that is gone or tore its connection down.
LEMMA HandlesFreedStep ==
  ASSUME TabsInv, HandlesFreed
  PROVE  TabsInv'
<1>1. UNCHANGED <<tab, lock, queue, calls, posted, held, answers, made>> /\ handles' = NoTab
  BY DEF HandlesFreed, NetUnchanged
<1>2. ASSUME NEW u \in Tab PROVE Sound(tab[u], u, lock, NoTab)
  <2>1. tab[u] \in TabState /\ Sound(tab[u], u, lock, handles)
    BY DEF TabsInv, TabsTypeOK, TabsSound
  <2>2. CASE u = handles
    BY <2>1, <2>2 DEF Sound, HandlesFreed, Unborn, TabState
  <2>3. CASE u # handles
    BY <2>1, <2>3 DEF Sound
  <2>. QED
    BY <2>2, <2>3
<1>3. TabsTypeOK' /\ TabsSound'
  BY <1>1, <1>2 DEF TabsInv, TabsTypeOK, TabsSound
<1>. QED
  BY <1>1, <1>3 DEF TabsInv, QueueSound, CallersUp, Up

\* Requests of the page to the leader, and what becomes of them on the way.
LEMMA RequestSteps ==
  ASSUME TabsInv, NEW t \in Tab,
         Forward(t) \/ OpenFollowing(t) \/ SignOutFollowing(t) \/ Hear(t)
  PROVE  TabsInv'
<1>1. tab[t] \in TabState /\ Sound(tab[t], t, lock, handles) /\ made \in Nat
  BY TabsAssumption DEF TabsInv, TabsTypeOK, TabsSound
<1>2. ASSUME NEW kind \in {"call", "wipe", "sync"}, MakeCall(t, kind),
             UNCHANGED tab, LockUnchanged, Up(t)
      PROVE  TabsInv'
  <2>. DEFINE c == [from |-> t, kind |-> kind, id |-> made]
  <2>1. c \in Call /\ c.from = t
    BY <1>1 DEF Call
  <2>2. Post(c) /\ made' \in 0..MaxCalls
    BY <1>1, <1>2, TabsAssumption DEF MakeCall
  <2>. HIDE DEF c
  <2>3. MessagesTyped' /\ \A x \in calls' : x \in calls \/ x = c
    BY <2>1, <2>2, PostTyped
  <2>. QED
    BY <1>2, <2>1, <2>3, MessageStep
<1>3. CASE Forward(t) \/ SignOutFollowing(t)
  BY <1>2, <1>3 DEF Forward, SignOutFollowing, Up
<1>4. CASE OpenFollowing(t)
  <2>. DEFINE r == [tab[t] EXCEPT !.page = "opening", !.opening = "again"]
              c == [from |-> t, kind |-> "open", id |-> tab[t].tries]
  <2>1. r \in TabState /\ c \in Call
    <3>1. tab[t].tries \in Nat
      BY <1>1, TabsAssumption DEF TabState
    <3>. QED
      BY <1>1, <3>1, FieldTyped, PageNames DEF Call
  <2>2. /\ Sound(r, t, lock, handles)
        /\ r.role = tab[t].role /\ r.page \notin {"unborn", "gone"} /\ c.from = t
    BY <1>1, <1>4 DEF Sound, TabState, OpenFollowing, Unborn
  <2>3. Set(t, r) /\ Post(c) /\ UNCHANGED made /\ LockUnchanged
    BY <1>4 DEF OpenFollowing, AskOpen
  <2>. HIDE DEF r, c
  <2>4. queue' \in Seq(Tab) /\ QueueSound'
    BY <2>1, <2>2, <2>3, QueueKept DEF LockUnchanged
  <2>5. made' \in 0..MaxCalls
    BY <2>3 DEF TabsInv, TabsTypeOK
  <2>6. MessagesTyped' /\ \A x \in calls' : x \in calls \/ x = c
    BY <2>1, <2>3, <2>5, PostTyped
  <2>7. CallersUp'
    BY <2>1, <2>2, <2>3, <2>6, CallersKept
  <2>. QED
    BY <2>1, <2>2, <2>3, <2>4, <2>6, <2>7, StepOf DEF LockUnchanged
<1>5. CASE Hear(t)
  <2>1. UNCHANGED <<tab, calls>> /\ LockUnchanged
    BY <1>5 DEF Hear
  <2>2. MessagesTyped'
    BY <1>5 DEF Hear, MessagesTyped, TabsInv, TabsTypeOK
  <2>. QED
    BY <2>1, <2>2, MessageStep
<1>. QED
  BY <1>3, <1>4, <1>5

\* runSync: an engine starts on the connection, so on the worker that owns the handles.
LEMMA EngineStarts ==
  ASSUME TabsInv, NEW t \in Tab, tab[t].db,
         Set(t, SyncStarted(tab[t])), NetUnchanged, LockUnchanged
  PROVE  TabsInv'
<1>1. tab[t] \in TabState /\ Sound(tab[t], t, lock, handles)
  BY DEF TabsInv, TabsTypeOK, TabsSound
<1>. DEFINE r == SyncStarted(tab[t])
<1>2. r \in TabState
  <2>1. tab[t].engines + 1 \in Nat
    BY <1>1 DEF TabState
  <2>. QED
    BY <1>1, <2>1, FieldTyped DEF SyncStarted
<1>3. r.role = tab[t].role /\ r.page = tab[t].page /\ r.page \notin {"unborn", "gone"}
  BY <1>1 DEF SyncStarted, TabState, Sound, Unborn
<1>4. Sound(r, t, lock, handles)
  BY <1>1, <1>3 DEF Sound, TabState, SyncStarted
<1>. QED
  BY <1>2, <1>3, <1>4, LocalStep

\* The engine starts by itself on the leader and comes to its end.
LEMMA SyncSteps ==
  ASSUME TabsInv, NEW t \in Tab, SyncNow(t) \/ SyncDone(t)
  PROVE  TabsInv'
<1>1. tab[t] \in TabState /\ Sound(tab[t], t, lock, handles) /\ made \in Nat
  BY TabsAssumption DEF TabsInv, TabsTypeOK, TabsSound
<1>2. CASE SyncNow(t) /\ tab[t].role = "leader"
  BY <1>2, EngineStarts DEF SyncNow
<1>3. CASE SyncNow(t) /\ tab[t].role # "leader"
  <2>. DEFINE c == [from |-> t, kind |-> "sync", id |-> made]
  <2>1. c \in Call /\ c.from = t /\ Up(t)
    BY <1>1, <1>3 DEF Call, SyncNow, Up
  <2>2. Post(c) /\ made' \in 0..MaxCalls /\ UNCHANGED tab /\ LockUnchanged
    BY <1>1, <1>3, TabsAssumption DEF SyncNow, MakeCall
  <2>. HIDE DEF c
  <2>3. MessagesTyped' /\ \A x \in calls' : x \in calls \/ x = c
    BY <2>1, <2>2, PostTyped
  <2>. QED
    BY <2>1, <2>2, <2>3, MessageStep
<1>4. CASE SyncDone(t)
  <2>. DEFINE r == [tab[t] EXCEPT !.syncing = FALSE, !.engines = @ - 1]
  <2>1. tab[t].engines = 1
    BY <1>1, <1>4 DEF SyncDone, Sound
  <2>2. r \in TabState
    <3>1. tab[t].engines - 1 \in Nat
      BY <2>1
    <3>. QED
      BY <1>1, <3>1, FieldTyped
  <2>3. r.role = tab[t].role /\ r.page = tab[t].page /\ r.page \notin {"unborn", "gone"}
    BY <1>1, <2>1 DEF TabState, Sound, Unborn
  <2>4. Sound(r, t, lock, handles)
    <3>1. /\ ~r.syncing /\ r.engines = 0
          /\ r.lead = tab[t].lead /\ r.opening = tab[t].opening /\ (r.db <=> tab[t].db)
      BY <1>1, <2>1 DEF TabState
    <3>. HIDE DEF r
    <3>. QED
      BY <1>1, <2>3, <3>1 DEF Sound
  <2>5. Set(t, r) /\ LockUnchanged /\ calls' = calls
    BY <1>4 DEF SyncDone
  <2>6. MessagesTyped'
    <3>1. PICK joined \in SUBSET held :
            /\ held' = held \ joined
            /\ answers' = answers \cup {[call |-> m.call, ok |-> TRUE] : m \in joined}
            /\ UNCHANGED <<calls, posted, made>>
      BY <1>4 DEF SyncDone
    <3>2. {[call |-> m.call, ok |-> TRUE] : m \in joined} \subseteq Answer
      <4>1. \A m \in joined : m.call \in Call
        BY DEF TabsInv, TabsTypeOK, Msg
      <4>2. \A m \in joined : [call |-> m.call, ok |-> TRUE] \in Answer
        BY <4>1 DEF Answer
      <4>. QED
        BY <4>2
    <3>. QED
      BY <3>1, <3>2 DEF MessagesTyped, TabsInv, TabsTypeOK
  <2>. HIDE DEF r
  <2>7. queue' \in Seq(Tab) /\ QueueSound'
    BY <2>2, <2>3, <2>5, QueueKept DEF LockUnchanged
  <2>8. CallersUp'
    BY <2>2, <2>3, <2>5, CallersKept
  <2>. QED
    BY <2>2, <2>4, <2>5, <2>6, <2>7, <2>8, StepOf DEF LockUnchanged
<1>. QED
  BY <1>2, <1>3, <1>4

\* The leader's handler.
LEMMA RunCallStep ==
  ASSUME TabsInv, NEW t \in Tab, RunCall(t)
  PROVE  TabsInv'
<1>1. tab[t] \in TabState
  BY DEF TabsInv, TabsTypeOK
<1>2. PICK m \in held :
        /\ LockUnchanged
        /\ \/ \E ok \in BOOLEAN : Reply(m, ok) /\ UNCHANGED tab
           \/ tab[t].db /\ Set(t, SyncStarted(tab[t])) /\ NetUnchanged
  <2>1. tab[t].db \in BOOLEAN /\ tab[t].result \in BOOLEAN
    BY <1>1 DEF TabState
  <2>. QED
    BY <2>1 DEF RunCall
<1>3. CASE \E ok \in BOOLEAN : Reply(m, ok) /\ UNCHANGED tab
  BY <1>2, <1>3, ReplyTyped, MessageStep
<1>4. CASE tab[t].db /\ Set(t, SyncStarted(tab[t])) /\ NetUnchanged
  BY <1>2, <1>4, EngineStarts
<1>. QED
  BY <1>2, <1>3, <1>4

\* What a caller does with its answer, or without one.
LEMMA SettleStep ==
  ASSUME TabsInv, NEW c \in calls, NEW ok \in BOOLEAN, Settle(c, ok),
         answers' \subseteq answers
  PROVE  TabsInv'
<1>. DEFINE t == c.from
<1>1. /\ t \in Tab /\ Up(t) /\ tab[t] \in TabState /\ Sound(tab[t], t, lock, handles)
  BY DEF TabsInv, TabsTypeOK, TabsSound, CallersUp, Call
<1>. DEFINE end == [tab[t] EXCEPT !.opening = "no"]
            rest == calls' = calls \ {c} /\ UNCHANGED <<posted, held, made>>
<1>2. CASE \E p \in {"register", "error"} :
             Set(t, [end EXCEPT !.page = p]) /\ rest /\ LockUnchanged
  <2>1. PICK p \in {"register", "error"} :
          Set(t, [end EXCEPT !.page = p]) /\ rest /\ LockUnchanged
    BY <1>2
  <2>. DEFINE r == [end EXCEPT !.page = p]
  <2>2. r \in TabState
    BY <1>1, FieldTyped, PageNames
  <2>3. /\ Sound(r, t, lock, handles)
        /\ r.role = tab[t].role /\ r.page \notin {"unborn", "gone"}
    BY <1>1 DEF Sound, TabState
  <2>4. MessagesTyped'
    BY <2>1 DEF TabsInv, TabsTypeOK, MessagesTyped
  <2>. HIDE DEF r
  <2>5. queue' \in Seq(Tab) /\ QueueSound'
    BY <1>1, <2>1, <2>2, <2>3, QueueKept DEF LockUnchanged, r
  <2>6. CallersUp'
    BY <1>1, <2>1, <2>2, <2>3, CallersKept DEF r
  <2>. QED
    BY <1>1, <2>1, <2>2, <2>3, <2>4, <2>5, <2>6, StepOf DEF LockUnchanged, r
<1>3. CASE UNCHANGED tab /\ rest /\ LockUnchanged
  <2>1. MessagesTyped'
    BY <1>3 DEF TabsInv, TabsTypeOK, MessagesTyped
  <2>. QED
    BY <1>3, <2>1, MessageStep
<1>4. CASE TeardownTo(t, tab[t]) \/ TeardownTo(t, [tab[t] EXCEPT !.page = "out"])
  <2>1. [tab[t] EXCEPT !.page = "out"] \in TabState
    BY <1>1, FieldTyped, PageNames
  <2>. QED
    BY <1>1, <1>4, <2>1, TeardownStep
<1>. QED
  BY <1>2, <1>3, <1>4 DEF Settle

\* The leader's answer reaches the caller, or comes too late.
LEMMA AnswerSteps ==
  ASSUME TabsInv, Answered \/ TimeOut
  PROVE  TabsInv'
<1>1. CASE Answered
  <2>1. PICK a \in answers :
          /\ answers' = answers \ {a}
          /\ IF a.call \in calls
               THEN Settle(a.call, a.ok)
               ELSE UNCHANGED <<tab, calls, posted, held, made>> /\ LockUnchanged
    BY <1>1 DEF Answered
  <2>2. CASE a.call \in calls
    <3>1. a.ok \in BOOLEAN
      BY DEF TabsInv, TabsTypeOK, Answer
    <3>. QED
      BY <2>1, <2>2, <3>1, SettleStep
  <2>3. CASE a.call \notin calls
    <3>1. MessagesTyped'
      BY <2>1, <2>3 DEF TabsInv, TabsTypeOK, MessagesTyped
    <3>. QED
      BY <2>1, <2>3, <3>1, MessageStep
  <2>. QED
    BY <2>2, <2>3
<1>2. CASE TimeOut
  BY <1>2, SettleStep DEF TimeOut
<1>. QED
  BY <1>1, <1>2

\* Sign out and wipe: a wipe may take the handles of the pool, but only free ones.
LEMMA WipeSteps ==
  ASSUME TabsInv, NEW t \in Tab,
         SignOutLeading(t) \/ Unlinked(t) \/ RunWipe(t)
  PROVE  TabsInv'
<1>1. tab[t] \in TabState /\ Sound(tab[t], t, lock, handles)
  BY DEF TabsInv, TabsTypeOK, TabsSound
<1>2. [tab[t] EXCEPT !.page = "out"] \in TabState
  BY <1>1, FieldTyped, PageNames
<1>3. tab[t].db => Up(t)
  BY <1>1 DEF Sound, Unborn, Up
<1>4. CASE SignOutLeading(t)
  BY <1>1, <1>2, <1>3, <1>4, TeardownStep DEF SignOutLeading
<1>5. CASE Unlinked(t)
  <2>1. PICK r : /\ Set(t, r)
                 /\ \/ r = [tab[t] EXCEPT !.leaving = FALSE, !.page = "out"]
                    \/ r = [tab[t] EXCEPT !.leaving = FALSE]
                 /\ handles' = handles \/ {handles, handles'} \subseteq {t, NoTab}
                 /\ handles' # handles => handles' = t
    BY <1>5 DEF Unlinked
  <2>2. r \in TabState
    <3>1. [tab[t] EXCEPT !.leaving = FALSE] \in TabState
      BY <1>1, FieldTyped
    <3>2. [tab[t] EXCEPT !.leaving = FALSE, !.page = "out"] \in TabState
      BY <3>1, FieldTyped, PageNames
    <3>. QED
      BY <2>1, <3>1, <3>2
  <2>3. r.role = tab[t].role /\ r.page \notin {"unborn", "gone"}
    BY <1>1, <1>5, <2>1 DEF TabState, Unlinked, Sound, Unborn
  <2>4. UNCHANGED <<lock, queue, calls, posted, held, answers, made>>
    BY <1>5 DEF Unlinked, NetUnchanged
  <2>5. Sound(r, t, lock, handles')
    <3>1. /\ r.engines = tab[t].engines /\ (r.syncing <=> tab[t].syncing)
          /\ r.lead = tab[t].lead /\ r.opening = tab[t].opening /\ (r.db <=> tab[t].db)
      BY <1>1, <2>1 DEF TabState
    <3>. QED
      BY <1>1, <2>1, <2>3, <3>1 DEF Sound
  <2>6. MessagesTyped'
    BY <2>4 DEF TabsInv, TabsTypeOK, MessagesTyped
  <2>7. queue' \in Seq(Tab) /\ QueueSound'
    BY <2>1, <2>2, <2>3, <2>4, QueueKept
  <2>8. CallersUp'
    BY <2>1, <2>2, <2>3, <2>4, CallersKept
  <2>. QED
    BY <2>1, <2>2, <2>4, <2>5, <2>6, <2>7, <2>8, StepOf
<1>6. CASE RunWipe(t)
  <2>1. PICK m \in held :
          \/ tab[t].db /\ TeardownTo(t, tab[t]) /\ UNCHANGED answers
          \/ /\ handles' = handles \/ (handles' = t /\ handles = NoTab)
             /\ \E ok \in BOOLEAN : Reply(m, ok)
             /\ UNCHANGED <<tab, lock, queue>>
    BY <1>6 DEF RunWipe
  <2>2. CASE tab[t].db /\ TeardownTo(t, tab[t]) /\ UNCHANGED answers
    BY <1>1, <1>3, <2>2, TeardownStep
  <2>3. CASE /\ handles' = handles \/ (handles' = t /\ handles = NoTab)
             /\ \E ok \in BOOLEAN : Reply(m, ok)
             /\ UNCHANGED <<tab, lock, queue>>
    <3>1. MessagesTyped' /\ calls' = calls
      BY <2>3, ReplyTyped
    <3>2. Set(t, tab[t])
      BY <2>3 DEF Set, TabsInv, TabsTypeOK
    <3>3. Sound(tab[t], t, lock', handles')
      BY <1>1, <2>3 DEF Sound
    <3>4. queue' \in Seq(Tab) /\ QueueSound' /\ CallersUp'
      BY <2>3, <3>1 DEF TabsInv, TabsTypeOK, QueueSound, CallersUp, Up
    <3>. QED
      BY <1>1, <2>3, <3>1, <3>2, <3>3, <3>4, StepOf
  <2>. QED
    BY <2>1, <2>2, <2>3
<1>. QED
  BY <1>4, <1>5, <1>6
----------------------------------------------------------------------------
(***************************************************************************)
(* The theorems.                                                           *)
(***************************************************************************)

\* No tab is born with anything.
LEMMA TabsInvInit == TabsInit => TabsInv
<1>. SUFFICES ASSUME TabsInit PROVE TabsInv
  OBVIOUS
<1>1. Unborn \in TabState
  BY PageNames DEF Unborn, TabState
<1>2. TabsTypeOK
  BY <1>1, TabsAssumption DEF TabsInit, TabsTypeOK
<1>3. TabsSound
  BY TabsAssumption DEF TabsInit, TabsSound, Sound, Unborn
<1>. QED
  BY <1>2, <1>3 DEF TabsInv, TabsInit, QueueSound, CallersUp

\* Every step keeps the invariant.
LEMMA TabsInvStep == TabsInv /\ [TabsNext]_tabVars => TabsInv'
<1>. SUFFICES ASSUME TabsInv, [TabsNext]_tabVars PROVE TabsInv'
  OBVIOUS
<1>1. ASSUME NEW t \in Tab, PageStep(t) PROVE TabsInv'
  BY <1>1, QuietSteps, CloseTabStep, RequestSteps, SyncSteps, WipeSteps DEF PageStep
<1>2. ASSUME NEW t \in Tab, BootStep(t) PROVE TabsInv'
  BY <1>2, QuietSteps, RequestSteps DEF BootStep
<1>3. ASSUME NEW t \in Tab, WorkerStep(t) PROVE TabsInv'
  BY <1>3, WinLockStep, FollowStep, PromoteStep, PoolReadyStep, QuietSteps, LeadFailsStep,
     RequestSteps, RunCallStep, WipeSteps, SyncSteps DEF WorkerStep
<1>4. CASE UNCHANGED tabVars
  BY <1>4 DEF tabVars, TabsInv, TabsTypeOK, TabsSound, QueueSound, CallersUp, Up
<1>. QED
  BY <1>1, <1>2, <1>3, <1>4, HandlesFreedStep, AnswerSteps DEF TabsNext

\* Whatever the tabs of a browser do, and in whatever order the browser's answers arrive, the
\* invariant holds.
THEOREM TabsInvariant == TabsSafe => []TabsInv
  BY TabsInvInit, TabsInvStep, PTL DEF TabsSafe

\* The module variables of worker.ts, the lock and the calls on the channel keep their types.
THEOREM TabsTyped == TabsSafe => []TabsTypeOK
<1>1. TabsInv => TabsTypeOK
  BY DEF TabsInv
<1>. QED
  BY <1>1, TabsInvariant, PTL

\* A connection to the vault's file and the vault's Web Lock go together: no tab has the first
\* without the second, or keeps the second without having or getting the first.
THEOREM LockGuardsConnection == TabsSafe => []LockHeld
<1>1. TabsInv => LockHeld
  BY DEF TabsInv, TabsSound, Sound, LockHeld
<1>. QED
  BY <1>1, TabsInvariant, PTL

\* "Two syncs never pull or push over each other" (worker.ts 199), also when the engine of a
\* former leader is still at work.
THEOREM OneEngineAtWork == TabsSafe => []OneEngine
<1>1. ASSUME TabsInv, NEW t \in Tab, tab[t].engines > 0
      PROVE  handles = t /\ tab[t].engines = 1
  <2>1. Sound(tab[t], t, lock, handles)
    BY <1>1 DEF TabsInv, TabsSound
  <2>. QED
    BY <1>1, <2>1 DEF Sound
<1>2. TabsInv => OneEngine
  BY <1>1 DEF OneEngine
<1>. QED
  BY <1>2, TabsInvariant, PTL
----------------------------------------------------------------------------
(***************************************************************************)
(* The types, and what else the steps need of the variables.               *)
(***************************************************************************)
Counters == [packs: Nat, entries: Nat, work: Nat, fails: Nat, discards: Nat]

\* The entries of d that the vault may still be asked for: queued, or on their way.
Out(d) == {outbox[d][i] : i \in DOMAIN outbox[d]} \cup engine[d].sent

\* A commit names a pack.
Named(e) == e.op = "pack_commit" => e.pack \in Pack

\* DevicePacksTypeOK, with the variables as functions.
Shaped ==
  /\ row \in [Device -> [Disc -> Row]]
  /\ files \in [Device -> [Disc -> Pack \cup {NoPack}]]
  /\ pending \in [Device -> SUBSET Staged]
  /\ outbox \in [Device -> Seq(Entry)]
  /\ engine \in [Device -> Engine]
  /\ loads \in [Device -> SUBSET Load]
  /\ vault \in [Disc -> Row]
  /\ DOMAIN kept \subseteq Ref /\ \A r \in DOMAIN kept : kept[r] \subseteq Part
  /\ done \subseteq Ref
  /\ undone \in [Device -> SUBSET Disc]
  /\ \A i \in DOMAIN seen : seen[i] \in Nat
  /\ n \in Counters /\ n.packs <= n.work /\ n.work <= MaxWork

PacksTyped ==
  /\ Shaped
  /\ \A d \in Device : \A x \in Out(d) : Named(x)
----------------------------------------------------------------------------
\* The counters count on.
LEMMA Counted ==
  ASSUME Shaped
  PROVE  /\ n.packs \in Nat /\ n.entries \in Nat /\ n.work \in Nat /\ n.fails \in Nat
         /\ n.discards \in Nat
         /\ Fails => n' \in Counters /\ n'.packs = n.packs /\ n'.work = n.work
                                     /\ n'.entries = n.entries
         /\ \A k \in Nat : Works(k) => n' \in Counters /\ n'.packs = n.packs
                                       /\ n'.work = n.work + 1 /\ n'.work <= MaxWork
                                       /\ n'.entries = n.entries + k
         /\ n' = [n EXCEPT !.discards = @ + 1]
              => n' \in Counters /\ n'.packs = n.packs /\ n'.work = n.work
                               /\ n'.entries = n.entries
         /\ n.work < MaxWork => n.packs + 1 \in Pack /\ n.packs + 1 <= n.work + 1
<1>1. n \in Counters /\ n.packs <= n.work /\ n.work <= MaxWork /\ MaxWork \in Nat
  BY DevicePacksAssumption DEF Shaped
<1>2. n.packs \in Nat /\ n.entries \in Nat /\ n.work \in Nat /\ n.fails \in Nat
      /\ n.discards \in Nat
  BY <1>1 DEF Counters
<1>3. Fails => n' \in Counters /\ n'.packs = n.packs /\ n'.work = n.work
                               /\ n'.entries = n.entries
  BY <1>1, <1>2 DEF Fails, Counters
<1>4. ASSUME NEW k \in Nat, Works(k)
      PROVE  n' \in Counters /\ n'.packs = n.packs /\ n'.work = n.work + 1
             /\ n'.work <= MaxWork /\ n'.entries = n.entries + k
  <2>1. n' = [n EXCEPT !.work = @ + 1, !.entries = @ + k] /\ n.work < MaxWork
    BY <1>4 DEF Works
  <2>2. n' = [packs |-> n.packs, entries |-> n.entries + k, work |-> n.work + 1,
              fails |-> n.fails, discards |-> n.discards]
    BY <1>1, <2>1 DEF Counters
  <2>3. n.entries + k \in Nat /\ n.work + 1 \in Nat
    BY <1>2
  <2>4. n'.work = n.work + 1 /\ n'.packs = n.packs /\ n'.entries = n.entries + k
        /\ n' \in Counters
    BY <1>2, <2>2, <2>3 DEF Counters
  <2>. QED
    BY <1>1, <1>2, <2>1, <2>4
<1>5. n.work < MaxWork => n.packs + 1 \in Pack /\ n.packs + 1 <= n.work + 1
  BY <1>1, <1>2 DEF Pack, Archived
<1>6. n' = [n EXCEPT !.discards = @ + 1]
        => n' \in Counters /\ n'.packs = n.packs /\ n'.work = n.work /\ n'.entries = n.entries
  BY <1>1, <1>2 DEF Counters
<1>. QED
  BY <1>2, <1>3, <1>4, <1>5, <1>6

\* The changes of records that steps make.
LEMMA RecordsKept ==
  /\ \A v \in Row : v.pack \in Pack \cup {NoPack} /\ v.version \in Nat
                    /\ v.state \in {"none", "live", "deleted"}
  /\ \A v \in Row : [v EXCEPT !.state = "live"] \in Row /\ [v EXCEPT !.state = "deleted"] \in Row
  /\ \A v \in Row : v.version + 1 \in Nat
  /\ \A v \in Row, k \in Nat : [v EXCEPT !.version = k] \in Row
  /\ \A v \in Row, p \in Pack : [v EXCEPT !.pack = p] \in Row
  /\ \A s \in Staged : RefOf(s) \in Ref /\ s.part \in Part
  /\ \A s \in Staged : /\ [s EXCEPT !.uploaded = TRUE] \in Staged
                       /\ RefOf([s EXCEPT !.uploaded = TRUE]) = RefOf(s)
                       /\ [s EXCEPT !.uploaded = TRUE].part = s.part
  /\ NotSyncing \in Engine
  /\ NotSyncing.sent = {}
  /\ \A step \in {"idle", "upload", "push", "pull", "load"} :
       /\ [NotSyncing EXCEPT !.step = step] \in Engine
       /\ [NotSyncing EXCEPT !.step = step].sent = {}
<1>1. \A v \in Row : v.pack \in Pack \cup {NoPack} /\ v.version \in Nat
                     /\ v.state \in {"none", "live", "deleted"}
  BY DEF Row
<1>2. \A v \in Row : [v EXCEPT !.state = "live"] \in Row /\ [v EXCEPT !.state = "deleted"] \in Row
  BY DEF Row
<1>3. \A v \in Row : v.version + 1 \in Nat
  BY DEF Row
<1>9. \A v \in Row, k \in Nat : [v EXCEPT !.version = k] \in Row
  BY DEF Row
<1>4. \A v \in Row, p \in Pack : [v EXCEPT !.pack = p] \in Row
  BY DEF Row
<1>5. \A s \in Staged : RefOf(s) \in Ref /\ s.part \in Part
  BY DEF Staged, Ref, RefOf
<1>6. \A s \in Staged : /\ [s EXCEPT !.uploaded = TRUE] \in Staged
                        /\ RefOf([s EXCEPT !.uploaded = TRUE]) = RefOf(s)
                        /\ [s EXCEPT !.uploaded = TRUE].part = s.part
  BY DEF Staged, RefOf
<1>7. NotSyncing \in Engine /\ NotSyncing.sent = {}
  BY DEF NotSyncing, Engine
<1>8. \A step \in {"idle", "upload", "push", "pull", "load"} :
        /\ [NotSyncing EXCEPT !.step = step] \in Engine
        /\ [NotSyncing EXCEPT !.step = step].sent = {}
  BY DEF NotSyncing, Engine
<1>. QED
  BY <1>1, <1>2, <1>3, <1>4, <1>5, <1>6, <1>7, <1>8, <1>9

\* A new entry is one.
LEMMA NewEntryIs ==
  ASSUME Shaped, NEW d \in Device, NEW k \in Nat, NEW c \in Disc,
         NEW op \in {"upsert", "pack_commit", "delete"}, NEW p \in Pack \cup {NoPack}
  PROVE  /\ NewEntry(d, k, c, op, p) \in Entry
         /\ NewEntry(d, k, c, op, p).id = n.entries + k
         /\ NewEntry(d, k, c, op, p).op = op
         /\ NewEntry(d, k, c, op, p).disc = c /\ NewEntry(d, k, c, op, p).pack = p
<1>1. row[d][c].version \in Nat /\ n.entries \in Nat
  <2>1. row[d][c] \in Row
    BY DEF Shaped
  <2>. QED
    BY <2>1, Counted, RecordsKept
<1>. QED
  BY <1>1 DEF NewEntry, Entry

\* The oldest entry that waits is one of the outbox.
LEMMA OldestIs ==
  ASSUME NEW q \in Seq(Entry), Waiting(q) # {}
  PROVE  \E i \in DOMAIN q : q[i] = Oldest(q) /\ ~q[i].blocked
<1>1. Waiting(q) \subseteq Nat
  BY DEF Waiting
<1>2. \E i \in Waiting(q) : \A j \in Waiting(q) : i <= j
  BY <1>1, LeastNat
<1>. DEFINE i == CHOOSE k \in Waiting(q) : \A j \in Waiting(q) : k <= j
<1>3. i \in Waiting(q)
  BY <1>2
<1>4. Oldest(q) = q[i]
  BY DEF Oldest
<1>. HIDE DEF i
<1>. QED
  BY <1>3, <1>4 DEF Waiting

\* Engine e sends what is in outbox q.
Sends(e, q) == e \in Engine /\ \A x \in e.sent : \E i \in DOMAIN q : q[i] = x

\* What is sent next is an entry of the outbox.
LEMMA OnwardIs ==
  ASSUME NEW q \in Seq(Entry), NEW staged, NEW todo \in SUBSET Ref, NEW missing \in SUBSET AllParts
  PROVE  Sends(Onward(q, staged, todo, missing), q)
<1>1. CASE \E s \in staged : ~s.uploaded /\ RefOf(s) \in todo
  <2>1. PICK e : e = [NotSyncing EXCEPT !.step = "upload", !.todo = todo, !.missing = missing]
    OBVIOUS
  <2>2. e \in Engine /\ e.sent = {}
    BY <2>1 DEF NotSyncing, Engine
  <2>3. Onward(q, staged, todo, missing) = e
    BY <1>1, <2>1 DEF Onward
  <2>. QED
    BY <2>2, <2>3 DEF Sends
<1>2. CASE ~(\E s \in staged : ~s.uploaded /\ RefOf(s) \in todo) /\ CanPush(q, staged)
  <2>1. PICK i \in DOMAIN q : q[i] = Oldest(q)
    BY <1>2, OldestIs DEF CanPush
  <2>2. PICK x \in Entry : x = Oldest(q) /\ x = q[i]
    BY <2>1
  <2>3. PICK e : e = [NotSyncing EXCEPT !.step = "push", !.sent = {x}]
    OBVIOUS
  <2>4. e \in Engine /\ e.sent = {x}
    BY <2>3 DEF NotSyncing, Engine
  <2>5. Onward(q, staged, todo, missing) = e
    BY <1>2, <2>2, <2>3 DEF Onward
  <2>. QED
    BY <2>2, <2>4, <2>5 DEF Sends
<1>3. CASE ~(\E s \in staged : ~s.uploaded /\ RefOf(s) \in todo) /\ ~CanPush(q, staged)
  <2>1. Onward(q, staged, todo, missing) = [NotSyncing EXCEPT !.step = "pull"]
    BY <1>3 DEF Onward
  <2>. QED
    BY <2>1, RecordsKept DEF Sends
<1>. QED
  BY <1>1, <1>2, <1>3
----------------------------------------------------------------------------
(***************************************************************************)
(* The steps, seen from the staged parts and the entries.                  *)
(***************************************************************************)
\* The parts of r staged on d.
PartsOf(d, r) == {s.part : s \in {x \in pending[d] : RefOf(x) = r}}

\* An entry as it is known at the vault: what it does, and with which pack.
Alike(x, y) == x.id = y.id /\ x.op = y.op /\ x.disc = y.disc /\ x.pack = y.pack

\* Entries new are queued on d, a commit with all its parts.
Enqueues(d, new) ==
  /\ new \in Seq(Entry)
  /\ outbox' = [outbox EXCEPT ![d] = @ \o new]
  /\ \A k \in DOMAIN new : /\ new[k].id = n.entries + k
                           /\ Named(new[k])
                           /\ new[k].op = "pack_commit" => PartsOf(d, RefOf(new[k]))' = Part
  /\ n'.entries = n.entries + Len(new)
  /\ \A c \in Device : pending[c] \subseteq pending'[c]
  /\ UNCHANGED <<engine, seen, done>>

\* Entries leave the outboxes, are sent, or change in what only their device knows of them.
Thinned ==
  \A d \in Device :
    /\ \A i \in DOMAIN outbox'[d] :
         \E j \in DOMAIN outbox[d] : Alike(outbox'[d][i], outbox[d][j])
    /\ \A x \in engine'[d].sent : \E y \in Out(d) : Alike(x, y)

\* A scan or an import stages every part of its pack.
LEMMA StagingIs ==
  ASSUME Shaped, NEW d \in Device, NEW c \in Disc, NEW p \in Pack, Staging(d, c, p),
         n'.entries = n.entries + 2, UNCHANGED <<engine, seen, done>>
  PROVE  /\ row' \in [Device -> [Disc -> Row]]
         /\ files' \in [Device -> [Disc -> Pack \cup {NoPack}]]
         /\ pending' \in [Device -> SUBSET Staged]
         /\ outbox' \in [Device -> Seq(Entry)]
         /\ undone' \in [Device -> SUBSET Disc]
         /\ \E new : Enqueues(d, new)
<1>1. /\ row \in [Device -> [Disc -> Row]]
      /\ files \in [Device -> [Disc -> Pack \cup {NoPack}]]
      /\ pending \in [Device -> SUBSET Staged]
      /\ outbox \in [Device -> Seq(Entry)]
  BY DEF Shaped
<1>2. row' \in [Device -> [Disc -> Row]]
  <2>1. row' = [row EXCEPT ![d][c].pack = p, ![d][c].state = "live"]
    BY DEF Staging
  <2>2. row[d][c] \in Row
    BY <1>1
  <2>3. [[row[d][c] EXCEPT !.pack = p] EXCEPT !.state = "live"] \in Row
    BY <2>2, RecordsKept
  <2>4. row' = [row EXCEPT ![d] = [row[d] EXCEPT
                  ![c] = [[row[d][c] EXCEPT !.pack = p] EXCEPT !.state = "live"]]]
    BY <1>1, <2>1, <2>2 DEF Row
  <2>. QED
    BY <1>1, <2>3, <2>4
<1>3. files' \in [Device -> [Disc -> Pack \cup {NoPack}]]
  <2>1. files' = [files EXCEPT ![d][c] = p]
    BY DEF Staging
  <2>. QED
    BY <1>1, <2>1
<1>. DEFINE ref == [disc |-> c, pack |-> p]
<1>0. PICK new : new = <<NewEntry(d, 1, c, "upsert", NoPack),
                         NewEntry(d, 2, c, "pack_commit", p)>>
  OBVIOUS
<1>4. pending' = [pending EXCEPT ![d] = @ \cup StagedParts(d, c, p)]
  BY DEF Staging
<1>5. StagedParts(d, c, p) \subseteq Staged
  <2>1. \A i \in Part : [disc |-> c, pack |-> p, part |-> i, uploaded |-> FALSE] \in Staged
    BY DEF Staged
  <2>. QED
    BY <2>1 DEF StagedParts

<1>6. pending' \in [Device -> SUBSET Staged] /\ \A x \in Device : pending[x] \subseteq pending'[x]
  BY <1>1, <1>4, <1>5
<1>7. {s.part : s \in {x \in pending'[d] : RefOf(x) = ref}} = Part
  <2>1. pending'[d] = pending[d] \cup StagedParts(d, c, p) /\ pending'[d] \subseteq Staged
    BY <1>1, <1>4, <1>6
  <2>2. ASSUME NEW i \in Part
        PROVE  \E x \in pending'[d] : RefOf(x) = ref /\ x.part = i
    <3>1. CASE \A s \in pending[d] : ~(s.disc = c /\ s.pack = p /\ s.part = i)
      <4>. DEFINE x == [disc |-> c, pack |-> p, part |-> i, uploaded |-> FALSE]
      <4>1. x \in StagedParts(d, c, p)
        BY <3>1 DEF StagedParts
      <4>2. RefOf(x) = ref /\ x.part = i
        BY DEF RefOf
      <4>. QED
        BY <2>1, <4>1, <4>2
    <3>2. CASE \E s \in pending[d] : s.disc = c /\ s.pack = p /\ s.part = i
      BY <2>1, <3>2 DEF RefOf
    <3>. QED
      BY <3>1, <3>2
  <2>3. \A x \in pending'[d] : x.part \in Part
    BY <2>1, RecordsKept
  <2>. HIDE DEF ref
  <2>. QED
    BY <2>2, <2>3
<1>8. /\ NewEntry(d, 1, c, "upsert", NoPack) \in Entry
      /\ NewEntry(d, 1, c, "upsert", NoPack).id = n.entries + 1
      /\ NewEntry(d, 1, c, "upsert", NoPack).op = "upsert"
  BY NewEntryIs
<1>9. /\ NewEntry(d, 2, c, "pack_commit", p) \in Entry
      /\ NewEntry(d, 2, c, "pack_commit", p).id = n.entries + 2
      /\ NewEntry(d, 2, c, "pack_commit", p).op = "pack_commit"
      /\ NewEntry(d, 2, c, "pack_commit", p).pack = p
      /\ RefOf(NewEntry(d, 2, c, "pack_commit", p)) = ref
  BY NewEntryIs DEF RefOf
<1>10. outbox' = [outbox EXCEPT ![d] = @ \o new]
  BY <1>0 DEF Staging
<1>11. /\ new \in Seq(Entry) /\ Len(new) = 2 /\ DOMAIN new = {1, 2}
       /\ new[1] = NewEntry(d, 1, c, "upsert", NoPack)
       /\ new[2] = NewEntry(d, 2, c, "pack_commit", p)
  BY <1>0, <1>8, <1>9
<1>12. outbox' \in [Device -> Seq(Entry)]
  BY <1>1, <1>10, <1>11
<1>13. PartsOf(d, ref)' = Part
  BY <1>7 DEF PartsOf
<1>14. ASSUME NEW k \in DOMAIN new
       PROVE  /\ new[k].id = n.entries + k
              /\ Named(new[k])
              /\ new[k].op = "pack_commit" => RefOf(new[k]) = ref
  <2>. HIDE DEF ref
  <2>. QED
    BY <1>8, <1>9, <1>11 DEF Named
<1>15. Enqueues(d, new)
  <2>1. ASSUME NEW k \in DOMAIN new, new[k].op = "pack_commit"
        PROVE  {s.part : s \in {x \in pending'[d] : RefOf(x) = RefOf(new[k])}} = Part
    <3>1. RefOf(new[k]) = ref
      BY <1>14, <2>1
    <3>. HIDE DEF ref
    <3>. QED
      BY <1>7, <3>1
  <2>. HIDE DEF ref

  <2>. QED
    BY <1>6, <1>10, <1>11, <1>14, <2>1 DEF Enqueues, PartsOf
<1>16. undone' \in [Device -> SUBSET Disc]
  BY DEF Staging, Shaped
<1>. QED
  BY <1>2, <1>3, <1>6, <1>12, <1>15, <1>16

\* Nothing new at the vault, no new entries, and every staged part stays.
Keeps ==
  /\ Thinned
  /\ n'.entries = n.entries
  /\ UNCHANGED <<seen, done>>
  /\ \A d \in Device : \A r \in Ref : PartsOf(d, r) \subseteq PartsOf(d, r)'

\* What a step that makes entries leaves.
Adds == Shaped' /\ (\E d \in Device : \E new : Enqueues(d, new))

\* What most other steps leave.
Leaves == Shaped' /\ Keeps

\* commitScannedPack: the pack has the next number.
LEMMA CommitScannedPackIs ==
  ASSUME Shaped, NEW d \in Device, NEW c \in Disc, CommitScannedPack(d, c)
  PROVE  Adds
<1>. DEFINE p == n.packs + 1
<1>1. /\ n.work < MaxWork /\ Staging(d, c, p)
      /\ n' = [n EXCEPT !.packs = p, !.entries = @ + 2, !.work = @ + 1]
      /\ UNCHANGED <<engine, loads, vault, kept, seen, done>>
  BY DEF CommitScannedPack, vaultVars
<1>2. /\ n \in Counters /\ n.packs <= n.work /\ n.work <= MaxWork /\ MaxWork \in Nat
      /\ n.packs \in Nat /\ n.entries \in Nat /\ n.work \in Nat /\ n.fails \in Nat
      /\ n.discards \in Nat
      /\ p \in Pack /\ p <= n.work + 1
  BY <1>1, Counted, DevicePacksAssumption DEF Shaped
<1>3. n' = [packs |-> p, entries |-> n.entries + 2, work |-> n.work + 1, fails |-> n.fails,
            discards |-> n.discards]
  BY <1>1, <1>2 DEF Counters
<1>4. /\ n' \in Counters /\ n'.entries = n.entries + 2
      /\ n'.packs <= n'.work /\ n'.work <= MaxWork
  <2>1. p \in Nat /\ n.entries + 2 \in Nat /\ n.work + 1 \in Nat /\ n.work + 1 <= MaxWork
    BY <1>1, <1>2
  <2>2. n'.packs = p /\ n'.entries = n.entries + 2 /\ n'.work = n.work + 1
    BY <1>3
  <2>3. n' \in Counters
    BY <1>2, <1>3, <2>1 DEF Counters
  <2>. HIDE DEF p
  <2>. QED
    BY <1>2, <2>1, <2>2, <2>3
<1>. HIDE DEF p
<1>5. /\ row' \in [Device -> [Disc -> Row]]
      /\ files' \in [Device -> [Disc -> Pack \cup {NoPack}]]
      /\ pending' \in [Device -> SUBSET Staged]
      /\ outbox' \in [Device -> Seq(Entry)]
      /\ undone' \in [Device -> SUBSET Disc]
      /\ \E new : Enqueues(d, new)
  BY <1>1, <1>2, <1>4, StagingIs
<1>6. Shaped'
  BY <1>1, <1>4, <1>5 DEF Shaped
<1>. QED
  BY <1>5, <1>6 DEF Adds

\* importArchive: the pack is the archive's.
LEMMA ImportArchiveIs ==
  ASSUME Shaped, NEW d \in Device, NEW c \in Disc, ImportArchive(d, c)
  PROVE  Adds
<1>1. /\ Works(2) /\ Staging(d, c, Archived)
      /\ UNCHANGED <<engine, loads, vault, kept, seen, done>>
  BY DEF ImportArchive, vaultVars
<1>2. Archived \in Pack
  BY DevicePacksAssumption DEF Archived, Pack
<1>3. /\ n' \in Counters /\ n'.packs <= n'.work /\ n'.work <= MaxWork
      /\ n'.entries = n.entries + 2
  <2>1. /\ n' \in Counters /\ n'.packs = n.packs /\ n'.work = n.work + 1 /\ n'.work <= MaxWork
        /\ n'.entries = n.entries + 2
    BY <1>1, Counted
  <2>2. n.packs <= n.work /\ n.packs \in Nat /\ n.work \in Nat
    BY Counted DEF Shaped
  <2>3. n.packs <= n.work + 1
    BY <2>2
  <2>. QED
    BY <2>1, <2>3
<1>4. /\ row' \in [Device -> [Disc -> Row]]
      /\ files' \in [Device -> [Disc -> Pack \cup {NoPack}]]
      /\ pending' \in [Device -> SUBSET Staged]
      /\ outbox' \in [Device -> Seq(Entry)]
      /\ undone' \in [Device -> SUBSET Disc]
      /\ \E new : Enqueues(d, new)
  BY <1>1, <1>2, <1>3, StagingIs
<1>5. Shaped'
  BY <1>1, <1>3, <1>4 DEF Shaped
<1>. QED
  BY <1>4, <1>5 DEF Adds

\* deleteDisc queues one entry, and leaves what is staged.
LEMMA DeleteDiscIs ==
  ASSUME Shaped, NEW d \in Device, NEW c \in Disc, DeleteDisc(d, c)
  PROVE  Adds
<1>1. /\ Works(1)
      /\ row' = [row EXCEPT ![d][c].state = "deleted"]
      /\ files' = [files EXCEPT ![d][c] = NoPack]
      /\ outbox' = [outbox EXCEPT ![d] = Append(@, NewEntry(d, 1, c, "delete", NoPack))]
      /\ UNCHANGED <<pending, engine, loads, vault, kept, seen, done, undone>>
  BY DEF DeleteDisc, vaultVars
<1>2. /\ n' \in Counters /\ n'.packs <= n'.work /\ n'.work <= MaxWork
      /\ n'.entries = n.entries + 1
  <2>1. /\ n' \in Counters /\ n'.packs = n.packs /\ n'.work = n.work + 1 /\ n'.work <= MaxWork
        /\ n'.entries = n.entries + 1
    BY <1>1, Counted
  <2>2. n.packs <= n.work /\ n.packs \in Nat /\ n.work \in Nat
    BY Counted DEF Shaped
  <2>3. n.packs <= n.work + 1
    BY <2>2
  <2>. QED
    BY <2>1, <2>3
<1>3. row' \in [Device -> [Disc -> Row]] /\ files' \in [Device -> [Disc -> Pack \cup {NoPack}]]
  <2>1. row \in [Device -> [Disc -> Row]] /\ files \in [Device -> [Disc -> Pack \cup {NoPack}]]
    BY DEF Shaped
  <2>2. row[d][c] \in Row
    BY <2>1
  <2>3. [row[d][c] EXCEPT !.state = "deleted"] \in Row
    BY <2>2, RecordsKept
  <2>4. row' = [row EXCEPT ![d] = [row[d] EXCEPT ![c] = [row[d][c] EXCEPT !.state = "deleted"]]]
    BY <1>1, <2>1
  <2>. QED
    BY <1>1, <2>1, <2>3, <2>4
<1>4. PICK e : e = NewEntry(d, 1, c, "delete", NoPack)
  OBVIOUS
<1>5. e \in Entry /\ e.id = n.entries + 1 /\ e.op = "delete"
  BY <1>4, NewEntryIs
<1>6. PICK new : new = <<e>>
  OBVIOUS
<1>7. new \in Seq(Entry) /\ Len(new) = 1 /\ DOMAIN new = {1} /\ new[1] = e
  BY <1>5, <1>6
<1>8. outbox \in [Device -> Seq(Entry)]
  BY DEF Shaped
<1>9. outbox' = [outbox EXCEPT ![d] = @ \o new]
  <2>1. Append(outbox[d], e) = outbox[d] \o new
    BY <1>5, <1>6, <1>8
  <2>. QED
    BY <1>1, <1>4, <1>8, <2>1
<1>10. outbox' \in [Device -> Seq(Entry)]
  BY <1>7, <1>8, <1>9
<1>11. Enqueues(d, new)
  BY <1>1, <1>2, <1>5, <1>7, <1>9 DEF Enqueues, Named
<1>12. Shaped'
  BY <1>1, <1>2, <1>3, <1>10 DEF Shaped
<1>. QED
  BY <1>11, <1>12 DEF Adds
----------------------------------------------------------------------------
\* A sync goes on, and sends what is in its outbox or nothing.
LEMMA Goes ==
  ASSUME PacksTyped, NEW d \in Device, NEW e \in Engine, Goto(d, e),
         \A c \in Device : \A i \in DOMAIN outbox'[c] :
           \E j \in DOMAIN outbox[c] : Alike(outbox'[c][i], outbox[c][j]),
         \A x \in e.sent : \E i \in DOMAIN outbox'[d] : outbox'[d][i] = x
  PROVE  engine' \in [Device -> Engine] /\ Thinned
<1>1. engine \in [Device -> Engine] /\ engine' = [engine EXCEPT ![d] = e]
  BY DEF PacksTyped, Shaped, Goto
<1>2. engine'[d] = e /\ \A c \in Device \ {d} : engine'[c] = engine[c]
  BY <1>1
<1>3. \A x \in engine'[d].sent : \E y \in Out(d) : Alike(x, y)
  BY <1>2 DEF Out
<1>4. \A c \in Device \ {d} : \A x \in engine'[c].sent : \E y \in Out(c) : Alike(x, y)
  BY <1>2 DEF Out, Alike
<1>5. Thinned
  BY <1>3, <1>4 DEF Thinned
<1>. QED
  BY <1>1, <1>5

\* A sync ends, or another sends nothing.
LEMMA Ends ==
  ASSUME PacksTyped, NEW d \in Device, NEW e \in Engine, e.sent = {}, Goto(d, e),
         UNCHANGED outbox
  PROVE  engine' \in [Device -> Engine] /\ Thinned
<1>1. \A c \in Device : \A i \in DOMAIN outbox'[c] :
        \E j \in DOMAIN outbox[c] : Alike(outbox'[c][i], outbox[c][j])
  BY DEF Alike
<1>. QED
  BY <1>1, Goes

\* A step that touches no staged parts.
LEMMA Untouched ==
  ASSUME Thinned, UNCHANGED <<pending, seen, done>>, n'.entries = n.entries
  PROVE  Keeps
BY DEF Keeps, PartsOf

\* What is not named does not count.
LEMMA CountsKept ==
  ASSUME Shaped, UNCHANGED n \/ Fails \/ n' = [n EXCEPT !.discards = @ + 1]
  PROVE  /\ n' \in Counters /\ n'.packs <= n'.work /\ n'.work <= MaxWork
         /\ n'.entries = n.entries
<1>1. n \in Counters /\ n.packs <= n.work /\ n.work <= MaxWork
  BY DEF Shaped
<1>. QED
  BY <1>1, Counted

\* Discard drops an entry of an outbox; one that is on its way stays there.
LEMMA PacksDiscardIs ==
  ASSUME PacksTyped, NEW d \in Device, Discard(d)
  PROVE  Leaves
<1>1. PICK i \in DOMAIN outbox[d] :
        /\ n' = [n EXCEPT !.discards = @ + 1]
        /\ outbox' = [outbox EXCEPT ![d] = RemoveAt(@, i)]
        /\ undone' = [undone EXCEPT ![d] = IF outbox[d][i].op = "delete"
                                              THEN @ \cup {outbox[d][i].disc} ELSE @]
        /\ UNCHANGED <<row, files, pending, engine, loads, vault, kept, seen, done, inner>>
  BY DEF Discard, vaultVars
<1>2. outbox \in [Device -> Seq(Entry)] /\ Shaped
  BY DEF PacksTyped, Shaped
<1>3. PICK q \in Seq(Entry) : q = outbox[d]
  BY <1>2
<1>4. PICK rest : rest = RemoveAt(q, i)
  OBVIOUS
<1>5. /\ rest \in Seq(Entry) /\ Len(rest) = Len(q) - 1
      /\ \A k \in 1..(Len(q) - 1) : rest[k] = IF k < i THEN q[k] ELSE q[k + 1]
  <2>1. rest = SubSeq(q, 1, i - 1) \o SubSeq(q, i + 1, Len(q))
    BY <1>4 DEF RemoveAt
  <2>2. i \in 1..Len(q)
    BY <1>3
  <2>. QED
    BY <2>1, <2>2, WithoutOne
<1>6. /\ outbox'[d] = rest /\ outbox' \in [Device -> Seq(Entry)]
      /\ \A c \in Device \ {d} : outbox'[c] = outbox[c]

  BY <1>1, <1>2, <1>3, <1>4, <1>5
<1>7. i \in 1..Len(q) /\ Len(q) \in Nat /\ DOMAIN rest = 1..(Len(q) - 1) /\ DOMAIN q = 1..Len(q)
  BY <1>3, <1>5
<1>8. Thinned
  <2>1. \A k \in DOMAIN rest : \E j \in DOMAIN q : rest[k] = q[j]
    <3>1. ASSUME NEW k \in DOMAIN rest PROVE k \in DOMAIN q /\ k + 1 \in DOMAIN q
      BY <1>7
    <3>. QED
      BY <1>5, <1>7, <3>1
  <2>2. \A c \in Device \ {d} : \A k \in DOMAIN outbox'[c] :
          \E j \in DOMAIN outbox[c] : Alike(outbox'[c][k], outbox[c][j])
    BY <1>6 DEF Alike
  <2>3. \A k \in DOMAIN outbox'[d] : \E j \in DOMAIN outbox[d] : Alike(outbox'[d][k], outbox[d][j])
    BY <1>3, <1>6, <2>1 DEF Alike
  <2>4. \A c \in Device : \A x \in engine'[c].sent : \E y \in Out(c) : Alike(x, y)
    BY <1>1 DEF Out, Alike
  <2>. QED
    BY <2>2, <2>3, <2>4 DEF Thinned
<1>9. undone' \in [Device -> SUBSET Disc]
  <2>1. outbox[d][i].disc \in Disc
    <3>1. q[i] \in Entry
      BY <1>3
    <3>. QED
      BY <1>3, <3>1 DEF Entry
  <2>. QED
    BY <1>1, <1>2, <2>1 DEF Shaped
<1>10. /\ n' \in Counters /\ n'.packs <= n'.work /\ n'.work <= MaxWork
       /\ n'.entries = n.entries
  BY <1>1, <1>2, CountsKept
<1>11. Shaped'
  <2>1. /\ UNCHANGED <<row, files, pending, engine, loads, vault, kept, seen, done>>
        /\ outbox' \in [Device -> Seq(Entry)]
    BY <1>1, <1>6
  <2>. QED
    BY <1>2, <1>9, <1>10, <2>1 DEF Shaped
<1>12. UNCHANGED <<pending, seen, done>>
  BY <1>1
<1>. QED
  BY <1>8, <1>10, <1>11, <1>12, Untouched DEF Leaves


\* A closed tab.
LEMMA TabClosesIs ==
  ASSUME PacksTyped, NEW d \in Device, TabCloses(d)
  PROVE  Leaves
<1>1. /\ Goto(d, NotSyncing) /\ loads' = [loads EXCEPT ![d] = {}] /\ Fails
      /\ UNCHANGED <<row, files, pending, outbox, vault, kept, seen, done, inner, undone>>
  BY DEF TabCloses, vaultVars
<1>2. engine' \in [Device -> Engine] /\ Thinned
  BY <1>1, Ends, RecordsKept
<1>3. /\ n' \in Counters /\ n'.packs <= n'.work /\ n'.work <= MaxWork /\ n'.entries = n.entries
  BY <1>1, CountsKept DEF PacksTyped
<1>4. Shaped'
  BY <1>1, <1>2, <1>3 DEF PacksTyped, Shaped
<1>. QED
  BY <1>1, <1>2, <1>3, <1>4, Untouched DEF Leaves

\* A sync with nothing to upload starts.
LEMMA StartSyncIs ==
  ASSUME PacksTyped, NEW d \in Device, StartSync(d)
  PROVE  Leaves
<1>1. PICK e : e = Onward(outbox[d], pending[d], {}, {})
  OBVIOUS
<1>2. PICK q \in Seq(Entry) : q = outbox[d]
  BY DEF PacksTyped, Shaped
<1>3. Sends(e, q)
  <2>1. PICK todo \in SUBSET Ref, missing \in SUBSET AllParts : todo = {} /\ missing = {}
    OBVIOUS
  <2>2. PICK staged : staged = pending[d]
    OBVIOUS
  <2>3. e = Onward(q, staged, todo, missing)
    BY <1>1, <1>2, <2>1, <2>2
  <2>. QED
    BY <2>3, OnwardIs
<1>4. /\ Goto(d, e)
      /\ UNCHANGED <<row, files, pending, outbox, loads, vault, kept, seen, done, inner, undone, n>>
  BY <1>1 DEF StartSync, vaultVars
<1>5. \A c \in Device : \A i \in DOMAIN outbox'[c] :
        \E j \in DOMAIN outbox[c] : Alike(outbox'[c][i], outbox[c][j])
  BY <1>4 DEF Alike
<1>6. engine' \in [Device -> Engine] /\ Thinned
  <2>1. \A x \in e.sent : \E i \in DOMAIN outbox'[d] : outbox'[d][i] = x
    BY <1>2, <1>3, <1>4 DEF Sends
  <2>2. e \in Engine
    BY <1>3 DEF Sends
  <2>. QED
    BY <1>4, <1>5, <2>1, <2>2, Goes
<1>7. Shaped'
  BY <1>4, <1>6 DEF PacksTyped, Shaped
<1>. QED
  BY <1>4, <1>6, <1>7, Untouched DEF Leaves

\* blockPackCommit changes nothing the vault knows of an entry.
LEMMA BlockedCommitsIs ==
  ASSUME NEW q \in Seq(Entry), NEW refused
  PROVE  /\ BlockedCommits(q, refused) \in Seq(Entry)
         /\ \A i \in DOMAIN BlockedCommits(q, refused) :
              i \in DOMAIN q /\ Alike(BlockedCommits(q, refused)[i], q[i])
<1>. DEFINE new(i) == IF q[i].op = "pack_commit" /\ [disc |-> q[i].disc, pack |-> q[i].pack] \in refused
                        THEN [q[i] EXCEPT !.blocked = TRUE] ELSE q[i]
            p == [i \in DOMAIN q |-> new(i)]
<1>1. BlockedCommits(q, refused) = p
  BY DEF BlockedCommits
<1>2. ASSUME NEW i \in DOMAIN q PROVE new(i) \in Entry /\ Alike(new(i), q[i])
  <2>1. q[i] \in Entry
    OBVIOUS
  <2>2. /\ [q[i] EXCEPT !.blocked = TRUE] \in Entry
        /\ Alike([q[i] EXCEPT !.blocked = TRUE], q[i])
    BY <2>1 DEF Entry, Alike
  <2>. QED
    BY <2>1, <2>2 DEF Alike
<1>3. DOMAIN q = 1..Len(q) /\ Len(q) \in Nat
  OBVIOUS
<1>. HIDE DEF new
<1>4. p \in Seq(Entry) /\ DOMAIN p = DOMAIN q
  BY <1>2, <1>3
<1>. QED
  BY <1>1, <1>2, <1>4

\* A reservation: commits that are refused wait blocked, and the parts stay staged.
LEMMA ReserveIs ==
  ASSUME PacksTyped, NEW d \in Device, Reserve(d)
  PROVE  Leaves
<1>0. Shaped /\ outbox \in [Device -> Seq(Entry)] /\ pending \in [Device -> SUBSET Staged]
  BY DEF PacksTyped, Shaped
<1>. DEFINE todo == ToUpload(d)
            current == {r \in Ref : vault[r.disc].pack = r.pack}
<1>3. PICK dropped \in SUBSET (DOMAIN kept \ current) :
        \E refused \in SUBSET (todo \ ((DOMAIN kept \ dropped) \cup current)) :
          /\ IF dropped \cup refused = {} THEN n' = n ELSE Fails
          /\ kept' = [r \in (DOMAIN kept \ dropped) \cup (todo \ (refused \cup current)) |->
                        IF r \in DOMAIN kept \ dropped THEN kept[r] ELSE {}]
          /\ outbox' = [outbox EXCEPT ![d] = BlockedCommits(@, refused)]
          /\ Goto(d, Onward(outbox'[d], pending[d], todo \ refused,
                            {m \in AllParts : /\ RefOf(m) \in todo \ (refused \cup current)
                                              /\ m.part \notin kept'[RefOf(m)]}))
          /\ UNCHANGED <<row, files, pending, loads, vault, seen, done, inner, undone>>
  BY DEF Reserve
<1>4. PICK refused \in SUBSET (todo \ ((DOMAIN kept \ dropped) \cup current)) :
        /\ IF dropped \cup refused = {} THEN n' = n ELSE Fails
        /\ kept' = [r \in (DOMAIN kept \ dropped) \cup (todo \ (refused \cup current)) |->
                      IF r \in DOMAIN kept \ dropped THEN kept[r] ELSE {}]
        /\ outbox' = [outbox EXCEPT ![d] = BlockedCommits(@, refused)]
        /\ Goto(d, Onward(outbox'[d], pending[d], todo \ refused,
                          {m \in AllParts : /\ RefOf(m) \in todo \ (refused \cup current)
                                            /\ m.part \notin kept'[RefOf(m)]}))
        /\ UNCHANGED <<row, files, pending, loads, vault, seen, done, inner, undone>>
  BY <1>3
<1>5. todo \subseteq Ref
  <2>1. \A s \in pending[d] : RefOf(s) \in Ref
    BY <1>0, RecordsKept
  <2>. QED
    BY <2>1 DEF ToUpload
<1>. HIDE DEF todo, current
<1>6.
 DOMAIN kept' \subseteq Ref /\ \A r \in DOMAIN kept' : kept'[r] \subseteq Part
  <2>1. DOMAIN kept \subseteq Ref /\ \A r \in DOMAIN kept : kept[r] \subseteq Part
    BY <1>0 DEF Shaped
  <2>2. PICK S : S = (DOMAIN kept \ dropped) \cup (todo \ (refused \cup current))
    OBVIOUS
  <2>3. S \subseteq Ref
    BY <1>5, <2>1, <2>2
  <2>4. kept' = [r \in S |-> IF r \in DOMAIN kept \ dropped THEN kept[r] ELSE {}]
    BY <1>4, <2>2
  <2>. QED
    BY <2>1, <2>3, <2>4
<1>7. PICK q \in Seq(Entry) : q = outbox[d]
  BY <1>0
<1>8. PICK new : new = BlockedCommits(q, refused)
  OBVIOUS
<1>9. new \in Seq(Entry) /\ \A i \in DOMAIN new : i \in DOMAIN q /\ Alike(new[i], q[i])
  BY <1>8, BlockedCommitsIs
<1>10. /\ outbox'[d] = new /\ outbox' \in [Device -> Seq(Entry)]
       /\ \A c \in Device \ {d} : outbox'[c] = outbox[c]
  BY <1>0, <1>4, <1>7, <1>8, <1>9
<1>11. \A c \in Device : \A k \in DOMAIN outbox'[c] :
         \E j \in DOMAIN outbox[c] : Alike(outbox'[c][k], outbox[c][j])
  <2>1. \A c \in Device \ {d} : \A k \in DOMAIN outbox'[c] :
          \E j \in DOMAIN outbox[c] : Alike(outbox'[c][k], outbox[c][j])
    BY <1>10 DEF Alike
  <2>2. \A k \in DOMAIN outbox'[d] : \E j \in DOMAIN outbox[d] : Alike(outbox'[d][k], outbox[d][j])
    BY <1>7, <1>9, <1>10
  <2>. QED
    BY <2>1, <2>2
<1>12. PICK missing : missing = {m \in AllParts : /\ RefOf(m) \in todo \ (refused \cup current)
                                                  /\ m.part \notin kept'[RefOf(m)]}
  OBVIOUS
<1>13. PICK e : e = Onward(new, pending[d], todo \ refused, missing)
  OBVIOUS
<1>14. Sends(e, new)
  <2>1. PICK left \in SUBSET Ref, lacks \in SUBSET AllParts : left = todo \ refused /\ lacks = missing
    BY <1>5, <1>12
  <2>2. PICK staged : staged = pending[d]
    OBVIOUS
  <2>3. PICK es \in Seq(Entry) : es = new
    BY <1>9
  <2>4. e = Onward(es, staged, left, lacks)
    BY <1>13, <2>1, <2>2, <2>3
  <2>5. Sends(e, es)
    BY <2>4, OnwardIs
  <2>. QED
    BY <2>3, <2>5
<1>17. Goto(d, e)
  BY <1>4, <1>10, <1>12, <1>13
<1>18. engine' \in [Device -> Engine] /\ Thinned
  <2>1. e \in Engine /\ \A x \in e.sent : \E i \in DOMAIN outbox'[d] : outbox'[d][i] = x
    BY <1>10, <1>14 DEF Sends
  <2>. QED
    BY <1>11, <1>17, <2>1, Goes
<1>19. /\ n' \in Counters /\ n'.packs <= n'.work /\ n'.work <= MaxWork
       /\ n'.entries = n.entries
  BY <1>0, <1>4, CountsKept
<1>20. Shaped'
  <2>1. UNCHANGED <<row, files, pending, loads, vault, seen, done, undone>>
    BY <1>4
  <2>. QED
    BY <1>0, <1>6, <1>10, <1>18, <1>19, <2>1 DEF Shaped
<1>21. UNCHANGED <<pending, seen, done>>
  BY <1>4
<1>. QED
  BY <1>18, <1>19, <1>20, <1>21, Untouched DEF Leaves

\* An upload marks a part, and leaves it staged.
LEMMA UploadPartIs ==
  ASSUME PacksTyped, NEW d \in Device, UploadPart(d)
  PROVE  Leaves
<1>0. /\ Shaped /\ pending \in [Device -> SUBSET Staged] /\ engine \in [Device -> Engine]
      /\ DOMAIN kept \subseteq Ref
      /\ \A r \in DOMAIN kept : kept[r] \subseteq Part
  BY DEF PacksTyped, Shaped
<1>1. PICK s \in pending[d] :
        LET r == RefOf(s)
            p == [disc |-> s.disc, pack |-> s.pack, part |-> s.part]
            stored == IF p \in engine[d].missing /\ r \in DOMAIN kept
                        THEN [kept EXCEPT ![r] = @ \cup {s.part}] ELSE kept
            refused == p \in engine[d].missing /\ r \notin DOMAIN kept
        IN /\ \/ /\ ~refused /\ kept' = stored
                 /\ pending' = [pending EXCEPT ![d] = (@ \ {s}) \cup {[s EXCEPT !.uploaded = TRUE]}]
                 /\ Goto(d, Onward(outbox[d], pending'[d], engine[d].todo, engine[d].missing))
                 /\ UNCHANGED n
              \/ /\ UNCHANGED pending /\ kept' \in {kept, stored}
                 /\ Goto(d, NotSyncing)
                 /\ IF refused THEN n' = n ELSE Fails
           /\ UNCHANGED <<row, files, outbox, loads, vault, seen, done, inner, undone>>
  BY DEF UploadPart
<1>2. UNCHANGED <<row, files, outbox, loads, vault, seen, done, inner, undone>>
  BY <1>1
<1>3. PICK stored : stored = [kept EXCEPT ![RefOf(s)] = @ \cup {s.part}]
  OBVIOUS
<1>4. s \in Staged /\ RefOf(s) \in Ref /\ s.part \in Part
  BY <1>0, RecordsKept
<1>5. RefOf(s) \in DOMAIN kept =>
        DOMAIN stored \subseteq Ref /\ \A r \in DOMAIN stored : stored[r] \subseteq Part
  BY <1>0, <1>3, <1>4
<1>6. kept' = kept \/ (RefOf(s) \in DOMAIN kept /\ kept' = stored)
  BY <1>1, <1>3
<1>7. DOMAIN kept' \subseteq Ref /\ \A r \in DOMAIN kept' : kept'[r] \subseteq Part
  BY <1>0, <1>5, <1>6
<1>8. CASE /\ pending' = [pending EXCEPT ![d] = (@ \ {s}) \cup {[s EXCEPT !.uploaded = TRUE]}]
           /\ Goto(d, Onward(outbox[d], pending'[d], engine[d].todo, engine[d].missing))
           /\ UNCHANGED n
  <2>1. PICK t : t = [s EXCEPT !.uploaded = TRUE]
    OBVIOUS
  <2>2. t \in Staged /\ RefOf(t) = RefOf(s) /\ t.part = s.part
    BY <1>4, <2>1, RecordsKept
  <2>3. /\ pending'[d] = (pending[d] \ {s}) \cup {t}
        /\ \A c \in Device \ {d} : pending'[c] = pending[c]
        /\ pending' \in [Device -> SUBSET Staged]
    BY <1>0, <1>8, <2>1, <2>2
  <2>4. ASSUME NEW c \in Device, NEW r \in Ref, NEW x \in pending[c], RefOf(x) = r
        PROVE  \E y \in pending'[c] : RefOf(y) = r /\ y.part = x.part
    <3>1. CASE c = d /\ x = s
      BY <2>2, <2>3, <2>4, <3>1
    <3>2. CASE c = d /\ x # s
      BY <2>3, <2>4, <3>2
    <3>3. CASE c # d
      BY <2>3, <2>4, <3>3
    <3>. QED
      BY <3>1, <3>2, <3>3
  <2>5. \A c \in Device : \A r \in Ref : PartsOf(c, r) \subseteq PartsOf(c, r)'
    BY <2>4 DEF PartsOf
  <2>6. PICK q \in Seq(Entry) : q = outbox[d]
    BY <1>0 DEF Shaped
  <2>7. PICK staged : staged = pending'[d]
    OBVIOUS
  <2>8. PICK e : e = Onward(q, staged, engine[d].todo, engine[d].missing)
    OBVIOUS
  <2>9. Sends(e, q)
    <3>1. engine[d].todo \in SUBSET Ref /\ engine[d].missing \in SUBSET AllParts
      BY <1>0 DEF Engine
    <3>. QED
      BY <2>8, <3>1, OnwardIs
  <2>10. Goto(d, e)
    BY <1>8, <2>6, <2>7, <2>8
  <2>11. engine' \in [Device -> Engine] /\ Thinned
    <3>1. \A c \in Device : \A i \in DOMAIN outbox'[c] :
            \E j \in DOMAIN outbox[c] : Alike(outbox'[c][i], outbox[c][j])
      BY <1>2 DEF Alike
    <3>2. \A x \in e.sent : \E i \in DOMAIN outbox'[d] : outbox'[d][i] = x
      BY <1>2, <2>6, <2>9 DEF Sends
    <3>3. e \in Engine
      BY <2>9 DEF Sends
    <3>. QED
      BY <2>10, <3>1, <3>2, <3>3, Goes
  <2>12. Shaped'
    <3>1. UNCHANGED <<row, files, outbox, loads, vault, seen, done, undone, n>>
      BY <1>2, <1>8
    <3>. QED
      BY <1>0, <1>7, <2>3, <2>11, <3>1 DEF Shaped
  <2>13. n'.entries = n.entries /\ UNCHANGED <<seen, done>>
    BY <1>2, <1>8
  <2>. QED
    BY <2>5, <2>11, <2>12, <2>13 DEF Leaves, Keeps
<1>9. CASE UNCHANGED pending /\ Goto(d, NotSyncing) /\ (UNCHANGED n \/ Fails)
  <2>1. engine' \in [Device -> Engine] /\ Thinned
    BY <1>2, <1>9, Ends, RecordsKept
  <2>2. /\ n' \in Counters /\ n'.packs <= n'.work /\ n'.work <= MaxWork
        /\ n'.entries = n.entries
    BY <1>0, <1>9, CountsKept
  <2>3. Shaped'
    <3>1. UNCHANGED <<row, files, pending, outbox, loads, vault, seen, done, undone>>
      BY <1>2, <1>9
    <3>. QED
      BY <1>0, <1>7, <2>1, <2>2, <3>1 DEF Shaped
  <2>4. Keeps
    BY <1>2, <1>9, <2>1, <2>2, Untouched
  <2>. QED
    BY <2>3, <2>4 DEF Leaves
<1>. QED
  BY <1>1, <1>8, <1>9

\* The end of a pull brings rows of the vault, and starts loads of packs they have.
LEMMA PullIs ==
  ASSUME PacksTyped, NEW d \in Device, Pull(d)
  PROVE  Leaves
<1>0. /\ Shaped
      /\ row \in [Device -> [Disc -> Row]] /\ vault \in [Disc -> Row]
      /\ files \in [Device -> [Disc -> Pack \cup {NoPack}]]
      /\ loads \in [Device -> SUBSET Load]
  BY DEF PacksTyped, Shaped
<1>. DEFINE new == Pulled(d)
            needed == {c \in Disc : NeedsPack(d, c, new[c])}
            catalogs == [c \in Disc |-> IF new[c].state = "deleted" THEN NoPack ELSE files[d][c]]
            started == {[disc |-> c, pack |-> new[c].pack, live |-> TRUE] : c \in needed}
            step == IF needed = {} THEN "idle" ELSE "load"
<1>1. /\ row' = [row EXCEPT ![d] = new]
      /\ files' = [files EXCEPT ![d] = catalogs]
      /\ loads' = [loads EXCEPT ![d] = @ \cup started]
      /\ Goto(d, [NotSyncing EXCEPT !.step = step])
      /\ undone' = [undone EXCEPT ![d] = {c \in @ : vault[c].version <= row[d][c].version}]
      /\ UNCHANGED <<pending, outbox, vault, kept, seen, done, inner, n>>
  BY DEF Pull, vaultVars
<1>2. new \in [Disc -> Row]
  BY <1>0 DEF Pulled
<1>3. started \subseteq Load
  <2>1. ASSUME NEW c \in needed
        PROVE  [disc |-> c, pack |-> new[c].pack, live |-> TRUE] \in Load
    <3>1. c \in Disc /\ NeedsPack(d, c, new[c])
      OBVIOUS
    <3>. HIDE DEF new
    <3>2. new[c] \in Row /\ new[c].pack # NoPack
      BY <1>2, <3>1 DEF NeedsPack
    <3>3. new[c].pack \in Pack
      BY <3>2, RecordsKept
    <3>. QED
      BY <3>1, <3>3 DEF Load
  <2>. HIDE DEF needed, new
  <2>. QED
    BY <2>1
<1>4. step \in {"idle", "load"}
  OBVIOUS
<1>. HIDE DEF new, needed, started, step
<1>5. catalogs \in [Disc -> Pack \cup {NoPack}]
  BY <1>0
<1>. HIDE DEF catalogs
<1>6. PICK e : e = [NotSyncing EXCEPT !.step = step]
  OBVIOUS
<1>7. e \in Engine /\ e.sent = {}
  BY <1>4, <1>6, RecordsKept, SMTT(30)
<1>8. engine' \in [Device -> Engine] /\ Thinned
  <2>1. Goto(d, e) /\ outbox' = outbox
    BY <1>1, <1>6
  <2>. QED
    BY <1>7, <2>1, Ends
<1>9. /\ row' \in [Device -> [Disc -> Row]]
      /\ files' \in [Device -> [Disc -> Pack \cup {NoPack}]]
      /\ loads' \in [Device -> SUBSET Load]
  BY <1>0, <1>1, <1>2, <1>3, <1>5
<1>10. Shaped'
  <2>1. UNCHANGED <<pending, outbox, vault, kept, seen, done, n>>
    BY <1>1
  <2>2. undone' \in [Device -> SUBSET Disc]
    BY <1>0, <1>1 DEF Shaped
  <2>. QED
    BY <1>0, <1>8, <1>9, <2>1, <2>2 DEF Shaped
<1>11. Keeps
  BY <1>1, <1>8, Untouched
<1>. QED
  BY <1>10, <1>11 DEF Leaves

\* A load puts a pack's files on the device, or fails.
LEMMA LoadDoneIs ==
  ASSUME PacksTyped, NEW d \in Device, NEW c \in Disc, LoadDone(d, c)
  PROVE  Leaves
<1>0. /\ Shaped
      /\ files \in [Device -> [Disc -> Pack \cup {NoPack}]]
      /\ loads \in [Device -> SUBSET Load]
  BY DEF PacksTyped, Shaped
<1>1. PICK l \in {x \in loads[d] : x.disc = c} :
        LET orphaned == {[x EXCEPT !.live = FALSE] : x \in loads[d] \ {l}}
            failed == /\ files' = files
                      /\ loads' = [loads EXCEPT ![d] = IF l.live THEN orphaned ELSE @ \ {l}]
                      /\ IF l.live THEN Goto(d, NotSyncing) ELSE UNCHANGED engine
        IN /\ \/ /\ inner[l.pack] = l.disc
                 /\ files' = [files EXCEPT ![d][l.disc] = l.pack]
                 /\ loads' = [loads EXCEPT ![d] = @ \ {l}]
                 /\ IF l.live /\ \A x \in loads'[d] : ~x.live THEN Goto(d, NotSyncing)
                                                           ELSE UNCHANGED engine
                 /\ UNCHANGED n
              \/ inner[l.pack] # l.disc /\ failed /\ UNCHANGED n
              \/ inner[l.pack] = l.disc /\ failed /\ Fails
           /\ UNCHANGED <<row, pending, outbox, vault, kept, seen, done, inner, undone>>
  BY DEF LoadDone, vaultVars
<1>2. UNCHANGED <<row, pending, outbox, vault, kept, seen, done, undone>>
  BY <1>1
<1>3. Goto(d, NotSyncing) \/ UNCHANGED engine
  BY <1>1
<1>4. UNCHANGED n \/ Fails
  BY <1>1
<1>5. l \in Load /\ l.disc \in Disc /\ l.pack \in Pack
  BY <1>0 DEF Load
<1>6. files' = files \/ files' = [files EXCEPT ![d][l.disc] = l.pack]
  BY <1>1
<1>7. files' \in [Device -> [Disc -> Pack \cup {NoPack}]]
  BY <1>0, <1>5, <1>6
<1>. DEFINE orphaned == {[x EXCEPT !.live = FALSE] : x \in loads[d] \ {l}}
<1>8. orphaned \subseteq Load
  <2>1. \A x \in Load : [x EXCEPT !.live = FALSE] \in Load
    BY DEF Load
  <2>2. loads[d] \subseteq Load
    BY <1>0
  <2>. QED
    BY <2>1, <2>2
<1>9. loads' = [loads EXCEPT ![d] = orphaned] \/ loads' = [loads EXCEPT ![d] = @ \ {l}]
  BY <1>1
<1>. HIDE DEF orphaned
<1>10. loads' \in [Device -> SUBSET Load]
  BY <1>0, <1>8, <1>9
<1>11. engine' \in [Device -> Engine] /\ Thinned
  <2>1. CASE Goto(d, NotSyncing)
    BY <1>2, <2>1, Ends, RecordsKept
  <2>2. CASE UNCHANGED engine
    BY <1>2, <2>2 DEF PacksTyped, Shaped, Thinned, Alike, Out
  <2>. QED
    BY <1>3, <2>1, <2>2
<1>12. /\ n' \in Counters /\ n'.packs <= n'.work /\ n'.work <= MaxWork
       /\ n'.entries = n.entries
  BY <1>0, <1>4, CountsKept
<1>13. Shaped'
  BY <1>0, <1>2, <1>7, <1>10, <1>11, <1>12 DEF Shaped
<1>14. Keeps
  BY <1>2, <1>11, <1>12, Untouched
<1>. QED
  BY <1>13, <1>14 DEF Leaves
----------------------------------------------------------------------------
(***************************************************************************)
(* A push, and the invariant.                                              *)
(***************************************************************************)
\* Entry x, as the vault knows it.
Known(x) ==
  /\ x.id \in 1..n.entries
  /\ x.op = "pack_commit" /\ x.id \in DOMAIN seen => RefOf(x) \in done

\* What the entries and the vault's memory of them have in common.
PartsInv ==
  /\ PacksTyped
  /\ DOMAIN seen \subseteq 1..n.entries
  /\ \A d \in Device : \A x \in Out(d) : Known(x)
  /\ \A d, c \in Device : \A x \in Out(d), y \in Out(c) : x.id = y.id => Alike(x, y)
  /\ PartsKept

\* Entries leave or change where only their device knows of it; the vault learns of some, and
\* parts go of packs that it has committed.
Settles ==
  /\ Thinned
  /\ n'.entries = n.entries
  /\ done \subseteq done'
  /\ \A id \in DOMAIN seen' \ DOMAIN seen : \E d \in Device : \E x \in Out(d) :
       x.id = id /\ (x.op = "pack_commit" => RefOf(x) \in done')
  /\ \A d \in Device : \A r \in Ref \ done' : PartsOf(d, r) \subseteq PartsOf(d, r)'

\* The rows and packs of the vault after an entry.
LEMMA AppliedIs ==
  ASSUME Shaped, NEW e \in Entry, Named(e), Applied(e)
  PROVE  /\ vault' \in [Disc -> Row]
         /\ DOMAIN kept' \subseteq Ref
         /\ \A r \in DOMAIN kept' : kept'[r] \subseteq Part
         /\ DOMAIN seen' \subseteq DOMAIN seen \cup {e.id}
         /\ \A i \in DOMAIN seen' : seen'[i] \in Nat
         /\ done' = IF e.op = "pack_commit" THEN done \cup {RefOf(e)} ELSE done
         /\ done' \subseteq Ref
<1>. DEFINE v == vault[e.disc]
            new == CASE e.op = "upsert" -> [v EXCEPT !.state = "live"]
                     [] e.op = "delete" -> [v EXCEPT !.state = "deleted"]
                     [] e.op = "pack_commit" -> [v EXCEPT !.pack = e.pack]
            next == v.version + 1
<1>1. /\ \/ UNCHANGED <<vault, seen>>
         \/ /\ vault' = [vault EXCEPT ![e.disc] = [new EXCEPT !.version = next]]
            /\ seen' = [i \in DOMAIN seen \cup {e.id} |-> IF i = e.id THEN next ELSE seen[i]]
      /\ kept' = IF new.pack = v.pack THEN kept
                 ELSE [r \in DOMAIN kept \ {[disc |-> e.disc, pack |-> v.pack]} |-> kept[r]]
      /\ done' = IF e.op = "pack_commit" THEN done \cup {RefOf(e)} ELSE done
  BY DEF Applied
<1>2. /\ vault \in [Disc -> Row] /\ DOMAIN kept \subseteq Ref /\ done \subseteq Ref
      /\ \A i \in DOMAIN seen : seen[i] \in Nat
      /\ \A r \in DOMAIN kept : kept[r] \subseteq Part
  BY DEF Shaped
<1>3. e.disc \in Disc /\ e.op \in {"upsert", "pack_commit", "delete"}
  BY DEF Entry
<1>4. v \in Row
  BY <1>2, <1>3
<1>. HIDE DEF v
<1>5. new \in Row
  <2>1. CASE e.op = "upsert"
    BY <1>4, <2>1, RecordsKept
  <2>2. CASE e.op = "delete"
    BY <1>4, <2>2, RecordsKept
  <2>3. CASE e.op = "pack_commit"
    <3>1. e.pack \in Pack
      BY <2>3 DEF Named
    <3>2. [v EXCEPT !.pack = e.pack] \in Row
      BY <1>4, <3>1, RecordsKept
    <3>. QED
      BY <2>3, <3>2
  <2>. QED
    BY <1>3, <2>1, <2>2, <2>3
<1>. HIDE DEF new
<1>6. next \in Nat /\ [new EXCEPT !.version = next] \in Row
  BY <1>4, <1>5, RecordsKept
<1>. HIDE DEF next
<1>7. vault' \in [Disc -> Row]
  BY <1>1, <1>2, <1>6
<1>10. /\ DOMAIN seen' \subseteq DOMAIN seen \cup {e.id}
       /\ \A i \in DOMAIN seen' : seen'[i] \in Nat
  BY <1>1, <1>2, <1>6
<1>8. DOMAIN kept' \subseteq Ref /\ \A r \in DOMAIN kept' : kept'[r] \subseteq Part
  <2>1. CASE new.pack = v.pack
    BY <1>1, <1>2, <2>1
  <2>2. CASE new.pack # v.pack
    <3>1. PICK S : S = DOMAIN kept \ {[disc |-> e.disc, pack |-> v.pack]}
      OBVIOUS
    <3>2. kept' = [r \in S |-> kept[r]] /\ S \subseteq DOMAIN kept
      BY <1>1, <2>2, <3>1
    <3>. QED
      BY <1>2, <3>2
  <2>. QED
    BY <2>1, <2>2
<1>9. done' \subseteq Ref
  <2>1. e.op = "pack_commit" => RefOf(e) \in Ref
    BY <1>3 DEF Named, RefOf, Ref
  <2>. QED
    BY <1>1, <1>2, <2>1
<1>. QED
  BY <1>1, <1>7, <1>8, <1>9, <1>10

\* An applied entry goes, and the later ones of its disc are made on its version.
LEMMA RebasedIs ==
  ASSUME NEW d \in Device, NEW q \in Seq(Entry), outbox[d] = q, NEW e \in Entry,
         vault'[e.disc].version \in Nat, \A i \in DOMAIN seen : seen[i] \in Nat
  PROVE  /\ Rebased(d, e) \in Seq(Entry)
         /\ \A i \in DOMAIN Rebased(d, e) : \E j \in DOMAIN q : Alike(Rebased(d, e)[i], q[j])
<1>. DEFINE I == {i \in DOMAIN q : q[i].id # e.id}
<1>1. PICK rest : rest = Kept(q, I)
  OBVIOUS
<1>2. PICK version \in Nat :
        version = IF e.id \in DOMAIN seen THEN seen[e.id] ELSE vault'[e.disc].version
  OBVIOUS
<1>3. I \subseteq DOMAIN q
  OBVIOUS
<1>. DEFINE new(i) == IF rest[i].disc = e.disc /\ rest[i].base < version
                        THEN [rest[i] EXCEPT !.base = version] ELSE rest[i]
            p == [i \in DOMAIN rest |-> new(i)]
<1>4. Rebased(d, e) = p
  BY <1>1, <1>2 DEF Rebased
<1>. HIDE DEF I
<1>5. /\ rest \in Seq(Entry)
      /\ \A i \in DOMAIN rest : \E j \in DOMAIN q : rest[i] = q[j]
  <2>1. Cardinality(I) \in Nat
    BY <1>3, KeptOf
  <2>2. PICK at \in [1..Cardinality(I) -> I] :
          /\ \A i \in I : \E k \in 1..Cardinality(I) : at[k] = i
          /\ \A k, l \in 1..Cardinality(I) : k < l => at[k] < at[l]
          /\ Kept(q, I) = [k \in 1..Cardinality(I) |-> q[at[k]]]
          /\ Kept(q, I) \in Seq(Entry)
          /\ Len(Kept(q, I)) = Cardinality(I)
    BY <1>3, KeptOf, SMTT(30)
  <2>. QED
    BY <1>1, <1>3, <2>1, <2>2

<1>6. ASSUME NEW i \in DOMAIN rest PROVE new(i) \in Entry /\ Alike(new(i), rest[i])
  <2>1. PICK x \in Entry : x = rest[i]
    BY <1>5
  <2>2. [x EXCEPT !.base = version] \in Entry /\ Alike([x EXCEPT !.base = version], x)
    BY <1>2 DEF Entry, Alike
  <2>. QED
    BY <2>1, <2>2 DEF Alike
<1>7. DOMAIN rest = 1..Len(rest) /\ Len(rest) \in Nat
  BY <1>5
<1>. HIDE DEF new
<1>8. p \in Seq(Entry) /\ DOMAIN p = DOMAIN rest
  BY <1>6, <1>7
<1>9. \A i \in DOMAIN p : \E j \in DOMAIN q : Alike(p[i], q[j])
  BY <1>5, <1>6, <1>8
<1>. QED
  BY <1>4, <1>8, <1>9

\* An entry that is refused stays, blocked.
LEMMA BlockedIs ==
  ASSUME NEW d \in Device, NEW q \in Seq(Entry), outbox[d] = q, NEW e \in Entry
  PROVE  /\ Blocked(d, e) \in Seq(Entry)
         /\ \A i \in DOMAIN Blocked(d, e) : \E j \in DOMAIN q : Alike(Blocked(d, e)[i], q[j])
<1>. DEFINE new(i) == [q[i] EXCEPT !.blocked = @ \/ q[i].id = e.id]
            p == [i \in DOMAIN q |-> new(i)]
<1>1. Blocked(d, e) = p
  BY DEF Blocked
<1>2. ASSUME NEW i \in DOMAIN q PROVE new(i) \in Entry /\ Alike(new(i), q[i])
  <2>1. PICK x \in Entry : x = q[i]
    OBVIOUS
  <2>2. PICK b \in BOOLEAN : b = (x.blocked \/ x.id = e.id)
    OBVIOUS
  <2>3. [x EXCEPT !.blocked = b] \in Entry /\ Alike([x EXCEPT !.blocked = b], x)
    BY DEF Entry, Alike
  <2>4. new(i) = [x EXCEPT !.blocked = b]
    BY <2>1, <2>2
  <2>. QED
    BY <2>1, <2>3, <2>4
<1>3. DOMAIN q = 1..Len(q) /\ Len(q) \in Nat
  OBVIOUS
<1>. HIDE DEF new
<1>4. p \in Seq(Entry) /\ DOMAIN p = DOMAIN q
  BY <1>2, <1>3
<1>. QED
  BY <1>1, <1>2, <1>4

\* A push: an entry that is applied is so now, or is one the vault has seen.
LEMMA PushIs ==
  ASSUME PartsInv, NEW d \in Device, Push(d)
  PROVE  Shaped' /\ Settles
<1>0. /\ PacksTyped /\ Shaped
      /\ outbox \in [Device -> Seq(Entry)] /\ pending \in [Device -> SUBSET Staged]
      /\ engine \in [Device -> Engine] /\ vault \in [Disc -> Row]
      /\ \A i \in DOMAIN seen : seen[i] \in Nat
  BY DEF PartsInv, PacksTyped, Shaped
<1>1. PICK e \in engine[d].sent : \E answer \in Answers(e) :
        /\ \/ /\ IF answer = "applied" THEN Applied(e) ELSE UNCHANGED <<vault, kept, seen, done>>
              /\ Settled(d, e, answer)
              /\ Goto(d, IF answer = "deferred" THEN [NotSyncing EXCEPT !.step = "pull"]
                         ELSE Onward(outbox'[d], pending'[d], {}, {}))
              /\ IF LimitMet(e, answer) THEN Fails ELSE UNCHANGED n
           \/ /\ \/ answer = "applied" /\ Applied(e)
                 \/ UNCHANGED <<vault, kept, seen, done>>
              /\ Goto(d, NotSyncing) /\ Fails
              /\ UNCHANGED <<outbox, pending>>
        /\ UNCHANGED <<row, files, loads, inner, undone>>
  BY DEF Push, vaultVars
<1>2. PICK answer \in Answers(e) :
        /\ \/ /\ IF answer = "applied" THEN Applied(e) ELSE UNCHANGED <<vault, kept, seen, done>>
              /\ Settled(d, e, answer)
              /\ Goto(d, IF answer = "deferred" THEN [NotSyncing EXCEPT !.step = "pull"]
                         ELSE Onward(outbox'[d], pending'[d], {}, {}))
              /\ IF LimitMet(e, answer) THEN Fails ELSE UNCHANGED n
           \/ /\ \/ answer = "applied" /\ Applied(e)
                 \/ UNCHANGED <<vault, kept, seen, done>>
              /\ Goto(d, NotSyncing) /\ Fails
              /\ UNCHANGED <<outbox, pending>>
        /\ UNCHANGED <<row, files, loads, inner, undone>>
  BY <1>1
<1>3. PICK q \in Seq(Entry) : q = outbox[d]
  BY <1>0
<1>4. e \in Entry /\ e \in Out(d)
  BY <1>0, <1>1 DEF Engine, Out
<1>5. Named(e) /\ Known(e) /\ e.disc \in Disc
  BY <1>0, <1>4 DEF PartsInv, PacksTyped, Entry
<1>6. /\ answer \in {"duplicate", "deferred", "refused", "applied"}
      /\ answer = "duplicate" => e.id \in DOMAIN seen
  BY DEF Answers
<1>7. UNCHANGED <<row, files, loads, undone>>
  BY <1>2
<1>8. Applied(e) \/ UNCHANGED <<vault, kept, seen, done>>
  BY <1>2
<1>9. /\ vault' \in [Disc -> Row]
      /\ DOMAIN kept' \subseteq Ref
      /\ \A r \in DOMAIN kept' : kept'[r] \subseteq Part
      /\ done' \subseteq Ref
      /\ done \subseteq done'
      /\ DOMAIN seen' \subseteq DOMAIN seen \cup {e.id}
      /\ \A i \in DOMAIN seen' : seen'[i] \in Nat
      /\ Applied(e) \/ e.id \in DOMAIN seen' => (e.op = "pack_commit" => RefOf(e) \in done')
  <2>1. CASE Applied(e)
    BY <1>0, <1>4, <1>5, <2>1, AppliedIs
  <2>2. CASE UNCHANGED <<vault, kept, seen, done>> /\ ~Applied(e)
    <3>1. /\ vault' = vault /\ kept' = kept /\ seen' = seen /\ done' = done
      BY <2>2
    <3>. QED
      BY <1>0, <1>5, <2>2, <3>1 DEF Shaped, Known
  <2>. QED
    BY <1>8, <2>1, <2>2
<1>10. \A id \in DOMAIN seen' \ DOMAIN seen : \E c \in Device : \E x \in Out(c) :
         x.id = id /\ (x.op = "pack_commit" => RefOf(x) \in done')
  BY <1>4, <1>9
<1>11. /\ n' \in Counters /\ n'.packs <= n'.work /\ n'.work <= MaxWork
       /\ n'.entries = n.entries
  BY <1>0, <1>2, CountsKept
<1>12. ASSUME Settled(d, e, answer),
              answer \in {"applied", "duplicate"} /\ e.op = "pack_commit" => RefOf(e) \in done'
       PROVE  /\ outbox' \in [Device -> Seq(Entry)]
              /\ \A c \in Device \ {d} : outbox'[c] = outbox[c]
              /\ \A i \in DOMAIN outbox'[d] : \E j \in DOMAIN q : Alike(outbox'[d][i], q[j])
              /\ pending' \in [Device -> SUBSET Staged]
              /\ \A c \in Device : \A r \in Ref \ done' : PartsOf(c, r) \subseteq PartsOf(c, r)'
  <2>1. CASE answer \in {"applied", "duplicate"}
    <3>1. PICK new : new = Rebased(d, e)
      OBVIOUS
    <3>2. outbox' = [outbox EXCEPT ![d] = new] /\ pending' = Unstaged(d, e)
      BY <2>1, <1>12, <3>1 DEF Settled
    <3>3. vault'[e.disc].version \in Nat
      <4>1. vault'[e.disc] \in Row
        BY <1>5, <1>9
      <4>. QED
        BY <4>1, RecordsKept
    <3>4. new \in Seq(Entry) /\ \A i \in DOMAIN new : \E j \in DOMAIN q : Alike(new[i], q[j])
      BY <1>0, <1>3, <1>4, <3>1, <3>3, RebasedIs
    <3>5. CASE e.op = "pack_commit"
      <4>1. PICK left : left = {s \in pending[d] : RefOf(s) # RefOf(e)}
        OBVIOUS
      <4>2. pending' = [pending EXCEPT ![d] = left]
        BY <3>2, <3>5, <4>1 DEF Unstaged
      <4>3. pending' \in [Device -> SUBSET Staged]
        BY <1>0, <4>1, <4>2
      <4>4. pending'[d] = left /\ \A c \in Device \ {d} : pending'[c] = pending[c]
        BY <1>0, <4>2
      <4>5. RefOf(e) \in done'
        BY <1>12, <2>1, <3>5
      <4>6. ASSUME NEW c \in Device, NEW r \in Ref \ done', NEW x \in pending[c], RefOf(x) = r
            PROVE  x \in pending'[c]
        BY <4>1, <4>4, <4>5, <4>6
      <4>7. \A c \in Device : \A r \in Ref \ done' : PartsOf(c, r) \subseteq PartsOf(c, r)'
        BY <4>6 DEF PartsOf
      <4>. QED
        BY <1>0, <3>2, <3>4, <4>3, <4>7
    <3>6. CASE e.op # "pack_commit"
      <4>1. pending' = pending
        BY <3>2, <3>6 DEF Unstaged
      <4>. QED
        BY <1>0, <3>2, <3>4, <4>1 DEF PartsOf
    <3>. QED
      BY <3>5, <3>6
  <2>2. CASE answer = "refused"
    <3>1. PICK new : new = Blocked(d, e)
      OBVIOUS
    <3>2. outbox' = [outbox EXCEPT ![d] = new] /\ pending' = pending
      BY <2>2, <1>12, <3>1 DEF Settled
    <3>3. new \in Seq(Entry) /\ \A i \in DOMAIN new : \E j \in DOMAIN q : Alike(new[i], q[j])
      BY <1>3, <1>4, <3>1, BlockedIs
    <3>. QED
      BY <1>0, <3>2, <3>3 DEF PartsOf
  <2>3. CASE answer = "deferred"
    <3>1. outbox' = outbox /\ pending' = pending
      BY <2>3, <1>12 DEF Settled
    <3>. QED
      BY <1>0, <1>3, <3>1 DEF PartsOf, Alike
  <2>. QED
    BY <1>6, <2>1, <2>2, <2>3
<1>13. CASE /\ IF answer = "applied" THEN Applied(e) ELSE UNCHANGED <<vault, kept, seen, done>>
            /\ Settled(d, e, answer)
            /\ Goto(d, IF answer = "deferred" THEN [NotSyncing EXCEPT !.step = "pull"]
                       ELSE Onward(outbox'[d], pending'[d], {}, {}))
  <2>1. answer \in {"applied", "duplicate"} /\ e.op = "pack_commit" => RefOf(e) \in done'
    BY <1>6, <1>9, <1>13
  <2>2. /\ outbox' \in [Device -> Seq(Entry)]
        /\ \A c \in Device \ {d} : outbox'[c] = outbox[c]
        /\ \A i \in DOMAIN outbox'[d] : \E j \in DOMAIN q : Alike(outbox'[d][i], q[j])
        /\ pending' \in [Device -> SUBSET Staged]
        /\ \A c \in Device : \A r \in Ref \ done' : PartsOf(c, r) \subseteq PartsOf(c, r)'
    BY <1>12, <1>13, <2>1
  <2>3. \A c \in Device : \A i \in DOMAIN outbox'[c] :
          \E j \in DOMAIN outbox[c] : Alike(outbox'[c][i], outbox[c][j])
    <3>1. \A c \in Device \ {d} : \A k \in DOMAIN outbox'[c] :
            \E j \in DOMAIN outbox[c] : Alike(outbox'[c][k], outbox[c][j])
      BY <2>2 DEF Alike
    <3>2. \A k \in DOMAIN outbox'[d] : \E j \in DOMAIN outbox[d] : Alike(outbox'[d][k], outbox[d][j])
      BY <1>3, <2>2
    <3>. QED
      BY <3>1, <3>2
  <2>4. PICK new \in Seq(Entry) : new = outbox'[d]
    BY <2>2
  <2>5. PICK staged : staged = pending'[d]
    OBVIOUS
  <2>6. PICK f : f = IF answer = "deferred" THEN [NotSyncing EXCEPT !.step = "pull"]
                     ELSE Onward(new, staged, {}, {})
    OBVIOUS
  <2>7. Sends(f, new)
    <3>1. CASE answer = "deferred"
      BY <2>6, <3>1, RecordsKept DEF Sends
    <3>2. CASE answer # "deferred"
      <4>1. PICK todo \in SUBSET Ref, missing \in SUBSET AllParts : todo = {} /\ missing = {}
        OBVIOUS
      <4>2. f = Onward(new, staged, todo, missing)
        BY <2>6, <3>2, <4>1
      <4>. QED
        BY <4>2, OnwardIs
    <3>. QED
      BY <3>1, <3>2
  <2>8. Goto(d, f)
    BY <1>13, <2>4, <2>5, <2>6
  <2>9. engine' \in [Device -> Engine] /\ Thinned
    BY <1>0, <2>3, <2>4, <2>7, <2>8, Goes DEF Sends
  <2>10. Shaped'
    BY <1>0, <1>7, <1>9, <1>11, <2>2, <2>9 DEF Shaped
  <2>11. Settles
    BY <1>9, <1>10, <1>11, <2>2, <2>9 DEF Settles
  <2>. QED
    BY <2>10, <2>11
<1>14. CASE Goto(d, NotSyncing) /\ UNCHANGED <<outbox, pending>>
  <2>1. engine' \in [Device -> Engine] /\ Thinned
    BY <1>0, <1>14, Ends, RecordsKept
  <2>2. Shaped'
    BY <1>0, <1>7, <1>9, <1>11, <1>14, <2>1 DEF Shaped
  <2>3. \A c \in Device : \A r \in Ref : PartsOf(c, r) \subseteq PartsOf(c, r)'
    BY <1>14 DEF PartsOf
  <2>4. Settles
    BY <1>9, <1>10, <1>11, <2>1, <2>3 DEF Settles
  <2>. QED
    BY <2>2, <2>4
<1>. QED
  BY <1>2, <1>13, <1>14

\* PartsKept, entry by entry.
LEMMA PartsKeptIs ==
  PartsKept <=> \A d \in Device : \A i \in DOMAIN outbox[d] :
                  outbox[d][i].op = "pack_commit" /\ RefOf(outbox[d][i]) \notin done
                    => PartsOf(d, RefOf(outbox[d][i])) = Part
BY DEF PartsKept, PartsOf

\* Entries that are alike name the same pack.
LEMMA AlikeNames ==
  ASSUME NEW x, NEW y, Alike(x, y)
  PROVE  RefOf(x) = RefOf(y) /\ (Named(y) => Named(x))
BY DEF Alike, RefOf, Named

\* An entry of the outbox, or on its way, was one.
LEMMA OutThinned ==
  ASSUME Thinned, NEW d \in Device, NEW x \in Out(d)'
  PROVE  \E y \in Out(d) : Alike(x, y)
<1>1. CASE x \in engine'[d].sent
  BY <1>1 DEF Thinned
<1>2. CASE \E i \in DOMAIN outbox'[d] : x = outbox'[d][i]
  BY <1>2 DEF Thinned, Out
<1>. QED
  BY <1>1, <1>2 DEF Out

\* Where entries go or change, and the vault settles some of them.
LEMMA SettlesKeeps ==
  ASSUME PartsInv, Shaped', Settles
  PROVE  PartsInv'
<1>1. /\ outbox \in [Device -> Seq(Entry)] /\ pending' \in [Device -> SUBSET Staged]
      /\ outbox' \in [Device -> Seq(Entry)] /\ n.entries \in Nat
  BY Counted DEF PartsInv, PacksTyped, Shaped
<1>2. ASSUME NEW d \in Device, NEW x \in Out(d)'
      PROVE  \E y \in Out(d) : Alike(x, y) /\ Named(y) /\ Known(y)
  <2>1. PICK y \in Out(d) : Alike(x, y)
    BY OutThinned DEF Settles
  <2>. QED
    BY <2>1 DEF PartsInv, PacksTyped
<1>3. ASSUME NEW d \in Device, NEW x \in Out(d)'
      PROVE  /\ Named(x)
             /\ x.id \in 1..n'.entries
             /\ x.op = "pack_commit" /\ x.id \in DOMAIN seen' => RefOf(x) \in done'
  <2>1. PICK y \in Out(d) : Alike(x, y) /\ Named(y) /\ Known(y)
    BY <1>2
  <2>2. RefOf(x) = RefOf(y) /\ Named(x)
    BY <2>1, AlikeNames
  <2>3. x.id \in 1..n'.entries
    BY <2>1 DEF Alike, Known, Settles
  <2>4. ASSUME x.op = "pack_commit", x.id \in DOMAIN seen' PROVE RefOf(x) \in done'
    <3>1. CASE x.id \in DOMAIN seen
      BY <2>1, <2>2, <2>4, <3>1 DEF Alike, Known, Settles
    <3>2. CASE x.id \notin DOMAIN seen
      <4>1. PICK c \in Device : \E z \in Out(c) :
              z.id = x.id /\ (z.op = "pack_commit" => RefOf(z) \in done')
        BY <2>4, <3>2 DEF Settles
      <4>2. PICK z \in Out(c) : z.id = x.id /\ (z.op = "pack_commit" => RefOf(z) \in done')
        BY <4>1
      <4>3. Alike(y, z)
        BY <2>1, <4>2 DEF PartsInv, Alike
      <4>4. RefOf(y) = RefOf(z) /\ z.op = "pack_commit"
        BY <2>1, <2>4, <4>3, AlikeNames DEF Alike
      <4>. QED
        BY <2>2, <4>2, <4>4
    <3>. QED
      BY <3>1, <3>2
  <2>. QED
    BY <2>2, <2>3, <2>4
<1>4. ASSUME NEW d \in Device, NEW i \in DOMAIN outbox'[d],
             outbox'[d][i].op = "pack_commit", RefOf(outbox'[d][i]) \notin done'
      PROVE  {s.part : s \in {z \in pending'[d] : RefOf(z) = RefOf(outbox'[d][i])}} = Part
  <2>1. PICK x : x = outbox'[d][i]
    OBVIOUS
  <2>2. PICK j \in DOMAIN outbox[d] : Alike(x, outbox[d][j])
    BY <2>1 DEF Settles, Thinned
  <2>3. PICK y \in Entry : y = outbox[d][j]
    BY <1>1
  <2>4. Alike(x, y) /\ Named(y) /\ RefOf(x) = RefOf(y)
    <3>1. y \in Out(d)
      BY <2>3 DEF Out
    <3>. QED
      BY <2>2, <2>3, <3>1, AlikeNames DEF PartsInv, PacksTyped
  <2>5. PICK r : r = RefOf(x)
    OBVIOUS
  <2>6. y.op = "pack_commit" /\ RefOf(y) \notin done /\ r \notin done'
    BY <1>4, <2>1, <2>4, <2>5 DEF Alike, Settles
  <2>7. PartsOf(d, r) = Part
    BY <2>3, <2>4, <2>5, <2>6, PartsKeptIs DEF PartsInv
  <2>8. r \in Ref
    <3>1. y.pack \in Pack /\ y.disc \in Disc
      BY <2>4, <2>6 DEF Named, Entry
    <3>. QED
      BY <2>4, <2>5, <3>1 DEF RefOf, Ref
  <2>9. Part \subseteq PartsOf(d, r)'
    BY <2>6, <2>7, <2>8 DEF Settles
  <2>10. PartsOf(d, r)' \subseteq Part
    <3>1. pending'[d] \subseteq Staged
      BY <1>1
    <3>2. \A s \in pending'[d] : s.part \in Part
      BY <3>1, RecordsKept
    <3>. QED
      BY <3>2 DEF PartsOf
  <2>11. PartsOf(d, r)' = Part
    BY <2>9, <2>10
  <2>12. {s.part : s \in {z \in pending'[d] : RefOf(z) = r}} = Part
    BY <2>11 DEF PartsOf
  <2>. QED
    BY <2>1, <2>5, <2>12
<1>5. PacksTyped'
  BY <1>3 DEF PacksTyped, Named
<1>6. DOMAIN seen' \subseteq 1..n'.entries
  <2>1. ASSUME NEW id \in DOMAIN seen' \ DOMAIN seen PROVE id \in 1..n.entries
    <3>1. PICK d \in Device : \E x \in Out(d) : x.id = id
      BY DEF Settles
    <3>2. PICK x \in Out(d) : x.id = id
      BY <3>1
    <3>. QED
      BY <3>2 DEF PartsInv, Known
  <2>2. DOMAIN seen \subseteq 1..n.entries /\ n'.entries = n.entries
    BY DEF PartsInv, Settles
  <2>. QED
    BY <2>1, <2>2
<1>7. \A d \in Device : \A x \in Out(d)' : Known(x)'
  BY <1>3 DEF Known, RefOf
<1>8. ASSUME NEW d \in Device, NEW c \in Device, NEW x \in Out(d)', NEW y \in Out(c)',
             x.id = y.id
      PROVE  Alike(x, y)
  <2>1. PICK u \in Out(d) : Alike(x, u)
    BY <1>2
  <2>2. PICK w \in Out(c) : Alike(y, w)
    BY <1>2
  <2>3. Alike(u, w)
    <3>1. u.id = w.id
      BY <1>8, <2>1, <2>2 DEF Alike
    <3>. QED
      BY <3>1 DEF PartsInv
  <2>. QED
    BY <2>1, <2>2, <2>3 DEF Alike
<1>9. PartsKept'
  BY <1>4 DEF PartsKept, RefOf
<1>. QED
  BY <1>5, <1>6, <1>7, <1>8, <1>9 DEF PartsInv, Alike

\* Where entries are new, and come with their parts.
LEMMA AddsKeeps ==
  ASSUME PartsInv, Adds
  PROVE  PartsInv'
<1>1. PICK d \in Device : \E new : Enqueues(d, new)
  BY DEF Adds
<1>2. PICK new : Enqueues(d, new)
  BY <1>1
<1>3. /\ outbox \in [Device -> Seq(Entry)] /\ outbox' \in [Device -> Seq(Entry)]
      /\ pending \in [Device -> SUBSET Staged] /\ pending' \in [Device -> SUBSET Staged]
      /\ n.entries \in Nat
  BY Counted DEF PartsInv, PacksTyped, Shaped, Adds
<1>4. new \in Seq(Entry) /\ n'.entries = n.entries + Len(new) /\ UNCHANGED <<engine, seen, done>>
  BY <1>2 DEF Enqueues
<1>5. PICK m \in Nat : m = n'.entries /\ m = n.entries + Len(new)
  BY <1>3, <1>4
<1>6. /\ outbox'[d] = outbox[d] \o new
      /\ \A c \in Device \ {d} : outbox'[c] = outbox[c]
  BY <1>2, <1>3 DEF Enqueues
<1>7. ASSUME NEW k \in DOMAIN new
      PROVE  /\ new[k].id \in (n.entries + 1)..m
             /\ Named(new[k])
             /\ new[k].id = n.entries + k
             /\ new[k].op = "pack_commit" => PartsOf(d, RefOf(new[k]))' = Part
  <2>1. new[k].id = n.entries + k /\ k \in 1..Len(new) /\ Len(new) \in Nat
    BY <1>2, <1>4 DEF Enqueues
  <2>2. n.entries + k \in (n.entries + 1)..m
    BY <1>3, <1>5, <2>1
  <2>. QED
    BY <1>2, <2>1, <2>2 DEF Enqueues
<1>8. ASSUME NEW c \in Device, NEW i \in DOMAIN outbox'[c]
      PROVE  \/ i \in DOMAIN outbox[c] /\ outbox'[c][i] = outbox[c][i]
             \/ c = d /\ \E k \in DOMAIN new : outbox'[c][i] = new[k] /\ i = Len(outbox[d]) + k
  <2>1. CASE c # d
    BY <1>6, <2>1
  <2>2. CASE c = d
    <3>1. PICK q \in Seq(Entry) : q = outbox[d]
      BY <1>3
    <3>2. outbox'[c] = q \o new /\ i \in 1..(Len(q) + Len(new))
      BY <1>4, <1>6, <2>2, <3>1
    <3>3. CASE i <= Len(q)
      BY <1>4, <2>2, <3>1, <3>2, <3>3
    <3>4. CASE i > Len(q)
      <4>1. PICK k : k = i - Len(q)
        OBVIOUS
      <4>2. k \in DOMAIN new /\ (q \o new)[i] = new[k] /\ i = Len(q) + k
        BY <1>4, <3>2, <3>4, <4>1
      <4>. QED
        BY <2>2, <3>1, <3>2, <4>2
    <3>. QED
      BY <3>2, <3>3, <3>4
  <2>. QED
    BY <2>1, <2>2
<1>9. ASSUME NEW c \in Device, NEW x \in Out(c)
      PROVE  /\ Named(x) /\ x.id \in 1..m /\ x.id \in 1..n.entries
             /\ x.op = "pack_commit" /\ x.id \in DOMAIN seen => RefOf(x) \in done
  <2>1. Named(x) /\ Known(x)
    BY DEF PartsInv, PacksTyped
  <2>2. x.id \in 1..n.entries
    BY <2>1 DEF Known
  <2>3. x.id \in 1..m
    <3>1. Len(new) \in Nat
      BY <1>4
    <3>. QED
      BY <1>3, <1>5, <2>2, <3>1
  <2>. QED
    BY <2>1, <2>2, <2>3 DEF Known
<1>18. ASSUME NEW c \in Device, NEW x \in Out(c)'
       PROVE  x \in Out(c) \/ (c = d /\ \E k \in DOMAIN new : x = new[k])
  <2>1. CASE x \in engine'[c].sent
    BY <1>4, <2>1 DEF Out
  <2>2. CASE \E i \in DOMAIN outbox'[c] : x = outbox'[c][i]
    <3>1. PICK i \in DOMAIN outbox'[c] : x = outbox'[c][i]
      BY <2>2
    <3>2. CASE i \in DOMAIN outbox[c] /\ x = outbox[c][i]
      BY <3>2 DEF Out
    <3>. QED
      BY <1>8, <3>1, <3>2
  <2>. QED
    BY <2>1, <2>2 DEF Out
<1>10. ASSUME NEW c \in Device, NEW r \in Ref, PartsOf(c, r) = Part
       PROVE  PartsOf(c, r)' = Part
  <2>1. pending[c] \subseteq pending'[c] /\ pending'[c] \subseteq Staged
    BY <1>2, <1>3 DEF Enqueues
  <2>2. PartsOf(c, r) \subseteq PartsOf(c, r)'
    BY <2>1 DEF PartsOf
  <2>3. PartsOf(c, r)' \subseteq Part
    <3>1. \A s \in pending'[c] : s.part \in Part
      BY <2>1, RecordsKept
    <3>. QED
      BY <3>1 DEF PartsOf
  <2>. QED
    BY <1>10, <2>2, <2>3
<1>11. ASSUME NEW c \in Device, NEW x \in Out(c)'
       PROVE  /\ Named(x)
              /\ x.id \in 1..m
              /\ x.op = "pack_commit" /\ x.id \in DOMAIN seen' => RefOf(x) \in done'
  <2>1. CASE x \in Out(c)
    BY <1>4, <1>9, <2>1
  <2>2. CASE \E k \in DOMAIN new : x = new[k]
    <3>1. PICK k \in DOMAIN new : x = new[k]
      BY <2>2
    <3>2. new[k].id \in (n.entries + 1)..m /\ Named(new[k])
      BY <1>7
    <3>3. new[k].id \in 1..m /\ new[k].id \notin DOMAIN seen'
      <4>1. DOMAIN seen' \subseteq 1..n.entries
        BY <1>4 DEF PartsInv
      <4>2. PICK id \in (n.entries + 1)..m : id = new[k].id
        BY <3>2
      <4>3. id \in 1..m /\ id \notin 1..n.entries
        BY <1>3
      <4>. QED
        BY <4>1, <4>2, <4>3
    <3>. QED
      BY <3>1, <3>2, <3>3
  <2>. QED
    BY <1>18, <2>1, <2>2
<1>12. ASSUME NEW c \in Device, NEW i \in DOMAIN outbox'[c],
              outbox'[c][i].op = "pack_commit", RefOf(outbox'[c][i]) \notin done'
       PROVE  {s.part : s \in {x \in pending'[c] : RefOf(x) = RefOf(outbox'[c][i])}} = Part
  <2>1. PICK x : x = outbox'[c][i]
    OBVIOUS
  <2>2. PICK r : r = RefOf(x)
    OBVIOUS
  <2>3. CASE i \in DOMAIN outbox[c] /\ x = outbox[c][i]
    <3>1. PartsOf(c, r) = Part
      <4>1. PartsOf(c, RefOf(outbox[c][i])) = Part
        BY <1>4, <1>12, <2>1, <2>3, PartsKeptIs DEF PartsInv
      <4>. QED
        BY <2>2, <2>3, <4>1
    <3>2. x \in Entry /\ Named(x)
      <4>1. x \in Out(c)
        BY <2>3 DEF Out
      <4>. QED
        BY <1>3, <1>9, <2>3, <4>1
    <3>3. r \in Ref
      BY <1>12, <2>1, <2>2, <3>2 DEF Named, Entry, RefOf, Ref
    <3>4. PartsOf(c, r)' = Part
      BY <1>10, <3>1, <3>3
    <3>. QED
      BY <2>1, <2>2, <3>4 DEF PartsOf
  <2>4. CASE c = d /\ \E k \in DOMAIN new : x = new[k]
    <3>1. PICK k \in DOMAIN new : x = new[k]
      BY <2>4
    <3>2. PartsOf(d, RefOf(new[k]))' = Part
      BY <1>7, <1>12, <2>1, <3>1
    <3>3. {s.part : s \in {z \in pending'[d] : RefOf(z) = RefOf(new[k])}} = Part
      BY <3>2 DEF PartsOf
    <3>. QED
      BY <2>1, <2>4, <3>1, <3>3
  <2>. QED
    BY <1>8, <2>1, <2>3, <2>4
<1>13. PacksTyped'
  BY <1>11 DEF PacksTyped, Named, Adds
<1>14. DOMAIN seen' \subseteq 1..n'.entries
  <2>1. DOMAIN seen \subseteq 1..n.entries /\ Len(new) \in Nat
    BY <1>4 DEF PartsInv
  <2>2. 1..n.entries \subseteq 1..m
    BY <1>3, <1>5, <2>1
  <2>. QED
    BY <1>4, <1>5, <2>1, <2>2
<1>15. \A c \in Device : \A x \in Out(c)' : Known(x)'
  BY <1>5, <1>11 DEF Known, RefOf
<1>16. ASSUME NEW c \in Device, NEW b \in Device, NEW x \in Out(c)', NEW y \in Out(b)',
              x.id = y.id
       PROVE  Alike(x, y)
  <2>1. \A k \in DOMAIN new : new[k].id \notin 1..n.entries
    <3>1. SUFFICES ASSUME NEW k \in DOMAIN new PROVE new[k].id \notin 1..n.entries
      OBVIOUS
    <3>2. new[k].id \in (n.entries + 1)..m
      BY <1>7
    <3>. QED
      BY <1>3, <3>2
  <2>2. CASE x \in Out(c)
    <3>1. y \in Out(b)
      BY <1>9, <1>16, <1>18, <2>1, <2>2
    <3>. QED
      BY <1>16, <2>2, <3>1 DEF PartsInv
  <2>3. CASE \E k \in DOMAIN new : x = new[k]
    <3>1. PICK k \in DOMAIN new : x = new[k]
      BY <2>3
    <3>2. y \notin Out(b)
      BY <1>9, <1>16, <2>1, <3>1
    <3>3. PICK l \in DOMAIN new : y = new[l]
      BY <1>18, <3>2
    <3>4. k = l
      <4>1. n.entries + k = n.entries + l
        BY <1>7, <1>16, <3>1, <3>3
      <4>2. k \in Nat /\ l \in Nat
        BY <1>4
      <4>. QED
        BY <1>3, <4>1, <4>2
    <3>. QED
      BY <3>1, <3>3, <3>4 DEF Alike
  <2>. QED
    BY <1>18, <2>2, <2>3
<1>17. PartsKept'
  BY <1>12 DEF PartsKept, RefOf
<1>. QED
  BY <1>13, <1>14, <1>15, <1>16, <1>17 DEF PartsInv, Alike
----------------------------------------------------------------------------
\* A step that brings no new entries.
LEMMA LeavesKeeps ==
  ASSUME PartsInv, Leaves
  PROVE  PartsInv'
<1>1. Settles
  BY DEF Leaves, Keeps, Settles
<1>. QED
  BY <1>1, SettlesKeeps DEF Leaves

\* Nothing is scanned, queued or committed yet.
LEMMA PartsInvInit ==
  PacksInit => PartsInv
<1>. SUFFICES ASSUME PacksInit PROVE PartsInv
  OBVIOUS
<1>1. NoRow \in Row
  BY DEF NoRow, Row
<1>2. n \in Counters /\ n.entries = 0 /\ n.packs <= n.work /\ n.work <= MaxWork
  BY DevicePacksAssumption DEF PacksInit, Counters
<1>3. Shaped
  BY <1>1, <1>2, RecordsKept DEF PacksInit, Shaped
<1>4. \A d \in Device : outbox[d] = <<>> /\ Out(d) = {}
  BY RecordsKept DEF PacksInit, Out
<1>5. PacksTyped
  BY <1>3, <1>4 DEF PacksTyped
<1>6. DOMAIN seen = {}
  BY DEF PacksInit
<1>7. PartsKept
  BY <1>4 DEF PartsKept
<1>. QED
  BY <1>4, <1>5, <1>6, <1>7 DEF PartsInv

\* The invariant, step by step.
LEMMA PartsInvStep ==
  PartsInv /\ [PacksNext]_packVars => PartsInv'
<1>. SUFFICES ASSUME PartsInv, [PacksNext]_packVars PROVE PartsInv'
  OBVIOUS
<1>0. PacksTyped /\ Shaped
  BY DEF PartsInv, PacksTyped
<1>1. CASE UNCHANGED packVars
  <2>1. UNCHANGED <<row, files, pending, outbox, engine, loads, vault, kept, seen, done, undone, n>>
    BY <1>1 DEF packVars
  <2>2. PacksTyped'
    BY <1>0, <2>1 DEF PacksTyped, Shaped, Out, Named
  <2>3. PartsKept'
    BY <2>1 DEF PartsInv, PartsKept, RefOf
  <2>. QED
    BY <2>1, <2>2, <2>3 DEF PartsInv, Known, Alike, RefOf, Out
<1>2. CASE PacksNext
  <2>0. PICK d \in Device : UserStep(d) \/ EngineStep(d) \/ \E c \in Disc : LoadDone(d, c)
    BY <1>2 DEF PacksNext
  <2>1. ASSUME NEW c \in Disc, CommitScannedPack(d, c) PROVE PartsInv'
    BY <1>0, <2>1, CommitScannedPackIs, AddsKeeps
  <2>2. ASSUME NEW c \in Disc, ImportArchive(d, c) PROVE PartsInv'
    BY <1>0, <2>2, ImportArchiveIs, AddsKeeps
  <2>3. ASSUME NEW c \in Disc, DeleteDisc(d, c) PROVE PartsInv'
    BY <1>0, <2>3, DeleteDiscIs, AddsKeeps
  <2>4. CASE Discard(d)
    BY <1>0, <2>4, PacksDiscardIs, LeavesKeeps
  <2>5. CASE TabCloses(d)
    BY <1>0, <2>5, TabClosesIs, LeavesKeeps
  <2>6. CASE StartSync(d)
    BY <1>0, <2>6, StartSyncIs, LeavesKeeps
  <2>7. CASE Reserve(d)
    BY <1>0, <2>7, ReserveIs, LeavesKeeps
  <2>8. CASE UploadPart(d)
    BY <1>0, <2>8, UploadPartIs, LeavesKeeps
  <2>9. CASE Push(d)
    BY <2>9, PushIs, SettlesKeeps
  <2>10. CASE Pull(d)
    BY <1>0, <2>10, PullIs, LeavesKeeps
  <2>11. ASSUME NEW c \in Disc, LoadDone(d, c) PROVE PartsInv'
    BY <1>0, <2>11, LoadDoneIs, LeavesKeeps
  <2>12. CASE UserStep(d)
    BY <2>1, <2>2, <2>3, <2>4, <2>5, <2>12 DEF UserStep
  <2>13. CASE EngineStep(d)
    BY <2>6, <2>7, <2>8, <2>9, <2>10, <2>13 DEF EngineStep
  <2>. QED
    BY <2>0, <2>11, <2>12, <2>13
<1>. QED
  BY <1>1, <1>2

\* The variables hold what the tables and the engine keep in them, whatever users, syncs and
\* closed tabs do, in any order.
THEOREM DevicePacksTyped == PacksSafe => []DevicePacksTypeOK
<1>1. PartsInv => DevicePacksTypeOK
  <2>. SUFFICES ASSUME PartsInv PROVE DevicePacksTypeOK
    OBVIOUS
  <2>1. Shaped
    BY DEF PartsInv, PacksTyped
  <2>2. ASSUME NEW d \in Device
        PROVE  /\ pending[d] \subseteq Staged /\ outbox[d] \in Seq(Entry)
               /\ engine[d] \in Engine /\ loads[d] \subseteq Load
    BY <2>1 DEF Shaped
  <2>. QED
    BY <2>1, <2>2 DEF Shaped, DevicePacksTypeOK
<1>. QED
  BY <1>1, PartsInvInit, PartsInvStep, PTL DEF PacksSafe

\* The parts of a scan or an import stay on their device until the vault has committed the pack
\* (engine.ts 322), for any number of devices, discs and parts.
THEOREM StagedPartsStay == PacksSafe => []PartsKept
<1>1. PartsInv => PartsKept
  BY DEF PartsInv
<1>. QED
  BY <1>1, PartsInvInit, PartsInvStep, PTL DEF PacksSafe
----------------------------------------------------------------------------
(***************************************************************************)
(* The two together, as they are checked.                                  *)
(***************************************************************************)
\* The browser starts as a browser without tabs, and with devices that have synced nothing.
LEMMA BrowserStarts == BrowserInit => TabsInit /\ PacksInit
  BY DEF BrowserInit

\* A step of the browser is a step of its tabs or none, and a step of the devices or none.
LEMMA BrowserStep == [BrowserNext]_browserVars => [TabsNext]_tabVars /\ [PacksNext]_packVars
<1>1. CASE OfTabs(TabsNext)
  BY <1>1 DEF OfTabs
<1>2. CASE OfPacks(PacksNext)
  BY <1>2 DEF OfPacks
<1>3. CASE UNCHANGED browserVars
  BY <1>3 DEF browserVars
<1>. QED
  BY <1>1, <1>2, <1>3 DEF BrowserNext

\* The browser implements its parts: what holds of the tabs alone, and of the devices alone,
\* holds of the two together.
THEOREM BrowserRefines == BrowserSpec => TabsSafe /\ PacksSafe
  BY BrowserStarts, BrowserStep, PTL DEF BrowserSpec, TabsSafe, PacksSafe

\* The module variables of the workers, the calls on the channel, and the rows, parts and entries
\* of the devices keep their types.
THEOREM BrowserTyped == BrowserSpec => []BrowserTypeOK
<1>1. TabsTypeOK /\ DevicePacksTypeOK <=> BrowserTypeOK
  BY DEF BrowserTypeOK
<1>. QED
  BY <1>1, BrowserRefines, TabsTyped, DevicePacksTyped, PTL
=============================================================================
