--------------------------- MODULE Catalog_proofs ---------------------------
(***************************************************************************)
(* A disc keeps its tree on its way through the catalog, whatever its      *)
(* folders and files, their names, and the size of a part.                 *)
(*                                                                         *)
(* The code and the model find paths in four ways: the walk has them from  *)
(* the names it is in, the old rows by their parents, an import by the     *)
(* rows read so far, the explorer by the names clicked.  The proof follows *)
(* one function P from ids to paths through every stage: Tree(h, list, P)  *)
(* says that P leads along the rows of list, its names as they are (Plain) *)
(* or without their case (Fold).                                           *)
(***************************************************************************)
EXTENDS Catalog, Collections_proofs
-----------------------------------------------------------------------------
(***************************************************************************)
(* Recursive functions over 0..N: counting up, and that there is one.      *)
(***************************************************************************)
\* What holds of 0 and of each next number holds of all, up to a bound.
LEMMA CountUp ==
  ASSUME NEW N \in Nat, NEW P, 0 \in P, \A n \in 0..(N - 1) : n \in P => n + 1 \in P
  PROVE  \A n \in 0..N : n \in P
<1>. DEFINE Out == {n \in 0..N : n \notin P}
<1>1. SUFFICES ASSUME Out # {} PROVE FALSE
  OBVIOUS
<1>2. PICK n \in Out : \A m \in Out : n <= m
  <2>1. Out \subseteq Nat
    OBVIOUS
  <2>. HIDE DEF Out
  <2>. QED
    BY <1>1, <2>1, LeastNat
<1>3. n # 0 /\ n - 1 \in 0..(N - 1)
  BY <1>2
<1>4. n - 1 \notin Out
  BY <1>2, <1>3
<1>5. n - 1 \in P
  BY <1>3, <1>4
<1>6. (n - 1) + 1 \in P
  BY <1>3, <1>5
<1>. QED
  BY <1>2, <1>6

\* A loop of N rounds, each of which makes of the state before it the next one, has a run.
Loop(N, V) == [(1..N) \X V -> V]
Rounds(n, base, step, g) == g[0] = base /\ \A k \in 1..n : g[k] = step[<<k, g[k - 1]>>]

LEMMA Recursion ==
  ASSUME NEW N \in Nat, NEW V, NEW base \in V, NEW step \in Loop(N, V)
  PROVE  \E g \in [0..N -> V] : Rounds(N, base, step, g)
<1>. DEFINE P == {n \in 0..N : \E g \in [0..n -> V] : Rounds(n, base, step, g)}
<1>. USE DEF Loop
<1>1. 0 \in P
  <2>. DEFINE g == [k \in 0..0 |-> base]
  <2>1. g \in [0..0 -> V] /\ g[0] = base /\ 0 \in 0..N
    OBVIOUS
  <2>2. Rounds(0, base, step, g)
    BY <2>1 DEF Rounds
  <2>. HIDE DEF g
  <2>. QED
    BY <2>1, <2>2
<1>2. ASSUME NEW n \in 0..(N - 1), n \in P PROVE n + 1 \in P
  <2>1. PICK g \in [0..n -> V] : Rounds(n, base, step, g)
    BY <1>2
  <2>. DEFINE h == [k \in 0..(n + 1) |-> IF k = n + 1 THEN step[<<n + 1, g[n]>>] ELSE g[k]]
  <2>2. g[n] \in V /\ n + 1 \in 1..N
    OBVIOUS
  <2>3. step[<<n + 1, g[n]>>] \in V
    BY <2>2
  <2>4. h \in [0..(n + 1) -> V]
    BY <2>3
  <2>5. h[0] = base
    BY <2>1 DEF Rounds
  <2>6. ASSUME NEW k \in 1..(n + 1) PROVE h[k] = step[<<k, h[k - 1]>>]
    <3>1. CASE k = n + 1
      <4>1. k - 1 = n /\ k - 1 \in 0..(n + 1) /\ k - 1 # n + 1
        BY <3>1
      <4>2. h[k - 1] = g[n]
        BY <4>1
      <4>3. h[k] = step[<<n + 1, g[n]>>]
        BY <3>1
      <4>. QED
        BY <3>1, <4>2, <4>3, Zenon
    <3>2. CASE k # n + 1
      <4>1. k \in 1..n /\ h[k] = g[k] /\ h[k - 1] = g[k - 1]
        BY <3>2
      <4>. QED
        BY <2>1, <4>1 DEF Rounds
    <3>. QED
      BY <3>1, <3>2
  <2>7. Rounds(n + 1, base, step, h) /\ n + 1 \in 0..N
    <3>. HIDE DEF h
    <3>. QED
      BY <2>5, <2>6 DEF Rounds
  <2>. HIDE DEF h
  <2>. QED
    BY <2>4, <2>7
<1>3. \A n \in 0..N : n \in P
  <2>. HIDE DEF P
  <2>. QED
    BY <1>1, <1>2, CountUp
<1>. QED
  BY <1>3
-----------------------------------------------------------------------------
(***************************************************************************)
(* buildPack: the order of the folders, their rows and the paths.          *)
(***************************************************************************)
-----------------------------------------------------------------------------
(***************************************************************************)
(* The catalog.  A list of folders is a tree when a path leads to each.    *)
(***************************************************************************)
FolderRec == [id: Nat, parent: Nat, name: Name]
FileRec == [folder: Nat, name: Name]

FolderList(list) ==
  /\ list \in Seq(FolderRec)
  /\ \A i \in DOMAIN list : list[i].id # Root
  /\ \A i, j \in DOMAIN list : list[i].id = list[j].id => i = j

\* The children of a folder are the rows that name it, each once.
LEMMA ChildrenAre ==
  ASSUME NEW list, FolderList(list), NEW id
  PROVE  /\ Children(list, id) \in Seq(FolderRec)
         /\ \A k \in DOMAIN Children(list, id) :
              /\ Children(list, id)[k] \in Range(list)
              /\ Children(list, id)[k].parent = id
         /\ \A f \in Range(list) :
              f.parent = id => \E k \in DOMAIN Children(list, id) : Children(list, id)[k] = f
         /\ \A k, l \in DOMAIN Children(list, id) :
              Children(list, id)[k] = Children(list, id)[l] => k = l
<1>. DEFINE I == {i \in DOMAIN list : list[i].parent = id}
            c == Children(list, id)
<1>1. list \in Seq(FolderRec) /\ I \subseteq DOMAIN list /\ c = Kept(list, I)
  BY DEF FolderList, Children
<1>. HIDE DEF I, c
<1>2. Cardinality(I) \in Nat
  BY <1>1, KeptOf
<1>3. PICK place \in [1..Cardinality(I) -> I] :
        /\ \A i \in I : \E k \in 1..Cardinality(I) : place[k] = i
        /\ \A k, l \in 1..Cardinality(I) : k < l => place[k] < place[l]
        /\ Kept(list, I) = [k \in 1..Cardinality(I) |-> list[place[k]]]
        /\ Kept(list, I) \in Seq(FolderRec)
        /\ Len(Kept(list, I)) = Cardinality(I)
  BY <1>1, KeptOf
<1>4. DOMAIN c = 1..Cardinality(I) /\ \A k \in 1..Cardinality(I) : c[k] = list[place[k]]
  BY <1>1, <1>3
<1>5. ASSUME NEW k \in DOMAIN c PROVE c[k] \in Range(list) /\ c[k].parent = id
  <2>1. place[k] \in I /\ c[k] = list[place[k]]
    BY <1>3, <1>4
  <2>. QED
    BY <2>1 DEF I, Range
<1>6. ASSUME NEW f \in Range(list), f.parent = id PROVE \E k \in DOMAIN c : c[k] = f
  <2>1. PICK i \in DOMAIN list : f = list[i]
    BY DEF Range
  <2>2. i \in I
    BY <1>6, <2>1 DEF I
  <2>. QED
    BY <1>3, <1>4, <2>1, <2>2
<1>7. ASSUME NEW k \in DOMAIN c, NEW l \in DOMAIN c, c[k] = c[l] PROVE k = l
  <2>1. place[k] \in DOMAIN list /\ place[l] \in DOMAIN list
    BY <1>1, <1>3, <1>4
  <2>2. place[k] = place[l]
    BY <1>4, <1>7, <2>1 DEF FolderList
  <2>3. k \in Nat /\ l \in Nat /\ place[k] \in Nat /\ place[l] \in Nat
    BY <1>1, <1>2, <1>4, <2>1
  <2>. QED
    BY <1>2, <1>3, <1>4, <2>2, <2>3
<1>. QED
  BY <1>1, <1>3, <1>5, <1>6, <1>7 DEF c

\* The queue of orderFolders after each round.
OrderQueue(list, queue) ==
  queue = [n \in 0..Len(list) |->
             IF n = 0 THEN Children(list, Root)
             ELSE IF n > Len(queue[n - 1]) THEN queue[n - 1]
                  ELSE queue[n - 1] \o Children(list, queue[n - 1][n].id)]

LEMMA QueueRuns ==
  ASSUME NEW list, FolderList(list)
  PROVE  \E queue : OrderQueue(list, queue) /\ Ordered(list) = queue[Len(list)]
<1>. DEFINE N == Len(list)
            V == Seq(FolderRec)
            step == [x \in (1..N) \X V |-> IF x[1] > Len(x[2]) THEN x[2]
                                           ELSE x[2] \o Children(list, x[2][x[1]].id)]
<1>1. N \in Nat
  BY DEF FolderList
<1>2. Children(list, Root) \in V
  BY ChildrenAre
<1>3. step \in Loop(N, V)
  <2>1. ASSUME NEW n \in 1..N, NEW q \in V PROVE step[<<n, q>>] \in V
    <3>1. Children(list, q[n].id) \in Seq(FolderRec)
      BY ChildrenAre
    <3>. QED
      BY <3>1
  <2>. QED
    BY <2>1 DEF Loop
<1>. HIDE DEF V, step, N
<1>4. PICK g \in [0..N -> V] : Rounds(N, Children(list, Root), step, g)
  BY <1>1, <1>2, <1>3, Recursion
<1>5. OrderQueue(list, g)
  <2>1. ASSUME NEW n \in 1..N
        PROVE  g[n] = IF n > Len(g[n - 1]) THEN g[n - 1]
                      ELSE g[n - 1] \o Children(list, g[n - 1][n].id)
    <3>1. g[n - 1] \in V
      BY <1>1
    <3>. QED
      BY <1>4, <3>1 DEF step, Rounds
  <2>2. \A n \in 0..N : g[n] = IF n = 0 THEN Children(list, Root)
                               ELSE IF n > Len(g[n - 1]) THEN g[n - 1]
                                    ELSE g[n - 1] \o Children(list, g[n - 1][n].id)
    <3>1. \A n \in 0..N : n # 0 => n \in 1..N
      BY <1>1
    <3>. QED
      BY <1>4, <2>1, <3>1 DEF Rounds
  <2>. QED
    BY <2>2 DEF OrderQueue, N
<1>6. Ordered(list) = (CHOOSE queue : OrderQueue(list, queue))[Len(list)]
  BY DEF Ordered, OrderQueue
<1>. QED
  BY <1>5, <1>6 DEF N

\* After n rounds the queue has rows of the list, each once and after its parent; those at the
\* root, and the children of the first n, are all there.
Queued(list, q, n) ==
  /\ q \in Seq(FolderRec) /\ \A i \in DOMAIN q : q[i] \in Range(list)
  /\ \A i, j \in DOMAIN q : q[i] = q[j] => i = j
  /\ \A i \in DOMAIN q :
       q[i].parent = Root \/ \E j \in DOMAIN q : j < i /\ j <= n /\ q[j].id = q[i].parent
  /\ \A f \in Range(list) : f.parent = Root => \E i \in DOMAIN q : q[i] = f
  /\ \A j \in DOMAIN q : \A f \in Range(list) :
       j <= n /\ f.parent = q[j].id => \E i \in DOMAIN q : q[i] = f

LEMMA QueueStarts ==
  ASSUME NEW list, FolderList(list)
  PROVE  Queued(list, Children(list, Root), 0)
<1>1. \A j \in DOMAIN Children(list, Root) : ~(j <= 0)
  BY ChildrenAre
<1>. QED
  BY <1>1, ChildrenAre DEF Queued

LEMMA QueueGrows ==
  ASSUME NEW list, FolderList(list), NEW n \in Nat, NEW q, Queued(list, q, n)
  PROVE  /\ n + 1 > Len(q) => Queued(list, q, n + 1)
         /\ n + 1 <= Len(q) => Queued(list, q \o Children(list, q[n + 1].id), n + 1)
<1>0. q \in Seq(FolderRec) /\ Len(q) \in Nat /\ DOMAIN q = 1..Len(q)
  BY DEF Queued
<1>1. ASSUME n + 1 > Len(q) PROVE Queued(list, q, n + 1)
  <2>1. \A j \in DOMAIN q : j <= n
    BY <1>0, <1>1
  <2>2. \A i \in DOMAIN q : q[i].parent = Root
                            \/ \E j \in DOMAIN q : j < i /\ j <= n + 1 /\ q[j].id = q[i].parent
    BY <2>1, <1>0 DEF Queued
  <2>. QED
    BY <2>1, <2>2 DEF Queued
<1>2. ASSUME n + 1 <= Len(q) PROVE Queued(list, q \o Children(list, q[n + 1].id), n + 1)
  <2>. DEFINE id == q[n + 1].id
              c == Children(list, id)
              r == q \o c
  <2>1. n + 1 \in DOMAIN q /\ q[n + 1] \in Range(list)
    BY <1>0, <1>2 DEF Queued
  <2>2. /\ c \in Seq(FolderRec)
        /\ \A k \in DOMAIN c : c[k] \in Range(list) /\ c[k].parent = id
        /\ \A f \in Range(list) : f.parent = id => \E k \in DOMAIN c : c[k] = f
        /\ \A k, l \in DOMAIN c : c[k] = c[l] => k = l
    BY ChildrenAre
  <2>. HIDE DEF c
  <2>3. /\ r \in Seq(FolderRec) /\ DOMAIN r = 1..(Len(q) + Len(c)) /\ Len(c) \in Nat
        /\ \A i \in 1..Len(q) : r[i] = q[i]
        /\ \A i \in DOMAIN r : i > Len(q) => i - Len(q) \in 1..Len(c) /\ r[i] = c[i - Len(q)]
        /\ \A k \in DOMAIN c : Len(q) + k \in DOMAIN r /\ r[Len(q) + k] = c[k]
    BY <1>0, <2>2
  <2>. HIDE DEF r
  <2>4. ASSUME NEW i \in DOMAIN q, NEW k \in DOMAIN c PROVE q[i] # c[k]
    <3>1. SUFFICES ASSUME q[i] = c[k] PROVE FALSE
      OBVIOUS
    <3>2. q[i].parent = id /\ id # Root
      BY <3>1, <2>1, <2>2 DEF FolderList, Range
    <3>3. PICK j \in DOMAIN q : j <= n /\ q[j].id = id
      BY <3>2 DEF Queued
    <3>4. q[j] = q[n + 1]
      BY <3>3, <2>1 DEF FolderList, Range, Queued
    <3>5. j = n + 1
      BY <3>4, <2>1 DEF Queued
    <3>. QED
      BY <3>3, <3>5
  <2>5. \A i \in DOMAIN r : \/ i \in DOMAIN q /\ r[i] = q[i]
                            \/ i > Len(q) /\ i - Len(q) \in DOMAIN c /\ r[i] = c[i - Len(q)]
    <3>1. \A i \in DOMAIN r : i \in 1..Len(q) \/ i > Len(q)
      BY <1>0, <2>3
    <3>2. DOMAIN c = 1..Len(c)
      BY <2>2
    <3>. QED
      BY <1>0, <2>3, <3>1, <3>2
  <2>6. \A i \in DOMAIN r : r[i] \in Range(list)
    BY <2>2, <2>5 DEF Queued
  <2>7. ASSUME NEW i \in DOMAIN r, NEW j \in DOMAIN r, r[i] = r[j] PROVE i = j
    <3>1. CASE i \in DOMAIN q /\ j \in DOMAIN q
      BY <2>7, <3>1, <1>0, <2>3 DEF Queued
    <3>2. CASE i \notin DOMAIN q /\ j \notin DOMAIN q
      <4>1. /\ i - Len(q) \in DOMAIN c /\ j - Len(q) \in DOMAIN c
            /\ c[i - Len(q)] = c[j - Len(q)]
        BY <2>5, <2>7, <3>2
      <4>2. i - Len(q) = j - Len(q)
        BY <4>1, <2>2
      <4>. QED
        BY <4>2, <1>0, <2>3
    <3>3. CASE i \in DOMAIN q /\ j \notin DOMAIN q
      BY <2>4, <2>5, <2>7, <3>3, <1>0
    <3>4. CASE i \notin DOMAIN q /\ j \in DOMAIN q
      BY <2>4, <2>5, <2>7, <3>4, <1>0
    <3>. QED
      BY <3>1, <3>2, <3>3, <3>4
  <2>8. DOMAIN q \subseteq DOMAIN r /\ \A i \in DOMAIN q : r[i] = q[i]
    BY <1>0, <2>3
  <2>9. ASSUME NEW i \in DOMAIN r, r[i].parent # Root
        PROVE  \E j \in DOMAIN r : j < i /\ j <= n + 1 /\ r[j].id = r[i].parent
    <3>1. CASE i \in DOMAIN q /\ r[i] = q[i]
      <4>1. PICK j \in DOMAIN q : j < i /\ j <= n /\ q[j].id = q[i].parent
        BY <2>9, <3>1 DEF Queued
      <4>. QED
        BY <4>1, <2>8, <3>1, <1>0
    <3>2. CASE i > Len(q) /\ i - Len(q) \in DOMAIN c /\ r[i] = c[i - Len(q)]
      <4>1. r[i].parent = id /\ n + 1 \in DOMAIN r /\ r[n + 1].id = id
        BY <3>2, <2>1, <2>2, <2>8
      <4>2. n + 1 < i
        BY <3>2, <1>2, <1>0, <2>3
      <4>. QED
        BY <4>1, <4>2
    <3>. QED
      BY <3>1, <3>2, <2>5
  <2>10. ASSUME NEW f \in Range(list), f.parent = Root PROVE \E i \in DOMAIN r : r[i] = f
    BY <2>8, <2>10 DEF Queued
  <2>11. ASSUME NEW j \in DOMAIN r, NEW f \in Range(list), j <= n + 1, f.parent = r[j].id
         PROVE  \E i \in DOMAIN r : r[i] = f
    <3>1. j \in DOMAIN q /\ r[j] = q[j]
      BY <2>3, <2>11, <1>0, <1>2
    <3>2. CASE j <= n
      BY <2>8, <2>11, <3>1, <3>2 DEF Queued
    <3>3. CASE j = n + 1
      <4>1. PICK k \in DOMAIN c : c[k] = f
        BY <2>2, <2>11, <3>1, <3>3
      <4>. QED
        BY <4>1, <2>3
    <3>. QED
      BY <3>2, <3>3, <2>3, <2>11
  <2>. QED
    BY <2>3, <2>6, <2>7, <2>9, <2>10, <2>11 DEF Queued, r, c
<1>. QED
  BY <1>1, <1>2, <1>0

\* orderFolders returns rows of the list, each once and after its parent; and every row whose
\* parent it returns.
LEMMA OrderedIs ==
  ASSUME NEW list, FolderList(list)
  PROVE  /\ Ordered(list) \in Seq(FolderRec)
         /\ \A i \in DOMAIN Ordered(list) : Ordered(list)[i] \in Range(list)
         /\ \A i, j \in DOMAIN Ordered(list) : Ordered(list)[i] = Ordered(list)[j] => i = j
         /\ \A i \in DOMAIN Ordered(list) :
              \/ Ordered(list)[i].parent = Root
              \/ \E j \in DOMAIN Ordered(list) :
                   j < i /\ Ordered(list)[j].id = Ordered(list)[i].parent
         /\ \A f \in Range(list) :
              f.parent = Root \/ (\E j \in DOMAIN Ordered(list) : Ordered(list)[j].id = f.parent)
                => \E i \in DOMAIN Ordered(list) : Ordered(list)[i] = f
         /\ Len(Ordered(list)) = Len(list) => Range(Ordered(list)) = Range(list)
         /\ (\A f \in Range(list) : \E i \in DOMAIN Ordered(list) : Ordered(list)[i] = f)
              => Len(Ordered(list)) = Len(list)
<1>. DEFINE N == Len(list)
            q == Ordered(list)
<1>0. N \in Nat /\ DOMAIN list = 1..N
  BY DEF FolderList
<1>1. PICK queue : OrderQueue(list, queue) /\ q = queue[N]
  BY QueueRuns
<1>2. \A n \in 0..N : queue[n] = IF n = 0 THEN Children(list, Root)
             ELSE IF n > Len(queue[n - 1]) THEN queue[n - 1]
                  ELSE queue[n - 1] \o Children(list, queue[n - 1][n].id)
  BY <1>1, Zenon DEF OrderQueue, N
<1>. HIDE DEF q, N
<1>3. \A n \in 0..N : Queued(list, queue[n], n)
  <2>. DEFINE P == {n \in 0..N : Queued(list, queue[n], n)}
  <2>1. 0 \in P
    <3>1. queue[0] = Children(list, Root)
      BY <1>0, <1>2
    <3>. QED
      BY <3>1, <1>0, QueueStarts
  <2>2. ASSUME NEW n \in 0..(N - 1), n \in P PROVE n + 1 \in P
    <3>1. n \in Nat /\ n + 1 \in 0..N /\ n + 1 # 0 /\ (n + 1) - 1 = n
      BY <1>0
    <3>2. queue[n + 1] = IF n + 1 > Len(queue[n]) THEN queue[n]
                         ELSE queue[n] \o Children(list, queue[n][n + 1].id)
      BY <1>2, <3>1
    <3>3. Queued(list, queue[n], n) /\ Len(queue[n]) \in Nat
      BY <2>2 DEF Queued
    <3>4. CASE n + 1 > Len(queue[n])
      BY <3>1, <3>2, <3>3, <3>4, QueueGrows
    <3>5. CASE n + 1 <= Len(queue[n])
      BY <3>1, <3>2, <3>3, <3>5, QueueGrows
    <3>. QED
      BY <3>1, <3>3, <3>4, <3>5
  <2>. HIDE DEF P
  <2>3. \A n \in 0..N : n \in P
    BY <1>0, <2>1, <2>2, CountUp
  <2>. QED
    BY <2>3 DEF P
<1>4. Queued(list, q, N)
  BY <1>0, <1>1, <1>3
<1>5. q \in Seq(FolderRec) /\ Len(q) \in Nat /\ DOMAIN q = 1..Len(q)
  BY <1>4 DEF Queued
<1>6. /\ IsFiniteSet(Range(list)) /\ Cardinality(Range(list)) = N
      /\ IsFiniteSet(Range(q)) /\ Cardinality(Range(q)) = Len(q)
      /\ Range(q) \subseteq Range(list)
  <2>1. \A i, j \in DOMAIN list : list[i] = list[j] => i = j
    BY DEF FolderList
  <2>2. list \in Bijection(1..N, Range(list))
    BY <2>1, <1>0 DEF Bijection, Injection, Surjection, IsInjective, Range, FolderList
  <2>3. q \in Bijection(1..Len(q), Range(q))
    BY <1>4, <1>5 DEF Queued, Bijection, Injection, Surjection, IsInjective, Range
  <2>4. IsFiniteSet(1..N) /\ Cardinality(1..N) = N
        /\ IsFiniteSet(1..Len(q)) /\ Cardinality(1..Len(q)) = Len(q)
    <3>1. ASSUME NEW n \in Nat PROVE IsFiniteSet(1..n) /\ Cardinality(1..n) = n
      <4>1. Cardinality(1..n) = (IF 1 > n THEN 0 ELSE n - 1 + 1) /\ IsFiniteSet(1..n)
        BY 1 \in Int, n \in Int, FS_Interval
      <4>. QED
        BY <4>1
    <3>. QED
      BY <1>0, <1>5, <3>1
  <2>5. ExistsBijection(1..N, Range(list)) /\ ExistsBijection(1..Len(q), Range(q))
    BY <2>2, <2>3 DEF ExistsBijection
  <2>6. Range(q) \subseteq Range(list)
    BY <1>4 DEF Queued, Range
  <2>. QED
    BY <2>4, <2>5, <2>6, FS_Bijection
<1>7. Len(q) <= N
  BY <1>6, FS_Subset
<1>8. Len(q) = N => Range(q) = Range(list)
  BY <1>6, FS_Subset
<1>9. (\A f \in Range(list) : \E i \in DOMAIN q : q[i] = f) => Len(q) = N
  <2>1. (\A f \in Range(list) : \E i \in DOMAIN q : q[i] = f) => Range(list) \subseteq Range(q)
    BY DEF Range
  <2>. QED
    BY <2>1, <1>6
<1>10. \A f \in Range(list) :
         f.parent = Root \/ (\E j \in DOMAIN q : q[j].id = f.parent) => \E i \in DOMAIN q : q[i] = f
  BY <1>0, <1>4, <1>5, <1>7 DEF Queued
<1>. QED
  BY <1>4, <1>5, <1>8, <1>9, <1>10 DEF Queued, q, N

\* The ids of the pack count the rows in its order.
LEMMA PackIdIs ==
  ASSUME FolderList(folders), Len(Ordered(folders)) = Len(folders)
  PROVE  /\ PackId(Root) = Root
         /\ \A i \in DOMAIN folders : PackId(Ordered(folders)[i].id) = i
         /\ \A id \in Ids(folders) :
              PackId(id) \in DOMAIN folders /\ Ordered(folders)[PackId(id)].id = id
<1>. DEFINE q == Ordered(folders)
<1>1. /\ q \in Seq(FolderRec) /\ DOMAIN q = DOMAIN folders /\ Range(q) = Range(folders)
      /\ \A i, j \in DOMAIN q : q[i] = q[j] => i = j
  BY OrderedIs DEF FolderList
<1>. HIDE DEF q
<1>2. \A i, j \in DOMAIN q : q[i].id = q[j].id => i = j
  <2>1. \A f, g \in Range(folders) : f.id = g.id => f = g
    BY DEF FolderList, Range
  <2>2. \A i \in DOMAIN q : q[i] \in Range(folders)
    BY <1>1 DEF Range
  <2>. QED
    BY <1>1, <2>1, <2>2
<1>3. \A id \in Ids(folders) : id # Root /\ \E i \in DOMAIN folders : q[i].id = id
  <2>1. ASSUME NEW i \in DOMAIN folders
        PROVE  folders[i].id # Root /\ \E j \in DOMAIN folders : q[j].id = folders[i].id
    <3>1. folders[i] \in Range(q)
      BY <1>1 DEF Range
    <3>2. PICK j \in DOMAIN q : q[j] = folders[i]
      BY <3>1 DEF Range
    <3>. QED
      BY <1>1, <3>2 DEF FolderList
  <2>. QED
    BY <2>1 DEF Ids
<1>4. \A id \in Ids(folders) : PackId(id) \in DOMAIN folders /\ q[PackId(id)].id = id
  BY <1>3 DEF PackId, q
<1>5. \A i \in DOMAIN folders : q[i].id \in Ids(folders)
  BY <1>1 DEF Ids, Range
<1>6. \A i \in DOMAIN folders : PackId(q[i].id) = i
  BY <1>1, <1>2, <1>4, <1>5
<1>. QED
  BY <1>4, <1>6 DEF PackId, q

\* The folder rows of a pack: a row has its place for an id and comes after its parent.
LEMMA FolderRowsAre ==
  ASSUME FolderList(folders), Buildable
  PROVE  /\ FolderRows \in Seq(FolderRec) /\ Len(FolderRows) = Len(folders)
         /\ \A i \in DOMAIN folders :
              /\ FolderRows[i].id = i /\ FolderRows[i].parent \in 0..(i - 1)
              /\ FolderRows[i].name = Ordered(folders)[i].name
              /\ FolderRows[i].parent = PackId(Ordered(folders)[i].parent)
              /\ Ordered(folders)[i] \in Range(folders)
<1>. DEFINE q == Ordered(folders)
<1>1. /\ q \in Seq(FolderRec) /\ DOMAIN q = DOMAIN folders
      /\ \A i \in DOMAIN q : q[i] \in Range(folders)
      /\ \A i \in DOMAIN q : q[i].parent = Root \/ \E j \in DOMAIN q : j < i /\ q[j].id = q[i].parent
      /\ Len(Ordered(folders)) = Len(folders)
  BY OrderedIs DEF FolderList, Buildable
<1>2. DOMAIN folders = 1..Len(folders) /\ Len(folders) \in Nat
  BY DEF FolderList
<1>3. ASSUME NEW i \in DOMAIN folders PROVE PackId(q[i].parent) \in 0..(i - 1)
  <2>1. CASE q[i].parent = Root
    BY <2>1, <1>2, <1>1, PackIdIs DEF Root
  <2>2. CASE q[i].parent # Root
    <3>1. PICK j \in DOMAIN q : j < i /\ q[j].id = q[i].parent
      BY <1>1, <2>2
    <3>2. PackId(q[i].parent) = j
      BY <1>1, <3>1, PackIdIs
    <3>. QED
      BY <1>1, <1>2, <3>1, <3>2
  <2>. QED
    BY <2>1, <2>2
<1>4. /\ FolderRows = [i \in 1..Len(folders) |->
                         [id |-> i, parent |-> PackId(q[i].parent), name |-> q[i].name]]
  BY <1>2 DEF FolderRows
<1>. HIDE DEF q
<1>5. \A i \in 1..Len(folders) : FolderRows[i] \in FolderRec
  <2>1. ASSUME NEW i \in 1..Len(folders) PROVE FolderRows[i] \in FolderRec
    <3>1. q[i] \in FolderRec /\ i \in Nat
      BY <1>1, <1>2
    <3>2. PackId(q[i].parent) \in Nat
      BY <1>2, <1>3
    <3>. QED
      BY <1>4, <3>1, <3>2 DEF FolderRec
  <2>. QED
    BY <2>1
<1>. QED
  BY <1>1, <1>2, <1>3, <1>4, <1>5 DEF q

\* A sequence with one element more.
LEMMA Appended ==
  ASSUME NEW S, NEW s \in Seq(S), NEW x \in S
  PROVE  /\ Append(s, x) \in Seq(S) /\ Len(Append(s, x)) = Len(s) + 1 /\ Len(s) \in Nat
         /\ Append(s, x)[Len(s) + 1] = x /\ \A i \in 1..Len(s) : Append(s, x)[i] = s[i]
OBVIOUS

\* The paths read after each row, as localIds has them.
Reading(rows, read) ==
  read = [n \in 0..Len(rows) |->
            IF n = 0 THEN <<>>
            ELSE Append(read[n - 1],
                        Append(IF rows[n].parent \in DOMAIN read[n - 1]
                                 THEN read[n - 1][rows[n].parent] ELSE <<>>, rows[n].name))]

LEMMA ReadingRuns ==
  ASSUME NEW rows \in Seq(FolderRec)
  PROVE  \E read : Reading(rows, read) /\ LocalPaths(rows) = read[Len(rows)]
<1>. DEFINE N == Len(rows)
            V == Seq(Seq(Name))
            Up(n, paths) == IF rows[n].parent \in DOMAIN paths THEN paths[rows[n].parent] ELSE <<>>
            step == [x \in (1..N) \X V |-> Append(x[2], Append(Up(x[1], x[2]), rows[x[1]].name))]
<1>1. N \in Nat /\ DOMAIN rows = 1..N /\ \A n \in 1..N : rows[n].name \in Name
  <2>1. \A n \in 1..N : rows[n] \in FolderRec
    OBVIOUS
  <2>2. \A f \in FolderRec : f.name \in Name
    BY DEF FolderRec
  <2>. QED
    BY <2>1, <2>2
<1>2. <<>> \in V
  OBVIOUS
<1>3. step \in Loop(N, V)
  <2>1. ASSUME NEW n \in 1..N, NEW paths \in V PROVE step[<<n, paths>>] \in V
    <3>1. Up(n, paths) \in Seq(Name) /\ rows[n].name \in Name
      BY <1>1
    <3>2. Append(Up(n, paths), rows[n].name) \in Seq(Name)
      BY <3>1
    <3>. HIDE DEF Up
    <3>. QED
      BY <3>2
  <2>. QED
    BY <2>1 DEF Loop
<1>. HIDE DEF V, step, N
<1>4. PICK g \in [0..N -> V] : Rounds(N, <<>>, step, g)
  BY <1>1, <1>2, <1>3, Recursion
<1>5. Reading(rows, g)
  <2>1. ASSUME NEW n \in 1..N
        PROVE  g[n] = Append(g[n - 1], Append(Up(n, g[n - 1]), rows[n].name))
    <3>1. g[n - 1] \in V
      BY <1>1
    <3>. QED
      BY <1>4, <3>1 DEF step, Rounds
  <2>2. \A n \in 0..N : g[n] = IF n = 0 THEN <<>>
                               ELSE Append(g[n - 1], Append(Up(n, g[n - 1]), rows[n].name))
    <3>1. \A n \in 0..N : n # 0 => n \in 1..N
      BY <1>1
    <3>. QED
      BY <1>4, <2>1, <3>1 DEF Rounds
  <2>. QED
    BY <2>2 DEF Reading, N
<1>6. LocalPaths(rows) = (CHOOSE read : Reading(rows, read))[Len(rows)]
  BY DEF LocalPaths, Reading
<1>. QED
  BY <1>5, <1>6 DEF N

\* The path of a row is that of its parent with its name, when parents come first.
LEMMA LocalPathsAre ==
  ASSUME NEW rows \in Seq(FolderRec), \A i \in DOMAIN rows : rows[i].parent \in 0..(i - 1)
  PROVE  /\ LocalPaths(rows) \in [DOMAIN rows -> Seq(Name)]
         /\ \A i \in DOMAIN rows :
              LocalPaths(rows)[i] = Append(IF rows[i].parent = Root THEN <<>>
                                           ELSE LocalPaths(rows)[rows[i].parent], rows[i].name)
<1>. DEFINE N == Len(rows)
            Good(n, paths) ==
              /\ paths \in Seq(Seq(Name)) /\ Len(paths) = n
              /\ \A i \in 1..n : paths[i] = Append(IF rows[i].parent = Root THEN <<>>
                                                   ELSE paths[rows[i].parent], rows[i].name)
<1>1. PICK read : Reading(rows, read) /\ LocalPaths(rows) = read[N]
  BY ReadingRuns
<1>2. N \in Nat /\ DOMAIN rows = 1..N /\ \A n \in 1..N : rows[n].name \in Name
  <2>1. \A n \in 1..N : rows[n] \in FolderRec
    OBVIOUS
  <2>2. \A f \in FolderRec : f.name \in Name
    BY DEF FolderRec
  <2>. QED
    BY <2>1, <2>2
<1>3. \A n \in 0..N : read[n] =
        IF n = 0 THEN <<>>
        ELSE Append(read[n - 1],
                    Append(IF rows[n].parent \in DOMAIN read[n - 1]
                             THEN read[n - 1][rows[n].parent] ELSE <<>>, rows[n].name))
  BY <1>1, Zenon DEF Reading, N
<1>. HIDE DEF N
<1>4. \A n \in 0..N : Good(n, read[n])
  <2>. DEFINE P == {n \in 0..N : Good(n, read[n])}
  <2>1. 0 \in P
    <3>1. read[0] = <<>> /\ 0 \in 0..N
      BY <1>2, <1>3
    <3>2. Good(0, <<>>)
      OBVIOUS
    <3>. HIDE DEF Good
    <3>. QED
      BY <3>1, <3>2
  <2>2. ASSUME NEW n \in 0..(N - 1), n \in P PROVE n + 1 \in P
    <3>. DEFINE paths == read[n]
                up == rows[n + 1].parent
                path == Append(IF up = Root THEN <<>> ELSE paths[up], rows[n + 1].name)
    <3>1. n + 1 \in 0..N /\ n + 1 # 0 /\ (n + 1) - 1 = n /\ n + 1 \in DOMAIN rows
      BY <1>2
    <3>2. paths \in Seq(Seq(Name)) /\ Len(paths) = n /\ DOMAIN paths = 1..n
      BY <2>2
    <3>3. up \in 0..n /\ (up \in DOMAIN paths <=> up # Root)
      BY <3>1, <3>2 DEF Root
    <3>4. read[n + 1] = Append(paths, path)
      BY <1>3, <3>1, <3>3
    <3>5. path \in Seq(Name)
      BY <1>2, <3>1, <3>2, <3>3
    <3>6. /\ read[n + 1] \in Seq(Seq(Name)) /\ Len(read[n + 1]) = n + 1
          /\ read[n + 1][n + 1] = path /\ \A i \in 1..n : read[n + 1][i] = paths[i]
      <4>. DEFINE S == Seq(Name)
      <4>1. paths \in Seq(S) /\ path \in S /\ Len(paths) = n
        BY <3>2, <3>5
      <4>. HIDE DEF path, paths, S
      <4>2. /\ Append(paths, path) \in Seq(S) /\ Len(Append(paths, path)) = n + 1
            /\ Append(paths, path)[n + 1] = path
            /\ \A i \in 1..n : Append(paths, path)[i] = paths[i]
        BY <4>1, Appended
      <4>. QED
        BY <3>4, <4>2 DEF S
    <3>7. ASSUME NEW i \in 1..(n + 1)
          PROVE  read[n + 1][i] = Append(IF rows[i].parent = Root THEN <<>>
                                         ELSE read[n + 1][rows[i].parent], rows[i].name)
      <4>1. i \in DOMAIN rows /\ rows[i].parent \in 0..(i - 1)
        BY <1>2
      <4>2. rows[i].parent # Root => read[n + 1][rows[i].parent] = paths[rows[i].parent]
        <5>1. rows[i].parent # Root => rows[i].parent \in 1..n
          BY <4>1, <1>2 DEF Root
        <5>. QED
          BY <5>1, <3>6
      <4>3. CASE i = n + 1
        BY <3>6, <4>2, <4>3
      <4>4. CASE i # n + 1
        <5>1. i \in 1..n
          BY <4>4
        <5>2. paths[i] = Append(IF rows[i].parent = Root THEN <<>>
                                ELSE paths[rows[i].parent], rows[i].name)
          BY <2>2, <5>1
        <5>. QED
          BY <3>6, <4>2, <5>1, <5>2
      <4>. QED
        BY <4>3, <4>4
    <3>8. Good(n + 1, read[n + 1])
      BY <3>6, <3>7
    <3>. HIDE DEF Good
    <3>. QED
      BY <3>1, <3>8
  <2>. HIDE DEF P
  <2>3. \A n \in 0..N : n \in P
    BY <1>2, <2>1, <2>2, CountUp
  <2>. QED
    BY <2>3 DEF P
<1>5. Good(N, LocalPaths(rows))
  <2>. HIDE DEF Good
  <2>. QED
    BY <1>1, <1>2, <1>4
<1>6. LocalPaths(rows) \in [DOMAIN rows -> Seq(Name)]
  BY <1>2, <1>5
<1>. QED
  BY <1>2, <1>5, <1>6

\* The names of a path as h reads them, and paths a list leads along with them.
Spelled(h, path) == [i \in DOMAIN path |-> h[path[i]]]
Tree(h, list, P) ==
  /\ P[Root] = <<>>
  /\ \A i \in DOMAIN list : P[list[i].id] = Append(P[list[i].parent], h[list[i].name])

LEMMA SpelledAppend ==
  ASSUME NEW X, NEW h \in [Name -> X], NEW path \in Seq(Name), NEW name \in Name
  PROVE  /\ Spelled(h, path) \in Seq(X)
         /\ Spelled(h, Append(path, name)) = Append(Spelled(h, path), h[name])
         /\ Spelled(h, <<>>) = <<>>
<1>1. Len(path) \in Nat /\ DOMAIN path = 1..Len(path) /\ \A i \in 1..Len(path) : path[i] \in Name
  OBVIOUS
<1>2. Spelled(h, path) \in Seq(X) /\ Len(Spelled(h, path)) = Len(path)
  BY <1>1 DEF Spelled
<1>3. DOMAIN Append(path, name) = 1..(Len(path) + 1)
  BY <1>1
<1>4. Spelled(h, Append(path, name)) \in Seq(X) /\ Len(Spelled(h, Append(path, name))) = Len(path) + 1
  BY <1>1, <1>3 DEF Spelled
<1>5. \A i \in 1..(Len(path) + 1) :
        Spelled(h, Append(path, name))[i] = Append(Spelled(h, path), h[name])[i]
  <2>1. \A i \in 1..Len(path) : Spelled(h, path)[i] = h[path[i]]
    BY <1>1 DEF Spelled
  <2>2. \A i \in 1..(Len(path) + 1) :
          Spelled(h, Append(path, name))[i] = IF i = Len(path) + 1 THEN h[name] ELSE h[path[i]]
    BY <1>1, <1>3 DEF Spelled
  <2>. QED
    BY <1>1, <1>2, <2>1, <2>2
<1>6. Append(Spelled(h, path), h[name]) \in Seq(X)
      /\ Len(Append(Spelled(h, path), h[name])) = Len(path) + 1
  BY <1>2
<1>7. Spelled(h, <<>>) = <<>>
  BY DEF Spelled
<1>. HIDE DEF Spelled
<1>. QED
  BY <1>2, <1>4, <1>5, <1>6, <1>7
-----------------------------------------------------------------------------
(***************************************************************************)
(* buildPack: the parts the files are in.                                  *)
(***************************************************************************)
\* The path of a folder by the rows of a pack.
Where(rows, id) == IF id = Root THEN <<>> ELSE LocalPaths(rows)[id]

LEMMA WhereIs ==
  ASSUME NEW rows \in Seq(FolderRec), \A i \in DOMAIN rows : rows[i].parent \in 0..(i - 1)
  PROVE  /\ \A id \in {Root} \cup DOMAIN rows : Where(rows, id) \in Seq(Name)
         /\ \A i \in DOMAIN rows :
              /\ rows[i].parent \in {Root} \cup DOMAIN rows
              /\ Where(rows, i) = LocalPaths(rows)[i]
              /\ Where(rows, i) = Append(Where(rows, rows[i].parent), rows[i].name)
<1>1. \A i \in DOMAIN rows : i # Root /\ rows[i].parent \in {Root} \cup DOMAIN rows
  BY DEF Root
<1>2. <<>> \in Seq(Name)
  OBVIOUS
<1>. QED
  BY <1>1, <1>2, LocalPathsAre DEF Where

\* The pack and its import keep the paths of the list.
LEMMA PathsKept ==
  ASSUME FolderList(folders), Buildable, NEW X, NEW h \in [Name -> X], NEW P, Tree(h, folders, P)
  PROVE  \A id \in {Root} \cup Ids(folders) :
           /\ PackId(id) \in {Root} \cup DOMAIN folders
           /\ Spelled(h, Where(FolderRows, PackId(id))) = P[id]
<1>. DEFINE q == Ordered(folders)
            N == Len(folders)
            Good(i) == Spelled(h, Where(FolderRows, i)) = P[q[i].id]
<1>1. /\ N \in Nat /\ DOMAIN folders = 1..N /\ DOMAIN q = 1..N
      /\ Len(Ordered(folders)) = Len(folders)
      /\ \A i \in 1..N : q[i] \in Range(folders)
      /\ \A i \in 1..N : q[i].parent = Root \/ \E j \in DOMAIN q : j < i /\ q[j].id = q[i].parent
  BY OrderedIs DEF FolderList, Buildable
<1>2. /\ FolderRows \in Seq(FolderRec) /\ DOMAIN FolderRows = 1..N
      /\ \A i \in 1..N : /\ FolderRows[i].parent \in 0..(i - 1)
                         /\ FolderRows[i].name = q[i].name
                         /\ FolderRows[i].parent = PackId(q[i].parent)
  BY <1>1, FolderRowsAre
<1>3. \A i \in 1..N : P[q[i].id] = Append(P[q[i].parent], h[q[i].name])
  BY <1>1 DEF Tree, Range
<1>4. /\ PackId(Root) = Root /\ \A i \in 1..N : PackId(q[i].id) = i
      /\ \A id \in Ids(folders) : PackId(id) \in 1..N /\ q[PackId(id)].id = id
  BY <1>1, PackIdIs
<1>. HIDE DEF q, N
<1>5. Spelled(h, Where(FolderRows, Root)) = P[Root]
  BY DEF Where, Tree, Spelled
<1>6. \A n \in 0..N : \A i \in 1..n : Good(i)
  <2>. DEFINE Q == {n \in 0..N : \A i \in 1..n : Good(i)}
  <2>1. 0 \in Q
    BY <1>1
  <2>2. ASSUME NEW n \in 0..(N - 1), n \in Q PROVE n + 1 \in Q
    <3>1. n + 1 \in 1..N /\ n + 1 \in 0..N
      BY <1>1
    <3>2. FolderRows[n + 1].parent = PackId(q[n + 1].parent)
      BY <1>2, <3>1
    <3>3. Spelled(h, Where(FolderRows, PackId(q[n + 1].parent))) = P[q[n + 1].parent]
      <4>1. CASE q[n + 1].parent = Root
        BY <1>4, <1>5, <4>1
      <4>2. CASE q[n + 1].parent # Root
        <5>1. PICK j \in 1..N : j < n + 1 /\ q[j].id = q[n + 1].parent
          BY <1>1, <3>1, <4>2
        <5>2. j \in 1..n
          BY <5>1, <1>1
        <5>3. Good(j)
          BY <2>2, <5>2
        <5>. QED
          BY <1>4, <5>1, <5>3
      <4>. QED
        BY <4>1, <4>2
    <3>4. Where(FolderRows, n + 1)
            = Append(Where(FolderRows, FolderRows[n + 1].parent), FolderRows[n + 1].name)
      BY <1>2, <3>1, WhereIs
    <3>5. Where(FolderRows, FolderRows[n + 1].parent) \in Seq(Name)
      BY <1>2, <3>1, WhereIs
    <3>6. FolderRows[n + 1].name \in Name
      <4>1. FolderRows[n + 1] \in FolderRec
        <5>1. \A rows \in Seq(FolderRec) : \A i \in DOMAIN rows : rows[i] \in FolderRec
          OBVIOUS
        <5>. QED
          BY <1>2, <3>1, <5>1
      <4>. QED
        BY <4>1 DEF FolderRec
    <3>7. Good(n + 1)
      <4>. DEFINE w == Where(FolderRows, FolderRows[n + 1].parent)
                  name == FolderRows[n + 1].name
      <4>1. w \in Seq(Name) /\ name \in Name /\ Where(FolderRows, n + 1) = Append(w, name)
        BY <3>4, <3>5, <3>6
      <4>2. Spelled(h, w) = P[q[n + 1].parent] /\ name = q[n + 1].name
        BY <1>2, <3>1, <3>2, <3>3
      <4>3. P[q[n + 1].id] = Append(P[q[n + 1].parent], h[q[n + 1].name])
        BY <1>3, <3>1
      <4>. HIDE DEF w, name
      <4>4. Spelled(h, Append(w, name)) = Append(Spelled(h, w), h[name])
        BY <4>1, SpelledAppend
      <4>. QED
        BY <4>1, <4>2, <4>3, <4>4
    <3>8. \A i \in 1..(n + 1) : i = n + 1 \/ i \in 1..n
      BY <3>1
    <3>. HIDE DEF Good
    <3>. QED
      BY <2>2, <3>1, <3>7, <3>8
  <2>. HIDE DEF Q
  <2>3. \A n \in 0..N : n \in Q
    BY <1>1, <2>1, <2>2, CountUp
  <2>. QED
    BY <2>3 DEF Q
<1>7. \A i \in 1..N : Good(i)
  <2>1. N \in 0..N
    BY <1>1
  <2>. HIDE DEF Good
  <2>. QED
    BY <1>6, <2>1
<1>. QED
  BY <1>1, <1>4, <1>5, <1>7

\* The files in parts after the folders before n have been dealt with.
Grouped(n) == {i \in DOMAIN packFiles : PackId(packFiles[i].folder) = n}
Filling(fill) ==
  fill = [n \in 0..(Len(folders) + 1) |->
            IF n = 0 THEN [parts |-> <<{}>>, size |-> Len(folders)]
            ELSE LET acc == fill[n - 1]
                     last == Len(acc.parts)
                     group == {i \in DOMAIN packFiles : PackId(packFiles[i].folder) = n - 1}
                     size == acc.size + Cardinality(group)
                 IN IF group # {} /\ acc.parts[last] # {} /\ size > PartSize
                      THEN [parts |-> Append(acc.parts, group), size |-> Cardinality(group)]
                      ELSE [parts |-> [acc.parts EXCEPT ![last] = @ \cup group], size |-> size]]

\* The parts have the files of the first n folders, those of a folder in one part.
Parted(ps, n) ==
  /\ ps \in Seq(SUBSET DOMAIN packFiles) /\ Len(ps) >= 1
  /\ \A i \in DOMAIN packFiles :
       PackId(packFiles[i].folder) \in 0..(n - 1) <=> \E p \in DOMAIN ps : i \in ps[p]
  /\ \A p, r \in DOMAIN ps : \A i \in ps[p] : \A j \in ps[r] :
       PackId(packFiles[i].folder) = PackId(packFiles[j].folder) => p = r

LEMMA GroupParted ==
  ASSUME NEW n \in Nat, NEW ps, Parted(ps, n)
  PROVE  /\ Parted(Append(ps, Grouped(n)), n + 1)
         /\ Parted([ps EXCEPT ![Len(ps)] = @ \cup Grouped(n)], n + 1)
<1>. DEFINE group == Grouped(n)
            D == DOMAIN packFiles
            F(i) == PackId(packFiles[i].folder)
            L == Len(ps)
<1>1. ps \in Seq(SUBSET D) /\ L \in Nat /\ L >= 1 /\ DOMAIN ps = 1..L
  BY DEF Parted
<1>2. group \in SUBSET D /\ \A i \in D : i \in group <=> F(i) = n
  BY DEF Grouped
<1>3. \A i \in D : F(i) \in 0..(n - 1) <=> \E p \in 1..L : i \in ps[p]
  BY <1>1 DEF Parted
<1>4. \A p, r \in 1..L : \A i \in ps[p] : \A j \in ps[r] : F(i) = F(j) => p = r
  BY <1>1 DEF Parted
<1>5. \A p \in 1..L : ps[p] \subseteq D /\ \A i \in ps[p] : F(i) \in 0..(n - 1) /\ F(i) # n
  BY <1>1, <1>3
<1>6. \A i \in D : F(i) \in 0..n <=> F(i) \in 0..(n - 1) \/ F(i) = n
  OBVIOUS
<1>. HIDE DEF D, F, group
<1>7. Parted(Append(ps, group), n + 1)
  <2>. DEFINE r == Append(ps, group)
  <2>1. /\ r \in Seq(SUBSET D) /\ Len(r) = L + 1 /\ DOMAIN r = 1..(L + 1)
        /\ r[L + 1] = group /\ \A p \in 1..L : r[p] = ps[p]
    BY <1>1, <1>2
  <2>. HIDE DEF r, L
  <2>2. \A i \in D : F(i) \in 0..n <=> \E p \in 1..(L + 1) : i \in r[p]
    <3>1. ASSUME NEW i \in D PROVE (\E p \in 1..(L + 1) : i \in r[p])
                                     <=> (\E p \in 1..L : i \in ps[p]) \/ i \in group
      <4>1. \A p \in 1..(L + 1) : p \in 1..L \/ p = L + 1
        BY <1>1
      <4>2. \A p \in 1..L : p \in 1..(L + 1)
        BY <1>1
      <4>3. L + 1 \in 1..(L + 1)
        BY <1>1
      <4>. QED
        BY <2>1, <4>1, <4>2, <4>3
    <3>. QED
      BY <3>1, <1>2, <1>3, <1>6
  <2>3. ASSUME NEW p \in 1..(L + 1), NEW t \in 1..(L + 1), NEW i \in r[p], NEW j \in r[t],
               F(i) = F(j)
        PROVE  p = t
    <3>1. \A u \in 1..(L + 1) : u \in 1..L \/ u = L + 1
      BY <1>1
    <3>. QED
      BY <3>1, <2>1, <2>3, <1>2, <1>4, <1>5
  <2>4. (n + 1) - 1 = n /\ Len(r) >= 1
    BY <1>1, <2>1
  <2>. QED
    BY <2>1, <2>2, <2>3, <2>4 DEF Parted, r, D, F
<1>8. Parted([ps EXCEPT ![Len(ps)] = @ \cup group], n + 1)
  <2>. DEFINE r == [ps EXCEPT ![L] = @ \cup group]
  <2>1. /\ r \in Seq(SUBSET D) /\ Len(r) = L /\ DOMAIN r = 1..L
        /\ \A p \in 1..L : r[p] = IF p = L THEN ps[L] \cup group ELSE ps[p]
    BY <1>1, <1>2
  <2>2. r = [ps EXCEPT ![Len(ps)] = @ \cup group]
    OBVIOUS
  <2>. HIDE DEF r, L
  <2>3. \A i \in D : F(i) \in 0..n <=> \E p \in 1..L : i \in r[p]
    <3>1. ASSUME NEW i \in D PROVE (\E p \in 1..L : i \in r[p])
                                     <=> (\E p \in 1..L : i \in ps[p]) \/ i \in group
      <4>1. L \in 1..L
        BY <1>1 DEF L
      <4>. QED
        BY <2>1, <4>1
    <3>. QED
      BY <3>1, <1>2, <1>3, <1>6
  <2>4. ASSUME NEW p \in 1..L, NEW t \in 1..L, NEW i \in r[p], NEW j \in r[t], F(i) = F(j)
        PROVE  p = t
    <3>1. (i \in ps[p] \/ (p = L /\ i \in group)) /\ (j \in ps[t] \/ (t = L /\ j \in group))
      BY <2>1
    <3>. QED
      BY <3>1, <2>4, <1>2, <1>4, <1>5
  <2>5. (n + 1) - 1 = n /\ Len(r) >= 1
    BY <1>1, <2>1
  <2>. QED
    BY <2>1, <2>2, <2>3, <2>4, <2>5 DEF Parted, D, F
<1>. QED
  BY <1>7, <1>8 DEF group

LEMMA FillingRuns ==
  ASSUME folders \in Seq(FolderRec), packFiles \in Seq(FileRec)
  PROVE  \E fill : Filling(fill) /\ PartFiles = fill[Len(folders) + 1].parts
<1>. DEFINE N == Len(folders) + 1
            D == DOMAIN packFiles
            V == [parts: Seq(SUBSET D), size: Nat]
            Next1(n, acc) ==
              LET last == Len(acc.parts)
                  group == {i \in DOMAIN packFiles : PackId(packFiles[i].folder) = n - 1}
                  size == acc.size + Cardinality(group)
              IN IF group # {} /\ acc.parts[last] # {} /\ size > PartSize
                   THEN [parts |-> Append(acc.parts, group), size |-> Cardinality(group)]
                   ELSE [parts |-> [acc.parts EXCEPT ![last] = @ \cup group], size |-> size]
            step == [x \in (1..N) \X V |-> Next1(x[1], x[2])]
            start == [parts |-> <<{}>>, size |-> Len(folders)]
<1>1. N \in Nat /\ Len(folders) \in Nat
  OBVIOUS
<1>2. start \in V
  BY <1>1
<1>3. IsFiniteSet(D)
  <2>1. D = 1..Len(packFiles) /\ Len(packFiles) \in Int /\ 1 \in Int
    OBVIOUS
  <2>. QED
    BY <2>1, FS_Interval
<1>4. step \in Loop(N, V)
  <2>1. ASSUME NEW n \in 1..N, NEW acc \in V PROVE Next1(n, acc) \in V
    <3>. DEFINE group == {i \in DOMAIN packFiles : PackId(packFiles[i].folder) = n - 1}
                last == Len(acc.parts)
                size == acc.size + Cardinality(group)
    <3>1. group \in SUBSET D /\ Cardinality(group) \in Nat
      BY <1>3, FS_Subset, FS_CardinalityType
    <3>2. acc.parts \in Seq(SUBSET D) /\ acc.size \in Nat
      OBVIOUS
    <3>. HIDE DEF group, D
    <3>3. Append(acc.parts, group) \in Seq(SUBSET D)
      BY <3>1, <3>2
    <3>4. [acc.parts EXCEPT ![last] = @ \cup group] \in Seq(SUBSET D)
      <4>. DEFINE ps == acc.parts
                  r == [ps EXCEPT ![last] = @ \cup group]
      <4>1. ps \in Seq(SUBSET D) /\ Len(ps) \in Nat
        BY <3>2
      <4>2. \A k \in 1..Len(ps) : ps[k] \in SUBSET D
        BY <4>1
      <4>3. DOMAIN r = 1..Len(ps) /\ \A k \in 1..Len(ps) : r[k] \in SUBSET D
        <5>1. r = [k \in DOMAIN ps |-> IF k = last THEN ps[last] \cup group ELSE ps[k]]
          OBVIOUS
        <5>2. DOMAIN ps = 1..Len(ps)
          BY <4>1
        <5>. HIDE DEF ps, last
        <5>. QED
          BY <3>1, <4>2, <5>1, <5>2
      <4>4. r = [k \in 1..Len(ps) |-> r[k]]
        BY <4>3
      <4>. HIDE DEF r
      <4>5. r \in Seq(SUBSET D)
        BY <4>1, <4>3, <4>4
      <4>. QED
        BY <4>5 DEF r
    <3>5. Next1(n, acc) =
            IF group # {} /\ acc.parts[last] # {} /\ size > PartSize
              THEN [parts |-> Append(acc.parts, group), size |-> Cardinality(group)]
              ELSE [parts |-> [acc.parts EXCEPT ![last] = @ \cup group], size |-> size]
      BY Zenon DEF group
    <3>. HIDE DEF Next1
    <3>. QED
      BY <3>1, <3>2, <3>3, <3>4, <3>5
  <2>2. \A x \in (1..N) \X V : step[x] \in V
    <3>. HIDE DEF Next1, V
    <3>. QED
      BY <2>1
  <2>. HIDE DEF Next1, V
  <2>. QED
    BY <2>2 DEF Loop
<1>. HIDE DEF V, step, N, start
<1>5. PICK g \in [0..N -> V] : Rounds(N, start, step, g)
  BY <1>1, <1>2, <1>4, Recursion
<1>6. Filling(g)
  <2>. HIDE DEF Next1
  <2>1. ASSUME NEW n \in 1..N PROVE g[n] = Next1(n, g[n - 1])
    <3>1. g[n - 1] \in V
      BY <1>1
    <3>. QED
      BY <1>5, <3>1 DEF step, Rounds
  <2>2. \A n \in 0..N : g[n] = IF n = 0 THEN start ELSE Next1(n, g[n - 1])
    <3>1. \A n \in 0..N : n # 0 => n \in 1..N
      BY <1>1
    <3>. QED
      BY <1>5, <2>1, <3>1 DEF Rounds
  <2>3. g = [n \in 0..N |-> IF n = 0 THEN start ELSE Next1(n, g[n - 1])]
    BY <2>2
  <2>. QED
    BY <2>3, Zenon DEF Filling, N, start, Next1
<1>7. PartFiles = (CHOOSE fill : Filling(fill))[Len(folders) + 1].parts
  BY Zenon DEF PartFiles, Filling
<1>. QED
  BY <1>6, <1>7

\* Every file is in a part, and those of a folder in one.
LEMMA PartFilesAre ==
  ASSUME FolderList(folders), Buildable, packFiles \in Seq(FileRec)
  PROVE  /\ PartFiles \in Seq(SUBSET DOMAIN packFiles) /\ Len(PartFiles) >= 1
         /\ \A i \in DOMAIN packFiles : \E p \in DOMAIN PartFiles : i \in PartFiles[p]
         /\ \A p, r \in DOMAIN PartFiles : \A i \in PartFiles[p] : \A j \in PartFiles[r] :
              PackId(packFiles[i].folder) = PackId(packFiles[j].folder) => p = r
<1>. DEFINE N == Len(folders) + 1
<1>1. folders \in Seq(FolderRec) /\ N \in Nat /\ Len(folders) \in Nat
  BY DEF FolderList
<1>2. PICK fill : Filling(fill) /\ PartFiles = fill[N].parts
  BY <1>1, FillingRuns
<1>3. /\ fill[0].parts = <<{}>>
      /\ \A n \in 0..(N - 1) :
           \/ fill[n + 1].parts = Append(fill[n].parts, Grouped(n))
           \/ fill[n + 1].parts = [fill[n].parts EXCEPT ![Len(fill[n].parts)] = @ \cup Grouped(n)]
  <2>. DEFINE big(n) == /\ Grouped(n - 1) # {} /\ fill[n - 1].parts[Len(fill[n - 1].parts)] # {}
                        /\ fill[n - 1].size + Cardinality(Grouped(n - 1)) > PartSize
  <2>1. \A n \in 0..N :
          fill[n] = IF n = 0 THEN [parts |-> <<{}>>, size |-> Len(folders)]
                    ELSE IF big(n)
                      THEN [parts |-> Append(fill[n - 1].parts, Grouped(n - 1)),
                            size |-> Cardinality(Grouped(n - 1))]
                      ELSE [parts |-> [fill[n - 1].parts EXCEPT ![Len(fill[n - 1].parts)]
                                                                  = @ \cup Grouped(n - 1)],
                            size |-> fill[n - 1].size + Cardinality(Grouped(n - 1))]
    BY <1>2, Zenon DEF Filling, Grouped
  <2>. HIDE DEF big
  <2>2. fill[0].parts = <<{}>>
    <3>1. 0 \in 0..N
      BY <1>1
    <3>2. fill[0] = [parts |-> <<{}>>, size |-> Len(folders)]
      BY <2>1, <3>1, Zenon
    <3>. QED
      BY <3>2
  <2>3. ASSUME NEW n \in 0..(N - 1)
        PROVE  \/ fill[n + 1].parts = Append(fill[n].parts, Grouped(n))
               \/ fill[n + 1].parts
                    = [fill[n].parts EXCEPT ![Len(fill[n].parts)] = @ \cup Grouped(n)]
    <3>1. n + 1 \in 0..N /\ n + 1 # 0 /\ (n + 1) - 1 = n
      BY <1>1
    <3>2. fill[n + 1] =
            IF big(n + 1)
              THEN [parts |-> Append(fill[n].parts, Grouped(n)), size |-> Cardinality(Grouped(n))]
              ELSE [parts |-> [fill[n].parts EXCEPT ![Len(fill[n].parts)] = @ \cup Grouped(n)],
                    size |-> fill[n].size + Cardinality(Grouped(n))]
      BY <2>1, <3>1
    <3>. HIDE DEF N
    <3>. QED
      BY <3>2
  <2>. QED
    BY <2>2, <2>3
<1>. HIDE DEF N
<1>4. \A n \in 0..N : Parted(fill[n].parts, n)
  <2>. DEFINE P == {n \in 0..N : Parted(fill[n].parts, n)}
  <2>1. 0 \in P
    <3>1. fill[0].parts = <<{}>> /\ 0 \in 0..N
      BY <1>1, <1>3
    <3>2. Parted(<<{}>>, 0)
      <4>1. <<{}>> \in Seq(SUBSET DOMAIN packFiles) /\ Len(<<{}>>) = 1 /\ <<{}>>[1] = {}
        OBVIOUS
      <4>. QED
        BY <4>1 DEF Parted
    <3>. QED
      BY <3>1, <3>2
  <2>2. ASSUME NEW n \in 0..(N - 1), n \in P PROVE n + 1 \in P
    <3>1. n \in Nat /\ n + 1 \in 0..N /\ n + 1 # 0 /\ (n + 1) - 1 = n
      BY <1>1
    <3>. DEFINE ps == fill[n].parts
    <3>2. \/ fill[n + 1].parts = Append(ps, Grouped(n))
          \/ fill[n + 1].parts = [ps EXCEPT ![Len(ps)] = @ \cup Grouped(n)]
      BY <1>3, <3>1
    <3>3. Parted(ps, n)
      BY <2>2
    <3>. HIDE DEF ps
    <3>4. Parted(fill[n + 1].parts, n + 1)
      BY <3>1, <3>2, <3>3, GroupParted
    <3>. QED
      BY <3>1, <3>4
  <2>. HIDE DEF P
  <2>3. \A n \in 0..N : n \in P
    BY <1>1, <2>1, <2>2, CountUp
  <2>. QED
    BY <2>3 DEF P
<1>5. Parted(PartFiles, N)
  <2>1. N \in 0..N
    BY <1>1
  <2>. QED
    BY <1>2, <1>4, <2>1
<1>6. \A i \in DOMAIN packFiles : PackId(packFiles[i].folder) \in 0..(N - 1)
  <2>1. \A id \in Ids(folders) : PackId(id) \in DOMAIN folders
    BY PackIdIs DEF Buildable
  <2>2. DOMAIN folders = 1..(N - 1) /\ 0 \in 0..(N - 1)
    BY <1>1 DEF N
  <2>. QED
    BY <1>1, <2>1, <2>2, PackIdIs DEF Buildable, Root
<1>. QED
  BY <1>5, <1>6 DEF Parted
-----------------------------------------------------------------------------
(***************************************************************************)
(* importPackParts: the rows of a pack, and the pack of a list.            *)
(***************************************************************************)
\* A pack as parsed: folder rows in the first part, files by their places in each.
Pack(rows, n, fs) ==
  parts = [i \in 1..n |-> [part |-> i, parts |-> n, files |-> fs[i],
                           folders |-> IF i = 1 THEN rows ELSE <<>>]]

Places(n, fs) == UNION {{i} \X DOMAIN fs[i] : i \in 1..n}
FileAt(fs, x) == fs[x[1]][x[2]]
FilePath(rows, f) == Append(Where(rows, f.folder), f.name)

\* Folders come after their parents, and the files of a folder are in one part.
PackShape(rows, n, fs) ==
  /\ rows \in Seq(FolderRec) /\ Len(rows) <= MaxFolders
  /\ \A i \in DOMAIN rows : rows[i].parent \in 0..(i - 1)
  /\ n \in Nat \ {0} /\ IsFiniteSet(Places(n, fs))
  /\ \A x \in Places(n, fs) : /\ FileAt(fs, x) \in FileRec
                              /\ FileAt(fs, x).folder \in {Root} \cup DOMAIN rows
  /\ \A x, y \in Places(n, fs) : FileAt(fs, x).folder = FileAt(fs, y).folder => x[1] = y[1]

\* An import makes a row of each row of the pack, with its path.
LEMMA ImportedIs ==
  ASSUME NEW rows, NEW n, NEW fs, PackShape(rows, n, fs), Pack(rows, n, fs)
  PROVE  /\ Imported.folders = [i \in DOMAIN rows |->
                                  [id |-> i, parent |-> rows[i].parent, name |-> rows[i].name,
                                   path |-> Where(rows, i)]]
         /\ Imported.files = [x \in Places(n, fs) |->
                                [folder |-> FileAt(fs, x).folder, name |-> FileAt(fs, x).name,
                                 path |-> FilePath(rows, FileAt(fs, x))]]
<1>. DEFINE sorted == [i \in DOMAIN parts |-> CHOOSE p \in Range(parts) : p.part = i]
            paths == LocalPaths(sorted[1].folders)
<1>1. /\ n \in Nat \ {0} /\ DOMAIN parts = 1..n /\ rows \in Seq(FolderRec)
      /\ \A i \in 1..n : parts[i].part = i /\ parts[i].files = fs[i]
      /\ parts[1].folders = rows
  BY DEF Pack, PackShape
<1>2. sorted = parts
  <2>1. \A i \in DOMAIN parts : (CHOOSE p \in Range(parts) : p.part = i) = parts[i]
    <3>1. ASSUME NEW i \in DOMAIN parts
          PROVE  (CHOOSE p \in Range(parts) : p.part = i) = parts[i]
      <4>1. parts[i] \in Range(parts) /\ parts[i].part = i
        BY <1>1 DEF Range
      <4>2. \A p \in Range(parts) : p.part = i => p = parts[i]
        BY <1>1 DEF Range
      <4>. QED
        BY <4>1, <4>2
    <3>. QED
      BY <3>1
  <2>2. parts = [i \in DOMAIN parts |-> parts[i]]
    BY DEF Pack
  <2>. QED
    BY <2>1, <2>2
<1>3. Imported =
        [folders |-> [i \in DOMAIN sorted[1].folders |->
                        [id |-> i, parent |-> sorted[1].folders[i].parent,
                         name |-> sorted[1].folders[i].name, path |-> paths[i]]],
         files |-> [x \in UNION {{i} \X DOMAIN sorted[i].files : i \in DOMAIN sorted} |->
                      [folder |-> sorted[x[1]].files[x[2]].folder,
                       name |-> sorted[x[1]].files[x[2]].name,
                       path |-> Append(IF sorted[x[1]].files[x[2]].folder = Root THEN <<>>
                                       ELSE paths[sorted[x[1]].files[x[2]].folder],
                                       sorted[x[1]].files[x[2]].name)]]]
  BY Zenon DEF Imported
<1>4. sorted[1].folders = rows /\ paths = LocalPaths(rows)
  BY <1>1, <1>2
<1>5. UNION {{i} \X DOMAIN sorted[i].files : i \in DOMAIN sorted} = Places(n, fs)
  <2>. HIDE DEF sorted
  <2>1. \A i \in 1..n : sorted[i].files = fs[i]
    BY <1>1, <1>2
  <2>. QED
    BY <1>1, <1>2, <2>1 DEF Places
<1>6. \A x \in Places(n, fs) : sorted[x[1]].files[x[2]] = FileAt(fs, x)
  <2>. HIDE DEF sorted
  <2>1. \A x \in Places(n, fs) : x[1] \in 1..n
    BY DEF Places
  <2>. QED
    BY <1>1, <1>2, <2>1 DEF FileAt
<1>. HIDE DEF sorted, paths
<1>7. Imported.folders = [i \in DOMAIN rows |->
                            [id |-> i, parent |-> rows[i].parent, name |-> rows[i].name,
                             path |-> Where(rows, i)]]
  <2>1. \A i \in DOMAIN rows : paths[i] = Where(rows, i)
    BY <1>1, <1>4 DEF Where, Root
  <2>. QED
    BY <1>3, <1>4, <2>1
<1>8. Imported.files = [x \in Places(n, fs) |->
                          [folder |-> FileAt(fs, x).folder, name |-> FileAt(fs, x).name,
                           path |-> FilePath(rows, FileAt(fs, x))]]
  <2>1. \A f : FilePath(rows, f)
                 = Append(IF f.folder = Root THEN <<>> ELSE paths[f.folder], f.name)
    BY <1>4 DEF FilePath, Where
  <2>. QED
    BY <1>3, <1>5, <1>6, <2>1
<1>. QED
  BY <1>7, <1>8

\* What a list of folders and files has to be, and the paths that lead to them along P.
ListShape(list, fls) ==
  FolderList(list) /\ Len(list) <= MaxFolders /\ fls \in Seq(FileRec)

FolderPaths(list, P) == {P[list[i].id] : i \in DOMAIN list}
FilesAt(h, fls, P, i) == Append(P[fls[i].folder], h[fls[i].name])
FilePaths(h, fls, P) == {FilesAt(h, fls, P, i) : i \in DOMAIN fls}
Apart(h, list, fls, P) ==
  /\ \A i, j \in DOMAIN list : P[list[i].id] = P[list[j].id] => i = j
  /\ \A i, j \in DOMAIN fls : FilesAt(h, fls, P, i) = FilesAt(h, fls, P, j) => i = j

\* The same of a pack.
RowsPaths(h, rows) == {Spelled(h, Where(rows, i)) : i \in DOMAIN rows}
PlacesPaths(h, rows, n, fs) ==
  {Spelled(h, FilePath(rows, FileAt(fs, x))) : x \in Places(n, fs)}
PackApart(h, rows, n, fs) ==
  /\ \A i, j \in DOMAIN rows : Spelled(h, Where(rows, i)) = Spelled(h, Where(rows, j)) => i = j
  /\ \A x, y \in Places(n, fs) :
       Spelled(h, FilePath(rows, FileAt(fs, x))) = Spelled(h, FilePath(rows, FileAt(fs, y))) => x = y

\* The files of the parts of buildPack.
BuiltFiles ==
  [p \in DOMAIN PartFiles |-> [k \in PartFiles[p] |-> [packFiles[k] EXCEPT !.folder = PackId(@)]]]

\* A place of a built pack is one of the input: each file is in one part.
LEMMA BuiltPlaces ==
  ASSUME ListShape(folders, packFiles), Buildable
  PROVE  /\ Len(PartFiles) \in Nat \ {0}
         /\ \A x \in Places(Len(PartFiles), BuiltFiles) :
              /\ x = <<x[1], x[2]>> /\ x[2] \in DOMAIN packFiles
              /\ FileAt(BuiltFiles, x) = [packFiles[x[2]] EXCEPT !.folder = PackId(@)]
         /\ \A i \in DOMAIN packFiles : \E x \in Places(Len(PartFiles), BuiltFiles) : x[2] = i
         /\ \A x, y \in Places(Len(PartFiles), BuiltFiles) :
              PackId(packFiles[x[2]].folder) = PackId(packFiles[y[2]].folder) => x[1] = y[1]
<1>. DEFINE n == Len(PartFiles)
<1>1. /\ PartFiles \in Seq(SUBSET DOMAIN packFiles) /\ Len(PartFiles) >= 1
      /\ \A i \in DOMAIN packFiles : \E p \in DOMAIN PartFiles : i \in PartFiles[p]
      /\ \A p, r \in DOMAIN PartFiles : \A i \in PartFiles[p] : \A j \in PartFiles[r] :
           PackId(packFiles[i].folder) = PackId(packFiles[j].folder) => p = r
  BY PartFilesAre DEF ListShape
<1>2. n \in Nat \ {0} /\ DOMAIN PartFiles = 1..n
  BY <1>1
<1>3. \A p \in 1..n : DOMAIN BuiltFiles[p] = PartFiles[p]
  BY <1>2 DEF BuiltFiles
<1>4. ASSUME NEW x \in Places(n, BuiltFiles)
      PROVE  /\ x = <<x[1], x[2]>> /\ x[1] \in 1..n /\ x[2] \in PartFiles[x[1]]
             /\ FileAt(BuiltFiles, x) = [packFiles[x[2]] EXCEPT !.folder = PackId(@)]
  <2>1. PICK p \in 1..n : x \in {p} \X DOMAIN BuiltFiles[p]
    BY DEF Places
  <2>2. x = <<x[1], x[2]>> /\ x[1] = p /\ x[2] \in PartFiles[p]
    BY <1>3, <2>1
  <2>3. BuiltFiles[p][x[2]] = [packFiles[x[2]] EXCEPT !.folder = PackId(@)]
    BY <1>2, <2>2 DEF BuiltFiles
  <2>. QED
    BY <2>2, <2>3 DEF FileAt
<1>5. \A p \in 1..n : \A i \in PartFiles[p] : i \in DOMAIN packFiles
  BY <1>1, <1>2
<1>6. ASSUME NEW i \in DOMAIN packFiles PROVE \E x \in Places(n, BuiltFiles) : x[2] = i
  <2>1. PICK p \in 1..n : i \in PartFiles[p]
    BY <1>1, <1>2
  <2>2. <<p, i>> \in Places(n, BuiltFiles)
    BY <1>3, <2>1 DEF Places
  <2>. QED
    BY <2>2
<1>. HIDE DEF n
<1>7. \A x, y \in Places(n, BuiltFiles) :
        PackId(packFiles[x[2]].folder) = PackId(packFiles[y[2]].folder) => x[1] = y[1]
  BY <1>1, <1>2, <1>4
<1>. QED
  BY <1>2, <1>4, <1>5, <1>6, <1>7 DEF n

LEMMA BuiltShape ==
  ASSUME ListShape(folders, packFiles), Buildable
  PROVE  PackShape(FolderRows, Len(PartFiles), BuiltFiles)
<1>. DEFINE n == Len(PartFiles)
            At == Places(n, BuiltFiles)
<1>1. /\ FolderRows \in Seq(FolderRec) /\ Len(FolderRows) = Len(folders)
      /\ \A i \in DOMAIN folders : FolderRows[i].parent \in 0..(i - 1)
  BY FolderRowsAre DEF ListShape
<1>2. DOMAIN FolderRows = DOMAIN folders /\ folders \in Seq(FolderRec)
  BY <1>1 DEF ListShape, FolderList
<1>3. /\ n \in Nat \ {0}
      /\ \A x \in At : /\ x = <<x[1], x[2]>> /\ x[2] \in DOMAIN packFiles
                       /\ FileAt(BuiltFiles, x) = [packFiles[x[2]] EXCEPT !.folder = PackId(@)]
      /\ \A x, y \in At : PackId(packFiles[x[2]].folder) = PackId(packFiles[y[2]].folder) => x[1] = y[1]
  BY BuiltPlaces
<1>4. \A i \in DOMAIN packFiles :
        /\ packFiles[i] \in FileRec /\ PackId(packFiles[i].folder) \in {Root} \cup DOMAIN folders
  <2>1. \A id \in {Root} \cup Ids(folders) : PackId(id) \in {Root} \cup DOMAIN folders
    BY PackIdIs DEF Buildable, ListShape
  <2>2. \A i \in DOMAIN packFiles : packFiles[i] \in FileRec
    BY DEF ListShape
  <2>. QED
    BY <2>1, <2>2 DEF Buildable
<1>. HIDE DEF n, At
<1>5. ASSUME NEW x \in At
      PROVE  /\ FileAt(BuiltFiles, x) \in FileRec
             /\ FileAt(BuiltFiles, x).folder = PackId(packFiles[x[2]].folder)
  <2>1. packFiles[x[2]] \in FileRec /\ PackId(packFiles[x[2]].folder) \in Nat
    BY <1>2, <1>3, <1>4 DEF Root
  <2>. QED
    BY <1>3, <2>1 DEF FileRec
<1>6. IsFiniteSet(At)
  <2>. DEFINE D == DOMAIN packFiles
              g == [x \in At |-> x[2]]
  <2>1. IsFiniteSet(D)
    <3>1. D = 1..Len(packFiles) /\ Len(packFiles) \in Int /\ 1 \in Int
      BY DEF ListShape
    <3>. QED
      BY <3>1, FS_Interval
  <2>2. g \in Injection(At, D)
    <3>1. g \in [At -> D]
      BY <1>3
    <3>2. ASSUME NEW x \in At, NEW y \in At, g[x] = g[y] PROVE x = y
      <4>1. x[2] = y[2]
        BY <3>2
      <4>2. x[1] = y[1]
        BY <1>3, <4>1
      <4>. QED
        BY <1>3, <4>1, <4>2
    <3>. QED
      BY <3>1, <3>2 DEF Injection, IsInjective
  <2>. HIDE DEF g
  <2>. QED
    BY <2>1, <2>2, FS_Injection
<1>7. \A x, y \in At : FileAt(BuiltFiles, x).folder = FileAt(BuiltFiles, y).folder => x[1] = y[1]
  BY <1>3, <1>5
<1>8. Len(FolderRows) <= MaxFolders
  BY <1>1 DEF ListShape
<1>9. \A x \in At : FileAt(BuiltFiles, x).folder \in {Root} \cup DOMAIN FolderRows
  BY <1>2, <1>3, <1>4, <1>5
<1>. QED
  BY <1>1, <1>2, <1>3, <1>5, <1>6, <1>7, <1>8, <1>9 DEF PackShape, n, At

\* The pack has the paths of its input, and two of its rows one path only if two rows of that had.
LEMMA BuiltPaths ==
  ASSUME ListShape(folders, packFiles), Buildable,
         NEW X, NEW h \in [Name -> X], NEW P, Tree(h, folders, P)
  PROVE  /\ RowsPaths(h, FolderRows) = FolderPaths(folders, P)
         /\ PlacesPaths(h, FolderRows, Len(PartFiles), BuiltFiles) = FilePaths(h, packFiles, P)
         /\ Apart(h, folders, packFiles, P)
              => PackApart(h, FolderRows, Len(PartFiles), BuiltFiles)
<1>. DEFINE rows == FolderRows
            At == Places(Len(PartFiles), BuiltFiles)
            q == Ordered(folders)
            PathAt(i) == Spelled(h, Where(rows, i))
            PathOf(x) == Spelled(h, FilePath(rows, FileAt(BuiltFiles, x)))
<1>0. FolderList(folders) /\ folders \in Seq(FolderRec) /\ packFiles \in Seq(FileRec)
  BY DEF ListShape, FolderList
<1>1. /\ rows \in Seq(FolderRec) /\ DOMAIN rows = DOMAIN folders
      /\ \A i \in DOMAIN rows : rows[i].parent \in 0..(i - 1)
      /\ \A i \in DOMAIN rows : q[i] \in Range(folders)
  <2>1. /\ rows \in Seq(FolderRec) /\ Len(rows) = Len(folders)
        /\ \A i \in DOMAIN folders : rows[i].parent \in 0..(i - 1) /\ q[i] \in Range(folders)
    BY <1>0, FolderRowsAre
  <2>2. DOMAIN rows = DOMAIN folders
    BY <2>1, <1>0
  <2>. QED
    BY <2>1, <2>2
<1>2. \A id \in {Root} \cup Ids(folders) :
        PackId(id) \in {Root} \cup DOMAIN folders /\ Spelled(h, Where(rows, PackId(id))) = P[id]
  BY <1>0, PathsKept
<1>3. /\ \A i \in DOMAIN folders : PackId(q[i].id) = i
      /\ \A id \in Ids(folders) : PackId(id) \in DOMAIN folders /\ q[PackId(id)].id = id
  BY <1>0, PackIdIs DEF Buildable
<1>. HIDE DEF rows, q
<1>4. \A i \in DOMAIN rows : \E k \in DOMAIN folders : q[i].id = folders[k].id /\ PathAt(i) = P[folders[k].id]
  <2>1. \A i \in DOMAIN rows : \E k \in DOMAIN folders : q[i] = folders[k]
    BY <1>1 DEF Range
  <2>2. \A k \in DOMAIN folders : folders[k].id \in Ids(folders)
    BY DEF Ids
  <2>3. ASSUME NEW i \in DOMAIN rows, NEW k \in DOMAIN folders, q[i] = folders[k]
        PROVE  PathAt(i) = P[folders[k].id]
    <3>1. PackId(folders[k].id) = i
      BY <1>1, <1>3, <2>3
    <3>. QED
      BY <1>2, <2>2, <3>1
  <2>. HIDE DEF PathAt
  <2>. QED
    BY <2>1, <2>3
<1>5. \A k \in DOMAIN folders : \E i \in DOMAIN rows : PathAt(i) = P[folders[k].id]
  <2>1. \A k \in DOMAIN folders : folders[k].id \in Ids(folders)
    BY DEF Ids
  <2>. QED
    BY <1>1, <1>2, <1>3, <2>1
<1>6. RowsPaths(h, rows) = FolderPaths(folders, P)
  <2>. HIDE DEF PathAt
  <2>1. RowsPaths(h, rows) = {PathAt(i) : i \in DOMAIN rows}
    BY DEF RowsPaths, PathAt
  <2>. QED
    BY <1>4, <1>5, <2>1 DEF FolderPaths
<1>7. /\ \A x \in At : /\ x = <<x[1], x[2]>> /\ x[2] \in DOMAIN packFiles
                       /\ FileAt(BuiltFiles, x) = [packFiles[x[2]] EXCEPT !.folder = PackId(@)]
      /\ \A i \in DOMAIN packFiles : \E x \in At : x[2] = i
      /\ \A x, y \in At : PackId(packFiles[x[2]].folder) = PackId(packFiles[y[2]].folder) => x[1] = y[1]
  BY BuiltPlaces
<1>. HIDE DEF At
<1>8. \A x \in At : PathOf(x) = FilesAt(h, packFiles, P, x[2])
  <2>1. ASSUME NEW x \in At PROVE PathOf(x) = FilesAt(h, packFiles, P, x[2])
    <3>. DEFINE f == packFiles[x[2]]
                id == PackId(f.folder)
    <3>1. f \in FileRec /\ f.folder \in {Root} \cup Ids(folders)
      BY <1>0, <1>7 DEF Buildable
    <3>2. id \in {Root} \cup DOMAIN rows /\ Spelled(h, Where(rows, id)) = P[f.folder]
      BY <1>1, <1>2, <3>1
    <3>3. FileAt(BuiltFiles, x).folder = id /\ FileAt(BuiltFiles, x).name = f.name /\ f.name \in Name
      BY <1>7, <3>1 DEF FileRec
    <3>4. Where(rows, id) \in Seq(Name)
      BY <1>1, <3>2, WhereIs
    <3>. DEFINE w == Where(rows, id)
                name == f.name
    <3>. HIDE DEF f, id
    <3>5. w \in Seq(Name) /\ name \in Name /\ Spelled(h, w) = P[f.folder]
      BY <3>2, <3>3, <3>4
    <3>. HIDE DEF w, name
    <3>6. Spelled(h, Append(w, name)) = Append(Spelled(h, w), h[name])
      BY <3>5, SpelledAppend
    <3>. QED
      BY <3>3, <3>5, <3>6 DEF FilePath, FilesAt, f, w, name
  <2>. QED
    BY <2>1
<1>9. PlacesPaths(h, rows, Len(PartFiles), BuiltFiles) = FilePaths(h, packFiles, P)
  <2>1. PlacesPaths(h, rows, Len(PartFiles), BuiltFiles) = {PathOf(x) : x \in At}
    BY DEF PlacesPaths, At
  <2>. HIDE DEF PathOf
  <2>. QED
    BY <1>7, <1>8, <2>1 DEF FilePaths
<1>10. ASSUME Apart(h, folders, packFiles, P)
       PROVE  PackApart(h, rows, Len(PartFiles), BuiltFiles)
  <2>1. ASSUME NEW i \in DOMAIN rows, NEW j \in DOMAIN rows, PathAt(i) = PathAt(j) PROVE i = j
    <3>. HIDE DEF PathAt
    <3>1. PICK k \in DOMAIN folders : q[i].id = folders[k].id /\ PathAt(i) = P[folders[k].id]
      BY <1>4
    <3>2. PICK l \in DOMAIN folders : q[j].id = folders[l].id /\ PathAt(j) = P[folders[l].id]
      BY <1>4
    <3>3. k = l
      BY <1>10, <2>1, <3>1, <3>2 DEF Apart
    <3>. QED
      BY <1>1, <1>3, <3>1, <3>2, <3>3
  <2>2. ASSUME NEW x \in At, NEW y \in At, PathOf(x) = PathOf(y) PROVE x = y
    <3>. HIDE DEF PathOf
    <3>1. x[2] = y[2]
      BY <1>7, <1>8, <1>10, <2>2 DEF Apart
    <3>2. x[1] = y[1]
      BY <1>7, <3>1
    <3>. QED
      BY <1>7, <3>1, <3>2
  <2>. QED
    BY <2>1, <2>2 DEF PackApart, At
<1>. QED
  BY <1>6, <1>9, <1>10 DEF rows

\* Folders whose parents have smaller ids are a tree.
ParentsKnown(list, fls) ==
  /\ \A i \in DOMAIN list : list[i].parent \in {Root} \cup Ids(list)
  /\ \A i \in DOMAIN fls : fls[i].folder \in {Root} \cup Ids(list)
Closed(list, fls) == ParentsKnown(list, fls) /\ \A i \in DOMAIN list : list[i].parent < list[i].id

LEMMA ClosedBuilds ==
  ASSUME ListShape(folders, packFiles), Closed(folders, packFiles)
  PROVE  Buildable
<1>. DEFINE q == Ordered(folders)
            In(f) == \E i \in DOMAIN q : q[i] = f
            Out == {f.id : f \in {g \in Range(folders) : ~In(g)}}
<1>1. FolderList(folders)
  BY DEF ListShape
<1>2. /\ \A f \in Range(folders) :
           f.parent = Root \/ (\E j \in DOMAIN q : q[j].id = f.parent) => In(f)
      /\ (\A f \in Range(folders) : In(f)) => Len(q) = Len(folders)
  BY <1>1, OrderedIs
<1>3. \A f \in Range(folders) : f.id \in Nat /\ f.parent < f.id
                                /\ (f.parent # Root => \E g \in Range(folders) : g.id = f.parent)
  <2>1. \A i \in DOMAIN folders : folders[i].id \in Nat
    <3>1. \A i \in DOMAIN folders : folders[i] \in FolderRec
      BY <1>1 DEF FolderList
    <3>. QED
      BY <3>1 DEF FolderRec
  <2>. QED
    BY <2>1 DEF Range, Closed, ParentsKnown, Ids
<1>. HIDE DEF q
<1>4. Out = {}
  <2>1. SUFFICES ASSUME Out # {} PROVE FALSE
    OBVIOUS
  <2>2. PICK least \in Out : \A m \in Out : least <= m
    <3>1. Out \subseteq Nat
      BY <1>3
    <3>. HIDE DEF Out
    <3>. QED
      BY <2>1, <3>1, LeastNat
  <2>3. PICK f \in Range(folders) : f.id = least /\ ~In(f)
    BY <2>2
  <2>4. f.parent # Root
    BY <1>2, <2>3
  <2>5. PICK g \in Range(folders) : g.id = f.parent
    BY <1>3, <2>3, <2>4
  <2>6. g.id < f.id /\ g.id \in Nat /\ f.id \in Nat
    BY <1>3, <2>3, <2>5
  <2>7. In(g)
    BY <2>2, <2>3, <2>6
  <2>. QED
    BY <1>2, <2>3, <2>5, <2>7
<1>5. Len(q) = Len(folders)
  <2>1. \A f \in Range(folders) : ~In(f) => f.id \in Out
    OBVIOUS
  <2>. HIDE DEF Out, In
  <2>. QED
    BY <1>2, <1>4, <2>1
<1>. QED
  BY <1>5 DEF Buildable, Closed, ParentsKnown, q
-----------------------------------------------------------------------------
(***************************************************************************)
(* The table of a disc, and what the explorer lists of it.                 *)
(***************************************************************************)
\* The two ways to read a name: as it is, and without its case.
Plain == [name \in Name |-> name]
Fold == [name \in Name |-> name[1]]

LEMMA Readings ==
  /\ Plain \in [Name -> Name] /\ Fold \in [Name -> Letter]
  /\ \A path \in Seq(Name) : Spelled(Plain, path) = path /\ Spelled(Fold, path) = Lower(path)
<1>1. \A name \in Name : name[1] \in Letter
  BY CatalogAssumption DEF Name
<1>2. ASSUME NEW path \in Seq(Name)
      PROVE  Spelled(Plain, path) = path /\ Spelled(Fold, path) = Lower(path)
  <2>1. \A i \in DOMAIN path : path[i] \in Name
    OBVIOUS
  <2>2. Spelled(Plain, path) = [i \in DOMAIN path |-> path[i]]
    BY <2>1 DEF Spelled, Plain
  <2>3. [i \in DOMAIN path |-> path[i]] = path
    OBVIOUS
  <2>4. Spelled(Fold, path) = Lower(path)
    BY <2>1 DEF Spelled, Fold, Lower
  <2>. QED
    BY <2>2, <2>3, <2>4
<1>. QED
  BY <1>1, <1>2 DEF Plain, Fold

\* What leads along with the names leads along without their case, too.
Lowers(list, P, Q) ==
  \A id \in {Root} \cup Ids(list) : P[id] \in Seq(Name) /\ Q[id] = Lower(P[id])

LEMMA TreeFolds ==
  ASSUME NEW list, list \in Seq(FolderRec), NEW fls, fls \in Seq(FileRec), ParentsKnown(list, fls),
         NEW P, NEW Q, Tree(Plain, list, P), Lowers(list, P, Q)
  PROVE  /\ Tree(Fold, list, Q)
         /\ \A i \in DOMAIN list : P[list[i].id] \in Seq(Name) /\ Q[list[i].id] = Lower(P[list[i].id])
         /\ \A i \in DOMAIN fls :
              /\ FilesAt(Plain, fls, P, i) \in Seq(Name)
              /\ FilesAt(Fold, fls, Q, i) = Lower(FilesAt(Plain, fls, P, i))
<1>0. \A id \in {Root} \cup Ids(list) : P[id] \in Seq(Name) /\ Q[id] = Lower(P[id])
  BY DEF Lowers
<1>1. \A i \in DOMAIN list : list[i].id \in Ids(list) /\ list[i].name \in Name
                             /\ list[i].parent \in {Root} \cup Ids(list)
  <2>1. \A i \in DOMAIN list : list[i] \in FolderRec
    OBVIOUS
  <2>. QED
    BY <2>1 DEF FolderRec, Ids, ParentsKnown
<1>2. \A i \in DOMAIN fls : fls[i].name \in Name /\ fls[i].folder \in {Root} \cup Ids(list)
  <2>1. \A i \in DOMAIN fls : fls[i] \in FileRec
    OBVIOUS
  <2>. QED
    BY <2>1 DEF FileRec, ParentsKnown
<1>3. ASSUME NEW path \in Seq(Name), NEW name \in Name
      PROVE  /\ Append(path, name) \in Seq(Name) /\ Plain[name] = name
             /\ Lower(Append(path, name)) = Append(Lower(path), Fold[name])
  <2>1. Append(path, name) \in Seq(Name)
    OBVIOUS
  <2>2. Spelled(Fold, Append(path, name)) = Append(Spelled(Fold, path), Fold[name])
    <3>1. Fold \in [Name -> Letter]
      BY Readings
    <3>. QED
      BY <3>1, SpelledAppend
  <2>3. Plain[name] = name
    BY DEF Plain
  <2>. QED
    BY <2>1, <2>2, <2>3, Readings
<1>4. ASSUME NEW i \in DOMAIN list
      PROVE  Q[list[i].id] = Append(Q[list[i].parent], Fold[list[i].name])
  <2>1. P[list[i].id] = Append(P[list[i].parent], list[i].name)
    BY <1>0, <1>1, <1>3 DEF Tree
  <2>2. Lower(Append(P[list[i].parent], list[i].name)) = Append(Lower(P[list[i].parent]), Fold[list[i].name])
    BY <1>0, <1>1, <1>3
  <2>3. Q[list[i].id] = Lower(P[list[i].id]) /\ Q[list[i].parent] = Lower(P[list[i].parent])
    BY <1>0, <1>1
  <2>. QED
    BY <2>1, <2>2, <2>3
<1>5. Q[Root] = <<>>
  <2>1. Lower(<<>>) = <<>>
    BY DEF Lower
  <2>. QED
    BY <1>0, <2>1 DEF Tree
<1>6. ASSUME NEW i \in DOMAIN fls
      PROVE  /\ FilesAt(Plain, fls, P, i) \in Seq(Name)
             /\ FilesAt(Fold, fls, Q, i) = Lower(FilesAt(Plain, fls, P, i))
  <2>1. /\ P[fls[i].folder] \in Seq(Name) /\ fls[i].name \in Name
        /\ Q[fls[i].folder] = Lower(P[fls[i].folder])
    BY <1>0, <1>2
  <2>. QED
    BY <2>1, <1>3 DEF FilesAt
<1>. QED
  BY <1>0, <1>1, <1>4, <1>5, <1>6 DEF Tree


\* The path above a row of a table.
Above(T, id) == IF id = Root THEN <<>> ELSE (CHOOSE g \in T : g.id = id).path
RowIds(T) == {f.id : f \in T}

\* The rows of a disc: a tree of folders with their files, no path twice, whatever its case.
TableOK(T, S) ==
  /\ \A f \in T : /\ f.id \in 1..MaxFolders /\ f.parent \in 0..(f.id - 1)
                  /\ f.parent \in {Root} \cup RowIds(T)
                  /\ f.name \in Name /\ f.path \in Seq(Name)
                  /\ f.path = Append(Above(T, f.parent), f.name)
  /\ \A f, g \in T : f.id = g.id \/ Lower(f.path) = Lower(g.path) => f = g
  /\ IsFiniteSet(S)
  /\ \A f \in S : /\ f.folder \in {Root} \cup RowIds(T)
                  /\ f.name \in Name /\ f.path \in Seq(Name)
                  /\ f.path = Append(Above(T, f.folder), f.name)
  /\ \A f, g \in S : Lower(f.path) = Lower(g.path) => f = g

FolderRow(rows, i) ==
  [id |-> i, parent |-> rows[i].parent, name |-> rows[i].name, path |-> Where(rows, i)]
FileRow(rows, f) == [folder |-> f.folder, name |-> f.name, path |-> FilePath(rows, f)]

LEMMA AboveIs ==
  ASSUME NEW T, \A f, g \in T : f.id = g.id => f = g, NEW f \in T, f.id # Root
  PROVE  Above(T, f.id) = f.path
<1>1. (CHOOSE g \in T : g.id = f.id) = f
  OBVIOUS
<1>. QED
  BY <1>1 DEF Above

\* An import makes such a table, unless two paths are one but for the case of their names.
LEMMA TableOf ==
  ASSUME NEW rows, NEW n, NEW fs, PackShape(rows, n, fs), PackApart(Fold, rows, n, fs),
         NEW T, T = {FolderRow(rows, i) : i \in DOMAIN rows},
         NEW S, S = {FileRow(rows, FileAt(fs, x)) : x \in Places(n, fs)}
  PROVE  TableOK(T, S)
<1>. DEFINE At == Places(n, fs)
            F(x) == FileAt(fs, x)
<1>1. /\ rows \in Seq(FolderRec) /\ Len(rows) \in Nat /\ DOMAIN rows = 1..Len(rows)
      /\ Len(rows) <= MaxFolders /\ MaxFolders \in Nat
      /\ \A i \in DOMAIN rows : rows[i] \in FolderRec /\ rows[i].parent \in 0..(i - 1)
  BY CatalogAssumption DEF PackShape
<1>2. /\ \A id \in {Root} \cup DOMAIN rows : Where(rows, id) \in Seq(Name)
      /\ \A i \in DOMAIN rows :
           /\ rows[i].parent \in {Root} \cup DOMAIN rows
           /\ Where(rows, i) = Append(Where(rows, rows[i].parent), rows[i].name)
  BY <1>1, WhereIs
<1>3. RowIds(T) = DOMAIN rows /\ \A f \in T : f.id \in DOMAIN rows /\ f = FolderRow(rows, f.id)
  <2>1. ASSUME NEW i \in DOMAIN rows PROVE FolderRow(rows, i).id = i
    BY DEF FolderRow
  <2>2. \A f \in T : f.id \in DOMAIN rows /\ f = FolderRow(rows, f.id)
    BY <2>1
  <2>3. \A i \in DOMAIN rows : FolderRow(rows, i) \in T
    OBVIOUS
  <2>4. RowIds(T) \subseteq DOMAIN rows
    BY <2>2 DEF RowIds
  <2>5. DOMAIN rows \subseteq RowIds(T)
    BY <2>1, <2>3 DEF RowIds
  <2>. QED
    BY <2>2, <2>4, <2>5
<1>4. \A f, g \in T : f.id = g.id => f = g
  BY <1>3
<1>5. \A id \in {Root} \cup DOMAIN rows : Above(T, id) = Where(rows, id)
  <2>1. ASSUME NEW i \in DOMAIN rows PROVE Above(T, i) = Where(rows, i)
    <3>1. FolderRow(rows, i) \in T /\ FolderRow(rows, i).id = i
          /\ FolderRow(rows, i).path = Where(rows, i) /\ i # Root
      BY <1>1 DEF FolderRow, Root
    <3>. QED
      BY <1>4, <3>1, AboveIs
  <2>2. Above(T, Root) = Where(rows, Root)
    BY DEF Above, Where
  <2>. QED
    BY <2>1, <2>2
<1>6. ASSUME NEW f \in T
      PROVE  /\ f.id \in 1..MaxFolders /\ f.parent \in 0..(f.id - 1)
             /\ f.parent \in {Root} \cup RowIds(T)
             /\ f.name \in Name /\ f.path \in Seq(Name)
             /\ f.path = Append(Above(T, f.parent), f.name)
             /\ Spelled(Fold, Where(rows, f.id)) = Lower(f.path)
  <2>1. PICK i \in DOMAIN rows : f = FolderRow(rows, i)
    OBVIOUS
  <2>2. /\ f.id = i /\ f.parent = rows[i].parent /\ f.name = rows[i].name
        /\ f.path = Where(rows, i) /\ rows[i].name \in Name
    BY <1>1, <2>1 DEF FolderRow, FolderRec
  <2>3. f.path \in Seq(Name) /\ f.path = Append(Where(rows, f.parent), f.name)
    BY <1>2, <2>2
  <2>4. Spelled(Fold, f.path) = Lower(f.path)
    BY <2>3, Readings
  <2>5. i \in 1..MaxFolders /\ f.parent \in {Root} \cup DOMAIN rows /\ f.parent \in 0..(i - 1)
    BY <1>1, <1>2, <2>2
  <2>. QED
    BY <1>3, <1>5, <2>2, <2>3, <2>4, <2>5
<1>7. ASSUME NEW f \in T, NEW g \in T, Lower(f.path) = Lower(g.path) PROVE f = g
  <2>1. f.id \in DOMAIN rows /\ g.id \in DOMAIN rows
    BY <1>3
  <2>2. Spelled(Fold, Where(rows, f.id)) = Spelled(Fold, Where(rows, g.id))
    <3>1. Spelled(Fold, Where(rows, f.id)) = Lower(f.path)
      BY <1>6
    <3>2. Spelled(Fold, Where(rows, g.id)) = Lower(g.path)
      BY <1>6
    <3>. QED
      BY <1>7, <3>1, <3>2
  <2>3. f.id = g.id
    BY <2>1, <2>2 DEF PackApart
  <2>. QED
    BY <1>4, <2>3
<1>8. ASSUME NEW x \in At
      PROVE  /\ F(x).folder \in {Root} \cup DOMAIN rows /\ F(x).name \in Name
             /\ FilePath(rows, F(x)) \in Seq(Name)
             /\ FilePath(rows, F(x)) = Append(Above(T, F(x).folder), F(x).name)
             /\ Spelled(Fold, FilePath(rows, F(x))) = Lower(FilePath(rows, F(x)))
  <2>1. F(x) \in FileRec /\ F(x).folder \in {Root} \cup DOMAIN rows
    BY DEF PackShape
  <2>2. F(x).name \in Name
    BY <2>1 DEF FileRec
  <2>3. FilePath(rows, F(x)) = Append(Where(rows, F(x).folder), F(x).name)
    BY DEF FilePath
  <2>4. FilePath(rows, F(x)) \in Seq(Name)
    BY <1>2, <2>1, <2>2, <2>3
  <2>. QED
    BY <1>5, <2>1, <2>2, <2>3, <2>4, Readings
<1>9. \A f \in S : \E x \in At : f = FileRow(rows, F(x)) /\ f.folder = F(x).folder
                                 /\ f.name = F(x).name /\ f.path = FilePath(rows, F(x))
  BY DEF FileRow
<1>10. IsFiniteSet(S)
  <2>. DEFINE g == [x \in At |-> FileRow(rows, F(x))]
  <2>1. g \in Surjection(At, S)
    BY DEF Surjection
  <2>2. IsFiniteSet(At)
    BY DEF PackShape
  <2>. HIDE DEF g
  <2>. QED
    BY <2>1, <2>2, FS_Surjection
<1>. HIDE DEF At, F
<1>11. ASSUME NEW f \in S, NEW g \in S, Lower(f.path) = Lower(g.path) PROVE f = g
  <2>1. PICK x \in At : f = FileRow(rows, F(x)) /\ f.path = FilePath(rows, F(x))
    BY <1>9
  <2>2. PICK y \in At : g = FileRow(rows, F(y)) /\ g.path = FilePath(rows, F(y))
    BY <1>9
  <2>3. Spelled(Fold, FilePath(rows, F(x))) = Spelled(Fold, FilePath(rows, F(y)))
    BY <1>8, <1>11, <2>1, <2>2
  <2>4. x = y
    BY <2>3 DEF PackApart, At, F
  <2>. QED
    BY <2>1, <2>2, <2>4
<1>12. ASSUME NEW f \in S
       PROVE  /\ f.folder \in {Root} \cup RowIds(T)
              /\ f.name \in Name /\ f.path \in Seq(Name)
              /\ f.path = Append(Above(T, f.folder), f.name)
  BY <1>3, <1>8, <1>9
<1>. QED
  BY <1>4, <1>6, <1>7, <1>10, <1>11, <1>12 DEF TableOK

\* The levels of folders the explorer opens.
Below(opened) ==
  UNION {{[id |-> f.id, clicked |-> Append(o.clicked, f.name)] :
            f \in ListFolderChildren(o.id).folders} : o \in opened}
Levels(down) ==
  down = [n \in 0..MaxFolders |-> IF n = 0 THEN {[id |-> Root, clicked |-> <<>>]}
                                  ELSE Below(down[n - 1])]
Click == [id : Nat, clicked : Seq(Name)]

LEMMA LevelsRun ==
  ASSUME TableOK(table.folders, table.files)
  PROVE  \E down : Levels(down) /\ Opened = UNION {down[n] : n \in 0..MaxFolders}
<1>. DEFINE V == SUBSET Click
            root == {[id |-> Root, clicked |-> <<>>]}
            step == [x \in (1..MaxFolders) \X V |-> Below(x[2])]
<1>1. MaxFolders \in Nat
  BY CatalogAssumption
<1>2. root \in V
  BY DEF Click, Root
<1>3. step \in Loop(MaxFolders, V)
  <2>1. ASSUME NEW opened \in V PROVE Below(opened) \in V
    <3>1. ASSUME NEW o \in opened, NEW f \in table.folders
          PROVE  [id |-> f.id, clicked |-> Append(o.clicked, f.name)] \in Click
      <4>1. o \in Click /\ f.id \in Nat /\ f.name \in Name
        BY DEF TableOK
      <4>2. o.clicked \in Seq(Name)
        BY <4>1 DEF Click
      <4>3. Append(o.clicked, f.name) \in Seq(Name)
        BY <4>1, <4>2
      <4>. QED
        BY <4>1, <4>3 DEF Click
    <3>. QED
      BY <3>1 DEF Below, ListFolderChildren
  <2>. HIDE DEF V
  <2>2. \A n \in 1..MaxFolders, opened \in V : step[<<n, opened>>] \in V
    BY <2>1
  <2>. QED
    BY <2>1 DEF Loop
<1>. HIDE DEF V, root, step
<1>4. PICK g \in [0..MaxFolders -> V] : Rounds(MaxFolders, root, step, g)
  BY <1>1, <1>2, <1>3, Recursion
<1>5. Levels(g)
  <2>1. ASSUME NEW n \in 1..MaxFolders PROVE g[n] = Below(g[n - 1])
    <3>1. g[n - 1] \in V
      BY <1>1
    <3>. QED
      BY <1>4, <3>1 DEF step, Rounds
  <2>2. \A n \in 0..MaxFolders : g[n] = IF n = 0 THEN root ELSE Below(g[n - 1])
    <3>1. \A n \in 0..MaxFolders : n # 0 => n \in 1..MaxFolders
      BY <1>1
    <3>. QED
      BY <1>4, <2>1, <3>1 DEF Rounds
  <2>. QED
    BY <2>2 DEF Levels, root
<1>6. LET down == CHOOSE down : Levels(down)
      IN  Opened = UNION {down[n] : n \in 0..MaxFolders}
  BY DEF Opened, Levels, Below
<1>. QED
  BY <1>5, <1>6

\* The explorer opens every folder, by the names of its rel_path.
LEMMA OpenedAre ==
  ASSUME TableOK(table.folders, table.files)
  PROVE  /\ \A o \in Opened : o.id \in {Root} \cup RowIds(table.folders)
                              /\ o.clicked = Above(table.folders, o.id)
         /\ \A id \in {Root} \cup RowIds(table.folders) : \E o \in Opened : o.id = id
<1>. DEFINE T == table.folders
            There == {Root} \cup RowIds(T)
            Good(opened) == \A o \in opened : o.id \in There /\ o.clicked = Above(T, o.id)
<1>1. PICK down : Levels(down) /\ Opened = UNION {down[n] : n \in 0..MaxFolders}
  BY LevelsRun
<1>2. /\ MaxFolders \in Nat /\ down[0] = {[id |-> Root, clicked |-> <<>>]}
      /\ \A n \in 0..(MaxFolders - 1) : down[n + 1] = Below(down[n])
  <2>1. MaxFolders \in Nat
    BY CatalogAssumption
  <2>2. \A n \in 0..(MaxFolders - 1) : n + 1 \in 0..MaxFolders /\ n + 1 # 0 /\ (n + 1) - 1 = n
    BY <2>1
  <2>3. 0 \in 0..MaxFolders
    BY <2>1
  <2>. QED
    BY <1>1, <2>1, <2>2, <2>3 DEF Levels
<1>3. \A f \in T : /\ f.id \in 1..MaxFolders /\ f.parent \in 0..(f.id - 1) /\ f.id # Root
                   /\ f.parent \in There /\ f.id \in There
                   /\ f.path = Append(Above(T, f.parent), f.name) /\ f.path = Above(T, f.id)
  <2>1. \A f, g \in T : f.id = g.id => f = g
    BY DEF TableOK
  <2>2. \A f \in T : /\ f.id \in 1..MaxFolders /\ f.parent \in 0..(f.id - 1)
                     /\ f.parent \in There /\ f.path = Append(Above(T, f.parent), f.name)
    BY DEF TableOK
  <2>3. \A f \in T : f.id # Root /\ f.id \in There
    BY <2>2 DEF Root, RowIds
  <2>. QED
    BY <2>1, <2>2, <2>3, AboveIs
<1>4. \A n \in 0..MaxFolders : Good(down[n])
  <2>. DEFINE P == {n \in 0..MaxFolders : Good(down[n])}
  <2>1. Good(down[0])
    BY <1>2 DEF Above
  <2>2. ASSUME NEW n \in 0..(MaxFolders - 1), Good(down[n]) PROVE Good(down[n + 1])
    <3>1. ASSUME NEW o \in down[n], NEW f \in T, f.parent = o.id
          PROVE  f.id \in There /\ Append(o.clicked, f.name) = Above(T, f.id)
      <4>1. o.clicked = Above(T, f.parent)
        BY <2>2, <3>1
      <4>. QED
        BY <1>3, <4>1
    <3>2. down[n + 1] = Below(down[n])
      BY <1>2
    <3>3. ASSUME NEW x \in down[n + 1] PROVE x.id \in There /\ x.clicked = Above(T, x.id)
      <4>1. PICK o \in down[n] : x \in {[id |-> f.id, clicked |-> Append(o.clicked, f.name)] :
                                          f \in ListFolderChildren(o.id).folders}
        BY <3>2 DEF Below
      <4>2. PICK f \in ListFolderChildren(o.id).folders :
              x = [id |-> f.id, clicked |-> Append(o.clicked, f.name)]
        BY <4>1
      <4>3. f \in T /\ f.parent = o.id
        BY DEF ListFolderChildren
      <4>4. x.id = f.id /\ x.clicked = Append(o.clicked, f.name)
        BY <4>2
      <4>. QED
        BY <3>1, <4>3, <4>4
    <3>. QED
      BY <3>3
  <2>3. \A n \in 0..(MaxFolders - 1) : n \in 0..MaxFolders /\ n + 1 \in 0..MaxFolders
    BY <1>2
  <2>. HIDE DEF Good
  <2>4. 0 \in P
    <3>1. 0 \in 0..MaxFolders
      BY <1>2
    <3>. QED
      BY <2>1, <3>1
  <2>5. \A n \in 0..(MaxFolders - 1) : n \in P => n + 1 \in P
    BY <2>2, <2>3
  <2>. HIDE DEF P
  <2>6. \A n \in 0..MaxFolders : n \in P
    BY <1>2, <2>4, <2>5, CountUp
  <2>. QED
    BY <2>6 DEF P
<1>5. ASSUME NEW o \in Opened PROVE o.id \in There /\ o.clicked = Above(T, o.id)
  BY <1>1, <1>4
<1>. DEFINE Met(n) == \A f \in T : f.id <= n => \E m \in 0..n : \E o \in down[m] : o.id = f.id
<1>6. \A n \in 0..MaxFolders : Met(n)
  <2>. DEFINE P == {n \in 0..MaxFolders : Met(n)}
  <2>1. Met(0)
    BY <1>3
  <2>2. ASSUME NEW n \in 0..(MaxFolders - 1), Met(n) PROVE Met(n + 1)
    <3>1. SUFFICES ASSUME NEW f \in T, f.id <= n + 1
                   PROVE  \E m \in 0..(n + 1) : \E o \in down[m] : o.id = f.id
      OBVIOUS
    <3>2. f.parent <= n /\ (f.parent = Root \/ \E g \in T : g.id = f.parent)
      <4>1. f.id \in 1..MaxFolders /\ f.parent \in 0..(f.id - 1)
        BY <1>3
      <4>2. f.parent <= n
        BY <1>2, <3>1, <4>1
      <4>3. f.parent \in There
        BY <1>3
      <4>. QED
        BY <4>2, <4>3 DEF RowIds
    <3>3. PICK m \in 0..n : \E o \in down[m] : o.id = f.parent
      <4>1. CASE f.parent = Root
        <5>1. 0 \in 0..n
          BY <1>2
        <5>2. [id |-> Root, clicked |-> <<>>] \in down[0]
          BY <1>2
        <5>3. [id |-> Root, clicked |-> <<>>].id = f.parent
          BY <4>1
        <5>. QED
          BY <5>1, <5>2, <5>3
      <4>2. CASE f.parent # Root
        BY <2>2, <3>2, <4>2
      <4>. QED
        BY <4>1, <4>2
    <3>4. m + 1 \in 0..(n + 1) /\ down[m + 1] = Below(down[m])
      BY <1>2, <3>3
    <3>5. \E o \in down[m + 1] : o.id = f.id
      <4>1. PICK o \in down[m] : o.id = f.parent
        BY <3>3
      <4>. DEFINE y == [id |-> f.id, clicked |-> Append(o.clicked, f.name)]
      <4>2. f \in ListFolderChildren(o.id).folders
        BY <4>1 DEF ListFolderChildren
      <4>3. y \in Below(down[m])
        <5>. DEFINE Next(x) == {[id |-> c.id, clicked |-> Append(x.clicked, c.name)] :
                                  c \in ListFolderChildren(x.id).folders}
        <5>1. Below(down[m]) = UNION {Next(x) : x \in down[m]}
          BY DEF Below
        <5>2. y \in Next(o)
          BY <4>2
        <5>. HIDE DEF Next, y
        <5>. QED
          BY <4>1, <5>1, <5>2

      <4>4. y.id = f.id
        OBVIOUS
      <4>. HIDE DEF y
      <4>. QED
        BY <3>4, <4>3, <4>4
    <3>. QED
      BY <3>4, <3>5
  <2>3. \A n \in 0..(MaxFolders - 1) : n \in 0..MaxFolders /\ n + 1 \in 0..MaxFolders
    BY <1>2
  <2>. HIDE DEF Met
  <2>4. 0 \in P
    BY <1>2, <2>1
  <2>5. \A n \in 0..(MaxFolders - 1) : n \in P => n + 1 \in P
    BY <2>2, <2>3
  <2>. HIDE DEF P
  <2>6. \A n \in 0..MaxFolders : n \in P
    BY <1>2, <2>4, <2>5, CountUp
  <2>. QED
    BY <2>6 DEF P
<1>7. ASSUME NEW id \in There PROVE \E o \in Opened : o.id = id
  <2>1. CASE id = Root
    <3>. DEFINE y == [id |-> Root, clicked |-> <<>>]
    <3>1. y \in down[0] /\ 0 \in 0..MaxFolders /\ y.id = id
      BY <1>2, <2>1
    <3>. HIDE DEF y
    <3>. QED
      BY <1>1, <3>1
  <2>2. CASE id # Root
    <3>1. PICK f \in T : f.id = id
      BY <2>2 DEF RowIds
    <3>2. f.id \in 0..MaxFolders /\ f.id <= f.id
      BY <1>2, <1>3
    <3>3. Met(f.id)
      BY <1>6, <3>2
    <3>4. PICK m \in 0..f.id : \E o \in down[m] : o.id = f.id
      BY <3>2, <3>3
    <3>5. m \in 0..MaxFolders
      BY <1>2, <3>2
    <3>. QED
      BY <1>1, <3>1, <3>4, <3>5
  <2>. QED
    BY <2>1, <2>2
<1>. QED
  BY <1>5, <1>7

\* The explorer reaches every row, by its rel_path.
LEMMA BrowsedAre ==
  ASSUME TableOK(table.folders, table.files)
  PROVE  /\ {x.row : x \in Browsed} = table.folders \cup table.files
         /\ \A x \in Browsed : x.clicked = x.row.path
<1>. DEFINE T == table.folders
            S == table.files
            Row(o, r) == [row |-> r, clicked |-> Append(o.clicked, r.name)]
            Listed(id) == ListFolderChildren(id).folders \cup ListFolderChildren(id).files
<1>1. \A id : Listed(id) = {f \in T : f.parent = id} \cup {f \in S : f.folder = id}
  BY DEF ListFolderChildren
<1>2. /\ \A x \in Browsed : \E o \in Opened : \E r \in Listed(o.id) : x = Row(o, r)
      /\ \A o \in Opened : \A r \in Listed(o.id) : Row(o, r) \in Browsed
  <2>1. Browsed = UNION {{Row(o, r) : r \in Listed(o.id)} : o \in Opened}
    BY DEF Browsed
  <2>. HIDE DEF Row, Listed
  <2>. QED
    BY <2>1

<1>3. /\ \A f \in T : f.parent \in {Root} \cup RowIds(T)
                      /\ f.path = Append(Above(T, f.parent), f.name)
      /\ \A f \in S : f.folder \in {Root} \cup RowIds(T)
                      /\ f.path = Append(Above(T, f.folder), f.name)
  BY DEF TableOK
<1>4. \A o \in Opened : o.clicked = Above(T, o.id)
  BY OpenedAre
<1>5. \A id \in {Root} \cup RowIds(T) : \E o \in Opened : o.id = id
  BY OpenedAre
<1>. HIDE DEF Listed
<1>6. ASSUME NEW x \in Browsed
      PROVE  x.row \in T \cup S /\ x.clicked = x.row.path
  <2>1. PICK o \in Opened : \E r \in Listed(o.id) : x = Row(o, r)
    BY <1>2
  <2>2. PICK r \in Listed(o.id) : x = Row(o, r)
    BY <2>1
  <2>3. x.row = r /\ x.clicked = Append(Above(T, o.id), r.name)
    BY <1>4, <2>2
  <2>. QED
    BY <1>1, <1>3, <2>3
<1>7. ASSUME NEW r \in T \cup S PROVE \E x \in Browsed : x.row = r
  <2>1. PICK id \in {Root} \cup RowIds(T) : r \in Listed(id)
    BY <1>1, <1>3
  <2>2. PICK o \in Opened : o.id = id
    BY <1>5
  <2>3. Row(o, r) \in Browsed /\ Row(o, r).row = r
    BY <1>2, <2>1, <2>2
  <2>. QED
    BY <2>3
<1>. QED
  BY <1>6, <1>7
-----------------------------------------------------------------------------
(***************************************************************************)
(* The old database: paths by the parents, and duplicate folders folded.   *)
(***************************************************************************)
\* The paths of the folders of dir_master are paths, whatever the parents.
UpPaths(list, up) ==
  up = [n \in 0..Len(list) |->
          [i \in 0..Len(list) |-> IF i = Root \/ n = 0 THEN <<>>
                                  ELSE Append(up[n - 1][list[i].parent], list[i].name)]]

LEMMA PathsOfAre ==
  ASSUME NEW list \in Seq(FolderRec), \A i \in DOMAIN list : list[i].parent \in 0..Len(list)
  PROVE  PathsOf(list) \in [0..Len(list) -> Seq(Name)] /\ PathsOf(list)[Root] = <<>>
<1>. DEFINE N == Len(list)
            Id == 0..N
            V == [Id -> Seq(Name)]
            base == [i \in Id |-> <<>>]
            Next(paths) == [i \in Id |-> IF i = Root THEN <<>>
                                         ELSE Append(paths[list[i].parent], list[i].name)]
            step == [x \in (1..N) \X V |-> Next(x[2])]
            H(paths, n) == [i \in Id |-> IF i = Root \/ n = 0 THEN <<>>
                                         ELSE Append(paths[list[i].parent], list[i].name)]
<1>1. N \in Nat /\ \A i \in 1..N : list[i].name \in Name /\ list[i].parent \in Id
  <2>1. \A i \in 1..N : list[i] \in FolderRec
    OBVIOUS
  <2>. QED
    BY <2>1 DEF FolderRec
<1>2. base \in V
  OBVIOUS
<1>3. ASSUME NEW paths \in V PROVE Next(paths) \in V
  <2>1. \A i \in Id : i # Root => i \in 1..N
    BY <1>1 DEF Root
  <2>2. \A i \in Id : i # Root => paths[list[i].parent] \in Seq(Name) /\ list[i].name \in Name
    BY <1>1, <2>1
  <2>3. \A path \in Seq(Name), name \in Name : Append(path, name) \in Seq(Name)
    OBVIOUS
  <2>4. \A i \in Id : (IF i = Root THEN <<>> ELSE Append(paths[list[i].parent], list[i].name))
                        \in Seq(Name)
    BY <2>2, <2>3
  <2>. QED
    BY <2>4
<1>4. step \in Loop(N, V)
  <2>. HIDE DEF V, Next
  <2>. QED
    BY <1>3 DEF Loop
<1>. HIDE DEF V, step, N, base, Next
<1>5. PICK g \in [0..N -> V] : Rounds(N, base, step, g)
  BY <1>1, <1>2, <1>4, Recursion
<1>6. ASSUME NEW n \in 1..N PROVE g[n] = Next(g[n - 1])
  <2>1. g[n - 1] \in V
    BY <1>1
  <2>. QED
    BY <1>5, <2>1 DEF step, Rounds
<1>7. UpPaths(list, g)
  <2>1. ASSUME NEW n \in 0..N PROVE g[n] = H(g[n - 1], n)
    <3>1. CASE n = 0
      <4>1. g[0] = base
        BY <1>5 DEF Rounds
      <4>2. \A paths : H(paths, 0) = base
        BY DEF base
      <4>. HIDE DEF H
      <4>. QED
        BY <3>1, <4>1, <4>2
    <3>2. CASE n # 0
      <4>1. g[n] = Next(g[n - 1])
        BY <1>1, <1>6, <3>2
      <4>2. \A paths : H(paths, n) = Next(paths)
        BY <3>2 DEF Next
      <4>. HIDE DEF H
      <4>. QED
        BY <4>1, <4>2
    <3>. QED
      BY <3>1, <3>2
  <2>. QED
    BY <2>1 DEF UpPaths, N
<1>8. PathsOf(list) = (CHOOSE up : UpPaths(list, up))[Len(list)]
  BY DEF PathsOf, UpPaths
<1>9. \A up : UpPaths(list, up) => up[N] = g[N]
  <2>1. SUFFICES ASSUME NEW up, UpPaths(list, up) PROVE up[N] = g[N]
    OBVIOUS
  <2>. DEFINE S == {n \in 0..N : up[n] = g[n]}
  <2>2. /\ \A n \in 0..N : up[n] = H(up[n - 1], n)
        /\ \A n \in 0..N : g[n] = H(g[n - 1], n)
    BY <1>7, <2>1 DEF UpPaths, N
  <2>3. 0 \in S
    BY <1>1, <2>2
  <2>4. \A n \in 0..(N - 1) : n \in S => n + 1 \in S
    <3>1. ASSUME NEW n \in 0..(N - 1), n \in S PROVE n + 1 \in S
      <4>1. n + 1 \in 0..N /\ (n + 1) - 1 = n /\ n + 1 # 0
        BY <1>1
      <4>2. up[n] = g[n]
        BY <3>1
      <4>. HIDE DEF H
      <4>3. up[n + 1] = g[n + 1]
        BY <2>2, <4>1, <4>2

      <4>. QED
        BY <4>1, <4>3
    <3>. QED
      BY <3>1
  <2>. HIDE DEF S
  <2>5. \A n \in 0..N : n \in S
    BY <1>1, <2>3, <2>4, CountUp
  <2>. QED
    BY <1>1, <2>5 DEF S
<1>10. PathsOf(list) = g[N]
  BY <1>7, <1>8, <1>9 DEF N
<1>11. g[N] \in V /\ g[N][Root] = <<>>
  <2>1. N \in 0..N /\ Root \in Id
    BY <1>1 DEF Root
  <2>2. g[N] = [i \in Id |-> IF i = Root \/ N = 0 THEN <<>>
                             ELSE Append(g[N - 1][list[i].parent], list[i].name)]
    BY <1>7, <2>1 DEF UpPaths, N
  <2>. QED
    BY <2>1, <2>2
<1>. QED
  BY <1>10, <1>11 DEF V, N

\* What dedupeSiblingFolders has after the first n folders: the folders kept are a tree along the
\* paths Q, and a folder dropped is mapped to one of its path.
Remap == UNION {[D -> Nat] : D \in SUBSET Nat}
Acc == [kept : Seq(FolderRec), remap : Remap]

Folding(Q, acc, n) ==
  /\ acc \in Acc /\ Len(acc.kept) <= n
  /\ \A k \in DOMAIN acc.kept :
       /\ acc.kept[k].id \in 1..n
       /\ Q[acc.kept[k].id] = Append(Q[acc.kept[k].parent], Fold[acc.kept[k].name])
  /\ \A k, l \in DOMAIN acc.kept : acc.kept[k].id = acc.kept[l].id => k = l
  /\ \A i \in 1..n : \E k \in DOMAIN acc.kept : Q[acc.kept[k].id] = Q[i]
  /\ \A i \in DOMAIN acc.remap : Q[acc.remap[i]] = Q[i]

MappedParent(acc, f) == Mapped(acc.remap, f.parent)
Twins(acc, f) ==
  {k \in Range(acc.kept) : k.parent = MappedParent(acc, f) /\ k.name[1] = f.name[1]}
FoldStep(acc, f) ==
  IF Twins(acc, f) = {}
    THEN [acc EXCEPT !.kept = Append(@, [f EXCEPT !.parent = MappedParent(acc, f)])]
    ELSE [acc EXCEPT !.remap = MapSet(@, f.id, (CHOOSE k \in Twins(acc, f) : TRUE).id)]
Passing(pass) ==
  pass = [n \in 0..Len(folders) |-> IF n = 0 THEN [kept |-> <<>>, remap |-> <<>>]
                                    ELSE FoldStep(pass[n - 1], folders[n])]

LEMMA MappedIs ==
  ASSUME NEW remap \in Remap
  PROVE  /\ \A id \in Nat : Mapped(remap, id) \in Nat
         /\ \A id, value \in Nat : /\ MapSet(remap, id, value) \in Remap
                                   /\ DOMAIN MapSet(remap, id, value) = DOMAIN remap \cup {id}
                                   /\ \A i \in DOMAIN remap \cup {id} :
                                        MapSet(remap, id, value)[i]
                                          = IF i = id THEN value ELSE remap[i]
<1>1. PICK D \in SUBSET Nat : remap \in [D -> Nat]
  BY DEF Remap
<1>2. ASSUME NEW id \in Nat, NEW value \in Nat PROVE MapSet(remap, id, value) \in Remap
  <2>1. MapSet(remap, id, value) \in [D \cup {id} -> Nat] /\ D \cup {id} \in SUBSET Nat
    BY <1>1 DEF MapSet
  <2>. QED
    BY <2>1 DEF Remap
<1>. QED
  BY <1>1, <1>2 DEF Mapped, MapSet

\* One folder more: it is kept, or mapped to its twin.
LEMMA FoldsOn ==
  ASSUME folders \in Seq(FolderRec), NEW Q, Tree(Fold, folders, Q), NEW n \in Nat,
         n + 1 \in DOMAIN folders, folders[n + 1].id = n + 1, NEW acc, Folding(Q, acc, n)
  PROVE  Folding(Q, FoldStep(acc, folders[n + 1]), n + 1)
<1>. DEFINE f == folders[n + 1]
            parent == MappedParent(acc, f)
            new == FoldStep(acc, f)
<1>1. /\ f \in FolderRec /\ f.id = n + 1 /\ f.parent \in Nat /\ f.name \in Name
      /\ Q[f.id] = Append(Q[f.parent], Fold[f.name])
  <2>1. f \in FolderRec
    OBVIOUS
  <2>. QED
    BY <2>1 DEF FolderRec, Tree
<1>2. acc.kept \in Seq(FolderRec) /\ acc.remap \in Remap /\ DOMAIN acc = {"kept", "remap"}
      /\ acc = [kept |-> acc.kept, remap |-> acc.remap]
  <2>1. acc \in Acc
    BY DEF Folding
  <2>. QED
    BY <2>1 DEF Acc
<1>3. parent \in Nat /\ Q[parent] = Q[f.parent]
  <2>1. parent \in Nat
    BY <1>1, <1>2, MappedIs DEF MappedParent
  <2>2. \A i \in DOMAIN acc.remap : Q[acc.remap[i]] = Q[i]
    BY DEF Folding
  <2>. QED
    BY <2>1, <2>2 DEF MappedParent, Mapped
<1>. HIDE DEF parent
<1>4. CASE Twins(acc, f) = {}
  <2>. DEFINE g == [id |-> n + 1, parent |-> parent, name |-> f.name]
              kept == Append(acc.kept, g)
  <2>1. [f EXCEPT !.parent = parent] = g /\ g \in FolderRec
    BY <1>1, <1>3 DEF FolderRec
  <2>2. new = [kept |-> kept, remap |-> acc.remap]
    <3>1. new = [acc EXCEPT !.kept = Append(@, [f EXCEPT !.parent = parent])]
      BY <1>4 DEF FoldStep, parent
    <3>. HIDE DEF new, g
    <3>. QED
      BY <1>2, <2>1, <3>1
  <2>3. /\ kept \in Seq(FolderRec) /\ Len(kept) = Len(acc.kept) + 1 /\ Len(acc.kept) \in Nat
        /\ kept[Len(acc.kept) + 1] = g /\ \A k \in 1..Len(acc.kept) : kept[k] = acc.kept[k]
    BY <1>2, <2>1, Appended
  <2>4. g.id = n + 1 /\ Q[g.id] = Append(Q[g.parent], Fold[g.name]) /\ Q[g.id] = Q[f.id]
    BY <1>1, <1>3
  <2>. HIDE DEF g, kept
  <2>5. /\ Len(acc.kept) <= n /\ DOMAIN acc.kept = 1..Len(acc.kept)
        /\ \A k \in 1..Len(acc.kept) :
             /\ acc.kept[k].id \in 1..n
             /\ Q[acc.kept[k].id] = Append(Q[acc.kept[k].parent], Fold[acc.kept[k].name])
        /\ \A k, l \in 1..Len(acc.kept) : acc.kept[k].id = acc.kept[l].id => k = l
        /\ \A i \in 1..n : \E k \in 1..Len(acc.kept) : Q[acc.kept[k].id] = Q[i]
        /\ \A i \in DOMAIN acc.remap : Q[acc.remap[i]] = Q[i]
    <3>1. DOMAIN acc.kept = 1..Len(acc.kept)
      BY <1>2
    <3>. QED
      BY <3>1 DEF Folding
  <2>6. DOMAIN kept = 1..(Len(acc.kept) + 1)
        /\ \A k \in DOMAIN kept : k \in 1..Len(acc.kept) \/ k = Len(acc.kept) + 1
    BY <2>3
  <2>7. \A k \in DOMAIN kept : /\ kept[k].id \in 1..(n + 1)
                               /\ Q[kept[k].id] = Append(Q[kept[k].parent], Fold[kept[k].name])
    <3>1. ASSUME NEW k \in 1..Len(acc.kept)
          PROVE  /\ kept[k].id \in 1..(n + 1)
                 /\ Q[kept[k].id] = Append(Q[kept[k].parent], Fold[kept[k].name])
      <4>1. kept[k] = acc.kept[k]
        BY <2>3
      <4>. QED
        BY <2>5, <4>1
    <3>2. /\ kept[Len(acc.kept) + 1].id \in 1..(n + 1)
          /\ Q[g.id] = Append(Q[g.parent], Fold[g.name])
      BY <2>3, <2>4
    <3>. QED
      BY <2>3, <2>6, <3>1, <3>2
  <2>8. \A k, l \in DOMAIN kept : kept[k].id = kept[l].id => k = l
    <3>1. \A k \in 1..Len(acc.kept) : kept[k].id = acc.kept[k].id /\ kept[k].id # n + 1
      <4>1. \A k \in 1..Len(acc.kept) : acc.kept[k].id # n + 1
        <5>1. \A i \in 1..n : i # n + 1
          OBVIOUS
        <5>. QED
          BY <2>5, <5>1
      <4>. QED
        BY <2>3, <4>1
    <3>2. kept[Len(acc.kept) + 1].id = n + 1
      BY <2>3, <2>4
    <3>3. \A k, l \in 1..Len(acc.kept) : acc.kept[k].id = acc.kept[l].id => k = l
      BY <2>5
    <3>. QED
      BY <2>6, <3>1, <3>2, <3>3
  <2>9. ASSUME NEW i \in 1..(n + 1) PROVE \E k \in DOMAIN kept : Q[kept[k].id] = Q[i]
    <3>1. CASE i = n + 1
      <4>1. Len(acc.kept) + 1 \in DOMAIN kept
        BY <2>3, <2>6
      <4>2. Q[kept[Len(acc.kept) + 1].id] = Q[i]
        BY <1>1, <2>3, <2>4, <3>1
      <4>. QED
        BY <4>1, <4>2
    <3>2. CASE i # n + 1
      <4>1. i \in 1..n
        BY <3>2
      <4>2. PICK k \in 1..Len(acc.kept) : Q[acc.kept[k].id] = Q[i]
        BY <2>5, <4>1
      <4>3. k \in DOMAIN kept /\ kept[k] = acc.kept[k]
        BY <2>3, <2>6
      <4>. QED
        BY <4>2, <4>3
    <3>. QED
      BY <3>1, <3>2
  <2>10. new.kept = kept /\ new.remap = acc.remap /\ new \in Acc /\ Len(kept) <= n + 1
    BY <1>2, <2>2, <2>3, <2>5 DEF Acc
  <2>. HIDE DEF new
  <2>11. Folding(Q, new, n + 1)
    BY <2>5, <2>7, <2>8, <2>9, <2>10 DEF Folding
  <2>. QED
    BY <2>11 DEF new
<1>5. CASE Twins(acc, f) # {}
  <2>. DEFINE twin == CHOOSE k \in Twins(acc, f) : TRUE
              remap == MapSet(acc.remap, n + 1, twin.id)
  <2>1. twin \in Twins(acc, f)
    BY <1>5
  <2>2. PICK k \in DOMAIN acc.kept : twin = acc.kept[k]
    BY <2>1 DEF Twins, Range
  <2>3. twin.parent = parent /\ twin.name[1] = f.name[1] /\ twin \in FolderRec
    <3>1. acc.kept[k] \in FolderRec
      BY <1>2, <2>2
    <3>. HIDE DEF twin
    <3>. QED
      BY <2>1, <2>2, <3>1 DEF Twins, parent
  <2>4. new = [kept |-> acc.kept, remap |-> remap]
    <3>1. new = [acc EXCEPT !.remap = MapSet(@, f.id, twin.id)]
      BY <1>5 DEF FoldStep
    <3>. HIDE DEF new
    <3>. QED
      BY <1>1, <1>2, <3>1
  <2>. HIDE DEF twin
  <2>5. twin.id \in Nat /\ twin.name \in Name /\ Fold[twin.name] = Fold[f.name]
    BY <1>1, <2>3 DEF FolderRec, Fold
  <2>6. Q[twin.id] = Q[f.id]
    <3>1. Q[twin.id] = Append(Q[twin.parent], Fold[twin.name])
      BY <2>2 DEF Folding
    <3>. QED
      BY <1>1, <1>3, <2>3, <2>5, <3>1
  <2>7. /\ remap \in Remap /\ DOMAIN remap = DOMAIN acc.remap \cup {n + 1}
        /\ \A i \in DOMAIN acc.remap \cup {n + 1} :
             remap[i] = IF i = n + 1 THEN twin.id ELSE acc.remap[i]
    <3>1. \A id, value \in Nat :
            /\ MapSet(acc.remap, id, value) \in Remap
            /\ DOMAIN MapSet(acc.remap, id, value) = DOMAIN acc.remap \cup {id}
            /\ \A i \in DOMAIN acc.remap \cup {id} :
                 MapSet(acc.remap, id, value)[i] = IF i = id THEN value ELSE acc.remap[i]
      BY <1>2, MappedIs
    <3>2. n + 1 \in Nat /\ twin.id \in Nat
      BY <2>5
    <3>. QED
      BY <3>1, <3>2
  <2>. HIDE DEF remap
  <2>8. /\ Len(acc.kept) <= n /\ Len(acc.kept) \in Nat
        /\ \A j \in DOMAIN acc.kept :
             /\ acc.kept[j].id \in 1..n
             /\ Q[acc.kept[j].id] = Append(Q[acc.kept[j].parent], Fold[acc.kept[j].name])
        /\ \A j, l \in DOMAIN acc.kept : acc.kept[j].id = acc.kept[l].id => j = l
        /\ \A i \in 1..n : \E j \in DOMAIN acc.kept : Q[acc.kept[j].id] = Q[i]
        /\ \A i \in DOMAIN acc.remap : Q[acc.remap[i]] = Q[i]
    BY <1>2 DEF Folding
  <2>9. \A i \in DOMAIN remap : Q[remap[i]] = Q[i]
    BY <1>1, <2>6, <2>7, <2>8
  <2>10. \A i \in 1..(n + 1) : \E j \in DOMAIN acc.kept : Q[acc.kept[j].id] = Q[i]
    <3>1. \A i \in 1..(n + 1) : i \in 1..n \/ i = n + 1
      OBVIOUS
    <3>2. Q[acc.kept[k].id] = Q[n + 1]
      BY <1>1, <2>2, <2>6
    <3>. QED
      BY <2>8, <3>1, <3>2
  <2>11. new.kept = acc.kept /\ new.remap = remap /\ new \in Acc /\ Len(acc.kept) <= n + 1
         /\ \A j \in DOMAIN acc.kept : acc.kept[j].id \in 1..(n + 1)
    BY <1>2, <2>4, <2>7, <2>8 DEF Acc
  <2>. HIDE DEF new
  <2>12. \A i \in 1..(n + 1) : \E j \in DOMAIN new.kept : Q[new.kept[j].id] = Q[i]
    BY <2>10, <2>11
  <2>13. \A i \in DOMAIN new.remap : Q[new.remap[i]] = Q[i]
    BY <2>9, <2>11
  <2>14. /\ new \in Acc /\ Len(new.kept) <= n + 1
         /\ \A j \in DOMAIN new.kept :
              /\ new.kept[j].id \in 1..(n + 1)
              /\ Q[new.kept[j].id] = Append(Q[new.kept[j].parent], Fold[new.kept[j].name])
         /\ \A j, l \in DOMAIN new.kept : new.kept[j].id = new.kept[l].id => j = l
    BY <2>8, <2>11
  <2>15. Folding(Q, new, n + 1)
    BY <2>12, <2>13, <2>14 DEF Folding
  <2>. QED
    BY <2>15 DEF new
<1>. QED
  BY <1>4, <1>5

LEMMA PassingRuns ==
  ASSUME folders \in Seq(FolderRec)
  PROVE  \E pass : Passing(pass) /\ Deduped = pass[Len(folders)]
<1>. DEFINE N == Len(folders)
            base == [kept |-> <<>>, remap |-> <<>>]
            step == [x \in (1..N) \X Acc |-> FoldStep(x[2], folders[x[1]])]
<1>1. N \in Nat /\ \A n \in 1..N : folders[n] \in FolderRec
  OBVIOUS
<1>2. base \in Acc
  <2>1. <<>> \in [{} -> Nat] /\ {} \in SUBSET Nat
    OBVIOUS
  <2>2. <<>> \in Remap
    BY <2>1 DEF Remap
  <2>. QED
    BY <2>2 DEF Acc
<1>3. ASSUME NEW f \in FolderRec, NEW acc \in Acc PROVE FoldStep(acc, f) \in Acc
  <2>1. /\ acc.kept \in Seq(FolderRec) /\ acc.remap \in Remap
        /\ acc = [kept |-> acc.kept, remap |-> acc.remap]
        /\ f.id \in Nat /\ f.parent \in Nat /\ f.name \in Name
        /\ f = [id |-> f.id, parent |-> f.parent, name |-> f.name]
    BY DEF Acc, FolderRec
  <2>2. MappedParent(acc, f) \in Nat
    BY <2>1, MappedIs DEF MappedParent
  <2>3. CASE Twins(acc, f) = {}
    <3>. DEFINE g == [id |-> f.id, parent |-> MappedParent(acc, f), name |-> f.name]
    <3>1. [f EXCEPT !.parent = MappedParent(acc, f)] = g /\ g \in FolderRec
      <4>1. \A p : [f EXCEPT !.parent = p] = [id |-> f.id, parent |-> p, name |-> f.name]
        BY <2>1
      <4>. QED
        BY <2>1, <2>2, <4>1 DEF FolderRec
    <3>2. Append(acc.kept, g) \in Seq(FolderRec)
      BY <2>1, <3>1, Appended
    <3>3. FoldStep(acc, f) = [acc EXCEPT !.kept = Append(@, g)]
      BY <2>3, <3>1 DEF FoldStep
    <3>. HIDE DEF g
    <3>. QED
      BY <2>1, <3>2, <3>3 DEF Acc
  <2>4. CASE Twins(acc, f) # {}
    <3>. DEFINE twin == CHOOSE k \in Twins(acc, f) : TRUE
    <3>1. twin \in Range(acc.kept)
      BY <2>4 DEF Twins
    <3>2. twin \in FolderRec
      <4>. HIDE DEF twin
      <4>1. PICK k \in DOMAIN acc.kept : twin = acc.kept[k]
        BY <3>1 DEF Range
      <4>. QED
        BY <2>1, <4>1
    <3>3. FoldStep(acc, f) = [acc EXCEPT !.remap = MapSet(@, f.id, twin.id)]
      BY <2>4 DEF FoldStep
    <3>. HIDE DEF twin
    <3>4. twin.id \in Nat
      BY <3>2 DEF FolderRec
    <3>5. MapSet(acc.remap, f.id, twin.id) \in Remap
      BY <2>1, <3>4, MappedIs
    <3>. QED
      BY <2>1, <3>3, <3>5 DEF Acc
  <2>. QED
    BY <2>3, <2>4
<1>4. step \in Loop(N, Acc)
  BY <1>1, <1>3 DEF Loop
<1>. HIDE DEF step, N, base
<1>5. PICK g \in [0..N -> Acc] : Rounds(N, base, step, g)
  BY <1>1, <1>2, <1>4, Recursion
<1>6. Passing(g)
  <2>1. ASSUME NEW n \in 1..N PROVE g[n] = FoldStep(g[n - 1], folders[n])
    <3>1. g[n - 1] \in Acc
      BY <1>1
    <3>. QED
      BY <1>5, <3>1 DEF step, Rounds
  <2>2. \A n \in 0..N : g[n] = IF n = 0 THEN base ELSE FoldStep(g[n - 1], folders[n])
    <3>1. \A n \in 0..N : n # 0 => n \in 1..N
      BY <1>1
    <3>. QED
      BY <1>5, <2>1, <3>1 DEF Rounds
  <2>. QED
    BY <2>2 DEF Passing, base, N
<1>7. Deduped = (CHOOSE pass : Passing(pass))[Len(folders)]
  BY DEF Deduped, Passing, FoldStep, Twins, MappedParent
<1>. QED
  BY <1>6, <1>7

\* The folders kept are a tree along the same paths, and every path is that of one.
LEMMA DedupedIs ==
  ASSUME folders \in Seq(FolderRec), \A i \in DOMAIN folders : folders[i].id = i,
         NEW Q, Tree(Fold, folders, Q)
  PROVE  Folding(Q, Deduped, Len(folders))
<1>1. PICK pass : Passing(pass) /\ Deduped = pass[Len(folders)]
  BY PassingRuns
<1>. DEFINE N == Len(folders)
            P == {n \in 0..N : Folding(Q, pass[n], n)}
<1>2. N \in Nat /\ DOMAIN folders = 1..N
  OBVIOUS
<1>3. /\ pass[0] = [kept |-> <<>>, remap |-> <<>>]
      /\ \A n \in 0..(N - 1) : pass[n + 1] = FoldStep(pass[n], folders[n + 1])
  <2>1. 0 \in 0..N /\ \A n \in 0..(N - 1) : n + 1 \in 0..N /\ n + 1 # 0 /\ (n + 1) - 1 = n
    BY <1>2
  <2>. QED
    BY <1>1, <2>1 DEF Passing
<1>4. Folding(Q, pass[0], 0)
  <2>1. <<>> \in [{} -> Nat] /\ {} \in SUBSET Nat /\ DOMAIN <<>> = {}
    OBVIOUS
  <2>2. <<>> \in Remap
    BY <2>1 DEF Remap
  <2>3. pass[0].kept = <<>> /\ pass[0].remap = <<>> /\ pass[0] \in Acc
    BY <1>3, <2>2 DEF Acc
  <2>4. Len(<<>>) = 0 /\ \A i \in 1..0 : FALSE
    OBVIOUS
  <2>. QED
    BY <2>1, <2>3, <2>4 DEF Folding
<1>5. ASSUME NEW n \in 0..(N - 1), n \in P PROVE n + 1 \in P
  <2>1. n \in Nat /\ n + 1 \in DOMAIN folders /\ folders[n + 1].id = n + 1 /\ n + 1 \in 0..N
    BY <1>2
  <2>2. Folding(Q, FoldStep(pass[n], folders[n + 1]), n + 1)
    BY <1>5, <2>1, FoldsOn
  <2>. QED
    BY <1>3, <2>1, <2>2
<1>6. 0 \in P
  BY <1>2, <1>4
<1>. HIDE DEF P
<1>7. \A n \in 0..N : n \in P
  BY <1>2, <1>5, <1>6, CountUp
<1>. QED
  BY <1>1, <1>2, <1>7 DEF P
-----------------------------------------------------------------------------
(***************************************************************************)
(* The steps: what each makes of the paths.                                *)
(***************************************************************************)
\* Without their case, the paths of a pack are those it has, lowered.
LEMMA PackReads ==
  ASSUME NEW rows, NEW n, NEW fs, PackShape(rows, n, fs)
  PROVE  /\ \A i \in DOMAIN rows : /\ Where(rows, i) \in Seq(Name)
                                   /\ Spelled(Plain, Where(rows, i)) = Where(rows, i)
                                   /\ Spelled(Fold, Where(rows, i)) = Lower(Where(rows, i))
         /\ \A x \in Places(n, fs) :
              LET path == FilePath(rows, FileAt(fs, x))
              IN  Spelled(Plain, path) = path /\ Spelled(Fold, path) = Lower(path)
         /\ RowsPaths(Fold, rows) = Lowered(RowsPaths(Plain, rows))
         /\ PlacesPaths(Fold, rows, n, fs) = Lowered(PlacesPaths(Plain, rows, n, fs))
<1>. DEFINE At == Places(n, fs)
            PathAt(i) == Where(rows, i)
            PathOf(x) == FilePath(rows, FileAt(fs, x))
<1>1. \A id \in {Root} \cup DOMAIN rows : Where(rows, id) \in Seq(Name)
  BY WhereIs DEF PackShape
<1>2. \A i \in DOMAIN rows : PathAt(i) \in Seq(Name)
  BY <1>1
<1>3. ASSUME NEW x \in At PROVE PathOf(x) \in Seq(Name)
  <2>1. FileAt(fs, x) \in FileRec /\ FileAt(fs, x).folder \in {Root} \cup DOMAIN rows
    BY DEF PackShape
  <2>2. FileAt(fs, x).name \in Name /\ Where(rows, FileAt(fs, x).folder) \in Seq(Name)
    BY <1>1, <2>1 DEF FileRec
  <2>. QED
    BY <2>2 DEF FilePath
<1>4. \A i \in DOMAIN rows : /\ Spelled(Plain, PathAt(i)) = PathAt(i)
                             /\ Spelled(Fold, PathAt(i)) = Lower(PathAt(i))
  BY <1>2, Readings
<1>5. \A x \in At : /\ Spelled(Plain, PathOf(x)) = PathOf(x)
                    /\ Spelled(Fold, PathOf(x)) = Lower(PathOf(x))
  <2>. HIDE DEF PathOf
  <2>. QED
    BY <1>3, Readings
<1>6. RowsPaths(Fold, rows) = Lowered(RowsPaths(Plain, rows))
  <2>1. RowsPaths(Fold, rows) = {Lower(PathAt(i)) : i \in DOMAIN rows}
    BY <1>4 DEF RowsPaths
  <2>2. RowsPaths(Plain, rows) = {PathAt(i) : i \in DOMAIN rows}
    BY <1>4 DEF RowsPaths
  <2>. HIDE DEF PathAt
  <2>. QED
    BY <2>1, <2>2 DEF Lowered
<1>7. PlacesPaths(Fold, rows, n, fs) = Lowered(PlacesPaths(Plain, rows, n, fs))
  <2>1. PlacesPaths(Fold, rows, n, fs) = {Lower(PathOf(x)) : x \in At}
    BY <1>5 DEF PlacesPaths
  <2>2. PlacesPaths(Plain, rows, n, fs) = {PathOf(x) : x \in At}
    BY <1>5 DEF PlacesPaths
  <2>. HIDE DEF PathOf
  <2>. QED
    BY <2>1, <2>2 DEF Lowered
<1>. QED
  BY <1>2, <1>4, <1>5, <1>6, <1>7

\* The rows of an import of a pack: its paths, and no path twice exactly if the pack has none.
LEMMA ImportsPack ==
  ASSUME NEW rows, NEW n, NEW fs, PackShape(rows, n, fs), Pack(rows, n, fs)
  PROVE  LET T == Range(Imported.folders)
             S == Range(Imported.files)
             once == Unique(Imported.folders) /\ Unique(Imported.files)
         IN  /\ Paths(T) = RowsPaths(Plain, rows) /\ Paths(S) = PlacesPaths(Plain, rows, n, fs)
             /\ once <=> PackApart(Fold, rows, n, fs)
             /\ once => TableOK(T, S)
             /\ PackApart(Plain, rows, n, fs) /\ ~once
                  => Clash(RowsPaths(Plain, rows)) \/ Clash(PlacesPaths(Plain, rows, n, fs))
<1>. DEFINE T == Range(Imported.folders)
            S == Range(Imported.files)
            At == Places(n, fs)
            PathAt(i) == Where(rows, i)
            PathOf(x) == FilePath(rows, FileAt(fs, x))
            once == Unique(Imported.folders) /\ Unique(Imported.files)
<1>1. /\ Imported.folders = [i \in DOMAIN rows |-> FolderRow(rows, i)]
      /\ Imported.files = [x \in At |-> FileRow(rows, FileAt(fs, x))]
  BY ImportedIs DEF FolderRow, FileRow
<1>2. /\ T = {FolderRow(rows, i) : i \in DOMAIN rows}
      /\ S = {FileRow(rows, FileAt(fs, x)) : x \in At}
  BY <1>1 DEF Range
<1>3. /\ \A i \in DOMAIN rows : FolderRow(rows, i).path = PathAt(i)
      /\ \A x \in At : FileRow(rows, FileAt(fs, x)).path = PathOf(x)
  BY DEF FolderRow, FileRow
<1>4. /\ \A i \in DOMAIN rows : /\ Spelled(Plain, PathAt(i)) = PathAt(i)
                                /\ Spelled(Fold, PathAt(i)) = Lower(PathAt(i))
      /\ \A x \in At : /\ Spelled(Plain, PathOf(x)) = PathOf(x)
                       /\ Spelled(Fold, PathOf(x)) = Lower(PathOf(x))
  BY PackReads
<1>5. Paths(T) = RowsPaths(Plain, rows) /\ Paths(S) = PlacesPaths(Plain, rows, n, fs)
  <2>1. Paths(T) = {PathAt(i) : i \in DOMAIN rows} /\ Paths(S) = {PathOf(x) : x \in At}
    <3>. HIDE DEF PathAt, PathOf, T, S, At
    <3>. QED
      BY <1>2, <1>3 DEF Paths
  <2>2. /\ RowsPaths(Plain, rows) = {PathAt(i) : i \in DOMAIN rows}
        /\ PlacesPaths(Plain, rows, n, fs) = {PathOf(x) : x \in At}
    BY <1>4 DEF RowsPaths, PlacesPaths
  <2>. QED
    BY <2>1, <2>2
<1>6. /\ Unique(Imported.folders)
           <=> \A i, j \in DOMAIN rows : Lower(PathAt(i)) = Lower(PathAt(j)) => i = j
      /\ Unique(Imported.files)
           <=> \A x, y \in At : Lower(PathOf(x)) = Lower(PathOf(y)) => x = y
  <2>1. /\ DOMAIN Imported.folders = DOMAIN rows /\ DOMAIN Imported.files = At
        /\ \A i \in DOMAIN rows : Imported.folders[i].path = PathAt(i)
        /\ \A x \in At : Imported.files[x].path = PathOf(x)
    <3>. HIDE DEF PathAt, PathOf, At
    <3>. QED
      BY <1>1, <1>3
  <2>. HIDE DEF PathAt, PathOf, At
  <2>. QED
    BY <2>1 DEF Unique
<1>7. once <=> PackApart(Fold, rows, n, fs)
  BY <1>4, <1>6 DEF PackApart
<1>8. once => TableOK(T, S)
  BY <1>2, <1>7, TableOf
<1>9. ASSUME PackApart(Plain, rows, n, fs), ~once
      PROVE  Clash(RowsPaths(Plain, rows)) \/ Clash(PlacesPaths(Plain, rows, n, fs))
  <2>1. CASE ~Unique(Imported.folders)
    <3>1. PICK i \in DOMAIN rows, j \in DOMAIN rows : Lower(PathAt(i)) = Lower(PathAt(j)) /\ i # j
      BY <1>6, <2>1
    <3>2. Spelled(Plain, PathAt(i)) # Spelled(Plain, PathAt(j))
      BY <1>9, <3>1 DEF PackApart
    <3>3. /\ PathAt(i) \in RowsPaths(Plain, rows) /\ PathAt(j) \in RowsPaths(Plain, rows)
          /\ PathAt(i) # PathAt(j)
      BY <1>4, <3>2 DEF RowsPaths
    <3>. HIDE DEF PathAt
    <3>. QED
      BY <3>1, <3>3 DEF Clash
  <2>2. CASE ~Unique(Imported.files)
    <3>1. PICK x \in At, y \in At : Lower(PathOf(x)) = Lower(PathOf(y)) /\ x # y
      BY <1>6, <2>2
    <3>2. Spelled(Plain, PathOf(x)) # Spelled(Plain, PathOf(y))
      BY <1>9, <3>1 DEF PackApart
    <3>3. /\ PathOf(x) \in PlacesPaths(Plain, rows, n, fs)
          /\ PathOf(y) \in PlacesPaths(Plain, rows, n, fs)
          /\ PathOf(x) # PathOf(y)
      BY <1>4, <3>2 DEF PlacesPaths
    <3>. HIDE DEF PathOf
    <3>. QED
      BY <3>1, <3>3 DEF Clash
  <2>. QED
    BY <1>9, <2>1, <2>2
<1>. QED
  BY <1>5, <1>7, <1>8, <1>9

\* A folder's files are in one part.
LEMMA PackParts ==
  ASSUME NEW rows, NEW n, NEW fs, PackShape(rows, n, fs), Pack(rows, n, fs)
  PROVE  /\ \A i \in DOMAIN parts : parts[i].part = i /\ parts[i].parts = Len(parts)
         /\ \A p, q \in DOMAIN parts : p # q =>
              {f.folder : f \in Range(parts[p].files)} \cap {f.folder : f \in Range(parts[q].files)}
                = {}
<1>1. /\ n \in Nat /\ DOMAIN parts = 1..n
      /\ \A i \in 1..n : parts[i].part = i /\ parts[i].parts = n /\ parts[i].files = fs[i]
  BY DEF Pack, PackShape
<1>2. Len(parts) = n
  BY <1>1 DEF Pack
<1>3. ASSUME NEW p \in 1..n, NEW q \in 1..n, p # q,
             NEW f \in Range(fs[p]), NEW g \in Range(fs[q])
      PROVE  f.folder # g.folder
  <2>1. PICK k \in DOMAIN fs[p] : f = fs[p][k]
    BY DEF Range
  <2>2. PICK l \in DOMAIN fs[q] : g = fs[q][l]
    BY DEF Range
  <2>3. <<p, k>> \in Places(n, fs) /\ <<q, l>> \in Places(n, fs)
    BY DEF Places
  <2>4. FileAt(fs, <<p, k>>) = f /\ FileAt(fs, <<q, l>>) = g
    BY <2>1, <2>2 DEF FileAt
  <2>. QED
    BY <1>3, <2>3, <2>4 DEF PackShape
<1>. QED
  BY <1>1, <1>2, <1>3

\* The paths of a pack or a table are those of the disc, but for the case of folded names.
Honest(fp, ip) ==
  /\ Lowered(fp) = Lowered(disk.folders) /\ Lowered(ip) = Lowered(disk.files)
  /\ source = "walk" => disk = [folders |-> fp, files |-> ip]

\* A walk: ids count the folders, and P leads to each by the names on the way.
Walked(P) ==
  /\ P \in [0..Len(folders) -> Seq(Name)] /\ Tree(Plain, folders, P)
  /\ disk = [folders |-> FolderPaths(folders, P), files |-> FilePaths(Plain, packFiles, P)]
  /\ Apart(Plain, folders, packFiles, P)
  /\ \A k \in DOMAIN at : at[k].id \in 1..Len(folders) /\ P[at[k].id] = [i \in 1..k |-> at[i].name]

WalkShape ==
  /\ ListShape(folders, packFiles) /\ at \in Seq([id : Nat, name : Name])
  /\ \A i \in DOMAIN folders : folders[i].id = i /\ folders[i].parent \in 0..(i - 1)
  /\ \A i \in DOMAIN packFiles : packFiles[i].folder \in 0..Len(folders)
Walking == WalkShape /\ \E P : Walked(P)

\* The folder the walk is in, and its path.
LEMMA HereIs ==
  ASSUME WalkShape, NEW P, Walked(P), NEW name \in Name
  PROVE  /\ Here \in 0..Len(folders)
         /\ Entered(name) = Append(P[Here], name) /\ Entered(name) \in Seq(Name)
<1>. DEFINE names == [i \in DOMAIN at |-> at[i].name]
<1>1. Len(at) \in Nat /\ DOMAIN at = 1..Len(at) /\ Len(folders) \in Nat
  BY DEF WalkShape, ListShape, FolderList
<1>2. CASE at = <<>>
  <2>1. Here = Root /\ P[Root] = <<>>
    BY <1>2 DEF Here, Walked, Tree
  <2>2. names = <<>>
    BY <1>2
  <2>. HIDE DEF names
  <2>3. Entered(name) = Append(names, name)
    BY DEF Entered, names
  <2>. QED
    BY <1>1, <2>1, <2>2, <2>3 DEF Root
<1>3. CASE at # <<>>
  <2>1. Len(at) \in DOMAIN at
    BY <1>1, <1>3 DEF WalkShape
  <2>2. Here = at[Len(at)].id
    BY <1>3 DEF Here, Last
  <2>3. P[Here] = names /\ Here \in 1..Len(folders)
    BY <1>1, <2>1, <2>2 DEF Walked
  <2>4. P[Here] \in Seq(Name) /\ Here \in 0..Len(folders)
    BY <1>1, <2>3 DEF Walked
  <2>. HIDE DEF names
  <2>5. Entered(name) = Append(names, name)
    BY DEF Entered, names
  <2>. QED
    BY <2>3, <2>4, <2>5
<1>. QED
  BY <1>2, <1>3

\* Entering a folder, which is not one there was.
LEMMA WalksFolder ==
  ASSUME Walking, NEW name \in Name, WalkFolder(name)
  PROVE  Walking'
<1>. DEFINE N == Len(folders)
            path == Entered(name)
            new == [id |-> N + 1, parent |-> Here, name |-> name]
<1>1. PICK P : Walked(P)
  BY DEF Walking
<1>2. /\ N \in Nat /\ DOMAIN folders = 1..N /\ folders \in Seq(FolderRec)
      /\ \A i \in 1..N : /\ folders[i].id = i /\ folders[i].parent \in 0..(i - 1)
                         /\ folders[i].name \in Name
      /\ packFiles \in Seq(FileRec) /\ \A i \in DOMAIN packFiles : packFiles[i].folder \in 0..N
      /\ at \in Seq([id : Nat, name : Name])
  <2>1. folders \in Seq(FolderRec) /\ \A i \in DOMAIN folders : folders[i] \in FolderRec
    BY DEF Walking, WalkShape, ListShape, FolderList
  <2>2. \A f \in FolderRec : f.name \in Name
    BY DEF FolderRec
  <2>. QED
    BY <2>1, <2>2 DEF Walking, WalkShape, ListShape
<1>3. Here \in 0..N /\ path = Append(P[Here], name) /\ path \in Seq(Name)
  BY <1>1, HereIs DEF Walking
<1>4. new \in FolderRec
  BY <1>2, <1>3 DEF FolderRec
<1>5. /\ folders' = Append(folders, new) /\ packFiles' = packFiles /\ N < MaxFolders
      /\ at' = Append(at, [id |-> N + 1, name |-> name])
      /\ disk' = [disk EXCEPT !.folders = @ \cup {path}]
      /\ path \notin disk.folders \cup disk.files
  BY DEF WalkFolder, Unvisited
<1>6. /\ folders' \in Seq(FolderRec) /\ Len(folders') = N + 1 /\ DOMAIN folders' = 1..(N + 1)
      /\ folders'[N + 1] = new /\ \A i \in 1..N : folders'[i] = folders[i]
  <2>. HIDE DEF new
  <2>. QED
    BY <1>2, <1>4, <1>5, Appended
<1>7. PICK R : R = [i \in 0..(N + 1) |-> IF i = N + 1 THEN path ELSE P[i]]
  OBVIOUS
<1>8. /\ P \in [0..N -> Seq(Name)] /\ Tree(Plain, folders, P)
      /\ disk = [folders |-> FolderPaths(folders, P), files |-> FilePaths(Plain, packFiles, P)]
      /\ Apart(Plain, folders, packFiles, P)
      /\ \A k \in DOMAIN at : at[k].id \in 1..N /\ P[at[k].id] = [i \in 1..k |-> at[i].name]
  BY <1>1 DEF Walked
<1>. HIDE DEF path
<1>9. /\ R \in [0..(N + 1) -> Seq(Name)] /\ R[N + 1] = path
      /\ \A i \in 0..N : i \in 0..(N + 1) /\ i # N + 1 /\ R[i] = P[i]
  BY <1>2, <1>3, <1>7, <1>8
<1>10. /\ \A i \in 1..N : folders'[i].id = i /\ folders'[i].parent \in 0..(i - 1)
                          /\ folders'[i].parent \in 0..N
       /\ folders'[N + 1].id = N + 1 /\ folders'[N + 1].parent = Here
       /\ folders'[N + 1].name = name
  BY <1>2, <1>6
<1>. HIDE DEF new
<1>11. \A i \in 1..(N + 1) : i \in 1..N \/ i = N + 1
  BY <1>2
<1>12. \A i \in DOMAIN folders' : folders'[i].id = i /\ folders'[i].parent \in 0..(i - 1)
  <2>1. \A i \in 1..N : folders'[i].id = i /\ folders'[i].parent \in 0..(i - 1)
    BY <1>10
  <2>2. folders'[N + 1].id = N + 1 /\ folders'[N + 1].parent \in 0..((N + 1) - 1)
    <3>1. (N + 1) - 1 = N
      BY <1>2
    <3>. QED
      BY <1>3, <1>10, <3>1
  <2>3. DOMAIN folders' = 1..(N + 1)
    BY <1>6
  <2>. QED
    BY <1>11, <2>1, <2>2, <2>3
<1>13. FolderList(folders')
  BY <1>2, <1>6, <1>12 DEF FolderList, Root
<1>14. Tree(Plain, folders', R)
  <2>1. ASSUME NEW i \in 1..N
        PROVE  R[folders'[i].id] = Append(R[folders'[i].parent], Plain[folders'[i].name])
    <3>1. P[i] = Append(P[folders[i].parent], Plain[folders[i].name])
      BY <1>2, <1>8 DEF Tree
    <3>2. folders[i].parent \in 0..N /\ i \in 0..N
      <4>1. N \in Nat /\ folders[i].parent \in 0..(i - 1)
        BY <1>2
      <4>. QED
        BY <4>1
    <3>3. folders'[i] = folders[i] /\ folders[i].id = i
      BY <1>2, <1>6
    <3>4. R[i] = P[i] /\ R[folders[i].parent] = P[folders[i].parent]
      BY <1>9, <3>2
    <3>. QED
      BY <3>1, <3>3, <3>4
  <2>2. R[N + 1] = Append(R[Here], Plain[name])
    BY <1>3, <1>9 DEF Plain
  <2>3. R[Root] = <<>>
    <3>1. Root \in 0..N /\ P[Root] = <<>>
      BY <1>2, <1>8 DEF Tree, Root
    <3>. QED
      BY <1>9, <3>1
  <2>. QED
    BY <1>6, <1>10, <1>11, <2>1, <2>2, <2>3 DEF Tree
<1>15. FolderPaths(folders', R) = FolderPaths(folders, P) \cup {path}
  <2>1. FolderPaths(folders', R) = {R[i] : i \in 1..(N + 1)}
    BY <1>6, <1>12 DEF FolderPaths
  <2>2. FolderPaths(folders, P) = {P[i] : i \in 1..N}
    BY <1>2 DEF FolderPaths
  <2>3. \A i \in 1..N : R[i] = P[i] /\ i \in 1..(N + 1)
    BY <1>2, <1>9
  <2>4. N + 1 \in 1..(N + 1)
    BY <1>2
  <2>. QED
    BY <1>9, <1>11, <2>1, <2>2, <2>3, <2>4
<1>16. \A i \in DOMAIN packFiles : FilesAt(Plain, packFiles, R, i) = FilesAt(Plain, packFiles, P, i)
  BY <1>2, <1>9 DEF FilesAt
<1>17. FilePaths(Plain, packFiles, R) = FilePaths(Plain, packFiles, P)
  BY <1>16 DEF FilePaths
<1>18. Apart(Plain, folders', packFiles, R)
  <2>1. \A i \in 1..N : R[i] = P[i] /\ P[i] # path
    <3>1. \A i \in 1..N : P[i] \in FolderPaths(folders, P)
      BY <1>2 DEF FolderPaths
    <3>. QED
      BY <1>2, <1>5, <1>8, <1>9, <3>1
  <2>2. \A i, j \in 1..N : P[i] = P[j] => i = j
    BY <1>2, <1>8 DEF Apart
  <2>3. \A i, j \in 1..(N + 1) : R[i] = R[j] => i = j
    BY <1>9, <1>11, <2>1, <2>2
  <2>4. \A i, j \in DOMAIN folders' : R[folders'[i].id] = R[folders'[j].id] => i = j
    BY <1>6, <1>12, <2>3
  <2>5. \A i, j \in DOMAIN packFiles :
          FilesAt(Plain, packFiles, R, i) = FilesAt(Plain, packFiles, R, j) => i = j
    BY <1>8, <1>16 DEF Apart
  <2>. QED
    BY <2>4, <2>5 DEF Apart
<1>19. /\ at' \in Seq([id : Nat, name : Name])
       /\ \A k \in DOMAIN at' : at'[k].id \in 1..(N + 1)
                                /\ R[at'[k].id] = [i \in 1..k |-> at'[i].name]
  <2>. DEFINE M == Len(at)
              entry == [id |-> N + 1, name |-> name]
  <2>1. entry \in [id : Nat, name : Name] /\ entry.id = N + 1 /\ entry.name = name
    BY <1>2
  <2>2. M \in Nat /\ DOMAIN at = 1..M
    BY <1>2
  <2>. HIDE DEF entry
  <2>3. /\ at' \in Seq([id : Nat, name : Name]) /\ DOMAIN at' = 1..(M + 1)
        /\ at'[M + 1] = entry /\ \A k \in 1..M : at'[k] = at[k]
    <3>1. at' = Append(at, entry)
      BY <1>5 DEF entry
    <3>. QED
      BY <1>2, <2>1, <3>1
  <2>4. ASSUME NEW k \in 1..M
        PROVE  at'[k].id \in 1..(N + 1) /\ R[at'[k].id] = [i \in 1..k |-> at'[i].name]
    <3>1. at[k].id \in 1..N /\ P[at[k].id] = [i \in 1..k |-> at[i].name]
      BY <1>8, <2>2
    <3>2. \A i \in 1..k : i \in 1..M
      BY <2>2
    <3>3. [i \in 1..k |-> at'[i].name] = [i \in 1..k |-> at[i].name]
      BY <2>3, <3>2
    <3>4. at'[k].id = at[k].id /\ at[k].id \in 0..N /\ at[k].id \in 1..(N + 1)
      BY <1>2, <2>3, <3>1
    <3>5. R[at'[k].id] = P[at[k].id]
      BY <1>9, <3>4
    <3>. QED
      BY <3>1, <3>3, <3>4, <3>5
  <2>5. R[N + 1] = [i \in 1..(M + 1) |-> at'[i].name]
    <3>. DEFINE names == [i \in 1..M |-> at[i].name]
    <3>1. path = Append(names, name)
      BY <2>2 DEF path, Entered
    <3>2. \A i \in 1..M : at[i].name \in Name
      <4>. DEFINE Entry == [id : Nat, name : Name]
      <4>1. at \in Seq(Entry)
        BY <1>2
      <4>2. \A e \in Entry : e.name \in Name
        OBVIOUS
      <4>. HIDE DEF Entry
      <4>3. \A i \in 1..M : at[i] \in Entry
        BY <2>2, <4>1
      <4>. QED
        BY <4>2, <4>3
    <3>3. names \in Seq(Name) /\ Len(names) = M
      BY <2>2, <3>2
    <3>4. Append(names, name) = [i \in 1..(M + 1) |-> IF i = M + 1 THEN name ELSE names[i]]
      <4>. HIDE DEF names
      <4>1. /\ Append(names, name) \in Seq(Name) /\ Len(Append(names, name)) = M + 1
            /\ Append(names, name)[M + 1] = name
            /\ \A i \in 1..M : Append(names, name)[i] = names[i]
        BY <3>3, Appended
      <4>2. Append(names, name) = [i \in 1..(M + 1) |-> Append(names, name)[i]]
        <5>1. \A s \in Seq(Name) : s = [i \in 1..Len(s) |-> s[i]]
          OBVIOUS
        <5>. QED
          BY <4>1, <5>1

      <4>3. \A i \in 1..(M + 1) : i # M + 1 => i \in 1..M
        BY <2>2
      <4>. QED
        BY <4>1, <4>2, <4>3

    <3>5. \A i \in 1..(M + 1) : at'[i].name = IF i = M + 1 THEN name ELSE names[i]
      BY <2>1, <2>2, <2>3
    <3>. HIDE DEF names
    <3>. QED
      BY <1>9, <3>1, <3>4, <3>5
  <2>6. \A k \in 1..(M + 1) : k \in 1..M \/ k = M + 1
    BY <2>2
  <2>7. N + 1 \in 1..(N + 1)
    BY <1>2
  <2>. QED
    BY <2>1, <2>3, <2>4, <2>5, <2>6, <2>7
<1>20. disk' = [folders |-> FolderPaths(folders', R), files |-> FilePaths(Plain, packFiles', R)]
  BY <1>5, <1>8, <1>15, <1>17
<1>21. WalkShape'
  <2>1. ListShape(folders', packFiles')
    BY <1>2, <1>5, <1>6, <1>13, CatalogAssumption DEF ListShape
  <2>2. \A i \in DOMAIN packFiles : packFiles[i].folder \in 0..(N + 1)
    BY <1>2
  <2>. QED
    BY <1>5, <1>6, <1>12, <1>19, <2>1, <2>2 DEF WalkShape
<1>22. Walked(R)'
  BY <1>5, <1>6, <1>9, <1>14, <1>18, <1>19, <1>20 DEF Walked
<1>. QED
  BY <1>21, <1>22 DEF Walking

\* Meeting a file, which is not one there was.
LEMMA WalksFile ==
  ASSUME Walking, NEW name \in Name, WalkFile(name)
  PROVE  Walking'
<1>. DEFINE path == Entered(name)
            new == [folder |-> Here, name |-> name]
            M == Len(packFiles)
<1>1. PICK P : Walked(P)
  BY DEF Walking
<1>2. /\ Len(folders) \in Nat /\ packFiles \in Seq(FileRec) /\ M \in Nat /\ DOMAIN packFiles = 1..M
      /\ \A i \in 1..M : packFiles[i].folder \in 0..Len(folders)
  BY DEF Walking, WalkShape, ListShape, FolderList
<1>3. Here \in 0..Len(folders) /\ path = Append(P[Here], name) /\ path \in Seq(Name)
  BY <1>1, HereIs DEF Walking
<1>4. new \in FileRec
  BY <1>2, <1>3 DEF FileRec
<1>5. /\ folders' = folders /\ at' = at /\ packFiles' = Append(packFiles, new)
      /\ disk' = [disk EXCEPT !.files = @ \cup {path}]
      /\ path \notin disk.folders \cup disk.files
  BY DEF WalkFile, Unvisited
<1>6. /\ packFiles' \in Seq(FileRec) /\ Len(packFiles') = M + 1 /\ DOMAIN packFiles' = 1..(M + 1)
      /\ packFiles'[M + 1] = new /\ \A i \in 1..M : packFiles'[i] = packFiles[i]
  <2>. HIDE DEF new
  <2>. QED
    BY <1>2, <1>4, <1>5, Appended
<1>7. /\ P \in [0..Len(folders) -> Seq(Name)] /\ Tree(Plain, folders, P)
      /\ disk = [folders |-> FolderPaths(folders, P), files |-> FilePaths(Plain, packFiles, P)]
      /\ Apart(Plain, folders, packFiles, P)
      /\ \A k \in DOMAIN at : /\ at[k].id \in 1..Len(folders)
                              /\ P[at[k].id] = [i \in 1..k |-> at[i].name]
  BY <1>1 DEF Walked
<1>8. /\ FilesAt(Plain, packFiles', P, M + 1) = path
      /\ \A i \in 1..M : FilesAt(Plain, packFiles', P, i) = FilesAt(Plain, packFiles, P, i)
  <2>1. Plain[name] = name
    BY DEF Plain
  <2>2. packFiles'[M + 1].folder = Here /\ packFiles'[M + 1].name = name
    BY <1>6
  <2>3. \A i \in 1..M : packFiles'[i] = packFiles[i]
    BY <1>6
  <2>. QED
    BY <1>3, <2>1, <2>2, <2>3 DEF FilesAt
<1>9. /\ M + 1 \in 1..(M + 1) /\ \A i \in 1..(M + 1) : i \in 1..M \/ i = M + 1
      /\ \A i \in 1..M : i \in 1..(M + 1)
  BY <1>2
<1>. HIDE DEF path
<1>10. FilePaths(Plain, packFiles', P) = FilePaths(Plain, packFiles, P) \cup {path}
  <2>1. FilePaths(Plain, packFiles, P) = {FilesAt(Plain, packFiles, P, i) : i \in 1..M}
    BY <1>2 DEF FilePaths
  <2>2. FilePaths(Plain, packFiles', P) = {FilesAt(Plain, packFiles', P, i) : i \in 1..(M + 1)}
    BY <1>6 DEF FilePaths
  <2>. QED
    BY <1>8, <1>9, <2>1, <2>2
<1>11. Apart(Plain, folders, packFiles', P)
  <2>1. \A i \in 1..M : FilesAt(Plain, packFiles, P, i) # path
    <3>1. \A i \in 1..M : FilesAt(Plain, packFiles, P, i) \in FilePaths(Plain, packFiles, P)
      BY <1>2 DEF FilePaths
    <3>. QED
      BY <1>5, <1>7, <3>1
  <2>2. \A i, j \in 1..M : FilesAt(Plain, packFiles, P, i) = FilesAt(Plain, packFiles, P, j) => i = j
    BY <1>2, <1>7 DEF Apart
  <2>3. \A i, j \in 1..(M + 1) :
          FilesAt(Plain, packFiles', P, i) = FilesAt(Plain, packFiles', P, j) => i = j
    BY <1>8, <1>9, <2>1, <2>2
  <2>. QED
    BY <1>6, <1>7, <2>3 DEF Apart
<1>12. disk' = [folders |-> FolderPaths(folders, P), files |-> FilePaths(Plain, packFiles', P)]
  BY <1>5, <1>7, <1>10
<1>13. WalkShape'
  <2>1. \A i \in 1..(M + 1) : packFiles'[i].folder \in 0..Len(folders)
    <3>1. packFiles'[M + 1].folder \in 0..Len(folders)
      BY <1>3, <1>6
    <3>. QED
      BY <1>2, <1>6, <1>9, <3>1
  <2>2. ListShape(folders, packFiles')
    BY <1>6 DEF Walking, WalkShape, ListShape
  <2>. QED
    BY <1>5, <1>6, <2>1, <2>2 DEF Walking, WalkShape
<1>14. Walked(P)'
  <2>1. folders' = folders /\ at' = at
    BY <1>5
  <2>2. P \in [0..Len(folders') -> Seq(Name)] /\ Tree(Plain, folders', P)
    BY <1>7, <2>1
  <2>3. \A k \in DOMAIN at' : /\ at'[k].id \in 1..Len(folders')
                              /\ P[at'[k].id] = [i \in 1..k |-> at'[i].name]
    BY <1>7, <2>1
  <2>4. Apart(Plain, folders', packFiles', P)
    BY <1>11, <2>1
  <2>5. disk' = [folders |-> FolderPaths(folders', P), files |-> FilePaths(Plain, packFiles', P)]
    BY <1>12, <2>1
  <2>. QED
    BY <2>2, <2>3, <2>4, <2>5 DEF Walked
<1>. QED
  BY <1>13, <1>14 DEF Walking

\* Leaving a folder.
LEMMA WalksUp ==
  ASSUME Walking, at # <<>>, WalkUp
  PROVE  Walking'
<1>. DEFINE M == Len(at)
            Entry == [id : Nat, name : Name]
<1>1. PICK P : Walked(P)
  BY DEF Walking
<1>2. UNCHANGED <<disk, folders, packFiles>> /\ at' = SubSeq(at, 1, M - 1)
  BY DEF WalkUp, Front
<1>3. at \in Seq(Entry) /\ M \in Nat /\ M # 0
  BY DEF Walking, WalkShape
<1>. HIDE DEF Entry
<1>4. /\ at' \in Seq(Entry) /\ DOMAIN at' = 1..(M - 1) /\ DOMAIN at = 1..M
      /\ \A k \in 1..(M - 1) : at'[k] = at[k]
  BY <1>2, <1>3
<1>5. ASSUME NEW k \in DOMAIN at'
      PROVE  at'[k].id \in 1..Len(folders) /\ P[at'[k].id] = [i \in 1..k |-> at'[i].name]
  <2>1. k \in 1..M /\ \A i \in 1..k : i \in 1..(M - 1)
    BY <1>3, <1>4
  <2>2. at[k].id \in 1..Len(folders) /\ P[at[k].id] = [i \in 1..k |-> at[i].name]
    BY <1>1, <1>4, <2>1 DEF Walked
  <2>3. [i \in 1..k |-> at'[i].name] = [i \in 1..k |-> at[i].name]
    BY <1>4, <2>1
  <2>. QED
    BY <1>4, <2>2, <2>3
<1>6. Walked(P)'
  BY <1>1, <1>2, <1>5 DEF Walked
<1>7. WalkShape'
  BY <1>2, <1>4 DEF Walking, WalkShape, Entry
<1>. QED
  BY <1>6, <1>7 DEF Walking

\* What the pack is built of: the disc that was walked, ...
Scanned ==
  /\ ListShape(folders, packFiles) /\ Closed(folders, packFiles)
  /\ \E P : /\ Tree(Plain, folders, P) /\ Apart(Plain, folders, packFiles, P)
            /\ disk = [folders |-> FolderPaths(folders, P), files |-> FilePaths(Plain, packFiles, P)]

LEMMA WalkScanned ==
  ASSUME Walking
  PROVE  Scanned
<1>1. PICK P : Walked(P)
  BY DEF Walking
<1>2. /\ Len(folders) \in Nat /\ DOMAIN folders = 1..Len(folders)
      /\ \A i \in DOMAIN folders : folders[i].id = i /\ folders[i].parent \in 0..(i - 1)
      /\ \A i \in DOMAIN packFiles : packFiles[i].folder \in 0..Len(folders)
  BY DEF Walking, WalkShape, ListShape, FolderList
<1>3. Ids(folders) = 1..Len(folders)
  BY <1>2 DEF Ids
<1>4. \A i \in 0..Len(folders) : i \in {Root} \cup Ids(folders)
  BY <1>2, <1>3 DEF Root
<1>5. \A i \in DOMAIN folders : folders[i].parent \in 0..Len(folders) /\ folders[i].parent < folders[i].id
  BY <1>2
<1>6. Closed(folders, packFiles)
  BY <1>2, <1>4, <1>5 DEF Closed, ParentsKnown
<1>. QED
  BY <1>1, <1>6 DEF Scanned, Walked, Walking, WalkShape

\* ... or the rows of the old database, whose folders may be in two rows, ...
Folded(Q) ==
  /\ Tree(Fold, folders, Q)
  /\ FolderPaths(folders, Q) = Lowered(disk.folders)
  /\ FilePaths(Fold, packFiles, Q) = Lowered(disk.files)
OldRows ==
  /\ ListShape(folders, packFiles) /\ \A i \in DOMAIN folders : folders[i].id = i
  /\ \E Q : Folded(Q)

\* ... folded into one.
Merged == ListShape(folders, packFiles) /\ \E Q : Folded(Q)

LEMMA ReadsOldRows ==
  ASSUME LegacyRows
  PROVE  OldRows'
<1>1. PICK n \in 0..MaxFolders : \E dirs \in [1..n -> [parent : 0..n, name : Name]] :
        LET list == [i \in 1..n |-> [id |-> i, parent |-> dirs[i].parent, name |-> dirs[i].name]]
            path == PathsOf(list)
        IN  /\ \A i \in 1..n : path[i] = Append(path[dirs[i].parent], dirs[i].name)
            /\ \E m \in 0..MaxEntries - n : \E rows \in [1..m -> [folder : 0..n, name : Name]] :
                 /\ folders' = list /\ packFiles' = rows
                 /\ disk' = [folders |-> {path[i] : i \in 1..n},
                             files |-> {Append(path[rows[i].folder], rows[i].name) : i \in 1..m}]
  BY DEF LegacyRows
<1>2. PICK dirs \in [1..n -> [parent : 0..n, name : Name]] :
        LET list == [i \in 1..n |-> [id |-> i, parent |-> dirs[i].parent, name |-> dirs[i].name]]
            path == PathsOf(list)
        IN  /\ \A i \in 1..n : path[i] = Append(path[dirs[i].parent], dirs[i].name)
            /\ \E m \in 0..MaxEntries - n : \E rows \in [1..m -> [folder : 0..n, name : Name]] :
                 /\ folders' = list /\ packFiles' = rows
                 /\ disk' = [folders |-> {path[i] : i \in 1..n},
                             files |-> {Append(path[rows[i].folder], rows[i].name) : i \in 1..m}]
  BY <1>1
<1>. DEFINE list == [i \in 1..n |-> [id |-> i, parent |-> dirs[i].parent, name |-> dirs[i].name]]
            path == PathsOf(list)
<1>3. PICK m \in 0..MaxEntries - n : \E rows \in [1..m -> [folder : 0..n, name : Name]] :
        /\ folders' = list /\ packFiles' = rows
        /\ disk' = [folders |-> {path[i] : i \in 1..n},
                    files |-> {Append(path[rows[i].folder], rows[i].name) : i \in 1..m}]
  BY <1>2
<1>4. PICK rows \in [1..m -> [folder : 0..n, name : Name]] :
        /\ folders' = list /\ packFiles' = rows
        /\ disk' = [folders |-> {path[i] : i \in 1..n},
                    files |-> {Append(path[rows[i].folder], rows[i].name) : i \in 1..m}]
  BY <1>3
<1>5. /\ n \in Nat /\ m \in Nat /\ n <= MaxFolders
      /\ \A i \in 1..n : dirs[i].parent \in 0..n /\ dirs[i].name \in Name
      /\ \A i \in 1..m : rows[i] \in [folder : 0..n, name : Name]
  BY CatalogAssumption
<1>6. /\ DOMAIN list = 1..n
      /\ \A i \in 1..n : /\ list[i] \in FolderRec /\ list[i].id = i
                         /\ list[i].parent = dirs[i].parent /\ list[i].name = dirs[i].name
  BY <1>5 DEF FolderRec
<1>7. /\ folders' = list /\ packFiles' = rows
      /\ \A i \in 1..n : path[i] = Append(path[dirs[i].parent], dirs[i].name)
      /\ disk' = [folders |-> {path[i] : i \in 1..n},
                  files |-> {Append(path[rows[i].folder], rows[i].name) : i \in 1..m}]
  BY <1>2, <1>4
<1>8. list \in Seq(FolderRec) /\ Len(list) = n
  <2>1. list = [i \in 1..n |-> list[i]]
    OBVIOUS
  <2>. HIDE DEF list
  <2>2. list \in [1..n -> FolderRec]
    BY <1>6, <2>1
  <2>. QED
    BY <1>5, <2>2
<1>. HIDE DEF list
<1>9. path \in [0..n -> Seq(Name)] /\ path[Root] = <<>>
  BY <1>5, <1>6, <1>8, PathsOfAre
<1>. HIDE DEF path
<1>10. rows \in Seq(FileRec) /\ DOMAIN rows = 1..m
      /\ \A i \in 1..m : rows[i].folder \in 0..n /\ rows[i].name \in Name
  <2>1. \A r \in [folder : 0..n, name : Name] : r \in FileRec /\ r.folder \in 0..n /\ r.name \in Name
    BY <1>5 DEF FileRec
  <2>2. rows \in [1..m -> FileRec]
    BY <1>5, <2>1
  <2>. QED
    BY <1>5, <2>1, <2>2
<1>11. Ids(list) = 1..n /\ \A i \in 0..n : i \in {Root} \cup Ids(list)
  <2>1. Ids(list) = 1..n
    <3>1. Ids(list) = {list[i].id : i \in 1..n}
      BY <1>6 DEF Ids
    <3>2. \A i \in 1..n : list[i].id = i
      BY <1>6
    <3>3. \A x \in Ids(list) : x \in 1..n
      BY <3>1, <3>2
    <3>4. \A x \in 1..n : x \in Ids(list)
      BY <3>1, <3>2
    <3>. QED
      BY <3>3, <3>4
  <2>. QED
    BY <1>5, <2>1 DEF Root
<1>12. ParentsKnown(list, rows)
  BY <1>5, <1>6, <1>10, <1>11 DEF ParentsKnown
<1>13. \A i \in 0..n : path[i] \in Seq(Name)
  BY <1>9
<1>14. Tree(Plain, list, path)
  <2>1. \A i \in 1..n : Plain[list[i].name] = list[i].name
    BY <1>5, <1>6 DEF Plain
  <2>2. \A i \in 1..n : path[i] = Append(path[list[i].parent], Plain[list[i].name])
    <3>1. \A i \in 1..n : list[i].parent = dirs[i].parent /\ list[i].name = dirs[i].name
      BY <1>6
    <3>2. \A i \in 1..n : path[i] = Append(path[dirs[i].parent], dirs[i].name)
      BY <1>7
    <3>. QED
      BY <2>1, <3>1, <3>2
  <2>3. DOMAIN list = 1..n /\ \A i \in 1..n : list[i].id = i
    BY <1>6
  <2>. QED
    BY <1>9, <2>2, <2>3 DEF Tree
<1>15. PICK Q : Q = [i \in 0..n |-> Lower(path[i])]
  OBVIOUS
<1>16. Lowers(list, path, Q)
  <2>1. \A id \in {Root} \cup Ids(list) : id \in 0..n
    BY <1>5, <1>11 DEF Root
  <2>. QED
    BY <1>13, <1>15, <2>1 DEF Lowers

<1>17. /\ Tree(Fold, list, Q)
       /\ \A i \in DOMAIN list : Q[list[i].id] = Lower(path[list[i].id])
       /\ \A i \in DOMAIN rows : FilesAt(Fold, rows, Q, i) = Lower(FilesAt(Plain, rows, path, i))
  BY <1>8, <1>10, <1>12, <1>14, <1>16, TreeFolds
<1>18. FolderPaths(list, Q) = Lowered(disk'.folders)
  <2>1. FolderPaths(list, Q) = {Lower(path[i]) : i \in 1..n}
    <3>1. DOMAIN list = 1..n /\ \A i \in 1..n : list[i].id = i
      BY <1>6
    <3>2. \A i \in 1..n : Q[list[i].id] = Lower(path[i])
      BY <1>17, <3>1
    <3>3. FolderPaths(list, Q) = {Q[list[i].id] : i \in 1..n}
      BY <3>1 DEF FolderPaths
    <3>4. \A x : x \in FolderPaths(list, Q) <=> \E i \in 1..n : x = Lower(path[i])
      BY <3>2, <3>3
    <3>. QED
      BY <3>4


  <2>. QED
    BY <1>7, <2>1 DEF Lowered
<1>19. FilePaths(Fold, rows, Q) = Lowered(disk'.files)
  <2>. DEFINE F(i) == Append(path[rows[i].folder], rows[i].name)
  <2>1. \A i \in 1..m : FilesAt(Plain, rows, path, i) = F(i)
    BY <1>10 DEF FilesAt, Plain
  <2>2. disk'.files = {F(i) : i \in 1..m}
    BY <1>7
  <2>. HIDE DEF F
  <2>3. FilePaths(Fold, rows, Q) = {Lower(F(i)) : i \in 1..m}
    BY <1>10, <1>17, <2>1 DEF FilePaths
  <2>. QED
    BY <2>2, <2>3 DEF Lowered
<1>20. Folded(Q)'
  BY <1>7, <1>17, <1>18, <1>19 DEF Folded
<1>21. FolderList(list)
  BY <1>5, <1>6, <1>8 DEF FolderList, Root
<1>. QED
  BY <1>5, <1>6, <1>7, <1>8, <1>10, <1>20, <1>21 DEF OldRows, ListShape

\* The folders kept and the files mapped to them have the paths of the rows.
LEMMA Merges ==
  ASSUME OldRows, Dedupe
  PROVE  Merged'
<1>. DEFINE N == Len(folders)
            kept == Deduped.kept
            remap == Deduped.remap
            fls == [i \in DOMAIN packFiles |-> [packFiles[i] EXCEPT !.folder = Mapped(remap, @)]]
<1>1. PICK Q : Folded(Q)
  BY DEF OldRows
<1>2. /\ folders \in Seq(FolderRec) /\ N \in Nat /\ N <= MaxFolders /\ DOMAIN folders = 1..N
      /\ \A i \in DOMAIN folders : folders[i].id = i
      /\ packFiles \in Seq(FileRec) /\ MaxFolders \in Nat
  BY CatalogAssumption DEF OldRows, ListShape, FolderList
<1>3. Folding(Q, Deduped, N)
  BY <1>1, <1>2, DedupedIs DEF Folded
<1>4. /\ kept \in Seq(FolderRec) /\ remap \in Remap /\ Len(kept) <= N
      /\ \A k \in DOMAIN kept : /\ kept[k].id \in 1..N
                                /\ Q[kept[k].id] = Append(Q[kept[k].parent], Fold[kept[k].name])
      /\ \A k, l \in DOMAIN kept : kept[k].id = kept[l].id => k = l
      /\ \A i \in 1..N : \E k \in DOMAIN kept : Q[kept[k].id] = Q[i]
      /\ \A i \in DOMAIN remap : Q[remap[i]] = Q[i]
  BY <1>3 DEF Folding, Acc
<1>5. folders' = kept /\ packFiles' = fls /\ disk' = disk
  BY DEF Dedupe
<1>. HIDE DEF kept, remap
<1>6. \A id \in Nat : Mapped(remap, id) \in Nat /\ Q[Mapped(remap, id)] = Q[id]
  BY <1>4, MappedIs DEF Mapped
<1>7. ASSUME NEW i \in DOMAIN packFiles
      PROVE  /\ fls[i] \in FileRec /\ fls[i].folder = Mapped(remap, packFiles[i].folder)
             /\ fls[i].name = packFiles[i].name /\ packFiles[i].folder \in Nat
  <2>1. packFiles[i] \in FileRec
    BY <1>2
  <2>2. /\ packFiles[i].folder \in Nat /\ packFiles[i].name \in Name
        /\ packFiles[i] = [folder |-> packFiles[i].folder, name |-> packFiles[i].name]
    BY <2>1 DEF FileRec
  <2>3. fls[i] = [folder |-> Mapped(remap, packFiles[i].folder), name |-> packFiles[i].name]
    BY <2>2
  <2>. QED
    BY <1>6, <2>2, <2>3 DEF FileRec
<1>8. fls \in Seq(FileRec) /\ DOMAIN fls = DOMAIN packFiles
  <2>1. DOMAIN packFiles = 1..Len(packFiles) /\ Len(packFiles) \in Nat
    BY <1>2
  <2>2. DOMAIN fls = DOMAIN packFiles /\ fls = [i \in 1..Len(packFiles) |-> fls[i]]
    BY <2>1
  <2>. HIDE DEF fls
  <2>3. fls \in [1..Len(packFiles) -> FileRec]
    BY <1>7, <2>1, <2>2
  <2>. QED
    BY <2>1, <2>2, <2>3
<1>. HIDE DEF fls
<1>9. \A i \in DOMAIN packFiles : FilesAt(Fold, fls, Q, i) = FilesAt(Fold, packFiles, Q, i)
  BY <1>6, <1>7 DEF FilesAt
<1>10. FilePaths(Fold, fls, Q) = FilePaths(Fold, packFiles, Q)
  BY <1>8, <1>9 DEF FilePaths
<1>11. FolderPaths(kept, Q) = FolderPaths(folders, Q)
  <2>1. FolderPaths(folders, Q) = {Q[i] : i \in 1..N}
    BY <1>2 DEF FolderPaths
  <2>2. FolderPaths(kept, Q) = {Q[kept[k].id] : k \in DOMAIN kept}
    BY DEF FolderPaths
  <2>3. \A k \in DOMAIN kept : kept[k].id \in 1..N
    BY <1>4
  <2>4. \A i \in 1..N : \E k \in DOMAIN kept : Q[kept[k].id] = Q[i]
    BY <1>4
  <2>. QED
    BY <2>1, <2>2, <2>3, <2>4
<1>12. Tree(Fold, kept, Q)
  BY <1>1, <1>4 DEF Folded, Tree
<1>13. ListShape(kept, fls)
  <2>1. Len(kept) \in Nat /\ Len(kept) <= MaxFolders
    BY <1>2, <1>4
  <2>. QED
    BY <1>4, <1>8, <2>1 DEF ListShape, FolderList, Root
<1>14. Folded(Q)'
  BY <1>1, <1>5, <1>10, <1>11, <1>12 DEF Folded
<1>. QED
  BY <1>5, <1>13, <1>14 DEF Merged

\* A list of the rows of a table has each row once.
LEMMA ListsSet ==
  ASSUME NEW S, IsFiniteSet(S), NEW s \in SetToSeqs(S)
  PROVE  /\ s \in Seq(S) /\ Len(s) = Cardinality(S)
         /\ \A x \in S : \E i \in DOMAIN s : s[i] = x
         /\ \A i, j \in DOMAIN s : s[i] = s[j] => i = j
<1>. DEFINE n == Cardinality(S)
<1>1. n \in Nat
  BY FS_CardinalityType
<1>2. s \in [1..n -> S] /\ \A i, j \in 1..n : i # j => s[i] # s[j]
  BY DEF SetToSeqs
<1>3. s \in Injection(1..n, S)
  BY <1>2 DEF Injection, IsInjective
<1>4. Cardinality(1..n) = n
  <2>1. IsFiniteSet(1..n) /\ Cardinality(1..n) = n
    BY <1>1, FS_Interval
  <2>. QED
    BY <2>1
<1>5. s \in Surjection(1..n, S)
  BY <1>3, <1>4, FS_Injection
<1>. QED
  BY <1>1, <1>2, <1>5 DEF Surjection

\* The input of the pack of a backup: it has the paths of the disc, no path twice.
Exported ==
  /\ ListShape(folders, packFiles) /\ Closed(folders, packFiles)
  /\ \E P, Q : /\ Tree(Plain, folders, P) /\ Honest(FolderPaths(folders, P), FilePaths(Plain, packFiles, P))
               /\ Tree(Fold, folders, Q) /\ Apart(Fold, folders, packFiles, Q)

\* The rows of a disc in any order, as exportArchive may read them.
FolderOf(f) == [id |-> f.id, parent |-> f.parent, name |-> f.name]
FileOf(f) == [folder |-> f.folder, name |-> f.name]

LEMMA ExportLists ==
  ASSUME NEW T, NEW S, TableOK(T, S),
         NEW A, A = {FolderOf(f) : f \in T}, NEW list \in SetToSeqs(A),
         NEW B, B = {FileOf(f) : f \in S}, NEW fls \in SetToSeqs(B)
  PROVE  /\ list \in Seq(FolderRec) /\ Len(list) <= MaxFolders /\ fls \in Seq(FileRec)
         /\ \A i \in DOMAIN list : \E f \in T : list[i] = FolderOf(f)
         /\ \A f \in T : \E i \in DOMAIN list : list[i] = FolderOf(f)
         /\ \A i, j \in DOMAIN list : list[i] = list[j] => i = j
         /\ \A i \in DOMAIN fls : \E f \in S : fls[i] = FileOf(f)
         /\ \A f \in S : \E i \in DOMAIN fls : fls[i] = FileOf(f)
         /\ \A i, j \in DOMAIN fls : fls[i] = fls[j] => i = j
<1>1. /\ \A f \in T : f.id \in 1..MaxFolders /\ FolderOf(f) \in FolderRec /\ FolderOf(f).id = f.id
      /\ \A f, g \in T : f.id = g.id => f = g
      /\ MaxFolders \in Nat
  <2>1. \A f \in T : f.id \in Nat /\ f.parent \in Nat /\ f.name \in Name
    BY CatalogAssumption DEF TableOK
  <2>2. \A f, g \in T : f.id = g.id => f = g
    BY DEF TableOK
  <2>3. \A f \in T : f.id \in 1..MaxFolders
    BY DEF TableOK
  <2>. QED
    BY <2>1, <2>2, <2>3, CatalogAssumption DEF FolderOf, FolderRec
<1>2. IsFiniteSet(A) /\ Cardinality(A) <= MaxFolders
  <2>. DEFINE idOf == [a \in A |-> a.id]
  <2>1. idOf \in Injection(A, 1..MaxFolders)
    <3>1. \A a \in A : a.id \in 1..MaxFolders
      BY <1>1
    <3>2. \A a, b \in A : a.id = b.id => a = b
      BY <1>1
    <3>. QED
      BY <3>1, <3>2 DEF Injection, IsInjective
  <2>2. IsFiniteSet(1..MaxFolders) /\ Cardinality(1..MaxFolders) = MaxFolders
    BY <1>1, FS_Interval
  <2>. HIDE DEF idOf
  <2>. QED
    BY <2>1, <2>2, FS_Injection
<1>3. IsFiniteSet(B)
  <2>. DEFINE row == [f \in S |-> FileOf(f)]
  <2>1. row \in Surjection(S, B)
    BY DEF Surjection
  <2>2. IsFiniteSet(S)
    BY DEF TableOK
  <2>. HIDE DEF row
  <2>. QED
    BY <2>1, <2>2, FS_Surjection
<1>4. B \subseteq FileRec
  <2>1. \A f \in S : f.folder \in Nat /\ f.name \in Name
    BY <1>1 DEF TableOK, RowIds, Root
  <2>. QED
    BY <2>1 DEF FileOf, FileRec
<1>5. A \subseteq FolderRec
  BY <1>1
<1>6. /\ list \in Seq(A) /\ Len(list) = Cardinality(A)
      /\ \A x \in A : \E i \in DOMAIN list : list[i] = x
      /\ \A i, j \in DOMAIN list : list[i] = list[j] => i = j
  BY <1>2, ListsSet
<1>7. /\ fls \in Seq(B)
      /\ \A x \in B : \E i \in DOMAIN fls : fls[i] = x
      /\ \A i, j \in DOMAIN fls : fls[i] = fls[j] => i = j
  BY <1>3, ListsSet
<1>8. list \in Seq(FolderRec) /\ fls \in Seq(FileRec)
  BY <1>4, <1>5, <1>6, <1>7
<1>9. (\A i \in DOMAIN list : list[i] \in A) /\ (\A i \in DOMAIN fls : fls[i] \in B)
  <2>1. list \in Seq(A) /\ fls \in Seq(B)
    BY <1>6, <1>7
  <2>. QED
    BY <2>1
<1>10. /\ \A i \in DOMAIN list : \E f \in T : list[i] = FolderOf(f)
       /\ \A i \in DOMAIN fls : \E f \in S : fls[i] = FileOf(f)
  BY <1>9
<1>11. /\ \A f \in T : \E i \in DOMAIN list : list[i] = FolderOf(f)
       /\ \A f \in S : \E i \in DOMAIN fls : fls[i] = FileOf(f)
  <2>1. (\A f \in T : FolderOf(f) \in A) /\ \A f \in S : FileOf(f) \in B
    OBVIOUS
  <2>2. \A x \in A : \E i \in DOMAIN list : list[i] = x
    BY <1>6
  <2>3. \A x \in B : \E i \in DOMAIN fls : fls[i] = x
    BY <1>7
  <2>. QED
    BY <2>1, <2>2, <2>3
<1>12. Len(list) <= MaxFolders
  BY <1>2, <1>6
<1>. QED
  BY <1>6, <1>7, <1>8, <1>10, <1>11, <1>12

LEMMA Exports ==
  ASSUME TableOK(table.folders, table.files), Honest(Paths(table.folders), Paths(table.files)),
         ExportArchive
  PROVE  Exported'
<1>. DEFINE T == table.folders
            S == table.files
<1>1. PICK list : list = folders'
  OBVIOUS
<1>2. PICK fls : fls = packFiles'
  OBVIOUS
<1>3. /\ list \in SetToSeqs({FolderOf(f) : f \in T}) /\ fls \in SetToSeqs({FileOf(f) : f \in S})
      /\ disk' = disk /\ source' = source /\ TableOK(T, S)
  BY <1>1, <1>2 DEF ExportArchive, FolderOf, FileOf
<1>. HIDE DEF T, S
<1>4. /\ list \in Seq(FolderRec) /\ Len(list) <= MaxFolders /\ fls \in Seq(FileRec)
      /\ \A i \in DOMAIN list : \E f \in T : list[i] = FolderOf(f)
      /\ \A f \in T : \E i \in DOMAIN list : list[i] = FolderOf(f)
      /\ \A i, j \in DOMAIN list : list[i] = list[j] => i = j
      /\ \A i \in DOMAIN fls : \E f \in S : fls[i] = FileOf(f)
      /\ \A f \in S : \E i \in DOMAIN fls : fls[i] = FileOf(f)
      /\ \A i, j \in DOMAIN fls : fls[i] = fls[j] => i = j
  BY <1>3, ExportLists
<1>5. /\ \A f \in T : /\ f.id \in 1..MaxFolders /\ f.parent \in 0..(f.id - 1)
                      /\ f.parent \in {Root} \cup RowIds(T)
                      /\ f.name \in Name /\ f.path \in Seq(Name)
                      /\ f.path = Append(Above(T, f.parent), f.name)
      /\ \A f \in S : /\ f.folder \in {Root} \cup RowIds(T)
                      /\ f.name \in Name /\ f.path \in Seq(Name)
                      /\ f.path = Append(Above(T, f.folder), f.name)
      /\ \A f, g \in T : f.id = g.id => f = g
      /\ \A f, g \in T : Lower(f.path) = Lower(g.path) => f = g
      /\ \A f, g \in S : Lower(f.path) = Lower(g.path) => f = g
  BY <1>3 DEF TableOK
<1>6. \A f \in T : f.id # Root /\ f.id \in Nat /\ f.parent < f.id /\ Above(T, f.id) = f.path
  <2>1. \A f \in T : f.id # Root /\ f.id \in Nat /\ f.parent < f.id
    BY <1>5, CatalogAssumption DEF Root
  <2>. QED
    BY <1>5, <2>1, AboveIs
<1>7. Ids(list) = RowIds(T)
  <2>1. \A i \in DOMAIN list : list[i].id \in RowIds(T)
    BY <1>4 DEF RowIds, FolderOf
  <2>2. \A f \in T : f.id \in Ids(list)
    BY <1>4 DEF Ids, FolderOf
  <2>. QED
    BY <2>1, <2>2 DEF Ids, RowIds
<1>8. \A i \in DOMAIN list : \E f \in T : /\ list[i].id = f.id /\ list[i].parent = f.parent
                                          /\ list[i].name = f.name /\ list[i] = FolderOf(f)
  BY <1>4 DEF FolderOf
<1>9. \A i \in DOMAIN fls : \E f \in S : /\ fls[i].folder = f.folder /\ fls[i].name = f.name
                                         /\ fls[i] = FileOf(f)
  <2>1. \A f : FileOf(f).folder = f.folder /\ FileOf(f).name = f.name
    BY DEF FileOf
  <2>. QED
    BY <1>4, <2>1
<1>10. Closed(list, fls)
  <2>1. \A i \in DOMAIN list : list[i].parent < list[i].id /\ list[i].parent \in {Root} \cup Ids(list)
    BY <1>5, <1>6, <1>7, <1>8
  <2>2. \A i \in DOMAIN fls : fls[i].folder \in {Root} \cup Ids(list)
    BY <1>5, <1>7, <1>9
  <2>. QED
    BY <2>1, <2>2 DEF Closed, ParentsKnown
<1>11. ListShape(list, fls)
  <2>1. \A i \in DOMAIN list : list[i].id # Root
    BY <1>6, <1>8
  <2>2. \A i, j \in DOMAIN list : list[i].id = list[j].id => i = j
    <3>1. ASSUME NEW i \in DOMAIN list, NEW j \in DOMAIN list, list[i].id = list[j].id
          PROVE  i = j
      <4>1. PICK f \in T : list[i].id = f.id /\ list[i] = FolderOf(f)
        BY <1>8
      <4>2. PICK g \in T : list[j].id = g.id /\ list[j] = FolderOf(g)
        BY <1>8
      <4>3. f = g
        BY <1>5, <3>1, <4>1, <4>2
      <4>. QED
        BY <1>4, <4>1, <4>2, <4>3
    <3>. QED
      BY <3>1
  <2>. QED
    BY <1>4, <2>1, <2>2 DEF ListShape, FolderList
<1>12. PICK P : P = [id \in Nat |-> Above(T, id)]
  OBVIOUS
<1>13. PICK Q : Q = [id \in Nat |-> Lower(P[id])]
  OBVIOUS
<1>14. /\ P[Root] = <<>> /\ \A f \in T : P[f.id] = f.path
       /\ \A id \in {Root} \cup RowIds(T) : id \in Nat /\ P[id] = Above(T, id)
  <2>1. Root \in Nat
    BY DEF Root
  <2>2. \A id \in {Root} \cup RowIds(T) : id \in Nat /\ P[id] = Above(T, id)
    BY <1>6, <1>12, <2>1 DEF RowIds
  <2>3. P[Root] = <<>>
    BY <2>2 DEF Above
  <2>. QED
    BY <1>6, <1>12, <2>2, <2>3
<1>15. Lowers(list, P, Q)
  <2>1. ASSUME NEW id \in {Root} \cup Ids(list) PROVE P[id] \in Seq(Name) /\ Q[id] = Lower(P[id])
    <3>1. id \in Nat /\ (id = Root \/ \E f \in T : f.id = id)
      BY <1>7, <1>14 DEF RowIds
    <3>2. P[id] \in Seq(Name)
      <4>1. <<>> \in Seq(Name)
        OBVIOUS
      <4>. QED
        BY <1>5, <1>14, <3>1, <4>1
    <3>. QED
      BY <1>13, <3>1, <3>2
  <2>. QED
    BY <2>1 DEF Lowers
<1>16. Tree(Plain, list, P)
  <2>1. ASSUME NEW i \in DOMAIN list
        PROVE  P[list[i].id] = Append(P[list[i].parent], Plain[list[i].name])
    <3>1. PICK f \in T : list[i].id = f.id /\ list[i].parent = f.parent /\ list[i].name = f.name
      BY <1>8
    <3>2. P[f.id] = f.path /\ P[f.parent] = Above(T, f.parent)
      BY <1>5, <1>14
    <3>3. Plain[f.name] = f.name
      BY <1>5 DEF Plain
    <3>4. f.path = Append(Above(T, f.parent), f.name)
      BY <1>5
    <3>. QED
      BY <3>1, <3>2, <3>3, <3>4
  <2>. QED
    BY <1>14, <2>1 DEF Tree
<1>17. ParentsKnown(list, fls)
  BY <1>10 DEF Closed
<1>18. /\ Tree(Fold, list, Q)
       /\ \A i \in DOMAIN list : Q[list[i].id] = Lower(P[list[i].id])
       /\ \A i \in DOMAIN fls : FilesAt(Fold, fls, Q, i) = Lower(FilesAt(Plain, fls, P, i))
  BY <1>4, <1>15, <1>16, <1>17, TreeFolds
<1>19. ASSUME NEW i \in DOMAIN fls, NEW f \in S, fls[i].folder = f.folder, fls[i].name = f.name
       PROVE  FilesAt(Plain, fls, P, i) = f.path
  <2>1. Plain[f.name] = f.name /\ P[f.folder] = Above(T, f.folder)
    BY <1>5, <1>14 DEF Plain
  <2>2. f.path = Append(Above(T, f.folder), f.name)
    BY <1>5
  <2>. QED
    BY <1>19, <2>1, <2>2 DEF FilesAt
<1>20. Apart(Fold, list, fls, Q)
  <2>1. ASSUME NEW i \in DOMAIN list, NEW j \in DOMAIN list, Q[list[i].id] = Q[list[j].id]
        PROVE  i = j
    <3>1. PICK f \in T : list[i].id = f.id /\ list[i] = FolderOf(f)
      BY <1>8
    <3>2. PICK g \in T : list[j].id = g.id /\ list[j] = FolderOf(g)
      BY <1>8
    <3>3. Lower(f.path) = Lower(g.path)
      BY <1>14, <1>18, <2>1, <3>1, <3>2
    <3>4. f = g
      BY <1>5, <3>3
    <3>. QED
      BY <1>4, <3>1, <3>2, <3>4
  <2>2. ASSUME NEW i \in DOMAIN fls, NEW j \in DOMAIN fls,
               FilesAt(Fold, fls, Q, i) = FilesAt(Fold, fls, Q, j)
        PROVE  i = j
    <3>1. PICK f \in S : fls[i].folder = f.folder /\ fls[i].name = f.name /\ fls[i] = FileOf(f)
      BY <1>9
    <3>2. PICK g \in S : fls[j].folder = g.folder /\ fls[j].name = g.name /\ fls[j] = FileOf(g)
      BY <1>9
    <3>3. FilesAt(Plain, fls, P, i) = f.path /\ FilesAt(Plain, fls, P, j) = g.path
      BY <1>19, <3>1, <3>2
    <3>4. Lower(f.path) = Lower(g.path)
      BY <1>18, <2>2, <3>3
    <3>5. f = g
      BY <1>5, <3>4
    <3>. QED
      BY <1>4, <3>1, <3>2, <3>5
  <2>. QED
    BY <2>1, <2>2 DEF Apart
<1>21. FolderPaths(list, P) = Paths(T)
  <2>1. \A i \in DOMAIN list : P[list[i].id] \in Paths(T)
    BY <1>8, <1>14 DEF Paths
  <2>2. ASSUME NEW f \in T PROVE \E i \in DOMAIN list : f.path = P[list[i].id]
    <3>1. PICK i \in DOMAIN list : list[i] = FolderOf(f)
      BY <1>4
    <3>2. list[i].id = f.id
      BY <3>1 DEF FolderOf
    <3>. QED
      BY <1>14, <3>2
  <2>. QED
    BY <2>1, <2>2 DEF FolderPaths, Paths
<1>22. FilePaths(Plain, fls, P) = Paths(S)
  <2>1. \A i \in DOMAIN fls : FilesAt(Plain, fls, P, i) \in Paths(S)
    BY <1>9, <1>19 DEF Paths
  <2>2. ASSUME NEW f \in S PROVE \E i \in DOMAIN fls : f.path = FilesAt(Plain, fls, P, i)
    <3>1. PICK i \in DOMAIN fls : fls[i] = FileOf(f)
      BY <1>4
    <3>2. fls[i].folder = f.folder /\ fls[i].name = f.name
      BY <3>1 DEF FileOf
    <3>. QED
      BY <1>19, <3>2
  <2>. QED
    BY <2>1, <2>2 DEF FilePaths, Paths
<1>23. Honest(FolderPaths(list, P), FilePaths(Plain, fls, P))
  BY <1>21, <1>22 DEF T, S
<1>24. Honest(FolderPaths(list, P), FilePaths(Plain, fls, P))'
  BY <1>3, <1>23 DEF Honest
<1>. QED
  BY <1>1, <1>2, <1>10, <1>11, <1>16, <1>18, <1>20, <1>24 DEF Exported
-----------------------------------------------------------------------------
(***************************************************************************)
(* The invariant, and the theorems.                                        *)
(***************************************************************************)
\* The parts are a pack, of which an import makes the rows of the disc.
Packed == \E rows, n, fs : PackShape(rows, n, fs) /\ Pack(rows, n, fs)
Importing ==
  \E rows, n, fs :
    /\ PackShape(rows, n, fs) /\ Pack(rows, n, fs)
    /\ Honest(RowsPaths(Plain, rows), PlacesPaths(Plain, rows, n, fs))
    /\ source = "walk" => PackApart(Plain, rows, n, fs)
Restoring ==
  \E rows, n, fs :
    /\ PackShape(rows, n, fs) /\ Pack(rows, n, fs)
    /\ Honest(RowsPaths(Plain, rows), PlacesPaths(Plain, rows, n, fs))
    /\ PackApart(Fold, rows, n, fs)

\* What holds at each stage.
CatalogInv ==
  /\ source \in {"walk", "legacy"}
  /\ stage \in {"walk", "legacy", "dedupe", "build", "import", "browse", "backup", "restore",
                 "done", Failed}
  /\ stage \in {"walk", "legacy"} => source = stage
  /\ parts = <<>> \/ Packed
  /\ stage \in {"walk", "legacy", "dedupe", "build", "import", Failed} => table = NoRows
  /\ stage \in {"browse", "backup", "restore", "done"} => TableOK(table.folders, table.files)
  /\ stage \in {"browse", "done"} => Honest(Paths(table.folders), Paths(table.files))
  /\ stage = "walk" => Walking
  /\ stage = "dedupe" => source = "legacy" /\ OldRows
  /\ stage = "build" => (source = "walk" => Scanned) /\ (source = "legacy" => Merged)
  /\ stage = "import" => Importing
  /\ stage = "backup" => Exported
  /\ stage = "restore" => Restoring
  /\ stage = Failed /\ source = "walk" => Clash(disk.folders) \/ Clash(disk.files)

LEMMA CatalogStarts ==
  ASSUME CatalogInit
  PROVE  CatalogInv
<1>1. ASSUME stage = "walk" PROVE Walking
  <2>1. folders = <<>> /\ packFiles = <<>> /\ at = <<>> /\ disk = [folders |-> {}, files |-> {}]
    BY DEF CatalogInit, NoRows
  <2>2. /\ <<>> \in Seq(FolderRec) /\ <<>> \in Seq(FileRec) /\ <<>> \in Seq([id : Nat, name : Name])
        /\ Len(<<>>) = 0 /\ DOMAIN <<>> = {} /\ MaxFolders \in Nat
    BY CatalogAssumption
  <2>3. WalkShape
    BY <2>1, <2>2 DEF WalkShape, ListShape, FolderList
  <2>4. PICK P : P = [i \in 0..0 |-> <<>>]
    OBVIOUS
  <2>5. P \in [0..0 -> Seq(Name)] /\ P[Root] = <<>>
    BY <2>4 DEF Root
  <2>6. FolderPaths(<<>>, P) = {} /\ FilePaths(Plain, <<>>, P) = {}
    BY <2>2 DEF FolderPaths, FilePaths
  <2>7. Tree(Plain, <<>>, P) /\ Apart(Plain, <<>>, <<>>, P)
    BY <2>2, <2>5 DEF Tree, Apart
  <2>8. Walked(P)
    BY <2>1, <2>2, <2>5, <2>6, <2>7 DEF Walked
  <2>. QED
    BY <2>3, <2>8 DEF Walking
<1>. QED
  BY <1>1 DEF CatalogInit, CatalogInv, Failed

\* A pack of a list that can be built.
LEMMA Builds ==
  ASSUME ListShape(folders, packFiles), Buildable, BuildPack
  PROVE  \E rows, n, fs : /\ rows = FolderRows /\ n = Len(PartFiles) /\ fs = BuiltFiles
                          /\ PackShape(rows, n, fs) /\ Pack(rows, n, fs)'
<1>1. PICK rows : rows = FolderRows
  OBVIOUS
<1>2. PICK n : n = Len(PartFiles)
  OBVIOUS
<1>3. PICK fs : fs = BuiltFiles
  OBVIOUS
<1>4. PackShape(rows, n, fs)
  BY <1>1, <1>2, <1>3, BuiltShape
<1>5. DOMAIN PartFiles = 1..n
  <2>1. PartFiles \in Seq(SUBSET DOMAIN packFiles)
    BY PartFilesAre DEF ListShape
  <2>. QED
    BY <1>2, <2>1
<1>6. \A i \in 1..n : fs[i] = [k \in PartFiles[i] |-> [packFiles[k] EXCEPT !.folder = PackId(@)]]
  BY <1>3, <1>5 DEF BuiltFiles
<1>7. parts' = [i \in 1..n |-> [part |-> i, parts |-> n, files |-> fs[i],
                                folders |-> IF i = 1 THEN rows ELSE <<>>]]
  <2>1. parts' = [i \in DOMAIN PartFiles |->
                    [part |-> i, parts |-> Len(PartFiles),
                     files |-> [k \in PartFiles[i] |-> [packFiles[k] EXCEPT !.folder = PackId(@)]],
                     folders |-> IF i = 1 THEN FolderRows ELSE <<>>]]
    BY DEF BuildPack
  <2>. QED
    BY <1>1, <1>2, <1>5, <1>6, <2>1
<1>8. Pack(rows, n, fs)'
  BY <1>7 DEF Pack
<1>. QED
  BY <1>1, <1>2, <1>3, <1>4, <1>8

\* Building the pack of a scan, of the old database and of a backup.
LEMMA BuildsScan ==
  ASSUME Scanned, BuildPack, source = "walk"
  PROVE  Buildable /\ Importing'
<1>1. /\ ListShape(folders, packFiles) /\ Buildable
  BY ClosedBuilds DEF Scanned
<1>2. PICK P : /\ Tree(Plain, folders, P) /\ Apart(Plain, folders, packFiles, P)
               /\ disk = [folders |-> FolderPaths(folders, P),
                          files |-> FilePaths(Plain, packFiles, P)]
  BY DEF Scanned
<1>3. PICK rows, n, fs : /\ rows = FolderRows /\ n = Len(PartFiles) /\ fs = BuiltFiles
                         /\ PackShape(rows, n, fs) /\ Pack(rows, n, fs)'
  BY <1>1, Builds
<1>4. /\ RowsPaths(Plain, rows) = FolderPaths(folders, P)
      /\ PlacesPaths(Plain, rows, n, fs) = FilePaths(Plain, packFiles, P)
      /\ PackApart(Plain, rows, n, fs)
  <2>1. Plain \in [Name -> Name]
    BY Readings
  <2>. QED
    BY <1>1, <1>2, <1>3, <2>1, BuiltPaths
<1>5. Honest(RowsPaths(Plain, rows), PlacesPaths(Plain, rows, n, fs))
  BY <1>2, <1>4 DEF Honest
<1>6. Honest(RowsPaths(Plain, rows), PlacesPaths(Plain, rows, n, fs))'
  BY <1>5 DEF Honest, BuildPack
<1>. QED
  BY <1>1, <1>3, <1>4, <1>6 DEF Importing

LEMMA BuildsLegacy ==
  ASSUME Merged, Buildable, BuildPack, source = "legacy"
  PROVE  Importing'
<1>1. PICK Q : Folded(Q)
  BY DEF Merged
<1>2. ListShape(folders, packFiles)
  BY DEF Merged
<1>3. PICK rows, n, fs : /\ rows = FolderRows /\ n = Len(PartFiles) /\ fs = BuiltFiles
                         /\ PackShape(rows, n, fs) /\ Pack(rows, n, fs)'
  BY <1>2, Builds
<1>4. /\ RowsPaths(Fold, rows) = FolderPaths(folders, Q)
      /\ PlacesPaths(Fold, rows, n, fs) = FilePaths(Fold, packFiles, Q)
  <2>1. Fold \in [Name -> Letter] /\ Tree(Fold, folders, Q)
    BY <1>1, Readings DEF Folded
  <2>. QED
    BY <1>2, <1>3, <2>1, BuiltPaths
<1>5. /\ RowsPaths(Fold, rows) = Lowered(RowsPaths(Plain, rows))
      /\ PlacesPaths(Fold, rows, n, fs) = Lowered(PlacesPaths(Plain, rows, n, fs))
  BY <1>3, PackReads
<1>6. disk' = disk /\ source' = source /\ source' # "walk"
  BY DEF BuildPack
<1>7. Honest(RowsPaths(Plain, rows), PlacesPaths(Plain, rows, n, fs))'
  BY <1>1, <1>4, <1>5, <1>6 DEF Honest, Folded
<1>. QED
  BY <1>3, <1>6, <1>7 DEF Importing

LEMMA BuildsBackup ==
  ASSUME Exported, BuildPack
  PROVE  Buildable /\ Restoring'
<1>1. /\ ListShape(folders, packFiles) /\ Buildable
  BY ClosedBuilds DEF Exported
<1>2. PICK P, Q : /\ Tree(Plain, folders, P)
                  /\ Honest(FolderPaths(folders, P), FilePaths(Plain, packFiles, P))
                  /\ Tree(Fold, folders, Q) /\ Apart(Fold, folders, packFiles, Q)
  BY DEF Exported
<1>3. PICK rows, n, fs : /\ rows = FolderRows /\ n = Len(PartFiles) /\ fs = BuiltFiles
                         /\ PackShape(rows, n, fs) /\ Pack(rows, n, fs)'
  BY <1>1, Builds
<1>4. /\ RowsPaths(Plain, rows) = FolderPaths(folders, P)
      /\ PlacesPaths(Plain, rows, n, fs) = FilePaths(Plain, packFiles, P)
  <2>1. Plain \in [Name -> Name]
    BY Readings
  <2>. QED
    BY <1>1, <1>2, <1>3, <2>1, BuiltPaths
<1>5. PackApart(Fold, rows, n, fs)
  <2>1. Fold \in [Name -> Letter]
    BY Readings
  <2>. QED
    BY <1>1, <1>2, <1>3, <2>1, BuiltPaths
<1>6. Honest(RowsPaths(Plain, rows), PlacesPaths(Plain, rows, n, fs))
  BY <1>2, <1>4
<1>7. Honest(RowsPaths(Plain, rows), PlacesPaths(Plain, rows, n, fs))'
  BY <1>6 DEF Honest, BuildPack
<1>. QED
  BY <1>1, <1>3, <1>5, <1>7 DEF Restoring

\* Importing a pack: its rows, or a scan that has two names but for their case.
LEMMA Imports ==
  ASSUME ImportPackParts, Importing
  PROVE  \/ /\ stage' = (IF stage = "import" THEN "browse" ELSE "done")
            /\ TableOK(table.folders, table.files)'
            /\ Honest(Paths(table.folders), Paths(table.files))'
         \/ /\ stage' = Failed /\ table' = table
            /\ source = "walk" => Clash(disk.folders) \/ Clash(disk.files)
<1>1. PICK rows, n, fs :
        /\ PackShape(rows, n, fs) /\ Pack(rows, n, fs)
        /\ Honest(RowsPaths(Plain, rows), PlacesPaths(Plain, rows, n, fs))
        /\ source = "walk" => PackApart(Plain, rows, n, fs)
  BY DEF Importing
<1>. DEFINE T == Range(Imported.folders)
            S == Range(Imported.files)
            once == Unique(Imported.folders) /\ Unique(Imported.files)
<1>2. /\ Paths(T) = RowsPaths(Plain, rows) /\ Paths(S) = PlacesPaths(Plain, rows, n, fs)
      /\ once => TableOK(T, S)
      /\ PackApart(Plain, rows, n, fs) /\ ~once
           => Clash(RowsPaths(Plain, rows)) \/ Clash(PlacesPaths(Plain, rows, n, fs))
  BY <1>1, ImportsPack
<1>3. CASE once
  <2>1. /\ table' = [folders |-> T, files |-> S] /\ disk' = disk /\ source' = source
        /\ stage' = (IF stage = "import" THEN "browse" ELSE "done")
    BY <1>3 DEF ImportPackParts
  <2>. HIDE DEF T, S
  <2>2. table'.folders = T /\ table'.files = S
    BY <2>1
  <2>3. TableOK(T, S) /\ Honest(Paths(T), Paths(S))
    BY <1>1, <1>2, <1>3 DEF T, S
  <2>4. Honest(Paths(table.folders), Paths(table.files))'
    BY <2>1, <2>2, <2>3 DEF Honest
  <2>. QED
    BY <2>1, <2>2, <2>3, <2>4
<1>4. CASE ~once
  <2>1. stage' = Failed /\ table' = table
    BY <1>4 DEF ImportPackParts
  <2>2. ASSUME source = "walk" PROVE Clash(disk.folders) \/ Clash(disk.files)
    <3>1. disk = [folders |-> RowsPaths(Plain, rows), files |-> PlacesPaths(Plain, rows, n, fs)]
      BY <1>1, <2>2 DEF Honest
    <3>2. disk.folders = RowsPaths(Plain, rows) /\ disk.files = PlacesPaths(Plain, rows, n, fs)
      BY <3>1
    <3>. QED
      BY <1>1, <1>2, <1>4, <2>2, <3>2
  <2>. QED
    BY <2>1, <2>2
<1>. QED
  BY <1>3, <1>4

\* A backup restores.
LEMMA Restores ==
  ASSUME ImportPackParts, stage = "restore", Restoring
  PROVE  /\ stage' = "done"
         /\ TableOK(table.folders, table.files)'
         /\ Honest(Paths(table.folders), Paths(table.files))'
<1>1. PICK rows, n, fs :
        /\ PackShape(rows, n, fs) /\ Pack(rows, n, fs)
        /\ Honest(RowsPaths(Plain, rows), PlacesPaths(Plain, rows, n, fs))
        /\ PackApart(Fold, rows, n, fs)
  BY DEF Restoring
<1>. DEFINE T == Range(Imported.folders)
            S == Range(Imported.files)
            once == Unique(Imported.folders) /\ Unique(Imported.files)
<1>2. /\ Paths(T) = RowsPaths(Plain, rows) /\ Paths(S) = PlacesPaths(Plain, rows, n, fs)
      /\ once <=> PackApart(Fold, rows, n, fs)
      /\ once => TableOK(T, S)
  BY <1>1, ImportsPack
<1>3. once
  BY <1>1, <1>2
<1>4. /\ table' = [folders |-> T, files |-> S] /\ disk' = disk /\ source' = source
      /\ stage' = "done"
  BY <1>3 DEF ImportPackParts
<1>. HIDE DEF T, S
<1>5. table'.folders = T /\ table'.files = S
  BY <1>4
<1>6. TableOK(T, S) /\ Honest(Paths(T), Paths(S))
  BY <1>1, <1>2, <1>3 DEF T, S
<1>7. Honest(Paths(table.folders), Paths(table.files))'
  BY <1>4, <1>5, <1>6 DEF Honest
<1>. QED
  BY <1>4, <1>5, <1>6, <1>7

LEMMA CatalogKeeps ==
  ASSUME CatalogInv, CatalogNext
  PROVE  CatalogInv'
<1>0. source \in {"walk", "legacy"} /\ source' = source
  BY DEF CatalogInv, CatalogNext, WalkFolder, WalkFile, WalkUp, LegacyRows, Dedupe, BuildPack,
         ImportPackParts, ExportArchive
<1>1. ASSUME NEW name \in Name, WalkFolder(name) PROVE CatalogInv'
  <2>1. /\ stage = "walk" /\ stage' = "walk" /\ source = "walk"
        /\ table = NoRows /\ table' = table /\ parts' = parts
    BY <1>1 DEF WalkFolder, CatalogInv
  <2>2. Walking'
    BY <1>1, <2>1, WalksFolder DEF CatalogInv
  <2>3. parts = <<>> \/ Packed => (parts = <<>> \/ Packed)'
    BY <2>1 DEF Packed, Pack
  <2>. QED
    BY <1>0, <2>1, <2>2, <2>3 DEF CatalogInv, Failed
<1>2. ASSUME NEW name \in Name, WalkFile(name) PROVE CatalogInv'
  <2>1. /\ stage = "walk" /\ stage' = "walk" /\ source = "walk"
        /\ table = NoRows /\ table' = table /\ parts' = parts
    BY <1>2 DEF WalkFile, CatalogInv
  <2>2. Walking'
    BY <1>2, <2>1, WalksFile DEF CatalogInv
  <2>3. parts = <<>> \/ Packed => (parts = <<>> \/ Packed)'
    BY <2>1 DEF Packed, Pack
  <2>. QED
    BY <1>0, <2>1, <2>2, <2>3 DEF CatalogInv, Failed
<1>3. ASSUME WalkUp PROVE CatalogInv'
  <2>1. /\ stage = "walk" /\ source = "walk" /\ Walking
        /\ table = NoRows /\ table' = table /\ parts' = parts
        /\ UNCHANGED <<disk, folders, packFiles>>
    BY <1>3 DEF WalkUp, CatalogInv
  <2>2. parts = <<>> \/ Packed => (parts = <<>> \/ Packed)'
    BY <2>1 DEF Packed, Pack
  <2>3. CASE at = <<>>
    <3>1. stage' = "build"
      BY <1>3, <2>3 DEF WalkUp
    <3>2. Scanned
      BY <2>1, WalkScanned
    <3>3. Scanned'
      BY <2>1, <3>2 DEF Scanned
    <3>. QED
      BY <1>0, <2>1, <2>2, <3>1, <3>3 DEF CatalogInv, Failed
  <2>4. CASE at # <<>>
    <3>1. stage' = "walk"
      BY <1>3, <2>1, <2>4 DEF WalkUp
    <3>2. Walking'
      BY <1>3, <2>1, <2>4, WalksUp
    <3>. QED
      BY <1>0, <2>1, <2>2, <3>1, <3>2 DEF CatalogInv, Failed
  <2>. QED
    BY <2>3, <2>4
<1>4. ASSUME LegacyRows PROVE CatalogInv'
  <2>1. /\ stage = "legacy" /\ stage' = "dedupe" /\ source = "legacy"
        /\ table = NoRows /\ table' = table /\ parts' = parts
    BY <1>4 DEF LegacyRows, CatalogInv
  <2>2. OldRows'
    BY <1>4, ReadsOldRows
  <2>3. parts = <<>> \/ Packed => (parts = <<>> \/ Packed)'
    BY <2>1 DEF Packed, Pack
  <2>. QED
    BY <1>0, <2>1, <2>2, <2>3 DEF CatalogInv, Failed
<1>5. ASSUME Dedupe PROVE CatalogInv'
  <2>1. /\ stage = "dedupe" /\ stage' = "build" /\ source = "legacy"
        /\ table = NoRows /\ table' = table /\ parts' = parts
    BY <1>5 DEF Dedupe, CatalogInv
  <2>2. Merged'
    BY <1>5, <2>1, Merges DEF CatalogInv
  <2>3. parts = <<>> \/ Packed => (parts = <<>> \/ Packed)'
    BY <2>1 DEF Packed, Pack
  <2>. QED
    BY <1>0, <2>1, <2>2, <2>3 DEF CatalogInv, Failed
<1>6. ASSUME BuildPack, stage = "build" PROVE CatalogInv'
  <2>1. table = NoRows /\ table' = table
    BY <1>6 DEF BuildPack, CatalogInv
  <2>2. CASE Buildable
    <3>1. stage' = "import"
      BY <1>6, <2>2 DEF BuildPack
    <3>2. Importing'
      <4>1. CASE source = "walk"
        BY <1>6, <4>1, BuildsScan DEF CatalogInv
      <4>2. CASE source = "legacy"
        BY <1>6, <2>2, <4>2, BuildsLegacy DEF CatalogInv
      <4>. QED
        BY <1>0, <4>1, <4>2
    <3>3. Packed'
      BY <3>2 DEF Importing, Packed
    <3>. QED
      BY <1>0, <2>1, <3>1, <3>2, <3>3 DEF CatalogInv, Failed
  <2>3. CASE ~Buildable
    <3>1. stage' = Failed /\ parts' = parts
      BY <2>3, <1>6 DEF BuildPack
    <3>2. source = "legacy"
      BY <1>0, <1>6, <2>3, BuildsScan DEF CatalogInv
    <3>3. parts = <<>> \/ Packed => (parts = <<>> \/ Packed)'
      BY <3>1 DEF Packed, Pack
    <3>. QED
      BY <1>0, <2>1, <3>1, <3>2, <3>3 DEF CatalogInv, Failed
  <2>. QED
    BY <2>2, <2>3
<1>7. ASSUME BuildPack, stage = "backup" PROVE CatalogInv'
  <2>1. TableOK(table.folders, table.files) /\ table' = table
    BY <1>7 DEF BuildPack, CatalogInv
  <2>2. Buildable /\ Restoring'
    BY <1>7, BuildsBackup DEF CatalogInv
  <2>3. stage' = "restore"
    BY <1>7, <2>2 DEF BuildPack
  <2>4. Packed'
    BY <2>2 DEF Restoring, Packed
  <2>. QED
    BY <1>0, <2>1, <2>2, <2>3, <2>4 DEF CatalogInv, Failed
<1>8. ASSUME ImportPackParts, stage = "import" PROVE CatalogInv'
  <2>1. Importing /\ table = NoRows /\ parts' = parts /\ disk' = disk
    BY <1>8 DEF ImportPackParts, CatalogInv
  <2>2. parts = <<>> \/ Packed => (parts = <<>> \/ Packed)'
    BY <2>1 DEF Packed, Pack
  <2>3. \/ /\ stage' = "browse"
           /\ TableOK(table.folders, table.files)'
           /\ Honest(Paths(table.folders), Paths(table.files))'
        \/ /\ stage' = Failed /\ table' = table
           /\ source = "walk" => Clash(disk.folders) \/ Clash(disk.files)
    BY <1>8, <2>1, Imports
  <2>. QED
    BY <1>0, <2>1, <2>2, <2>3 DEF CatalogInv, Failed
<1>9. ASSUME ImportPackParts, stage = "restore" PROVE CatalogInv'
  <2>1. Restoring /\ parts' = parts
    BY <1>9 DEF ImportPackParts, CatalogInv
  <2>2. parts = <<>> \/ Packed => (parts = <<>> \/ Packed)'
    BY <2>1 DEF Packed, Pack
  <2>3. /\ stage' = "done"
        /\ TableOK(table.folders, table.files)'
        /\ Honest(Paths(table.folders), Paths(table.files))'
    BY <1>9, <2>1, Restores
  <2>. QED
    BY <1>0, <2>1, <2>2, <2>3 DEF CatalogInv, Failed
<1>10. ASSUME ExportArchive PROVE CatalogInv'
  <2>1. /\ stage = "browse" /\ stage' = "backup" /\ parts' = <<>> /\ table' = table
        /\ TableOK(table.folders, table.files)
    BY <1>10 DEF ExportArchive, CatalogInv
  <2>2. Exported'
    BY <1>10, <2>1, Exports DEF CatalogInv
  <2>. QED
    BY <1>0, <2>1, <2>2 DEF CatalogInv, Failed
<1>11. ASSUME BuildPack PROVE stage \in {"build", "backup"}
  BY <1>11 DEF BuildPack
<1>12. ASSUME ImportPackParts PROVE stage \in {"import", "restore"}
  BY <1>12 DEF ImportPackParts
<1>. QED
  BY <1>1, <1>2, <1>3, <1>4, <1>5, <1>6, <1>7, <1>8, <1>9, <1>10, <1>11, <1>12 DEF CatalogNext

LEMMA CatalogStutters ==
  ASSUME CatalogInv, UNCHANGED catalogVars
  PROVE  CatalogInv'
<1>1. UNCHANGED <<source, stage, disk, at, folders, packFiles, parts, table>>
  BY DEF catalogVars
<1>2. Walking => Walking'
  <2>1. \A P : Walked(P) => Walked(P)'
    BY <1>1 DEF Walked
  <2>2. WalkShape => WalkShape'
    BY <1>1 DEF WalkShape
  <2>. QED
    BY <2>1, <2>2 DEF Walking
<1>3. Scanned => Scanned'
  BY <1>1 DEF Scanned
<1>4. OldRows => OldRows'
  BY <1>1 DEF OldRows, Folded
<1>5. Merged => Merged'
  BY <1>1 DEF Merged, Folded
<1>6. Exported => Exported'
  BY <1>1 DEF Exported, Honest
<1>7. Importing => Importing'
  BY <1>1 DEF Importing, Pack, Honest
<1>8. Restoring => Restoring'
  BY <1>1 DEF Restoring, Pack, Honest
<1>9. /\ Packed => Packed'
      /\ Honest(Paths(table.folders), Paths(table.files))
           => Honest(Paths(table.folders), Paths(table.files))'
  BY <1>1 DEF Packed, Pack, Honest
<1>. QED
  BY <1>1, <1>2, <1>3, <1>4, <1>5, <1>6, <1>7, <1>8, <1>9 DEF CatalogInv

\* The invariant gives the types and the promise.
LEMMA CatalogHolds ==
  ASSUME CatalogInv
  PROVE  CatalogTypeOK /\ TreeKept
<1>1. /\ \A i \in DOMAIN parts : parts[i].part = i /\ parts[i].parts = Len(parts)
      /\ \A p, q \in DOMAIN parts : p # q =>
           {f.folder : f \in Range(parts[p].files)} \cap {f.folder : f \in Range(parts[q].files)} = {}
  <2>1. CASE parts = <<>>
    BY <2>1
  <2>2. CASE Packed
    BY <2>2, PackParts DEF Packed
  <2>. QED
    BY <2>1, <2>2 DEF CatalogInv
<1>2. /\ \A f \in table.folders : f.id \in 1..MaxFolders /\ f.parent \in 0..f.id - 1
      /\ \A f \in table.files : f.folder \in {Root} \cup {g.id : g \in table.folders}
  <2>1. CASE table = NoRows
    BY <2>1 DEF NoRows
  <2>2. CASE TableOK(table.folders, table.files)
    BY <2>2 DEF TableOK, RowIds
  <2>. QED
    BY <2>1, <2>2 DEF CatalogInv
<1>3. CatalogTypeOK
  BY <1>1, <1>2 DEF CatalogInv, CatalogTypeOK
<1>4. ASSUME stage \in {"browse", "done"}
      PROVE  /\ Lowered(Paths(table.folders)) = Lowered(disk.folders)
             /\ Lowered(Paths(table.files)) = Lowered(disk.files)
             /\ source = "walk" => disk = [folders |-> Paths(table.folders), files |-> Paths(table.files)]
             /\ {x.row : x \in Browsed} = table.folders \cup table.files
             /\ \A x \in Browsed : x.clicked = x.row.path
  <2>1. TableOK(table.folders, table.files) /\ Honest(Paths(table.folders), Paths(table.files))
    BY <1>4 DEF CatalogInv
  <2>2. /\ {x.row : x \in Browsed} = table.folders \cup table.files
        /\ \A x \in Browsed : x.clicked = x.row.path
    BY <2>1, BrowsedAre
  <2>. QED
    BY <2>1, <2>2 DEF Honest
<1>5. stage = Failed => /\ table = NoRows
                        /\ source = "walk" => Clash(disk.folders) \/ Clash(disk.files)
  BY DEF CatalogInv
<1>. QED
  BY <1>1, <1>3, <1>4, <1>5 DEF TreeKept

\* The rows of a disc and the parts of its pack have their types (Catalog).
THEOREM CatalogTyped == CatalogSpec => []CatalogTypeOK
<1>1. CatalogInv /\ [CatalogNext]_catalogVars => CatalogInv'
  BY CatalogKeeps, CatalogStutters
<1>. QED
  BY <1>1, CatalogStarts, CatalogHolds, PTL DEF CatalogSpec

\* From the walk or the old database to the explorer and back from a backup a disc keeps its tree,
\* and only a scan with two names that differ in case is refused.
THEOREM TreesKept == CatalogSpec => []TreeKept
<1>1. CatalogInv /\ [CatalogNext]_catalogVars => CatalogInv'
  BY CatalogKeeps, CatalogStutters
<1>. QED
  BY <1>1, CatalogStarts, CatalogHolds, PTL DEF CatalogSpec
=============================================================================
