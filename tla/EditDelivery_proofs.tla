------------------------- MODULE EditDelivery_proofs -------------------------
(***************************************************************************)
(* The row channel implements EditDelivery: the steps of devices, network  *)
(* and vault, seen through the queues of waiting edits and the change log, *)
(* are steps of that specification.  A queue is in the order of its ids,   *)
(* so it is known by the edits in it: this is how every change of an       *)
(* outbox is followed.  Then what it means for a device: one that has      *)
(* nothing to send shows what the vault has.                               *)
(***************************************************************************)
EXTENDS RowSync_proofs
----------------------------------------------------------------------------
(***************************************************************************)
(* Lists in the order of their ids.                                        *)
(***************************************************************************)
Edit == [id: EntryId, row: Row, op: {"upsert", "delete"}]

Ordered(s) == \A k, l \in DOMAIN s : k < l => s[k].id < s[l].id

\* s lists the edits S in the order of their ids.
Lists(s, S) == s \in Seq(Edit) /\ Ordered(s) /\ {s[k] : k \in DOMAIN s} = S

\* An id is a number.
LEMMA IdsAreNumbers == EntryId \subseteq Nat /\ \A e \in Edit : e.id \in Nat
BY SyncAssumption DEF Edit

\* Two lists of the same edits do not differ at a place before which they are the same.
LEMMA SamePlace ==
  ASSUME NEW S, NEW s, NEW t, Lists(s, S), Lists(t, S), NEW k \in DOMAIN s,
         \A j \in Nat \ {0} : j < k => j \in DOMAIN t /\ s[j] = t[j]
  PROVE  k \in DOMAIN t /\ t[k].id <= s[k].id
<1>1. /\ s \in Seq(Edit) /\ t \in Seq(Edit)
      /\ DOMAIN s = 1..Len(s) /\ DOMAIN t = 1..Len(t) /\ Len(s) \in Nat /\ Len(t) \in Nat
  BY DEF Lists
<1>2. PICK m \in DOMAIN t : t[m] = s[k]
  BY DEF Lists
<1>3. k \in Nat \ {0} /\ m \in Nat \ {0} /\ s[k].id \in Nat /\ t[m].id \in Nat
  BY <1>1, IdsAreNumbers
<1>4. ~(m < k)
  <2>1. SUFFICES ASSUME m < k PROVE FALSE
    OBVIOUS
  <2>2. s[m] = s[k] /\ m \in DOMAIN s
    BY <1>1, <1>2, <1>3, <2>1
  <2>3. s[m].id < s[k].id
    BY <2>1, <2>2 DEF Lists, Ordered
  <2>. QED
    BY <1>3, <2>2, <2>3
<1>5. k \in DOMAIN t
  BY <1>1, <1>3, <1>4
<1>6. t[k].id \in Nat
  BY <1>1, <1>5, IdsAreNumbers
<1>7. m = k \/ t[k].id < t[m].id
  BY <1>3, <1>4, <1>5 DEF Lists, Ordered
<1>. QED
  BY <1>2, <1>3, <1>5, <1>6, <1>7

\* A list is known by the edits in it: consider the first place where two of them differ.
LEMMA SameList ==
  ASSUME NEW S, NEW s, NEW t, Lists(s, S), Lists(t, S)
  PROVE  s = t
<1>1. /\ s \in Seq(Edit) /\ t \in Seq(Edit)
      /\ DOMAIN s = 1..Len(s) /\ DOMAIN t = 1..Len(t) /\ Len(s) \in Nat /\ Len(t) \in Nat
  BY DEF Lists
<1>. DEFINE same(k) == k \in DOMAIN s /\ k \in DOMAIN t /\ s[k] = t[k]
            T == {k \in DOMAIN s \cup DOMAIN t : ~same(k)}
<1>2. SUFFICES ASSUME T # {} PROVE FALSE
  <2>1. T = {} => DOMAIN s = DOMAIN t /\ \A k \in DOMAIN s : s[k] = t[k]
    OBVIOUS
  <2>2. s = [k \in DOMAIN s |-> s[k]] /\ t = [k \in DOMAIN t |-> t[k]]
    BY <1>1
  <2>. HIDE DEF T
  <2>3. T = {} => [k \in DOMAIN s |-> s[k]] = [k \in DOMAIN t |-> t[k]]
    BY <2>1
  <2>. QED
    BY <2>2, <2>3
<1>3. T \subseteq Nat \ {0}
  BY <1>1
<1>4. PICK k \in T : \A j \in T : k <= j
  <2>. HIDE DEF T
  <2>. QED
    BY <1>2, <1>3, LeastNat
<1>5. k \in Nat \ {0}
  BY <1>3, <1>4
<1>6. \A j \in Nat \ {0} : j < k => same(j)
  <2>1. SUFFICES ASSUME NEW j \in Nat \ {0}, j < k PROVE same(j)
    OBVIOUS
  <2>2. j \in DOMAIN s \cup DOMAIN t
    BY <1>1, <1>4, <1>5, <2>1
  <2>3. j \notin T
    BY <1>4, <1>5, <2>1
  <2>. QED
    BY <2>2, <2>3
<1>7. k \in DOMAIN s => k \in DOMAIN t /\ t[k].id <= s[k].id
  BY <1>6, SamePlace
<1>8. k \in DOMAIN t => k \in DOMAIN s /\ s[k].id <= t[k].id
  BY <1>6, SamePlace
<1>9. k \in DOMAIN s /\ k \in DOMAIN t
  BY <1>4, <1>7, <1>8
<1>10. s[k].id \in Nat /\ t[k].id \in Nat
  BY <1>1, <1>9, IdsAreNumbers
<1>11. s[k].id = t[k].id
  BY <1>7, <1>8, <1>9, <1>10
<1>12. PICK m \in DOMAIN t : t[m] = s[k]
  BY <1>9 DEF Lists
<1>13. m = k
  <2>1. m \in Nat /\ k \in Nat
    BY <1>1, <1>5
  <2>2. ~(m < k) /\ ~(k < m)
    BY <1>9, <1>10, <1>11, <1>12 DEF Lists, Ordered
  <2>. QED
    BY <2>1, <2>2
<1>14. s[k] = t[k]
  BY <1>12, <1>13
<1>. QED
  BY <1>4, <1>9, <1>14

\* What is kept of a list is a list.
LEMMA KeptLists ==
  ASSUME NEW S, NEW s, Lists(s, S), NEW Out
  PROVE  Lists(Kept(s, {n \in DOMAIN s : s[n] \notin Out}), S \ Out)
<1>. DEFINE I == {n \in DOMAIN s : s[n] \notin Out}
            c == Cardinality(I)
            t == Kept(s, I)
<1>1. s \in Seq(Edit) /\ Ordered(s) /\ {s[k] : k \in DOMAIN s} = S
  BY DEF Lists
<1>2. I \subseteq DOMAIN s
  OBVIOUS
<1>3. PICK at \in [1..c -> I] :
        /\ \A i \in I : \E k \in 1..c : at[k] = i
        /\ \A k, l \in 1..c : k < l => at[k] < at[l]
        /\ t = [k \in 1..c |-> s[at[k]]]
        /\ t \in Seq(Edit)
  <2>. HIDE DEF I
  <2>. QED
    BY <1>1, <1>2, KeptOf
<1>4. \A k \in 1..c : at[k] \in I /\ at[k] \in DOMAIN s
  BY <1>2, <1>3
<1>. HIDE DEF c, t
<1>5. DOMAIN t = 1..c /\ \A k \in 1..c : t[k] = s[at[k]]
  BY <1>3
<1>6. Ordered(t)
  BY <1>1, <1>3, <1>4, <1>5 DEF Ordered
<1>7. {t[k] : k \in DOMAIN t} = S \ Out
  <2>1. ASSUME NEW k \in DOMAIN t PROVE t[k] \in S \ Out
    BY <1>1, <1>4, <1>5
  <2>2. ASSUME NEW e \in S \ Out PROVE \E k \in DOMAIN t : t[k] = e
    <3>1. PICK n \in DOMAIN s : s[n] = e
      BY <1>1
    <3>2. n \in I
      BY <3>1
    <3>. QED
      BY <1>3, <1>5, <3>1, <3>2
  <2>. QED
    BY <2>1, <2>2
<1>. QED
  BY <1>3, <1>6, <1>7 DEF Lists, t

\* A list followed by one of greater ids is a list.
LEMMA JoinedLists ==
  ASSUME NEW S, NEW s, Lists(s, S), NEW U, NEW u, Lists(u, U),
         \A e \in S, f \in U : e.id < f.id
  PROVE  Lists(s \o u, S \cup U)
<1>1. /\ s \in Seq(Edit) /\ Ordered(s) /\ {s[k] : k \in DOMAIN s} = S
      /\ u \in Seq(Edit) /\ Ordered(u) /\ {u[k] : k \in DOMAIN u} = U
  BY DEF Lists
<1>. DEFINE t == s \o u
<1>2. /\ t \in Seq(Edit) /\ Len(s) \in Nat /\ Len(u) \in Nat
      /\ DOMAIN s = 1..Len(s) /\ DOMAIN u = 1..Len(u) /\ DOMAIN t = 1..(Len(s) + Len(u))
      /\ \A k \in 1..Len(s) : t[k] = s[k]
      /\ \A k \in 1..Len(u) : t[Len(s) + k] = u[k]
      /\ \A k \in DOMAIN t : k \in 1..Len(s) \/ (k - Len(s) \in 1..Len(u) /\ t[k] = u[k - Len(s)])
  BY <1>1
<1>. HIDE DEF t
<1>3. Ordered(t)
  <2>1. SUFFICES ASSUME NEW k \in DOMAIN t, NEW l \in DOMAIN t, k < l PROVE t[k].id < t[l].id
    BY DEF Ordered
  <2>2. k \in Nat /\ l \in Nat
    BY <1>2
  <2>3. CASE k \in 1..Len(s) /\ l \in 1..Len(s)
    BY <1>1, <1>2, <2>1, <2>3 DEF Ordered
  <2>4. CASE k \in 1..Len(s) /\ l \notin 1..Len(s)
    <3>1. t[k] \in S /\ t[l] \in U
      BY <1>1, <1>2, <2>4
    <3>. QED
      BY <3>1
  <2>5. CASE k \notin 1..Len(s)
    <3>1. l \notin 1..Len(s)
      BY <1>2, <2>1, <2>2, <2>5
    <3>2. /\ k - Len(s) \in DOMAIN u /\ t[k] = u[k - Len(s)]
          /\ l - Len(s) \in DOMAIN u /\ t[l] = u[l - Len(s)]
          /\ k - Len(s) < l - Len(s)
      BY <1>2, <2>1, <2>2, <2>5, <3>1
    <3>. QED
      BY <1>1, <3>2 DEF Ordered
  <2>. QED
    BY <2>3, <2>4, <2>5
<1>4. {t[k] : k \in DOMAIN t} = S \cup U
  <2>1. ASSUME NEW k \in DOMAIN t PROVE t[k] \in S \cup U
    BY <1>1, <1>2
  <2>2. ASSUME NEW e \in S PROVE \E k \in DOMAIN t : t[k] = e
    BY <1>1, <1>2
  <2>3. ASSUME NEW e \in U PROVE \E k \in DOMAIN t : t[k] = e
    <3>1. PICK n \in 1..Len(u) : u[n] = e
      BY <1>1, <1>2
    <3>2. Len(s) + n \in DOMAIN t
      BY <1>2
    <3>. QED
      BY <1>2, <3>1, <3>2
  <2>. QED
    BY <2>1, <2>2, <2>3
<1>. QED
  BY <1>2, <1>3, <1>4 DEF Lists, t

\* What was appended is what follows.
LEMMA JoinedTail ==
  ASSUME NEW T, NEW s \in Seq(T), NEW u \in Seq(T)
  PROVE  u = SubSeq(s \o u, Len(s) + 1, Len(s \o u))
<1>. DEFINE t == SubSeq(s \o u, Len(s) + 1, Len(s \o u))
<1>1. s \o u \in Seq(T) /\ Len(s \o u) = Len(s) + Len(u) /\ Len(s) \in Nat /\ Len(u) \in Nat
      /\ \A k \in 1..Len(u) : (s \o u)[Len(s) + k] = u[k]
  OBVIOUS
<1>2. t \in Seq(T) /\ Len(t) = Len(u)
  BY <1>1
<1>3. \A k \in 1..Len(u) : t[k] = u[k]
  BY <1>1
<1>. HIDE DEF t
<1>. QED
  BY <1>2, <1>3 DEF t
----------------------------------------------------------------------------
(***************************************************************************)
(* The mapping, in the terms of PushInv.                                   *)
(***************************************************************************)
\* The edits that wait at d, and those of a queue that come first of their row.
Waiting(d) == {AsEdit(made[i]) : i \in {j \in DOMAIN made : Waits(d, j)}}
FirstsOf(q) == {q[n] : n \in {k \in DOMAIN q : \A i \in 1..(k - 1) : q[i].row # q[k].row}}

\* The queue of a device lists the edits that wait there.
Listed == \A d \in Device : Lists(Queues[d], Waiting(d))

\* A discarded edit was made, and a request carries what waits at its own device.
Owners ==
  /\ dropped \subseteq DOMAIN made
  /\ \A c, d \in Device : \A i : Flies(c, i) /\ Waits(d, i) => c = d

\* An edit waits or is set aside.
Single == \A d \in Device : \A i : ~(Waits(d, i) /\ Blocked(d, i))

Ready == SyncTyped /\ PushInv /\ Owners /\ Listed /\ Single

\* An edit that is in an outbox waits there or is set aside.
LEMMA HeldIs ==
  /\ \A i : i \in Queued <=> \E d \in Device : Waits(d, i) \/ Blocked(d, i)
  /\ \A i : i \in Refusals <=> \E d \in Device : Blocked(d, i)
<1>1. \A i : i \in Queued <=> \E d \in Device : Waits(d, i) \/ Blocked(d, i)
  BY DEF Queued, Entries, Waits, Blocked
<1>2. \A i : i \in Refusals <=> \E d \in Device : Blocked(d, i)
  BY DEF Refusals, Entries, Blocked
<1>. QED
  BY <1>1, <1>2

\* After a step as before it.
LEMMA HeldIsNext ==
  /\ \A i : i \in Queued' <=> \E d \in Device : Waits(d, i)' \/ Blocked(d, i)'
  /\ \A i : i \in Refusals' <=> \E d \in Device : Blocked(d, i)'
<1>1. \A i : i \in Queued' <=> \E d \in Device : Waits(d, i)' \/ Blocked(d, i)'
  BY DEF Queued, Entries, Waits, Blocked
<1>2. \A i : i \in Refusals' <=> \E d \in Device : Blocked(d, i)'
  BY DEF Refusals, Entries, Blocked
<1>. QED
  BY <1>1, <1>2

\* An edit is known by its id.
LEMMA EditsOf ==
  ASSUME SyncTyped, Recorded
  PROVE  \A i \in DOMAIN made :
           LET e == AsEdit(made[i])
           IN e \in Edit /\ e.id = i /\ e.row = made[i].row /\ e.op = made[i].op
<1>1. \A i \in DOMAIN made : made[i] \in OutboxRow /\ made[i].id = i
  BY MadeTyped DEF Recorded, Consistent
<1>. QED
  BY <1>1 DEF AsEdit, Edit, OutboxRow

\* An edit is in one place of one outbox.
LEMMA OnePlace ==
  ASSUME SyncTyped, PushInv, NEW i
  PROVE  /\ \A d \in Device : ~(Waits(d, i) /\ Blocked(d, i))
         /\ \A c, d \in Device : /\ Waits(c, i) \/ Blocked(c, i)
                                 /\ Waits(d, i) \/ Blocked(d, i)
                                 => c = d
         /\ \A d \in Device : Waits(d, i) \/ Blocked(d, i) => i \in DOMAIN made
<1>1. BoxesOrdered /\ Consistent
  BY DEF PushInv, Delivering, Recorded
<1>2. ASSUME NEW d \in Device, NEW m \in DOMAIN outbox[d], NEW n \in DOMAIN outbox[d],
             outbox[d][m].id = outbox[d][n].id
      PROVE  m = n
  <2>1. outbox[d] \in Seq(OutboxRow)
    BY DEF SyncTyped
  <2>2. m \in Nat /\ n \in Nat /\ outbox[d][m] \in OutboxRow /\ outbox[d][n] \in OutboxRow
    BY <2>1
  <2>3. outbox[d][m].id \in Nat /\ outbox[d][n].id \in Nat
    BY <2>2, SyncAssumption DEF OutboxRow
  <2>4. ~(m < n) /\ ~(n < m)
    BY <1>1, <1>2, <2>3 DEF BoxesOrdered
  <2>. QED
    BY <2>2, <2>4
<1>3. \A d \in Device : ~(Waits(d, i) /\ Blocked(d, i))
  BY <1>2 DEF Waits, Blocked
<1>4. \A c, d \in Device : /\ Waits(c, i) \/ Blocked(c, i)
                           /\ Waits(d, i) \/ Blocked(d, i)
                           => c = d
  BY <1>1 DEF BoxesOrdered, Waits, Blocked
<1>5. \A d \in Device : Waits(d, i) \/ Blocked(d, i) => i \in DOMAIN made
  BY <1>1 DEF Consistent, Known, Waits, Blocked
<1>. QED
  BY <1>3, <1>4, <1>5

\* The queue of a device lists the edits that wait there.
LEMMA QueuesListed == SyncTyped /\ PushInv => Listed
<1>. SUFFICES ASSUME SyncTyped, PushInv, NEW d \in Device
              PROVE  Lists(Queues[d], Waiting(d))
  BY DEF Listed
<1>. DEFINE box == outbox[d]
            I == {n \in DOMAIN box : ~box[n].blocked}
            c == Cardinality(I)
            p == Pending(d)
            q == Queues[d]
<1>1. /\ box \in Seq(OutboxRow) /\ \A n \in DOMAIN box : box[n] \in OutboxRow
      /\ Recorded /\ Consistent /\ BoxesOrdered
  BY DEF SyncTyped, PushInv, Recorded, Delivering
<1>2. PICK at \in [1..c -> I] :
        /\ \A i \in I : \E k \in 1..c : at[k] = i
        /\ \A k, l \in 1..c : k < l => at[k] < at[l]
        /\ p = [k \in 1..c |-> box[at[k]]]
        /\ c \in Nat
  <2>1. I \subseteq DOMAIN box
    OBVIOUS
  <2>2. p = Kept(box, I)
    BY DEF Pending, PendingOf
  <2>. HIDE DEF I, p, box
  <2>3. /\ Cardinality(I) \in Nat
        /\ \E at \in [1..Cardinality(I) -> I] :
          /\ \A i \in I : \E k \in 1..Cardinality(I) : at[k] = i
          /\ \A k, l \in 1..Cardinality(I) : k < l => at[k] < at[l]
          /\ Kept(box, I) = [k \in 1..Cardinality(I) |-> box[at[k]]]
          /\ Kept(box, I) \in Seq(OutboxRow)
          /\ Len(Kept(box, I)) = Cardinality(I)
    BY <1>1, <2>1, KeptOf
  <2>. QED
    BY <2>2, <2>3
<1>3. \A k \in 1..c : at[k] \in I /\ at[k] \in DOMAIN box /\ ~box[at[k]].blocked
  BY <1>2
<1>4. q = [k \in 1..c |-> AsEdit(box[at[k]])]
  <2>. HIDE DEF p
  <2>1. DOMAIN p = 1..c /\ \A k \in 1..c : p[k] = box[at[k]]
    BY <1>2
  <2>2. q = [k \in DOMAIN p |-> AsEdit(p[k])]
    BY DEF Queues, p
  <2>. HIDE DEF q, c, I, box
  <2>. QED
    BY <2>1, <2>2
<1>5. \A n \in DOMAIN box : /\ box[n].id \in DOMAIN made
                            /\ AsEdit(box[n]) = AsEdit(made[box[n].id])
                            /\ AsEdit(box[n]) \in Edit /\ AsEdit(box[n]).id = box[n].id
  <2>1. SUFFICES ASSUME NEW n \in DOMAIN box
                 PROVE  LET e == box[n] IN
                        /\ e.id \in DOMAIN made /\ AsEdit(e) = AsEdit(made[e.id])
                        /\ AsEdit(e) \in Edit /\ AsEdit(e).id = e.id
    OBVIOUS
  <2>. DEFINE e == box[n]
              m == made[e.id]
  <2>2. e.id \in DOMAIN made /\ m.row = e.row /\ m.op = e.op /\ e \in OutboxRow
    BY <1>1 DEF Consistent, Known
  <2>3. m.id = e.id
    BY <1>1, <2>2 DEF Consistent
  <2>. HIDE DEF e, m
  <2>4. AsEdit(e) = AsEdit(m) /\ AsEdit(e).id = e.id
    BY <2>2, <2>3 DEF AsEdit
  <2>5. AsEdit(e) \in Edit
    BY <2>2 DEF AsEdit, Edit, OutboxRow
  <2>. QED
    BY <2>2, <2>4, <2>5 DEF e, m
<1>. HIDE DEF p, q, c
<1>6. DOMAIN q = 1..c /\ \A k \in 1..c : q[k] = AsEdit(box[at[k]])
  BY <1>4
<1>7. q \in Seq(Edit)
  <2>1. \A k \in 1..c : AsEdit(box[at[k]]) \in Edit
    BY <1>3, <1>5
  <2>. QED
    BY <1>2, <1>4, <2>1
<1>8. Ordered(q)
  <2>1. SUFFICES ASSUME NEW k \in 1..c, NEW l \in 1..c, k < l PROVE q[k].id < q[l].id
    BY <1>6 DEF Ordered
  <2>2. at[k] < at[l]
    BY <1>2, <2>1
  <2>3. box[at[k]].id < box[at[l]].id
    BY <1>1, <1>3, <2>2 DEF BoxesOrdered
  <2>. QED
    BY <1>3, <1>5, <1>6, <2>3
<1>9. {q[k] : k \in DOMAIN q} = Waiting(d)
  <2>1. ASSUME NEW k \in DOMAIN q PROVE q[k] \in Waiting(d)
    <3>1. Waits(d, box[at[k]].id) /\ box[at[k]].id \in DOMAIN made
      BY <1>3, <1>5, <1>6 DEF Waits
    <3>. QED
      BY <1>3, <1>5, <1>6, <3>1 DEF Waiting
  <2>2. ASSUME NEW i \in DOMAIN made, Waits(d, i)
        PROVE  \E k \in DOMAIN q : q[k] = AsEdit(made[i])
    <3>1. PICK n \in DOMAIN box : box[n].id = i /\ ~box[n].blocked
      BY <2>2 DEF Waits
    <3>2. PICK k \in 1..c : at[k] = n
      BY <1>2, <3>1
    <3>. QED
      BY <1>5, <1>6, <3>1, <3>2
  <2>. QED
    BY <2>1, <2>2 DEF Waiting
<1>10. Lists(q, Waiting(d))
  BY <1>7, <1>8, <1>9 DEF Lists
<1>. QED
  BY <1>10 DEF q

\* After a step as before it.
LEMMA QueuesListedNext ==
  ASSUME Listed', NEW d \in Device
  PROVE  Lists(Queues'[d], Waiting(d)')
BY DEF Listed, Lists, Ordered

\* The first edits of a list are those of the least ids of their rows.
LEMMA FirstsAre ==
  ASSUME NEW S, NEW q, Lists(q, S)
  PROVE  FirstsOf(q) = {e \in S : \A x \in S : x.row = e.row => e.id <= x.id}
<1>1. /\ q \in Seq(Edit) /\ Ordered(q) /\ {q[k] : k \in DOMAIN q} = S
      /\ DOMAIN q = 1..Len(q) /\ Len(q) \in Nat
      /\ \A k \in DOMAIN q : q[k].id \in Nat
  BY IdsAreNumbers DEF Lists
<1>2. ASSUME NEW n \in DOMAIN q, \A i \in 1..(n - 1) : q[i].row # q[n].row,
             NEW x \in S, x.row = q[n].row
      PROVE  q[n].id <= x.id
  <2>1. PICK k \in DOMAIN q : q[k] = x
    BY <1>1
  <2>2. ~(k < n)
    BY <1>1, <1>2, <2>1
  <2>3. k = n \/ n < k
    BY <1>1, <2>2
  <2>4. n < k => q[n].id < q[k].id
    BY <1>1 DEF Ordered
  <2>. QED
    BY <1>1, <2>1, <2>3, <2>4
<1>3. ASSUME NEW n \in DOMAIN q, \A x \in S : x.row = q[n].row => q[n].id <= x.id,
             NEW i \in 1..(n - 1)
      PROVE  q[i].row # q[n].row
  <2>1. i \in DOMAIN q /\ i < n
    BY <1>1
  <2>2. q[i] \in S /\ q[i].id < q[n].id
    BY <1>1, <2>1 DEF Ordered
  <2>. QED
    BY <1>1, <1>3, <2>1, <2>2
<1>. QED
  BY <1>1, <1>2, <1>3, SMTT(30) DEF FirstsOf
----------------------------------------------------------------------------
(***************************************************************************)
(* The steps.                                                              *)
(***************************************************************************)
\* A step that leaves outboxes, edits and log alone does not show.
LEMMA Unseen ==
  ASSUME UNCHANGED <<outbox, made, dropped, log>>
  PROVE  UNCHANGED Delivery!deliveryVars
<1>1. Queues' = Queues
  BY DEF Queues, Pending
<1>. QED
  BY <1>1 DEF Delivery!deliveryVars, Aside, Moot, Gone, Taken, Refusals, Queued, Entries

\* What Settle asks for.
Settling(d, settled, idle) ==
  /\ settled = FirstsOf(Queues[d]) \ {Queues'[d][n] : n \in DOMAIN Queues'[d]}
  /\ idle = {e \in settled \ (settled \cap Aside') : e.id \notin Taken}
  /\ settled # {}
  /\ Queues' = [Queues EXCEPT ![d] = Kept(@, {n \in DOMAIN @ : @[n] \notin settled})]
  /\ Queues' # Queues
  /\ UNCHANGED <<made, Taken, Gone>>
  /\ Aside' = Aside \cup (settled \cap Aside')
  /\ Moot' = Moot \cup idle
  /\ \A e \in idle : e.op = "delete" /\ e.row \in Gone

\* An answer handled is the step Settle.
LEMMA SettleIs ==
  ASSUME NEW d \in Device, NEW settled, NEW idle, Settling(d, settled, idle)
  PROVE  Delivery!DeliveryNext
<1>1. Delivery!Firsts(d) = FirstsOf(Queues[d])
  BY DEF Delivery!Firsts, FirstsOf
<1>2. \A s, I : Delivery!Kept(s, I) = Kept(s, I)
  BY Zenon DEF Delivery!Kept, Kept, Delivery!Rank, Rank, Delivery!Cardinality, Cardinality
<1>3. Delivery!Leave(d, settled)
  BY <1>2 DEF Settling, Delivery!Leave
<1>4. Delivery!Settle(d)
  BY <1>1, <1>3 DEF Settling, Delivery!Settle
<1>. QED
  BY <1>4 DEF Settling, Delivery!DeliveryNext

\* How a turn of the push loop of d moves the edits of its outbox.
LEMMA TurnMoves ==
  ASSUME SyncTyped, PushInv, NEW d \in Device, NEW rs, NEW box, Turn(d, rs, box)
  PROVE  /\ UNCHANGED <<made, dropped, log>>
         /\ \A c \in Device \ {d} : \A i : /\ Waits(c, i)' <=> Waits(c, i)
                                           /\ Blocked(c, i)' <=> Blocked(c, i)
         /\ \A c \in Device \ {d} : outbox'[c] = outbox[c]
         /\ \A i : Waits(d, i)' => Waits(d, i)
         /\ \A i : Blocked(d, i) => Blocked(d, i)'
         /\ \A i : Blocked(d, i)' => Blocked(d, i) \/ Waits(d, i)
         /\ \A i : Waits(d, i) /\ ~Waits(d, i)' => Told(d, i) /\ (Blocked(d, i)' \/ Done(i))
<1>. DEFINE old == outbox[d]
<1>1. /\ job = Idle
      /\ rs \subseteq Range(sync[d].results)
      /\ box \in Seq(OutboxRow) /\ Settles(old, rs, box)
      /\ outbox' = [outbox EXCEPT ![d] = box]
      /\ UNCHANGED <<log, made, dropped>>
  BY DEF Turn, vars
<1>2. PICK at \in [DOMAIN box -> DOMAIN old] :
        /\ \A k \in DOMAIN box :
             LET e == old[at[k]]
             IN /\ box[k].id = e.id /\ box[k].row = e.row /\ box[k].op = e.op
                /\ box[k].fields = e.fields
                /\ box[k].blocked <=>
                     e.blocked \/ \E x \in rs : x.status \in {"conflict", "rejected"} /\ x.id = e.id
                /\ \A x \in rs : Acked(x) => x.id # e.id
        /\ \A m \in DOMAIN old :
             (\A x \in rs : Acked(x) => x.id # old[m].id) => \E k \in DOMAIN box : at[k] = m
  BY <1>1 DEF Settles
<1>3. outbox \in [Device -> Seq(OutboxRow)] /\ Recorded /\ AwaitedUnblocked
  BY DEF SyncTyped, PushInv, Delivering
<1>4. outbox'[d] = box /\ \A c \in Device \ {d} : outbox'[c] = outbox[c]
  BY <1>1, <1>3
<1>5. ASSUME NEW k \in DOMAIN box
      PROVE  /\ at[k] \in DOMAIN old /\ box[k].id = old[at[k]].id
             /\ old[at[k]].blocked => box[k].blocked
             /\ box[k].blocked =>
                  old[at[k]].blocked \/ \E x \in rs : x.id = old[at[k]].id
  BY <1>2
<1>6. \A x \in rs : /\ Told(d, x.id) /\ Awaits(d, x.id)
                    /\ Acked(x) => Done(x.id)
  <2>1. \A x \in rs : \E n \in DOMAIN sync[d].results : x = sync[d].results[n]
    BY <1>1 DEF Range
  <2>. QED
    BY <1>3, <2>1 DEF Told, Awaits, Recorded, AnswersTrue, Truthful
<1>7. ASSUME NEW m \in DOMAIN old
      PROVE  \/ \E k \in DOMAIN box : at[k] = m
             \/ \E x \in rs : Acked(x) /\ x.id = old[m].id
  BY <1>2
<1>. HIDE DEF old
<1>8. \A c \in Device \ {d} : \A i : /\ Waits(c, i)' <=> Waits(c, i)
                                     /\ Blocked(c, i)' <=> Blocked(c, i)
  BY <1>4 DEF Waits, Blocked
<1>9. \A i : Waits(d, i)' => Waits(d, i)
  BY <1>4, <1>5 DEF Waits, old
<1>10. ASSUME NEW i, Blocked(d, i) PROVE Blocked(d, i)'
  <2>1. PICK m \in DOMAIN old : old[m].id = i /\ old[m].blocked
    BY <1>10 DEF Blocked, old
  <2>2. ~Awaits(d, i)
    BY <1>3, <1>10 DEF AwaitedUnblocked
  <2>3. PICK k \in DOMAIN box : at[k] = m
    BY <1>6, <1>7, <2>1, <2>2
  <2>. QED
    BY <1>4, <1>5, <2>1, <2>3 DEF Blocked
<1>11. \A i : Blocked(d, i)' => Blocked(d, i) \/ Waits(d, i)
  BY <1>4, <1>5 DEF Blocked, Waits, old
<1>12. ASSUME NEW i, Waits(d, i), ~Waits(d, i)'
       PROVE  Told(d, i) /\ (Blocked(d, i)' \/ Done(i))
  <2>1. PICK m \in DOMAIN old : old[m].id = i /\ ~old[m].blocked
    BY <1>12 DEF Waits, old
  <2>2. CASE \E k \in DOMAIN box : at[k] = m
    <3>1. PICK k \in DOMAIN box : at[k] = m
      BY <2>2
    <3>2. box[k].blocked /\ box[k].id = i
      BY <1>4, <1>5, <1>12, <2>1, <3>1 DEF Waits
    <3>3. \E x \in rs : x.id = i
      BY <1>5, <2>1, <3>1, <3>2
    <3>. QED
      BY <1>4, <1>6, <3>2, <3>3 DEF Blocked
  <2>3. CASE \E x \in rs : Acked(x) /\ x.id = old[m].id
    BY <1>6, <2>1, <2>3
  <2>. QED
    BY <1>7, <2>2, <2>3
<1>. QED
  BY <1>1, <1>4, <1>8, <1>9, <1>10, <1>11, <1>12

\* The entries that leave an outbox were first of their rows, and are taken, refused or moot.
LEMMA TurnDelivers ==
  ASSUME Ready, Ready',
         NEW d \in Device, NEW rs, NEW box, Turn(d, rs, box)
  PROVE  [Delivery!DeliveryNext]_(Delivery!deliveryVars)
<1>. DEFINE out == {i \in DOMAIN made : Waits(d, i) /\ ~Waits(d, i)'}
            E(i) == AsEdit(made[i])
            settled == {E(i) : i \in out}
            idle == {e \in settled \ (settled \cap Aside') : e.id \notin Taken}
<1>1. /\ UNCHANGED <<made, dropped, log>>
      /\ \A c \in Device \ {d} : \A i : /\ Waits(c, i)' <=> Waits(c, i)
                                        /\ Blocked(c, i)' <=> Blocked(c, i)
      /\ \A c \in Device \ {d} : outbox'[c] = outbox[c]
      /\ \A i : Waits(d, i)' => Waits(d, i)
      /\ \A i : Blocked(d, i) => Blocked(d, i)'
      /\ \A i : Blocked(d, i)' => Blocked(d, i) \/ Waits(d, i)
      /\ \A i : Waits(d, i) /\ ~Waits(d, i)' => Told(d, i) /\ (Blocked(d, i)' \/ Done(i))
  BY TurnMoves DEF Ready
<1>2. /\ Recorded /\ Consistent /\ InTurn
      /\ \A i \in DOMAIN made : /\ E(i) \in Edit /\ E(i).id = i
                                /\ E(i).row = made[i].row /\ E(i).op = made[i].op
  BY EditsOf DEF Ready, PushInv, Recorded, Delivering
<1>3. /\ \A i : i \in Queued <=> \E c \in Device : Waits(c, i) \/ Blocked(c, i)
      /\ \A i : i \in Refusals <=> \E c \in Device : Blocked(c, i)
      /\ \A i : i \in Queued' <=> \E c \in Device : Waits(c, i)' \/ Blocked(c, i)'
      /\ \A i : i \in Refusals' <=> \E c \in Device : Blocked(c, i)'
  BY HeldIs, HeldIsNext
<1>4. ASSUME NEW i
      PROVE  /\ ~(Waits(d, i) /\ Blocked(d, i))
             /\ \A c, b \in Device : /\ Waits(c, i) \/ Blocked(c, i)
                                     /\ Waits(b, i) \/ Blocked(b, i)
                                     => c = b
             /\ \A c \in Device : Waits(c, i) \/ Blocked(c, i) => i \in DOMAIN made
  BY OnePlace DEF Ready
<1>5. ASSUME NEW i
      PROVE  /\ i \in Refusals' <=> i \in Refusals \/ (i \in out /\ Blocked(d, i)')
             /\ i \in Queued' <=> i \in Queued /\ ~(i \in out /\ ~Blocked(d, i)')
             /\ i \in out => i \in Queued /\ (i \in Refusals' <=> Blocked(d, i)')
             /\ i \in Refusals \/ i \in Refusals' => i \in DOMAIN made
  <2>1. i \in out => ~Waits(d, i)' /\ Waits(d, i)
    OBVIOUS
  <2>2. Waits(d, i) => i \in out \/ Waits(d, i)'
    BY <1>4
  <2>3. Blocked(d, i)' => Blocked(d, i) \/ i \in out
    BY <1>1, <2>2 DEF Ready, Single
  <2>. QED
    BY <1>1, <1>3, <1>4, <2>1, <2>2, <2>3
<1>6. Taken' = Taken /\ Gone' = Gone /\ made' = made /\ dropped' = dropped
  BY <1>1 DEF Taken, Gone
<1>7. /\ Aside' = {E(i) : i \in dropped \cup Refusals'}
      /\ Aside = {E(i) : i \in dropped \cup Refusals}
      /\ Moot' = {E(i) : i \in DOMAIN made \ (dropped \cup Taken \cup Queued')}
      /\ Moot = {E(i) : i \in DOMAIN made \ (dropped \cup Taken \cup Queued)}
  BY <1>6 DEF Aside, Moot
<1>8. Lists(Queues[d], Waiting(d)) /\ Lists(Queues'[d], Waiting(d)')
  BY QueuesListedNext DEF Ready, Listed
<1>9. /\ Waiting(d) = {E(i) : i \in {j \in DOMAIN made : Waits(d, j)}}
      /\ Waiting(d)' = {E(i) : i \in {j \in DOMAIN made : Waits(d, j)'}}
  BY <1>6 DEF Waiting
<1>10. Queues' = [Queues EXCEPT ![d] = Queues'[d]]
  <2>1. \A c \in Device \ {d} : Pending(c)' = Pending(c)
    BY <1>1 DEF Pending
  <2>2. \A c \in Device \ {d} : Queues'[c] = Queues[c]
    BY <2>1 DEF Queues
  <2>. QED
    BY <2>2 DEF Queues
<1>. HIDE DEF E
<1>11. \A i \in DOMAIN made, k \in DOMAIN made : E(i) = E(k) => i = k
  <2>1. \A i \in DOMAIN made, k \in DOMAIN made : E(i) = E(k) => E(i).id = E(k).id
    OBVIOUS
  <2>. QED
    BY <1>2, <2>1
<1>12. dropped \subseteq DOMAIN made
  BY DEF Ready, Owners
<1>13. ASSUME NEW i \in out
       PROVE  /\ E(i) \in settled
              /\ E(i) \in Aside' <=> i \in dropped \/ Blocked(d, i)'
              /\ E(i) \in Waiting(d) /\ E(i) \notin Waiting(d)'
              /\ E(i).id = i
  <2>1. E(i) \in Aside' => i \in dropped \cup Refusals'
    BY <1>5, <1>7, <1>11, <1>12
  <2>2. E(i) \in Waiting(d)' => Waits(d, i)'
    BY <1>9, <1>11
  <2>. QED
    BY <1>2, <1>5, <1>7, <1>9, <2>1, <2>2
<1>14. Aside' = Aside \cup (settled \cap Aside')
  <2>1. Aside \subseteq Aside'
    BY <1>5, <1>7
  <2>2. Aside' \subseteq Aside \cup settled
    BY <1>5, <1>7
  <2>. QED
    BY <2>1, <2>2
<1>15. Moot' = Moot \cup idle
  <2>1. ASSUME NEW i \in DOMAIN made
        PROVE  i \in DOMAIN made \ (dropped \cup Taken \cup Queued')
                 <=> \/ i \in DOMAIN made \ (dropped \cup Taken \cup Queued)
                     \/ i \in out /\ i \notin dropped /\ ~Blocked(d, i)' /\ i \notin Taken
    BY <1>5
  <2>2. ASSUME NEW i \in out
        PROVE  E(i) \in idle <=> i \notin dropped /\ ~Blocked(d, i)' /\ i \notin Taken
    BY <1>13
  <2>3. ASSUME NEW i \in DOMAIN made \ (dropped \cup Taken \cup Queued')
        PROVE  E(i) \in Moot \cup idle
    BY <1>7, <2>1, <2>2, <2>3
  <2>4. ASSUME NEW i \in DOMAIN made \ (dropped \cup Taken \cup Queued)
        PROVE  E(i) \in Moot'
    BY <1>7, <2>1, <2>4
  <2>5. ASSUME NEW i \in out, E(i) \in idle
        PROVE  E(i) \in Moot'
    BY <1>7, <2>1, <2>2, <2>5
  <2>6. Moot \subseteq Moot'
    BY <1>7, <2>4
  <2>7. idle \subseteq Moot'
    BY <2>5
  <2>8. Moot' \subseteq Moot \cup idle
    BY <1>7, <2>3
  <2>. QED
    BY <2>6, <2>7, <2>8
<1>16. \A e \in idle : e.op = "delete" /\ e.row \in Gone
  <2>1. SUFFICES ASSUME NEW i \in out, E(i) \in idle
                 PROVE  E(i).op = "delete" /\ E(i).row \in Gone
    OBVIOUS
  <2>2. ~Blocked(d, i)' /\ i \notin Taken /\ Done(i) /\ i \in DOMAIN made
    BY <1>1, <1>13, <2>1
  <2>3. i # None
    BY MadeTyped, <1>2, <2>2, RowsAssumption DEF Ready, Consistent, OutboxRow
  <2>4. \A l \in log : l.entry # i
    BY <2>2, <2>3 DEF Taken
  <2>. QED
    BY <1>2, <2>2, <2>4 DEF Done, Gone
<1>17. settled = FirstsOf(Queues[d]) \ {Queues'[d][n] : n \in DOMAIN Queues'[d]}
  <2>1. {Queues'[d][n] : n \in DOMAIN Queues'[d]} = Waiting(d)'
    BY <1>8 DEF Lists
  <2>2. FirstsOf(Queues[d])
          = {e \in Waiting(d) : \A x \in Waiting(d) : x.row = e.row => e.id <= x.id}
    BY <1>8, FirstsAre
  <2>3. ASSUME NEW i \in out, NEW k \in DOMAIN made, Waits(d, k), E(k).row = E(i).row
        PROVE  E(i).id <= E(k).id
    <3>1. Told(d, i) /\ made[k].row = made[i].row
      BY <1>1, <1>2, <2>3
    <3>2. i <= k
      BY <1>2, <2>3, <3>1 DEF InTurn
    <3>. QED
      BY <1>2, <3>2
  <2>4. settled \subseteq FirstsOf(Queues[d])
    <3>1. ASSUME NEW i \in out, NEW x \in Waiting(d), x.row = E(i).row PROVE E(i).id <= x.id
      BY <1>9, <2>3, <3>1
    <3>. QED
      BY <1>13, <2>2, <3>1
  <2>5. \A e \in settled : e \notin Waiting(d)'
    BY <1>13
  <2>6. ASSUME NEW e \in Waiting(d), e \notin Waiting(d)' PROVE e \in settled
    BY <1>9, <2>6
  <2>. QED
    BY <2>1, <2>2, <2>4, <2>5, <2>6
<1>18. Queues'[d] = Kept(Queues[d], {n \in DOMAIN Queues[d] : Queues[d][n] \notin settled})
  <2>1. Waiting(d)' = Waiting(d) \ settled
    <3>1. \A e \in settled : e \notin Waiting(d)'
      BY <1>13
    <3>2. \A e \in Waiting(d) : e \in settled \/ e \in Waiting(d)'
      BY <1>9
    <3>3. Waiting(d)' \subseteq Waiting(d)
      BY <1>1, <1>9
    <3>. QED
      BY <3>1, <3>2, <3>3
  <2>. HIDE DEF settled
  <2>2. Lists(Kept(Queues[d], {n \in DOMAIN Queues[d] : Queues[d][n] \notin settled}),
              Waiting(d)')
    BY <1>8, <2>1, KeptLists
  <2>. QED
    BY <1>8, <2>2, SameList
<1>19. CASE out = {}
  <2>1. settled = {} /\ idle = {}
    BY <1>19
  <2>2. Waiting(d)' = Waiting(d)
    BY <1>1, <1>9, <1>19
  <2>3. Queues'[d] = Queues[d]
    BY <1>8, <2>2, SameList
  <2>4. Queues' = Queues
    BY <1>10, <2>3 DEF Queues
  <2>. QED
    BY <1>6, <1>14, <1>15, <2>1, <2>4 DEF Delivery!deliveryVars
<1>20. CASE out # {}
  <2>1. settled # {}
    BY <1>20
  <2>2. Queues' # Queues
    <3>1. Waiting(d) # Waiting(d)'
      BY <1>13, <1>20
    <3>2. Queues[d] # Queues'[d]
      BY <1>8, <3>1 DEF Lists
    <3>. QED
      BY <3>2
  <2>3. Queues' = [Queues EXCEPT ![d] = Kept(@, {n \in DOMAIN @ : @[n] \notin settled})]
    BY <1>10, <1>18
  <2>4. idle = {e \in settled \ (settled \cap Aside') : e.id \notin Taken}
        /\ UNCHANGED <<made, Taken, Gone>>
    BY <1>6
  <2>. HIDE DEF settled, idle
  <2>5. Settling(d, settled, idle)
    BY <1>14, <1>15, <1>16, <1>17, <2>1, <2>2, <2>3, <2>4 DEF Settling
  <2>. QED
    BY <2>5, SettleIs
<1>. QED
  BY <1>19, <1>20

\* What Make asks for.
Making(d, new) ==
  /\ new # <<>>
  /\ new = SubSeq(Queues'[d], Len(Queues[d]) + 1, Len(Queues'[d]))
  /\ Queues' = [Queues EXCEPT ![d] = @ \o new]
  /\ Queues' # Queues
  /\ \A n \in DOMAIN new : new[n].id = Len(made) + n
  /\ Len(made') = Len(made) + Len(new)
  /\ UNCHANGED <<Aside, Moot, Taken, Gone>>

\* A user operation is the step Make.
LEMMA MakeIs ==
  ASSUME NEW d \in Device, NEW new, Making(d, new)
  PROVE  Delivery!DeliveryNext
<1>1. Delivery!Make(d)
  BY DEF Making, Delivery!Make
<1>. QED
  BY <1>1 DEF Making, Delivery!DeliveryNext

\* How a user operation of d that makes entries moves the edits of its outbox.
LEMMA EditsMoves ==
  ASSUME Ready, NEW d \in Device, NEW entries, Edits(d, entries)
  PROVE  /\ UNCHANGED <<dropped, log>>
         /\ \A c \in Device \ {d} : outbox'[c] = outbox[c]
         /\ entries \in Seq(OutboxRow) /\ entries # <<>>
         /\ made \in Seq(OutboxRow) /\ made' = made \o entries
         /\ \A n \in DOMAIN entries : entries[n].id = Len(made) + n
         /\ \A c \in Device : \A i : Blocked(c, i)' <=> Blocked(c, i)
         /\ \A c \in Device : \A i :
              Waits(c, i)' <=>
                Waits(c, i) \/ (c = d /\ \E n \in DOMAIN entries : i = Len(made) + n)
<1>. DEFINE old == outbox[d]
            box == old \o entries
<1>1. /\ entries \in Seq(OutboxRow) /\ entries # <<>>
      /\ \A n \in DOMAIN entries : entries[n].id = Len(made) + n /\ ~entries[n].blocked
      /\ outbox' = [outbox EXCEPT ![d] = box]
      /\ made' = made \o entries
      /\ UNCHANGED <<log, dropped>>
  BY DEF Edits, EditUnchanged, vars
<1>2. /\ outbox \in [Device -> Seq(OutboxRow)] /\ old \in Seq(OutboxRow)
      /\ made \in Seq(OutboxRow)
  BY MadeTyped DEF Ready, SyncTyped
<1>3. outbox'[d] = box /\ \A c \in Device \ {d} : outbox'[c] = outbox[c]
  BY <1>1, <1>2
<1>4. /\ \A n \in DOMAIN old : n \in DOMAIN box /\ box[n] = old[n]
      /\ \A n \in DOMAIN entries : Len(old) + n \in DOMAIN box /\ box[Len(old) + n] = entries[n]
      /\ \A n \in DOMAIN box : \/ n \in DOMAIN old
                               \/ n - Len(old) \in DOMAIN entries /\ n = Len(old) + (n - Len(old))
  BY <1>1, <1>2
<1>. HIDE DEF box, old
<1>5. /\ \A n \in DOMAIN old : \E m \in DOMAIN box : box[m] = old[n]
      /\ \A n \in DOMAIN entries : \E m \in DOMAIN box : box[m] = entries[n]
      /\ \A m \in DOMAIN box : \/ \E n \in DOMAIN old : box[m] = old[n]
                               \/ \E n \in DOMAIN entries : box[m] = entries[n]
  BY <1>4
<1>. DEFINE has(i, b) == \E m \in DOMAIN box : box[m].id = i /\ box[m].blocked = b
            had(i, b) == \E n \in DOMAIN old : old[n].id = i /\ old[n].blocked = b
<1>8. \A n \in DOMAIN entries : entries[n].blocked = FALSE /\ entries[n].id = Len(made) + n
  <2>1. \A n \in DOMAIN entries : entries[n] \in OutboxRow
    BY <1>1
  <2>. QED
    BY <1>1, <2>1 DEF OutboxRow
<1>9. \A i : has(i, TRUE) <=> had(i, TRUE)
  BY <1>5, <1>8
<1>10. \A i : has(i, FALSE) <=> had(i, FALSE) \/ \E n \in DOMAIN entries : i = Len(made) + n
  BY <1>5, <1>8
<1>11. /\ \A i : Blocked(d, i) <=> had(i, TRUE)
       /\ \A i : Waits(d, i) <=> had(i, FALSE)
  <2>1. \A n \in DOMAIN old : old[n].blocked \in BOOLEAN
    <3>1. \A n \in DOMAIN old : old[n] \in OutboxRow
      BY <1>2
    <3>. QED
      BY <3>1 DEF OutboxRow
  <2>. QED
    BY <2>1 DEF Blocked, Waits, old
<1>12. /\ \A i : Blocked(d, i)' <=> has(i, TRUE)
       /\ \A i : Waits(d, i)' <=> has(i, FALSE)
  <2>1. \A m \in DOMAIN box : box[m].blocked \in BOOLEAN
    <3>1. \A m \in DOMAIN box : box[m] \in OutboxRow
      BY <1>1, <1>2 DEF box
    <3>. QED
      BY <3>1 DEF OutboxRow
  <2>. QED
    BY <1>3, <2>1 DEF Blocked, Waits
<1>. HIDE DEF has, had
<1>14. \A i : Blocked(d, i)' <=> Blocked(d, i)
  BY <1>9, <1>11, <1>12
<1>15. \A i : Waits(d, i)' <=> Waits(d, i) \/ \E n \in DOMAIN entries : i = Len(made) + n
  BY <1>10, <1>11, <1>12
<1>13. \A c \in Device \ {d} : \A i : /\ Waits(c, i)' <=> Waits(c, i)
                                      /\ Blocked(c, i)' <=> Blocked(c, i)
  BY <1>3 DEF Waits, Blocked
<1>. QED
  BY <1>1, <1>2, <1>3, <1>13, <1>14, <1>15

\* Edits join the queue behind those that wait.
LEMMA EditsDeliver ==
  ASSUME Ready, Ready', NEW d \in Device, NEW entries, Edits(d, entries)
  PROVE  Delivery!DeliveryNext
<1>. DEFINE c0 == Len(made)
            E(i) == AsEdit(made[i])
            new == [n \in DOMAIN entries |-> AsEdit(entries[n])]
            fresh == {AsEdit(entries[n]) : n \in DOMAIN entries}
<1>1. /\ UNCHANGED <<dropped, log>>
      /\ \A c \in Device \ {d} : outbox'[c] = outbox[c]
      /\ entries \in Seq(OutboxRow) /\ entries # <<>>
      /\ made \in Seq(OutboxRow) /\ made' = made \o entries
      /\ \A n \in DOMAIN entries : entries[n].id = c0 + n
      /\ \A c \in Device : \A i : Blocked(c, i)' <=> Blocked(c, i)
      /\ \A c \in Device : \A i :
           Waits(c, i)' <=>
             Waits(c, i) \/ (c = d /\ \E n \in DOMAIN entries : i = c0 + n)
  BY EditsMoves
<1>2. /\ c0 \in Nat /\ DOMAIN made = 1..c0
      /\ Len(entries) \in Nat /\ DOMAIN entries = 1..Len(entries)
      /\ Len(made') = c0 + Len(entries)
      /\ DOMAIN made' = 1..(c0 + Len(entries))
      /\ \A i \in DOMAIN made : i \in DOMAIN made' /\ made'[i] = made[i]
      /\ \A n \in DOMAIN entries : c0 + n \in DOMAIN made' /\ made'[c0 + n] = entries[n]
      /\ \A i \in DOMAIN made' : i \in DOMAIN made \/ \E n \in DOMAIN entries : i = c0 + n
  <2>1. /\ c0 \in Nat /\ DOMAIN made = 1..c0
        /\ Len(entries) \in Nat /\ DOMAIN entries = 1..Len(entries)
        /\ Len(made') = c0 + Len(entries)
        /\ DOMAIN made' = 1..(c0 + Len(entries))
        /\ \A i \in DOMAIN made : i \in DOMAIN made' /\ made'[i] = made[i]
        /\ \A n \in DOMAIN entries : c0 + n \in DOMAIN made' /\ made'[c0 + n] = entries[n]
    BY <1>1
  <2>2. ASSUME NEW i \in DOMAIN made', i \notin DOMAIN made
        PROVE  i - c0 \in DOMAIN entries /\ i = c0 + (i - c0)
    BY <2>1, <2>2
  <2>. QED
    BY <2>1, <2>2
<1>3. /\ Recorded
      /\ \A i \in DOMAIN made : E(i) \in Edit /\ E(i).id = i
  BY EditsOf DEF Ready, PushInv, Recorded
<1>4. /\ \A i : i \in Queued <=> \E c \in Device : Waits(c, i) \/ Blocked(c, i)
      /\ \A i : i \in Refusals <=> \E c \in Device : Blocked(c, i)
      /\ \A i : i \in Queued' <=> \E c \in Device : Waits(c, i)' \/ Blocked(c, i)'
      /\ \A i : i \in Refusals' <=> \E c \in Device : Blocked(c, i)'
  BY HeldIs, HeldIsNext
<1>5. \A i : \A c \in Device : Waits(c, i) \/ Blocked(c, i) => i \in DOMAIN made
  BY OnePlace DEF Ready
<1>6. /\ Refusals' = Refusals /\ Refusals \subseteq DOMAIN made
      /\ DOMAIN made' \ (dropped \cup Taken \cup Queued')
           = DOMAIN made \ (dropped \cup Taken \cup Queued)
  <2>1. Refusals' = Refusals /\ Refusals \subseteq DOMAIN made
    BY <1>1, <1>4, <1>5
  <2>2. ASSUME NEW i \in DOMAIN made PROVE i \in Queued' <=> i \in Queued
    <3>1. \A n \in DOMAIN entries : i # c0 + n
      BY <1>2
    <3>. QED
      BY <1>1, <1>4, <3>1
  <2>3. ASSUME NEW i \in DOMAIN made', i \notin DOMAIN made PROVE i \in Queued'
    BY <1>1, <1>2, <1>4, <2>3
  <2>. QED
    BY <1>2, <2>1, <2>2, <2>3
<1>7. UNCHANGED <<Aside, Moot, Taken, Gone>>
  <2>1. Taken' = Taken /\ Gone' = Gone /\ dropped' = dropped
    BY <1>1 DEF Taken, Gone
  <2>2. \A i \in DOMAIN made : AsEdit(made[i])' = AsEdit(made[i])
    BY <1>2 DEF AsEdit
  <2>3. dropped \subseteq DOMAIN made
    BY DEF Ready, Owners
  <2>4. Aside' = Aside
    BY <1>6, <2>1, <2>2, <2>3 DEF Aside
  <2>5. Moot' = Moot
    BY <1>6, <2>1, <2>2 DEF Moot
  <2>. QED
    BY <2>1, <2>4, <2>5
<1>8. /\ \A n \in DOMAIN entries : AsEdit(entries[n]) \in Edit /\ AsEdit(entries[n]).id = c0 + n
      /\ DOMAIN new = DOMAIN entries /\ \A n \in DOMAIN entries : new[n] = AsEdit(entries[n])
  <2>1. \A n \in DOMAIN entries : entries[n] \in OutboxRow
    BY <1>1
  <2>. QED
    BY <1>1, <2>1 DEF AsEdit, Edit, OutboxRow
<1>. HIDE DEF new
<1>9. /\ Lists(new, fresh) /\ new # <<>> /\ Len(new) = Len(entries)
  <2>1. new \in Seq(Edit) /\ Len(new) = Len(entries)
    <3>1. new = [n \in 1..Len(entries) |-> AsEdit(entries[n])]
      BY <1>2 DEF new
    <3>. QED
      BY <1>2, <1>8, <3>1
  <2>2. Ordered(new)
    BY <1>2, <1>8 DEF Ordered
  <2>3. {new[n] : n \in DOMAIN new} = fresh
    BY <1>8
  <2>4. Len(entries) # 0
    BY <1>1
  <2>. QED
    BY <1>2, <2>1, <2>2, <2>3, <2>4 DEF Lists
<1>10. Lists(Queues[d], Waiting(d)) /\ Lists(Queues'[d], Waiting(d)')
  BY QueuesListedNext DEF Ready, Listed
<1>11. Waiting(d)' = Waiting(d) \cup fresh
  <2>1. /\ Waiting(d) = {AsEdit(made[i]) : i \in {j \in DOMAIN made : Waits(d, j)}}
        /\ Waiting(d)' = {AsEdit(made'[i]) : i \in {j \in DOMAIN made' : Waits(d, j)'}}
    BY DEF Waiting, AsEdit
  <2>2. ASSUME NEW i \in DOMAIN made, Waits(d, i)
        PROVE  AsEdit(made[i]) \in Waiting(d)'
    BY <1>1, <1>2, <2>1, <2>2
  <2>3. ASSUME NEW n \in DOMAIN entries PROVE AsEdit(entries[n]) \in Waiting(d)'
    <3>1. PICK i : i = c0 + n
      OBVIOUS
    <3>2. i \in DOMAIN made' /\ made'[i] = entries[n]
      BY <1>2, <3>1
    <3>3. Waits(d, i)'
      BY <1>1, <3>1
    <3>. QED
      BY <2>1, <3>2, <3>3
  <2>4. ASSUME NEW i \in DOMAIN made', Waits(d, i)'
        PROVE  AsEdit(made'[i]) \in Waiting(d) \cup fresh
    <3>1. CASE Waits(d, i)
      BY <1>2, <1>5, <2>1, <3>1
    <3>2. CASE \E n \in DOMAIN entries : i = c0 + n
      BY <1>2, <3>2
    <3>. QED
      BY <1>1, <2>4, <3>1, <3>2
  <2>. QED
    BY <2>1, <2>2, <2>3, <2>4
<1>12. \A e \in Waiting(d), f \in fresh : e.id < f.id
  <2>1. \A e \in Waiting(d) : e.id \in 1..c0
    BY <1>2, <1>3 DEF Waiting
  <2>2. \A f \in fresh : \E n \in 1..Len(entries) : f.id = c0 + n
    BY <1>2, <1>8
  <2>. QED
    BY <1>2, <2>1, <2>2
<1>. HIDE DEF fresh
<1>13. Queues'[d] = Queues[d] \o new
  <2>1. Lists(Queues[d] \o new, Waiting(d)')
    BY <1>9, <1>10, <1>11, <1>12, JoinedLists
  <2>. QED
    BY <1>10, <2>1, SameList
<1>14. Queues' = [Queues EXCEPT ![d] = @ \o new]
  <2>1. \A c \in Device \ {d} : Pending(c)' = Pending(c)
    BY <1>1 DEF Pending
  <2>2. \A c \in Device \ {d} : Queues'[c] = Queues[c]
    BY <2>1 DEF Queues
  <2>. QED
    BY <1>13, <2>2 DEF Queues
<1>15. Queues[d] \in Seq(Edit) /\ new \in Seq(Edit)
  BY <1>9, <1>10 DEF Lists
<1>16. new = SubSeq(Queues'[d], Len(Queues[d]) + 1, Len(Queues'[d]))
  <2>. DEFINE q == Queues[d]
  <2>. HIDE DEF q
  <2>1. q \in Seq(Edit) /\ Queues'[d] = q \o new
    BY <1>13, <1>15 DEF q
  <2>2. new = SubSeq(q \o new, Len(q) + 1, Len(q \o new))
    BY <1>15, <2>1, JoinedTail
  <2>. QED
    BY <2>1, <2>2 DEF q
<1>17. Queues' # Queues
  <2>1. Len(Queues'[d]) = Len(Queues[d]) + Len(new) /\ Len(Queues[d]) \in Nat
    BY <1>13, <1>15
  <2>2. Len(new) # 0
    BY <1>9, <1>15
  <2>3. Len(new) \in Nat
    BY <1>15
  <2>. QED
    BY <2>1, <2>2, <2>3
<1>18. /\ \A n \in DOMAIN new : new[n].id = c0 + n
       /\ Len(made') = c0 + Len(new)
  BY <1>2, <1>8, <1>9
<1>19. Making(d, new)
  BY <1>7, <1>9, <1>14, <1>16, <1>17, <1>18 DEF Making
<1>. QED
  BY <1>19, MakeIs

\* What GiveUp asks for.
Yielding(d, n) ==
  LET e == Queues[d][n]
  IN /\ n \in DOMAIN Queues[d]
     /\ Queues' = [Queues EXCEPT ![d] = Kept(@, {k \in DOMAIN @ : @[k] \notin {e}})]
     /\ Queues' # Queues
     /\ UNCHANGED <<made, Taken, Gone>>
     /\ Aside' = Aside \cup {e}
     /\ Moot' = Moot

\* A discarded edit is the step GiveUp.
LEMMA GiveUpIs ==
  ASSUME NEW d \in Device, NEW n, Yielding(d, n)
  PROVE  Delivery!DeliveryNext
<1>1. \A s, I : Delivery!Kept(s, I) = Kept(s, I)
  BY Zenon DEF Delivery!Kept, Kept, Delivery!Rank, Rank, Delivery!Cardinality, Cardinality
<1>2. Delivery!Leave(d, {Queues[d][n]})
  BY <1>1 DEF Yielding, Delivery!Leave
<1>3. Delivery!GiveUp(d)
  BY <1>2 DEF Yielding, Delivery!GiveUp
<1>. QED
  BY <1>3 DEF Yielding, Delivery!DeliveryNext

\* What is left of the outbox of d when its entry i is discarded.
LEMMA DiscardMoves ==
  ASSUME Ready, NEW d \in Device, NEW n \in DOMAIN outbox[d], Discard(d, n),
         NEW i, i = outbox[d][n].id
  PROVE  /\ UNCHANGED <<made, log>>
         /\ dropped' = dropped \cup {i}
         /\ \A c \in Device \ {d} : outbox'[c] = outbox[c]
         /\ Waits(d, i) \/ Blocked(d, i)
         /\ \A c \in Device : \A k : /\ Waits(c, k)' <=> Waits(c, k) /\ k # i
                                     /\ Blocked(c, k)' <=> Blocked(c, k) /\ k # i
<1>. DEFINE old == outbox[d]
<1>1. PICK box \in Seq(OutboxRow) :
        /\ outbox' = [outbox EXCEPT ![d] = box]
        /\ Len(box) = Len(old) - 1
        /\ \A k \in DOMAIN box : box[k] = IF k < n THEN old[k] ELSE old[k + 1]
  BY DiscardIs DEF Ready, SyncTyped
<1>2. dropped' = dropped \cup {i} /\ UNCHANGED <<made, log>>
  BY DEF Discard, vars
<1>3. /\ outbox \in [Device -> Seq(OutboxRow)] /\ old \in Seq(OutboxRow)
      /\ n \in 1..Len(old) /\ Len(old) \in Nat /\ DOMAIN old = 1..Len(old)
      /\ \A m \in DOMAIN old : old[m].id \in Nat
  <2>1. outbox \in [Device -> Seq(OutboxRow)]
    BY DEF Ready, SyncTyped
  <2>2. old \in Seq(OutboxRow)
    BY <2>1
  <2>3. n \in DOMAIN old
    OBVIOUS
  <2>. HIDE DEF old
  <2>4. Len(old) \in Nat /\ DOMAIN old = 1..Len(old) /\ \A m \in DOMAIN old : old[m] \in OutboxRow
    BY <2>2
  <2>5. \A m \in DOMAIN old : old[m].id \in Nat
    BY <2>4, SyncAssumption DEF OutboxRow
  <2>. QED
    BY <2>1, <2>2, <2>3, <2>4, <2>5
<1>4. outbox'[d] = box /\ \A c \in Device \ {d} : outbox'[c] = outbox[c]
  BY <1>1, <1>3
<1>5. /\ \A k, m \in DOMAIN old : k < m => old[k].id < old[m].id
      /\ \A c \in Device \ {d} : \A m \in DOMAIN outbox[c] : outbox[c][m].id # i
  BY DEF Ready, PushInv, Delivering, BoxesOrdered
<1>. HIDE DEF old
<1>6. ASSUME NEW k \in DOMAIN box
      PROVE  \E m \in DOMAIN old : box[k] = old[m] /\ old[m].id # i
  <2>1. k \in 1..(Len(old) - 1)
    BY <1>1, <1>3
  <2>2. CASE k < n
    <3>1. k \in DOMAIN old /\ n \in DOMAIN old /\ box[k] = old[k]
      BY <1>1, <1>3, <2>1, <2>2
    <3>2. old[k].id < old[n].id /\ i = old[n].id
      BY <1>5, <2>2, <3>1 DEF old
    <3>. QED
      BY <1>3, <3>1, <3>2
  <2>3. CASE ~(k < n)
    <3>1. k + 1 \in DOMAIN old /\ n \in DOMAIN old /\ n < k + 1 /\ box[k] = old[k + 1]
      BY <1>1, <1>3, <2>1, <2>3
    <3>2. old[n].id < old[k + 1].id /\ i = old[n].id
      BY <1>5, <3>1 DEF old
    <3>. QED
      BY <1>3, <3>1, <3>2
  <2>. QED
    BY <2>2, <2>3
<1>7. ASSUME NEW m \in DOMAIN old, old[m].id # i
      PROVE  \E k \in DOMAIN box : box[k] = old[m]
  <2>0. m # n
    BY <1>7 DEF old
  <2>1. CASE m < n
    <3>1. m \in DOMAIN box
      BY <1>1, <1>3, <2>1
    <3>. QED
      BY <1>1, <2>1, <3>1
  <2>2. CASE m > n
    <3>1. m - 1 \in DOMAIN box /\ ~(m - 1 < n) /\ (m - 1) + 1 = m
      BY <1>1, <1>3, <2>2
    <3>. QED
      BY <1>1, <3>1
  <2>. QED
    BY <1>3, <2>0, <2>1, <2>2
<1>8. Waits(d, i) \/ Blocked(d, i)
  BY DEF Waits, Blocked
<1>9. \A k : /\ Waits(d, k)' <=> Waits(d, k) /\ k # i
             /\ Blocked(d, k)' <=> Blocked(d, k) /\ k # i
  <2>. DEFINE has(k, b) == \E m \in DOMAIN box : box[m].id = k /\ box[m].blocked = b
              had(k, b) == \E m \in DOMAIN old : old[m].id = k /\ old[m].blocked = b
  <2>1. \A k, b : has(k, b) <=> had(k, b) /\ k # i
    <3>1. ASSUME NEW k, NEW b, has(k, b) PROVE had(k, b) /\ k # i
      BY <1>6, <3>1
    <3>2. ASSUME NEW k, NEW b, had(k, b), k # i PROVE has(k, b)
      BY <1>7, <3>2
    <3>. QED
      BY <3>1, <3>2
  <2>2. /\ \A m \in DOMAIN old : old[m].blocked \in BOOLEAN
        /\ \A m \in DOMAIN box : box[m].blocked \in BOOLEAN
    <3>1. /\ \A m \in DOMAIN old : old[m] \in OutboxRow
          /\ \A m \in DOMAIN box : box[m] \in OutboxRow
      BY <1>1, <1>3
    <3>. QED
      BY <3>1 DEF OutboxRow
  <2>3. /\ \A k : Blocked(d, k) <=> had(k, TRUE)
        /\ \A k : Waits(d, k) <=> had(k, FALSE)
    BY <2>2 DEF Blocked, Waits, old
  <2>4. /\ \A k : Blocked(d, k)' <=> has(k, TRUE)
        /\ \A k : Waits(d, k)' <=> has(k, FALSE)
    BY <1>4, <2>2 DEF Blocked, Waits
  <2>. HIDE DEF has, had
  <2>. QED
    BY <2>1, <2>3, <2>4
<1>10. \A c \in Device \ {d} : \A k : /\ Waits(c, k)' <=> Waits(c, k) /\ k # i
                                      /\ Blocked(c, k)' <=> Blocked(c, k) /\ k # i
  BY <1>4, <1>5 DEF Waits, Blocked
<1>. QED
  BY <1>2, <1>4, <1>8, <1>9, <1>10

\* The user gives up an edit that waits, or one that was set aside before.
LEMMA DiscardDelivers ==
  ASSUME Ready, Ready', NEW d \in Device, NEW n \in DOMAIN outbox[d], Discard(d, n)
  PROVE  [Delivery!DeliveryNext]_(Delivery!deliveryVars)
<1>. DEFINE E(k) == AsEdit(made[k])
<1>1. PICK i : i = outbox[d][n].id
  OBVIOUS
<1>2. /\ UNCHANGED <<made, log>>
      /\ dropped' = dropped \cup {i}
      /\ \A c \in Device \ {d} : outbox'[c] = outbox[c]
      /\ Waits(d, i) \/ Blocked(d, i)
      /\ \A c \in Device : \A k : /\ Waits(c, k)' <=> Waits(c, k) /\ k # i
                                  /\ Blocked(c, k)' <=> Blocked(c, k) /\ k # i
  BY <1>1, DiscardMoves
<1>3. \A k \in DOMAIN made : E(k) \in Edit /\ E(k).id = k
  BY EditsOf DEF Ready, PushInv
<1>4. /\ \A k : k \in Queued <=> \E c \in Device : Waits(c, k) \/ Blocked(c, k)
      /\ \A k : k \in Refusals <=> \E c \in Device : Blocked(c, k)
      /\ \A k : k \in Queued' <=> \E c \in Device : Waits(c, k)' \/ Blocked(c, k)'
      /\ \A k : k \in Refusals' <=> \E c \in Device : Blocked(c, k)'
  BY HeldIs, HeldIsNext
<1>5. i \in DOMAIN made
  BY <1>2, OnePlace DEF Ready
<1>6. Refusals' = Refusals \ {i} /\ Queued' = Queued \ {i}
  BY <1>2, <1>4
<1>7. Taken' = Taken /\ Gone' = Gone /\ made' = made
  BY <1>2 DEF Taken, Gone
<1>8. /\ Aside' = {E(k) : k \in dropped' \cup Refusals'}
      /\ Aside = {E(k) : k \in dropped \cup Refusals}
      /\ Moot' = {E(k) : k \in DOMAIN made \ (dropped' \cup Taken \cup Queued')}
      /\ Moot = {E(k) : k \in DOMAIN made \ (dropped \cup Taken \cup Queued)}
  BY <1>7 DEF Aside, Moot
<1>9. Lists(Queues[d], Waiting(d)) /\ Lists(Queues'[d], Waiting(d)')
  BY QueuesListedNext DEF Ready, Listed
<1>10. /\ Waiting(d) = {E(k) : k \in {j \in DOMAIN made : Waits(d, j)}}
       /\ Waiting(d)' = {E(k) : k \in {j \in DOMAIN made : Waits(d, j)'}}
  BY <1>7 DEF Waiting
<1>11. \A c \in Device \ {d} : Queues'[c] = Queues[c]
  <2>1. \A c \in Device \ {d} : Pending(c)' = Pending(c)
    BY <1>2 DEF Pending
  <2>. QED
    BY <2>1 DEF Queues
<1>. HIDE DEF E
<1>12. Aside' = Aside \cup {E(i)}
  BY <1>2, <1>6, <1>8
<1>13. Moot' = Moot
  <2>1. i \in Queued
    BY <1>2, <1>4
  <2>2. dropped' \cup Taken \cup Queued' = dropped \cup Taken \cup Queued
    BY <1>2, <1>6, <2>1
  <2>. QED
    BY <1>8, <2>2
<1>14. \A k, j \in DOMAIN made : E(k) = E(j) => k = j
  <2>1. \A k, j \in DOMAIN made : E(k) = E(j) => E(k).id = E(j).id
    OBVIOUS
  <2>. QED
    BY <1>3, <2>1
<1>15. CASE Waits(d, i)
  <2>1. E(i) \in Waiting(d)
    BY <1>5, <1>10, <1>15
  <2>2. PICK m \in DOMAIN Queues[d] : Queues[d][m] = E(i)
    BY <1>9, <2>1 DEF Lists
  <2>3. Waiting(d)' = Waiting(d) \ {E(i)}
    <3>1. E(i) \notin Waiting(d)'
      BY <1>2, <1>5, <1>10, <1>14
    <3>2. \A e \in Waiting(d) : e = E(i) \/ e \in Waiting(d)'
      BY <1>2, <1>10
    <3>3. Waiting(d)' \subseteq Waiting(d)
      BY <1>2, <1>10
    <3>. QED
      BY <3>1, <3>2, <3>3
  <2>4. Queues'[d] = Kept(Queues[d], {k \in DOMAIN Queues[d] : Queues[d][k] \notin {E(i)}})
    <3>. DEFINE q == Queues[d]
                S == Waiting(d)
                Out == {E(i)}
                t == Kept(q, {k \in DOMAIN q : q[k] \notin Out})
    <3>1. Lists(q, S) /\ Waiting(d)' = S \ Out
      BY <1>9, <2>3
    <3>. HIDE DEF q, S, Out
    <3>2. Lists(t, S \ Out)
      BY <3>1, KeptLists
    <3>. HIDE DEF t
    <3>3. Queues'[d] = t
      BY <1>9, <3>1, <3>2, SameList
    <3>. QED
      BY <3>3 DEF q, Out, t
  <2>5. Queues' = [Queues EXCEPT ![d] = Kept(@, {k \in DOMAIN @ : @[k] \notin {E(i)}})]
    BY <1>11, <2>4 DEF Queues
  <2>6. Queues' # Queues
    <3>1. Waiting(d)' # Waiting(d)
      BY <2>1, <2>3
    <3>. QED
      BY <1>9, <3>1 DEF Lists
  <2>7. UNCHANGED <<made, Taken, Gone>>
    BY <1>7
  <2>8. Yielding(d, m)
    BY <1>12, <1>13, <2>2, <2>5, <2>6, <2>7 DEF Yielding
  <2>. QED
    BY <2>8, GiveUpIs
<1>16. CASE Blocked(d, i)
  <2>1. ~Waits(d, i)
    BY <1>16 DEF Ready, Single
  <2>2. Waiting(d)' = Waiting(d)
    BY <1>2, <1>10, <2>1
  <2>3. Queues'[d] = Queues[d]
    BY <1>9, <2>2, SameList
  <2>4. Queues' = Queues
    BY <1>11, <2>3 DEF Queues
  <2>5. Aside' = Aside
    BY <1>4, <1>8, <1>12, <1>16
  <2>. QED
    BY <1>7, <1>13, <2>4, <2>5 DEF Delivery!deliveryVars
<1>. QED
  BY <1>2, <1>15, <1>16

\* What Take asks for.
Taking(e) ==
  /\ e.id \notin Taken
  /\ Taken' = Taken \cup {e.id}
  /\ Moot' = Moot \ {e}
  /\ Gone \subseteq Gone'
  /\ Gone' # Gone => e.op = "delete" /\ e.row \in Gone'
  /\ UNCHANGED <<Queues, made, Aside>>
  /\ (\E d \in Device : e \in FirstsOf(Queues[d])) \/ e \in Aside \cup Moot

\* An entry served is the step Take.
LEMMA TakeIs ==
  ASSUME NEW e, Taking(e)
  PROVE  Delivery!DeliveryNext
<1>1. \A d \in Device : Delivery!Firsts(d) = FirstsOf(Queues[d])
  BY DEF Delivery!Firsts, FirstsOf
<1>2. Delivery!Take(e)
  BY DEF Taking, Delivery!Take
<1>3. Taken' # Taken
  BY DEF Taking
<1>4. (\E d \in Device : e \in Delivery!Firsts(d)) \/ e \in Aside \cup Moot
  BY <1>1 DEF Taking
<1>. QED
  BY <1>2, <1>3, <1>4 DEF Delivery!DeliveryNext

\* Serving an entry adds nothing to the log, or its first record.
LEMMA ServeLogs ==
  ASSUME SyncTyped, pruned = 0, ServeOne
  PROVE  LET e == Head(job.todo)
         IN \/ log' = log
            \/ /\ \A l \in log : l.entry # e.id
               /\ log \subseteq log'
               /\ \E l \in log' : /\ l.entry = e.id
                                  /\ e.op = "delete" => l.row = e.row /\ l.op = "delete"
               /\ \A l \in log' \ log : /\ l.entry \in {e.id, None}
                                        /\ l.op = "delete" => e.op = "delete"
<1>. DEFINE e == Head(job.todo)
            P == \/ log' = log
                 \/ /\ \A l \in log : l.entry # e.id
                    /\ log \subseteq log'
                    /\ \E l \in log' : /\ l.entry = e.id
                                       /\ e.op = "delete" => l.row = e.row /\ l.op = "delete"
                    /\ \A l \in log' \ log : /\ l.entry \in {e.id, None}
                                             /\ l.op = "delete" => e.op = "delete"
<1>1. job.todo # <<>> /\ Serve(e) /\ Bounded
  BY DEF ServeOne, SyncTyped, Bounded
<1>2. Logged(e) = {l \in log : l.entry = e.id}
  <2>1. \A l \in log : l.seq \in 1..head
    BY <1>1 DEF Bounded, LogBounded
  <2>. QED
    BY <2>1, <1>1 DEF Logged, Bounded, TypeOK
<1>. HIDE DEF e
<1>3. ReplyDuplicate(e) \/ ReplyDeferred(e) \/ ReplyRejected(e) \/ ReplyConflict(e)
        \/ ReplyAlreadyDeleted(e) => P
  BY DEF ReplyDuplicate, ReplyDeferred, ReplyRejected, ReplyConflict, ReplyAlreadyDeleted
<1>4. ASSUME Upsert(e) PROVE P
  <2>. DEFINE rec == [seq |-> head + 1, row |-> e.row, op |-> "upsert",
                      fields |-> e.fields, entry |-> e.id, device |-> job.device,
                      lost |-> Overwritten(e)]
  <2>1. log' = log \cup {rec} /\ Logged(e) = {} /\ e.op = "upsert"
    BY <1>4 DEF Upsert, Admitted
  <2>2. rec.entry = e.id /\ rec.op = "upsert"
    OBVIOUS
  <2>. HIDE DEF rec
  <2>. QED
    BY <1>2, <2>1, <2>2
<1>5. ASSUME Tombstone(e) PROVE P
  <2>. DEFINE kids == Children(e.row)
              n == Cardinality(kids)
  <2>1. PICK place \in Bijection(kids, 1..n) :
          log' = log \cup {Removal(e.row, head + 1, e.id)}
                     \cup {Removal(k, head + 1 + place[k], None) : k \in kids}
    BY <1>5 DEF Tombstone
  <2>2. Logged(e) = {} /\ e.op = "delete"
    BY <1>5 DEF Tombstone, Admitted
  <2>3. \A r, seq, i : /\ Removal(r, seq, i).entry = i /\ Removal(r, seq, i).row = r
                       /\ Removal(r, seq, i).op = "delete"
    BY DEF Removal
  <2>. HIDE DEF kids, n
  <2>4. \A l \in log' \ log : l.entry \in {e.id, None}
    BY <2>1, <2>3
  <2>5. \E l \in log' : l.entry = e.id /\ l.row = e.row /\ l.op = "delete"
    BY <2>1, <2>3
  <2>6. log \subseteq log'
    BY <2>1
  <2>. QED
    BY <1>2, <2>2, <2>4, <2>5, <2>6
<1>. HIDE DEF P
<1>6. P
  BY <1>1, <1>3, <1>4, <1>5 DEF Serve
<1>. QED
  BY <1>6 DEF P, e

\* An entry takes effect when it is its turn, or as the late copy of one that left its queue.
LEMMA ServeDelivers ==
  ASSUME Ready, ServeOne
  PROVE  [Delivery!DeliveryNext]_(Delivery!deliveryVars)
<1>. DEFINE E(k) == AsEdit(made[k])
            h == Head(job.todo)
            c == job.device
<1>1. PICK i : i = h.id
  OBVIOUS
<1>2. UNCHANGED <<outbox, made, dropped>>
  BY DEF ServeOne, deviceVars
<1>3. CASE log' = log
  BY <1>2, <1>3, Unseen
<1>4. SUFFICES ASSUME log' # log PROVE [Delivery!DeliveryNext]_(Delivery!deliveryVars)
  BY <1>3
<1>5. /\ SyncTyped /\ PushInv /\ RowsReplayLog /\ pruned = 0
      /\ Recorded /\ Consistent /\ InTurn
  BY DEF Ready, PushInv, Delivering, Recorded
<1>6. /\ \A l \in log : l.entry # i
      /\ log \subseteq log'
      /\ \E l \in log' : /\ l.entry = i
                         /\ h.op = "delete" => l.row = h.row /\ l.op = "delete"
      /\ \A l \in log' \ log : /\ l.entry \in {i, None}
                               /\ l.op = "delete" => h.op = "delete"
  BY <1>1, <1>4, <1>5, ServeLogs
<1>7. c \in Device /\ Flies(c, i) /\ Known(h)
  <2>1. job.todo \in Seq(Entry) /\ job.todo # <<>> /\ c \in Device
    BY <1>5, ServeOneIs
  <2>2. 1 \in DOMAIN job.todo /\ job.todo[1] = h
    BY <2>1
  <2>. QED
    BY <1>1, <1>5, <2>1, <2>2 DEF Flies, Consistent
<1>8. i \in DOMAIN made /\ made[i].row = h.row /\ made[i].op = h.op
  BY <1>1, <1>7 DEF Known
<1>9. \A k \in DOMAIN made : /\ E(k) \in Edit /\ E(k).id = k
                             /\ E(k).row = made[k].row /\ E(k).op = made[k].op
  BY <1>5, EditsOf
<1>10. i # None
  <2>1. made[i].id = i /\ made[i] \in OutboxRow
    BY <1>5, <1>8, MadeTyped DEF Consistent
  <2>. QED
    BY <2>1, RowsAssumption DEF OutboxRow
<1>. HIDE DEF E, h, c
<1>11. \A k, j \in DOMAIN made : E(k) = E(j) => k = j
  <2>1. \A k, j \in DOMAIN made : E(k) = E(j) => E(k).id = E(j).id
    OBVIOUS
  <2>. QED
    BY <1>9, <2>1
<1>12. i \notin Taken /\ Taken' = Taken \cup {i}
  <2>1. i \notin Taken
    BY <1>6 DEF Taken
  <2>2. i \in Taken'
    BY <1>6, <1>10 DEF Taken
  <2>3. Taken \subseteq Taken'
    BY <1>6 DEF Taken
  <2>4. Taken' \subseteq Taken \cup {i}
    BY <1>6 DEF Taken
  <2>. QED
    BY <2>1, <2>2, <2>3, <2>4
<1>13. Gone \subseteq Gone' /\ (Gone' # Gone => made[i].op = "delete" /\ made[i].row \in Gone')
  <2>1. Gone \subseteq Gone'
    BY <1>6 DEF Gone
  <2>2. ASSUME Gone' # Gone PROVE made[i].op = "delete" /\ made[i].row \in Gone'
    <3>1. PICK l \in log' \ log : l.op = "delete"
      BY <2>1, <2>2 DEF Gone
    <3>2. h.op = "delete"
      BY <1>6, <3>1
    <3>3. h.row \in Gone'
      BY <1>6, <3>2 DEF Gone
    <3>. QED
      BY <1>8, <3>2, <3>3
  <2>. QED
    BY <2>1, <2>2
<1>14. Queues' = Queues /\ Queued' = Queued /\ Refusals' = Refusals
  <2>1. Queues' = Queues
    BY <1>2 DEF Queues, Pending
  <2>. QED
    BY <1>2, <2>1 DEF Queued, Refusals, Entries
<1>15. /\ Aside = {E(k) : k \in dropped \cup Refusals}
       /\ Moot' = {E(k) : k \in DOMAIN made \ (dropped \cup Taken' \cup Queued)}
       /\ Moot = {E(k) : k \in DOMAIN made \ (dropped \cup Taken \cup Queued)}
       /\ Aside' = Aside
  BY <1>2, <1>14 DEF Aside, Moot, E
<1>16. Moot' = Moot \ {E(i)}
  <2>1. ASSUME NEW k \in DOMAIN made \ (dropped \cup Taken' \cup Queued)
        PROVE  E(k) \in Moot /\ E(k) # E(i)
    BY <1>8, <1>11, <1>12, <1>15, <2>1
  <2>2. ASSUME NEW k \in DOMAIN made \ (dropped \cup Taken \cup Queued), E(k) # E(i)
        PROVE  E(k) \in Moot'
    <3>1. k # i
      BY <2>2
    <3>. QED
      BY <1>12, <1>15, <2>2, <3>1
  <2>. QED
    BY <1>15, <2>1, <2>2
<1>17. /\ \A k : k \in Queued <=> \E d \in Device : Waits(d, k) \/ Blocked(d, k)
       /\ \A k : k \in Refusals <=> \E d \in Device : Blocked(d, k)
  BY HeldIs
<1>18. (\E d \in Device : E(i) \in FirstsOf(Queues[d])) \/ E(i) \in Aside \cup Moot
  <2>1. CASE Waits(c, i)
    <3>1. Lists(Queues[c], Waiting(c))
      BY <1>7 DEF Ready, Listed
    <3>2. FirstsOf(Queues[c])
            = {e \in Waiting(c) : \A x \in Waiting(c) : x.row = e.row => e.id <= x.id}
      BY <3>1, FirstsAre
    <3>3. Waiting(c) = {E(k) : k \in {j \in DOMAIN made : Waits(c, j)}}
      BY DEF Waiting, E
    <3>4. ASSUME NEW k \in DOMAIN made, Waits(c, k), E(k).row = E(i).row
          PROVE  E(i).id <= E(k).id
      <4>1. made[k].row = made[i].row
        BY <1>8, <1>9, <3>4
      <4>2. i <= k
        BY <1>5, <1>7, <1>8, <3>4, <4>1 DEF InTurn
      <4>. QED
        BY <1>8, <1>9, <4>2
    <3>5. E(i) \in FirstsOf(Queues[c])
      BY <1>8, <2>1, <3>2, <3>3, <3>4
    <3>. QED
      BY <1>7, <3>5
  <2>2. CASE ~Standing(i)
    <3>1. i \in dropped \/ \E d \in Device : Blocked(d, i)
      BY <2>2 DEF Standing, Blocked
    <3>. QED
      BY <1>15, <1>17, <3>1
  <2>3. CASE ~Waits(c, i) /\ Standing(i)
    <3>1. \A d \in Device : ~Waits(d, i)
      BY <1>7, <2>3 DEF Ready, Owners
    <3>2. \A d \in Device : ~Blocked(d, i)
      BY <2>3 DEF Standing, Blocked
    <3>3. i \notin dropped
      BY <2>3 DEF Standing
    <3>. QED
      BY <1>8, <1>12, <1>15, <1>17, <3>1, <3>2, <3>3
  <2>. QED
    BY <2>1, <2>2, <2>3
<1>19. E(i).id = i /\ E(i).row = made[i].row /\ E(i).op = made[i].op
  BY <1>8, <1>9
<1>20. Taking(E(i))
  BY <1>2, <1>12, <1>13, <1>14, <1>15, <1>16, <1>18, <1>19 DEF Taking
<1>. QED
  BY <1>20, TakeIs
----------------------------------------------------------------------------
(***************************************************************************)
(* The mapping holds of every state, and every step is one of EditDelivery. *)
(***************************************************************************)
\* A step that puts nothing more under way, in an outbox or aside.
LEMMA OwnersKept ==
  ASSUME Owners, UNCHANGED <<made, dropped>>,
         \A c \in Device : \A i : /\ Flies(c, i)' => Flies(c, i)
                                  /\ Waits(c, i)' => Waits(c, i)
  PROVE  Owners'
BY DEF Owners

\* New edits are of no request.
LEMMA OwnersEdits ==
  ASSUME Ready, NEW d \in Device, NEW entries, Edits(d, entries)
  PROVE  Owners'
<1>1. /\ UNCHANGED <<dropped, job, inflight>>
      /\ made \in Seq(OutboxRow) /\ entries \in Seq(OutboxRow) /\ made' = made \o entries
      /\ \A c \in Device : \A i :
           Waits(c, i)' =>
             Waits(c, i) \/ (c = d /\ \E n \in DOMAIN entries : i = Len(made) + n)
  <2>1. UNCHANGED <<dropped, job, inflight>>
    BY DEF Edits, EditUnchanged, vars, netVars
  <2>. QED
    BY <2>1, EditsMoves
<1>2. \A c \in Device : \A i : Flies(c, i)' => Flies(c, i)
  BY <1>1 DEF Flies
<1>3. \A c \in Device : \A i : Flies(c, i) => i \in DOMAIN made
  BY DEF Ready, PushInv, Recorded, Consistent, Known, Flies
<1>4. \A n \in DOMAIN entries : Len(made) + n \notin DOMAIN made
  BY <1>1
<1>5. DOMAIN made \subseteq DOMAIN made'
  BY <1>1
<1>6. ASSUME NEW c \in Device, NEW b \in Device, NEW i, Flies(c, i)', Waits(b, i)'
      PROVE  c = b
  <2>1. Flies(c, i) /\ i \in DOMAIN made
    BY <1>2, <1>3, <1>6
  <2>2. Waits(b, i)
    BY <1>1, <1>4, <1>6, <2>1
  <2>. QED
    BY <2>1, <2>2 DEF Ready, Owners
<1>. QED
  BY <1>1, <1>5, <1>6 DEF Ready, Owners

\* What is sent waits at its device, and nowhere else.
LEMMA OwnersTurn ==
  ASSUME Ready, PushInv', NEW d \in Device, NEW rs, NEW box, Turn(d, rs, box)
  PROVE  Owners'
<1>1. /\ UNCHANGED <<made, dropped>>
      /\ \A c \in Device : \A i : Waits(c, i)' => Waits(c, i)
  BY TurnMoves DEF Ready
<1>2. outbox'[d] = box /\ job' = job
  BY DEF Turn, vars, Ready, SyncTyped
<1>3. \/ inflight' = inflight
      \/ \E es :
           /\ inflight' = inflight \cup {[device |-> d, entries |-> es, awaited |-> TRUE]}
           /\ \A n \in DOMAIN es : \E k \in DOMAIN box : es[n].id = box[k].id /\ ~box[k].blocked
  <2>1. Sends(d, box)
    BY DEF Turn
  <2>2. ASSUME inflight' # inflight
        PROVE  \E es : /\ inflight' = inflight \cup {[device |-> d, entries |-> es, awaited |-> TRUE]}
                       /\ \A n \in DOMAIN es : \E k \in DOMAIN box :
                            es[n].id = box[k].id /\ ~box[k].blocked
    <3>1. PICK es \in Seq(Entry) :
             /\ inflight' = inflight \cup {[device |-> d, entries |-> es, awaited |-> TRUE]}
             /\ \A n \in DOMAIN es : \E m \in DOMAIN box :
                  /\ es[n].id = box[m].id /\ es[n].row = box[m].row
                  /\ es[n].op = box[m].op /\ es[n].fields = box[m].fields
                  /\ ~box[m].blocked
                  /\ \A k \in DOMAIN box : ~box[k].blocked /\ box[k].row = box[m].row => m <= k
      BY <2>1, <2>2, Zenon DEF Sends
    <3>2. \A n \in DOMAIN es : \E k \in DOMAIN box : es[n].id = box[k].id /\ ~box[k].blocked
      BY <3>1
    <3>. QED
      BY <3>1, <3>2
  <2>. QED
    BY <2>2, Zenon
<1>4. \A c \in Device : \A i : Flies(c, i)' => Flies(c, i) \/ (c = d /\ Waits(d, i)')
  BY <1>2, <1>3 DEF Flies, Waits
<1>5. ASSUME NEW c \in Device, NEW b \in Device, NEW i, Flies(c, i)', Waits(b, i)'
      PROVE  c = b
  <2>1. CASE Flies(c, i)
    BY <1>1, <1>5, <2>1 DEF Ready, Owners
  <2>2. CASE c = d /\ Waits(d, i)'
    BY <1>5, <2>2 DEF PushInv, Delivering, BoxesOrdered, Waits
  <2>. QED
    BY <1>4, <1>5, <2>1, <2>2
<1>. QED
  BY <1>1, <1>5 DEF Ready, Owners

\* No step lets a request carry what waits at another device.
LEMMA OwnersStep ==
  ASSUME Ready, PushInv', [SyncNext]_allVars
  PROVE  Owners'
<1>. DEFINE Calm == UNCHANGED <<made, dropped, outbox, job, inflight>>
            G == Owners'
<1>1. SyncTyped /\ PushInv /\ Owners
  BY DEF Ready
<1>2. Calm => G
  BY <1>1, OwnersKept DEF Flies, Waits
<1>3. ASSUME UNCHANGED <<made, dropped, outbox>>,
             \A c \in Device : \A i : Flies(c, i)' => Flies(c, i)
      PROVE  G
  <2>1. \A c \in Device : \A i : Waits(c, i)' => Waits(c, i)
    BY <1>3 DEF Waits
  <2>. QED
    BY <1>1, <1>3, <2>1, OwnersKept
<1>4. /\ UNCHANGED allVars => Calm
      /\ \A d \in Device : PullServe(d) \/ Applies(d) \/ Unpause(d) => Calm
      /\ Midnight => Calm
  BY DEF allVars, vars, deviceVars, netVars, PullServe, Applies, Unpause, Midnight, NewDay
<1>5. ASSUME NEW d \in Device, NEW entries, Edits(d, entries) PROVE G
  BY <1>5, OwnersEdits
<1>6. ASSUME NEW d \in Device, NEW n \in DOMAIN outbox[d], Discard(d, n) PROVE G
  <2>1. PICK i : i = outbox[d][n].id
    OBVIOUS
  <2>2. /\ made' = made /\ dropped' = dropped \cup {i} /\ i \in DOMAIN made
        /\ \A c \in Device : \A k : Waits(c, k)' => Waits(c, k)
    BY <1>1, <1>6, <2>1, DiscardMoves, OnePlace
  <2>3. \A c \in Device : \A k : Flies(c, k)' => Flies(c, k)
    BY <1>6 DEF Discard, vars, netVars, Flies
  <2>. QED
    BY <1>1, <2>2, <2>3 DEF Owners
<1>7. ASSUME NEW d \in Device, NEW rs, NEW box, Turn(d, rs, box) PROVE G
  BY <1>7, OwnersTurn
<1>8. ASSUME NEW d \in Device, Abort(d) PROVE G
  <2>. DEFINE lone(m) == IF m.device = d THEN [m EXCEPT !.awaited = FALSE] ELSE m
  <2>1. inflight' = {lone(m) : m \in inflight} /\ UNCHANGED <<made, dropped, outbox, job>>
    BY <1>8 DEF Abort, vars
  <2>2. \A m \in inflight : m \in [device: Device, entries: Seq(Entry), awaited: BOOLEAN]
    BY <1>1 DEF SyncTyped, SyncTypeOK
  <2>3. \A m \in inflight : lone(m).device = m.device /\ lone(m).entries = m.entries
    BY <2>2
  <2>. HIDE DEF lone
  <2>4. \A c \in Device : \A i : Flies(c, i)' => Flies(c, i)
    BY <2>1, <2>3 DEF Flies
  <2>. QED
    BY <1>3, <2>1, <2>4
<1>9. ASSUME NEW m \in inflight, Deliver(m) PROVE G
  <2>1. /\ job' = [device |-> m.device, todo |-> m.entries, results |-> <<>>]
        /\ inflight' = inflight \ {m} /\ UNCHANGED <<made, dropped, outbox>>
    BY <1>9 DEF Deliver, PushBegin, deviceVars
  <2>2. \A c \in Device : \A i : Flies(c, i)' => Flies(c, i)
    BY <2>1 DEF Flies
  <2>. QED
    BY <1>3, <2>1, <2>2
<1>10. ServeOne => G
  <2>. SUFFICES ASSUME ServeOne PROVE G
    OBVIOUS
  <2>1. /\ job.todo \in Seq(Entry) /\ job.todo # <<>>
        /\ job'.device = job.device /\ job'.todo = Tail(job.todo)
    BY <1>1, ServeOneIs DEF PushInv
  <2>2. UNCHANGED <<made, dropped, outbox, inflight>>
    BY DEF ServeOne, deviceVars, netVars
  <2>3. \A n \in DOMAIN Tail(job.todo) :
          \E m \in DOMAIN job.todo : Tail(job.todo)[n] = job.todo[m]
    <3>1. \A n \in DOMAIN Tail(job.todo) :
            n + 1 \in DOMAIN job.todo /\ Tail(job.todo)[n] = job.todo[n + 1]
      BY <2>1
    <3>. QED
      BY <3>1
  <2>4. \A c \in Device : \A i : Flies(c, i)' => Flies(c, i)
    BY <2>1, <2>2, <2>3 DEF Flies
  <2>. QED
    BY <1>3, <2>2, <2>4
<1>11. Answer => G
  <2>. SUFFICES ASSUME Answer PROVE G
    OBVIOUS
  <2>1. job' = Idle /\ UNCHANGED <<made, dropped, outbox, inflight>>
    BY DEF Answer, PushEnd
  <2>2. Idle.todo = <<>> /\ DOMAIN <<>> = {}
    BY DEF Idle
  <2>3. \A c \in Device : \A i : Flies(c, i)' => Flies(c, i)
    BY <2>1, <2>2 DEF Flies
  <2>. QED
    BY <1>3, <2>1, <2>3
<1>. HIDE DEF Calm, G
<1>12. G
  BY <1>1, <1>2, <1>4, <1>5, <1>6, <1>7, <1>8, <1>9, <1>10, <1>11, SyncCases
<1>. QED
  BY <1>12 DEF G

\* An edit waits or is set aside, and the queues list those that wait.
LEMMA ReadyIs ==
  ASSUME SyncTyped, PushInv, Owners
  PROVE  Ready
<1>1. Single
  BY OnePlace DEF Single
<1>. QED
  BY <1>1, QueuesListed DEF Ready

\* At first nothing waits.
LEMMA ReadyInit == SyncInit => Owners
<1>. SUFFICES ASSUME SyncInit PROVE Owners
  OBVIOUS
<1>1. /\ dropped = {} /\ \A d \in Device : outbox[d] = <<>>
  BY DEF SyncInit
<1>2. DOMAIN <<>> = {}
  OBVIOUS
<1>. QED
  BY <1>1, <1>2 DEF Owners, Waits

\* The mapping rests on what holds of every state.
LEMMA ReadyAlways == SyncSpec => []Ready
<1>1. SyncTyped /\ PushInv /\ PushInv' /\ Owners /\ [SyncNext]_allVars => Owners'
  BY ReadyIs, OwnersStep
<1>2. SyncTyped /\ PushInv /\ Owners => Ready
  BY ReadyIs
<1>. QED
  BY <1>1, <1>2, ReadyInit, PushAlways, SyncTypedAlways, PTL DEF SyncSpec

\* Every step is one of EditDelivery, or does not show there.
LEMMA DeliveryStep ==
  ASSUME Ready, Ready', [SyncNext]_allVars
  PROVE  [Delivery!DeliveryNext]_(Delivery!deliveryVars)
<1>. DEFINE Calm == UNCHANGED <<outbox, made, dropped, log>>
            P == [Delivery!DeliveryNext]_(Delivery!deliveryVars)
<1>1. Calm => P
  BY Unseen
<1>2. /\ UNCHANGED allVars => Calm
      /\ \A d \in Device : PullServe(d) \/ Applies(d) \/ Abort(d) \/ Unpause(d) => Calm
      /\ Midnight \/ Answer => Calm
      /\ \A m \in inflight : Deliver(m) => Calm
  BY DEF allVars, vars, deviceVars, PullServe, Applies, Abort, Unpause, Midnight, NewDay,
     Answer, PushEnd, Deliver, PushBegin
<1>3. ASSUME NEW d \in Device, NEW entries, Edits(d, entries) PROVE P
  BY <1>3, EditsDeliver
<1>4. ASSUME NEW d \in Device, NEW n \in DOMAIN outbox[d], Discard(d, n) PROVE P
  BY <1>4, DiscardDelivers
<1>5. ASSUME NEW d \in Device, NEW rs, NEW box, Turn(d, rs, box) PROVE P
  BY <1>5, TurnDelivers
<1>6. ServeOne => P
  BY ServeDelivers
<1>7. SyncTyped
  BY DEF Ready
<1>. HIDE DEF Calm, P
<1>8. P
  BY <1>1, <1>2, <1>3, <1>4, <1>5, <1>6, <1>7, SyncCases
<1>. QED
  BY <1>8 DEF P

\* At first EditDelivery has nothing queued.
LEMMA DeliveryStarts == SyncInit => Delivery!DeliveryInit
<1>. SUFFICES ASSUME SyncInit PROVE Delivery!DeliveryInit
  OBVIOUS
<1>1. /\ log = {} /\ made = <<>> /\ dropped = {}
      /\ \A d \in Device : outbox[d] = <<>>
  BY DEF SyncInit, Init
<1>2. DOMAIN <<>> = {} /\ Len(<<>>) = 0
  OBVIOUS
<1>3. Entries = {}
  BY <1>1, <1>2 DEF Entries
<1>4. Refusals = {} /\ Queued = {} /\ Taken = {} /\ Gone = {}
  BY <1>1, <1>3 DEF Refusals, Queued, Taken, Gone
<1>5. Aside = {} /\ Moot = {}
  BY <1>1, <1>2, <1>4 DEF Aside, Moot
<1>6. Queues = [d \in Device |-> <<>>]
  <2>1. ASSUME NEW d \in Device PROVE Queues[d] = <<>>
    <3>1. Pending(d) = <<>>
      <4>1. Pending(d) = Kept(<<>>, {})
        BY <1>1, <1>2 DEF Pending, PendingOf
      <4>2. Kept(<<>>, {}) \in Seq(OutboxRow) /\ Len(Kept(<<>>, {})) = Cardinality({})
        <5>1. <<>> \in Seq(OutboxRow) /\ {} \subseteq DOMAIN <<>>
          OBVIOUS
        <5>. QED
          BY <5>1, KeptOf
      <4>3. Cardinality({}) = 0
        BY FS_EmptySet
      <4>. QED
        BY <4>1, <4>2, <4>3
    <3>2. Queues[d] = [n \in DOMAIN <<>> |-> AsEdit(<<>>[n])]
      BY <3>1 DEF Queues
    <3>. QED
      BY <1>2, <3>2
  <2>. QED
    BY <2>1 DEF Queues
<1>. QED
  BY <1>1, <1>2, <1>4, <1>5, <1>6 DEF Delivery!DeliveryInit

(* The row channel delivers: whatever devices, network and vault do, each step of theirs    *)
(* is one of EditDelivery or does not show in the queues and the log, so that edits take   *)
(* effect once, in order, and leave their queues only for a reason the user sees.          *)
THEOREM EditsReachVault == SyncSpec => EditsDelivered
<1>1. Ready /\ Ready' /\ [SyncNext]_allVars => [Delivery!DeliveryNext]_(Delivery!deliveryVars)
  BY DeliveryStep
<1>. QED
  BY <1>1, ReadyAlways, DeliveryStarts, PTL DEF SyncSpec, EditsDelivered, Delivery!DeliverySpec
----------------------------------------------------------------------------
(***************************************************************************)
(* What a device shows when it has nothing to send.  The columns of a row  *)
(* that is as new as the vault's are the vault's or the device's own, and  *)
(* an edit of the device's own that hangs on locally is still queued, was  *)
(* discarded, or is in the log; an answer about it that is on its way says *)
(* nothing of a row the device has pulled past it.                         *)
(***************************************************************************)
Held(d, i) == Waits(d, i) \/ Blocked(d, i)

\* An entry has the columns of its edit.
Same(e) == made[e.id].fields = e.fields

\* A record of an edit says what the edit says, and of its device while it waits.
FromEdit(l) ==
  /\ l.op = made[l.entry].op
  /\ l.op = "upsert" => l.fields = made[l.entry].fields
  /\ \A d \in Device : Waits(d, l.entry) => l.device = d

Faithful ==
  /\ \A d \in Device : \A n \in DOMAIN outbox[d] : Same(outbox[d][n])
  /\ \A m \in inflight : \A n \in DOMAIN m.entries : Same(m.entries[n])
  /\ \A n \in DOMAIN job.todo : Same(job.todo[n])
  /\ \A l \in log : l.entry # None => FromEdit(l)

\* Device d will handle the result x.
Hears(d, x) ==
  \/ \E n \in DOMAIN sync[d].results : sync[d].results[n] = x
  \/ answered /\ job.device = d /\ \E n \in DOMAIN job.results : job.results[n] = x

\* A result acknowledges an edit that has no record when it found the row deleted; the row is
\* deleted still, or newer than the device has it.
MootKnown ==
  \A d \in Device : \A x :
    Hears(d, x) /\ Acked(x) /\ x.id \notin Taken =>
      row[x.row].deleted \/ local[d][x.row].version < row[x.row].version

\* A page on its way has a row as the vault has it, or an older version.
PagesTrue ==
  \A d \in Device : sync[d].phase = "apply" =>
    \A r \in DOMAIN sync[d].page.changes :
      sync[d].page.changes[r].version = row[r].version => sync[d].page.changes[r] = row[r]

\* Edit i of device d wrote column f of row r: it is queued, was discarded, or took effect.
OwnWrite(d, r, f, i) ==
  /\ i \in DOMAIN made /\ made[i].row = r /\ made[i].op = "upsert" /\ f \in made[i].fields
  /\ Held(d, i) \/ i \in dropped \/ \E l \in Writes(r, f) : l.entry = i /\ l.device = d

\* An edit of row r that makes it deleted, or live, is queued at d and not taken, or one of
\* the row was discarded.
Undecided(d, r, deleted) ==
  \E i \in DOMAIN made :
    /\ made[i].row = r
    /\ \/ Held(d, i) /\ i \notin Taken /\ (made[i].op = "delete" <=> deleted)
       \/ i \in dropped

\* As far as d is as new as the vault it agrees with it, but for edits of its own.
Agrees(d, r) ==
  local[d][r].version = row[r].version =>
    /\ \A f \in Field : \/ local[d][r].val[f] = row[r].val[f]
                        \/ OwnWrite(d, r, f, local[d][r].val[f])
    /\ (local[d][r].deleted <=> row[r].deleted) \/ Undecided(d, r, local[d][r].deleted)

\* An edit that brought row r about: queued at d, discarded, or taken.
Founding(d, r) ==
  \E i \in DOMAIN made : /\ made[i].row = r /\ made[i].op = "upsert"
                         /\ Held(d, i) \/ i \in dropped \/ i \in Taken

\* A row of a device was pulled, or one of its edits brought it about.
Founded(d, r) ==
  /\ local[d][r].version # 0 => local[d][r].exists
  /\ local[d][r].exists /\ local[d][r].version = 0 => Founding(d, r)

Shown == \A d \in Device : \A r \in Row : Agrees(d, r) /\ Founded(d, r)
----------------------------------------------------------------------------
\* Handling results, an edit leaves the outbox for one that acknowledges it.
LEMMA TurnLeaves ==
  ASSUME SyncTyped, PushInv, NEW d \in Device, NEW rs, NEW box, Turn(d, rs, box),
         NEW i, Waits(d, i), ~Held(d, i)'
  PROVE  \E n \in DOMAIN sync[d].results :
           sync[d].results[n].id = i /\ Acked(sync[d].results[n])
<1>1. /\ rs \subseteq Range(sync[d].results) /\ Settles(outbox[d], rs, box)
      /\ outbox'[d] = box
  BY DEF Turn, SyncTyped
<1>2. PICK m \in DOMAIN outbox[d] : outbox[d][m].id = i
  BY DEF Waits
<1>3. \A k \in DOMAIN box : box[k].id # i
  BY <1>1 DEF Held, Waits, Blocked
<1>4. \E x \in rs : Acked(x) /\ x.id = i
  BY <1>1, <1>2, <1>3 DEF Settles
<1>. QED
  BY <1>1, <1>4 DEF Range

\* What happens to entries of an outbox in a turn.
LEMMA TurnFields ==
  ASSUME SyncTyped, NEW d \in Device, NEW rs, NEW box, Turn(d, rs, box)
  PROVE  \A k \in DOMAIN box : \E m \in DOMAIN outbox[d] :
           box[k].id = outbox[d][m].id /\ box[k].fields = outbox[d][m].fields
BY DEF Turn, Settles

\* A record of an edit of d that waits is one of d.
LEMMA Recording ==
  ASSUME Faithful, NEW d \in Device, NEW i, Waits(d, i), NEW l \in log, l.entry = i, i # None
  PROVE  /\ l.device = d /\ l.op = made[i].op
         /\ l.op = "upsert" => l.fields = made[i].fields
BY DEF Faithful, FromEdit
----------------------------------------------------------------------------
\* New edits are queued with their columns.
LEMMA FaithfulEdits ==
  ASSUME Ready, Faithful, NEW d \in Device, NEW entries, Edits(d, entries)
  PROVE  Faithful'
<1>1. /\ outbox' = [outbox EXCEPT ![d] = @ \o entries]
      /\ UNCHANGED <<inflight, job, log>>
      /\ outbox \in [Device -> Seq(OutboxRow)]
  BY DEF Edits, EditUnchanged, vars, netVars, Ready, SyncTyped
<1>2. /\ entries \in Seq(OutboxRow) /\ made \in Seq(OutboxRow) /\ made' = made \o entries
      /\ \A n \in DOMAIN entries : entries[n].id = Len(made) + n
      /\ \A c \in Device : \A i :
           Waits(c, i)' =>
             Waits(c, i) \/ (c = d /\ \E n \in DOMAIN entries : i = Len(made) + n)
  BY EditsMoves
<1>3. /\ \A i \in DOMAIN made : made'[i] = made[i]
      /\ \A n \in DOMAIN entries : made'[Len(made) + n] = entries[n]
                                   /\ Len(made) + n \notin DOMAIN made
  BY <1>2
<1>4. Consistent
  BY DEF Ready, PushInv, Recorded
<1>5. ASSUME NEW c \in Device, NEW n \in DOMAIN outbox'[c] PROVE Same(outbox[c][n])'
  <2>1. CASE c # d
    <3>1. outbox'[c] = outbox[c] /\ Known(outbox[c][n]) /\ Same(outbox[c][n])
      BY <1>1, <1>4, <1>5, <2>1 DEF Consistent, Faithful
    <3>. QED
      BY <1>3, <3>1 DEF Same, Known
  <2>2. CASE c = d
    <3>1. outbox'[d] = outbox[d] \o entries /\ outbox[d] \in Seq(OutboxRow)
      BY <1>1
    <3>2. \/ n \in DOMAIN outbox[d] /\ outbox'[d][n] = outbox[d][n]
          \/ \E k \in DOMAIN entries : outbox'[d][n] = entries[k]
      <4>1. n \in 1..(Len(outbox[d]) + Len(entries))
        BY <1>2, <1>5, <2>2, <3>1
      <4>2. n <= Len(outbox[d]) => n \in DOMAIN outbox[d] /\ outbox'[d][n] = outbox[d][n]
        BY <1>2, <3>1, <4>1
      <4>3. n > Len(outbox[d]) => /\ n - Len(outbox[d]) \in DOMAIN entries
                                  /\ outbox'[d][n] = entries[n - Len(outbox[d])]
        BY <1>2, <3>1, <4>1
      <4>. QED
        BY <3>1, <4>1, <4>2, <4>3
    <3>3. CASE n \in DOMAIN outbox[d] /\ outbox'[d][n] = outbox[d][n]
      <4>1. Known(outbox[d][n]) /\ Same(outbox[d][n])
        BY <1>4, <3>3 DEF Consistent, Faithful
      <4>. QED
        BY <1>3, <2>2, <3>3, <4>1 DEF Same, Known
    <3>4. ASSUME NEW k \in DOMAIN entries, outbox'[d][n] = entries[k]
          PROVE  Same(outbox[c][n])'
      <4>1. made'[entries[k].id] = entries[k]
        BY <1>2, <1>3
      <4>. QED
        BY <2>2, <3>4, <4>1 DEF Same
    <3>. QED
      BY <3>2, <3>3, <3>4
  <2>. QED
    BY <2>1, <2>2
<1>6. ASSUME NEW m \in inflight', NEW n \in DOMAIN m.entries PROVE Same(m.entries[n])'
  <2>1. Known(m.entries[n]) /\ Same(m.entries[n])
    BY <1>1, <1>4, <1>6 DEF Consistent, Faithful
  <2>. QED
    BY <1>3, <2>1 DEF Same, Known
<1>7. ASSUME NEW n \in DOMAIN job'.todo PROVE Same(job.todo[n])'
  <2>1. Known(job.todo[n]) /\ Same(job.todo[n]) /\ job' = job
    BY <1>1, <1>4, <1>7 DEF Consistent, Faithful
  <2>. QED
    BY <1>3, <2>1 DEF Same, Known
<1>8. ASSUME NEW l \in log', l.entry # None PROVE FromEdit(l)'
  <2>1. l.entry \in DOMAIN made /\ FromEdit(l)
    BY <1>1, <1>4, <1>8 DEF Consistent, Faithful
  <2>2. \A c \in Device : Waits(c, l.entry)' => Waits(c, l.entry)
    BY <1>2, <1>3, <2>1
  <2>. QED
    BY <1>3, <2>1, <2>2 DEF FromEdit
<1>. QED
  BY <1>5, <1>6, <1>7, <1>8 DEF Faithful

\* A turn of the push loop sends columns as they are queued.
LEMMA FaithfulTurn ==
  ASSUME Ready, Faithful, NEW d \in Device, NEW rs, NEW box, Turn(d, rs, box)
  PROVE  Faithful'
<1>1. /\ UNCHANGED <<made, log, job>> /\ outbox'[d] = box
      /\ \A c \in Device \ {d} : outbox'[c] = outbox[c]
      /\ \A c \in Device : \A i : Waits(c, i)' => Waits(c, i)
  <2>1. UNCHANGED job /\ outbox'[d] = box
    BY DEF Turn, vars, Ready, SyncTyped
  <2>. QED
    BY <2>1, TurnMoves DEF Ready
<1>2. \A k \in DOMAIN box : Same(box[k])
  <2>1. ASSUME NEW k \in DOMAIN box PROVE Same(box[k])
    <3>1. PICK m \in DOMAIN outbox[d] :
            box[k].id = outbox[d][m].id /\ box[k].fields = outbox[d][m].fields
      BY TurnFields DEF Ready
    <3>. QED
      BY <3>1 DEF Faithful, Same
  <2>. QED
    BY <2>1
<1>3. \/ inflight' = inflight
      \/ \E es :
           /\ inflight' = inflight \cup {[device |-> d, entries |-> es, awaited |-> TRUE]}
           /\ \A n \in DOMAIN es : Same(es[n])
  <2>1. Sends(d, box)
    BY DEF Turn
  <2>2. ASSUME inflight' # inflight
        PROVE  \E es : /\ inflight' = inflight \cup {[device |-> d, entries |-> es, awaited |-> TRUE]}
                       /\ \A n \in DOMAIN es : Same(es[n])
    <3>1. PICK es \in Seq(Entry) :
             /\ inflight' = inflight \cup {[device |-> d, entries |-> es, awaited |-> TRUE]}
             /\ \A n \in DOMAIN es : \E m \in DOMAIN box :
                  /\ es[n].id = box[m].id /\ es[n].row = box[m].row
                  /\ es[n].op = box[m].op /\ es[n].fields = box[m].fields
                  /\ ~box[m].blocked
                  /\ \A k \in DOMAIN box : ~box[k].blocked /\ box[k].row = box[m].row => m <= k
      BY <2>1, <2>2, Zenon DEF Sends
    <3>2. \A n \in DOMAIN es : Same(es[n])
      BY <1>2, <3>1 DEF Same
    <3>. QED
      BY <3>1, <3>2
  <2>. QED
    BY <2>2, Zenon
<1>4. \A c \in Device : \A n \in DOMAIN outbox'[c] : Same(outbox'[c][n])
  BY <1>1, <1>2 DEF Faithful
<1>5. \A m \in inflight' : \A n \in DOMAIN m.entries : Same(m.entries[n])
  BY <1>3 DEF Faithful
<1>6. \A l \in log' : l.entry # None => FromEdit(l)'
  BY <1>1 DEF Faithful, FromEdit
<1>. QED
  BY <1>1, <1>4, <1>5, <1>6 DEF Faithful, Same

\* What is thrown away, moved along or copied keeps its columns.
LEMMA FaithfulKept ==
  ASSUME Faithful, UNCHANGED <<made, log>>,
         \A c \in Device : \A n \in DOMAIN outbox'[c] : \E m \in DOMAIN outbox[c] :
           outbox'[c][n] = outbox[c][m],
         \A k \in inflight' : \E m \in inflight : k.entries = m.entries,
         job' = job \/ job'.todo = <<>> \/ \E m \in inflight : job'.todo = m.entries
  PROVE  Faithful'
<1>1. \A c \in Device : \A n \in DOMAIN outbox'[c] : Same(outbox'[c][n])
  BY DEF Faithful
<1>2. \A m \in inflight' : \A n \in DOMAIN m.entries : Same(m.entries[n])
  BY DEF Faithful
<1>3. \A n \in DOMAIN job'.todo : Same(job'.todo[n])
  <2>1. DOMAIN <<>> = {}
    OBVIOUS
  <2>. QED
    BY <2>1 DEF Faithful
<1>4. \A c \in Device : \A i : Waits(c, i)' => Waits(c, i)
  BY DEF Waits
<1>5. \A l \in log' : l.entry # None => FromEdit(l)'
  BY <1>4 DEF Faithful, FromEdit
<1>. QED
  BY <1>1, <1>2, <1>3, <1>5 DEF Faithful, Same

\* The vault records of an edit what its device sent.
LEMMA FaithfulServe ==
  ASSUME Ready, Faithful, ServeOne
  PROVE  Faithful'
<1>. DEFINE e == Head(job.todo)
<1>1. /\ job.todo \in Seq(Entry) /\ job.todo # <<>> /\ job.device \in Device
      /\ job'.todo = Tail(job.todo)
      /\ \A l \in log' : l \in log \/
           (l.entry # None => /\ l.entry = e.id /\ l.row = e.row /\ l.op = e.op
                              /\ l.op = "upsert" => l.fields = e.fields
                              /\ l.device = job.device)
  BY ServeOneIs DEF Ready, PushInv
<1>2. UNCHANGED <<made, outbox, inflight>>
  BY DEF ServeOne, deviceVars, netVars
<1>3. 1 \in DOMAIN job.todo /\ e = job.todo[1]
      /\ \A n \in DOMAIN Tail(job.todo) : n + 1 \in DOMAIN job.todo
                                          /\ Tail(job.todo)[n] = job.todo[n + 1]
  BY <1>1
<1>4. Known(e) /\ Same(e) /\ \A n \in DOMAIN job'.todo : Same(job'.todo[n])
  BY <1>1, <1>3 DEF Ready, PushInv, Recorded, Consistent, Faithful
<1>5. Flies(job.device, e.id)
  BY <1>3 DEF Flies
<1>6. \A c \in Device : Waits(c, e.id) => c = job.device
  BY <1>1, <1>5 DEF Ready, Owners
<1>. HIDE DEF e
<1>7. ASSUME NEW l \in log', l.entry # None PROVE FromEdit(l)'
  <2>1. \A c \in Device : \A i : Waits(c, i)' <=> Waits(c, i)
    BY <1>2 DEF Waits
  <2>2. CASE l \in log
    BY <1>2, <1>7, <2>1, <2>2 DEF Faithful, FromEdit
  <2>3. CASE l \notin log
    <3>1. /\ l.entry = e.id /\ l.op = e.op /\ l.device = job.device
          /\ l.op = "upsert" => l.fields = e.fields
      BY <1>1, <1>7, <2>3
    <3>. QED
      BY <1>2, <1>4, <1>6, <2>1, <3>1 DEF FromEdit, Known, Same
  <2>. QED
    BY <2>2, <2>3
<1>. QED
  BY <1>2, <1>4, <1>7 DEF Faithful, Same

\* No step puts other columns under an edit's id.
LEMMA FaithfulStep ==
  ASSUME Ready, Faithful, [SyncNext]_allVars
  PROVE  Faithful'
<1>. DEFINE G == Faithful'
            Calm == UNCHANGED <<made, log, outbox, inflight>> /\ (job' = job \/ job'.todo = <<>>)
<1>1. Calm => G
  BY FaithfulKept
<1>2. /\ UNCHANGED allVars => Calm
      /\ \A d \in Device : PullServe(d) \/ Applies(d) \/ Unpause(d) => Calm
      /\ Midnight => Calm
  BY DEF allVars, vars, deviceVars, netVars, PullServe, Applies, Unpause, Midnight, NewDay
<1>3. Answer => Calm
  BY DEF Answer, PushEnd, Idle
<1>4. ASSUME NEW d \in Device, NEW entries, Edits(d, entries) PROVE G
  BY <1>4, FaithfulEdits
<1>5. ASSUME NEW d \in Device, NEW n \in DOMAIN outbox[d], Discard(d, n) PROVE G
  <2>1. PICK box \in Seq(OutboxRow) :
          /\ outbox' = [outbox EXCEPT ![d] = box]
          /\ Len(box) = Len(outbox[d]) - 1
          /\ \A k \in DOMAIN box : box[k] = IF k < n THEN outbox[d][k] ELSE outbox[d][k + 1]
    BY <1>5, DiscardIs DEF Ready, SyncTyped
  <2>2. outbox \in [Device -> Seq(OutboxRow)] /\ UNCHANGED <<made, log, inflight, job>>
    BY <1>5 DEF Ready, SyncTyped, Discard, vars, netVars
  <2>3. \A k \in DOMAIN box : \E m \in DOMAIN outbox[d] : box[k] = outbox[d][m]
    <3>1. outbox[d] \in Seq(OutboxRow) /\ n \in DOMAIN outbox[d]
      BY <2>2
    <3>2. ASSUME NEW k \in DOMAIN box PROVE k \in DOMAIN outbox[d] /\ k + 1 \in DOMAIN outbox[d]
      BY <2>1, <3>1
    <3>. QED
      BY <2>1, <3>2
  <2>4. \A c \in Device : \A k \in DOMAIN outbox'[c] : \E m \in DOMAIN outbox[c] :
          outbox'[c][k] = outbox[c][m]
    BY <2>1, <2>2, <2>3
  <2>. QED
    BY <2>2, <2>4, FaithfulKept
<1>6. ASSUME NEW d \in Device, NEW rs, NEW box, Turn(d, rs, box) PROVE G
  BY <1>6, FaithfulTurn
<1>7. ASSUME NEW d \in Device, Abort(d) PROVE G
  <2>. DEFINE lone(m) == IF m.device = d THEN [m EXCEPT !.awaited = FALSE] ELSE m
  <2>1. inflight' = {lone(m) : m \in inflight} /\ UNCHANGED <<made, log, outbox, job>>
    BY <1>7 DEF Abort, vars
  <2>2. \A m \in inflight : m \in [device: Device, entries: Seq(Entry), awaited: BOOLEAN]
    BY DEF Ready, SyncTyped, SyncTypeOK
  <2>3. \A m \in inflight : lone(m).entries = m.entries
    BY <2>2
  <2>. HIDE DEF lone
  <2>. QED
    BY <2>1, <2>3, FaithfulKept
<1>8. ASSUME NEW m \in inflight, Deliver(m) PROVE G
  <2>1. /\ job'.todo = m.entries
        /\ inflight' = inflight \ {m} /\ UNCHANGED <<made, log, outbox>>
    BY <1>8 DEF Deliver, PushBegin, deviceVars
  <2>. QED
    BY <2>1, FaithfulKept
<1>9. ServeOne => G
  BY FaithfulServe
<1>10. SyncTyped
  BY DEF Ready
<1>. HIDE DEF Calm, G
<1>11. G
  BY <1>1, <1>2, <1>3, <1>4, <1>5, <1>6, <1>7, <1>8, <1>9, <1>10, SyncCases
<1>. QED
  BY <1>11 DEF G
----------------------------------------------------------------------------
\* The results a device hears of are results.
LEMMA HearsTyped ==
  ASSUME SyncTyped, NEW d \in Device, NEW x, Hears(d, x)
  PROVE  x \in Result /\ x.row \in Row
<1>1. sync[d].results \in Seq(Result)
  BY ResultsTyped
<1>2. job.results \in Seq(Result)
  <2>1. job \in {Idle} \cup [device: Device, todo: Seq(Entry), results: Seq(Result)]
    BY DEF SyncTyped, Bounded, TypeOK
  <2>2. Idle.results \in Seq(Result)
    BY DEF Idle
  <2>. QED
    BY <2>1, <2>2
<1>3. x \in Result
  BY <1>1, <1>2 DEF Hears
<1>. QED
  BY <1>3 DEF Result

(* What a step leaves of the log, of the pages on their way, and of the results a device    *)
(* hears of: it has them from before, with its rows as old as then, or the vault has just   *)
(* given one.                                                                               *)
Stays ==
  /\ log \subseteq log'
  /\ \A d \in Device : sync'[d].phase = "apply" =>
       sync'[d] = sync[d] \/ (row' = row /\ sync'[d].page = Page(lastSeq[d]))
  /\ \A d \in Device : \A x : Hears(d, x)' =>
       \/ Hears(d, x) /\ \A r \in Row : local'[d][r].version = local[d][r].version
       \/ Acked(x) => x.id \in Taken' \/ row'[x.row].deleted

\* A step that does not touch rows, log and answers.
LEMMA StaysQuiet ==
  ASSUME UNCHANGED <<log, job, answered>>,
         \A d \in Device : \A r \in Row : local'[d][r].version = local[d][r].version,
         \A d \in Device : \/ sync'[d] = sync[d]
                           \/ sync'[d].results = <<>> /\ sync'[d].phase # "apply"
  PROVE  Stays
<1>1. DOMAIN <<>> = {}
  OBVIOUS
<1>2. ASSUME NEW d \in Device, NEW x, Hears(d, x)' PROVE Hears(d, x)
  BY <1>1, <1>2 DEF Hears
<1>. QED
  BY <1>2 DEF Stays

\* Only the vault gives results, and only a page makes rows of a device newer.
LEMMA StaysStep ==
  ASSUME Ready, [SyncNext]_allVars
  PROVE  Stays
<1>. DEFINE Quiet == /\ UNCHANGED <<log, job, answered>>
                     /\ \A d \in Device : \A r \in Row :
                          local'[d][r].version = local[d][r].version
                     /\ \A d \in Device : \/ sync'[d] = sync[d]
                                          \/ sync'[d].results = <<>> /\ sync'[d].phase # "apply"
<1>1. /\ sync \in [Device -> Run] /\ local \in [Device -> [Row -> LocalRow]]
      /\ SyncTyped /\ DOMAIN <<>> = {}
  BY DEF Ready, SyncTyped, SyncTypeOK
<1>2. Quiet => Stays
  BY StaysQuiet
<1>3. UNCHANGED allVars => Quiet
  BY DEF allVars, vars, netVars, deviceVars
<1>4. ASSUME NEW d \in Device, NEW entries, Edits(d, entries) PROVE Quiet
  <2>1. PICK mine \in [Row -> LocalRow] :
          /\ local' = [local EXCEPT ![d] = mine]
          /\ \A r \in Row : mine[r].version = local[d][r].version
    BY <1>4 DEF Edits
  <2>2. UNCHANGED <<log, job, answered, sync>>
    BY <1>4 DEF Edits, EditUnchanged, vars, netVars
  <2>3. ASSUME NEW c \in Device, NEW r \in Row
        PROVE  local'[c][r].version = local[c][r].version
    BY <1>1, <2>1
  <2>. QED
    BY <2>2, <2>3
<1>5. ASSUME NEW d \in Device, NEW n \in DOMAIN outbox[d], Discard(d, n) PROVE Quiet
  BY <1>5 DEF Discard, vars, netVars
<1>6. ASSUME NEW d \in Device, NEW phase \in {"idle", "pushing", "pull"},
             sync' = [sync EXCEPT ![d] = [phase |-> phase, results |-> <<>>, page |-> <<>>]],
             NEW c \in Device
      PROVE  sync'[c] = sync[c] \/ (sync'[c].results = <<>> /\ sync'[c].phase # "apply")
  BY <1>1, <1>6
<1>7. ASSUME NEW d \in Device, NEW rs, NEW box, Turn(d, rs, box) PROVE Quiet
  <2>1. UNCHANGED <<log, job, answered, local>> /\ Sends(d, box)
    BY <1>7 DEF Turn, vars
  <2>2. PICK phase \in {"idle", "pushing", "pull"} :
          sync' = [sync EXCEPT ![d] = [phase |-> phase, results |-> <<>>, page |-> <<>>]]
    BY <2>1 DEF Sends
  <2>. QED
    BY <1>6, <2>1, <2>2
<1>8. ASSUME NEW d \in Device, Abort(d) PROVE Quiet
  <2>2. [Asleep EXCEPT !.phase = "idle"] = [phase |-> "idle", results |-> <<>>, page |-> <<>>]
    BY DEF Asleep
  <2>1. sync' = [sync EXCEPT ![d] = [phase |-> "idle", results |-> <<>>, page |-> <<>>]]
        /\ UNCHANGED <<log, job, answered, local>>
    BY <1>8, <2>2 DEF Abort, Goto, vars
  <2>. QED
    BY <1>6, <2>1
<1>9. /\ \A d \in Device : Unpause(d) => Quiet
      /\ Midnight => Quiet
  BY DEF Unpause, Midnight, NewDay, deviceVars, netVars, vars
<1>10. ASSUME NEW m \in inflight, Deliver(m) PROVE Stays
  <2>1. /\ UNCHANGED <<log, sync, local>> /\ job'.results = <<>>
    BY <1>10 DEF Deliver, PushBegin, deviceVars
  <2>2. ASSUME NEW c \in Device, NEW x, Hears(c, x)' PROVE Hears(c, x)
    BY <1>1, <2>1, <2>2 DEF Hears
  <2>. QED
    BY <2>1, <2>2 DEF Stays
<1>11. ServeOne => Stays
  <2>. SUFFICES ASSUME ServeOne PROVE Stays
    OBVIOUS
  <2>. DEFINE e == Head(job.todo)
  <2>1. /\ job.results \in Seq(Result) /\ job'.device = job.device /\ log \subseteq log'
        /\ e \in Entry
    BY ServeOneIs DEF Ready, PushInv
  <2>2. PICK z \in Result :
          /\ job'.results = Append(job.results, z)
          /\ z.id = e.id /\ z.row = e.row
          /\ Acked(z) =>
               \/ \E l \in log' : l.entry = e.id
               \/ /\ e.op = "delete" /\ row'[e.row].deleted
                  /\ \E l \in log' : l.row = e.row /\ l.op = "delete"
    BY ServeOneIs DEF Ready, PushInv
  <2>3. UNCHANGED <<sync, local, answered>>
    BY DEF ServeOne, deviceVars, netVars
  <2>4. e.id # None
    BY <2>1, RowsAssumption DEF Entry
  <2>. HIDE DEF e
  <2>5. Acked(z) => z.id \in Taken' \/ row'[z.row].deleted
    BY <2>2, <2>4 DEF Taken
  <2>6. \A n \in DOMAIN Append(job.results, z) :
          \/ n \in DOMAIN job.results /\ Append(job.results, z)[n] = job.results[n]
          \/ Append(job.results, z)[n] = z
    BY <2>1, <2>2
  <2>7. ASSUME NEW c \in Device, NEW x, Hears(c, x)' PROVE Hears(c, x) \/ x = z
    BY <2>1, <2>2, <2>3, <2>6, <2>7 DEF Hears
  <2>. QED
    BY <2>1, <2>3, <2>5, <2>7 DEF Stays
<1>12. Answer => Stays
  <2>. SUFFICES ASSUME Answer PROVE Stays
    OBVIOUS
  <2>1. UNCHANGED <<log, local>> /\ answered' = FALSE
    BY DEF Answer, PushEnd
  <2>2. \/ sync' = sync
        \/ answered /\ sync' = [sync EXCEPT ![job.device] =
                      [Asleep EXCEPT !.phase = "handle", !.results = job.results]]
    BY DEF Answer
  <2>3. ASSUME NEW c \in Device
        PROVE  \/ sync'[c] = sync[c]
               \/ /\ answered /\ job.device = c /\ sync'[c].results = job.results
                  /\ sync'[c].phase # "apply"
    BY <1>1, <2>2 DEF Asleep
  <2>4. ASSUME NEW c \in Device, NEW x, Hears(c, x)' PROVE Hears(c, x)
    BY <2>1, <2>3, <2>4 DEF Hears
  <2>. QED
    BY <2>1, <2>3, <2>4 DEF Stays
<1>13. ASSUME NEW d \in Device, PullServe(d) PROVE Stays
  <2>1. /\ sync' = [sync EXCEPT ![d] = [phase |-> "apply", results |-> <<>>,
                                        page |-> Page(lastSeq[d])]]
        /\ UNCHANGED <<log, job, row, local, answered>>
    BY <1>13 DEF PullServe, vars, netVars
  <2>2. ASSUME NEW c \in Device
        PROVE  sync'[c] = sync[c] \/ (sync'[c].results = <<>> /\ sync'[c].page = Page(lastSeq[c]))
    BY <1>1, <2>1
  <2>3. ASSUME NEW c \in Device, NEW x, Hears(c, x)' PROVE Hears(c, x)
    BY <1>1, <2>1, <2>2, <2>3 DEF Hears
  <2>. QED
    BY <2>1, <2>2, <2>3 DEF Stays
<1>14. ASSUME NEW d \in Device, Applies(d) PROVE Stays
  <2>1. PICK phase \in {"idle", "pull"} :
          sync' = [sync EXCEPT ![d] = [phase |-> phase, results |-> <<>>, page |-> <<>>]]
    BY <1>14 DEF Applies
  <2>2. /\ job = Idle /\ UNCHANGED <<log, job, answered>>
        /\ \A c \in Device \ {d} : local'[c] = local[c]
    BY <1>1, <1>14 DEF Applies, At, vars, netVars
  <2>3. ASSUME NEW c \in Device
        PROVE  IF c = d THEN sync'[c].results = <<>> /\ sync'[c].phase # "apply"
                        ELSE sync'[c] = sync[c]
    BY <1>1, <2>1
  <2>4. job.results = <<>>
    BY <2>2 DEF Idle
  <2>5. ASSUME NEW c \in Device, NEW x, Hears(c, x)' PROVE Hears(c, x) /\ c # d
    BY <1>1, <2>2, <2>3, <2>4, <2>5 DEF Hears
  <2>. QED
    BY <2>2, <2>3, <2>5 DEF Stays
<1>. DEFINE G == Stays
<1>. HIDE DEF Quiet, G
<1>15. Quiet => G
  BY <1>2 DEF G
<1>16. /\ \A d \in Device : PullServe(d) \/ Applies(d) => G
       /\ \A m \in inflight : Deliver(m) => G
       /\ ServeOne \/ Answer => G
  BY <1>10, <1>11, <1>12, <1>13, <1>14 DEF G
<1>17. G
  BY <1>1, <1>3, <1>4, <1>5, <1>7, <1>8, <1>9, <1>15, <1>16, SyncCases
<1>. QED
  BY <1>17 DEF G

\* The vault's rows only grow newer, and what a device hears stays true.
LEMMA MootStep ==
  ASSUME Ready, PullInv, MootKnown, [SyncNext]_allVars
  PROVE  MootKnown'
<1>1. /\ head \in Nat
      /\ \A r \in Row : /\ row[r].version \in Nat /\ row'[r].version \in Nat
                        /\ row[r].version <= head
                        /\ row'[r] = row[r] \/ row'[r].version > head
  BY RowsAdvance, VaultMoves DEF Ready, SyncTyped
<1>2. Stays
  BY StaysStep
<1>3. Taken \subseteq Taken'
  BY <1>2 DEF Stays, Taken
<1>4. ASSUME NEW d \in Device, NEW x, Hears(d, x)', Acked(x), x.id \notin Taken'
      PROVE  row'[x.row].deleted \/ local'[d][x.row].version < row'[x.row].version
  <2>1. CASE row'[x.row].deleted
    BY <2>1
  <2>2. CASE Hears(d, x) /\ \A r \in Row : local'[d][r].version = local[d][r].version
    <3>1. x.row \in Row
      BY <2>2, HearsTyped DEF Ready
    <3>2. row[x.row].deleted \/ local[d][x.row].version < row[x.row].version
      BY <1>3, <1>4, <2>2 DEF MootKnown
    <3>3. local[d][x.row].version <= row[x.row].version /\ local[d][x.row].version \in Nat
      BY <3>1, PullTypes DEF PullInv, PulledIsCurrent, Ready
    <3>4. CASE row'[x.row] = row[x.row]
      BY <2>2, <3>1, <3>2, <3>4
    <3>5. CASE row'[x.row].version > head
      BY <1>1, <2>2, <3>1, <3>3, <3>5
    <3>. QED
      BY <1>1, <3>1, <3>4, <3>5
  <2>. QED
    BY <1>2, <1>4, <2>1, <2>2 DEF Stays
<1>. QED
  BY <1>4 DEF MootKnown

\* A page on its way does not tell of versions to come.
LEMMA PagesStep ==
  ASSUME Ready, PullInv, PagesTrue, [SyncNext]_allVars
  PROVE  PagesTrue'
<1>1. /\ head \in Nat
      /\ \A r \in Row : /\ row[r].version \in Nat /\ row'[r].version \in Nat
                        /\ row[r].version <= head
                        /\ row'[r] = row[r] \/ row'[r].version > head
  BY RowsAdvance, VaultMoves DEF Ready, SyncTyped
<1>2. Stays
  BY StaysStep
<1>3. ASSUME NEW d \in Device, sync'[d].phase = "apply", NEW r \in DOMAIN sync'[d].page.changes,
             sync'[d].page.changes[r].version = row'[r].version
      PROVE  sync'[d].page.changes[r] = row'[r]
  <2>1. CASE sync'[d] = sync[d]
    <3>1. sync[d].phase = "apply" /\ r \in DOMAIN sync[d].page.changes
      BY <1>3, <2>1
    <3>2. r \in Row /\ sync[d].page.changes[r].version \in Nat
          /\ sync[d].page.changes[r].version <= row[r].version
      BY <3>1, PullTypes DEF Ready, PullInv, PageSound
    <3>3. row'[r] = row[r]
      BY <1>1, <1>3, <2>1, <3>2
    <3>. QED
      BY <1>3, <2>1, <3>1, <3>3 DEF PagesTrue
  <2>2. CASE row' = row /\ sync'[d].page = Page(lastSeq[d])
    <3>1. sync'[d].page.changes = [q \in DOMAIN sync'[d].page.changes |-> row[q]]
      BY <2>2 DEF Page
    <3>. QED
      BY <1>3, <2>2, <3>1
  <2>. QED
    BY <1>2, <1>3, <2>1, <2>2 DEF Stays
<1>. QED
  BY <1>3 DEF PagesTrue
----------------------------------------------------------------------------
(* What a step leaves of the edits of d: history only grows, and an edit leaves the outbox  *)
(* discarded or done.                                                                       *)
Remains(d) ==
  /\ \A i \in DOMAIN made : i \in DOMAIN made' /\ made'[i] = made[i]
  /\ dropped \subseteq dropped' /\ log \subseteq log'
  /\ \A i \in DOMAIN made : Held(d, i) /\ ~Held(d, i)' /\ i \notin dropped' =>
       /\ made[i].op = "upsert" =>
            \E l \in log : /\ l.entry = i /\ l.device = d /\ l.op = "upsert"
                           /\ l.row = made[i].row /\ l.fields = made[i].fields
       /\ \/ i \in Taken
          \/ /\ made[i].op = "delete"
             /\ \/ row[made[i].row].deleted
                \/ local[d][made[i].row].version < row[made[i].row].version

\* The numbers of edits are not None.
LEMMA EditsNamed ==
  ASSUME SyncTyped, Recorded
  PROVE  \A i \in DOMAIN made : i # None
<1>1. \A i \in DOMAIN made : made[i] \in OutboxRow /\ made[i].id = i
  BY MadeTyped DEF Recorded, Consistent
<1>. QED
  BY <1>1, RowsAssumption DEF OutboxRow

\* A step without a result handled or an edit discarded.
LEMMA RemainsQuiet ==
  ASSUME NEW d \in Device, outbox'[d] = outbox[d], dropped' = dropped, made' = made,
         log \subseteq log'
  PROVE  Remains(d)
BY DEF Remains, Held, Waits, Blocked

\* Handled results settle edits that are done.
LEMMA RemainsTurn ==
  ASSUME Ready, Faithful, MootKnown,
         NEW d \in Device, NEW rs, NEW box, Turn(d, rs, box)
  PROVE  Remains(d)
<1>1. /\ UNCHANGED <<made, dropped, log>>
      /\ \A i : Blocked(d, i) => Blocked(d, i)'
  BY TurnMoves DEF Ready
<1>2. ASSUME NEW i \in DOMAIN made, Held(d, i), ~Held(d, i)'
      PROVE  /\ made[i].op = "upsert" =>
                  \E l \in log : /\ l.entry = i /\ l.device = d /\ l.op = "upsert"
                                 /\ l.row = made[i].row /\ l.fields = made[i].fields
             /\ \/ i \in Taken
                \/ /\ made[i].op = "delete"
                   /\ \/ row[made[i].row].deleted
                      \/ local[d][made[i].row].version < row[made[i].row].version
  <2>1. Waits(d, i)
    BY <1>1, <1>2 DEF Held
  <2>2. PICK n \in DOMAIN sync[d].results :
          sync[d].results[n].id = i /\ Acked(sync[d].results[n])
    BY <1>2, <2>1, TurnLeaves DEF Ready
  <2>. DEFINE x == sync[d].results[n]
  <2>3. Hears(d, x) /\ Truthful(x) /\ Acked(x) /\ x.id = i
    BY <2>2 DEF Hears, Ready, PushInv, Recorded, AnswersTrue
  <2>. HIDE DEF x
  <2>4. made[i].row = x.row /\ Done(i)
    BY <2>3 DEF Truthful
  <2>5. i # None
    BY EditsNamed DEF Ready, PushInv
  <2>6. ASSUME NEW l \in log, l.entry = i
        PROVE  /\ i \in Taken /\ l.device = d /\ l.op = made[i].op /\ l.row = made[i].row
               /\ l.op = "upsert" => l.fields = made[i].fields
    <3>1. i \in Taken
      BY <2>5, <2>6 DEF Taken
    <3>2. l.row = made[i].row
      BY <2>5, <2>6 DEF Ready, PushInv, Recorded, Consistent
    <3>. QED
      BY <2>1, <2>5, <2>6, <3>1, <3>2, Recording
  <2>7. CASE \E l \in log : l.entry = i
    BY <2>6, <2>7
  <2>8. CASE \A l \in log : l.entry # i
    <3>1. made[i].op = "delete"
      BY <2>4, <2>8 DEF Done
    <3>2. i \notin Taken
      BY <2>8 DEF Taken
    <3>3. row[x.row].deleted \/ local[d][x.row].version < row[x.row].version
      BY <2>3, <3>2 DEF MootKnown
    <3>. QED
      BY <2>4, <3>1, <3>3
  <2>. QED
    BY <2>7, <2>8
<1>. QED
  BY <1>1, <1>2 DEF Remains

\* No step loses an edit that is neither discarded nor done.
LEMMA RemainsStep ==
  ASSUME Ready, Faithful, MootKnown, [SyncNext]_allVars
  PROVE  \A d \in Device : Remains(d)
<1>. DEFINE G == \A d \in Device : Remains(d)
            Calm == UNCHANGED <<outbox, dropped, made, log>>
<1>1. Calm => G
  BY RemainsQuiet
<1>2. /\ UNCHANGED allVars => Calm
      /\ \A d \in Device : PullServe(d) \/ Applies(d) \/ Unpause(d) \/ Abort(d) => Calm
      /\ Midnight \/ Answer => Calm
      /\ \A m \in inflight : Deliver(m) => Calm
  BY DEF allVars, vars, deviceVars, netVars, PullServe, Applies, Unpause, Midnight, NewDay,
     Abort, Answer, PushEnd, Deliver, PushBegin
<1>3. ASSUME NEW d \in Device, NEW entries, Edits(d, entries) PROVE G
  <2>1. /\ UNCHANGED <<dropped, log>>
        /\ entries \in Seq(OutboxRow) /\ made \in Seq(OutboxRow) /\ made' = made \o entries
        /\ \A c \in Device : \A i : Blocked(c, i)' <=> Blocked(c, i)
        /\ \A c \in Device : \A i : Waits(c, i) => Waits(c, i)'
    BY <1>3, EditsMoves
  <2>2. \A i \in DOMAIN made : i \in DOMAIN made' /\ made'[i] = made[i]
    BY <2>1
  <2>. QED
    BY <2>1, <2>2 DEF Remains, Held
<1>4. ASSUME NEW d \in Device, NEW n \in DOMAIN outbox[d], Discard(d, n) PROVE G
  <2>1. PICK i : i = outbox[d][n].id
    OBVIOUS
  <2>2. /\ UNCHANGED <<made, log>> /\ dropped' = dropped \cup {i}
        /\ \A c \in Device : \A k : /\ Waits(c, k)' <=> Waits(c, k) /\ k # i
                                    /\ Blocked(c, k)' <=> Blocked(c, k) /\ k # i
    BY <1>4, <2>1, DiscardMoves
  <2>. QED
    BY <2>2 DEF Remains, Held
<1>5. ASSUME NEW d \in Device, NEW rs, NEW box, Turn(d, rs, box) PROVE G
  <2>1. /\ UNCHANGED <<made, dropped, log>>
        /\ \A c \in Device \ {d} : outbox'[c] = outbox[c]
    BY <1>5, TurnMoves DEF Ready
  <2>2. \A c \in Device \ {d} : Remains(c)
    BY <2>1, RemainsQuiet
  <2>3. Remains(d)
    BY <1>5, RemainsTurn
  <2>. QED
    BY <2>2, <2>3
<1>6. ServeOne => G
  <2>. SUFFICES ASSUME ServeOne PROVE G
    OBVIOUS
  <2>1. log \subseteq log'
    BY ServeOneIs DEF Ready, PushInv
  <2>2. UNCHANGED <<made, dropped, outbox>>
    BY DEF ServeOne, deviceVars
  <2>. QED
    BY <2>1, <2>2, RemainsQuiet
<1>7. SyncTyped
  BY DEF Ready
<1>. HIDE DEF Calm, G
<1>8. G
  BY <1>1, <1>2, <1>3, <1>4, <1>5, <1>6, <1>7, SyncCases
<1>. QED
  BY <1>8 DEF G

\* When an edit takes effect its row becomes newer.
LEMMA TakenMoves ==
  ASSUME Ready, PushInv', [SyncNext]_allVars,
         NEW i \in DOMAIN made, i \in Taken', i \notin Taken
  PROVE  row'[made[i].row] # row[made[i].row]
<1>. DEFINE G == row'[made[i].row] # row[made[i].row]
            Calm == log' = log
<1>1. Calm => G
  BY DEF Taken
<1>2. /\ UNCHANGED allVars => Calm
      /\ \A d \in Device : PullServe(d) \/ Applies(d) \/ Unpause(d) \/ Abort(d) => Calm
      /\ Midnight \/ Answer => Calm
      /\ \A m \in inflight : Deliver(m) => Calm
      /\ \A d \in Device : \A n \in DOMAIN outbox[d] : Discard(d, n) => Calm
      /\ \A d \in Device : \A entries : Edits(d, entries) => Calm
      /\ \A d \in Device : \A rs, box : Turn(d, rs, box) => Calm
  BY DEF allVars, vars, deviceVars, netVars, PullServe, Applies, Unpause, Midnight, NewDay,
     Abort, Answer, PushEnd, Deliver, PushBegin, Discard, Edits, EditUnchanged, Turn
<1>3. ServeOne => G
  <2>. SUFFICES ASSUME ServeOne PROVE G
    OBVIOUS
  <2>. DEFINE e == Head(job.todo)
  <2>1. /\ job.todo \in Seq(Entry) /\ job.todo # <<>>
        /\ \A l \in log' : l \in log \/
             (l.entry # None => /\ l.entry = e.id /\ l.row = e.row
                                /\ \A k \in log : k.seq < l.seq)
    BY ServeOneIs DEF Ready, PushInv
  <2>2. Known(e)
    <3>1. 1 \in DOMAIN job.todo /\ e = job.todo[1]
      BY <2>1
    <3>. QED
      BY <3>1 DEF Ready, PushInv, Recorded, Consistent
  <2>. HIDE DEF e
  <2>3. PICK l \in log' : l.entry = i /\ l.entry # None /\ l \notin log
    BY DEF Taken
  <2>4. PICK r \in Row : r = made[i].row
    BY MadeTyped DEF Ready, OutboxRow
  <2>5. l.row = r /\ \A k \in log : k.seq < l.seq
    BY <2>1, <2>2, <2>3, <2>4 DEF Known
  <2>6. RowsReplayLog /\ RowsReplayLog'
    BY DEF Ready, PushInv
  <2>7. row'[r].version # 0
    BY <2>5, <2>6 DEF RowsReplayLog
  <2>8. PICK new \in log' : new.row = r /\ LastRecord(new)' /\ new.seq = row'[r].version
    BY <2>6, <2>7 DEF RowsReplayLog
  <2>9. l.seq <= row'[r].version
    BY <2>5, <2>8 DEF LastRecord
  <2>10. ASSUME row'[r] = row[r] PROVE FALSE
    <3>1. PICK old \in log : old.seq = row[r].version
      BY <2>6, <2>7, <2>10 DEF RowsReplayLog
    <3>2. old.seq < l.seq
      BY <2>5
    <3>3. old.seq \in Nat
      BY DEF Ready, SyncTyped, Bounded, TypeOK, LogRec
    <3>4. l.seq <= old.seq
      BY <2>9, <2>10, <3>1
    <3>5. l.seq \in Nat
      <4>1. TypeOK'
        BY BoundedStep, VaultMoves DEF Ready, SyncTyped, Bounded
      <4>. QED
        BY <4>1 DEF TypeOK, LogRec
    <3>. QED
      BY <3>2, <3>3, <3>4, <3>5
  <2>. QED
    BY <2>4, <2>10
<1>4. SyncTyped
  BY DEF Ready
<1>. HIDE DEF Calm, G
<1>5. G
  BY <1>1, <1>2, <1>3, <1>4, SyncCases
<1>. QED
  BY <1>5 DEF G
----------------------------------------------------------------------------
\* What a device wrote stays its own.
LEMMA OwnStays ==
  ASSUME NEW d \in Device, Remains(d), NEW r, NEW f, NEW i, OwnWrite(d, r, f, i)
  PROVE  OwnWrite(d, r, f, i)'
<1>1. /\ i \in DOMAIN made' /\ made'[i] = made[i] /\ i \in DOMAIN made
      /\ made[i].row = r /\ made[i].op = "upsert" /\ f \in made[i].fields
      /\ log \subseteq log' /\ dropped \subseteq dropped'
  BY DEF Remains, OwnWrite
<1>2. \A l \in Writes(r, f) : l \in Writes(r, f)'
  BY <1>1 DEF Writes
<1>3. CASE Held(d, i) /\ ~Held(d, i)' /\ i \notin dropped'
  <2>1. PICK l \in log : /\ l.entry = i /\ l.device = d /\ l.op = "upsert"
                         /\ l.row = made[i].row /\ l.fields = made[i].fields
    BY <1>1, <1>3 DEF Remains
  <2>2. l \in Writes(r, f)
    BY <1>1, <2>1 DEF Writes
  <2>. QED
    BY <1>1, <1>2, <2>1, <2>2 DEF OwnWrite
<1>4. CASE ~Held(d, i) \/ Held(d, i)' \/ i \in dropped'
  BY <1>1, <1>2, <1>4 DEF OwnWrite
<1>. QED
  BY <1>3, <1>4

\* A row an edit brought about has that edit still.
LEMMA FoundingStays ==
  ASSUME NEW d \in Device, Remains(d), NEW r, Founding(d, r)
  PROVE  Founding(d, r)'
<1>1. PICK i \in DOMAIN made : /\ made[i].row = r /\ made[i].op = "upsert"
                               /\ Held(d, i) \/ i \in dropped \/ i \in Taken
  BY DEF Founding
<1>2. /\ i \in DOMAIN made' /\ made'[i] = made[i]
      /\ dropped \subseteq dropped' /\ log \subseteq log'
  BY DEF Remains
<1>3. Taken \subseteq Taken'
  BY <1>2 DEF Taken
<1>4. Held(d, i) /\ ~Held(d, i)' /\ i \notin dropped' => i \in Taken
  BY <1>1 DEF Remains
<1>. QED
  BY <1>1, <1>2, <1>3, <1>4 DEF Founding

\* An edit that hangs on locally does so until it takes effect.
LEMMA UndecidedStays ==
  ASSUME NEW d \in Device, Remains(d), NEW r, NEW b, Undecided(d, r, b),
         local[d][r].version = row[r].version, ~(local[d][r].version < row[r].version),
         ~(b <=> row[r].deleted),
         \A i \in DOMAIN made : made[i].row = r /\ i \in Taken' => i \in Taken
  PROVE  Undecided(d, r, b)'
<1>1. PICK i \in DOMAIN made :
        /\ made[i].row = r
        /\ \/ Held(d, i) /\ i \notin Taken /\ (made[i].op = "delete" <=> b)
           \/ i \in dropped
  BY DEF Undecided
<1>2. i \in DOMAIN made' /\ made'[i] = made[i] /\ dropped \subseteq dropped'
  BY DEF Remains
<1>3. CASE i \in dropped'
  BY <1>1, <1>2, <1>3 DEF Undecided
<1>4. CASE i \notin dropped'
  <2>1. Held(d, i) /\ i \notin Taken /\ (made[i].op = "delete" <=> b)
    BY <1>1, <1>2, <1>4
  <2>2. Held(d, i)'
    BY <1>1, <1>4, <2>1 DEF Remains
  <2>3. i \notin Taken'
    BY <1>1, <2>1
  <2>. QED
    BY <1>1, <1>2, <2>1, <2>2, <2>3 DEF Undecided
<1>. QED
  BY <1>3, <1>4

\* A device goes on agreeing with the vault about a row that it leaves alone.
LEMMA AgreesKept ==
  ASSUME Ready, PushInv', PullInv, Faithful, MootKnown, [SyncNext]_allVars,
         NEW d \in Device, NEW r \in Row, local'[d][r] = local[d][r],
         Agrees(d, r), Founded(d, r)
  PROVE  Agrees(d, r)' /\ Founded(d, r)'
<1>1. Remains(d)
  BY RemainsStep
<1>2. /\ head \in Nat
      /\ row[r].version \in Nat /\ row'[r].version \in Nat /\ row[r].version <= head
      /\ row'[r] = row[r] \/ row'[r].version > head
  BY RowsAdvance, VaultMoves DEF Ready, SyncTyped
<1>3. local[d][r].version <= row[r].version /\ local[d][r].version \in Nat
  BY PullTypes DEF PullInv, PulledIsCurrent, Ready
<1>4. ASSUME local'[d][r].version = row'[r].version
      PROVE  /\ \A f \in Field : \/ local'[d][r].val[f] = row'[r].val[f]
                                 \/ OwnWrite(d, r, f, local[d][r].val[f])'
             /\ (local'[d][r].deleted <=> row'[r].deleted)
                  \/ Undecided(d, r, local[d][r].deleted)'
  <2>1. ~(row'[r].version > head)
    BY <1>2, <1>3, <1>4
  <2>2. row'[r] = row[r]
    BY <1>2, <2>1
  <2>3. local[d][r].version = row[r].version
    BY <1>4, <2>2
  <2>4. ~(local[d][r].version < row[r].version)
    BY <1>2, <2>3
  <2>5. ASSUME NEW f \in Field
        PROVE  \/ local'[d][r].val[f] = row'[r].val[f]
               \/ OwnWrite(d, r, f, local[d][r].val[f])'
    <3>1. PICK v : v = local[d][r].val[f]
      OBVIOUS
    <3>2. CASE OwnWrite(d, r, f, v)
      <4>1. OwnWrite(d, r, f, v)'
        BY <1>1, <3>2, OwnStays
      <4>2. local[d][r].val[f]' = local[d][r].val[f]
        OBVIOUS
      <4>. QED
        BY <3>1, <4>1, <4>2 DEF OwnWrite
    <3>. QED
      BY <2>2, <2>3, <3>1, <3>2 DEF Agrees
  <2>6. CASE local[d][r].deleted <=> row[r].deleted
    BY <2>2, <2>5, <2>6
  <2>7. CASE ~(local[d][r].deleted <=> row[r].deleted)
    <3>1. PICK b : b = local[d][r].deleted
      OBVIOUS
    <3>2. Undecided(d, r, b) /\ ~(b <=> row[r].deleted)
      BY <2>3, <2>7, <3>1 DEF Agrees
    <3>3. \A i \in DOMAIN made : made[i].row = r /\ i \in Taken' => i \in Taken
      BY <2>2, TakenMoves
    <3>4. Undecided(d, r, b)'
      BY <1>1, <2>3, <2>4, <3>2, <3>3, UndecidedStays
    <3>. QED
      BY <2>5, <3>1, <3>4 DEF Undecided
  <2>. QED
    BY <2>6, <2>7
<1>5. Founding(d, r) => Founding(d, r)'
  BY <1>1, FoundingStays
<1>6. Founded(d, r)'
  BY <1>5 DEF Founded
<1>. QED
  BY <1>4, <1>6 DEF Agrees

\* What a user writes shows at once and is queued.
LEMMA AgreesEdits ==
  ASSUME Ready, PushInv', PullInv, Faithful, MootKnown, [SyncNext]_allVars, Shown,
         NEW d \in Device, NEW entries, Edits(d, entries)
  PROVE  Shown'
<1>1. PICK mine \in [Row -> LocalRow] :
        /\ local' = [local EXCEPT ![d] = mine]
        /\ \A r \in Row : mine[r].version = local[d][r].version
        /\ \A r \in Row : mine[r] = local[d][r] \/ Touched(mine[r], local[d][r], r, entries)
        /\ \A r \in Row, f \in Field :
             \/ mine[r].val[f] = local[d][r].val[f]
             \/ \E n \in DOMAIN entries : entries[n].row = r /\ f \in entries[n].fields
        /\ \A n \in DOMAIN entries : \A f \in entries[n].fields :
             mine[entries[n].row].val[f] = entries[n].id
  BY DEF Edits
<1>2. /\ local \in [Device -> [Row -> LocalRow]]
      /\ UNCHANGED <<row, log>>
      /\ \A n \in DOMAIN entries : entries[n].op = "delete" => entries[n].fields = {}
  BY DEF Ready, SyncTyped, SyncTypeOK, Edits, EditUnchanged, vars
<1>3. /\ entries \in Seq(OutboxRow) /\ made \in Seq(OutboxRow) /\ made' = made \o entries
      /\ \A n \in DOMAIN entries : entries[n].id = Len(made) + n
      /\ \A i : Waits(d, i)' <=>
                  Waits(d, i) \/ (d = d /\ \E n \in DOMAIN entries : i = Len(made) + n)
  BY EditsMoves
<1>4. Remains(d)
  BY RemainsStep
\* The edits of entries are queued, and new to the vault.
<1>5. ASSUME NEW n \in DOMAIN entries
      PROVE  \E i \in DOMAIN made' : /\ i = entries[n].id /\ made'[i] = entries[n]
                                     /\ Held(d, i)' /\ i \notin Taken'
                                     /\ entries[n].op \in {"upsert", "delete"}
  <2>1. PICK i : i = Len(made) + n
    OBVIOUS
  <2>2. /\ i \in DOMAIN made' /\ made'[i] = entries[n] /\ i = entries[n].id
        /\ i \notin DOMAIN made /\ entries[n] \in OutboxRow
    BY <1>3, <2>1
  <2>3. Held(d, i)'
    BY <1>3, <2>1 DEF Held
  <2>4. i \notin Taken'
    <3>1. \A l \in log : l.entry # None => l.entry \in DOMAIN made
      BY DEF Ready, PushInv, Recorded, Consistent
    <3>. QED
      BY <1>2, <2>2, <3>1 DEF Taken
  <2>. QED
    BY <2>2, <2>3, <2>4 DEF OutboxRow
<1>6. ASSUME NEW r \in Row, mine[r] # local[d][r]
      PROVE  Agrees(d, r)' /\ Founded(d, r)'
  <2>1. local'[d][r] = mine[r]
    BY <1>1, <1>2
  <2>2. PICK n \in DOMAIN entries : /\ entries[n].row = r
                                    /\ mine[r].deleted <=> entries[n].op = "delete"
                                    /\ local[d][r].exists \/ entries[n].op = "upsert"
    BY <1>1, <1>6 DEF Touched
  <2>3. mine[r].exists /\ mine[r].version = local[d][r].version
    BY <1>1, <1>6 DEF Touched
  <2>4. PICK i \in DOMAIN made' : /\ i = entries[n].id /\ made'[i] = entries[n]
                                  /\ Held(d, i)' /\ i \notin Taken'
                                  /\ entries[n].op \in {"upsert", "delete"}
    BY <1>5
  <2>5. Undecided(d, r, mine[r].deleted)'
    <3>1. PICK b : b = mine[r].deleted
      OBVIOUS
    <3>2. Undecided(d, r, b)'
      BY <2>2, <2>4, <3>1 DEF Undecided
    <3>. QED
      BY <2>1, <3>1, <3>2 DEF Undecided
  <2>6. ASSUME NEW f \in Field, mine[r].version = row[r].version
        PROVE  mine[r].val[f] = row[r].val[f] \/ OwnWrite(d, r, f, mine[r].val[f])'
    <3>1. PICK v : v = mine[r].val[f]
      OBVIOUS
    <3>2. CASE v = local[d][r].val[f]
      <4>1. v = row[r].val[f] \/ OwnWrite(d, r, f, v)
        BY <1>6, <2>3, <2>6, <3>1, <3>2 DEF Shown, Agrees
      <4>2. OwnWrite(d, r, f, v) => OwnWrite(d, r, f, v)'
        BY <1>4, OwnStays
      <4>. QED
        BY <3>1, <4>1, <4>2 DEF OwnWrite
    <3>3. CASE v # local[d][r].val[f]
      <4>1. PICK m \in DOMAIN entries : entries[m].row = r /\ f \in entries[m].fields
        BY <1>1, <3>1, <3>3
      <4>2. v = entries[m].id
        BY <1>1, <3>1, <4>1
      <4>3. PICK j \in DOMAIN made' : /\ j = entries[m].id /\ made'[j] = entries[m]
                                      /\ Held(d, j)'
                                      /\ entries[m].op \in {"upsert", "delete"}
        BY <1>5
      <4>4. entries[m].op = "upsert"
        BY <1>2, <4>1, <4>3
      <4>5. OwnWrite(d, r, f, v)'
        BY <4>1, <4>2, <4>3, <4>4 DEF OwnWrite
      <4>. QED
        BY <3>1, <4>5 DEF OwnWrite
    <3>. QED
      BY <3>2, <3>3
  <2>7. Agrees(d, r)'
    <3>1. ASSUME local'[d][r].version = row'[r].version
          PROVE  /\ \A f \in Field : \/ local'[d][r].val[f] = row'[r].val[f]
                                     \/ OwnWrite(d, r, f, mine[r].val[f])'
                 /\ Undecided(d, r, mine[r].deleted)'
      BY <1>2, <2>1, <2>5, <2>6, <3>1
    <3>. QED
      BY <2>1, <3>1 DEF Agrees, OwnWrite, Undecided
  <2>8. CASE entries[n].op = "upsert"
    <3>1. Founding(d, r)'
      BY <2>2, <2>4, <2>8 DEF Founding
    <3>. QED
      BY <2>1, <2>3, <2>7, <3>1 DEF Founded
  <2>9. CASE local[d][r].exists
    <3>1. local[d][r].version = 0 => Founding(d, r)
      BY <2>9 DEF Shown, Founded
    <3>2. Founding(d, r) => Founding(d, r)'
      BY <1>4, FoundingStays
    <3>. QED
      BY <2>1, <2>3, <2>7, <3>1, <3>2 DEF Founded
  <2>. QED
    BY <2>2, <2>8, <2>9
<1>7. ASSUME NEW c \in Device, NEW r \in Row, c # d \/ mine[r] = local[d][r]
      PROVE  Agrees(c, r)' /\ Founded(c, r)'
  <2>1. local'[c][r] = local[c][r]
    BY <1>1, <1>2, <1>7
  <2>. QED
    BY <2>1, AgreesKept DEF Shown
<1>. QED
  BY <1>6, <1>7 DEF Shown

\* A page brings a row as the vault has it, or an older version.
LEMMA AgreesApplies ==
  ASSUME Ready, PushInv', PullInv, Faithful, MootKnown, PagesTrue, [SyncNext]_allVars, Shown,
         NEW d \in Device, Applies(d)
  PROVE  Shown'
<1>. DEFINE page == sync[d].page
<1>1. /\ sync[d].phase = "apply" /\ local' = [local EXCEPT ![d] = Merged(d)]
      /\ UNCHANGED <<row, outbox, made, dropped, log>>
      /\ local \in [Device -> [Row -> LocalRow]] /\ outbox[d] \in Seq(OutboxRow)
      /\ SyncTyped
  BY DEF Applies, At, vars, Ready, SyncTyped, SyncTypeOK
<1>2. /\ DOMAIN page.changes \subseteq Row
      /\ \A r \in DOMAIN page.changes : page.changes[r] \in RowState
      /\ \A r \in Row :
           \/ Merged(d)[r] = local[d][r]
           \/ /\ r \in DOMAIN page.changes
              /\ local[d][r].version < page.changes[r].version
              /\ Merged(d)[r] = Reapplied(d, r, page.changes[r])
  BY <1>1, MergedIs
<1>3. ASSUME NEW r \in Row, NEW theirs, theirs = page.changes[r], r \in DOMAIN page.changes,
             local[d][r].version < theirs.version, Merged(d)[r] = Reapplied(d, r, theirs)
      PROVE  Agrees(d, r)' /\ Founded(d, r)'
  <2>. DEFINE box == outbox[d]
              waits(n, f) == /\ ~box[n].blocked /\ box[n].row = r /\ box[n].op = "upsert"
                             /\ f \in box[n].fields
  <2>0. PICK new : new = Reapplied(d, r, theirs)
    OBVIOUS
  <2>1. theirs \in RowState
    BY <1>2, <1>3
  <2>2. /\ new.exists /\ new.version = theirs.version /\ new.deleted = theirs.deleted
        /\ \A f \in Field :
             \/ new.val[f] = theirs.val[f]
             \/ \E n \in DOMAIN box : waits(n, f) /\ new.val[f] = box[n].id
    BY <1>1, <2>0, <2>1, ReappliedIs
  <2>3. local'[d][r] = new
    BY <1>1, <1>3, <2>0
  <2>4. theirs.version # 0
    <3>1. local[d][r].version \in Nat /\ theirs.version \in Nat
      BY <1>1, <2>1 DEF LocalRow, RowState
    <3>. QED
      BY <1>3, <3>1
  <2>5. ASSUME NEW n \in DOMAIN box, NEW f \in Field, waits(n, f), NEW i, i = box[n].id
        PROVE  OwnWrite(d, r, f, i)'
    <3>1. Known(box[n]) /\ Same(box[n])
      BY DEF Ready, PushInv, Recorded, Consistent, Faithful
    <3>2. Held(d, i)
      BY <2>5 DEF Held, Waits
    <3>3. Held(d, i)'
      BY <1>1, <3>2 DEF Held, Waits, Blocked
    <3>. QED
      BY <1>1, <2>5, <3>1, <3>3 DEF OwnWrite, Known, Same
  <2>. HIDE DEF box

  <2>6. ASSUME new.version = row[r].version
        PROVE  /\ \A f \in Field : new.val[f] = row[r].val[f] \/ OwnWrite(d, r, f, new.val[f])'
               /\ new.deleted <=> row[r].deleted
    <3>0. theirs.version = row[r].version
      BY <2>2, <2>6
    <3>1. theirs = row[r]
      <4>1. page.changes[r].version = row[r].version => page.changes[r] = row[r]
        BY <1>1, <1>3 DEF PagesTrue
      <4>. QED
        BY <1>3, <3>0, <4>1

    <3>2. ASSUME NEW f \in Field
          PROVE  new.val[f] = row[r].val[f] \/ OwnWrite(d, r, f, new.val[f])'
      <4>1. CASE new.val[f] = theirs.val[f]
        BY <3>1, <4>1
      <4>2. ASSUME NEW n \in DOMAIN box, waits(n, f), new.val[f] = box[n].id
            PROVE  OwnWrite(d, r, f, new.val[f])'
        <5>1. PICK i : i = box[n].id
          OBVIOUS
        <5>2. OwnWrite(d, r, f, i)'
          BY <2>5, <4>2, <5>1
        <5>. QED
          BY <2>3, <4>2, <5>1, <5>2 DEF OwnWrite
      <4>. QED
        BY <2>2, <4>1, <4>2
    <3>. QED
      BY <2>2, <3>1, <3>2
  <2>7. Agrees(d, r)'
    BY <1>1, <2>3, <2>6 DEF Agrees, OwnWrite
  <2>. QED
    BY <2>2, <2>3, <2>4, <2>7 DEF Founded
<1>4. ASSUME NEW c \in Device, NEW r \in Row, local'[c][r] = local[c][r]
      PROVE  Agrees(c, r)' /\ Founded(c, r)'
  BY <1>4, AgreesKept DEF Shown
<1>5. \A c \in Device \ {d} : \A r \in Row : local'[c][r] = local[c][r]
  BY <1>1
<1>6. \A r \in Row : local'[d][r] = Merged(d)[r]
  BY <1>1
<1>7. \A r \in Row : Agrees(d, r)' /\ Founded(d, r)'
  BY <1>2, <1>3, <1>4, <1>6
<1>. QED
  BY <1>4, <1>5, <1>7 DEF Shown

\* Every step leaves a device agreeing with the vault, but for edits of its own.
LEMMA ShownStep ==
  ASSUME Ready, PushInv', PullInv, Faithful, MootKnown, PagesTrue, [SyncNext]_allVars, Shown
  PROVE  Shown'
<1>. DEFINE G == Shown'
            Calm == local' = local
<1>1. Calm => G
  BY AgreesKept DEF Shown
<1>2. /\ UNCHANGED allVars => Calm
      /\ \A d \in Device : PullServe(d) \/ Unpause(d) \/ Abort(d) => Calm
      /\ Midnight \/ Answer \/ ServeOne => Calm
      /\ \A m \in inflight : Deliver(m) => Calm
      /\ \A d \in Device : \A n \in DOMAIN outbox[d] : Discard(d, n) => Calm
      /\ \A d \in Device : \A rs, box : Turn(d, rs, box) => Calm
  BY DEF allVars, vars, deviceVars, netVars, PullServe, Unpause, Midnight,
     Abort, Answer, Deliver, Discard, ServeOne, Turn
<1>3. ASSUME NEW d \in Device, NEW entries, Edits(d, entries) PROVE G
  BY <1>3, AgreesEdits
<1>4. ASSUME NEW d \in Device, Applies(d) PROVE G
  BY <1>4, AgreesApplies
<1>5. SyncTyped
  BY DEF Ready
<1>. HIDE DEF Calm, G
<1>6. G
  BY <1>1, <1>2, <1>3, <1>4, <1>5, SyncCases
<1>. QED
  BY <1>6 DEF G

\* What holds of edits, answers, pages and rows.
AgreeInv == Faithful /\ MootKnown /\ PagesTrue /\ Shown

\* At first there are no edits, and the rows of the devices are the vault's.
LEMMA AgreeInit == SyncInit => AgreeInv
<1>. SUFFICES ASSUME SyncInit PROVE AgreeInv
  OBVIOUS
<1>1. /\ log = {} /\ made = <<>> /\ dropped = {} /\ inflight = {} /\ job = Idle /\ answered = FALSE
      /\ row = [r \in Row |-> Absent]
      /\ \A d \in Device : /\ outbox[d] = <<>> /\ sync[d] = Asleep
                           /\ local[d] = [r \in Row |-> NoRow]
  BY DEF SyncInit, Init
<1>2. DOMAIN <<>> = {} /\ Idle.todo = <<>> /\ Asleep.results = <<>> /\ Asleep.phase = "idle"
  BY DEF Idle, Asleep
<1>3. Faithful
  BY <1>1, <1>2 DEF Faithful
<1>4. MootKnown
  BY <1>1, <1>2 DEF MootKnown, Hears
<1>5. PagesTrue
  BY <1>1, <1>2 DEF PagesTrue
<1>6. Shown
  <2>1. ASSUME NEW d \in Device, NEW r \in Row PROVE local[d][r] = NoRow /\ row[r] = Absent
    BY <1>1
  <2>2. /\ ~NoRow.exists /\ NoRow.version = 0 /\ Absent.version = 0
        /\ NoRow.deleted = FALSE /\ Absent.deleted = FALSE
        /\ \A f \in Field : NoRow.val[f] = Absent.val[f]
    BY DEF NoRow, Absent
  <2>. QED
    BY <2>1, <2>2 DEF Shown, Agrees, Founded
<1>. QED
  BY <1>3, <1>4, <1>5, <1>6 DEF AgreeInv

\* What a device shows is always the vault's or the device's own.
LEMMA AgreeAlways == SyncSpec => []AgreeInv
<1>1. /\ Ready /\ PushInv' /\ PullInv /\ AgreeInv /\ [SyncNext]_allVars
      => AgreeInv'
  BY FaithfulStep, MootStep, PagesStep, ShownStep DEF AgreeInv
<1>. QED
  BY <1>1, AgreeInit, ReadyAlways, PushAlways, PullAlways, PTL DEF SyncSpec

\* A drained device has no edit that hangs on.
LEMMA AgreementIs ==
  ASSUME Ready, PullInv, Shown
  PROVE  Agreement
<1>. SUFFICES ASSUME NEW d \in Device, NEW r \in Row, Drained(d, r)
              PROVE  /\ local[d][r].exists = Exists(r)
                     /\ local[d][r].deleted = row[r].deleted
                     /\ \A f \in Field :
                          \/ local[d][r].val[f] = row[r].val[f]
                          \/ \E l \in Writes(r, f) : l.entry = local[d][r].val[f] /\ l.device = d
  BY DEF Agreement
<1>1. /\ local[d][r].exists \in BOOLEAN /\ local[d][r].deleted \in BOOLEAN
      /\ local[d][r].version \in Nat
      /\ row[r].deleted \in BOOLEAN /\ row[r].version \in Nat
  <2>1. local[d][r] \in LocalRow /\ row[r] \in RowState
    BY DEF Ready, SyncTyped, SyncTypeOK, Bounded, TypeOK
  <2>. QED
    BY <2>1 DEF LocalRow, RowState
<1>2. \A i \in DOMAIN made : made[i].row = r => ~Held(d, i) /\ i \notin dropped
  <2>1. \A n \in DOMAIN outbox[d] : Known(outbox[d][n]) /\ outbox[d][n].row # r
    BY DEF Ready, PushInv, Recorded, Consistent, Drained
  <2>. QED
    BY <2>1 DEF Drained, Held, Waits, Blocked, Known
<1>3. local[d][r].version = row[r].version
  <2>1. CASE row[r].version = 0
    BY <1>1, <2>1 DEF PullInv, PulledIsCurrent
  <2>2. CASE row[r].version # 0
    BY <2>2 DEF PullInv, PulledIsCurrent, Exists, Drained
  <2>. QED
    BY <2>1, <2>2
<1>4. Agrees(d, r) /\ Founded(d, r)
  BY DEF Shown
<1>5. local[d][r].deleted = row[r].deleted
  <2>1. local[d][r].deleted <=> row[r].deleted
    BY <1>2, <1>3, <1>4 DEF Agrees, Undecided
  <2>. QED
    BY <1>1, <2>1
<1>6. local[d][r].exists = Exists(r)
  <2>1. CASE row[r].version = 0
    <3>1. \A l \in log : l.row # r
      BY <2>1 DEF Ready, PushInv, RowsReplayLog
    <3>2. \A i \in Taken : made[i].row # r
      BY <3>1 DEF Ready, PushInv, Recorded, Consistent, Taken
    <3>3. ~Founding(d, r)
      BY <1>2, <3>2 DEF Founding
    <3>4. ~local[d][r].exists
      BY <1>3, <1>4, <2>1, <3>3 DEF Founded
    <3>. QED
      BY <1>1, <2>1, <3>4 DEF Exists
  <2>2. CASE row[r].version # 0
    <3>1. local[d][r].exists
      BY <1>3, <1>4, <2>2 DEF Founded
    <3>. QED
      BY <1>1, <2>2, <3>1 DEF Exists
  <2>. QED
    BY <2>1, <2>2
<1>7. ASSUME NEW f \in Field
      PROVE  \/ local[d][r].val[f] = row[r].val[f]
             \/ \E l \in Writes(r, f) : l.entry = local[d][r].val[f] /\ l.device = d
  BY <1>2, <1>3, <1>4 DEF Agrees, OwnWrite
<1>. QED
  BY <1>5, <1>6, <1>7

(* A device that has nothing to send of a row and has pulled it shows the vault's row: it   *)
(* knows of the row as the vault does, deleted or not, and each column is the vault's or    *)
(* one of its own that the vault took and another device replaced.  Pages, answers and late *)
(* copies, in whatever order they come, leave no edit hanging on locally.                   *)
THEOREM DrainedDevicesAgree == SyncSpec => []Agreement
<1>1. Ready /\ PullInv /\ AgreeInv => Agreement
  BY AgreementIs DEF AgreeInv
<1>. QED
  BY <1>1, ReadyAlways, PullAlways, AgreeAlways, PTL
=============================================================================
