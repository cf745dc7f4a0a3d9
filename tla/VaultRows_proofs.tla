-------------------------- MODULE VaultRows_proofs --------------------------
(***************************************************************************)
(* Proofs about the row channel of the vault.  The bounds on the sequence  *)
(* numbers are proved first, together with the types; every other          *)
(* invariant rests on "a new record is newer than all there is".           *)
(***************************************************************************)
EXTENDS VaultRows, Collections_proofs

LogBounded == \A l \in log : l.seq \in 1..head

RowsBounded == \A r \in Row : row[r].version <= head

Bounded == TypeOK /\ LogBounded /\ RowsBounded
----------------------------------------------------------------------------
(* The request being served has an entry of the declared kind at its head, and a device. *)
LEMMA HeadTyped ==
  ASSUME TypeOK, job.todo # <<>>
  PROVE  /\ Head(job.todo) \in Entry
         /\ job \in [device: Device, todo: Seq(Entry), results: Seq(Result)]
         /\ Tail(job.todo) \in Seq(Entry)
<1>1. job # Idle
  BY DEF Idle
<1>2. job \in [device: Device, todo: Seq(Entry), results: Seq(Result)]
  BY <1>1 DEF TypeOK
<1>3. job.todo \in Seq(Entry)
  BY <1>2
<1>4. QED
  BY <1>2, <1>3

(* An answer keeps the request well-formed. *)
LEMMA ReplyTyped ==
  ASSUME TypeOK, job.todo # <<>>, NEW status \in Status, NEW version \in Nat,
         Reply(Head(job.todo), status, version)
  PROVE  job' \in [device: Device, todo: Seq(Entry), results: Seq(Result)]
<1> DEFINE e == Head(job.todo)
           res == [id |-> e.id, row |-> e.row, status |-> status, version |-> version]
<1>1. e \in Entry /\ Tail(job.todo) \in Seq(Entry)
      /\ job \in [device: Device, todo: Seq(Entry), results: Seq(Result)]
  BY HeadTyped
<1>2. res \in Result
  BY <1>1 DEF Entry, Result
<1>3. Append(job.results, res) \in Seq(Result)
  BY <1>1, <1>2
<1>4. job' = [job EXCEPT !.todo = Tail(@), !.results = Append(@, res)]
  BY DEF Reply
<1>5. QED
  BY <1>1, <1>3, <1>4

(* The rows a tombstone cascades to are finitely many, and each gets a place of its own. *)
LEMMA ChildrenFinite ==
  ASSUME NEW r \in Row
  PROVE  /\ IsFiniteSet(Children(r))
         /\ Cardinality(Children(r)) \in Nat
         /\ Children(r) \subseteq Row
         /\ Cardinality(Children(r)) <= Cardinality({c \in Row : Parent[c] = r})
<1>1. IsFiniteSet({c \in Row : Parent[c] = r})
  BY FS_Subset, RowsAssumption
<1>2. Children(r) \subseteq {c \in Row : Parent[c] = r}
  BY DEF Children
<1>3. QED
  BY <1>1, <1>2, FS_Subset, FS_CardinalityType

\* The places of the rows deleted along are numbers.
LEMMA PlaceTyped ==
  ASSUME NEW r \in Row, NEW place \in Bijection(Children(r), 1..Cardinality(Children(r)))
  PROVE  \A k \in Children(r) : place[k] \in 1..Cardinality(Children(r))
BY DEF Bijection, Injection

(* No row is among the rows a deletion of it cascades to, nor refers to one of those. *)
LEMMA OneLevel ==
  ASSUME NEW r \in Row
  PROVE  /\ r \notin Children(r)
         /\ \A k \in Children(r), c \in Row : Parent[c] # k
BY RowsAssumption, DepthAssumption DEF Children
----------------------------------------------------------------------------
(* The replies that change nothing but the request. *)
ReplyOnly(e) ==
  ReplyDuplicate(e) \/ ReplyDeferred(e) \/ ReplyRejected(e) \/ ReplyConflict(e)
    \/ ReplyAlreadyDeleted(e)

\* A reply that writes nothing leaves the tables alone.
LEMMA ReplyOnlyStep ==
  ASSUME TypeOK, job.todo # <<>>, ReplyOnly(Head(job.todo))
  PROVE  /\ UNCHANGED <<row, log, head, pruned, aged, writes>>
         /\ job' \in [device: Device, todo: Seq(Entry), results: Seq(Result)]
<1> DEFINE e == Head(job.todo)
<1>1. e \in Entry
  BY HeadTyped
<1>2. CASE ReplyDuplicate(e)
  <2>1. PICK l \in Logged(e) : Reply(e, "duplicate", l.seq)
    BY <1>2 DEF ReplyDuplicate
  <2>2. l.seq \in Nat
    BY <2>1 DEF Logged, TypeOK, LogRec
  <2>3. QED
    BY <1>2, <2>1, <2>2, ReplyTyped DEF ReplyDuplicate, Status
<1>3. CASE ReplyDeferred(e)
  BY <1>3, ReplyTyped DEF ReplyDeferred, Status
<1>4. CASE ReplyRejected(e)
  BY <1>4, ReplyTyped DEF ReplyRejected, Status
<1>5. CASE ReplyConflict(e)
  BY <1>5, ReplyTyped DEF ReplyConflict, Status
<1>6. CASE ReplyAlreadyDeleted(e)
  <2>1. row[e.row].version \in Nat
    BY <1>1 DEF TypeOK, RowState, Entry
  <2>2. QED
    BY <1>6, <2>1, ReplyTyped DEF ReplyAlreadyDeleted, Status
<1>7. QED
  BY <1>2, <1>3, <1>4, <1>5, <1>6 DEF ReplyOnly

(* What an applied upsert does: one record more, one row newer than everything. *)
LEMMA UpsertStep ==
  ASSUME TypeOK, job.todo # <<>>, Upsert(Head(job.todo))
  PROVE  /\ Written(Head(job.todo)) \in RowState
         /\ \E rec \in LogRec :
              /\ rec.seq = head + 1
              /\ rec.row = Head(job.todo).row
              /\ rec.op = "upsert"
              /\ rec.fields = Head(job.todo).fields
              /\ rec.entry = Head(job.todo).id
              /\ log' = log \cup {rec}
         /\ row' = [row EXCEPT ![Head(job.todo).row] = Written(Head(job.todo))]
         /\ head' = head + 1
         /\ writes' = writes + 1
         /\ pruned' = pruned /\ aged' = aged
         /\ job' \in [device: Device, todo: Seq(Entry), results: Seq(Result)]
<1> DEFINE e == Head(job.todo)
           rec == [seq |-> head + 1, row |-> e.row, op |-> "upsert", fields |-> e.fields,
                   entry |-> e.id, device |-> job.device, lost |-> Overwritten(e)]
<1>1. e \in Entry /\ job.device \in Device
  BY HeadTyped
<1>2. e.row \in Row /\ e.id \in EntryId /\ e.fields \in SUBSET Field
  BY <1>1 DEF Entry
<1>3. head \in Nat /\ row[e.row] \in RowState
  BY <1>2 DEF TypeOK
<1>4. row[e.row].val \in [Field -> Value] /\ row[e.row].version \in Nat
  BY <1>3 DEF RowState
<1>5. Overwritten(e) \in SUBSET (Field \X Value)
  BY <1>2, <1>4 DEF Overwritten
<1>6. rec \in LogRec
  BY <1>1, <1>2, <1>3, <1>5 DEF LogRec, Value
<1>7. [f \in Field |-> IF f \in e.fields THEN e.id ELSE row[e.row].val[f]] \in [Field -> Value]
  BY <1>2, <1>4 DEF Value
<1>8. Written(e) \in RowState
  BY <1>3, <1>7 DEF Written, RowState
<1>9. Reply(e, "applied", head + 1) /\ log' = log \cup {rec}
  BY DEF Upsert
<1>10. job' \in [device: Device, todo: Seq(Entry), results: Seq(Result)]
  BY <1>3, <1>9, ReplyTyped DEF Status
<1>11. QED
  BY <1>6, <1>8, <1>9, <1>10 DEF Upsert

(* What an applied delete does: the records of the row and of its children are new, one    *)
(* each, and carry the versions of exactly those rows.                                     *)
TombstoneWith(e, place) ==
  LET kids == Children(e.row)
      n == Cardinality(kids)
  IN /\ row' = [r \in Row |->
           IF r = e.row THEN Tombstoned(r, head + 1)
           ELSE IF r \in kids THEN Tombstoned(r, head + 1 + place[r])
           ELSE row[r]]
     /\ log' = log \cup {Removal(e.row, head + 1, e.id)}
                   \cup {Removal(k, head + 1 + place[k], None) : k \in kids}
     /\ head' = head + 1 + n
     /\ writes' = writes + 1 + n

\* A delete, in the terms the proofs need.
LEMMA TombstoneStep ==
  ASSUME TypeOK, job.todo # <<>>, Tombstone(Head(job.todo))
  PROVE  /\ \E place \in Bijection(Children(Head(job.todo).row),
                                   1..Cardinality(Children(Head(job.todo).row))) :
              TombstoneWith(Head(job.todo), place)
         /\ pruned' = pruned /\ aged' = aged
         /\ job' \in [device: Device, todo: Seq(Entry), results: Seq(Result)]
<1> DEFINE e == Head(job.todo)
<1>1. Reply(e, "applied", head + 1)
  BY DEF Tombstone
<1>2. job' \in [device: Device, todo: Seq(Entry), results: Seq(Result)]
  BY <1>1, ReplyTyped DEF Status, TypeOK
<1>3. QED
  BY <1>2 DEF Tombstone, TombstoneWith

\* The record of a deleted row is a record.
LEMMA RemovalTyped ==
  ASSUME TypeOK, job.todo # <<>>, NEW r \in Row, NEW seq \in Nat, NEW entry \in Value
  PROVE  Removal(r, seq, entry) \in LogRec
<1>1. job.device \in Device
  BY HeadTyped
<1>2. QED
  BY <1>1 DEF Removal, LogRec
----------------------------------------------------------------------------
\* The cases of a step of the vault.
LEMMA NextCases ==
  ASSUME TypeOK, [Next]_vars,
         NEW P,
         UNCHANGED vars => P,
         ASSUME NEW d \in Device, NEW entries \in Seq(Entry), PushBegin(d, entries) PROVE P,
         ASSUME job.todo # <<>>, ReplyOnly(Head(job.todo)) PROVE P,
         ASSUME job.todo # <<>>, Upsert(Head(job.todo)) PROVE P,
         ASSUME job.todo # <<>>, Tombstone(Head(job.todo)) PROVE P,
         PushEnd => P,
         ASSUME NEW s \in 1..head, Age(s) PROVE P,
         NewDay => P
  PROVE  P
<1>1. CASE job.todo # <<>> /\ Serve(Head(job.todo))
  BY <1>1 DEF Serve, ReplyOnly
<1>2. CASE \E d \in Device, entries \in Seq(Entry) : PushBegin(d, entries)
  BY <1>2
<1>3. CASE PushEnd
  BY <1>3
<1>4. CASE \E s \in 1..head : Age(s)
  BY <1>4
<1>5. CASE NewDay
  BY <1>5
<1>6. CASE UNCHANGED vars
  BY <1>6
<1>7. QED
  BY <1>1, <1>2, <1>3, <1>4, <1>5, <1>6 DEF Next, ServerStep

\* The bounds hold at first.
LEMMA BoundedInit == Init => Bounded
<1> SUFFICES ASSUME Init PROVE Bounded
  OBVIOUS
<1>1. Absent \in RowState
  BY DEF Absent, RowState, Value
<1>2. TypeOK
  BY <1>1 DEF Init, TypeOK
<1>3. LogBounded /\ RowsBounded
  BY DEF Init, LogBounded, RowsBounded, Absent
<1>4. QED
  BY <1>2, <1>3 DEF Bounded

\* A write keeps the bounds.
LEMMA BoundedUpsert ==
  ASSUME Bounded, job.todo # <<>>, Upsert(Head(job.todo))
  PROVE  Bounded'
<1> DEFINE e == Head(job.todo)
<1> USE DEF Bounded
<1>1. e.row \in Row
  BY HeadTyped DEF Entry
<1>2. PICK rec \in LogRec : rec.seq = head + 1 /\ log' = log \cup {rec}
  BY UpsertStep
<1>3. /\ Written(e) \in RowState
      /\ row' = [row EXCEPT ![e.row] = Written(e)]
      /\ head' = head + 1 /\ writes' = writes + 1 /\ pruned' = pruned /\ aged' = aged
      /\ job' \in [device: Device, todo: Seq(Entry), results: Seq(Result)]
  BY UpsertStep
<1>4. TypeOK'
  BY <1>1, <1>2, <1>3 DEF TypeOK
<1>5. LogBounded'
  BY <1>2, <1>3 DEF LogBounded, TypeOK
<1>6. RowsBounded'
  <2>1. Written(e).version = head + 1
    BY DEF Written
  <2>2. \A r \in Row : row[r].version \in Nat
    BY DEF TypeOK, RowState
  <2>3. QED
    BY <1>1, <1>3, <2>1, <2>2 DEF RowsBounded, TypeOK
<1>7. QED
  BY <1>4, <1>5, <1>6

\* A delete keeps the bounds.
LEMMA BoundedTombstone ==
  ASSUME Bounded, job.todo # <<>>, Tombstone(Head(job.todo))
  PROVE  Bounded'
<1> DEFINE e == Head(job.todo)
           kids == Children(e.row)
           n == Cardinality(kids)
<1> USE DEF Bounded
<1>1. e.row \in Row /\ e.id \in EntryId
  BY HeadTyped DEF Entry
<1>2. PICK place \in Bijection(kids, 1..n) : TombstoneWith(e, place)
  BY TombstoneStep
<1>3. n \in Nat /\ kids \subseteq Row /\ head \in Nat /\ writes \in Nat
  BY <1>1, ChildrenFinite DEF TypeOK
<1>4. \A k \in kids : place[k] \in 1..n
  BY <1>1, PlaceTyped
<1>5. /\ head' = head + 1 + n /\ writes' = writes + 1 + n /\ pruned' = pruned /\ aged' = aged
      /\ job' \in [device: Device, todo: Seq(Entry), results: Seq(Result)]
  BY <1>2, TombstoneStep DEF TombstoneWith
<1>6. log' = log \cup {Removal(e.row, head + 1, e.id)}
                 \cup {Removal(k, head + 1 + place[k], None) : k \in kids}
  BY <1>2 DEF TombstoneWith
<1>7. \A r \in Row :
        row'[r] = IF r = e.row THEN Tombstoned(r, head + 1)
                  ELSE IF r \in kids THEN Tombstoned(r, head + 1 + place[r])
                  ELSE row[r]
  BY <1>2 DEF TombstoneWith
<1> HIDE DEF n, kids
<1>8. TypeOK'
  <2>1. \A r \in Row : row[r] \in RowState
    BY DEF TypeOK
  <2>2. ASSUME NEW r \in Row PROVE row'[r] \in RowState
    <3>1. \A seq \in Nat : Tombstoned(r, seq) \in RowState
      BY <2>1 DEF Tombstoned, RowState
    <3>2. \A k \in kids : head + 1 + place[k] \in Nat
      BY <1>3, <1>4
    <3>3. QED
      BY <1>3, <1>7, <2>1, <3>1, <3>2
  <2>3. row' \in [Row -> RowState]
    BY <1>2, <2>2 DEF TombstoneWith
  <2>4. Removal(e.row, head + 1, e.id) \in LogRec
    BY <1>1, <1>3, RemovalTyped DEF Value
  <2>5. \A k \in kids : Removal(k, head + 1 + place[k], None) \in LogRec
    BY <1>3, <1>4, RemovalTyped DEF Value
  <2>6. log' \subseteq LogRec
    BY <1>6, <2>4, <2>5 DEF TypeOK
  <2>7. QED
    BY <1>3, <1>5, <2>3, <2>6 DEF TypeOK
<1>9. LogBounded'
  <2>1. \A l \in log : l.seq \in 1..(head + 1 + n)
    BY <1>3 DEF LogBounded
  <2>2. Removal(e.row, head + 1, e.id).seq \in 1..(head + 1 + n)
    BY <1>3 DEF Removal
  <2>3. \A k \in kids : Removal(k, head + 1 + place[k], None).seq \in 1..(head + 1 + n)
    BY <1>3, <1>4 DEF Removal
  <2>4. QED
    BY <1>5, <1>6, <2>1, <2>2, <2>3 DEF LogBounded
<1>10. RowsBounded'
  <2>1. \A r \in Row : row[r] \in RowState
    BY DEF TypeOK
  <2>2. SUFFICES ASSUME NEW r \in Row
                 PROVE  row'[r].version <= head + 1 + n
    BY <1>5 DEF RowsBounded
  <2>3. CASE r = e.row
    <3>1. row'[r] = Tombstoned(r, head + 1)
      BY <1>7, <2>3
    <3>2. row'[r].version = head + 1
      BY <3>1 DEF Tombstoned
    <3>3. QED
      BY <1>3, <3>2
  <2>4. CASE r # e.row /\ r \in kids
    <3>1. row'[r] = Tombstoned(r, head + 1 + place[r])
      BY <1>7, <2>4
    <3>2. row'[r].version = head + 1 + place[r]
      BY <3>1 DEF Tombstoned
    <3>3. QED
      BY <1>3, <1>4, <2>4, <3>2
  <2>5. CASE r # e.row /\ r \notin kids
    <3>1. row'[r].version <= head /\ row'[r].version \in Nat
      BY <1>7, <2>1, <2>5 DEF RowsBounded, RowState
    <3>2. QED
      BY <1>3, <3>1
  <2>6. QED
    BY <2>3, <2>4, <2>5
<1>11. QED
  BY <1>8, <1>9, <1>10

\* No step breaks the bounds.
LEMMA BoundedStep == Bounded /\ [Next]_vars => Bounded'
<1> SUFFICES ASSUME Bounded, [Next]_vars PROVE Bounded'
  OBVIOUS
<1> USE DEF Bounded
<1>1. CASE UNCHANGED vars
  BY <1>1 DEF vars, TypeOK, LogBounded, RowsBounded
<1>2. ASSUME NEW d \in Device, NEW entries \in Seq(Entry), PushBegin(d, entries)
      PROVE  Bounded'
  BY <1>2 DEF PushBegin, TypeOK, LogBounded, RowsBounded
<1>3. ASSUME job.todo # <<>>, ReplyOnly(Head(job.todo))
      PROVE  Bounded'
  BY <1>3, ReplyOnlyStep DEF TypeOK, LogBounded, RowsBounded
<1>4. ASSUME job.todo # <<>>, Upsert(Head(job.todo))
      PROVE  Bounded'
  BY <1>4, BoundedUpsert
<1>5. ASSUME job.todo # <<>>, Tombstone(Head(job.todo))
      PROVE  Bounded'
  BY <1>5, BoundedTombstone
<1>6. CASE PushEnd
  <2>1. pruned' \in Nat
    BY <1>6, LimitsAssumption DEF PushEnd, TypeOK
  <2>2. QED
    BY <1>6, <2>1 DEF PushEnd, TypeOK, LogBounded, RowsBounded
<1>7. ASSUME NEW s \in 1..head, Age(s)
      PROVE  Bounded'
  <2>1. aged' \in Nat
    BY <1>7 DEF Age, TypeOK
  <2>2. QED
    BY <1>7, <2>1 DEF Age, TypeOK, LogBounded, RowsBounded
<1>8. CASE NewDay
  BY <1>8 DEF NewDay, TypeOK, LogBounded, RowsBounded
<1>9. QED
  BY <1>1, <1>2, <1>3, <1>4, <1>5, <1>6, <1>7, <1>8, NextCases

\* The bounds hold of every state.
LEMMA BoundedAlways == Spec => []Bounded
BY BoundedInit, BoundedStep, PTL DEF Spec

(* Every variable of the vault keeps its type, whatever is pushed.                          *)
THEOREM TypeCorrect == Spec => []TypeOK
<1>1. Bounded => TypeOK
  BY DEF Bounded
<1>2. QED
  BY <1>1, BoundedAlways, PTL
----------------------------------------------------------------------------
(***************************************************************************)
(* Idempotence.  A new record of an entry is only written when the log     *)
(* remembers none, and it is newer than every other record.                *)
(***************************************************************************)
LEMMA AppliedOnceStep == Bounded /\ AppliedOnce /\ [Next]_vars => AppliedOnce'
<1> SUFFICES ASSUME Bounded, AppliedOnce, [Next]_vars PROVE AppliedOnce'
  OBVIOUS
<1> USE DEF Bounded
<1>1. CASE UNCHANGED vars
  BY <1>1 DEF vars, AppliedOnce
<1>2. ASSUME NEW d \in Device, NEW entries \in Seq(Entry), PushBegin(d, entries)
      PROVE  AppliedOnce'
  BY <1>2 DEF PushBegin, AppliedOnce
<1>3. ASSUME job.todo # <<>>, ReplyOnly(Head(job.todo))
      PROVE  AppliedOnce'
  BY <1>3, ReplyOnlyStep DEF AppliedOnce
<1>4. ASSUME job.todo # <<>>, Upsert(Head(job.todo))
      PROVE  AppliedOnce'
  <2> DEFINE e == Head(job.todo)
  <2>1. PICK rec \in LogRec : rec.seq = head + 1 /\ rec.entry = e.id /\ log' = log \cup {rec}
    BY <1>4, UpsertStep
  <2>2. pruned' = pruned /\ head \in Nat /\ pruned \in Nat
    BY <1>4 DEF Upsert, TypeOK
  <2>3. \A l \in log : l.seq \in 1..head /\ (l.entry = e.id => ~(l.seq > pruned))
    BY <1>4 DEF Upsert, Admitted, Logged, LogBounded
  <2>4. QED
    BY <2>1, <2>2, <2>3 DEF AppliedOnce
<1>5. ASSUME job.todo # <<>>, Tombstone(Head(job.todo))
      PROVE  AppliedOnce'
  <2> DEFINE e == Head(job.todo)
             kids == Children(e.row)
             n == Cardinality(kids)
  <2>1. PICK place \in Bijection(kids, 1..n) : TombstoneWith(e, place)
    BY <1>5, TombstoneStep
  <2>2. pruned' = pruned /\ head \in Nat /\ pruned \in Nat
    BY <1>5 DEF Tombstone, TypeOK
  <2>3. \A l \in log : l.seq \in 1..head /\ (l.entry = e.id => ~(l.seq > pruned))
    BY <1>5 DEF Tombstone, Admitted, Logged, LogBounded
  <2>4. ASSUME NEW l \in log', l.entry # None
        PROVE  l \in log \/ l = Removal(e.row, head + 1, e.id)
    BY <2>1, <2>4 DEF TombstoneWith, Removal
  <2>5. Removal(e.row, head + 1, e.id).seq = head + 1
        /\ Removal(e.row, head + 1, e.id).entry = e.id
    BY DEF Removal
  <2>6. QED
    BY <2>2, <2>3, <2>4, <2>5 DEF AppliedOnce
<1>6. CASE PushEnd
  <2>1. pruned' >= pruned /\ log' = log /\ pruned' \in Nat
    BY <1>6, LimitsAssumption DEF PushEnd, TypeOK
  <2>2. \A l \in log : l.seq \in Nat
    BY DEF LogBounded, TypeOK
  <2>3. QED
    BY <2>1, <2>2 DEF AppliedOnce, TypeOK
<1>7. ASSUME NEW s \in 1..head, Age(s)
      PROVE  AppliedOnce'
  BY <1>7 DEF Age, AppliedOnce
<1>8. CASE NewDay
  BY <1>8 DEF NewDay, AppliedOnce
<1>9. QED
  BY <1>1, <1>2, <1>3, <1>4, <1>5, <1>6, <1>7, <1>8, NextCases

(* However often an outbox entry is resent, it takes effect once while the change log       *)
(* remembers it (the outbox_id lookup of push).                                             *)
THEOREM Idempotent == Spec => []AppliedOnce
<1>1. Init => AppliedOnce
  BY DEF Init, AppliedOnce
<1>2. QED
  BY <1>1, AppliedOnceStep, BoundedAlways, PTL DEF Spec
----------------------------------------------------------------------------
(***************************************************************************)
(* Delete wins.  A tombstone takes every live row that refers to its row,  *)
(* and an upsert makes its row newer than any tombstone.                   *)
(***************************************************************************)
LEMMA CascadeUpsert ==
  ASSUME Bounded, CascadeComplete, job.todo # <<>>, Upsert(Head(job.todo))
  PROVE  CascadeComplete'
<1> DEFINE e == Head(job.todo)
<1> USE DEF Bounded
<1>1. e.row \in Row
  BY HeadTyped DEF Entry
<1>2. row' = [row EXCEPT ![e.row] = Written(e)]
  BY UpsertStep
<1>3. Written(e).version = head + 1 /\ Written(e).deleted = FALSE
  BY DEF Written
<1>4. SUFFICES ASSUME NEW r \in Row, Live(r)', Parent[r] # None, row'[Parent[r]].deleted
               PROVE  row'[r].version > row'[Parent[r]].version
  BY DEF CascadeComplete
<1>5. Parent[r] \in Row /\ Parent[r] # r
  BY <1>4, RowsAssumption, DepthAssumption
<1>6. row'[Parent[r]] = row[Parent[r]] /\ row[Parent[r]] \in RowState /\ Parent[r] # e.row
  BY <1>1, <1>2, <1>3, <1>4, <1>5 DEF TypeOK
<1>7. CASE r = e.row
  <2>1. row'[r].version = head + 1
    BY <1>1, <1>2, <1>3, <1>7 DEF TypeOK
  <2>2. row[Parent[r]].version <= head /\ row[Parent[r]].version \in Nat /\ head \in Nat
    BY <1>5, <1>6 DEF RowsBounded, RowState, TypeOK
  <2>3. QED
    BY <1>6, <2>1, <2>2
<1>8. CASE r # e.row
  <2>1. row'[r] = row[r]
    BY <1>1, <1>2, <1>8 DEF TypeOK
  <2>2. Live(r) /\ row[Parent[r]].deleted
    BY <1>4, <1>6, <2>1 DEF Live, Exists
  <2>3. QED
    BY <1>4, <1>6, <2>1, <2>2 DEF CascadeComplete
<1>9. QED
  BY <1>7, <1>8

\* A delete takes along every live row that refers to the deleted one.
LEMMA CascadeTombstone ==
  ASSUME Bounded, CascadeComplete, job.todo # <<>>, Tombstone(Head(job.todo))
  PROVE  CascadeComplete'
<1> DEFINE e == Head(job.todo)
           kids == Children(e.row)
<1> USE DEF Bounded
<1>1. e.row \in Row
  BY HeadTyped DEF Entry
<1>2. PICK place \in Bijection(kids, 1..Cardinality(kids)) : TombstoneWith(e, place)
  BY TombstoneStep
<1>3. \A r \in Row : r = e.row \/ r \in kids => row'[r].deleted
  BY <1>2 DEF TombstoneWith, Tombstoned
<1>4. \A r \in Row : r # e.row /\ r \notin kids => row'[r] = row[r]
  BY <1>2 DEF TombstoneWith
<1>5. SUFFICES ASSUME NEW r \in Row, Live(r)', Parent[r] # None, row'[Parent[r]].deleted
               PROVE  row'[r].version > row'[Parent[r]].version
  BY DEF CascadeComplete
<1>6. Parent[r] \in Row
  BY <1>5, RowsAssumption
<1>7. r # e.row /\ r \notin kids
  BY <1>3, <1>5 DEF Live
<1>8. row'[r] = row[r] /\ Live(r)
  BY <1>4, <1>5, <1>7 DEF Live, Exists
<1>9. Parent[r] # e.row
  BY <1>7, <1>8 DEF Children
<1>10. Parent[r] \notin kids
  BY <1>1, OneLevel
<1>11. row'[Parent[r]] = row[Parent[r]]
  BY <1>4, <1>6, <1>9, <1>10
<1>12. QED
  BY <1>5, <1>8, <1>11 DEF CascadeComplete

\* No step leaves a live row under a deleted one.
LEMMA CascadeStep == Bounded /\ CascadeComplete /\ [Next]_vars => CascadeComplete'
<1> SUFFICES ASSUME Bounded, CascadeComplete, [Next]_vars PROVE CascadeComplete'
  OBVIOUS
<1> USE DEF Bounded, CascadeComplete, Live, Exists
<1>1. CASE UNCHANGED vars
  BY <1>1 DEF vars
<1>2. ASSUME NEW d \in Device, NEW entries \in Seq(Entry), PushBegin(d, entries)
      PROVE  CascadeComplete'
  BY <1>2 DEF PushBegin
<1>3. ASSUME job.todo # <<>>, ReplyOnly(Head(job.todo))
      PROVE  CascadeComplete'
  BY <1>3, ReplyOnlyStep
<1>4. ASSUME job.todo # <<>>, Upsert(Head(job.todo))
      PROVE  CascadeComplete'
  BY <1>4, CascadeUpsert
<1>5. ASSUME job.todo # <<>>, Tombstone(Head(job.todo))
      PROVE  CascadeComplete'
  BY <1>5, CascadeTombstone
<1>6. CASE PushEnd
  BY <1>6 DEF PushEnd
<1>7. ASSUME NEW s \in 1..head, Age(s)
      PROVE  CascadeComplete'
  BY <1>7 DEF Age
<1>8. CASE NewDay
  BY <1>8 DEF NewDay
<1>9. QED
  BY <1>1, <1>2, <1>3, <1>4, <1>5, <1>6, <1>7, <1>8, NextCases

(* Whatever is live under a deleted row was saved again after the deletion (tombstone and   *)
(* its cascade, against every order of edits and deletes).                                  *)
THEOREM DeleteWins == Spec => []CascadeComplete
<1>1. Init => CascadeComplete
  BY RowsAssumption DEF Init, CascadeComplete, Live, Exists, Absent
<1>2. QED
  BY <1>1, CascadeStep, BoundedAlways, PTL DEF Spec
----------------------------------------------------------------------------
(***************************************************************************)
(* The daily quota.  Only an admitted entry adds writes: one for an upsert,*)
(* one and the children of the row for a delete.                           *)
(***************************************************************************)
LEMMA WritesStep == Bounded /\ WritesBounded /\ [Next]_vars => WritesBounded'
<1> SUFFICES ASSUME Bounded, WritesBounded, [Next]_vars PROVE WritesBounded'
  OBVIOUS
<1> USE DEF Bounded, WritesBounded
<1>1. CASE UNCHANGED vars
  BY <1>1 DEF vars
<1>2. ASSUME NEW d \in Device, NEW entries \in Seq(Entry), PushBegin(d, entries)
      PROVE  WritesBounded'
  BY <1>2 DEF PushBegin
<1>3. ASSUME job.todo # <<>>, ReplyOnly(Head(job.todo))
      PROVE  WritesBounded'
  BY <1>3, ReplyOnlyStep
<1>4. ASSUME job.todo # <<>>, Upsert(Head(job.todo))
      PROVE  WritesBounded'
  <2>1. writes < MaxMetaWrites /\ writes' = writes + 1
    BY <1>4 DEF Upsert, Admitted
  <2>2. QED
    BY <2>1, LimitsAssumption DEF TypeOK
<1>5. ASSUME job.todo # <<>>, Tombstone(Head(job.todo))
      PROVE  WritesBounded'
  <2> DEFINE r == Head(job.todo).row
             n == Cardinality(Children(r))
             m == Cardinality({c \in Row : Parent[c] = r})
  <2>1. r \in Row
    BY <1>5, HeadTyped DEF Entry
  <2>2. writes < MaxMetaWrites /\ writes' = writes + 1 + n
    BY <1>5 DEF Tombstone, Admitted
  <2>3. n \in Nat /\ n <= m
    BY <2>1, ChildrenFinite
  <2>4. m \in Nat
    BY RowsAssumption, FS_Subset, FS_CardinalityType
  <2>5. writes' <= MaxMetaWrites + m
    <3> HIDE DEF n, m
    <3> QED BY <2>2, <2>3, <2>4, LimitsAssumption DEF TypeOK
  <2>6. QED
    BY <2>1, <2>5
<1>6. CASE PushEnd
  BY <1>6 DEF PushEnd
<1>7. ASSUME NEW s \in 1..head, Age(s)
      PROVE  WritesBounded'
  BY <1>7 DEF Age
<1>8. CASE NewDay
  BY <1>8, LimitsAssumption DEF NewDay
<1>9. QED
  BY <1>1, <1>2, <1>3, <1>4, <1>5, <1>6, <1>7, <1>8, NextCases

(* The writes of a day never pass the quota by more than one cascade.                       *)
THEOREM QuotaHolds == Spec => []WritesBounded
<1>1. Init => WritesBounded
  BY LimitsAssumption DEF Init, WritesBounded
<1>2. QED
  BY <1>1, WritesStep, BoundedAlways, PTL DEF Spec
----------------------------------------------------------------------------
(***************************************************************************)
(* The audit log.  RowsReplayLog holds row by row; a row keeps it as long  *)
(* as neither the row nor the records of the row change.                   *)
(***************************************************************************)
Replays(r) ==
  /\ row[r].version = 0 => row[r] = Absent /\ \A l \in log : l.row # r
  /\ row[r].version # 0 =>
       \E l \in log : /\ l.row = r
                      /\ LastRecord(l)
                      /\ l.seq = row[r].version
                      /\ row[r].deleted <=> l.op = "delete"
  /\ \A f \in Field :
       \/ row[r].val[f] = None /\ Writes(r, f) = {}
       \/ \E l \in Writes(r, f) : /\ l.entry = row[r].val[f]
                                  /\ \A m \in Writes(r, f) : m.seq <= l.seq

\* A row that no new record is about replays as before.
LEMMA ReplaysUntouched ==
  ASSUME NEW r \in Row, Replays(r), row'[r] = row[r],
         log \subseteq log',
         \A l \in log' : l.row = r => l \in log
  PROVE  Replays(r)'
<1>1. row[r].version = 0 => row'[r] = Absent /\ \A l \in log' : l.row # r
  BY DEF Replays
<1>2. ASSUME row[r].version # 0
      PROVE  \E l \in log' : /\ l.row = r
                             /\ LastRecord(l)'
                             /\ l.seq = row'[r].version
                             /\ row'[r].deleted <=> l.op = "delete"
  <2>1. PICK l \in log : /\ l.row = r
                         /\ LastRecord(l)
                         /\ l.seq = row[r].version
                         /\ row[r].deleted <=> l.op = "delete"
    BY <1>2 DEF Replays
  <2>2. LastRecord(l)'
    BY <2>1 DEF LastRecord
  <2>3. QED
    BY <2>1, <2>2
<1>3. \A f \in Field : Writes(r, f)' = Writes(r, f)
  BY DEF Writes
<1>4. QED
  BY <1>1, <1>2, <1>3 DEF Replays

\* A write is replayed by its record.
LEMMA ReplaysUpsert ==
  ASSUME Bounded, RowsReplayLog, job.todo # <<>>, Upsert(Head(job.todo))
  PROVE  RowsReplayLog'
<1> DEFINE e == Head(job.todo)
<1> USE DEF Bounded
<1>1. e.row \in Row
  BY HeadTyped DEF Entry
<1>2. PICK rec \in LogRec : /\ rec.seq = head + 1
                            /\ rec.row = e.row
                            /\ rec.op = "upsert"
                            /\ rec.fields = e.fields
                            /\ rec.entry = e.id
                            /\ log' = log \cup {rec}
  BY UpsertStep
<1>3. row' = [row EXCEPT ![e.row] = Written(e)]
  BY UpsertStep
<1>4. SUFFICES ASSUME NEW r \in Row PROVE Replays(r)'
  BY DEF RowsReplayLog, Replays
<1>5. Replays(r)
  BY DEF RowsReplayLog, Replays
<1>6. CASE r # e.row
  <2>1. row'[r] = row[r]
    BY <1>3, <1>6 DEF TypeOK
  <2>2. QED
    BY <1>2, <1>5, <1>6, <2>1, ReplaysUntouched
<1>7. CASE r = e.row
  <2>1. row'[r] = Written(e)
    BY <1>1, <1>3, <1>7 DEF TypeOK
  <2>2. head \in Nat /\ \A l \in log : l.seq \in Nat /\ l.seq <= head
    BY DEF TypeOK, LogBounded
  <2>3. row'[r].version = head + 1 /\ row'[r].deleted = FALSE
        /\ \A f \in Field : row'[r].val[f] = IF f \in e.fields THEN e.id ELSE row[r].val[f]
    BY <1>7, <2>1 DEF Written
  <2>4. LastRecord(rec)'
    BY <1>2, <2>2 DEF LastRecord
  <2>5. ASSUME NEW f \in Field
        PROVE  \/ row'[r].val[f] = None /\ Writes(r, f)' = {}
               \/ \E l \in Writes(r, f)' : /\ l.entry = row'[r].val[f]
                                           /\ \A m \in Writes(r, f)' : m.seq <= l.seq
    <3>1. CASE f \in e.fields
      <4>1. rec \in Writes(r, f)' /\ rec.entry = row'[r].val[f]
        BY <1>2, <1>7, <2>3, <3>1 DEF Writes
      <4>2. \A m \in Writes(r, f)' : m.seq <= rec.seq
        BY <1>2, <2>2 DEF Writes
      <4>3. QED
        BY <4>1, <4>2
    <3>2. CASE f \notin e.fields
      <4>1. Writes(r, f)' = Writes(r, f)
        BY <1>2, <3>2 DEF Writes
      <4>2. row'[r].val[f] = row[r].val[f]
        BY <2>3, <3>2
      <4>3. QED
        BY <1>5, <4>1, <4>2 DEF Replays
    <3>3. QED
      BY <3>1, <3>2
  <2>6. row'[r].version # 0
    BY <2>2, <2>3
  <2>7. \E l \in log' : /\ l.row = r
                        /\ LastRecord(l)'
                        /\ l.seq = row'[r].version
                        /\ row'[r].deleted <=> l.op = "delete"
    BY <1>2, <1>7, <2>3, <2>4
  <2>8. QED
    BY <2>5, <2>6, <2>7 DEF Replays
<1>8. QED
  BY <1>6, <1>7

\* A delete is replayed by its records.
LEMMA ReplaysTombstone ==
  ASSUME Bounded, RowsReplayLog, job.todo # <<>>, Tombstone(Head(job.todo))
  PROVE  RowsReplayLog'
<1> DEFINE e == Head(job.todo)
           kids == Children(e.row)
           n == Cardinality(kids)
<1> USE DEF Bounded
<1>1. e.row \in Row
  BY HeadTyped DEF Entry
<1>2. PICK place \in Bijection(kids, 1..n) : TombstoneWith(e, place)
  BY TombstoneStep
<1>3. n \in Nat /\ (\A k \in kids : place[k] \in 1..n) /\ e.row \notin kids
  BY <1>1, ChildrenFinite, PlaceTyped, OneLevel
<1>4. log' = log \cup {Removal(e.row, head + 1, e.id)}
                 \cup {Removal(k, head + 1 + place[k], None) : k \in kids}
  BY <1>2 DEF TombstoneWith
<1>5. head \in Nat /\ \A l \in log : l.seq \in Nat /\ l.seq <= head
  BY DEF TypeOK, LogBounded
<1>6. SUFFICES ASSUME NEW r \in Row PROVE Replays(r)'
  BY DEF RowsReplayLog, Replays
<1>7. Replays(r)
  BY DEF RowsReplayLog, Replays
<1> HIDE DEF n, kids
<1>8. \A l \in log' : \/ l \in log
                      \/ l = Removal(e.row, head + 1, e.id)
                      \/ \E k \in kids : l = Removal(k, head + 1 + place[k], None)
  BY <1>4
<1>9. ASSUME NEW rec \in log', rec.row = r, rec.op = "delete", rec.seq \in Nat,
             rec.seq > head, \A l \in log' : l.row = r => l \in log \/ l = rec,
             row'[r].version = rec.seq, row'[r].deleted = TRUE, row'[r].val = row[r].val
      PROVE  Replays(r)'
  <2>1. LastRecord(rec)'
    BY <1>5, <1>9 DEF LastRecord
  <2>2. row'[r].version # 0
    BY <1>5, <1>9
  <2>3. \A f \in Field : Writes(r, f)' = Writes(r, f)
    <3>1. log \subseteq log'
      BY <1>4
    <3>2. QED
      BY <1>9, <3>1 DEF Writes
  <2>4. \E l \in log' : /\ l.row = r
                        /\ LastRecord(l)'
                        /\ l.seq = row'[r].version
                        /\ row'[r].deleted <=> l.op = "delete"
    BY <1>9, <2>1
  <2>5. QED
    BY <1>7, <1>9, <2>2, <2>3, <2>4 DEF Replays
<1>10. CASE r = e.row
  <2> DEFINE rec == Removal(e.row, head + 1, e.id)
  <2>1. rec \in log' /\ rec.row = r /\ rec.op = "delete" /\ rec.seq = head + 1
    BY <1>4, <1>10 DEF Removal
  <2>2. \A l \in log' : l.row = r => l \in log \/ l = rec
    BY <1>3, <1>8, <1>10 DEF Removal
  <2>3. row'[r] = Tombstoned(r, head + 1)
    BY <1>2, <1>10 DEF TombstoneWith
  <2>4. row'[r].version = head + 1 /\ row'[r].deleted = TRUE /\ row'[r].val = row[r].val
    BY <2>3 DEF Tombstoned
  <2>5. head + 1 \in Nat /\ head + 1 > head
    BY <1>5
  <2> HIDE DEF rec
  <2>6. QED
    BY <1>9, <2>1, <2>2, <2>4, <2>5
<1>11. CASE r # e.row /\ r \in kids
  <2> DEFINE rec == Removal(r, head + 1 + place[r], None)
  <2>1. rec \in log' /\ rec.row = r /\ rec.op = "delete" /\ rec.seq = head + 1 + place[r]
    BY <1>4, <1>11 DEF Removal
  <2>2. \A l \in log' : l.row = r => l \in log \/ l = rec
    BY <1>8, <1>11 DEF Removal
  <2>3. row'[r] = Tombstoned(r, head + 1 + place[r])
    BY <1>2, <1>11 DEF TombstoneWith, kids
  <2>4. /\ row'[r].version = head + 1 + place[r]
        /\ row'[r].deleted = TRUE
        /\ row'[r].val = row[r].val
    BY <2>3 DEF Tombstoned
  <2>5. head + 1 + place[r] \in Nat /\ head + 1 + place[r] > head
    BY <1>3, <1>5, <1>11
  <2> HIDE DEF rec
  <2>6. QED
    BY <1>9, <2>1, <2>2, <2>4, <2>5
<1>12. CASE r # e.row /\ r \notin kids
  <2>1. row'[r] = row[r]
    BY <1>2, <1>12 DEF TombstoneWith, kids
  <2>2. \A l \in log' : l.row = r => l \in log
    BY <1>8, <1>12 DEF Removal
  <2>3. QED
    BY <1>4, <1>7, <2>1, <2>2, ReplaysUntouched
<1>13. QED
  BY <1>10, <1>11, <1>12

\* No step lets the rows and the log part.
LEMMA ReplaysStep == Bounded /\ RowsReplayLog /\ [Next]_vars => RowsReplayLog'
<1> SUFFICES ASSUME Bounded, RowsReplayLog, [Next]_vars PROVE RowsReplayLog'
  OBVIOUS
<1> USE DEF Bounded
<1>1. ASSUME row' = row, log' = log
      PROVE  RowsReplayLog'
  BY <1>1 DEF RowsReplayLog, LastRecord, Writes
<1>2. CASE UNCHANGED vars
  BY <1>1, <1>2 DEF vars
<1>3. ASSUME NEW d \in Device, NEW entries \in Seq(Entry), PushBegin(d, entries)
      PROVE  RowsReplayLog'
  BY <1>1, <1>3 DEF PushBegin
<1>4. ASSUME job.todo # <<>>, ReplyOnly(Head(job.todo))
      PROVE  RowsReplayLog'
  BY <1>1, <1>4, ReplyOnlyStep
<1>5. ASSUME job.todo # <<>>, Upsert(Head(job.todo))
      PROVE  RowsReplayLog'
  BY <1>5, ReplaysUpsert
<1>6. ASSUME job.todo # <<>>, Tombstone(Head(job.todo))
      PROVE  RowsReplayLog'
  BY <1>6, ReplaysTombstone
<1>7. CASE PushEnd
  BY <1>1, <1>7 DEF PushEnd
<1>8. ASSUME NEW s \in 1..head, Age(s)
      PROVE  RowsReplayLog'
  BY <1>1, <1>8 DEF Age
<1>9. CASE NewDay
  BY <1>1, <1>9 DEF NewDay
<1>10. QED
  BY <1>2, <1>3, <1>4, <1>5, <1>6, <1>7, <1>8, <1>9, NextCases

(* The tables always hold exactly what the change log says, row by row and column by        *)
(* column (applyEntry, tombstone and recordChange together).                                *)
THEOREM LogTellsRows == Spec => []RowsReplayLog
<1>1. Init => RowsReplayLog
  BY DEF Init, RowsReplayLog, Absent, Writes
<1>2. QED
  BY <1>1, ReplaysStep, BoundedAlways, PTL DEF Spec
----------------------------------------------------------------------------
(***************************************************************************)
(* The changes feed.  ORDER BY version LIMIT n takes the n oldest rows of   *)
(* a set, as no two stored rows have a version in common.                   *)
(***************************************************************************)
VersionsDiffer ==
  \A r, s \in Row : r # s /\ row[r].version = row[s].version => row[r].version = 0

\* A delete gives each row a version of its own.
LEMMA VersionsTombstone ==
  ASSUME Bounded, VersionsDiffer, job.todo # <<>>, Tombstone(Head(job.todo))
  PROVE  VersionsDiffer'
<1> DEFINE e == Head(job.todo)
           kids == Children(e.row)
           n == Cardinality(kids)
<1> USE DEF Bounded
<1>1. e.row \in Row
  BY HeadTyped DEF Entry
<1>2. PICK place \in Bijection(kids, 1..n) : TombstoneWith(e, place)
  BY TombstoneStep
<1>3. /\ n \in Nat /\ kids \subseteq Row
      /\ \A k \in kids : place[k] \in 1..n
      /\ e.row \notin kids
  BY <1>1, ChildrenFinite, PlaceTyped, OneLevel
<1>4. \A k, l \in kids : place[k] = place[l] => k = l
  BY <1>2 DEF Bijection, Injection, IsInjective
<1>5. /\ row'[e.row].version = head + 1
      /\ \A k \in kids : row'[k].version = head + 1 + place[k]
      /\ \A r \in Row : r # e.row /\ r \notin kids => row'[r] = row[r]
  BY <1>1, <1>2, <1>3 DEF TombstoneWith, Tombstoned
<1>6. \A r \in Row : row[r].version \in Nat /\ row[r].version <= head /\ head \in Nat
  BY DEF TypeOK, RowsBounded, RowState
<1> HIDE DEF e, kids, n
<1>7. SUFFICES ASSUME NEW r \in Row, NEW s \in Row, r # s, row'[r].version = row'[s].version
               PROVE  row'[r].version = 0
  BY DEF VersionsDiffer
<1>8. CASE r \in kids /\ s \in kids
  BY <1>3, <1>4, <1>5, <1>6, <1>7, <1>8
<1>9. CASE r = e.row \/ s = e.row
  BY <1>3, <1>5, <1>6, <1>7, <1>9
<1>10. CASE r # e.row /\ s # e.row /\ (r \notin kids \/ s \notin kids)
  BY <1>3, <1>5, <1>6, <1>7, <1>10 DEF VersionsDiffer
<1>11. QED
  BY <1>8, <1>9, <1>10

\* No step gives two rows one version.
LEMMA VersionsStep == Bounded /\ VersionsDiffer /\ [Next]_vars => VersionsDiffer'
<1> SUFFICES ASSUME Bounded, VersionsDiffer, [Next]_vars PROVE VersionsDiffer'
  OBVIOUS
<1> USE DEF Bounded
<1>1. ASSUME row' = row PROVE VersionsDiffer'
  BY <1>1 DEF VersionsDiffer
<1>2. CASE UNCHANGED vars
  BY <1>1, <1>2 DEF vars
<1>3. ASSUME NEW d \in Device, NEW entries \in Seq(Entry), PushBegin(d, entries)
      PROVE  VersionsDiffer'
  BY <1>1, <1>3 DEF PushBegin
<1>4. ASSUME job.todo # <<>>, ReplyOnly(Head(job.todo))
      PROVE  VersionsDiffer'
  BY <1>1, <1>4, ReplyOnlyStep
<1>5. ASSUME job.todo # <<>>, Upsert(Head(job.todo))
      PROVE  VersionsDiffer'
  <2>1. Head(job.todo).row \in Row
    BY <1>5, HeadTyped DEF Entry
  <2>2. row' = [row EXCEPT ![Head(job.todo).row] = Written(Head(job.todo))]
    BY <1>5, UpsertStep
  <2>3. Written(Head(job.todo)).version = head + 1
    BY DEF Written
  <2>4. \A r \in Row : row[r].version \in Nat /\ row[r].version <= head /\ head \in Nat
    BY DEF TypeOK, RowsBounded, RowState
  <2>5. QED
    BY <2>1, <2>2, <2>3, <2>4 DEF VersionsDiffer, TypeOK
<1>6. ASSUME job.todo # <<>>, Tombstone(Head(job.todo))
      PROVE  VersionsDiffer'
  BY <1>6, VersionsTombstone
<1>7. CASE PushEnd
  BY <1>1, <1>7 DEF PushEnd
<1>8. ASSUME NEW s \in 1..head, Age(s)
      PROVE  VersionsDiffer'
  BY <1>1, <1>8 DEF Age
<1>9. CASE NewDay
  BY <1>1, <1>9 DEF NewDay
<1>10. QED
  BY <1>2, <1>3, <1>4, <1>5, <1>6, <1>7, <1>8, <1>9, NextCases

\* The rows of S older than r.
Older(S, r) == {s \in S : row[s].version < row[r].version}

\* The older and the oldest rows of a set are finitely many.
LEMMA OlderFinite ==
  ASSUME NEW S \in SUBSET Row, NEW r
  PROVE  /\ IsFiniteSet(S) /\ Cardinality(S) \in Nat
         /\ IsFiniteSet(Older(S, r)) /\ Cardinality(Older(S, r)) \in Nat
         /\ \A n : /\ Oldest(S, n) = {s \in S : Cardinality(Older(S, s)) < n}
                   /\ IsFiniteSet(Oldest(S, n)) /\ Cardinality(Oldest(S, n)) \in Nat
                   /\ Cardinality(Oldest(S, n)) <= Cardinality(S)
<1>1. IsFiniteSet(S)
  BY RowsAssumption, FS_Subset
<1>2. Older(S, r) \subseteq S /\ \A n : Oldest(S, n) \subseteq S
  BY DEF Older, Oldest
<1>3. \A n : Oldest(S, n) = {s \in S : Cardinality(Older(S, s)) < n}
  BY DEF Older, Oldest
<1>4. QED
  BY <1>1, <1>2, <1>3, FS_Subset, FS_CardinalityType

\* A set of rows has an oldest one and a newest one.
LEMMA Extremes ==
  ASSUME Bounded, NEW S \in SUBSET Row, S # {}
  PROVE  /\ \E r \in S : \A s \in S : row[r].version <= row[s].version
         /\ \E r \in S : \A s \in S : row[s].version <= row[r].version
<1> DEFINE V == {row[r].version : r \in S}
<1>1. head \in Nat /\ \A r \in Row : row[r].version \in 0..head
  BY DEF Bounded, TypeOK, RowsBounded, RowState
<1>2. V \subseteq Nat /\ V \subseteq 0..head /\ V # {}
  BY <1>1
<1> HIDE DEF V
<1>3. PICK v \in V : \A w \in V : v <= w
  BY <1>2, LeastNat
<1>4. PICK u \in V : \A w \in V : w <= u
  BY <1>1, <1>2, GreatestNat
<1>5. QED
  BY <1>3, <1>4 DEF V

\* LIMIT n leaves out no row as long as there are fewer than n: the oldest row that is left
\* out comes right after those taken.
LEMMA OldestEnough ==
  ASSUME Bounded, NEW S \in SUBSET Row, NEW n \in Nat, n <= Cardinality(S)
  PROVE  Cardinality(Oldest(S, n)) >= n
<1> DEFINE T == {m \in 0..n : Cardinality(Oldest(S, m)) < m}
<1>1. Cardinality(S) \in Nat /\ IsFiniteSet(S)
  BY OlderFinite
<1>2. \A m \in Nat : Cardinality(Oldest(S, m)) \in Nat /\ IsFiniteSet(Oldest(S, m))
  BY OlderFinite
<1>3. SUFFICES ASSUME T # {} PROVE FALSE
  <2>1. n \notin T
    BY <1>3
  <2>2. QED
    BY <1>2, <2>1
<1>4. PICK m \in T : \A k \in T : m <= k
  <2>1. T \subseteq Nat
    OBVIOUS
  <2> HIDE DEF T
  <2>2. QED
    BY <1>3, <2>1, LeastNat
<1>5. m \in 1..n /\ Cardinality(Oldest(S, m)) < m
  BY <1>2, <1>4
<1>6. Cardinality(Oldest(S, m - 1)) >= m - 1
  <2>1. m - 1 \in 0..n /\ m - 1 \notin T
    BY <1>4, <1>5
  <2>2. QED
    BY <1>2, <2>1
<1>7. Oldest(S, m - 1) \subseteq Oldest(S, m)
  <2>1. \A s \in S : Cardinality(Older(S, s)) \in Nat
    BY OlderFinite
  <2>2. QED
    BY <1>5, <2>1, OlderFinite
<1>8. Cardinality(Oldest(S, m - 1)) = m - 1 /\ Oldest(S, m) = Oldest(S, m - 1)
  <2>1. Cardinality(Oldest(S, m - 1)) <= Cardinality(Oldest(S, m))
    BY <1>2, <1>5, <1>7, FS_Subset
  <2>2. /\ Cardinality(Oldest(S, m - 1)) = m - 1
        /\ Cardinality(Oldest(S, m)) = Cardinality(Oldest(S, m - 1))
    BY <1>2, <1>5, <1>6, <2>1
  <2>3. QED
    BY <1>2, <1>5, <1>7, <2>2, FS_Subset
<1> DEFINE left == S \ Oldest(S, m)
<1>9. left # {} /\ left \in SUBSET Row
  <2>1. SUFFICES ASSUME S \subseteq Oldest(S, m) PROVE FALSE
    OBVIOUS
  <2>2. Cardinality(S) <= Cardinality(Oldest(S, m))
    BY <1>2, <1>5, <2>1, FS_Subset
  <2>3. QED
    BY <1>1, <1>2, <1>5, <2>2
<1>10. PICK r \in left : \A s \in left : row[r].version <= row[s].version
  <2> HIDE DEF left
  <2>1. QED
    BY <1>9, Extremes
<1>11. Older(S, r) \subseteq Oldest(S, m - 1)
  <2>1. \A s \in Row : row[s].version \in Nat
    BY DEF Bounded, TypeOK, RowState
  <2>2. QED
    BY <1>8, <1>9, <1>10, <2>1 DEF Older
<1>12. Cardinality(Older(S, r)) <= m - 1 /\ Cardinality(Older(S, r)) \in Nat
  BY <1>2, <1>5, <1>8, <1>11, FS_Subset, OlderFinite
<1>13. r \in Oldest(S, m)
  BY <1>5, <1>10, <1>12, OlderFinite
<1>14. QED
  BY <1>10, <1>13

\* and it takes no more than n of them when their versions differ.
LEMMA OldestAtMost ==
  ASSUME Bounded, VersionsDiffer, NEW S \in SUBSET Row, NEW n \in Nat,
         \A r \in S : row[r].version > 0
  PROVE  Cardinality(Oldest(S, n)) <= n
<1> DEFINE D == Oldest(S, n)
<1>1. CASE D = {}
  BY <1>1, FS_EmptySet
<1>2. CASE D # {}
  <2>1. D \in SUBSET Row /\ D \subseteq S
    BY DEF Oldest
  <2>2. PICK r \in D : \A s \in D : row[s].version <= row[r].version
    <3> HIDE DEF D
    <3>1. QED
      BY <1>2, <2>1, Extremes
  <2>3. D \ {r} \subseteq Older(S, r)
    <3>1. \A s \in Row : row[s].version \in Nat
      BY DEF Bounded, TypeOK, RowState
    <3> HIDE DEF D
    <3>2. QED
      BY <2>1, <2>2, <3>1 DEF Older, VersionsDiffer
  <2>4. Cardinality(Older(S, r)) < n /\ Cardinality(Older(S, r)) \in Nat
    BY <2>1, OlderFinite
  <2>5. IsFiniteSet(D) /\ IsFiniteSet(Older(S, r))
    BY OlderFinite
  <2>6. Cardinality(D \ {r}) <= Cardinality(Older(S, r))
    BY <2>3, <2>5, FS_Subset
  <2>7. Cardinality(D \ {r}) = Cardinality(D) - 1 /\ Cardinality(D) \in Nat
    <3> HIDE DEF D
    <3>1. QED
      BY <2>2, <2>5, FS_RemoveElement, FS_CardinalityType
  <2>8. QED
    BY <2>4, <2>6, <2>7
<1>3. QED
  BY <1>1, <1>2

\* The candidates of a page are finitely many changed rows, and a changed row that is not
\* among them has more than a page of older ones among them.
LEMMA CandidatesOf ==
  ASSUME Bounded, NEW since \in Nat
  PROVE  /\ Candidates(since) \in SUBSET Row
         /\ \A r \in Candidates(since) : row[r].version > since
         /\ \A r \in Row : row[r].version > since /\ r \notin Candidates(since) =>
              Cardinality(Older(Candidates(since), r)) > PageSize
<1> DEFINE changed == {r \in Row : row[r].version > since}
           table(r) == {s \in changed : TableOf[s] = TableOf[r]}
           cand == Candidates(since)
<1>1. /\ cand \in SUBSET Row
      /\ \A r \in cand : row[r].version > since
      /\ \A r \in changed : r \in cand <=> r \in Oldest(table(r), PageSize + 1)
  BY DEF Candidates
<1>2. ASSUME NEW r \in Row, row[r].version > since, r \notin cand
      PROVE  Cardinality(Older(cand, r)) > PageSize
  <2> DEFINE S == Older(table(r), r)
  <2>1. S \in SUBSET Row /\ table(r) \in SUBSET Row /\ r \in table(r) /\ PageSize \in Nat
    BY <1>2, LimitsAssumption DEF Older
  <2>2. Cardinality(S) >= PageSize + 1 /\ Cardinality(S) \in Nat
    <3>1. r \notin Oldest(table(r), PageSize + 1)
      BY <1>1, <1>2
    <3>2. Cardinality(S) \in Nat
      BY <2>1, OlderFinite
    <3>3. ~(Cardinality(S) < PageSize + 1)
      BY <2>1, <3>1, OlderFinite
    <3>4. QED
      BY <2>1, <3>2, <3>3
  <2>3. Cardinality(Oldest(S, PageSize + 1)) >= PageSize + 1
    <3> HIDE DEF S
    <3>1. QED
      BY <2>1, <2>2, OldestEnough
  <2>4. Oldest(S, PageSize + 1) \subseteq Older(cand, r)
    <3>1. SUFFICES ASSUME NEW q \in Oldest(S, PageSize + 1) PROVE q \in Older(cand, r)
      OBVIOUS
    <3>2. q \in S /\ Cardinality(Older(S, q)) < PageSize + 1
      BY <2>1, OlderFinite
    <3>3. q \in changed /\ TableOf[q] = TableOf[r] /\ row[q].version < row[r].version
      BY <3>2 DEF Older
    <3>4. table(q) = table(r)
      BY <3>3
    <3>5. Older(table(r), q) = Older(S, q)
      <4>1. \A s \in Row : row[s].version \in Nat
        BY DEF Bounded, TypeOK, RowState
      <4>2. QED
        BY <3>3, <4>1, <2>1 DEF Older
    <3>6. q \in Oldest(table(q), PageSize + 1)
      BY <2>1, <3>2, <3>3, <3>4, <3>5, OlderFinite
    <3>7. q \in cand
      BY <1>1, <3>3, <3>6
    <3>8. QED
      BY <3>3, <3>7 DEF Older
  <2>5. Cardinality(Oldest(S, PageSize + 1)) <= Cardinality(Older(cand, r))
    BY <1>1, <2>4, OlderFinite, FS_Subset
  <2>6. /\ Cardinality(Oldest(S, PageSize + 1)) \in Nat
        /\ Cardinality(Older(cand, r)) \in Nat
    BY <1>1, <2>1, OlderFinite
  <2>7. QED
    BY <2>1, <2>3, <2>5, <2>6
<1>3. QED
  BY <1>1, <1>2

\* A page holds exactly the rows whose version lies between since and next.
LEMMA PageIs ==
  ASSUME Bounded, NEW since \in Nat
  PROVE  /\ Page(since).hasMore \in BOOLEAN
         /\ Page(since).next \in Nat
         /\ Page(since).hasMore => Page(since).next > since /\ Page(since).next <= head
         /\ ~Page(since).hasMore => Page(since).next = IF head > since THEN head ELSE since
         /\ Page(since).changes = [r \in Oldest(Candidates(since), PageSize) |-> row[r]]
         /\ DOMAIN Page(since).changes = {r \in Row : row[r].version \in (since + 1)..Page(since).next}
<1> DEFINE cand == Candidates(since)
           rows == Oldest(cand, PageSize)
           more == Cardinality(cand) > PageSize
           last == CHOOSE r \in rows : \A s \in rows : row[s].version <= row[r].version
           next == IF more THEN row[last].version ELSE IF head > since THEN head ELSE since
<1>1. /\ cand \in SUBSET Row /\ Cardinality(cand) \in Nat
      /\ \A r \in cand : row[r].version > since
      /\ \A r \in Row : row[r].version > since /\ r \notin cand =>
            Cardinality(Older(cand, r)) > PageSize
      /\ rows = {s \in cand : Cardinality(Older(cand, s)) < PageSize}
  BY CandidatesOf, OlderFinite
<1>2. Page(since) = [changes |-> [r \in rows |-> row[r]], hasMore |-> more, head |-> head,
                     next |-> next]
  BY DEF Page
<1>3. head \in Nat /\ PageSize \in Nat \ {0} /\ \A r \in Row : row[r].version \in 0..head
  BY LimitsAssumption DEF Bounded, TypeOK, RowsBounded, RowState
<1>4. \A r : Cardinality(Older(cand, r)) \in Nat /\ Cardinality(Older(cand, r)) <= Cardinality(cand)
  <2>1. \A r : Older(cand, r) \subseteq cand
    BY DEF Older
  <2>2. QED
    BY <1>1, <2>1, OlderFinite, FS_Subset
<1> HIDE DEF cand
<1>5. ASSUME more
      PROVE  last \in rows /\ \A s \in rows : row[s].version <= row[last].version
  <2>1. PageSize <= Cardinality(cand)
    BY <1>1, <1>3, <1>5
  <2>2. Cardinality(rows) >= PageSize
    BY <1>1, <1>3, <2>1, OldestEnough
  <2>3. rows # {}
    BY <1>3, <2>2, FS_EmptySet
  <2>4. rows \in SUBSET Row
    BY <1>1
  <2> HIDE DEF rows
  <2>5. \E r \in rows : \A s \in rows : row[s].version <= row[r].version
    BY <2>3, <2>4, Extremes
  <2>6. QED
    BY <2>5
<1>6. rows = {r \in Row : row[r].version \in (since + 1)..next}
  <2>1. CASE more
    <3>1. last \in cand /\ Cardinality(Older(cand, last)) < PageSize /\ last \in Row
      BY <1>1, <1>5, <2>1
    <3>2. ASSUME NEW r \in rows PROVE r \in Row /\ row[r].version \in (since + 1)..next
      BY <1>1, <1>3, <1>5, <2>1, <3>1
    <3>3. ASSUME NEW r \in Row, row[r].version \in (since + 1)..next PROVE r \in rows
      <4>1. Older(cand, r) \subseteq Older(cand, last)
        <5>1. next = row[last].version
          BY <2>1
        <5>2. row[r].version <= row[last].version
          BY <1>3, <3>1, <3>3, <5>1
        <5> HIDE DEF last
        <5>3. ASSUME NEW s \in cand, row[s].version < row[r].version
              PROVE  row[s].version < row[last].version
          BY <1>1, <1>3, <3>1, <3>3, <5>2, <5>3
        <5>4. QED
          BY <5>3 DEF Older
      <4>2. Cardinality(Older(cand, r)) <= Cardinality(Older(cand, last))
        BY <1>1, <4>1, OlderFinite, FS_Subset
      <4>3. Cardinality(Older(cand, r)) < PageSize
        BY <1>3, <1>4, <3>1, <4>2
      <4>4. r \in cand
        BY <1>1, <1>3, <1>4, <3>3, <4>3
      <4>5. QED
        BY <1>1, <4>3, <4>4
    <3>4. QED
      BY <3>2, <3>3
  <2>2. CASE ~more
    <3>1. next = IF head > since THEN head ELSE since
      BY <2>2
    <3>2. ASSUME NEW r \in rows PROVE r \in Row /\ row[r].version \in (since + 1)..next
      BY <1>1, <1>3, <3>1
    <3>3. ASSUME NEW r \in Row, row[r].version \in (since + 1)..next PROVE r \in rows
      <4>1. row[r].version > since
        BY <1>3, <3>1, <3>3
      <4>2. r \in cand
        BY <1>1, <1>3, <1>4, <2>2, <4>1
      <4>3. r \notin Older(cand, r) /\ Older(cand, r) \subseteq cand
        BY <1>3 DEF Older
      <4>4. Cardinality(Older(cand, r)) # Cardinality(cand)
        BY <1>1, <4>2, <4>3, OlderFinite, FS_Subset
      <4>5. QED
        BY <1>1, <1>3, <1>4, <2>2, <4>2, <4>4
    <3>4. QED
      BY <3>2, <3>3
  <2>3. QED
    BY <2>1, <2>2
<1>7. more => row[last].version > since /\ row[last].version <= head /\ row[last].version \in Nat
  BY <1>1, <1>3, <1>5
<1>8. /\ Page(since).hasMore = more
      /\ Page(since).next = next
      /\ Page(since).changes = [r \in rows |-> row[r]]
      /\ DOMAIN Page(since).changes = rows
  BY <1>2
<1>9. /\ more \in BOOLEAN
      /\ more => next > since /\ next <= head
      /\ ~more => next = IF head > since THEN head ELSE since
      /\ next \in Nat
  BY <1>3, <1>7
<1> HIDE DEF more, next
<1>10. QED
  BY <1>6, <1>8, <1>9 DEF cand

(* The feed of changes skips nothing, repeats nothing and ends at the head, whatever the    *)
(* tables, their sizes and the size of a page: it is enough that each table contributes one *)
(* row more than a page.                                                                    *)
THEOREM FeedIsComplete == Spec => []FeedComplete
<1>1. Bounded /\ VersionsDiffer => FeedComplete
  <2>1. SUFFICES ASSUME Bounded, VersionsDiffer, NEW since \in 0..head
                 PROVE  LET p == Page(since)
                        IN /\ DOMAIN p.changes = {r \in Row : row[r].version \in (since + 1)..p.next}
                           /\ p.hasMore => p.next > since
                           /\ ~p.hasMore => p.next = head
                           /\ Cardinality(DOMAIN p.changes) <= PageSize
    BY DEF FeedComplete
  <2>2. since \in Nat /\ since <= head /\ head \in Nat /\ PageSize \in Nat
    BY <2>1, LimitsAssumption DEF Bounded, TypeOK
  <2>3. Candidates(since) \in SUBSET Row /\ \A r \in Candidates(since) : row[r].version > since
    BY <2>1, <2>2, CandidatesOf
  <2>4. \A r \in Candidates(since) : row[r].version > 0
    BY <2>1, <2>2, <2>3 DEF Bounded, TypeOK, RowState
  <2>5. Cardinality(Oldest(Candidates(since), PageSize)) <= PageSize
    BY <2>1, <2>2, <2>3, <2>4, OldestAtMost
  <2>6. Page(since).changes = [r \in Oldest(Candidates(since), PageSize) |-> row[r]]
    BY <2>1, <2>2, PageIs
  <2>7. DOMAIN Page(since).changes = Oldest(Candidates(since), PageSize)
    BY <2>6
  <2>8. /\ DOMAIN Page(since).changes = {r \in Row : row[r].version \in (since + 1)..Page(since).next}
        /\ Page(since).hasMore => Page(since).next > since
        /\ ~Page(since).hasMore => Page(since).next = IF head > since THEN head ELSE since
    BY <2>1, <2>2, PageIs
  <2>9. QED
    BY <2>2, <2>5, <2>7, <2>8
<1>2. Init => VersionsDiffer
  BY DEF Init, VersionsDiffer, Absent
<1>3. QED
  BY <1>1, <1>2, VersionsStep, BoundedAlways, PTL DEF Spec
============================================================================
