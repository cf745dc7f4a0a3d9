------------------------- MODULE VaultPacks_proofs -------------------------
(***************************************************************************)
(* The pack storage of the vault, for any discs, packs, parts, sizes and   *)
(* limits and any number of uploads side by side: the pack a disc names    *)
(* stays whole; reads, deletes and stored bytes stay within the account's  *)
(* limits; an uploaded part has its object; KV never outgrows its counter. *)
(*                                                                         *)
(* PackInv tells the rows of a current pack from stale reservations by     *)
(* committed_at and from other packs of the disc by their hash. KeysInv    *)
(* says that the directory may only delete keys the vault once gave up.    *)
(* LedgerInv says what each counted byte is counted for, and is what makes *)
(* GuardHolds inductive: an object that lives, a write that is held, a key *)
(* queued for deletion, a request to queue keys that is on its way.        *)
(***************************************************************************)
EXTENDS VaultPacks, Collections_proofs

RowTypeOK ==
  /\ disc \in [Disc -> [live: BOOLEAN, pack: Pack \cup {None}]]
  /\ part \in [Key -> {"none", "reserved", "uploaded"}]
  /\ committed \subseteq Rows

CurrentOfDisc == \A d \in Disc : disc[d].pack # None => DiscOf[disc[d].pack] = d

PackInv == RowTypeOK /\ CurrentOfDisc /\ CurrentComplete
----------------------------------------------------------------------------
(* What the argument is about stays as it is when the rows do. *)
LEMMA PackInvKept ==
  ASSUME PackInv, UNCHANGED <<disc, part, committed>>
  PROVE  PackInv'
BY DEF PackInv, RowTypeOK, CurrentOfDisc, CurrentComplete, PartsOf, Rows, Uploaded

(* Dropping stale reservations takes no row of a current pack, and a new reservation adds *)
(* rows of a pack that is not current.                                                    *)
LEMMA ReserveKeeps ==
  ASSUME PackInv, NEW p \in Pack, Reserve(p)
  PROVE  PackInv'
<1> USE PacksAssumption, GuardsAssumption
<1> DEFINE kept == Rows \ Droppable
           fresh == disc[DiscOf[p]].pack # p /\ kept \cap PartsOf(p) = {} /\ Fits(p, kept)
<1>1. /\ part' = [k \in Key |-> IF fresh /\ PackOf[k] = p THEN "reserved"
                                ELSE IF k \in kept THEN part[k] ELSE "none"]
      /\ UNCHANGED <<disc, committed>>
  BY DEF Reserve
<1>2. committed \subseteq kept
  BY DEF PackInv, RowTypeOK, Droppable
<1>3. \A k \in committed : k \in Key /\ part[k] # "none"
  BY DEF PackInv, RowTypeOK, Rows
<1>4. RowTypeOK'
  <2>1. part' \in [Key -> {"none", "reserved", "uploaded"}]
    BY <1>1 DEF PackInv, RowTypeOK
  <2>2. \A k \in committed : part'[k] # "none"
    BY <1>1, <1>2, <1>3
  <2>3. QED
    BY <1>1, <1>3, <2>1, <2>2 DEF PackInv, RowTypeOK, Rows
<1>5. CurrentOfDisc'
  BY <1>1 DEF PackInv, CurrentOfDisc
<1>6. ASSUME NEW d \in Disc, disc[d].pack # None, NEW k \in PartsOf(disc[d].pack)
      PROVE  part'[k] = "uploaded" /\ k \in committed
  <2>1. k \in Key /\ PackOf[k] = disc[d].pack /\ k \in committed /\ part[k] = "uploaded"
    BY <1>6 DEF PackInv, CurrentComplete, PartsOf, Uploaded
  <2>2. fresh => PackOf[k] # p
    BY <1>6, <2>1 DEF PackInv, CurrentOfDisc
  <2>3. QED
    BY <1>1, <1>2, <2>1, <2>2
<1>7. CurrentComplete'
  BY <1>1, <1>6 DEF CurrentComplete, PartsOf, Uploaded
<1>8. QED
  BY <1>4, <1>5, <1>7 DEF PackInv

(* A commit takes the rows of the pack it replaces, and of no other. *)
LEMMA CommitKeeps ==
  ASSUME PackInv, NEW p \in Pack, Commit(p)
  PROVE  PackInv'
<1> USE PacksAssumption, GuardsAssumption
<1> DEFINE d == DiscOf[p]
           old == {k \in Rows : PackOf[k] = disc[d].pack}
<1>1. /\ disc[d].pack # p
      /\ Complete(p)
      /\ disc' = [disc EXCEPT ![d].pack = p]
      /\ part' = [k \in Key |-> IF k \in old THEN "none" ELSE part[k]]
      /\ committed' = (committed \ old) \cup PartsOf(p)
  BY DEF Commit
<1>2. d \in Disc /\ p # None
  OBVIOUS
<1>3. /\ disc' \in [Disc -> [live: BOOLEAN, pack: Pack \cup {None}]]
      /\ disc'[d].pack = p
      /\ \A c \in Disc \ {d} : disc'[c] = disc[c]
  BY <1>1, <1>2 DEF PackInv, RowTypeOK
<1>4. \A k \in PartsOf(p) : k \in Key /\ k \notin old /\ part[k] = "uploaded" /\ PackOf[k] = p
  BY <1>1 DEF Complete, PartsOf, Uploaded
<1>5. RowTypeOK'
  <2>1. part' \in [Key -> {"none", "reserved", "uploaded"}]
    BY <1>1 DEF PackInv, RowTypeOK
  <2>2. \A k \in committed' : k \in Key /\ part'[k] # "none"
    BY <1>1, <1>4 DEF PackInv, RowTypeOK, Rows
  <2>3. QED
    BY <1>3, <2>1, <2>2 DEF RowTypeOK, Rows
<1>6. CurrentOfDisc'
  BY <1>2, <1>3 DEF PackInv, CurrentOfDisc
<1>7. ASSUME NEW c \in Disc, disc'[c].pack # None, NEW k \in PartsOf(disc'[c].pack)
      PROVE  part'[k] = "uploaded" /\ k \in committed'
  <2>1. CASE c = d
    BY <1>1, <1>3, <1>4, <1>7, <2>1
  <2>2. CASE c # d
    <3>1. disc[c].pack = disc'[c].pack /\ DiscOf[disc[c].pack] = c
      BY <1>3, <1>7, <2>2 DEF PackInv, CurrentOfDisc
    <3>2. k \in Key /\ PackOf[k] = disc[c].pack /\ part[k] = "uploaded" /\ k \in committed
      BY <1>7, <3>1 DEF PackInv, CurrentComplete, PartsOf, Uploaded
    <3>3. disc[d].pack # disc[c].pack
      BY <1>2, <1>7, <2>2, <3>1 DEF PackInv, CurrentOfDisc
    <3>4. k \notin old
      BY <3>2, <3>3
    <3>5. QED
      BY <1>1, <3>2, <3>4
  <2>3. QED
    BY <2>1, <2>2
<1>8. CurrentComplete'
  BY <1>7 DEF CurrentComplete, PartsOf, Uploaded
<1>9. QED
  BY <1>5, <1>6, <1>8 DEF PackInv

(* Marking an upload turns a reserved row into an uploaded one and leaves the others. *)
LEMMA MarkKeeps ==
  ASSUME PackInv, NEW u \in Upload, UploadMark(u)
  PROVE  PackInv'
<1> DEFINE k == upload[u].key
<1>1. /\ part' = IF part[k] = "reserved" THEN [part EXCEPT ![k] = "uploaded"] ELSE part
      /\ UNCHANGED <<disc, committed>>
  BY DEF UploadMark
<1>2. \A j \in Key : part'[j] = part[j] \/ (part[j] = "reserved" /\ part'[j] = "uploaded")
  BY <1>1 DEF PackInv, RowTypeOK
<1>3. part' \in [Key -> {"none", "reserved", "uploaded"}]
  BY <1>1 DEF PackInv, RowTypeOK
<1>4. QED
  BY <1>1, <1>2, <1>3
     DEF PackInv, RowTypeOK, CurrentOfDisc, CurrentComplete, PartsOf, Rows, Uploaded

(* A deleted database names no pack. *)
LEMMA DeletedKeeps ==
  ASSUME DatabaseDeleted
  PROVE  PackInv'
BY DEF DatabaseDeleted, PackInv, RowTypeOK, CurrentOfDisc, CurrentComplete, Rows

(* Saving or deleting a disc leaves its pack alone. *)
LEMMA DiscKeeps ==
  ASSUME PackInv, NEW d \in Disc, SaveDisc(d) \/ DeleteDisc(d)
  PROVE  PackInv'
<1>1. /\ disc' = [disc EXCEPT ![d].live = TRUE] \/ disc' = [disc EXCEPT ![d].live = FALSE]
      /\ UNCHANGED <<part, committed>>
  BY DEF SaveDisc, DeleteDisc
<1>2. disc[d] \in [live: BOOLEAN, pack: Pack \cup {None}]
  BY DEF PackInv, RowTypeOK
<1>3. ASSUME NEW b \in BOOLEAN, disc' = [disc EXCEPT ![d].live = b]
      PROVE  /\ disc' \in [Disc -> [live: BOOLEAN, pack: Pack \cup {None}]]
             /\ \A c \in Disc : disc'[c].pack = disc[c].pack
  <2>1. [disc[d] EXCEPT !.live = b] = [live |-> b, pack |-> disc[d].pack]
    BY <1>2
  <2>2. disc' = [disc EXCEPT ![d] = [live |-> b, pack |-> disc[d].pack]]
    BY <1>3, <2>1, Zenon
  <2>3. QED
    BY <1>2, <2>2 DEF PackInv, RowTypeOK
<1>4. /\ disc' \in [Disc -> [live: BOOLEAN, pack: Pack \cup {None}]]
      /\ \A c \in Disc : disc'[c].pack = disc[c].pack
  BY <1>1, <1>3
<1>5. QED
  BY <1>1, <1>4 DEF PackInv, RowTypeOK, CurrentOfDisc, CurrentComplete, PartsOf, Rows, Uploaded
----------------------------------------------------------------------------
\* No step of the vault breaks the invariant.
LEMMA PackStep ==
  ASSUME PackInv, [PacksNext]_packVars
  PROVE  PackInv'
<1>1. CASE \E d \in Disc : SaveDisc(d) \/ DeleteDisc(d)
  BY <1>1, DiscKeeps
<1>2. CASE \E p \in Pack : Reserve(p)
  BY <1>2, ReserveKeeps
<1>3. CASE \E p \in Pack : ReservationStales(p)
  BY <1>3, PackInvKept DEF ReservationStales
<1>4. CASE \E p \in Pack : Commit(p)
  BY <1>4, CommitKeeps
<1>5. CASE \E u \in Upload, k \in Key : UploadBegin(u, k)
  BY <1>5, PackInvKept DEF UploadBegin, storeVars
<1>6. ASSUME NEW u \in Upload, UploadStep(u)
      PROVE  PackInv'
  <2>1. CASE UploadMark(u)
    BY <2>1, MarkKeeps
  <2>2. CASE ~UploadMark(u)
    BY <1>6, <2>2, PackInvKept
       DEF UploadStep, UploadBytes, UploadRefused, UploadWrite, UploadDeferred, UploadBack,
           UploadPut, UploadFails, storeVars
  <2>3. QED
    BY <2>1, <2>2
<1>7. CASE WipeBegin
  BY <1>7, DeletedKeeps, PackInvKept DEF WipeBegin
<1>8. CASE WipeEnd
  BY <1>8, DeletedKeeps DEF WipeEnd
<1>9. CASE \E q \in toQueue : QueuePurge(q)
  BY <1>9, PackInvKept DEF QueuePurge
<1>10. CASE Restart \/ CronFails \/ PacksNewDay \/ Cron
  BY <1>10, PackInvKept DEF Restart, CronFails, PacksNewDay, Cron, storeVars
<1>11. CASE UNCHANGED packVars
  BY <1>11, PackInvKept DEF packVars, storeVars
<1>12. QED
  BY <1>1, <1>2, <1>3, <1>4, <1>5, <1>6, <1>7, <1>8, <1>9, <1>10, <1>11 DEF PacksNext

\* The invariant holds of every state.
LEMMA PackInvInvariant == PacksSpec => []PackInv
<1>1. PacksInit => PackInv
  BY DEF PacksInit, PackInv, RowTypeOK, CurrentOfDisc, CurrentComplete, Rows
<1>2. QED
  BY <1>1, PackStep, PTL DEF PacksSpec

(* No drop of stale reservations, replacement or new reservation, in any order with       *)
(* uploads, restarts and the purge, takes a part from the pack a disc names (commitPack,  *)
(* dropStaleReservations).                                                                *)
THEOREM CurrentPackWhole == PacksSpec => []CurrentComplete
<1>1. PackInv => CurrentComplete
  BY DEF PackInv
<1>2. QED
  BY <1>1, PackInvInvariant, PTL
----------------------------------------------------------------------------
(***************************************************************************)
(* The shared guards.  A step of the project is one of these on them.      *)
(***************************************************************************)
GuardStep ==
  \/ \E k \in Key : TakeBytes(k) \/ GiveBack(k) \/ KvPut(k) \/ PurgeDelete(k) \/ RetentionEnds(k)
  \/ \E keys \in SUBSET Key : \E now \in BOOLEAN : Enqueue(keys, now)
  \/ TakeWrite \/ PurgeSelect \/ PurgeSettle \/ PurgeFails \/ GuardsNewDay
  \/ UNCHANGED guardVars

GuardInv ==
  /\ GuardTypeOK
  /\ purge.left \subseteq purge.picked
  /\ purge.picked \subseteq Range(due)
  /\ waiting \cap Range(due) = {}
  /\ kvBytes <= KvBytesGuard
  /\ DeletesWithinGuard

(* The smaller of two numbers. *)
LEMMA MinOfTwo ==
  ASSUME NEW a \in Int, NEW b \in Int
  PROVE  Min({a, b}) \in {a, b} /\ Min({a, b}) <= a /\ Min({a, b}) <= b
<1>1. \E x \in {a, b} : \A y \in {a, b} : x =< y
  <2>1. CASE a <= b
    BY <2>1
  <2>2. CASE ~(a <= b)
    <3>1. b <= a /\ b <= b
      BY <2>2
    <3>. QED
      BY <3>1
  <2>. QED
    BY <2>1, <2>2
<1>2. Min({a, b}) \in {a, b} /\ \A y \in {a, b} : Min({a, b}) =< y
  BY <1>1 DEF Min
<1>. QED
  BY <1>2

(* A finite set can be put in a sequence, each element once. *)
LEMMA SetToSeqOf ==
  ASSUME NEW S, IsFiniteSet(S)
  PROVE  SetToSeq(S) \in Seq(S) /\ Range(SetToSeq(S)) = S
<1>. DEFINE n == Cardinality(S)
<1>1. n \in Nat /\ ExistsBijection(1..n, S)
  BY FS_CardinalityType
<1>. HIDE DEF n
<1>2. PICK f \in [1..n -> S] : IsInjective(f)
  BY <1>1 DEF ExistsBijection, Bijection, Injection
<1>3. SetToSeq(S) \in [1..n -> S] /\ IsInjective(SetToSeq(S))
  <2>1. \E g \in [1..Cardinality(S) -> S] : IsInjective(g)
    BY <1>2 DEF n
  <2>2. SetToSeq(S) \in [1..Cardinality(S) -> S] /\ IsInjective(SetToSeq(S))
    BY <2>1, Zenon DEF SetToSeq
  <2>. QED
    BY <2>2 DEF n
<1>. DEFINE g == SetToSeq(S)
<1>4. IsFiniteSet(1..n) /\ Cardinality(1..n) = n
  BY <1>1, FS_Interval, 1 \in Int
<1>5. g \in Surjection(1..n, S)
  <2>1. g \in Injection(1..n, S)
    BY <1>3 DEF Injection
  <2>2. Cardinality(1..n) = Cardinality(S)
    BY <1>4 DEF n
  <2>. HIDE DEF g
  <2>. QED
    BY <2>1, <2>2, FS_Injection
<1>6. Range(g) = S
  <2>. HIDE DEF g
  <2>1. g \in [1..n -> S]
    BY <1>3 DEF g
  <2>2. \A t \in S : \E s \in 1..n : g[s] = t
    BY <1>5 DEF Surjection
  <2>. QED
    BY <2>1, <2>2 DEF Range
<1>. QED
  BY <1>1, <1>3, <1>6
----------------------------------------------------------------------------
(* Any number of parts counts for a number of bytes, more parts for no fewer, and parts   *)
(* in two sets for no more than the sets together.                                        *)
LEMMA BytesFacts ==
  /\ BytesOf({}) = 0
  /\ \A k \in Key : BytesOf({k}) = Bytes[k] /\ Bytes[k] \in Nat
  /\ \A A \in SUBSET Key : IsFiniteSet(A) /\ BytesOf(A) \in Nat
  /\ \A A \in SUBSET Key : \A B \in SUBSET A :
       BytesOf(B) <= BytesOf(A) /\ BytesOf(A \ B) = BytesOf(A) - BytesOf(B)
  /\ \A A, B \in SUBSET Key : BytesOf(A \cup B) <= BytesOf(A) + BytesOf(B)
<1>1. IsFiniteSet(Key) /\ NatOn(Bytes, Key) /\ \A k \in Key : Bytes[k] \in Nat
  BY GuardsAssumption DEF NatOn
<1>2. BytesOf({}) = 0
  BY FS_EmptySet, SumRec DEF BytesOf
<1>3. ASSUME NEW k \in Key PROVE BytesOf({k}) = Bytes[k] /\ Bytes[k] \in Nat
  BY <1>1, SumInsert DEF BytesOf
<1>4. ASSUME NEW A \in SUBSET Key
      PROVE  IsFiniteSet(A) /\ NatOn(Bytes, A) /\ BytesOf(A) \in Nat
  BY <1>1, SumMono DEF BytesOf
<1>5. ASSUME NEW A \in SUBSET Key, NEW B \in SUBSET A
      PROVE  BytesOf(B) <= BytesOf(A) /\ BytesOf(A \ B) = BytesOf(A) - BytesOf(B)
  BY <1>4, SumMono DEF BytesOf
<1>6. ASSUME NEW A \in SUBSET Key, NEW B \in SUBSET Key
      PROVE  BytesOf(A \cup B) <= BytesOf(A) + BytesOf(B)
  BY <1>4, SumUnion DEF BytesOf
<1>. QED
  BY <1>2, <1>3, <1>4, <1>5, <1>6

(* A run of the cron picks keys of the queue, no more of them than the day has deletes for. *)
LEMMA PickedFew ==
  ASSUME GuardTypeOK
  PROVE  LET n == Min({Budget, Len(due)})
         IN  /\ n \in Int /\ n <= KvDeletesGuard - kvDeletes
             /\ n > 0 => n \in 1..Len(due)
<1>. DEFINE b == KvDeletesGuard - kvDeletes
            l == Len(due)
<1>1. b \in Int /\ l \in Nat /\ PurgeBatch \in Int
  BY GuardsAssumption DEF GuardTypeOK
<1>2. Budget = Min({PurgeBatch, b})
  BY DEF Budget
<1>. HIDE DEF b, l
<1>3. Budget \in Int /\ Budget <= b
  BY <1>1, <1>2, MinOfTwo
<1>4. Min({Budget, l}) \in Int /\ Min({Budget, l}) <= b /\ Min({Budget, l}) <= l
  BY <1>1, <1>3, MinOfTwo
<1>. QED
  BY <1>1, <1>4 DEF b, l

(* The counters and the queue keep their types. *)
LEMMA GuardTyped ==
  ASSUME GuardTypeOK, GuardStep
  PROVE  GuardTypeOK'
<1>. USE GuardsAssumption
<1>1. ASSUME NEW k \in Key, TakeBytes(k) \/ GiveBack(k) \/ KvPut(k)
      PROVE  GuardTypeOK'
  <2>1. Bytes[k] \in Nat
    OBVIOUS
  <2>. QED
    BY <1>1, <2>1 DEF GuardTypeOK, TakeBytes, GiveBack, KvPut, Lowered
<1>2. ASSUME NEW k \in Key, PurgeDelete(k)
      PROVE  GuardTypeOK'
  <2>1. purge.left \subseteq Key /\ purge' = [purge EXCEPT !.left = @ \ {k}]
    BY <1>2 DEF GuardTypeOK, PurgeDelete
  <2>2. purge' \in [picked: SUBSET Key, left: SUBSET Key, today: BOOLEAN]
    BY <2>1 DEF GuardTypeOK
  <2>. QED
    BY <1>2, <2>2 DEF GuardTypeOK, PurgeDelete
<1>3. ASSUME NEW k \in Key, RetentionEnds(k)
      PROVE  GuardTypeOK'
  BY <1>3 DEF GuardTypeOK, RetentionEnds
<1>4. ASSUME NEW keys \in SUBSET Key, NEW now \in BOOLEAN, Enqueue(keys, now)
      PROVE  GuardTypeOK'
  <2>. DEFINE new == keys \ Queued
  <2>1. new \subseteq Key /\ IsFiniteSet(new)
    BY FS_Subset
  <2>. HIDE DEF new
  <2>2. SetToSeq(new) \in Seq(Key)
    BY <2>1, SetToSeqOf
  <2>3. /\ waiting' = IF now THEN waiting ELSE waiting \cup new
        /\ due' = IF now THEN due \o SetToSeq(new) ELSE due
        /\ UNCHANGED <<kv, kvBytes, kvWrites, kvDeletes, purge>>
    BY <1>4 DEF Enqueue, new
  <2>4. due' \in Seq(Key)
    BY <2>2, <2>3 DEF GuardTypeOK
  <2>. QED
    BY <2>1, <2>3, <2>4 DEF GuardTypeOK
<1>5. ASSUME TakeWrite \/ PurgeFails \/ GuardsNewDay \/ UNCHANGED guardVars
      PROVE  GuardTypeOK'
  <2>1. /\ [purge EXCEPT !.today = FALSE] \in [picked: SUBSET Key, left: SUBSET Key, today: BOOLEAN]
        /\ NoPurge \in [picked: SUBSET Key, left: SUBSET Key, today: BOOLEAN]
    BY DEF GuardTypeOK, NoPurge
  <2>2. CASE TakeWrite
    BY <2>2 DEF GuardTypeOK, TakeWrite
  <2>3. CASE PurgeFails
    BY <2>1, <2>3 DEF GuardTypeOK, PurgeFails
  <2>4. CASE GuardsNewDay
    BY <2>1, <2>4 DEF GuardTypeOK, GuardsNewDay
  <2>5. CASE UNCHANGED guardVars
    BY <2>5 DEF GuardTypeOK, guardVars
  <2>. QED
    BY <1>5, <2>2, <2>3, <2>4, <2>5
<1>6. ASSUME PurgeSelect PROVE GuardTypeOK'
  <2>. DEFINE n == Min({Budget, Len(due)})
  <2>1. n \in 1..Len(due)
    BY <1>6, PickedFew DEF PurgeSelect
  <2>. HIDE DEF n
  <2>3. Range(SubSeq(due, 1, n)) \subseteq Key
    <3>1. due \in Seq(Key)
      BY DEF GuardTypeOK
    <3>2. SubSeq(due, 1, n) \in Seq(Key)
      BY <2>1, <3>1
    <3>. QED
      BY <3>2, RangeOf
  <2>2. /\ purge' = [picked |-> Range(SubSeq(due, 1, n)), left |-> Range(SubSeq(due, 1, n)),
                     today |-> TRUE]
        /\ UNCHANGED <<kv, kvBytes, kvWrites, kvDeletes, waiting, due>>
    BY <1>6 DEF PurgeSelect, n
  <2>. QED
    BY <2>2, <2>3 DEF GuardTypeOK
<1>7. ASSUME PurgeSettle PROVE GuardTypeOK'
  <2>1. due' \in Seq(Key)
    <3>1. due \in Seq(Key)
      BY DEF GuardTypeOK
    <3>2. due' = Without(due, purge.picked)
      BY <1>7 DEF PurgeSettle
    <3>3. Without(due, purge.picked) \in Seq(Key)
      BY <3>1, RangeWithout
    <3>. QED
      BY <3>2, <3>3
  <2>2. kvBytes' \in Nat
    <3>1. BytesOf(purge.picked) \in Nat
      BY BytesFacts DEF GuardTypeOK
    <3>. QED
      BY <1>7, <3>1 DEF PurgeSettle, Lowered, GuardTypeOK
  <2>3. kvDeletes' \in Nat
    <3>1. Cardinality(purge.picked) \in Nat
      BY BytesFacts, FS_CardinalityType DEF GuardTypeOK
    <3>. QED
      BY <1>7, <3>1 DEF PurgeSettle, GuardTypeOK
  <2>. QED
    BY <1>7, <2>1, <2>2, <2>3 DEF PurgeSettle, GuardTypeOK, NoPurge
<1>. QED
  BY <1>1, <1>2, <1>3, <1>4, <1>5, <1>6, <1>7 DEF GuardStep

(* Keys that are queued for the purge come on top of what is queued, each at one place. *)
LEMMA EnqueueAdds ==
  ASSUME GuardTypeOK, waiting \cap Range(due) = {},
         NEW keys \in SUBSET Key, NEW now \in BOOLEAN, Enqueue(keys, now)
  PROVE  /\ Queued' = Queued \cup keys
         /\ Range(due) \subseteq Range(due')
         /\ waiting' \cap Range(due') = {}
<1>. DEFINE new == keys \ Queued
<1>1. new \subseteq Key /\ IsFiniteSet(new)
  BY GuardsAssumption, FS_Subset
<1>2. new \cap Queued = {} /\ Queued \cup new = Queued \cup keys
  OBVIOUS
<1>. HIDE DEF new
<1>3. SetToSeq(new) \in Seq(Key) /\ Range(SetToSeq(new)) = new
  BY <1>1, SetToSeqOf
<1>4. /\ waiting' = IF now THEN waiting ELSE waiting \cup new
      /\ due' = IF now THEN due \o SetToSeq(new) ELSE due
  BY DEF Enqueue, new
<1>5. Range(due \o SetToSeq(new)) = Range(due) \cup new
  BY <1>3, RangeOf DEF GuardTypeOK
<1>6. CASE now
  BY <1>2, <1>4, <1>5, <1>6 DEF Queued
<1>7. CASE ~now
  BY <1>2, <1>4, <1>7 DEF Queued
<1>. QED
  BY <1>6, <1>7

(* The queue of the purge and the deletes of the day: a run holds keys of the queue only, *)
(* and what it picked still fits into the day it began on.                                *)
LEMMA GuardKeeps ==
  ASSUME GuardInv, GuardStep
  PROVE  GuardInv'
<1>. USE GuardsAssumption
<1>0. GuardTypeOK /\ GuardTypeOK'
  BY GuardTyped DEF GuardInv
<1>. DEFINE Others == /\ purge'.left \subseteq purge'.picked
                      /\ purge'.picked \subseteq Range(due')
                      /\ waiting' \cap Range(due') = {}
                      /\ kvBytes' <= KvBytesGuard
                      /\ DeletesWithinGuard'
<1>1. ASSUME NEW k \in Key, TakeBytes(k) \/ GiveBack(k) \/ KvPut(k)
      PROVE  Others
  <2>1. kvBytes' <= KvBytesGuard
    BY <1>0, <1>1
       DEF GuardInv, GuardTypeOK, TakeBytes, BytesLeft, GiveBack, KvPut, Lowered
  <2>2. UNCHANGED <<waiting, due, purge, kvDeletes>>
    BY <1>1 DEF TakeBytes, GiveBack, KvPut
  <2>. QED
    BY <2>1, <2>2 DEF GuardInv, DeletesWithinGuard
<1>2. ASSUME NEW k \in Key, PurgeDelete(k)
      PROVE  Others
  <2>1. /\ purge' = [purge EXCEPT !.left = @ \ {k}]
        /\ UNCHANGED <<kvBytes, kvDeletes, waiting, due>>
    BY <1>2 DEF PurgeDelete
  <2>2. purge'.picked = purge.picked /\ purge'.left = purge.left \ {k} /\ purge'.today = purge.today
    BY <1>0, <2>1 DEF GuardTypeOK
  <2>. QED
    BY <2>1, <2>2 DEF GuardInv, DeletesWithinGuard
<1>3. ASSUME NEW k \in Key, RetentionEnds(k)
      PROVE  Others
  <2>1. /\ waiting' = waiting \ {k}
        /\ due' = Append(due, k)
        /\ UNCHANGED <<kvBytes, kvDeletes, purge>>
    BY <1>3 DEF RetentionEnds
  <2>2. Range(due') = Range(due) \cup {k}
    BY <1>0, <2>1, RangeOf DEF GuardTypeOK
  <2>. QED
    BY <2>1, <2>2 DEF GuardInv, DeletesWithinGuard
<1>4. ASSUME NEW keys \in SUBSET Key, NEW now \in BOOLEAN, Enqueue(keys, now)
      PROVE  Others
  <2>1. /\ Range(due) \subseteq Range(due')
        /\ waiting' \cap Range(due') = {}
    BY <1>0, <1>4, EnqueueAdds DEF GuardInv
  <2>2. UNCHANGED <<kvBytes, kvDeletes, purge>>
    BY <1>4 DEF Enqueue
  <2>. QED
    BY <2>1, <2>2 DEF GuardInv, DeletesWithinGuard
<1>5. ASSUME TakeWrite \/ UNCHANGED guardVars PROVE Others
  BY <1>5 DEF TakeWrite, guardVars, GuardInv, DeletesWithinGuard
<1>6. ASSUME PurgeFails \/ GuardsNewDay PROVE Others
  <2>1. /\ UNCHANGED <<waiting, due, kvBytes>>
        /\ kvDeletes' \in {0, kvDeletes}
        /\ purge'.picked \in {{}, purge.picked} /\ purge'.left \in {{}, purge.left}
        /\ purge'.left \subseteq purge'.picked
        /\ purge'.today => purge'.picked = {}
    <3>1. purge \in [picked: SUBSET Key, left: SUBSET Key, today: BOOLEAN]
      BY <1>0 DEF GuardTypeOK
    <3>2. purge.left \subseteq purge.picked
      BY DEF GuardInv
    <3>3. CASE PurgeFails
      <4>1. purge' = NoPurge /\ UNCHANGED <<waiting, due, kvBytes, kvDeletes>>
        BY <3>3 DEF PurgeFails
      <4>2. purge'.picked = {} /\ purge'.left = {}
        BY <4>1 DEF NoPurge
      <4>. QED
        BY <4>1, <4>2
    <3>4. CASE GuardsNewDay /\ purge = NoPurge
      <4>1. purge' = NoPurge /\ kvDeletes' = 0 /\ UNCHANGED <<waiting, due, kvBytes>>
        BY <3>4 DEF GuardsNewDay
      <4>2. purge'.picked = {} /\ purge'.left = {}
        BY <4>1 DEF NoPurge
      <4>. QED
        BY <4>1, <4>2
    <3>5. CASE GuardsNewDay /\ purge # NoPurge
      <4>1. /\ purge' = [purge EXCEPT !.today = FALSE]
            /\ kvDeletes' = 0 /\ UNCHANGED <<waiting, due, kvBytes>>
        BY <3>5 DEF GuardsNewDay
      <4>2. purge'.picked = purge.picked /\ purge'.left = purge.left /\ purge'.today = FALSE
        BY <3>1, <4>1
      <4>. QED
        BY <3>2, <4>1, <4>2
    <3>. QED
      BY <1>6, <3>3, <3>4, <3>5

  <2>2. kvDeletes <= KvDeletesGuard
    <3>1. Cardinality(purge.picked) \in Nat
      BY <1>0, BytesFacts, FS_CardinalityType DEF GuardTypeOK
    <3>. QED
      BY <1>0, <3>1 DEF GuardInv, GuardTypeOK, DeletesWithinGuard
  <2>3. DeletesWithinGuard'
    <3>1. (IF purge'.today THEN Cardinality(purge'.picked) ELSE 0) = 0
      <4>1. CASE purge'.today
        BY <2>1, <4>1, FS_EmptySet
      <4>2. CASE ~purge'.today
        BY <4>2
      <4>. QED
        BY <4>1, <4>2
    <3>. DEFINE running == IF purge'.today THEN Cardinality(purge'.picked) ELSE 0
    <3>2. kvDeletes' = 0 \/ kvDeletes' = kvDeletes
      BY <2>1
    <3>3. kvDeletes' \in Nat /\ running = 0
      BY <1>0, <3>1 DEF GuardTypeOK
    <3>. HIDE DEF running
    <3>4. kvDeletes' + running <= KvDeletesGuard
      <4>1. kvDeletes' <= KvDeletesGuard
        BY <2>2, <3>2
      <4>2. PICK n : n = kvDeletes'
        OBVIOUS
      <4>3. n \in Nat /\ n <= KvDeletesGuard
        BY <3>3, <4>1, <4>2
      <4>4. n + running <= KvDeletesGuard
        BY <3>3, <4>3
      <4>. QED
        BY <4>2, <4>4
    <3>. QED
      BY <3>4 DEF DeletesWithinGuard, running
  <2>4. purge'.picked \subseteq Range(due')
    BY <2>1 DEF GuardInv
  <2>. QED
    BY <2>1, <2>3, <2>4 DEF GuardInv
<1>7. ASSUME PurgeSelect PROVE Others
  <2>. DEFINE n == Min({Budget, Len(due)})
              picked == Range(SubSeq(due, 1, n))
  <2>1. n \in 1..Len(due) /\ n <= KvDeletesGuard - kvDeletes /\ n \in Int
    BY <1>0, <1>7, PickedFew DEF PurgeSelect
  <2>2. /\ purge' = [picked |-> picked, left |-> picked, today |-> TRUE]
        /\ UNCHANGED <<kvBytes, kvDeletes, waiting, due>>
    BY <1>7 DEF PurgeSelect
  <2>. HIDE DEF n
  <2>3. IsFiniteSet(picked) /\ Cardinality(picked) <= n /\ picked \subseteq Range(due)
    <3>1. due \in Seq(Key) /\ n \in 0..Len(due)
      BY <1>0, <2>1 DEF GuardTypeOK
    <3>. QED
      BY <3>1, RangeOf
  <2>. HIDE DEF picked
  <2>4. Cardinality(picked) \in Nat
    BY <2>3, FS_CardinalityType
  <2>5. DeletesWithinGuard'
    BY <1>0, <2>1, <2>2, <2>3, <2>4 DEF DeletesWithinGuard, GuardTypeOK
  <2>. QED
    BY <2>2, <2>3, <2>5 DEF GuardInv
<1>8. ASSUME PurgeSettle PROVE Others
  <2>1. /\ kvDeletes' = kvDeletes + IF purge.today THEN Cardinality(purge.picked) ELSE 0
        /\ kvBytes' = Lowered(BytesOf(purge.picked))
        /\ purge' = NoPurge
        /\ UNCHANGED waiting
    BY <1>8 DEF PurgeSettle
  <2>2. Range(due') = Range(due) \ purge.picked
    <3>1. due \in Seq(Key)
      BY <1>0 DEF GuardTypeOK
    <3>2. due' = Without(due, purge.picked)
      BY <1>8 DEF PurgeSettle
    <3>. QED
      BY <3>1, <3>2, RangeWithout
  <2>3. BytesOf(purge.picked) \in Nat
    BY <1>0, BytesFacts DEF GuardTypeOK
  <2>4. kvBytes' <= KvBytesGuard
    BY <1>0, <2>1, <2>3 DEF Lowered, GuardInv, GuardTypeOK
  <2>5. DeletesWithinGuard'
    BY <2>1, FS_EmptySet, <1>0 DEF DeletesWithinGuard, NoPurge, GuardInv, GuardTypeOK
  <2>. QED
    BY <2>1, <2>2, <2>4, <2>5 DEF GuardInv, NoPurge
<1>. HIDE DEF Others
<1>9. Others
  BY <1>1, <1>2, <1>3, <1>4, <1>5, <1>6, <1>7, <1>8 DEF GuardStep
<1>. QED
  BY <1>0, <1>9 DEF GuardInv, Others
----------------------------------------------------------------------------
(***************************************************************************)
(* Types.                                                                  *)
(***************************************************************************)
RequestRec == [keys: SUBSET Key, now: BOOLEAN, wipe: BOOLEAN]
UploadRec == [phase: Phase, key: Key \cup {None}]

RestTypeOK ==
  /\ stale \subseteq Rows
  /\ reserved \in 0..MaxReserved
  /\ upload \in [Upload -> UploadRec]
  /\ \A u \in Upload : upload[u].key = None <=> At(u, "idle")
  /\ toQueue \subseteq RequestRec
  /\ wipe \in {"none", "listed", "queued", "gone", "left"}
  /\ released \subseteq Key
  /\ crashes \in 0..MaxCrashes

TypeInv == PackInv /\ GuardInv /\ RestTypeOK

\* The store gives up the uploaded parts R, and a request waits to queue their keys.
GivesUp(R, now) ==
  /\ R \subseteq Uploaded
  /\ Uploaded' = Uploaded \ R
  /\ toQueue' = toQueue \cup Request(R, now, FALSE)
  /\ released' = released \cup R
  /\ UNCHANGED <<guardVars, upload, wipe>>

(* What a reservation does to the rows: stale ones go, those of the new pack come. *)
LEMMA ReserveRows ==
  ASSUME TypeInv, NEW p \in Pack, Reserve(p)
  PROVE  LET kept == Rows \ Droppable
         IN  /\ GivesUp(Droppable \cap Uploaded, TRUE)
             /\ Rows' = kept \/ (Rows' = kept \cup PartsOf(p) /\ Fits(p, kept))
<1>. DEFINE kept == Rows \ Droppable
            fresh == disc[DiscOf[p]].pack # p /\ kept \cap PartsOf(p) = {} /\ Fits(p, kept)
<1>1. /\ part' = [k \in Key |-> IF fresh /\ PackOf[k] = p THEN "reserved"
                                ELSE IF k \in kept THEN part[k] ELSE "none"]
      /\ toQueue' = toQueue \cup Request(Droppable \cap Uploaded, TRUE, FALSE)
      /\ released' = released \cup (Droppable \cap Uploaded)
      /\ UNCHANGED <<guardVars, upload, wipe>>
  BY DEF Reserve
<1>2. /\ kept \subseteq Key
      /\ \A k \in kept : part[k] # "none"
      /\ fresh => \A k \in kept : PackOf[k] # p
      /\ fresh => Fits(p, kept)
      /\ Droppable \subseteq Rows
  BY DEF PartsOf, Rows, Droppable
<1>3. Uploaded \subseteq Rows /\ kept \subseteq Rows /\ Rows \subseteq Key
  BY DEF Uploaded, Rows
<1>4. CASE fresh
  <2>1. \A k \in Key : part'[k] = IF PackOf[k] = p THEN "reserved"
                                  ELSE IF k \in kept THEN part[k] ELSE "none"
    BY <1>1, <1>4
  <2>. HIDE DEF fresh
  <2>2. Rows' = kept \cup PartsOf(p)
    BY <1>2, <1>4, <2>1 DEF Rows, PartsOf
  <2>3. Uploaded' = Uploaded \ (Droppable \cap Uploaded)
    BY <1>2, <1>4, <2>1 DEF Uploaded, Rows
  <2>. QED
    BY <1>1, <1>2, <1>4, <2>2, <2>3 DEF GivesUp
<1>5. CASE ~fresh
  <2>1. \A k \in Key : part'[k] = IF k \in kept THEN part[k] ELSE "none"
    BY <1>1, <1>5
  <2>. HIDE DEF fresh
  <2>2. Rows' = kept
    BY <1>2, <2>1 DEF Rows
  <2>3. Uploaded' = Uploaded \ (Droppable \cap Uploaded)
    BY <2>1 DEF Uploaded, Rows
  <2>. QED
    BY <1>1, <2>2, <2>3 DEF GivesUp
<1>. QED
  BY <1>4, <1>5

(* What a commit does to them: those of the old pack go. *)
LEMMA CommitRows ==
  ASSUME TypeInv, NEW p \in Pack, Commit(p)
  PROVE  LET old == {k \in Rows : PackOf[k] = disc[DiscOf[p]].pack}
         IN  /\ GivesUp(old \cap Uploaded, FALSE)
             /\ Rows' = Rows \ old
<1>. DEFINE old == {k \in Rows : PackOf[k] = disc[DiscOf[p]].pack}
<1>1. /\ part' = [k \in Key |-> IF k \in old THEN "none" ELSE part[k]]
      /\ toQueue' = toQueue \cup Request(old \cap Uploaded, FALSE, FALSE)
      /\ released' = released \cup (old \cap Uploaded)
      /\ UNCHANGED <<guardVars, upload, wipe>>
  BY DEF Commit
<1>2. \A k \in Key : part'[k] = IF k \in old THEN "none" ELSE part[k]
  BY <1>1
<1>3. old \subseteq Rows
  OBVIOUS
<1>. HIDE DEF old
<1>4. Uploaded' = Uploaded \ (old \cap Uploaded) /\ Rows' = Rows \ old
  BY <1>2, <1>3 DEF Uploaded, Rows
<1>. QED
  BY <1>1, <1>4 DEF GivesUp, old

(* Marking an upload adds no row and takes none, and makes at most its part an uploaded *)
(* one.                                                                                 *)
LEMMA MarkRows ==
  ASSUME TypeInv, NEW u \in Upload, UploadMark(u)
  PROVE  Rows' = Rows /\ Uploaded' \subseteq Uploaded \cup {upload[u].key}
<1>. DEFINE k == upload[u].key
<1>1. part' = IF part[k] = "reserved" THEN [part EXCEPT ![k] = "uploaded"] ELSE part
  BY DEF UploadMark
<1>2. part \in [Key -> {"none", "reserved", "uploaded"}]
  BY DEF TypeInv, PackInv, RowTypeOK
<1>3. \A j \in Key : part'[j] = part[j] \/ (j = k /\ part[j] = "reserved" /\ part'[j] = "uploaded")
  BY <1>1, <1>2
<1>. QED
  BY <1>3 DEF Rows, Uploaded

(* A request under way has a part. *)
LEMMA PartOfUpload ==
  ASSUME TypeInv, NEW u \in Upload, ~At(u, "idle")
  PROVE  upload[u].key \in Key
BY DEF TypeInv, RestTypeOK, UploadRec

(* An upload goes on to another phase, or is over. *)
LEMMA GotoTyped ==
  ASSUME TypeInv, NEW u \in Upload, NEW phase \in Phase, ~At(u, "idle"), Goto(u, phase)
  PROVE  /\ upload' \in [Upload -> UploadRec]
         /\ \A v \in Upload : upload'[v].key = None <=> At(v, "idle")'
         /\ \A v \in Upload \ {u} : upload'[v] = upload[v]
         /\ upload'[u] = IF phase = "idle" THEN Unserved
           ELSE [phase |-> phase, key |-> upload[u].key]
<1>1. upload[u] \in UploadRec /\ upload[u].key \in Key /\ upload[u].key # None
  BY PartOfUpload, PacksAssumption DEF TypeInv, RestTypeOK
<1>2. [upload[u] EXCEPT !.phase = phase] = [phase |-> phase, key |-> upload[u].key]
  BY <1>1 DEF UploadRec
<1>. DEFINE m == IF phase = "idle" THEN Unserved ELSE [phase |-> phase, key |-> upload[u].key]
<1>3. upload \in [Upload -> UploadRec]
  BY DEF TypeInv, RestTypeOK
<1>4. upload' = [upload EXCEPT ![u] = m]
  BY <1>2 DEF Goto
<1>5. m \in UploadRec /\ (m.key = None <=> m.phase = "idle")
  BY <1>1 DEF Unserved, UploadRec, Phase
<1>. HIDE DEF m
<1>6. /\ upload' \in [Upload -> UploadRec]
      /\ upload'[u] = m
      /\ \A v \in Upload \ {u} : upload'[v] = upload[v]
  BY <1>3, <1>4, <1>5
<1>7. \A v \in Upload : upload'[v].key = None <=> upload'[v].phase = "idle"
  <2>1. \A v \in Upload : upload[v].key = None <=> upload[v].phase = "idle"
    BY DEF TypeInv, RestTypeOK, At
  <2>. QED
    BY <1>5, <1>6, <2>1
<1>. QED
  BY <1>6, <1>7 DEF At, m

(* Whatever the vault, its uploads and the cron do is a step of the shared guards. *)
LEMMA Guarded ==
  ASSUME TypeInv, [PacksNext]_packVars
  PROVE  GuardStep
<1>1. ASSUME NEW u \in Upload, UploadStep(u)
      PROVE  GuardStep
  <2>1. ~At(u, "idle") => upload[u].key \in Key
    BY PartOfUpload
  <2>2. CASE UploadBytes(u) \/ UploadBack(u) \/ UploadPut(u)
    BY <2>1, <2>2 DEF UploadBytes, UploadBack, UploadPut, At, GuardStep
  <2>3. CASE UploadRefused(u) \/ UploadDeferred(u) \/ UploadFails(u) \/ UploadWrite(u)
    BY <2>3 DEF UploadRefused, UploadDeferred, UploadFails, UploadWrite, GuardStep
  <2>4. CASE UploadMark(u)
    BY <2>4 DEF UploadMark, GuardStep
  <2>. QED
    BY <1>1, <2>2, <2>3, <2>4 DEF UploadStep
<1>2. ASSUME NEW q \in toQueue, QueuePurge(q)
      PROVE  GuardStep
  <2>1. q.keys \in SUBSET Key /\ q.now \in BOOLEAN
    BY DEF TypeInv, RestTypeOK, RequestRec
  <2>. QED
    BY <1>2, <2>1 DEF QueuePurge, GuardStep
<1>3. CASE Cron
  BY <1>3 DEF Cron, CronStep, GuardStep
<1>4. CASE CronFails \/ PacksNewDay
  BY <1>4 DEF CronFails, PacksNewDay, GuardStep
<1>5. CASE \/ \E d \in Disc : SaveDisc(d) \/ DeleteDisc(d)
           \/ \E p \in Pack : Reserve(p) \/ ReservationStales(p) \/ Commit(p)
           \/ \E u \in Upload, k \in Key : UploadBegin(u, k)
           \/ WipeBegin \/ WipeEnd \/ Restart
  <2>1. UNCHANGED guardVars
    BY <1>5 DEF SaveDisc, DeleteDisc, Reserve, ReservationStales, Commit, UploadBegin, WipeBegin,
                WipeEnd, Restart
  <2>. QED
    BY <2>1 DEF GuardStep
<1>6. CASE UNCHANGED packVars
  BY <1>6 DEF packVars, GuardStep
<1>. QED
  BY <1>1, <1>2, <1>3, <1>4, <1>5, <1>6 DEF PacksNext

(* A request to queue keys, if there are any. *)
LEMMA RequestOf ==
  ASSUME NEW keys \in SUBSET Key, NEW now \in BOOLEAN, NEW deleting \in BOOLEAN
  PROVE  Request(keys, now, deleting) \subseteq RequestRec
<1>1. [keys |-> keys, now |-> now, wipe |-> deleting] \in RequestRec
  BY DEF RequestRec
<1>. QED
  BY <1>1 DEF Request

(* No upload under way keeps the types. *)
LEMMA UnservedTyped ==
  ASSUME NEW up, up = [u \in Upload |-> Unserved]
  PROVE  /\ up \in [Upload -> UploadRec]
         /\ \A u \in Upload : up[u].key = None /\ up[u].phase = "idle"
BY DEF Unserved, UploadRec, Phase

(* Every step keeps them. *)
LEMMA RestStep ==
  ASSUME TypeInv, PacksNext
  PROVE  RestTypeOK'
<1>. USE PacksAssumption
<1>0. RestTypeOK
  BY DEF TypeInv
<1>1. ASSUME \/ \E d \in Disc : SaveDisc(d) \/ DeleteDisc(d)
             \/ PacksNewDay \/ Cron
      PROVE  RestTypeOK'
  <2>1. UNCHANGED <<part, stale, reserved, released, upload, toQueue, wipe, crashes>>
    BY <1>1 DEF SaveDisc, DeleteDisc, PacksNewDay, Cron, storeVars, requestVars
  <2>. QED
    BY <1>0, <2>1 DEF RestTypeOK, Rows, At
<1>2. ASSUME NEW R \in SUBSET Uploaded, NEW now \in BOOLEAN, GivesUp(R, now),
             stale' \subseteq Rows', reserved' \in 0..MaxReserved, UNCHANGED crashes
      PROVE  RestTypeOK'
  <2>1. R \subseteq Key
    BY DEF Uploaded
  <2>2. Request(R, now, FALSE) \subseteq RequestRec
    BY <2>1, RequestOf
  <2>3. UNCHANGED <<upload, wipe>> /\ toQueue' \subseteq RequestRec /\ released' \subseteq Key
    BY <1>0, <1>2, <2>1, <2>2 DEF GivesUp, RestTypeOK
  <2>. QED
    BY <1>0, <1>2, <2>3 DEF RestTypeOK, At
<1>3. ASSUME NEW p \in Pack, Reserve(p) PROVE RestTypeOK'
  <2>1. /\ GivesUp(Droppable \cap Uploaded, TRUE)
        /\ Rows \ Droppable \subseteq Rows'
    BY <1>3, ReserveRows
  <2>2. stale' = stale \ Droppable /\ UNCHANGED crashes
    BY <1>3 DEF Reserve
  <2>3. reserved' \in 0..MaxReserved
    BY <1>0, <1>3 DEF Reserve, RestTypeOK
  <2>. QED
    BY <1>0, <1>2, <2>1, <2>2, <2>3 DEF RestTypeOK
<1>4. ASSUME NEW p \in Pack, Commit(p) PROVE RestTypeOK'
  <2>. DEFINE old == {k \in Rows : PackOf[k] = disc[DiscOf[p]].pack}
  <2>1. /\ GivesUp(old \cap Uploaded, FALSE)
        /\ Rows' = Rows \ old
    BY <1>4, CommitRows
  <2>2. stale' = stale \ old /\ UNCHANGED <<crashes, reserved>>
    BY <1>4 DEF Commit
  <2>. HIDE DEF old
  <2>. QED
    BY <1>0, <1>2, <2>1, <2>2 DEF RestTypeOK
<1>5. ASSUME NEW p \in Pack, ReservationStales(p) PROVE RestTypeOK'
  BY <1>0, <1>5 DEF ReservationStales, RestTypeOK, Rows, At, requestVars
<1>6. ASSUME NEW u \in Upload, NEW k \in Key, UploadBegin(u, k) PROVE RestTypeOK'
  <2>. DEFINE m == [phase |-> "bytes", key |-> k]
  <2>1. upload' = [upload EXCEPT ![u] = m]
    BY <1>6 DEF UploadBegin
  <2>2. m \in UploadRec /\ m.key # None /\ m.phase # "idle"
    BY DEF UploadRec, Phase
  <2>. HIDE DEF m
  <2>3. upload' \in [Upload -> UploadRec]
    BY <1>0, <2>1, <2>2 DEF RestTypeOK
  <2>4. \A v \in Upload : upload'[v].key = None <=> At(v, "idle")'
    BY <1>0, <2>1, <2>2 DEF RestTypeOK, At
  <2>5. /\ UNCHANGED <<part, stale, reserved, released, toQueue, wipe, crashes>>
    BY <1>6 DEF UploadBegin, storeVars
  <2>. QED
    BY <1>0, <2>3, <2>4, <2>5 DEF RestTypeOK, Rows
<1>7. ASSUME NEW u \in Upload, UploadStep(u) PROVE RestTypeOK'
  <2>1. /\ ~At(u, "idle")
        /\ \E phase \in Phase : Goto(u, phase)
        /\ UNCHANGED <<stale, reserved, released, toQueue, wipe>>
        /\ crashes' \in 0..MaxCrashes
    BY <1>0, <1>7
       DEF UploadStep, UploadBytes, UploadRefused, UploadWrite, UploadDeferred, UploadBack,
           UploadPut, UploadFails, UploadMark, storeVars, At, Phase, RestTypeOK
  <2>2. /\ upload' \in [Upload -> UploadRec]
        /\ \A v \in Upload : upload'[v].key = None <=> At(v, "idle")'
    BY <2>1, GotoTyped
  <2>3. Rows' = Rows
    <3>1. CASE UploadMark(u)
      BY <3>1, MarkRows
    <3>2. CASE ~UploadMark(u)
      BY <1>7, <3>2
         DEF UploadStep, UploadBytes, UploadRefused, UploadWrite, UploadDeferred, UploadBack,
             UploadPut, UploadFails, storeVars, Rows
    <3>. QED
      BY <3>1, <3>2
  <2>. QED
    BY <1>0, <2>1, <2>2, <2>3 DEF RestTypeOK
<1>8. ASSUME WipeBegin PROVE RestTypeOK'
  <2>1. Uploaded \subseteq Key
    BY DEF Uploaded
  <2>2. Request(Uploaded, TRUE, TRUE) \subseteq RequestRec
    BY <2>1, RequestOf
  <2>3. toQueue' \subseteq RequestRec /\ released' \subseteq Key
    BY <1>0, <1>8, <2>1, <2>2 DEF WipeBegin, RestTypeOK
  <2>4. stale' \subseteq Rows' /\ wipe' \in {"listed", "gone"}
    BY <1>0, <1>8 DEF WipeBegin, DatabaseDeleted, RestTypeOK, Rows
  <2>. QED
    BY <1>0, <1>8, <2>3, <2>4 DEF WipeBegin, RestTypeOK, At
<1>9. ASSUME WipeEnd PROVE RestTypeOK'
  BY <1>0, <1>9 DEF WipeEnd, DatabaseDeleted, requestVars, RestTypeOK, At
<1>10. ASSUME NEW q \in toQueue, QueuePurge(q) PROVE RestTypeOK'
  <2>1. /\ toQueue' = toQueue \ {q}
        /\ wipe' \in {"queued", wipe}
        /\ UNCHANGED <<part, stale, upload, released, crashes, reserved>>
    BY <1>10 DEF QueuePurge
  <2>. QED
    BY <1>0, <2>1 DEF RestTypeOK, Rows, At
<1>11. ASSUME Restart PROVE RestTypeOK'
  <2>1. /\ upload' = [u \in Upload |-> Unserved]
        /\ toQueue' = {}
        /\ wipe' \in {"left", wipe}
        /\ UNCHANGED <<part, stale, released, reserved>>
        /\ crashes < MaxCrashes /\ crashes' = crashes + 1
    BY <1>11 DEF Restart
  <2>2. crashes' \in 0..MaxCrashes
    BY <1>0, <2>1 DEF RestTypeOK
  <2>3. /\ upload' \in [Upload -> UploadRec]
        /\ \A u \in Upload : upload'[u].key = None /\ upload'[u].phase = "idle"
    BY <2>1, UnservedTyped
  <2>. QED
    BY <1>0, <2>1, <2>2, <2>3 DEF RestTypeOK, Rows, At
<1>12. ASSUME CronFails PROVE RestTypeOK'
  BY <1>0, <1>12 DEF CronFails, storeVars, RestTypeOK, Rows, At
<1>. QED
  BY <1>1, <1>3, <1>4, <1>5, <1>6, <1>7, <1>8, <1>9, <1>10, <1>11, <1>12 DEF PacksNext

(* The types, the rows of current packs and the state of the purge: what the following    *)
(* arguments all rest on.                                                                 *)
LEMMA TypeStep ==
  ASSUME TypeInv, [PacksNext]_packVars
  PROVE  TypeInv'
<1>1. PackInv'
  BY PackStep DEF TypeInv
<1>2. GuardInv'
  BY Guarded, GuardKeeps DEF TypeInv
<1>3. RestTypeOK'
  <2>1. CASE PacksNext
    BY <2>1, RestStep
  <2>2. CASE UNCHANGED packVars
    BY <2>2 DEF packVars, storeVars, requestVars, TypeInv, RestTypeOK, Rows, At
  <2>. QED
    BY <2>1, <2>2
<1>. QED
  BY <1>1, <1>2, <1>3 DEF TypeInv

(* It holds at the start. *)
LEMMA TypeInit ==
  ASSUME PacksInit
  PROVE  TypeInv
<1>. USE PacksAssumption, GuardsAssumption
<1>1. PackInv
  BY DEF PacksInit, PackInv, RowTypeOK, CurrentOfDisc, CurrentComplete, Rows
<1>2. GuardTypeOK
  BY DEF PacksInit, GuardInit, GuardTypeOK, NoPurge
<1>3. Range(due) = {}
  BY DEF PacksInit, GuardInit, Range
<1>4. DeletesWithinGuard
  BY FS_EmptySet DEF PacksInit, GuardInit, NoPurge, DeletesWithinGuard
<1>5. GuardInv
  BY <1>2, <1>3, <1>4 DEF GuardInv, PacksInit, GuardInit, NoPurge
<1>6. RestTypeOK
  <2>1. /\ upload \in [Upload -> UploadRec]
        /\ \A u \in Upload : upload[u].key = None /\ upload[u].phase = "idle"
    BY UnservedTyped DEF PacksInit
  <2>. QED
    BY <2>1 DEF PacksInit, RestTypeOK, At
<1>. QED
  BY <1>1, <1>5, <1>6 DEF TypeInv

\* and in every state.
LEMMA TypeInvariant == PacksSpec => []TypeInv
<1>1. PacksInit => TypeInv
  BY TypeInit
<1>. QED
  BY <1>1, TypeStep, PTL DEF PacksSpec

(* The variables of the vault, its uploads and the shared guards keep their types.        *)
THEOREM PackStorageTyped == PacksSpec => []PacksTypeOK
<1>1. TypeInv => PacksTypeOK
  BY DEF TypeInv, PackInv, RowTypeOK, GuardInv, RestTypeOK, UploadRec, RequestRec, PacksTypeOK
<1>. QED
  BY <1>1, TypeInvariant, PTL

(* The deletes of a day stay within the guard, whatever runs of the cron fail or pass     *)
(* midnight (purgeDueKeys).                                                               *)
THEOREM DeletesMetered == PacksSpec => []DeletesWithinGuard
<1>1. TypeInv => DeletesWithinGuard
  BY DEF TypeInv, GuardInv
<1>. QED
  BY <1>1, TypeInvariant, PTL
----------------------------------------------------------------------------
(***************************************************************************)
(* The storage quota.                                                      *)
(***************************************************************************)
(* A step keeps the rows, takes some away, or adds a pack that fits. *)
LEMMA RowsChange ==
  ASSUME TypeInv, [PacksNext]_packVars
  PROVE  \/ Rows' \subseteq Rows
         \/ \E p \in Pack : \E kept \in SUBSET Key :
              Rows' = kept \cup PartsOf(p) /\ Fits(p, kept)
<1>1. ASSUME NEW p \in Pack, Reserve(p)
      PROVE  \/ Rows' \subseteq Rows
             \/ \E kept \in SUBSET Key : Rows' = kept \cup PartsOf(p) /\ Fits(p, kept)
  <2>1. Rows \ Droppable \in SUBSET Key
    BY DEF Rows
  <2>2. \/ Rows' = Rows \ Droppable
        \/ Rows' = (Rows \ Droppable) \cup PartsOf(p) /\ Fits(p, Rows \ Droppable)
    BY <1>1, ReserveRows
  <2>. QED
    BY <2>1, <2>2, Zenon
<1>2. ASSUME NEW p \in Pack, Commit(p) PROVE Rows' \subseteq Rows
  BY <1>2, CommitRows
<1>3. ASSUME NEW u \in Upload, UploadStep(u) PROVE Rows' \subseteq Rows
  <2>1. CASE UploadMark(u)
    BY <2>1, MarkRows
  <2>2. CASE ~UploadMark(u)
    BY <1>3, <2>2
       DEF UploadStep, UploadBytes, UploadRefused, UploadWrite, UploadDeferred, UploadBack,
           UploadPut, UploadFails, storeVars, Rows
  <2>. QED
    BY <2>1, <2>2
<1>4. CASE WipeBegin \/ WipeEnd
  BY <1>4 DEF WipeBegin, WipeEnd, DatabaseDeleted, Rows
<1>5. CASE \/ \E d \in Disc : SaveDisc(d) \/ DeleteDisc(d)
           \/ \E p \in Pack : ReservationStales(p)
           \/ \E u \in Upload, k \in Key : UploadBegin(u, k)
           \/ \E q \in toQueue : QueuePurge(q)
           \/ Restart \/ CronFails \/ PacksNewDay \/ Cron
           \/ UNCHANGED packVars
  <2>1. UNCHANGED part
    BY <1>5 DEF SaveDisc, DeleteDisc, ReservationStales, UploadBegin, QueuePurge,
        Restart, CronFails,
                PacksNewDay, Cron, storeVars, packVars
  <2>. QED
    BY <2>1 DEF Rows
<1>. QED
  BY <1>1, <1>2, <1>3, <1>4, <1>5 DEF PacksNext

(* The parts a vault has rows for, stored or reserved, never take more than its quota     *)
(* (reservePacks).                                                                        *)
THEOREM QuotaHeld == PacksSpec => []QuotaKept
<1>1. ASSUME PacksInit PROVE QuotaKept
  <2>1. Rows = {}
    BY <1>1 DEF PacksInit, Rows
  <2>. QED
    BY <2>1, BytesFacts, PacksAssumption DEF QuotaKept
<1>2. ASSUME TypeInv, QuotaKept, [PacksNext]_packVars PROVE QuotaKept'
  <2>0. Rows \in SUBSET Key /\ MaxPackBytes \in Nat
    BY PacksAssumption DEF Rows
  <2>1. PICK rows : rows = Rows'
    OBVIOUS
  <2>2. ASSUME rows \subseteq Rows PROVE BytesOf(rows) <= MaxPackBytes
    <3>1. BytesOf(rows) <= BytesOf(Rows) /\ BytesOf(rows) \in Nat /\ BytesOf(Rows) \in Nat
      BY <2>0, <2>2, BytesFacts
    <3>. QED
      BY <1>2, <2>0, <3>1 DEF QuotaKept
  <2>3. ASSUME NEW p \in Pack, NEW kept \in SUBSET Key, rows = kept \cup PartsOf(p), Fits(p, kept)
        PROVE  BytesOf(rows) <= MaxPackBytes
    <3>1. PartsOf(p) \in SUBSET Key
      BY DEF PartsOf
    <3>2. /\ BytesOf(kept \cup PartsOf(p)) <= BytesOf(kept) + BytesOf(PartsOf(p))
          /\ BytesOf(kept) \in Nat /\ BytesOf(PartsOf(p)) \in Nat
          /\ kept \cup PartsOf(p) \in SUBSET Key
      BY <3>1, BytesFacts
    <3>3. BytesOf(kept \cup PartsOf(p)) \in Nat
      BY <3>2, BytesFacts
    <3>4. BytesOf(kept \cup PartsOf(p)) <= MaxPackBytes
      BY <2>0, <2>3, <3>2, <3>3 DEF Fits
    <3>. QED
      BY <2>3, <3>4, Zenon
  <2>4. BytesOf(rows) <= MaxPackBytes
    BY <1>2, <2>1, <2>2, <2>3, RowsChange
  <2>. QED
    BY <2>1, <2>4 DEF QuotaKept
<1>. QED
  BY <1>1, <1>2, TypeInvariant, PTL DEF PacksSpec
----------------------------------------------------------------------------
(***************************************************************************)
(* Uploaded parts and the purge.                                           *)
(***************************************************************************)
Waiting == UNION {q.keys : q \in toQueue}

\* Only keys that were given up wait for the purge or are on the way to its queue, and an
\* upload that is about to be marked has stored its part.
KeysInv ==
  /\ UploadedStored
  /\ Queued \cup Waiting \subseteq released
  /\ \A u \in Upload : At(u, "mark") => upload[u].key \in kv \cup released

(* Any step of the project, in terms of what it does to parts and keys. *)
LEMMA KeysStep ==
  ASSUME TypeInv, KeysInv, [PacksNext]_packVars
  PROVE  KeysInv'
<1>. USE DEF KeysInv, UploadedStored
<1>1. ASSUME NEW R, NEW now, GivesUp(R, now) PROVE KeysInv'
  <2>1. /\ Uploaded' = Uploaded \ R
        /\ released' = released \cup R
        /\ UNCHANGED <<kv, waiting, due, upload>>
    BY <1>1 DEF GivesUp, guardVars
  <2>2. Waiting' \subseteq Waiting \cup R
    BY <1>1 DEF GivesUp, Waiting, Request
  <2>. QED
    BY <2>1, <2>2 DEF Queued, At
<1>2. CASE WipeBegin
  <2>1. /\ released' = released \cup Uploaded
        /\ Uploaded' \subseteq Uploaded
        /\ UNCHANGED <<kv, waiting, due, upload>>
    BY <1>2 DEF WipeBegin, DatabaseDeleted, guardVars, Uploaded
  <2>2. Waiting' \subseteq Waiting \cup Uploaded
    BY <1>2 DEF WipeBegin, Waiting, Request
  <2>. QED
    BY <2>1, <2>2 DEF Queued, At
<1>3. CASE WipeEnd
  <2>1. Uploaded' = {} /\ UNCHANGED <<kv, waiting, due, upload, toQueue, released>>
    BY <1>3 DEF WipeEnd, DatabaseDeleted, guardVars, requestVars, Uploaded
  <2>. QED
    BY <2>1 DEF Queued, Waiting, At
<1>4. ASSUME NEW q \in toQueue, QueuePurge(q) PROVE KeysInv'
  <2>1. /\ toQueue' = toQueue \ {q}
        /\ UNCHANGED <<kv, part, upload, released>>
    BY <1>4 DEF QueuePurge, Enqueue
  <2>2. Queued' = Queued \cup q.keys
    <3>1. q.keys \in SUBSET Key /\ q.now \in BOOLEAN
      BY DEF TypeInv, RestTypeOK, RequestRec
    <3>2. GuardTypeOK /\ waiting \cap Range(due) = {}
      BY DEF TypeInv, GuardInv
    <3>. QED
      BY <1>4, <3>1, <3>2, EnqueueAdds DEF QueuePurge
  <2>3. q.keys \subseteq Waiting /\ Waiting' \subseteq Waiting
    BY <2>1 DEF Waiting
  <2>. QED
    BY <2>1, <2>2, <2>3 DEF Uploaded, At
<1>5. CASE Restart
  <2>1. /\ Waiting' = {}
        /\ \A u \in Upload : ~At(u, "mark")'
        /\ UNCHANGED <<kv, waiting, due, part, released>>
    BY <1>5 DEF Restart, guardVars, Waiting, Unserved, At
  <2>. QED
    BY <2>1 DEF Queued, Uploaded
<1>6. ASSUME NEW k \in Key, PurgeDelete(k), UNCHANGED <<storeVars, requestVars>> PROVE KeysInv'
  <2>1. k \in released
    BY <1>6 DEF PurgeDelete, TypeInv, GuardInv, Queued
  <2>. QED
    BY <1>6, <2>1 DEF PurgeDelete, storeVars, requestVars, Queued, Waiting, Uploaded, At
<1>7. ASSUME PurgeSelect \/ PurgeSettle \/ PurgeFails \/ GuardsNewDay
               \/ (\E k \in Key : RetentionEnds(k)),
             UNCHANGED <<storeVars, upload, toQueue>>
      PROVE  KeysInv'
  <2>1. UNCHANGED <<kv, part, upload, toQueue, released>>
    BY <1>7 DEF PurgeSelect, PurgeSettle, PurgeFails, GuardsNewDay, RetentionEnds, storeVars
  <2>2. Queued' \subseteq Queued
    <3>0. due \in Seq(Key)
      BY DEF TypeInv, GuardInv, GuardTypeOK
    <3>1. CASE PurgeSelect \/ PurgeFails \/ GuardsNewDay
      BY <3>1 DEF PurgeSelect, PurgeFails, GuardsNewDay, Queued
    <3>2. CASE PurgeSettle
      <4>1. due' = Without(due, purge.picked) /\ UNCHANGED waiting
        BY <3>2 DEF PurgeSettle
      <4>2. Range(due') = Range(due) \ purge.picked
        BY <3>0, <4>1, RangeWithout
      <4>. QED
        BY <4>1, <4>2 DEF Queued
    <3>3. ASSUME NEW k \in Key, RetentionEnds(k) PROVE Queued' \subseteq Queued
      <4>1. k \in waiting /\ due' = Append(due, k) /\ waiting' = waiting \ {k}
        BY <3>3 DEF RetentionEnds
      <4>2. Range(due') = Range(due) \cup {k}
        BY <3>0, <4>1, RangeOf
      <4>. QED
        BY <4>1, <4>2 DEF Queued
    <3>. QED
      BY <1>7, <3>1, <3>2, <3>3
  <2>. QED
    BY <2>1, <2>2 DEF Waiting, Uploaded, At
<1>8. ASSUME NEW u \in Upload, UploadStep(u) PROVE KeysInv'
  <2>0. upload \in [Upload -> UploadRec]
    BY DEF TypeInv, RestTypeOK
  <2>1. CASE UploadMark(u)
    <3>1. Uploaded' \subseteq Uploaded \cup {upload[u].key}
      BY <2>1, MarkRows
    <3>2. /\ upload[u].key \in kv \cup released
          /\ UNCHANGED <<kv, waiting, due, toQueue, released>>
          /\ upload' = [upload EXCEPT ![u] = Unserved]
      BY <2>1 DEF UploadMark, Goto, guardVars
    <3>3. \A v \in Upload : At(v, "mark")' => At(v, "mark") /\ upload'[v] = upload[v]
      BY <2>0, <3>2 DEF At, Unserved
    <3>. QED
      BY <3>1, <3>2, <3>3 DEF Queued, Waiting
  <2>2. CASE UploadPut(u)
    <3>1. kv' = kv \cup {upload[u].key} /\ UNCHANGED <<part, waiting, due, toQueue, released>>
      BY <2>2 DEF UploadPut, KvPut, storeVars
    <3>2. /\ \A v \in Upload \ {u} : upload'[v] = upload[v]
          /\ upload'[u].key = upload[u].key
      <4>1. ~At(u, "idle") /\ Goto(u, "mark") /\ "mark" \in Phase
        BY <2>2 DEF UploadPut, At, Phase
      <4>2. /\ \A v \in Upload \ {u} : upload'[v] = upload[v]
            /\ upload'[u] = IF "mark" = "idle" THEN Unserved
                            ELSE [phase |-> "mark", key |-> upload[u].key]
        BY <4>1, GotoTyped
      <4>. QED
        BY <4>2
    <3>. QED
      BY <3>1, <3>2 DEF Queued, Waiting, Uploaded, At
  <2>3. CASE ~UploadMark(u) /\ ~UploadPut(u)
    <3>1. /\ UNCHANGED <<kv, part, waiting, due, toQueue, released>>
          /\ ~At(u, "idle") /\ \E phase \in Phase \ {"mark"} : Goto(u, phase)
      BY <1>8, <2>3
         DEF UploadStep, UploadBytes, UploadRefused, UploadWrite, UploadDeferred, UploadBack,
             UploadFails, TakeBytes, TakeWrite, GiveBack, storeVars, guardVars, At, Phase
    <3>2. PICK phase \in Phase \ {"mark"} : Goto(u, phase)
      BY <3>1
    <3>3. /\ \A v \in Upload \ {u} : upload'[v] = upload[v]
          /\ upload'[u] = IF phase = "idle" THEN Unserved
                          ELSE [phase |-> phase, key |-> upload[u].key]
      BY <3>1, <3>2, GotoTyped
    <3>4. \A v \in Upload : At(v, "mark")' => At(v, "mark") /\ upload'[v] = upload[v]
      BY <3>3 DEF At, Unserved
    <3>. QED
      BY <3>1, <3>4 DEF Queued, Waiting, Uploaded
  <2>. QED
    BY <2>1, <2>2, <2>3
<1>9. ASSUME NEW u \in Upload, NEW k \in Key, UploadBegin(u, k) PROVE KeysInv'
  <2>1. /\ upload' = [upload EXCEPT ![u] = [phase |-> "bytes", key |-> k]]
        /\ UNCHANGED <<kv, part, waiting, due, toQueue, released>>
    BY <1>9 DEF UploadBegin, guardVars, storeVars
  <2>2. \A v \in Upload : At(v, "mark")' => At(v, "mark") /\ upload'[v] = upload[v]
    BY <2>1 DEF TypeInv, RestTypeOK, At
  <2>. QED
    BY <2>1, <2>2 DEF Queued, Waiting, Uploaded
<1>10. CASE \/ \E d \in Disc : SaveDisc(d) \/ DeleteDisc(d)
            \/ \E p \in Pack : ReservationStales(p)
            \/ UNCHANGED packVars
  <2>1. UNCHANGED <<kv, part, waiting, due, upload, toQueue, released>>
    BY <1>10 DEF SaveDisc, DeleteDisc, ReservationStales, packVars, guardVars, storeVars,
        requestVars
  <2>. QED
    BY <2>1 DEF Queued, Waiting, Uploaded, At
<1>11. ASSUME NEW p \in Pack, Reserve(p) \/ Commit(p) PROVE KeysInv'
  BY <1>1, <1>11, ReserveRows, CommitRows
<1>12. CASE Cron
  BY <1>6, <1>7, <1>12 DEF Cron, CronStep, requestVars
<1>13. CASE CronFails \/ PacksNewDay
  BY <1>7, <1>13 DEF CronFails, PacksNewDay, storeVars, requestVars
<1>. HIDE DEF KeysInv
<1>. QED
  BY <1>2, <1>3, <1>4, <1>5, <1>8, <1>9, <1>10, <1>11, <1>12, <1>13 DEF PacksNext

(* A part the vault counts as uploaded is in KV unless its key was given up before: the   *)
(* purge deletes given-up keys only, through failed writes, restarts of the vault, runs   *)
(* of the cron that fail and parts that are stored again while they wait (uploadPart,     *)
(* purgeDueKeys).                                                                         *)
THEOREM UploadsAreStored == PacksSpec => []UploadedStored
<1>1. ASSUME PacksInit PROVE KeysInv
  BY <1>1 DEF PacksInit, GuardInit, KeysInv, UploadedStored, Uploaded, Queued, Waiting,
         Range, At, Unserved
<1>2. TypeInv /\ KeysInv /\ [PacksNext]_packVars => KeysInv'
  BY KeysStep
<1>3. KeysInv => UploadedStored
  BY DEF KeysInv
<1>. QED
  BY <1>1, <1>2, <1>3, TypeInvariant, PTL DEF PacksSpec
----------------------------------------------------------------------------
(***************************************************************************)
(* The ledger of the storage guard.  kv_bytes has to stand for more than   *)
(* KV holds: for uploads from the bytes they took to the row they mark,    *)
(* for keys in the queue until the purge that deleted them settles, and    *)
(* for keys on the way to the queue.  Live are the keys that no upload, no *)
(* request and no queue answers for.                                       *)
(***************************************************************************)
HoldPhases == {"write", "put", "back", "mark"}
HoldingIn(up) == {u \in Upload : up[u].phase \in HoldPhases}
HeldIn(up) == SumFunctionOnSet([u \in HoldingIn(up) |-> Bytes[up[u].key]], HoldingIn(up))
OnWay(requests) == SumFunctionOnSet([q \in requests |-> BytesOf(q.keys)], requests)

Marking == {upload[u].key : u \in {v \in Upload : At(v, "mark")}}
Deleted == purge.picked \ purge.left
Live == Uploaded \cup (kv \ ((Queued \ Deleted) \cup Waiting \cup Marking))

Ledger == BytesOf(Live) + HeldIn(upload) + BytesOf(Queued) + OnWay(toQueue) <= kvBytes

LedgerInv == IsFiniteSet(toQueue) /\ (wipe = "none" => Ledger)

(* An upload counts while it holds bytes. *)
LEMMA HeldMove ==
  ASSUME NEW up, NEW to, NEW u \in Upload,
         \A v \in Upload : /\ up[v].phase # "idle" => up[v].key \in Key
                           /\ to[v].phase # "idle" => to[v].key \in Key,
         \A v \in Upload \ {u} : to[v] = up[v]
  PROVE  /\ HeldIn(up) \in Nat /\ HeldIn(to) \in Nat
         /\ \E rest \in Nat :
              /\ HeldIn(up) = rest + IF up[u].phase \in HoldPhases THEN Bytes[up[u].key] ELSE 0
              /\ HeldIn(to) = rest + IF to[u].phase \in HoldPhases THEN Bytes[to[u].key] ELSE 0
<1>. DEFINE W(x) == [v \in HoldingIn(x) |-> Bytes[x[v].key]]
            Others == HoldingIn(up) \ {u}
            rest == SumFunctionOnSet(W(up), Others)
<1>1. ASSUME NEW x, \A v \in Upload : x[v].phase # "idle" => x[v].key \in Key
      PROVE  /\ IsFiniteSet(HoldingIn(x)) /\ NatOn(W(x), HoldingIn(x))
             /\ HeldIn(x) \in Nat
             /\ HeldIn(x) = SumFunctionOnSet(W(x), HoldingIn(x) \ {u})
                              + IF x[u].phase \in HoldPhases THEN Bytes[x[u].key] ELSE 0
             /\ SumFunctionOnSet(W(x), HoldingIn(x) \ {u}) \in Nat
  <2>. DEFINE H == HoldingIn(x)
              w == W(x)
  <2>1. IsFiniteSet(H)
    BY PacksAssumption, FS_Subset DEF HoldingIn
  <2>2. \A v \in H : v \in Upload /\ x[v].phase \in HoldPhases
         /\ w[v] = Bytes[x[v].key] /\ w[v] \in Nat
    BY <1>1, BytesFacts DEF HoldingIn, HoldPhases
  <2>3. u \in H <=> x[u].phase \in HoldPhases
    BY DEF HoldingIn
  <2>4. HeldIn(x) = SumFunctionOnSet(w, H)
    BY DEF HeldIn
  <2>. HIDE DEF H, w
  <2>5. NatOn(w, H) /\ SumFunctionOnSet(w, H) \in Nat
    BY <2>1, <2>2, SumNat DEF NatOn
  <2>6. SumFunctionOnSet(w, H \ {u}) \in Nat
    BY <2>1, <2>5, SumMono
  <2>7. CASE u \in H
    <3>1. SumFunctionOnSet(w, H) = w[u] + SumFunctionOnSet(w, H \ {u})
      BY <2>1, <2>5, <2>7, SumRemove
    <3>. QED
      BY <2>1, <2>2, <2>3, <2>4, <2>5, <2>6, <2>7, <3>1 DEF H, w
  <2>8. CASE u \notin H
    <3>1. H \ {u} = H
      BY <2>8
    <3>2. SumFunctionOnSet(w, H) = SumFunctionOnSet(w, H \ {u})
      BY <3>1, Zenon
    <3>. QED
      BY <2>1, <2>3, <2>4, <2>5, <2>6, <2>8, <3>2 DEF H, w
  <2>. QED
    BY <2>7, <2>8
<1>2. HoldingIn(to) \ {u} = Others
  BY DEF HoldingIn
<1>3. \A v \in Others : W(to)[v] = W(up)[v]
  BY DEF HoldingIn
<1>4. IsFiniteSet(HoldingIn(up)) /\ NatOn(W(up), HoldingIn(up))
  BY <1>1
<1>. HIDE DEF W
<1>5. IsFiniteSet(Others) /\ NatOn(W(up), Others)
  BY <1>4, SumMono
<1>6. SumFunctionOnSet(W(to), Others) = rest
  BY <1>3, <1>5, SumSame
<1>7. SumFunctionOnSet(W(to), HoldingIn(to) \ {u}) = rest
  BY <1>2, <1>6, Zenon
<1>8. /\ HeldIn(up) \in Nat
      /\ HeldIn(up) = rest + IF up[u].phase \in HoldPhases THEN Bytes[up[u].key] ELSE 0
      /\ rest \in Nat
  BY <1>1
<1>9. /\ HeldIn(to) \in Nat
      /\ HeldIn(to) = SumFunctionOnSet(W(to), HoldingIn(to) \ {u})
                        + IF to[u].phase \in HoldPhases THEN Bytes[to[u].key] ELSE 0
  BY <1>1
<1>. HIDE DEF rest
<1>. QED
  BY <1>7, <1>8, <1>9

(* Uploads that hold no part hold nothing, and the parts being marked are held. *)
LEMMA HeldFacts ==
  ASSUME TypeInv
  PROVE  /\ HeldIn(upload) \in Nat
         /\ BytesOf(Marking) <= HeldIn(upload)
         /\ HeldIn([u \in Upload |-> Unserved]) = 0
<1>. DEFINE H == HoldingIn(upload)
            w == [u \in H |-> Bytes[upload[u].key]]
            c == [u \in H |-> {upload[u].key}]
<1>1. IsFiniteSet(H)
  BY PacksAssumption, FS_Subset DEF HoldingIn
<1>2. \A u \in H : upload[u].key \in Key /\ w[u] = Bytes[upload[u].key] /\ w[u] \in Nat
  <2>1. ASSUME NEW u \in H PROVE upload[u].key \in Key
    <3>1. u \in Upload /\ ~At(u, "idle")
      BY DEF HoldingIn, HoldPhases, At
    <3>. QED
      BY <3>1, PartOfUpload
  <2>. QED
    BY <2>1, BytesFacts
<1>3. HeldIn(upload) = SumFunctionOnSet(w, H)
  BY DEF HeldIn
<1>4. HeldIn(upload) \in Nat
  <2>. HIDE DEF H, w
  <2>. QED
    BY <1>1, <1>2, <1>3, SumNat DEF NatOn
<1>5. c \in [H -> SUBSET Key] /\ \A u \in H : SumFunctionOnSet(Bytes, c[u]) <= w[u]
  <2>1. ASSUME NEW u \in H PROVE c[u] \subseteq Key /\ SumFunctionOnSet(Bytes, c[u]) <= w[u]
    <3>1. upload[u].key \in Key /\ w[u] = Bytes[upload[u].key] /\ w[u] \in Nat
      BY <1>2
    <3>2. BytesOf({upload[u].key}) = w[u]
      BY <3>1, BytesFacts
    <3>3. c[u] = {upload[u].key}
      OBVIOUS
    <3>. HIDE DEF c, w
    <3>4. SumFunctionOnSet(Bytes, c[u]) = w[u]
      BY <3>2, <3>3 DEF BytesOf
    <3>. QED
      BY <3>1, <3>3, <3>4
  <2>. QED
    BY <2>1
<1>6. NatOn(Bytes, Key) /\ IsFiniteSet(Key)
  BY GuardsAssumption DEF NatOn
<1>7. SumFunctionOnSet(Bytes, UNION {c[u] : u \in H}) <= SumFunctionOnSet(w, H)
  <2>1. NatOn(w, H)
    BY <1>2 DEF NatOn
  <2>. HIDE DEF H, w, c
  <2>. QED
    BY <1>1, <1>5, <1>6, <2>1, SumCover
<1>8. Marking \subseteq UNION {c[u] : u \in H} /\ UNION {c[u] : u \in H} \subseteq Key
  BY <1>2 DEF Marking, HoldingIn, HoldPhases, At
<1>9. BytesOf(Marking) <= HeldIn(upload)
  <2>. DEFINE M == UNION {c[u] : u \in H}
  <2>. HIDE DEF M
  <2>1. Marking \subseteq M /\ M \subseteq Key /\ BytesOf(M) <= HeldIn(upload)
    BY <1>3, <1>7, <1>8 DEF M, BytesOf
  <2>2. BytesOf(Marking) <= BytesOf(M) /\ BytesOf(Marking) \in Nat /\ BytesOf(M) \in Nat
    BY <2>1, BytesFacts
  <2>. QED
    BY <1>4, <2>1, <2>2
<1>10. HeldIn([u \in Upload |-> Unserved]) = 0
  <2>1. HoldingIn([u \in Upload |-> Unserved]) = {}
    BY DEF HoldingIn, HoldPhases, Unserved
  <2>. QED
    BY <2>1, FS_EmptySet, SumRec DEF HeldIn
<1>. QED
  BY <1>4, <1>9, <1>10

(* What requests are on the way with, when one comes or goes. *)
LEMMA OnWayFacts ==
  ASSUME NEW Q \in SUBSET RequestRec, IsFiniteSet(Q)
  PROVE  /\ OnWay(Q) \in Nat
         /\ OnWay({}) = 0
         /\ BytesOf(UNION {q.keys : q \in Q}) <= OnWay(Q)
         /\ \A q \in Q : OnWay(Q) = BytesOf(q.keys) + OnWay(Q \ {q})
         /\ \A q \in RequestRec : IsFiniteSet(Q \cup {q})
             /\ OnWay(Q \cup {q}) <= OnWay(Q) + BytesOf(q.keys)
<1>. DEFINE W(S) == [q \in S |-> BytesOf(q.keys)]
<1>1. \A q \in RequestRec : q.keys \in SUBSET Key /\ BytesOf(q.keys) \in Nat
  BY BytesFacts DEF RequestRec
<1>2. ASSUME NEW S \in SUBSET RequestRec, IsFiniteSet(S)
      PROVE  /\ NatOn(W(S), S) /\ OnWay(S) = SumFunctionOnSet(W(S), S) /\ OnWay(S) \in Nat
             /\ \A T \in SUBSET S : OnWay(T) = SumFunctionOnSet(W(S), T)
  <2>1. NatOn(W(S), S) /\ OnWay(S) = SumFunctionOnSet(W(S), S)
    BY <1>1 DEF NatOn, OnWay
  <2>2. ASSUME NEW T \in SUBSET S PROVE OnWay(T) = SumFunctionOnSet(W(S), T)
    <3>1. OnWay(T) = SumFunctionOnSet(W(T), T)
      BY DEF OnWay
    <3>2. \A q \in T : W(T)[q] = W(S)[q]
      OBVIOUS
    <3>. HIDE DEF W
    <3>3. IsFiniteSet(T) /\ NatOn(W(S), T)
      BY <1>2, <2>1, SumMono
    <3>. QED
      BY <3>1, <3>2, <3>3, SumSame
  <2>. HIDE DEF W
  <2>. QED
    BY <1>2, <2>1, <2>2, SumNat
<1>3. ASSUME NEW q \in Q PROVE OnWay(Q) = BytesOf(q.keys) + OnWay(Q \ {q})
  <2>1. W(Q)[q] = BytesOf(q.keys)
    OBVIOUS
  <2>2. /\ NatOn(W(Q), Q) /\ OnWay(Q) = SumFunctionOnSet(W(Q), Q)
        /\ OnWay(Q \ {q}) = SumFunctionOnSet(W(Q), Q \ {q})
    BY <1>2
  <2>. HIDE DEF W
  <2>3. SumFunctionOnSet(W(Q), Q) = W(Q)[q] + SumFunctionOnSet(W(Q), Q \ {q})
    BY <2>2, SumRemove
  <2>. QED
    BY <2>1, <2>2, <2>3
<1>4. ASSUME NEW q \in RequestRec
      PROVE  IsFiniteSet(Q \cup {q}) /\ OnWay(Q \cup {q}) <= OnWay(Q) + BytesOf(q.keys)
  <2>. DEFINE S == Q \cup {q}
  <2>1. S \in SUBSET RequestRec /\ IsFiniteSet(S) /\ Q \in SUBSET S /\ {q} \in SUBSET S
    BY FS_AddElement
  <2>2. W(S)[q] = BytesOf(q.keys) /\ S = Q \cup {q}
    OBVIOUS
  <2>. HIDE DEF S, W
  <2>3. /\ NatOn(W(S), S) /\ OnWay(S) = SumFunctionOnSet(W(S), S)
        /\ OnWay(Q) = SumFunctionOnSet(W(S), Q)
        /\ OnWay({q}) = SumFunctionOnSet(W(S), {q})
    BY <1>2, <2>1
  <2>4. NatOn(W(S), Q) /\ NatOn(W(S), {q}) /\ IsFiniteSet({q}) /\ W(S)[q] \in Nat
    BY <1>1, <2>1, <2>2, <2>3, FS_Singleton DEF NatOn
  <2>5. SumFunctionOnSet(W(S), Q \cup {q})
          <= SumFunctionOnSet(W(S), Q) + SumFunctionOnSet(W(S), {q})
    BY <2>4, SumUnion
  <2>6. SumFunctionOnSet(W(S), {q}) = W(S)[q]
    BY <2>4, SumInsert
  <2>7. OnWay(S) <= OnWay(Q) + BytesOf(q.keys)
    <3>1. SumFunctionOnSet(W(S), S) = SumFunctionOnSet(W(S), Q \cup {q})
      BY <2>2, Zenon
    <3>. QED
      BY <2>2, <2>3, <2>5, <2>6, <3>1
  <2>. QED
    BY <2>1, <2>7 DEF S
<1>5. BytesOf(UNION {q.keys : q \in Q}) <= OnWay(Q)
  <2>. DEFINE c == [q \in Q |-> q.keys]
  <2>1. c \in [Q -> SUBSET Key] /\ \A q \in Q : SumFunctionOnSet(Bytes, c[q]) <= W(Q)[q]
    <3>1. ASSUME NEW q \in Q
          PROVE  c[q] \in SUBSET Key /\ SumFunctionOnSet(Bytes, c[q]) <= W(Q)[q]
      <4>1. c[q] = q.keys /\ W(Q)[q] = BytesOf(q.keys) /\ BytesOf(q.keys) \in Nat
        BY <1>1
      <4>2. c[q] \in SUBSET Key
        BY <1>1, <4>1
      <4>3. SumFunctionOnSet(Bytes, c[q]) = BytesOf(q.keys)
        BY <4>1, Zenon DEF BytesOf
      <4>. HIDE DEF c, W
      <4>. QED
        BY <4>1, <4>2, <4>3
    <3>. QED
      BY <3>1
  <2>2. UNION {c[q] : q \in Q} = UNION {q.keys : q \in Q}
    OBVIOUS
  <2>3. IsFiniteSet(Key) /\ NatOn(Bytes, Key) /\ NatOn(W(Q), Q)
         /\ OnWay(Q) = SumFunctionOnSet(W(Q), Q)
    BY <1>2, GuardsAssumption DEF NatOn
  <2>. HIDE DEF c, W
  <2>4. SumFunctionOnSet(Bytes, UNION {c[q] : q \in Q}) <= SumFunctionOnSet(W(Q), Q)
    BY <2>1, <2>3, SumCover
  <2>5. BytesOf(UNION {q.keys : q \in Q}) = SumFunctionOnSet(Bytes, UNION {c[q] : q \in Q})
    BY <2>2, Zenon DEF BytesOf
  <2>. QED
    BY <2>3, <2>4, <2>5
<1>6. OnWay({}) = 0
  BY FS_EmptySet, SumRec DEF OnWay
<1>. QED
  BY <1>2, <1>3, <1>4, <1>5, <1>6

(* The keys the ledger counts are finitely many parts. *)
LEMMA LedgerTyped ==
  ASSUME TypeInv, IsFiniteSet(toQueue)
  PROVE  /\ Live \in SUBSET Key /\ Queued \in SUBSET Key /\ Waiting \in SUBSET Key
         /\ Marking \in SUBSET Key /\ Deleted \subseteq Queued
         /\ BytesOf(Live) \in Nat /\ BytesOf(Queued) \in Nat
         /\ HeldIn(upload) \in Nat /\ OnWay(toQueue) \in Nat /\ kvBytes \in Nat
         /\ toQueue \in SUBSET RequestRec
<1>1. Queued \in SUBSET Key
  <2>1. due \in Seq(Key) /\ waiting \subseteq Key
    BY DEF TypeInv, GuardInv, GuardTypeOK
  <2>2. Range(due) \subseteq Key
    BY <2>1, RangeOf
  <2>. QED
    BY <2>1, <2>2 DEF Queued
<1>2. toQueue \in SUBSET RequestRec /\ Waiting \in SUBSET Key
  BY DEF TypeInv, RestTypeOK, RequestRec, Waiting
<1>3. Marking \in SUBSET Key
  BY PartOfUpload DEF Marking, At
<1>4. Live \in SUBSET Key
  BY DEF TypeInv, GuardInv, GuardTypeOK, Live, Uploaded
<1>5. Deleted \subseteq Queued
  BY DEF TypeInv, GuardInv, Deleted, Queued
<1>6. BytesOf(Live) \in Nat /\ BytesOf(Queued) \in Nat
  BY <1>1, <1>4, BytesFacts
<1>7. OnWay(toQueue) \in Nat
  BY <1>2, OnWayFacts
<1>. QED
  BY <1>1, <1>2, <1>3, <1>4, <1>5, <1>6, <1>7, HeldFacts DEF TypeInv, GuardInv, GuardTypeOK

\* The sums of the ledger are numbers,
SumsNat ==
  /\ BytesOf(Live) \in Nat /\ HeldIn(upload) \in Nat /\ BytesOf(Queued) \in Nat
  /\ OnWay(toQueue) \in Nat /\ kvBytes \in Nat

(* and so they are after a step. *)
LEMMA SumsTyped == TypeInv /\ IsFiniteSet(toQueue) => SumsNat
BY LedgerTyped DEF SumsNat

(* The same of the state a step leads to. *)
LEMMA SumsTypedNext == TypeInv' /\ IsFiniteSet(toQueue)' => SumsNat'
BY SumsTyped, PTL

\* The four sums the counter stands for grow by no more than these, and it by no less.
Moves(live, held, queued, onWay, counted) ==
  /\ live \in Int /\ held \in Int /\ queued \in Int /\ onWay \in Int /\ counted \in Int
  /\ BytesOf(Live)' <= BytesOf(Live) + live
  /\ HeldIn(upload)' <= HeldIn(upload) + held
  /\ BytesOf(Queued)' <= BytesOf(Queued) + queued
  /\ OnWay(toQueue)' <= OnWay(toQueue) + onWay
  /\ kvBytes' >= kvBytes + counted

\* What the steps of a vault that nobody deletes start from.
Balanced ==
  /\ TypeInv
  /\ TypeInv'
  /\ IsFiniteSet(toQueue)
  /\ IsFiniteSet(toQueue)'
  /\ Ledger

(* A step that takes no more than it counts keeps the ledger. *)
LEMMA MovesBalance ==
  ASSUME Balanced,
         NEW live, NEW held, NEW queued, NEW onWay, NEW counted,
         Moves(live, held, queued, onWay, counted),
         live + held + queued + onWay <= counted
  PROVE  Ledger'
<1>1. PICK l, h, q, t, b : /\ l = BytesOf(Live)' /\ h = HeldIn(upload)' /\ q = BytesOf(Queued)'
                           /\ t = OnWay(toQueue)' /\ b = kvBytes'
  OBVIOUS
<1>2. l \in Nat /\ h \in Nat /\ q \in Nat /\ t \in Nat /\ b \in Nat
  BY <1>1, SumsTypedNext DEF Balanced, SumsNat
<1>3. /\ BytesOf(Live) \in Nat /\ HeldIn(upload) \in Nat /\ BytesOf(Queued) \in Nat
      /\ OnWay(toQueue) \in Nat /\ kvBytes \in Nat
  BY LedgerTyped DEF Balanced
<1>4. /\ live \in Int /\ held \in Int /\ queued \in Int /\ onWay \in Int /\ counted \in Int
      /\ l <= BytesOf(Live) + live
      /\ h <= HeldIn(upload) + held
      /\ q <= BytesOf(Queued) + queued
      /\ t <= OnWay(toQueue) + onWay
      /\ b >= kvBytes + counted
  BY <1>1 DEF Moves
<1>5. BytesOf(Live) + HeldIn(upload) + BytesOf(Queued) + OnWay(toQueue) <= kvBytes
  BY DEF Balanced, Ledger
<1>6. l + h + q + t <= b
  BY <1>2, <1>3, <1>4, <1>5
<1>. QED
  BY <1>1, <1>6 DEF Ledger

(* The sums that do not grow. *)
LEMMA MovesLess ==
  ASSUME Balanced
  PROVE  /\ Live' \subseteq Live => BytesOf(Live)' <= BytesOf(Live) + 0
         /\ Queued' \subseteq Queued => BytesOf(Queued)' <= BytesOf(Queued) + 0
         /\ UNCHANGED upload => HeldIn(upload)' <= HeldIn(upload) + 0
         /\ UNCHANGED toQueue => OnWay(toQueue)' <= OnWay(toQueue) + 0
         /\ UNCHANGED kvBytes => kvBytes' >= kvBytes + 0
<1>1. /\ Live \in SUBSET Key /\ Queued \in SUBSET Key
      /\ BytesOf(Live) \in Nat /\ HeldIn(upload) \in Nat /\ BytesOf(Queued) \in Nat
      /\ OnWay(toQueue) \in Nat /\ kvBytes \in Nat
  BY LedgerTyped DEF Balanced
<1>2. \A A \in SUBSET Key : \A B \in SUBSET A : BytesOf(B) <= BytesOf(A)
  BY BytesFacts
<1>3. ASSUME Live' \subseteq Live PROVE BytesOf(Live)' <= BytesOf(Live) + 0
  <2>1. PICK A : A = Live'
    OBVIOUS
  <2>2. BytesOf(A) <= BytesOf(Live)
    BY <1>1, <1>2, <1>3, <2>1
  <2>3. BytesOf(A) <= BytesOf(Live) + 0
    BY <1>1, <2>2
  <2>. QED
    BY <2>1, <2>3
<1>4. ASSUME Queued' \subseteq Queued PROVE BytesOf(Queued)' <= BytesOf(Queued) + 0
  <2>1. PICK A : A = Queued'
    OBVIOUS
  <2>2. BytesOf(A) <= BytesOf(Queued)
    BY <1>1, <1>2, <1>4, <2>1
  <2>3. BytesOf(A) <= BytesOf(Queued) + 0
    BY <1>1, <2>2
  <2>. QED
    BY <2>1, <2>3
<1>5. ASSUME UNCHANGED upload PROVE HeldIn(upload)' <= HeldIn(upload) + 0
  <2>1. HeldIn(upload)' = HeldIn(upload)
    BY <1>5 DEF HeldIn, HoldingIn
  <2>. QED
    BY <1>1, <2>1
<1>6. ASSUME UNCHANGED toQueue PROVE OnWay(toQueue)' <= OnWay(toQueue) + 0
  <2>1. OnWay(toQueue)' = OnWay(toQueue)
    BY <1>6 DEF OnWay
  <2>. QED
    BY <1>1, <2>1
<1>7. UNCHANGED kvBytes => kvBytes' >= kvBytes + 0
  BY <1>1
<1>. QED
  BY <1>3, <1>4, <1>5, <1>6, <1>7

(* Steps that move nothing but keys out of the live ones. *)
LEMMA StillBalanced ==
  ASSUME Balanced, Live' \subseteq Live, Queued' \subseteq Queued,
         UNCHANGED <<upload, toQueue, kvBytes>>
  PROVE  Ledger'
<1>1. Moves(0, 0, 0, 0, 0)
  BY MovesLess DEF Moves
<1>. QED
  BY <1>1, MovesBalance

(* Parts the store gives up were live, and now are on the way to the queue. *)
LEMMA GivenUpBalanced ==
  ASSUME Balanced, NEW R, NEW now \in BOOLEAN, GivesUp(R, now)
  PROVE  Ledger'
<1>. DEFINE n == BytesOf(R)
<1>1. /\ R \subseteq Uploaded
      /\ Uploaded' = Uploaded \ R
      /\ toQueue' = toQueue \cup Request(R, now, FALSE)
      /\ UNCHANGED <<kv, kvBytes, waiting, due, purge, upload>>
  BY DEF GivesUp, guardVars
<1>2. R \in SUBSET Live /\ Live \in SUBSET Key /\ R \in SUBSET Key /\ n \in Nat
  <2>1. R \in SUBSET Live /\ Live \in SUBSET Key
    BY <1>1, LedgerTyped DEF Balanced, Live
  <2>. QED
    BY <2>1, BytesFacts
<1>3. UNCHANGED <<Queued, Deleted, Marking>>
  BY <1>1 DEF Queued, Deleted, Marking, At
<1>4. Waiting \cup R \subseteq Waiting'
  <2>1. Waiting \subseteq Waiting'
    BY <1>1 DEF Waiting
  <2>2. ASSUME R # {} PROVE R \subseteq Waiting'
    <3>. DEFINE q == [keys |-> R, now |-> now, wipe |-> FALSE]
    <3>1. q \in toQueue' /\ q.keys = R
      BY <1>1, <2>2 DEF Request
    <3>. HIDE DEF q
    <3>. QED
      BY <3>1 DEF Waiting
  <2>. QED
    BY <2>1, <2>2
<1>5. Live' \subseteq Live \ R
  BY <1>1, <1>3, <1>4 DEF Live
<1>6. BytesOf(Live)' <= BytesOf(Live) + (-n)
  <2>1. PICK A : A = Live'
    OBVIOUS
  <2>2. BytesOf(A) <= BytesOf(Live \ R) /\ BytesOf(Live \ R) = BytesOf(Live) - n
    <3>1. Live \ R \in SUBSET Key /\ A \in SUBSET (Live \ R)
      BY <1>2, <1>5, <2>1
    <3>. QED
      BY <1>2, <3>1, BytesFacts
  <2>3. BytesOf(A) \in Nat /\ BytesOf(Live) \in Nat
    <3>1. A \in SUBSET Key
      BY <1>2, <1>5, <2>1
    <3>. QED
      BY <1>2, <3>1, BytesFacts
  <2>. HIDE DEF n
  <2>4. BytesOf(A) <= BytesOf(Live) + (-n)
    BY <1>2, <2>2, <2>3
  <2>. QED
    BY <2>1, <2>4
<1>7. OnWay(toQueue)' <= OnWay(toQueue) + n
  <2>1. toQueue \in SUBSET RequestRec /\ IsFiniteSet(toQueue) /\ OnWay(toQueue) \in Nat
    BY LedgerTyped DEF Balanced
  <2>2. CASE R = {}
    <3>1. toQueue' = toQueue /\ n = 0
      BY <1>1, <2>2, BytesFacts DEF Request
    <3>. HIDE DEF n
    <3>2. OnWay(toQueue) <= OnWay(toQueue) + n
      BY <2>1, <3>1
    <3>. QED
      BY <3>1, <3>2 DEF OnWay
  <2>3. CASE R # {}
    <3>. DEFINE q == [keys |-> R, now |-> now, wipe |-> FALSE]
    <3>1. q \in RequestRec /\ toQueue' = toQueue \cup {q} /\ q.keys = R
      BY <1>1, <1>2, <2>3 DEF RequestRec, Request
    <3>. HIDE DEF q
    <3>2. OnWay(toQueue \cup {q}) <= OnWay(toQueue) + BytesOf(q.keys)
      BY <2>1, <3>1, OnWayFacts
    <3>3. BytesOf(q.keys) = n
      BY <3>1, Zenon
    <3>. HIDE DEF n
    <3>4. OnWay(toQueue \cup {q}) <= OnWay(toQueue) + n
      BY <3>2, <3>3
    <3>5. OnWay(toQueue)' = OnWay(toQueue \cup {q})
      BY <3>1 DEF OnWay
    <3>. QED
      BY <3>4, <3>5
  <2>. QED
    BY <2>2, <2>3
<1>8. Moves(-n, 0, 0, n, 0)
  <2>1. /\ BytesOf(Queued)' <= BytesOf(Queued) + 0
        /\ HeldIn(upload)' <= HeldIn(upload) + 0
        /\ kvBytes' >= kvBytes + 0
    BY <1>1, <1>3, MovesLess
  <2>. HIDE DEF n
  <2>2. -n \in Int /\ n \in Int
    BY <1>2
  <2>. QED
    BY <1>6, <1>7, <2>1, <2>2 DEF Moves
<1>. HIDE DEF n
<1>9. (-n) + 0 + 0 + n <= 0
  BY <1>2
<1>. QED
  BY <1>8, <1>9, MovesBalance

(* Keys that come to the queue leave the way to it; one that is queued already counts in  *)
(* the queue alone, unless the purge deleted it before: then it is live again.            *)
LEMMA QueuedBalanced ==
  ASSUME Balanced, NEW q \in toQueue, QueuePurge(q)
  PROVE  Ledger'
<1>. DEFINE K == q.keys
            old == K \cap Queued
            n == BytesOf(K)
            m == BytesOf(old)
<1>0. /\ Queued \in SUBSET Key /\ Live \in SUBSET Key /\ Deleted \subseteq Queued
      /\ toQueue \in SUBSET RequestRec /\ IsFiniteSet(toQueue)
      /\ BytesOf(Live) \in Nat /\ BytesOf(Queued) \in Nat /\ OnWay(toQueue) \in Nat
  BY LedgerTyped DEF Balanced
<1>1. /\ K \in SUBSET Key /\ q.now \in BOOLEAN
      /\ toQueue' = toQueue \ {q}
      /\ UNCHANGED <<kv, kvBytes, purge, part, upload>>
  BY <1>0 DEF QueuePurge, Enqueue, RequestRec
<1>2. Queued' = Queued \cup K
  <2>1. GuardTypeOK /\ waiting \cap Range(due) = {}
    BY DEF Balanced, TypeInv, GuardInv
  <2>. QED
    BY <1>1, <2>1, EnqueueAdds DEF QueuePurge
<1>3. n \in Nat /\ m \in Nat /\ BytesOf(K \ old) = n - m /\ old \in SUBSET Key
  <2>1. old \in SUBSET K /\ old \in SUBSET Key
    BY <1>1
  <2>. QED
    BY <1>1, <2>1, BytesFacts
<1>4. UNCHANGED <<Deleted, Marking, Uploaded>>
  BY <1>1 DEF Deleted, Marking, Uploaded, At
<1>5. Live' \subseteq Live \cup old
  <2>1. Waiting \subseteq Waiting' \cup K
    BY <1>1 DEF Waiting
  <2>. QED
    BY <1>0, <1>1, <1>2, <1>4, <2>1 DEF Live
<1>. HIDE DEF n, m
<1>6. BytesOf(Live)' <= BytesOf(Live) + m
  <2>1. PICK A : A = Live'
    OBVIOUS
  <2>2. /\ Live \cup old \in SUBSET Key /\ A \in SUBSET (Live \cup old)
    BY <1>0, <1>3, <1>5, <2>1
  <2>3. /\ BytesOf(A) <= BytesOf(Live \cup old)
        /\ BytesOf(Live \cup old) <= BytesOf(Live) + m
        /\ BytesOf(A) \in Nat /\ BytesOf(Live \cup old) \in Nat
    <3>1. A \in SUBSET Key
      BY <2>2
    <3>. QED
      BY <1>0, <1>3, <2>2, <3>1, BytesFacts DEF m
  <2>4. BytesOf(A) <= BytesOf(Live) + m
    BY <1>0, <1>3, <2>3
  <2>. QED
    BY <2>1, <2>4
<1>7. BytesOf(Queued)' <= BytesOf(Queued) + (n - m)
  <2>1. Queued' = Queued \cup (K \ old)
    BY <1>2
  <2>2. BytesOf(Queued \cup (K \ old)) <= BytesOf(Queued) + BytesOf(K \ old)
    <3>1. K \ old \in SUBSET Key
      BY <1>1
    <3>. QED
      BY <1>0, <3>1, BytesFacts
  <2>3. BytesOf(Queued)' = BytesOf(Queued \cup (K \ old))
    BY <2>1 DEF BytesOf
  <2>4. BytesOf(Queued \cup (K \ old)) <= BytesOf(Queued) + (n - m)
    BY <1>3, <2>2
  <2>. QED
    BY <2>3, <2>4
<1>8. OnWay(toQueue)' <= OnWay(toQueue) + (-n)
  <2>1. OnWay(toQueue) = n + OnWay(toQueue \ {q})
    BY <1>0, OnWayFacts DEF n
  <2>2. OnWay(toQueue \ {q}) \in Nat
    <3>1. toQueue \ {q} \in SUBSET RequestRec /\ IsFiniteSet(toQueue \ {q})
      BY <1>0, FS_Subset
    <3>. QED
      BY <3>1, OnWayFacts
  <2>3. OnWay(toQueue \ {q}) <= OnWay(toQueue) + (-n)
    BY <1>0, <1>3, <2>1, <2>2
  <2>4. OnWay(toQueue)' = OnWay(toQueue \ {q})
    BY <1>1 DEF OnWay
  <2>. QED
    BY <2>3, <2>4
<1>9. Moves(m, 0, n - m, -n, 0)
  <2>1. HeldIn(upload)' <= HeldIn(upload) + 0 /\ kvBytes' >= kvBytes + 0
    BY <1>1, MovesLess
  <2>2. m \in Int /\ n - m \in Int /\ -n \in Int
    BY <1>3
  <2>. QED
    BY <1>6, <1>7, <1>8, <2>1, <2>2 DEF Moves
<1>10. m + 0 + (n - m) + (-n) <= 0
  BY <1>3
<1>. QED
  BY <1>9, <1>10, MovesBalance

(* A restart gives nothing back: what uploads and requests stood for is live now. *)
LEMMA RestartBalanced ==
  ASSUME Balanced, Restart
  PROVE  Ledger'
<1>. DEFINE h == HeldIn(upload)
            t == OnWay(toQueue)
<1>0. /\ Live \in SUBSET Key /\ Waiting \in SUBSET Key /\ Marking \in SUBSET Key
      /\ BytesOf(Live) \in Nat /\ h \in Nat /\ t \in Nat
      /\ toQueue \in SUBSET RequestRec /\ IsFiniteSet(toQueue)
  BY LedgerTyped DEF Balanced
<1>1. /\ upload' = [u \in Upload |-> Unserved]
      /\ toQueue' = {}
      /\ UNCHANGED <<kv, kvBytes, waiting, due, purge, part>>
  BY DEF Restart, guardVars
<1>2. UNCHANGED <<Queued, Deleted, Uploaded>>
  BY <1>1 DEF Queued, Deleted, Uploaded
<1>3. Live' \subseteq Live \cup (Marking \cup Waiting)
  BY <1>1, <1>2 DEF Live
<1>4. BytesOf(Marking) <= h /\ BytesOf(Waiting) <= t
  BY <1>0, HeldFacts, OnWayFacts DEF Balanced, Waiting
<1>. HIDE DEF h, t
<1>5. BytesOf(Live)' <= BytesOf(Live) + (h + t)
  <2>1. PICK A : A = Live'
    OBVIOUS
  <2>. DEFINE B == Marking \cup Waiting
  <2>2. /\ B \in SUBSET Key /\ Live \cup B \in SUBSET Key
         /\ A \in SUBSET (Live \cup B) /\ A \in SUBSET Key
    BY <1>0, <1>3, <2>1
  <2>3. BytesOf(B) <= BytesOf(Marking) + BytesOf(Waiting)
    BY <1>0, BytesFacts
  <2>. HIDE DEF B
  <2>4. /\ BytesOf(A) <= BytesOf(Live \cup B)
        /\ BytesOf(Live \cup B) <= BytesOf(Live) + BytesOf(B)
        /\ BytesOf(A) \in Nat /\ BytesOf(Live \cup B) \in Nat /\ BytesOf(B) \in Nat
        /\ BytesOf(Marking) \in Nat /\ BytesOf(Waiting) \in Nat
    BY <1>0, <2>2, BytesFacts
  <2>5. BytesOf(A) <= BytesOf(Live) + (h + t)
    BY <1>0, <1>4, <2>3, <2>4
  <2>. QED
    BY <2>1, <2>5
<1>6. HeldIn(upload)' <= HeldIn(upload) + (-h)
  <2>1. HeldIn([u \in Upload |-> Unserved]) = 0
    BY HeldFacts DEF Balanced
  <2>2. HeldIn(upload)' = HeldIn([u \in Upload |-> Unserved])
    BY <1>1 DEF HeldIn, HoldingIn
  <2>3. 0 <= HeldIn(upload) + (-h)
    BY <1>0 DEF h
  <2>. QED
    BY <2>1, <2>2, <2>3
<1>7. OnWay(toQueue)' <= OnWay(toQueue) + (-t)
  <2>1. OnWay({}) = 0
    BY <1>0, OnWayFacts
  <2>2. OnWay(toQueue)' = OnWay({})
    BY <1>1 DEF OnWay
  <2>3. 0 <= OnWay(toQueue) + (-t)
    BY <1>0 DEF t
  <2>. QED
    BY <2>1, <2>2, <2>3
<1>8. Moves(h + t, -h, 0, -t, 0)
  <2>1. BytesOf(Queued)' <= BytesOf(Queued) + 0 /\ kvBytes' >= kvBytes + 0
    BY <1>1, <1>2, MovesLess
  <2>2. h + t \in Int /\ -h \in Int /\ -t \in Int
    BY <1>0
  <2>. QED
    BY <1>5, <1>6, <1>7, <2>1, <2>2 DEF Moves
<1>9. (h + t) + (-h) + 0 + (-t) <= 0
  BY <1>0
<1>. QED
  BY <1>8, <1>9, MovesBalance

(* The purge: what it has deleted stays in the ledger as queued until it settles, and a   *)
(* run that fails leaves it there.                                                        *)
LEMMA PurgeBalanced ==
  ASSUME Balanced,
         \/ \E k \in Key : PurgeDelete(k)
         \/ PurgeSelect \/ PurgeSettle \/ PurgeFails \/ GuardsNewDay
         \/ \E k \in Key : RetentionEnds(k),
         UNCHANGED <<part, upload, toQueue>>
  PROVE  Ledger'
<1>0. /\ due \in Seq(Key) /\ waiting \cap Range(due) = {} /\ purge.picked \subseteq Range(due)
      /\ purge \in [picked: SUBSET Key, left: SUBSET Key, today: BOOLEAN]
  BY DEF Balanced, TypeInv, GuardInv, GuardTypeOK
<1>1. UNCHANGED <<Uploaded, Waiting, Marking>>
  BY DEF Uploaded, Waiting, Marking, At
<1>2. ASSUME NEW k \in Key, PurgeDelete(k) PROVE Ledger'
  <2>1. /\ kv' = kv \ {k}
        /\ purge'.picked = purge.picked /\ purge'.left = purge.left \ {k}
        /\ UNCHANGED <<kvBytes, waiting, due>>
    BY <1>0, <1>2 DEF PurgeDelete
  <2>2. Queued' = Queued /\ Live' \subseteq Live
    BY <1>1, <2>1 DEF Queued, Deleted, Live
  <2>. QED
    BY <2>1, <2>2, StillBalanced
<1>3. ASSUME PurgeSelect \/ PurgeFails \/ GuardsNewDay PROVE Ledger'
  <2>1. UNCHANGED <<kv, kvBytes, waiting, due>>
    BY <1>3 DEF PurgeSelect, PurgeFails, GuardsNewDay
  <2>2. Deleted' \subseteq Deleted
    BY <1>0, <1>3 DEF PurgeSelect, PurgeFails, GuardsNewDay, NoPurge, Deleted
  <2>3. Queued' = Queued /\ Live' \subseteq Live
    BY <1>1, <2>1, <2>2 DEF Queued, Live
  <2>. QED
    BY <2>1, <2>3, StillBalanced
<1>4. ASSUME NEW k \in Key, RetentionEnds(k) PROVE Ledger'
  <2>1. /\ k \in waiting /\ waiting' = waiting \ {k} /\ due' = Append(due, k)
        /\ UNCHANGED <<kv, kvBytes, purge>>
    BY <1>4 DEF RetentionEnds
  <2>2. Range(due') = Range(due) \cup {k}
    BY <1>0, <2>1, RangeOf
  <2>3. Queued' = Queued
    BY <2>1, <2>2 DEF Queued
  <2>4. Live' \subseteq Live
    BY <1>1, <2>1, <2>3 DEF Deleted, Live
  <2>. QED
    BY <2>1, <2>3, <2>4, StillBalanced
<1>5. ASSUME PurgeSettle PROVE Ledger'
  <2>. DEFINE n == BytesOf(purge.picked)
  <2>1. /\ purge.left = {}
        /\ due' = Without(due, purge.picked)
        /\ kvBytes' = Lowered(n)
        /\ purge' = NoPurge
        /\ UNCHANGED <<kv, waiting>>
    BY <1>5 DEF PurgeSettle
  <2>2. Queued' = Queued \ purge.picked
    <3>1. Range(due') = Range(due) \ purge.picked
      BY <1>0, <2>1, RangeWithout
    <3>. QED
      BY <1>0, <2>1, <3>1 DEF Queued
  <2>3. Live' \subseteq Live
    BY <1>1, <2>1, <2>2 DEF Deleted, Live, NoPurge
  <2>4. /\ purge.picked \in SUBSET Queued /\ Queued \in SUBSET Key /\ n \in Nat
        /\ BytesOf(Queued) \in Nat /\ kvBytes \in Nat
    <3>1. purge.picked \in SUBSET Queued /\ Queued \in SUBSET Key
      BY <1>0, LedgerTyped DEF Balanced, Queued
    <3>2. purge.picked \in SUBSET Key
      BY <3>1
    <3>. QED
      BY <3>1, <3>2, LedgerTyped, BytesFacts DEF Balanced
  <2>5. BytesOf(Queued)' <= BytesOf(Queued) + (-n)
    <3>1. BytesOf(Queued \ purge.picked) = BytesOf(Queued) - n
      BY <2>4, BytesFacts
    <3>. HIDE DEF n
    <3>2. BytesOf(Queued \ purge.picked) <= BytesOf(Queued) + (-n)
      BY <2>4, <3>1
    <3>3. BytesOf(Queued)' = BytesOf(Queued \ purge.picked)
      BY <2>2 DEF BytesOf
    <3>. QED
      BY <3>2, <3>3
  <2>. HIDE DEF n
  <2>6. kvBytes' >= kvBytes + (-n)
    BY <2>1, <2>4 DEF Lowered
  <2>7. Moves(0, 0, -n, 0, -n)
    <3>1. /\ BytesOf(Live)' <= BytesOf(Live) + 0
          /\ HeldIn(upload)' <= HeldIn(upload) + 0
          /\ OnWay(toQueue)' <= OnWay(toQueue) + 0
      BY <2>3, MovesLess
    <3>2. -n \in Int
      BY <2>4
    <3>. QED
      BY <2>5, <2>6, <3>1, <3>2 DEF Moves
  <2>8. 0 + 0 + (-n) + 0 <= -n
    BY <2>4
  <2>. QED
    BY <2>7, <2>8, MovesBalance
<1>. QED
  BY <1>2, <1>3, <1>4, <1>5

(* A part is counted from the bytes its upload took to the row it marks. *)
LEMMA UploadBalanced ==
  ASSUME Balanced, NEW u \in Upload, UploadStep(u)
  PROVE  Ledger'
<1>. DEFINE k == upload[u].key
            n == Bytes[k]
<1>0. /\ TypeInv /\ ~At(u, "idle") /\ k \in Key /\ n \in Nat /\ kvBytes \in Nat
      /\ Live \in SUBSET Key /\ BytesOf(Live) \in Nat /\ HeldIn(upload) \in Nat
      /\ BytesOf({k}) = n
  <2>1. ~At(u, "idle")
    BY DEF UploadStep, UploadBytes, UploadRefused, UploadWrite, UploadDeferred, UploadBack,
           UploadPut, UploadFails, UploadMark, At
  <2>2. k \in Key
    BY <2>1, PartOfUpload DEF Balanced
  <2>. QED
    BY <2>1, <2>2, LedgerTyped, BytesFacts DEF Balanced
<1>1. UNCHANGED <<waiting, due, purge, toQueue>>
  BY DEF UploadStep, UploadBytes, UploadRefused, UploadWrite, UploadDeferred, UploadBack,
         UploadPut, UploadFails, UploadMark, TakeBytes, TakeWrite, GiveBack, KvPut, guardVars
<1>2. UNCHANGED <<Queued, Deleted, Waiting>>
  BY <1>1 DEF Queued, Deleted, Waiting
<1>3. /\ BytesOf(Queued)' <= BytesOf(Queued) + 0
      /\ OnWay(toQueue)' <= OnWay(toQueue) + 0
      /\ UNCHANGED kvBytes => kvBytes' >= kvBytes + 0
      /\ Live' \subseteq Live => BytesOf(Live)' <= BytesOf(Live) + 0
  BY <1>1, <1>2, MovesLess
<1>4. ASSUME NEW phase \in Phase, Goto(u, phase)
      PROVE  /\ phase \in HoldPhases => upload'[u].key = k
             /\ \A v \in Upload \ {u} : upload'[v] = upload[v]
             /\ upload'[u].phase = phase
             /\ \E rest \in Nat :
                  /\ HeldIn(upload) = rest + IF upload[u].phase \in HoldPhases THEN n ELSE 0
                  /\ HeldIn(upload)' = rest + IF phase \in HoldPhases THEN n ELSE 0
  <2>1. /\ \A v \in Upload : upload'[v].key = None <=> upload'[v].phase = "idle"
        /\ upload' \in [Upload -> UploadRec]
        /\ \A v \in Upload \ {u} : upload'[v] = upload[v]
        /\ upload'[u] = IF phase = "idle" THEN Unserved ELSE [phase |-> phase, key |-> k]
    BY <1>0, <1>4, GotoTyped DEF At
  <2>2. upload'[u].phase = phase /\ (phase \in HoldPhases => upload'[u].key = k)
    BY <2>1 DEF Unserved, HoldPhases
  <2>3. \A v \in Upload : /\ upload[v].phase # "idle" => upload[v].key \in Key
                          /\ upload'[v].phase # "idle" => upload'[v].key \in Key
    <3>1. \A v \in Upload : upload[v].phase # "idle" => upload[v].key \in Key
      BY <1>0, PartOfUpload DEF At
    <3>. QED
      BY <2>1, <3>1 DEF UploadRec
  <2>4. \E rest \in Nat :
           /\ HeldIn(upload) = rest + IF upload[u].phase \in HoldPhases THEN n ELSE 0
           /\ HeldIn(upload') = rest + IF upload'[u].phase \in HoldPhases
                                        THEN Bytes[upload'[u].key] ELSE 0
    BY <2>1, <2>3, HeldMove
  <2>5. HeldIn(upload)' = HeldIn(upload')
    BY DEF HeldIn, HoldingIn
  <2>6. (IF upload'[u].phase \in HoldPhases THEN Bytes[upload'[u].key] ELSE 0)
          = IF phase \in HoldPhases THEN n ELSE 0
    BY <2>2
  <2>. QED
    BY <2>1, <2>2, <2>4, <2>5, <2>6
<1>. HIDE DEF n
\* Live keys, when the upload neither stores nor marks.
<1>5. ASSUME NEW phase \in Phase, Goto(u, phase), UNCHANGED <<kv, part>>, ~At(u, "mark")
      PROVE  BytesOf(Live)' <= BytesOf(Live) + 0
  <2>1. Marking \subseteq Marking'
    BY <1>4, <1>5 DEF Marking, At
  <2>2. Live' \subseteq Live
    BY <1>2, <1>5, <2>1 DEF Live, Uploaded
  <2>. QED
    BY <1>3, <2>2
<1>6. ASSUME UploadBytes(u) PROVE Ledger'
  <2>1. /\ upload[u].phase = "bytes" /\ Goto(u, "write") /\ UNCHANGED <<kv, part>>
        /\ kvBytes' = kvBytes + n
    BY <1>6 DEF UploadBytes, TakeBytes, At, storeVars, n
  <2>2. PICK rest \in Nat :
           /\ HeldIn(upload) = rest + IF "bytes" \in HoldPhases THEN n ELSE 0
           /\ HeldIn(upload)' = rest + IF "write" \in HoldPhases THEN n ELSE 0
    BY <1>4, <2>1 DEF Phase
  <2>3. HeldIn(upload)' <= HeldIn(upload) + n
    BY <1>0, <2>2 DEF HoldPhases
  <2>4. BytesOf(Live)' <= BytesOf(Live) + 0
    BY <1>5, <2>1 DEF At, Phase
  <2>5. Moves(0, n, 0, 0, n)
    BY <1>0, <1>3, <2>1, <2>3, <2>4 DEF Moves
  <2>. QED
    BY <1>0, <2>5, MovesBalance
<1>7. ASSUME UploadRefused(u) \/ UploadWrite(u) \/ UploadDeferred(u) \/ UploadFails(u)
      PROVE  Ledger'
  <2>1. PICK phase \in Phase :
          /\ Goto(u, phase)
          /\ upload[u].phase \in HoldPhases <=> phase \in HoldPhases
    BY <1>7 DEF UploadRefused, UploadWrite, UploadDeferred, UploadFails, At, HoldPhases, Phase
  <2>2. UNCHANGED <<kv, part, kvBytes>> /\ ~At(u, "mark")
    BY <1>7 DEF UploadRefused, UploadWrite, UploadDeferred, UploadFails, TakeWrite, At, storeVars,
                guardVars
  <2>3. PICK rest \in Nat :
           /\ HeldIn(upload) = rest + IF upload[u].phase \in HoldPhases THEN n ELSE 0
           /\ HeldIn(upload)' = rest + IF phase \in HoldPhases THEN n ELSE 0
    BY <1>4, <2>1
  <2>4. HeldIn(upload)' <= HeldIn(upload) + 0
    BY <1>0, <2>1, <2>3
  <2>5. BytesOf(Live)' <= BytesOf(Live) + 0
    BY <1>5, <2>1, <2>2
  <2>6. Moves(0, 0, 0, 0, 0)
    BY <1>3, <2>2, <2>4, <2>5 DEF Moves
  <2>. QED
    BY <2>6, MovesBalance
<1>8. ASSUME UploadBack(u) PROVE Ledger'
  <2>1. /\ upload[u].phase = "back" /\ Goto(u, "idle") /\ UNCHANGED <<kv, part>>
        /\ kvBytes' = Lowered(n)
    BY <1>8 DEF UploadBack, GiveBack, At, storeVars, n
  <2>2. PICK rest \in Nat :
           /\ HeldIn(upload) = rest + IF "back" \in HoldPhases THEN n ELSE 0
           /\ HeldIn(upload)' = rest + IF "idle" \in HoldPhases THEN n ELSE 0
    BY <1>4, <2>1 DEF Phase
  <2>3. HeldIn(upload)' <= HeldIn(upload) + (-n)
    BY <1>0, <2>2 DEF HoldPhases
  <2>4. BytesOf(Live)' <= BytesOf(Live) + 0
    BY <1>5, <2>1 DEF At, Phase
  <2>5. kvBytes' >= kvBytes + (-n) /\ -n \in Int
    BY <1>0, <2>1 DEF Lowered
  <2>6. Moves(0, -n, 0, 0, -n)
    BY <1>3, <2>3, <2>4, <2>5 DEF Moves
  <2>7. 0 + (-n) + 0 + 0 <= -n
    BY <1>0
  <2>. QED
    BY <2>6, <2>7, MovesBalance
<1>9. ASSUME UploadPut(u) PROVE Ledger'
  <2>1. /\ upload[u].phase = "put" /\ Goto(u, "mark") /\ kv' = kv \cup {k}
        /\ UNCHANGED <<part, kvBytes>>
    BY <1>9 DEF UploadPut, KvPut, At, storeVars
  <2>2. PICK rest \in Nat :
           /\ HeldIn(upload) = rest + IF "put" \in HoldPhases THEN n ELSE 0
           /\ HeldIn(upload)' = rest + IF "mark" \in HoldPhases THEN n ELSE 0
    BY <1>4, <2>1 DEF Phase
  <2>3. HeldIn(upload)' <= HeldIn(upload) + 0
    BY <1>0, <2>2 DEF HoldPhases
  <2>4. Marking \cup {k} \subseteq Marking'
    <3>1. /\ upload'[u].key = k /\ upload'[u].phase = "mark"
          /\ \A v \in Upload \ {u} : upload'[v] = upload[v]
      BY <1>4, <2>1 DEF Phase, HoldPhases
    <3>. QED
      BY <2>1, <3>1 DEF Marking, At
  <2>5. Live' \subseteq Live
    BY <1>2, <2>1, <2>4 DEF Live, Uploaded
  <2>6. Moves(0, 0, 0, 0, 0)
    BY <1>3, <2>1, <2>3, <2>5 DEF Moves
  <2>. QED
    BY <2>6, MovesBalance
<1>10. ASSUME UploadMark(u) PROVE Ledger'
  <2>1. /\ upload[u].phase = "mark" /\ Goto(u, "idle") /\ UNCHANGED <<kv, kvBytes>>
    BY <1>10 DEF UploadMark, At, guardVars
  <2>2. PICK rest \in Nat :
           /\ HeldIn(upload) = rest + IF "mark" \in HoldPhases THEN n ELSE 0
           /\ HeldIn(upload)' = rest + IF "idle" \in HoldPhases THEN n ELSE 0
    BY <1>4, <2>1 DEF Phase
  <2>3. HeldIn(upload)' <= HeldIn(upload) + (-n) /\ -n \in Int
    BY <1>0, <2>2 DEF HoldPhases
  <2>4. Marking \subseteq Marking' \cup {k}
    <3>1. \A v \in Upload \ {u} : upload'[v] = upload[v]
      BY <1>4, <2>1 DEF Phase
    <3>. QED
      BY <3>1 DEF Marking, At
  <2>5. Uploaded' \subseteq Uploaded \cup {k}
    BY <1>0, <1>10, MarkRows
  <2>6. Live' \subseteq Live \cup {k}
    BY <1>2, <2>1, <2>4, <2>5 DEF Live
  <2>7. BytesOf(Live)' <= BytesOf(Live) + n
    <3>1. PICK A : A = Live'
      OBVIOUS
    <3>2. /\ A \in SUBSET Key /\ A \in SUBSET (Live \cup {k}) /\ Live \cup {k} \in SUBSET Key
          /\ {k} \in SUBSET Key
      BY <1>0, <2>6, <3>1
    <3>3. /\ BytesOf(A) <= BytesOf(Live \cup {k})
          /\ BytesOf(Live \cup {k}) <= BytesOf(Live) + BytesOf({k})
          /\ BytesOf(A) \in Nat /\ BytesOf(Live \cup {k}) \in Nat
      BY <1>0, <3>2, BytesFacts
    <3>4. BytesOf(A) <= BytesOf(Live) + n
      BY <1>0, <3>3
    <3>. QED
      BY <3>1, <3>4
  <2>8. Moves(n, -n, 0, 0, 0)
    BY <1>0, <1>3, <2>1, <2>3, <2>7 DEF Moves
  <2>9. n + (-n) + 0 + 0 <= 0
    BY <1>0
  <2>. QED
    BY <2>8, <2>9, MovesBalance
<1>. QED
  BY <1>6, <1>7, <1>8, <1>9, <1>10 DEF UploadStep

(* The requests on the way stay finitely many. *)
LEMMA RequestsFinite ==
  ASSUME IsFiniteSet(toQueue), [PacksNext]_packVars
  PROVE  IsFiniteSet(toQueue)'
<1>1. \E new : IsFiniteSet(new) /\ toQueue' \subseteq toQueue \cup new
  <2>1. IsFiniteSet({}) /\ \A q : IsFiniteSet({q})
    BY FS_EmptySet, FS_Singleton
  <2>2. \A keys, now, deleting : IsFiniteSet(Request(keys, now, deleting))
    BY <2>1 DEF Request
  <2>3. CASE \E p \in Pack : Reserve(p)
    BY <2>2, <2>3 DEF Reserve
  <2>4. CASE \E p \in Pack : Commit(p)
    BY <2>2, <2>4 DEF Commit
  <2>5. CASE WipeBegin
    BY <2>2, <2>5 DEF WipeBegin
  <2>6. CASE ~(\E p \in Pack : Reserve(p) \/ Commit(p)) /\ ~WipeBegin
    <3>1. toQueue' \subseteq toQueue
      BY <2>6 DEF PacksNext, SaveDisc, DeleteDisc, ReservationStales, UploadBegin, UploadStep,
             UploadBytes, UploadRefused, UploadWrite, UploadDeferred, UploadBack, UploadPut,
             UploadFails, UploadMark, WipeEnd, QueuePurge, Restart, CronFails, PacksNewDay, Cron,
             storeVars, requestVars, packVars
    <3>. QED
      BY <2>1, <3>1
  <2>. QED
    BY <2>3, <2>4, <2>5, <2>6
<1>. QED
  BY <1>1, FS_Union, FS_Subset

(* Every step of a vault that nobody deletes keeps the ledger, and no step takes the      *)
(* deletion of an account back.                                                           *)
LEMMA LedgerStep ==
  ASSUME TypeInv, TypeInv', LedgerInv, [PacksNext]_packVars
  PROVE  LedgerInv'
<1>1. IsFiniteSet(toQueue)'
  BY RequestsFinite DEF LedgerInv
<1>2. SUFFICES ASSUME wipe' = "none" PROVE Ledger'
  BY <1>1 DEF LedgerInv
<1>3. wipe = "none" /\ ~WipeBegin /\ ~WipeEnd
  BY <1>2 DEF PacksNext, SaveDisc, DeleteDisc, Reserve, Commit, ReservationStales, UploadBegin,
         UploadStep, UploadBytes, UploadRefused, UploadWrite, UploadDeferred, UploadBack, UploadPut,
         UploadFails, UploadMark, WipeBegin, WipeEnd, DatabaseDeleted, QueuePurge, Restart,
         CronFails, PacksNewDay, Cron, storeVars, requestVars, packVars
<1>4. Balanced
  BY <1>1, <1>3 DEF Balanced, LedgerInv
<1>5. ASSUME NEW p \in Pack, Reserve(p) \/ Commit(p) PROVE Ledger'
  BY <1>4, <1>5, ReserveRows, CommitRows, GivenUpBalanced
<1>6. ASSUME NEW u \in Upload, NEW k \in Key, UploadBegin(u, k) PROVE Ledger'
  <2>1. /\ upload[u].phase = "idle"
         /\ upload' = [upload EXCEPT ![u] = [phase |-> "bytes", key |-> k]]
        /\ UNCHANGED <<guardVars, part, toQueue>>
    BY <1>6 DEF UploadBegin, At, storeVars
  <2>2. upload \in [Upload -> UploadRec]
    BY DEF TypeInv, RestTypeOK
  <2>3. /\ \A v \in Upload \ {u} : upload'[v] = upload[v]
        /\ upload'[u] = [phase |-> "bytes", key |-> k]
    BY <2>1, <2>2
  <2>4. \A v \in Upload : /\ upload[v].phase # "idle" => upload[v].key \in Key
                          /\ upload'[v].phase # "idle" => upload'[v].key \in Key
    BY <2>3, PartOfUpload DEF At
  <2>5. PICK rest \in Nat : HeldIn(upload) = rest + 0 /\ HeldIn(upload') = rest + 0
    <3>1. upload[u].phase \notin HoldPhases /\ upload'[u].phase \notin HoldPhases
      BY <2>1, <2>3 DEF HoldPhases
    <3>2. \E rest \in Nat :
             /\ HeldIn(upload) =
                  rest + IF upload[u].phase \in HoldPhases THEN Bytes[upload[u].key] ELSE 0
             /\ HeldIn(upload') =
                  rest + IF upload'[u].phase \in HoldPhases THEN Bytes[upload'[u].key] ELSE 0
      BY <2>3, <2>4, HeldMove
    <3>. QED
      BY <3>1, <3>2
  <2>6. HeldIn(upload)' = HeldIn(upload')
    BY DEF HeldIn, HoldingIn
  <2>7. HeldIn(upload)' <= HeldIn(upload) + 0
    BY <2>5, <2>6
  <2>8. UNCHANGED <<Queued, Deleted, Waiting, Uploaded, Marking, kv, kvBytes, toQueue>>
    <3>1. {v \in Upload : At(v, "mark")}' = {v \in Upload : At(v, "mark")}
      BY <2>1, <2>3 DEF At
    <3>2. u \notin {v \in Upload : At(v, "mark")}
      BY <2>1 DEF At
    <3>3. Marking' = Marking
      BY <2>3, <3>1, <3>2 DEF Marking
    <3>. QED
      BY <2>1, <3>3 DEF guardVars, Queued, Deleted, Waiting, Uploaded
  <2>9. Moves(0, 0, 0, 0, 0)
    <3>1. Live' \subseteq Live
      BY <2>8 DEF Live
    <3>. QED
      BY <1>4, <2>7, <2>8, <3>1, MovesLess DEF Moves
  <2>. QED
    BY <1>4, <2>9, MovesBalance
<1>7. ASSUME NEW u \in Upload, UploadStep(u) PROVE Ledger'
  BY <1>4, <1>7, UploadBalanced
<1>8. ASSUME NEW q \in toQueue, QueuePurge(q) PROVE Ledger'
  BY <1>4, <1>8, QueuedBalanced
<1>9. CASE Restart
  BY <1>4, <1>9, RestartBalanced
<1>10. CASE Cron \/ CronFails \/ PacksNewDay
  <2>1. UNCHANGED <<part, upload, toQueue>>
    BY <1>10 DEF Cron, CronFails, PacksNewDay, storeVars, requestVars
  <2>. QED
    BY <1>4, <1>10, <2>1, PurgeBalanced DEF Cron, CronStep, CronFails, PacksNewDay
<1>11. CASE \/ \E d \in Disc : SaveDisc(d) \/ DeleteDisc(d)
            \/ \E p \in Pack : ReservationStales(p)
            \/ UNCHANGED packVars
  <2>1. UNCHANGED <<guardVars, part, upload, toQueue>>
    BY <1>11 DEF SaveDisc, DeleteDisc, ReservationStales, packVars, storeVars, requestVars
  <2>2. UNCHANGED <<Queued, Live, kvBytes, upload, toQueue>>
    BY <2>1 DEF guardVars, Queued, Deleted, Waiting, Uploaded, Marking, At, Live
  <2>. QED
    BY <1>4, <2>2, StillBalanced
<1>. QED
  BY <1>3, <1>5, <1>6, <1>7, <1>8, <1>9, <1>10, <1>11 DEF PacksNext

(* It is balanced at the start. *)
LEMMA LedgerInit ==
  ASSUME PacksInit
  PROVE  LedgerInv
<1>1. toQueue = {} /\ IsFiniteSet(toQueue) /\ kvBytes = 0
  BY FS_EmptySet DEF PacksInit, GuardInit
<1>2. Live = {} /\ Queued = {}
  BY DEF PacksInit, GuardInit, Live, Uploaded, Queued, Range
<1>3. HeldIn(upload) = 0
  <2>1. HeldIn([u \in Upload |-> Unserved]) = 0
    BY TypeInit, HeldFacts
  <2>. QED
    BY <2>1 DEF PacksInit
<1>4. OnWay(toQueue) = 0
  BY <1>1, OnWayFacts
<1>5. BytesOf(Live) = 0 /\ BytesOf(Queued) = 0
  BY <1>2, BytesFacts
<1>6. Ledger
  BY <1>1, <1>3, <1>4, <1>5 DEF Ledger
<1>. QED
  BY <1>1, <1>6 DEF LedgerInv

(* What KV holds is live, queued, on the way to the queue or being marked; what uploads   *)
(* may still store is held.                                                               *)
LEMMA LedgerCovers ==
  ASSUME TypeInv, LedgerInv
  PROVE  GuardHolds
<1>. SUFFICES ASSUME wipe = "none"
             PROVE  BytesOf(kv) + SumFunctionOnSet([u \in Taken |-> Bytes[upload[u].key]], Taken)
                     <= kvBytes
  BY DEF GuardHolds, TypeInv, GuardInv
<1>. DEFINE M == {v \in Upload : At(v, "mark")}
            w == [u \in HoldingIn(upload) |-> Bytes[upload[u].key]]
            t == SumFunctionOnSet([u \in Taken |-> Bytes[upload[u].key]], Taken)
            m == SumFunctionOnSet([u \in M |-> Bytes[upload[u].key]], M)
            c == [u \in M |-> {upload[u].key}]
<1>0. /\ Live \in SUBSET Key /\ Queued \in SUBSET Key /\ Waiting \in SUBSET Key
      /\ Marking \in SUBSET Key /\ kv \in SUBSET Key
      /\ BytesOf(Live) \in Nat /\ BytesOf(Queued) \in Nat
      /\ HeldIn(upload) \in Nat /\ OnWay(toQueue) \in Nat /\ kvBytes \in Nat
      /\ toQueue \in SUBSET RequestRec /\ IsFiniteSet(toQueue)
  BY LedgerTyped DEF LedgerInv, TypeInv, GuardInv, GuardTypeOK
<1>1. HoldingIn(upload) = Taken \cup M /\ Taken \cap M = {}
  BY DEF HoldingIn, HoldPhases, Taken, At
<1>2. /\ IsFiniteSet(HoldingIn(upload))
      /\ \A u \in HoldingIn(upload) : upload[u].key \in Key /\ w[u] = Bytes[upload[u].key]
         /\ w[u] \in Nat
  <2>1. IsFiniteSet(HoldingIn(upload))
    BY PacksAssumption, FS_Subset DEF HoldingIn
  <2>2. \A u \in HoldingIn(upload) : upload[u].key \in Key
    BY PartOfUpload DEF HoldingIn, HoldPhases, At
  <2>. QED
    BY <2>1, <2>2, BytesFacts
<1>3. HeldIn(upload) = t + m /\ t \in Nat /\ m \in Nat
  <2>1. /\ IsFiniteSet(Taken) /\ IsFiniteSet(M)
        /\ NatOn(w, Taken) /\ NatOn(w, M)
    BY <1>1, <1>2, FS_Subset DEF NatOn
  <2>2. t = SumFunctionOnSet(w, Taken)
    <3>1. \A u \in Taken : [v \in Taken |-> Bytes[upload[v].key]][u] = w[u]
      BY <1>1
    <3>. HIDE DEF w
    <3>. QED
      BY <2>1, <3>1, SumSame
  <2>3. m = SumFunctionOnSet(w, M)
    <3>1. \A u \in M : [v \in M |-> Bytes[upload[v].key]][u] = w[u]
      BY <1>1
    <3>. HIDE DEF w, M
    <3>. QED
      BY <2>1, <3>1, SumSame
  <2>4. HeldIn(upload) = SumFunctionOnSet(w, HoldingIn(upload))
    BY DEF HeldIn
  <2>. HIDE DEF w, M, t, m
  <2>5. SumFunctionOnSet(w, Taken \cup M) = SumFunctionOnSet(w, Taken) + SumFunctionOnSet(w, M)
    BY <1>1, <2>1, SumDisjoint
  <2>6. SumFunctionOnSet(w, HoldingIn(upload)) = SumFunctionOnSet(w, Taken \cup M)
    BY <1>1, Zenon
  <2>7. SumFunctionOnSet(w, Taken) \in Nat /\ SumFunctionOnSet(w, M) \in Nat
    BY <2>1, SumNat
  <2>. QED
    BY <2>2, <2>3, <2>4, <2>5, <2>6, <2>7
<1>4. BytesOf(Marking) <= m
  <2>1. c \in [M -> SUBSET Key]
    BY <1>1, <1>2
  <2>. DEFINE v == [u \in M |-> Bytes[upload[u].key]]
  <2>2. \A u \in M : SumFunctionOnSet(Bytes, c[u]) <= v[u] /\ v[u] \in Nat
    <3>1. ASSUME NEW u \in M PROVE SumFunctionOnSet(Bytes, c[u]) <= v[u] /\ v[u] \in Nat
      <4>1. upload[u].key \in Key /\ c[u] = {upload[u].key} /\ v[u] = Bytes[upload[u].key]
        BY <1>1, <1>2
      <4>2. BytesOf({upload[u].key}) = v[u] /\ v[u] \in Nat
        BY <4>1, BytesFacts
      <4>. HIDE DEF c, v
      <4>3. SumFunctionOnSet(Bytes, c[u]) = v[u]
        BY <4>1, <4>2 DEF BytesOf
      <4>. QED
        BY <4>2, <4>3
    <3>. QED
      BY <3>1
  <2>3. Marking = UNION {c[u] : u \in M}
    BY DEF Marking
  <2>4. IsFiniteSet(Key) /\ NatOn(Bytes, Key) /\ IsFiniteSet(M) /\ NatOn(v, M)
    <3>1. IsFiniteSet(M)
      BY <1>1, <1>2, FS_Subset
    <3>. QED
      BY <2>2, <3>1, GuardsAssumption DEF NatOn
  <2>5. m = SumFunctionOnSet(v, M)
    OBVIOUS
  <2>. HIDE DEF c, v, M, m
  <2>6. SumFunctionOnSet(Bytes, UNION {c[u] : u \in M}) <= SumFunctionOnSet(v, M)
    BY <2>1, <2>2, <2>4, SumCover
  <2>7. BytesOf(Marking) = SumFunctionOnSet(Bytes, UNION {c[u] : u \in M})
    BY <2>3, Zenon DEF BytesOf
  <2>. QED
    BY <2>5, <2>6, <2>7
<1>5. BytesOf(Waiting) <= OnWay(toQueue)
  BY <1>0, OnWayFacts DEF Waiting
<1>. HIDE DEF t, m
<1>6. BytesOf(kv) <= BytesOf(Live) + BytesOf(Queued) + BytesOf(Waiting) + BytesOf(Marking)
  <2>. DEFINE A == Live \cup Queued
              B == Waiting \cup Marking
  <2>1. /\ A \in SUBSET Key /\ B \in SUBSET Key /\ A \cup B \in SUBSET Key
         /\ kv \in SUBSET (A \cup B)
    BY <1>0 DEF Live
  <2>2. /\ BytesOf(A) <= BytesOf(Live) + BytesOf(Queued)
        /\ BytesOf(B) <= BytesOf(Waiting) + BytesOf(Marking)
    BY <1>0, BytesFacts
  <2>. HIDE DEF A, B
  <2>3. /\ BytesOf(kv) <= BytesOf(A \cup B)
        /\ BytesOf(A \cup B) <= BytesOf(A) + BytesOf(B)
        /\ BytesOf(A) \in Nat /\ BytesOf(B) \in Nat /\ BytesOf(A \cup B) \in Nat
        /\ BytesOf(kv) \in Nat /\ BytesOf(Waiting) \in Nat /\ BytesOf(Marking) \in Nat
    BY <1>0, <2>1, BytesFacts
  <2>. QED
    BY <1>0, <2>2, <2>3
<1>7. BytesOf(kv) \in Nat /\ BytesOf(Waiting) \in Nat /\ BytesOf(Marking) \in Nat
  BY <1>0, BytesFacts
<1>8. BytesOf(Live) + HeldIn(upload) + BytesOf(Queued) + OnWay(toQueue) <= kvBytes
  BY DEF LedgerInv, Ledger
<1>9. BytesOf(kv) + t <= kvBytes
  BY <1>0, <1>3, <1>4, <1>5, <1>6, <1>7, <1>8
<1>. QED
  BY <1>9 DEF t

(* For any parts, sizes and limits and any number of uploads side by side, KV together    *)
(* with what uploads may still store stays within what is counted, and that within the    *)
(* account's limit, through failed writes, restarts and purges (reserveKvWrite,           *)
(* releaseKvBytes, purgeDueKeys).                                                         *)
THEOREM StorageGuarded == PacksSpec => []GuardHolds
<1>1. PacksInit => LedgerInv
  BY LedgerInit
<1>2. TypeInv /\ TypeInv' /\ LedgerInv /\ [PacksNext]_packVars => LedgerInv'
  BY LedgerStep
<1>3. TypeInv /\ LedgerInv => GuardHolds
  BY LedgerCovers
<1>. QED
  BY <1>1, <1>2, <1>3, TypeInvariant, PTL DEF PacksSpec
================================================================================
