------------------------------ MODULE KvGuards ------------------------------
(***************************************************************************)
(* What all vaults share: the KV namespace of pack parts, the counters     *)
(* that keep the account inside its free limits, and the purge queue with  *)
(* its daily cron (apps/api/src/directory/directory.ts).                   *)
(*                                                                         *)
(* Each SQL statement on D1 and each KV call is atomic; everything else    *)
(* may happen between two of them, so each is an operator of its own.      *)
(***************************************************************************)
EXTENDS Integers, FiniteSets, Sequences, FiniteSetsExt, SequencesExt, Sublists

CONSTANTS
  Key,            \* KV keys of pack parts
  Bytes,          \* size of each part
  KvBytesGuard,   \* GLOBAL_GUARDS.kvBytes
  KvWritesGuard,  \* GLOBAL_GUARDS.kvWritesPerDay
  KvDeletesGuard, \* GLOBAL_GUARDS.kvDeletesPerDay
  PurgeBatch      \* the 100 of purgeDueKeys

ASSUME GuardsAssumption ==
  /\ IsFiniteSet(Key)
  /\ Bytes \in [Key -> Nat \ {0}]
  /\ KvBytesGuard \in Nat
  /\ KvWritesGuard \in Nat \ {0}
  /\ KvDeletesGuard \in Nat \ {0}
  /\ PurgeBatch \in Nat \ {0}

VARIABLES
  kv,        \* keys KV holds
  kvBytes,   \* usage_total.kv_bytes
  kvWrites,  \* usage_daily.kv_writes of today
  kvDeletes, \* usage_daily.kv_deletes of today
  waiting,   \* keys of purge_queue whose delete_after lies ahead
  due,       \* the others, in the order of delete_after
  purge      \* the run of the cron: the keys it selected and those still to delete

guardVars == <<kv, kvBytes, kvWrites, kvDeletes, waiting, due, purge>>

NoPurge == [picked |-> {}, left |-> {}, today |-> TRUE]

GuardInit ==
  /\ kv = {}
  /\ kvBytes = 0
  /\ kvWrites = 0
  /\ kvDeletes = 0
  /\ waiting = {}
  /\ due = <<>>
  /\ purge = NoPurge

BytesOf(keys) == SumFunctionOnSet(Bytes, keys)
Queued == waiting \cup Range(due)
----------------------------------------------------------------------------
(***************************************************************************)
(* reserveKvWrite takes bytes, then a write; releaseKvBytes gives back.    *)
(***************************************************************************)
\* Mutant: the guard does not count the part that is to be stored.
BytesLeftBefore(k) == kvBytes <= KvBytesGuard

BytesLeft(k) == kvBytes + Bytes[k] <= KvBytesGuard

TakeBytes(k) ==
  /\ BytesLeft(k)
  /\ kvBytes' = kvBytes + Bytes[k]
  /\ UNCHANGED <<kv, kvWrites, kvDeletes, waiting, due, purge>>

WriteLeft == kvWrites < KvWritesGuard

TakeWrite ==
  /\ WriteLeft
  /\ kvWrites' = kvWrites + 1
  /\ UNCHANGED <<kv, kvBytes, kvDeletes, waiting, due, purge>>

Lowered(n) == IF kvBytes > n THEN kvBytes - n ELSE 0

GiveBack(k) ==
  /\ kvBytes' = Lowered(Bytes[k])
  /\ UNCHANGED <<kv, kvWrites, kvDeletes, waiting, due, purge>>

KvPut(k) ==
  /\ kv' = kv \cup {k}
  /\ UNCHANGED <<kvBytes, kvWrites, kvDeletes, waiting, due, purge>>

\* enqueuePurge: a key that is queued already keeps its date.
Enqueue(keys, now) ==
  LET new == keys \ Queued
  IN /\ waiting' = IF now THEN waiting ELSE waiting \cup new
     /\ due' = IF now THEN due \o SetToSeq(new) ELSE due
     /\ UNCHANGED <<kv, kvBytes, kvWrites, kvDeletes, purge>>
----------------------------------------------------------------------------
(***************************************************************************)
(* purgeDueKeys, the scheduled handler, and the clock.                     *)
(***************************************************************************)
\* Mutant: the batch is not limited by the deletes left today.
BudgetUnmetered == PurgeBatch

Budget == Min({PurgeBatch, KvDeletesGuard - kvDeletes})

PurgeSelect ==
  LET n == Min({Budget, Len(due)})
  IN /\ purge = NoPurge
     /\ n > 0
     /\ purge' = [picked |-> Range(SubSeq(due, 1, n)), left |-> Range(SubSeq(due, 1, n)),
                  today |-> TRUE]
     /\ UNCHANGED <<kv, kvBytes, kvWrites, kvDeletes, waiting, due>>

\* The deletes run side by side.
PurgeDelete(k) ==
  /\ k \in purge.left
  /\ kv' = kv \ {k}
  /\ purge' = [purge EXCEPT !.left = @ \ {k}]
  /\ UNCHANGED <<kvBytes, kvWrites, kvDeletes, waiting, due>>

\* Mutant: the batch that settles a purge leaves the keys queued.
PurgeSettleQueued ==
  /\ purge.picked # {}
  /\ purge.left = {}
  /\ kvDeletes' = kvDeletes + IF purge.today THEN Cardinality(purge.picked) ELSE 0
  /\ kvBytes' = Lowered(BytesOf(purge.picked))
  /\ purge' = NoPurge
  /\ UNCHANGED <<kv, kvWrites, waiting, due>>

\* One D1 batch; the deletes count for the day on which the run began.
PurgeSettle ==
  /\ purge.picked # {}
  /\ purge.left = {}
  /\ due' = Without(due, purge.picked)
  /\ kvDeletes' = kvDeletes + IF purge.today THEN Cardinality(purge.picked) ELSE 0
  /\ kvBytes' = Lowered(BytesOf(purge.picked))
  /\ purge' = NoPurge
  /\ UNCHANGED <<kv, kvWrites, waiting>>

\* A delete fails, or the worker is stopped.
PurgeFails ==
  /\ purge # NoPurge
  /\ purge' = NoPurge
  /\ UNCHANGED <<kv, kvBytes, kvWrites, kvDeletes, waiting, due>>

\* delete_after of a replaced part arrives.
RetentionEnds(k) ==
  /\ k \in waiting
  /\ waiting' = waiting \ {k}
  /\ due' = Append(due, k)
  /\ UNCHANGED <<kv, kvBytes, kvWrites, kvDeletes, purge>>

\* UTC midnight: usage_daily has no row for the new day.
GuardsNewDay ==
  /\ kvWrites' = 0
  /\ kvDeletes' = 0
  /\ purge' = IF purge = NoPurge THEN purge ELSE [purge EXCEPT !.today = FALSE]
  /\ UNCHANGED <<kv, kvBytes, waiting, due>>

GuardTypeOK ==
  /\ kv \subseteq Key
  /\ kvBytes \in Nat
  /\ kvWrites \in Nat
  /\ kvDeletes \in Nat
  /\ waiting \subseteq Key
  /\ due \in Seq(Key)
  /\ purge \in [picked: SUBSET Key, left: SUBSET Key, today: BOOLEAN]
============================================================================
