---------------------------- MODULE EditDelivery ----------------------------
(***************************************************************************)
(* What the row channel promises of the edits a user makes offline          *)
(* (WEB_APP_ARCHITECTURE.md, "Sync"): every device keeps a queue, and the   *)
(* vault takes the edits of a row from a device one at a time and in order, *)
(* each once.  An edit leaves the queue when it was taken, when it is a     *)
(* delete of a row that is gone, or into the hands of the user.  No         *)
(* message, version, page, lost answer or closed tab shows at this level.   *)
(***************************************************************************)
EXTENDS Naturals, Sequences, Sublists

CONSTANT Device

VARIABLES
  queue, \* of each device: its edits waiting, as [id, row, op], oldest first
  made,  \* how many edits were ever made
  aside, \* edits the vault refused or the user gave up
  moot,  \* deletes that found their row gone
  taken, \* ids of the edits that took effect at the vault
  gone   \* rows the vault deleted at least once

deliveryVars == <<queue, made, aside, moot, taken, gone>>

DeliveryInit ==
  /\ queue = [d \in Device |-> <<>>]
  /\ made = 0
  /\ aside = {}
  /\ moot = {}
  /\ taken = {}
  /\ gone = {}

\* A user operation queues its edits behind the ones waiting, under fresh ids.
Make(d) ==
  LET new == SubSeq(queue'[d], Len(queue[d]) + 1, Len(queue'[d]))
  IN /\ new # <<>>
     /\ queue' = [queue EXCEPT ![d] = @ \o new]
     /\ \A n \in DOMAIN new : new[n].id = made + n
     /\ made' = made + Len(new)
     /\ UNCHANGED <<aside, moot, taken, gone>>

\* The waiting edits of d that no other edit of their row comes before.
Firsts(d) ==
  LET q == queue[d]
  IN {q[n] : n \in {k \in DOMAIN q : \A i \in 1..(k - 1) : q[i].row # q[k].row}}

\* An edit takes effect: one whose turn it is, or the late copy of one that has left its
\* queue.  A delete may take the rows with it that refer to its row.
Take(e) ==
  /\ e.id \notin taken
  /\ taken' = taken \cup {e.id}
  /\ moot' = moot \ {e}
  /\ gone \subseteq gone'
  /\ gone' # gone => e.op = "delete" /\ e.row \in gone'
  /\ UNCHANGED <<queue, made, aside>>

\* The edits S leave the queue of d.
Leave(d, S) ==
  /\ S # {}
  /\ queue' = [queue EXCEPT ![d] = Kept(@, {n \in DOMAIN @ : @[n] \notin S})]
  /\ UNCHANGED <<made, taken, gone>>

\* A device learns what became of the first edits of some rows: taken, refused, or a delete
\* with nothing left to delete.
Settle(d) ==
  LET settled == Firsts(d) \ {queue'[d][n] : n \in DOMAIN queue'[d]}
      refused == settled \cap aside'
      idle == {e \in settled \ refused : e.id \notin taken}
  IN /\ Leave(d, settled)
     /\ aside' = aside \cup refused
     /\ moot' = moot \cup idle
     /\ \A e \in idle : e.op = "delete" /\ e.row \in gone

\* The user gives a waiting edit up.
GiveUp(d) ==
  \E n \in DOMAIN queue[d] :
    /\ Leave(d, {queue[d][n]})
    /\ aside' = aside \cup {queue[d][n]}
    /\ moot' = moot

DeliveryNext ==
  \/ /\ queue' # queue
     /\ \E d \in Device : Make(d) \/ Settle(d) \/ GiveUp(d)
  \/ /\ taken' # taken
     /\ \/ \E d \in Device : \E e \in Firsts(d) : Take(e)
        \/ \E e \in aside \cup moot : Take(e)

DeliverySpec == DeliveryInit /\ [][DeliveryNext]_deliveryVars
=============================================================================
