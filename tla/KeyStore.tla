------------------------------ MODULE KeyStore ------------------------------
(***************************************************************************)
(* One provider's API keys in localStorage: apps/web/src/ai/gemini-key.ts, *)
(* and images/tmdb-key.ts and images/rawg-key.ts, which are the same but   *)
(* for the single key of older versions that gemini-key.ts takes over.     *)
(*                                                                         *)
(* A key is its id.  A write to localStorage may fail (quota, private      *)
(* browsing), and the code goes on: an operation is a set of outcomes.     *)
(***************************************************************************)
EXTENDS Naturals, Sequences, SequencesExt, Sublists

NoKey == 0
LegacyKey == 1

\* present: the list is stored, if only as "[]"; legacy: the key of an older version.
Store(ids) == [keys: Seq(ids), present: BOOLEAN, active: ids \cup {NoKey}, legacy: BOOLEAN]

EmptyStore(legacy) == [keys |-> <<>>, present |-> FALSE, active |-> NoKey, legacy |-> legacy]

\* writeKeys, setActive...KeyId: a value that could not be stored leaves the old one.
WriteKeys(s, keys) == {s, [s EXCEPT !.keys = keys, !.present = TRUE]}
WriteActive(s, id) == {s, [s EXCEPT !.active = id]}

\* readKeys: the list, after the one-time migration of a single key; a failed migration reads
\* as no keys.
ReadKeys(s) ==
  IF s.present \/ ~s.legacy THEN {[store |-> s, keys |-> s.keys]}
  ELSE LET listed == [s EXCEPT !.keys = <<LegacyKey>>, !.present = TRUE]
           done == [listed EXCEPT !.active = LegacyKey, !.legacy = FALSE]
       IN {[store |-> s, keys |-> <<>>], [store |-> listed, keys |-> <<>>],
           [store |-> done, keys |-> done.keys]}

\* add...ApiKey: the first key becomes the active one.
AddKey(s, id) ==
  UNION {UNION {IF w.active = NoKey THEN WriteActive(w, id) ELSE {w} :
                  w \in WriteKeys(r.store, Append(r.keys, id))} : r \in ReadKeys(s)}

\* remove...ApiKey: the first of the rest becomes active in place of the one removed.
RemoveKey(s, id) ==
  UNION {LET rest == Without(r.keys, {id})
             next == IF rest = <<>> THEN NoKey ELSE Head(rest)
         IN UNION {IF w.active = id THEN WriteActive(w, next) ELSE {w} :
                     w \in WriteKeys(r.store, rest)} : r \in ReadKeys(s)}

\* The radio button of ApiKeyManager.
ActivateKey(s, id) == WriteActive(s, id)

\* get...ApiKey: the active key, or the first when the active one is not stored.
KeyOf(keys, active) ==
  IF keys = <<>> THEN NoKey
  ELSE IF \E i \in DOMAIN keys : keys[i] = active THEN active ELSE Head(keys)

\* What ApiKeyManager lets the user do with one provider's keys.
UsedKeys(s, ids) ==
  (UNION {AddKey(s, id) : id \in {k \in ids \ {LegacyKey} : \A i \in DOMAIN s.keys : s.keys[i] # k}})
    \cup UNION {RemoveKey(s, s.keys[i]) \cup ActivateKey(s, s.keys[i]) : i \in DOMAIN s.keys}
=============================================================================
