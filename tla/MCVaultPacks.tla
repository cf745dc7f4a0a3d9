---------------------------- MODULE MCVaultPacks ----------------------------
(* One disc whose pack is in several parts, or is replaced by another one. *)
EXTENDS VaultPacks

CONSTANTS d1, packA, packB, packC, b1, c1

MCBytes == [k \in Key |-> 1]
MCDiscOf == [p \in Pack |-> d1]
MCPackOf == [k \in Key |-> IF k = b1 THEN packB ELSE IF k = c1 THEN packC ELSE packA]
============================================================================
