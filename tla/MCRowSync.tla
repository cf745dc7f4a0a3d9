----------------------------- MODULE MCRowSync -----------------------------
(* Two devices of one account, a disc and an item on it. *)
EXTENDS RowSync, TLC

CONSTANTS phone, laptop, disc, item

MCTableOf == [r \in Row |-> IF r = disc THEN "disc" ELSE "disc_item"]
MCParent == [r \in Row |-> IF r = item THEN disc ELSE None]
Devices == Permutations({phone, laptop})
============================================================================
