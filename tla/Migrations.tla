----------------------------- MODULE Migrations -----------------------------
(***************************************************************************)
(* The schema of a local database (packages/schema/src/client.ts) and of a *)
(* vault's (vault.ts), brought up to date by migrate (sql-db.ts) whenever  *)
(* it is opened, by releases of the app that each know one migration more. *)
(*                                                                         *)
(* A schema is the set of its tables, columns and indexes that tell the    *)
(* releases apart.  A step is a statement: the process may die between     *)
(* two, and the transaction of the migration is then rolled back.          *)
(***************************************************************************)
EXTENDS Naturals, Sequences

CONSTANT MaxOpens   \* bound: how often a database is opened

ASSUME MigrationsAssumption == MaxOpens \in Nat

VARIABLES
  kind,     \* "client" or "vault"
  stored,   \* the database on disk: its schema and version
  release,  \* the app that runs: the number of migrations it knows
  run,      \* its call of migrate: the version reached, the statements left of the migration
            \* under way and the schema its transaction sees
  opens

migrationVars == <<kind, stored, release, run, opens>>

Latest == 4
Synced == {"disc"}   \* one of the tables of SYNCED_TABLES before disc_item
Own(k) == IF k = "client" THEN {"file"} ELSE {"change_log"}
Stubs(k) == {"location", "disc.location_id", "disc_location_idx"}
              \cup IF k = "client" THEN {"stats_cache"} ELSE {}
Items == "disc_item"
ImageUrl == "disc_item.image_url"
Images == "disc_item_image"

Stmt(op, object) == [op |-> op, object |-> object]

\* syncedTableDDL and its indexes, IF NOT EXISTS, as the release has them.
SyncedDDL(r) ==
  <<Stmt("ensure", "disc")>> \o
  IF r < 3 THEN <<>> ELSE
    <<[op |-> "ensure", object |-> Items, columns |-> IF r < 4 THEN {} ELSE {ImageUrl}]>>

\* The first migration as a release shipped it: the first one had the stubs (client.ts 113-118),
\* the later ones what SYNCED_TABLES had by then (134-138, 144-147).
Initial(k, r) ==
  SyncedDDL(r)
    \o <<Stmt("create", IF k = "client" THEN "file" ELSE "change_log")>>
    \o (IF r > 1 THEN <<>> ELSE
          <<Stmt("create", "location"), Stmt("column", "disc.location_id"),
            Stmt("create", "disc_location_idx")>>
          \o IF k = "client" THEN <<Stmt("create", "stats_cache")>> ELSE <<>>)

\* drop_phase4_stubs: the index before its column, the column only if it is there.
DropStubs(k) ==
  <<Stmt("drop", "disc_location_idx"), Stmt("drop", "location")>>
    \o (IF k = "client" THEN <<Stmt("drop", "stats_cache")>> ELSE <<>>)
    \o <<Stmt("dropColumn", "disc.location_id")>>

\* Mutant: the column is added whether or not the table has it.
AddAlways == <<Stmt("column", ImageUrl)>>

\* addColumnIfMissing: a database whose first migration was a later one has the column.
AddImageUrl == <<Stmt("columnIfMissing", ImageUrl)>>

\* CLIENT_MIGRATIONS and VAULT_MIGRATIONS of a release.
Statements(k, r, version) ==
  CASE version = 1 -> Initial(k, r)
    [] version = 2 -> DropStubs(k)
    [] version = 3 -> SyncedDDL(r)
    [] version = 4 -> (IF k = "client" THEN <<Stmt("ensure", Images)>> ELSE <<>>) \o AddImageUrl

\* SQLite refuses what exists already, a column of a missing table, and to drop an indexed column.
Refused(stmt, schema) ==
  \/ stmt.op \in {"create", "column"} /\ stmt.object \in schema
  \/ stmt.op \in {"column", "columnIfMissing"} /\ stmt.object = ImageUrl /\ Items \notin schema
  \/ /\ stmt.op = "dropColumn" /\ stmt.object \in schema
     /\ "disc_location_idx" \in schema

Executed(stmt, schema) ==
  IF stmt.op \in {"drop", "dropColumn"} THEN schema \ {stmt.object}
  ELSE IF stmt.object \in schema THEN schema
  ELSE schema \cup {stmt.object} \cup (IF "columns" \in DOMAIN stmt THEN stmt.columns ELSE {})

Stopped == [step |-> "no", version |-> 0, todo |-> <<>>, schema |-> {}]

MigrationsInit ==
  /\ kind \in {"client", "vault"}
  /\ stored = [schema |-> {}, version |-> 0]
  /\ release \in 1..Latest
  /\ run = Stopped
  /\ opens = 0
----------------------------------------------------------------------------
\* prepareLocalDb, or the constructor of VaultDO: the stored version, 0 of a new database.
Open ==
  /\ run.step # "migrate" /\ opens < MaxOpens
  /\ run' = [step |-> "migrate", version |-> stored.version, todo |-> <<>>, schema |-> {}]
  /\ opens' = opens + 1
  /\ UNCHANGED <<kind, stored, release>>

\* The next migration that is newer than the database begins its transaction.
Begin ==
  /\ run.step = "migrate" /\ run.todo = <<>> /\ run.version < release
  /\ run' = [run EXCEPT !.todo = Statements(kind, release, run.version + 1),
                        !.schema = stored.schema]
  /\ UNCHANGED <<kind, stored, release, opens>>

\* A statement that is refused throws out of migrate, and rolls the transaction back.  The last
\* one is followed by the new version and the commit.
Execute ==
  LET stmt == Head(run.todo)
      schema == Executed(stmt, run.schema)
  IN /\ run.todo # <<>>
     /\ IF Refused(stmt, run.schema)
          THEN run' = [Stopped EXCEPT !.step = "failed"] /\ UNCHANGED stored
        ELSE IF Len(run.todo) > 1
          THEN run' = [run EXCEPT !.todo = Tail(@), !.schema = schema] /\ UNCHANGED stored
        ELSE /\ run' = [run EXCEPT !.todo = <<>>, !.version = @ + 1]
             /\ stored' = [schema |-> schema, version |-> run.version + 1]
     /\ UNCHANGED <<kind, release, opens>>

Ready ==
  /\ run.step = "migrate" /\ run.todo = <<>> /\ run.version >= release
  /\ run' = [Stopped EXCEPT !.step = "ready"]
  /\ UNCHANGED <<kind, stored, release, opens>>

\* The tab or the object is gone, and the next one may be of a later release.
Restart ==
  /\ run # Stopped
  /\ run' = Stopped
  /\ release' \in release..Latest
  /\ UNCHANGED <<kind, stored, opens>>

MigrationsNext == Open \/ Begin \/ Execute \/ Ready \/ Restart

MigrationsSpec == MigrationsInit /\ [][MigrationsNext]_migrationVars
----------------------------------------------------------------------------
\* The schema a release creates in a new database.
NewSchema(k, r) ==
  Synced \cup Own(k) \cup (IF r = 1 THEN Stubs(k) ELSE {})
    \cup (IF r >= 3 THEN {Items} ELSE {}) \cup (IF r >= 4 THEN {ImageUrl} ELSE {})
    \cup IF r >= 4 /\ k = "client" THEN {Images} ELSE {}

\* The database has a version the releases know, and only objects some release creates.
MigrationsTypeOK ==
  /\ kind \in {"client", "vault"} /\ release \in 1..Latest
  /\ stored.version \in 0..Latest
  /\ stored.schema \subseteq NewSchema(kind, 1) \cup NewSchema(kind, Latest)
  /\ run.step \in {"no", "migrate", "ready", "failed"} /\ run.version \in 0..Latest

\* Whatever release made a database, wherever its migrations were interrupted and whichever
\* releases were skipped, migrate does not fail and leaves the schema of a new database
\* (client.ts 114-116, 134-138, 144-147: "in case a device is migrating straight from ...").
Upgraded ==
  /\ run.step # "failed"
  /\ run.step = "ready" => stored = [schema |-> NewSchema(kind, release), version |-> release]
=============================================================================
