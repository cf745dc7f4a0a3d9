------------------------------ MODULE Catalog ------------------------------
(***************************************************************************)
(* One disc's folders and files on their way through the catalog: the walk *)
(* of a mounted disc (apps/web/src/scan/scan-folder.ts) or the rows of the *)
(* old database (tools/import-legacy), the pack built of them and read     *)
(* back (packages/sync-protocol/src/pack.ts), the rows an import makes     *)
(* (apps/web/src/db/packs.ts), what the explorer lists of them             *)
(* (db/catalog.ts), and the backup that is exported and imported again     *)
(* (apps/web/src/archive).                                                 *)
(*                                                                         *)
(* A name is a letter and whether it is upper case; a path is the sequence *)
(* of names from the root.  Sizes and dates are left out, but for the size *)
(* of a part, which is its number of rows.                                 *)
(***************************************************************************)
EXTENDS Naturals, Sequences, FiniteSets, SequencesExt, FiniteSetsExt, Sublists

CONSTANTS
  Letter,
  Upper,        \* letters that also come in upper case
  MaxFolders,   \* bound: folders of the disc
  MaxEntries,   \* bound: folders and files of the disc
  PartSize      \* RAW_BYTES_PER_PART, in rows

ASSUME CatalogAssumption ==
  /\ Upper \subseteq Letter
  /\ MaxFolders \in Nat /\ MaxEntries \in Nat /\ PartSize \in Nat \ {0}

VARIABLES
  source,     \* where the rows come from: "walk" or "legacy"
  stage,      \* what is done next
  disk,       \* history: the paths of the folders and files there are
  at,         \* the walk: the ids and names of the folders it is in
  folders,    \* PackFolder[]: of the walk, of dir_master or of an export
  packFiles,      \* PackFile[]
  parts,      \* the pack
  table       \* the folder and file rows of the disc

catalogVars == <<source, stage, disk, at, folders, packFiles, parts, table>>

Name == (Letter \X {FALSE}) \cup (Upper \X {TRUE})
Root == 0           \* a parent or folder that is null
Lower(path) == [i \in DOMAIN path |-> path[i][1]]
NoRows == [folders |-> {}, files |-> {}]
Failed == "failed"

CatalogInit ==
  /\ source \in {"walk", "legacy"} /\ stage = source
  /\ disk = NoRows
  /\ at = <<>> /\ folders = <<>> /\ packFiles = <<>> /\ parts = <<>>
  /\ table = NoRows

\* The paths of the folders of dir_master, by their parents; a row has its place for an id.
PathsOf(list) ==
  LET Up[n \in 0..Len(list)] ==
        [i \in 0..Len(list) |-> IF i = Root \/ n = 0 THEN <<>>
                                ELSE Append(Up[n - 1][list[i].parent], list[i].name)]
  IN Up[Len(list)]
----------------------------------------------------------------------------
(***************************************************************************)
(* scanDirectory: ids are given out as folders are entered.  No two        *)
(* entries of a directory have one name, but names may differ in case.     *)
(***************************************************************************)
Here == IF at = <<>> THEN Root ELSE Last(at).id
Entered(name) == Append([i \in DOMAIN at |-> at[i].name], name)
Unvisited(name) == Entered(name) \notin disk.folders \cup disk.files

WalkFolder(name) ==
  /\ stage = "walk" /\ Len(folders) < MaxFolders /\ Len(folders) + Len(packFiles) < MaxEntries
  /\ Unvisited(name)
  /\ folders' = Append(folders, [id |-> Len(folders) + 1, parent |-> Here, name |-> name])
  /\ at' = Append(at, [id |-> Len(folders) + 1, name |-> name])
  /\ disk' = [disk EXCEPT !.folders = @ \cup {Entered(name)}]
  /\ UNCHANGED <<source, stage, packFiles, parts, table>>

WalkFile(name) ==
  /\ stage = "walk" /\ Len(folders) + Len(packFiles) < MaxEntries /\ Unvisited(name)
  /\ packFiles' = Append(packFiles, [folder |-> Here, name |-> name])
  /\ disk' = [disk EXCEPT !.files = @ \cup {Entered(name)}]
  /\ UNCHANGED <<source, stage, at, folders, parts, table>>

WalkUp ==
  /\ stage = "walk"
  /\ IF at = <<>> THEN stage' = "build" /\ UNCHANGED at ELSE at' = Front(at) /\ UNCHANGED stage
  /\ UNCHANGED <<source, disk, folders, packFiles, parts, table>>
----------------------------------------------------------------------------
(***************************************************************************)
(* buildLegacyArchive: rows of dir_master by dir_id, of file_master by     *)
(* file_id.  A parent may have a larger id; the parents lead to the root.  *)
(***************************************************************************)
LegacyRows ==
  /\ stage = "legacy" /\ folders = <<>>
  /\ \E n \in 0..MaxFolders : \E dirs \in [1..n -> [parent : 0..n, name : Name]] :
       LET list == [i \in 1..n |-> [id |-> i, parent |-> dirs[i].parent, name |-> dirs[i].name]]
           path == PathsOf(list)
       IN /\ \A i \in 1..n : path[i] = Append(path[dirs[i].parent], dirs[i].name)
          /\ \E m \in 0..MaxEntries - n : \E rows \in [1..m -> [folder : 0..n, name : Name]] :
               /\ folders' = list /\ packFiles' = rows
               /\ disk' = [folders |-> {path[i] : i \in 1..n},
                           files |-> {Append(path[rows[i].folder], rows[i].name) : i \in 1..m}]
  /\ stage' = "dedupe"
  /\ UNCHANGED <<source, at, parts, table>>

Mapped(remap, id) == IF id \in DOMAIN remap THEN remap[id] ELSE id

MapSet(map, key, value) ==
  [k \in DOMAIN map \cup {key} |-> IF k = key THEN value ELSE map[k]]

\* dedupeSiblingFolders, one pass: [kept, remap], remap of the ids dropped so far.
Deduped ==
  LET Pass[n \in 0..Len(folders)] ==
        IF n = 0 THEN [kept |-> <<>>, remap |-> <<>>]
        ELSE LET acc == Pass[n - 1]
                 f == folders[n]
                 parent == Mapped(acc.remap, f.parent)
                 twins == {k \in Range(acc.kept) : k.parent = parent /\ k.name[1] = f.name[1]}
             IN IF twins = {} THEN [acc EXCEPT !.kept = Append(@, [f EXCEPT !.parent = parent])]
                ELSE [acc EXCEPT !.remap = MapSet(@, f.id, (CHOOSE k \in twins : TRUE).id)]
  IN Pass[Len(folders)]

Dedupe ==
  /\ stage = "dedupe" /\ stage' = "build"
  /\ folders' = Deduped.kept
  /\ packFiles' = [i \in DOMAIN packFiles |-> [packFiles[i] EXCEPT !.folder = Mapped(Deduped.remap, @)]]
  /\ UNCHANGED <<source, disk, at, parts, table>>
----------------------------------------------------------------------------
(***************************************************************************)
(* buildPack and importPackParts.                                          *)
(***************************************************************************)
\* Mutant: the folders keep the order they came in.
InputOrder(list) == list

\* orderFolders: parents before children, siblings in the order they came in.
Children(list, id) == Kept(list, {i \in DOMAIN list : list[i].parent = id})

Ordered(list) ==
  LET Queue[n \in 0..Len(list)] ==
        IF n = 0 THEN Children(list, Root)
        ELSE LET queue == Queue[n - 1]
             IN IF n > Len(queue) THEN queue ELSE queue \o Children(list, queue[n].id)
  IN Queue[Len(list)]

Ids(list) == {list[i].id : i \in DOMAIN list}

\* An unknown parent or folder, or a cycle, throws.
Buildable ==
  /\ \A i \in DOMAIN folders : folders[i].parent \in {Root} \cup Ids(folders)
  /\ \A i \in DOMAIN packFiles : packFiles[i].folder \in {Root} \cup Ids(folders)
  /\ Len(Ordered(folders)) = Len(folders)

\* idMap: ids of the pack are positions in its order.
PackId(id) ==
  IF id = Root THEN Root ELSE CHOOSE i \in DOMAIN folders : Ordered(folders)[i].id = id

FolderRows ==
  [i \in DOMAIN folders |-> [id |-> i, parent |-> PackId(Ordered(folders)[i].parent),
                             name |-> Ordered(folders)[i].name]]

\* The files of a folder, root files first, go into one part, a new one when it would be too big:
\* of each part, the places of its files in the input.
PartFiles ==
  LET Filled[n \in 0..Len(folders) + 1] ==
        IF n = 0 THEN [parts |-> <<{}>>, size |-> Len(folders)]
        ELSE LET acc == Filled[n - 1]
                 last == Len(acc.parts)
                 group == {i \in DOMAIN packFiles : PackId(packFiles[i].folder) = n - 1}
                 size == acc.size + Cardinality(group)
             IN IF group # {} /\ acc.parts[last] # {} /\ size > PartSize
                  THEN [parts |-> Append(acc.parts, group), size |-> Cardinality(group)]
                  ELSE [parts |-> [acc.parts EXCEPT ![last] = @ \cup group], size |-> size]
  IN Filled[Len(folders) + 1].parts

BuildPack ==
  /\ stage \in {"build", "backup"}
  /\ IF Buildable
       THEN /\ parts' = [i \in DOMAIN PartFiles |->
                           [part |-> i, parts |-> Len(PartFiles),
                            files |-> [k \in PartFiles[i] |->
                                         [packFiles[k] EXCEPT !.folder = PackId(@)]],
                            folders |-> IF i = 1 THEN FolderRows ELSE <<>>]]
            /\ stage' = IF stage = "build" THEN "import" ELSE "restore"
       ELSE stage' = Failed /\ UNCHANGED parts
  /\ folders' = <<>> /\ packFiles' = <<>>
  /\ UNCHANGED <<source, disk, at, table>>

\* localIds: the path of each folder by the parents read so far.
LocalPaths(rows) ==
  LET Read[n \in 0..Len(rows)] ==
        IF n = 0 THEN <<>>
        ELSE LET paths == Read[n - 1]
                 up == rows[n].parent
             IN Append(paths, Append(IF up \in DOMAIN paths THEN paths[up] ELSE <<>>, rows[n].name))
  IN Read[Len(rows)]

\* The rows of an import, one for each row of the pack.
Imported ==
  LET sorted == [i \in DOMAIN parts |-> CHOOSE p \in Range(parts) : p.part = i]
      first == sorted[1].folders
      paths == LocalPaths(first)
      path(f) == Append(IF f.folder = Root THEN <<>> ELSE paths[f.folder], f.name)
      row(f) == [folder |-> f.folder, name |-> f.name, path |-> path(f)]
  IN [folders |-> [i \in DOMAIN first |-> [id |-> i, parent |-> first[i].parent,
                                           name |-> first[i].name, path |-> paths[i]]],
      files |-> [x \in UNION {{i} \X DOMAIN sorted[i].files : i \in DOMAIN sorted} |->
                   row(sorted[x[1]].files[x[2]])]]

\* The unique indexes on (disc_no, rel_path NOCASE).
Unique(rows) == \A i, j \in DOMAIN rows : Lower(rows[i].path) = Lower(rows[j].path) => i = j

\* An import replaces the rows of the disc, or fails and leaves them.
ImportPackParts ==
  /\ stage \in {"import", "restore"}
  /\ IF Unique(Imported.folders) /\ Unique(Imported.files)
       THEN /\ table' = [folders |-> Range(Imported.folders), files |-> Range(Imported.files)]
            /\ stage' = IF stage = "import" THEN "browse" ELSE "done"
       ELSE stage' = Failed /\ UNCHANGED table
  /\ UNCHANGED <<source, disk, at, folders, packFiles, parts>>

\* exportArchive: the rows in whatever order SQLite has them.
ExportArchive ==
  /\ stage = "browse"
  /\ folders' \in SetToSeqs({[id |-> f.id, parent |-> f.parent, name |-> f.name] :
                               f \in table.folders})
  /\ packFiles' \in SetToSeqs({[folder |-> f.folder, name |-> f.name] : f \in table.files})
  /\ parts' = <<>> /\ stage' = "backup"
  /\ UNCHANGED <<source, disk, at, table>>

CatalogNext ==
  \/ \E name \in Name : WalkFolder(name) \/ WalkFile(name)
  \/ WalkUp \/ LegacyRows \/ Dedupe \/ BuildPack \/ ImportPackParts \/ ExportArchive

CatalogSpec == CatalogInit /\ [][CatalogNext]_catalogVars
----------------------------------------------------------------------------
\* listFolderChildren of one level.
ListFolderChildren(parent) ==
  [folders |-> {f \in table.folders : f.parent = parent},
   files |-> {f \in table.files : f.folder = parent}]

\* The folders the explorer opens, with the names clicked on the way, ...
Opened ==
  LET Down[n \in 0..MaxFolders] ==
        IF n = 0 THEN {[id |-> Root, clicked |-> <<>>]}
        ELSE UNION {{[id |-> f.id, clicked |-> Append(o.clicked, f.name)] :
                       f \in ListFolderChildren(o.id).folders} : o \in Down[n - 1]}
  IN UNION {Down[n] : n \in 0..MaxFolders}

\* ... and the rows it lists in them.
Browsed ==
  UNION {{[row |-> x, clicked |-> Append(o.clicked, x.name)] :
            x \in ListFolderChildren(o.id).folders \cup ListFolderChildren(o.id).files} :
           o \in Opened}

\* Rows, lists and parts hold what the code keeps in them.
CatalogTypeOK ==
  /\ stage \in {"walk", "legacy", "dedupe", "build", "import", "browse", "backup", "restore",
                 "done", Failed}
  /\ \A f \in table.folders : f.id \in 1..MaxFolders /\ f.parent \in 0..f.id - 1
  /\ \A f \in table.files : f.folder \in {Root} \cup {g.id : g \in table.folders}
  /\ \A i \in DOMAIN parts : parts[i].part = i /\ parts[i].parts = Len(parts)

Paths(rows) == {x.path : x \in rows}
Lowered(paths) == {Lower(p) : p \in paths}
Clash(paths) == \E p, q \in paths : p # q /\ Lower(p) = Lower(q)

\* The import of a scan has the paths of the disc, and that of the old database its paths once
\* duplicate folders are folded; the explorer reaches every row by its rel_path; a folder's
\* files are in one part (pack.ts 8).  A scan is refused only for names that differ in case,
\* and a backup of what was imported always restores it (packs.ts 24-27, export.ts 32-36).
TreeKept ==
  /\ stage \in {"browse", "done"} =>
       /\ Lowered(Paths(table.folders)) = Lowered(disk.folders)
       /\ Lowered(Paths(table.files)) = Lowered(disk.files)
       /\ source = "walk" => disk = [folders |-> Paths(table.folders), files |-> Paths(table.files)]
       /\ {x.row : x \in Browsed} = table.folders \cup table.files
       /\ \A x \in Browsed : x.clicked = x.row.path
  /\ \A p, q \in DOMAIN parts : p # q =>
       {f.folder : f \in Range(parts[p].files)} \cap {f.folder : f \in Range(parts[q].files)} = {}
  /\ stage = Failed => /\ table = NoRows
                       /\ source = "walk" => Clash(disk.folders) \/ Clash(disk.files)
=============================================================================
