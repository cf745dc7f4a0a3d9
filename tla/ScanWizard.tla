----------------------------- MODULE ScanWizard -----------------------------
(***************************************************************************)
(* The wizard that adds or re-scans a disc (apps/web/src/screens/Scan.tsx):*)
(* its component state, and the scans and saves that go on while the user  *)
(* moves between its steps, changes what was entered or leaves the page.   *)
(*                                                                         *)
(* A folder stands for the result of its scan.  A title is the number of   *)
(* the disc it was read from, or NoDisc when it is empty or typed.         *)
(***************************************************************************)
EXTENDS Naturals, FiniteSets

CONSTANTS
  Folder,
  NoFolder,
  MaxNo,      \* largest disc number
  MaxPages    \* bound: visits of the page

ASSUME ScanWizardAssumption ==
  /\ MaxNo \in Nat \ {0} /\ MaxPages \in Nat \ {0}
  /\ NoFolder \notin Folder

VARIABLES
  catalog,   \* disc numbers in the local database
  listed,    \* those the queries of the page have
  page,      \* visits of the page so far
  preset,    \* the page was opened for a disc: its number cannot be changed in re-scan mode
  form,      \* mode, step, number, title, folder chosen, scan result, scan and save flags
  scans,     \* scans under way: the page that started one, and its folder
  saves      \* calls of commitScannedPack under way

scanVars == <<catalog, listed, page, preset, form, scans, saves>>

NoDisc == 0
DiscNo == 1..MaxNo
Number == DiscNo \cup {NoDisc}   \* discNoInput: NoDisc is text that is no disc number
Picked == Folder \cup {NoFolder}
Form == [mode: {"new", "rescan"}, step: 1..4, no: Number, title: Number, folder: Picked,
         result: Picked, scanning: BOOLEAN, saving: BOOLEAN, saved: Number]
Scanning == [page: 1..MaxPages, folder: Folder]
Saving == [page: 1..MaxPages, no: Number, result: Picked]

NextFree(nos) ==
  IF DiscNo \subseteq nos THEN NoDisc
  ELSE CHOOSE n \in DiscNo \ nos : \A m \in DiscNo \ nos : n <= m

\* The effect of re-scan mode: the fields show the disc of that number, if there is one.
Filled(f, nos) ==
  IF f.mode = "rescan" /\ f.no \in nos THEN [f EXCEPT !.title = f.no] ELSE f

Fresh(mode, no) ==
  [mode |-> mode, step |-> 1, no |-> no, title |-> NoDisc, folder |-> NoFolder,
   result |-> NoFolder, scanning |-> FALSE, saving |-> FALSE, saved |-> NoDisc]

\* Mounted for a disc, or for a new one with the next free number filled in.
Mounted(n, nos) ==
  Filled(IF n = NoDisc THEN Fresh("new", NextFree(nos)) ELSE Fresh("rescan", n), nos)

ScanInit ==
  /\ catalog \in SUBSET DiscNo /\ listed = catalog
  /\ page = 1
  /\ \E n \in catalog \cup {NoDisc} : preset = (n # NoDisc) /\ form = Mounted(n, catalog)
  /\ scans = {} /\ saves = {}
----------------------------------------------------------------------------
\* The header: the mode can be switched on every step; the effects fill the fields.
SetMode(mode) ==
  /\ form.mode # mode
  /\ form' = Filled([form EXCEPT !.mode = mode], listed)
  /\ UNCHANGED <<catalog, listed, page, preset, scans, saves>>

\* Step 1, the number: typed or a suggestion.  An empty field of a new disc is filled again.
EnterNumber(n) ==
  /\ form.step = 1 /\ n # form.no
  /\ ~(form.mode = "rescan" /\ preset)
  /\ form' = Filled([form EXCEPT !.no = n], listed)
  /\ UNCHANGED <<catalog, listed, page, preset, scans, saves>>

EnterTitle ==
  /\ form.step = 1 /\ form.title # NoDisc
  /\ form' = [form EXCEPT !.title = NoDisc]
  /\ UNCHANGED <<catalog, listed, page, preset, scans, saves>>

\* Step 2, whose button to choose works while a scan is going on.
ChooseShown == form.step = 2

Choose(folder) ==
  /\ ChooseShown /\ folder # form.folder
  /\ form' = [form EXCEPT !.folder = folder]
  /\ UNCHANGED <<catalog, listed, page, preset, scans, saves>>

RunScan ==
  /\ form.step = 2 /\ form.folder # NoFolder /\ ~form.scanning
  /\ scans' = scans \cup {[page |-> page, folder |-> form.folder]}
  /\ form' = [form EXCEPT !.scanning = TRUE]
  /\ UNCHANGED <<catalog, listed, page, preset, saves>>

\* The page shows the preview, whatever step the user has gone back to.  An error leaves the
\* step; a page that was left ignores both.
ScanEnds(s) ==
  /\ scans' = scans \ {s}
  /\ LET ended == [form EXCEPT !.scanning = FALSE]
     IN form' \in IF s.page # page THEN {form}
                  ELSE {ended, [ended EXCEPT !.result = s.folder, !.step = 3]}
  /\ UNCHANGED <<catalog, listed, page, preset, saves>>

\* Step 3.
PreviewShown == form.step = 3 /\ form.result # NoFolder

\* Mutant: the number is not looked at again, as step 1 lets no other number through.
SavesAny == ~form.saving

\* The button is enabled, and save does not return at once.
CanSave == ~form.saving /\ form.no \in DiscNo /\ form.result # NoFolder

Save ==
  /\ PreviewShown /\ CanSave
  /\ saves' = saves \cup {[page |-> page, no |-> form.no, result |-> form.result]}
  /\ form' = [form EXCEPT !.saving = TRUE]
  /\ UNCHANGED <<catalog, listed, page, preset, scans>>

\* The disc is replaced if there was one, in either mode; then the queries are run again.
SaveEnds(s) ==
  /\ saves' = saves \ {s}
  /\ LET ended == [form EXCEPT !.saving = FALSE]
     IN \/ /\ catalog' = catalog \cup {s.no}
           /\ listed' = catalog'
           /\ form' = IF s.page # page THEN Filled(form, catalog')
                      ELSE Filled([ended EXCEPT !.saved = s.no, !.step = 4], catalog')
        \/ /\ form' = IF s.page # page THEN form ELSE ended
           /\ UNCHANGED <<catalog, listed>>
  /\ UNCHANGED <<page, preset, scans>>

\* Step 4 names the number the form has by now.
SavedShown == form.step = 4 /\ form.saved # NoDisc

\* Back, on every step but the first and the last, whatever is going on; Next of step 1.
Back ==
  /\ form.step \in {2, 3}
  /\ form' = [form EXCEPT !.step = @ - 1]
  /\ UNCHANGED <<catalog, listed, page, preset, scans, saves>>

Next1 ==
  /\ form.step = 1 /\ form.no \in DiscNo
  /\ form' = [form EXCEPT !.step = 2]
  /\ UNCHANGED <<catalog, listed, page, preset, scans, saves>>

\* Cancel, the link of step 4 or any other navigation, and the page opened again.
Reopen(n) ==
  /\ page < MaxPages
  /\ page' = page + 1
  /\ preset' = (n # NoDisc)
  /\ form' = Mounted(n, catalog) /\ listed' = catalog
  /\ UNCHANGED <<catalog, scans, saves>>

\* A sync, or another tab, adds or deletes a disc; the queries have it when they run again.
CatalogChanges(n) ==
  /\ catalog' = IF n \in catalog THEN catalog \ {n} ELSE catalog \cup {n}
  /\ UNCHANGED <<listed, page, preset, form, scans, saves>>

Refetch ==
  /\ listed # catalog
  /\ listed' = catalog
  /\ form' = Filled(form, catalog)
  /\ UNCHANGED <<catalog, page, preset, scans, saves>>

ScanNext ==
  \/ \E mode \in {"new", "rescan"} : SetMode(mode)
  \/ \E n \in Number : EnterNumber(n) \/ Reopen(n)
  \/ \E n \in DiscNo : CatalogChanges(n)
  \/ \E folder \in Folder : Choose(folder)
  \/ EnterTitle \/ RunScan \/ Save \/ Back \/ Next1 \/ Refetch
  \/ \E s \in scans : ScanEnds(s)
  \/ \E s \in saves : SaveEnds(s)

ScanSpec == ScanInit /\ [][ScanNext]_scanVars
----------------------------------------------------------------------------
\* The component state, and the calls under way, hold what the code keeps in them.
ScanTypeOK ==
  /\ catalog \subseteq DiscNo /\ listed \subseteq DiscNo
  /\ page \in 1..MaxPages /\ preset \in BOOLEAN
  /\ form \in Form
  /\ scans \subseteq Scanning /\ saves \subseteq Saving

\* A scan that ends shows its preview on whatever number the user has typed meanwhile: nothing
\* is saved under a number that is none, no page has two scans or two saves under way, and
\* no step is shown without what it shows (Scan.tsx 84-118, 544-580).
ScanSaved ==
  /\ \A s \in saves : s.no \in DiscNo /\ s.result \in Folder
  /\ \A s, q \in scans : s.page = q.page => s = q
  /\ \A s, q \in saves : s.page = q.page => s = q
  /\ form.step = 3 => PreviewShown
  /\ form.step = 4 => SavedShown
=============================================================================
