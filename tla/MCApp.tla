------------------------------- MODULE MCApp -------------------------------
(***************************************************************************)
(* TLC instance of seven parts of the app that share no state: accounts    *)
(* (Accounts), AI identification (Analysis), the API keys and generated    *)
(* icons (Icons), the scan wizard (ScanWizard), schema migrations          *)
(* (Migrations), the way of a disc's tree through the catalog (Catalog)    *)
(* and the queries of the screens (Screens).  A behaviour is one of one of *)
(* them, and the variables of the others keep their initial values.        *)
(***************************************************************************)
EXTENDS Accounts, Analysis, Icons, ScanWizard, Migrations, Catalog, Screens

VARIABLE part      \* the module whose behaviour this is

appVars == <<part, accountVars, analysisVars, iconVars, scanVars, migrationVars, catalogVars,
             screenVars>>

\* The initial states of the part, and one initial state of every other.
AppInit ==
  /\ part \in {"accounts", "analysis", "icons", "scan", "migrations", "catalog",
              "screens"}
  /\ AccountsInit /\ (part # "accounts" => peak = CHOOSE c \in Caps : TRUE)
  /\ AnalysisInit /\ (part # "analysis" => \A d \in Disc : ~discs[d].titled)
  /\ IconsInit /\ (part # "icons" => ~stores["gemini"].legacy)
  /\ ScanInit /\ (part # "scan" => catalog = {} /\ ~preset)
  /\ MigrationsInit /\ (part # "migrations" => kind = "client" /\ release = Latest)
  /\ CatalogInit /\ (part # "catalog" => source = "walk")
  /\ ScreensInit

OfAccounts(A) ==
  /\ part = "accounts" /\ A
  /\ UNCHANGED <<part, analysisVars, iconVars, scanVars, migrationVars, catalogVars,
                 screenVars>>
OfAnalysis(A) ==
  /\ part = "analysis" /\ A
  /\ UNCHANGED <<part, accountVars, iconVars, scanVars, migrationVars, catalogVars,
                 screenVars>>
OfIcons(A) ==
  /\ part = "icons" /\ A
  /\ UNCHANGED <<part, accountVars, analysisVars, scanVars, migrationVars, catalogVars,
                 screenVars>>
OfScan(A) ==
  /\ part = "scan" /\ A
  /\ UNCHANGED <<part, accountVars, analysisVars, iconVars, migrationVars, catalogVars,
                 screenVars>>
OfMigrations(A) ==
  /\ part = "migrations" /\ A
  /\ UNCHANGED <<part, accountVars, analysisVars, iconVars, scanVars, catalogVars,
                 screenVars>>
OfCatalog(A) ==
  /\ part = "catalog" /\ A
  /\ UNCHANGED <<part, accountVars, analysisVars, iconVars, scanVars, migrationVars,
                 screenVars>>
OfScreens(A) ==
  /\ part = "screens" /\ A
  /\ UNCHANGED <<part, accountVars, analysisVars, iconVars, scanVars, migrationVars,
                 catalogVars>>

AppNext ==
  \/ OfAccounts(AccountsNext) \/ OfAnalysis(AnalysisNext) \/ OfIcons(IconsNext)
  \/ OfScan(ScanNext) \/ OfMigrations(MigrationsNext) \/ OfCatalog(CatalogNext)
  \/ OfScreens(ScreensNext)

AppSpec == AppInit /\ [][AppNext]_appVars

\* Browsers and emails are interchangeable.
AppSymmetry == Permutations(Browser) \cup Permutations(Email)

\* What each module declares of its variables: the tables, cookies and procedures of accounts,
\* the items and runs, the stores, the form, the schema, the rows of a disc and the query cache.
AppTypeOK ==
  /\ AccountsTypeOK /\ AnalysisTypeOK /\ IconsTypeOK
  /\ ScanTypeOK /\ MigrationsTypeOK /\ CatalogTypeOK /\ ScreensTypeOK

\* The calls to Gemini stay within what the code promises to spend: one bulk run at a time
\* (bulk-analyze.ts 72), one call per icon and none after a failure (genre-icon.tsx 145).
CallsSpared == OneBulkRun /\ IconsSpared
=============================================================================
