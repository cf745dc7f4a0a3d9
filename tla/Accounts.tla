------------------------------ MODULE Accounts ------------------------------
(***************************************************************************)
(* Accounts: the directory's users, vaults, sessions and devices           *)
(* (apps/api/src/directory/directory.ts, auth/better-auth.ts, app.ts,      *)
(* index.ts) and the browsers that sign in, open a vault, register their   *)
(* device and sign out (apps/web/src/account, app/session.tsx).            *)
(*                                                                         *)
(* A browser has one cookie jar and, because the file handles of the       *)
(* pool are exclusive, one open vault; its tabs stay open over a sign-in   *)
(* in another tab.  An action is one handler, or the part of it between    *)
(* two awaits where another request can come between.                      *)
(***************************************************************************)
EXTENDS Integers, FiniteSets

CONSTANTS
  Email,       \* people with a Google account
  Browser,
  None,
  MaxUsers,    \* bound: users ever created
  MaxSessions, \* bound: sessions ever created
  MaxDevices,  \* bound: device ids ever made
  MaxIds,      \* bound: users, sessions, device ids and operator requests together
  MaxOps,      \* bound: operator requests
  MaxBusy,     \* bound: sign-ups, starts, sign-outs and left registrations at work together
  Caps         \* values the operator gives app_config.max_users

ASSUME AccountsAssumption ==
  /\ IsFiniteSet(Browser) /\ Browser # {}
  /\ MaxUsers \in Nat /\ MaxSessions \in Nat /\ MaxDevices \in Nat
  /\ MaxIds \in Nat /\ MaxBusy \in Nat
  /\ MaxOps \in Nat
  /\ Caps \subseteq Nat \ {0} /\ IsFiniteSet(Caps) /\ Caps # {}
  /\ None \notin Nat \cup Browser

VARIABLES
  users, vaults, sessions, devices,  \* D1 tables
  config,    \* D1 app_config and invite: [mode, cap, invites]
  peak,      \* history: the largest max_users there was
  cloud,     \* of each vault object, the other vaults its rows were made in
  cookie,    \* of each browser: None, or the session cookie with its cached user
  files,     \* of each browser, the local database of each vault
  open,      \* of each browser, the vault its tabs have open
  known,     \* of each browser, discvault:accounts in localStorage
  signing,   \* of each browser, its OAuth callback at the server
  boot,      \* of each browser, its bootstrapAccount
  registering,  \* the registrations at the server between SELECT and upsert; two that are the
                \* same in all that is kept of them here count as one
  ending,    \* of each browser, its account deletion or sign-out
  count      \* ids given out and operator requests made

d1Vars == <<users, vaults, sessions, devices>>
opVars == <<config, peak>>
webVars == <<cookie, files, open, known>>
accountVars == <<d1Vars, opVars, cloud, webVars, signing, boot,
                 registering, ending, count>>

Id == 1..MaxUsers
User == [id: Id, email: Email, vault: Id]
Vault == [id: Id, owner: Id]
Session == [id: 1..MaxSessions, user: Id]
Device == [id: 1..MaxDevices, user: Id, vault: Id, session: 1..MaxSessions, revoked: BOOLEAN,
           alone: BOOLEAN]  \* history: of the registration that wrote it last
Cookie == [session: 1..MaxSessions, user: Id, vault: Id, fresh: BOOLEAN]
File == [device: 0..MaxDevices, rows: SUBSET Id]
Signing == [step: {"no", "insert", "provision", "session"},
            email: Email \cup {None}, user: Id \cup {None},
            alone: BOOLEAN]   \* history: no other sign-up was between decision and insert
Boot == [step: {"no", "provision", "open", "register", "upsert"}, user: Id \cup {None},
         vault: Id \cup {None}]
Registering == [page: Browser \cup {None},  \* the browser whose page still waits for the answer
                device: 1..MaxDevices, user: Id, vault: Id, session: 1..MaxSessions,
                alone: BOOLEAN]  \* history: none of another user for this device overlapped
Ending == [step: {"no", "rows", "signout", "wipe", "forget"}, user: Id \cup {None},
           vault: Id \cup {None}]

NoFile == [device |-> 0, rows |-> {}]
NotSigning == [step |-> "no", email |-> None, user |-> None, alone |-> TRUE]
Idle == [step |-> "no", user |-> None, vault |-> None]

AccountsInit ==
  /\ users = {} /\ vaults = {} /\ sessions = {} /\ devices = {}
  /\ peak \in Caps /\ config = [mode |-> "invite", cap |-> peak, invites |-> {}]
  /\ cloud = [v \in Id |-> {}]
  /\ cookie = [b \in Browser |-> None]
  /\ files = [b \in Browser |-> [v \in Id |-> NoFile]]
  /\ open = [b \in Browser |-> None]
  /\ known = [b \in Browser |-> {}]
  /\ signing = [b \in Browser |-> NotSigning]
  /\ boot = [b \in Browser |-> Idle] /\ registering = {}
  /\ ending = [b \in Browser |-> Idle]
  /\ count = [users |-> 0, sessions |-> 0, devices |-> 0, ops |-> 0]

Room == count.users + count.sessions + count.devices + count.ops < MaxIds

\* What a browser does, and what it does not wait for any more.
Busy ==
  Cardinality({b \in Browser : signing[b].step # "no"})
    + Cardinality({b \in Browser : boot[b] # Idle})
    + Cardinality({b \in Browser : ending[b] # Idle})
    + Cardinality({r \in registering : r.page = None})

UserExists(u) == \E x \in users : x.id = u
----------------------------------------------------------------------------
(***************************************************************************)
(* Sign-up and sign-in: the OAuth callback of Better Auth with the         *)
(* databaseHooks of better-auth.ts.                                        *)
(***************************************************************************)
\* Mutant: the user cap is not counted.
SignupOpen(e) ==
  config.mode = "open" \/ (config.mode = "invite" /\ e \in config.invites)

\* decideSignup: the mode, the invite, and the users counted before the insert.
DecideSignup(e) ==
  /\ config.mode = "open" \/ (config.mode = "invite" /\ e \in config.invites)
  /\ Cardinality(users) < config.cap

\* A known account goes on to its session; a new one is decided on (user.create.before).
Callback(b, e) ==
  LET have == {x \in users : x.email = e}
      others == {x \in Browser : signing[x].step = "insert"}
      next == [step |-> "session", email |-> e, user |-> None, alone |-> TRUE]
  IN /\ signing[b].step = "no"
     /\ Busy < MaxBusy
     /\ \/ \E x \in have : signing' = [signing EXCEPT ![b] = [next EXCEPT !.user = x.id]]
        \/ /\ have = {} /\ DecideSignup(e)
           /\ signing' = [x \in Browser |->
                IF x = b THEN [next EXCEPT !.step = "insert", !.alone = others = {}]
                ELSE IF x \in others THEN [signing[x] EXCEPT !.alone = FALSE]
                ELSE signing[x]]
     /\ UNCHANGED <<d1Vars, opVars, registering, cloud, webVars, boot, ending, count>>

\* The user row, with a vault id of its own: the email is unique.
InsertUser(b) ==
  LET s == signing[b]
      n == count.users + 1
  IN /\ s.step = "insert"
     /\ \/ /\ \A x \in users : x.email # s.email
           /\ n <= MaxUsers /\ Room
           /\ users' = users \cup {[id |-> n, email |-> s.email, vault |-> n]}
           /\ count' = [count EXCEPT !.users = n]
           /\ signing' = [signing EXCEPT ![b] = [s EXCEPT !.step = "provision", !.user = n,
                                                        !.alone = TRUE]]
        \/ /\ \E x \in users : x.email = s.email
           /\ signing' = [signing EXCEPT ![b] = NotSigning]
           /\ UNCHANGED <<users, count>>
     /\ UNCHANGED <<vaults, sessions, devices, opVars, registering, cloud, webVars, boot, ending>>

\* INSERT OR IGNORE INTO vault: one per owner, and the owner must exist.
Provision(u, v) ==
  vaults' = IF \E x \in vaults : x.id = v \/ x.owner = u
              THEN vaults ELSE vaults \cup {[id |-> v, owner |-> u]}

\* user.create.after: when it fails, the user is left without a vault and a session.
ProvisionNew(b) ==
  LET s == signing[b]
      x == CHOOSE y \in users : y.id = s.user
  IN /\ s.step = "provision"
     /\ \/ /\ UserExists(s.user)
           /\ Provision(s.user, x.vault)
           /\ signing' = [signing EXCEPT ![b].step = "session"]
        \/ /\ signing' = [signing EXCEPT ![b] = NotSigning]
           /\ UNCHANGED vaults
     /\ UNCHANGED <<users, sessions, devices, opVars, registering, cloud, webVars, boot, ending,
                    count>>

\* The session row and its cookie, which carries the user's vault id.  The browser returns
\* to the app: the tab that signed in starts over, other tabs stay as they are.
CreateSession(b) ==
  LET s == signing[b]
      n == count.sessions + 1
      x == CHOOSE y \in users : y.id = s.user
  IN /\ s.step = "session"
     /\ \/ /\ UserExists(s.user) /\ n <= MaxSessions /\ Room
           /\ sessions' = sessions \cup {[id |-> n, user |-> s.user]}
           /\ cookie' = [cookie EXCEPT ![b] = [session |-> n, user |-> s.user,
                                               vault |-> x.vault, fresh |-> TRUE]]
           /\ count' = [count EXCEPT !.sessions = n]
        \/ ~UserExists(s.user) /\ UNCHANGED <<sessions, cookie, count>>
     /\ signing' = [signing EXCEPT ![b] = NotSigning]
     /\ UNCHANGED <<users, vaults, devices, opVars, registering, cloud, files, open, known,
                    boot, ending>>
----------------------------------------------------------------------------
(***************************************************************************)
(* resolveScope.  Every request of a browser carries its one cookie.       *)
(***************************************************************************)
\* getSession trusts the signed cookie for five minutes, then reads D1 again.
HasScope(b) ==
  /\ cookie[b] # None
  /\ cookie[b].fresh \/ \E s \in sessions : s.id = cookie[b].session

Refreshed(b) == [cookie EXCEPT ![b].fresh = TRUE]

\* It makes no difference while the session is there: it would be read and trusted again.
CacheExpires(b) ==
  /\ cookie[b] # None /\ cookie[b].fresh /\ \A s \in sessions : s.id # cookie[b].session
  /\ cookie' = [cookie EXCEPT ![b].fresh = FALSE]
  /\ UNCHANGED <<d1Vars, opVars, registering, cloud, files, open, known, signing, boot, ending,
                 count>>
----------------------------------------------------------------------------
(***************************************************************************)
(* bootstrapAccount: GET /account, open, POST /devices, rememberAccount.   *)
(***************************************************************************)
Booting(b, step) == boot[b].step = step
BootEnds(b) == boot' = [boot EXCEPT ![b] = Idle]

\* GET /account: a user without a vault row gets one.
GetAccount(b) ==
  LET u == cookie[b].user
      own == {v \in vaults : v.owner = u}
  IN /\ Booting(b, "no") /\ HasScope(b)
     /\ Busy < MaxBusy
     /\ cookie' = Refreshed(b)
     /\ \/ \E v \in own : boot' = [boot EXCEPT ![b] = [step |-> "open", user |-> u,
                                                       vault |-> v.id]]
        \/ own = {} /\ boot' = [boot EXCEPT ![b] = [step |-> "provision", user |-> u,
                                                    vault |-> cookie[b].vault]]
     /\ UNCHANGED <<d1Vars, opVars, registering, cloud, files, open, known, signing, ending,
                    count>>

\* Mutant: GET /account answers with the vault id of the session and stores nothing.
Answered(u, v) == UserExists(u) /\ vaults' = vaults

Provisioned(u, v) == UserExists(u) /\ Provision(u, v)

\* The foreign key refuses the vault of a deleted user: 500, and the page shows Retry.
GetAccountProvision(b) ==
  /\ Booting(b, "provision")
  /\ \/ /\ Provisioned(boot[b].user, boot[b].vault)
        /\ boot' = [boot EXCEPT ![b].step = "open"]
     \/ /\ ~UserExists(boot[b].user)
        /\ BootEnds(b) /\ UNCHANGED vaults
  /\ UNCHANGED <<users, sessions, devices, opVars, registering, cloud, webVars, signing, ending,
                 count>>

\* open(): fails while another tab keeps another vault open.
OpenVault(b) ==
  /\ Booting(b, "open")
  /\ \/ /\ open[b] \in {None, boot[b].vault}
        /\ open' = [open EXCEPT ![b] = boot[b].vault]
        /\ boot' = [boot EXCEPT ![b].step = "register"]
     \/ open[b] \notin {None, boot[b].vault} /\ BootEnds(b) /\ UNCHANGED open
  /\ UNCHANGED <<d1Vars, opVars, registering, cloud, cookie, files, known, signing, ending,
                 count>>

\* deviceId: made once per file.
DeviceId(b, v) ==
  IF files[b][v].device # 0 THEN files[b][v].device ELSE count.devices + 1

\* Mutant: a device row may be taken over by another user's session.
TakesDevice(d, u) == TRUE

OwnsDevice(d, u) == \A x \in devices : x.id = d => x.user = u

\* The upsert: an old row keeps user and vault, takes the session and is no longer revoked; for
\* a new one the foreign keys ask for the user and the vault.
RegisterDevice(r) ==
  LET old == {x \in devices : x.id = r.device}
      new == IF old = {}
               THEN [id |-> r.device, user |-> r.user, vault |-> r.vault, session |-> r.session,
                     revoked |-> FALSE, alone |-> r.alone]
               ELSE [(CHOOSE x \in old : TRUE) EXCEPT !.session = r.session, !.revoked = FALSE,
                                                      !.alone = r.alone]
  IN /\ old = {} => UserExists(r.user) /\ \E x \in vaults : x.id = r.vault
     /\ devices' = (devices \ old) \cup {new}

\* POST /devices goes out with the cookie the browser has by now; registerDevice reads the
\* owner of the id.  Or it is refused, or fails, and the page shows Retry.
Register(b) ==
  LET v == boot[b].vault
      d == DeviceId(b, v)
      c == cookie[b]
      others == {r \in registering : r.device = d /\ r.user # c.user}
  IN /\ Booting(b, "register")
     /\ d <= MaxDevices /\ (d > count.devices => Room)
     /\ files' = [files EXCEPT ![b][v].device = d]
     /\ count' = [count EXCEPT !.devices = IF d > @ THEN d ELSE @]
     /\ \/ /\ HasScope(b) /\ OwnsDevice(d, c.user)
           /\ registering' = {[r EXCEPT !.alone = @ /\ r \notin others] : r \in registering}
                \cup {[page |-> b, device |-> d, user |-> c.user, vault |-> c.vault,
                       session |-> c.session, alone |-> others = {}]}
           /\ cookie' = Refreshed(b)
           /\ boot' = [boot EXCEPT ![b].step = "upsert"]
        \/ /\ cookie' = cookie \/ (HasScope(b) /\ cookie' = Refreshed(b))
           /\ BootEnds(b) /\ UNCHANGED registering
     /\ UNCHANGED <<d1Vars, opVars, cloud, open, known, signing, ending>>

\* The upsert of one that found no other owner, or its failure; a page that waits remembers
\* the account, or shows Retry.
Upsert(r) ==
  /\ registering' = registering \ {r}
  /\ \/ /\ RegisterDevice(r)
        /\ known' = [b \in Browser |->
                       IF b = r.page THEN known[b] \cup {boot[b].user} ELSE known[b]]
     \/ UNCHANGED <<devices, known>>
  /\ boot' = [b \in Browser |-> IF b = r.page THEN Idle ELSE boot[b]]
  /\ UNCHANGED <<users, vaults, sessions, opVars, cloud, cookie, files, open, signing, ending,
                 count>>

\* Nobody waits any more for what browser b asked; at the server it goes on.
Abandoned(b) == {[r EXCEPT !.page = IF @ = b THEN None ELSE @] : r \in registering}

\* API_TIMEOUT_MS: the page shows Retry, with the vault open.
RegisterTimesOut(b) ==
  /\ Booting(b, "upsert")
  /\ BootEnds(b)
  /\ registering' = Abandoned(b)
  /\ UNCHANGED <<d1Vars, opVars, cloud, webVars, signing, ending, count>>

\* The tabs are closed: whatever they were doing stops.
CloseTabs(b) ==
  /\ open[b] # None \/ boot[b] # Idle
  /\ open' = [open EXCEPT ![b] = None]
  /\ boot' = [boot EXCEPT ![b] = Idle]
  /\ registering' = Abandoned(b)
  /\ ending' = [ending EXCEPT ![b] = IF @.step = "rows" THEN @ ELSE Idle]
  /\ UNCHANGED <<d1Vars, opVars, cloud, cookie, files, known, signing, count>>
----------------------------------------------------------------------------
(***************************************************************************)
(* Work on an open vault.                                                  *)
(***************************************************************************)
\* A sync pushes the changes of the open file, when it has any, to the vault of the cookie,
\* and pulls that vault's rows.  A file's rows are the vaults, not its own, they come from.
Sync(b) ==
  LET v == open[b]
      w == cookie[b].vault
  IN /\ v # None /\ HasScope(b)
     /\ \E sent \in SUBSET {v} :
          /\ cloud' = [cloud EXCEPT ![w] = @ \cup (sent \ {w})]
          /\ files' = [files EXCEPT ![b][v].rows = @ \cup ((cloud[w] \cup {w}) \ {v})]
     /\ cookie' = Refreshed(b)
     /\ UNCHANGED <<d1Vars, opVars, registering, open, known, signing, boot, ending, count>>

\* DELETE /devices/:id: marks the user's own device and signs out its session.
Revoke(b) == \E x \in devices :
  /\ HasScope(b) /\ x.user = cookie[b].user /\ ~x.revoked
  /\ devices' = (devices \ {x}) \cup {[x EXCEPT !.revoked = TRUE]}
  /\ sessions' = {s \in sessions : ~(s.id = x.session /\ s.user = x.user)}
  /\ cookie' = Refreshed(b)
  /\ UNCHANGED <<users, vaults, opVars, registering, cloud, files, open, known, signing, boot,
                 ending, count>>
----------------------------------------------------------------------------
(***************************************************************************)
(* Account deletion and sign-out.                                          *)
(***************************************************************************)
\* Better Auth's sign-out: the session of the cookie, whichever it is by now.
SignedOut(b) ==
  /\ cookie' = [cookie EXCEPT ![b] = None]
  /\ sessions' = {s \in sessions : cookie[b] = None \/ s.id # cookie[b].session}

\* The menus' "Sign out" leaves the vault open in every tab.
SignOut(b) ==
  /\ cookie[b] # None /\ ending[b] = Idle
  /\ SignedOut(b)
  /\ UNCHANGED <<users, vaults, devices, opVars, registering, cloud, files, open, known,
                 signing, boot, ending, count>>

\* DELETE /account: the emails of the page and of the cookie must agree; the vault object is
\* wiped before the rows go.
DeleteAccount(b) ==
  LET c == cookie[b]
      mine == {x \in users : x.vault = open[b]}
  IN /\ ending[b] = Idle /\ Booting(b, "no") /\ open[b] # None /\ HasScope(b)
     /\ Busy < MaxBusy
     /\ \E x \in mine, y \in users : x.email = y.email /\ y.id = c.user
     /\ cloud' = [cloud EXCEPT ![c.vault] = {}]
     /\ cookie' = Refreshed(b)
     /\ ending' = [ending EXCEPT ![b] = [step |-> "rows", user |-> c.user, vault |-> c.vault]]
     /\ UNCHANGED <<d1Vars, opVars, registering, files, open, known, signing, boot, count>>

\* Mutant: the vault row stays.
DeletedButVault(u, v) ==
  /\ devices' = {d \in devices : d.user # u}
  /\ vaults' = vaults
  /\ sessions' = {s \in sessions : s.user # u}
  /\ users' = {x \in users : x.id # u}

\* deleteAccountRows, one batch; the foreign keys cascade.
DeletedRows(u, v) ==
  /\ devices' = {d \in devices : d.user # u /\ d.vault # v}
  /\ vaults' = {x \in vaults : x.id # v /\ x.owner # u}
  /\ sessions' = {s \in sessions : s.user # u}
  /\ users' = {x \in users : x.id # u}

DeleteRows(b) ==
  /\ ending[b].step = "rows"
  /\ DeletedRows(ending[b].user, ending[b].vault)
  /\ ending' = [ending EXCEPT ![b] = IF open[b] = None THEN Idle ELSE [@ EXCEPT !.step = "signout"]]
  /\ UNCHANGED <<opVars, registering, cloud, webVars, signing, boot, count>>

\* signOutAndWipe: sign out, delete the file, forget the account, each of which can fail.
StartWipe(b) ==
  /\ ending[b] = Idle /\ Booting(b, "no") /\ open[b] # None /\ Busy < MaxBusy
  /\ \E u \in known[b] :
       ending' = [ending EXCEPT ![b] = [step |-> "signout", user |-> u, vault |-> open[b]]]
  /\ UNCHANGED <<d1Vars, opVars, registering, cloud, webVars, signing, boot, count>>

WipeSignsOut(b) ==
  /\ ending[b].step = "signout"
  /\ SignedOut(b)
  /\ ending' = [ending EXCEPT ![b].step = "wipe"]
  /\ UNCHANGED <<users, vaults, devices, opVars, registering, cloud, files, open, known,
                 signing, boot, count>>

WipeFile(b) ==
  /\ ending[b].step = "wipe"
  /\ files' = [files EXCEPT ![b][ending[b].vault] = NoFile]
  /\ open' = [open EXCEPT ![b] = IF @ = ending[b].vault THEN None ELSE @]
  /\ ending' = [ending EXCEPT ![b].step = "forget"]
  /\ UNCHANGED <<d1Vars, opVars, registering, cloud, cookie, known, signing, boot, count>>

ForgetAccount(b) ==
  /\ ending[b].step = "forget"
  /\ known' = [known EXCEPT ![b] = @ \ {ending[b].user}]
  /\ ending' = [ending EXCEPT ![b] = Idle]
  /\ UNCHANGED <<d1Vars, opVars, registering, cloud, cookie, files, open, signing, boot, count>>

\* A step of signOutAndWipe fails: the rest is not done, the page stays.
EndingFails(b) ==
  /\ ending[b].step \in {"signout", "wipe"}
  /\ ending' = [ending EXCEPT ![b] = Idle]
  /\ UNCHANGED <<d1Vars, opVars, registering, cloud, webVars, signing, boot, count>>
----------------------------------------------------------------------------
(***************************************************************************)
(* Operator requests: /ops/config and /ops/invites.                        *)
(***************************************************************************)
Configure ==
  /\ count.ops < MaxOps /\ Room
  /\ count' = [count EXCEPT !.ops = @ + 1]
  /\ \/ \E m \in {"open", "invite", "closed"} : config' = [config EXCEPT !.mode = m]
     \/ \E c \in Caps : config' = [config EXCEPT !.cap = c]
     \/ \E e \in Email : config' = [config EXCEPT !.invites = @ \cup {e}]
     \/ \E e \in config.invites : config' = [config EXCEPT !.invites = @ \ {e}]
  /\ peak' = IF config'.cap > peak THEN config'.cap ELSE peak
  /\ UNCHANGED <<d1Vars, cloud, webVars, signing, boot, registering, ending>>
----------------------------------------------------------------------------
BrowserStep(b) ==
  \/ \E e \in Email : Callback(b, e)
  \/ InsertUser(b) \/ ProvisionNew(b) \/ CreateSession(b)
  \/ CacheExpires(b)
  \/ GetAccount(b) \/ GetAccountProvision(b) \/ OpenVault(b)
  \/ Register(b) \/ RegisterTimesOut(b) \/ CloseTabs(b)
  \/ Sync(b) \/ Revoke(b)
  \/ SignOut(b) \/ DeleteAccount(b) \/ DeleteRows(b)
  \/ StartWipe(b) \/ WipeSignsOut(b) \/ WipeFile(b) \/ ForgetAccount(b) \/ EndingFails(b)

AccountsNext ==
  \/ \E b \in Browser : BrowserStep(b)
  \/ \E r \in registering : Upsert(r)
  \/ Configure

AccountsSpec == AccountsInit /\ [][AccountsNext]_accountVars
----------------------------------------------------------------------------
\* The tables, cookies and procedures hold what the code keeps in them.
AccountsTypeOK ==
  /\ users \subseteq User /\ vaults \subseteq Vault
  /\ sessions \subseteq Session /\ devices \subseteq Device
  /\ config \in [mode: {"open", "invite", "closed"}, cap: Caps, invites: SUBSET Email]
  /\ cloud \in [Id -> SUBSET Id]
  /\ cookie \in [Browser -> Cookie \cup {None}]
  /\ files \in [Browser -> [Id -> File]]
  /\ open \in [Browser -> Id \cup {None}]
  /\ known \in [Browser -> SUBSET Id]
  /\ signing \in [Browser -> Signing]
  /\ boot \in [Browser -> Boot]
  /\ registering \subseteq Registering
  /\ ending \in [Browser -> Ending]

\* The vault row of a user is the vault of the user's sessions, and there is one: GET /account
\* names the first, every other route opens the second (app.ts 102, index.ts 10).
VaultAgrees ==
  \A v \in vaults :
    /\ \E u \in users : u.id = v.owner /\ u.vault = v.id
    /\ \A b \in Browser : cookie[b] # None /\ cookie[b].user = v.owner
                             => cookie[b].vault = v.id

\* The cap is passed only by sign-ups that are decided while another one is on its way to its
\* insert, so never by more than the callbacks that can be at work together (directory.ts 34).
SignupBounded ==
  /\ Cardinality(users) <= peak - 1 + Cardinality(Browser)
  /\ \A b \in Browser :
       signing[b].step = "insert" /\ signing[b].alone => Cardinality(users) < peak

\* A device's row is of the owner of its vault; and any session it names is that user's, unless
\* its last registration overlapped one of another account for the same id: revoking it signs
\* out the session the list shows with it (directory.ts 144, 169).  Where the two overlap, both
\* find no other owner, and the second upsert leaves its session in the row of the first.
DevicesOwned ==
  \A d \in devices :
    /\ [id |-> d.vault, owner |-> d.user] \in vaults
    /\ d.alone => \A s \in sessions : s.id = d.session => s.user = d.user

\* A vault a browser has open is in the directory as long as its user is: a sign-up that
\* failed half way is repaired before the app is usable (index.ts 16, app.ts 104).
OpenProvisioned ==
  \A b \in Browser : \A u \in users :
    open[b] = u.vault => [id |-> u.vault, owner |-> u.id] \in vaults

\* "Signing in with another Google account in the same browser opens a different file, so
\* data never mixes" (WEB_APP_ARCHITECTURE.md 3.4): no rows of one vault get into another's
\* file or object.
DataNeverMixes ==
  /\ \A v \in Id : cloud[v] = {}
  /\ \A b \in Browser, v \in Id : files[b][v].rows = {}
=============================================================================
